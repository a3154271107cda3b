----------------------------- MODULE Namespaces -----------------------------
(***************************************************************************)
(* Which names of the environment belong to which tenant                   *)
(* (modules/integration/domain/secret, modules/organization/domain).  A    *)
(* tenant's code is a sequence of tokens; a name is what follows           *)
(* KELIR_INTEGRATION_SECRET_, spelled the same way.                        *)
(***************************************************************************)
EXTENDS Naturals, SequencesExt

\* namespace_segment: a dash, which no variable's name may hold, is an underscore.
Segment(code) == [i \in DOMAIN code |-> IF code[i] = "-" THEN "_" ELSE code[i]]

\* tenant_prefix
TenantPrefix(code) == Segment(code) \o <<"_", "_">>

NamespacesOverlap(code, other) ==
    \/ IsPrefix(TenantPrefix(code), TenantPrefix(other))
    \/ IsPrefix(TenantPrefix(other), TenantPrefix(code))

IsSpelledIn(name, code) == IsStrictPrefix(TenantPrefix(code), name)

\* TenantNamespaces::admits: one of the caller's names, and no one else's.
Admits(name, caller, others) ==
    IsSpelledIn(name, caller) /\ \A other \in others : ~IsSpelledIn(name, other)

\* refuse_shared_secret_namespace: a code that is already there is left to the
\* unique index.
RefusesSharedNamespace(code, live) ==
    \E other \in live \ {code} : NamespacesOverlap(code, other)
=============================================================================
