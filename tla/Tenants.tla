------------------------------- MODULE Tenants -------------------------------
(***************************************************************************)
(* Tenants (modules/organization/service, auth/bootstrap, the tenant's     *)
(* half of auth/service): the first administrator of a deployment, created *)
(* by whichever replica starts first; the creation of a tenant with its    *)
(* administrator; suspending, resuming and deleting one; and what that     *)
(* does to the sessions of its users.                                      *)
(*                                                                         *)
(* A tenant is known by its code, which is unique for ever (the index is   *)
(* not partial).  A transaction is a step for each statement whose answer  *)
(* it acts on; a locked key is what the transactions that hold it have     *)
(* reached.                                                                *)
(***************************************************************************)
EXTENDS Namespaces, FiniteSets

CONSTANTS
    Codes, Default,
    Names,      \* secrets in the environment
    Replicas,   \* processes that start
    Makers,     \* creations under way
    Followed    \* tenants with a user whose one session is followed

TenantsConstantsOK ==
    /\ Default \in Codes /\ Followed \subseteq Codes
    /\ Codes \cup Names \subseteq Seq(STRING)

VARIABLES
    tenant,     \* tenants.status, or "none" or "deleted"
    admins,     \* users created with the tenant or at startup
    boot,       \* ensure_administrator in each replica
    maker,      \* create_tenant
    revoking,   \* tenants whose sessions a request has yet to revoke
    session,    \* the refresh token of a user of the tenant
    entry,      \* a sign-in or a refresh of that user
    late        \* renewals since the tenant went out of use

tenantVars == <<tenant, admins, boot, maker, revoking, session, entry, late>>

Live == {c \in Codes : tenant[c] \notin {"none", "deleted"}}

\* A deployment starts with its default tenant and no user.
TenantsInit ==
    /\ tenant = [c \in Codes |-> IF c = Default THEN "ACTIVE" ELSE "none"]
    /\ admins = [c \in Codes |-> 0]
    /\ boot = [r \in Replicas |-> "down"]
    /\ maker = [m \in Makers |-> [at |-> "idle"]]
    /\ revoking = {}
    /\ session = [c \in Followed |-> "none"]
    /\ entry = [c \in Followed |-> "none"]
    /\ late = [c \in Followed |-> 0]

AnyUserExists == \E c \in Codes : admins[c] > 0

-----------------------------------------------------------------------------
(* The first administrator                                                 *)

Booting(r, from, to) == boot[r] = from /\ boot' = [boot EXCEPT ![r] = to]
BootOnly == UNCHANGED <<tenant, admins, maker, revoking, session, entry, late>>

Start(r) == Booting(r, "down", "resolved") /\ tenant[Default] = "ACTIVE" /\ BootOnly

\* any_user_exists, before the password is hashed
CheckUsers(r) ==
    Booting(r, "resolved", IF AnyUserExists THEN "up" ELSE "hashing") /\ BootOnly

\* pg_try_advisory_xact_lock stands down where another holds the lock.
TryLock(r) ==
    /\ Booting(r, "hashing",
               IF \E q \in Replicas : boot[q] \in {"locked", "creating"} THEN "up" ELSE "locked")
    /\ BootOnly

RecheckNothing(r) == Booting(r, "locked", "creating") /\ BootOnly  \* the first look was enough

Recheck(r) == Booting(r, "locked", IF AnyUserExists THEN "up" ELSE "creating") /\ BootOnly

CreateAdministrator(r) ==
    /\ Booting(r, "creating", "up")
    /\ admins' = [admins EXCEPT ![Default] = @ + 1]
    /\ UNCHANGED <<tenant, maker, revoking, session, entry, late>>

\* The process ends, wherever it is, and what it had open with it.
Stop(r) == boot[r] # "down" /\ boot' = [boot EXCEPT ![r] = "down"] /\ BootOnly

Bootstrap(r) ==
    Start(r) \/ CheckUsers(r) \/ TryLock(r) \/ Recheck(r) \/ CreateAdministrator(r) \/ Stop(r)

-----------------------------------------------------------------------------
(* Creating a tenant                                                       *)

MakerOnly == UNCHANGED <<tenant, admins, boot, revoking, session, entry, late>>
Making(m, state) == maker' = [maker EXCEPT ![m] = state]

LockCodesUnheld(m, c) ==  \* the codes are read with nobody kept waiting
    /\ maker[m].at = "idle" /\ admins[Default] > 0
    /\ Making(m, [at |-> "locked", code |-> c]) /\ MakerOnly

\* require_tenant_administrator, then lock_tenant_codes
LockCodes(m, c) ==
    /\ maker[m].at = "idle" /\ admins[Default] > 0
    /\ \A n \in Makers : maker[n].at = "idle"
    /\ Making(m, [at |-> "locked", code |-> c]) /\ MakerOnly

\* live_codes and refuse_shared_secret_namespace
JudgeCode(m) ==
    /\ maker[m].at = "locked"
    /\ Making(m, IF RefusesSharedNamespace(maker[m].code, Live)
                   THEN [at |-> "idle"] ELSE [maker[m] EXCEPT !.at = "judged"])
    /\ MakerOnly

\* insert and provision_tenant_identity, in one transaction; a code that was
\* ever taken is a conflict.
CommitTenant(m) ==
    /\ maker[m].at = "judged"
    /\ LET c == maker[m].code
       IN IF tenant[c] = "none"
            THEN /\ tenant' = [tenant EXCEPT ![c] = "ACTIVE"]
                 /\ admins' = [admins EXCEPT ![c] = @ + 1]
            ELSE UNCHANGED <<tenant, admins>>
    /\ Making(m, [at |-> "idle"])
    /\ UNCHANGED <<boot, revoking, session, entry, late>>

AbandonTenant(m) ==
    maker[m].at # "idle" /\ Making(m, [at |-> "idle"]) /\ MakerOnly

Create(m) ==
    (\E c \in Codes : LockCodes(m, c)) \/ JudgeCode(m) \/ CommitTenant(m) \/ AbandonTenant(m)

-----------------------------------------------------------------------------
(* A tenant's status, and the sessions of its users                        *)

\* update_tenant: not the tenant it is administered from, unless to ACTIVE.
UpdateTenant(c, status) ==
    /\ admins[Default] > 0 /\ c \in Live
    /\ c = Default => status = "ACTIVE"
    /\ tenant' = [tenant EXCEPT ![c] = status]
    /\ revoking' = IF status = "ACTIVE" THEN revoking ELSE revoking \cup {c}
    /\ late' = [d \in Followed |-> IF d = c /\ status = "ACTIVE" THEN 0 ELSE late[d]]
    /\ UNCHANGED <<admins, boot, maker, session, entry>>

DeleteTenant(c) ==
    /\ admins[Default] > 0 /\ c \in Live \ {Default}
    /\ tenant' = [tenant EXCEPT ![c] = "deleted"]
    /\ revoking' = revoking \cup {c}
    /\ UNCHANGED <<admins, boot, maker, session, entry, late>>

\* revoke_sessions: a second statement
RevokeSessions(c) ==
    /\ c \in revoking /\ revoking' = revoking \ {c}
    /\ session' = [d \in Followed |-> IF d = c /\ session[d] = "live" THEN "revoked" ELSE session[d]]
    /\ UNCHANGED <<tenant, admins, boot, maker, entry, late>>

\* which the request may not live to run
LoseRevoke(c) ==
    /\ c \in revoking /\ revoking' = revoking \ {c}
    /\ UNCHANGED <<tenant, admins, boot, maker, session, entry, late>>

SessionOnly == UNCHANGED <<tenant, admins, boot, maker, revoking>>
NotRenewed == UNCHANGED late /\ SessionOnly
AdmitsSignIn(c) == tenant[c] = "ACTIVE"

\* resolve_for_sign_in
BeginSignIn(c) ==
    /\ entry[c] = "none" /\ AdmitsSignIn(c) /\ admins[c] > 0
    /\ entry' = [entry EXCEPT ![c] = "signing"]
    /\ UNCHANGED session /\ NotRenewed

StoreSession(c) ==
    /\ entry[c] = "signing"
    /\ entry' = [entry EXCEPT ![c] = "none"]
    /\ session' = [session EXCEPT ![c] = "live"] /\ NotRenewed

AdmitAnySession(c) ==  \* the revoke is relied on
    /\ entry[c] = "none" /\ session[c] = "live"
    /\ entry' = [entry EXCEPT ![c] = "renewing"]
    /\ UNCHANGED session /\ NotRenewed

\* admits_session: a tenant that is not active ends the user's sessions here.
BeginRefresh(c) ==
    /\ entry[c] = "none" /\ session[c] = "live"
    /\ IF AdmitsSignIn(c)
         THEN entry' = [entry EXCEPT ![c] = "renewing"] /\ UNCHANGED session
         ELSE session' = [session EXCEPT ![c] = "revoked"] /\ UNCHANGED entry
    /\ NotRenewed

\* The token is rotated if it is still live.
StoreRenewal(c) ==
    /\ entry[c] = "renewing"
    /\ entry' = [entry EXCEPT ![c] = "none"]
    /\ late' = IF session[c] = "live" /\ ~AdmitsSignIn(c)
               THEN [late EXCEPT ![c] = IF @ < 2 THEN @ + 1 ELSE @] ELSE late
    /\ UNCHANGED session /\ SessionOnly

EndEntry(c) ==
    /\ entry[c] # "none"
    /\ entry' = [entry EXCEPT ![c] = "none"]
    /\ UNCHANGED session /\ NotRenewed

-----------------------------------------------------------------------------
TenantsNext ==
    \/ \E r \in Replicas : Bootstrap(r)
    \/ \E m \in Makers : Create(m)
    \/ \E c \in Codes :
         \/ \E status \in {"ACTIVE", "SUSPENDED", "INACTIVE"} : UpdateTenant(c, status)
         \/ DeleteTenant(c) \/ RevokeSessions(c) \/ LoseRevoke(c)
    \/ \E c \in Followed :
         BeginSignIn(c) \/ StoreSession(c) \/ BeginRefresh(c) \/ StoreRenewal(c) \/ EndEntry(c)

TenantsSpec == TenantsInit /\ [][TenantsNext]_tenantVars

-----------------------------------------------------------------------------
(* Properties                                                              *)

TenantsTypeOK ==
    /\ tenant \in [Codes -> {"none", "ACTIVE", "SUSPENDED", "INACTIVE", "deleted"}]
    /\ admins \in [Codes -> Nat]
    /\ DOMAIN boot = Replicas /\ DOMAIN maker = Makers
    /\ revoking \subseteq Codes

(* No secret's name is spelled in two live tenants' codes, whatever        *)
(* creations run at once: the rule over prefixes and the lock behind which *)
(* it is asked are enough (create_tenant; #655, D-102).                    *)
NamesInCommon(c, d) == {name \in Names : IsSpelledIn(name, c) /\ IsSpelledIn(name, d)}
Apart == {p \in Codes \X Codes : p[1] = p[2] \/ NamesInCommon(p[1], p[2]) = {}}
NamespacesAreApart == Live \X Live \subseteq Apart

(* However many replicas start, are stopped and start again, a deployment  *)
(* gets one first administrator, and no tenant ever exists without one     *)
(* (ensure_administrator, create_tenant; D-13).                            *)
OneFirstAdministrator ==
    \A c \in Codes : IF c = Default THEN admins[c] <= 1
                     ELSE admins[c] = IF tenant[c] = "none" THEN 0 ELSE 1

(* A tenant out of use renews a session once at most, the refresh that was *)
(* under way: whether the revoke ran, was lost, or came before a late      *)
(* sign-in stored its token (refresh, revoke_sessions; #649).              *)
OutOfUseRenewsOnce == \A c \in Followed : late[c] <= 1

\* Each tenant has its own names and administrator, and no sessions once it is
\* out of use.
TenantsAreWhole == NamespacesAreApart /\ OneFirstAdministrator /\ OutOfUseRenewsOnce
=============================================================================
