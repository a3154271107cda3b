---------------------------- MODULE Definitions -----------------------------
(***************************************************************************)
(* What is accepted as a workflow definition (modules/workflow/domain/jwss,*)
(* the structural rules of JWSS section 8) and what the engine then makes  *)
(* of it (domain/graph, service/engine): one process on one definition.    *)
(*                                                                         *)
(* A condition reads the form, the actor and the variables, and may come   *)
(* out either way.  Who may take an edge, guards, comments and the shape   *)
(* of the JSON are left out: they refuse, and move nothing.                *)
(***************************************************************************)
EXTENDS Naturals, FiniteSets, Sequences, SequencesExt

CONSTANTS
    Submitted,  \* the definitions an author may hand in
    MaxAuto     \* MAX_AUTOMATIC_STEPS

DecisionActions == {"APPROVE", "REJECT", "RETURN"}
Actions == DecisionActions \cup {"RESUBMIT", "AUTO", "CANCEL"}  \* CANCEL: one nobody fires
Codes == Nat \ {0}

Edges == [from : Codes, to : Codes, action : Actions, conditioned : BOOLEAN]

StatesOf(d) == DOMAIN d.task

DefinitionsConstantsOK ==
    /\ MaxAuto \in Nat \ {0}
    /\ \A d \in Submitted :
         /\ StatesOf(d) \subseteq Codes /\ IsFiniteSet(StatesOf(d))
         /\ d.initial \in Codes /\ d.final \subseteq StatesOf(d)
         /\ d.task \in [StatesOf(d) -> {"none", "human", "service"}]
         /\ DOMAIN d.status = StatesOf(d)
         /\ d.edges \in Seq(Edges)

VARIABLES
    definition,
    accepted,   \* whether it was accepted, saved and published
    at          \* the state the process rests in, 0 before it starts

definitionVars == <<definition, accepted, at>>

-----------------------------------------------------------------------------
(* The structural rules                                                    *)

\* walk: roots, and what can be reached from them along E, which is the least
\* set that has the roots and, with the start of an edge, its end.
Walk(E, roots) ==
    LET nodes == roots \cup {e[2] : e \in E}
    IN  {s \in nodes : \A seen \in SUBSET nodes :
            roots \subseteq seen /\ (\A e \in E : e[1] \in seen => e[2] \in seen) => s \in seen}

Declared(d) == \A e \in ToSet(d.edges) : {e.from, e.to} \subseteq StatesOf(d)   \* S2

UniqueTransitions(d) ==                                                      \* S3
    Cardinality({<<e.from, e.action, e.to>> : e \in ToSet(d.edges)}) = Len(d.edges)

Arrows(d) == {<<e.from, e.to>> : e \in ToSet(d.edges)}

NoOrphan(d) == StatesOf(d) \subseteq Walk(Arrows(d), {d.initial})

\* reachability_errors (S6): forward from the initial state, and backward from
\* the final ones.
Reachable(d) ==
    /\ NoOrphan(d)
    /\ StatesOf(d) \subseteq Walk({<<a[2], a[1]>> : a \in Arrows(d)}, d.final)

\* fallback_errors (S7)
OneFallback(d) ==
    \A i, j \in DOMAIN d.edges :
        LET e == d.edges[i]
            f == d.edges[j]
        IN  e.from = f.from /\ e.action = f.action /\ ~e.conditioned /\ ~f.conditioned => i = j

\* structural_errors, of a definition whose shape is right.
Accepted(d) ==
    /\ d.initial \in StatesOf(d) \ d.final                                     \* S1
    /\ Declared(d) /\ UniqueTransitions(d)
    /\ \A e \in ToSet(d.edges) : e.from \notin d.final                       \* S4
    /\ Reachable(d) /\ OneFallback(d)
    /\ {"COMPLETED", "CANCELLED"} \cap {d.status[s] : s \in StatesOf(d)} # {}  \* S9

-----------------------------------------------------------------------------
(* The engine                                                              *)

\* A mutant: the fallback is not put last.
TriedAsWritten(d, i, k) == i < k

\* Graph::candidates: document order, the fallback last.
TriedBefore(d, i, k) ==
    IF d.edges[i].conditioned = d.edges[k].conditioned THEN i < k ELSE d.edges[i].conditioned
Candidates(d, from, action) ==
    {k \in DOMAIN d.edges : d.edges[k].from = from /\ d.edges[k].action = action}

\* The first whose condition holds: any one with only conditions before it.
Chosen(d, from, action) ==
    LET c == Candidates(d, from, action)
    IN  {d.edges[k] : k \in {k \in c : \A i \in c : TriedBefore(d, i, k) => d.edges[i].conditioned}}

NoneMayHold(d, from, action) ==
    \A e \in ToSet(d.edges) : e.from = from /\ e.action = action => e.conditioned

Service(d) == {s \in StatesOf(d) : d.task[s] = "service"}
Automatic(d, reached) ==  \* one automatic step
    {e.to : e \in UNION {Chosen(d, s, "AUTO") : s \in reached \cap Service(d)}}

\* enter: where the process may come to rest.  The last automatic step that is
\* allowed for is refused, whatever state it leads to.
Settles(d, s) ==
    LET after[n \in 0..(MaxAuto - 1)] ==
            IF n = 0 THEN {s} ELSE Automatic(d, after[n - 1])
    IN  {t \in UNION {after[n] : n \in 0..(MaxAuto - 1)} :
            t \notin Service(d) \/ NoneMayHold(d, t, "AUTO")}

\* fire
Fired(d, s, action) == UNION {Settles(d, e.to) : e \in Chosen(d, s, action)}

\* decide asks for a task, and a resubmission for a returned document.
Offers(d, s) ==
    IF s \in d.final THEN {}
    ELSE (IF d.task[s] = "human" THEN DecisionActions ELSE {})
           \cup (IF d.status[s] = "RETURNED" THEN {"RESUBMIT"} ELSE {})

-----------------------------------------------------------------------------
DefinitionsInit == definition \in Submitted /\ accepted = FALSE /\ at = 0

\* validate_definition, at the save and again at the publish.
SaveDefinition ==
    /\ ~accepted /\ Accepted(definition)
    /\ accepted' = TRUE
    /\ UNCHANGED <<definition, at>>

Start ==
    /\ accepted /\ at = 0
    /\ at' \in Settles(definition, definition.initial)
    /\ UNCHANGED <<definition, accepted>>

Fire(action) ==
    /\ at # 0 /\ action \in Offers(definition, at)
    /\ at' \in Fired(definition, at, action)
    /\ UNCHANGED <<definition, accepted>>

DefinitionsNext == SaveDefinition \/ Start \/ \E action \in Actions : Fire(action)

DefinitionsSpec == DefinitionsInit /\ [][DefinitionsNext]_definitionVars

-----------------------------------------------------------------------------
DefinitionsTypeOK ==
    /\ definition \in Submitted
    /\ accepted \in BOOLEAN
    /\ at \in {0} \cup StatesOf(definition)

\* The steps a person can take.
Moves(d) ==
    {m \in StatesOf(d) \X StatesOf(d) : \E action \in Offers(d, m[1]) : m[2] \in Fired(d, m[1], action)}

(* What the rules leave to the author: every edge's action is one that can *)
(* be taken in its state, an automatic step always finds an edge, and no   *)
(* chain of them is as long as the limit.                                  *)
Workable(d) ==
    /\ \A e \in ToSet(d.edges) :
         IF e.from \in Service(d) THEN e.action = "AUTO" ELSE e.action \in Offers(d, e.from)
    /\ \A s \in Service(d) \ d.final : ~NoneMayHold(d, s, "AUTO")
    /\ Cardinality(Service(d)) < MaxAuto

(* jwss.rs:1012 "A workflow that can deadlock is a workflow that will":    *)
(* for every definition that is accepted and workable, a process can be    *)
(* brought to its end from wherever it may come to rest, in spite of the   *)
(* steps that refuse a chain, the order of edges and returns.              *)
WhatIsAcceptedCanFinish ==
    at # 0 /\ Workable(definition) => Walk(Moves(definition), {at}) \cap definition.final # {}
=============================================================================
