------------------------------ MODULE MCSupport ------------------------------
(* Instances for TLC of what surrounds the approval core: governed changes,  *)
(* the two trees, revisions and the roles they name, delegated tasks,        *)
(* after-hooks, forms, what is accepted as a definition, and the row locks of *)
(* all requests.  They share nothing here: `part` says which one a behaviour *)
(* is about, and the others stay in their first state.                       *)
EXTENDS Authority, Governance, Publishing, AfterHooks, Hierarchy, Forms, Definitions, LockOrder,
        FiniteSets, Sequences, TLC

VARIABLE part

\* Two of the three documents have a type that is bound to a workflow.  The
\* first has a definition whose ends all settle, and a state that maps to
\* RETURNED and one to APPROVED that are not final.  The third's has a verdict
\* of either kind before its end, or an end that settles nothing.
MCUnderway == [d \in Routed |-> IF d = 1 THEN {"RETURNED", "APPROVED"}
                                ELSE {"DRAFT", "COMPLETED", "CANCELLED"}]
MCEnds == [d \in Routed |-> IF d = 1 THEN {"APPROVED", "REJECTED", "CANCELLED"}
                            ELSE {"ARCHIVED", "APPROVED", "REJECTED"}]

\* Two failures pause the handler for two ticks.  Of a tree, a third node is one
\* more than a path may have.

\* Two of whoever acts at once in a part: no part tells the two apart.
ASSUME Pair == Requests = Actors /\ Workers = Actors /\ Transactions = Actors
Symmetry == Permutations(Actors)

\* The first definition offers both of its tasks to roles; the second, of one
\* department, leaves its second task to the document's owner.
MCOffered == [c \in Contents |-> IF c = "c1" THEN <<"a", "b">> ELSE <<"a", "none">>]
MCDeciding == [c \in Contents |-> IF c = "c1" THEN <<{"a"}, {"b"}>> ELSE <<{"a"}, {}>>]
MCScope == [c \in Contents |-> IF c = "c1" THEN "none" ELSE "x"]

\* Forms of three fields, the second and the third in a container: none
\* computed and two conditionals, or at most two computed (one if it may be
\* generated, or read itself) and one conditional.
Reads == [reads : {{1}, {2}, {3}, {1, 2}, {1, 3}, {2, 3}}, partial : {FALSE}]
Divides == [reads : {{1}, {2}, {3}}, partial : {TRUE}]
Copies == [reads : {{1}, {2}, {3}}, partial : {FALSE}]
Reading(k) == {[reads |-> {k}, partial |-> partial] : partial \in BOOLEAN}

Typed == [mode |-> "entered", calculate |-> [reads |-> {}, partial |-> FALSE]]
Computations == [mode : {"derived"}, calculate : Reads \cup Divides]
                  \cup [mode : {"generated"}, calculate : Copies]
Calculations(n) ==
    {c \in [1..3 -> Computations \cup {Typed}] :
        /\ Cardinality({f \in 1..3 : c[f] # Typed}) = n
        /\ n = 2 => \A f \in 1..3 : c[f].mode # "generated" /\ f \notin c[f].calculate.reads}

Conditions == [action : {"show", "hide"}, logic : Copies]
                \cup [action : {"show"}, logic : Reading(1)]
MCConditionals(n) ==  \* the container's at 0
    {q \in [0..3 -> Conditions \cup {Always}] :
        /\ q[0].logic.reads \subseteq {1}
        /\ Cardinality({f \in 0..3 : q[f] # Always}) <= n}

Form(c, q) ==
    [mode |-> [f \in 1..3 |-> c[f].mode], calculate |-> [f \in 1..3 |-> c[f].calculate],
     conditional |-> [f \in 1..3 |-> q[f]], box |-> {2, 3}, boxConditional |-> q[0],
     required |-> {3}]
FormsOf(m, n) == {Form(c, q) : c \in Calculations(m), q \in MCConditionals(n)}
AllForms == FormsOf(0, 2) \cup FormsOf(1, 1) \cup FormsOf(2, 1)
PlainForm == Form([f \in 1..3 |-> Typed], [f \in 0..3 |-> Always])

\* Definitions of two states and a final one: any two edges out of the first to
\* different states and at most one, or one and its fallback, out of the second,
\* of the actions they offer; or one edge out of each, of any action and
\* anywhere, to a state that is not declared too; or no end that is one.
Serving == [task |-> "service", status |-> "IN_REVIEW", actions |-> {"AUTO"}]
Returned == [task |-> "none", status |-> "RETURNED", actions |-> {"RESUBMIT"}]
Review == [task |-> "human", status |-> "IN_REVIEW", actions |-> {"APPROVE", "RETURN"}]

EdgesFrom(s, actions, targets, conditioned) ==
    [from : {s}, to : targets, action : actions, conditioned : conditioned]
AtMostOne(edges) == {<<>>} \cup {<<e>> : e \in edges}
First(k) ==
    LET edges == EdgesFrom(1, k.actions, 1..3, BOOLEAN)
    IN  AtMostOne(edges) \cup {p \in edges \X edges : p[1].to < p[2].to}
Second(k) ==
    LET edges == EdgesFrom(2, k.actions, 1..3, BOOLEAN)
    IN  AtMostOne(edges)
          \cup {p \in edges \X edges : /\ p[1].action = p[2].action /\ p[1].to # p[2].to
                                       /\ ~p[1].conditioned /\ p[2].conditioned}
Anywhere(s) == AtMostOne(EdgesFrom(s, {"APPROVE", "RESUBMIT", "AUTO", "CANCEL"}, 1..4, {FALSE}))

Definition(k1, k2, last, edges) ==
    [initial |-> 1, final |-> {3}, task |-> <<k1.task, k2.task, "none">>,
     status |-> <<k1.status, k2.status, last>>, edges |-> edges]
PlainDefinition == Definition(Review, Review, "COMPLETED", <<>>)
AllDefinitions ==
    LET kinds == {Serving, Returned, Review}
        offered(k1, k2) ==
            {Definition(k1, k2, "COMPLETED", e1 \o e2) : e1 \in First(k1), e2 \in Second(k2)}
        any(k1, k2) ==
            {Definition(k1, k2, "COMPLETED", e1 \o e2) : e1 \in Anywhere(1), e2 \in Anywhere(2)}
        endless(k1, k2) ==
            {Definition(k1, k2, "APPROVED", <<e1, e2>>) :
               e1 \in EdgesFrom(1, k1.actions, {2}, {FALSE}), e2 \in EdgesFrom(2, k2.actions, {3}, {FALSE})}
    IN  UNION {offered(k1, k2) \cup any(k1, k2) \cup endless(k1, k2) : k1, k2 \in kinds}

\* Of a type with a form: drafts with it pinned and without, and one returned.
\* Of a governed type: two that are running for the first party, of which one
\* has had its change settled, a draft for the second party, and a draft without
\* a form.
MCTypeOf == [d \in Documents |-> IF d \in {4, 6, 7, 8} THEN "g" ELSE "t"]
MCStage == [d \in Documents |-> IF d \in {4, 8} THEN "running" ELSE IF d = 5 THEN "returned" ELSE "draft"]
MCSubject == [d \in Documents |-> IF d = 6 THEN "q" ELSE "p"]

ASSUME GovernanceConstants == GovernanceConstantsOK
ASSUME HierarchyConstants == TreesConstantsOK
ASSUME PublishingConstants == PublishingConstantsOK
ASSUME AuthorityConstants == ConstantsOK
ASSUME AfterHooksConstants == HooksConstantsOK
ASSUME FormsConstants == FormsConstantsOK
ASSUME DefinitionsConstants == DefinitionsConstantsOK
ASSUME LockOrderConstants == LocksConstantsOK

allVars == <<part, governanceVars, treeVars, publishingVars, vars,
             hookVars, formVars, definitionVars, lockVars>>

\* Two documents for one record with a direct write beside them, or one
\* document that can be pointed at another record, or the third one.
Governing ==
    /\ \/ part = "record" /\ record'["r2"] = record["r2"] /\ doc'[3] = doc[3]
                          /\ \A d \in 1..2 : doc'[d].link = "r1"
       \/ part = "document" /\ \A d \in 2..3 : doc'[d] = doc[d]
                            /\ writer' = writer
       \/ part = "unsettled" /\ record'["r2"] = record["r2"] /\ doc'[3].link = "r1"
                             /\ \A d \in 1..2 : doc'[d] = doc[d]
    /\ UNCHANGED <<part, treeVars, publishingVars, vars, hookVars, formVars,
                   definitionVars, lockVars>>

Arranging ==
    UNCHANGED <<part, governanceVars, publishingVars, vars, hookVars, formVars,
                definitionVars, lockVars>>

Publishing ==
    UNCHANGED <<part, governanceVars, treeVars, vars, hookVars, formVars,
                   definitionVars, lockVars>>

\* One window while accounts and roles change, one account locked at a time; or
\* two windows while none do, the first the owner's: they overlap, follow one
\* another to a third user, or lead back.
Delegating ==
    /\ \/ part = "delegation" /\ Cardinality(Users \ active') <= 1
                              /\ \A n \in 2..MaxWindows : window'[n] = window[n]
       \/ part = "windows" /\ UNCHANGED <<active, holders>>
                           /\ window'[1].from \in {None, Owner}
    /\ UNCHANGED <<part, governanceVars, treeVars, publishingVars, hookVars, formVars,
                   definitionVars, lockVars>>

Hooking ==
    UNCHANGED <<part, governanceVars, treeVars, publishingVars,
                vars, formVars, definitionVars, lockVars>>

Filling ==
    UNCHANGED <<part, governanceVars, treeVars, publishingVars, vars,
                hookVars, definitionVars, lockVars>>

Defining ==
    UNCHANGED <<part, governanceVars, treeVars, publishingVars, vars,
                hookVars, formVars, lockVars>>

Locking ==
    UNCHANGED <<part, governanceVars, treeVars, publishingVars, vars,
                hookVars, formVars, definitionVars>>

SupportInit ==
    /\ part \in {"record", "document", "unsettled", "trees", "publishing", "delegation",
                 "windows", "hooks", "forms", "definitions", "locks"}
    /\ GovernanceInit /\ TreesInit /\ PublishingInit /\ Init /\ HooksInit /\ LocksInit
    /\ \A d \in Docs : doc[d].link = "r1" /\ doc[d].data = "unreadable"
    /\ part \notin {"delegation", "windows"} => holders = {}
    /\ part # "hooks" => kind = "after"
    /\ part # "trees" => tree = "facilities"
    /\ IF part = "forms" THEN FormsInit
       ELSE form = PlainForm /\ status = "DRAFT" /\ stored = NoValues /\ sent = NoValues
    /\ IF part = "definitions" THEN DefinitionsInit
       ELSE definition = PlainDefinition /\ accepted = FALSE /\ at = 0

SupportNext ==
    \/ part \in {"record", "document", "unsettled"} /\ GovernanceNext /\ Governing
    \/ part = "trees" /\ TreesNext /\ Arranging
    \/ part = "publishing" /\ PublishingNext /\ Publishing
    \/ part \in {"delegation", "windows"} /\ Next /\ Delegating
    \/ part = "hooks" /\ HooksNext /\ Hooking
    \/ part = "forms" /\ FormsNext /\ Filling
    \/ part = "definitions" /\ DefinitionsNext /\ Defining
    \/ part = "locks" /\ LocksNext /\ Locking

SupportSpec == SupportInit /\ [][SupportNext]_allVars

NothingUnderADeletedDepartment == tree = "departments" => NothingUnderTheDeleted
=============================================================================
