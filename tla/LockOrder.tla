----------------------------- MODULE LockOrder -----------------------------
(* The row locks of the requests (the transactions of modules/document,     *)
(* workflow, document_type, master_data, identity and organization): which  *)
(* rows each takes, in which order, with FOR UPDATE and the like, with its  *)
(* writes, or through the foreign keys of what it writes, and which         *)
(* requests may wait for one another in a circle, which PostgreSQL ends by  *)
(* failing one of them.                                                     *)
(*                                                                          *)
(* A path is chosen when its request begins: what it depends on is a choice *)
(* here.  Rows that every path takes in sharing modes (users, tenants), and *)
(* requests that take one row (a document's status and its delete, a type's *)
(* delete), close no circle and are left out; Retire stands for the latter. *)
(***************************************************************************)
EXTENDS Naturals, Sequences

CONSTANTS
    Transactions,  \* those that are open at once
    Documents, Types, Parties,
    TypeOf,    \* documents.document_type_id
    Stage,     \* of each document: "draft", "running" or "returned"
    Pinned,    \* the documents that pinned a form
    Governed,  \* the types whose documents carry a change of a party
    Subject,   \* the party each document is linked to
    Closed,    \* the documents whose change was settled, and whose process goes on
    Gapless    \* the types whose numbers are taken in the submit's transaction

\* The documents with a change to settle, and those whose change is in flight.
Carries(d) == TypeOf[d] \in Governed /\ d \notin Closed
InFlight == {d \in Documents : Carries(d) /\ Stage[d] # "draft"}

LocksConstantsOK ==
    /\ TypeOf \in [Documents -> Types] /\ Subject \in [Documents -> Parties]
    /\ Stage \in [Documents -> {"draft", "running", "returned"}]
    /\ Pinned \subseteq Documents /\ Governed \subseteq Types /\ Gapless \subseteq Types
    /\ Closed \subseteq {d \in Documents : TypeOf[d] \in Governed /\ Stage[d] # "draft"}
    \* A party takes one change at a time (raise_governed_change).
    /\ \A d, e \in InFlight : Subject[d] = Subject[e] => d = e

VARIABLE transaction  \* of each its operation, its locks in order, and how many it holds

lockVars == <<transaction>>

-----------------------------------------------------------------------------
(* Locks                                                                   *)

\* PostgreSQL's row locks, by strength: two of them conflict as its table says,
\* which their sum tells.
KeyShare == 1
Share == 2
NoKeyUpdate == 3
Update == 4
Conflict(m, n) == m + n >= 5

Lock(row, mode) == [row |-> row, mode |-> mode]

\* What r waits for, if anything, and whether q, another, holds it.
Asks(r) == transaction[r].at < Len(transaction[r].path)
Asked(r) == transaction[r].path[transaction[r].at + 1]
Holds(q, row, mode) ==
    \E i \in 1..transaction[q].at :
        transaction[q].path[i].row = row /\ Conflict(transaction[q].path[i].mode, mode)
WaitsFor(r, q) == r # q /\ Asks(r) /\ Holds(q, Asked(r).row, Asked(r).mode)

-----------------------------------------------------------------------------
(* What an operation locks, in the order it does                           *)

Document(d, mode) == Lock(<<"document", d>>, mode)
Party(p, mode) == Lock(<<"party", p>>, mode)
Type(t, mode) == Lock(<<"type", t>>, mode)

\* allocate_bucket: a bucket's first number inserts its row, whose foreign key
\* takes the type.
Bucket(t) ==
    LET advanced == <<Lock(<<"bucket", t>>, NoKeyUpdate)>>
    IN  {advanced, Append(advanced, Type(t, KeyShare))}

\* pinned_form_of: a document that pinned no form holds its type.
PinnedForm(d) == IF d \in Pinned THEN <<>> ELSE <<Type(TypeOf[d], Update)>>

\* A task: its role, the tenant's counter, and its department's key.
Raised == <<Lock(<<"role">>, KeyShare), Lock(<<"counter", "TASK">>, NoKeyUpdate),
            Lock(<<"department">>, KeyShare)>>

\* project_from_workflow, which settles a change on a terminal status.
Settled(d) ==
    IF Carries(d)
    THEN <<Lock(<<"change", d>>, Update), Party(Subject[d], Update)>> ELSE <<>>
Projected(d, settled) == <<Document(d, NoKeyUpdate)>> \o settled

\* enter: a state, or an automatic one and the next.
Entered(d) ==
    {task \o Projected(d, settled) : task \in {<<>>, Raised}, settled \in {<<>>, Settled(d)}}
      \cup {Projected(d, Settled(d)) \o Raised \o Projected(d, <<>>)}

\* engine::start, where the type is bound to a workflow.
Started(d) ==
    {<<>>} \cup {<<Lock(<<"definition">>, Share), Lock(<<"counter", "WFI">>, NoKeyUpdate)>> \o e :
                   e \in Entered(d)}

\* raise_governed_change, and what follows it: a draft with no form carries no
\* change, and a party that has one in flight is refused another.
SubmittedFor(d) ==
    IF TypeOf[d] \notin Governed THEN Started(d)
    ELSE IF d \notin Pinned THEN {<<>>}
    ELSE IF \E e \in InFlight : Subject[e] = Subject[d] THEN {<<Party(Subject[d], Update)>>}
    ELSE {<<Party(Subject[d], Update)>> \o s : s \in Started(d)}

FirstSubmits(d) ==
    {<<Document(d, Update)>> \o PinnedForm(d) \o number \o s :
       number \in IF TypeOf[d] \in Gapless THEN Bucket(TypeOf[d]) ELSE {<<>>},
       s \in SubmittedFor(d)}

InstanceAndTask(d) == <<Lock(<<"instance", d>>, Update), Lock(<<"task", d>>, Update)>>

\* A mutant: the document before the instance, as a first submission has it.
ResubmitsDocumentFirst(d) ==
    {<<Document(d, Update), Lock(<<"instance", d>>, Update)>> \o PinnedForm(d) \o rest :
       rest \in IF TypeOf[d] \in Governed THEN {<<Party(Subject[d], Update)>>}
                ELSE {<<Lock(<<"task", d>>, Update)>> \o e : e \in Entered(d)}}

\* prepare_resubmission, and the evaluation of the document after it.
Resubmits(d) ==
    {<<Lock(<<"instance", d>>, Update), Document(d, Update)>> \o PinnedForm(d) \o rest :
       rest \in IF TypeOf[d] \in Governed THEN {<<Party(Subject[d], Update)>>}
                ELSE {<<Lock(<<"task", d>>, Update)>> \o e : e \in Entered(d)}}

\* A task's decision; a claim, a hand-off or a reassignment.  The history row's
\* foreign key takes the document.
Decisions(d) == {InstanceAndTask(d) \o <<Document(d, KeyShare)>> \o e : e \in Entered(d)}
Handovers(d) ==
    {InstanceAndTask(d) \o role \o <<Document(d, KeyShare)>> :
       role \in {<<>>, <<Lock(<<"role">>, KeyShare)>>}}

\* lock_linked_entity, of a link that is set.
Linked == {<<>>} \cup {<<Party(p, Share)>> : p \in Parties}

Creations(t) ==
    {<<Type(t, Update)>> \o link
       \o <<Lock(<<"counter", "DOC">>, NoKeyUpdate), Lock(<<"department">>, KeyShare)>> :
       link \in Linked}

\* The form is read only for data that is sent.
Edits(d) ==
    {<<Document(d, Update)>> \o link \o form \o <<Lock(<<"department">>, KeyShare)>> :
       link \in Linked, form \in {<<>>, PinnedForm(d)}}

\* An attachment or a comment, and its activity; an event's delivery.
Annotation(d) == <<Lock(<<"note", d>>, Update), Document(d, KeyShare)>>
DeliveryOf(d) == <<Document(d, KeyShare), Lock(<<"event", d>>, NoKeyUpdate)>>

TypeUpdates(t) ==
    {<<Type(t, Update)>> \o form \o definition :
       form \in {<<>>, <<Lock(<<"form">>, Share)>>},
       definition \in {<<>>, <<Lock(<<"definition">>, Share)>>}}
RuleChanges(t) ==
    {<<Lock(<<"rule", t>>, NoKeyUpdate), Type(t, KeyShare)>> \o seed :
       seed \in {<<>>} \cup Bucket(t)}

Publication ==
    <<Lock(<<"definition">>, Update), Lock(<<"role">>, KeyShare), Lock(<<"department">>, KeyShare)>>

\* assign_role: a profile's manager, assistant or billing party, and department.
RoleAssignments(p) ==
    {<<Party(p, Update), Lock(<<"roles", p>>, NoKeyUpdate)>> \o named
       \o <<Lock(<<"department">>, KeyShare)>> :
       named \in {<<>>} \cup {<<Party(q, KeyShare)>> : q \in Parties \ {p}}}

\* update_party replaces either list of relationships: the rows of the list go,
\* and the new rows' foreign keys take the other party.
Replaced(p, q, row) == {<<>>, <<Lock(row, Update)>>, <<Lock(row, Update), Party(q, KeyShare)>>}
Relates(p, q) ==
    {<<Party(p, NoKeyUpdate)>> \o from \o to :
       from \in Replaced(p, q, <<"relationship", p, q>>),
       to \in Replaced(p, q, <<"relationship", q, p>>)}
PartyUpdates(p) == UNION {Relates(p, q) : q \in Parties \ {p}}
PartyDelete(p) == <<Party(p, Update), Lock(<<"roles", p>>, NoKeyUpdate)>>

-----------------------------------------------------------------------------
Idle == [op |-> "none", path |-> <<>>, at |-> 0]

LocksInit == transaction = [r \in Transactions |-> Idle]

Begins(r, op, paths) ==
    /\ transaction[r] = Idle
    /\ \E path \in paths : transaction' = [transaction EXCEPT ![r] = [op |-> op, path |-> path, at |-> 0]]

SubmitDocument(r, d) ==
    \/ Stage[d] = "draft" /\ Begins(r, "submit", FirstSubmits(d))
    \/ Stage[d] = "returned" /\ Begins(r, "submit", Resubmits(d))
Work(r, d) ==  \* on the task of a process
    /\ Stage[d] # "draft"
    /\ Begins(r, "decide", Decisions(d)) \/ Begins(r, "hand_over", Handovers(d))
File(r, d) ==  \* what is open to edits, and what is written about any document
    \/ Stage[d] # "running" /\ Begins(r, "edit", Edits(d))
    \/ Begins(r, "annotate", {Annotation(d)}) \/ Begins(r, "deliver", {DeliveryOf(d)})
Administer(r, t) ==
    \/ Begins(r, "create", Creations(t)) \/ Begins(r, "update_type", TypeUpdates(t))
    \/ Begins(r, "set_rule", RuleChanges(t))
    \/ t \notin Gapless /\ Begins(r, "allocate", Bucket(t))
Publish(r) == Begins(r, "publish", {Publication})
Retire(r) ==  \* a role, a department, a revision of a workflow or of a form
    Begins(r, "retire", {<<Lock(<<row>>, Update)>> : row \in {"role", "department", "definition", "form"}})
KeepParty(r, p) ==
    \/ Begins(r, "assign_role", RoleAssignments(p)) \/ Begins(r, "update_party", PartyUpdates(p))
    \/ Begins(r, "delete_party", {PartyDelete(p)})

\* A lock is had when nobody else holds one against it.
Take(r) ==
    /\ Asks(r) /\ \A q \in Transactions : ~WaitsFor(r, q)
    /\ transaction' = [transaction EXCEPT ![r].at = @ + 1]

\* The transaction commits, or is refused or failed at any point.
EndTransaction(r) == transaction[r] # Idle /\ transaction' = [transaction EXCEPT ![r] = Idle]

LocksNext ==
    \E r \in Transactions :
        \/ Take(r) \/ EndTransaction(r) \/ Publish(r) \/ Retire(r)
        \/ \E d \in Documents : SubmitDocument(r, d) \/ Work(r, d) \/ File(r, d)
        \/ \E t \in Types : Administer(r, t)
        \/ \E p \in Parties : KeepParty(r, p)

LocksSpec == LocksInit /\ [][LocksNext]_lockVars

-----------------------------------------------------------------------------
Circle(S) == \A r \in S : \E q \in S : WaitsFor(r, q)
Circles == {S \in SUBSET Transactions : S # {} /\ Circle(S)}

HoldsA(r, kind) == \E i \in 1..transaction[r].at : transaction[r].path[i].row[1] = kind
WaitsForA(r, kind) == Asks(r) /\ Asked(r).row[1] = kind

\* The waits that close one: a submission, for its type's key behind the bucket
\* it has made a row of; an edit of a draft without a form, for its type behind
\* a party it links; a role's assignment, for a party its profile names behind
\* its own; an update, for relationships behind its own party, and for the other
\* party of a new one.  (The last takes three: the other party is held by its
\* first change, which waits for the task counter, which is held by the decision
\* that settles a change of the first party, and waits for that.)
WaitsAgainstTheOrder(r) ==
    \/ transaction[r].op = "submit" /\ HoldsA(r, "bucket") /\ WaitsForA(r, "type")
    \/ transaction[r].op = "edit" /\ HoldsA(r, "party") /\ WaitsForA(r, "type")
    \/ transaction[r].op = "assign_role" /\ HoldsA(r, "party") /\ WaitsForA(r, "party")
    \/ transaction[r].op = "update_party" /\ WaitsForA(r, "relationship")
    \/ transaction[r].op = "update_party" /\ HoldsA(r, "party") /\ WaitsForA(r, "party")

\* Requests wait for one another in a circle only through one of the waits
\* above: without them every path takes its locks in one order, or holds
\* another that keeps the two apart.
EveryCircleIsKnown == \A S \in Circles : \E r \in S : WaitsAgainstTheOrder(r)

Listed == {"submit", "decide", "hand_over", "edit", "annotate", "deliver", "update_type",
           "publish", "retire"}

\* What the record of the sprint says of the paths it lists (projects/
\* verifications/22, section 5): the rules it gives keep them from meeting in
\* a cycle.
NoListedPathsMeetInACircle == \A S \in Circles : \E r \in S : transaction[r].op \notin Listed
=============================================================================
