------------------------------ MODULE Workflow ------------------------------
(***************************************************************************)
(* Documents and the processes that decide them (modules/document and      *)
(* modules/workflow): submission and resubmission, the engine's            *)
(* transitions and automatic steps, the human tasks, the manual status     *)
(* route, and the life of the workflow revision.                           *)
(*                                                                         *)
(* A request is a client that first reads on the pool, without locks, and  *)
(* then runs one transaction.  The reads are steps of their own, and the   *)
(* transaction is one step: it locks the instance, the document, the task  *)
(* or the revision before it looks at them, and holds them until it        *)
(* commits.  Handlers whose pool reads cannot go stale are one step.       *)
(***************************************************************************)
EXTENDS Naturals, FiniteSets, Sequences

CONSTANTS
    Docs,
    Tolerant,      \* documents whose numbering rule allows gaps
    Clients,       \* requests in flight
    Users,
    Holders,       \* who holds the role that tasks are offered to
    Instances,
    Tasks,         \* task ids, handed out in order
    Forms,         \* values of form_data, as far as conditions tell them apart
    Null,          \* SQL's NULL: nobody, no process, no task
    States, Initial, Final,
    Kind,          \* state -> its task: "human", "service" or "none"
    Maps,          \* mapsToDocumentStatus
    Assignee,      \* whom a human state's task is for; Null offers it to the role
    Edges,         \* transitions in document order; `when` = Forms is the fallback
    MaxAuto,       \* MAX_AUTOMATIC_STEPS
    Routed,        \* documents whose type routes to the revision at first
    MaxNumbers,    \* bound: document numbers handed out
    MaxRebinds     \* bound: times a type starts or stops routing to the revision


VARIABLES
    doc,       \* documents: status, number, form, process_instance_id, deleted
    issued,    \* document numbers handed out
    bound,     \* whether the document's type routes to the revision today
    revision,  \* status of the workflow revision
    inst,      \* workflow_instances
    task,      \* workflow_tasks
    moves,     \* workflow_instance_history: the rows of each instance
    request,   \* what each client has read so far
    rebinds

workflowVars == <<doc, issued, bound, revision, inst, task, moves, request, rebinds>>

DocumentStatuses == {"DRAFT", "SUBMITTED", "IN_REVIEW", "PENDING_APPROVAL", "APPROVED",
             "REJECTED", "RETURNED", "COMPLETED", "ARCHIVED", "CANCELLED"}
Editable == {"DRAFT", "RETURNED"}
DecisionActions == {"APPROVE", "REJECT", "RETURN"}

Actions == DecisionActions \cup {"RESUBMIT", "AUTO"}
Edge == [from : States, action : Actions, to : States, when : SUBSET Forms]

\* What is assumed of the constants: ids are ordered, NULL is no id, and the
\* revision is one that was accepted (structural_errors: nothing leaves a
\* final state, and transitions name states that are declared).  Any state may
\* map to any status, DRAFT among them, and a final state may raise a task.
ConstantsOK ==
    /\ Tasks \subseteq Nat /\ Instances \subseteq Nat
    /\ Null \notin Docs \cup Users \cup Instances \cup Tasks /\ Null \notin Actions
    /\ Initial \in States /\ Final \subseteq States
    /\ Kind \in [States -> {"human", "service", "none"}]
    /\ Maps \in [States -> DocumentStatuses]
    /\ Assignee \in [States -> Users \cup {Null}]
    /\ Edges \in Seq(Edge)
    /\ \A k \in DOMAIN Edges : Edges[k].from \notin Final
    /\ MaxAuto \in Nat

Idle == [kind |-> "idle"]
Submission(kind) == [kind : {kind}, doc : Docs, status : Editable, number : Nat,
                     inst : Instances \cup {Null}, bound : BOOLEAN]
Decision == [kind : {"decide"}, task : Tasks, doc : Docs, form : Forms]
Manual(kind) == [kind : {kind}, doc : Docs, status : DocumentStatuses]
MoveRow == [from : States \cup {Null}, to : States, action : Actions \cup {Null},
            task : Tasks \cup {Null}, form : Forms]

Open == {"CREATED", "ASSIGNED"}

LiveInstance(d) == {i \in Instances : inst[i].doc = d /\ inst[i].status = "RUNNING"}
OpenTask(T, i) == {t \in Tasks : T[t].inst = i /\ T[t].status \in Open}

\* Task t once it is completed: decided, or closed by a resubmission (Null).
\* Who held it is kept for reports, and left out here.
Closed(t, action) == [task[t] EXCEPT !.status = "COMPLETED", !.action = action,
                                     !.assignee = Null, !.standsFor = Null]

\* Mutants, here and below: what the definition they precede would be with a
\* plausible bug in it.
MayMoveDraft(status) ==  \* the manual route submits a draft
    CASE status = "DRAFT" -> {"SUBMITTED"}
      [] status = "SUBMITTED" -> {"IN_REVIEW", "APPROVED", "REJECTED", "RETURNED", "CANCELLED"}
      [] OTHER -> {}

\* Where the manual route may take a document (may_move_to).
MayMoveTo(status) ==
    CASE status = "SUBMITTED" -> {"IN_REVIEW", "APPROVED", "REJECTED", "RETURNED", "CANCELLED"}
      [] status = "IN_REVIEW" -> {"APPROVED", "REJECTED", "RETURNED", "CANCELLED"}
      [] status = "RETURNED" -> {"SUBMITTED", "CANCELLED"}
      [] status = "APPROVED" -> {"COMPLETED", "CANCELLED"}
      [] status = "REJECTED" -> {"CANCELLED"}
      [] OTHER -> {}

-----------------------------------------------------------------------------
(* The graph                                                               *)

\* Edges from s on an action whose condition holds of form data f.
Candidates(s, action, f) ==
    {k \in DOMAIN Edges : Edges[k].from = s /\ Edges[k].action = action /\ f \in Edges[k].when}

\* The first conditioned candidate; the unconditioned one is tried last.
Chosen(s, action, f) ==
    LET C == Candidates(s, action, f)
        conditioned == {k \in C : Edges[k].when # Forms}
        D == IF conditioned # {} THEN conditioned ELSE C
    IN  CHOOSE k \in D : \A j \in D : k <= j

\* A service task in state s advances by itself while it has an AUTO edge to take.
Advances(s, f) == Kind[s] = "service" /\ Candidates(s, "AUTO", f) # {}

\* The states enter() goes through from s until it comes to rest; none if that
\* takes MaxAuto steps or more, and then the whole request is refused.
Trails(s, f) ==
    {p \in UNION {[1..n -> States] : n \in 1..MaxAuto} :
        /\ p[1] = s
        /\ ~Advances(p[Len(p)], f)
        /\ \A k \in 1..(Len(p) - 1) :
            Advances(p[k], f) /\ p[k + 1] = Edges[Chosen(p[k], "AUTO", f)].to}

Move(from, to, action, t, f) ==
    [from |-> from, to |-> to, action |-> action, task |-> t, form |-> f]

-----------------------------------------------------------------------------
WorkflowInit ==
    /\ doc \in [Docs -> [status : {"DRAFT"}, number : {0}, form : Forms,
                         inst : {Null}, deleted : {FALSE}]]
    /\ issued = 0
    /\ bound = [d \in Docs |-> d \in Routed]
    /\ revision = "ACTIVE"
    /\ inst = [i \in Instances |-> [doc |-> Null, state |-> Initial, status |-> "ABSENT"]]
    /\ task = [t \in Tasks |-> [inst |-> Null, state |-> Initial, status |-> "ABSENT",
                                assignee |-> Null, standsFor |-> Null, action |-> Null]]
    /\ moves = [i \in Instances |-> <<>>]
    /\ request = [c \in Clients |-> Idle]
    /\ rebinds = 0

(* insert_task: one open task per instance, by the unique index.           *)
CreateTask(T, i, s) ==
    LET fresh == {t \in Tasks : T[t].status = "ABSENT"}
        id == CHOOSE t \in fresh : \A u \in fresh : t <= u
    IN  /\ OpenTask(T, i) = {}
        /\ fresh # {}
        /\ task' = [T EXCEPT ![id] =
                [inst |-> i, state |-> s, assignee |-> Assignee[s], standsFor |-> Null,
                 status |-> IF Assignee[s] = Null THEN "CREATED" ELSE "ASSIGNED",
                 action |-> Null]]

EnterUnrecorded(i, D, d, T, row, s, f) ==  \* automatic steps leave no rows
    \E trail \in Trails(s, f) :
        LET last == trail[Len(trail)]
        IN  /\ inst' = [inst EXCEPT ![i] =
                    [doc |-> d, state |-> last,
                     status |-> IF last \in Final THEN "COMPLETED" ELSE "RUNNING"]]
            /\ moves' = [moves EXCEPT ![i] = Append(@, row)]
            /\ doc' = [doc EXCEPT ![d] = [D EXCEPT !.status = Maps[last]]]
            /\ \/ Kind[last] = "human" /\ CreateTask(T, i, last)
               \/ Kind[last] # "human" /\ task' = T

(* enter: the instance arrives at s and goes on by itself as far as it     *)
(* can, the document's status follows, and a human state opens its task.   *)
(* D and T are the document and the tasks as the transaction has them.     *)
Enter(i, D, d, T, row, s, f) ==
    \E trail \in Trails(s, f) :
        LET last == trail[Len(trail)]
            autos == [k \in 1..(Len(trail) - 1) |->
                        Move(trail[k], trail[k + 1], "AUTO", Null, f)]
        IN  /\ inst' = [inst EXCEPT ![i] =
                    [doc |-> d, state |-> last,
                     status |-> IF last \in Final THEN "COMPLETED" ELSE "RUNNING"]]
            /\ moves' = [moves EXCEPT ![i] = @ \o <<row>> \o autos]
            /\ doc' = [doc EXCEPT ![d] = [D EXCEPT !.status = Maps[last]]]
            /\ \/ Kind[last] = "human" /\ CreateTask(T, i, last)
               \/ Kind[last] # "human" /\ task' = T

(* fire: one transition of instance i on an action, for task t if one was  *)
(* closed by it, evaluated against form data f.                            *)
Fire(i, D, d, T, action, t, f) ==
    LET s == inst[i].state
        edge == Edges[Chosen(s, action, f)]
    IN  /\ Candidates(s, action, f) # {}
        /\ Enter(i, D, d, T, Move(s, edge.to, action, t, f), edge.to, f)

StartUnheld(D, d) ==  \* the revision's status is not read again
    LET fresh == {i \in Instances : inst[i].status = "ABSENT"}
        id == CHOOSE i \in fresh : \A j \in fresh : i <= j
    IN  /\ LiveInstance(d) = {}
        /\ fresh # {}
        /\ Enter(id, [D EXCEPT !.inst = id], d, task, Move(Null, Initial, Null, Null, D.form),
                 Initial, D.form)

(* start: only on an ACTIVE revision, which the transaction holds; one     *)
(* live instance per document, by the unique index.                        *)
Start(D, d) ==
    LET fresh == {i \in Instances : inst[i].status = "ABSENT"}
        id == CHOOSE i \in fresh : \A j \in fresh : i <= j
    IN  /\ revision = "ACTIVE"
        /\ LiveInstance(d) = {}
        /\ fresh # {}
        /\ Enter(id, [D EXCEPT !.inst = id], d, task, Move(Null, Initial, Null, Null, D.form),
                 Initial, D.form)

-----------------------------------------------------------------------------
(* Submission                                                              *)

(* The subject, read on the pool.                                          *)
ReadSubject(c, d) ==
    /\ request[c] = Idle
    /\ ~doc[d].deleted
    /\ doc[d].status \in Editable
    /\ request' = [request EXCEPT ![c] =
            [kind |-> "submit", doc |-> d, status |-> doc[d].status,
             number |-> doc[d].number, inst |-> doc[d].inst, bound |-> FALSE]]
    /\ UNCHANGED <<doc, issued, bound, revision, inst, task, moves, rebinds>>

(* The binding, read on the pool; a rule that allows gaps hands out and    *)
(* commits the number here.  A resubmission takes none.                    *)
ReadBinding(c) ==
    /\ request[c].kind = "submit"
    /\ LET r == request[c]
           takes == r.doc \in Tolerant /\ r.status # "RETURNED"
       IN  /\ takes => issued < MaxNumbers
           /\ issued' = IF takes THEN issued + 1 ELSE issued
           /\ request' = [request EXCEPT ![c] =
                [kind |-> "submitting", doc |-> r.doc, status |-> r.status,
                 number |-> IF takes THEN issued + 1 ELSE r.number,
                 inst |-> r.inst, bound |-> bound[r.doc]]]
    /\ UNCHANGED <<doc, bound, revision, inst, task, moves, rebinds>>

NumberedAnew(r, D) ==  \* a resubmission takes a number too
    IF r.doc \in Tolerant THEN r.number ELSE issued + 1

\* mark_submitted leaves the number of a resubmission alone.
Numbered(r, D) ==
    IF r.status = "RETURNED" THEN D.number
    ELSE IF r.doc \in Tolerant THEN r.number
    ELSE issued + 1

ResubmitBeside(r, D) ==  \* the correction task stays open
    \/ /\ r.inst = Null
       /\ doc' = [doc EXCEPT ![r.doc] = D]
       /\ UNCHANGED <<inst, task, moves>>
    \/ /\ r.inst # Null
       /\ Fire(r.inst, D, r.doc, task, "RESUBMIT", Null, D.form)

(* resubmit_workflow: the open correction task closes undecided, and the   *)
(* process the document already has moves on.                              *)
Resubmit(r, D) ==
    \/ /\ r.inst = Null
       /\ doc' = [doc EXCEPT ![r.doc] = D]
       /\ UNCHANGED <<inst, task, moves>>
    \/ /\ r.inst # Null
       /\ LET open == OpenTask(task, r.inst)
              closed == [t \in Tasks |-> IF t \in open THEN Closed(t, Null) ELSE task[t]]
          IN  Fire(r.inst, D, r.doc, closed, "RESUBMIT",
                   IF open = {} THEN Null ELSE CHOOSE t \in open : TRUE, D.form)

(* submit_document's transaction.  What the pool read is compared with the *)
(* locked row in two respects: still editable, same process.               *)
Submit(c) ==
    /\ request[c].kind = "submitting"
    /\ LET r == request[c]
           number == Numbered(r, doc[r.doc])
           D == [doc[r.doc] EXCEPT !.status = "SUBMITTED", !.number = number]
       IN  /\ ~doc[r.doc].deleted
           /\ doc[r.doc].status \in Editable
           /\ doc[r.doc].inst = r.inst
           /\ r.status = "RETURNED" => r.number # 0
           /\ number <= MaxNumbers
           /\ issued' = IF number > issued THEN number ELSE issued
           /\ \/ r.status = "RETURNED" /\ Resubmit(r, D)
              \/ r.status # "RETURNED" /\ r.bound /\ Start(D, r.doc)
              \/ /\ r.status # "RETURNED" /\ ~r.bound
                 /\ doc' = [doc EXCEPT ![r.doc] = D]
                 /\ UNCHANGED <<inst, task, moves>>
    /\ request' = [request EXCEPT ![c] = Idle]
    /\ UNCHANGED <<bound, revision, rebinds>>

-----------------------------------------------------------------------------
(* Tasks                                                                   *)

(* decide, on the pool: the task, its instance and the document's data.    *)
(* A task already closed can only be refused, and is not read here.        *)
ReadTask(c, t) ==
    /\ request[c] = Idle
    /\ task[t].status \in Open
    /\ LET d == inst[task[t].inst].doc
       IN  /\ ~doc[d].deleted
           /\ request' = [request EXCEPT ![c] =
                [kind |-> "decide", task |-> t, doc |-> d, form |-> doc[d].form]]
    /\ UNCHANGED <<doc, issued, bound, revision, inst, task, moves, rebinds>>

Theirs(u, t) == task[t].assignee = u \/ (task[t].assignee = Null /\ u \in Holders)

DecideUnchecked(c, u, action) ==  \* the task's status is not read again
    /\ request[c].kind = "decide"
    /\ LET r == request[c]
           t == r.task
           i == task[t].inst
       IN  /\ Theirs(u, t)
           /\ Fire(i, doc[r.doc], r.doc,
                   [task EXCEPT ![t] = Closed(t, action)], action, t, r.form)
    /\ request' = [request EXCEPT ![c] = Idle]
    /\ UNCHANGED <<issued, bound, revision, rebinds>>

(* decide's transaction: the task and the state are read again under the   *)
(* lock, the data is not.                                                  *)
Decide(c, u, action) ==
    /\ request[c].kind = "decide"
    /\ LET r == request[c]
           t == r.task
           i == task[t].inst
       IN  /\ task[t].status \in Open
           /\ Theirs(u, t)
           /\ Fire(i, doc[r.doc], r.doc,
                   [task EXCEPT ![t] = Closed(t, action)], action, t, r.form)
    /\ request' = [request EXCEPT ![c] = Idle]
    /\ UNCHANGED <<issued, bound, revision, rebinds>>

(* claim_task                                                              *)
ClaimTask(u, t) ==
    /\ task[t].status = "CREATED"
    /\ task[t].assignee = Null
    /\ u \in Holders
    /\ task' = [task EXCEPT ![t].status = "ASSIGNED", ![t].assignee = u]
    /\ UNCHANGED <<doc, issued, bound, revision, inst, moves, request, rebinds>>

(* delegate: the first holder stays on record, and a task handed back to   *)
(* its first holder stands for nobody.                                     *)
Delegate(u, v, t) ==
    /\ u # v
    /\ task[t].status \in Open
    /\ task[t].assignee = u
    /\ LET first == IF task[t].standsFor = Null THEN u ELSE task[t].standsFor
       IN  task' = [task EXCEPT ![t].assignee = v,
                                ![t].standsFor = IF first = v THEN Null ELSE first]
    /\ UNCHANGED <<doc, issued, bound, revision, inst, moves, request, rebinds>>

(* reassign, by an administrator: to a user, or back to the role (Null).   *)
Reassign(target, t) ==
    /\ task[t].status \in Open
    /\ task' = [task EXCEPT ![t].assignee = target, ![t].standsFor = Null,
                            ![t].status = IF target = Null THEN "CREATED" ELSE "ASSIGNED"]
    /\ UNCHANGED <<doc, issued, bound, revision, inst, moves, request, rebinds>>

-----------------------------------------------------------------------------
(* The manual route, editing and discarding                                *)

(* transition: the status, then whether a process decides the document,    *)
(* both on the pool; then a compare-and-swap on the status.                *)
ReadStatus(c, d) ==
    /\ request[c] = Idle
    /\ ~doc[d].deleted
    /\ MayMoveTo(doc[d].status) # {}
    /\ request' = [request EXCEPT ![c] = [kind |-> "transition", doc |-> d, status |-> doc[d].status]]
    /\ UNCHANGED <<doc, issued, bound, revision, inst, task, moves, rebinds>>

SkipProcessCheck(c) ==  \* a process deciding the document is not looked for
    /\ request[c].kind = "transition"
    /\ request' = [request EXCEPT ![c] =
            [kind |-> "transitioning", doc |-> request[c].doc, status |-> request[c].status]]
    /\ UNCHANGED <<doc, issued, bound, revision, inst, task, moves, rebinds>>

CheckNoProcess(c) ==
    /\ request[c].kind = "transition"
    /\ LiveInstance(request[c].doc) = {}
    /\ request' = [request EXCEPT ![c] =
            [kind |-> "transitioning", doc |-> request[c].doc, status |-> request[c].status]]
    /\ UNCHANGED <<doc, issued, bound, revision, inst, task, moves, rebinds>>

Transition(c) ==
    /\ request[c].kind = "transitioning"
    /\ LET d == request[c].doc
       IN  /\ ~doc[d].deleted
           /\ doc[d].status = request[c].status
           /\ \E to \in MayMoveTo(request[c].status) : doc' = [doc EXCEPT ![d].status = to]
    /\ request' = [request EXCEPT ![c] = Idle]
    /\ UNCHANGED <<issued, bound, revision, inst, task, moves, rebinds>>

(* Any request may end without a transaction: it was refused, by a check   *)
(* above or by one on data this model leaves out, or its process died.     *)
Refuse(c) ==
    /\ request[c] # Idle
    /\ request' = [request EXCEPT ![c] = Idle]
    /\ UNCHANGED <<doc, issued, bound, revision, inst, task, moves, rebinds>>

UpdateDocument(d, f) ==
    /\ ~doc[d].deleted
    /\ doc[d].status \in Editable
    /\ doc' = [doc EXCEPT ![d].form = f]
    /\ UNCHANGED <<issued, bound, revision, inst, task, moves, request, rebinds>>

DeleteDocument(d) ==
    /\ ~doc[d].deleted
    /\ doc[d].status = "DRAFT"
    /\ LiveInstance(d) = {}
    /\ doc' = [doc EXCEPT ![d].deleted = TRUE]
    /\ UNCHANGED <<issued, bound, revision, inst, task, moves, request, rebinds>>

-----------------------------------------------------------------------------
(* The revision and the binding                                            *)

DeprecateDefinition ==
    /\ revision = "ACTIVE"
    /\ revision' = "DEPRECATED"
    /\ UNCHANGED <<doc, issued, bound, inst, task, moves, request, rebinds>>

(* Refused while an approval runs on it; a start holds the revision.       *)
DeleteDefinition ==
    /\ revision # "DELETED"
    /\ \A i \in Instances : inst[i].status # "RUNNING"
    /\ revision' = "DELETED"
    /\ UNCHANGED <<doc, issued, bound, inst, task, moves, request, rebinds>>

(* workflow_binding answers otherwise than before: the type was bound or   *)
(* unbound, or the binding's window opened or passed.                      *)
Rebind(d) ==
    /\ rebinds < MaxRebinds
    /\ rebinds' = rebinds + 1
    /\ bound' = [bound EXCEPT ![d] = ~@]
    /\ UNCHANGED <<doc, issued, revision, inst, task, moves, request>>

WorkflowNext ==
    \/ \E c \in Clients :
        \/ \E d \in Docs : ReadSubject(c, d) \/ ReadStatus(c, d)
        \/ ReadBinding(c) \/ Submit(c)
        \/ \E t \in Tasks : ReadTask(c, t)
        \/ \E u \in Users, action \in DecisionActions : Decide(c, u, action)
        \/ CheckNoProcess(c) \/ Transition(c)
        \/ Refuse(c)
    \/ \E t \in Tasks, u \in Users :
        \/ ClaimTask(u, t)
        \/ \E v \in Users : Delegate(u, v, t)
    \/ \E t \in Tasks, target \in Users \cup {Null} : Reassign(target, t)
    \/ \E d \in Docs : (\E f \in Forms : UpdateDocument(d, f)) \/ DeleteDocument(d) \/ Rebind(d)
    \/ DeprecateDefinition
    \/ DeleteDefinition

WorkflowSpec == WorkflowInit /\ [][WorkflowNext]_workflowVars

-----------------------------------------------------------------------------
(* Type correctness.                                                       *)
WorkflowTypeOK ==
    /\ doc \in [Docs -> [status : DocumentStatuses, number : Nat, form : Forms,
                         inst : Instances \cup {Null}, deleted : BOOLEAN]]
    /\ issued \in Nat
    /\ bound \in [Docs -> BOOLEAN]
    /\ revision \in {"ACTIVE", "DEPRECATED", "DELETED"}
    /\ inst \in [Instances -> [doc : Docs \cup {Null}, state : States,
                               status : {"ABSENT", "RUNNING", "COMPLETED"}]]
    /\ task \in [Tasks -> [inst : Instances \cup {Null}, state : States,
                           status : Open \cup {"ABSENT", "COMPLETED"},
                           assignee : Users \cup {Null}, standsFor : Users \cup {Null},
                           action : DecisionActions \cup {Null}]]
    /\ moves \in [Instances -> Seq(MoveRow)]
    /\ request \in [Clients -> {Idle} \cup Submission("submit") \cup Submission("submitting")
                          \cup Decision \cup Manual("transition") \cup Manual("transitioning")]
    /\ rebinds \in Nat

(* project_from_workflow, link_process_instance, the refusals of the       *)
(* manual route and of the discard: while a process decides a document,    *)
(* the document exists and points at that process and at no other.  And it *)
(* has the status that the process's state maps to, until its type is      *)
(* bound anew and under its first process: a manual move that read the     *)
(* status before there was a process, or that found the first one ended,   *)
(* looks at the status alone when it writes (status.rs:188).               *)
FirstProcess(i) == \A j \in Instances : inst[j].doc = inst[i].doc => j = i
StatusFollowsProcess ==
    \A i \in Instances : inst[i].status = "RUNNING" =>
        LET D == doc[inst[i].doc]
        IN  /\ D.inst = i /\ ~D.deleted
            /\ rebinds = 0 /\ FirstProcess(i) => D.status = Maps[inst[i].state]

(* An open task is one its process waits for: the process is in the state  *)
(* the task was opened for, and runs unless that state is a final one,     *)
(* where a task can be raised that nobody will decide.  And a process in a *)
(* human state has exactly one, so none is left with nobody to move it.    *)
OpenTasksMatchTheState ==
    /\ \A t \in Tasks : task[t].status \in Open =>
        LET process == inst[task[t].inst]
        IN  /\ process.state = task[t].state
            /\ process.status = IF process.state \in Final THEN "COMPLETED" ELSE "RUNNING"
    /\ \A i \in Instances :
        (inst[i].status # "ABSENT" /\ Kind[inst[i].state] = "human")
            => Cardinality(OpenTask(task, i)) = 1

(* A decision is applied once: every closed task moved its process exactly *)
(* once, out of the state it was opened for and by the action it records   *)
(* (RESUBMIT where nobody decided it), and no move names an open task.     *)
EachTaskMovesItsProcessOnce ==
    \A t \in Tasks, i \in Instances :
        LET its == {k \in DOMAIN moves[i] : moves[i][k].task = t}
        IN  /\ Cardinality(its) = IF task[t].status = "COMPLETED" /\ task[t].inst = i THEN 1 ELSE 0
            /\ \A k \in its :
                /\ moves[i][k].from = task[t].state
                /\ moves[i][k].action = IF task[t].action = Null THEN "RESUBMIT" ELSE task[t].action

(* The history of an instance is one walk through its graph, from the      *)
(* initial state to the state it is in: no row is missing or out of order. *)
HistoryIsOneWalk ==
    \A i \in Instances : inst[i].status # "ABSENT" =>
        LET H == moves[i]
        IN  /\ H[1].from = Null /\ H[1].to = Initial
            /\ \A k \in 2..Len(H) :
                /\ H[k].from = H[k - 1].to
                /\ \E e \in DOMAIN Edges :
                    Edges[e].from = H[k].from /\ Edges[e].to = H[k].to /\ Edges[e].action = H[k].action
            /\ H[Len(H)].to = inst[i].state

(* No two documents share a number, and none leaves DRAFT without one.     *)
NumbersIdentify ==
    /\ \A d, e \in Docs : d # e /\ doc[d].number # 0 => doc[d].number # doc[e].number
    /\ \A d \in Docs : doc[d].status # "DRAFT" => doc[d].number # 0

(* A document that a process decides keeps its number through every return *)
(* and resubmission.  It takes another only if that process made it a      *)
(* draft again, and has ended or is not what the type routes to any more.  *)
MadeDraft(i) == \E k \in DOMAIN moves[i] : Maps[moves[i][k].to] = "DRAFT"
ProcessKeepsItsNumber ==
    [][\A d \in Docs : doc[d].inst # Null /\ doc'[d].number # doc[d].number =>
          /\ MadeDraft(doc[d].inst)
          /\ inst[doc[d].inst].status = "COMPLETED" \/ rebinds > 0]_workflowVars

(* A revision is not deleted under a running approval, and no approval     *)
(* starts on one that is deleted: lock_for_start against lock_for_publish. *)
RevisionOutlivesItsProcesses ==
    revision = "DELETED" => \A i \in Instances : inst[i].status # "RUNNING"

(* document/repository/document.rs:482: "A returned-then-resubmitted       *)
(* document keeping its number is the outcome return exists to preserve,   *)
(* so the statement is what guarantees it" (refuted: a submit that read    *)
(* DRAFT on the pool overwrites the number of the document since returned).*)
NumberIsKept ==
    [][\A d \in Docs : doc[d].status = "RETURNED" => doc'[d].number = doc[d].number]_workflowVars
=============================================================================
