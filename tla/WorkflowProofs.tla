--------------------------- MODULE WorkflowProofs ---------------------------
(***************************************************************************)
(* Proofs about Workflow, for any definition, documents, users, requests   *)
(* and bounds: a process's history is one walk, each task moves it once,   *)
(* an open task is one its process waits for, numbers identify, a revision *)
(* outlives its processes, and a document's status follows its process.    *)
(*                                                                         *)
(* Every way a process moves (a start, a decision, a resubmission) ends in *)
(* Enter.  Advanced says what all of them have in common: the process goes *)
(* along a trail (Walked), the tasks are those of the transaction and      *)
(* perhaps a new one (Tasked), and the first row names the task that was   *)
(* closed.  Each part of the invariant is kept by any such advance, and    *)
(* the actions are shown to be one or to leave the processes alone.        *)
(*                                                                         *)
(* The status needs a second invariant on top of the first: what a request *)
(* read on the pool limits what the document may have become since.        *)
(***************************************************************************)
EXTENDS Workflow, TLAPS, SequenceTheorems, FiniteSetTheorems, WellFoundedInduction

DocRow == [status : DocumentStatuses, number : Nat, form : Forms,
           inst : Instances \cup {Null}, deleted : BOOLEAN]
InstRow == [doc : Docs \cup {Null}, state : States, status : {"ABSENT", "RUNNING", "COMPLETED"}]
TaskRow == [inst : Instances \cup {Null}, state : States,
            status : Open \cup {"ABSENT", "COMPLETED"},
            assignee : Users \cup {Null}, standsFor : Users \cup {Null},
            action : DecisionActions \cup {Null}]

Requests == {Idle} \cup Submission("submit") \cup Submission("submitting") \cup Decision
              \cup Manual("transition") \cup Manual("transitioning")

\* A request is what its kind says.
LEMMA RequestKinds ==
  ASSUME NEW r \in Requests
  PROVE  /\ r.kind \in {"submit", "submitting"} => r \in Submission(r.kind)
         /\ r.kind = "decide" => r \in Decision
         /\ r.kind \in {"transition", "transitioning"} => r \in Manual(r.kind)
<1>1. CASE r = Idle
  BY <1>1 DEF Idle
<1>2. CASE r \in Submission("submit")
  BY <1>2 DEF Submission
<1>3. CASE r \in Submission("submitting")
  BY <1>3 DEF Submission
<1>4. CASE r \in Decision
  BY <1>4 DEF Decision
<1>5. CASE r \in Manual("transition")
  BY <1>5 DEF Manual
<1>6. CASE r \in Manual("transitioning")
  BY <1>6 DEF Manual
<1> QED
  BY <1>1, <1>2, <1>3, <1>4, <1>5, <1>6 DEF Requests

LEMMA FunctionIsSeq ==
  ASSUME NEW S, NEW n \in Nat, NEW q \in [1..n -> S]
  PROVE  q \in Seq(S) /\ Len(q) = n
OBVIOUS

LEMMA LeastExists ==
  ASSUME NEW S, S \subseteq Nat, S # {}
  PROVE  \E m \in S : \A n \in S : m <= n
<1> DEFINE R == {ss \in Nat \X Nat : ss[1] < ss[2]}
<1>1. IsWellFoundedOn(R, Nat)
  BY NatLessThanWellFounded DEF OpToRel
<1>2. PICK m \in S : \A n \in S : <<n, m>> \notin R
  BY <1>1, WFMin
<1>3. \A n \in S : m <= n
  <2> TAKE n \in S
  <2>1. m \in Nat /\ n \in Nat /\ <<n, m>> \in Nat \X Nat
    OBVIOUS
  <2>2. ~ (n < m)
    BY <1>2, <2>1
  <2> QED
    BY <2>1, <2>2
<1> QED
  BY <1>3

\* An edge that is chosen leaves the state on the action.
LEMMA ChosenIsCandidate ==
  ASSUME ConstantsOK, NEW s, NEW action, NEW f, Candidates(s, action, f) # {}
  PROVE  /\ Chosen(s, action, f) \in DOMAIN Edges
         /\ Edges[Chosen(s, action, f)] \in Edge
         /\ Edges[Chosen(s, action, f)].from = s
         /\ Edges[Chosen(s, action, f)].action = action
         /\ Edges[Chosen(s, action, f)].to \in States
<1> DEFINE C == Candidates(s, action, f)
           conditioned == {k \in C : Edges[k].when # Forms}
           D == IF conditioned # {} THEN conditioned ELSE C
<1>1. Edges \in Seq(Edge) /\ DOMAIN Edges = 1..Len(Edges) /\ Len(Edges) \in Nat
  BY LenProperties DEF ConstantsOK
<1>2. C \subseteq DOMAIN Edges
  BY DEF Candidates
<1>3. D \subseteq C /\ D # {} /\ D \subseteq Nat
  BY <1>1, <1>2
<1>4. \E k \in D : \A j \in D : k <= j
  BY <1>3, LeastExists
<1>5. Chosen(s, action, f) = CHOOSE k \in D : \A j \in D : k <= j
  BY DEF Chosen
<1>6. Chosen(s, action, f) \in C
  BY <1>3, <1>4, <1>5
<1>7. /\ Edges[Chosen(s, action, f)].from = s
      /\ Edges[Chosen(s, action, f)].action = action
  BY <1>6 DEF Candidates
<1>8. Edges[Chosen(s, action, f)] \in Edge
  BY <1>1, <1>2, <1>6, ElementOfSeq
<1> QED
  BY <1>2, <1>6, <1>7, <1>8 DEF Edge

\* What becomes of the instance, the history and the document when instance i
\* goes along a trail, which `row` led to.
Arc(from, action, to) ==
    \E e \in DOMAIN Edges :
        Edges[e].from = from /\ Edges[e].to = to /\ Edges[e].action = action
Walked(i, d, row, trail, f) ==
    /\ trail \in Seq(States) /\ Len(trail) \in Nat \ {0} /\ trail[Len(trail)] \in States
    /\ \A k \in 1..(Len(trail) - 1) : Arc(trail[k], "AUTO", trail[k + 1])
    /\ inst' = [inst EXCEPT ![i] =
            [doc |-> d, state |-> trail[Len(trail)],
             status |-> IF trail[Len(trail)] \in Final THEN "COMPLETED" ELSE "RUNNING"]]
    /\ \A j \in Instances : j # i => moves'[j] = moves[j]
    /\ moves' \in [Instances -> Seq(MoveRow)]
    /\ Len(moves'[i]) = Len(moves[i]) + Len(trail)
    /\ \A k \in 1..Len(moves[i]) : moves'[i][k] = moves[i][k]
    /\ moves'[i][Len(moves[i]) + 1] = row
    /\ \A k \in 1..(Len(trail) - 1) :
        moves'[i][Len(moves[i]) + 1 + k] = Move(trail[k], trail[k + 1], "AUTO", Null, f)

\* What becomes of the tasks in it.
NewTask(i, s) ==
    [inst |-> i, state |-> s, assignee |-> Assignee[s], standsFor |-> Null,
     status |-> IF Assignee[s] = Null THEN "CREATED" ELSE "ASSIGNED", action |-> Null]
Tasked(i, T, s) ==
    \/ Kind[s] # "human" /\ task' = T
    \/ /\ Kind[s] = "human" /\ OpenTask(T, i) = {}
       /\ \E t \in Tasks : T[t].status = "ABSENT" /\ task' = [T EXCEPT ![t] = NewTask(i, s)]

LEMMA CreatedTask ==
  ASSUME ConstantsOK, NEW T, NEW i, NEW s, CreateTask(T, i, s)
  PROVE  /\ OpenTask(T, i) = {}
         /\ \E t \in Tasks : T[t].status = "ABSENT" /\ task' = [T EXCEPT ![t] = NewTask(i, s)]
<1> DEFINE fresh == {t \in Tasks : T[t].status = "ABSENT"}
           id == CHOOSE t \in fresh : \A u \in fresh : t <= u
<1>1. fresh \subseteq Nat /\ fresh # {}
  BY DEF CreateTask, ConstantsOK
<1>2. \E t \in fresh : \A u \in fresh : t <= u
  BY <1>1, LeastExists
<1>3. id \in fresh
  BY <1>2
<1>4. OpenTask(T, i) = {} /\ task' = [T EXCEPT ![id] = NewTask(i, s)]
  BY DEF CreateTask, NewTask
<1> QED
  BY <1>3, <1>4

LEMMA TrailFacts ==
  ASSUME ConstantsOK, NEW s, NEW f, NEW trail \in Trails(s, f)
  PROVE  /\ trail \in Seq(States) /\ Len(trail) \in Nat \ {0}
         /\ trail[1] = s /\ trail[Len(trail)] \in States
         /\ \A k \in 1..Len(trail) : trail[k] \in States
         /\ \A k \in 1..(Len(trail) - 1) : Arc(trail[k], "AUTO", trail[k + 1])
<1>1. PICK n \in 1..MaxAuto : trail \in [1..n -> States]
  BY DEF Trails
<1>2. n \in Nat \ {0}
  BY DEF ConstantsOK
<1>3. trail \in Seq(States) /\ Len(trail) = n
  BY <1>1, <1>2, FunctionIsSeq
<1>4. /\ trail[1] = s
      /\ \A k \in 1..(Len(trail) - 1) :
           Candidates(trail[k], "AUTO", f) # {} /\ trail[k + 1] = Edges[Chosen(trail[k], "AUTO", f)].to
  BY DEF Trails, Advances
<1>5. \A k \in 1..(Len(trail) - 1) : Arc(trail[k], "AUTO", trail[k + 1])
  <2> TAKE k \in 1..(Len(trail) - 1)
  <2> DEFINE e == Chosen(trail[k], "AUTO", f)
  <2>1. Candidates(trail[k], "AUTO", f) # {} /\ trail[k + 1] = Edges[e].to
    BY <1>4
  <2>2. e \in DOMAIN Edges /\ Edges[e].from = trail[k] /\ Edges[e].action = "AUTO"
    BY <2>1, ChosenIsCandidate
  <2> QED
    BY <2>1, <2>2 DEF Arc
<1> QED
  BY <1>1, <1>2, <1>3, <1>4, <1>5

\* The document once its process has come to state s.
Restated(D, s) == [D EXCEPT !.status = Maps[s]]

\* What enter() does, said of the trail it takes.
Entered(i, d, D, T, row, s, f) ==
    \E trail : /\ trail[1] = s
               /\ Walked(i, d, row, trail, f)
               /\ doc' = [doc EXCEPT ![d] = Restated(D, trail[Len(trail)])]
               /\ Tasked(i, T, trail[Len(trail)])

LEMMA EnterWalks ==
  ASSUME ConstantsOK, NEW i \in Instances, NEW d \in Docs, NEW D, NEW T, NEW row \in MoveRow,
         NEW s, NEW f \in Forms, moves \in [Instances -> Seq(MoveRow)],
         Enter(i, D, d, T, row, s, f)
  PROVE  Entered(i, d, D, T, row, s, f)
<1> DEFINE last(trail) == trail[Len(trail)]
           autos(trail) == [k \in 1..(Len(trail) - 1) |->
                               Move(trail[k], trail[k + 1], "AUTO", Null, f)]
<1>1. PICK trail \in Trails(s, f) :
        /\ inst' = [inst EXCEPT ![i] =
                [doc |-> d, state |-> last(trail),
                 status |-> IF last(trail) \in Final THEN "COMPLETED" ELSE "RUNNING"]]
        /\ moves' = [moves EXCEPT ![i] = @ \o <<row>> \o autos(trail)]
        /\ doc' = [doc EXCEPT ![d] = Restated(D, last(trail))]
        /\ \/ Kind[last(trail)] = "human" /\ CreateTask(T, i, last(trail))
           \/ Kind[last(trail)] # "human" /\ task' = T
  BY DEF Enter, Restated
<1>2. /\ trail \in Seq(States) /\ Len(trail) \in Nat \ {0}
      /\ trail[1] = s /\ last(trail) \in States
      /\ \A k \in 1..Len(trail) : trail[k] \in States
      /\ \A k \in 1..(Len(trail) - 1) : Arc(trail[k], "AUTO", trail[k + 1])
  BY TrailFacts
<1> DEFINE A == autos(trail)
           H == moves[i]
<1>3. A \in Seq(MoveRow) /\ Len(A) = Len(trail) - 1
  <2>1. \A k \in 1..(Len(trail) - 1) : Move(trail[k], trail[k + 1], "AUTO", Null, f) \in MoveRow
    BY <1>2 DEF Move, MoveRow, Actions
  <2>2. A \in [1..(Len(trail) - 1) -> MoveRow] /\ Len(trail) - 1 \in Nat
    BY <1>2, <2>1
  <2> HIDE DEF A
  <2> QED
    BY <2>2, FunctionIsSeq
<1>4. H \in Seq(MoveRow) /\ <<row>> \in Seq(MoveRow) /\ Len(<<row>>) = 1
  OBVIOUS
<1>5. /\ H \o <<row>> \in Seq(MoveRow) /\ Len(H \o <<row>>) = Len(H) + 1
      /\ \A k \in 1..Len(H) : (H \o <<row>>)[k] = H[k]
      /\ (H \o <<row>>)[Len(H) + 1] = row
  BY <1>4, ConcatProperties, LenProperties
<1> DEFINE N == (H \o <<row>>) \o A
<1>6. /\ N \in Seq(MoveRow) /\ Len(N) = Len(H) + 1 + (Len(trail) - 1)
      /\ \A k \in 1..(Len(H) + 1) : N[k] = (H \o <<row>>)[k]
      /\ \A k \in 1..(Len(trail) - 1) : N[Len(H) + 1 + k] = A[k]
  <2>1. Len(H) \in Nat
    BY <1>4, LenProperties
  <2> DEFINE G == H \o <<row>>
  <2>3. G \in Seq(MoveRow) /\ Len(G) = Len(H) + 1
    BY <1>5
  <2> HIDE DEF A, H, G
  <2>4. /\ G \o A \in Seq(MoveRow) /\ Len(G \o A) = Len(G) + Len(A)
        /\ \A k \in 1..(Len(G) + Len(A)) :
              (G \o A)[k] = IF k <= Len(G) THEN G[k] ELSE A[k - Len(G)]
    BY <1>3, <2>3, ConcatProperties
  <2> USE DEF G
  <2>2. /\ N \in Seq(MoveRow) /\ Len(N) = Len(H) + 1 + (Len(trail) - 1)
        /\ \A k \in 1..(Len(H) + 1 + (Len(trail) - 1)) :
              N[k] = IF k <= Len(H) + 1 THEN (H \o <<row>>)[k] ELSE A[k - (Len(H) + 1)]
    BY <1>3, <2>3, <2>4
  <2> QED
    BY <1>2, <2>1, <2>2
<1>7. moves' = [moves EXCEPT ![i] = N]
  BY <1>1
<1>8. moves'[i] = N /\ \A j \in Instances : j # i => moves'[j] = moves[j]
  BY <1>7
<1>9. moves' \in [Instances -> Seq(MoveRow)]
  BY <1>6, <1>7
<1>10. Len(N) = Len(H) + Len(trail)
  BY <1>2, <1>4, <1>6, LenProperties
<1>11. Walked(i, d, row, trail, f)
  <2>1. \A k \in 1..Len(H) : N[k] = H[k]
    BY <1>4, <1>5, <1>6, LenProperties
  <2>2. N[Len(H) + 1] = row
    BY <1>4, <1>5, <1>6, LenProperties
  <2>3. \A k \in 1..(Len(trail) - 1) :
           N[Len(H) + 1 + k] = Move(trail[k], trail[k + 1], "AUTO", Null, f)
    BY <1>6
  <2> HIDE DEF N
  <2> QED
    BY <1>1, <1>2, <1>8, <1>9, <1>10, <2>1, <2>2, <2>3 DEF Walked
<1>12. Tasked(i, T, last(trail))
  BY <1>1, CreatedTask DEF Tasked
<1> QED
  BY <1>1, <1>2, <1>11, <1>12 DEF Entered

-----------------------------------------------------------------------------
(* The invariant                                                           *)

\* Processes and the documents they decide.
Places ==
    /\ \A i \in Instances :
        /\ inst[i].status = "ABSENT" => inst[i].doc = Null /\ moves[i] = <<>>
        /\ inst[i].status # "ABSENT" => inst[i].doc \in Docs
        /\ inst[i].status = "COMPLETED" => inst[i].state \in Final
        /\ inst[i].status = "RUNNING" =>
             /\ inst[i].state \notin Final
             /\ doc[inst[i].doc].inst = i /\ ~doc[inst[i].doc].deleted
             /\ revision # "DELETED"
    /\ \A d \in Docs : doc[d].inst # Null =>
        inst[doc[d].inst].status # "ABSENT" /\ inst[doc[d].inst].doc = d

\* Tasks and the processes they wait in.
Desks ==
    /\ \A t \in Tasks :
        /\ task[t].status = "ABSENT" => task[t].inst = Null
        /\ task[t].status # "ABSENT" =>
             /\ task[t].inst \in Instances /\ inst[task[t].inst].status # "ABSENT"
             /\ Kind[task[t].state] = "human"
        /\ task[t].status \in Open => inst[task[t].inst].state = task[t].state
    /\ \A t, u \in Tasks :
        task[t].status \in Open /\ task[u].status \in Open /\ task[t].inst = task[u].inst => t = u
    /\ \A i \in Instances : inst[i].status # "ABSENT" /\ Kind[inst[i].state] = "human" =>
        \E t \in Tasks : task[t].status \in Open /\ task[t].inst = i

\* The history of each process is one walk that starts with a row.
Walks ==
    \A i \in Instances : inst[i].status # "ABSENT" =>
        /\ Len(moves[i]) > 0
        /\ moves[i][1].from = Null /\ moves[i][1].to = Initial
        /\ \A k \in 2..Len(moves[i]) :
            /\ moves[i][k].from = moves[i][k - 1].to
            /\ Arc(moves[i][k].from, moves[i][k].action, moves[i][k].to)
        /\ moves[i][Len(moves[i])].to = inst[i].state

\* A row names a task that is closed as it says, a closed task has its row,
\* and no two rows name one task.
Closings ==
    \A t \in Tasks, i \in Instances :
        /\ \A k \in 1..Len(moves[i]) : moves[i][k].task = t =>
            /\ task[t].status = "COMPLETED" /\ task[t].inst = i
            /\ moves[i][k].from = task[t].state
            /\ moves[i][k].action = IF task[t].action = Null THEN "RESUBMIT" ELSE task[t].action
        /\ task[t].status = "COMPLETED" /\ task[t].inst = i =>
            \E k \in 1..Len(moves[i]) : moves[i][k].task = t
        /\ \A j, k \in 1..Len(moves[i]) : moves[i][j].task = t /\ moves[i][k].task = t => j = k

\* What a decision read of a task's process is still so.
Readings ==
    \A c \in Clients : request[c].kind = "decide" =>
        /\ task[request[c].task].status # "ABSENT"
        /\ inst[task[request[c].task].inst].doc = request[c].doc

\* A submission that holds a number of its own.
Held(c) ==
    /\ request[c].kind = "submitting"
    /\ request[c].doc \in Tolerant /\ request[c].status # "RETURNED"
Numbers ==
    /\ \A d \in Docs :
        /\ doc[d].number <= issued
        /\ doc[d].status # "DRAFT" \/ doc[d].inst # Null => doc[d].number # 0
    /\ \A d, e \in Docs : d # e /\ doc[d].number # 0 => doc[d].number # doc[e].number
    /\ \A c \in Clients :
        /\ Held(c) =>
            /\ request[c].number \in 1..issued
            /\ \A d \in Docs : doc[d].number # request[c].number
            /\ \A b \in Clients : b # c /\ Held(b) => request[b].number # request[c].number
        /\ request[c].kind \in {"submit", "submitting"} /\ request[c].status = "RETURNED" =>
            doc[request[c].doc].number # 0

IInv ==
    /\ WorkflowTypeOK /\ Places /\ Desks /\ Walks /\ Closings /\ Readings /\ Numbers

-----------------------------------------------------------------------------
(* A process moves                                                         *)

\* It starts, or goes on from where it is, by a task that closes or by none.
Starting(i, d, T, row, trail) ==
    /\ inst[i].status = "ABSENT" /\ LiveInstance(d) = {} /\ revision = "ACTIVE"
    /\ T = task /\ trail[1] = Initial
    /\ row.from = Null /\ row.to = Initial /\ row.task = Null
Closing(i, T, row) ==
    \/ T = task /\ row.task = Null /\ OpenTask(task, i) = {}
    \/ \E t \in OpenTask(task, i), a \in DecisionActions \cup {Null} :
        /\ T = [task EXCEPT ![t] = Closed(t, a)]
        /\ row.task = t /\ row.action = IF a = Null THEN "RESUBMIT" ELSE a
Firing(i, d, T, row, trail) ==
    /\ inst[i].status = "RUNNING" /\ inst[i].doc = d /\ doc[d].inst = i
    /\ row.from = inst[i].state /\ row.to = trail[1] /\ Arc(row.from, row.action, row.to)
    /\ Closing(i, T, row)
Advanced(i, d, D, T, row, trail, f) ==
    /\ i \in Instances /\ d \in Docs /\ f \in Forms /\ row \in MoveRow
    /\ D \in DocRow /\ D.inst = i /\ ~D.deleted /\ D.number # 0
    /\ Walked(i, d, row, trail, f)
    /\ doc' = [doc EXCEPT ![d] = Restated(D, trail[Len(trail)])]
    /\ Tasked(i, T, trail[Len(trail)])
    /\ Starting(i, d, T, row, trail) \/ Firing(i, d, T, row, trail)

LEMMA AdvancedTasks ==
  ASSUME ConstantsOK, WorkflowTypeOK, Desks, NEW i \in Instances, NEW d, NEW D, NEW T, NEW row,
         NEW trail, NEW f, Advanced(i, d, D, T, row, trail, f)
  PROVE  /\ T \in [Tasks -> TaskRow]
         /\ \A t \in Tasks : \/ T[t] = task[t]
                             \/ /\ t = row.task /\ task[t].inst = i /\ task[t].status \in Open
                                /\ \E a \in DecisionActions \cup {Null} :
                                     /\ T[t] = Closed(t, a)
                                     /\ row.action = IF a = Null THEN "RESUBMIT" ELSE a
         /\ \A t \in Tasks : t = row.task => task[t].status \in Open /\ T[t].status = "COMPLETED"
         /\ OpenTask(T, i) = {}
<1>1. task \in [Tasks -> TaskRow]
  BY DEF WorkflowTypeOK, TaskRow
<1>2. CASE Starting(i, d, T, row, trail)
  <2>1. T = task /\ row.task = Null /\ Null \notin Tasks
    BY <1>2 DEF Starting, ConstantsOK
  <2>2. OpenTask(task, i) = {}
    BY <1>2 DEF Starting, OpenTask, Desks, Open
  <2> QED
    BY <1>1, <2>1, <2>2
<1>3. CASE Firing(i, d, T, row, trail)
  <2>1. CASE T = task /\ row.task = Null /\ OpenTask(task, i) = {}
    <3>1. Null \notin Tasks
      BY DEF ConstantsOK
    <3> QED
      BY <1>1, <2>1, <3>1
  <2>2. CASE \E t \in OpenTask(task, i), a \in DecisionActions \cup {Null} :
                /\ T = [task EXCEPT ![t] = Closed(t, a)]
                /\ row.task = t /\ row.action = IF a = Null THEN "RESUBMIT" ELSE a
    <3> PICK t \in OpenTask(task, i), a \in DecisionActions \cup {Null} :
           /\ T = [task EXCEPT ![t] = Closed(t, a)]
           /\ row.task = t /\ row.action = IF a = Null THEN "RESUBMIT" ELSE a
      BY <2>2
    <3>1. t \in Tasks /\ task[t].inst = i /\ task[t].status \in Open
      BY DEF OpenTask
    <3>2. Closed(t, a) \in TaskRow /\ Closed(t, a).status = "COMPLETED"
      <4>1. task[t] \in TaskRow
        BY <1>1, <3>1
      <4> QED
        BY <4>1 DEF Closed, TaskRow
    <3>3. T \in [Tasks -> TaskRow] /\ T[t] = Closed(t, a) /\ \A u \in Tasks : u # t => T[u] = task[u]
      BY <1>1, <2>2, <3>1, <3>2
    <3>4. OpenTask(T, i) = {}
      <4> SUFFICES ASSUME NEW u \in Tasks, T[u].inst = i, T[u].status \in Open
                   PROVE  FALSE
        BY DEF OpenTask
      <4>1. u # t
        BY <3>2, <3>3 DEF Open
      <4>2. task[u].inst = i /\ task[u].status \in Open
        BY <3>3, <4>1
      <4> QED
        BY <3>1, <4>1, <4>2 DEF Desks
    <3> QED
      BY <2>2, <3>1, <3>2, <3>3, <3>4
  <2> QED
    BY <1>3, <2>1, <2>2 DEF Firing, Closing
<1> QED
  BY <1>2, <1>3 DEF Advanced

LEMMA AdvancedTypes ==
  ASSUME ConstantsOK, WorkflowTypeOK, Desks, NEW i \in Instances, NEW d, NEW D, NEW T, NEW row,
         NEW trail, NEW f, Advanced(i, d, D, T, row, trail, f)
  PROVE  /\ doc' \in [Docs -> DocRow] /\ inst' \in [Instances -> InstRow]
         /\ task' \in [Tasks -> TaskRow] /\ moves' \in [Instances -> Seq(MoveRow)]
<1> DEFINE last == trail[Len(trail)]
<1>1. last \in States /\ d \in Docs /\ D \in DocRow
  BY DEF Advanced, Walked
<1>2. doc' \in [Docs -> DocRow]
  <2>1. doc \in [Docs -> DocRow] /\ doc' = [doc EXCEPT ![d] = Restated(D, last)]
    BY DEF WorkflowTypeOK, DocRow, Advanced
  <2>2. Restated(D, last) \in DocRow
    BY <1>1 DEF ConstantsOK, DocRow, Restated
  <2> QED
    BY <2>1, <2>2
<1>3. inst' \in [Instances -> InstRow]
  <2>1. inst \in [Instances -> InstRow]
    BY DEF WorkflowTypeOK, InstRow
  <2>2. inst' = [inst EXCEPT ![i] =
            [doc |-> d, state |-> last, status |-> IF last \in Final THEN "COMPLETED" ELSE "RUNNING"]]
    BY DEF Advanced, Walked
  <2>3. [doc |-> d, state |-> last,
         status |-> IF last \in Final THEN "COMPLETED" ELSE "RUNNING"] \in InstRow
    BY <1>1 DEF InstRow
  <2> QED
    BY <2>1, <2>2, <2>3
<1>4. task' \in [Tasks -> TaskRow]
  <2>1. T \in [Tasks -> TaskRow]
    BY AdvancedTasks
  <2>2. NewTask(i, last) \in TaskRow
    BY <1>1 DEF NewTask, TaskRow, ConstantsOK, Open
  <2>3. task' = T \/ \E t \in Tasks : task' = [T EXCEPT ![t] = NewTask(i, last)]
    BY DEF Advanced, Tasked
  <2> QED
    BY <2>1, <2>2, <2>3
<1>5. moves' \in [Instances -> Seq(MoveRow)]
  BY DEF Advanced, Walked
<1> QED
  BY <1>2, <1>3, <1>4, <1>5

LEMMA AdvancedPlaces ==
  ASSUME ConstantsOK, WorkflowTypeOK, Places, NEW i \in Instances, NEW d, NEW D, NEW T, NEW row,
         NEW trail, NEW f, Advanced(i, d, D, T, row, trail, f), revision' = revision
  PROVE  Places'
<1> DEFINE last == trail[Len(trail)]
<1>1. /\ doc \in [Docs -> DocRow] /\ inst \in [Instances -> InstRow]
      /\ moves \in [Instances -> Seq(MoveRow)]
  BY DEF WorkflowTypeOK, DocRow, InstRow
<1>2. /\ d \in Docs /\ D \in DocRow /\ D.inst = i /\ ~D.deleted
      /\ Starting(i, d, T, row, trail) \/ Firing(i, d, T, row, trail)
  BY DEF Advanced
<1>3. /\ inst'[i] = [doc |-> d, state |-> last,
                     status |-> IF last \in Final THEN "COMPLETED" ELSE "RUNNING"]
      /\ \A j \in Instances : j # i => inst'[j] = inst[j] /\ moves'[j] = moves[j]
  BY <1>1 DEF Advanced, Walked
<1>4. /\ doc'[d].inst = i /\ ~doc'[d].deleted
      /\ \A e \in Docs : e # d => doc'[e] = doc[e]
  <2>1. doc' = [doc EXCEPT ![d] = Restated(D, last)]
    BY DEF Advanced
  <2>2. Restated(D, last).inst = i /\ ~Restated(D, last).deleted
    BY <1>2 DEF DocRow, Restated
  <2> QED
    BY <1>1, <1>2, <2>1, <2>2
<1>5. revision # "DELETED"
  BY <1>2 DEF Starting, Firing, Places
<1>6. \A e \in Docs : e # d => doc[e].inst # i
  <2> SUFFICES ASSUME NEW e \in Docs, e # d, doc[e].inst = i
               PROVE  FALSE
    OBVIOUS
  <2>1. i # Null
    BY DEF ConstantsOK
  <2>2. inst[i].status # "ABSENT" /\ inst[i].doc = e
    BY <2>1 DEF Places
  <2> QED
    BY <1>2, <2>2 DEF Starting, Firing
<1>7. \A j \in Instances : j # i /\ inst[j].status = "RUNNING" => inst[j].doc # d
  <2> SUFFICES ASSUME NEW j \in Instances, j # i, inst[j].status = "RUNNING", inst[j].doc = d
               PROVE  FALSE
    OBVIOUS
  <2>1. doc[d].inst = j
    BY DEF Places
  <2> QED
    BY <1>2, <2>1 DEF Starting, Firing, LiveInstance
<1>8. ASSUME NEW j \in Instances
      PROVE  /\ inst'[j].status = "ABSENT" => inst'[j].doc = Null /\ moves'[j] = <<>>
             /\ inst'[j].status # "ABSENT" => inst'[j].doc \in Docs
             /\ inst'[j].status = "COMPLETED" => inst'[j].state \in Final
             /\ inst'[j].status = "RUNNING" =>
                  /\ inst'[j].state \notin Final
                  /\ doc'[inst'[j].doc].inst = j /\ ~doc'[inst'[j].doc].deleted
                  /\ revision' # "DELETED"
  <2>1. CASE j = i
    BY <1>2, <1>3, <1>4, <1>5, <2>1
  <2>2. CASE j # i
    <3>1. inst'[j] = inst[j] /\ moves'[j] = moves[j]
      BY <1>3, <2>2
    <3>2. inst[j].status = "RUNNING" => doc'[inst[j].doc] = doc[inst[j].doc]
      BY <1>4, <1>7, <2>2 DEF Places
    <3> QED
      BY <3>1, <3>2 DEF Places
  <2> QED
    BY <2>1, <2>2
<1>9. ASSUME NEW e \in Docs, doc'[e].inst # Null
      PROVE  inst'[doc'[e].inst].status # "ABSENT" /\ inst'[doc'[e].inst].doc = e
  <2>1. CASE e = d
    BY <1>3, <1>4, <2>1
  <2>2. CASE e # d
    <3>1. doc'[e] = doc[e] /\ doc[e].inst \in Instances
      BY <1>1, <1>4, <1>9, <2>2 DEF DocRow
    <3>2. inst'[doc[e].inst] = inst[doc[e].inst]
      BY <1>3, <1>6, <2>2, <3>1
    <3> QED
      BY <1>9, <3>1, <3>2 DEF Places
  <2> QED
    BY <2>1, <2>2
<1> QED
  BY <1>8, <1>9 DEF Places

LEMMA AdvancedDesks ==
  ASSUME ConstantsOK, WorkflowTypeOK, Places, Desks, NEW i \in Instances, NEW d, NEW D, NEW T,
         NEW row, NEW trail, NEW f, Advanced(i, d, D, T, row, trail, f)
  PROVE  Desks'
<1> DEFINE last == trail[Len(trail)]
<1>1. /\ inst \in [Instances -> InstRow] /\ task \in [Tasks -> TaskRow] /\ T \in [Tasks -> TaskRow]
      /\ last \in States
  <2>1. inst \in [Instances -> InstRow] /\ task \in [Tasks -> TaskRow]
    BY DEF WorkflowTypeOK, InstRow, TaskRow
  <2>2. T \in [Tasks -> TaskRow]
    BY AdvancedTasks
  <2>3. last \in States
    BY DEF Advanced, Walked
  <2> QED
    BY <2>1, <2>2, <2>3
<1>2. /\ inst'[i] = [doc |-> d, state |-> last,
                     status |-> IF last \in Final THEN "COMPLETED" ELSE "RUNNING"]
      /\ \A j \in Instances : j # i => inst'[j] = inst[j]
  BY <1>1 DEF Advanced, Walked
<1>3. /\ \A t \in Tasks : T[t].inst = task[t].inst /\ T[t].state = task[t].state
      /\ \A t \in Tasks : \/ T[t].status = task[t].status
                          \/ T[t].status = "COMPLETED" /\ task[t].status \in Open
      /\ \A t \in Tasks : T[t].status \in Open => T[t].inst # i
  <2>1. \A t \in Tasks : \/ T[t] = task[t]
                         \/ task[t].status \in Open /\ \E a \in DecisionActions \cup {Null} : T[t] = Closed(t, a)
    BY AdvancedTasks
  <2>2. \A t \in Tasks, a \in DecisionActions \cup {Null} :
           /\ Closed(t, a).inst = task[t].inst /\ Closed(t, a).state = task[t].state
           /\ Closed(t, a).status = "COMPLETED"
    BY <1>1 DEF Closed, TaskRow
  <2>3. OpenTask(T, i) = {}
    BY AdvancedTasks
  <2> QED
    BY <2>1, <2>2, <2>3 DEF OpenTask
<1>4. ASSUME NEW t \in Tasks
      PROVE  /\ T[t].status = "ABSENT" => T[t].inst = Null
             /\ T[t].status # "ABSENT" => T[t].inst \in Instances /\ inst'[T[t].inst].status # "ABSENT"
                                          /\ Kind[T[t].state] = "human"
             /\ T[t].status \in Open => inst'[T[t].inst].state = T[t].state
  <2>1. /\ T[t].inst = task[t].inst /\ T[t].state = task[t].state
        /\ T[t].status = "ABSENT" => task[t].status = "ABSENT"
        /\ T[t].status # "ABSENT" => task[t].status # "ABSENT"
        /\ T[t].status \in Open => task[t].status \in Open /\ task[t].inst # i
    BY <1>3 DEF Open
  <2>2. inst'[i].status # "ABSENT"
    BY <1>2
  <2> QED
    BY <1>2, <2>1, <2>2 DEF Desks, Open
<1>5. \A t, u \in Tasks :
         T[t].status \in Open /\ T[u].status \in Open /\ T[t].inst = T[u].inst => t = u
  BY <1>3 DEF Desks, Open
<1>6. ASSUME NEW j \in Instances, j # i, inst'[j].status # "ABSENT", Kind[inst'[j].state] = "human"
      PROVE  \E t \in Tasks : T[t].status \in Open /\ T[t].inst = j
  <2>1. PICK t \in Tasks : task[t].status \in Open /\ task[t].inst = j
    BY <1>2, <1>6 DEF Desks
  <2>2. T[t] = task[t]
    BY <1>6, <2>1, AdvancedTasks
  <2> QED
    BY <2>1, <2>2
<1>7. CASE Kind[last] # "human" /\ task' = T
  <2>1. inst'[i].state = last
    BY <1>2
  <2> QED
    BY <1>4, <1>5, <1>6, <1>7, <2>1 DEF Desks
<1>8. CASE \E t \in Tasks : /\ Kind[last] = "human" /\ OpenTask(T, i) = {} /\ T[t].status = "ABSENT"
                            /\ task' = [T EXCEPT ![t] = NewTask(i, last)]
  <2> PICK u \in Tasks : /\ Kind[last] = "human" /\ T[u].status = "ABSENT"
                         /\ task' = [T EXCEPT ![u] = NewTask(i, last)]
    BY <1>8
  <2>1. /\ task'[u] = NewTask(i, last)
        /\ \A t \in Tasks : t # u => task'[t] = T[t]
    BY <1>1
  <2>2. /\ NewTask(i, last).inst = i /\ NewTask(i, last).state = last
        /\ NewTask(i, last).status \in Open
    BY DEF NewTask, Open
  <2>3. inst'[i].state = last /\ inst'[i].status # "ABSENT"
    BY <1>2
  <2>4. \A t \in Tasks :
          /\ task'[t].status = "ABSENT" => task'[t].inst = Null
          /\ task'[t].status # "ABSENT" =>
               /\ task'[t].inst \in Instances /\ inst'[task'[t].inst].status # "ABSENT"
               /\ Kind[task'[t].state] = "human"
          /\ task'[t].status \in Open => inst'[task'[t].inst].state = task'[t].state
    BY <1>4, <2>1, <2>2, <2>3 DEF Open
  <2>5. \A t, v \in Tasks :
           task'[t].status \in Open /\ task'[v].status \in Open /\ task'[t].inst = task'[v].inst => t = v
    BY <1>3, <1>5, <2>1, <2>2
  <2>6. ASSUME NEW j \in Instances, inst'[j].status # "ABSENT", Kind[inst'[j].state] = "human"
        PROVE  \E t \in Tasks : task'[t].status \in Open /\ task'[t].inst = j
    <3>1. CASE j = i
      BY <2>1, <2>2, <3>1
    <3>2. CASE j # i
      <4>1. PICK t \in Tasks : T[t].status \in Open /\ T[t].inst = j
        BY <1>6, <2>6, <3>2
      <4>2. t # u
        BY <4>1 DEF Open
      <4> QED
        BY <2>1, <4>1, <4>2
    <3> QED
      BY <3>1, <3>2
  <2> QED
    BY <2>4, <2>5, <2>6 DEF Desks
<1> QED
  BY <1>7, <1>8 DEF Advanced, Tasked
\* Where a position after a and a + 1 falls in the b - 1 that follow.
LEMMA Backwards ==
  ASSUME NEW a \in Nat, NEW b \in Nat, NEW e \in 1..(b - 1), e # 1
  PROVE  e - 1 \in 1..(b - 1) /\ (a + 1 + e) - 1 = a + 1 + (e - 1) /\ (e - 1) + 1 = e
OBVIOUS

LEMMA Offset ==
  ASSUME NEW a \in Nat, NEW b \in Nat \ {0}, NEW k \in 1..(a + b), k > a + 1
  PROVE  \E n \in 1..(b - 1) : k = a + 1 + n
<1>1. k - (a + 1) \in 1..(b - 1) /\ k = a + 1 + (k - (a + 1))
  OBVIOUS
<1> QED
  BY <1>1

\* The rows of an instance that walked: those it had, the row that led to the
\* trail, and one for each automatic step.
LEMMA WalkedRows ==
  ASSUME WorkflowTypeOK, NEW i \in Instances, NEW d, NEW row, NEW trail, NEW f,
         Walked(i, d, row, trail, f)
  PROVE  /\ Len(moves[i]) \in Nat /\ Len(moves'[i]) = Len(moves[i]) + Len(trail)
         /\ \A k \in 1..Len(moves'[i]) :
              \/ k \in 1..Len(moves[i]) /\ moves'[i][k] = moves[i][k]
              \/ k = Len(moves[i]) + 1 /\ moves'[i][k] = row
              \/ \E n \in 1..(Len(trail) - 1) :
                    /\ k = Len(moves[i]) + 1 + n
                    /\ moves'[i][k] = Move(trail[n], trail[n + 1], "AUTO", Null, f)
<1>1. Len(moves[i]) \in Nat
  BY LenProperties DEF WorkflowTypeOK
<1>2. Len(moves'[i]) = Len(moves[i]) + Len(trail) /\ Len(trail) \in Nat \ {0}
  BY DEF Walked
<1>3. ASSUME NEW k \in 1..Len(moves'[i]), k \notin 1..Len(moves[i]), k # Len(moves[i]) + 1
      PROVE  \E n \in 1..(Len(trail) - 1) :
                /\ k = Len(moves[i]) + 1 + n
                /\ moves'[i][k] = Move(trail[n], trail[n + 1], "AUTO", Null, f)
  <2>1. PICK n \in 1..(Len(trail) - 1) : k = Len(moves[i]) + 1 + n
    <3>1. k \in 1..(Len(moves[i]) + Len(trail)) /\ k > Len(moves[i]) + 1
      BY <1>1, <1>2, <1>3
    <3> QED
      BY <1>1, <1>2, <3>1, Offset
  <2>2. moves'[i][Len(moves[i]) + 1 + n] = Move(trail[n], trail[n + 1], "AUTO", Null, f)
    BY <2>1 DEF Walked
  <2> QED
    BY <2>1, <2>2
<1>4. \A k \in 1..Len(moves[i]) : moves'[i][k] = moves[i][k]
  BY DEF Walked
<1>5. moves'[i][Len(moves[i]) + 1] = row
  BY DEF Walked
<1> QED
  BY <1>1, <1>2, <1>3, <1>4, <1>5

LEMMA AdvancedWalks ==
  ASSUME ConstantsOK, WorkflowTypeOK, Places, Walks, NEW i \in Instances, NEW d, NEW D, NEW T,
         NEW row, NEW trail, NEW f, Advanced(i, d, D, T, row, trail, f)
  PROVE  Walks'
<1> DEFINE last == trail[Len(trail)]
           H == moves[i]
           G == moves'[i]
           n == Len(H)
<1>1. /\ inst \in [Instances -> InstRow]
      /\ Starting(i, d, T, row, trail) \/ Firing(i, d, T, row, trail)
      /\ Walked(i, d, row, trail, f)
  BY DEF WorkflowTypeOK, InstRow, Advanced
<1>2. /\ inst'[i].state = last
      /\ \A j \in Instances : j # i => inst'[j] = inst[j] /\ moves'[j] = moves[j]
      /\ Len(trail) \in Nat \ {0}
      /\ \A k \in 1..(Len(trail) - 1) : Arc(trail[k], "AUTO", trail[k + 1])
  BY <1>1 DEF Walked
<1>3. /\ n \in Nat /\ Len(G) = n + Len(trail)
      /\ \A k \in 1..Len(G) :
           \/ k \in 1..n /\ G[k] = H[k]
           \/ k = n + 1 /\ G[k] = row
           \/ \E m \in 1..(Len(trail) - 1) :
                 k = n + 1 + m /\ G[k] = Move(trail[m], trail[m + 1], "AUTO", Null, f)
  BY <1>1, WalkedRows
<1>4. row.to = trail[1]
  BY <1>1 DEF Starting, Firing
<1>5. n = 0 => row.from = Null /\ row.to = Initial
  <2>1. CASE Starting(i, d, T, row, trail)
    BY <2>1 DEF Starting
  <2>2. CASE Firing(i, d, T, row, trail)
    BY <1>3, <2>2 DEF Firing, Walks
  <2> QED
    BY <1>1, <2>1, <2>2
<1>6. n # 0 => /\ row.from = H[n].to /\ Arc(row.from, row.action, row.to)
               /\ H[1].from = Null /\ H[1].to = Initial
  <2>1. CASE Starting(i, d, T, row, trail)
    <3>1. H = <<>>
      BY <2>1 DEF Starting, Places
    <3> QED
      BY <3>1
  <2>2. CASE Firing(i, d, T, row, trail)
    BY <2>2 DEF Firing, Walks
  <2> QED
    BY <1>1, <2>1, <2>2
<1>7. \A k \in 2..n : H[k].from = H[k - 1].to /\ Arc(H[k].from, H[k].action, H[k].to)
  <2>1. CASE Starting(i, d, T, row, trail)
    <3>1. H = <<>>
      BY <2>1 DEF Starting, Places
    <3> QED
      BY <3>1
  <2>2. CASE Firing(i, d, T, row, trail)
    BY <2>2 DEF Firing, Walks
  <2> QED
    BY <1>1, <2>1, <2>2
<1>8. /\ \A k \in 1..n : G[k] = H[k]
      /\ G[n + 1] = row
      /\ \A m \in 1..(Len(trail) - 1) :
           /\ G[n + 1 + m].from = trail[m] /\ G[n + 1 + m].to = trail[m + 1]
           /\ G[n + 1 + m].action = "AUTO"
  <2>1. /\ \A k \in 1..n : G[k] = H[k]
        /\ G[n + 1] = row
        /\ \A m \in 1..(Len(trail) - 1) :
             G[n + 1 + m] = Move(trail[m], trail[m + 1], "AUTO", Null, f)
    BY <1>1 DEF Walked
  <2>2. \A m : LET M == Move(trail[m], trail[m + 1], "AUTO", Null, f)
               IN  M.from = trail[m] /\ M.to = trail[m + 1] /\ M.action = "AUTO"
    BY DEF Move
  <2> HIDE DEF H, G, n
  <2> QED
    BY <2>1, <2>2
<1> HIDE DEF H, G, n
<1>9. Len(G) > 0 /\ G[1].from = Null /\ G[1].to = Initial
  BY <1>2, <1>3, <1>5, <1>6, <1>8
<1>10. ASSUME NEW k \in 2..Len(G)
       PROVE  G[k].from = G[k - 1].to /\ Arc(G[k].from, G[k].action, G[k].to)
  <2>1. CASE k <= n
    BY <1>3, <1>7, <1>8, <2>1
  <2>2. CASE k = n + 1
    <3>1. n # 0 /\ k - 1 = n /\ n \in 1..n
      BY <1>3, <2>2
    <3> QED
      BY <1>6, <1>8, <2>2, <3>1
  <2>3. CASE k > n + 1
    <3>1. PICK m \in 1..(Len(trail) - 1) : k = n + 1 + m
      <4>1. k \in 1..(n + Len(trail))
        BY <1>3
      <4> QED
        BY <1>2, <1>3, <2>3, <4>1, Offset
    <3>2. G[k].from = trail[m] /\ G[k].action = "AUTO" /\ G[k].to = trail[m + 1]
      BY <1>8, <3>1
    <3>3. CASE m = 1
      <4>1. k - 1 = n + 1
        BY <1>3, <3>1, <3>3
      <4> QED
        BY <1>2, <1>4, <1>8, <3>1, <3>2, <3>3, <4>1
    <3>4. CASE m # 1
      <4>1. m - 1 \in 1..(Len(trail) - 1) /\ k - 1 = n + 1 + (m - 1) /\ (m - 1) + 1 = m
        <5>1. n \in Nat /\ Len(trail) \in Nat /\ m \in 1..(Len(trail) - 1)
          BY <1>2, <1>3, <3>1
        <5> QED
          BY <3>1, <3>4, <5>1, Backwards
      <4>2. G[k - 1].to = trail[m]
        BY <1>8, <4>1
      <4> QED
        BY <1>2, <3>1, <3>2, <4>2
    <3> QED
      BY <3>3, <3>4
  <2> QED
    BY <1>3, <2>1, <2>2, <2>3
<1>11. G[Len(G)].to = last
  <2>1. CASE Len(trail) = 1
    BY <1>3, <1>4, <1>8, <2>1
  <2>2. CASE Len(trail) # 1
    <3>1. \A b \in Nat \ {0}, a \in Nat :
             b # 1 => b - 1 \in 1..(b - 1) /\ a + b = a + 1 + (b - 1) /\ (b - 1) + 1 = b
      OBVIOUS
    <3>2. PICK m \in 1..(Len(trail) - 1) : Len(G) = n + 1 + m /\ m + 1 = Len(trail)
      BY <1>2, <1>3, <2>2, <3>1
    <3> QED
      BY <1>8, <3>2
  <2> QED
    BY <2>1, <2>2
<1> USE DEF H, G, n
<1>12. SUFFICES ASSUME NEW j \in Instances, inst'[j].status # "ABSENT"
                PROVE  /\ Len(moves'[j]) > 0
                       /\ moves'[j][1].from = Null /\ moves'[j][1].to = Initial
                       /\ \A k \in 2..Len(moves'[j]) :
                           /\ moves'[j][k].from = moves'[j][k - 1].to
                           /\ Arc(moves'[j][k].from, moves'[j][k].action, moves'[j][k].to)
                       /\ moves'[j][Len(moves'[j])].to = inst'[j].state
  BY DEF Walks, Arc
<1>13. CASE j = i
  BY <1>2, <1>9, <1>10, <1>11, <1>13
<1>14. CASE j # i
  BY <1>2, <1>12, <1>14 DEF Walks
<1> QED
  BY <1>13, <1>14

LEMMA AdvancedClosings ==
  ASSUME ConstantsOK, WorkflowTypeOK, Places, Desks, Closings, NEW i \in Instances, NEW d, NEW D,
         NEW T, NEW row, NEW trail, NEW f, Advanced(i, d, D, T, row, trail, f)
  PROVE  Closings'
<1> DEFINE H == moves[i]
           G == moves'[i]
           n == Len(H)
<1>1. /\ task \in [Tasks -> TaskRow] /\ Walked(i, d, row, trail, f) /\ Null \notin Tasks
      /\ Starting(i, d, T, row, trail) \/ Firing(i, d, T, row, trail)
  BY DEF WorkflowTypeOK, TaskRow, Advanced, ConstantsOK
<1>2. T \in [Tasks -> TaskRow]
  BY AdvancedTasks
<1>3. /\ n \in Nat /\ Len(G) = n + Len(trail) /\ Len(trail) \in Nat \ {0}
      /\ \A k \in 1..n : G[k] = H[k]
      /\ G[n + 1] = row
      /\ \A k \in 1..Len(G) : k \in 1..n \/ k = n + 1 \/ G[k].task = Null
      /\ \A j \in Instances : j # i => moves'[j] = moves[j]
  <2>1. /\ \A k \in 1..n : G[k] = H[k]
        /\ G[n + 1] = row /\ Len(trail) \in Nat \ {0}
        /\ \A j \in Instances : j # i => moves'[j] = moves[j]
    BY <1>1 DEF Walked
  <2>2. n \in Nat /\ Len(G) = n + Len(trail)
    BY <1>1, WalkedRows
  <2>3. \A k \in 1..Len(G) : k \in 1..n \/ k = n + 1 \/ G[k].task = Null
    <3>1. \A k \in 1..Len(G) :
             \/ k \in 1..n \/ k = n + 1
             \/ \E m : G[k] = Move(trail[m], trail[m + 1], "AUTO", Null, f)
      <4>1. \A k \in 1..Len(G) :
               \/ k \in 1..n /\ G[k] = H[k]
               \/ k = n + 1 /\ G[k] = row
               \/ \E m \in 1..(Len(trail) - 1) :
                     k = n + 1 + m /\ G[k] = Move(trail[m], trail[m + 1], "AUTO", Null, f)
        BY <1>1, WalkedRows
      <4> HIDE DEF G, H, n
      <4> QED
        BY <4>1
    <3>2. \A m : Move(trail[m], trail[m + 1], "AUTO", Null, f).task = Null
      BY DEF Move
    <3> HIDE DEF G, n
    <3> QED
      BY <3>1, <3>2
  <2> QED
    BY <2>1, <2>2, <2>3
\* A task is as it was, or the one that the row closes, or a new one.
<1>4. ASSUME NEW t \in Tasks
      PROVE  \/ task'[t] = task[t] /\ t # row.task
             \/ /\ t = row.task /\ task[t].status \in Open
                /\ task'[t].status = "COMPLETED" /\ task'[t].inst = i
                /\ row.from = task'[t].state
                /\ row.action = IF task'[t].action = Null THEN "RESUBMIT" ELSE task'[t].action
             \/ task[t].status = "ABSENT" /\ task'[t].status \in Open /\ t # row.task
  <2>1. T[t].status # "ABSENT" => task'[t] = T[t]
    BY <1>2 DEF Advanced, Tasked
  <2>2. T[t].status = "ABSENT" => task'[t] = T[t] \/ task'[t].status \in Open
    BY <1>2 DEF Advanced, Tasked, NewTask, Open
  <2>3. CASE t = row.task
    <3>1. Firing(i, d, T, row, trail) /\ task[t].status \in Open /\ T[t].status = "COMPLETED"
      BY <1>1, <2>3, AdvancedTasks DEF Starting
    <3>2. PICK a \in DecisionActions \cup {Null} :
             T[t] = Closed(t, a) /\ row.action = IF a = Null THEN "RESUBMIT" ELSE a
      BY <3>1, AdvancedTasks DEF Open
    <3>3. task[t].inst = i
      BY <3>1, AdvancedTasks DEF Open
    <3>4. T[t].state = task[t].state /\ T[t].inst = i /\ T[t].action = a
      BY <1>1, <3>2, <3>3 DEF Closed, TaskRow
    <3>5. row.from = task[t].state
      BY <3>1, <3>3 DEF Firing, Desks
    <3> QED
      BY <2>1, <2>3, <3>1, <3>2, <3>4, <3>5
  <2>4. CASE t # row.task
    <3>1. T[t] = task[t]
      BY <2>4, AdvancedTasks
    <3> QED
      BY <2>1, <2>2, <2>4, <3>1
  <2> QED
    BY <2>3, <2>4
<1> HIDE DEF H, G, n
<1>5. ASSUME NEW t \in Tasks
      PROVE  /\ \A k \in 1..Len(G) : G[k].task = t =>
                  /\ task'[t].status = "COMPLETED" /\ task'[t].inst = i
                  /\ G[k].from = task'[t].state
                  /\ G[k].action = IF task'[t].action = Null THEN "RESUBMIT" ELSE task'[t].action
             /\ task'[t].status = "COMPLETED" /\ task'[t].inst = i =>
                  \E k \in 1..Len(G) : G[k].task = t
             /\ \A j, k \in 1..Len(G) : G[j].task = t /\ G[k].task = t => j = k
  <2>1. /\ \A k \in 1..n : H[k].task = t =>
             /\ task[t].status = "COMPLETED" /\ task[t].inst = i
             /\ H[k].from = task[t].state
             /\ H[k].action = IF task[t].action = Null THEN "RESUBMIT" ELSE task[t].action
        /\ task[t].status = "COMPLETED" /\ task[t].inst = i => \E k \in 1..n : H[k].task = t
        /\ \A j, k \in 1..n : H[j].task = t /\ H[k].task = t => j = k
    BY DEF Closings, H, n
  <2>2. n + 1 \in 1..Len(G) /\ 1..n \subseteq 1..Len(G)
    BY <1>3
  <2>3. CASE task'[t] = task[t] /\ t # row.task
    <3>1. \A k \in 1..Len(G) : G[k].task = t => k \in 1..n /\ G[k] = H[k]
      BY <1>1, <1>3, <2>3
    <3> QED
      BY <1>3, <2>1, <2>2, <2>3, <3>1
  <2>4. CASE /\ t = row.task /\ task[t].status \in Open
             /\ task'[t].status = "COMPLETED" /\ task'[t].inst = i
             /\ row.from = task'[t].state
             /\ row.action = IF task'[t].action = Null THEN "RESUBMIT" ELSE task'[t].action
    <3>1. \A k \in 1..n : G[k].task # t
      BY <1>3, <2>1, <2>4 DEF Open
    <3>2. \A k \in 1..Len(G) : G[k].task = t => k = n + 1 /\ G[k] = row
      BY <1>1, <1>3, <3>1
    <3>3. G[n + 1].task = t
      BY <1>3, <2>4
    <3> QED
      BY <2>2, <2>4, <3>2, <3>3
  <2>5. CASE task[t].status = "ABSENT" /\ task'[t].status \in Open /\ t # row.task
    <3>1. \A k \in 1..Len(G) : G[k].task # t
      BY <1>1, <1>3, <2>1, <2>5
    <3> QED
      BY <2>5, <3>1 DEF Open
  <2> QED
    BY <1>4, <2>3, <2>4, <2>5
<1>6. ASSUME NEW t \in Tasks, NEW j \in Instances, j # i
      PROVE  /\ \A k \in 1..Len(moves'[j]) : moves'[j][k].task = t =>
                  /\ task'[t].status = "COMPLETED" /\ task'[t].inst = j
                  /\ moves'[j][k].from = task'[t].state
                  /\ moves'[j][k].action =
                        IF task'[t].action = Null THEN "RESUBMIT" ELSE task'[t].action
             /\ task'[t].status = "COMPLETED" /\ task'[t].inst = j =>
                  \E k \in 1..Len(moves'[j]) : moves'[j][k].task = t
             /\ \A a, b \in 1..Len(moves'[j]) :
                  moves'[j][a].task = t /\ moves'[j][b].task = t => a = b
  <2>1. moves'[j] = moves[j]
    BY <1>3, <1>6
  <2>2. CASE task'[t] = task[t]
    BY <2>1, <2>2 DEF Closings
  <2>3. CASE task[t].status \in Open /\ task'[t].status = "COMPLETED" /\ task'[t].inst = i
    BY <1>6, <2>1, <2>3 DEF Closings, Open
  <2>4. CASE task[t].status = "ABSENT" /\ task'[t].status \in Open
    BY <2>1, <2>4 DEF Closings, Open
  <2> QED
    BY <1>4, <2>2, <2>3, <2>4
<1>7. ASSUME NEW t \in Tasks, NEW j \in Instances
      PROVE  /\ \A k \in 1..Len(moves'[j]) : moves'[j][k].task = t =>
                  /\ task'[t].status = "COMPLETED" /\ task'[t].inst = j
                  /\ moves'[j][k].from = task'[t].state
                  /\ moves'[j][k].action =
                        IF task'[t].action = Null THEN "RESUBMIT" ELSE task'[t].action
             /\ task'[t].status = "COMPLETED" /\ task'[t].inst = j =>
                  \E k \in 1..Len(moves'[j]) : moves'[j][k].task = t
             /\ \A a, b \in 1..Len(moves'[j]) :
                  moves'[j][a].task = t /\ moves'[j][b].task = t => a = b
  BY <1>5, <1>6 DEF G
<1> QED
  BY <1>7 DEF Closings

LEMMA AdvancedReadings ==
  ASSUME ConstantsOK, WorkflowTypeOK, Places, Desks, Readings, NEW i \in Instances, NEW d, NEW D,
         NEW T, NEW row, NEW trail, NEW f, Advanced(i, d, D, T, row, trail, f),
         NEW c \in Clients, request' = [request EXCEPT ![c] = Idle]
  PROVE  Readings'
<1>1. /\ inst \in [Instances -> InstRow] /\ task \in [Tasks -> TaskRow]
      /\ Starting(i, d, T, row, trail) \/ Firing(i, d, T, row, trail)
  BY DEF WorkflowTypeOK, InstRow, TaskRow, Advanced
<1>2. \A j \in Instances : inst[j].status # "ABSENT" => inst'[j].doc = inst[j].doc
  BY <1>1 DEF Advanced, Walked, Starting, Firing
<1>3. ASSUME NEW t \in Tasks, task[t].status # "ABSENT"
      PROVE  task'[t].status # "ABSENT" /\ task'[t].inst = task[t].inst
  <2>1. T \in [Tasks -> TaskRow]
    BY AdvancedTasks
  <2>2. T[t] = task[t] \/ \E a \in DecisionActions \cup {Null} : T[t] = Closed(t, a)
    BY AdvancedTasks
  <2>3. \A a \in DecisionActions \cup {Null} :
           Closed(t, a).inst = task[t].inst /\ Closed(t, a).status = "COMPLETED"
    BY <1>1 DEF Closed, TaskRow
  <2>4. T[t].status # "ABSENT" /\ T[t].inst = task[t].inst
    BY <1>3, <2>2, <2>3
  <2>5. task'[t] = T[t]
    BY <2>1, <2>4 DEF Advanced, Tasked
  <2> QED
    BY <2>4, <2>5
<1>4. ASSUME NEW b \in Clients, request'[b].kind = "decide"
      PROVE  /\ task'[request'[b].task].status # "ABSENT"
             /\ inst'[task'[request'[b].task].inst].doc = request'[b].doc
  <2>1. b # c /\ request'[b] = request[b]
    BY <1>4 DEF WorkflowTypeOK, Idle
  <2>2. request[b] \in Decision
    <3>1. request[b] \in Requests
      BY DEF WorkflowTypeOK, Requests
    <3> QED
      BY <1>4, <2>1, <3>1, RequestKinds
  <2>3. request[b].task \in Tasks /\ task[request[b].task].status # "ABSENT"
    BY <1>4, <2>1, <2>2 DEF Decision, Readings
  <2> QED
    BY <1>2, <1>3, <1>4, <2>1, <2>3 DEF Readings, Desks
<1> QED
  BY <1>4 DEF Readings
LEMMA AdvancedKeeps ==
  ASSUME ConstantsOK, IInv, NEW i \in Instances, NEW d, NEW D, NEW T, NEW row, NEW trail, NEW f,
         Advanced(i, d, D, T, row, trail, f), NEW c \in Clients,
         request' = [request EXCEPT ![c] = Idle],
         issued' \in Nat, UNCHANGED <<bound, revision, rebinds>>
  PROVE  WorkflowTypeOK' /\ Places' /\ Desks' /\ Walks' /\ Closings' /\ Readings'
<1>1. WorkflowTypeOK /\ Places /\ Desks /\ Walks /\ Closings /\ Readings
  BY DEF IInv
<1>2. WorkflowTypeOK'
  <2>1. /\ doc' \in [Docs -> DocRow] /\ inst' \in [Instances -> InstRow]
        /\ task' \in [Tasks -> TaskRow] /\ moves' \in [Instances -> Seq(MoveRow)]
    BY <1>1, AdvancedTypes
  <2>2. request' \in [Clients -> Requests]
    <3>1. request \in [Clients -> Requests] /\ Idle \in Requests
      BY <1>1 DEF WorkflowTypeOK, Requests
    <3> QED
      BY <3>1
  <2> QED
    BY <1>1, <2>1, <2>2 DEF WorkflowTypeOK, DocRow, InstRow, TaskRow, Requests
<1> QED
  BY <1>1, <1>2, AdvancedPlaces, AdvancedDesks, AdvancedWalks, AdvancedClosings, AdvancedReadings

-----------------------------------------------------------------------------
(* The calls that move a process                                           *)

LEMMA FiresRunning ==
  ASSUME ConstantsOK, Places, WorkflowTypeOK, NEW i \in Instances, inst[i].status # "ABSENT",
         NEW action, NEW f, Candidates(inst[i].state, action, f) # {}
  PROVE  inst[i].status = "RUNNING"
<1>1. inst[i].state \notin Final
  BY DEF Candidates, ConstantsOK
<1> QED
  BY <1>1 DEF Places, WorkflowTypeOK

LEMMA FireAdvances ==
  ASSUME ConstantsOK, IInv, NEW i \in Instances, NEW d \in Docs, NEW D \in DocRow, NEW T,
         NEW action \in Actions, NEW t \in Tasks \cup {Null}, NEW f \in Forms,
         Fire(i, D, d, T, action, t, f),
         inst[i].status # "ABSENT", inst[i].doc = d, D.inst = i, ~D.deleted, D.number # 0,
         \/ T = task /\ t = Null /\ OpenTask(task, i) = {}
         \/ /\ t \in OpenTask(task, i)
            /\ \E a \in DecisionActions \cup {Null} :
                 T = [task EXCEPT ![t] = Closed(t, a)] /\ action = IF a = Null THEN "RESUBMIT" ELSE a
  PROVE  \E row, trail : Advanced(i, d, D, T, row, trail, f)
<1> DEFINE s == inst[i].state
           edge == Edges[Chosen(s, action, f)]
           row == Move(s, edge.to, action, t, f)
<1>1. WorkflowTypeOK /\ Places
  BY DEF IInv
<1>2. s \in States /\ moves \in [Instances -> Seq(MoveRow)]
  BY <1>1 DEF WorkflowTypeOK
<1>3. Candidates(s, action, f) # {} /\ Enter(i, D, d, T, row, edge.to, f)
  BY DEF Fire
<1>4. /\ Chosen(s, action, f) \in DOMAIN Edges
      /\ edge.from = s /\ edge.action = action /\ edge.to \in States
  BY <1>3, ChosenIsCandidate
<1>5. inst[i].status = "RUNNING"
  BY <1>1, <1>3, FiresRunning
<1>6. doc[d].inst = i
  BY <1>1, <1>5 DEF Places
<1> HIDE DEF s, edge
<1>7. /\ row \in MoveRow /\ row.from = s /\ row.to = edge.to /\ row.action = action /\ row.task = t
  BY <1>2, <1>4 DEF Move, MoveRow
<1>8. Arc(row.from, row.action, row.to)
  BY <1>4, <1>7 DEF Arc, edge
<1> HIDE DEF row
<1>9. PICK trail : /\ trail[1] = edge.to
                   /\ Walked(i, d, row, trail, f)
                   /\ doc' = [doc EXCEPT ![d] = Restated(D, trail[Len(trail)])]
                   /\ Tasked(i, T, trail[Len(trail)])
  <2>1. Entered(i, d, D, T, row, edge.to, f)
    BY <1>2, <1>3, <1>7, EnterWalks
  <2> QED
    BY <2>1 DEF Entered
<1>10. Closing(i, T, row)
  BY <1>7 DEF Closing
<1>11. Firing(i, d, T, row, trail)
  BY <1>5, <1>6, <1>7, <1>8, <1>9, <1>10 DEF Firing, s
<1> QED
  BY <1>7, <1>9, <1>11 DEF Advanced

LEMMA StartAdvances ==
  ASSUME ConstantsOK, IInv, NEW d \in Docs, NEW D \in DocRow, ~D.deleted, D.number # 0, Start(D, d)
  PROVE  \E i \in Instances : \E row, trail :
            Starting(i, d, task, row, trail) /\ Advanced(i, d, [D EXCEPT !.inst = i], task, row, trail, D.form)
<1> DEFINE fresh == {i \in Instances : inst[i].status = "ABSENT"}
           i == CHOOSE j \in fresh : \A k \in fresh : j <= k
           f == D.form
           row == Move(Null, Initial, Null, Null, f)
           E == [D EXCEPT !.inst = i]
<1>1. fresh \subseteq Nat /\ fresh # {}
  BY DEF Start, ConstantsOK
<1>2. \E j \in fresh : \A k \in fresh : j <= k
  BY <1>1, LeastExists
<1>3. i \in fresh
  BY <1>2
<1>4. /\ revision = "ACTIVE" /\ LiveInstance(d) = {}
      /\ Enter(i, E, d, task, row, Initial, f)
  BY DEF Start
<1>5. i \in Instances /\ inst[i].status = "ABSENT" /\ f \in Forms
  BY <1>3 DEF DocRow
<1> HIDE DEF i, f, fresh
<1>6. E \in DocRow /\ E.inst = i /\ ~E.deleted /\ E.number # 0
  BY <1>5 DEF DocRow
<1>7. row \in MoveRow /\ row.from = Null /\ row.to = Initial /\ row.task = Null
  BY <1>5 DEF Move, MoveRow, ConstantsOK
<1>8. moves \in [Instances -> Seq(MoveRow)]
  BY DEF IInv, WorkflowTypeOK
<1> HIDE DEF row, E
<1>9. PICK trail : /\ trail[1] = Initial
                   /\ Walked(i, d, row, trail, f)
                   /\ doc' = [doc EXCEPT ![d] = Restated(E, trail[Len(trail)])]
                   /\ Tasked(i, task, trail[Len(trail)])
  <2>1. Entered(i, d, E, task, row, Initial, f)
    BY <1>4, <1>5, <1>7, <1>8, EnterWalks
  <2> QED
    BY <2>1 DEF Entered
<1>10. Starting(i, d, task, row, trail)
  BY <1>4, <1>5, <1>7, <1>9 DEF Starting
<1>11. Advanced(i, d, E, task, row, trail, f)
  BY <1>5, <1>6, <1>7, <1>9, <1>10 DEF Advanced
<1> QED
  BY <1>5, <1>10, <1>11 DEF E, f

\* What a decision and a resubmission do to the document's process, and a
\* submission that leaves the document without one.
Plainly(d, D) == doc' = [doc EXCEPT ![d] = D] /\ UNCHANGED <<inst, task, moves>>

LEMMA ResubmitAdvances ==
  ASSUME ConstantsOK, IInv, NEW r, NEW d \in Docs, NEW D \in DocRow, ~D.deleted, D.number # 0,
         r.doc = d, r.inst = doc[d].inst, D.inst = doc[d].inst, Resubmit(r, D)
  PROVE  \/ doc[d].inst = Null /\ Plainly(d, D)
         \/ /\ doc[d].inst \in Instances
            /\ \E T, row, trail :
                 /\ Firing(doc[d].inst, d, T, row, trail)
                 /\ Advanced(doc[d].inst, d, D, T, row, trail, D.form)
<1> DEFINE i == doc[d].inst
           open == OpenTask(task, i)
           closed == [t \in Tasks |-> IF t \in open THEN Closed(t, Null) ELSE task[t]]
           t0 == IF open = {} THEN Null ELSE CHOOSE t \in open : TRUE
<1>1. doc \in [Docs -> DocRow] /\ task \in [Tasks -> TaskRow] /\ Places /\ Desks
  BY DEF IInv, WorkflowTypeOK, DocRow, TaskRow
<1>2. CASE i = Null
  BY <1>2 DEF Resubmit, Plainly
<1>3. CASE i # Null
  <2>1. i \in Instances /\ inst[i].status # "ABSENT" /\ inst[i].doc = d
    BY <1>1, <1>3 DEF DocRow, Places
  <2>2. Fire(i, D, d, closed, "RESUBMIT", t0, D.form)
    BY <1>3 DEF Resubmit
  <2>3. t0 \in Tasks \cup {Null} /\ "RESUBMIT" \in Actions /\ D.form \in Forms
    BY DEF OpenTask, Actions, DocRow
  <2>4. \/ closed = task /\ t0 = Null /\ open = {}
        \/ /\ t0 \in open /\ closed = [task EXCEPT ![t0] = Closed(t0, Null)]
    <3>1. CASE open = {}
      BY <1>1, <3>1
    <3>2. CASE open # {}
      <4>1. t0 \in open /\ open = {t0}
        <5>1. t0 \in open
          BY <3>2
        <5> QED
          BY <1>1, <5>1 DEF OpenTask, Desks
      <4> QED
        BY <1>1, <4>1
    <3> QED
      BY <3>1, <3>2
  <2>5. (IF Null = Null THEN "RESUBMIT" ELSE Null) = "RESUBMIT"
    OBVIOUS
  <2>6. \/ closed = task /\ t0 = Null /\ open = {}
        \/ /\ t0 \in open
           /\ \E a \in DecisionActions \cup {Null} :
                /\ closed = [task EXCEPT ![t0] = Closed(t0, a)]
                /\ "RESUBMIT" = IF a = Null THEN "RESUBMIT" ELSE a
    BY <2>4, <2>5
  <2> HIDE DEF closed, t0
  <2>7. \E row, trail : Advanced(i, d, D, closed, row, trail, D.form)
    BY <2>1, <2>2, <2>3, <2>6, FireAdvances
  <2>8. ASSUME NEW row, NEW trail, Advanced(i, d, D, closed, row, trail, D.form)
        PROVE  Firing(i, d, closed, row, trail)
    BY <2>1, <2>8 DEF Advanced, Starting
  <2> QED
    BY <2>1, <2>7, <2>8
<1> QED
  BY <1>2, <1>3

LEMMA DecideAdvances ==
  ASSUME ConstantsOK, IInv, NEW c \in Clients, NEW u, NEW action \in DecisionActions,
         Decide(c, u, action)
  PROVE  \E d \in Docs : \E i \in Instances : \E T, row, trail, f :
            /\ Firing(i, d, T, row, trail)
            /\ Advanced(i, d, doc[d], T, row, trail, f)
<1> DEFINE r == request[c]
           t == r.task
           i == task[t].inst
           d == r.doc
           T == [task EXCEPT ![t] = Closed(t, action)]
<1>1. /\ WorkflowTypeOK /\ Places /\ Desks /\ Readings /\ Numbers
      /\ doc \in [Docs -> DocRow] /\ task \in [Tasks -> TaskRow]
  BY DEF IInv, WorkflowTypeOK, DocRow, TaskRow
<1>2. r \in Decision /\ r.kind = "decide"
  <2>1. r \in Requests
    BY <1>1 DEF WorkflowTypeOK, Requests
  <2> QED
    BY <2>1, RequestKinds DEF Decide
<1>3. t \in Tasks /\ d \in Docs /\ r.form \in Forms
  BY <1>2 DEF Decision
<1>4. task[t].status \in Open /\ Fire(i, doc[d], d, T, action, t, r.form)
  BY DEF Decide
<1>5. i \in Instances /\ inst[i].status # "ABSENT" /\ inst[i].doc = d
  BY <1>1, <1>2, <1>3, <1>4 DEF Desks, Readings, Open
<1>6. inst[i].status = "RUNNING"
  BY <1>1, <1>4, <1>5, FiresRunning DEF Fire
<1>7. doc[d].inst = i /\ ~doc[d].deleted /\ doc[d] \in DocRow
  BY <1>1, <1>3, <1>5, <1>6 DEF Places
<1>8. doc[d].number # 0
  <2>1. i # Null
    BY <1>5 DEF ConstantsOK
  <2> QED
    BY <1>1, <1>3, <1>7, <2>1 DEF Numbers
<1>9. t \in OpenTask(task, i)
  BY <1>3, <1>4 DEF OpenTask
<1>10. /\ action \in Actions /\ action \in DecisionActions \cup {Null}
       /\ action = IF action = Null THEN "RESUBMIT" ELSE action
  BY DEF Actions, ConstantsOK
<1> HIDE DEF t, i, d, T
<1>11. \E row, trail : Advanced(i, d, doc[d], T, row, trail, r.form)
  <2>1. \E a \in DecisionActions \cup {Null} :
           T = [task EXCEPT ![t] = Closed(t, a)] /\ action = IF a = Null THEN "RESUBMIT" ELSE a
    BY <1>10 DEF T
  <2> QED
    BY <1>3, <1>4, <1>5, <1>7, <1>8, <1>9, <1>10, <2>1, FireAdvances
<1>12. ASSUME NEW row, NEW trail, Advanced(i, d, doc[d], T, row, trail, r.form)
       PROVE  Firing(i, d, T, row, trail)
  BY <1>5, <1>12 DEF Advanced, Starting
<1> QED
  BY <1>3, <1>5, <1>11, <1>12
-----------------------------------------------------------------------------
(* The numbers of documents                                                *)

LEMMA NumbersKept ==
  ASSUME IInv, issued' = issued,
         \A d \in Docs :
            /\ doc'[d].number = doc[d].number
            /\ doc'[d].status # "DRAFT" \/ doc'[d].inst # Null => doc[d].number # 0,
         \A c \in Clients :
            \/ request'[c] = request[c]
            \/ /\ request'[c].kind = "submitting" =>
                    request'[c].doc \notin Tolerant \/ request'[c].status = "RETURNED"
               /\ request'[c].kind \in {"submit", "submitting"} /\ request'[c].status = "RETURNED" =>
                    request'[c].doc \in Docs /\ doc[request'[c].doc].number # 0
  PROVE  Numbers'
<1>1. Numbers /\ WorkflowTypeOK
  BY DEF IInv
<1>2. \A c \in Clients : Held(c)' => request'[c] = request[c] /\ Held(c)
  BY DEF Held
<1>3. \A c \in Clients : request[c].kind \in {"submit", "submitting"} => request[c].doc \in Docs
  <2> TAKE c \in Clients
  <2>1. request[c] \in Requests
    BY <1>1 DEF WorkflowTypeOK, Requests
  <2> QED
    BY <2>1, RequestKinds DEF Submission
<1>4. /\ \A d \in Docs :
           /\ doc'[d].number <= issued'
           /\ doc'[d].status # "DRAFT" \/ doc'[d].inst # Null => doc'[d].number # 0
      /\ \A d, e \in Docs : d # e /\ doc'[d].number # 0 => doc'[d].number # doc'[e].number
  BY <1>1 DEF Numbers
<1>5. ASSUME NEW c \in Clients, Held(c)'
      PROVE  /\ request'[c].number \in 1..issued'
             /\ \A d \in Docs : doc'[d].number # request'[c].number
             /\ \A b \in Clients : b # c /\ Held(b)' => request'[b].number # request'[c].number
  BY <1>1, <1>2, <1>5 DEF Numbers
<1>6. ASSUME NEW c \in Clients, request'[c].kind \in {"submit", "submitting"},
             request'[c].status = "RETURNED"
      PROVE  doc'[request'[c].doc].number # 0
  <2>1. request'[c].doc \in Docs
    BY <1>3, <1>6
  <2>2. doc[request'[c].doc].number # 0
    BY <1>1, <1>6 DEF Numbers
  <2> QED
    BY <2>1, <2>2
<1> QED
  BY <1>4, <1>5, <1>6 DEF Numbers

\* The number that a submission writes is its own.
LEMMA NumberedFacts ==
  ASSUME IInv, NEW c \in Clients, request[c].kind = "submitting", NEW d, d = request[c].doc
  PROVE  /\ d \in Docs /\ Numbered(request[c], doc[d]) \in Nat \ {0}
         /\ \A e \in Docs : e # d => doc[e].number # Numbered(request[c], doc[d])
         /\ \A b \in Clients : b # c /\ Held(b) => request[b].number # Numbered(request[c], doc[d])
         /\ request[c].inst \in Instances \cup {Null}
<1> DEFINE r == request[c]
<1>1. WorkflowTypeOK /\ Numbers
  BY DEF IInv
<1>2. r \in Submission("submitting")
  <2>1. r \in Requests
    BY <1>1 DEF WorkflowTypeOK, Requests
  <2> QED
    BY <2>1, RequestKinds
<1>3. d \in Docs /\ r.number \in Nat /\ r.inst \in Instances \cup {Null}
  BY <1>2 DEF Submission
<1>4. doc[d].number \in Nat /\ issued \in Nat /\ \A e \in Docs : doc[e].number \in Nat
  BY <1>1, <1>3 DEF WorkflowTypeOK
<1>5. CASE r.status = "RETURNED"
  <2>1. doc[d].number # 0
    BY <1>1, <1>5 DEF Numbers
  <2> QED
    BY <1>1, <1>3, <1>4, <1>5, <2>1 DEF Numbers, Numbered
<1>6. CASE r.status # "RETURNED" /\ d \in Tolerant
  <2>1. Held(c)
    BY <1>6 DEF Held
  <2> QED
    BY <1>1, <1>3, <1>4, <1>6, <2>1 DEF Numbers, Numbered
<1>7. CASE r.status # "RETURNED" /\ d \notin Tolerant
  <2>1. Numbered(r, doc[d]) = issued + 1
    BY <1>7 DEF Numbered
  <2>2. \A b \in Clients : Held(b) => request[b].number \in Nat /\ request[b].number <= issued
    BY <1>1, <1>4 DEF Numbers
  <2>3. \A e \in Docs : doc[e].number <= issued
    BY <1>1 DEF Numbers
  <2> QED
    BY <1>3, <1>4, <2>1, <2>2, <2>3
<1> QED
  BY <1>5, <1>6, <1>7

LEMMA SubmitNumbers ==
  ASSUME IInv, NEW c \in Clients, request[c].kind = "submitting", NEW d, d = request[c].doc,
         NEW number, number = Numbered(request[c], doc[d]),
         issued' = IF number > issued THEN number ELSE issued,
         request' = [request EXCEPT ![c] = Idle],
         \A e \in Docs : e # d => doc'[e] = doc[e],
         doc'[d].number = number
  PROVE  Numbers' /\ issued' \in Nat
<1>1. WorkflowTypeOK /\ Numbers /\ issued \in Nat /\ \A e \in Docs : doc[e].number \in Nat
  BY DEF IInv, WorkflowTypeOK
<1>2. /\ d \in Docs /\ number \in Nat \ {0}
      /\ \A e \in Docs : e # d => doc[e].number # number
      /\ \A b \in Clients : b # c /\ Held(b) => request[b].number # number
  BY NumberedFacts
<1>3. issued' \in Nat /\ issued <= issued' /\ number <= issued'
  BY <1>1, <1>2
<1>4. /\ request'[c] = Idle
      /\ \A b \in Clients : b # c => request'[b] = request[b]
  BY <1>1 DEF WorkflowTypeOK
<1>5. \A b \in Clients : Held(b)' => b # c /\ Held(b) /\ request'[b] = request[b]
  BY <1>4 DEF Held, Idle
<1>6. /\ \A e \in Docs :
           /\ doc'[e].number <= issued'
           /\ doc'[e].status # "DRAFT" \/ doc'[e].inst # Null => doc'[e].number # 0
      /\ \A e, g \in Docs : e # g /\ doc'[e].number # 0 => doc'[e].number # doc'[g].number
  BY <1>1, <1>2, <1>3 DEF Numbers
<1>7. ASSUME NEW b \in Clients, Held(b)'
      PROVE  /\ request'[b].number \in 1..issued'
             /\ \A e \in Docs : doc'[e].number # request'[b].number
             /\ \A a \in Clients : a # b /\ Held(a)' => request'[a].number # request'[b].number
  <2>1. b # c /\ Held(b) /\ request'[b] = request[b]
    BY <1>5, <1>7
  <2>2. /\ request[b].number \in 1..issued
        /\ \A e \in Docs : doc[e].number # request[b].number
        /\ \A a \in Clients : a # b /\ Held(a) => request[a].number # request[b].number
    BY <1>1, <2>1 DEF Numbers
  <2> QED
    BY <1>1, <1>2, <1>3, <1>5, <2>1, <2>2
<1>8. ASSUME NEW b \in Clients, request'[b].kind \in {"submit", "submitting"},
             request'[b].status = "RETURNED"
      PROVE  doc'[request'[b].doc].number # 0
  <2>1. b # c /\ request'[b] = request[b]
    BY <1>4, <1>8 DEF Idle
  <2>2. doc[request[b].doc].number # 0
    BY <1>1, <1>8, <2>1 DEF Numbers
  <2>3. request[b].doc \in Docs
    <3>1. request[b] \in Requests
      BY <1>1 DEF WorkflowTypeOK, Requests
    <3> QED
      BY <1>8, <2>1, <3>1, RequestKinds DEF Submission
  <2> QED
    BY <1>2, <2>1, <2>2, <2>3
<1> QED
  BY <1>3, <1>6, <1>7, <1>8 DEF Numbers

-----------------------------------------------------------------------------
(* Steps that move no process                                              *)

LEMMA ProcessesKept ==
  ASSUME IInv, UNCHANGED <<inst, task, moves>>
  PROVE  Desks' /\ Walks' /\ Closings'
BY DEF IInv, Desks, Walks, Closings

LEMMA PlacesKept ==
  ASSUME IInv, UNCHANGED <<inst, moves>>,
         \A d \in Docs : doc'[d].inst = doc[d].inst,
         \A i \in Instances : inst[i].status = "RUNNING" =>
            doc'[inst[i].doc].deleted = doc[inst[i].doc].deleted /\ revision' # "DELETED"
  PROVE  Places'
BY DEF IInv, Places

\* Steps of a request that write nothing but what it has read.
LEMMA ReadsKeep ==
  ASSUME IInv, NEW c \in Clients, NEW x \in Requests, request' = [request EXCEPT ![c] = x],
         UNCHANGED <<doc, bound, revision, inst, task, moves, rebinds>>, issued' \in Nat, Numbers',
         x.kind = "decide" =>
            task[x.task].status # "ABSENT" /\ inst[task[x.task].inst].doc = x.doc
  PROVE  IInv'
<1>1. WorkflowTypeOK /\ Readings /\ Places
  BY DEF IInv
<1>2. request \in [Clients -> Requests]
  BY <1>1 DEF WorkflowTypeOK, Requests
<1>3. WorkflowTypeOK'
  <2>1. request' \in [Clients -> Requests]
    BY <1>2
  <2> QED
    BY <1>1, <2>1 DEF WorkflowTypeOK, Requests
<1>4. Readings'
  <2>1. request'[c] = x /\ \A b \in Clients : b # c => request'[b] = request[b]
    BY <1>2
  <2> QED
    BY <1>1, <2>1 DEF Readings
<1>5. Places'
  BY <1>1 DEF Places
<1> QED
  BY <1>3, <1>4, <1>5, ProcessesKept DEF IInv

\* Steps that write one document beside its process.
LEMMA DocumentKeeps ==
  ASSUME IInv, NEW d \in Docs, NEW D \in DocRow, doc' = [doc EXCEPT ![d] = D],
         D.inst = doc[d].inst, D.deleted # doc[d].deleted => LiveInstance(d) = {},
         UNCHANGED <<bound, revision, inst, task, moves, rebinds>>, issued' \in Nat, Numbers',
         \/ UNCHANGED request
         \/ \E c \in Clients : request' = [request EXCEPT ![c] = Idle]
  PROVE  IInv'
<1>1. WorkflowTypeOK /\ Readings /\ Places
  BY DEF IInv
<1>2. request \in [Clients -> Requests] /\ Idle \in Requests /\ doc \in [Docs -> DocRow]
  BY <1>1 DEF WorkflowTypeOK, Requests, DocRow
<1>3. doc'[d] = D /\ (\A e \in Docs : e # d => doc'[e] = doc[e]) /\ doc' \in [Docs -> DocRow]
  BY <1>2
<1>4. request' \in [Clients -> Requests]
  BY <1>2
<1>5. WorkflowTypeOK'
  BY <1>1, <1>3, <1>4 DEF WorkflowTypeOK, Requests, DocRow
<1>6. \A b \in Clients : request'[b] = request[b] \/ request'[b] = Idle
  BY <1>2
<1>7. Readings'
  BY <1>1, <1>6 DEF Readings, Idle
<1>8. Places'
  <2>1. \A e \in Docs : doc'[e].inst = doc[e].inst
    BY <1>3
  <2>2. \A i \in Instances : inst[i].status = "RUNNING" =>
           doc'[inst[i].doc].deleted = doc[inst[i].doc].deleted /\ revision' # "DELETED"
    BY <1>1, <1>3 DEF Places, LiveInstance
  <2> QED
    BY <2>1, <2>2, PlacesKept
<1> QED
  BY <1>5, <1>7, <1>8, ProcessesKept DEF IInv

\* An open task that changes hands.
LEMMA HandingKeeps ==
  ASSUME IInv, NEW t \in Tasks, NEW T \in TaskRow, task' = [task EXCEPT ![t] = T],
         task[t].status \in Open, T.status \in Open,
         T.inst = task[t].inst, T.state = task[t].state,
         UNCHANGED <<doc, issued, bound, revision, inst, moves, request, rebinds>>
  PROVE  IInv'
<1>1. /\ WorkflowTypeOK /\ Readings /\ Places /\ Desks /\ Walks /\ Closings /\ Numbers
      /\ task \in [Tasks -> TaskRow]
  BY DEF IInv, WorkflowTypeOK, TaskRow
<1>2. task'[t] = T /\ (\A u \in Tasks : u # t => task'[u] = task[u]) /\ task' \in [Tasks -> TaskRow]
  BY <1>1
<1>3. WorkflowTypeOK'
  BY <1>1, <1>2 DEF WorkflowTypeOK, TaskRow
<1>4. \A u \in Tasks : /\ task'[u].inst = task[u].inst /\ task'[u].state = task[u].state
                       /\ task'[u].status \in Open <=> task[u].status \in Open
                       /\ task'[u].status = "ABSENT" <=> task[u].status = "ABSENT"
  BY <1>2 DEF Open
<1>5. Desks'
  BY <1>1, <1>4 DEF Desks
<1>6. Readings'
  <2> SUFFICES ASSUME NEW c \in Clients, request[c].kind = "decide"
               PROVE  /\ task'[request[c].task].status # "ABSENT"
                      /\ inst[task'[request[c].task].inst].doc = request[c].doc
    BY DEF Readings
  <2>1. request[c] \in Requests
    BY <1>1 DEF WorkflowTypeOK, Requests
  <2>2. request[c].task \in Tasks
    BY <2>1, RequestKinds DEF Decision
  <2> QED
    BY <1>1, <1>4, <2>2 DEF Readings
<1>7. Closings'
  <2>1. \A u \in Tasks : \/ task'[u] = task[u]
                         \/ task[u].status # "COMPLETED" /\ task'[u].status # "COMPLETED"
    BY <1>2 DEF Open
  <2> QED
    BY <1>1, <2>1 DEF Closings
<1>8. Places' /\ Walks' /\ Numbers'
  BY <1>1 DEF Places, Walks, Numbers, Held
<1> QED
  BY <1>3, <1>5, <1>6, <1>7, <1>8 DEF IInv
-----------------------------------------------------------------------------
(* Every step keeps the invariant                                          *)

LEMMA AdvancedDocument ==
  ASSUME WorkflowTypeOK, NEW i, NEW d, NEW D, NEW T, NEW row, NEW trail, NEW f,
         Advanced(i, d, D, T, row, trail, f)
  PROVE  /\ doc'[d].number = D.number /\ doc'[d].inst = i /\ ~doc'[d].deleted
         /\ doc'[d].status = Maps[trail[Len(trail)]]
         /\ \A e \in Docs : e # d => doc'[e] = doc[e]
<1> DEFINE E == Restated(D, trail[Len(trail)])
<1>1. doc \in [Docs -> DocRow] /\ D \in DocRow /\ D.inst = i /\ ~D.deleted /\ d \in Docs
  BY DEF WorkflowTypeOK, DocRow, Advanced
<1>2. /\ E.number = D.number /\ E.inst = i /\ ~E.deleted
      /\ E.status = Maps[trail[Len(trail)]]
  BY <1>1 DEF Restated, DocRow
<1>3. doc' = [doc EXCEPT ![d] = E]
  BY DEF Advanced
<1> HIDE DEF E
<1> QED
  BY <1>1, <1>2, <1>3

\* What a submission writes: the document alone, or the document and the
\* process it has or starts.
Written(c) == [doc[request[c].doc] EXCEPT !.status = "SUBMITTED",
                                          !.number = Numbered(request[c], doc[request[c].doc])]
LEMMA SubmitWrites ==
  ASSUME ConstantsOK, IInv, NEW c \in Clients, Submit(c), NEW r, r = request[c],
         NEW d, d = r.doc, NEW D, D = Written(c)
  PROVE  /\ d \in Docs /\ D \in DocRow /\ D.inst = doc[d].inst /\ ~D.deleted /\ D.form = doc[d].form
         /\ r.kind = "submitting" /\ D.status = "SUBMITTED"
         /\ D.number = Numbered(r, doc[d]) /\ D.number # 0
         /\ ~doc[d].deleted /\ doc[d].status \in Editable /\ doc[d].inst = r.inst
         /\ issued' = IF D.number > issued THEN D.number ELSE issued
         /\ request' = [request EXCEPT ![c] = Idle] /\ UNCHANGED <<bound, revision, rebinds>>
         /\ \/ r.status = "RETURNED" /\ doc[d].inst = Null /\ Plainly(d, D)
            \/ r.status # "RETURNED" /\ ~r.bound /\ Plainly(d, D)
            \/ /\ r.status = "RETURNED" /\ doc[d].inst \in Instances
               /\ \E T, row, trail :
                    /\ Firing(doc[d].inst, d, T, row, trail)
                    /\ Advanced(doc[d].inst, d, D, T, row, trail, D.form)
            \/ /\ r.status # "RETURNED" /\ r.bound
               /\ \E i \in Instances : \E row, trail :
                    /\ Starting(i, d, task, row, trail)
                    /\ Advanced(i, d, [D EXCEPT !.inst = i], task, row, trail, D.form)
<1> DEFINE n == Numbered(r, doc[d])
<1>1. request[c].kind = "submitting"
  BY DEF Submit
<1>2. d \in Docs /\ n \in Nat \ {0}
  BY <1>1, NumberedFacts
<1>3. doc[d] \in DocRow
  BY <1>2 DEF IInv, WorkflowTypeOK, DocRow
<1>4. ~doc[d].deleted /\ doc[d].status \in Editable /\ doc[d].inst = r.inst
  BY DEF Submit
<1>5. D = [doc[d] EXCEPT !.status = "SUBMITTED", !.number = n]
  BY DEF Written
<1>6. /\ D \in DocRow /\ D.inst = doc[d].inst /\ ~D.deleted /\ D.number = n /\ D.form = doc[d].form
      /\ D.status = "SUBMITTED"
  BY <1>2, <1>3, <1>4, <1>5 DEF DocRow, DocumentStatuses
<1>7. issued' = IF D.number > issued THEN D.number ELSE issued
  BY <1>5, <1>6 DEF Submit
<1>8. \/ r.status = "RETURNED" /\ Resubmit(r, D)
      \/ r.status # "RETURNED" /\ r.bound /\ Start(D, d)
      \/ r.status # "RETURNED" /\ ~r.bound /\ Plainly(d, D)
  BY <1>5 DEF Submit, Plainly
<1> HIDE DEF n
<1>9. CASE r.status = "RETURNED" /\ Resubmit(r, D)
  <2>1. \/ doc[d].inst = Null /\ Plainly(d, D)
        \/ /\ doc[d].inst \in Instances
           /\ \E T, row, trail :
                /\ Firing(doc[d].inst, d, T, row, trail)
                /\ Advanced(doc[d].inst, d, D, T, row, trail, D.form)
    BY <1>2, <1>4, <1>6, <1>9, ResubmitAdvances
  <2> QED
    BY <1>1, <1>2, <1>4, <1>6, <1>7, <1>9, <2>1 DEF n, Submit
<1>10. CASE r.status # "RETURNED" /\ r.bound /\ Start(D, d)
  <2>1. \E i \in Instances : \E row, trail :
           /\ Starting(i, d, task, row, trail)
           /\ Advanced(i, d, [D EXCEPT !.inst = i], task, row, trail, D.form)
    BY <1>2, <1>6, <1>10, StartAdvances
  <2> QED
    BY <1>1, <1>2, <1>4, <1>6, <1>7, <1>10, <2>1 DEF n, Submit
<1> QED
  BY <1>1, <1>2, <1>4, <1>6, <1>7, <1>8, <1>9, <1>10 DEF n, Submit

\* The one document that a submission writes gets its number.
LEMMA SubmitNumbering ==
  ASSUME ConstantsOK, IInv, NEW c \in Clients, Submit(c)
  PROVE  /\ doc'[request[c].doc].number = Numbered(request[c], doc[request[c].doc])
         /\ \A e \in Docs : e # request[c].doc => doc'[e] = doc[e]
<1> DEFINE r == request[c]
           d == r.doc
           D == Written(c)
<1>1. d \in Docs /\ D \in DocRow /\ D.number = Numbered(r, doc[d])
  BY SubmitWrites
<1>2. WorkflowTypeOK /\ doc \in [Docs -> DocRow]
  BY DEF IInv, WorkflowTypeOK, DocRow
<1>3. \/ Plainly(d, D)
      \/ \E T, row, trail : Advanced(doc[d].inst, d, D, T, row, trail, D.form)
      \/ \E i \in Instances : \E row, trail :
            Advanced(i, d, [D EXCEPT !.inst = i], task, row, trail, D.form)
  BY SubmitWrites DEF D
<1> HIDE DEF D
<1>4. CASE Plainly(d, D)
  BY <1>1, <1>2, <1>4 DEF Plainly
<1>5. ASSUME NEW i, NEW E, NEW T, NEW row, NEW trail, NEW f,
             Advanced(i, d, E, T, row, trail, f), E.number = D.number
      PROVE  doc'[d].number = D.number /\ \A e \in Docs : e # d => doc'[e] = doc[e]
  BY <1>2, <1>5, AdvancedDocument
<1>6. \A i \in Instances : [D EXCEPT !.inst = i].number = D.number
  BY <1>1 DEF DocRow
<1> QED
  BY <1>1, <1>3, <1>4, <1>5, <1>6

LEMMA SubmitKeeps ==
  ASSUME ConstantsOK, IInv, NEW c \in Clients, Submit(c)
  PROVE  IInv'
<1> DEFINE r == request[c]
           d == r.doc
           D == Written(c)
<1>1. /\ d \in Docs /\ D \in DocRow /\ D.inst = doc[d].inst /\ ~D.deleted /\ D.number # 0
      /\ r.kind = "submitting" /\ ~doc[d].deleted
      /\ D.number = Numbered(r, doc[d])
      /\ issued' = IF D.number > issued THEN D.number ELSE issued
      /\ request' = [request EXCEPT ![c] = Idle] /\ UNCHANGED <<bound, revision, rebinds>>
  BY SubmitWrites
<1>2. WorkflowTypeOK /\ doc \in [Docs -> DocRow]
  BY DEF IInv, WorkflowTypeOK, DocRow
<1> HIDE DEF D
<1>3. CASE Plainly(d, D)
  <2>1. doc' = [doc EXCEPT ![d] = D] /\ UNCHANGED <<inst, task, moves>>
    BY <1>3 DEF Plainly
  <2>2. doc'[d] = D /\ \A e \in Docs : e # d => doc'[e] = doc[e]
    BY <1>1, <1>2, <2>1
  <2>3. Numbers' /\ issued' \in Nat
    BY <1>1, <2>2, SubmitNumbers
  <2>4. D.deleted = doc[d].deleted
    BY <1>1, <1>2 DEF DocRow
  <2> QED
    BY <1>1, <2>1, <2>3, <2>4, DocumentKeeps
<1>4. ASSUME NEW i \in Instances, NEW E, NEW T, NEW row, NEW trail, NEW f,
             Advanced(i, d, E, T, row, trail, f), E.number = D.number
      PROVE  IInv'
  <2>1. doc'[d].number = D.number /\ \A e \in Docs : e # d => doc'[e] = doc[e]
    BY <1>2, <1>4, AdvancedDocument
  <2>2. Numbers' /\ issued' \in Nat
    BY <1>1, <2>1, SubmitNumbers
  <2> QED
    BY <1>1, <1>4, <2>2, AdvancedKeeps DEF IInv
<1>5. CASE \E T, row, trail : Advanced(doc[d].inst, d, D, T, row, trail, D.form)
  BY <1>4, <1>5 DEF Advanced
<1>6. CASE \E i \in Instances : \E row, trail :
              Advanced(i, d, [D EXCEPT !.inst = i], task, row, trail, D.form)
  <2>1. \A i \in Instances : [D EXCEPT !.inst = i].number = D.number
    BY <1>1 DEF DocRow
  <2> QED
    BY <1>4, <1>6, <2>1
<1>7. \/ Plainly(d, D)
      \/ \E T, row, trail : Advanced(doc[d].inst, d, D, T, row, trail, D.form)
      \/ \E i \in Instances : \E row, trail :
            Advanced(i, d, [D EXCEPT !.inst = i], task, row, trail, D.form)
  BY SubmitWrites DEF D
<1> QED
  BY <1>3, <1>5, <1>6, <1>7

LEMMA DecideKeeps ==
  ASSUME ConstantsOK, IInv, NEW c \in Clients, NEW u, NEW action \in DecisionActions,
         Decide(c, u, action)
  PROVE  IInv'
<1>1. PICK d \in Docs, i \in Instances : \E T, row, trail, f : Advanced(i, d, doc[d], T, row, trail, f)
  BY DecideAdvances
<1>2. PICK T, row, trail, f : Advanced(i, d, doc[d], T, row, trail, f)
  BY <1>1
<1>3. WorkflowTypeOK /\ request' = [request EXCEPT ![c] = Idle] /\ UNCHANGED <<issued, bound, revision, rebinds>>
  BY DEF IInv, Decide
<1>4. issued' \in Nat /\ request \in [Clients -> Requests]
  BY <1>3 DEF WorkflowTypeOK, Requests
<1>5. /\ doc'[d].number = doc[d].number
      /\ \A e \in Docs : e # d => doc'[e] = doc[e]
  BY <1>2, <1>3, AdvancedDocument
<1>6. doc[d].number # 0
  BY <1>2 DEF Advanced
<1>7. \A e \in Docs :
         /\ doc'[e].number = doc[e].number
         /\ doc'[e].status # "DRAFT" \/ doc'[e].inst # Null => doc[e].number # 0
  BY <1>5, <1>6 DEF IInv, Numbers
<1>8. \A b \in Clients : request'[b] = request[b] \/ request'[b] = Idle
  BY <1>3, <1>4
<1>9. Numbers'
  BY <1>3, <1>7, <1>8, NumbersKept DEF Idle
<1> QED
  BY <1>2, <1>3, <1>4, <1>9, AdvancedKeeps DEF IInv
\* The steps before a transaction, and the end of a request without one.
LEMMA ReadingKeeps ==
  ASSUME IInv, NEW c \in Clients,
         \/ \E d \in Docs : ReadSubject(c, d) \/ ReadStatus(c, d)
         \/ \E t \in Tasks : ReadTask(c, t)
         \/ ReadBinding(c) \/ CheckNoProcess(c) \/ Refuse(c)
  PROVE  IInv'
<1>1. /\ WorkflowTypeOK /\ Numbers /\ Places /\ Desks
      /\ request \in [Clients -> Requests] /\ doc \in [Docs -> DocRow]
      /\ request[c] \in Requests
  BY DEF IInv, WorkflowTypeOK, Requests, DocRow
<1>2. \A d \in Docs : doc[d].status # "DRAFT" \/ doc[d].inst # Null => doc[d].number # 0
  BY <1>1 DEF Numbers
<1>3. ASSUME NEW x \in Requests, request' = [request EXCEPT ![c] = x],
             UNCHANGED <<doc, issued, bound, revision, inst, task, moves, rebinds>>,
             x.kind = "submitting" => x.doc \notin Tolerant \/ x.status = "RETURNED",
             x.kind \in {"submit", "submitting"} /\ x.status = "RETURNED" =>
                x.doc \in Docs /\ doc[x.doc].number # 0,
             x.kind = "decide" =>
                task[x.task].status # "ABSENT" /\ inst[task[x.task].inst].doc = x.doc
      PROVE  IInv'
  <2>1. request'[c] = x /\ \A b \in Clients : b # c => request'[b] = request[b]
    BY <1>1, <1>3
  <2>2. \A b \in Clients :
            \/ request'[b] = request[b]
            \/ /\ request'[b].kind = "submitting" =>
                    request'[b].doc \notin Tolerant \/ request'[b].status = "RETURNED"
               /\ request'[b].kind \in {"submit", "submitting"} /\ request'[b].status = "RETURNED" =>
                    request'[b].doc \in Docs /\ doc[request'[b].doc].number # 0
    BY <1>3, <2>1
  <2>3. \A d \in Docs :
            /\ doc'[d].number = doc[d].number
            /\ doc'[d].status # "DRAFT" \/ doc'[d].inst # Null => doc[d].number # 0
    BY <1>2, <1>3
  <2>4. Numbers' /\ issued' \in Nat
    BY <1>1, <1>3, <2>2, <2>3, NumbersKept DEF WorkflowTypeOK
  <2> QED
    BY <1>3, <2>4, ReadsKeep
<1>4. ASSUME NEW d \in Docs, ReadSubject(c, d)
      PROVE  IInv'
  <2> DEFINE x == [kind |-> "submit", doc |-> d, status |-> doc[d].status,
                   number |-> doc[d].number, inst |-> doc[d].inst, bound |-> FALSE]
  <2>1. /\ doc[d] \in DocRow /\ doc[d].status \in Editable
        /\ request' = [request EXCEPT ![c] = x]
        /\ UNCHANGED <<doc, issued, bound, revision, inst, task, moves, rebinds>>
    BY <1>1, <1>4 DEF ReadSubject
  <2>2. x \in Submission("submit")
    BY <2>1 DEF Submission, DocRow
  <2>3. x.kind = "submit" /\ x.doc = d /\ x.status = doc[d].status
    OBVIOUS
  <2> HIDE DEF x
  <2> QED
    BY <1>2, <1>3, <2>1, <2>2, <2>3 DEF Requests
<1>5. ASSUME NEW d \in Docs, ReadStatus(c, d)
      PROVE  IInv'
  <2> DEFINE x == [kind |-> "transition", doc |-> d, status |-> doc[d].status]
  <2>1. /\ doc[d] \in DocRow
        /\ request' = [request EXCEPT ![c] = x]
        /\ UNCHANGED <<doc, issued, bound, revision, inst, task, moves, rebinds>>
    BY <1>1, <1>5 DEF ReadStatus
  <2>2. x \in Manual("transition") /\ x.kind = "transition"
    BY <2>1 DEF Manual, DocRow
  <2> HIDE DEF x
  <2> QED
    BY <1>3, <2>1, <2>2 DEF Requests
<1>6. ASSUME NEW t \in Tasks, ReadTask(c, t)
      PROVE  IInv'
  <2> DEFINE d == inst[task[t].inst].doc
             x == [kind |-> "decide", task |-> t, doc |-> d, form |-> doc[d].form]
  <2>1. /\ task[t].status \in Open
        /\ request' = [request EXCEPT ![c] = x]
        /\ UNCHANGED <<doc, issued, bound, revision, inst, task, moves, rebinds>>
    BY <1>6 DEF ReadTask
  <2>2. task[t].status # "ABSENT" /\ d \in Docs
    BY <1>1, <2>1 DEF Desks, Places, Open
  <2>3. x \in Decision /\ x.kind = "decide" /\ x.task = t /\ x.doc = d
    BY <1>1, <2>2 DEF Decision, DocRow
  <2>4. inst[task[t].inst].doc = d
    OBVIOUS
  <2> HIDE DEF x, d
  <2> QED
    BY <1>3, <2>1, <2>2, <2>3, <2>4 DEF Requests
<1>7. ASSUME CheckNoProcess(c)
      PROVE  IInv'
  <2> DEFINE x == [kind |-> "transitioning", doc |-> request[c].doc, status |-> request[c].status]
  <2>1. /\ request[c].kind = "transition"
        /\ request' = [request EXCEPT ![c] = x]
        /\ UNCHANGED <<doc, issued, bound, revision, inst, task, moves, rebinds>>
    BY <1>7 DEF CheckNoProcess
  <2>2. request[c] \in Manual("transition")
    BY <1>1, <2>1, RequestKinds
  <2>3. x \in Manual("transitioning") /\ x.kind = "transitioning"
    BY <2>2 DEF Manual
  <2> HIDE DEF x
  <2> QED
    BY <1>3, <2>1, <2>3 DEF Requests
<1>8. ASSUME Refuse(c)
      PROVE  IInv'
  <2>1. Idle \in Requests /\ Idle.kind = "idle"
    BY DEF Requests, Idle
  <2>2. /\ request' = [request EXCEPT ![c] = Idle]
        /\ UNCHANGED <<doc, issued, bound, revision, inst, task, moves, rebinds>>
    BY <1>8 DEF Refuse
  <2> QED
    BY <1>3, <2>1, <2>2
<1>9. ASSUME ReadBinding(c)
      PROVE  IInv'
  <2> DEFINE r == request[c]
             takes == r.doc \in Tolerant /\ r.status # "RETURNED"
             x == [kind |-> "submitting", doc |-> r.doc, status |-> r.status,
                   number |-> IF takes THEN issued + 1 ELSE r.number,
                   inst |-> r.inst, bound |-> bound[r.doc]]
  <2>1. /\ r.kind = "submit" /\ request' = [request EXCEPT ![c] = x]
        /\ issued' = IF takes THEN issued + 1 ELSE issued
        /\ UNCHANGED <<doc, bound, revision, inst, task, moves, rebinds>>
    BY <1>9 DEF ReadBinding
  <2>2. r \in Submission("submit")
    BY <1>1, <2>1, RequestKinds
  <2>3. x \in Submission("submitting")
    BY <1>1, <2>2 DEF Submission, WorkflowTypeOK
  <2>4. /\ x.kind = "submitting" /\ x.doc = r.doc /\ x.status = r.status /\ r.doc \in Docs
        /\ takes => x.number = issued + 1
    BY <2>2 DEF Submission
  <2>5. r.status = "RETURNED" => doc[r.doc].number # 0
    BY <1>1, <2>1 DEF Numbers
  <2>6. request'[c] = x /\ \A b \in Clients : b # c => request'[b] = request[b]
    BY <1>1, <2>1
  <2> HIDE DEF x
  <2>7. CASE ~takes
    <3>1. x.doc \notin Tolerant \/ x.status = "RETURNED"
      BY <2>4, <2>7
    <3>2. UNCHANGED issued
      BY <2>1, <2>7
    <3>3. x.status = "RETURNED" => doc[x.doc].number # 0
      BY <2>4, <2>5
    <3> HIDE DEF takes, r
    <3> QED
      BY <1>3, <2>1, <2>3, <2>4, <3>1, <3>2, <3>3 DEF Requests
  <2>8. CASE takes
    <3>1. issued' = issued + 1 /\ issued \in Nat /\ x.number = issued' /\ issued' \in Nat
      BY <1>1, <2>1, <2>4, <2>8 DEF WorkflowTypeOK
    <3>2. \A d \in Docs : doc[d].number \in Nat /\ doc[d].number <= issued
      BY <1>1 DEF WorkflowTypeOK, Numbers
    <3>3. \A b \in Clients : b # c /\ Held(b)' => Held(b) /\ request'[b] = request[b]
      BY <2>6 DEF Held
    <3>4. \A b \in Clients : Held(b) => request[b].number \in 1..issued
      BY <1>1 DEF Numbers
    <3>5. /\ \A d \in Docs :
               /\ doc'[d].number <= issued'
               /\ doc'[d].status # "DRAFT" \/ doc'[d].inst # Null => doc'[d].number # 0
          /\ \A d, e \in Docs : d # e /\ doc'[d].number # 0 => doc'[d].number # doc'[e].number
      BY <1>1, <2>1, <3>1, <3>2 DEF Numbers
    <3>6. ASSUME NEW b \in Clients, Held(b)'
          PROVE  /\ request'[b].number \in 1..issued'
                 /\ \A d \in Docs : doc'[d].number # request'[b].number
                 /\ \A a \in Clients : a # b /\ Held(a)' => request'[a].number # request'[b].number
      <4>1. CASE b = c
        BY <2>1, <2>6, <3>1, <3>2, <3>3, <3>4, <4>1
      <4>2. CASE b # c
        <5>1. Held(b) /\ request'[b] = request[b] /\ request[b].number \in 1..issued
          BY <3>3, <3>4, <3>6, <4>2
        <5>2. /\ \A d \in Docs : doc[d].number # request[b].number
              /\ \A a \in Clients : a # b /\ Held(a) => request[a].number # request[b].number
          BY <1>1, <5>1 DEF Numbers
        <5> QED
          BY <2>1, <2>6, <3>1, <3>3, <5>1, <5>2
      <4> QED
        BY <4>1, <4>2
    <3>7. ASSUME NEW b \in Clients, request'[b].kind \in {"submit", "submitting"},
                 request'[b].status = "RETURNED"
          PROVE  doc'[request'[b].doc].number # 0
      <4>1. b # c
        BY <2>4, <2>6, <2>8, <3>7
      <4> QED
        BY <1>1, <2>1, <2>6, <3>7, <4>1 DEF Numbers
    <3>8. Numbers'
      BY <3>5, <3>6, <3>7 DEF Numbers
    <3> QED
      BY <2>1, <2>3, <2>4, <3>1, <3>8, ReadsKeep DEF Requests
  <2> QED
    BY <2>7, <2>8
<1> QED
  BY <1>4, <1>5, <1>6, <1>7, <1>8, <1>9

\* The manual route, editing and discarding.
LEMMA ManualKeeps ==
  ASSUME IInv,
         \/ \E c \in Clients : Transition(c)
         \/ \E d \in Docs : DeleteDocument(d) \/ \E f \in Forms : UpdateDocument(d, f)
  PROVE  IInv'
<1>1. /\ WorkflowTypeOK /\ Numbers
      /\ request \in [Clients -> Requests] /\ doc \in [Docs -> DocRow]
  BY DEF IInv, WorkflowTypeOK, Requests, DocRow
<1>2. \A d \in Docs : doc[d].status # "DRAFT" \/ doc[d].inst # Null => doc[d].number # 0
  BY <1>1 DEF Numbers
<1>3. ASSUME NEW d \in Docs, NEW D \in DocRow, doc' = [doc EXCEPT ![d] = D],
             D.inst = doc[d].inst, D.number = doc[d].number,
             D.status # "DRAFT" => doc[d].status # "DRAFT",
             D.deleted # doc[d].deleted => LiveInstance(d) = {},
             UNCHANGED <<bound, revision, inst, task, moves, rebinds, issued>>,
             \/ UNCHANGED request
             \/ \E c \in Clients : request' = [request EXCEPT ![c] = Idle]
      PROVE  IInv'
  <2>1. doc'[d] = D /\ \A e \in Docs : e # d => doc'[e] = doc[e]
    BY <1>1, <1>3
  <2>2. \A e \in Docs :
            /\ doc'[e].number = doc[e].number
            /\ doc'[e].status # "DRAFT" \/ doc'[e].inst # Null => doc[e].number # 0
    BY <1>2, <1>3, <2>1
  <2>3. \A b \in Clients : request'[b] = request[b] \/ request'[b] = Idle
    BY <1>1, <1>3
  <2>4. issued' = issued /\ issued' \in Nat
    BY <1>1, <1>3 DEF WorkflowTypeOK
  <2>5. Numbers'
    BY <2>2, <2>3, <2>4, NumbersKept DEF Idle
  <2> QED
    BY <1>3, <2>4, <2>5, DocumentKeeps
<1>4. ASSUME NEW c \in Clients, Transition(c)
      PROVE  IInv'
  <2> DEFINE d == request[c].doc
  <2>1. request[c] \in Manual("transitioning")
    <3>1. request[c] \in Requests /\ request[c].kind = "transitioning"
      BY <1>1, <1>4 DEF Transition
    <3> QED
      BY <3>1, RequestKinds
  <2>2. PICK to \in MayMoveTo(request[c].status) : doc' = [doc EXCEPT ![d].status = to]
    BY <1>4 DEF Transition
  <2>3. d \in Docs /\ doc[d].status = request[c].status /\ doc[d] \in DocRow
    BY <1>1, <1>4, <2>1 DEF Manual, Transition
  <2>4. to \in DocumentStatuses /\ doc[d].status # "DRAFT"
    <3>1. request[c].status \in DocumentStatuses
      BY <2>1 DEF Manual
    <3> QED
      BY <2>2, <2>3, <3>1 DEF MayMoveTo, DocumentStatuses
  <2> DEFINE D == [doc[d] EXCEPT !.status = to]
  <2>5. /\ doc' = [doc EXCEPT ![d] = D] /\ D \in DocRow
        /\ D.inst = doc[d].inst /\ D.number = doc[d].number /\ D.deleted = doc[d].deleted
    BY <2>2, <2>3, <2>4 DEF DocRow
  <2>6. /\ request' = [request EXCEPT ![c] = Idle]
        /\ UNCHANGED <<bound, revision, inst, task, moves, rebinds, issued>>
    BY <1>4 DEF Transition
  <2> HIDE DEF D, d
  <2> QED
    BY <1>3, <2>3, <2>4, <2>5, <2>6
<1>5. ASSUME NEW d \in Docs, DeleteDocument(d)
      PROVE  IInv'
  <2> DEFINE D == [doc[d] EXCEPT !.deleted = TRUE]
  <2>1. /\ doc' = [doc EXCEPT ![d] = D] /\ D \in DocRow /\ D.status = doc[d].status
        /\ D.inst = doc[d].inst /\ D.number = doc[d].number
    BY <1>1, <1>5 DEF DocRow, DeleteDocument
  <2>2. /\ LiveInstance(d) = {} /\ UNCHANGED request
        /\ UNCHANGED <<bound, revision, inst, task, moves, rebinds, issued>>
    BY <1>5 DEF DeleteDocument
  <2> HIDE DEF D
  <2> QED
    BY <1>3, <2>1, <2>2
<1>6. ASSUME NEW d \in Docs, NEW f \in Forms, UpdateDocument(d, f)
      PROVE  IInv'
  <2> DEFINE D == [doc[d] EXCEPT !.form = f]
  <2>1. /\ doc' = [doc EXCEPT ![d] = D] /\ D \in DocRow /\ D.status = doc[d].status
        /\ D.inst = doc[d].inst /\ D.number = doc[d].number /\ D.deleted = doc[d].deleted
    BY <1>1, <1>6 DEF DocRow, UpdateDocument
  <2>2. UNCHANGED <<bound, revision, inst, task, moves, rebinds, issued, request>>
    BY <1>6 DEF UpdateDocument
  <2> HIDE DEF D
  <2> QED
    BY <1>3, <2>1, <2>2
<1> QED
  BY <1>4, <1>5, <1>6

\* Claims, delegations and reassignments.
LEMMA HandoverKeeps ==
  ASSUME IInv, NEW t \in Tasks,
         \/ \E u \in Users : ClaimTask(u, t) \/ \E v \in Users : Delegate(u, v, t)
         \/ \E target \in Users \cup {Null} : Reassign(target, t)
  PROVE  IInv'
<1>1. task \in [Tasks -> TaskRow] /\ task[t] \in TaskRow
  BY DEF IInv, WorkflowTypeOK, TaskRow
<1>2. ASSUME NEW u \in Users, ClaimTask(u, t)
      PROVE  IInv'
  <2> DEFINE T == [task[t] EXCEPT !.status = "ASSIGNED", !.assignee = u]
  <2>1. /\ task' = [task EXCEPT ![t] = T] /\ T \in TaskRow /\ T.status \in Open
        /\ T.inst = task[t].inst /\ T.state = task[t].state
    BY <1>1, <1>2 DEF ClaimTask, TaskRow, Open
  <2>2. /\ task[t].status \in Open
        /\ UNCHANGED <<doc, issued, bound, revision, inst, moves, request, rebinds>>
    BY <1>2 DEF ClaimTask, Open
  <2> HIDE DEF T
  <2> QED
    BY <2>1, <2>2, HandingKeeps
<1>3. ASSUME NEW u \in Users, NEW v \in Users, Delegate(u, v, t)
      PROVE  IInv'
  <2> DEFINE first == IF task[t].standsFor = Null THEN u ELSE task[t].standsFor
             T == [task[t] EXCEPT !.assignee = v, !.standsFor = IF first = v THEN Null ELSE first]
  <2>1. first \in Users \cup {Null}
    BY <1>1 DEF TaskRow
  <2>2. /\ task[t].status \in Open
        /\ task' = [task EXCEPT ![t] = T]
        /\ UNCHANGED <<doc, issued, bound, revision, inst, moves, request, rebinds>>
    BY <1>1, <1>3 DEF Delegate
  <2> HIDE DEF first
  <2>3. /\ T \in TaskRow /\ T.status = task[t].status
        /\ T.inst = task[t].inst /\ T.state = task[t].state
    BY <1>1, <2>1 DEF TaskRow
  <2> HIDE DEF T
  <2> QED
    BY <2>2, <2>3, HandingKeeps
<1>4. ASSUME NEW target \in Users \cup {Null}, Reassign(target, t)
      PROVE  IInv'
  <2> DEFINE T == [task[t] EXCEPT !.assignee = target, !.standsFor = Null,
                                  !.status = IF target = Null THEN "CREATED" ELSE "ASSIGNED"]
  <2>1. /\ T \in TaskRow /\ T.status \in Open
        /\ T.inst = task[t].inst /\ T.state = task[t].state
    BY <1>1 DEF TaskRow, Open
  <2>2. /\ task[t].status \in Open /\ task' = [task EXCEPT ![t] = T]
        /\ UNCHANGED <<doc, issued, bound, revision, inst, moves, request, rebinds>>
    BY <1>1, <1>4 DEF Reassign
  <2> HIDE DEF T
  <2> QED
    BY <2>1, <2>2, HandingKeeps
<1> QED
  BY <1>2, <1>3, <1>4

\* The revision and the binding.
LEMMA RevisionKeeps ==
  ASSUME IInv, DeprecateDefinition \/ DeleteDefinition \/ \E d \in Docs : Rebind(d)
  PROVE  IInv'
<1>1. /\ WorkflowTypeOK /\ Places /\ Desks /\ Walks /\ Closings /\ Readings /\ Numbers
  BY DEF IInv
<1>2. UNCHANGED <<doc, issued, inst, task, moves, request>>
  BY DEF DeprecateDefinition, DeleteDefinition, Rebind
<1>3. WorkflowTypeOK'
  <2>1. /\ revision' \in {"ACTIVE", "DEPRECATED", "DELETED"}
        /\ bound' \in [Docs -> BOOLEAN] /\ rebinds' \in Nat
    <3>1. CASE DeprecateDefinition \/ DeleteDefinition
      BY <1>1, <3>1 DEF WorkflowTypeOK, DeprecateDefinition, DeleteDefinition
    <3>2. CASE \E d \in Docs : Rebind(d)
      <4>1. PICK d \in Docs : Rebind(d)
        BY <3>2
      <4>2. bound \in [Docs -> BOOLEAN] /\ (~bound[d]) \in BOOLEAN
        BY <1>1 DEF WorkflowTypeOK
      <4>3. bound' = [bound EXCEPT ![d] = ~bound[d]]
        BY <4>1 DEF Rebind
      <4>4. bound' \in [Docs -> BOOLEAN]
        BY <4>2, <4>3
      <4>5. rebinds' \in Nat /\ revision' = revision
        BY <1>1, <4>1 DEF WorkflowTypeOK, Rebind
      <4> QED
        BY <1>1, <4>4, <4>5 DEF WorkflowTypeOK
    <3> QED
      BY <3>1, <3>2
  <2> QED
    BY <1>1, <1>2, <2>1 DEF WorkflowTypeOK
<1>4. Places'
  <2>1. \A i \in Instances : inst[i].status = "RUNNING" => revision' # "DELETED"
    BY <1>1 DEF Places, DeprecateDefinition, DeleteDefinition, Rebind
  <2> QED
    BY <1>2, <2>1, PlacesKept
<1>5. Numbers' /\ Readings'
  BY <1>1, <1>2 DEF Numbers, Held, Readings
<1> QED
  BY <1>2, <1>3, <1>4, <1>5, ProcessesKept DEF IInv

LEMMA InitInv ==
  ASSUME ConstantsOK, WorkflowInit
  PROVE  IInv
<1>1. Initial \in States /\ Null \notin Tasks
  BY DEF ConstantsOK
<1>2. WorkflowTypeOK
  <2>1. doc \in [Docs -> DocRow]
    <3> DEFINE Fresh == [status : {"DRAFT"}, number : {0}, form : Forms, inst : {Null}, deleted : {FALSE}]
    <3>1. Fresh \subseteq DocRow
      <4> SUFFICES ASSUME NEW D \in Fresh
                   PROVE  D \in DocRow
        OBVIOUS
      <4>1. /\ D = [status |-> "DRAFT", number |-> 0, form |-> D.form, inst |-> Null, deleted |-> FALSE]
            /\ D.form \in Forms
        OBVIOUS
      <4>2. [status |-> "DRAFT", number |-> 0, form |-> D.form, inst |-> Null, deleted |-> FALSE] \in DocRow
        BY <4>1 DEF DocRow, DocumentStatuses
      <4> QED
        BY <4>1, <4>2
    <3>2. doc \in [Docs -> Fresh]
      BY DEF WorkflowInit
    <3> HIDE DEF Fresh
    <3> QED
      BY <3>1, <3>2
  <2>2. task \in [Tasks -> TaskRow]
    BY <1>1 DEF WorkflowInit, TaskRow
  <2>3. inst \in [Instances -> InstRow]
    BY <1>1 DEF WorkflowInit, InstRow
  <2>4. moves \in [Instances -> Seq(MoveRow)]
    BY DEF WorkflowInit
  <2> QED
    BY <2>1, <2>2, <2>3, <2>4 DEF WorkflowInit, WorkflowTypeOK, DocRow, TaskRow, InstRow
<1>3. Places /\ Desks /\ Walks
  BY DEF WorkflowInit, Places, Desks, Walks, Open
<1>4. Closings
  BY DEF WorkflowInit, Closings
<1>5. Readings /\ Numbers
  <2>1. \A c \in Clients : request[c] = Idle
    BY DEF WorkflowInit
  <2>2. \A d \in Docs : doc[d].status = "DRAFT" /\ doc[d].number = 0 /\ doc[d].inst = Null
    BY DEF WorkflowInit
  <2>3. Readings
    BY <2>1 DEF Readings, Idle
  <2>4. Numbers
    BY <2>1, <2>2 DEF WorkflowInit, Numbers, Held, Idle
  <2> QED
    BY <2>3, <2>4
<1> QED
  BY <1>2, <1>3, <1>4, <1>5 DEF IInv

LEMMA NextInv ==
  ASSUME ConstantsOK, IInv, [WorkflowNext]_workflowVars
  PROVE  IInv'
<1>1. ASSUME NEW c \in Clients,
             \/ \E d \in Docs : ReadSubject(c, d) \/ ReadStatus(c, d)
             \/ \E t \in Tasks : ReadTask(c, t)
             \/ ReadBinding(c) \/ CheckNoProcess(c) \/ Refuse(c)
      PROVE  IInv'
  BY <1>1, ReadingKeeps
<1>2. ASSUME NEW c \in Clients, Submit(c)
      PROVE  IInv'
  BY <1>2, SubmitKeeps
<1>3. ASSUME NEW c \in Clients, NEW u \in Users, NEW action \in DecisionActions, Decide(c, u, action)
      PROVE  IInv'
  BY <1>3, DecideKeeps
<1>4. ASSUME NEW c \in Clients, Transition(c)
      PROVE  IInv'
  BY <1>4, ManualKeeps
<1>5. ASSUME NEW t \in Tasks,
             \/ \E u \in Users : ClaimTask(u, t) \/ \E v \in Users : Delegate(u, v, t)
             \/ \E target \in Users \cup {Null} : Reassign(target, t)
      PROVE  IInv'
  BY <1>5, HandoverKeeps
<1>6. ASSUME NEW d \in Docs, DeleteDocument(d) \/ \E f \in Forms : UpdateDocument(d, f)
      PROVE  IInv'
  BY <1>6, ManualKeeps
<1>7. ASSUME DeprecateDefinition \/ DeleteDefinition \/ \E d \in Docs : Rebind(d)
      PROVE  IInv'
  BY <1>7, RevisionKeeps
<1>8. ASSUME UNCHANGED workflowVars
      PROVE  IInv'
  <2>1. UNCHANGED <<doc, issued, bound, revision, inst, task, moves, request, rebinds>>
    BY <1>8 DEF workflowVars
  <2>2. WorkflowTypeOK' /\ Numbers' /\ Readings' /\ Places'
    BY <2>1 DEF IInv, WorkflowTypeOK, Numbers, Held, Readings, Places
  <2> QED
    BY <2>1, <2>2, ProcessesKept DEF IInv
<1> QED
  BY <1>1, <1>2, <1>3, <1>4, <1>5, <1>6, <1>7, <1>8 DEF WorkflowNext

\* The inductive invariant holds in every reachable state of documents,
\* processes, tasks and requests.
THEOREM Invariance == ASSUME ConstantsOK PROVE WorkflowSpec => []IInv
<1>1. WorkflowInit => IInv
  BY InitInv
<1>2. IInv /\ [WorkflowNext]_workflowVars => IInv'
  BY NextInv
<1> QED
  BY <1>1, <1>2, PTL DEF WorkflowSpec
-----------------------------------------------------------------------------
(* What follows for every reachable state                                  *)

\* Every variable keeps its type.
THEOREM TypeCorrect == ASSUME ConstantsOK PROVE WorkflowSpec => []WorkflowTypeOK
<1>1. IInv => WorkflowTypeOK
  BY DEF IInv
<1> QED
  BY <1>1, Invariance, PTL

\* No revision is deleted under a running process, and none starts on one that
\* is (lock_for_start, lock_for_publish).
THEOREM RevisionOutlives ==
  ASSUME ConstantsOK PROVE WorkflowSpec => []RevisionOutlivesItsProcesses
<1>1. IInv => RevisionOutlivesItsProcesses
  BY DEF IInv, Places, RevisionOutlivesItsProcesses
<1> QED
  BY <1>1, Invariance, PTL

\* No two documents share a number, and none leaves DRAFT without one
\* (mark_submitted).
THEOREM NumbersAreUnique == ASSUME ConstantsOK PROVE WorkflowSpec => []NumbersIdentify
<1>1. IInv => NumbersIdentify
  BY DEF IInv, Numbers, NumbersIdentify
<1> QED
  BY <1>1, Invariance, PTL

\* The history of a process is one walk through its graph, from the initial
\* state to where it stands (enter, record).
THEOREM HistoryWalks == ASSUME ConstantsOK PROVE WorkflowSpec => []HistoryIsOneWalk
<1>1. IInv => HistoryIsOneWalk
  <2> SUFFICES ASSUME IInv, NEW i \in Instances, inst[i].status # "ABSENT"
               PROVE  LET H == moves[i]
                      IN  /\ H[1].from = Null /\ H[1].to = Initial
                          /\ \A k \in 2..Len(H) :
                              /\ H[k].from = H[k - 1].to
                              /\ \E e \in DOMAIN Edges :
                                  Edges[e].from = H[k].from /\ Edges[e].to = H[k].to
                                  /\ Edges[e].action = H[k].action
                          /\ H[Len(H)].to = inst[i].state
    BY DEF HistoryIsOneWalk
  <2> QED
    BY DEF IInv, Walks, Arc
<1> QED
  BY <1>1, Invariance, PTL

\* A closed task moved its process once, out of the state it was opened for,
\* and no other task did (decide, resubmit_workflow).
THEOREM EachTaskMoves == ASSUME ConstantsOK PROVE WorkflowSpec => []EachTaskMovesItsProcessOnce
<1>1. IInv => EachTaskMovesItsProcessOnce
  <2> SUFFICES ASSUME IInv, NEW t \in Tasks, NEW i \in Instances
               PROVE  LET its == {k \in DOMAIN moves[i] : moves[i][k].task = t}
                      IN  /\ Cardinality(its) =
                               IF task[t].status = "COMPLETED" /\ task[t].inst = i THEN 1 ELSE 0
                          /\ \A k \in its :
                              /\ moves[i][k].from = task[t].state
                              /\ moves[i][k].action =
                                    IF task[t].action = Null THEN "RESUBMIT" ELSE task[t].action
    BY DEF EachTaskMovesItsProcessOnce
  <2> DEFINE its == {k \in DOMAIN moves[i] : moves[i][k].task = t}
  <2>1. DOMAIN moves[i] = 1..Len(moves[i])
    BY LenProperties DEF IInv, WorkflowTypeOK
  <2>2. /\ \A k \in its :
             /\ task[t].status = "COMPLETED" /\ task[t].inst = i
             /\ moves[i][k].from = task[t].state
             /\ moves[i][k].action = IF task[t].action = Null THEN "RESUBMIT" ELSE task[t].action
        /\ task[t].status = "COMPLETED" /\ task[t].inst = i => its # {}
        /\ \A j, k \in its : j = k
    BY <2>1 DEF IInv, Closings
  <2> HIDE DEF its
  <2>3. CASE task[t].status = "COMPLETED" /\ task[t].inst = i
    <3>1. PICK k \in its : TRUE
      BY <2>2, <2>3
    <3>2. its = {k} /\ Cardinality({k}) = 1
      BY <2>2, <3>1, FS_Singleton
    <3> QED
      BY <2>2, <2>3, <3>2 DEF its
  <2>4. CASE ~(task[t].status = "COMPLETED" /\ task[t].inst = i)
    <3>1. its = {}
      BY <2>2, <2>4
    <3>2. Cardinality(its) = 0
      BY <3>1, FS_EmptySet
    <3> QED
      BY <2>2, <2>4, <3>2 DEF its
  <2> QED
    BY <2>3, <2>4
<1> QED
  BY <1>1, Invariance, PTL

\* An open task is one its process waits for, and a process in a human state
\* has exactly one, where that state is a final one too.
THEOREM OpenTasksMatch ==
  ASSUME ConstantsOK PROVE WorkflowSpec => []OpenTasksMatchTheState
<1>1. IInv => OpenTasksMatchTheState
  <2> SUFFICES ASSUME IInv
               PROVE  OpenTasksMatchTheState
    OBVIOUS
  <2>1. WorkflowTypeOK /\ Places /\ Desks
    BY DEF IInv
  <2>2. ASSUME NEW t \in Tasks, task[t].status \in Open
        PROVE  LET process == inst[task[t].inst]
               IN  /\ process.state = task[t].state
                   /\ process.status = IF process.state \in Final THEN "COMPLETED" ELSE "RUNNING"
    <3>1. /\ task[t].inst \in Instances /\ inst[task[t].inst].status # "ABSENT"
          /\ inst[task[t].inst].state = task[t].state
      BY <2>1, <2>2 DEF Desks, Open
    <3>2. inst[task[t].inst] \in InstRow
      BY <2>1, <3>1 DEF WorkflowTypeOK, InstRow
    <3> QED
      BY <2>1, <3>1, <3>2 DEF Places, InstRow
  <2>3. ASSUME NEW i \in Instances, inst[i].status # "ABSENT", Kind[inst[i].state] = "human"
        PROVE  Cardinality(OpenTask(task, i)) = 1
    <3>1. PICK t \in Tasks : task[t].status \in Open /\ task[t].inst = i
      BY <2>1, <2>3 DEF Desks
    <3>2. OpenTask(task, i) = {t}
      BY <2>1, <3>1 DEF Desks, OpenTask
    <3> QED
      BY <3>2, FS_Singleton
  <2> QED
    BY <2>2, <2>3 DEF OpenTasksMatchTheState
<1> QED
  BY <1>1, Invariance, PTL
-----------------------------------------------------------------------------
(* Statuses and processes                                                  *)

\* A document with a process is a draft only if that process made it one, and
\* so it is with what a submission has read of it.
LinkedRequest(x) ==
    x.kind \in {"submit", "submitting"} /\ x.status = "DRAFT" /\ x.inst # Null => MadeDraft(x.inst)
Linked ==
    /\ \A d \in Docs : doc[d].status = "DRAFT" /\ doc[d].inst # Null => MadeDraft(doc[d].inst)
    /\ \A c \in Clients : LinkedRequest(request[c])

\* While no type was bound anew, a document that left DRAFT has a process
\* exactly if its type routes, and no manual move meets its first one.
FirstLive(d) == {i \in LiveInstance(d) : FirstProcess(i)}
UnmovedRequest(x) ==
    /\ x.kind = "submitting" => (x.bound = TRUE <=> x.doc \in Routed)
    /\ x.kind \in {"submit", "submitting"} /\ x.status = "RETURNED" /\ x.doc \in Routed =>
        x.inst # Null
    /\ x.kind \in {"transition", "transitioning"} /\ x.doc \in Routed => doc[x.doc].inst # Null
    /\ x.kind = "transitioning" => FirstLive(x.doc) = {}
UnmovedDocument(d) ==
    /\ bound[d] = TRUE <=> d \in Routed
    /\ doc[d].status # "DRAFT" /\ d \in Routed => doc[d].inst # Null
    /\ d \notin Routed => doc[d].inst = Null
UnmovedProcess(i) ==
    inst[i].status = "RUNNING" /\ FirstProcess(i) =>
        doc[inst[i].doc].status = Maps[inst[i].state]
Unmoved ==
    rebinds = 0 =>
        /\ \A d \in Docs : UnmovedDocument(d)
        /\ \A c \in Clients : UnmovedRequest(request[c])
        /\ \A i \in Instances : UnmovedProcess(i)

StatusInv == IInv /\ Linked /\ Unmoved

LEMMA ReadsUnmoved ==
  ASSUME StatusInv, NEW c \in Clients, NEW x, request' = [request EXCEPT ![c] = x],
         UNCHANGED <<doc, inst, moves, bound, rebinds>>, LinkedRequest(x),
         rebinds = 0 => UnmovedRequest(x)
  PROVE  Linked' /\ Unmoved'
<1>1. Linked /\ Unmoved /\ request \in [Clients -> Requests]
  BY DEF StatusInv, IInv, WorkflowTypeOK, Requests
<1>2. request'[c] = x /\ \A b \in Clients : b # c => request'[b] = request[b]
  BY <1>1
<1>4. \A b \in Clients : LinkedRequest(request[b])' /\ (rebinds = 0 => UnmovedRequest(request[b])')
  <2> TAKE b \in Clients
  <2>1. LinkedRequest(request'[b]) /\ (rebinds = 0 => UnmovedRequest(request'[b]))
    BY <1>1, <1>2 DEF Linked, Unmoved
  <2> QED
    BY <2>1 DEF LinkedRequest, MadeDraft, UnmovedRequest, FirstLive, LiveInstance, FirstProcess
<1>5. Linked'
  BY <1>1, <1>4 DEF Linked, MadeDraft
<1>6. Unmoved'
  BY <1>1, <1>4 DEF Unmoved, UnmovedDocument, UnmovedProcess, FirstProcess
<1> QED
  BY <1>5, <1>6

\* What a request has read of a document stays so when processes move on.
LEMMA RequestsStayLinked ==
  ASSUME StatusInv, \A i \in Instances : MadeDraft(i) => MadeDraft(i)',
         \A b \in Clients : request'[b] = request[b] \/ request'[b] = Idle
  PROVE  \A b \in Clients : LinkedRequest(request[b])'
<1> TAKE b \in Clients
<1>1. request[b] \in Requests /\ LinkedRequest(request[b])
  BY DEF StatusInv, IInv, WorkflowTypeOK, Requests, Linked
<1>2. CASE request'[b] = Idle
  BY <1>2 DEF LinkedRequest, Idle
<1>3. CASE request'[b] = request[b]
  <2>1. request[b].kind \in {"submit", "submitting"} /\ request[b].inst # Null =>
           request[b].inst \in Instances
    BY <1>1, RequestKinds DEF Submission
  <2> QED
    BY <1>1, <1>3, <2>1 DEF LinkedRequest
<1> QED
  BY <1>2, <1>3

LEMMA DocumentUnmoved ==
  ASSUME ConstantsOK, StatusInv, NEW d \in Docs, NEW D, doc' = [doc EXCEPT ![d] = D], D.inst = doc[d].inst,
         D.status = "DRAFT" => doc[d].status = "DRAFT",
         UNCHANGED <<inst, moves, bound, rebinds>>,
         UNCHANGED request \/ \E c \in Clients : request' = [request EXCEPT ![c] = Idle],
         rebinds = 0 =>
            \/ D.status = doc[d].status
            \/ FirstLive(d) = {} /\ (d \in Routed => doc[d].inst # Null)
  PROVE  Linked' /\ Unmoved'
<1>1. /\ Linked /\ Unmoved /\ Places /\ request \in [Clients -> Requests]
      /\ doc \in [Docs -> DocRow]
  BY DEF StatusInv, IInv, WorkflowTypeOK, Requests, DocRow
<1>2. doc'[d] = D /\ \A e \in Docs : e # d => doc'[e] = doc[e]
  BY <1>1
<1>3. \A b \in Clients : request'[b] = request[b] \/ request'[b] = Idle
  BY <1>1
<1>4. \A i \in Instances : MadeDraft(i) => MadeDraft(i)'
  BY DEF MadeDraft
<1>5. Linked'
  <2>1. \A b \in Clients : LinkedRequest(request[b])'
    BY <1>3, <1>4, RequestsStayLinked
  <2> QED
    BY <1>1, <1>2, <2>1 DEF Linked, MadeDraft
<1>6. ASSUME rebinds = 0
      PROVE  /\ \A e \in Docs : UnmovedDocument(e)'
             /\ \A b \in Clients : UnmovedRequest(request[b])'
             /\ \A i \in Instances : UnmovedProcess(i)'
  <2>1. /\ \A e \in Docs : UnmovedDocument(e)
        /\ \A b \in Clients : UnmovedRequest(request[b])
        /\ \A i \in Instances : UnmovedProcess(i)
    BY <1>1, <1>6 DEF Unmoved
  <2>2. \A e \in Docs : UnmovedDocument(e)'
    BY <1>2, <1>6, <2>1 DEF UnmovedDocument
  <2>3. ASSUME NEW b \in Clients
        PROVE  UnmovedRequest(request[b])'
    <3>1. CASE request'[b] = Idle
      BY <3>1 DEF UnmovedRequest, Idle
    <3>2. CASE request'[b] = request[b]
      <4>1. request[b].kind \in {"transition", "transitioning"} =>
               doc'[request[b].doc].inst = doc[request[b].doc].inst
        <5>1. request[b] \in Requests
          BY <1>1
        <5> QED
          BY <1>2, <5>1, RequestKinds DEF Manual
      <4>2. FirstLive(request[b].doc)' = FirstLive(request'[b].doc)
        BY DEF FirstLive, LiveInstance, FirstProcess
      <4> QED
        BY <2>1, <3>2, <4>1, <4>2 DEF UnmovedRequest
    <3> QED
      BY <1>3, <3>1, <3>2
  <2>4. ASSUME NEW i \in Instances, inst[i].status = "RUNNING", FirstProcess(i)
        PROVE  doc'[inst[i].doc].status = Maps[inst[i].state]
    <3>1. inst[i].doc \in Docs
      BY <1>1, <2>4 DEF Places
    <3>2. inst[i].doc # d \/ D.status = doc[d].status
      BY <1>6, <2>4 DEF FirstLive, LiveInstance
    <3> QED
      BY <1>2, <2>1, <2>4, <3>1, <3>2 DEF UnmovedProcess
  <2> QED
    BY <2>2, <2>3, <2>4 DEF UnmovedProcess, FirstProcess
<1> QED
  BY <1>5, <1>6 DEF Unmoved

\* A process that moves keeps its history, and records where it comes to rest.
LEMMA AdvancedMoves ==
  ASSUME ConstantsOK, WorkflowTypeOK, Walks', NEW i \in Instances, NEW d, NEW D, NEW T, NEW row,
         NEW trail, NEW f, Advanced(i, d, D, T, row, trail, f)
  PROVE  /\ \A j \in Instances : MadeDraft(j) => MadeDraft(j)'
         /\ Maps[trail[Len(trail)]] = "DRAFT" => MadeDraft(i)'
<1>1. /\ Walked(i, d, row, trail, f) /\ inst \in [Instances -> InstRow]
      /\ moves \in [Instances -> Seq(MoveRow)] /\ moves' \in [Instances -> Seq(MoveRow)]
  BY DEF Advanced, Walked, WorkflowTypeOK, InstRow
<1>2. /\ inst'[i].state = trail[Len(trail)] /\ inst'[i].status # "ABSENT"
      /\ \A j \in Instances : j # i => moves'[j] = moves[j]
      /\ \A k \in 1..Len(moves[i]) : moves'[i][k] = moves[i][k]
  BY <1>1 DEF Walked
<1>3. DOMAIN moves[i] = 1..Len(moves[i]) /\ DOMAIN moves'[i] = 1..Len(moves'[i])
  BY <1>1, LenProperties
<1>4. 1..Len(moves[i]) \subseteq 1..Len(moves'[i])
  <2>1. /\ Len(moves[i]) \in Nat /\ Len(trail) \in Nat
        /\ Len(moves'[i]) = Len(moves[i]) + Len(trail)
    BY <1>1, LenProperties DEF Walked
  <2> QED
    BY <2>1
<1>5. ASSUME NEW j \in Instances, MadeDraft(j)
      PROVE  MadeDraft(j)'
  <2>1. CASE j = i
    BY <1>2, <1>3, <1>4, <1>5, <2>1 DEF MadeDraft
  <2>2. CASE j # i
    BY <1>2, <1>5, <2>2 DEF MadeDraft
  <2> QED
    BY <2>1, <2>2
<1>6. ASSUME Maps[trail[Len(trail)]] = "DRAFT"
      PROVE  MadeDraft(i)'
  <2> DEFINE n == Len(moves'[i])
  <2>1. n > 0 /\ moves'[i][n].to = trail[Len(trail)]
    BY <1>2 DEF Walks
  <2>2. n \in Nat
    BY <1>1, LenProperties
  <2>3. n \in DOMAIN moves'[i]
    BY <1>3, <2>1, <2>2
  <2> QED
    BY <1>6, <2>1, <2>3 DEF MadeDraft
<1> QED
  BY <1>5, <1>6

\* No process becomes the first of its document by another one's moving on.
LEMMA AdvancedFirst ==
  ASSUME ConstantsOK, WorkflowTypeOK, Places, NEW i \in Instances, NEW d, NEW D, NEW T, NEW row,
         NEW trail, NEW f, Advanced(i, d, D, T, row, trail, f),
         NEW j \in Instances, inst'[j].doc \in Docs, FirstProcess(j)',
         j = i => Firing(i, d, T, row, trail)
  PROVE  inst'[j].doc = inst[j].doc /\ FirstProcess(j)
<1>1. /\ inst \in [Instances -> InstRow] /\ Null \notin Docs /\ d \in Docs
      /\ Starting(i, d, T, row, trail) \/ Firing(i, d, T, row, trail)
  BY DEF WorkflowTypeOK, InstRow, Advanced, ConstantsOK
<1>2. /\ inst'[i].doc = d
      /\ \A k \in Instances : k # i => inst'[k] = inst[k]
  BY <1>1 DEF Advanced, Walked
<1>3. inst[i].doc = d \/ (inst[i].doc = Null /\ j # i)
  <2>1. Firing(i, d, T, row, trail) => inst[i].doc = d
    BY DEF Firing
  <2>2. Starting(i, d, T, row, trail) /\ ~Firing(i, d, T, row, trail) =>
           inst[i].doc = Null /\ j # i
    BY DEF Starting, Places
  <2> QED
    BY <1>1, <2>1, <2>2
<1>4. inst'[j].doc = inst[j].doc
  BY <1>2, <1>3
<1> QED
  BY <1>1, <1>2, <1>3, <1>4 DEF FirstProcess

LEMMA AdvancedUnmoved ==
  ASSUME ConstantsOK, StatusInv, NEW i \in Instances, NEW d, NEW D, NEW T, NEW row,
         NEW trail, NEW f, Advanced(i, d, D, T, row, trail, f),
         NEW c \in Clients, request' = [request EXCEPT ![c] = Idle], UNCHANGED <<bound, rebinds>>,
         Starting(i, d, T, row, trail) => (rebinds = 0 => d \in Routed)
  PROVE  Linked' /\ Unmoved'
<1> DEFINE last == trail[Len(trail)]
<1>1. /\ Linked /\ Unmoved /\ Places /\ request \in [Clients -> Requests] /\ WorkflowTypeOK
      /\ inst \in [Instances -> InstRow] /\ d \in Docs /\ i # Null
      /\ Starting(i, d, T, row, trail) \/ Firing(i, d, T, row, trail)
  BY DEF StatusInv, IInv, WorkflowTypeOK, Requests, InstRow, Advanced, ConstantsOK
<1>2. /\ doc'[d].inst = i /\ doc'[d].status = Maps[last]
      /\ \A e \in Docs : e # d => doc'[e] = doc[e]
  BY <1>1, AdvancedDocument
<1>3. /\ inst'[i].doc = d /\ inst'[i].state = last
      /\ \A j \in Instances : j # i => inst'[j] = inst[j]
  BY <1>1 DEF Advanced, Walked
<1>4. /\ \A j \in Instances : MadeDraft(j) => MadeDraft(j)'
      /\ Maps[last] = "DRAFT" => MadeDraft(i)'
  BY <1>1, AdvancedWalks, AdvancedMoves DEF StatusInv, IInv
<1>5. \A b \in Clients : request'[b] = request[b] \/ request'[b] = Idle
  BY <1>1
<1>6. Linked'
  <2>1. \A b \in Clients : LinkedRequest(request[b])'
    BY <1>4, <1>5, RequestsStayLinked
  <2>2. ASSUME NEW e \in Docs, doc'[e].status = "DRAFT", doc'[e].inst # Null
        PROVE  MadeDraft(doc[e].inst)'
    <3>1. CASE e = d
      <4>1. MadeDraft(i)'
        BY <1>2, <1>4, <2>2, <3>1
      <4> QED
        BY <1>2, <3>1, <4>1 DEF MadeDraft
    <3>2. CASE e # d
      <4>1. doc'[e] = doc[e] /\ doc[e].inst \in Instances
        BY <1>1, <1>2, <2>2, <3>2 DEF WorkflowTypeOK
      <4>2. MadeDraft(doc[e].inst)
        BY <1>1, <2>2, <4>1 DEF Linked
      <4>3. PICK j \in Instances : j = doc[e].inst
        BY <4>1
      <4>4. MadeDraft(j)'
        BY <1>4, <4>2, <4>3
      <4> QED
        BY <4>1, <4>3, <4>4 DEF MadeDraft
    <3> QED
      BY <3>1, <3>2
  <2> QED
    BY <2>1, <2>2 DEF Linked
<1>7. ASSUME rebinds = 0
      PROVE  /\ \A e \in Docs : UnmovedDocument(e)'
             /\ \A b \in Clients : UnmovedRequest(request[b])'
             /\ \A j \in Instances : UnmovedProcess(j)'
  <2>1. /\ \A e \in Docs : UnmovedDocument(e)
        /\ \A b \in Clients : UnmovedRequest(request[b])
        /\ \A j \in Instances : UnmovedProcess(j)
    BY <1>1, <1>7 DEF Unmoved
  <2>2. d \in Routed
    BY <1>1, <1>7, <2>1 DEF Firing, UnmovedDocument
  <2>3. \A e \in Docs : UnmovedDocument(e)'
    BY <1>1, <1>2, <2>1, <2>2 DEF UnmovedDocument
  <2>4. ASSUME NEW b \in Clients, request[b].kind \in {"transition", "transitioning"}
        PROVE  /\ request[b].doc \in Docs
               /\ request[b].doc \in Routed => doc'[request[b].doc].inst # Null
    <3>1. request[b] \in Requests
      BY <1>1
    <3>2. request[b].doc \in Docs
      BY <2>4, <3>1, RequestKinds DEF Manual
    <3>3. CASE request[b].doc = d
      BY <1>1, <1>2, <3>2, <3>3
    <3>4. CASE request[b].doc # d
      BY <1>2, <2>1, <2>4, <3>2, <3>4 DEF UnmovedRequest
    <3> QED
      BY <3>2, <3>3, <3>4
  <2>5. ASSUME NEW b \in Clients, request[b].kind = "transitioning", request'[b] = request[b]
        PROVE  FirstLive(request[b].doc)' = {}
    <3> DEFINE e == request[b].doc
    <3>1. e \in Docs /\ FirstLive(e) = {}
      BY <2>1, <2>4, <2>5 DEF UnmovedRequest
    <3> SUFFICES ASSUME NEW j \in Instances, inst'[j].doc = e, inst'[j].status = "RUNNING",
                        FirstProcess(j)'
                 PROVE  FALSE
      BY <2>5 DEF FirstLive, LiveInstance
    <3>2. j = i => Firing(i, d, T, row, trail)
      <4> SUFFICES ASSUME j = i, Starting(i, d, T, row, trail)
                   PROVE  FALSE
        BY <1>1
      <4>1. e = d
        BY <1>3
      <4>2. doc[d].inst # Null
        BY <2>1, <2>2, <2>5, <4>1 DEF UnmovedRequest
      <4>3. /\ doc[d].inst \in Instances /\ inst[doc[d].inst].doc = d
            /\ inst[doc[d].inst].status # "ABSENT"
        BY <1>1, <4>2 DEF Places, WorkflowTypeOK
      <4>4. doc[d].inst # i
        BY <4>3 DEF Starting
      <4>5. inst'[doc[d].inst].doc = d
        BY <1>3, <4>3, <4>4
      <4> QED
        BY <1>3, <4>3, <4>4, <4>5 DEF FirstProcess
    <3>3. inst'[j].doc = inst[j].doc /\ FirstProcess(j)
      BY <1>1, <3>1, <3>2, AdvancedFirst
    <3>4. inst[j].status = "RUNNING"
      BY <1>3, <3>2 DEF Firing
    <3> QED
      BY <3>1, <3>3, <3>4 DEF FirstLive, LiveInstance
  <2>6. ASSUME NEW b \in Clients
        PROVE  UnmovedRequest(request[b])'
    <3>1. CASE request'[b] = Idle
      BY <3>1 DEF UnmovedRequest, Idle
    <3>2. CASE request'[b] = request[b]
      <4>1. request[b].kind = "transitioning" => FirstLive(request[b].doc)' = {}
        BY <2>5, <3>2
      <4> QED
        BY <2>1, <2>4, <3>2, <4>1 DEF UnmovedRequest
    <3> QED
      BY <1>5, <3>1, <3>2
  <2>7. ASSUME NEW j \in Instances
        PROVE  UnmovedProcess(j)'
    <3>1. CASE j = i
      BY <1>2, <1>3, <3>1 DEF UnmovedProcess
    <3>2. ASSUME j # i, inst'[j].status = "RUNNING", FirstProcess(j)'
          PROVE  doc'[inst'[j].doc].status = Maps[inst'[j].state]
      <4>1. inst'[j] = inst[j] /\ inst[j].doc \in Docs
        BY <1>1, <1>3, <3>2 DEF Places
      <4>2. inst[j].doc # d
        BY <1>1, <3>2, <4>1 DEF Places, Starting, Firing, LiveInstance
      <4>3. FirstProcess(j)
        BY <1>1, <3>2, <4>1, AdvancedFirst
      <4> QED
        BY <1>2, <2>1, <3>2, <4>1, <4>2, <4>3 DEF UnmovedProcess
    <3> QED
      BY <3>1, <3>2 DEF UnmovedProcess
  <2> QED
    BY <2>3, <2>6, <2>7
<1> QED
  BY <1>6, <1>7 DEF Unmoved

LEMMA ReadingUnmoved ==
  ASSUME StatusInv, NEW c \in Clients,
         \/ \E d \in Docs : ReadSubject(c, d) \/ ReadStatus(c, d)
         \/ \E t \in Tasks : ReadTask(c, t)
         \/ ReadBinding(c) \/ CheckNoProcess(c) \/ Refuse(c)
  PROVE  Linked' /\ Unmoved'
<1>1. /\ Linked /\ Unmoved /\ request[c] \in Requests /\ LinkedRequest(request[c])
      /\ doc \in [Docs -> DocRow]
  BY DEF StatusInv, IInv, WorkflowTypeOK, Requests, Linked, DocRow
<1>2. UNCHANGED <<doc, inst, moves, bound, rebinds>>
  BY DEF ReadSubject, ReadStatus, ReadTask, ReadBinding, CheckNoProcess, Refuse
<1>3. ASSUME NEW d \in Docs, ReadSubject(c, d)
      PROVE  Linked' /\ Unmoved'
  <2> DEFINE x == [kind |-> "submit", doc |-> d, status |-> doc[d].status,
                   number |-> doc[d].number, inst |-> doc[d].inst, bound |-> FALSE]
  <2>1. request' = [request EXCEPT ![c] = x]
    BY <1>3 DEF ReadSubject
  <2>2. LinkedRequest(x) /\ (rebinds = 0 => UnmovedRequest(x))
    BY <1>1 DEF Linked, LinkedRequest, Unmoved, UnmovedDocument, UnmovedRequest
  <2> HIDE DEF x
  <2> QED
    BY <1>2, <2>1, <2>2, ReadsUnmoved
<1>4. ASSUME NEW d \in Docs, ReadStatus(c, d)
      PROVE  Linked' /\ Unmoved'
  <2> DEFINE x == [kind |-> "transition", doc |-> d, status |-> doc[d].status]
  <2>1. request' = [request EXCEPT ![c] = x]
    BY <1>4 DEF ReadStatus
  <2>2. doc[d].status # "DRAFT"
    BY <1>4 DEF ReadStatus, MayMoveTo
  <2>3. LinkedRequest(x) /\ (rebinds = 0 => UnmovedRequest(x))
    BY <1>1, <2>2 DEF LinkedRequest, Unmoved, UnmovedDocument, UnmovedRequest
  <2> HIDE DEF x
  <2> QED
    BY <1>2, <2>1, <2>3, ReadsUnmoved
<1>5. ASSUME NEW t \in Tasks, ReadTask(c, t)
      PROVE  Linked' /\ Unmoved'
  <2> DEFINE d == inst[task[t].inst].doc
             x == [kind |-> "decide", task |-> t, doc |-> d, form |-> doc[d].form]
  <2>1. request' = [request EXCEPT ![c] = x]
    BY <1>5 DEF ReadTask
  <2>2. LinkedRequest(x) /\ UnmovedRequest(x)
    BY DEF LinkedRequest, UnmovedRequest
  <2> HIDE DEF x
  <2> QED
    BY <1>2, <2>1, <2>2, ReadsUnmoved
<1>6. ASSUME ReadBinding(c)
      PROVE  Linked' /\ Unmoved'
  <2> DEFINE r == request[c]
             takes == r.doc \in Tolerant /\ r.status # "RETURNED"
             x == [kind |-> "submitting", doc |-> r.doc, status |-> r.status,
                   number |-> IF takes THEN issued + 1 ELSE r.number,
                   inst |-> r.inst, bound |-> bound[r.doc]]
  <2>1. r.kind = "submit" /\ request' = [request EXCEPT ![c] = x]
    BY <1>6 DEF ReadBinding
  <2>2. r.doc \in Docs
    BY <1>1, <2>1, RequestKinds DEF Submission
  <2>3. LinkedRequest(x)
    BY <1>1, <2>1 DEF LinkedRequest
  <2>4. rebinds = 0 => UnmovedRequest(x)
    BY <1>1, <2>1, <2>2 DEF UnmovedRequest, UnmovedDocument, Unmoved
  <2> HIDE DEF x
  <2> QED
    BY <1>2, <2>1, <2>3, <2>4, ReadsUnmoved
<1>7. ASSUME CheckNoProcess(c)
      PROVE  Linked' /\ Unmoved'
  <2> DEFINE x == [kind |-> "transitioning", doc |-> request[c].doc, status |-> request[c].status]
  <2>1. /\ request[c].kind = "transition" /\ request' = [request EXCEPT ![c] = x]
        /\ LiveInstance(request[c].doc) = {}
    BY <1>7 DEF CheckNoProcess
  <2>2. LinkedRequest(x) /\ (rebinds = 0 => UnmovedRequest(x))
    BY <1>1, <2>1 DEF LinkedRequest, Unmoved, UnmovedRequest, FirstLive
  <2> HIDE DEF x
  <2> QED
    BY <1>2, <2>1, <2>2, ReadsUnmoved
<1>8. ASSUME Refuse(c)
      PROVE  Linked' /\ Unmoved'
  <2>1. request' = [request EXCEPT ![c] = Idle]
    BY <1>8 DEF Refuse
  <2>2. LinkedRequest(Idle) /\ UnmovedRequest(Idle)
    BY DEF LinkedRequest, UnmovedRequest, Idle
  <2> QED
    BY <1>2, <2>1, <2>2, ReadsUnmoved
<1> QED
  BY <1>3, <1>4, <1>5, <1>6, <1>7, <1>8

LEMMA SubmitUnmoved ==
  ASSUME ConstantsOK, StatusInv, NEW c \in Clients, Submit(c)
  PROVE  Linked' /\ Unmoved'
<1> DEFINE r == request[c]
           d == r.doc
           D == Written(c)
<1>1. IInv /\ Linked /\ Unmoved /\ LinkedRequest(r)
  BY DEF StatusInv, Linked
<1>2. /\ d \in Docs /\ D \in DocRow /\ D.inst = doc[d].inst
      /\ r.kind = "submitting" /\ D.status = "SUBMITTED" /\ doc[d].inst = r.inst
      /\ request' = [request EXCEPT ![c] = Idle] /\ UNCHANGED <<bound, revision, rebinds>>
      /\ \/ r.status = "RETURNED" /\ doc[d].inst = Null /\ Plainly(d, D)
         \/ r.status # "RETURNED" /\ ~r.bound /\ Plainly(d, D)
         \/ \E T, row, trail :
               /\ Firing(doc[d].inst, d, T, row, trail)
               /\ Advanced(doc[d].inst, d, D, T, row, trail, D.form)
         \/ /\ r.status # "RETURNED" /\ r.bound
            /\ \E i \in Instances : \E row, trail :
                 /\ Starting(i, d, task, row, trail)
                 /\ Advanced(i, d, [D EXCEPT !.inst = i], task, row, trail, D.form)
  <2> HIDE DEF D
  <2>1. /\ d \in Docs /\ D \in DocRow /\ D.inst = doc[d].inst
        /\ r.kind = "submitting" /\ D.status = "SUBMITTED" /\ doc[d].inst = r.inst
        /\ request' = [request EXCEPT ![c] = Idle] /\ UNCHANGED <<bound, revision, rebinds>>
    BY <1>1, SubmitWrites DEF D
  <2>2. \/ r.status = "RETURNED" /\ doc[d].inst = Null /\ Plainly(d, D)
        \/ r.status # "RETURNED" /\ ~r.bound /\ Plainly(d, D)
        \/ /\ r.status = "RETURNED" /\ doc[d].inst \in Instances
           /\ \E T, row, trail :
                /\ Firing(doc[d].inst, d, T, row, trail)
                /\ Advanced(doc[d].inst, d, D, T, row, trail, D.form)
        \/ /\ r.status # "RETURNED" /\ r.bound
           /\ \E i \in Instances : \E row, trail :
                /\ Starting(i, d, task, row, trail)
                /\ Advanced(i, d, [D EXCEPT !.inst = i], task, row, trail, D.form)
    BY <1>1, SubmitWrites DEF D
  <2> QED
    BY <2>1, <2>2
<1>3. r \in Submission("submitting")
  <2>1. r \in Requests
    BY <1>1 DEF IInv, WorkflowTypeOK, Requests
  <2> QED
    BY <1>2, <2>1, RequestKinds
<1>4. r.status \in {"DRAFT", "RETURNED"} /\ r.bound \in BOOLEAN
  BY <1>3 DEF Submission, Editable
<1>5. rebinds = 0 => UnmovedDocument(d) /\ UnmovedRequest(r)
  BY <1>1, <1>2 DEF Unmoved
<1> HIDE DEF D
<1>8. CASE Plainly(d, D) /\ \/ r.status = "RETURNED" /\ doc[d].inst = Null
                            \/ r.status # "RETURNED" /\ ~r.bound
  <2>1. rebinds = 0 => d \notin Routed
    BY <1>2, <1>4, <1>5, <1>8 DEF UnmovedRequest
  <2>2. rebinds = 0 => FirstLive(d) = {}
    <3> SUFFICES ASSUME rebinds = 0, NEW i \in Instances, inst[i].doc = d, inst[i].status = "RUNNING"
                 PROVE  FALSE
      BY DEF FirstLive, LiveInstance
    <3>1. doc[d].inst = i
      BY <1>1 DEF IInv, Places
    <3> QED
      BY <1>5, <2>1, <3>1 DEF ConstantsOK, UnmovedDocument
  <2>3. doc' = [doc EXCEPT ![d] = D] /\ UNCHANGED <<inst, task, moves>>
    BY <1>8 DEF Plainly
  <2> QED
    BY <1>2, <2>1, <2>2, <2>3, DocumentUnmoved
<1>9. CASE \E T, row, trail : /\ Firing(doc[d].inst, d, T, row, trail)
                              /\ Advanced(doc[d].inst, d, D, T, row, trail, D.form)
  <2>1. PICK T, row, trail : /\ Firing(doc[d].inst, d, T, row, trail)
                             /\ Advanced(doc[d].inst, d, D, T, row, trail, D.form)
    BY <1>9
  <2>2. doc[d].inst \in Instances /\ ~Starting(doc[d].inst, d, T, row, trail)
    BY <2>1 DEF Firing, Starting, Advanced
  <2> QED
    BY <1>2, <2>1, <2>2, AdvancedUnmoved
<1>10. CASE /\ r.status # "RETURNED" /\ r.bound
            /\ \E i \in Instances : \E row, trail :
                 Advanced(i, d, [D EXCEPT !.inst = i], task, row, trail, D.form)
  <2>1. PICK i \in Instances : \E row, trail :
                 Advanced(i, d, [D EXCEPT !.inst = i], task, row, trail, D.form)
    BY <1>10
  <2>2. PICK row, trail : Advanced(i, d, [D EXCEPT !.inst = i], task, row, trail, D.form)
    BY <2>1
  <2>3. rebinds = 0 => d \in Routed
    BY <1>2, <1>4, <1>5, <1>10 DEF UnmovedRequest
  <2> QED
    BY <1>2, <2>2, <2>3, AdvancedUnmoved
<1> QED
  BY <1>2, <1>8, <1>9, <1>10

LEMMA DecideUnmoved ==
  ASSUME ConstantsOK, StatusInv, NEW c \in Clients, NEW u,
         NEW action \in DecisionActions, Decide(c, u, action)
  PROVE  Linked' /\ Unmoved'
<1>1. IInv /\ request' = [request EXCEPT ![c] = Idle] /\ UNCHANGED <<bound, rebinds>>
  BY DEF StatusInv, Decide
<1>2. PICK d \in Docs, i \in Instances : \E T, row, trail, f :
            /\ Firing(i, d, T, row, trail)
            /\ Advanced(i, d, doc[d], T, row, trail, f)
  BY <1>1, DecideAdvances
<1>3. PICK T, row, trail, f : /\ Firing(i, d, T, row, trail)
                              /\ Advanced(i, d, doc[d], T, row, trail, f)
  BY <1>2
<1>4. ~Starting(i, d, T, row, trail)
  BY <1>3 DEF Firing, Starting
<1> QED
  BY <1>1, <1>3, <1>4, AdvancedUnmoved

LEMMA ManualUnmoved ==
  ASSUME ConstantsOK, StatusInv,
         \/ \E c \in Clients : Transition(c)
         \/ \E d \in Docs : DeleteDocument(d) \/ \E f \in Forms : UpdateDocument(d, f)
  PROVE  Linked' /\ Unmoved'
<1>1. /\ IInv /\ Linked /\ Unmoved /\ doc \in [Docs -> DocRow]
      /\ request \in [Clients -> Requests]
  BY DEF StatusInv, IInv, WorkflowTypeOK, DocRow, Requests
<1>2. ASSUME NEW c \in Clients, Transition(c)
      PROVE  Linked' /\ Unmoved'
  <2> DEFINE d == request[c].doc
  <2>1. request[c] \in Manual("transitioning") /\ request[c].kind = "transitioning"
    <3>1. request[c] \in Requests /\ request[c].kind = "transitioning"
      BY <1>1, <1>2 DEF Transition
    <3> QED
      BY <3>1, RequestKinds
  <2>2. PICK to \in MayMoveTo(request[c].status) : doc' = [doc EXCEPT ![d].status = to]
    BY <1>2 DEF Transition
  <2>3. d \in Docs /\ doc[d] \in DocRow
    BY <1>1, <2>1 DEF Manual
  <2>4. to # "DRAFT"
    BY <2>2 DEF MayMoveTo
  <2> DEFINE D == [doc[d] EXCEPT !.status = to]
  <2>5. doc' = [doc EXCEPT ![d] = D] /\ D.inst = doc[d].inst /\ D.status = to
    BY <2>2, <2>3 DEF DocRow
  <2>6. rebinds = 0 => FirstLive(d) = {} /\ (d \in Routed => doc[d].inst # Null)
    BY <1>1, <2>1 DEF Unmoved, UnmovedRequest
  <2>7. request' = [request EXCEPT ![c] = Idle] /\ UNCHANGED <<inst, moves, bound, rebinds>>
    BY <1>2 DEF Transition
  <2> HIDE DEF D, d
  <2> QED
    BY <2>3, <2>4, <2>5, <2>6, <2>7, DocumentUnmoved
<1>3. ASSUME NEW d \in Docs, DeleteDocument(d)
      PROVE  Linked' /\ Unmoved'
  <2> DEFINE D == [doc[d] EXCEPT !.deleted = TRUE]
  <2>1. doc' = [doc EXCEPT ![d] = D] /\ D.status = doc[d].status /\ D.inst = doc[d].inst
    BY <1>1, <1>3 DEF DocRow, DeleteDocument
  <2>2. UNCHANGED <<inst, moves, bound, rebinds, request>>
    BY <1>3 DEF DeleteDocument
  <2> HIDE DEF D
  <2> QED
    BY <2>1, <2>2, DocumentUnmoved
<1>4. ASSUME NEW d \in Docs, NEW f \in Forms, UpdateDocument(d, f)
      PROVE  Linked' /\ Unmoved'
  <2> DEFINE D == [doc[d] EXCEPT !.form = f]
  <2>1. doc' = [doc EXCEPT ![d] = D] /\ D.status = doc[d].status /\ D.inst = doc[d].inst
    BY <1>1, <1>4 DEF DocRow, UpdateDocument
  <2>2. UNCHANGED <<inst, moves, bound, rebinds, request>>
    BY <1>4 DEF UpdateDocument
  <2> HIDE DEF D
  <2> QED
    BY <2>1, <2>2, DocumentUnmoved
<1> QED
  BY <1>2, <1>3, <1>4

LEMMA StatusInit ==
  ASSUME ConstantsOK, WorkflowInit
  PROVE  StatusInv
<1>1. \A d \in Docs : doc[d].status = "DRAFT" /\ doc[d].inst = Null
  BY DEF WorkflowInit
<1>2. /\ \A c \in Clients : request[c] = Idle
      /\ \A i \in Instances : inst[i].status = "ABSENT"
      /\ \A d \in Docs : bound[d] = TRUE <=> d \in Routed
  BY DEF WorkflowInit
<1>3. Linked
  BY <1>1, <1>2 DEF Linked, LinkedRequest, Idle
<1>4. Unmoved
  BY <1>1, <1>2 DEF Unmoved, UnmovedDocument, UnmovedRequest, UnmovedProcess, Idle
<1> QED
  BY <1>3, <1>4, InitInv DEF StatusInv

LEMMA StatusNext ==
  ASSUME ConstantsOK, StatusInv, [WorkflowNext]_workflowVars
  PROVE  StatusInv'
<1>1. IInv'
  BY NextInv DEF StatusInv
<1>2. ASSUME NEW c \in Clients,
             \/ \E d \in Docs : ReadSubject(c, d) \/ ReadStatus(c, d)
             \/ \E t \in Tasks : ReadTask(c, t)
             \/ ReadBinding(c) \/ CheckNoProcess(c) \/ Refuse(c)
      PROVE  Linked' /\ Unmoved'
  BY <1>2, ReadingUnmoved
<1>3. ASSUME NEW c \in Clients, Submit(c)
      PROVE  Linked' /\ Unmoved'
  BY <1>3, SubmitUnmoved
<1>4. ASSUME NEW c \in Clients, NEW u \in Users, NEW action \in DecisionActions, Decide(c, u, action)
      PROVE  Linked' /\ Unmoved'
  BY <1>4, DecideUnmoved
<1>5. ASSUME NEW c \in Clients, Transition(c)
      PROVE  Linked' /\ Unmoved'
  BY <1>5, ManualUnmoved
<1>6. ASSUME NEW d \in Docs, DeleteDocument(d) \/ \E f \in Forms : UpdateDocument(d, f)
      PROVE  Linked' /\ Unmoved'
  BY <1>6, ManualUnmoved
<1>7. ASSUME UNCHANGED <<doc, inst, moves, bound, rebinds, request>>
      PROVE  Linked' /\ Unmoved'
  BY <1>7 DEF StatusInv, Linked, LinkedRequest, Unmoved, UnmovedDocument, UnmovedRequest,
              UnmovedProcess, LiveInstance, FirstLive, FirstProcess, MadeDraft
<1>8. ASSUME NEW t \in Tasks,
             \/ \E u \in Users : ClaimTask(u, t) \/ \E v \in Users : Delegate(u, v, t)
             \/ \E target \in Users \cup {Null} : Reassign(target, t)
      PROVE  Linked' /\ Unmoved'
  BY <1>7, <1>8 DEF ClaimTask, Delegate, Reassign
<1>9. ASSUME DeprecateDefinition \/ DeleteDefinition \/ UNCHANGED workflowVars
      PROVE  Linked' /\ Unmoved'
  BY <1>7, <1>9 DEF DeprecateDefinition, DeleteDefinition, workflowVars
<1>10. ASSUME NEW d \in Docs, Rebind(d)
       PROVE  Linked' /\ Unmoved'
  <2>1. rebinds' # 0 /\ UNCHANGED <<doc, moves, request>>
    BY <1>10 DEF Rebind, StatusInv, IInv, WorkflowTypeOK
  <2> QED
    BY <2>1 DEF StatusInv, Linked, LinkedRequest, MadeDraft, Unmoved
<1> QED
  BY <1>1, <1>2, <1>3, <1>4, <1>5, <1>6, <1>8, <1>9, <1>10 DEF WorkflowNext, StatusInv

\* The invariant of the status holds in every reachable state.
THEOREM StatusInvariance ==
  ASSUME ConstantsOK PROVE WorkflowSpec => []StatusInv
<1>1. WorkflowInit => StatusInv
  BY StatusInit
<1>2. StatusInv /\ [WorkflowNext]_workflowVars => StatusInv'
  BY StatusNext
<1> QED
  BY <1>1, <1>2, PTL DEF WorkflowSpec

\* While a process decides a document, the document exists and points at it;
\* and until its type is bound anew it has, under its first process, the
\* status that the process's state maps to.
THEOREM StatusFollows ==
  ASSUME ConstantsOK PROVE WorkflowSpec => []StatusFollowsProcess
<1>1. StatusInv => StatusFollowsProcess
  BY DEF StatusInv, IInv, Places, Unmoved, UnmovedProcess, StatusFollowsProcess
<1> QED
  BY <1>1, StatusInvariance, PTL

\* A document that has a process keeps its number (mark_submitted) unless that
\* process made it a draft again and has ended, or its type was bound anew.
THEOREM NumberStays ==
  ASSUME ConstantsOK PROVE WorkflowSpec => ProcessKeepsItsNumber
<1> DEFINE Allowed(d) ==
        /\ MadeDraft(doc[d].inst)
        /\ inst[doc[d].inst].status = "COMPLETED" \/ rebinds > 0
<1>1. ASSUME StatusInv, [WorkflowNext]_workflowVars, NEW d \in Docs, doc[d].inst # Null,
             doc'[d].number # doc[d].number
      PROVE  Allowed(d)
  <2>1. IInv /\ WorkflowTypeOK /\ doc \in [Docs -> DocRow]
    BY <1>1 DEF StatusInv, IInv, WorkflowTypeOK, DocRow
  <2>2. ASSUME NEW c \in Clients, Submit(c)
        PROVE  Allowed(d)
    <3> DEFINE r == request[c]
               e == r.doc
    <3>1. doc[e].inst = r.inst /\ r.kind = "submitting" /\ e \in Docs
      BY <2>1, <2>2, SubmitWrites
    <3> DEFINE D == Written(c)
    <3>2. \/ r.status = "RETURNED" \/ ~r.bound
          \/ \E i \in Instances : \E row, trail :
                /\ Starting(i, e, task, row, trail)
                /\ Advanced(i, e, [D EXCEPT !.inst = i], task, row, trail, D.form)
      <4> HIDE DEF D
      <4>1. \/ r.status = "RETURNED" /\ doc[e].inst = Null /\ Plainly(e, D)
            \/ r.status # "RETURNED" /\ ~r.bound /\ Plainly(e, D)
            \/ /\ r.status = "RETURNED" /\ doc[e].inst \in Instances
               /\ \E T, row, trail :
                    /\ Firing(doc[e].inst, e, T, row, trail)
                    /\ Advanced(doc[e].inst, e, D, T, row, trail, D.form)
            \/ /\ r.status # "RETURNED" /\ r.bound
               /\ \E i \in Instances : \E row, trail :
                    /\ Starting(i, e, task, row, trail)
                    /\ Advanced(i, e, [D EXCEPT !.inst = i], task, row, trail, D.form)
        BY <2>1, <2>2, SubmitWrites DEF D
      <4> QED
        BY <4>1
    <3>3. doc'[e].number = Numbered(r, doc[e]) /\ \A g \in Docs : g # e => doc'[g] = doc[g]
      BY <2>1, <2>2, SubmitNumbering
    <3>4. d = e /\ r.status # "RETURNED"
      BY <1>1, <3>3 DEF Numbered
    <3>5. r \in Submission("submitting")
      <4>1. r \in Requests
        BY <2>1 DEF WorkflowTypeOK, Requests
      <4> QED
        BY <3>1, <4>1, RequestKinds
    <3>6. r.status = "DRAFT" /\ r.bound \in BOOLEAN
      BY <3>4, <3>5 DEF Submission, Editable
    <3>7. MadeDraft(doc[d].inst)
      BY <1>1, <3>1, <3>4, <3>6 DEF StatusInv, Linked, LinkedRequest
    <3>8. ASSUME rebinds = 0
          PROVE  inst[doc[d].inst].status = "COMPLETED"
      <4>1. r.bound
        BY <1>1, <3>1, <3>4, <3>6, <3>8 DEF StatusInv, Unmoved, UnmovedDocument, UnmovedRequest
      <4>2. LiveInstance(d) = {}
        BY <3>4, <3>6, <3>2, <4>1 DEF Starting
      <4>3. /\ doc[d].inst \in Instances /\ inst[doc[d].inst] \in InstRow
            /\ inst[doc[d].inst].doc = d /\ inst[doc[d].inst].status # "ABSENT"
        BY <1>1, <2>1 DEF IInv, Places, WorkflowTypeOK, InstRow
      <4> QED
        BY <4>2, <4>3 DEF LiveInstance, InstRow
    <3>9. rebinds \in Nat
      BY <2>1 DEF WorkflowTypeOK
    <3> QED
      BY <3>7, <3>8, <3>9
  <2>3. ASSUME NEW c \in Clients, NEW u \in Users, NEW action \in DecisionActions,
               Decide(c, u, action)
        PROVE  FALSE
    <3>1. PICK e \in Docs, i \in Instances : \E T, row, trail, f : Advanced(i, e, doc[e], T, row, trail, f)
      BY <2>1, <2>3, DecideAdvances
    <3> QED
      BY <1>1, <2>1, <3>1, AdvancedDocument
  <2>4. ASSUME NEW c \in Clients, Transition(c)
        PROVE  FALSE
    BY <1>1, <2>1, <2>4 DEF Transition, DocRow
  <2>5. ASSUME NEW e \in Docs, DeleteDocument(e) \/ \E f \in Forms : UpdateDocument(e, f)
        PROVE  FALSE
    BY <1>1, <2>1, <2>5 DEF DeleteDocument, UpdateDocument, DocRow
  <2>6. ASSUME NEW c \in Clients,
               \/ \E e \in Docs : ReadSubject(c, e) \/ ReadStatus(c, e)
               \/ \E t \in Tasks : ReadTask(c, t)
               \/ ReadBinding(c) \/ CheckNoProcess(c) \/ Refuse(c)
        PROVE  FALSE
    BY <1>1, <2>6 DEF ReadSubject, ReadStatus, ReadTask, ReadBinding, CheckNoProcess, Refuse
  <2>7. ASSUME NEW t \in Tasks,
               \/ \E u \in Users : ClaimTask(u, t) \/ \E v \in Users : Delegate(u, v, t)
               \/ \E target \in Users \cup {Null} : Reassign(target, t)
        PROVE  FALSE
    BY <1>1, <2>7 DEF ClaimTask, Delegate, Reassign
  <2>8. ASSUME \/ DeprecateDefinition \/ DeleteDefinition \/ UNCHANGED workflowVars
               \/ \E e \in Docs : Rebind(e)
        PROVE  FALSE
    BY <1>1, <2>8 DEF DeprecateDefinition, DeleteDefinition, Rebind, workflowVars
  <2> QED
    BY <1>1, <2>2, <2>3, <2>4, <2>5, <2>6, <2>7, <2>8 DEF WorkflowNext
<1>2. StatusInv /\ [WorkflowNext]_workflowVars =>
         [\A d \in Docs : doc[d].inst # Null /\ doc'[d].number # doc[d].number => Allowed(d)]_workflowVars
  BY <1>1
<1> QED
  BY <1>2, StatusInvariance, PTL DEF WorkflowSpec, ProcessKeepsItsNumber
=============================================================================
