---------------------------- MODULE SupportProofs ----------------------------
(***************************************************************************)
(* Proofs about what surrounds the approval core, each for any constants:  *)
(*                                                                         *)
(*   tasks     WorkedForWhomItWasGiven is not inductive: a claim takes a   *)
(*             task as it is, so an open task that nobody has must stand   *)
(*             for nobody, and must have been given to nobody;             *)
(*   changes   what a transaction leaves is said of changes K and records  *)
(*             R, so that it can be said in the middle of a submission,    *)
(*             too: the change is raised first and may be settled at once; *)
(*   hooks     a breaker reads the newest rows, so rows are ranked; the    *)
(*             latest success of a streak is above what was read of it;    *)
(*   trees     a request that walked up under the lock has passed a set    *)
(*             that is closed upwards and does not hold its node: a move   *)
(*             closes no circle, without an induction over paths;          *)
(*   roles     a transaction acts on what it read some steps ago.  The     *)
(*             invariant says what is still true of that (Grounded), and   *)
(*             which transactions cannot be open at once (Apart): the row  *)
(*             locks are why the one follows from the other.               *)
(***************************************************************************)
EXTENDS Authority, Governance, Publishing, AfterHooks, Hierarchy, FiniteSetTheorems, TLAPS

(* Delegated tasks                                                         *)

NobodysTask ==
    task.status = "open" /\ task.assignee = None =>
        task.standsFor = None /\ given = None

WorkedTask == task.assignee # None => given # None

\* Nobody delegates to themselves.
WindowsLeadOn ==
    \A n \in 1..MaxWindows : window[n].at # "none" => window[n].from # window[n].to

IInv == TypeOK /\ WindowsLeadOn /\ WorkedForWhomItWasGiven /\ NobodysTask /\ WorkedTask

LEMMA InitInvariant == ASSUME ConstantsOK PROVE Init => IInv
<1>1. SUFFICES ASSUME Init PROVE IInv
  OBVIOUS
<1>2. NoTask \in [status : {"none", "open", "decided"}, offered : BOOLEAN,
                  assignee : Users \cup {None}, standsFor : Users \cup {None},
                  allowedBy : {"owner", "role"}]
  BY DEF NoTask
<1>3. NoWindow \in [at : {"none", "ahead", "open", "over"}, from : Users \cup {None},
                    to : Users \cup {None}, scope : {"ALL", "DOCUMENT_TYPE"}]
  BY DEF NoWindow
<1>4. TypeOK
  BY <1>1, <1>2, <1>3 DEF TypeOK, Init
<1>6. WindowsLeadOn
  BY <1>1 DEF WindowsLeadOn, Init, NoWindow
<1>5. task.assignee = None /\ task.status = "none"
  BY <1>1 DEF Init, NoTask
<1> QED
  BY <1>4, <1>5, <1>6 DEF IInv, WorkedForWhomItWasGiven, NobodysTask, WorkedTask

TaskType == [status : {"none", "open", "decided"}, offered : BOOLEAN,
             assignee : Users \cup {None}, standsFor : Users \cup {None},
             allowedBy : {"owner", "role"}]

\* Whom a window redirects to is somebody else.
LEMMA DelegatesAreOthers ==
  ASSUME TypeOK, WindowsLeadOn, NEW u \in Users
  PROVE  Delegates(u) \subseteq Users \ {u}
<1>1. active \subseteq Users
  BY DEF TypeOK
<1> DEFINE open == {n \in 1..MaxWindows : /\ window[n].at = "open" /\ window[n].from = u
                                          /\ window[n].to \in active}
<1>2. \A n \in open : window[n].to \in Users \ {u}
  BY <1>1 DEF WindowsLeadOn
<1> DEFINE narrow == {n \in open : window[n].scope = "DOCUMENT_TYPE"}
<1> DEFINE best == IF narrow # {} THEN narrow ELSE open
<1>3. best \subseteq open
  OBVIOUS
<1>4. Delegates(u) = {window[n].to : n \in {n \in best : \A m \in best : m <= n}}
  BY DEF Delegates
<1> HIDE DEF best
<1> QED
  BY <1>2, <1>3, <1>4

\* What changes beside the task leaves it and what is said of it.
LEMMA BesideTheTask ==
  ASSUME IInv, UNCHANGED <<task, given>>, TypeOK', WindowsLeadOn'
  PROVE  IInv'
  BY DEF IInv, WorkedForWhomItWasGiven, NobodysTask, WorkedTask

\* An operation on the task leaves windows, accounts and roles.
LEMMA OnTheTask ==
  ASSUME TypeOK, UNCHANGED <<holders, active, window>>,
         WindowsLeadOn, task' \in TaskType, given' \in Users \cup {None}
  PROVE  TypeOK' /\ WindowsLeadOn'
  BY DEF TypeOK, TaskType, WindowsLeadOn

LEMMA NextInvariant == ASSUME ConstantsOK PROVE IInv /\ [Next]_vars => IInv'
<1> SUFFICES ASSUME IInv, [Next]_vars PROVE IInv'
  OBVIOUS
<1> USE DEF Give
<1>0. /\ TypeOK /\ WindowsLeadOn /\ task \in TaskType /\ given \in Users \cup {None}
      /\ Owner \in Users /\ None \notin Users
  BY DEF IInv, TypeOK, TaskType, ConstantsOK
<1>w. window \in [1..MaxWindows -> [at : {"none", "ahead", "open", "over"},
                    from : Users \cup {None}, to : Users \cup {None},
                    scope : {"ALL", "DOCUMENT_TYPE"}]]
  BY <1>0 DEF TypeOK
<1>1. ASSUME NEW n \in 1..MaxWindows, PassWindow(n) PROVE IInv'
  <2>1. PICK at \in {"open", "over"} : window' = [window EXCEPT ![n].at = at]
    BY <1>1 DEF PassWindow
  <2>2. window' \in [1..MaxWindows -> [at : {"none", "ahead", "open", "over"},
                      from : Users \cup {None}, to : Users \cup {None},
                      scope : {"ALL", "DOCUMENT_TYPE"}]]
    BY <2>1, <1>w
  <2>3. TypeOK'
    BY <1>0, <1>1, <2>2 DEF TypeOK, PassWindow, TaskIsLeft
  <2>4. WindowsLeadOn'
    <3> SUFFICES ASSUME NEW m \in 1..MaxWindows, window'[m].at # "none"
                 PROVE  window'[m].from # window'[m].to
      BY DEF WindowsLeadOn
    <3>1. window[n].at # "none"
      BY <1>1 DEF PassWindow
    <3>2. window'[m].from = window[m].from /\ window'[m].to = window[m].to
      BY <2>1, <1>w
    <3>3. window[m].at # "none"
      BY <2>1, <1>w, <3>1
    <3> QED
      BY <1>0, <3>2, <3>3 DEF WindowsLeadOn
  <2> QED
    BY <1>1, <2>3, <2>4, BesideTheTask DEF PassWindow, TaskIsLeft
<1>2. ASSUME NEW n \in 1..MaxWindows, NEW u \in Users, NEW v \in Users,
             NEW scope \in {"ALL", "DOCUMENT_TYPE"}, OpenWindow(n, u, v, scope)
      PROVE  IInv'
  <2>1. PICK at \in {"ahead", "open"} :
          window' = [window EXCEPT ![n] = [at |-> at, from |-> u, to |-> v, scope |-> scope]]
    BY <1>2 DEF OpenWindow
  <2>2. window' \in [1..MaxWindows -> [at : {"none", "ahead", "open", "over"},
                      from : Users \cup {None}, to : Users \cup {None},
                      scope : {"ALL", "DOCUMENT_TYPE"}]]
    BY <2>1, <1>w
  <2>3. TypeOK'
    BY <1>0, <1>2, <2>2 DEF TypeOK, OpenWindow, TaskIsLeft
  <2>4. u # v
    BY <1>2 DEF OpenWindow
  <2>5. WindowsLeadOn'
    BY <1>0, <1>w, <2>1, <2>4 DEF WindowsLeadOn
  <2> QED
    BY <1>2, <2>3, <2>5, BesideTheTask DEF OpenWindow, TaskIsLeft
<1>3. ASSUME NEW u \in Users, ChangeAccount(u) \/ ChangeRole(u) PROVE IInv'
  <2>1. TypeOK'
    BY <1>0, <1>3 DEF TypeOK, ChangeAccount, ChangeRole, TaskIsLeft
  <2>2. WindowsLeadOn'
    BY <1>0, <1>3 DEF WindowsLeadOn, ChangeAccount, ChangeRole
  <2> QED
    BY <1>3, <2>1, <2>2, BesideTheTask DEF ChangeAccount, ChangeRole, TaskIsLeft
<1>4. ASSUME NEW edge \in {"owner", "role"}, RaiseForOwner(edge) PROVE IInv'
  <2> DEFINE to == Delegates(Owner)
  <2>2. to \subseteq Users \ {Owner}
    BY <1>0, DelegatesAreOthers
  <2> HIDE DEF to
  <2>u. UNCHANGED <<holders, active, window>>
    BY <1>4 DEF RaiseForOwner, PeopleAreLeft
  <2>3. CASE to = {}
    <3>1. /\ task' = [status |-> "open", offered |-> FALSE, allowedBy |-> edge,
                      assignee |-> Owner, standsFor |-> None]
          /\ given' = Owner
      BY <1>4, <2>3 DEF RaiseForOwner, to
    <3>2. TypeOK' /\ WindowsLeadOn'
      BY <1>0, <2>u, <3>1, OnTheTask DEF TaskType
    <3> QED
      BY <1>0, <3>1, <3>2 DEF IInv, WorkedForWhomItWasGiven, NobodysTask, WorkedTask
  <2>4. CASE to # {}
    <3> DEFINE v == CHOOSE x \in to : TRUE
    <3>0. v \in to
      BY <2>4
    <3>1. /\ task' = [status |-> "open", offered |-> FALSE, allowedBy |-> edge,
                      assignee |-> v, standsFor |-> Owner]
          /\ given' = Owner
      BY <1>4, <2>4 DEF RaiseForOwner, to
    <3>2. v \in Users /\ v # Owner
      BY <2>2, <3>0
    <3> HIDE DEF v
    <3>3. TypeOK' /\ WindowsLeadOn'
      BY <1>0, <2>u, <3>1, <3>2, OnTheTask DEF TaskType
    <3> QED
      BY <1>0, <3>1, <3>2, <3>3 DEF IInv, WorkedForWhomItWasGiven, NobodysTask, WorkedTask
  <2> QED
    BY <2>3, <2>4
<1>5. ASSUME NEW edge \in {"owner", "role"}, RaiseForRole(edge) PROVE IInv'
  <2>1. task' = [status |-> "open", offered |-> TRUE, allowedBy |-> edge,
                 assignee |-> None, standsFor |-> None] /\ given' = None
    BY <1>5 DEF RaiseForRole
  <2>2. TypeOK' /\ WindowsLeadOn'
    BY <1>0, <1>5, <2>1, OnTheTask DEF TaskType, RaiseForRole, PeopleAreLeft
  <2> QED
    BY <2>1, <2>2 DEF IInv, WorkedForWhomItWasGiven, NobodysTask, WorkedTask
<1>6. ASSUME NEW u \in Users, Claim(u) PROVE IInv'
  <2>1. task' = [task EXCEPT !.assignee = u] /\ given' = u
    BY <1>6 DEF Claim
  <2>2. TypeOK' /\ WindowsLeadOn'
    BY <1>0, <1>6, <2>1, OnTheTask DEF TaskType, Claim, PeopleAreLeft
  <2>3. task.standsFor = None
    BY <1>6 DEF IInv, NobodysTask, Claim
  <2>4. task'.assignee = u /\ task'.standsFor = None
    BY <1>0, <2>1, <2>3 DEF TaskType
  <2> QED
    BY <1>0, <2>1, <2>2, <2>4 DEF IInv, WorkedForWhomItWasGiven, NobodysTask, WorkedTask
<1>7. ASSUME NEW u \in Users, NEW v \in Users, Delegate(u, v) PROVE IInv'
  <2> DEFINE first == IF task.standsFor = None THEN u ELSE task.standsFor
  <2>1. /\ task' = [task EXCEPT !.assignee = v,
                                !.standsFor = IF first = v THEN None ELSE first]
        /\ given' = given
        /\ task.assignee = u
    BY <1>7 DEF Delegate
  <2>2. first = given
    BY <1>0, <2>1 DEF IInv, WorkedForWhomItWasGiven, WorkedTask
  <2>3. TypeOK' /\ WindowsLeadOn'
    BY <1>0, <1>7, <2>1, OnTheTask DEF TaskType, Delegate, PeopleAreLeft
  <2>4. task'.assignee = v /\ task'.standsFor = IF first = v THEN None ELSE first
    BY <1>0, <2>1 DEF TaskType
  <2>5. given # None
    BY <1>0, <2>1 DEF IInv, WorkedTask
  <2> HIDE DEF first
  <2> QED
    BY <1>0, <2>1, <2>2, <2>3, <2>4, <2>5
    DEF IInv, WorkedForWhomItWasGiven, NobodysTask, WorkedTask
<1>8. ASSUME NEW u \in Users, ReassignToUser(u) PROVE IInv'
  <2>1. task' = [task EXCEPT !.assignee = u, !.standsFor = None, !.offered = FALSE]
        /\ given' = u
    BY <1>8 DEF ReassignToUser
  <2>2. TypeOK' /\ WindowsLeadOn'
    BY <1>0, <1>8, <2>1, OnTheTask DEF TaskType, ReassignToUser, PeopleAreLeft
  <2>3. task'.assignee = u /\ task'.standsFor = None
    BY <1>0, <2>1 DEF TaskType
  <2> QED
    BY <1>0, <2>1, <2>2, <2>3 DEF IInv, WorkedForWhomItWasGiven, NobodysTask, WorkedTask
<1>9. ASSUME ReassignToRole PROVE IInv'
  <2>1. task' = [task EXCEPT !.assignee = None, !.standsFor = None, !.offered = TRUE]
        /\ given' = None
    BY <1>9 DEF ReassignToRole
  <2>2. TypeOK' /\ WindowsLeadOn'
    BY <1>0, <1>9, <2>1, OnTheTask DEF TaskType, ReassignToRole, PeopleAreLeft
  <2>3. task'.assignee = None /\ task'.standsFor = None
    BY <1>0, <2>1 DEF TaskType
  <2> QED
    BY <2>1, <2>2, <2>3 DEF IInv, WorkedForWhomItWasGiven, NobodysTask, WorkedTask
<1>10. ASSUME NEW u \in Users, Decide(u) PROVE IInv'
  <2>1. /\ task' = [task EXCEPT !.status = "decided", !.assignee = u]
        /\ given' = IF task.assignee = None THEN u ELSE given
        /\ task.status = "open" /\ task.assignee \in {u, None}
    BY <1>10 DEF Decide
  <2>2. TypeOK' /\ WindowsLeadOn'
    BY <1>0, <1>10, <2>1, OnTheTask DEF TaskType, Decide, PeopleAreLeft
  <2>3. task'.assignee = u /\ task'.standsFor = task.standsFor /\ task'.status = "decided"
    BY <1>0, <2>1 DEF TaskType
  <2> QED
    BY <1>0, <2>1, <2>2, <2>3 DEF IInv, WorkedForWhomItWasGiven, NobodysTask, WorkedTask
<1>11. CASE UNCHANGED vars
  BY <1>11 DEF IInv, TypeOK, WindowsLeadOn, WorkedForWhomItWasGiven, NobodysTask, WorkedTask,
               vars
<1> QED
  BY <1>1, <1>2, <1>3, <1>4, <1>5, <1>6, <1>7, <1>8, <1>9, <1>10, <1>11 DEF Next

(* The strengthened invariant holds, whatever is opened, claimed, handed    *)
(* over and decided in any order.                                          *)
THEOREM Invariance == ASSUME ConstantsOK PROVE Spec => []IInv
  BY InitInvariant, NextInvariant, PTL DEF Spec

(* Every variable of Authority keeps its type, whatever is delegated.      *)
THEOREM TypeCorrect == ASSUME ConstantsOK PROVE Spec => []TypeOK
<1>1. IInv => TypeOK
  BY DEF IInv
<1> QED
  BY <1>1, Invariance, PTL

(* A task is worked for the one it was given to, through any chain of      *)
(* windows and hand-overs (redirect, delegate, decide's on_behalf_of).     *)
THEOREM WorkedForTheirs == ASSUME ConstantsOK PROVE Spec => []WorkedForWhomItWasGiven
<1>1. IInv => WorkedForWhomItWasGiven
  BY DEF IInv
<1> QED
  BY <1>1, Invariance, PTL

-----------------------------------------------------------------------------
(* Governed changes                                                        *)

RecordType == [status : RecordStatuses, deleted : BOOLEAN,
               value : Changes \cup {"first", "direct"}]
Typed(K, R) == K \in [Docs -> {NoChange} \cup ChangeRows] /\ R \in [Records -> RecordType]

IsParked(R, r) == R[r].status = "PENDING_APPROVAL" /\ ~R[r].deleted
IsOpen(K, d) == K[d].state = "open"

\* A record has one open change at most, and a parked one has it; the record goes
\* back to a status that parks nothing.
OneOpen(K) ==
    \A d, e \in Docs : IsOpen(K, d) /\ IsOpen(K, e) /\ K[d].record = K[e].record => d = e
HasOpen(K, R) ==
    \A r \in Records : IsParked(R, r) => \E d \in Docs : IsOpen(K, d) /\ K[d].record = r
GoesBack(K) == \A d \in Docs : IsOpen(K, d) => K[d].previous # "PENDING_APPROVAL"
Present(K, R) == \A d \in Docs : IsOpen(K, d) => IsParked(R, K[d].record)

\* A record carries what it was made with, what was written directly, or an
\* applied change.
Carries(K, R) ==
    \A r \in Records : R[r].value \in Changes =>
        \E d \in Routed : K[d].state = "APPLIED" /\ K[d].record = r

Sound(K, R, n) ==
    /\ Typed(K, R)
    /\ OneOpen(K) /\ HasOpen(K, R) /\ GoesBack(K) /\ Carries(K, R)
    /\ n = 0 => Present(K, R)

\* What a document, its process and its verdict say of its change.
Decided(d, D, c) ==
    /\ D.process # "none" => d \in Routed
    /\ d \in Routed => (c.state = "none" <=> D.process = "none")
    /\ c.state = "APPLIED" <=> D.verdict \in Approving
    /\ c.state = "REFUSED" <=> D.verdict \in Refusing
    /\ d \in Routed /\ c.state = "open" =>
         \/ D.process = "running"
         \/ D.process = "ended" /\ ~(Ends[d] \subseteq Settling)

WritersInv == \A w \in Writers :
    writer[w].at = "transition" => writer[w].status # "PENDING_APPROVAL"

GovernanceIInv ==
    /\ GovernanceTypeOK /\ WritersInv
    /\ Sound(change, record, strays)
    /\ \A d \in Docs : Decided(d, doc[d], change[d])

DocType == [status : Statuses, data : FormData, link : Records,
            process : {"none", "running", "ended"}, verdict : {"none"} \cup Settling]

LEMMA GovernanceInitInvariant == ASSUME GovernanceConstantsOK PROVE GovernanceInit => GovernanceIInv
<1> SUFFICES ASSUME GovernanceInit PROVE GovernanceIInv
  OBVIOUS
<1>1. /\ doc \in [Docs -> DocType]
      /\ \A d \in Docs : doc[d].process = "none" /\ doc[d].verdict = "none"
  BY DEF GovernanceInit, DocType, Statuses
<1>2. record \in [Records -> RecordType]
  BY DEF GovernanceInit, RecordType, RecordStatuses
<1>3. change \in [Docs -> {NoChange} \cup ChangeRows]
  BY DEF GovernanceInit
<1>4. GovernanceTypeOK /\ WritersInv
  BY <1>1, <1>2, <1>3 DEF GovernanceInit, GovernanceTypeOK, WritersInv, DocType, RecordType, NoWrite
<1>5. \A d \in Docs : change[d].state = "none"
  BY DEF GovernanceInit, NoChange
<1>6. \A r \in Records : record[r].status = "DRAFT" /\ record[r].value \notin Changes
  BY DEF GovernanceInit, GovernanceConstantsOK
<1> QED
  BY <1>1, <1>2, <1>3, <1>4, <1>5, <1>6
  DEF GovernanceIInv, Sound, Typed, OneOpen, HasOpen, GoesBack, Carries, Present, Decided, IsOpen, IsParked,
      Approving, Refusing

-----------------------------------------------------------------------------
(* The transaction of a step                                               *)

\* Settling keeps what is said of changes and records, and decides the one of D.
LEMMA SettleKeeps ==
  ASSUME GovernanceConstantsOK, NEW K, NEW R, NEW n, Sound(K, R, n), NEW d \in Docs, NEW D \in DocType,
         IsOpen(K, d) => d \in Routed,
         Settle(K, R, d, D)
  PROVE  /\ Sound(change', record', n)
         /\ \A e \in Docs \ {d} : change'[e] = K[e]
         /\ D.status \notin Settling \/ ~IsOpen(K, d) => change'[d] = K[d]
         /\ D.status \in Approving /\ IsOpen(K, d) => change'[d].state = "APPLIED"
         /\ D.status \in Refusing /\ IsOpen(K, d) => change'[d].state = "REFUSED"
<1> DEFINE r == K[d].record
<1>0. Typed(K, R)
  BY DEF Sound
<1>1. Approving \cap Refusing = {} /\ Settling = Approving \cup Refusing
  BY DEF Approving, Refusing, Settling
<1>2. CASE D.status \notin Settling \/ K[d].state # "open"
  <2>1. change' = K /\ record' = R
    BY <1>1, <1>2 DEF Settle
  <2> QED
    BY <1>1, <1>2, <2>1 DEF IsOpen
<1>3. CASE D.status \in Approving /\ K[d].state = "open"
  <2>1. /\ change' = [K EXCEPT ![d].state = "APPLIED"]
        /\ record' = [R EXCEPT ![r].status = "ACTIVE", ![r].value = D.data]
        /\ IsParked(R, r) /\ D.data \in Changes
    BY <1>1, <1>3 DEF Settle, IsParked
  <2>2. K[d] \in ChangeRows /\ r \in Records
    BY <1>0, <1>3 DEF Typed, NoChange, ChangeRows
  <2>3. change'[d] \in ChangeRows /\ change'[d].state = "APPLIED" /\ change'[d].record = r
    BY <1>0, <2>1, <2>2 DEF Typed, ChangeRows
  <2>4. \A e \in Docs \ {d} : change'[e] = K[e]
    BY <1>0, <2>1 DEF Typed
  <2>5. \A s \in Records \ {r} : record'[s] = R[s]
    BY <1>0, <2>1 DEF Typed
  <2>6. /\ record'[r] \in RecordType /\ record'[r].status = "ACTIVE"
        /\ record'[r].value = D.data
    BY <1>0, <2>1, <2>2 DEF Typed, RecordType, RecordStatuses
  <2> HIDE DEF r
  <2>7. Typed(change', record')
    BY <1>0, <2>1, <2>2, <2>3, <2>4, <2>5, <2>6 DEF Typed
  <2>8. OneOpen(change') /\ GoesBack(change')
    BY <2>3, <2>4 DEF Sound, OneOpen, GoesBack, IsOpen
  <2>9. \A e \in Docs \ {d} : IsOpen(K, e) => K[e].record # r
    BY <1>3 DEF Sound, OneOpen, IsOpen, r
  <2>10. HasOpen(change', record')
    <3> SUFFICES ASSUME NEW s \in Records, IsParked(record', s)
                 PROVE  \E e \in Docs : IsOpen(change', e) /\ change'[e].record = s
      BY DEF HasOpen
    <3>1. s # r
      BY <2>6 DEF IsParked
    <3>2. PICK e \in Docs : IsOpen(K, e) /\ K[e].record = s
      BY <2>5, <3>1 DEF Sound, HasOpen, IsParked
    <3>3. e # d
      BY <3>1, <3>2 DEF r
    <3> QED
      BY <2>4, <3>2, <3>3 DEF IsOpen
  <2>11. n = 0 => Present(change', record')
    BY <1>0, <2>3, <2>4, <2>5, <2>9 DEF Sound, Present, IsOpen, IsParked, Typed, NoChange, ChangeRows
  <2>12. Carries(change', record')
    <3> SUFFICES ASSUME NEW s \in Records, record'[s].value \in Changes
                 PROVE  \E e \in Routed : change'[e].state = "APPLIED" /\ change'[e].record = s
      BY DEF Carries
    <3>1. CASE s = r
      BY <1>3, <2>3, <3>1 DEF IsOpen
    <3>2. CASE s # r
      <4>1. PICK e \in Routed : K[e].state = "APPLIED" /\ K[e].record = s
        BY <2>5, <3>2 DEF Sound, Carries
      <4>2. e \in Docs /\ e # d
        BY <1>3, <4>1 DEF GovernanceConstantsOK
      <4> QED
        BY <2>4, <4>1, <4>2
    <3> QED
      BY <3>1, <3>2
  <2> QED
    BY <1>1, <1>3, <2>3, <2>4, <2>7, <2>8, <2>10, <2>11, <2>12 DEF Sound, IsOpen
<1>4. CASE D.status \in Refusing /\ K[d].state = "open"
  <2>1. /\ change' = [K EXCEPT ![d].state = "REFUSED"]
        /\ record' = IF IsParked(R, r) THEN [R EXCEPT ![r].status = K[d].previous] ELSE R
    BY <1>1, <1>4 DEF Settle, IsParked
  <2>2. K[d] \in ChangeRows /\ r \in Records
    BY <1>0, <1>4 DEF Typed, NoChange, ChangeRows
  <2>3. change'[d] \in ChangeRows /\ change'[d].state = "REFUSED" /\ change'[d].record = r
    BY <1>0, <2>1, <2>2 DEF Typed, ChangeRows
  <2>4. \A e \in Docs \ {d} : change'[e] = K[e]
    BY <1>0, <2>1 DEF Typed
  <2>5. \A s \in Records \ {r} : record'[s] = R[s]
    BY <1>0, <2>1 DEF Typed
  <2>6. K[d].previous \in RecordStatuses /\ K[d].previous # "PENDING_APPROVAL"
    BY <1>4, <2>2 DEF Sound, GoesBack, IsOpen, ChangeRows
  <2>7. record'[r] \in RecordType /\ ~IsParked(record', r) /\ record'[r].value = R[r].value
    BY <1>0, <2>1, <2>2, <2>6 DEF Typed, RecordType, IsParked
  <2> HIDE DEF r
  <2>8. Typed(change', record')
    BY <1>0, <2>1, <2>2, <2>3, <2>4, <2>5, <2>7 DEF Typed
  <2>9. OneOpen(change') /\ GoesBack(change')
    BY <2>3, <2>4 DEF Sound, OneOpen, GoesBack, IsOpen
  <2>10. \A e \in Docs \ {d} : IsOpen(K, e) => K[e].record # r
    BY <1>4 DEF Sound, OneOpen, IsOpen, r
  <2>11. HasOpen(change', record')
    <3> SUFFICES ASSUME NEW s \in Records, IsParked(record', s)
                 PROVE  \E e \in Docs : IsOpen(change', e) /\ change'[e].record = s
      BY DEF HasOpen
    <3>1. s # r
      BY <2>7
    <3>2. PICK e \in Docs : IsOpen(K, e) /\ K[e].record = s
      BY <2>5, <3>1 DEF Sound, HasOpen, IsParked
    <3>3. e # d
      BY <3>1, <3>2 DEF r
    <3> QED
      BY <2>4, <3>2, <3>3 DEF IsOpen
  <2>12. n = 0 => Present(change', record')
    BY <1>0, <2>3, <2>4, <2>5, <2>10 DEF Sound, Present, IsOpen, IsParked, Typed, NoChange, ChangeRows
  <2>13. Carries(change', record')
    <3> SUFFICES ASSUME NEW s \in Records, record'[s].value \in Changes
                 PROVE  \E e \in Routed : change'[e].state = "APPLIED" /\ change'[e].record = s
      BY DEF Carries
    <3>1. R[s].value \in Changes
      BY <2>5, <2>7
    <3>2. PICK e \in Routed : K[e].state = "APPLIED" /\ K[e].record = s
      BY <3>1 DEF Sound, Carries
    <3>3. e \in Docs /\ e # d
      BY <1>4, <3>2 DEF GovernanceConstantsOK
    <3> QED
      BY <2>4, <3>2, <3>3
  <2> QED
    BY <1>1, <1>4, <2>3, <2>4, <2>8, <2>9, <2>11, <2>12, <2>13 DEF Sound, IsOpen
<1> QED
  BY <1>1, <1>2, <1>3, <1>4

\* A step of a process that carries a change leaves it as the process's verdict.
LEMMA EnterKeeps ==
  ASSUME GovernanceConstantsOK, NEW K, NEW R, NEW n, Sound(K, R, n),
         doc \in [Docs -> DocType], NEW d \in Routed,
         K[d].state # "none",
         K[d].state = "APPLIED" <=> doc[d].verdict \in Approving,
         K[d].state = "REFUSED" <=> doc[d].verdict \in Refusing,
         \A e \in Docs \ {d} : Decided(e, doc[e], K[e]),
         Enter(K, R, d, doc[d])
  PROVE  /\ Sound(change', record', n)
         /\ doc' \in [Docs -> DocType]
         /\ \A e \in Docs : Decided(e, doc'[e], change'[e])
<1>0. d \in Docs /\ doc[d] \in DocType
  BY DEF GovernanceConstantsOK
<1>1. PICK ended \in BOOLEAN : \E s \in IF ended THEN Ends[d] ELSE Underway[d] :
        \E first \in (Underway[d] \cap Settling) \cup {s} :
          /\ Settle(K, R, d, [doc[d] EXCEPT !.status = first])
          /\ doc' = [doc EXCEPT ![d] = AtRest(doc[d], ended, s, first)]
  BY DEF Enter
<1>2. PICK s \in IF ended THEN Ends[d] ELSE Underway[d] :
        \E first \in (Underway[d] \cap Settling) \cup {s} :
          /\ Settle(K, R, d, [doc[d] EXCEPT !.status = first])
          /\ doc' = [doc EXCEPT ![d] = AtRest(doc[d], ended, s, first)]
  BY <1>1
<1>3. PICK first \in (Underway[d] \cap Settling) \cup {s} :
          /\ Settle(K, R, d, [doc[d] EXCEPT !.status = first])
          /\ doc' = [doc EXCEPT ![d] = AtRest(doc[d], ended, s, first)]
  BY <1>2
<1> DEFINE D == [doc[d] EXCEPT !.status = first]
           v == IF doc[d].verdict = "none" /\ first \in Settling THEN first ELSE doc[d].verdict
           S == AtRest(doc[d], ended, s, first)
<1>4. s \in Statuses /\ first \in Statuses
  BY <1>2, <1>3 DEF GovernanceConstantsOK
<1>5. D \in DocType /\ D.status = first
  BY <1>0, <1>4 DEF DocType
<1>6. /\ v \in {"none"} \cup Settling
      /\ S \in DocType /\ S.verdict = v
      /\ S.process = IF ended THEN "ended" ELSE "running"
  BY <1>0, <1>4 DEF DocType, AtRest
<1>7. doc' = [doc EXCEPT ![d] = S]
  BY <1>3
<1>8. Settle(K, R, d, D)
  BY <1>3
<1> HIDE DEF D, S
<1>9. /\ Sound(change', record', n)
      /\ \A e \in Docs \ {d} : change'[e] = K[e]
      /\ first \notin Settling \/ ~IsOpen(K, d) => change'[d] = K[d]
      /\ first \in Approving /\ IsOpen(K, d) => change'[d].state = "APPLIED"
      /\ first \in Refusing /\ IsOpen(K, d) => change'[d].state = "REFUSED"
  BY <1>0, <1>5, <1>8, SettleKeeps
<1>10. doc'[d] = S /\ \A e \in Docs \ {d} : doc'[e] = doc[e]
  BY <1>0, <1>7
<1>11. /\ Approving \cap Refusing = {} /\ Settling = Approving \cup Refusing
       /\ "none" \notin Settling
  BY DEF Approving, Refusing, Settling
<1>12. doc[d].verdict \in {"none"} \cup Settling
  BY <1>0 DEF DocType
<1>13. K[d].state \in {"open", "APPLIED", "REFUSED"}
  BY <1>0 DEF Sound, Typed, NoChange, ChangeRows
<1>14. Decided(d, S, change'[d])
  <2>1. CASE first \notin Settling
    <3>1. change'[d] = K[d] /\ v = doc[d].verdict /\ first = s
      BY <1>3, <1>9, <2>1
    <3>2. ended => ~(Ends[d] \subseteq Settling)
      BY <1>2, <2>1, <3>1
    <3> QED
      BY <1>6, <3>1, <3>2 DEF Decided
  <2>2. CASE K[d].state # "open"
    <3>1. change'[d] = K[d] /\ doc[d].verdict \in Settling
      BY <1>9, <1>11, <1>13, <2>2 DEF IsOpen
    <3> QED
      BY <1>6, <1>11, <2>2, <3>1 DEF Decided
  <2>3. CASE first \in Settling /\ K[d].state = "open"
    <3>1. doc[d].verdict = "none" /\ v = first
      BY <1>11, <1>12, <2>3
    <3>2. change'[d].state = IF first \in Approving THEN "APPLIED" ELSE "REFUSED"
      BY <1>9, <1>11, <2>3 DEF IsOpen
    <3> QED
      BY <1>6, <1>11, <2>3, <3>1, <3>2 DEF Decided
  <2> QED
    BY <2>1, <2>2, <2>3
<1> QED
  BY <1>0, <1>6, <1>7, <1>9, <1>10, <1>14

-----------------------------------------------------------------------------
(* The steps                                                               *)

\* A record that changes apart from any change keeps what is said of them: one
\* that is not parked before and after, or whose move counts as a stray.
LEMMA RecordKeeps ==
  ASSUME GovernanceConstantsOK, NEW K, NEW R, NEW n \in Nat, Sound(K, R, n),
         NEW r \in Records, NEW row \in RecordType, NEW m \in Nat,
         row.value \notin Changes \/ row.value = R[r].value,
         IsParked([R EXCEPT ![r] = row], r) => IsParked(R, r),
         m = 0 => n = 0 /\ (IsParked(R, r) => IsParked([R EXCEPT ![r] = row], r))
  PROVE  Sound(K, [R EXCEPT ![r] = row], m)
<1> DEFINE S == [R EXCEPT ![r] = row]
<1>1. Typed(K, S) /\ S[r] = row /\ \A s \in Records \ {r} : S[s] = R[s]
  BY DEF Sound, Typed
<1> HIDE DEF S
<1>2. IsParked(S, r) => IsParked(R, r)
  BY DEF S
<1>3. \A s \in Records : IsParked(S, s) => IsParked(R, s)
  BY <1>1, <1>2 DEF IsParked
<1>4. HasOpen(K, S)
  BY <1>3 DEF Sound, HasOpen
<1>5. Carries(K, S)
  BY <1>1 DEF Sound, Carries
<1>6. ASSUME m = 0 PROVE Present(K, S)
  <2>1. \A s \in Records : IsParked(R, s) => IsParked(S, s)
    BY <1>1, <1>6 DEF IsParked, S
  <2>2. n = 0
    BY <1>6
  <2>3. \A d \in Docs : IsOpen(K, d) => K[d].record \in Records
    BY DEF Sound, Typed, IsOpen, NoChange, ChangeRows
  <2> QED
    BY <2>1, <2>2, <2>3 DEF Sound, Present
<1> QED
  BY <1>1, <1>4, <1>5, <1>6 DEF Sound, S

\* Where the documents' status, data and link change and nothing else.
LEMMA DocumentsKeep ==
  ASSUME GovernanceIInv, doc' \in [Docs -> DocType], DocumentsOnly,
         \A d \in Docs : doc'[d].process = doc[d].process /\ doc'[d].verdict = doc[d].verdict
  PROVE  GovernanceIInv'
<1>1. GovernanceTypeOK' /\ WritersInv'
  BY DEF GovernanceIInv, GovernanceTypeOK, WritersInv, DocumentsOnly, DocType
<1>2. Sound(change', record', strays')
  BY DEF GovernanceIInv, DocumentsOnly
<1>3. \A d \in Docs : Decided(d, doc'[d], change'[d])
  BY DEF GovernanceIInv, DocumentsOnly, Decided
<1> QED
  BY <1>1, <1>2, <1>3 DEF GovernanceIInv

\* Where a transaction changes documents, changes and records.
LEMMA TransactionKeeps ==
  ASSUME GovernanceIInv, doc' \in [Docs -> DocType], Sound(change', record', strays'),
         \A d \in Docs : Decided(d, doc'[d], change'[d]),
         UNCHANGED <<writer, strays>>
  PROVE  GovernanceIInv'
<1>1. Typed(change', record')
  BY DEF Sound
<1>2. GovernanceTypeOK' /\ WritersInv'
  BY <1>1 DEF GovernanceIInv, GovernanceTypeOK, WritersInv, DocType, Typed, RecordType
<1> QED
  BY <1>2 DEF GovernanceIInv

\* Where records and writers change, and no change does.
LEMMA RecordsKeep ==
  ASSUME GovernanceIInv, UNCHANGED <<doc, change>>, Sound(change, record', strays'),
         writer' \in [Writers -> {NoWrite} \cup Direct], WritersInv', strays' \in Nat
  PROVE  GovernanceIInv'
<1>1. Typed(change, record')
  BY DEF Sound
<1>2. GovernanceTypeOK'
  BY <1>1 DEF GovernanceIInv, GovernanceTypeOK, Typed, RecordType
<1> QED
  BY <1>2 DEF GovernanceIInv

LEMMA UpdateDocumentKeeps ==
  ASSUME GovernanceIInv, NEW d \in Docs, UpdateDocument(d) PROVE GovernanceIInv'
<1>1. PICK data \in FormData, r \in Records :
        doc' = [doc EXCEPT ![d].data = data, ![d].link = r]
  BY DEF UpdateDocument
<1>2. doc \in [Docs -> DocType]
  BY DEF GovernanceIInv, GovernanceTypeOK, DocType
<1>3. /\ doc' \in [Docs -> DocType]
      /\ \A e \in Docs : doc'[e].process = doc[e].process /\ doc'[e].verdict = doc[e].verdict
  BY <1>1, <1>2 DEF DocType
<1> QED
  BY <1>3, DocumentsKeep DEF UpdateDocument

LEMMA MoveByHandKeeps ==
  ASSUME GovernanceIInv, NEW d \in Docs, MoveByHand(d) PROVE GovernanceIInv'
<1>1. PICK to \in MayMoveTo(doc[d].status) : doc' = [doc EXCEPT ![d].status = to]
  BY DEF MoveByHand
<1>2. doc \in [Docs -> DocType]
  BY DEF GovernanceIInv, GovernanceTypeOK, DocType
<1>3. to \in Statuses
  BY <1>1 DEF MayMoveTo, Statuses
<1>4. /\ doc' \in [Docs -> DocType]
      /\ \A e \in Docs : doc'[e].process = doc[e].process /\ doc'[e].verdict = doc[e].verdict
  BY <1>1, <1>2, <1>3 DEF DocType
<1> QED
  BY <1>4, DocumentsKeep DEF MoveByHand

LEMMA MoveProcessKeeps ==
  ASSUME GovernanceConstantsOK, GovernanceIInv, NEW d \in Docs, MoveProcess(d) PROVE GovernanceIInv'
<1>1. doc \in [Docs -> DocType]
  BY DEF GovernanceIInv, GovernanceTypeOK, DocType
<1>2. Decided(d, doc[d], change[d])
  BY DEF GovernanceIInv
<1>3. /\ d \in Routed /\ change[d].state # "none"
      /\ change[d].state = "APPLIED" <=> doc[d].verdict \in Approving
      /\ change[d].state = "REFUSED" <=> doc[d].verdict \in Refusing
  BY <1>2 DEF Decided, MoveProcess
<1>4. Sound(change, record, strays) /\ \A e \in Docs \ {d} : Decided(e, doc[e], change[e])
  BY DEF GovernanceIInv
<1>5. /\ Sound(change', record', strays)
      /\ doc' \in [Docs -> DocType]
      /\ \A e \in Docs : Decided(e, doc'[e], change'[e])
  BY <1>1, <1>3, <1>4, EnterKeeps DEF MoveProcess
<1>6. UNCHANGED <<writer, strays>>
  BY DEF MoveProcess
<1> QED
  BY <1>5, <1>6, TransactionKeeps

LEMMA SubmitKeeps ==
  ASSUME GovernanceConstantsOK, GovernanceIInv, NEW d \in Docs, Submit(d) PROVE GovernanceIInv'
<1> DEFINE r == doc[d].link
           K == [change EXCEPT ![d] =
                   [state |-> "open", record |-> r, previous |-> record[r].status]]
           R == [record EXCEPT ![r].status = "PENDING_APPROVAL"]
<1>1. doc \in [Docs -> DocType] /\ r \in Records /\ Typed(change, record)
  BY DEF GovernanceIInv, GovernanceTypeOK, DocType, Sound
<1>2. /\ MayRaise(d) /\ UNCHANGED <<writer, strays>>
      /\ IF d \in Routed THEN Enter(K, R, d, doc[d])
         ELSE doc' = [doc EXCEPT ![d].status = "SUBMITTED"] /\ change' = K /\ record' = R
  BY DEF Submit
<1>3. /\ change[d] = NoChange /\ ~record[r].deleted
      /\ "PENDING_APPROVAL" \in RecordMayMoveTo(record[r].status)
      /\ \A e \in Docs : IsOpen(change, e) => change[e].record # r
  BY <1>2 DEF MayRaise, IsOpen
<1>4. record[r].status \in RecordStatuses \ {"PENDING_APPROVAL"}
  BY <1>1, <1>3 DEF RecordMayMoveTo, Typed, RecordType
<1>5. /\ K[d] = [state |-> "open", record |-> r, previous |-> record[r].status]
      /\ K[d] \in ChangeRows
      /\ \A e \in Docs \ {d} : K[e] = change[e]
      /\ K \in [Docs -> {NoChange} \cup ChangeRows]
  BY <1>1, <1>4 DEF Typed, ChangeRows
<1>6. /\ R[r].status = "PENDING_APPROVAL" /\ R[r].deleted = FALSE
      /\ R[r].value = record[r].value
      /\ \A s \in Records \ {r} : R[s] = record[s]
      /\ R \in [Records -> RecordType]
  BY <1>1, <1>3 DEF Typed, RecordType, RecordStatuses
<1> HIDE DEF K, R
<1>7. Sound(K, R, strays)
  <2>1. OneOpen(K)
    BY <1>3, <1>5 DEF GovernanceIInv, Sound, OneOpen, IsOpen
  <2>2. GoesBack(K)
    BY <1>4, <1>5 DEF GovernanceIInv, Sound, GoesBack, IsOpen
  <2>3. \A e \in Docs : IsOpen(change, e) => e # d
    BY <1>3 DEF IsOpen, NoChange
  <2>4. HasOpen(K, R)
    <3> SUFFICES ASSUME NEW s \in Records, IsParked(R, s)
                 PROVE  \E e \in Docs : IsOpen(K, e) /\ K[e].record = s
      BY DEF HasOpen
    <3>1. CASE s = r
      BY <1>5, <3>1 DEF IsOpen
    <3>2. CASE s # r
      <4>1. IsParked(record, s)
        BY <1>6, <3>2 DEF IsParked
      <4>2. PICK e \in Docs : IsOpen(change, e) /\ change[e].record = s
        BY <4>1 DEF GovernanceIInv, Sound, HasOpen
      <4>3. e # d
        BY <2>3, <4>2
      <4> QED
        BY <1>5, <4>2, <4>3 DEF IsOpen
    <3> QED
      BY <3>1, <3>2
  <2>5. Carries(K, R)
    <3> SUFFICES ASSUME NEW s \in Records, R[s].value \in Changes
                 PROVE  \E e \in Routed : K[e].state = "APPLIED" /\ K[e].record = s
      BY DEF Carries
    <3>1. record[s].value \in Changes
      BY <1>6
    <3>2. PICK e \in Routed : change[e].state = "APPLIED" /\ change[e].record = s
      BY <3>1 DEF GovernanceIInv, Sound, Carries
    <3>3. e \in Docs /\ e # d
      BY <1>3, <3>2 DEF GovernanceConstantsOK, NoChange
    <3> QED
      BY <1>5, <3>2, <3>3
  <2>6. strays = 0 => Present(K, R)
    <3> SUFFICES ASSUME strays = 0, NEW e \in Docs, IsOpen(K, e) PROVE IsParked(R, K[e].record)
      BY DEF Present
    <3>1. CASE e = d
      BY <1>5, <1>6, <3>1 DEF IsParked
    <3>2. CASE e # d
      <4>1. IsOpen(change, e) /\ K[e] = change[e]
        BY <1>5, <3>2 DEF IsOpen
      <4>2. IsParked(record, change[e].record) /\ change[e].record \in Records \ {r}
        BY <1>1, <1>3, <4>1 DEF GovernanceIInv, Sound, Present, Typed, IsOpen, NoChange, ChangeRows
      <4> QED
        BY <1>6, <4>1, <4>2 DEF IsParked
    <3> QED
      BY <3>1, <3>2
  <2> QED
    BY <1>5, <1>6, <2>1, <2>2, <2>4, <2>5, <2>6 DEF Sound, Typed
<1>8. \A e \in Docs \ {d} : Decided(e, doc[e], K[e])
  BY <1>5 DEF GovernanceIInv
<1>9. Decided(d, doc[d], change[d])
  BY DEF GovernanceIInv
<1>10. CASE d \in Routed
  <2>1. /\ K[d].state # "none"
        /\ K[d].state = "APPLIED" <=> doc[d].verdict \in Approving
        /\ K[d].state = "REFUSED" <=> doc[d].verdict \in Refusing
    BY <1>3, <1>5, <1>9 DEF Decided, NoChange
  <2>2. Enter(K, R, d, doc[d])
    BY <1>2, <1>10
  <2>3. /\ Sound(change', record', strays)
        /\ doc' \in [Docs -> DocType]
        /\ \A e \in Docs : Decided(e, doc'[e], change'[e])
    BY <1>1, <1>7, <1>8, <1>10, <2>1, <2>2, EnterKeeps
  <2> QED
    BY <1>2, <2>3, TransactionKeeps
<1>11. CASE d \notin Routed
  <2>1. doc' = [doc EXCEPT ![d].status = "SUBMITTED"] /\ change' = K /\ record' = R
    BY <1>2, <1>11
  <2>2. /\ doc' \in [Docs -> DocType]
        /\ doc'[d].process = doc[d].process /\ doc'[d].verdict = doc[d].verdict
        /\ \A e \in Docs \ {d} : doc'[e] = doc[e]
    BY <1>1, <2>1 DEF DocType, Statuses
  <2>3. doc[d].process = "none"
    BY <1>1, <1>11, <1>9 DEF Decided, DocType
  <2>4. Decided(d, doc'[d], K[d])
    BY <1>3, <1>5, <1>11, <1>9, <2>2, <2>3 DEF Decided, NoChange
  <2>5. \A e \in Docs : Decided(e, doc'[e], change'[e])
    BY <1>8, <2>1, <2>2, <2>4
  <2>6. Sound(change', record', strays')
    BY <1>2, <1>7, <2>1
  <2> QED
    BY <1>2, <2>2, <2>5, <2>6, TransactionKeeps
<1> QED
  BY <1>10, <1>11

LEMMA WriterKeeps ==
  ASSUME GovernanceIInv, NEW w \in Writers, NEW j \in {NoWrite} \cup Direct,
         j.at = "transition" => j.status # "PENDING_APPROVAL",
         writer' = [writer EXCEPT ![w] = j]
  PROVE  writer' \in [Writers -> {NoWrite} \cup Direct] /\ WritersInv'
  BY DEF GovernanceIInv, GovernanceTypeOK, WritersInv

LEMMA IdleIsNothing == NoWrite \in {NoWrite} \cup Direct /\ NoWrite.at # "transition"
  BY DEF NoWrite

LEMMA ReadForUpdateKeeps ==
  ASSUME GovernanceIInv, NEW w \in Writers, NEW r \in Records, ReadForUpdate(w, r) PROVE GovernanceIInv'
<1>1. [at |-> "update", record |-> r] \in {NoWrite} \cup Direct
  BY DEF Direct
<1>2. writer' = [writer EXCEPT ![w] = [at |-> "update", record |-> r]]
  BY DEF ReadForUpdate
<1>3. writer' \in [Writers -> {NoWrite} \cup Direct] /\ WritersInv'
  BY <1>1, <1>2, WriterKeeps
<1>4. Sound(change, record', strays') /\ strays' \in Nat /\ UNCHANGED <<doc, change>>
  BY DEF GovernanceIInv, GovernanceTypeOK, ReadForUpdate, WritersOnly
<1> QED
  BY <1>3, <1>4, RecordsKeep

LEMMA ReadForTransitionKeeps ==
  ASSUME GovernanceIInv, NEW w \in Writers, NEW r \in Records, ReadForTransition(w, r) PROVE GovernanceIInv'
<1> DEFINE j == [at |-> "transition", record |-> r, status |-> record[r].status]
<1>1. record[r].status \in RecordStatuses \ {"PENDING_APPROVAL"}
  BY DEF GovernanceIInv, GovernanceTypeOK, ReadForTransition, Parked
<1>2. j \in {NoWrite} \cup Direct /\ j.status # "PENDING_APPROVAL"
  BY <1>1 DEF Direct
<1>3. writer' = [writer EXCEPT ![w] = j]
  BY DEF ReadForTransition
<1> HIDE DEF j
<1>4. writer' \in [Writers -> {NoWrite} \cup Direct] /\ WritersInv'
  BY <1>2, <1>3, WriterKeeps
<1>5. Sound(change, record', strays') /\ strays' \in Nat /\ UNCHANGED <<doc, change>>
  BY DEF GovernanceIInv, GovernanceTypeOK, ReadForTransition, WritersOnly
<1> QED
  BY <1>4, <1>5, RecordsKeep

LEMMA RefuseKeeps ==
  ASSUME GovernanceIInv, NEW w \in Writers, Refuse(w) PROVE GovernanceIInv'
<1>1. writer' \in [Writers -> {NoWrite} \cup Direct] /\ WritersInv'
  BY IdleIsNothing, WriterKeeps DEF Refuse
<1>2. Sound(change, record', strays') /\ strays' \in Nat /\ UNCHANGED <<doc, change>>
  BY DEF GovernanceIInv, GovernanceTypeOK, Refuse, WritersOnly
<1> QED
  BY <1>1, <1>2, RecordsKeep

LEMMA UpdateRecordKeeps ==
  ASSUME GovernanceConstantsOK, GovernanceIInv, NEW w \in Writers, UpdateRecord(w) PROVE GovernanceIInv'
<1> DEFINE r == writer[w].record
           row == [record[r] EXCEPT !.value = IF record[r].deleted THEN @ ELSE "direct"]
<1>1. writer' \in [Writers -> {NoWrite} \cup Direct] /\ WritersInv'
  BY IdleIsNothing, WriterKeeps DEF UpdateRecord
<1>2. r \in Records
  BY DEF GovernanceIInv, GovernanceTypeOK, UpdateRecord, Direct, NoWrite
<1>3. record \in [Records -> RecordType] /\ strays \in Nat
  BY DEF GovernanceIInv, GovernanceTypeOK, RecordType
<1>4. /\ row \in RecordType
      /\ row.status = record[r].status /\ row.deleted = record[r].deleted
      /\ row.value = "direct" \/ row.value = record[r].value
  BY <1>2, <1>3 DEF RecordType
<1>5. record' = [record EXCEPT ![r] = row]
  BY <1>2, <1>3 DEF UpdateRecord
<1>6. "direct" \notin Changes
  BY DEF GovernanceConstantsOK
<1> HIDE DEF row, r
<1>7. IsParked([record EXCEPT ![r] = row], r) <=> IsParked(record, r)
  BY <1>2, <1>3, <1>4 DEF IsParked
<1>8. Sound(change, record, strays)
  BY DEF GovernanceIInv
<1>9. Sound(change, [record EXCEPT ![r] = row], strays)
  BY <1>2, <1>3, <1>4, <1>6, <1>7, <1>8, RecordKeeps
<1>10. UNCHANGED <<doc, change, strays>>
  BY DEF UpdateRecord, WritersOnly
<1> QED
  BY <1>1, <1>3, <1>5, <1>9, <1>10, RecordsKeep

LEMMA TransitionRecordKeeps ==
  ASSUME GovernanceConstantsOK, GovernanceIInv, NEW w \in Writers, TransitionRecord(w) PROVE GovernanceIInv'
<1> DEFINE r == writer[w].record
<1>1. writer' \in [Writers -> {NoWrite} \cup Direct] /\ WritersInv'
  BY IdleIsNothing, WriterKeeps DEF TransitionRecord
<1>2. r \in Records
  BY DEF GovernanceIInv, GovernanceTypeOK, TransitionRecord, Direct, NoWrite
<1>3. record \in [Records -> RecordType] /\ strays \in Nat /\ Sound(change, record, strays)
  BY DEF GovernanceIInv, GovernanceTypeOK, RecordType
<1>4. UNCHANGED <<doc, change, strays>>
  BY DEF TransitionRecord, WritersOnly
<1>5. CASE record' = record
  BY <1>1, <1>3, <1>4, <1>5, RecordsKeep
<1>6. CASE record[r].status = writer[w].status
           /\ \E to \in RecordMayMoveTo(record[r].status) \ {"PENDING_APPROVAL"} :
                record' = [record EXCEPT ![r].status = to]
  <2>1. PICK to \in RecordMayMoveTo(record[r].status) \ {"PENDING_APPROVAL"} :
          record' = [record EXCEPT ![r].status = to]
    BY <1>6
  <2>2. to \in RecordStatuses
    BY <2>1 DEF RecordMayMoveTo, RecordStatuses
  <2> DEFINE row == [record[r] EXCEPT !.status = to]
  <2>3. row \in RecordType /\ row.value = record[r].value /\ row.status = to
    BY <1>2, <1>3, <2>2 DEF RecordType
  <2>4. record' = [record EXCEPT ![r] = row]
    BY <1>2, <1>3, <2>1
  <2>5. ~IsParked(record, r)
    BY <1>6 DEF GovernanceIInv, WritersInv, TransitionRecord, IsParked
  <2> HIDE DEF row, r
  <2>6. ~IsParked([record EXCEPT ![r] = row], r)
    BY <1>2, <1>3, <2>1, <2>3 DEF IsParked
  <2>7. Sound(change, [record EXCEPT ![r] = row], strays)
    BY <1>2, <1>3, <2>3, <2>5, <2>6, RecordKeeps
  <2> QED
    BY <1>1, <1>3, <1>4, <2>4, <2>7, RecordsKeep
<1> QED
  BY <1>5, <1>6 DEF TransitionRecord

LEMMA DeleteRecordKeeps ==
  ASSUME GovernanceConstantsOK, GovernanceIInv, NEW r \in Records, DeleteRecord(r) PROVE GovernanceIInv'
<1> DEFINE row == [record[r] EXCEPT !.deleted = TRUE]
<1>1. record \in [Records -> RecordType] /\ strays \in Nat /\ Sound(change, record, strays)
  BY DEF GovernanceIInv, GovernanceTypeOK, RecordType
<1>2. row \in RecordType /\ row.value = record[r].value /\ row.deleted = TRUE
  BY <1>1 DEF RecordType
<1>3. record' = [record EXCEPT ![r] = row] /\ UNCHANGED <<doc, change, writer, strays>>
  BY <1>1 DEF DeleteRecord
<1>4. ~IsParked(record, r)
  BY DEF DeleteRecord, Parked, IsParked
<1> HIDE DEF row
<1>5. ~IsParked([record EXCEPT ![r] = row], r)
  BY <1>1, <1>2 DEF IsParked
<1>6. Sound(change, [record EXCEPT ![r] = row], strays)
  BY <1>1, <1>2, <1>4, <1>5, RecordKeeps
<1>7. writer' \in [Writers -> {NoWrite} \cup Direct] /\ WritersInv'
  BY <1>3 DEF GovernanceIInv, GovernanceTypeOK, WritersInv
<1> QED
  BY <1>1, <1>3, <1>6, <1>7, RecordsKeep

LEMMA StrayKeeps ==
  ASSUME GovernanceConstantsOK, GovernanceIInv, NEW r \in Records, Stray(r) PROVE GovernanceIInv'
<1>1. record \in [Records -> RecordType] /\ strays \in Nat /\ Sound(change, record, strays)
  BY DEF GovernanceIInv, GovernanceTypeOK, RecordType
<1>2. strays' = strays + 1 /\ UNCHANGED <<doc, change, writer>> /\ IsParked(record, r)
  BY DEF Stray, Parked, IsParked
<1>3. PICK row \in RecordType : /\ record' = [record EXCEPT ![r] = row]
                                /\ row.value = record[r].value
  <2>1. CASE record' = [record EXCEPT ![r].deleted = TRUE]
    <3>1. [record[r] EXCEPT !.deleted = TRUE] \in RecordType
      BY <1>1 DEF RecordType
    <3> QED
      BY <1>1, <2>1, <3>1 DEF RecordType
  <2>2. CASE \E to \in RecordMayMoveTo("PENDING_APPROVAL") :
               record' = [record EXCEPT ![r].status = to]
    <3>1. PICK to \in RecordMayMoveTo("PENDING_APPROVAL") :
            record' = [record EXCEPT ![r].status = to]
      BY <2>2
    <3>2. to \in RecordStatuses
      BY <3>1 DEF RecordMayMoveTo, RecordStatuses
    <3>3. [record[r] EXCEPT !.status = to] \in RecordType
      BY <1>1, <3>2 DEF RecordType
    <3> QED
      BY <1>1, <3>1, <3>3 DEF RecordType
  <2> QED
    BY <2>1, <2>2 DEF Stray
<1>4. strays + 1 \in Nat /\ strays + 1 # 0
  BY <1>1
<1>5. Sound(change, [record EXCEPT ![r] = row], strays + 1)
  BY <1>1, <1>2, <1>3, <1>4, RecordKeeps
<1>6. writer' \in [Writers -> {NoWrite} \cup Direct] /\ WritersInv'
  BY <1>2 DEF GovernanceIInv, GovernanceTypeOK, WritersInv
<1> QED
  BY <1>2, <1>3, <1>4, <1>5, <1>6, RecordsKeep

LEMMA GovernanceNextInvariant == ASSUME GovernanceConstantsOK PROVE GovernanceIInv /\ [GovernanceNext]_governanceVars => GovernanceIInv'
<1> SUFFICES ASSUME GovernanceIInv, [GovernanceNext]_governanceVars PROVE GovernanceIInv'
  OBVIOUS
<1>1. CASE UNCHANGED governanceVars
  BY <1>1 DEF governanceVars, GovernanceIInv, GovernanceTypeOK, WritersInv
<1>2. CASE GovernanceNext
  BY <1>2, UpdateDocumentKeeps, SubmitKeeps, MoveProcessKeeps, MoveByHandKeeps,
     ReadForUpdateKeeps, ReadForTransitionKeeps, UpdateRecordKeeps, TransitionRecordKeeps,
     RefuseKeeps, DeleteRecordKeeps, StrayKeeps DEF GovernanceNext
<1> QED
  BY <1>1, <1>2

-----------------------------------------------------------------------------
(* The theorems                                                            *)

(* The strengthened invariant holds, whatever is submitted, decided,       *)
(* written directly, deleted or moved by something else, and whatever      *)
(* statuses the states of a definition map to (enter, submit, settle).     *)
THEOREM GovernanceInvariance == ASSUME GovernanceConstantsOK PROVE GovernanceSpec => []GovernanceIInv
  BY GovernanceInitInvariant, GovernanceNextInvariant, PTL DEF GovernanceSpec

(* Every variable of Governance keeps its type.                            *)
THEOREM GovernanceTypeCorrect == ASSUME GovernanceConstantsOK PROVE GovernanceSpec => []GovernanceTypeOK
<1>1. GovernanceIInv => GovernanceTypeOK
  BY DEF GovernanceIInv
<1> QED
  BY <1>1, GovernanceInvariance, PTL

(* A parked record waits for exactly one change, of a process that can     *)
(* still decide it or one that a definition with an end that settles       *)
(* nothing has left undecided (raise and settle in the transactions of     *)
(* submit and enter).                                                      *)
THEOREM ParkedForOne == ASSUME GovernanceConstantsOK PROVE GovernanceSpec => []ParkedForOneChange
<1>1. ASSUME GovernanceIInv PROVE ParkedForOneChange
  <2>1. ASSUME NEW r \in Records, Parked(r)
        PROVE  Cardinality({d \in Docs : change[d].state = "open" /\ change[d].record = r}) = 1
    <3>1. PICK d \in Docs : change[d].state = "open" /\ change[d].record = r
      BY <1>1, <2>1 DEF GovernanceIInv, Sound, HasOpen, IsOpen, IsParked, Parked
    <3>2. {e \in Docs : change[e].state = "open" /\ change[e].record = r} = {d}
      BY <1>1, <3>1 DEF GovernanceIInv, Sound, OneOpen, IsOpen
    <3> QED
      BY <3>2, FS_Singleton
  <2>2. ASSUME NEW d \in Docs, change[d].state = "open"
        PROVE  /\ d \in Routed => \/ doc[d].process = "running"
                                  \/ doc[d].process = "ended" /\ ~(Ends[d] \subseteq Settling)
               /\ strays = 0 => Parked(change[d].record)
    BY <1>1, <2>2 DEF GovernanceIInv, Decided, Sound, Present, IsOpen, IsParked, Parked
  <2> QED
    BY <2>1, <2>2 DEF ParkedForOneChange
<1> QED
  BY <1>1, GovernanceInvariance, PTL

(* A change is as the first verdict of its process says, and open until    *)
(* there is one; no record carries a change that was not approved (settle  *)
(* and moved_on).                                                          *)
THEOREM DecidedAlike == ASSUME GovernanceConstantsOK PROVE GovernanceSpec => []DecisionIsSettled
<1>1. GovernanceIInv => DecisionIsSettled
  BY DEF GovernanceIInv, Decided, Sound, Carries, DecisionIsSettled
<1> QED
  BY <1>1, GovernanceInvariance, PTL

(* Changes to governed records are settled, by any definition: a parked    *)
(* record waits for one change, which the first verdict of its process     *)
(* decides once and for all (raise, settle).                               *)
THEOREM ChangesSettled ==
  ASSUME GovernanceConstantsOK
  PROVE  GovernanceSpec => []ChangesAreSettled
BY ParkedForOne, DecidedAlike, PTL DEF ChangesAreSettled

-----------------------------------------------------------------------------
(* After-hooks                                                             *)

HookRows == [at : 0..MaxNow, id : 0..MaxRuns, error : BOOLEAN]
Deliveries == [at : {"idle", "chain", "ran", "failed", "done"}, began : 0..MaxNow,
               wrote : SUBSET HookRows, tells : BOOLEAN]

-----------------------------------------------------------------------------
(* Rows in their order, which ids that differ make total                   *)

Distinct(L) == IsFiniteSet(L) /\ L \subseteq HookRows /\ \A a, b \in L : a.id = b.id => a = b
Rank(L, a) == Cardinality({b \in L : Older(a, b)})
Top(L, n) == {a \in L : Rank(L, a) < n}

LEMMA OlderIsAnOrder ==
  ASSUME HooksConstantsOK, NEW L, Distinct(L), NEW a \in L, NEW b \in L, NEW c \in L
  PROVE  /\ ~Older(a, a)
         /\ Older(a, b) /\ Older(b, c) => Older(a, c)
         /\ a = b \/ Older(a, b) \/ Older(b, a)
         /\ ~(Older(a, b) /\ Older(b, a))
<1>1. /\ a.at \in Nat /\ b.at \in Nat /\ c.at \in Nat
      /\ a.id \in Nat /\ b.id \in Nat /\ c.id \in Nat
  BY DEF Distinct, HookRows, HooksConstantsOK
<1>2. a.id = b.id => a = b
  BY DEF Distinct
<1> QED
  BY <1>1, <1>2 DEF Older

\* A row has a rank of its own among finitely many, and the newer the lower.
LEMMA Ranks ==
  ASSUME HooksConstantsOK, NEW L, Distinct(L), NEW a \in L, NEW b \in L
  PROVE  /\ Cardinality(L) \in Nat /\ Rank(L, a) \in 0..(Cardinality(L) - 1)
         /\ Older(a, b) => Rank(L, b) < Rank(L, a)
         /\ Rank(L, a) = Rank(L, b) => a = b
         /\ Rank(L, b) < Rank(L, a) => Older(a, b)
<1> DEFINE Newer(x) == {y \in L : Older(x, y)}
<1>1. IsFiniteSet(L) /\ Cardinality(L) \in Nat
  BY FS_CardinalityType DEF Distinct
<1>2. ASSUME NEW x \in L
      PROVE  Rank(L, x) \in 0..(Cardinality(L) - 1)
  <2>1. Newer(x) \subseteq L \ {x}
    BY OlderIsAnOrder
  <2>2. IsFiniteSet(L \ {x}) /\ Cardinality(L \ {x}) = Cardinality(L) - 1
    BY <1>1, FS_RemoveElement
  <2>3. Cardinality(Newer(x)) <= Cardinality(L \ {x}) /\ Cardinality(Newer(x)) \in Nat
    BY <2>1, <2>2, FS_Subset, FS_CardinalityType
  <2> QED
    BY <1>1, <2>2, <2>3 DEF Rank
<1>3. ASSUME NEW x \in L, NEW y \in L, Older(x, y)
      PROVE  Rank(L, y) < Rank(L, x)
  <2>1. Newer(y) \subseteq Newer(x) /\ y \notin Newer(y) /\ y \in Newer(x)
    BY <1>3, OlderIsAnOrder
  <2>2. IsFiniteSet(Newer(x)) /\ IsFiniteSet(Newer(y))
    BY <1>1, FS_Subset
  <2>3. Cardinality(Newer(y)) <= Cardinality(Newer(x))
        /\ (Cardinality(Newer(x)) = Cardinality(Newer(y)) => Newer(x) = Newer(y))
    BY <2>1, <2>2, FS_Subset
  <2>4. Cardinality(Newer(x)) \in Nat /\ Cardinality(Newer(y)) \in Nat
    BY <2>2, FS_CardinalityType
  <2> QED
    BY <2>1, <2>3, <2>4 DEF Rank
<1>4. a = b \/ Older(a, b) \/ Older(b, a)
  BY OlderIsAnOrder
<1>5. Rank(L, a) \in Nat /\ Rank(L, b) \in Nat
  BY <1>1, <1>2
<1>6. Older(a, b) => Rank(L, b) < Rank(L, a)
  BY <1>3
<1>7. Older(b, a) => Rank(L, a) < Rank(L, b)
  BY <1>3
<1> QED
  BY <1>1, <1>2, <1>4, <1>5, <1>6, <1>7

\* The newest n rows are n, if there are so many.
LEMMA TopCount ==
  ASSUME HooksConstantsOK, NEW L, Distinct(L), NEW n \in Nat, n <= Cardinality(L)
  PROVE  IsFiniteSet(Top(L, n)) /\ Cardinality(Top(L, n)) = n
<1> DEFINE f == [a \in L |-> Rank(L, a)]
           all == 0..(Cardinality(L) - 1)
           g == [a \in Top(L, n) |-> Rank(L, a)]
<1>1. IsFiniteSet(L) /\ Cardinality(L) \in Nat
  BY FS_CardinalityType DEF Distinct
<1>2. f \in Injection(L, all)
  <2>1. \A a \in L : Rank(L, a) \in all
    BY Ranks
  <2>2. \A a, b \in L : Rank(L, a) = Rank(L, b) => a = b
    BY Ranks
  <2> QED
    BY <2>1, <2>2 DEF Injection, IsInjective
<1>3. IsFiniteSet(all) /\ Cardinality(all) = Cardinality(L)
  <2>1. \A m \in Int : IsFiniteSet(0..m) /\ Cardinality(0..m) = IF 0 > m THEN 0 ELSE m - 0 + 1
    BY FS_Interval
  <2>2. Cardinality(L) - 1 \in Int
    BY <1>1
  <2> HIDE DEF f, g
  <2> QED
    BY <1>1, <2>1, <2>2
<1>4. f \in Surjection(L, all)
  BY <1>2, <1>3, FS_Injection
<1>5. IsFiniteSet(Top(L, n))
  BY <1>1, FS_Subset DEF Top
<1>6. g \in Bijection(Top(L, n), 0..(n - 1))
  <2>1. \A a \in Top(L, n) : a \in L /\ Rank(L, a) \in 0..(n - 1)
    BY <1>1, Ranks DEF Top
  <2>2. \A a, b \in Top(L, n) : Rank(L, a) = Rank(L, b) => a = b
    BY <2>1, Ranks
  <2>3. \A k \in 0..(n - 1) : \E a \in Top(L, n) : Rank(L, a) = k
    <3> SUFFICES ASSUME NEW k \in 0..(n - 1) PROVE \E a \in Top(L, n) : Rank(L, a) = k
      OBVIOUS
    <3>1. k \in all /\ k < n
      BY <1>1
    <3>2. \E a \in L : f[a] = k
      BY <1>4, <3>1 DEF Surjection
    <3>3. PICK a \in L : Rank(L, a) = k
      BY <3>2
    <3> QED
      BY <3>1, <3>3 DEF Top
  <2>4. g \in [Top(L, n) -> 0..(n - 1)]
    BY <2>1
  <2> QED
    BY <2>2, <2>3, <2>4 DEF Bijection, Injection, Surjection, IsInjective
<1>7. Cardinality(0..(n - 1)) = n
  BY FS_Interval
<1> QED
  BY <1>5, <1>6, <1>7, FS_Bijection DEF ExistsBijection

\* Where there are rows, one is the newest.
LEMMA NewestIsThere ==
  ASSUME HooksConstantsOK, NEW L, Distinct(L), L # {}
  PROVE  Newest(L) \in L
<1>1. Cardinality(L) \in Nat /\ Cardinality(L) # 0
  BY FS_CardinalityType, FS_EmptySet DEF Distinct
<1>2. Cardinality(Top(L, 1)) = 1 /\ IsFiniteSet(Top(L, 1))
  BY <1>1, TopCount
<1>3. PICK a : a \in Top(L, 1)
  BY <1>2, FS_EmptySet
<1>4. a \in L /\ Rank(L, a) = 0
  BY <1>1, <1>3, Ranks DEF Top
<1>5. \A b \in L : b = a \/ Older(b, a)
  <2> SUFFICES ASSUME NEW b \in L PROVE b = a \/ Older(b, a)
    OBVIOUS
  <2>1. Rank(L, b) \in Nat /\ (Older(a, b) => Rank(L, b) < Rank(L, a))
    BY <1>1, <1>4, Ranks
  <2> QED
    BY <1>4, <2>1, OlderIsAnOrder
<1> QED
  BY <1>4, <1>5 DEF Newest

-----------------------------------------------------------------------------
(* The invariant                                                           *)

\* What each replica has written is one row of its own, stamped with the start
\* of its transaction; ids are not used twice.
RowsInv ==
    /\ IsFiniteSet(log) /\ worker \in [Workers -> Deliveries]
    /\ \A a \in log : a.at <= now /\ a.id < issued
    /\ \A a, b \in log : a.id = b.id => a = b
    /\ \A w \in Workers :
        /\ worker[w].began <= now
        /\ worker[w].at \in {"idle", "chain", "ran"} => worker[w].wrote = {}
        /\ worker[w].at = "failed" => \E r \in HookRows : worker[w].wrote = {r} /\ r.error
        /\ worker[w].at = "done" =>
             worker[w].wrote = {} \/ \E r \in HookRows : worker[w].wrote = {r}
        /\ worker[w].at # "done" => ~worker[w].tells
        /\ \A r \in worker[w].wrote :
             /\ r.at = worker[w].began /\ r.id < issued
             /\ \A a \in log : a.id # r.id
             /\ \A v \in Workers : \A s \in worker[v].wrote : v # w => s.id # r.id

\* While all rows since t are failures, those of one cool-down from t and the
\* replicas that are past the breaker in it are no more than open it and one
\* of each other replica.
Within(t) == {a \in log : t <= a.at /\ a.at < t + CoolDown}
Trying(t) ==
    {w \in Workers : /\ worker[w].at = "ran" \/ worker[w].wrote # {}
                     /\ t <= worker[w].began /\ worker[w].began < t + CoolDown}
AloneInv ==
    \A t \in 0..MaxNow :
        kind = "after" /\ (\A a \in log : a.at >= t => a.error) =>
            Cardinality(Within(t)) + Cardinality(Trying(t)) <= Threshold + Cardinality(Workers) - 1

\* The failures in a row that end with the newest of L.
Streak(L) == {b \in L : \A c \in L : Older(b, c) \/ b = c => c.error}
Opens(L) == Cardinality(Streak(L)) = Threshold

\* While deliveries follow one another, the one there is writes behind the log.
ToldInv ==
    ~overlapped =>
        /\ told = Cardinality(Openings)
        /\ \A v, w \in Workers : worker[v].at # "idle" /\ worker[w].at # "idle" => v = w
        /\ \A w \in Workers : worker[w].at # "idle" =>
             \A a \in log : /\ a.at <= worker[w].began
                            /\ \A r \in worker[w].wrote : a.id < r.id
        /\ \A w \in Workers : worker[w].at = "done" =>
             (worker[w].tells <=> worker[w].wrote # {} /\ Opens(log \cup worker[w].wrote))

HooksIInv == HooksTypeOK /\ RowsInv /\ AloneInv /\ ToldInv

LEMMA HooksInitInvariant == ASSUME HooksConstantsOK PROVE HooksInit => HooksIInv
<1> SUFFICES ASSUME HooksInit PROVE HooksIInv
  OBVIOUS
<1>1. /\ now = 0 /\ log = {} /\ told = 0 /\ issued = 0 /\ overlapped = FALSE
      /\ kind \in {"after", "before"} /\ worker = [w \in Workers |-> NoDelivery]
  BY DEF HooksInit
<1>2. /\ MaxNow \in Nat /\ MaxRuns \in Nat /\ Threshold \in Nat \ {0}
      /\ IsFiniteSet(Workers) /\ Cardinality(Workers) \in Nat
  BY FS_CardinalityType DEF HooksConstantsOK
<1>3. HooksTypeOK
  <2>1. now \in 0..MaxNow /\ issued \in 0..MaxRuns /\ told \in Nat
    BY <1>1, <1>2
  <2>2. overlapped \in BOOLEAN /\ log \subseteq HookRows
    BY <1>1
  <2> QED
    BY <1>1, <2>1, <2>2 DEF HooksTypeOK, HookRows
<1>4. NoDelivery \in Deliveries
  BY <1>2 DEF NoDelivery, Deliveries
<1>5. RowsInv
  BY <1>1, <1>4, FS_EmptySet DEF RowsInv, NoDelivery
<1>6. AloneInv
  <2>1. \A t \in 0..MaxNow : Within(t) = {} /\ Trying(t) = {}
    BY <1>1 DEF Within, Trying, NoDelivery
  <2>2. Cardinality({}) = 0
    BY FS_EmptySet
  <2> QED
    BY <1>2, <2>1, <2>2 DEF AloneInv
<1>7. ToldInv
  <2>1. Openings = {}
    BY <1>1 DEF Openings
  <2> QED
    BY <1>1, <2>1, FS_EmptySet DEF ToldInv, NoDelivery
<1> QED
  BY <1>3, <1>5, <1>6, <1>7 DEF HooksIInv

-----------------------------------------------------------------------------
(* The rows                                                                *)

\* A replica moves and the log stays: what it has written is what it had, or
\* one row with the next id.
LEMMA MovedRows ==
  ASSUME HooksConstantsOK, HooksTypeOK, RowsInv, NEW w \in Workers, NEW to \in Deliveries,
         Move(w, to), UNCHANGED <<now, log>>, issued' \in Nat, issued <= issued',
         to.began <= now,
         to.at \in {"idle", "chain", "ran"} => to.wrote = {},
         to.at = "failed" => \E r \in HookRows : to.wrote = {r} /\ r.error,
         to.at = "done" => to.wrote = {} \/ \E r \in HookRows : to.wrote = {r},
         to.at # "done" => ~to.tells,
         \A r \in to.wrote :
           /\ r.at = to.began
           /\ r \in worker[w].wrote \/ (r.id = issued /\ issued < issued')
  PROVE  RowsInv'
<1>1. /\ worker' = [worker EXCEPT ![w] = to] /\ worker \in [Workers -> Deliveries]
      /\ now' = now /\ log' = log /\ IsFiniteSet(log)
  BY DEF Move, RowsInv
<1>2. worker'[w] = to /\ \A v \in Workers : v # w => worker'[v] = worker[v]
  BY <1>1
<1>3. worker' \in [Workers -> Deliveries]
  BY <1>1
<1>4. issued \in Nat /\ log \subseteq HookRows
  BY DEF HooksTypeOK, HooksConstantsOK, HookRows
<1>5. \A v \in Workers : worker[v].wrote \subseteq HookRows /\ to.wrote \subseteq HookRows
  BY <1>1 DEF Deliveries
<1>6. \A r \in HookRows : r.id \in Nat
  BY DEF HookRows, HooksConstantsOK
<1>7. \A a \in log' : a.at <= now' /\ a.id < issued'
  BY <1>1, <1>4, <1>6 DEF RowsInv
<1>8. \A a, b \in log' : a.id = b.id => a = b
  BY <1>1 DEF RowsInv
<1>9. ASSUME NEW v \in Workers
      PROVE  /\ worker'[v].began <= now'
             /\ worker'[v].at \in {"idle", "chain", "ran"} => worker'[v].wrote = {}
             /\ worker'[v].at = "failed" => \E r \in HookRows : worker'[v].wrote = {r} /\ r.error
             /\ worker'[v].at = "done" =>
                  worker'[v].wrote = {} \/ \E r \in HookRows : worker'[v].wrote = {r}
             /\ worker'[v].at # "done" => ~worker'[v].tells
  <2>1. CASE v = w
    BY <1>1, <1>2, <2>1
  <2>2. CASE v # w
    BY <1>1, <1>2, <2>2 DEF RowsInv
  <2> QED
    BY <2>1, <2>2
\* An id is from before this step, or new.
<1>10. ASSUME NEW v \in Workers, NEW r \in worker'[v].wrote
       PROVE  /\ r \in HookRows
              /\ r.at = worker'[v].began
              /\ r \in worker[v].wrote \/ (v = w /\ r.id = issued /\ issued < issued')
  BY <1>1, <1>2, <1>5 DEF RowsInv
<1>11. ASSUME NEW v \in Workers, NEW r \in worker'[v].wrote
       PROVE  r.id < issued' /\ \A a \in log' : a.id # r.id
  <2>1. CASE r \in worker[v].wrote
    <3>1. r.id < issued /\ \A a \in log : a.id # r.id
      BY <2>1 DEF RowsInv
    <3> QED
      BY <1>1, <1>4, <1>6, <1>10, <3>1
  <2>2. CASE r.id = issued /\ issued < issued'
    <3>1. \A a \in log : a.id < issued /\ a.id \in Nat
      BY <1>4, <1>6 DEF RowsInv
    <3> QED
      BY <1>1, <1>4, <2>2, <3>1
  <2> QED
    BY <1>10, <2>1, <2>2
<1>12. ASSUME NEW v \in Workers, NEW u \in Workers, v # u,
              NEW r \in worker'[v].wrote, NEW s \in worker'[u].wrote
       PROVE  s.id # r.id
  <2>1. \A x \in Workers : \A q \in worker[x].wrote : q.id < issued /\ q.id \in Nat
    BY <1>5, <1>6 DEF RowsInv
  <2>2. CASE r \in worker[v].wrote /\ s \in worker[u].wrote
    BY <1>12, <2>2 DEF RowsInv
  <2>3. CASE r \notin worker[v].wrote
    <3>1. v = w /\ r.id = issued /\ s \in worker[u].wrote
      BY <1>10, <1>12, <2>3
    <3> QED
      BY <1>4, <2>1, <3>1
  <2>4. CASE s \notin worker[u].wrote
    <3>1. u = w /\ s.id = issued /\ r \in worker[v].wrote
      BY <1>10, <1>12, <2>4
    <3> QED
      BY <1>4, <2>1, <3>1
  <2> QED
    BY <2>2, <2>3, <2>4
<1> QED
  BY <1>1, <1>3, <1>7, <1>8, <1>9, <1>10, <1>11, <1>12 DEF RowsInv

\* The log and what one replica has written are rows in an order.
LEMMA SeenIsDistinct ==
  ASSUME HooksConstantsOK, HooksTypeOK, RowsInv, NEW w \in Workers
  PROVE  Distinct(log) /\ Distinct(log \cup worker[w].wrote) /\ IsFiniteSet(worker[w].wrote)
<1>1. log \subseteq HookRows /\ worker[w] \in Deliveries /\ IsFiniteSet(log)
  BY DEF HooksTypeOK, RowsInv, HookRows
<1>2. worker[w].wrote \subseteq HookRows
        /\ (worker[w].wrote = {} \/ \E r : worker[w].wrote = {r})
  BY <1>1 DEF Deliveries, RowsInv
<1>3. IsFiniteSet(worker[w].wrote)
  BY <1>2, FS_EmptySet, FS_Singleton
<1>4. IsFiniteSet(log \cup worker[w].wrote)
  BY <1>1, <1>3, FS_Union
<1>5. \A a, b \in log : a.id = b.id => a = b
  BY DEF RowsInv
<1>6. \A a, b \in log \cup worker[w].wrote : a.id = b.id => a = b
  BY <1>2, <1>5 DEF RowsInv
<1> QED
  BY <1>1, <1>2, <1>3, <1>4, <1>5, <1>6 DEF Distinct

\* The breaker lets a replica through only while fewer than Threshold rows
\* since t are there, if those are all failures and none has cooled.
LEMMA BreakerLetsFew ==
  ASSUME HooksConstantsOK, HooksTypeOK, RowsInv, NEW w \in Workers,
         worker[w].at = "chain", ~BreakerIsOpen(w), NEW t \in 0..MaxNow,
         \A a \in log : a.at >= t => a.error,
         t <= worker[w].began, worker[w].began < t + CoolDown
  PROVE  Cardinality(Within(t)) < Threshold
<1> DEFINE since == {a \in log : a.at >= t}
           last == Top(log, Threshold)
<1>1. /\ Threshold \in Nat \ {0} /\ CoolDown \in Nat \ {0} /\ t \in Nat
      /\ worker[w].began \in Nat
  BY DEF HooksConstantsOK, RowsInv, Deliveries
<1>2. worker[w].wrote = {} /\ log \cup {} = log
  BY DEF RowsInv
<1>3. Distinct(log) /\ IsFiniteSet(log) /\ log \subseteq HookRows
  BY SeenIsDistinct DEF Distinct
<1>4. \A a \in log : a.at \in Nat /\ a.error \in BOOLEAN
  BY <1>3 DEF HookRows, HooksConstantsOK
<1>5. /\ IsFiniteSet(since) /\ Within(t) \subseteq since
      /\ Cardinality(since) \in Nat /\ Cardinality(Within(t)) <= Cardinality(since)
      /\ Cardinality(Within(t)) \in Nat /\ Cardinality(since) <= Cardinality(log)
      /\ Cardinality(log) \in Nat
  <2>1. since \subseteq log /\ Within(t) \subseteq since
    BY <1>1, <1>4 DEF Within
  <2>2. IsFiniteSet(since) /\ IsFiniteSet(Within(t))
    BY <1>3, <2>1, FS_Subset
  <2> QED
    BY <1>3, <2>1, <2>2, FS_Subset, FS_CardinalityType
<1>6. CASE Cardinality(since) < Threshold
  BY <1>1, <1>5, <1>6
<1>7. CASE Cardinality(since) >= Threshold
  <2>1. IsFiniteSet(last) /\ Cardinality(last) = Threshold /\ last \subseteq log
    BY <1>1, <1>3, <1>5, <1>7, TopCount DEF Top
  <2>2. last \subseteq since
    <3> SUFFICES ASSUME NEW a \in log, a \notin since, a \in last PROVE FALSE
      BY <2>1
    <3>1. since \subseteq {b \in log : Older(a, b)}
      BY <1>1, <1>4 DEF Older
    <3>2. IsFiniteSet({b \in log : Older(a, b)})
      BY <1>3, FS_Subset
    <3>3. Cardinality(since) <= Rank(log, a) /\ Rank(log, a) \in Nat
      BY <3>1, <3>2, FS_Subset, FS_CardinalityType DEF Rank
    <3>4. Rank(log, a) < Threshold
      BY DEF Top
    <3> QED
      BY <1>1, <1>5, <1>7, <3>3, <3>4
  <2>3. Recent(w, Threshold) = last
    BY <1>2 DEF Recent, Top, Rank
  <2>4. AllFailed(last)
    BY <1>4, <2>1, <2>2 DEF AllFailed
  <2>5. Newest(last) \in since
    <3>1. last # {}
      BY <1>1, <2>1, FS_EmptySet
    <3>2. Distinct(last)
      BY <1>3, <2>1 DEF Distinct
    <3> QED
      BY <2>2, <3>1, <3>2, NewestIsThere
  <2>6. ~Cooled(w, Newest(last))
    <3>1. Newest(last).at \in Nat /\ Newest(last).at >= t
      BY <1>4, <2>5
    <3> QED
      BY <1>1, <3>1 DEF Cooled
  <2> QED
    BY <2>3, <2>4, <2>6 DEF BreakerIsOpen
<1> QED
  BY <1>1, <1>5, <1>6, <1>7

\* Counting those that try.
LEMMA TryingIsCounted ==
  ASSUME HooksConstantsOK, HooksTypeOK, RowsInv, NEW t \in 0..MaxNow
  PROVE  /\ IsFiniteSet(Trying(t)) /\ Cardinality(Trying(t)) \in Nat
         /\ Cardinality(Trying(t)) <= Cardinality(Workers) /\ Cardinality(Workers) \in Nat
         /\ IsFiniteSet(Within(t)) /\ Cardinality(Within(t)) \in Nat
         /\ Threshold \in Nat \ {0}
<1>1. IsFiniteSet(Workers) /\ Trying(t) \subseteq Workers
  BY DEF HooksConstantsOK, Trying
<1>2. IsFiniteSet(log) /\ Within(t) \subseteq log
  BY DEF RowsInv, Within
<1>3. IsFiniteSet(Trying(t)) /\ Cardinality(Trying(t)) <= Cardinality(Workers)
  BY <1>1, FS_Subset
<1>4. IsFiniteSet(Within(t))
  BY <1>2, FS_Subset
<1> QED
  BY <1>1, <1>3, <1>4, FS_CardinalityType DEF HooksConstantsOK

\* Nobody new tries, and the log stays.
LEMMA AloneKept ==
  ASSUME HooksConstantsOK, HooksTypeOK, RowsInv, HooksTypeOK', RowsInv', AloneInv,
         UNCHANGED <<kind, log>>,
         kind = "after" => \A t \in 0..MaxNow : Trying(t)' \subseteq Trying(t)
  PROVE  AloneInv'
<1> SUFFICES ASSUME NEW t \in 0..MaxNow, kind' = "after", \A a \in log' : a.at >= t => a.error
             PROVE  Cardinality(Within(t)') + Cardinality(Trying(t)')
                      <= Threshold + Cardinality(Workers) - 1
  BY DEF AloneInv
<1>1. Within(t)' = Within(t) /\ Trying(t)' \subseteq Trying(t)
  BY DEF Within
<1>2. Cardinality(Within(t)) + Cardinality(Trying(t)) <= Threshold + Cardinality(Workers) - 1
  BY DEF AloneInv
<1>3. /\ IsFiniteSet(Trying(t)) /\ Cardinality(Trying(t)) \in Nat
      /\ Cardinality(Workers) \in Nat /\ Cardinality(Within(t)) \in Nat /\ Threshold \in Nat
  BY TryingIsCounted
<1>4. Cardinality(Trying(t)') <= Cardinality(Trying(t)) /\ Cardinality(Trying(t)') \in Nat
  BY <1>1, <1>3, FS_Subset, FS_CardinalityType
<1> QED
  BY <1>1, <1>2, <1>3, <1>4

-----------------------------------------------------------------------------
(* Being told                                                              *)

\* Rows that none of the newer ones separates from the newest are the newest.
LEMMA StreakIsOnTop ==
  ASSUME HooksConstantsOK, NEW L, Distinct(L)
  PROVE  /\ IsFiniteSet(Streak(L)) /\ Cardinality(Streak(L)) \in Nat
         /\ Cardinality(Streak(L)) <= Cardinality(L)
         /\ Streak(L) = Top(L, Cardinality(Streak(L)))
<1> DEFINE S == Streak(L)
           n == Cardinality(S)
<1>1. IsFiniteSet(L) /\ S \subseteq L /\ Cardinality(L) \in Nat
  BY FS_CardinalityType DEF Distinct, Streak
<1>2. IsFiniteSet(S) /\ n \in Nat /\ n <= Cardinality(L)
  BY <1>1, FS_Subset, FS_CardinalityType
\* Upwards closed.
<1>3. ASSUME NEW b \in S, NEW c \in L, Older(b, c)
      PROVE  c \in S
  <2>1. ASSUME NEW d \in L, Older(c, d) \/ c = d PROVE d.error
    <3>1. Older(b, d)
      BY <1>1, <1>3, <2>1, OlderIsAnOrder
    <3> QED
      BY <3>1 DEF Streak
  <2> QED
    BY <2>1 DEF Streak
<1>4. IsFiniteSet(Top(L, n)) /\ Cardinality(Top(L, n)) = n
  BY <1>2, TopCount
<1>5. S \subseteq Top(L, n)
  <2> SUFFICES ASSUME NEW b \in S PROVE Rank(L, b) < n
    BY <1>1 DEF Top
  <2>1. {c \in L : Older(b, c)} \subseteq S \ {b}
    BY <1>1, <1>3, OlderIsAnOrder
  <2>2. IsFiniteSet(S \ {b}) /\ Cardinality(S \ {b}) = n - 1
    BY <1>2, FS_RemoveElement
  <2>3. Rank(L, b) <= n - 1 /\ Rank(L, b) \in Nat
    BY <2>1, <2>2, FS_Subset, FS_CardinalityType DEF Rank
  <2> QED
    BY <1>2, <2>3
<1>6. S = Top(L, n)
  BY <1>2, <1>4, <1>5, FS_Subset
<1> QED
  BY <1>2, <1>6

\* breaker_opened_by_latest, of what the replica sees, is that the streak has
\* just reached the threshold.
LEMMA LatestOpens ==
  ASSUME HooksConstantsOK, HooksTypeOK, RowsInv, NEW w \in Workers
  PROVE  OpenedByLatest(w) <=> Opens(log \cup worker[w].wrote)
<1> DEFINE L == log \cup worker[w].wrote
           T == Threshold
           S == Streak(L)
           n == Cardinality(S)
<1>1. Distinct(L) /\ T \in Nat \ {0} /\ L \subseteq HookRows
  BY SeenIsDistinct DEF HooksConstantsOK, Distinct
<1>2. Recent(w, T) = Top(L, T) /\ Recent(w, T + 1) = Top(L, T + 1)
  BY DEF Recent, Top, Rank
<1>3. IsFiniteSet(S) /\ n \in Nat /\ n <= Cardinality(L) /\ S = Top(L, n)
  BY <1>1, StreakIsOnTop
<1>4. \A a \in L : Rank(L, a) \in Nat /\ Cardinality(L) \in Nat
  BY <1>1, Ranks
<1>4a. Cardinality(L) \in Nat
  BY <1>1, FS_CardinalityType DEF Distinct
<1>5. ASSUME OpenedByLatest(w) PROVE n = T
  <2>1. /\ Cardinality(Top(L, T)) = T /\ \A a \in Top(L, T) : a.error
        /\ \A a \in Top(L, T + 1) \ Top(L, T) : ~a.error
    BY <1>2, <1>5 DEF OpenedByLatest, AllFailed
  <2>2. Top(L, T) \subseteq S
    <3> SUFFICES ASSUME NEW b \in Top(L, T), NEW c \in L, Older(b, c) \/ b = c
                 PROVE  c.error
      BY DEF Top, Streak
    <3>1. b \in L /\ Rank(L, b) < T
      BY DEF Top
    <3>2. Rank(L, c) <= Rank(L, b)
      BY <1>1, <1>4, <3>1, Ranks
    <3>3. c \in Top(L, T)
      BY <1>1, <1>4, <3>1, <3>2 DEF Top
    <3> QED
      BY <2>1, <3>3
  <2>3. T <= n
    <3>1. Cardinality(Top(L, T)) <= Cardinality(S)
      BY <1>3, <2>2, FS_Subset
    <3> QED
      BY <2>1, <3>1
  <2>4. ASSUME T < n PROVE FALSE
    <3>1. Cardinality(Top(L, T + 1)) = T + 1
      BY <1>1, <1>3, <1>4a, <2>4, TopCount
    <3>2. PICK a \in Top(L, T + 1) : a \notin Top(L, T)
      <4>1. Top(L, T) \subseteq Top(L, T + 1)
        BY <1>1, <1>4 DEF Top
      <4>2. Top(L, T + 1) # Top(L, T)
        BY <1>1, <2>1, <3>1
      <4> QED
        BY <4>1, <4>2
    <3>3. a \in S
      BY <1>1, <1>3, <1>4, <2>4 DEF Top
    <3>4. a \in L /\ a.error
      <4>1. a \in L
        BY DEF Top
      <4>2. \A c \in L : Older(a, c) \/ a = c => c.error
        BY <3>3 DEF Streak
      <4> QED
        BY <4>1, <4>2
    <3> QED
      BY <2>1, <3>2, <3>4
  <2> QED
    BY <1>1, <1>3, <2>3, <2>4
<1>6. ASSUME n = T PROVE OpenedByLatest(w)
  <2>1. Top(L, T) = S /\ Cardinality(Top(L, T)) = T
    BY <1>3, <1>6
  <2>2. \A a \in Top(L, T) : a.error
    BY <2>1 DEF Streak
  <2>3. ASSUME NEW a \in Top(L, T + 1), a \notin Top(L, T) PROVE ~a.error
    <3>1. a \in L /\ Rank(L, a) = T
      BY <1>1, <1>4, <2>3 DEF Top
    <3>2. a \notin S
      BY <2>1, <2>3
    <3>3. PICK c \in L : (Older(a, c) \/ a = c) /\ ~c.error
      BY <3>1, <3>2 DEF Streak
    <3>4. CASE Older(a, c)
      <4>1. Rank(L, c) < T /\ c \in Top(L, T)
        BY <1>1, <1>4, <3>1, <3>4, Ranks DEF Top
      <4> QED
        BY <2>2, <3>3, <4>1
    <3> QED
      BY <3>3, <3>4
  <2> QED
    BY <1>2, <2>1, <2>2, <2>3 DEF OpenedByLatest, AllFailed
<1> QED
  BY <1>5, <1>6 DEF Opens

\* The replica that is there moves on, and the log stays.
LEMMA ToldKept ==
  ASSUME HooksConstantsOK, HooksTypeOK, RowsInv, ToldInv,
         NEW w \in Workers, NEW to \in Deliveries, Move(w, to),
         UNCHANGED <<log, told, overlapped>>, worker[w].at # "idle",
         to.at # "idle" => to.began = worker[w].began,
         ~overlapped /\ to.at # "idle" => \A a \in log : \A r \in to.wrote : a.id < r.id,
         ~overlapped /\ to.at = "done" =>
           (to.tells <=> to.wrote # {} /\ Opens(log \cup to.wrote))
  PROVE  ToldInv'
<1> SUFFICES ASSUME ~overlapped
             PROVE  ToldInv'
  BY DEF ToldInv
<1>1. worker'[w] = to /\ \A v \in Workers : v # w => worker'[v] = worker[v]
  BY DEF Move, RowsInv
<1>2. \A v \in Workers : v # w => worker'[v].at = "idle"
  BY <1>1 DEF ToldInv
<1>3. told' = Cardinality(Openings')
  <2>1. Openings' = Openings
    BY DEF Openings
  <2> QED
    BY <2>1 DEF ToldInv
<1>4. \A a \in log : a.at <= worker[w].began
  BY DEF ToldInv
<1>5. \A u, v \in Workers : worker'[u].at # "idle" /\ worker'[v].at # "idle" => u = v
  BY <1>2
<1>6. \A v \in Workers : worker'[v].at # "idle" =>
        \A a \in log' : /\ a.at <= worker'[v].began
                        /\ \A r \in worker'[v].wrote : a.id < r.id
  BY <1>1, <1>2, <1>4
<1>7. \A v \in Workers : worker'[v].at = "done" =>
        (worker'[v].tells <=> worker'[v].wrote # {} /\ Opens(log \cup worker'[v].wrote))
  BY <1>1, <1>2
<1>8. \A v \in Workers : Opens(log \cup worker[v].wrote)' <=> Opens(log \cup worker'[v].wrote)
  BY DEF Opens, Streak, Older
<1> QED
  BY <1>3, <1>5, <1>6, <1>7, <1>8 DEF ToldInv

-----------------------------------------------------------------------------
(* The steps                                                               *)

\* What a replica that moves leaves of the types, when the log stays.
LEMMA TypeKept ==
  ASSUME HooksConstantsOK, HooksTypeOK,
         UNCHANGED <<now, kind, log, told>>, issued' \in 0..MaxRuns, overlapped' \in BOOLEAN
  PROVE  HooksTypeOK'
BY DEF HooksTypeOK

\* The clock moves.
LEMMA TickKeeps ==
  ASSUME HooksConstantsOK, HooksIInv, Tick
  PROVE  HooksIInv'
<1>1. /\ now < MaxNow /\ now' = now + 1
      /\ UNCHANGED <<kind, log, worker, told, issued, overlapped>>
  BY DEF Tick
<1>2. HooksTypeOK /\ RowsInv /\ AloneInv /\ ToldInv
  BY DEF HooksIInv
<1>3. now \in Nat /\ MaxNow \in Nat /\ now' \in 0..MaxNow
  BY <1>1, <1>2 DEF HooksTypeOK, HooksConstantsOK
<1>4. HooksTypeOK'
  BY <1>1, <1>2, <1>3 DEF HooksTypeOK
<1>5. RowsInv'
  <2>1. \A a \in log : a.at \in Nat /\ a.at <= now'
    BY <1>1, <1>2, <1>3 DEF HooksTypeOK, RowsInv
  <2>2. \A w \in Workers : worker[w].began \in Nat /\ worker[w].began <= now'
    BY <1>1, <1>2, <1>3 DEF RowsInv, Deliveries
  <2> QED
    BY <1>1, <1>2, <2>1, <2>2 DEF RowsInv
<1>6. AloneInv'
  <2>1. \A t : Trying(t)' = Trying(t)
    BY <1>1 DEF Trying
  <2> QED
    BY <1>1, <1>2, <1>4, <1>5, <2>1, AloneKept
<1>7. ToldInv'
  BY <1>1, <1>2 DEF ToldInv, Openings, Opens, Streak
<1> QED
  BY <1>4, <1>5, <1>6, <1>7 DEF HooksIInv

\* A transaction begins; it is alone if none has overlapped.
LEMMA BeginKeeps ==
  ASSUME HooksConstantsOK, HooksIInv, NEW w \in Workers, Begin(w)
  PROVE  HooksIInv'
<1> DEFINE to == [NoDelivery EXCEPT !.at = "chain", !.began = now]
<1>1. /\ worker[w].at = "idle" /\ Move(w, to)
      /\ overlapped' = (overlapped \/ Busy # {})
      /\ UNCHANGED <<now, kind, log, told, issued>>
  BY DEF Begin
<1>2. HooksTypeOK /\ RowsInv /\ AloneInv /\ ToldInv
  BY DEF HooksIInv
<1>3. issued \in 0..MaxRuns /\ now \in 0..MaxNow /\ now \in Nat
  BY <1>2 DEF HooksTypeOK, HooksConstantsOK
<1>4. /\ to \in Deliveries
      /\ to.at = "chain" /\ to.began = now /\ to.wrote = {} /\ to.tells = FALSE
  <2>1. /\ NoDelivery \in Deliveries
        /\ NoDelivery.wrote = {} /\ NoDelivery.tells = FALSE
    BY <1>3 DEF NoDelivery, Deliveries, HooksConstantsOK
  <2> QED
    BY <1>3, <2>1 DEF Deliveries
<1> HIDE DEF to
<1>5. HooksTypeOK'
  BY <1>1, <1>2, <1>3, TypeKept
<1>6. RowsInv'
  <2>1. issued \in Nat
    BY <1>3 DEF HooksConstantsOK
  <2> QED
    BY <1>1, <1>2, <1>3, <1>4, <2>1, MovedRows
<1>7. worker'[w] = to /\ \A v \in Workers : v # w => worker'[v] = worker[v]
  BY <1>1, <1>2 DEF Move, RowsInv
<1>8. AloneInv'
  <2>1. \A t : Trying(t)' \subseteq Trying(t)
    BY <1>4, <1>7 DEF Trying
  <2> QED
    BY <1>1, <1>2, <1>5, <1>6, <2>1, AloneKept
<1>9. ToldInv'
  <2> SUFFICES ASSUME ~overlapped' PROVE ToldInv'
    BY DEF ToldInv
  <2>1. ~overlapped /\ \A v \in Workers : worker[v].at = "idle"
    BY <1>1 DEF Busy
  <2>2. told' = Cardinality(Openings')
    BY <1>1, <1>2, <2>1 DEF ToldInv, Openings
  <2>3. \A v \in Workers : v # w => worker'[v].at = "idle"
    BY <1>7, <2>1
  <2>4. \A a \in log' : a.at <= worker'[w].began
    BY <1>1, <1>2, <1>4, <1>7 DEF RowsInv
  <2>5. worker'[w].wrote = {} /\ worker'[w].at # "done"
    BY <1>4, <1>7
  <2> QED
    BY <2>2, <2>3, <2>4, <2>5 DEF ToldInv
<1> QED
  BY <1>5, <1>6, <1>8, <1>9 DEF HooksIInv

\* A paused handler's delivery ends with nothing written.
LEMMA PauseKeeps ==
  ASSUME HooksConstantsOK, HooksIInv, NEW w \in Workers, Pause(w)
  PROVE  HooksIInv'
<1> DEFINE to == [worker[w] EXCEPT !.at = "done"]
<1>1. /\ worker[w].at = "chain" /\ Move(w, to)
      /\ UNCHANGED <<now, kind, log, told, issued, overlapped>>
  BY DEF Pause
<1>2. HooksTypeOK /\ RowsInv /\ AloneInv /\ ToldInv
  BY DEF HooksIInv
<1>3. /\ worker[w] \in Deliveries /\ worker[w].wrote = {} /\ ~worker[w].tells
      /\ worker[w].began <= now
  BY <1>1, <1>2 DEF RowsInv
<1>4. /\ to \in Deliveries /\ to.at = "done" /\ to.began = worker[w].began
      /\ to.wrote = {} /\ ~to.tells
  BY <1>3 DEF Deliveries
<1> HIDE DEF to
<1>5. HooksTypeOK'
  BY <1>1, <1>2, TypeKept DEF HooksTypeOK
<1>6. RowsInv'
  <2>1. issued \in Nat
    BY <1>2 DEF HooksTypeOK, HooksConstantsOK
  <2> QED
    BY <1>1, <1>2, <1>3, <1>4, <2>1, MovedRows
<1>7. worker'[w] = to /\ \A v \in Workers : v # w => worker'[v] = worker[v]
  BY <1>1, <1>2 DEF Move, RowsInv
<1>8. AloneInv'
  <2>1. \A t : Trying(t)' \subseteq Trying(t)
    BY <1>4, <1>7 DEF Trying
  <2> QED
    BY <1>1, <1>2, <1>5, <1>6, <2>1, AloneKept
<1>9. ToldInv'
  BY <1>1, <1>2, <1>4, ToldKept
<1> QED
  BY <1>5, <1>6, <1>8, <1>9 DEF HooksIInv

\* The breaker lets a replica through: few rows are there, or an old window.
LEMMA RunKeeps ==
  ASSUME HooksConstantsOK, HooksIInv, NEW w \in Workers, Run(w)
  PROVE  HooksIInv'
<1> DEFINE to == [worker[w] EXCEPT !.at = "ran"]
<1>1. /\ worker[w].at = "chain" /\ Move(w, to) /\ ~BreakerIsOpen(w)
      /\ UNCHANGED <<now, kind, log, told, issued, overlapped>>
  BY DEF Run
<1>2. HooksTypeOK /\ RowsInv /\ AloneInv /\ ToldInv
  BY DEF HooksIInv
<1>3. /\ worker[w] \in Deliveries /\ worker[w].wrote = {} /\ ~worker[w].tells
      /\ worker[w].began <= now
  BY <1>1, <1>2 DEF RowsInv
<1>4. /\ to \in Deliveries /\ to.at = "ran" /\ to.began = worker[w].began
      /\ to.wrote = {} /\ ~to.tells
  BY <1>3 DEF Deliveries
<1> HIDE DEF to
<1>5. HooksTypeOK'
  BY <1>1, <1>2, TypeKept DEF HooksTypeOK
<1>6. RowsInv'
  <2>1. issued \in Nat
    BY <1>2 DEF HooksTypeOK, HooksConstantsOK
  <2> QED
    BY <1>1, <1>2, <1>3, <1>4, <2>1, MovedRows
<1>7. worker'[w] = to /\ \A v \in Workers : v # w => worker'[v] = worker[v]
  BY <1>1, <1>2 DEF Move, RowsInv
<1>8. AloneInv'
  <2> SUFFICES ASSUME NEW t \in 0..MaxNow, kind' = "after",
                      \A a \in log' : a.at >= t => a.error
               PROVE  Cardinality(Within(t)') + Cardinality(Trying(t)')
                        <= Threshold + Cardinality(Workers) - 1
    BY DEF AloneInv
  <2>1. Within(t)' = Within(t)
    BY <1>1 DEF Within
  <2>2. /\ IsFiniteSet(Trying(t)) /\ Cardinality(Trying(t)) \in Nat
        /\ Cardinality(Workers) \in Nat /\ Cardinality(Within(t)) \in Nat
        /\ Threshold \in Nat \ {0}
    BY <1>2, TryingIsCounted
  <2>3. CASE t <= worker[w].began /\ worker[w].began < t + CoolDown
    <3>1. Cardinality(Within(t)) < Threshold
      BY <1>1, <1>2, <2>3, BreakerLetsFew
    <3>2. Trying(t)' \subseteq Workers /\ IsFiniteSet(Workers)
      BY DEF Trying, HooksConstantsOK
    <3>3. Cardinality(Trying(t)') <= Cardinality(Workers) /\ Cardinality(Trying(t)') \in Nat
      BY <3>2, FS_Subset, FS_CardinalityType
    <3> QED
      BY <2>1, <2>2, <3>1, <3>3
  <2>4. CASE ~(t <= worker[w].began /\ worker[w].began < t + CoolDown)
    <3>1. Trying(t)' \subseteq Trying(t)
      BY <1>4, <1>7, <2>4 DEF Trying
    <3>2. Cardinality(Trying(t)') <= Cardinality(Trying(t)) /\ Cardinality(Trying(t)') \in Nat
      BY <2>2, <3>1, FS_Subset, FS_CardinalityType
    <3>3. Cardinality(Within(t)) + Cardinality(Trying(t)) <= Threshold + Cardinality(Workers) - 1
      BY <1>1, <1>2 DEF AloneInv
    <3> QED
      BY <2>1, <2>2, <3>2, <3>3
  <2> QED
    BY <2>3, <2>4
<1>9. ToldInv'
  BY <1>1, <1>2, <1>4, ToldKept
<1> QED
  BY <1>5, <1>6, <1>8, <1>9 DEF HooksIInv

\* The row has the next id, so it is the newest; if it is not a failure,
\* nothing opens.
LEMMA RecordRunKeeps ==
  ASSUME HooksConstantsOK, HooksIInv, NEW w \in Workers, Record(w)
  PROVE  HooksIInv'
<1>1. /\ worker[w].at = IF kind = "after" THEN "ran" ELSE "chain"
      /\ issued < MaxRuns /\ issued' = issued + 1
      /\ UNCHANGED <<now, kind, log, told, overlapped>>
  BY DEF Record
<1>2. HooksTypeOK /\ RowsInv /\ AloneInv /\ ToldInv
  BY DEF HooksIInv
<1>3. PICK error \in BOOLEAN :
        Move(w, [worker[w] EXCEPT
                   !.at = IF error THEN "failed" ELSE "done",
                   !.wrote = {[at |-> worker[w].began, id |-> issued, error |-> error]}])
  BY DEF Record
<1> DEFINE r == [at |-> worker[w].began, id |-> issued, error |-> error]
           to == [worker[w] EXCEPT !.at = IF error THEN "failed" ELSE "done", !.wrote = {r}]
<1>4. Move(w, to)
  BY <1>3
<1>5. /\ worker[w] \in Deliveries /\ worker[w].at \in {"chain", "ran"} /\ ~worker[w].tells
      /\ worker[w].began <= now /\ worker[w].began \in 0..MaxNow
      /\ issued \in 0..MaxRuns /\ issued \in Nat /\ issued' \in 0..MaxRuns
  <2>1. worker[w] \in Deliveries /\ worker[w].at \in {"chain", "ran"}
    BY <1>1, <1>2 DEF RowsInv
  <2>2. ~worker[w].tells /\ worker[w].began <= now
    BY <1>2, <2>1 DEF RowsInv
  <2>3. issued \in 0..MaxRuns /\ issued \in Nat /\ MaxRuns \in Nat
    BY <1>2 DEF HooksTypeOK, HooksConstantsOK
  <2> QED
    BY <1>1, <2>1, <2>2, <2>3 DEF Deliveries
<1>6. /\ r \in HookRows /\ r.at = worker[w].began /\ r.id = issued /\ r.error = error
  BY <1>5 DEF HookRows
<1>7. /\ to \in Deliveries /\ to.began = worker[w].began /\ to.wrote = {r} /\ ~to.tells
      /\ to.at = IF error THEN "failed" ELSE "done"
  BY <1>5, <1>6 DEF Deliveries
<1> HIDE DEF to, r
<1>8. HooksTypeOK'
  BY <1>1, <1>2, <1>5, TypeKept DEF HooksTypeOK
<1>9. RowsInv'
  <2>1. issued' \in Nat /\ issued <= issued' /\ issued < issued'
    BY <1>1, <1>5
  <2>2. to.at = "failed" => \E q \in HookRows : to.wrote = {q} /\ q.error
    BY <1>6, <1>7
  <2>3. to.at = "done" => to.wrote = {} \/ \E q \in HookRows : to.wrote = {q}
    BY <1>6, <1>7
  <2>4. to.at \notin {"idle", "chain", "ran"} /\ to.began <= now
    BY <1>5, <1>7
  <2>5. \A q \in to.wrote : q.at = to.began /\ q.id = issued
    BY <1>6, <1>7
  <2> QED
    BY <1>1, <1>2, <1>4, <1>7, <2>1, <2>2, <2>3, <2>4, <2>5, MovedRows
<1>10. worker'[w] = to /\ \A v \in Workers : v # w => worker'[v] = worker[v]
  BY <1>2, <1>4 DEF Move, RowsInv
<1>11. AloneInv'
  <2>1. kind = "after" => \A t : Trying(t)' \subseteq Trying(t)
    BY <1>1, <1>7, <1>10 DEF Trying
  <2> QED
    BY <1>1, <1>2, <1>8, <1>9, <2>1, AloneKept
<1>12. ToldInv'
  <2>1. \A a \in log : \A q \in to.wrote : a.id < q.id
    BY <1>2, <1>6, <1>7 DEF RowsInv
  <2>2. ASSUME ~overlapped, to.at = "done" PROVE ~Opens(log \cup to.wrote)
    <3> DEFINE L == log \cup {r}
    <3>1. ~r.error
      BY <1>6, <1>7, <2>2
    <3>2. \A a \in log : Older(a, r)
      <4>1. worker[w].at # "idle"
        BY <1>5
      <4>2. \A a \in log : a.at <= r.at /\ a.id < r.id
        BY <1>2, <1>6, <1>7, <2>1, <2>2, <4>1 DEF ToldInv
      <4>3. \A a \in log : a.at \in Nat /\ r.at \in Nat
        BY <1>2, <1>5, <1>6 DEF HooksTypeOK, HooksConstantsOK
      <4> QED
        BY <4>2, <4>3 DEF Older
    <3>3. Streak(L) = {}
      BY <3>1, <3>2 DEF Streak
    <3>4. Threshold # 0
      BY DEF HooksConstantsOK
    <3> QED
      BY <1>7, <3>3, <3>4, FS_EmptySet DEF Opens
  <2> QED
    BY <1>1, <1>2, <1>4, <1>5, <1>7, <2>1, <2>2, ToldKept
<1> QED
  BY <1>8, <1>9, <1>11, <1>12 DEF HooksIInv

\* What is told is whether the row opens the breaker.
LEMMA ReportKeeps ==
  ASSUME HooksConstantsOK, HooksIInv, NEW w \in Workers, Report(w)
  PROVE  HooksIInv'
<1> DEFINE to == [worker[w] EXCEPT !.at = "done", !.tells = OpenedByLatest(w)]
<1>1. /\ worker[w].at = "failed" /\ Move(w, to)
      /\ UNCHANGED <<now, kind, log, told, issued, overlapped>>
  BY DEF Report
<1>2. HooksTypeOK /\ RowsInv /\ AloneInv /\ ToldInv
  BY DEF HooksIInv
<1>3. /\ worker[w] \in Deliveries /\ worker[w].began <= now
      /\ \E r \in HookRows : worker[w].wrote = {r} /\ r.error
  BY <1>1, <1>2 DEF RowsInv
<1>4. /\ to.at = "done" /\ to.began = worker[w].began
      /\ to.wrote = worker[w].wrote /\ to.tells = OpenedByLatest(w)
  BY <1>3 DEF Deliveries
<1>5. to \in Deliveries
  <2>1. OpenedByLatest(w) \in BOOLEAN
    BY DEF OpenedByLatest, AllFailed
  <2> QED
    BY <1>3, <2>1 DEF Deliveries
<1> HIDE DEF to
<1>6. HooksTypeOK'
  BY <1>1, <1>2, TypeKept DEF HooksTypeOK
<1>7. RowsInv'
  <2>1. issued \in Nat
    BY <1>2 DEF HooksTypeOK, HooksConstantsOK
  <2>2. \A r \in to.wrote : r.at = to.began
    BY <1>2, <1>4 DEF RowsInv
  <2> QED
    BY <1>1, <1>2, <1>3, <1>4, <1>5, <2>1, <2>2, MovedRows
<1>8. worker'[w] = to /\ \A v \in Workers : v # w => worker'[v] = worker[v]
  BY <1>1, <1>2 DEF Move, RowsInv
<1>9. AloneInv'
  <2>1. \A t : Trying(t)' \subseteq Trying(t)
    BY <1>4, <1>8 DEF Trying
  <2> QED
    BY <1>1, <1>2, <1>6, <1>7, <2>1, AloneKept
<1>10. ToldInv'
  <2>1. to.tells <=> to.wrote # {} /\ Opens(log \cup to.wrote)
    BY <1>2, <1>3, <1>4, LatestOpens
  <2>2. ~overlapped => \A a \in log : \A r \in to.wrote : a.id < r.id
    BY <1>1, <1>2, <1>4 DEF ToldInv
  <2> QED
    BY <1>1, <1>2, <1>4, <1>5, <2>1, <2>2, ToldKept
<1> QED
  BY <1>6, <1>7, <1>9, <1>10 DEF HooksIInv

\* Row and report are lost together.
LEMMA LoseKeeps ==
  ASSUME HooksConstantsOK, HooksIInv, NEW w \in Workers, LoseDelivery(w)
  PROVE  HooksIInv'
<1>1. /\ worker[w].at # "idle" /\ Move(w, NoDelivery)
      /\ UNCHANGED <<now, kind, log, told, issued, overlapped>>
  BY DEF LoseDelivery
<1>2. HooksTypeOK /\ RowsInv /\ AloneInv /\ ToldInv
  BY DEF HooksIInv
<1>3. /\ NoDelivery \in Deliveries /\ NoDelivery.at = "idle" /\ NoDelivery.wrote = {}
      /\ ~NoDelivery.tells /\ NoDelivery.began <= now /\ issued \in Nat
  BY <1>2 DEF NoDelivery, Deliveries, HooksTypeOK, HooksConstantsOK
<1>4. HooksTypeOK'
  BY <1>1, <1>2, TypeKept DEF HooksTypeOK
<1>5. RowsInv'
  BY <1>1, <1>2, <1>3, MovedRows
<1>6. worker'[w] = NoDelivery /\ \A v \in Workers : v # w => worker'[v] = worker[v]
  BY <1>1, <1>2 DEF Move, RowsInv
<1>7. AloneInv'
  <2>1. \A t : Trying(t)' \subseteq Trying(t)
    BY <1>3, <1>6 DEF Trying
  <2> QED
    BY <1>1, <1>2, <1>4, <1>5, <2>1, AloneKept
<1>8. ToldInv'
  BY <1>1, <1>2, <1>3, ToldKept
<1> QED
  BY <1>4, <1>5, <1>7, <1>8 DEF HooksIInv

\* The row goes from the replica to the log: one of those that tried is one of
\* those recorded, and the newest.
LEMMA CommitKeeps ==
  ASSUME HooksConstantsOK, HooksIInv, NEW w \in Workers, Commit(w)
  PROVE  HooksIInv'
<1> DEFINE W == worker[w].wrote
           L == log \cup W
<1>1. /\ worker[w].at = "done" /\ log' = L
      /\ told' = told + (IF worker[w].tells THEN 1 ELSE 0)
      /\ Move(w, NoDelivery) /\ UNCHANGED <<now, kind, issued, overlapped>>
  BY DEF Commit
<1>2. HooksTypeOK /\ RowsInv /\ AloneInv /\ ToldInv
  BY DEF HooksIInv
<1>3. /\ NoDelivery \in Deliveries /\ NoDelivery.at = "idle" /\ NoDelivery.wrote = {}
      /\ ~NoDelivery.tells /\ NoDelivery.began = 0 /\ 0 <= now
  BY <1>2 DEF NoDelivery, Deliveries, HooksTypeOK, HooksConstantsOK
<1>4. worker'[w] = NoDelivery /\ \A v \in Workers : v # w => worker'[v] = worker[v]
  BY <1>1, <1>2 DEF Move, RowsInv
<1>5. /\ Distinct(L) /\ IsFiniteSet(L) /\ IsFiniteSet(W)
      /\ W \subseteq HookRows /\ worker[w].began \in 0..MaxNow
      /\ log \subseteq HookRows /\ IsFiniteSet(log)
      /\ W = {} \/ \E r \in HookRows : W = {r}
  <2>1. Distinct(L) /\ IsFiniteSet(W)
    BY <1>2, SeenIsDistinct
  <2>2. W = {} \/ \E r \in HookRows : W = {r}
    BY <1>1, <1>2 DEF RowsInv
  <2>3. worker[w] \in Deliveries /\ IsFiniteSet(log)
    BY <1>2 DEF RowsInv
  <2> QED
    BY <2>1, <2>2, <2>3 DEF Distinct, Deliveries
<1>6. /\ now \in Nat /\ MaxNow \in Nat /\ CoolDown \in Nat \ {0} /\ Threshold \in Nat \ {0}
      /\ worker[w].began \in Nat /\ worker[w].began <= now
      /\ \A a \in HookRows : a.at \in Nat /\ a.id \in Nat /\ a.error \in BOOLEAN
  BY <1>2, <1>5 DEF HooksTypeOK, HooksConstantsOK, RowsInv, HookRows
<1>7. \A r \in W : r.at = worker[w].began /\ r.id < issued /\ \A a \in log : a.id # r.id
  BY <1>2 DEF RowsInv
<1>8. HooksTypeOK'
  <2>1. log' \subseteq HookRows
    BY <1>1, <1>5
  <2>2. told' \in Nat
    BY <1>1, <1>2 DEF HooksTypeOK
  <2> QED
    BY <1>1, <1>2, <2>1, <2>2 DEF HooksTypeOK, HookRows
<1>9. RowsInv'
  <2>1. worker' \in [Workers -> Deliveries] /\ IsFiniteSet(log')
    BY <1>1, <1>2, <1>3, <1>5 DEF Move, RowsInv
  <2>2. \A a \in log' : a.at <= now' /\ a.id < issued'
    BY <1>1, <1>2, <1>6, <1>7 DEF RowsInv
  <2>3. \A a, b \in log' : a.id = b.id => a = b
    BY <1>1, <1>5 DEF Distinct
  <2>4. ASSUME NEW v \in Workers
        PROVE  /\ worker'[v].began <= now'
               /\ worker'[v].at \in {"idle", "chain", "ran"} => worker'[v].wrote = {}
               /\ worker'[v].at = "failed" =>
                    \E r \in HookRows : worker'[v].wrote = {r} /\ r.error
               /\ worker'[v].at = "done" =>
                    worker'[v].wrote = {} \/ \E r \in HookRows : worker'[v].wrote = {r}
               /\ worker'[v].at # "done" => ~worker'[v].tells
    <3>1. CASE v = w
      BY <1>1, <1>3, <1>4, <3>1
    <3>2. CASE v # w
      BY <1>1, <1>2, <1>4, <3>2 DEF RowsInv
    <3> QED
      BY <3>1, <3>2
  <2>5. ASSUME NEW v \in Workers, NEW r \in worker'[v].wrote
        PROVE  /\ r.at = worker'[v].began /\ r.id < issued'
               /\ \A a \in log' : a.id # r.id
               /\ \A u \in Workers : \A s \in worker'[u].wrote : u # v => s.id # r.id
    <3>1. v # w /\ worker'[v] = worker[v]
      BY <1>3, <1>4
    <3>2. r.at = worker'[v].began /\ r.id < issued' /\ \A a \in log : a.id # r.id
      BY <1>1, <1>2, <3>1 DEF RowsInv
    <3>3. \A u \in Workers : \A s \in worker[u].wrote : u # v => s.id # r.id
      BY <1>2, <3>1 DEF RowsInv
    <3>4. \A s \in W : s.id # r.id
      BY <3>1, <3>3
    <3>5. \A u \in Workers : \A s \in worker'[u].wrote : u # v => s.id # r.id
      BY <1>3, <1>4, <3>3
    <3> QED
      BY <1>1, <3>2, <3>4, <3>5
  <2> QED
    BY <2>1, <2>2, <2>3, <2>4, <2>5 DEF RowsInv
<1>10. AloneInv'
  <2> SUFFICES ASSUME NEW t \in 0..MaxNow, kind' = "after",
                      \A a \in log' : a.at >= t => a.error
               PROVE  Cardinality(Within(t)') + Cardinality(Trying(t)')
                        <= Threshold + Cardinality(Workers) - 1
    BY DEF AloneInv
  <2>1. Cardinality(Within(t)) + Cardinality(Trying(t)) <= Threshold + Cardinality(Workers) - 1
    BY <1>1, <1>2 DEF AloneInv
  <2>2. /\ IsFiniteSet(Trying(t)) /\ Cardinality(Trying(t)) \in Nat
        /\ Cardinality(Workers) \in Nat
        /\ IsFiniteSet(Within(t)) /\ Cardinality(Within(t)) \in Nat
    BY <1>2, TryingIsCounted
  <2>3. Trying(t)' \subseteq Trying(t) \ {w}
    BY <1>3, <1>4 DEF Trying
  <2>4. CASE \E r \in W : t <= r.at /\ r.at < t + CoolDown
    <3>1. PICK r \in W : t <= r.at /\ r.at < t + CoolDown
      BY <2>4
    <3>2. W = {r} /\ w \in Trying(t)
      BY <1>5, <1>7, <3>1 DEF Trying
    <3>3. Within(t)' \subseteq Within(t) \cup {r}
      BY <1>1, <3>2 DEF Within
    <3>4. IsFiniteSet(Within(t) \cup {r}) /\ Cardinality(Within(t) \cup {r}) <= Cardinality(Within(t)) + 1
          /\ Cardinality(Within(t) \cup {r}) \in Nat
      <4>1. r \in Within(t) => Within(t) \cup {r} = Within(t)
        OBVIOUS
      <4>2. /\ IsFiniteSet(Within(t) \cup {r})
            /\ r \notin Within(t) => Cardinality(Within(t) \cup {r}) = Cardinality(Within(t)) + 1
        BY <2>2, FS_AddElement
      <4>3. CASE r \in Within(t)
        <5>1. Cardinality(Within(t) \cup {r}) = Cardinality(Within(t))
          BY <4>1, <4>3
        <5> QED
          BY <2>2, <4>2, <5>1
      <4>4. CASE r \notin Within(t)
        BY <2>2, <4>2, <4>4
      <4> QED
        BY <4>3, <4>4
    <3>5. Cardinality(Within(t)') <= Cardinality(Within(t) \cup {r}) /\ Cardinality(Within(t)') \in Nat
      BY <3>3, <3>4, FS_Subset, FS_CardinalityType
    <3>6. IsFiniteSet(Trying(t) \ {w}) /\ Cardinality(Trying(t) \ {w}) = Cardinality(Trying(t)) - 1
      BY <2>2, <3>2, FS_RemoveElement
    <3>7. Cardinality(Trying(t)') <= Cardinality(Trying(t)) - 1 /\ Cardinality(Trying(t)') \in Nat
      BY <2>3, <3>6, FS_Subset, FS_CardinalityType
    <3> QED
      BY <1>6, <2>1, <2>2, <3>4, <3>5, <3>7
  <2>5. CASE ~\E r \in W : t <= r.at /\ r.at < t + CoolDown
    <3>1. Within(t)' = Within(t)
      BY <1>1, <2>5 DEF Within
    <3>2. Trying(t)' \subseteq Trying(t)
      BY <2>3
    <3>3. Cardinality(Trying(t)') <= Cardinality(Trying(t)) /\ Cardinality(Trying(t)') \in Nat
      BY <2>2, <3>2, FS_Subset, FS_CardinalityType
    <3> QED
      BY <1>6, <2>1, <2>2, <3>1, <3>3
  <2> QED
    BY <2>4, <2>5
<1>11. ToldInv'
  <2> SUFFICES ASSUME ~overlapped PROVE ToldInv'
    BY <1>1 DEF ToldInv
  <2>1. \A v \in Workers : worker'[v].at = "idle"
    <3>1. \A v \in Workers : v # w => worker[v].at = "idle"
      BY <1>1, <1>2 DEF ToldInv
    <3> QED
      BY <1>3, <1>4, <3>1
  <2>2. /\ \A a \in log : \A r \in W : Older(a, r)
        /\ told = Cardinality(Openings)
        /\ worker[w].tells <=> W # {} /\ Opens(L)
    <3>1. \A a \in log : a.at <= worker[w].began /\ \A r \in W : a.id < r.id
      BY <1>1, <1>2 DEF ToldInv
    <3>2. \A a \in log : \A r \in W : Older(a, r)
      BY <1>5, <1>6, <1>7, <3>1 DEF Older
    <3> QED
      BY <1>1, <1>2, <3>2 DEF ToldInv
  <2>3. told' = Cardinality(Openings')
    <3> DEFINE upTo(M, a) == {b \in M : b = a \/ Older(b, a)}
    <3>1. Openings = {a \in log : Opens(upTo(log, a))}
      BY DEF Openings, Opens, Streak
    <3>2. Openings' = {a \in L : Opens(upTo(L, a))}
      BY <1>1 DEF Openings, Opens, Streak, Older
    <3>3. Openings \subseteq log /\ IsFiniteSet(Openings) /\ Cardinality(Openings) \in Nat
      BY <1>5, <3>1, FS_Subset, FS_CardinalityType
    <3>4. CASE W = {}
      <4>1. L = log
        BY <3>4
      <4> QED
        BY <1>1, <2>2, <3>1, <3>2, <3>3, <3>4, <4>1
    <3>5. CASE W # {}
      <4>1. PICK r \in HookRows : W = {r}
        BY <1>5, <3>5
      <4>2. L = log \cup {r} /\ r \notin log /\ \A a \in log : Older(a, r)
        BY <1>7, <2>2, <4>1
      <4>3. upTo(L, r) = L
        BY <4>2
      <4>4. ASSUME NEW a \in log PROVE upTo(L, a) = upTo(log, a)
        <5>1. a \in L /\ r \in L /\ Older(a, r)
          BY <4>2
        <5>2. ~Older(r, a) /\ a # r
          BY <1>5, <4>2, <5>1, OlderIsAnOrder
        <5> QED
          BY <4>2, <5>2
      <4> HIDE DEF upTo, L
      <4>5. Openings' = IF Opens(L) THEN Openings \cup {r} ELSE Openings
        BY <3>1, <3>2, <4>2, <4>3, <4>4
      <4>6. r \notin Openings
        BY <3>3, <4>2
      <4>7. Cardinality(Openings \cup {r}) = Cardinality(Openings) + 1
        BY <3>3, <4>6, FS_AddElement
      <4>8. worker[w].tells <=> Opens(L)
        BY <2>2, <3>5
      <4>9. CASE Opens(L)
        BY <1>1, <2>2, <4>5, <4>7, <4>8, <4>9
      <4>10. CASE ~Opens(L)
        BY <1>1, <2>2, <3>3, <4>5, <4>8, <4>10
      <4> QED
        BY <4>9, <4>10
    <3> QED
      BY <3>4, <3>5
  <2> QED
    BY <2>1, <2>3 DEF ToldInv
<1> QED
  BY <1>8, <1>9, <1>10, <1>11 DEF HooksIInv

\* Every step keeps the invariant.
LEMMA HooksNextInvariant ==
  ASSUME HooksConstantsOK, HooksIInv, [HooksNext]_hookVars
  PROVE  HooksIInv'
<1>1. CASE Tick
  BY <1>1, TickKeeps
<1>2. CASE \E w \in Workers : Begin(w)
  BY <1>2, BeginKeeps
<1>3. CASE \E w \in Workers : Pause(w)
  BY <1>3, PauseKeeps
<1>4. CASE \E w \in Workers : Run(w)
  BY <1>4, RunKeeps
<1>5. CASE \E w \in Workers : Record(w)
  BY <1>5, RecordRunKeeps
<1>6. CASE \E w \in Workers : Report(w)
  BY <1>6, ReportKeeps
<1>7. CASE \E w \in Workers : Commit(w)
  BY <1>7, CommitKeeps
<1>8. CASE \E w \in Workers : LoseDelivery(w)
  BY <1>8, LoseKeeps
<1>9. CASE UNCHANGED hookVars
  <2>1. UNCHANGED <<now, kind, log, worker, told, issued, overlapped>>
    BY <1>9 DEF hookVars
  <2>2. HooksTypeOK' /\ RowsInv'
    BY <2>1 DEF HooksIInv, HooksTypeOK, RowsInv
  <2>3. AloneInv'
    BY <2>1 DEF HooksIInv, AloneInv, Within, Trying
  <2>4. ToldInv'
    BY <2>1 DEF HooksIInv, ToldInv, Openings, Opens, Streak
  <2> QED
    BY <2>2, <2>3, <2>4 DEF HooksIInv
<1> QED
  BY <1>1, <1>2, <1>3, <1>4, <1>5, <1>6, <1>7, <1>8, <1>9 DEF HooksNext

-----------------------------------------------------------------------------
(* The theorems                                                            *)

\* Rows are in one order, those past the breaker are counted, and what is told
\* is what the log shows, in every reachable state.
THEOREM HooksInvariance ==
  ASSUME HooksConstantsOK
  PROVE  HooksSpec => []HooksIInv
<1>1. HooksInit => HooksIInv
  BY HooksInitInvariant
<1>2. HooksIInv /\ [HooksNext]_hookVars => HooksIInv'
  BY HooksNextInvariant
<1> QED
  BY <1>1, <1>2, PTL DEF HooksSpec

\* The log, the clock and the reports keep their types.
THEOREM HooksTypeCorrect ==
  ASSUME HooksConstantsOK
  PROVE  HooksSpec => []HooksTypeOK
<1>1. HooksIInv => HooksTypeOK
  BY DEF HooksIInv
<1> QED
  BY <1>1, HooksInvariance, PTL

\* However many replicas deliver and whatever the threshold and the cool-down,
\* a handler that keeps failing runs in one cool-down at most as often as
\* opens the breaker and once for each other replica; and while deliveries
\* follow one another its owners are told of each opening exactly once
\* (breaker_is_open, breaker_opened_by_latest).
THEOREM Contained ==
  ASSUME HooksConstantsOK
  PROVE  HooksSpec => []FailuresAreContained
<1>1. ASSUME HooksIInv PROVE FailuresAreContained
  <2>1. HooksTypeOK /\ RowsInv /\ AloneInv /\ ToldInv
    BY <1>1 DEF HooksIInv
  <2>2. ASSUME NEW t \in 0..MaxNow, kind = "after", \A a \in log : a.at >= t => a.error
        PROVE  Cardinality({a \in log : t <= a.at /\ a.at < t + CoolDown})
                 <= Threshold + Cardinality(Workers) - 1
    <3>1. /\ Cardinality(Trying(t)) \in Nat /\ Cardinality(Within(t)) \in Nat
          /\ Cardinality(Workers) \in Nat /\ Threshold \in Nat
      BY <2>1, TryingIsCounted
    <3>2. Cardinality(Within(t)) + Cardinality(Trying(t)) <= Threshold + Cardinality(Workers) - 1
      BY <2>1, <2>2 DEF AloneInv
    <3>3. Cardinality(Within(t)) <= Threshold + Cardinality(Workers) - 1
      BY <3>1, <3>2
    <3> QED
      BY <3>3 DEF Within
  <2>3. ReportedOncePerOpening
    BY <2>1 DEF ToldInv, ReportedOncePerOpening
  <2> QED
    BY <2>2, <2>3 DEF FailuresAreContained, FailingHandlerIsLeftAlone
<1> QED
  BY <1>1, HooksInvariance, PTL

-----------------------------------------------------------------------------
(* Trees                                                                   *)

RequestRows == [at : Writing \cup Deleting, node : Nodes, under : Nodes \cup {NoNode},
                new : BOOLEAN]

\* Who holds the hierarchy lock.
Holding(q) == \/ request[q].at \in {"locked", "live", "walked"}
              \/ tree = "facilities" /\ request[q].at \in {"entered", "held", "counted"}

OneHolds == \A q, r \in Requests : Holding(q) /\ Holding(r) => q = r

\* A node that is yet to be made belongs to one request, and nothing names it.
OneMakes ==
    /\ \A q \in Requests : request[q] # NoRequest =>
         /\ request[q].new <=> state[request[q].node] = "absent"
         /\ request[q].new => /\ request[q].at \in Writing
                             /\ \A r \in Requests :
                                  request[r] # NoRequest /\ r # q =>
                                    request[r].node # request[q].node
         /\ request[q].under # NoNode => state[request[q].under] # "absent"
    /\ \A x \in Nodes : parent[x] # NoNode => state[parent[x]] # "absent"

\* A request that walked up from the new parent did not meet its node, and no
\* write since has put it there.
StillApart ==
    \A q \in Requests : request[q].at = "walked" /\ ~request[q].new =>
        \E A \in SUBSET Live : /\ request[q].under \in Live => request[q].under \in A
                              /\ Upwards(A) /\ request[q].node \notin A

\* What was found under the lock is so until the write, where the other kind of
\* request takes that lock too.
StillFound ==
    tree = "facilities" =>
        \A q \in Requests :
            /\ request[q].at \in {"live", "walked"} => request[q].under \in Live
            /\ request[q].at = "counted" => Children(request[q].node) = {}

\* Without the lock only a root is written.
LockedUnderParents ==
    \A q \in Requests : request[q].at \in {"locked", "live", "walked"} => request[q].under # NoNode

TreesIInv == /\ TreesTypeOK /\ OneHolds /\ OneMakes /\ StillApart /\ StillFound
             /\ LockedUnderParents /\ NoLoops /\ (tree = "facilities" => NothingUnderTheDeleted)

LEMMA TreesInitInvariant == ASSUME TreesConstantsOK PROVE TreesInit => TreesIInv
<1> SUFFICES ASSUME TreesInit PROVE TreesIInv
  OBVIOUS
<1>1. /\ tree \in {"facilities", "departments"} /\ state = [x \in Nodes |-> "absent"]
      /\ parent = [x \in Nodes |-> NoNode] /\ request = [q \in Requests |-> NoRequest]
  BY DEF TreesInit
<1>2. Live = {} /\ \A q \in Requests : request[q].at = "idle" /\ request[q] = NoRequest
  BY <1>1 DEF Live, NoRequest
<1>3. TreesTypeOK
  BY <1>1 DEF TreesTypeOK
<1>4. OneHolds /\ StillApart /\ StillFound /\ LockedUnderParents
  BY <1>2 DEF OneHolds, Holding, StillApart, StillFound, LockedUnderParents
<1>5. OneMakes
  BY <1>1, <1>2 DEF OneMakes
<1>6. NoLoops /\ NothingUnderTheDeleted
  BY <1>2 DEF NoLoops, NothingUnderTheDeleted
<1> QED
  BY <1>3, <1>4, <1>5, <1>6 DEF TreesIInv

LEMMA RequestTypes ==
  ASSUME TreesTypeOK, NEW q \in Requests
  PROVE  /\ request[q] = NoRequest \/ request[q] \in RequestRows
         /\ request[q] = NoRequest <=> request[q].at = "idle"
         /\ request[q] # NoRequest =>
              /\ request[q].at \in Writing \cup Deleting /\ request[q].node \in Nodes
              /\ request[q].under \in Nodes \cup {NoNode} /\ request[q].new \in BOOLEAN
<1>1. request[q] = NoRequest \/ request[q] \in RequestRows
  BY DEF TreesTypeOK, RequestRows
<1>2. NoRequest.at = "idle"
  BY DEF NoRequest
<1>3. request[q] \in RequestRows => request[q].at # "idle"
  BY DEF RequestRows, Writing, Deleting
<1> QED
  BY <1>1, <1>2, <1>3 DEF RequestRows

\* A request that leaves the nodes alone.
LEMMA RequestMoves ==
  ASSUME TreesIInv, NEW q \in Requests, NEW to \in {NoRequest} \cup RequestRows,
         NodesOnly, request' = [request EXCEPT ![q] = to],
         to # NoRequest =>
           /\ to.new <=> state[to.node] = "absent"
           /\ to.new => /\ to.at \in Writing
                       /\ \A r \in Requests :
                            request[r] # NoRequest /\ r # q => request[r].node # to.node
           /\ to.under # NoNode => state[to.under] # "absent",
         to.at \in {"locked", "live", "walked"} => Holding(q) \/ HierarchyIsFree,
         tree = "facilities" /\ to.at \in {"entered", "held", "counted"} =>
           Holding(q) \/ HierarchyIsFree,
         to.at = "walked" /\ ~to.new =>
           \E A \in SUBSET Live : /\ to.under \in Live => to.under \in A
                                 /\ Upwards(A) /\ to.node \notin A,
         tree = "facilities" => /\ to.at \in {"live", "walked"} => to.under \in Live
                                /\ to.at = "counted" => Children(to.node) = {},
         to.at \in {"locked", "live", "walked"} => to.under # NoNode
  PROVE  TreesIInv'
<1>1. UNCHANGED <<tree, state, parent>>
  BY DEF NodesOnly
<1>2. Live' = Live /\ \A x : Children(x)' = Children(x) /\ \A A : Upwards(A)' <=> Upwards(A)
  BY <1>1 DEF Live, Children, Upwards
<1>3. TreesTypeOK /\ OneHolds /\ OneMakes /\ StillApart /\ StillFound /\ LockedUnderParents
  BY DEF TreesIInv
<1>4. request'[q] = to /\ \A r \in Requests : r # q => request'[r] = request[r]
  BY <1>3 DEF TreesTypeOK
<1>5. TreesTypeOK'
  BY <1>1, <1>3 DEF TreesTypeOK, RequestRows
<1>6. OneHolds'
  <2>1. \A r \in Requests : r # q => (Holding(r)' <=> Holding(r))
    BY <1>1, <1>4 DEF Holding
  <2>2. Holding(q)' => Holding(q) \/ HierarchyIsFree
    BY <1>1, <1>4 DEF Holding
  <2>3. HierarchyIsFree => \A r \in Requests : ~Holding(r)
    BY DEF HierarchyIsFree, Holding
  <2> QED
    BY <1>3, <2>1, <2>2, <2>3 DEF OneHolds
<1>7. OneMakes'
  <2>1. ASSUME NEW r \in Requests, request'[r] # NoRequest
        PROVE  /\ request'[r].new <=> state[request'[r].node] = "absent"
               /\ request'[r].new => request'[r].at \in Writing
               /\ request'[r].under # NoNode => state[request'[r].under] # "absent"
    BY <1>3, <1>4, <2>1 DEF OneMakes
  <2>2. ASSUME NEW r \in Requests, NEW v \in Requests, v # r, request'[r] # NoRequest,
               request'[v] # NoRequest, request'[r].new
        PROVE  request'[v].node # request'[r].node
    <3>1. CASE r = q
      BY <1>4, <2>2, <3>1
    <3>2. CASE v = q
      <4>1. request[r] # NoRequest /\ request[r].new /\ request'[r].node = request[r].node
        BY <1>4, <2>2, <3>2
      <4>2. state[request[r].node] = "absent"
        BY <1>3, <4>1 DEF OneMakes
      <4> QED
        BY <1>4, <2>2, <3>2, <4>1, <4>2
    <3>3. CASE r # q /\ v # q
      BY <1>3, <1>4, <2>2, <3>3 DEF OneMakes
    <3> QED
      BY <3>1, <3>2, <3>3
  <2> QED
    BY <1>1, <1>3, <2>1, <2>2 DEF OneMakes
<1>8. StillApart'
  BY <1>2, <1>3, <1>4 DEF StillApart
<1>9. StillFound' /\ LockedUnderParents'
  BY <1>1, <1>2, <1>3, <1>4 DEF StillFound, LockedUnderParents
<1>10. NoLoops' /\ (tree' = "facilities" => NothingUnderTheDeleted')
  BY <1>1, <1>2 DEF TreesIInv, NoLoops, NothingUnderTheDeleted
<1> QED
  BY <1>5, <1>6, <1>7, <1>8, <1>9, <1>10 DEF TreesIInv

\* It ends, or it goes on with its node and its parent.
LEMMA RequestEnds ==
  ASSUME TreesIInv, NEW q \in Requests, NodesOnly, EndRequest(q)
  PROVE  TreesIInv'
BY RequestMoves DEF EndRequest, NoRequest

LEMMA RequestGoesOn ==
  ASSUME TreesIInv, NEW q \in Requests, NEW at \in Writing \cup Deleting, NodesOnly,
         MoveOn(q, at), request[q] # NoRequest,
         request[q].at \in Writing => at \in Writing,
         at \in {"locked", "live", "walked"} => Holding(q) \/ HierarchyIsFree,
         tree = "facilities" /\ at \in {"entered", "held", "counted"} =>
           Holding(q) \/ HierarchyIsFree,
         at = "walked" /\ ~request[q].new =>
           \E A \in SUBSET Live : /\ request[q].under \in Live => request[q].under \in A
                                 /\ Upwards(A) /\ request[q].node \notin A,
         tree = "facilities" => /\ at \in {"live", "walked"} => request[q].under \in Live
                                /\ at = "counted" => Children(request[q].node) = {},
         at \in {"locked", "live", "walked"} => request[q].under # NoNode
  PROVE  TreesIInv'
<1> DEFINE to == [request[q] EXCEPT !.at = at]
<1>1. TreesTypeOK /\ OneMakes
  BY DEF TreesIInv
<1>2. request[q] \in RequestRows
  BY <1>1, RequestTypes
<1>3. /\ to \in RequestRows /\ to.at = at /\ to.node = request[q].node
      /\ to.under = request[q].under /\ to.new = request[q].new
  BY <1>2 DEF RequestRows
<1>4. request' = [request EXCEPT ![q] = to]
  BY DEF MoveOn
<1>5. /\ to.new <=> state[to.node] = "absent"
      /\ to.new => /\ to.at \in Writing
                  /\ \A r \in Requests :
                       request[r] # NoRequest /\ r # q => request[r].node # to.node
      /\ to.under # NoNode => state[to.under] # "absent"
  BY <1>1, <1>3 DEF OneMakes
<1> HIDE DEF to
<1> QED
  BY <1>3, <1>4, <1>5, RequestMoves

\* A loop that a write would close: through the node, it would meet the parent,
\* and the part of it that the walk saw would be one already.
LEMMA WriteClosesNone ==
  ASSUME TreesConstantsOK, TreesIInv, NEW q \in Requests, request[q] # NoRequest,
         request[q].at = "walked" \/ request[q].under = NoNode,
         state' = [state EXCEPT ![request[q].node] = "live"],
         parent' = [parent EXCEPT ![request[q].node] = request[q].under],
         request[q].new \/ state[request[q].node] = "live",
         UNCHANGED tree
  PROVE  NoLoops'
<1> DEFINE x == request[q].node
           p == request[q].under
<1>1. TreesTypeOK /\ OneMakes /\ StillApart /\ NoLoops
  BY DEF TreesIInv
<1>2. x \in Nodes /\ p \in Nodes \cup {NoNode} /\ NoNode \notin Nodes
  BY <1>1, RequestTypes DEF TreesConstantsOK
<1>3. /\ Live' = Live \cup {x} /\ parent'[x] = p
      /\ \A y \in Nodes : y # x => parent'[y] = parent[y]
  BY <1>1, <1>2 DEF TreesTypeOK, Live
<1> SUFFICES ASSUME NEW S \in SUBSET Live', S # {}, \A y \in S : parent'[y] \in S
             PROVE  FALSE
  BY DEF NoLoops
<1>4. S \subseteq Nodes
  BY DEF Live
\* A loop of the same edges was there before.
<1>5. ASSUME NEW T \in SUBSET Live, T # {}, \A y \in T : parent[y] \in T PROVE FALSE
  BY <1>1, <1>5 DEF NoLoops
<1>6. CASE x \notin S
  BY <1>3, <1>4, <1>5, <1>6
<1>7. CASE x \in S
  <2>1. p \in S /\ p # NoNode
    BY <1>2, <1>3, <1>4, <1>7
  <2>2. CASE request[q].new
    <3>1. state[x] = "absent" /\ state[p] # "absent"
      BY <1>1, <2>1, <2>2 DEF OneMakes
    <3>2. \A y \in S \ {x} : parent[y] \in S \ {x}
      <4> SUFFICES ASSUME NEW y \in S, y # x PROVE parent[y] \in S /\ parent[y] # x
        OBVIOUS
      <4>1. parent[y] \in S
        BY <1>3, <1>4
      <4>2. parent[y] # NoNode
        BY <1>2, <1>4, <4>1
      <4> QED
        BY <1>1, <1>4, <3>1, <4>1, <4>2 DEF OneMakes
    <3>3. S \ {x} \subseteq Live /\ p \in S \ {x}
      BY <1>3, <2>1, <3>1
    <3> QED
      BY <1>5, <3>2, <3>3
  <2>3. CASE ~request[q].new
    <3>1. state[x] = "live" /\ Live' = Live
      BY <1>2, <1>3, <2>3 DEF Live
    <3>2. request[q].at = "walked"
      BY <2>1
    <3>3. PICK A \in SUBSET Live : (p \in Live => p \in A) /\ Upwards(A) /\ x \notin A
      BY <1>1, <2>3, <3>2 DEF StillApart
    <3>4. \A y \in S \cap A : parent[y] \in S \cap A
      <4> SUFFICES ASSUME NEW y \in S, y \in A PROVE parent[y] \in S /\ parent[y] \in A
        OBVIOUS
      <4>1. y # x /\ y \in Nodes
        BY <1>4, <3>3
      <4>2. parent[y] \in S /\ parent[y] \in Live
        BY <1>3, <3>1, <4>1
      <4> QED
        BY <3>3, <4>2 DEF Upwards
    <3>5. p \in S \cap A /\ S \cap A \subseteq Live
      BY <2>1, <3>1, <3>3
    <3> QED
      BY <1>5, <3>4, <3>5
  <2> QED
    BY <2>2, <2>3
<1> QED
  BY <1>6, <1>7

LEMMA WriteKeeps ==
  ASSUME TreesConstantsOK, TreesIInv, NEW q \in Requests, Write(q)
  PROVE  TreesIInv'
<1> DEFINE x == request[q].node
           p == request[q].under
<1>1. /\ request[q].at \in {"resolved", "walked"}
      /\ request[q].at = "resolved" => p = NoNode
      /\ EndRequest(q) /\ UNCHANGED tree
  BY DEF Write
<1>2. /\ TreesTypeOK /\ OneHolds /\ OneMakes /\ StillApart /\ StillFound /\ LockedUnderParents
      /\ NoLoops
  BY DEF TreesIInv
<1>3. /\ request[q] # NoRequest /\ x \in Nodes /\ p \in Nodes \cup {NoNode}
      /\ request[q].new \in BOOLEAN /\ NoNode \notin Nodes
  BY <1>1, <1>2, RequestTypes DEF TreesConstantsOK
<1>4. CASE ~(request[q].new \/ state[x] = "live")
  <2>1. NodesOnly
    BY <1>1, <1>4 DEF Write, NodesOnly
  <2> QED
    BY <1>1, <2>1, RequestEnds
<1>5. CASE request[q].new \/ state[x] = "live"
  <2>1. /\ state' = [state EXCEPT ![x] = "live"]
        /\ parent' = [parent EXCEPT ![x] = p]
    BY <1>5 DEF Write
  <2>2. /\ Live' = Live \cup {x} /\ parent'[x] = p /\ state'[x] = "live"
        /\ \A y \in Nodes : y # x => parent'[y] = parent[y] /\ state'[y] = state[y]
    BY <1>2, <1>3, <2>1 DEF TreesTypeOK, Live
  <2>3. request'[q] = NoRequest /\ \A r \in Requests : r # q => request'[r] = request[r]
    BY <1>1, <1>2 DEF EndRequest, TreesTypeOK
  <2>4. NoLoops'
    BY <1>1, <1>3, <1>5, <2>1, WriteClosesNone
  <2>5. TreesTypeOK'
    BY <1>1, <1>2, <1>3, <2>1 DEF TreesTypeOK, EndRequest
  <2>6. OneHolds'
    <3>1. \A r \in Requests : Holding(r)' => Holding(r)
      BY <1>1, <2>3 DEF Holding, NoRequest
    <3> QED
      BY <1>2, <3>1 DEF OneHolds
  \* What another request is to make is not what this one has made.
  <2>7. ASSUME NEW r \in Requests, request'[r] # NoRequest
        PROVE  /\ r # q /\ request'[r] = request[r] /\ request[r] # NoRequest
               /\ request[r].node \in Nodes /\ request[r].under \in Nodes \cup {NoNode}
               /\ request[r].node = x => ~request[q].new /\ ~request[r].new
    <3>1. r # q /\ request'[r] = request[r] /\ request[r] # NoRequest
      BY <2>3, <2>7
    <3>2. request[r].node = x => ~request[q].new /\ ~request[r].new
      BY <1>2, <1>3, <3>1 DEF OneMakes
    <3> QED
      BY <1>2, <3>1, <3>2, RequestTypes
  <2>8. OneMakes'
    <3>1. ASSUME NEW r \in Requests, request'[r] # NoRequest
          PROVE  /\ request'[r].new <=> state'[request'[r].node] = "absent"
                 /\ request'[r].new => request'[r].at \in Writing
                 /\ request'[r].under # NoNode => state'[request'[r].under] # "absent"
      <4>1. state'[request[r].node] = "absent" <=> state[request[r].node] = "absent"
        BY <1>2, <1>5, <2>2, <2>7, <3>1 DEF OneMakes
      <4> QED
        BY <1>2, <2>2, <2>7, <3>1, <4>1 DEF OneMakes
    <3>2. ASSUME NEW r \in Requests, NEW v \in Requests, v # r, request'[r] # NoRequest,
                 request'[v] # NoRequest, request'[r].new
          PROVE  request'[v].node # request'[r].node
      BY <1>2, <2>7, <3>2 DEF OneMakes
    <3>3. p # NoNode => state[p] # "absent"
      BY <1>2, <1>3 DEF OneMakes
    <3>4. ASSUME NEW y \in Nodes, parent'[y] # NoNode PROVE state'[parent'[y]] # "absent"
      <4>1. parent'[y] \in Nodes
        BY <2>5, <3>4 DEF TreesTypeOK
      <4> QED
        BY <1>2, <2>2, <3>3, <3>4, <4>1 DEF OneMakes
    <3> QED
      BY <3>1, <3>2, <3>4 DEF OneMakes
  \* While another has walked, this one writes a root.
  <2>9. ASSUME NEW r \in Requests, r # q, Holding(r) PROVE p = NoNode
    <3>1. request[q].at = "walked" => Holding(q)
      BY DEF Holding
    <3> QED
      BY <1>1, <1>2, <2>9, <3>1 DEF OneHolds
  <2>10. StillApart'
    <3> SUFFICES ASSUME NEW r \in Requests, request'[r].at = "walked", ~request'[r].new
                 PROVE  \E A \in SUBSET Live' :
                          /\ request'[r].under \in Live' => request'[r].under \in A
                          /\ Upwards(A)' /\ request'[r].node \notin A
      BY DEF StillApart
    <3>1. request'[r] # NoRequest
      BY DEF NoRequest
    <3>2. request[r].at = "walked" /\ ~request[r].new /\ p = NoNode
      BY <2>7, <2>9, <3>1 DEF Holding
    <3>3. PICK A \in SUBSET Live : /\ request[r].under \in Live => request[r].under \in A
                                 /\ Upwards(A) /\ request[r].node \notin A
      BY <1>2, <3>2 DEF StillApart
    <3>4. request[r].under \in Live' => request[r].under \in Live
      <4>1. request[r].under # NoNode => state[request[r].under] # "absent"
        BY <1>2, <2>7, <3>1 DEF OneMakes
      <4>2. x \in Live \/ state[x] = "absent"
        BY <1>2, <1>3, <1>5 DEF OneMakes, Live
      <4> QED
        BY <1>3, <2>2, <4>1, <4>2
    <3>5. Upwards(A)'
      <4> SUFFICES ASSUME NEW y \in A, parent'[y] \in Live' PROVE parent'[y] \in A
        BY DEF Upwards
      <4>1. y \in Nodes /\ y # x /\ parent'[y] = parent[y]
        BY <1>3, <2>2, <3>2 DEF Live
      <4>2. parent[y] # NoNode
        BY <1>3, <4>1 DEF Live
      <4>3. state[parent[y]] # "absent"
        BY <1>2, <4>1, <4>2 DEF OneMakes
      <4>4. parent[y] \in Live
        BY <1>2, <1>3, <1>5, <2>2, <4>1, <4>3 DEF OneMakes, Live
      <4> QED
        BY <3>3, <4>1, <4>4 DEF Upwards
    <3> QED
      BY <2>2, <2>7, <3>1, <3>3, <3>4, <3>5
  <2>11. StillFound'
    <3> SUFFICES ASSUME tree = "facilities", NEW r \in Requests
                 PROVE  /\ request'[r].at \in {"live", "walked"} => request'[r].under \in Live'
                        /\ request'[r].at = "counted" => Children(request[r].node)' = {}
      BY <1>1 DEF StillFound
    <3>1. ASSUME request'[r].at \in {"live", "walked"} PROVE request'[r].under \in Live'
      <4>1. request'[r] = request[r]
        BY <2>3, <3>1 DEF NoRequest
      <4> QED
        BY <1>2, <2>2, <3>1, <4>1 DEF StillFound
    <3>2. ASSUME request'[r].at = "counted" PROVE Children(request[r].node)' = {}
      <4>1. request'[r] # NoRequest
        BY <3>2 DEF NoRequest
      <4>2. /\ r # q /\ request'[r] = request[r] /\ request[r].node \in Nodes
            /\ Children(request[r].node) = {} /\ p = NoNode
        BY <1>2, <2>7, <2>9, <3>2, <4>1 DEF StillFound, Holding
      <4>3. \A y \in Live' : parent'[y] # request[r].node
        <5> SUFFICES ASSUME NEW y \in Live' PROVE parent'[y] # request[r].node
          OBVIOUS
        <5>1. CASE y = x
          BY <1>3, <2>2, <4>2, <5>1
        <5>2. CASE y # x
          BY <2>2, <4>2, <5>2 DEF Children, Live
        <5> QED
          BY <5>1, <5>2
      <4> QED
        BY <4>2, <4>3 DEF Children
    <3> QED
      BY <3>1, <3>2
  <2>12. LockedUnderParents'
    BY <1>2, <2>3 DEF LockedUnderParents, NoRequest
  <2>13. tree' = "facilities" => NothingUnderTheDeleted'
    <3> SUFFICES ASSUME tree = "facilities" PROVE NothingUnderTheDeleted'
      BY <1>1
    <3>1. p \in Live \cup {NoNode}
      BY <1>1, <1>2 DEF StillFound
    <3>2. NothingUnderTheDeleted
      BY DEF TreesIInv
    <3>3. \A y \in Live' : parent'[y] \in Live' \cup {NoNode}
      <4> SUFFICES ASSUME NEW y \in Live' PROVE parent'[y] \in Live' \cup {NoNode}
        OBVIOUS
      <4>1. CASE y = x
        BY <2>2, <3>1, <4>1
      <4>2. CASE y # x
        BY <2>2, <3>2, <4>2 DEF NothingUnderTheDeleted, Live
      <4> QED
        BY <4>1, <4>2
    <3> QED
      BY <3>3 DEF NothingUnderTheDeleted
  <2> QED
    BY <2>4, <2>5, <2>6, <2>8, <2>10, <2>11, <2>12, <2>13 DEF TreesIInv
<1> QED
  BY <1>4, <1>5

LEMMA SoftDeleteKeeps ==
  ASSUME TreesConstantsOK, TreesIInv, NEW q \in Requests, SoftDelete(q)
  PROVE  TreesIInv'
<1> DEFINE x == request[q].node
<1>1. /\ request[q].at = "counted" /\ state' = [state EXCEPT ![x] = "deleted"]
      /\ EndRequest(q) /\ UNCHANGED <<tree, parent>>
  BY DEF SoftDelete
<1>2. /\ TreesTypeOK /\ OneHolds /\ OneMakes /\ StillApart /\ StillFound /\ LockedUnderParents
      /\ NoLoops
  BY DEF TreesIInv
<1>3. /\ request[q] # NoRequest /\ x \in Nodes /\ NoNode \notin Nodes
      /\ ~request[q].new
  <2>1. request[q] # NoRequest /\ x \in Nodes
    BY <1>1, <1>2, RequestTypes
  <2>2. "counted" \notin Writing
    BY DEF Writing
  <2> QED
    BY <1>1, <1>2, <2>1, <2>2 DEF OneMakes, TreesConstantsOK
<1>4. Live' = Live \ {x} /\ state'[x] = "deleted" /\ \A y \in Nodes : y # x => state'[y] = state[y]
  BY <1>1, <1>2, <1>3 DEF TreesTypeOK, Live
<1>5. request'[q] = NoRequest /\ \A r \in Requests : r # q => request'[r] = request[r]
  BY <1>1, <1>2 DEF EndRequest, TreesTypeOK
<1>6. TreesTypeOK'
  BY <1>1, <1>2, <1>3 DEF TreesTypeOK, EndRequest
<1>7. OneHolds'
  <2>1. \A r \in Requests : Holding(r)' => Holding(r)
    BY <1>1, <1>5 DEF Holding, NoRequest
  <2> QED
    BY <1>2, <2>1 DEF OneHolds
<1>8. OneMakes'
  <2>1. \A y \in Nodes : state'[y] = "absent" <=> state[y] = "absent"
    BY <1>2, <1>3, <1>4 DEF OneMakes
  <2>2. ASSUME NEW r \in Requests, request'[r] # NoRequest
        PROVE  /\ request'[r] = request[r] /\ request[r] # NoRequest
               /\ request[r].node \in Nodes /\ request[r].under \in Nodes \cup {NoNode}
    BY <1>2, <1>5, <2>2, RequestTypes
  <2>3. \A y \in Nodes : parent[y] \in Nodes \cup {NoNode}
    BY <1>2 DEF TreesTypeOK
  <2>4. ASSUME NEW r \in Requests, request'[r] # NoRequest
        PROVE  /\ request'[r].new <=> state'[request'[r].node] = "absent"
               /\ request'[r].new => request'[r].at \in Writing
               /\ request'[r].under # NoNode => state'[request'[r].under] # "absent"
    BY <1>2, <2>1, <2>2, <2>4 DEF OneMakes
  <2>5. ASSUME NEW r \in Requests, NEW v \in Requests, v # r, request'[r] # NoRequest,
               request'[v] # NoRequest, request'[r].new
        PROVE  request'[v].node # request'[r].node
    BY <1>2, <2>2, <2>5 DEF OneMakes
  <2> QED
    BY <1>1, <1>2, <2>1, <2>3, <2>4, <2>5 DEF OneMakes
<1>9. StillApart'
  <2> SUFFICES ASSUME NEW r \in Requests, request'[r].at = "walked", ~request'[r].new
               PROVE  \E A \in SUBSET Live' :
                        /\ request'[r].under \in Live' => request'[r].under \in A
                        /\ Upwards(A)' /\ request'[r].node \notin A
    BY DEF StillApart
  <2>1. request'[r] = request[r]
    BY <1>5 DEF NoRequest
  <2>2. PICK A \in SUBSET Live : /\ request[r].under \in Live => request[r].under \in A
                               /\ Upwards(A) /\ request[r].node \notin A
    BY <1>2, <2>1 DEF StillApart
  <2>3. PICK B \in SUBSET Live' : B = A \ {x}
    BY <1>4
  <2>4. Upwards(B)'
    BY <1>1, <1>4, <2>2, <2>3 DEF Upwards
  <2> QED
    BY <1>4, <2>1, <2>2, <2>3, <2>4
\* The lock keeps the two kinds apart.
<1>10. StillFound'
  <2> SUFFICES ASSUME tree = "facilities", NEW r \in Requests
               PROVE  /\ request'[r].at \in {"live", "walked"} => request'[r].under \in Live'
                      /\ request'[r].at = "counted" => Children(request[r].node)' = {}
    BY <1>1 DEF StillFound
  <2>1. Holding(q) /\ \A v \in Requests : v # q => ~Holding(v)
    BY <1>1, <1>2 DEF Holding, OneHolds
  <2>2. request'[r].at \notin {"live", "walked", "counted"}
    BY <1>5, <2>1 DEF Holding, NoRequest
  <2> QED
    BY <2>2
<1>11. LockedUnderParents'
  BY <1>2, <1>5 DEF LockedUnderParents, NoRequest
<1>12. NoLoops'
  <2> SUFFICES ASSUME NEW S \in SUBSET Live', S # {}, \A y \in S : parent'[y] \in S PROVE FALSE
    BY DEF NoLoops
  <2> QED
    BY <1>1, <1>2, <1>4 DEF NoLoops
<1>13. tree' = "facilities" => NothingUnderTheDeleted'
  <2> SUFFICES ASSUME tree = "facilities", NEW y \in Live'
               PROVE  parent'[y] \in Live' \cup {NoNode}
    BY <1>1 DEF NothingUnderTheDeleted
  <2>1. parent[y] \in Live \cup {NoNode}
    BY <1>4 DEF TreesIInv, NothingUnderTheDeleted
  <2>2. parent[y] # x
    BY <1>1, <1>2, <1>4 DEF StillFound, Children
  <2> QED
    BY <1>1, <1>4, <2>1, <2>2
<1> QED
  BY <1>6, <1>7, <1>8, <1>9, <1>10, <1>11, <1>12, <1>13 DEF TreesIInv

LEMMA TreesNextInvariant ==
  ASSUME TreesConstantsOK, TreesIInv, [TreesNext]_treeVars
  PROVE  TreesIInv'
<1>0. /\ TreesTypeOK /\ OneHolds /\ OneMakes /\ StillApart /\ StillFound /\ LockedUnderParents
  BY DEF TreesIInv
<1>1. ASSUME NEW q \in Requests, NEW x \in Nodes, NEW p \in Nodes \cup {NoNode}, Resolve(q, x, p)
      PROVE  TreesIInv'
  <2> DEFINE to == [at |-> "resolved", node |-> x, under |-> p, new |-> state[x] = "absent"]
  <2>1. /\ request[q] = NoRequest /\ NodesOnly /\ request' = [request EXCEPT ![q] = to]
        /\ state[x] = "absent" => \A r \in Requests : request[r] # NoRequest => request[r].node # x
        /\ p \in Live \cup {NoNode}
    BY <1>1 DEF Resolve
  <2>2. /\ to \in RequestRows /\ to.at = "resolved" /\ to.node = x /\ to.under = p
        /\ to.new = (state[x] = "absent")
    BY DEF RequestRows, Writing
  <2>3. p # NoNode => state[p] # "absent"
    BY <2>1 DEF Live
  <2> HIDE DEF to
  <2>4. to.at \in Writing /\ to.at \notin {"locked", "live", "walked", "entered", "held", "counted"}
    BY <2>2 DEF Writing
  <2> QED
    BY <2>1, <2>2, <2>3, <2>4, RequestMoves
<1>2. ASSUME NEW q \in Requests, NEW x \in Nodes, BeginDelete(q, x)
      PROVE  TreesIInv'
  <2> DEFINE to == [at |-> "deleting", node |-> x, under |-> NoNode, new |-> FALSE]
  <2>1. NodesOnly /\ request' = [request EXCEPT ![q] = to] /\ state[x] = "live"
    BY <1>2 DEF BeginDelete, Live
  <2>2. /\ to \in RequestRows /\ to.at = "deleting" /\ to.node = x /\ to.under = NoNode
        /\ ~to.new
    BY DEF RequestRows, Deleting
  <2> HIDE DEF to
  <2>3. to.at \notin {"locked", "live", "walked", "entered", "held", "counted"}
    BY <2>2
  <2> QED
    BY <2>1, <2>2, <2>3, RequestMoves
<1>3. ASSUME NEW q \in Requests, LockHierarchy(q) PROVE TreesIInv'
  <2>1. /\ request[q].at = "resolved" /\ request[q].under # NoNode /\ HierarchyIsFree
        /\ MoveOn(q, "locked") /\ NodesOnly
    BY <1>3 DEF LockHierarchy
  <2>2. request[q] # NoRequest
    BY <2>1 DEF NoRequest
  <2>3. "locked" \in Writing
    BY DEF Writing
  <2> QED
    BY <2>1, <2>2, <2>3, RequestGoesOn
<1>4. ASSUME NEW q \in Requests, ReadParentAgain(q) PROVE TreesIInv'
  <2>1. /\ request[q].at = "locked" /\ NodesOnly
        /\ IF request[q].under \in Live THEN MoveOn(q, "live") ELSE EndRequest(q)
    BY <1>4 DEF ReadParentAgain
  <2>2. request[q] # NoRequest /\ Holding(q) /\ request[q].under # NoNode
    BY <1>0, <2>1 DEF NoRequest, Holding, LockedUnderParents
  <2>3. "live" \in Writing
    BY DEF Writing
  <2> QED
    BY <2>1, <2>2, <2>3, RequestGoesOn, RequestEnds
<1>5. ASSUME NEW q \in Requests, WalkUp(q) PROVE TreesIInv'
  <2> DEFINE found == Ancestry(request[q].under)
  <2>1. /\ request[q].at = "live" /\ NodesOnly
        /\ IF request[q].new \/ (request[q].node \notin found /\ ~Truncated(found))
             THEN MoveOn(q, "walked") ELSE EndRequest(q)
    BY <1>5 DEF WalkUp
  <2>2. request[q] # NoRequest /\ Holding(q) /\ request[q].under # NoNode
    BY <1>0, <2>1 DEF NoRequest, Holding, LockedUnderParents
  <2>3. "walked" \in Writing
    BY DEF Writing
  <2>4. CASE EndRequest(q)
    BY <2>1, <2>4, RequestEnds
  <2>5. CASE /\ request[q].new \/ request[q].node \notin found
             /\ MoveOn(q, "walked")
    <3>1. ASSUME ~request[q].new
          PROVE  \E A \in SUBSET Live : /\ request[q].under \in Live => request[q].under \in A
                                       /\ Upwards(A) /\ request[q].node \notin A
      <4>1. CASE request[q].node \in Live
        BY <2>5, <3>1, <4>1 DEF Ancestry
      <4>2. CASE request[q].node \notin Live
        BY <4>2 DEF Upwards
      <4> QED
        BY <4>1, <4>2
    <3>2. tree = "facilities" => request[q].under \in Live
      BY <1>0, <2>1 DEF StillFound
    <3> QED
      BY <2>1, <2>2, <2>3, <2>5, <3>1, <3>2, RequestGoesOn
  <2> QED
    BY <2>1, <2>4, <2>5
<1>6. ASSUME NEW q \in Requests, EnterDelete(q) PROVE TreesIInv'
  <2>1. /\ request[q].at = "deleting" /\ (tree = "facilities" => HierarchyIsFree)
        /\ MoveOn(q, "entered") /\ NodesOnly
    BY <1>6 DEF EnterDelete
  <2>2. request[q] # NoRequest /\ "entered" \in Deleting /\ "deleting" \notin Writing
    BY <2>1 DEF NoRequest, Deleting, Writing
  <2> QED
    BY <2>1, <2>2, RequestGoesOn
<1>7. ASSUME NEW q \in Requests, LockRow(q) PROVE TreesIInv'
  <2>1. /\ request[q].at = "entered" /\ NodesOnly
        /\ MoveOn(q, "held") \/ EndRequest(q)
    BY <1>7 DEF LockRow
  <2>2. request[q] # NoRequest /\ "held" \in Deleting /\ "entered" \notin Writing
    BY <2>1 DEF NoRequest, Deleting, Writing
  <2>3. tree = "facilities" => Holding(q)
    BY <2>1 DEF Holding
  <2> QED
    BY <2>1, <2>2, <2>3, RequestGoesOn, RequestEnds
<1>8. ASSUME NEW q \in Requests, CountChildren(q) PROVE TreesIInv'
  <2>1. /\ request[q].at = "held" /\ NodesOnly
        /\ IF Children(request[q].node) = {} THEN MoveOn(q, "counted") ELSE EndRequest(q)
    BY <1>8 DEF CountChildren
  <2>2. request[q] # NoRequest /\ "counted" \in Deleting /\ "held" \notin Writing
    BY <2>1 DEF NoRequest, Deleting, Writing
  <2>3. tree = "facilities" => Holding(q)
    BY <2>1 DEF Holding
  <2> QED
    BY <2>1, <2>2, <2>3, RequestGoesOn, RequestEnds
<1>9. ASSUME NEW q \in Requests, LoseRequest(q) PROVE TreesIInv'
  BY <1>9, RequestEnds DEF LoseRequest
<1>10. CASE UNCHANGED treeVars
  <2>1. UNCHANGED <<tree, state, parent, request>>
    BY <1>10 DEF treeVars
  <2> QED
    BY <1>0, <2>1 DEF TreesIInv, TreesTypeOK, OneHolds, Holding, OneMakes, StillApart, StillFound,
                      LockedUnderParents, NoLoops, NothingUnderTheDeleted, Live, Upwards, Children
<1> QED
  BY <1>1, <1>2, <1>3, <1>4, <1>5, <1>6, <1>7, <1>8, <1>9, <1>10, WriteKeeps, SoftDeleteKeeps
     DEF TreesNext

(* The inductive invariant of a tree: who walks up holds the one lock of the  *)
(* hierarchy, and what it has passed is still found by walking up            *)
(* (lock_facility_hierarchy, lock_department_hierarchy, refuse_cycle).       *)
THEOREM TreesInvariance ==
  ASSUME TreesConstantsOK
  PROVE  TreesSpec => []TreesIInv
<1>1. TreesInit => TreesIInv
  BY TreesInitInvariant
<1>2. TreesIInv /\ [TreesNext]_treeVars => TreesIInv'
  BY TreesNextInvariant
<1> QED
  BY <1>1, <1>2, PTL DEF TreesSpec

(* The nodes of a tree and the requests that move them keep their shapes.    *)
THEOREM TreesTypeCorrect ==
  ASSUME TreesConstantsOK
  PROVE  TreesSpec => []TreesTypeOK
<1>1. TreesIInv => TreesTypeOK
  BY DEF TreesIInv
<1> QED
  BY <1>1, TreesInvariance, PTL

(* No two moves at once close a circle: from each node the walk up ends; and *)
(* a node that is deleted has no live node under it, in the tree whose       *)
(* deletions take the lock (update_facility, delete_facility,                *)
(* update_department).                                                       *)
THEOREM TreesAreWhole ==
  ASSUME TreesConstantsOK
  PROVE  TreesSpec => []TreesStayWhole
<1>1. TreesIInv => TreesStayWhole
  BY DEF TreesIInv, TreesStayWhole
<1> QED
  BY <1>1, TreesInvariance, PTL

-----------------------------------------------------------------------------
(* Revisions and the roles they name                                       *)

PublishJobs == [at : {"opened", "held", "scoped"}, kind : {"publish"},
                revision : Revisions, content : Contents, needs : SUBSET Roles]
StartJobs == [at : {"opened", "held"}, kind : {"start"},
              revision : Revisions, process : Processes, needs : SUBSET Roles]
TaskJobs == [at : {"opened", "held"}, kind : {"decide", "reassign"},
             process : Processes, needs : SUBSET Roles]
DeleteJobs == [at : {"locked", "counted", "deleting"}, kind : {"delete role"}, role : Roles]
JobRows == PublishJobs \cup StartJobs \cup TaskJobs \cup DeleteJobs

IsA(j, kinds) == j # NoJob /\ j.kind \in kinds

\* What a transaction read is still so.
Grounded(j) ==
    /\ IsA(j, {"publish"}) =>
         /\ revision[j.revision].status = "DRAFT" /\ revision[j.revision].content = j.content
         /\ j.needs = Named(j.content)
         /\ j.at = "scoped" => Scope[j.content] \in liveDepartments \cup {Nothing}
    /\ IsA(j, {"start"}) =>
         /\ revision[j.revision].status = "ACTIVE"
         /\ j.needs = TaskRoles(revision[j.revision].content, 1)
         /\ process[j.process] = NotStarted
    /\ IsA(j, {"decide", "reassign"}) => process[j.process].at > 0
    /\ IsA(j, {"decide"}) =>
         /\ process[j.process].at + 1 \in States(Content(j.process))
         /\ j.needs = TaskRoles(Content(j.process), process[j.process].at + 1)
    /\ IsA(j, {"reassign"}) => \E r \in Roles : j.needs = {r}
    /\ j.at \in {"held", "scoped"} => j.needs \subseteq liveRoles
    /\ j.at \in {"counted", "deleting"} => Needing(j.role) = {}
    /\ j.at = "deleting" =>
         \A v \in Revisions : Published(v) => j.role \notin Named(revision[v].content)

\* Two transactions that are open at once.
Apart(i, j) ==
    /\ IsA(i, {"publish"}) /\ IsA(j, {"publish", "start"}) => i.revision # j.revision
    /\ IsA(i, Starting) /\ IsA(j, Starting) => i.process # j.process
    /\ IsA(i, {"delete role"}) /\ j.at \in {"held", "scoped"} => i.role \notin j.needs

Types == PublishingTypeOK /\ job \in [Actors -> {NoJob} \cup JobRows]
JobsInv == \A a \in Actors : Grounded(job[a])
LocksInv == \A a, b \in Actors : a # b => Apart(job[a], job[b])

\* A process runs on a revision that was published and is not deleted.
RunsInv ==
    \A p \in Processes : process[p].at > 0 =>
        revision[process[p].revision].status \in {"ACTIVE", "DEPRECATED"}

PublishingInv == Types /\ JobsInv /\ LocksInv /\ RunsInv /\ NoRoleIsMissing

LEMMA PublishingInitInvariant == ASSUME PublishingConstantsOK PROVE PublishingInit => PublishingInv
<1> SUFFICES ASSUME PublishingInit PROVE PublishingInv
  OBVIOUS
<1>1. Types
  BY DEF PublishingInit, Types, PublishingTypeOK, NotStarted
<1>2. JobsInv
  BY DEF PublishingInit, JobsInv, Grounded, IsA, NoJob
<1>3. LocksInv
  BY DEF PublishingInit, LocksInv, Apart, IsA, NoJob
<1>4. RunsInv /\ NoRoleIsMissing
  BY DEF PublishingInit, RunsInv, NoRoleIsMissing, Published, Needing, NotStarted, Unwritten
<1> QED
  BY <1>1, <1>2, <1>3, <1>4 DEF PublishingInv

\* The roles of one state are among those the revision names.
LEMMA TaskRolesAreNamed ==
  ASSUME PublishingConstantsOK, NEW c \in Contents, NEW s \in States(c)
  PROVE  TaskRoles(c, s) \subseteq Named(c) /\ TaskRoles(c, s) \subseteq Roles
<1>1. TaskRoles(c, s) \subseteq Named(c)
  BY DEF TaskRoles, Named
<1>2. TaskRoles(c, s) \subseteq Roles
  BY DEF TaskRoles, PublishingConstantsOK
<1> QED
  BY <1>1, <1>2

\* A task is offered to one of the roles it needs, or to the owner.
LEMMA OfferedIsNeeded ==
  ASSUME PublishingConstantsOK, NEW c \in Contents, NEW s \in States(c)
  PROVE  /\ Offered[c][s] \in Roles \cup {Nothing}
         /\ \A r \in Roles : Offered[c][s] = r \/ r \in Deciding[c][s] => r \in TaskRoles(c, s)
<1>1. Offered[c] \in [States(c) -> Roles \cup {Nothing}] /\ Nothing \notin Roles
  BY DEF PublishingConstantsOK
<1> QED
  BY <1>1 DEF TaskRoles

LEMMA NamedAreRoles == ASSUME PublishingConstantsOK, NEW c \in Contents PROVE Named(c) \subseteq Roles
  BY DEF Named, PublishingConstantsOK

LEMMA WrittenIs ==
  ASSUME PublishingTypeOK, NEW v \in Revisions, revision[v].status # "none"
  PROVE  revision[v] \in RevisionRows
  BY DEF PublishingTypeOK, Unwritten

\* What a typed process runs on.
LEMMA RunsOn ==
  ASSUME PublishingTypeOK, NEW p \in Processes, process[p].at > 0
  PROVE  /\ process[p] \in ProcessRows
         /\ process[p].at \in States(Content(p))
         /\ revision[process[p].revision].status # "none" => Content(p) \in Contents
  BY DEF PublishingTypeOK, RevisionRows, ProcessRows, NotStarted, Unwritten, Content

\* How far a transaction has got tells what it is.
Tells(j) ==
    /\ j.at \in {"opened", "held", "scoped"} =>
         /\ j \in PublishJobs \cup StartJobs \cup TaskJobs
         /\ j # NoJob /\ j.kind \in {"publish", "start", "decide", "reassign"}
         /\ j.kind = "publish" \/ j.at = "scoped" => j \in PublishJobs
         /\ j.kind = "start" => j \in StartJobs
         /\ j.kind \in {"decide", "reassign"} => j \in TaskJobs
    /\ j.at \in {"locked", "counted", "deleting"} => j \in DeleteJobs /\ j # NoJob

LEMMA AtTells == ASSUME Types, NEW a \in Actors PROVE Tells(job[a])
<1>1. \/ job[a] = NoJob \/ job[a] \in PublishJobs \/ job[a] \in StartJobs
      \/ job[a] \in TaskJobs \/ job[a] \in DeleteJobs
  BY DEF Types, JobRows
<1>2. CASE job[a] = NoJob
  BY <1>2 DEF Tells, NoJob
<1>3. CASE job[a] \in PublishJobs
  BY <1>3 DEF Tells, NoJob, PublishJobs
<1>4. CASE job[a] \in StartJobs
  BY <1>4 DEF Tells, NoJob, StartJobs
<1>5. CASE job[a] \in TaskJobs
  BY <1>5 DEF Tells, NoJob, TaskJobs
<1>6. CASE job[a] \in DeleteJobs
  <2>1. job[a].at \in {"locked", "counted", "deleting"}
    BY <1>6 DEF DeleteJobs
  <2>2. job[a] # NoJob
    BY <2>1 DEF NoJob
  <2> QED
    BY <1>6, <2>1, <2>2 DEF Tells
<1> QED
  BY <1>1, <1>2, <1>3, <1>4, <1>5, <1>6

-----------------------------------------------------------------------------
(* Steps that open, carry on or close a transaction and write nothing.     *)

LEMMA JobKeeps ==
  ASSUME PublishingInv, JobsOnly, NEW a \in Actors, NEW j \in {NoJob} \cup JobRows,
         job' = [job EXCEPT ![a] = j], Grounded(j),
         \A b \in Actors \ {a} : Apart(j, job[b]) /\ Apart(job[b], j)
  PROVE  PublishingInv'
<1>1. Types'
  BY DEF PublishingInv, Types, PublishingTypeOK, JobsOnly, Content
<1>2. \A b \in Actors : job'[b] = IF b = a THEN j ELSE job[b]
  BY DEF PublishingInv, Types
<1>3. JobsInv'
  <2> SUFFICES ASSUME NEW b \in Actors PROVE Grounded(job[b])'
    BY DEF JobsInv
  <2>1. Grounded(job'[b])
    BY <1>2 DEF PublishingInv, JobsInv
  <2> QED
    BY <2>1 DEF Grounded, JobsOnly, Content, Needing, Published, Running
<1>4. LocksInv'
  <2> SUFFICES ASSUME NEW b \in Actors, NEW c \in Actors, b # c PROVE Apart(job'[b], job'[c])
    BY DEF LocksInv, Apart, IsA
  <2> QED
    BY <1>2 DEF PublishingInv, LocksInv
<1>5. RunsInv' /\ NoRoleIsMissing'
  BY DEF PublishingInv, RunsInv, NoRoleIsMissing, JobsOnly, Content, Needing, Published, Running
<1> QED
  BY <1>1, <1>3, <1>4, <1>5 DEF PublishingInv

LEMMA FinishKeeps ==
  ASSUME PublishingInv, JobsOnly, NEW a \in Actors, Finish(a)
  PROVE  PublishingInv'
<1>1. Grounded(NoJob)
  BY DEF Grounded, IsA, NoJob
<1>2. \A b \in Actors : Apart(NoJob, job[b]) /\ Apart(job[b], NoJob)
  BY DEF Apart, IsA, NoJob
<1> QED
  BY <1>1, <1>2, JobKeeps DEF Finish

LEMMA OpenPublishKeeps ==
  ASSUME PublishingConstantsOK, PublishingInv, NEW a \in Actors, NEW v \in Revisions, OpenPublish(a, v)
  PROVE  PublishingInv'
<1> DEFINE j == [at |-> "opened", kind |-> "publish", revision |-> v,
                 content |-> revision[v].content, needs |-> Named(revision[v].content)]
<1>1. revision[v].status = "DRAFT" /\ revision[v].content \in Contents
  BY WrittenIs DEF OpenPublish, PublishingInv, Types, RevisionRows
<1>2. j \in JobRows
  BY <1>1, NamedAreRoles DEF JobRows, PublishJobs
<1>3. Grounded(j)
  BY <1>1 DEF Grounded, IsA
<1>4. ASSUME NEW b \in Actors \ {a} PROVE Apart(j, job[b]) /\ Apart(job[b], j)
  BY DEF Apart, IsA, OpenPublish, RowIsFree, Jobs, Starting
<1>5. JobsOnly /\ job' = [job EXCEPT ![a] = j]
  BY DEF OpenPublish, Open
<1> QED
  BY <1>2, <1>3, <1>4, <1>5, JobKeeps

LEMMA OpenStartKeeps ==
  ASSUME PublishingConstantsOK, PublishingInv, NEW a \in Actors, NEW p \in Processes, NEW v \in Revisions,
         OpenStart(a, p, v)
  PROVE  PublishingInv'
<1> DEFINE j == [at |-> "opened", kind |-> "start", revision |-> v, process |-> p,
                 needs |-> TaskRoles(revision[v].content, 1)]
<1>1. revision[v].status = "ACTIVE" /\ revision[v].content \in Contents
  BY WrittenIs DEF OpenStart, PublishingInv, Types, RevisionRows
<1>2. TaskRoles(revision[v].content, 1) \subseteq Roles
  BY <1>1, TaskRolesAreNamed DEF PublishingConstantsOK
<1>3. j \in JobRows
  BY <1>2 DEF JobRows, StartJobs
<1>4. Grounded(j)
  BY <1>1 DEF Grounded, IsA, OpenStart
<1>5. ASSUME NEW b \in Actors \ {a} PROVE Apart(j, job[b]) /\ Apart(job[b], j)
  BY DEF Apart, IsA, OpenStart, MayShareRow, ProcessIsFree, Jobs, Starting
<1>6. JobsOnly /\ job' = [job EXCEPT ![a] = j]
  BY DEF OpenStart, Open
<1> QED
  BY <1>3, <1>4, <1>5, <1>6, JobKeeps

LEMMA OpenDecisionKeeps ==
  ASSUME PublishingConstantsOK, PublishingInv, NEW a \in Actors, NEW p \in Processes, OpenDecision(a, p)
  PROVE  PublishingInv'
<1> DEFINE s == process[p].at + 1
           j == [at |-> "opened", kind |-> "decide", process |-> p,
                 needs |-> TaskRoles(Content(p), s)]
<1>1. process[p].at > 0 /\ s \in States(Content(p))
  BY DEF OpenDecision
<1>2. Content(p) \in Contents
  BY <1>1, RunsOn DEF PublishingInv, Types, RunsInv
<1>3. j \in JobRows
  BY <1>1, <1>2, TaskRolesAreNamed DEF JobRows, TaskJobs
<1>4. Grounded(j)
  BY <1>1 DEF Grounded, IsA
<1>5. ASSUME NEW b \in Actors \ {a} PROVE Apart(j, job[b]) /\ Apart(job[b], j)
  BY DEF Apart, IsA, OpenDecision, ProcessIsFree, Jobs, Starting
<1>6. JobsOnly /\ job' = [job EXCEPT ![a] = j]
  BY DEF OpenDecision, Open
<1> QED
  BY <1>3, <1>4, <1>5, <1>6, JobKeeps

LEMMA OpenReassignKeeps ==
  ASSUME PublishingInv, NEW a \in Actors, NEW p \in Processes, NEW r \in Roles, OpenReassign(a, p, r)
  PROVE  PublishingInv'
<1> DEFINE j == [at |-> "opened", kind |-> "reassign", process |-> p, needs |-> {r}]
<1>1. j \in JobRows
  BY DEF JobRows, TaskJobs
<1>2. Grounded(j)
  BY DEF Grounded, IsA, OpenReassign
<1>3. ASSUME NEW b \in Actors \ {a} PROVE Apart(j, job[b]) /\ Apart(job[b], j)
  BY DEF Apart, IsA, OpenReassign, ProcessIsFree, Jobs, Starting
<1>4. JobsOnly /\ job' = [job EXCEPT ![a] = j]
  BY DEF OpenReassign, Open
<1> QED
  BY <1>1, <1>2, <1>3, <1>4, JobKeeps

LEMMA OpenDeleteRoleKeeps ==
  ASSUME PublishingInv, NEW a \in Actors, NEW r \in Roles, OpenDeleteRole(a, r)
  PROVE  PublishingInv'
<1> DEFINE j == [at |-> "locked", kind |-> "delete role", role |-> r]
<1>1. j \in JobRows
  BY DEF JobRows, DeleteJobs
<1>2. Grounded(j)
  BY DEF Grounded, IsA
<1>3. ASSUME NEW b \in Actors \ {a} PROVE Apart(j, job[b]) /\ Apart(job[b], j)
  <2>1. ASSUME job[b].at \in {"held", "scoped"} PROVE r \notin job[b].needs
    <3>1. b \in Jobs({"publish"} \cup Starting) /\ job[b].at # "opened"
      BY <2>1, AtTells DEF Tells, Jobs, Starting, PublishingInv
    <3> QED
      BY <3>1 DEF OpenDeleteRole, RoleIsFree
  <2> QED
    BY <2>1 DEF Apart, IsA, Starting
<1>4. JobsOnly /\ job' = [job EXCEPT ![a] = j]
  BY DEF OpenDeleteRole, Open
<1> QED
  BY <1>1, <1>2, <1>3, <1>4, JobKeeps

\* Carrying on: the transaction is the same but for what it has got to.
LEMMA AtKeeps ==
  ASSUME PublishingInv, JobsOnly, NEW a \in Actors, NEW x, At(a, x), job[a] # NoJob,
         x # "idle", [job[a] EXCEPT !.at = x] \in JobRows,
         Grounded([job[a] EXCEPT !.at = x]),
         x \in {"held", "scoped"} /\ job[a].at \notin {"held", "scoped"} =>
            \A b \in Actors \ {a} : IsA(job[b], {"delete role"}) => job[b].role \notin job[a].needs
  PROVE  PublishingInv'
<1> DEFINE j == [job[a] EXCEPT !.at = x]
<1>1. job' = [job EXCEPT ![a] = j]
  BY DEF At
<1>2. job[a] \in JobRows
  BY DEF PublishingInv, Types
<1>3. ASSUME NEW b \in Actors \ {a} PROVE Apart(j, job[b]) /\ Apart(job[b], j)
  <2>1. Apart(job[a], job[b]) /\ Apart(job[b], job[a])
    BY DEF PublishingInv, LocksInv
  <2>2. \A kinds : IsA(j, kinds) => IsA(job[a], kinds)
    BY <1>2 DEF IsA, JobRows, PublishJobs, StartJobs, TaskJobs, DeleteJobs
  <2>3. /\ j.at = x
        /\ IsA(job[a], {"publish", "start"}) => j.revision = job[a].revision
        /\ IsA(job[a], Starting) => j.process = job[a].process
        /\ IsA(job[a], {"delete role"}) => j.role = job[a].role
        /\ x \in {"held", "scoped"} => j.needs = job[a].needs
    BY <1>2 DEF IsA, Starting, JobRows, PublishJobs, StartJobs, TaskJobs, DeleteJobs
  <2>4. Apart(j, job[b])
    <3>1. IsA(j, {"publish"}) /\ IsA(job[b], {"publish", "start"}) => j.revision # job[b].revision
      BY <2>1, <2>2, <2>3 DEF Apart, IsA
    <3>2. IsA(j, Starting) /\ IsA(job[b], Starting) => j.process # job[b].process
      BY <2>1, <2>2, <2>3 DEF Apart
    <3>3. IsA(j, {"delete role"}) /\ job[b].at \in {"held", "scoped"} => j.role \notin job[b].needs
      BY <2>1, <2>2, <2>3 DEF Apart
    <3> QED
      BY <3>1, <3>2, <3>3 DEF Apart
  <2>5. Apart(job[b], j)
    <3>1. IsA(job[b], {"publish"}) /\ IsA(j, {"publish", "start"}) => job[b].revision # j.revision
      BY <2>1, <2>2, <2>3 DEF Apart, IsA
    <3>2. IsA(job[b], Starting) /\ IsA(j, Starting) => job[b].process # j.process
      BY <2>1, <2>2, <2>3 DEF Apart
    <3>3. IsA(job[b], {"delete role"}) /\ j.at \in {"held", "scoped"} => job[b].role \notin j.needs
      BY <2>1, <2>3 DEF Apart
    <3> QED
      BY <3>1, <3>2, <3>3 DEF Apart
  <2> QED
    BY <2>4, <2>5
<1> QED
  BY <1>1, <1>3, JobKeeps
LEMMA HoldRolesKeeps ==
  ASSUME PublishingInv, NEW a \in Actors, HoldRoles(a)
  PROVE  PublishingInv'
<1>1. CASE job[a].needs \subseteq liveRoles
  <2>1. job[a] \in PublishJobs \cup StartJobs \cup TaskJobs /\ job[a].at = "opened"
    BY AtTells DEF Tells, HoldRoles, PublishingInv
  <2>2. [job[a] EXCEPT !.at = "held"] \in JobRows
    BY <2>1 DEF JobRows, PublishJobs, StartJobs, TaskJobs
  <2>3. Grounded([job[a] EXCEPT !.at = "held"])
    <3>1. Grounded(job[a])
      BY DEF PublishingInv, JobsInv
    <3> QED
      BY <1>1, <2>1, <3>1 DEF Grounded, IsA, PublishJobs, StartJobs, TaskJobs, NoJob
  <2>4. \A b \in Actors \ {a} : IsA(job[b], {"delete role"}) => job[b].role \notin job[a].needs
    BY DEF HoldRoles, MayShareRoles, Jobs, IsA
  <2>5. JobsOnly /\ At(a, "held") /\ job[a] # NoJob
    BY <1>1, <2>1 DEF HoldRoles, NoJob
  <2> QED
    BY <2>2, <2>3, <2>4, <2>5, AtKeeps
<1>2. CASE ~(job[a].needs \subseteq liveRoles)
  BY <1>2, FinishKeeps DEF HoldRoles
<1> QED
  BY <1>1, <1>2

LEMMA HoldDepartmentKeeps ==
  ASSUME PublishingInv, NEW a \in Actors, HoldDepartment(a)
  PROVE  PublishingInv'
<1>1. CASE Scope[job[a].content] \in liveDepartments \cup {Nothing}
  <2>1. job[a] \in PublishJobs /\ job[a].at = "held"
    BY AtTells DEF Tells, HoldDepartment, PublishingInv
  <2>2. [job[a] EXCEPT !.at = "scoped"] \in JobRows
    BY <2>1 DEF JobRows, PublishJobs
  <2>3. Grounded([job[a] EXCEPT !.at = "scoped"])
    <3>1. Grounded(job[a])
      BY DEF PublishingInv, JobsInv
    <3> QED
      BY <1>1, <2>1, <3>1 DEF Grounded, IsA, PublishJobs, NoJob
  <2>4. JobsOnly /\ At(a, "scoped") /\ job[a] # NoJob
    BY <1>1, <2>1 DEF HoldDepartment, NoJob
  <2> QED
    BY <2>1, <2>2, <2>3, <2>4, AtKeeps
<1>2. CASE Scope[job[a].content] \notin liveDepartments \cup {Nothing}
  BY <1>2, FinishKeeps DEF HoldDepartment
<1> QED
  BY <1>1, <1>2

LEMMA CountTasksKeeps ==
  ASSUME PublishingInv, NEW a \in Actors, CountTasks(a)
  PROVE  PublishingInv'
<1>1. CASE Needing(job[a].role) = {}
  <2>1. job[a] \in DeleteJobs /\ job[a].at = "locked"
    BY AtTells DEF Tells, CountTasks, PublishingInv
  <2>2. [job[a] EXCEPT !.at = "counted"] \in JobRows
    BY <2>1 DEF JobRows, DeleteJobs
  <2>3. Grounded([job[a] EXCEPT !.at = "counted"])
    BY <1>1, <2>1 DEF Grounded, IsA, DeleteJobs
  <2>4. JobsOnly /\ At(a, "counted") /\ job[a] # NoJob
    BY <1>1, <2>1 DEF CountTasks, NoJob
  <2> QED
    BY <2>2, <2>3, <2>4, AtKeeps
<1>2. CASE Needing(job[a].role) # {}
  BY <1>2, FinishKeeps DEF CountTasks
<1> QED
  BY <1>1, <1>2

LEMMA CountRevisionsKeeps ==
  ASSUME PublishingInv, NEW a \in Actors, CountRevisions(a)
  PROVE  PublishingInv'
<1> DEFINE named == \E v \in Revisions :
                       Published(v) /\ job[a].role \in Named(revision[v].content)
<1>1. CASE ~named
  <2>1. job[a] \in DeleteJobs /\ job[a].at = "counted"
    BY AtTells DEF Tells, CountRevisions, PublishingInv
  <2>2. [job[a] EXCEPT !.at = "deleting"] \in JobRows
    BY <2>1 DEF JobRows, DeleteJobs
  <2>3. Needing(job[a].role) = {}
    BY <2>1 DEF PublishingInv, JobsInv, Grounded
  <2>4. Grounded([job[a] EXCEPT !.at = "deleting"])
    BY <1>1, <2>1, <2>3 DEF Grounded, IsA, DeleteJobs
  <2>5. JobsOnly /\ At(a, "deleting") /\ job[a] # NoJob
    BY <1>1, <2>1 DEF CountRevisions, NoJob
  <2> QED
    BY <2>2, <2>4, <2>5, AtKeeps
<1>2. CASE named
  BY <1>2, FinishKeeps DEF CountRevisions
<1> QED
  BY <1>1, <1>2

LEMMA RollBackKeeps ==
  ASSUME PublishingInv, NEW a \in Actors, RollBack(a)
  PROVE  PublishingInv'
  BY FinishKeeps DEF RollBack

-----------------------------------------------------------------------------
(* Steps that write and leave the open transactions as they are.  Each     *)
(* obligation is said of what the step may disturb.                        *)

\* Nothing that a transaction read, a process or a role depends on is disturbed.
LEMMA RevisionWriteKeeps ==
  ASSUME PublishingInv, UNCHANGED job, PublishingTypeOK', RunsInv', NoRoleIsMissing',
         \A a \in Actors : Grounded(job[a])'
  PROVE  PublishingInv'
<1>1. Types'
  BY DEF PublishingInv, Types
<1>2. JobsInv'
  BY DEF JobsInv
<1>3. LocksInv'
  BY DEF PublishingInv, LocksInv, Apart, IsA
<1> QED
  BY <1>1, <1>2, <1>3 DEF PublishingInv

\* A revision on which nothing is being published or started changes: it is
\* written, it is superseded, or it is deleted with nothing running on it.
LEMMA RevisionKeeps ==
  ASSUME PublishingInv, PublishingTypeOK', NEW v \in Revisions,
         UNCHANGED <<process, liveRoles, liveDepartments, job>>,
         \A w \in Revisions : w # v => revision'[w] = revision[w],
         \A a \in Actors : IsA(job[a], {"publish", "start"}) => job[a].revision # v,
         \/ revision'[v].status \in {"DRAFT", "DELETED"} /\ Running(v) = {}
         \/ /\ revision[v].status = "ACTIVE" /\ revision'[v].status = "DEPRECATED"
            /\ revision'[v].content = revision[v].content
  PROVE  PublishingInv'
<1>1. ASSUME NEW p \in Processes, process[p].at > 0
      PROVE  /\ Content(p)' = Content(p)
             /\ revision'[process[p].revision].status \in {"ACTIVE", "DEPRECATED"}
  <2>1. process[p].revision \in Revisions /\ p \in Running(process[p].revision)
    BY <1>1, RunsOn DEF PublishingInv, Types, Running, ProcessRows
  <2> QED
    BY <1>1, <2>1 DEF Content, PublishingInv, RunsInv
<1>2. \A r : Needing(r)' = Needing(r)
  BY <1>1 DEF Needing
<1>3. ASSUME NEW w \in Revisions, Published(w)'
      PROVE  Published(w) /\ revision'[w].content = revision[w].content
  BY <1>3 DEF Published, Running
<1>4. RunsInv'
  BY <1>1 DEF RunsInv
<1>5. NoRoleIsMissing'
  BY <1>2, <1>3 DEF PublishingInv, NoRoleIsMissing
<1>6. ASSUME NEW a \in Actors PROVE Grounded(job[a])'
  <2> DEFINE j == job[a]
  <2>1. Grounded(j)
    BY DEF PublishingInv, JobsInv
  <2>2. IsA(j, {"publish", "start"}) => j.revision \in Revisions
    BY DEF PublishingInv, Types, IsA, JobRows, PublishJobs, StartJobs, TaskJobs, DeleteJobs
  <2>3. IsA(j, {"publish", "start"}) => revision'[j.revision] = revision[j.revision]
    BY <2>2 DEF IsA
  <2>4. IsA(j, {"decide"}) => Content(j.process)' = Content(j.process)
    <3>1. IsA(j, {"decide"}) => j.process \in Processes
      BY DEF PublishingInv, Types, IsA, JobRows, PublishJobs, StartJobs, TaskJobs, DeleteJobs
    <3> QED
      BY <1>1, <2>1, <3>1 DEF Grounded, IsA
  <2>5. \A w \in Revisions : Published(w)' => Published(w) /\ revision'[w].content = revision[w].content
    BY <1>3
  <2> QED
    BY <1>2, <2>1, <2>3, <2>4, <2>5 DEF Grounded, IsA
<1> QED
  BY <1>4, <1>5, <1>6, RevisionWriteKeeps

LEMMA RowIsFreeOf ==
  ASSUME NEW v \in Revisions, RowIsFree(v), NEW a \in Actors, IsA(job[a], {"publish", "start"})
  PROVE  job[a].revision # v
  BY DEF RowIsFree, Jobs, IsA

LEMMA RevisionTypes ==
  ASSUME PublishingInv, NEW v \in Revisions, NEW row \in RevisionRows,
         revision' = [revision EXCEPT ![v] = row], UNCHANGED process,
         UNCHANGED <<liveRoles, liveDepartments, job>>,
         Running(v) = {} \/ row.content = revision[v].content
  PROVE  PublishingTypeOK' /\ revision'[v] = row /\ \A w \in Revisions : w # v => revision'[w] = revision[w]
<1>1. /\ revision'[v] = row /\ \A w \in Revisions : w # v => revision'[w] = revision[w]
      /\ revision' \in [Revisions -> {Unwritten} \cup RevisionRows]
  BY DEF PublishingInv, Types, PublishingTypeOK
<1>2. ASSUME NEW p \in Processes, process[p].at > 0 PROVE Content(p)' = Content(p)
  <2>1. process[p].revision \in Revisions /\ p \in Running(process[p].revision)
    BY <1>2, RunsOn DEF PublishingInv, Types, Running, ProcessRows
  <2> QED
    BY <1>1, <2>1 DEF Content
<1> QED
  BY <1>1, <1>2 DEF PublishingInv, Types, PublishingTypeOK

LEMMA CreateKeeps ==
  ASSUME PublishingInv, NEW v \in Revisions, NEW c \in Contents, Create(v, c)
  PROVE  PublishingInv'
<1> DEFINE row == [status |-> "DRAFT", content |-> c]
<1>1. Running(v) = {}
  BY DEF Create, Unwritten, Running, PublishingInv, RunsInv
<1>2. row \in RevisionRows /\ row.status = "DRAFT"
  BY DEF RevisionRows
<1>3. \A a \in Actors : IsA(job[a], {"publish", "start"}) => job[a].revision # v
  BY DEF Create, Unwritten, PublishingInv, JobsInv, Grounded, IsA
<1>4. /\ PublishingTypeOK' /\ revision'[v] = row
      /\ \A w \in Revisions : w # v => revision'[w] = revision[w]
  BY <1>1, <1>2, RevisionTypes DEF Create, RevisionsOnly
<1> QED
  BY <1>1, <1>2, <1>3, <1>4, RevisionKeeps DEF Create, RevisionsOnly

LEMMA NothingRunsOnADraft ==
  ASSUME PublishingInv, NEW v \in Revisions, revision[v].status = "DRAFT" PROVE Running(v) = {}
  BY DEF Running, PublishingInv, RunsInv

LEMMA EditKeeps ==
  ASSUME PublishingInv, NEW v \in Revisions, NEW c \in Contents, Edit(v, c)
  PROVE  PublishingInv'
<1> DEFINE row == [revision[v] EXCEPT !.content = c]
<1>1. revision[v] \in RevisionRows /\ Running(v) = {}
  BY WrittenIs, NothingRunsOnADraft DEF Edit, PublishingInv, Types
<1>2. row \in RevisionRows /\ row.status = "DRAFT"
  BY <1>1 DEF RevisionRows, Edit
<1>3. revision' = [revision EXCEPT ![v] = row]
  BY DEF Edit
<1>4. /\ PublishingTypeOK' /\ revision'[v] = row
      /\ \A w \in Revisions : w # v => revision'[w] = revision[w]
  BY <1>1, <1>2, <1>3, RevisionTypes DEF Edit, RevisionsOnly
<1> QED
  BY <1>1, <1>2, <1>4, RowIsFreeOf, RevisionKeeps DEF Edit, RevisionsOnly

LEMMA DeprecateKeeps ==
  ASSUME PublishingInv, NEW v \in Revisions, Deprecate(v)
  PROVE  PublishingInv'
<1> DEFINE row == [revision[v] EXCEPT !.status = "DEPRECATED"]
<1>1. revision[v] \in RevisionRows
  BY WrittenIs DEF Deprecate, PublishingInv, Types
<1>2. row \in RevisionRows /\ row.status = "DEPRECATED" /\ row.content = revision[v].content
  BY <1>1 DEF RevisionRows
<1>3. revision' = [revision EXCEPT ![v] = row]
  BY DEF Deprecate
<1>4. UNCHANGED <<process, liveRoles, liveDepartments, job>> /\ revision[v].status = "ACTIVE"
  BY DEF Deprecate, RevisionsOnly
<1>5. /\ PublishingTypeOK' /\ revision'[v] = row
      /\ \A w \in Revisions : w # v => revision'[w] = revision[w]
  BY <1>2, <1>3, <1>4, RevisionTypes
<1>6. \A a \in Actors : IsA(job[a], {"publish", "start"}) => job[a].revision # v
  BY RowIsFreeOf DEF Deprecate
<1> HIDE DEF row
<1> QED
  BY <1>2, <1>4, <1>5, <1>6, RevisionKeeps

LEMMA DeleteRevisionKeeps ==
  ASSUME PublishingInv, NEW v \in Revisions, DeleteRevision(v)
  PROVE  PublishingInv'
<1> DEFINE row == [revision[v] EXCEPT !.status = "DELETED"]
<1>1. revision[v] \in RevisionRows
  BY WrittenIs DEF DeleteRevision, PublishingInv, Types
<1>2. row \in RevisionRows /\ row.status = "DELETED"
  BY <1>1 DEF RevisionRows
<1>3. revision' = [revision EXCEPT ![v] = row]
  BY DEF DeleteRevision
<1>4. /\ PublishingTypeOK' /\ revision'[v] = row
      /\ \A w \in Revisions : w # v => revision'[w] = revision[w]
  BY <1>2, <1>3, RevisionTypes DEF DeleteRevision, RevisionsOnly
<1> QED
  BY <1>2, <1>4, RowIsFreeOf, RevisionKeeps DEF DeleteRevision, RevisionsOnly

\* A process moves on or ends, and needs no role that it did not need.
LEMMA ProcessKeeps ==
  ASSUME PublishingInv, PublishingTypeOK', NEW p \in Processes, ProcessIsFree(p),
         UNCHANGED <<revision, liveRoles, liveDepartments, job>>,
         \A q \in Processes : q # p => process'[q] = process[q],
         process'[p].at > 0 =>
            /\ process[p].at > 0 /\ process'[p].revision = process[p].revision
            /\ process'[p].at = process[p].at
            /\ \A r \in Roles : process'[p].offered = r /\ ~process'[p].claimed =>
                 process[p].offered = r /\ ~process[p].claimed
  PROVE  PublishingInv'
<1>1. \A q \in Processes : process'[q].at > 0 =>
        /\ process[q].at = process'[q].at /\ process[q].revision = process'[q].revision
        /\ Content(q)' = Content(q)
  BY DEF Content
<1>2. \A r \in Roles : Needing(r)' \subseteq Needing(r)
  BY <1>1 DEF Needing
<1>3. \A v \in Revisions : Published(v)' => Published(v)
  <2>1. \A v \in Revisions : Running(v)' \subseteq Running(v)
    BY <1>1 DEF Running
  <2> QED
    BY <2>1 DEF Published
<1>4. RunsInv'
  BY <1>1 DEF PublishingInv, RunsInv
<1>5. NoRoleIsMissing'
  BY <1>2, <1>3 DEF PublishingInv, NoRoleIsMissing
<1>6. ASSUME NEW a \in Actors PROVE Grounded(job[a])'
  <2> DEFINE j == job[a]
  <2>1. Grounded(j) /\ Tells(j)
    BY AtTells DEF PublishingInv, JobsInv
  <2>2. IsA(j, Starting) => j.process \in Processes /\ j.process # p
    BY DEF ProcessIsFree, Jobs, Starting, PublishingInv, Types, IsA, JobRows, PublishJobs, StartJobs,
           TaskJobs, DeleteJobs
  <2>3. IsA(j, Starting) =>
          process'[j.process] = process[j.process] /\ Content(j.process)' = Content(j.process)
    BY <2>2 DEF Content
  <2>4. j.at \in {"counted", "deleting"} => j.role \in Roles
    BY <2>1 DEF Tells, DeleteJobs
  <2> QED
    BY <1>2, <1>3, <2>1, <2>3, <2>4 DEF Grounded, IsA, Starting
<1> QED
  BY <1>4, <1>5, <1>6, RevisionWriteKeeps

LEMMA ProcessTypes ==
  ASSUME PublishingTypeOK, NEW p \in Processes, NEW row \in {NotStarted} \cup ProcessRows,
         process' = [process EXCEPT ![p] = row],
         row.at > 0 => row.at \in States(revision[row.revision].content),
         UNCHANGED <<revision, liveRoles, liveDepartments>>, DOMAIN job' = Actors
  PROVE  PublishingTypeOK' /\ process'[p] = row /\ \A q \in Processes : q # p => process'[q] = process[q]
<1>1. /\ process' \in [Processes -> {NotStarted} \cup ProcessRows]
      /\ process'[p] = row /\ \A q \in Processes : q # p => process'[q] = process[q]
  BY DEF PublishingTypeOK
<1>2. \A q \in Processes : process'[q].at > 0 => process'[q].at \in States(Content(q)')
  BY <1>1 DEF PublishingTypeOK, Content
<1>3. \A q \in Processes : States(Content(q))' = States(Content(q)')
  BY DEF States
<1> QED
  BY <1>1, <1>2, <1>3 DEF PublishingTypeOK, RevisionRows, ProcessRows

LEMMA TakenKeeps ==
  ASSUME PublishingInv, NEW p \in Processes, process[p].at > 0, ProcessIsFree(p),
         UNCHANGED <<revision, liveRoles, liveDepartments, job>>,
         NEW row \in ProcessRows, process' = [process EXCEPT ![p] = row],
         row.at = process[p].at, row.revision = process[p].revision, row.claimed = TRUE
  PROVE  PublishingInv'
<1>1. row.at \in States(revision[row.revision].content)
  BY RunsOn DEF PublishingInv, Types, Content
<1>2. PublishingTypeOK /\ row \in {NotStarted} \cup ProcessRows
      /\ UNCHANGED <<revision, liveRoles, liveDepartments>> /\ DOMAIN job' = Actors
  BY DEF PublishingInv, Types, PublishingTypeOK
<1>3. PublishingTypeOK' /\ process'[p] = row /\ \A q \in Processes : q # p => process'[q] = process[q]
  BY <1>1, <1>2, ProcessTypes
<1> QED
  BY <1>3, ProcessKeeps

LEMMA ClaimKeeps ==
  ASSUME PublishingInv, NEW p \in Processes, ClaimTask(p)
  PROVE  PublishingInv'
<1> DEFINE row == [process[p] EXCEPT !.claimed = TRUE]
<1>1. process[p].at > 0 /\ process[p] \in ProcessRows
  BY RunsOn DEF ClaimTask, PublishingInv, Types
<1>2. /\ row \in ProcessRows /\ row.at = process[p].at
      /\ row.revision = process[p].revision /\ row.claimed = TRUE
  BY <1>1 DEF ProcessRows
<1>3. process' = [process EXCEPT ![p] = row]
  BY DEF ClaimTask
<1> QED
  BY <1>1, <1>2, <1>3, TakenKeeps DEF ClaimTask, ProcessesOnly

LEMMA ReassignToUserKeeps ==
  ASSUME PublishingInv, NEW p \in Processes, ReassignTask(p)
  PROVE  PublishingInv'
<1> DEFINE row == [process[p] EXCEPT !.offered = Nothing, !.claimed = TRUE]
<1>1. process[p].at > 0 /\ process[p] \in ProcessRows
  BY RunsOn DEF ReassignTask, PublishingInv, Types
<1>2. /\ row \in ProcessRows /\ row.at = process[p].at
      /\ row.revision = process[p].revision /\ row.claimed = TRUE
  BY <1>1 DEF ProcessRows
<1>3. process' = [process EXCEPT ![p] = row]
  BY DEF ReassignTask
<1> QED
  BY <1>1, <1>2, <1>3, TakenKeeps DEF ReassignTask, ProcessesOnly

LEMMA EndKeeps ==
  ASSUME PublishingInv, NEW p \in Processes, End(p)
  PROVE  PublishingInv'
<1>1. ~(NotStarted.at > 0) /\ DOMAIN job' = Actors
  BY DEF NotStarted, End, PublishingInv, Types, PublishingTypeOK
<1>2. ProcessIsFree(p) /\ UNCHANGED <<revision, liveRoles, liveDepartments, job>>
  BY DEF End, ProcessesOnly
<1>3. PublishingTypeOK' /\ process'[p] = NotStarted /\ \A q \in Processes : q # p => process'[q] = process[q]
  BY <1>1, <1>2, ProcessTypes DEF End, PublishingInv, Types
<1> QED
  BY <1>1, <1>2, <1>3, ProcessKeeps

LEMMA DeleteDepartmentKeeps ==
  ASSUME PublishingInv, NEW x \in Departments, DeleteDepartment(x)
  PROVE  PublishingInv'
<1>1. /\ liveDepartments' = liveDepartments \ {x}
      /\ UNCHANGED <<revision, process, liveRoles, job>>
  BY DEF DeleteDepartment
<1>2. PublishingTypeOK'
  BY <1>1 DEF PublishingInv, Types, PublishingTypeOK, RevisionRows, ProcessRows, Content, States
<1>3. RunsInv' /\ NoRoleIsMissing'
  BY <1>1 DEF PublishingInv, RunsInv, NoRoleIsMissing, Published, Running, Needing, Content
<1>4. ASSUME NEW a \in Actors PROVE Grounded(job[a])'
  <2> DEFINE j == job[a]
  <2>1. Grounded(j)
    BY DEF PublishingInv, JobsInv
  <2>2. IsA(j, {"publish"}) /\ j.at = "scoped" => Scope[j.content] # x
    BY DEF DeleteDepartment, DepartmentIsFree, Jobs, IsA
  <2>3. IsA(j, {"publish"}) /\ j.at = "scoped" => Scope[j.content] \in liveDepartments' \cup {Nothing}
    BY <1>1, <2>1, <2>2 DEF Grounded
  <2> QED
    BY <1>1, <2>1, <2>3 DEF Grounded, IsA, Content, Needing, Published, Running
<1> QED
  BY <1>1, <1>2, <1>3, <1>4, RevisionWriteKeeps

-----------------------------------------------------------------------------
(* Commits                                                                 *)

LEMMA RevisionCommitKeeps ==
  ASSUME PublishingInv, NEW a \in Actors, Finish(a), PublishingTypeOK', RunsInv', NoRoleIsMissing',
         \A b \in Actors \ {a} : job[b] # NoJob => Grounded(job[b])'
  PROVE  PublishingInv'
<1>1. \A b \in Actors : job'[b] = IF b = a THEN NoJob ELSE job[b]
  BY DEF PublishingInv, Types, Finish
<1>2. Types'
  BY <1>1 DEF PublishingInv, Types, Finish
<1>3. JobsInv'
  <2>1. Grounded(NoJob)'
    BY DEF Grounded, IsA, NoJob
  <2>2. ASSUME NEW b \in Actors PROVE Grounded(job[b])'
    <3>1. CASE job'[b] = NoJob
      BY <2>1, <3>1 DEF Grounded
    <3>2. CASE job'[b] # NoJob
      BY <1>1, <3>2
    <3> QED
      BY <3>1, <3>2
  <2> QED
    BY <2>2 DEF JobsInv
<1>4. LocksInv'
  <2> SUFFICES ASSUME NEW b \in Actors, NEW c \in Actors, b # c PROVE Apart(job'[b], job'[c])
    BY DEF LocksInv, Apart, IsA
  <2>1. \A j : Apart(NoJob, j) /\ Apart(j, NoJob)
    BY DEF Apart, IsA, NoJob
  <2> QED
    BY <1>1, <2>1 DEF PublishingInv, LocksInv
<1> QED
  BY <1>2, <1>3, <1>4 DEF PublishingInv

\* The other open transactions work on other rows.
LEMMA CommitPublishKeeps ==
  ASSUME PublishingInv, NEW a \in Actors, CommitPublish(a)
  PROVE  /\ PublishingInv'
         /\ \E v \in Revisions :
              /\ \A w \in Revisions : w # v => revision'[w] = revision[w]
              /\ Named(revision'[v].content) \subseteq liveRoles
              /\ Scope[revision'[v].content] \in liveDepartments \cup {Nothing}
<1> DEFINE v == job[a].revision
           row == [revision[v] EXCEPT !.status = "ACTIVE"]
<1>1. /\ job[a] \in PublishJobs /\ job[a] # NoJob /\ v \in Revisions
      /\ job[a].at = "scoped" /\ IsA(job[a], {"publish"})
  BY AtTells DEF CommitPublish, PublishingInv, Types, Tells, PublishJobs, IsA
<1>2. /\ revision[v].status = "DRAFT" /\ revision[v].content = job[a].content
      /\ Named(job[a].content) \subseteq liveRoles
      /\ Scope[job[a].content] \in liveDepartments \cup {Nothing}
  BY <1>1 DEF PublishingInv, JobsInv, Grounded
<1>3. revision[v] \in RevisionRows /\ Running(v) = {}
  BY <1>1, <1>2, WrittenIs, NothingRunsOnADraft DEF PublishingInv, Types
<1>4. row \in RevisionRows /\ row.status = "ACTIVE" /\ row.content = revision[v].content
  BY <1>3 DEF RevisionRows
<1>5. /\ revision' = [revision EXCEPT ![v] = row]
      /\ UNCHANGED <<process, liveRoles, liveDepartments>> /\ Finish(a)
  BY DEF CommitPublish
<1> HIDE DEF v, row
<1>6. /\ revision'[v] = row /\ \A w \in Revisions : w # v => revision'[w] = revision[w]
      /\ revision' \in [Revisions -> {Unwritten} \cup RevisionRows]
  BY <1>1, <1>4, <1>5 DEF PublishingInv, Types, PublishingTypeOK
<1>7. ASSUME NEW p \in Processes, process[p].at > 0
      PROVE  /\ Content(p)' = Content(p) /\ process[p].revision # v
             /\ revision'[process[p].revision] = revision[process[p].revision]
  <2>1. process[p].revision \in Revisions /\ p \in Running(process[p].revision)
    BY <1>7, RunsOn DEF PublishingInv, Types, Running, ProcessRows
  <2>2. process[p].revision # v
    BY <1>3, <2>1
  <2> QED
    BY <1>5, <1>6, <2>1, <2>2 DEF Content
<1>8. PublishingTypeOK'
  <2>1. /\ process' = process /\ liveRoles' = liveRoles /\ liveDepartments' = liveDepartments
        /\ DOMAIN job' = Actors
    BY <1>5 DEF Finish, PublishingInv, Types
  <2>2. \A p \in Processes : process[p].at > 0 => States(Content(p))' = States(Content(p))
    BY <1>7
  <2> QED
    BY <1>6, <2>1, <2>2 DEF PublishingInv, Types, PublishingTypeOK, RevisionRows, ProcessRows
<1>9. RunsInv'
  BY <1>5, <1>7 DEF PublishingInv, RunsInv
<1>10. \A r : Needing(r)' = Needing(r)
  BY <1>5, <1>7 DEF Needing
<1>11. \A w \in Revisions : w # v /\ Published(w)' => Published(w)
  BY <1>5, <1>6 DEF Published, Running
<1>12. NoRoleIsMissing'
  BY <1>1, <1>2, <1>4, <1>5, <1>6, <1>10, <1>11 DEF PublishingInv, NoRoleIsMissing
<1>13. ASSUME NEW b \in Actors \ {a}, job[b] # NoJob PROVE Grounded(job[b])'
  <2>1. job'[b] = job[b]
    BY <1>5 DEF Finish, PublishingInv, Types
  <2>2. Grounded(job[b]) /\ Tells(job[b]) /\ job[b] \in JobRows
    BY <1>13, AtTells DEF PublishingInv, JobsInv, Types
  <2>3. IsA(job[b], {"publish", "start"}) => job[b].revision \in Revisions /\ job[b].revision # v
    BY <1>1, <2>2 DEF PublishingInv, LocksInv, Apart, IsA, JobRows, PublishJobs, StartJobs, TaskJobs,
                      DeleteJobs, v
  <2>4. IsA(job[b], {"publish", "start"}) => revision'[job[b].revision] = revision[job[b].revision]
    BY <1>6, <2>3
  <2>5. IsA(job[b], {"decide"}) => Content(job[b].process)' = Content(job[b].process)
    <3>1. IsA(job[b], {"decide"}) => job[b].process \in Processes /\ process[job[b].process].at > 0
      BY <2>2 DEF Grounded, IsA, JobRows, PublishJobs, StartJobs, TaskJobs, DeleteJobs
    <3> QED
      BY <1>7, <2>1, <3>1 DEF Content
  <2>6. job[b].at = "deleting" =>
          \A w \in Revisions : Published(w)' => job[b].role \notin Named(revision'[w].content)
    <3>1. job[b].at = "deleting" => job[b].role \notin Named(revision'[v].content)
      <4>1. job[b].at = "deleting" => IsA(job[b], {"delete role"})
        BY <2>2 DEF Tells, DeleteJobs, IsA
      <4>2. job[b].at = "deleting" => job[b].role \notin job[a].needs
        BY <1>1, <4>1 DEF PublishingInv, LocksInv, Apart
      <4> QED
        BY <1>1, <1>2, <1>4, <1>6, <4>2 DEF PublishingInv, JobsInv, Grounded
    <3> QED
      BY <1>6, <1>11, <2>2, <3>1 DEF Grounded
  <2> QED
    BY <1>5, <1>10, <2>1, <2>2, <2>4, <2>5, <2>6 DEF Grounded, IsA
<1> QED
  BY <1>1, <1>2, <1>4, <1>5, <1>6, <1>8, <1>9, <1>12, <1>13, RevisionCommitKeeps

\* A task is opened, or offered to another role: every role it needs was held, or
\* was needed before.
LEMMA TaskKeeps ==
  ASSUME PublishingInv, NEW a \in Actors, IsA(job[a], Starting), job[a].at = "held", Finish(a),
         NEW p \in Processes, p = job[a].process,
         NEW row \in ProcessRows, process' = [process EXCEPT ![p] = row],
         UNCHANGED <<revision, liveRoles, liveDepartments>>,
         row.at \in States(revision[row.revision].content), Published(row.revision),
         \A r \in Roles :
            row.offered = r \/ r \in Deciding[revision[row.revision].content][row.at] =>
              r \in job[a].needs \/ p \in Needing(r)
  PROVE  PublishingInv'
<1>1. PublishingTypeOK /\ DOMAIN job' = Actors /\ row \in {NotStarted} \cup ProcessRows
  BY DEF PublishingInv, Types, PublishingTypeOK, Finish
<1>2. PublishingTypeOK' /\ process'[p] = row /\ \A q \in Processes : q # p => process'[q] = process[q]
  BY <1>1, ProcessTypes
<1>3. job[a].needs \subseteq liveRoles
  BY DEF PublishingInv, JobsInv, Grounded
<1>4. \A r \in Roles : p \in Needing(r)' => r \in job[a].needs \/ p \in Needing(r)
  BY <1>2 DEF Needing, Content
<1>5. ASSUME NEW r \in Roles, NEW q \in Processes, q # p, q \in Needing(r)'
      PROVE  q \in Needing(r)
  <2>1. process'[q] = process[q] /\ Content(q)' = Content(q)
    BY <1>2, <1>5 DEF Content
  <2> QED
    BY <1>5, <2>1 DEF Needing
<1>6. \A r \in Roles : r \in job[a].needs \/ Needing(r)' \subseteq Needing(r)
  BY <1>4, <1>5 DEF Needing
<1>7. \A w \in Revisions : Published(w)' => Published(w)
  <2>1. \A w \in Revisions : w # row.revision => Running(w)' \subseteq Running(w)
    BY <1>2 DEF Running
  <2> QED
    BY <2>1 DEF Published
<1>8. RunsInv'
  BY <1>2 DEF PublishingInv, RunsInv, Published
<1>9. NoRoleIsMissing'
  BY <1>3, <1>6, <1>7 DEF PublishingInv, NoRoleIsMissing
<1>10. ASSUME NEW b \in Actors \ {a}, job[b] # NoJob PROVE Grounded(job[b])'
  <2>1. job'[b] = job[b]
    BY DEF Finish, PublishingInv, Types
  <2>2. Grounded(job[b]) /\ Tells(job[b]) /\ job[b] \in JobRows
    BY <1>10, AtTells DEF PublishingInv, JobsInv, Types
  <2>3. IsA(job[b], Starting) => job[b].process \in Processes /\ job[b].process # p
    <3>1. Apart(job[b], job[a])
      BY DEF PublishingInv, LocksInv
    <3>2. IsA(job[b], Starting) => job[b].process \in Processes
      BY <2>2 DEF IsA, Starting, JobRows, PublishJobs, StartJobs, TaskJobs, DeleteJobs
    <3> QED
      BY <3>1, <3>2 DEF Apart
  <2>4. IsA(job[b], Starting) =>
          /\ process'[job[b].process] = process[job[b].process]
          /\ Content(job[b].process)' = Content(job[b].process)
    BY <1>2, <2>1, <2>3 DEF Content
  <2>5. job[b].at \in {"counted", "deleting"} => Needing(job[b].role)' = {}
    <3>1. job[b].at \in {"counted", "deleting"} => IsA(job[b], {"delete role"}) /\ job[b].role \in Roles
      BY <2>2 DEF Tells, DeleteJobs, IsA
    <3>2. job[b].at \in {"counted", "deleting"} => job[b].role \notin job[a].needs
      BY <3>1 DEF PublishingInv, LocksInv, Apart
    <3>3. \A r \in Roles : r \notin job[a].needs /\ Needing(r) = {} => Needing(r)' = {}
      BY <1>6
    <3>4. job[b].at \in {"counted", "deleting"} => Needing(job[b].role) = {}
      BY <2>2 DEF Grounded
    <3>5. job[b].at \in {"counted", "deleting"} =>
            \E r \in Roles : r = job'[b].role /\ Needing(r)' = {}
      BY <2>1, <3>1, <3>2, <3>3, <3>4
    <3> QED
      BY <3>5 DEF Needing
  <2> QED
    BY <1>7, <2>1, <2>2, <2>4, <2>5 DEF Grounded, IsA, Starting
<1> QED
  BY <1>2, <1>8, <1>9, <1>10, RevisionCommitKeeps

LEMMA CommitTaskKeeps ==
  ASSUME PublishingConstantsOK, PublishingInv, NEW a \in Actors, CommitTask(a)
  PROVE  PublishingInv'
<1> DEFINE p == job[a].process
           v == IF job[a].kind = "start" THEN job[a].revision ELSE process[p].revision
           s == IF job[a].kind = "reassign" THEN process[p].at ELSE process[p].at + 1
           c == revision[v].content
           o == IF job[a].kind = "reassign" THEN CHOOSE r \in job[a].needs : TRUE
                ELSE Offered[c][s]
           row == [at |-> s, revision |-> v, offered |-> o, claimed |-> FALSE]
<1>1. /\ process' = [process EXCEPT ![p] = row] /\ Finish(a)
      /\ UNCHANGED <<revision, liveRoles, liveDepartments>>
  BY DEF CommitTask, ProcessesOnly
<1>2. /\ job[a].at = "held" /\ IsA(job[a], Starting) /\ p \in Processes
      /\ job[a] \in StartJobs \cup TaskJobs /\ Grounded(job[a])
  BY AtTells DEF CommitTask, PublishingInv, Types, JobsInv, Tells, Starting, StartJobs, TaskJobs, IsA
<1>3. CASE job[a].kind = "start"
  <2>1. /\ v \in Revisions /\ revision[v].status = "ACTIVE" /\ job[a].needs = TaskRoles(c, 1)
        /\ process[p] = NotStarted
    BY <1>2, <1>3, AtTells DEF PublishingInv, Tells, StartJobs, Grounded, IsA
  <2>2. c \in Contents
    BY <2>1, WrittenIs DEF PublishingInv, Types, RevisionRows
  <2>3. s = 1 /\ 1 \in States(c) /\ o = Offered[c][1]
    BY <1>3, <2>1, <2>2 DEF NotStarted, PublishingConstantsOK
  <2>4. /\ o \in Roles \cup {Nothing}
        /\ \A r \in Roles : o = r \/ r \in Deciding[c][s] => r \in job[a].needs
    <3> HIDE DEF c, o, s
    <3> QED
      BY <2>1, <2>2, <2>3, OfferedIsNeeded
  <2> HIDE DEF c, v, s, o
  <2>5. row \in ProcessRows
    BY <2>1, <2>3, <2>4 DEF ProcessRows
  <2>6. /\ row.at = s /\ row.revision = v /\ row.offered = o
        /\ revision[v].content = c /\ Published(v)
    BY <2>1 DEF c, Published
  <2> HIDE DEF row
  <2> QED
    BY <1>1, <1>2, <2>3, <2>4, <2>5, <2>6, TaskKeeps
<1>4. CASE job[a].kind \in {"decide", "reassign"}
  <2>1. process[p].at > 0 /\ v = process[p].revision /\ c = Content(p)
    BY <1>2, <1>4 DEF Grounded, IsA, Content
  <2>2. /\ process[p] \in ProcessRows /\ process[p].at \in States(Content(p))
        /\ v \in Revisions /\ c \in Contents /\ Published(v)
    <3>1. process[p] \in ProcessRows /\ process[p].at \in States(Content(p)) /\ v \in Revisions
      BY <1>2, <2>1, RunsOn DEF PublishingInv, Types, ProcessRows
    <3>2. revision[v].status \in {"ACTIVE", "DEPRECATED"} /\ p \in Running(v)
      BY <1>2, <2>1 DEF PublishingInv, RunsInv, Running
    <3>3. c \in Contents
      BY <3>1, <3>2, WrittenIs DEF PublishingInv, Types, RevisionRows
    <3> QED
      BY <3>1, <3>2, <3>3 DEF Published
  <2>3. /\ s \in States(c) /\ s \in Nat \ {0} /\ o \in Roles \cup {Nothing}
        /\ \A r \in Roles : o = r \/ r \in Deciding[c][s] => r \in job[a].needs \/ p \in Needing(r)
    <3>1. CASE job[a].kind = "decide"
      <4>1. /\ s = process[p].at + 1 /\ s \in States(c) /\ job[a].needs = TaskRoles(c, s)
            /\ o = Offered[c][s]
        BY <1>2, <2>1, <3>1 DEF Grounded, IsA
      <4> HIDE DEF c, o, s, v, p
      <4>2. s \in Nat \ {0}
        <5>1. process[p].at \in Nat
          BY <2>2 DEF ProcessRows
        <5> QED
          BY <4>1, <5>1
      <4> QED
        BY <2>2, <4>1, <4>2, OfferedIsNeeded
    <3>2. CASE job[a].kind = "reassign"
      <4>1. PICK r \in Roles : job[a].needs = {r}
        BY <1>2, <3>2 DEF Grounded, IsA
      <4>2. s = process[p].at /\ o = r
        BY <3>2, <4>1
      <4>3. \A x \in Deciding[c][s] : x \in Roles => p \in Needing(x)
        BY <1>2, <2>1, <4>2 DEF Needing
      <4> HIDE DEF c, o, s, v, p
      <4> QED
        BY <2>1, <2>2, <4>1, <4>2, <4>3 DEF ProcessRows
    <3> QED
      BY <1>4, <3>1, <3>2
  <2> HIDE DEF c, v, s, o
  <2>4. row \in ProcessRows
    BY <2>2, <2>3 DEF ProcessRows
  <2>5. row.at = s /\ row.revision = v /\ row.offered = o /\ revision[v].content = c
    BY DEF c
  <2> HIDE DEF row
  <2> QED
    BY <1>1, <1>2, <2>2, <2>3, <2>4, <2>5, TaskKeeps
<1> QED
  BY <1>2, <1>3, <1>4 DEF IsA, Starting

LEMMA CommitDeleteRoleKeeps ==
  ASSUME PublishingInv, NEW a \in Actors, CommitDeleteRole(a)
  PROVE  PublishingInv'
<1>1. /\ liveRoles' = liveRoles \ {job[a].role} /\ Finish(a)
      /\ UNCHANGED <<revision, process, liveDepartments>>
  BY DEF CommitDeleteRole
<1>2. /\ job[a].at = "deleting" /\ IsA(job[a], {"delete role"}) /\ Grounded(job[a])
      /\ job[a].role \in Roles
  BY AtTells DEF CommitDeleteRole, PublishingInv, Types, JobsInv, Tells, DeleteJobs, IsA
<1>3. PublishingTypeOK'
  BY <1>1 DEF PublishingInv, Types, PublishingTypeOK, Finish, RevisionRows, ProcessRows, Content, States
<1>4. RunsInv'
  BY <1>1 DEF PublishingInv, RunsInv
<1>5. /\ \A r : Needing(r)' = Needing(r)
      /\ \A v \in Revisions : Published(v)' = Published(v)
  BY <1>1 DEF Needing, Content, Published, Running
<1>6. NoRoleIsMissing'
  <2>1. \A v \in Revisions : Published(v) => job[a].role \notin Named(revision[v].content)
    BY <1>2 DEF Grounded
  <2>2. Needing(job[a].role) = {}
    BY <1>2 DEF Grounded
  <2> QED
    BY <1>1, <1>5, <2>1, <2>2 DEF PublishingInv, NoRoleIsMissing
<1>7. ASSUME NEW b \in Actors \ {a}, job[b] # NoJob PROVE Grounded(job[b])'
  <2>1. job'[b] = job[b]
    BY <1>1 DEF Finish, PublishingInv, Types
  <2>2. Grounded(job[b])
    BY DEF PublishingInv, JobsInv
  <2>3. job[b].at \in {"held", "scoped"} => job[a].role \notin job[b].needs
    BY <1>2 DEF PublishingInv, LocksInv, Apart
  <2> QED
    BY <1>1, <1>5, <2>1, <2>2, <2>3 DEF Grounded, IsA, Content
<1> QED
  BY <1>1, <1>3, <1>4, <1>6, <1>7, RevisionCommitKeeps

-----------------------------------------------------------------------------
LEMMA PublishingNextInvariant == ASSUME PublishingConstantsOK, PublishingInv, [PublishingNext]_publishingVars PROVE PublishingInv'
<1>1. CASE \E v \in Revisions :
             \/ Deprecate(v) \/ DeleteRevision(v)
             \/ \E c \in Contents : Create(v, c) \/ Edit(v, c)
  BY <1>1, DeprecateKeeps, DeleteRevisionKeeps, CreateKeeps, EditKeeps
<1>2. CASE \E p \in Processes : ClaimTask(p) \/ ReassignTask(p) \/ End(p)
  BY <1>2, ClaimKeeps, ReassignToUserKeeps, EndKeeps
<1>3. CASE \E x \in Departments : DeleteDepartment(x)
  BY <1>3, DeleteDepartmentKeeps
<1>4. ASSUME NEW a \in Actors,
             \/ \E v \in Revisions : OpenPublish(a, v) \/ \E p \in Processes : OpenStart(a, p, v)
             \/ \E p \in Processes : OpenDecision(a, p) \/ \E r \in Roles : OpenReassign(a, p, r)
             \/ \E r \in Roles : OpenDeleteRole(a, r)
      PROVE  PublishingInv'
  BY <1>4, OpenPublishKeeps, OpenStartKeeps, OpenDecisionKeeps, OpenReassignKeeps, OpenDeleteRoleKeeps
<1>5. ASSUME NEW a \in Actors,
             HoldRoles(a) \/ HoldDepartment(a) \/ CountTasks(a) \/ CountRevisions(a) \/ RollBack(a)
      PROVE  PublishingInv'
  BY <1>5, HoldRolesKeeps, HoldDepartmentKeeps, CountTasksKeeps, CountRevisionsKeeps, RollBackKeeps
<1>6. ASSUME NEW a \in Actors, CommitPublish(a) \/ CommitTask(a) \/ CommitDeleteRole(a)
      PROVE  PublishingInv'
  BY <1>6, CommitPublishKeeps, CommitTaskKeeps, CommitDeleteRoleKeeps
<1>7. CASE UNCHANGED publishingVars
  <2>1. revision' = revision /\ process' = process /\ job' = job
        /\ liveRoles' = liveRoles /\ liveDepartments' = liveDepartments
    BY <1>7 DEF publishingVars
  <2>2. PublishingTypeOK' /\ RunsInv' /\ NoRoleIsMissing'
    BY <2>1 DEF PublishingInv, Types, PublishingTypeOK, RevisionRows, ProcessRows, RunsInv, NoRoleIsMissing,
                Published, Running, Needing, Content, States
  <2>3. ASSUME NEW a \in Actors PROVE Grounded(job[a])'
    BY <2>1 DEF PublishingInv, JobsInv, Grounded, IsA, Content, Needing, Published, Running
  <2> QED
    BY <2>1, <2>2, <2>3, RevisionWriteKeeps
<1> QED
  BY <1>1, <1>2, <1>3, <1>4, <1>5, <1>6, <1>7 DEF PublishingNext

(* A transaction acts on what is still so, and never beside one it would   *)
(* disturb (the row locks of publish, start, decisions, reassign and the   *)
(* deletion of a role): the inductive invariant.                           *)
THEOREM PublishingInvariance == ASSUME PublishingConstantsOK PROVE PublishingSpec => []PublishingInv
  BY PublishingInitInvariant, PublishingNextInvariant, PTL DEF PublishingSpec

(* Revisions, processes, live roles and departments keep their types, and  *)
(* a process stands in a state of the revision it runs on.                 *)
THEOREM PublishingTypeCorrect == ASSUME PublishingConstantsOK PROVE PublishingSpec => []PublishingTypeOK
<1>1. PublishingInv => PublishingTypeOK
  BY DEF PublishingInv, Types
<1> QED
  BY <1>1, PublishingInvariance, PTL

(* A role is never deleted while a published revision names it or an open  *)
(* task needs it (delete_role against publish, start, decisions and        *)
(* reassign).                                                              *)
THEOREM RolesAreThere == ASSUME PublishingConstantsOK PROVE PublishingSpec => []NoRoleIsMissing
<1>1. PublishingInv => NoRoleIsMissing
  BY DEF PublishingInv
<1> QED
  BY <1>1, PublishingInvariance, PTL

PublishedRight ==
    \A v \in Revisions :
        revision'[v].status = "ACTIVE" /\ revision[v].status # "ACTIVE" =>
          /\ Named(revision'[v].content) \subseteq liveRoles'
          /\ Scope[revision'[v].content] \in liveDepartments' \cup {Nothing}

LEMMA StepPublishesRight == ASSUME PublishingInv, [PublishingNext]_publishingVars PROVE PublishedRight
<1> USE DEF PublishedRight
<1>1. CASE \E a \in Actors : CommitPublish(a)
  BY <1>1, CommitPublishKeeps DEF CommitPublish
<1>2. CASE UNCHANGED revision
  BY <1>2
<1>3. ASSUME NEW v \in Revisions, NEW row \in RevisionRows, row.status # "ACTIVE",
             revision' = [revision EXCEPT ![v] = row]
      PROVE  PublishedRight
  BY <1>3 DEF PublishingInv, Types, PublishingTypeOK
<1>4. ASSUME NEW v \in Revisions, NEW c \in Contents, Create(v, c) PROVE PublishedRight
  <2>1. [status |-> "DRAFT", content |-> c] \in RevisionRows
    BY DEF RevisionRows
  <2> QED
    BY <1>3, <1>4, <2>1 DEF Create
<1>5. ASSUME NEW v \in Revisions, NEW c \in Contents, Edit(v, c) PROVE PublishedRight
  <2> DEFINE row == [revision[v] EXCEPT !.content = c]
  <2>1. revision[v] \in RevisionRows /\ revision[v].status = "DRAFT"
    BY <1>5, WrittenIs DEF Edit, PublishingInv, Types
  <2>2. row \in RevisionRows /\ row.status = "DRAFT" /\ revision' = [revision EXCEPT ![v] = row]
    BY <1>5, <2>1 DEF RevisionRows, Edit
  <2> QED
    BY <1>3, <2>2
<1>6. ASSUME NEW v \in Revisions, NEW x \in {"DEPRECATED", "DELETED"}, revision[v].status # "none",
             revision' = [revision EXCEPT ![v].status = x]
      PROVE  PublishedRight
  <2> DEFINE row == [revision[v] EXCEPT !.status = x]
  <2>1. revision[v] \in RevisionRows
    BY <1>6, WrittenIs DEF PublishingInv, Types
  <2>2. row \in RevisionRows /\ row.status # "ACTIVE" /\ revision' = [revision EXCEPT ![v] = row]
    BY <1>6, <2>1 DEF RevisionRows
  <2> QED
    BY <1>3, <2>2
<1>7. ASSUME NEW v \in Revisions, Deprecate(v) \/ DeleteRevision(v) PROVE PublishedRight
  BY <1>6, <1>7 DEF Deprecate, DeleteRevision
<1>8. CASE PublishingNext
  <2>1. CASE \E p \in Processes : ClaimTask(p) \/ ReassignTask(p) \/ End(p)
    BY <1>2, <2>1 DEF ClaimTask, ReassignTask, End, ProcessesOnly
  <2>2. CASE \E x \in Departments : DeleteDepartment(x)
    BY <1>2, <2>2 DEF DeleteDepartment
  <2>3. ASSUME NEW a \in Actors,
               \/ \E v \in Revisions : OpenPublish(a, v) \/ \E p \in Processes : OpenStart(a, p, v)
               \/ \E p \in Processes : OpenDecision(a, p) \/ \E r \in Roles : OpenReassign(a, p, r)
               \/ \E r \in Roles : OpenDeleteRole(a, r)
        PROVE  PublishedRight
    BY <1>2, <2>3 DEF OpenPublish, OpenStart, OpenDecision, OpenReassign, OpenDeleteRole, JobsOnly
  <2>4. ASSUME NEW a \in Actors,
               \/ HoldRoles(a) \/ HoldDepartment(a) \/ CommitTask(a) \/ CountTasks(a)
               \/ CountRevisions(a) \/ CommitDeleteRole(a) \/ RollBack(a)
        PROVE  PublishedRight
    BY <1>2, <2>4 DEF HoldRoles, HoldDepartment, CommitTask, CountTasks, CountRevisions,
                      CommitDeleteRole, RollBack, JobsOnly, ProcessesOnly
  <2> QED
    BY <1>1, <1>4, <1>5, <1>7, <1>8, <2>1, <2>2, <2>3, <2>4 DEF PublishingNext
<1> QED
  BY <1>2, <1>8 DEF publishingVars

(* What becomes ACTIVE is what was checked: its roles and its department   *)
(* are live when it is published (publish_definition).                     *)
THEOREM PublishedWhole == ASSUME PublishingConstantsOK PROVE PublishingSpec => PublishedAsChecked
<1>1. PublishingInv /\ [PublishingNext]_publishingVars => [PublishedRight]_publishingVars
  BY StepPublishesRight
<1> QED
  BY <1>1, PublishingInvariance, PTL DEF PublishingSpec, PublishedAsChecked, PublishedRight

=============================================================================
