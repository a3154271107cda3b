------------------------------ MODULE Authority -----------------------------
(***************************************************************************)
(* On whose authority a task is worked (modules/identity/delegation,       *)
(* workflow/service/assignment and service/task): a task is raised for the *)
(* document's owner or for a role, a delegation window may redirect it,    *)
(* and it is claimed, handed over, reassigned and decided.                 *)
(*                                                                         *)
(* Every operation on the task locks the process and the task and is one   *)
(* step.  Windows and accounts change beside them without a lock.          *)
(***************************************************************************)
EXTENDS Naturals

CONSTANTS
    Users, Owner,
    None,
    MaxWindows  \* bound: delegation windows

ConstantsOK == Owner \in Users /\ None \notin Users /\ MaxWindows \in Nat

VARIABLES
    task,       \* the process's open task
    holders,    \* the users who hold the role
    active,     \* the users who can sign in
    window,     \* delegations, in the order they were opened
    given       \* history: to whom a rule, a claim or a reassign gave the task

vars == <<task, holders, active, window, given>>

NoTask == [status |-> "none", offered |-> FALSE, assignee |-> None,
           standsFor |-> None, allowedBy |-> "role"]
NoWindow == [at |-> "none", from |-> None, to |-> None, scope |-> "ALL"]

Init ==
    /\ task = NoTask
    /\ holders \in SUBSET Users
    /\ active = Users
    /\ window = [n \in 1..MaxWindows |-> NoWindow]
    /\ given = None

-----------------------------------------------------------------------------
(* Windows, accounts and roles                                             *)

TaskIsLeft == UNCHANGED <<task, given>>

\* create_delegation: to somebody else who can sign in; not yet over.
OpenWindow(n, u, v, scope) ==
    /\ window[n].at = "none" /\ (n > 1 => window[n - 1].at # "none")
    /\ u # v /\ v \in active
    /\ \E at \in {"ahead", "open"} :
         window' = [window EXCEPT ![n] = [at |-> at, from |-> u, to |-> v, scope |-> scope]]
    /\ UNCHANGED <<holders, active>> /\ TaskIsLeft

\* starts_at or ends_at passes, or end_delegation.
PassWindow(n) ==
    /\ window[n].at \in {"ahead", "open"}
    /\ \E at \in IF window[n].at = "ahead" THEN {"open", "over"} ELSE {"over"} :
         window' = [window EXCEPT ![n].at = at]
    /\ UNCHANGED <<holders, active>> /\ TaskIsLeft

ChangeAccount(u) ==
    /\ active' = IF u \in active THEN active \ {u} ELSE active \cup {u}
    /\ UNCHANGED <<holders, window>> /\ TaskIsLeft

ChangeRole(u) ==
    /\ holders' = IF u \in holders THEN holders \ {u} ELSE holders \cup {u}
    /\ UNCHANGED <<active, window>> /\ TaskIsLeft

\* active_delegate_of: the most specific window, then the last; one hop.
Delegates(u) ==
    LET open == {n \in 1..MaxWindows : /\ window[n].at = "open" /\ window[n].from = u
                                       /\ window[n].to \in active}
        narrow == {n \in open : window[n].scope = "DOCUMENT_TYPE"}
        best == IF narrow # {} THEN narrow ELSE open
    IN  {window[n].to : n \in {n \in best : \A m \in best : m <= n}}

-----------------------------------------------------------------------------
(* The task                                                                *)

PeopleAreLeft == UNCHANGED <<holders, active, window>>

Give(T, u) == task' = T /\ given' = u

\* resolve: normalize, direct, redirect.
RaiseForOwner(edge) ==
    /\ task.status # "open"
    /\ LET to == Delegates(Owner)
       IN Give([status |-> "open", offered |-> FALSE, allowedBy |-> edge,
                assignee |-> IF to = {} THEN Owner ELSE CHOOSE v \in to : TRUE,
                standsFor |-> IF to = {} THEN None ELSE Owner], Owner)
    /\ PeopleAreLeft

RaiseForRole(edge) ==
    /\ task.status # "open"
    /\ Give([status |-> "open", offered |-> TRUE, allowedBy |-> edge,
             assignee |-> None, standsFor |-> None], None)
    /\ PeopleAreLeft

Claim(u) ==
    /\ task.status = "open" /\ task.offered /\ task.assignee = None
    /\ u \in holders
    /\ Give([task EXCEPT !.assignee = u], u)
    /\ PeopleAreLeft

DelegateKeepingName(u, v) ==  \* COALESCE without the NULLIF around it
    /\ task.status = "open" /\ task.assignee = u /\ u # v /\ v \in active
    /\ Give([task EXCEPT !.assignee = v,
                         !.standsFor = IF @ = None THEN u ELSE @], given)
    /\ PeopleAreLeft

\* delegate: NULLIF(COALESCE(delegated_from_user_id, from), to)
Delegate(u, v) ==
    /\ task.status = "open" /\ task.assignee = u /\ u # v /\ v \in active
    /\ LET first == IF task.standsFor = None THEN u ELSE task.standsFor
       IN Give([task EXCEPT !.assignee = v,
                            !.standsFor = IF first = v THEN None ELSE first], given)
    /\ PeopleAreLeft

\* permits: the rule of the edge, asked of one person.
Satisfies(u) == IF task.allowedBy = "owner" THEN u = Owner ELSE u \in holders

\* reassign, to a user who could decide it; no window is asked.
ReassignToUser(u) ==
    /\ task.status = "open" /\ Satisfies(u)
    /\ Give([task EXCEPT !.assignee = u, !.standsFor = None, !.offered = FALSE], u)
    /\ PeopleAreLeft

\* reassign, to the role an edge names.
ReassignToRole ==
    /\ task.status = "open" /\ task.allowedBy = "role"
    /\ Give([task EXCEPT !.assignee = None, !.standsFor = None, !.offered = TRUE], None)
    /\ PeopleAreLeft

\* decide: theirs, by assignment or by the role while nobody has it; and on an
\* edge that they, or whom they stand for, may take.
Decide(u) ==
    /\ task.status = "open"
    /\ \/ task.assignee = u
       \/ task.assignee = None /\ task.offered /\ u \in holders
    /\ Satisfies(u) \/ (task.standsFor # None /\ Satisfies(task.standsFor))
    /\ task' = [task EXCEPT !.status = "decided", !.assignee = u]
    /\ given' = IF task.assignee = None THEN u ELSE given
    /\ PeopleAreLeft

-----------------------------------------------------------------------------
Next ==
    \/ \E n \in 1..MaxWindows :
         \/ PassWindow(n)
         \/ \E u, v \in Users, s \in {"ALL", "DOCUMENT_TYPE"} : OpenWindow(n, u, v, s)
    \/ \E u \in Users : ChangeAccount(u) \/ ChangeRole(u)
    \/ \E edge \in {"owner", "role"} : RaiseForOwner(edge) \/ RaiseForRole(edge)
    \/ ReassignToRole
    \/ \E u \in Users : Claim(u) \/ ReassignToUser(u) \/ Decide(u)
    \/ \E u, v \in Users : Delegate(u, v)

Spec == Init /\ [][Next]_vars

-----------------------------------------------------------------------------
(* Properties                                                              *)

TypeOK ==
    /\ task \in [status : {"none", "open", "decided"}, offered : BOOLEAN,
                 assignee : Users \cup {None}, standsFor : Users \cup {None},
                 allowedBy : {"owner", "role"}]
    /\ holders \subseteq Users /\ active \subseteq Users
    /\ window \in [1..MaxWindows -> [at : {"none", "ahead", "open", "over"},
                                     from : Users \cup {None}, to : Users \cup {None},
                                     scope : {"ALL", "DOCUMENT_TYPE"}]]
    /\ given \in Users \cup {None}

(* Through windows, claims, reassignments and any chain of hand-overs, the *)
(* one a task says it is worked for is the one who was given it, and it is *)
(* said of nobody who works it in their own name: so a decision is on the  *)
(* record for the person whose authority it used (redirect, delegate, and  *)
(* decide's on_behalf_of; #184, #280).                                     *)
WorkedForWhomItWasGiven ==
    task.assignee # None =>
        task.standsFor = IF task.assignee = given THEN None ELSE given
=============================================================================
