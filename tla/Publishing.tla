----------------------------- MODULE Publishing -----------------------------
(***************************************************************************)
(* Revisions of workflow definitions and what they name (modules/workflow  *)
(* service/definition, modules/identity delete_role, modules/organization  *)
(* delete_department): drafting, publishing, deprecating and deleting a    *)
(* revision, the processes that run on it and raise tasks for its roles,   *)
(* and the deletion of a role or a department, all at once.                *)
(*                                                                         *)
(* A definition is a path of states, each with a human task that is        *)
(* offered to a role and decided along edges that name roles.  What a      *)
(* transaction reads after it is open is a step; a row lock is what the    *)
(* transactions that hold it have in `job`.  The number of a revision is   *)
(* left out.                                                               *)
(***************************************************************************)
EXTENDS Naturals, FiniteSets

CONSTANTS
    Revisions, Processes, Roles, Departments, Actors,
    Nothing,
    Contents,   \* what an author can write, each a path of states:
    Offered,    \* the role a state's task is offered to, or Nothing (its owner)
    Deciding,   \* the roles the edges out of a state are allowedBy
    Scope       \* the department a definition names, or Nothing

States(c) == DOMAIN Offered[c]

PublishingConstantsOK ==
    /\ Nothing \notin Roles \cup Departments
    /\ Scope \in [Contents -> Departments \cup {Nothing}]
    /\ DOMAIN Offered = Contents /\ DOMAIN Deciding = Contents
    /\ \A c \in Contents :
         /\ 1 \in States(c) /\ States(c) = 1..Cardinality(States(c))
         /\ Offered[c] \in [States(c) -> Roles \cup {Nothing}]
         /\ Deciding[c] \in [States(c) -> SUBSET Roles]

VARIABLES
    revision,   \* workflow_definitions: status and definition_json
    process,    \* workflow_instances, with the open task of each
    liveRoles, liveDepartments,
    job         \* the transactions that are open

publishingVars == <<revision, process, liveRoles, liveDepartments, job>>

NoJob == [at |-> "idle"]
Unwritten == [status |-> "none"]
NotStarted == [at |-> 0]

PublishingInit ==
    /\ revision = [v \in Revisions |-> Unwritten]
    /\ process = [p \in Processes |-> NotStarted]
    /\ liveRoles = Roles /\ liveDepartments = Departments
    /\ job = [a \in Actors |-> NoJob]

Named(c) == UNION {Deciding[c][s] \cup ({Offered[c][s]} \ {Nothing}) : s \in States(c)}
Running(v) == {p \in Processes : process[p].at > 0 /\ process[p].revision = v}
Content(p) == revision[process[p].revision].content

-----------------------------------------------------------------------------
(* Locks                                                                   *)

Jobs(kinds) == {a \in Actors : job[a] # NoJob /\ job[a].kind \in kinds}
Starting == {"start", "decide", "reassign"}

\* FOR UPDATE of a revision: nobody publishes it, nobody starts on it.
RowIsFree(v) == \A a \in Jobs({"publish", "start"}) : job[a].revision # v

\* FOR SHARE
MayShareRow(v) == \A a \in Jobs({"publish"}) : job[a].revision # v

\* The instance, which every step of a process locks first.
ProcessIsFree(p) == \A a \in Jobs(Starting) : job[a].process # p

\* FOR KEY SHARE, which only a deletion's FOR UPDATE keeps waiting.
MayShareRoles(S) == \A a \in Jobs({"delete role"}) : job[a].role \notin S

\* FOR UPDATE of a role.
RoleIsFree(r) ==
    /\ MayShareRoles({r})
    /\ \A a \in Jobs({"publish"} \cup Starting) :
         job[a].at # "opened" => r \notin job[a].needs

DepartmentIsFree(x) ==
    \A a \in Jobs({"publish"}) : job[a].at = "scoped" => Scope[job[a].content] # x

Open(a, j) == job[a] = NoJob /\ job' = [job EXCEPT ![a] = j]
At(a, at) == job' = [job EXCEPT ![a].at = at]
Finish(a) == job' = [job EXCEPT ![a] = NoJob]

JobsOnly == UNCHANGED <<revision, process, liveRoles, liveDepartments>>
RevisionsOnly == UNCHANGED <<process, liveRoles, liveDepartments, job>>

-----------------------------------------------------------------------------
(* Revisions                                                               *)

\* create_definition, create_revision
Create(v, c) ==
    /\ revision[v] = Unwritten
    /\ revision' = [revision EXCEPT ![v] = [status |-> "DRAFT", content |-> c]]
    /\ RevisionsOnly

\* update_draft waits for a publish, and then matches no draft.
Edit(v, c) ==
    /\ revision[v].status = "DRAFT" /\ RowIsFree(v)
    /\ revision' = [revision EXCEPT ![v].content = c]
    /\ RevisionsOnly

\* publish_definition: the row is locked, and the copy read under the lock is
\* the one that is checked.
OpenPublish(a, v) ==
    /\ revision[v].status = "DRAFT" /\ RowIsFree(v)
    /\ Open(a, [at |-> "opened", kind |-> "publish", revision |-> v,
                content |-> revision[v].content, needs |-> Named(revision[v].content)])
    /\ JobsOnly

\* lock_live_departments
HoldDepartment(a) ==
    /\ job[a].at = "held" /\ job[a].kind = "publish"
    /\ IF Scope[job[a].content] \in liveDepartments \cup {Nothing}
         THEN At(a, "scoped") ELSE Finish(a)
    /\ JobsOnly

CommitPublish(a) ==
    /\ job[a].at = "scoped"
    /\ revision' = [revision EXCEPT ![job[a].revision].status = "ACTIVE"]
    /\ Finish(a)
    /\ UNCHANGED <<process, liveRoles, liveDepartments>>

Deprecate(v) ==
    /\ revision[v].status = "ACTIVE" /\ RowIsFree(v)
    /\ revision' = [revision EXCEPT ![v].status = "DEPRECATED"]
    /\ RevisionsOnly

\* delete_definition: refused over running approvals.
DeleteRevision(v) ==
    /\ revision[v].status \in {"DRAFT", "ACTIVE", "DEPRECATED"} /\ RowIsFree(v)
    /\ Running(v) = {}
    /\ revision' = [revision EXCEPT ![v].status = "DELETED"]
    /\ RevisionsOnly

-----------------------------------------------------------------------------
(* Processes and their tasks                                               *)

TaskRoles(c, s) == Deciding[c][s] \cup ({Offered[c][s]} \ {Nothing})

\* lock_for_start: FOR SHARE, and the revision is published.
OpenStart(a, p, v) ==
    /\ process[p] = NotStarted /\ ProcessIsFree(p)
    /\ MayShareRow(v) /\ revision[v].status = "ACTIVE"
    /\ Open(a, [at |-> "opened", kind |-> "start", revision |-> v, process |-> p,
                needs |-> TaskRoles(revision[v].content, 1)])
    /\ JobsOnly

\* A decision or a resubmission that leads on.
OpenDecision(a, p) ==
    /\ process[p].at > 0 /\ ProcessIsFree(p)
    /\ process[p].at + 1 \in States(Content(p))
    /\ Open(a, [at |-> "opened", kind |-> "decide", process |-> p,
                needs |-> TaskRoles(Content(p), process[p].at + 1)])
    /\ JobsOnly

\* reassign, to a role: one that an edge names, or any where no edge decides.
OpenReassign(a, p, r) ==
    /\ process[p].at > 0 /\ ProcessIsFree(p)
    /\ LET D == Deciding[Content(p)][process[p].at] IN D = {} \/ r \in D
    /\ Open(a, [at |-> "opened", kind |-> "reassign", process |-> p, needs |-> {r}])
    /\ JobsOnly

\* lock_live_roles; direct and hold_deciding_roles: every role is live, and is
\* held to the end of the transaction.
HoldRoles(a) ==
    /\ job[a].at = "opened" /\ MayShareRoles(job[a].needs)
    /\ IF job[a].needs \subseteq liveRoles THEN At(a, "held") ELSE Finish(a)
    /\ JobsOnly

ProcessesOnly == UNCHANGED <<revision, liveRoles, liveDepartments>>

CommitTask(a) ==
    /\ job[a].at = "held" /\ job[a].kind \in Starting
    /\ LET p == job[a].process
           v == IF job[a].kind = "start" THEN job[a].revision ELSE process[p].revision
           s == IF job[a].kind = "reassign" THEN process[p].at ELSE process[p].at + 1
           r == IF job[a].kind = "reassign" THEN CHOOSE r \in job[a].needs : TRUE
                ELSE Offered[revision[v].content][s]
       IN  process' = [process EXCEPT ![p] =
                         [at |-> s, revision |-> v, offered |-> r, claimed |-> FALSE]]
    /\ Finish(a) /\ ProcessesOnly

\* claim
ClaimTask(p) ==
    /\ process[p].at > 0 /\ ProcessIsFree(p)
    /\ process[p].offered # Nothing /\ ~process[p].claimed
    /\ process' = [process EXCEPT ![p].claimed = TRUE]
    /\ UNCHANGED job /\ ProcessesOnly

\* reassign, to a user: no role is offered the task any longer.
ReassignTask(p) ==
    /\ process[p].at > 0 /\ ProcessIsFree(p)
    /\ process' = [process EXCEPT ![p].offered = Nothing, ![p].claimed = TRUE]
    /\ UNCHANGED job /\ ProcessesOnly

\* The last decision: the process is over, and for the rest it is as if it had
\* never been.
End(p) ==
    /\ process[p].at > 0 /\ ProcessIsFree(p)
    /\ process[p].at + 1 \notin States(Content(p))
    /\ process' = [process EXCEPT ![p] = NotStarted]
    /\ UNCHANGED job /\ ProcessesOnly

-----------------------------------------------------------------------------
(* Roles and departments                                                   *)

\* "Needs the role": offered and unclaimed, or an edge out of the state.
Needing(r) ==
    {p \in Processes : process[p].at > 0 /\
        \/ process[p].offered = r /\ ~process[p].claimed
        \/ r \in Deciding[Content(p)][process[p].at]}

Published(v) ==
    revision[v].status = "ACTIVE" \/ (revision[v].status = "DEPRECATED" /\ Running(v) # {})

\* lock_role_for_delete
OpenDeleteRole(a, r) ==
    /\ r \in liveRoles /\ RoleIsFree(r)
    /\ Open(a, [at |-> "locked", kind |-> "delete role", role |-> r])
    /\ JobsOnly

\* open_tasks_needing_role
CountTasks(a) ==
    /\ job[a].at = "locked"
    /\ IF Needing(job[a].role) = {} THEN At(a, "counted") ELSE Finish(a)
    /\ JobsOnly

CountActive(a) ==  \* a deprecated revision is not counted, whatever runs on it
    /\ job[a].at = "counted"
    /\ IF \E v \in Revisions : revision[v].status = "ACTIVE" /\ job[a].role \in Named(revision[v].content)
         THEN Finish(a) ELSE At(a, "deleting")
    /\ JobsOnly

\* definitions_naming_role
CountRevisions(a) ==
    /\ job[a].at = "counted"
    /\ IF \E v \in Revisions : Published(v) /\ job[a].role \in Named(revision[v].content)
         THEN Finish(a) ELSE At(a, "deleting")
    /\ JobsOnly

CommitDeleteRole(a) ==
    /\ job[a].at = "deleting"
    /\ liveRoles' = liveRoles \ {job[a].role}
    /\ Finish(a)
    /\ UNCHANGED <<revision, process, liveDepartments>>

DeleteUnlocked(x) ==  \* the statement alone conflicts with no key share
    /\ x \in liveDepartments
    /\ liveDepartments' = liveDepartments \ {x}
    /\ UNCHANGED <<revision, process, liveRoles, job>>

\* delete_department, as far as revisions go: FOR UPDATE, and no question asked.
DeleteDepartment(x) ==
    /\ x \in liveDepartments /\ DepartmentIsFree(x)
    /\ liveDepartments' = liveDepartments \ {x}
    /\ UNCHANGED <<revision, process, liveRoles, job>>

\* A statement fails or the process dies: the transaction is rolled back.
RollBack(a) == job[a] # NoJob /\ Finish(a) /\ JobsOnly

-----------------------------------------------------------------------------
PublishingNext ==
    \/ \E v \in Revisions :
         \/ Deprecate(v) \/ DeleteRevision(v)
         \/ \E c \in Contents : Create(v, c) \/ Edit(v, c)
    \/ \E p \in Processes : ClaimTask(p) \/ ReassignTask(p) \/ End(p)
    \/ \E x \in Departments : DeleteDepartment(x)
    \/ \E a \in Actors :
         \/ \E v \in Revisions : OpenPublish(a, v) \/ \E p \in Processes : OpenStart(a, p, v)
         \/ \E p \in Processes : OpenDecision(a, p) \/ \E r \in Roles : OpenReassign(a, p, r)
         \/ \E r \in Roles : OpenDeleteRole(a, r)
         \/ HoldRoles(a) \/ HoldDepartment(a) \/ CommitPublish(a) \/ CommitTask(a)
         \/ CountTasks(a) \/ CountRevisions(a) \/ CommitDeleteRole(a) \/ RollBack(a)

PublishingSpec == PublishingInit /\ [][PublishingNext]_publishingVars

-----------------------------------------------------------------------------
(* Properties                                                              *)

RevisionRows == [status : {"DRAFT", "ACTIVE", "DEPRECATED", "DELETED"}, content : Contents]
ProcessRows == [at : Nat \ {0}, revision : Revisions,
                offered : Roles \cup {Nothing}, claimed : BOOLEAN]

PublishingTypeOK ==
    /\ revision \in [Revisions -> {Unwritten} \cup RevisionRows]
    /\ process \in [Processes -> {NotStarted} \cup ProcessRows]
    /\ \A p \in Processes : process[p].at > 0 => process[p].at \in States(Content(p))
    /\ liveRoles \subseteq Roles /\ liveDepartments \subseteq Departments
    /\ DOMAIN job = Actors

(* A role is never gone while something needs it: the roles a published    *)
(* revision names are live for as long as a process can start or still     *)
(* runs on it, and so are those that open tasks wait for, a task that was  *)
(* reassigned to a role its definition never names included (delete_role   *)
(* against publish, start, decisions and reassign; D-89, D-91, D-111).     *)
NoRoleIsMissing ==
    /\ \A v \in Revisions : Published(v) => Named(revision[v].content) \subseteq liveRoles
    /\ \A r \in Roles : Needing(r) # {} => r \in liveRoles

(* What is published is what was checked: when a revision becomes ACTIVE   *)
(* the department and the roles its definition then names are live, and no *)
(* edit or deletion came between (publish_definition, D-142, #572).        *)
PublishedAsChecked ==
    [][\A v \in Revisions :
         revision'[v].status = "ACTIVE" /\ revision[v].status # "ACTIVE" =>
           /\ Named(revision'[v].content) \subseteq liveRoles'
           /\ Scope[revision'[v].content] \in liveDepartments' \cup {Nothing}]_publishingVars
=============================================================================
