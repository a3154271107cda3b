----------------------------- MODULE Hierarchy ------------------------------
(***************************************************************************)
(* The two trees of the product, facilities (modules/master_data) and      *)
(* departments (modules/organization): creation, moves and deletions of    *)
(* nodes, each a request of several statements under READ COMMITTED.       *)
(*                                                                         *)
(* Creations and moves under a parent take the tenant's hierarchy lock.    *)
(* A deletion of a facility takes it too; one of a department locks the    *)
(* department's row alone.  A reference to a parent is a foreign key: the  *)
(* statement that writes it waits for whoever holds the parent's row, and  *)
(* a deleted row is still a row to it.                                     *)
(***************************************************************************)
EXTENDS Naturals, FiniteSets

CONSTANTS
    Nodes,
    NoNode,     \* no parent
    Requests,
    MaxDepth    \* MAX_FACILITY_DEPTH, MAX_DEPARTMENT_DEPTH

TreesConstantsOK ==
    /\ NoNode \notin Nodes
    /\ IsFiniteSet(Nodes) /\ MaxDepth \in Nat \ {0}

VARIABLES
    tree,       \* which of the two a behaviour is about, chosen for good
    state,      \* each node: absent, live or deleted (deleted_at)
    parent,     \* parent_facility_id, parent_department_id
    request     \* where each request stands, its node and its parent

treeVars == <<tree, state, parent, request>>

NoRequest == [at |-> "idle"]

\* A creation or a move: resolved on the pool, lock taken, parent read again,
\* path walked.  A deletion: lock taken, row locked, children counted.
Writing == {"resolved", "locked", "live", "walked"}
Deleting == {"deleting", "entered", "held", "counted"}

TreesInit ==
    /\ tree \in {"facilities", "departments"}
    /\ state = [x \in Nodes |-> "absent"]
    /\ parent = [x \in Nodes |-> NoNode]
    /\ request = [q \in Requests |-> NoRequest]

Live == {x \in Nodes : state[x] = "live"}
Children(x) == {y \in Live : parent[y] = x}

MoveOn(q, at) == request' = [request EXCEPT ![q].at = at]
EndRequest(q) == request' = [request EXCEPT ![q] = NoRequest]

\* pg_advisory_xact_lock: held to the end of the transaction.
HierarchyIsFree ==
    \A q \in Requests :
        request[q].at \notin {"locked", "live", "walked"}
          /\ (tree = "facilities" => request[q].at \notin {"entered", "held", "counted"})

\* FOR UPDATE, by a deletion.
NodeIsFree(x) ==
    \A q \in Requests : request[q].at \in {"held", "counted"} => request[q].node # x

\* Ancestors of p among live nodes, itself among them: the smallest set with p,
\* if that is live, that has the parent of each of its members.
Upwards(A) == \A x \in A : parent[x] \in Live => parent[x] \in A
Ancestry(p) ==
    {y \in Live : \A A \in SUBSET Live : (p \in Live => p \in A) /\ Upwards(A) => y \in A}

\* The walk ran out of depth before it met a root.
Truncated(A) ==
    \/ Cardinality(A) > MaxDepth
    \/ Cardinality(A) = MaxDepth /\ \A x \in A : parent[x] # NoNode

-----------------------------------------------------------------------------
(* Creation and move                                                       *)

NodesOnly == UNCHANGED <<tree, state, parent>>

\* The handler up to its transaction: the node of a move, and the parent.
Resolve(q, x, p) ==
    /\ request[q] = NoRequest
    /\ state[x] \in {"absent", "live"}
    /\ state[x] = "absent" => \A r \in Requests : request[r] # NoRequest => request[r].node # x
    /\ p \in Live \cup {NoNode}
    /\ request' = [request EXCEPT ![q] =
         [at |-> "resolved", node |-> x, under |-> p, new |-> state[x] = "absent"]]
    /\ NodesOnly

LockNothing(q) ==  \* the check is made without the lock
    /\ request[q].at = "resolved" /\ request[q].under # NoNode
    /\ MoveOn(q, "locked") /\ NodesOnly

\* lock_facility_hierarchy, lock_department_hierarchy: only under a parent.
LockHierarchy(q) ==
    /\ request[q].at = "resolved" /\ request[q].under # NoNode
    /\ HierarchyIsFree
    /\ MoveOn(q, "locked") /\ NodesOnly

\* facility_is_live, department_is_live
ReadParentAgain(q) ==
    /\ request[q].at = "locked"
    /\ IF request[q].under \in Live THEN MoveOn(q, "live") ELSE EndRequest(q)
    /\ NodesOnly

\* refuse_cycle, for a move.
WalkUp(q) ==
    /\ request[q].at = "live"
    /\ LET A == Ancestry(request[q].under)
       IN  IF request[q].new \/ (request[q].node \notin A /\ ~Truncated(A))
             THEN MoveOn(q, "walked") ELSE EndRequest(q)
    /\ NodesOnly

\* The statement and the commit.  An update waits for the row of its node,
\* and either statement for the row of the parent it writes.
Write(q) ==
    /\ request[q].at \in {"resolved", "walked"}
    /\ request[q].at = "resolved" => request[q].under = NoNode
    /\ LET x == request[q].node
           p == request[q].under
       IN  /\ ~request[q].new => NodeIsFree(x)
           /\ p # NoNode => NodeIsFree(p)
           /\ IF request[q].new \/ state[x] = "live"
                THEN /\ state' = [state EXCEPT ![x] = "live"]
                     /\ parent' = [parent EXCEPT ![x] = p]
                ELSE UNCHANGED <<state, parent>>
    /\ EndRequest(q) /\ UNCHANGED tree

-----------------------------------------------------------------------------
(* Deletion                                                                *)

BeginDelete(q, x) ==
    /\ request[q] = NoRequest /\ x \in Live
    /\ request' = [request EXCEPT ![q] =
         [at |-> "deleting", node |-> x, under |-> NoNode, new |-> FALSE]]
    /\ NodesOnly

EnterDelete(q) ==
    /\ request[q].at = "deleting"
    /\ tree = "facilities" => HierarchyIsFree
    /\ MoveOn(q, "entered") /\ NodesOnly

\* lock_record_status, lock_for_delete
LockRow(q) ==
    /\ request[q].at = "entered" /\ NodeIsFree(request[q].node)
    /\ IF request[q].node \in Live THEN MoveOn(q, "held") ELSE EndRequest(q)
    /\ NodesOnly

CountNothing(q) ==  \* a node with others under it is deleted
    /\ request[q].at = "held"
    /\ MoveOn(q, "counted") /\ NodesOnly

\* children_of, dependents
CountChildren(q) ==
    /\ request[q].at = "held"
    /\ IF Children(request[q].node) = {} THEN MoveOn(q, "counted") ELSE EndRequest(q)
    /\ NodesOnly

SoftDelete(q) ==
    /\ request[q].at = "counted"
    /\ state' = [state EXCEPT ![request[q].node] = "deleted"]
    /\ EndRequest(q) /\ UNCHANGED <<tree, parent>>

\* A statement fails or the process dies: the transaction is rolled back.
LoseRequest(q) == request[q] # NoRequest /\ EndRequest(q) /\ NodesOnly

-----------------------------------------------------------------------------
TreesNext ==
    \E q \in Requests :
        \/ \E x \in Nodes : (\E p \in Nodes \cup {NoNode} : Resolve(q, x, p)) \/ BeginDelete(q, x)
        \/ LockHierarchy(q) \/ ReadParentAgain(q) \/ WalkUp(q) \/ Write(q)
        \/ EnterDelete(q) \/ LockRow(q) \/ CountChildren(q) \/ SoftDelete(q)
        \/ LoseRequest(q)

TreesSpec == TreesInit /\ [][TreesNext]_treeVars

-----------------------------------------------------------------------------
(* Properties                                                              *)

TreesTypeOK ==
    /\ tree \in {"facilities", "departments"}
    /\ state \in [Nodes -> {"absent", "live", "deleted"}]
    /\ parent \in [Nodes -> Nodes \cup {NoNode}]
    /\ request \in [Requests -> {NoRequest} \cup [at : Writing \cup Deleting, node : Nodes,
                                             under : Nodes \cup {NoNode}, new : BOOLEAN]]

(* No set of live nodes has all its parents within: every walk upwards     *)
(* ends, however many moves are checked and made at once (#133, #134).     *)
NoLoops ==
    \A S \in (SUBSET Live) \ {{}} : \E x \in S : parent[x] \notin S

(* department_service.rs:88 on a parent read again under the hierarchy     *)
(* lock: otherwise "a delete landing in between would leave this row under *)
(* a department that no longer exists": nothing live is under what is gone *)
(* (kept for facilities, refuted for departments, whose deletion does not  *)
(* take that lock).                                                        *)
NothingUnderTheDeleted ==
    \A x \in Live : parent[x] \in Live \cup {NoNode}

\* Neither tree has a loop, and no facility is left under a deleted one.
TreesStayWhole == NoLoops /\ (tree = "facilities" => NothingUnderTheDeleted)
=============================================================================
