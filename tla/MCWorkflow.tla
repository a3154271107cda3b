----------------------------- MODULE MCWorkflow -----------------------------
(* Instances for TLC of what a decision goes through: the process of a       *)
(* document, and the outbox that carries its events.  They share nothing     *)
(* here: `part` says which one a behaviour is about, and the other stays in  *)
(* its first state.                                                          *)
(*                                                                           *)
(* The process is an approval with automatic routing and a correction task:  *)
(*   route   (service)  AUTO    -> done (a small amount), else review        *)
(*   review  (role)     APPROVE -> done, REJECT -> rejected,                 *)
(*                      RETURN  -> correct                                   *)
(*   correct (u1)       RESUBMIT, APPROVE -> route, REJECT -> redraft        *)
(*   redraft (u1)       APPROVE -> route                                     *)
(* While it is in redraft the document is a draft, and once it has ended in  *)
(* rejected it is one too; that state is final and raises a task all the     *)
(* same.                                                                     *)
EXTENDS Outbox, Workflow, TLC

CONSTANTS d2, u1, small

\* Two replicas, two events, two attempts before the dead letter and a lease
\* longer than the first retry delay, as LEASE (300 s) is longer than 30 s.
MCBackoff == [n \in 1..MaxAttempts |-> 2 ^ (n - 1)]
MCCreatedAt == [e \in Events |-> 0]
OwnAggregate == [e \in Events |-> e]

MCStates == {"route", "review", "correct", "redraft", "done", "rejected"}
MCFinal == {"done", "rejected"}
MCKind == [s \in MCStates |-> CASE s = "route" -> "service"
                                [] s \in {"review", "correct", "redraft", "rejected"} -> "human"
                                [] OTHER -> "none"]
MCMaps == [s \in MCStates |-> CASE s = "route" -> "IN_REVIEW"
                                [] s = "review" -> "PENDING_APPROVAL"
                                [] s = "correct" -> "RETURNED"
                                [] s = "done" -> "APPROVED"
                                [] s \in {"redraft", "rejected"} -> "DRAFT"]
MCAssignee == [s \in MCStates |-> IF s \in {"correct", "redraft"} THEN u1 ELSE Null]
To(from, action, to, when) == [from |-> from, action |-> action, to |-> to, when |-> when]
MCEdges == <<To("route", "AUTO", "review", Forms),
             To("route", "AUTO", "done", {small}),
             To("review", "APPROVE", "done", Forms),
             To("review", "REJECT", "rejected", Forms),
             To("review", "RETURN", "correct", Forms),
             To("correct", "RESUBMIT", "route", Forms),
             To("correct", "APPROVE", "route", Forms),
             To("correct", "REJECT", "redraft", Forms),
             To("redraft", "APPROVE", "route", Forms)>>

ASSUME WorkflowConstants == ConstantsOK

Symmetry == Permutations(Clients) \cup Permutations(Workers)

VARIABLE part

\* Two documents side by side, the second on the manual route, which reads no
\* form; one document whose type is bound anew; or one with a large amount
\* that its process makes a draft again, or that a second process decides.
TasksUsed == {t \in Tasks : task'[t].status # "ABSENT"}
NoRedraft == \A i \in Instances : inst'[i].state # "redraft"
OneDocument ==
    /\ doc'[d2] = doc[d2]
    /\ \A c \in Clients : request'[c].kind # "idle" => request'[c].doc # d2

Together ==
    /\ rebinds' = 0 /\ doc'[d2].form = small /\ issued' <= 2
    /\ Cardinality(TasksUsed) <= 3 /\ NoRedraft
Rebinding == OneDocument /\ NoRedraft /\ Cardinality(TasksUsed) <= 3 /\ issued' <= 2
Redrafting ==
    /\ OneDocument /\ rebinds' <= 1 /\ issued' <= 2
    /\ \A d \in Docs : doc'[d].form = doc[d].form

DecisionsInit ==
    /\ part \in {"outbox", "together", "rebinding", "redrafting"}
    /\ Init /\ WorkflowInit
    /\ \A d \in Docs : doc[d].form \in (IF part = "redrafting" THEN Forms \ {small} ELSE {small})
DecisionsNext ==
    /\ UNCHANGED part
    /\ \/ part = "outbox" /\ Next /\ UNCHANGED workflowVars
       \/ /\ part # "outbox" /\ WorkflowNext
          /\ CASE part = "together" -> Together
               [] part = "rebinding" -> Rebinding
               [] part = "redrafting" -> Redrafting
          /\ UNCHANGED vars
DecisionsSpec == DecisionsInit /\ [][DecisionsNext]_<<part, vars, workflowVars>>
=============================================================================
