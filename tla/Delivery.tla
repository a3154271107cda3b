------------------------------ MODULE Delivery ------------------------------
(***************************************************************************)
(* What the outbox promises to whoever writes an event and to whoever      *)
(* reads the row: an event exists once, is attempted one counted attempt   *)
(* at a time, leaves the queue by one success or by the MaxAttempts-th     *)
(* failure, and never comes back.  Replicas, leases, transactions and      *)
(* crashes do not appear.                                                  *)
(***************************************************************************)
EXTENDS Naturals

CONSTANTS Events, MaxAttempts

VARIABLES state, attempts

vars == <<state, attempts>>

Init ==
    /\ state = [e \in Events |-> "absent"]
    /\ attempts = [e \in Events |-> 0]

Publish(e) ==
    /\ state[e] = "absent"
    /\ state' = [state EXCEPT ![e] = "waiting"]
    /\ UNCHANGED attempts

Attempt(e) ==
    /\ state[e] = "waiting"
    /\ attempts' = [attempts EXCEPT ![e] = @ + 1]

Succeed(e) ==
    /\ Attempt(e)
    /\ state' = [state EXCEPT ![e] = "processed"]

Fail(e) ==
    /\ Attempt(e)
    /\ IF attempts[e] + 1 < MaxAttempts
       THEN UNCHANGED state
       ELSE state' = [state EXCEPT ![e] = "dead"]

Next == \E e \in Events : Publish(e) \/ Succeed(e) \/ Fail(e)

Spec == Init /\ [][Next]_vars
=============================================================================
