----------------------------- MODULE AuditTrail -----------------------------
(***************************************************************************)
(* The hash chain of a tenant's audit trail (modules/audit): `record`      *)
(* reads the hash of the newest entry on the pool and inserts the next     *)
(* entry, whose hash covers it, in a statement of its own.  Requests audit *)
(* what they did after their own transaction, so any number of them do     *)
(* this at once.                                                           *)
(***************************************************************************)
EXTENDS Naturals, Sequences

CONSTANTS
    Writers,    \* requests that have something to record
    MaxRows     \* bound: entries

VARIABLES
    trail,      \* audit_events: for each entry, the entry its hash covers
    writer      \* the entry each request takes for the newest, once it has looked

vars == <<trail, writer>>

Init == trail = <<>> /\ writer = [w \in Writers |-> {}]

\* SELECT current_hash ... ORDER BY created_at DESC LIMIT 1, or the genesis
\* hash, which is entry 0.
ReadNewest(w) ==
    /\ writer[w] = {}
    /\ writer' = [writer EXCEPT ![w] = {Len(trail)}]
    /\ UNCHANGED trail

\* created_at is taken here: entries are numbered in that order.
Insert(w) ==
    /\ writer[w] # {} /\ Len(trail) < MaxRows
    /\ \E newest \in writer[w] : trail' = Append(trail, newest)
    /\ writer' = [writer EXCEPT ![w] = {}]

\* record_or_warn: a failure leaves a gap in the log and none in the chain.
Fail(w) ==
    /\ writer[w] # {}
    /\ writer' = [writer EXCEPT ![w] = {}]
    /\ UNCHANGED trail

Next == \E w \in Writers : ReadNewest(w) \/ Insert(w) \/ Fail(w)

Spec == Init /\ [][Next]_vars

(* audit/mod.rs:169: "altering or removing any row breaks every hash after *)
(* it": the hash of each entry covers, through those in between, every     *)
(* entry before it (refuted: two requests extend the same entry, and the   *)
(* last of one branch can be removed unseen).                              *)
EveryHashCoversTheRest ==
    \A y \in 1..Len(trail) : trail[y] = y - 1
=============================================================================
