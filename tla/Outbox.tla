------------------------------- MODULE Outbox -------------------------------
(***************************************************************************)
(* The transactional outbox (modules/outbox): events written in the        *)
(* transaction of the business write they record, and the workers, one per *)
(* replica of the process, that claim them under a lease and deliver each  *)
(* in a transaction of its own.                                            *)
(*                                                                         *)
(* Time is the database's clock, in ticks.  A tick passes either because   *)
(* no worker has anything to do, or because a worker is slow; slow ticks   *)
(* and faults are bounded by MaxSlow and MaxFaults.                        *)
(***************************************************************************)
EXTENDS Naturals, FiniteSets, Sequences

CONSTANTS
    Events,       \* event ids; v7 UUIDs, ordered by the moment they were made
    Unknown,      \* the events whose type no consumer of this build reads
    Aggregate,    \* the workflow instance each event is about
    CreatedAt,    \* created_at: the start of the writing transaction
    Workers,      \* one outbox worker per replica
    Batch,        \* BATCH: rows one pass claims at most
    Lease,        \* LEASE, in ticks
    MaxAttempts,  \* MAX_ATTEMPTS
    Backoff,      \* retry_delay, in ticks, for attempts 1..MaxAttempts
    None,         \* no worker, no claim
    MaxFaults,    \* bound: worker crashes and failed statements, together
    MaxSlow       \* bound: ticks that pass while a worker has work to do

ASSUME EventsAssumption == Events \subseteq Nat \ {0}
ASSUME UnknownAssumption == Unknown \subseteq Events
ASSUME NoneAssumption == None \notin Workers
ASSUME TimeAssumption ==
    /\ Lease \in Nat \ {0}
    /\ MaxAttempts \in Nat \ {0}
    /\ Backoff \in [1..MaxAttempts -> Nat \ {0}]

VARIABLES
    row,      \* outbox_events: status, attempt_count, next_attempt_at
    now,      \* the database's clock
    pc,       \* where each worker's loop stands
    batch,    \* claims of the current pass a worker has not yet taken up
    current,  \* the claim each worker is delivering
    started,  \* now() in the delivery's transaction: its start
    outcome,  \* what the consumer made of the delivery
    holder,   \* ghost: the worker that claimed each row last
    settled,  \* ghost: each row's committed settlements, in order
    logged,   \* ghost: committed consumer transactions per event
    faults, slow

vars == <<row, now, pc, batch, current, started, outcome, holder, settled,
          logged, faults, slow>>

Statuses == {"ABSENT", "PENDING", "PROCESSING", "FAILED", "PROCESSED",
             "DEAD_LETTER"}
Terminal == {"PROCESSED", "DEAD_LETTER"}
Claim == [event : Events, lease : Nat, attempts : Nat]
Outcomes == {"delivered", "retry", "error"}

-----------------------------------------------------------------------------
(* The rows                                                                *)

\* NULL in next_attempt_at is 0; no status that stores NULL reads it.
Row(status, attempts, next) ==
    [status |-> status, attempts |-> attempts, next |-> next]

\* Mutants, here and below: what the definition they precede would be with a
\* plausible bug in it.
AfterLate(attempt, result, at) ==  \* one attempt too many
    IF result = "delivered" THEN Row("PROCESSED", attempt, 0)
    ELSE IF attempt > MaxAttempts THEN Row("DEAD_LETTER", attempt, 0)
    ELSE Row("FAILED", attempt, at + Backoff[IF attempt > MaxAttempts THEN MaxAttempts ELSE attempt])

AfterUncounted(attempt, result, at) ==  \* a retry forgets the failure it follows
    IF result = "delivered" THEN Row("PROCESSED", attempt, 0)
    ELSE IF attempt >= MaxAttempts THEN Row("DEAD_LETTER", attempt, 0)
    ELSE Row("FAILED", attempt - 1, at + Backoff[attempt])

\* Settlement::after: where a row goes after its attempt-th attempt, whose
\* retry is counted from `at`.
After(attempt, result, at) ==
    IF result = "delivered" THEN Row("PROCESSED", attempt, 0)
    ELSE IF attempt >= MaxAttempts THEN Row("DEAD_LETTER", attempt, 0)
    ELSE Row("FAILED", attempt, at + Backoff[attempt])

\* A row whose settlement is written but not committed is locked.
Locked(e) == \E w \in Workers : pc[w] = "commit" /\ current[w].event = e

DueAgain(e) ==  \* terminal rows are claimed too
    /\ row[e].status # "ABSENT"
    /\ row[e].status = "PENDING" \/ row[e].next <= now

DueOnce(e) ==  \* an expired lease does not return a row
    /\ row[e].status \in {"PENDING", "FAILED"}
    /\ row[e].status = "PENDING" \/ row[e].next <= now

Due(e) ==
    /\ row[e].status \in {"PENDING", "PROCESSING", "FAILED"}
    /\ row[e].status = "PENDING" \/ row[e].next <= now

Precedes(d, e) == CreatedAt[d] < CreatedAt[e] \/ (CreatedAt[d] = CreatedAt[e] /\ d < e)

\* ORDER BY created_at, id LIMIT Batch
Oldest(D) == {e \in D : Cardinality({d \in D : Precedes(d, e)}) < Batch}

Claimable == Oldest({e \in Events : Due(e) /\ ~Locked(e)})

HoldsAnyLease(c) == row[c.event].status = "PROCESSING"

\* The fence: settle's WHERE clause.
Holds(c) == row[c.event].status = "PROCESSING" /\ row[c.event].next = c.lease

-----------------------------------------------------------------------------
Init ==
    /\ row = [e \in Events |-> Row("ABSENT", 0, 0)]
    /\ now = 0
    /\ pc = [w \in Workers |-> "idle"]
    /\ batch = [w \in Workers |-> {}]
    /\ current = [w \in Workers |-> None]
    /\ started = [w \in Workers |-> 0]
    /\ outcome = [w \in Workers |-> "delivered"]
    /\ holder = [e \in Events |-> None]
    /\ settled = [e \in Events |-> <<>>]
    /\ logged = [e \in Events |-> 0]
    /\ faults = 0
    /\ slow = 0

(* A business transaction commits, and its event with it.  The transitions *)
(* of one instance are serialised by its lock, so its events are written   *)
(* in order.                                                               *)
Write(e) ==
    /\ row[e].status = "ABSENT"
    /\ \A d \in Events : Aggregate[d] = Aggregate[e] /\ d < e => row[d].status # "ABSENT"
    /\ row' = [row EXCEPT ![e] = Row("PENDING", 0, 0)]
    /\ UNCHANGED <<now, pc, batch, current, started, outcome, holder, settled, logged, faults, slow>>

(* claim: one statement takes the oldest due rows no one has locked, each  *)
(* under a lease.                                                          *)
ClaimBatch(w) ==
    /\ pc[w] = "idle"
    /\ Claimable # {}
    /\ row' = [e \in Events |-> IF e \in Claimable
                                THEN Row("PROCESSING", row[e].attempts, now + Lease)
                                ELSE row[e]]
    /\ batch' = [batch EXCEPT ![w] =
                    {[event |-> e, lease |-> now + Lease, attempts |-> row[e].attempts] :
                        e \in Claimable}]
    /\ holder' = [e \in Events |-> IF e \in Claimable THEN w ELSE holder[e]]
    /\ pc' = [pc EXCEPT ![w] = "next"]
    /\ UNCHANGED <<now, current, started, outcome, settled, logged, faults, slow>>

(* The pass takes up its claims in id order, each in a new transaction.    *)
(* The lease is not looked at again before the consumer runs.              *)
BeginDelivery(w) ==
    /\ pc[w] = "next"
    /\ \E c \in batch[w] :
        /\ \A d \in batch[w] : c.event <= d.event
        /\ current' = [current EXCEPT ![w] = c]
        /\ batch' = [batch EXCEPT ![w] = @ \ {c}]
    /\ started' = [started EXCEPT ![w] = now]
    /\ pc' = [pc EXCEPT ![w] = "dispatch"]
    /\ UNCHANGED <<row, now, outcome, holder, settled, logged, faults, slow>>

EndPass(w) ==
    /\ pc[w] = "next"
    /\ batch[w] = {}
    /\ pc' = [pc EXCEPT ![w] = "idle"]
    /\ UNCHANGED <<row, now, batch, current, started, outcome, holder, settled, logged, faults, slow>>

DispatchKeepsWrites(w) ==  \* an error does not roll the consumer's writes back
    /\ pc[w] = "dispatch"
    /\ \E result \in Outcomes :
        /\ current[w].event \in Unknown => result = "delivered"
        /\ outcome' = [outcome EXCEPT ![w] = result]
        /\ pc' = [pc EXCEPT ![w] = "settle"]
    /\ UNCHANGED <<row, now, batch, current, started, holder, settled, logged, faults, slow>>

(* The consumer runs in the delivery's transaction.  An error rolls that   *)
(* transaction back; an unknown event type is delivered to nobody.         *)
Dispatch(w) ==
    /\ pc[w] = "dispatch"
    /\ \E result \in Outcomes :
        /\ current[w].event \in Unknown => result = "delivered"
        /\ outcome' = [outcome EXCEPT ![w] = result]
        /\ pc' = [pc EXCEPT ![w] = IF result = "error" THEN "record" ELSE "settle"]
    /\ UNCHANGED <<row, now, batch, current, started, holder, settled, logged, faults, slow>>

\* deliver_one returns: its locals are gone.
Return(w) ==
    /\ pc' = [pc EXCEPT ![w] = "next"]
    /\ current' = [current EXCEPT ![w] = None]
    /\ started' = [started EXCEPT ![w] = 0]
    /\ outcome' = [outcome EXCEPT ![w] = "delivered"]

(* The settlement inside the transaction: it locks the row it matches, and *)
(* a delivery that was overtaken is rolled back, consumer writes and all.  *)
Settle(w) ==
    /\ pc[w] = "settle"
    /\ ~Locked(current[w].event)
    /\ \/ /\ Holds(current[w])
          /\ pc' = [pc EXCEPT ![w] = "commit"]
          /\ UNCHANGED <<current, started, outcome>>
       \/ ~Holds(current[w]) /\ Return(w)
    /\ UNCHANGED <<row, now, batch, holder, settled, logged, faults, slow>>

Settlement(w, at) ==
    LET c == current[w]
    IN  /\ row' = [row EXCEPT ![c.event] = After(c.attempts + 1, outcome[w], at)]
        /\ settled' = [settled EXCEPT ![c.event] =
                Append(@, [attempt |-> c.attempts + 1, result |-> outcome[w]])]

(* Settlement and consumer writes become visible together.  now() in the   *)
(* statement was the transaction's start.                                  *)
Commit(w) ==
    /\ pc[w] = "commit"
    /\ Settlement(w, started[w])
    /\ logged' = [logged EXCEPT ![current[w].event] = @ + 1]
    /\ Return(w)
    /\ UNCHANGED <<now, batch, holder, faults, slow>>

(* After a consumer error the attempt is counted by a statement of its own.*)
RecordError(w) ==
    /\ pc[w] = "record"
    /\ ~Locked(current[w].event)
    /\ IF Holds(current[w]) THEN Settlement(w, now) ELSE UNCHANGED <<row, settled>>
    /\ Return(w)
    /\ UNCHANGED <<now, batch, holder, logged, faults, slow>>

(* A statement of deliver_one fails: its transaction is dropped, and the   *)
(* lease returns the row.                                                  *)
StatementFails(w) ==
    /\ pc[w] \in {"dispatch", "settle", "commit", "record"}
    /\ faults < MaxFaults
    /\ faults' = faults + 1
    /\ Return(w)
    /\ UNCHANGED <<row, now, batch, holder, settled, logged, slow>>

(* The process dies and is started again.  What it had claimed stays       *)
(* PROCESSING under its lease; what it had not committed is gone.          *)
Crash(w) ==
    /\ pc[w] # "idle"
    /\ faults < MaxFaults
    /\ faults' = faults + 1
    /\ pc' = [pc EXCEPT ![w] = "idle"]
    /\ batch' = [batch EXCEPT ![w] = {}]
    /\ current' = [current EXCEPT ![w] = None]
    /\ started' = [started EXCEPT ![w] = 0]
    /\ outcome' = [outcome EXCEPT ![w] = "delivered"]
    /\ UNCHANGED <<row, now, holder, settled, logged, slow>>

Waiting(e) == row[e].status \in {"PROCESSING", "FAILED"}
Quiet == (\A w \in Workers : pc[w] = "idle") /\ Claimable = {}

Tick ==
    /\ \E e \in Events : Waiting(e) /\ (Quiet => now < row[e].next)
    /\ \/ Quiet /\ UNCHANGED slow
       \/ ~Quiet /\ slow < MaxSlow /\ slow' = slow + 1
    /\ now' = now + 1
    /\ UNCHANGED <<row, pc, batch, current, started, outcome, holder, settled, logged, faults>>

Deliver(w) ==
    \/ ClaimBatch(w) \/ BeginDelivery(w) \/ EndPass(w)
    \/ Dispatch(w) \/ Settle(w) \/ Commit(w) \/ RecordError(w)

Next ==
    \/ \E e \in Events : Write(e)
    \/ \E w \in Workers : Deliver(w) \/ StatementFails(w) \/ Crash(w)
    \/ Tick

Spec == Init /\ [][Next]_vars

(* The worker's loop never ends and the clock never stops.  Nothing makes  *)
(* a business transaction write, and nothing makes a fault happen.         *)
Fairness == WF_vars(Tick) /\ \A w \in Workers : WF_vars(Deliver(w))

FairSpec == Spec /\ Fairness

-----------------------------------------------------------------------------
(* Type correctness: what each column and each worker's local may hold.    *)
TypeOK ==
    /\ row \in [Events -> [status : Statuses, attempts : Nat, next : Nat]]
    /\ now \in Nat
    /\ pc \in [Workers -> {"idle", "next", "dispatch", "settle", "commit", "record"}]
    /\ batch \in [Workers -> SUBSET Claim]
    /\ current \in [Workers -> Claim \cup {None}]
    /\ started \in [Workers -> Nat]
    /\ outcome \in [Workers -> Outcomes]
    /\ holder \in [Events -> Workers \cup {None}]
    /\ settled \in [Events -> Seq([attempt : Nat, result : Outcomes])]
    /\ logged \in [Events -> Nat]
    /\ faults \in Nat /\ slow \in Nat

(* The fence of repository::settle: only the claim that took a row last    *)
(* settles it, whatever earlier claimants that outlived their lease do.    *)
SettledByItsHolder ==
    [][\A e \in Events :
        settled'[e] # settled[e] =>
            /\ holder[e] \in Workers
            /\ pc[holder[e]] \in {"commit", "record"}
            /\ pc'[holder[e]] = "next"
            /\ current[holder[e]].event = e]_vars

(* attempt_count, with leases, crashes and overtaken workers, is exactly   *)
(* the number of settled attempts: none is counted twice and none skipped. *)
AttemptsAreCountedOnce ==
    \A e \in Events :
        /\ row[e].attempts = Len(settled[e])
        /\ \A i \in 1..Len(settled[e]) : settled[e][i].attempt = i

(* DEAD_LETTER means MaxAttempts failures in a row and nothing else, and   *)
(* PROCESSED one success, the last of the attempts.                        *)
TerminalRowsEarnedIt ==
    \A e \in Events :
        LET n == Len(settled[e])
        IN  /\ row[e].status = "DEAD_LETTER" <=> (n = MaxAttempts /\ settled[e][n].result # "delivered")
            /\ row[e].status = "PROCESSED" <=> (n > 0 /\ settled[e][n].result = "delivered")

(* deliver_one: the consumer's writes commit with the settlement of their  *)
(* attempt, and an attempt that errored leaves none of them behind.        *)
EffectsCommitWithSettlement ==
    \A e \in Events :
        logged[e] = Cardinality({i \in 1..Len(settled[e]) : settled[e][i].result # "error"})

(* The rows, as the promise of module Delivery sees them.                  *)
AbstractState(status) ==
    CASE status = "ABSENT" -> "absent"
      [] status = "PROCESSED" -> "processed"
      [] status = "DEAD_LETTER" -> "dead"
      [] OTHER -> "waiting"

Promise == INSTANCE Delivery WITH
    state <- [e \in Events |-> AbstractState(row[e].status)],
    attempts <- [e \in Events |-> row[e].attempts]

(* The outbox implements the promise: whatever the replicas, the leases    *)
(* and the crashes do, each step is one counted attempt or none.           *)
KeepsThePromise == Promise!Spec

(* An event that was written is never forgotten: crashes and failed        *)
(* statements delay it, and it ends processed or in the dead letter.       *)
EveryEventIsSettled ==
    \A e \in Events : row[e].status = "PENDING" ~> row[e].status \in Terminal
=============================================================================
