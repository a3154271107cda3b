---------------------------- MODULE OutboxProofs ----------------------------
(***************************************************************************)
(* Proofs about Outbox, for every set of events and workers, every lease,  *)
(* batch size, retry schedule and bound.  The argument is the life of a    *)
(* claim: an older claim's lease is always less than the lease the next    *)
(* claim of the row sets, so the lease identifies the claim.               *)
(***************************************************************************)
EXTENDS Outbox, FiniteSetTheorems, TLAPS

Delivering(w) == pc[w] \in {"dispatch", "settle", "commit", "record"}

\* The claims a worker still means to act on.
Held(w) == batch[w] \cup (IF Delivering(w) THEN {current[w]} ELSE {})

ClaimOK(w, c) ==
    LET r == row[c.event]
    IN  /\ r.status \notin {"ABSENT", "PENDING"}
        /\ c.lease <= now + Lease
        /\ r.status = "PROCESSING" =>
            /\ c.lease <= r.next
            /\ c.lease = r.next => holder[c.event] = w /\ c.attempts = r.attempts
        /\ r.status = "FAILED" => c.lease < r.next + Lease

ClaimsInv == \A w \in Workers : \A c \in Held(w) : ClaimOK(w, c)

DeliveryInv ==
    \A w \in Workers : Delivering(w) =>
        /\ current[w] \in Claim
        /\ current[w].lease <= started[w] + Lease
        /\ started[w] <= now
        /\ pc[w] = "commit" => Holds(current[w])

\* What a row's status says of its settlements.
HistoryInv ==
    \A e \in Events :
        LET n == Len(settled[e])
            last == settled[e][n].result
        IN  /\ row[e].status \in {"ABSENT", "PENDING"} => n = 0
            /\ row[e].status \in {"PROCESSING", "FAILED"} =>
                    n < MaxAttempts /\ (n > 0 => last # "delivered")
            /\ row[e].status = "PROCESSED" => n > 0 /\ last = "delivered"
            /\ row[e].status = "DEAD_LETTER" => n = MaxAttempts /\ last # "delivered"

IInv == TypeOK /\ ClaimsInv /\ DeliveryInv /\ AttemptsAreCountedOnce /\ HistoryInv

-----------------------------------------------------------------------------
(* Settlement::after yields a well-formed row.                             *)
LEMMA AfterType ==
    ASSUME NEW attempt \in Nat \ {0}, NEW result \in Outcomes, NEW at \in Nat
    PROVE  After(attempt, result, at) \in [status : Statuses, attempts : Nat, next : Nat]
<1>1. attempt < MaxAttempts => Backoff[attempt] \in Nat
  BY TimeAssumption
<1> QED
  BY <1>1, TimeAssumption DEF After, Row, Statuses, Outcomes

(* Appending keeps the type of a sequence.                                 *)
LEMMA AppendType ==
    ASSUME NEW S, NEW s \in Seq(S), NEW x \in S
    PROVE  Append(s, x) \in Seq(S)
OBVIOUS

(* What an appended sequence holds.                                        *)
LEMMA AppendElements ==
    ASSUME NEW S, NEW s \in Seq(S), NEW x \in S
    PROVE  /\ Len(Append(s, x)) = Len(s) + 1
           /\ Append(s, x)[Len(s) + 1] = x
           /\ \A i \in 1..Len(s) : Append(s, x)[i] = s[i]
OBVIOUS

(* The initial states have the type.                                       *)
LEMMA InitType == Init => TypeOK
  BY DEF Init, TypeOK, Row, Statuses, Outcomes

(* Leaving a delivery keeps the type of a worker's locals.                 *)
LEMMA ReturnType ==
    ASSUME TypeOK, NEW w \in Workers, Return(w)
    PROVE  /\ pc' \in [Workers -> {"idle", "next", "dispatch", "settle", "commit", "record"}]
           /\ current' \in [Workers -> Claim \cup {None}]
           /\ started' \in [Workers -> Nat]
           /\ outcome' \in [Workers -> Outcomes]
BY DEF TypeOK, Return, Outcomes

(* Every step keeps the type, given that a worker in mid-delivery holds a  *)
(* claim.                                                                  *)
LEMMA NextType == TypeOK /\ DeliveryInv /\ [Next]_vars => TypeOK'
<1> SUFFICES ASSUME TypeOK, DeliveryInv, [Next]_vars PROVE TypeOK'
  OBVIOUS
<1> USE DEF TypeOK
<1>1. ASSUME NEW e \in Events, Write(e) PROVE TypeOK'
  BY <1>1 DEF Write, Row, Statuses
<1>2. ASSUME NEW w \in Workers, ClaimBatch(w) PROVE TypeOK'
  <2>1. Claimable \subseteq Events
    BY DEF Claimable, Oldest
  <2>2. now + Lease \in Nat
    BY TimeAssumption
  <2>3. row' \in [Events -> [status : Statuses, attempts : Nat, next : Nat]]
    BY <1>2, <2>2 DEF ClaimBatch, Row, Statuses
  <2>4. batch' \in [Workers -> SUBSET Claim]
    BY <1>2, <2>1, <2>2 DEF ClaimBatch, Claim
  <2> QED
    BY <1>2, <2>3, <2>4 DEF ClaimBatch
<1>3. ASSUME NEW w \in Workers, BeginDelivery(w) PROVE TypeOK'
  <2>1. PICK c \in batch[w] : current' = [current EXCEPT ![w] = c]
                              /\ batch' = [batch EXCEPT ![w] = @ \ {c}]
    BY <1>3 DEF BeginDelivery
  <2>2. c \in Claim /\ batch[w] \ {c} \in SUBSET Claim
    OBVIOUS
  <2>3. current' \in [Workers -> Claim \cup {None}] /\ batch' \in [Workers -> SUBSET Claim]
    BY <2>1, <2>2
  <2> QED
    BY <1>3, <2>3 DEF BeginDelivery
<1>4. ASSUME NEW w \in Workers, EndPass(w) PROVE TypeOK'
  BY <1>4 DEF EndPass
<1>5. ASSUME NEW w \in Workers, Dispatch(w) PROVE TypeOK'
  BY <1>5 DEF Dispatch, Outcomes
<1>6. ASSUME NEW w \in Workers, Settle(w) PROVE TypeOK'
  <2>1. CASE Holds(current[w])
    BY <1>6, <2>1 DEF Settle
  <2>2. CASE ~Holds(current[w])
    BY <1>6, <2>2, ReturnType DEF Settle
  <2> QED
    BY <2>1, <2>2
<1>7. ASSUME NEW w \in Workers, Return(w), batch' = batch, now' = now, holder' = holder,
             UNCHANGED <<faults, slow>>, logged' \in [Events -> Nat], Delivering(w),
             \/ UNCHANGED <<row, settled>>
             \/ Settlement(w, started[w])
             \/ Settlement(w, now)
      PROVE TypeOK'
  <2>1. /\ pc' \in [Workers -> {"idle", "next", "dispatch", "settle", "commit", "record"}]
        /\ current' \in [Workers -> Claim \cup {None}]
        /\ started' \in [Workers -> Nat]
        /\ outcome' \in [Workers -> Outcomes]
    BY <1>7, ReturnType
  <2>2. ASSUME NEW at \in Nat, Settlement(w, at)
        PROVE  /\ row' \in [Events -> [status : Statuses, attempts : Nat, next : Nat]]
               /\ settled' \in [Events -> Seq([attempt : Nat, result : Outcomes])]
    <3>1. current[w].event \in Events /\ current[w].attempts + 1 \in Nat \ {0}
      BY <1>7 DEF DeliveryInv, Delivering, Claim
    <3>2. After(current[w].attempts + 1, outcome[w], at) \in [status : Statuses, attempts : Nat, next : Nat]
      BY <3>1, AfterType
    <3> QED
      <4>1. row' = [row EXCEPT ![current[w].event] = After(current[w].attempts + 1, outcome[w], at)]
        BY <2>2 DEF Settlement
      <4>2. row' \in [Events -> [status : Statuses, attempts : Nat, next : Nat]]
        BY <4>1, <3>1, <3>2
      <4> DEFINE new == [attempt |-> current[w].attempts + 1, result |-> outcome[w]]
      <4>3. new \in [attempt : Nat, result : Outcomes]
        BY <3>1
      <4>4. settled' = [settled EXCEPT ![current[w].event] = Append(settled[current[w].event], new)]
        BY <2>2 DEF Settlement
      <4>5. Append(settled[current[w].event], new) \in Seq([attempt : Nat, result : Outcomes])
        BY <3>1, <4>3, AppendType
      <4>6. settled' \in [Events -> Seq([attempt : Nat, result : Outcomes])]
        <5> HIDE DEF new
        <5> QED  BY <3>1, <4>4, <4>5
      <4> QED
        BY <4>2, <4>6
  <2>3. /\ row' \in [Events -> [status : Statuses, attempts : Nat, next : Nat]]
        /\ settled' \in [Events -> Seq([attempt : Nat, result : Outcomes])]
    BY <1>7, <2>2
  <2>4. /\ now' \in Nat
        /\ batch' \in [Workers -> SUBSET Claim]
        /\ holder' \in [Events -> Workers \cup {None}]
        /\ logged' \in [Events -> Nat]
        /\ faults' \in Nat /\ slow' \in Nat
    BY <1>7
  <2> QED
    BY <2>1, <2>3, <2>4
<1>8. ASSUME NEW w \in Workers, Commit(w) PROVE TypeOK'
  <2>1. /\ Delivering(w) /\ logged' \in [Events -> Nat]
        /\ Return(w) /\ Settlement(w, started[w])
        /\ UNCHANGED <<now, batch, holder, faults, slow>>
    BY <1>8 DEF Commit, Delivering, DeliveryInv, Claim
  <2> QED
    BY <1>7, <2>1
<1>9. ASSUME NEW w \in Workers, RecordError(w) PROVE TypeOK'
  BY <1>7, <1>9 DEF RecordError, Delivering
<1>10. ASSUME NEW w \in Workers, StatementFails(w) PROVE TypeOK'
  <2>1. /\ Return(w) /\ faults' \in Nat
        /\ UNCHANGED <<row, now, batch, holder, settled, logged, slow>>
    BY <1>10 DEF StatementFails
  <2> QED
    BY <2>1, ReturnType
<1>11. ASSUME NEW w \in Workers, Crash(w) PROVE TypeOK'
  BY <1>11 DEF Crash, Outcomes
<1>12. CASE Tick
  <2>1. slow' \in Nat /\ now' \in Nat
    BY <1>12 DEF Tick
  <2> QED
    BY <1>12, <2>1 DEF Tick
<1>13. CASE UNCHANGED vars
  BY <1>13 DEF vars
<1> QED
  BY <1>1, <1>2, <1>3, <1>4, <1>5, <1>6, <1>8, <1>9, <1>10, <1>11, <1>12, <1>13 DEF Next, Deliver

-----------------------------------------------------------------------------
(* What a step does to the claims in flight.                               *)

\* A claim's facts survive a step that leaves its row, its holder and the
\* past alone.
LEMMA ClaimKept ==
    ASSUME TypeOK, NEW w \in Workers, NEW c \in Claim, ClaimOK(w, c),
           row'[c.event] = row[c.event], holder'[c.event] = holder[c.event],
           now' \in Nat, now' >= now
    PROVE  ClaimOK(w, c)'
BY TimeAssumption DEF ClaimOK, Claim, TypeOK

\* A worker that returns from a delivery holds nothing it did not hold.
LEMMA ReturnHeld ==
    ASSUME TypeOK, NEW w \in Workers, Return(w), batch' = batch
    PROVE  /\ \A v \in Workers : Held(v)' \subseteq Held(v)
           /\ \A v \in Workers : Delivering(v)' => v # w /\ Delivering(v)
           /\ \A v \in Workers : v # w =>
                 pc'[v] = pc[v] /\ current'[v] = current[v]
                 /\ started'[v] = started[v] /\ outcome'[v] = outcome[v]
<1>1. /\ \A v \in Workers : v # w =>
            pc'[v] = pc[v] /\ current'[v] = current[v]
            /\ started'[v] = started[v] /\ outcome'[v] = outcome[v]
      /\ pc'[w] = "next"
  BY DEF Return, TypeOK
<1>2. ~Delivering(w)' /\ \A v \in Workers : v # w => (Delivering(v)' <=> Delivering(v))
  BY <1>1 DEF Delivering
<1> QED
  BY <1>1, <1>2 DEF Held

LEMMA HeldType ==
    ASSUME TypeOK, DeliveryInv, NEW w \in Workers
    PROVE  Held(w) \subseteq Claim
BY DEF TypeOK, DeliveryInv, Held

\* A settlement by the claim that holds the row: its attempt is the next one.
LEMMA SettlementInv ==
    ASSUME IInv, NEW w \in Workers, Delivering(w), Holds(current[w]),
           NEW at \in Nat, current[w].lease <= at + Lease,
           \A v \in Workers : v # w /\ pc[v] = "commit" => current[v].event # current[w].event,
           Settlement(w, at), Return(w), UNCHANGED <<now, batch, holder>>
    PROVE  ClaimsInv' /\ DeliveryInv' /\ AttemptsAreCountedOnce' /\ HistoryInv'
<1> DEFINE c == current[w]
           e == c.event
           n == Len(settled[e])
           new == [attempt |-> n + 1, result |-> outcome[w]]
           Entry == [attempt : Nat, result : Outcomes]
<1>1. c \in Claim /\ c \in Held(w) /\ e \in Events /\ outcome[w] \in Outcomes
  BY DEF IInv, DeliveryInv, Held, Claim, TypeOK
<1>2. ClaimOK(w, c)
  BY <1>1 DEF IInv, ClaimsInv
<1>3. /\ row[e].status = "PROCESSING" /\ row[e].next = c.lease
      /\ c.attempts = row[e].attempts /\ row[e].attempts = n
  BY <1>1, <1>2 DEF ClaimOK, Holds, IInv, AttemptsAreCountedOnce, TypeOK, Claim
<1>4. n \in Nat /\ n < MaxAttempts
  BY <1>1, <1>3 DEF IInv, HistoryInv, TypeOK
<1>5. /\ row' = [row EXCEPT ![e] = After(n + 1, outcome[w], at)]
      /\ settled' = [settled EXCEPT ![e] = Append(settled[e], new)]
  BY <1>3 DEF Settlement
<1>6. /\ row'[e] = After(n + 1, outcome[w], at)
      /\ \A d \in Events : d # e => row'[d] = row[d] /\ settled'[d] = settled[d]
      /\ settled'[e] = Append(settled[e], new)
  BY <1>1, <1>5 DEF IInv, TypeOK
<1>7. new \in Entry /\ settled[e] \in Seq(Entry)
  <2>1. now \in Nat /\ settled[e] \in Seq(Entry)
    BY <1>1 DEF IInv, TypeOK
  <2> HIDE DEF n
  <2> QED  BY <1>1, <1>4, <2>1
<1>8. /\ Len(settled'[e]) = n + 1
      /\ settled'[e][n + 1].result = outcome[w]
      /\ settled'[e][n + 1].attempt = n + 1
      /\ \A i \in 1..n : settled'[e][i] = settled[e][i]
  <2>1. /\ Len(Append(settled[e], new)) = n + 1
        /\ Append(settled[e], new)[n + 1] = new
        /\ \A i \in 1..n : Append(settled[e], new)[i] = settled[e][i]
    BY <1>7, AppendElements
  <2> QED  BY <1>6, <2>1
<1>9. Backoff[n + 1] \in Nat \ {0}
  <2> HIDE DEF n
  <2> QED  BY <1>4, TimeAssumption
<1>10. /\ row'[e].attempts = n + 1
       /\ \/ outcome[w] = "delivered" /\ row'[e].status = "PROCESSED"
          \/ outcome[w] # "delivered" /\ n + 1 = MaxAttempts /\ row'[e].status = "DEAD_LETTER"
          \/ /\ outcome[w] # "delivered" /\ n + 1 < MaxAttempts
             /\ row'[e].status = "FAILED" /\ row'[e].next = at + Backoff[n + 1]
  <2> HIDE DEF n, e, c
  <2> QED  BY <1>4, <1>6, <1>9, TimeAssumption DEF After, Row
<1>11. ClaimsInv'
  <2> SUFFICES ASSUME NEW v \in Workers, NEW d \in Held(v)' PROVE ClaimOK(v, d)'
    BY DEF ClaimsInv
  <2>1. d \in Held(v) /\ ClaimOK(v, d) /\ d \in Claim
    BY ReturnHeld, HeldType DEF IInv, ClaimsInv
  <2>2. CASE d.event = e
    <3>1. d.lease <= c.lease /\ d.lease \in Nat /\ c.lease \in Nat
      BY <1>1, <1>3, <2>1, <2>2 DEF ClaimOK, Claim
    <3>2. row'[e].status = "FAILED" => d.lease < row'[e].next + Lease
      <4>1. c.lease <= at + Lease
        OBVIOUS
      <4> HIDE DEF e, n, c
      <4>2. row'[e].status = "FAILED" => row'[e].next \in Nat /\ at < row'[e].next
        BY <1>9, <1>10
      <4> QED
        BY <3>1, <4>1, <4>2, TimeAssumption
    <3>3. d.lease <= now' + Lease
      BY <2>1 DEF ClaimOK
    <3> QED
      BY <2>2, <3>2, <3>3, <1>10 DEF ClaimOK
  <2>3. CASE d.event # e
    <3>1. /\ row'[d.event] = row[d.event] /\ holder'[d.event] = holder[d.event]
          /\ now' \in Nat /\ now' >= now
      BY <1>6, <2>1, <2>3 DEF Claim, IInv, TypeOK
    <3> QED
      BY <2>1, <3>1, ClaimKept DEF IInv
  <2> QED
    BY <2>2, <2>3
<1>12. DeliveryInv'
  <2> SUFFICES ASSUME NEW v \in Workers, Delivering(v)'
               PROVE  /\ current'[v] \in Claim
                      /\ current'[v].lease <= started'[v] + Lease
                      /\ started'[v] <= now'
                      /\ pc'[v] = "commit" => Holds(current[v])'
    BY DEF DeliveryInv
  <2>1. v # w /\ Delivering(v) /\ pc'[v] = pc[v] /\ current'[v] = current[v]
        /\ started'[v] = started[v] /\ outcome'[v] = outcome[v]
    BY ReturnHeld DEF IInv
  <2>2. pc[v] = "commit" => row'[current[v].event] = row[current[v].event]
    BY <1>6, <2>1 DEF IInv, DeliveryInv, Claim
  <2> QED
    BY <2>1, <2>2 DEF IInv, DeliveryInv, Holds
<1>13. AttemptsAreCountedOnce'
  <2> SUFFICES ASSUME NEW d \in Events
               PROVE  /\ row'[d].attempts = Len(settled'[d])
                      /\ \A i \in 1..Len(settled'[d]) : settled'[d][i].attempt = i
    BY DEF AttemptsAreCountedOnce
  <2>1. CASE d = e
    <3>1. \A i \in 1..n : settled[e][i].attempt = i
      BY <1>1 DEF IInv, AttemptsAreCountedOnce
    <3> HIDE DEF e, n, c
    <3> QED  BY <1>4, <1>8, <1>10, <2>1, <3>1
  <2>2. CASE d # e
    BY <1>6, <2>2 DEF IInv, AttemptsAreCountedOnce
  <2> QED
    BY <2>1, <2>2
<1>14. HistoryInv'
  <2> SUFFICES ASSUME NEW d \in Events
               PROVE  LET m == Len(settled'[d])
                          last == settled'[d][m].result
                      IN  /\ row'[d].status \in {"ABSENT", "PENDING"} => m = 0
                          /\ row'[d].status \in {"PROCESSING", "FAILED"} =>
                                  m < MaxAttempts /\ (m > 0 => last # "delivered")
                          /\ row'[d].status = "PROCESSED" => m > 0 /\ last = "delivered"
                          /\ row'[d].status = "DEAD_LETTER" => m = MaxAttempts /\ last # "delivered"
    BY DEF HistoryInv
  <2>1. CASE d = e
    <3> HIDE DEF e, n, c
    <3> QED  BY <1>4, <1>8, <1>10, <2>1
  <2>2. CASE d # e
    BY <1>6, <2>2 DEF IInv, HistoryInv
  <2> QED
    BY <2>1, <2>2
<1> QED
  BY <1>11, <1>12, <1>13, <1>14

\* A step that writes no row and adds no claim.
LEMMA RowsKept ==
    ASSUME IInv, UNCHANGED <<row, holder, settled>>, now' \in Nat, now' >= now,
           \A v \in Workers : Held(v)' \subseteq Held(v)
    PROVE  ClaimsInv' /\ AttemptsAreCountedOnce' /\ HistoryInv'
<1>1. ClaimsInv'
  <2> SUFFICES ASSUME NEW v \in Workers, NEW c \in Held(v)' PROVE ClaimOK(v, c)'
    BY DEF ClaimsInv
  <2>1. c \in Held(v) /\ c \in Claim /\ ClaimOK(v, c)
    BY HeldType DEF IInv, ClaimsInv
  <2> QED
    BY <2>1, ClaimKept DEF IInv
<1>2. AttemptsAreCountedOnce' /\ HistoryInv'
  BY DEF IInv, AttemptsAreCountedOnce, HistoryInv
<1> QED
  BY <1>1, <1>2

\* A delivery given up: nothing of it reaches a row.
LEMMA AbandonInv ==
    ASSUME IInv, NEW w \in Workers, Return(w),
           UNCHANGED <<row, holder, settled, now, batch>>
    PROVE  ClaimsInv' /\ DeliveryInv' /\ AttemptsAreCountedOnce' /\ HistoryInv'
<1>1. now' \in Nat /\ now' >= now
  BY DEF IInv, TypeOK
<1>2. ClaimsInv' /\ AttemptsAreCountedOnce' /\ HistoryInv'
  BY <1>1, ReturnHeld, RowsKept DEF IInv
<1>3. DeliveryInv'
  BY ReturnHeld DEF IInv, DeliveryInv, Holds
<1> QED
  BY <1>2, <1>3

(* The invariant holds at the start and is kept by every step.             *)
LEMMA InitIInv == Init => IInv
<1> SUFFICES ASSUME Init PROVE IInv
  OBVIOUS
<1>1. TypeOK
  BY InitType
<1>2. \A w \in Workers : ~Delivering(w) /\ Held(w) = {}
  BY DEF Init, Delivering, Held
<1>3. ClaimsInv /\ DeliveryInv
  BY <1>2 DEF ClaimsInv, DeliveryInv
<1>4. AttemptsAreCountedOnce /\ HistoryInv
  BY TimeAssumption DEF Init, AttemptsAreCountedOnce, HistoryInv, Row
<1> QED
  BY <1>1, <1>3, <1>4 DEF IInv

LEMMA NextIInv == IInv /\ [Next]_vars => IInv'
<1> SUFFICES ASSUME IInv, [Next]_vars PROVE IInv'
  OBVIOUS
<1>1. TypeOK'
  BY NextType DEF IInv
<1>2. \A w \in Workers : Held(w) \subseteq Claim
  BY HeldType DEF IInv
<1> USE DEF IInv
<1>3. ASSUME NEW e \in Events, Write(e) PROVE IInv'
  <2>1. /\ row' = [row EXCEPT ![e] = Row("PENDING", 0, 0)] /\ row[e].status = "ABSENT"
        /\ UNCHANGED <<now, pc, batch, current, started, outcome, holder, settled>>
    BY <1>3 DEF Write
  <2>2. \A w \in Workers : Held(w)' = Held(w)
    BY <2>1 DEF Held, Delivering
  <2>3. \A w \in Workers : \A c \in Held(w) : c.event # e /\ row'[c.event] = row[c.event]
    BY <1>2, <2>1 DEF ClaimsInv, ClaimOK, TypeOK, Claim
  <2>4. ClaimsInv'
    <3> SUFFICES ASSUME NEW w \in Workers, NEW c \in Held(w) PROVE ClaimOK(w, c)'
      BY <2>2 DEF ClaimsInv
    <3> QED
      BY <2>1, <2>3, <1>2 DEF ClaimsInv, ClaimOK
  <2>5. DeliveryInv'
    <3> SUFFICES ASSUME NEW w \in Workers, Delivering(w), current[w] \in Claim
                 PROVE  row'[current[w].event] = row[current[w].event]
      BY <2>1 DEF DeliveryInv, Delivering, Holds
    <3> QED
      BY <2>3 DEF Held
  <2>6. row'[e] = Row("PENDING", 0, 0) /\ \A d \in Events : d # e => row'[d] = row[d]
    BY <2>1 DEF TypeOK
  <2>7. row[e].attempts = Len(settled[e]) /\ Len(settled[e]) = 0
    BY <2>1 DEF AttemptsAreCountedOnce, HistoryInv
  <2>8. AttemptsAreCountedOnce'
    BY <2>1, <2>6, <2>7 DEF AttemptsAreCountedOnce, Row
  <2>9. HistoryInv'
    BY <2>1, <2>6, <2>7 DEF HistoryInv, Row
  <2> QED
    BY <1>1, <2>4, <2>5, <2>8, <2>9
<1>4. ASSUME NEW w \in Workers, ClaimBatch(w) PROVE IInv'
  <2> DEFINE S == Claimable
  <2>1. /\ S \subseteq Events
        /\ \A e \in S : Due(e) /\ ~Locked(e)
    BY DEF Claimable, Oldest
  <2>2. /\ pc[w] = "idle" /\ pc' = [pc EXCEPT ![w] = "next"]
        /\ row' = [e \in Events |-> IF e \in S
                                THEN Row("PROCESSING", row[e].attempts, now + Lease)
                                ELSE row[e]]
        /\ batch' = [batch EXCEPT ![w] =
                    {[event |-> e, lease |-> now + Lease, attempts |-> row[e].attempts] : e \in S}]
        /\ holder' = [e \in Events |-> IF e \in S THEN w ELSE holder[e]]
        /\ UNCHANGED <<now, current, started, outcome, settled>>
    BY <1>4 DEF ClaimBatch
  <2> HIDE DEF S
  <2>3. \A v \in Workers : (Delivering(v)' <=> Delivering(v)) /\ (v # w => pc'[v] = pc[v])
    BY <2>2 DEF Delivering, TypeOK
  <2>4. /\ Held(w)' = {[event |-> e, lease |-> now + Lease, attempts |-> row[e].attempts] : e \in S}
        /\ \A v \in Workers : v # w => Held(v)' = Held(v)
    BY <2>2, <2>3 DEF Held, Delivering, TypeOK
  <2>5. \A e \in S : /\ row'[e].status = "PROCESSING" /\ row'[e].next = now + Lease
                      /\ row'[e].attempts = row[e].attempts /\ holder'[e] = w
    BY <2>1, <2>2 DEF Row
  <2>6. \A e \in Events \ S : row'[e] = row[e] /\ holder'[e] = holder[e]
    BY <2>2
  <2>7. ClaimsInv'
    <3> SUFFICES ASSUME NEW v \in Workers, NEW c \in Held(v)' PROVE ClaimOK(v, c)'
      BY DEF ClaimsInv
    <3>1. CASE v = w
      <4>1. PICK e \in S : c = [event |-> e, lease |-> now + Lease, attempts |-> row[e].attempts]
        BY <2>4, <3>1
      <4>2. c.event = e /\ c.lease = now + Lease /\ c.attempts = row[e].attempts
        BY <4>1
      <4>3. now' = now /\ now + Lease \in Nat
        BY <2>2, TimeAssumption DEF TypeOK
      <4> QED
        BY <2>5, <3>1, <4>2, <4>3 DEF ClaimOK
    <3>2. CASE v # w
      <4>1. c \in Held(v) /\ c \in Claim /\ ClaimOK(v, c)
        BY <1>2, <2>4, <3>2 DEF ClaimsInv
      <4>2. CASE c.event \in S
        <5>1. c.lease < now + Lease
          <6>1. /\ row[c.event].status \in {"PROCESSING", "FAILED"}
                /\ row[c.event].next <= now /\ row[c.event].next \in Nat
                /\ c.lease \in Nat /\ now \in Nat
            BY <2>1, <4>1, <4>2 DEF Due, ClaimOK, Claim, TypeOK
          <6> QED
            BY <4>1, <6>1, TimeAssumption DEF ClaimOK
        <5>2. c.lease \in Nat /\ now + Lease \in Nat
          BY <4>1, TimeAssumption DEF Claim, TypeOK
        <5>3. /\ row'[c.event].status = "PROCESSING" /\ row'[c.event].next = now + Lease
              /\ row'[c.event].attempts = row[c.event].attempts
          BY <2>5, <4>2
        <5>4. now' = now
          BY <2>2
        <5> QED
          BY <3>2, <4>1, <5>1, <5>2, <5>3, <5>4 DEF ClaimOK
      <4>3. CASE c.event \notin S
        <5>1. row'[c.event] = row[c.event] /\ holder'[c.event] = holder[c.event]
          BY <2>6, <4>1, <4>3 DEF Claim
        <5> QED
          BY <2>2, <4>1, <5>1 DEF ClaimOK
      <4> QED
        BY <4>2, <4>3
    <3> QED
      BY <3>1, <3>2
  <2>8. DeliveryInv'
    <3> SUFFICES ASSUME NEW v \in Workers, Delivering(v)'
                 PROVE  /\ current'[v] \in Claim
                        /\ current'[v].lease <= started'[v] + Lease
                        /\ started'[v] <= now'
                        /\ pc'[v] = "commit" => Holds(current[v])'
      BY DEF DeliveryInv
    <3>1. current' = current /\ started' = started /\ now' = now
      BY <2>2
    <3>2. Delivering(v)
      BY <2>3
    <3>3. /\ current[v] \in Claim
          /\ current[v].lease <= started[v] + Lease
          /\ started[v] <= now
          /\ pc[v] = "commit" => Holds(current[v])
      BY <3>2 DEF DeliveryInv
    <3>4. ASSUME pc'[v] = "commit" PROVE Holds(current[v])'
      <4>1. v # w /\ pc[v] = "commit"
        BY <2>2, <2>3, <3>4 DEF TypeOK
      <4>2. current[v].event \in Events \ S
        BY <2>1, <3>3, <4>1 DEF Claim, Locked
      <4>3. row'[current[v].event] = row[current[v].event]
        BY <2>6, <4>2
      <4> QED
        BY <3>1, <3>3, <4>1, <4>3 DEF Holds
    <3> QED
      BY <3>1, <3>3, <3>4
  <2>9. \A e \in Events : row'[e].attempts = row[e].attempts
    BY <2>5, <2>6
  <2>10. AttemptsAreCountedOnce'
    BY <2>2, <2>9 DEF AttemptsAreCountedOnce
  <2>11. \A e \in S : row[e].status \in {"PENDING", "PROCESSING", "FAILED"}
    BY <2>1 DEF Due
  <2>12. HistoryInv'
    <3> SUFFICES ASSUME NEW e \in Events
                 PROVE  LET m == Len(settled[e])
                            last == settled[e][m].result
                        IN  /\ row'[e].status \in {"ABSENT", "PENDING"} => m = 0
                            /\ row'[e].status \in {"PROCESSING", "FAILED"} =>
                                    m < MaxAttempts /\ (m > 0 => last # "delivered")
                            /\ row'[e].status = "PROCESSED" => m > 0 /\ last = "delivered"
                            /\ row'[e].status = "DEAD_LETTER" => m = MaxAttempts /\ last # "delivered"
      BY <2>2 DEF HistoryInv
    <3>1. CASE e \in S
      BY <2>5, <2>11, <3>1, TimeAssumption DEF HistoryInv
    <3>2. CASE e \notin S
      BY <2>6, <3>2 DEF HistoryInv
    <3> QED
      BY <3>1, <3>2
  <2> QED
    BY <1>1, <2>7, <2>8, <2>10, <2>12
<1>5. ASSUME NEW w \in Workers, BeginDelivery(w) PROVE IInv'
  <2>1. PICK c \in batch[w] :
          /\ pc[w] = "next" /\ pc' = [pc EXCEPT ![w] = "dispatch"]
          /\ current' = [current EXCEPT ![w] = c]
          /\ batch' = [batch EXCEPT ![w] = @ \ {c}]
          /\ started' = [started EXCEPT ![w] = now]
          /\ UNCHANGED <<row, now, outcome, holder, settled>>
    BY <1>5 DEF BeginDelivery
  <2>2. c \in Held(w) /\ c \in Claim /\ c.lease <= now + Lease
    BY <1>2 DEF Held, ClaimsInv, ClaimOK
  <2>3. /\ pc'[w] = "dispatch" /\ current'[w] = c /\ started'[w] = now
        /\ batch'[w] = batch[w] \ {c}
        /\ \A v \in Workers : v # w =>
              pc'[v] = pc[v] /\ current'[v] = current[v] /\ started'[v] = started[v]
              /\ batch'[v] = batch[v]
    BY <2>1 DEF TypeOK
  <2>4. \A v \in Workers : Held(v)' \subseteq Held(v)
    BY <2>1, <2>2, <2>3 DEF Held, Delivering
  <2>5. now' \in Nat /\ now' >= now
    BY <2>1 DEF TypeOK
  <2>6. ClaimsInv' /\ AttemptsAreCountedOnce' /\ HistoryInv'
    BY <2>1, <2>4, <2>5, RowsKept
  <2>7. DeliveryInv'
    BY <2>1, <2>2, <2>3, <2>5 DEF DeliveryInv, Delivering, Holds
  <2> QED
    BY <1>1, <2>6, <2>7
<1>6. ASSUME NEW w \in Workers, pc' = [pc EXCEPT ![w] = "idle"], \A v \in Workers : batch'[v] \subseteq batch[v],
             \A v \in Workers : v # w => current'[v] = current[v] /\ started'[v] = started[v],
             UNCHANGED <<row, now, holder, settled>>
      PROVE IInv'
  <2>1. pc'[w] = "idle" /\ \A v \in Workers : v # w => pc'[v] = pc[v]
    BY <1>6 DEF TypeOK
  <2>2. \A v \in Workers : Held(v)' \subseteq Held(v)
    BY <1>6, <2>1 DEF Held, Delivering
  <2>3. now' \in Nat /\ now' >= now
    BY <1>6 DEF TypeOK
  <2>4. ClaimsInv' /\ AttemptsAreCountedOnce' /\ HistoryInv'
    BY <1>6, <2>2, <2>3, RowsKept
  <2>5. DeliveryInv'
    BY <1>6, <2>1 DEF DeliveryInv, Delivering, Holds
  <2> QED
    BY <1>1, <2>4, <2>5
<1>7. ASSUME NEW w \in Workers, EndPass(w) PROVE IInv'
  BY <1>6, <1>7 DEF EndPass
<1>8. ASSUME NEW w \in Workers, Crash(w) PROVE IInv'
  <2>1. \A v \in Workers : batch'[v] \subseteq batch[v]
    BY <1>8 DEF Crash, TypeOK
  <2>2. \A v \in Workers : v # w => current'[v] = current[v] /\ started'[v] = started[v]
    BY <1>8 DEF Crash, TypeOK
  <2> QED
    BY <1>6, <1>8, <2>1, <2>2 DEF Crash
<1>9. ASSUME NEW w \in Workers, Delivering(w), Delivering(w)', UNCHANGED <<batch, current, now, row, holder, settled, started>>,
             \A v \in Workers : v # w => pc'[v] = pc[v],
             pc'[w] = "commit" => Holds(current[w])
      PROVE IInv'
  <2>1. \A v \in Workers : Held(v)' \subseteq Held(v)
    BY <1>9 DEF Held, Delivering
  <2>2. now' \in Nat /\ now' >= now
    BY <1>9 DEF TypeOK
  <2>3. ClaimsInv' /\ AttemptsAreCountedOnce' /\ HistoryInv'
    BY <1>9, <2>1, <2>2, RowsKept
  <2>4. DeliveryInv'
    BY <1>9 DEF DeliveryInv, Delivering, Holds
  <2> QED
    BY <1>1, <2>3, <2>4
<1>10. ASSUME NEW w \in Workers, Dispatch(w) PROVE IInv'
  <2>1. PICK result \in Outcomes :
          /\ pc[w] = "dispatch"
          /\ pc' = [pc EXCEPT ![w] = IF result = "error" THEN "record" ELSE "settle"]
          /\ UNCHANGED <<row, now, batch, current, started, holder, settled>>
    BY <1>10 DEF Dispatch
  <2>2. /\ pc'[w] \in {"record", "settle"}
        /\ \A v \in Workers : v # w => pc'[v] = pc[v]
    BY <2>1 DEF TypeOK
  <2>3. Delivering(w) /\ Delivering(w)'
    BY <2>1, <2>2 DEF Delivering
  <2> QED
    BY <1>9, <2>1, <2>2, <2>3
<1>11. ASSUME NEW w \in Workers, Settle(w) PROVE IInv'
  <2>1. CASE ~Holds(current[w])
    <3>1. Return(w) /\ UNCHANGED <<row, holder, settled, now, batch>>
      BY <1>11, <2>1 DEF Settle
    <3> QED
      BY <1>1, <3>1, AbandonInv
  <2>2. CASE Holds(current[w])
    <3>1. /\ pc[w] = "settle" /\ pc'[w] = "commit"
          /\ \A v \in Workers : v # w => pc'[v] = pc[v]
          /\ UNCHANGED <<row, holder, settled, now, batch, current, started>>
      BY <1>11, <2>2 DEF Settle, TypeOK
    <3> QED
      BY <1>9, <2>2, <3>1 DEF Delivering
  <2> QED
    BY <2>1, <2>2
<1>12. ASSUME NEW w \in Workers, Commit(w) PROVE IInv'
  <2>1. /\ pc[w] = "commit" /\ Delivering(w) /\ Holds(current[w])
        /\ current[w] \in Claim /\ current[w].lease <= started[w] + Lease
        /\ Settlement(w, started[w]) /\ Return(w) /\ UNCHANGED <<now, batch, holder>>
    BY <1>12 DEF Commit, Delivering, DeliveryInv
  <2>2. \A v \in Workers : v # w /\ pc[v] = "commit" => current[v].event # current[w].event
    <3> SUFFICES ASSUME NEW v \in Workers, pc[v] = "commit",
                        current[v].event = current[w].event
                 PROVE  v = w
      OBVIOUS
    <3>1. Delivering(v) /\ Holds(current[v]) /\ current[v] \in Held(v)
      BY DEF Delivering, DeliveryInv, Held
    <3>2. current[w] \in Held(w)
      BY <2>1 DEF Held
    <3> QED
      BY <2>1, <3>1, <3>2 DEF ClaimsInv, ClaimOK, Holds
  <2>3. started[w] \in Nat
    BY DEF TypeOK
  <2> QED
    BY <1>1, <2>1, <2>2, <2>3, SettlementInv
<1>13. ASSUME NEW w \in Workers, RecordError(w) PROVE IInv'
  <2>1. /\ Return(w) /\ UNCHANGED <<now, batch, holder>> /\ Delivering(w)
        /\ ~Locked(current[w].event)
    BY <1>13 DEF RecordError, Delivering
  <2>2. CASE ~Holds(current[w])
    BY <1>1, <1>13, <2>1, <2>2, AbandonInv DEF RecordError
  <2>3. CASE Holds(current[w])
    <3>1. Settlement(w, now)
      BY <1>13, <2>3 DEF RecordError
    <3>2. now \in Nat /\ current[w].lease <= now + Lease
      BY <2>1, <1>2 DEF ClaimsInv, ClaimOK, Held, TypeOK
    <3>3. \A v \in Workers : v # w /\ pc[v] = "commit" => current[v].event # current[w].event
      BY <2>1 DEF Locked
    <3> QED
      BY <1>1, <2>1, <2>3, <3>1, <3>2, <3>3, SettlementInv
  <2> QED
    BY <2>2, <2>3
<1>14. ASSUME NEW w \in Workers, StatementFails(w) PROVE IInv'
  BY <1>1, <1>14, AbandonInv DEF StatementFails
<1>15. CASE Tick
  <2>1. /\ UNCHANGED <<row, holder, settled, pc, batch, current, started>>
        /\ now' \in Nat /\ now' >= now /\ now \in Nat
    BY <1>15 DEF Tick, TypeOK
  <2>2. \A v \in Workers : Held(v)' \subseteq Held(v)
    BY <2>1 DEF Held, Delivering
  <2>3. ClaimsInv' /\ AttemptsAreCountedOnce' /\ HistoryInv'
    BY <2>1, <2>2, RowsKept
  <2>4. DeliveryInv'
    BY <2>1 DEF DeliveryInv, Delivering, Holds, TypeOK
  <2> QED
    BY <1>1, <2>3, <2>4
<1>16. CASE UNCHANGED vars
  <2>1. /\ UNCHANGED <<row, holder, settled, pc, batch, current, started, now>>
        /\ now' \in Nat /\ now' >= now
    BY <1>16 DEF vars, TypeOK
  <2>2. \A v \in Workers : Held(v)' \subseteq Held(v)
    BY <2>1 DEF Held, Delivering
  <2>3. ClaimsInv' /\ AttemptsAreCountedOnce' /\ HistoryInv'
    BY <2>1, <2>2, RowsKept
  <2>4. DeliveryInv'
    BY <2>1 DEF DeliveryInv, Delivering, Holds
  <2> QED
    BY <1>1, <2>3, <2>4
<1> QED
  BY <1>3, <1>4, <1>5, <1>7, <1>8, <1>10, <1>11, <1>12, <1>13, <1>14, <1>15, <1>16
     DEF Next, Deliver

(* The invariant, in every reachable state.                                *)
THEOREM Invariance == Spec => []IInv
<1>1. Init => IInv
  BY InitIInv
<1>2. IInv /\ [Next]_vars => IInv'
  BY NextIInv
<1> QED
  BY <1>1, <1>2, PTL DEF Spec

(* Every column and every local keeps its type.                            *)
THEOREM TypeCorrect == Spec => []TypeOK
<1>1. IInv => TypeOK
  BY DEF IInv
<1> QED
  BY <1>1, Invariance, PTL

(* attempt_count is the number of settled attempts, numbered in order, for *)
(* any number of replicas, crashes and overtaken deliveries.               *)
THEOREM AttemptsCounted == Spec => []AttemptsAreCountedOnce
<1>1. IInv => AttemptsAreCountedOnce
  BY DEF IInv
<1> QED
  BY <1>1, Invariance, PTL

(* A row is DEAD_LETTER exactly after MaxAttempts attempts none of which   *)
(* delivered, and PROCESSED exactly after one that did.                    *)
THEOREM TerminalEarned == Spec => []TerminalRowsEarnedIt
<1>1. IInv => TerminalRowsEarnedIt
  <2> SUFFICES ASSUME IInv, NEW e \in Events
               PROVE  LET n == Len(settled[e])
                      IN  /\ row[e].status = "DEAD_LETTER" <=> (n = MaxAttempts /\ settled[e][n].result # "delivered")
                          /\ row[e].status = "PROCESSED" <=> (n > 0 /\ settled[e][n].result = "delivered")
    BY DEF TerminalRowsEarnedIt
  <2>1. row[e].status \in Statuses
    BY DEF IInv, TypeOK
  <2> QED
    BY <2>1, TimeAssumption DEF IInv, HistoryInv, Statuses
<1> QED
  BY <1>1, Invariance, PTL

-----------------------------------------------------------------------------
(* What a delivery leaves behind.                                          *)

Effects(s) == {i \in 1..Len(s) : s[i].result # "error"}

\* A delivery that reached its settlement did not err, one whose attempt is
\* recorded apart did.
OutcomeInv ==
    \A w \in Workers :
        /\ pc[w] \in {"settle", "commit"} => outcome[w] # "error"
        /\ pc[w] = "record" => outcome[w] = "error"

EInv == OutcomeInv /\ \A e \in Events : logged[e] = Cardinality(Effects(settled[e]))

LEMMA EffectsAppend ==
    ASSUME NEW S, NEW s \in Seq(S), NEW x \in S
    PROVE  /\ Cardinality(Effects(s)) \in Nat
           /\ Cardinality(Effects(Append(s, x))) =
                 IF x.result = "error" THEN Cardinality(Effects(s)) ELSE Cardinality(Effects(s)) + 1
<1> DEFINE n == Len(s)
<1>1. n \in Nat /\ IsFiniteSet(1..n)
  BY FS_Interval
<1>2. IsFiniteSet(Effects(s)) /\ n + 1 \notin Effects(s)
  BY <1>1, FS_Subset DEF Effects
<1>3. Effects(Append(s, x)) = IF x.result = "error" THEN Effects(s) ELSE Effects(s) \cup {n + 1}
  <2>1. /\ Len(Append(s, x)) = n + 1 /\ Append(s, x)[n + 1] = x
        /\ \A i \in 1..n : Append(s, x)[i] = s[i]
    BY AppendElements
  <2>2. 1..(n + 1) = (1..n) \cup {n + 1}
    BY <1>1
  <2> QED
    BY <2>1, <2>2 DEF Effects
<1> QED
  BY <1>2, <1>3, FS_AddElement, FS_CardinalityType

\* A step that returns from a delivery, or goes to a place that says nothing of
\* the outcome, and settles nothing.
LEMMA OutcomeKept ==
    ASSUME TypeOK, EInv, NEW w \in Workers, UNCHANGED <<settled, logged>>,
           \A v \in Workers : v # w => pc'[v] = pc[v] /\ outcome'[v] = outcome[v],
           pc'[w] \in {"settle", "commit"} => outcome'[w] # "error",
           pc'[w] = "record" => outcome'[w] = "error"
    PROVE  EInv'
BY DEF EInv, OutcomeInv

LEMMA NextEInv == IInv /\ EInv /\ [Next]_vars => EInv'
<1> SUFFICES ASSUME IInv, EInv, [Next]_vars PROVE EInv'
  OBVIOUS
<1>1. TypeOK
  BY DEF IInv
<1>2. ASSUME NEW w \in Workers, Return(w), UNCHANGED <<settled, logged>> PROVE EInv'
  BY <1>1, <1>2, OutcomeKept DEF Return, TypeOK
<1>3. ASSUME NEW w \in Workers, NEW at, Settlement(w, at), Return(w), Delivering(w),
             \/ outcome[w] = "error" /\ logged' = logged
             \/ outcome[w] # "error" /\ logged' = [logged EXCEPT ![current[w].event] = @ + 1]
      PROVE EInv'
  <2> DEFINE e == current[w].event
             new == [attempt |-> current[w].attempts + 1, result |-> outcome[w]]
             Entry == [attempt : Nat, result : Outcomes]
  <2>1. e \in Events /\ new \in Entry /\ settled[e] \in Seq(Entry)
    <3>1. e \in Events /\ current[w].attempts \in Nat
      BY <1>3 DEF IInv, DeliveryInv, Claim
    <3>2. outcome[w] \in Outcomes
      BY <1>1 DEF TypeOK
    <3>3. settled[e] \in Seq(Entry)
      BY <1>1, <3>1 DEF TypeOK
    <3> QED
      BY <3>1, <3>2, <3>3
  <2>2. settled' = [settled EXCEPT ![e] = Append(settled[e], new)]
    BY <1>3 DEF Settlement
  <2>3. new.result = outcome[w]
    OBVIOUS
  <2> HIDE DEF e, new, Entry
  <2>4. /\ settled'[e] = Append(settled[e], new)
        /\ \A d \in Events : d # e => settled'[d] = settled[d]
    BY <1>1, <2>1, <2>2 DEF TypeOK
  <2>5. /\ outcome[w] = "error" => logged'[e] = logged[e]
        /\ outcome[w] # "error" => logged'[e] = logged[e] + 1
        /\ \A d \in Events : d # e => logged'[d] = logged[d]
    BY <1>1, <1>3, <2>1 DEF TypeOK, e
  <2>6. logged'[e] = Cardinality(Effects(settled'[e]))
    BY <2>1, <2>3, <2>4, <2>5, EffectsAppend DEF EInv
  <2>7. \A d \in Events : logged'[d] = Cardinality(Effects(settled'[d]))
    BY <2>4, <2>5, <2>6 DEF EInv
  <2>8. OutcomeInv'
    BY <1>1, <1>3 DEF EInv, OutcomeInv, Return, TypeOK
  <2>9. \A d \in Events : Effects(settled[d])' = Effects(settled'[d])
    BY DEF Effects
  <2> QED
    BY <2>7, <2>8, <2>9 DEF EInv
<1>4. ASSUME NEW e \in Events, Write(e) PROVE EInv'
  BY <1>4 DEF Write, EInv, OutcomeInv
<1>5. ASSUME NEW w \in Workers, ClaimBatch(w) \/ BeginDelivery(w) \/ EndPass(w) PROVE EInv'
  BY <1>1, <1>5, OutcomeKept DEF ClaimBatch, BeginDelivery, EndPass, TypeOK
<1>6. ASSUME NEW w \in Workers, Dispatch(w) PROVE EInv'
  BY <1>1, <1>6, OutcomeKept DEF Dispatch, TypeOK
<1>7. ASSUME NEW w \in Workers, Settle(w) PROVE EInv'
  <2>1. CASE ~Holds(current[w])
    BY <1>2, <1>7, <2>1 DEF Settle
  <2>2. CASE Holds(current[w])
    BY <1>1, <1>7, <2>2, OutcomeKept DEF Settle, TypeOK, EInv, OutcomeInv
  <2> QED
    BY <2>1, <2>2
<1>8. ASSUME NEW w \in Workers, Commit(w) PROVE EInv'
  BY <1>3, <1>8 DEF Commit, Delivering, EInv, OutcomeInv
<1>9. ASSUME NEW w \in Workers, RecordError(w) PROVE EInv'
  <2>1. CASE ~Holds(current[w])
    BY <1>2, <1>9, <2>1 DEF RecordError
  <2>2. CASE Holds(current[w])
    BY <1>3, <1>9, <2>2 DEF RecordError, Delivering, EInv, OutcomeInv
  <2> QED
    BY <2>1, <2>2
<1>10. ASSUME NEW w \in Workers, StatementFails(w) PROVE EInv'
  BY <1>2, <1>10 DEF StatementFails
<1>11. ASSUME NEW w \in Workers, Crash(w) PROVE EInv'
  BY <1>1, <1>11, OutcomeKept DEF Crash, TypeOK
<1>12. CASE Tick \/ UNCHANGED vars
  BY <1>12 DEF Tick, vars, EInv, OutcomeInv
<1> QED
  BY <1>4, <1>5, <1>6, <1>7, <1>8, <1>9, <1>10, <1>11, <1>12 DEF Next, Deliver

(* The consumer's writes commit with the settlement of their attempt: an   *)
(* event has as many committed consumer transactions as settled attempts   *)
(* that did not err (deliver_one).                                         *)
THEOREM EffectsCommit == Spec => []EffectsCommitWithSettlement
<1>1. Init => EInv
  <2> SUFFICES ASSUME Init PROVE EInv
    OBVIOUS
  <2>1. Cardinality(Effects(<<>>)) = 0
    BY FS_EmptySet DEF Effects
  <2> QED
    BY <2>1 DEF Init, EInv, OutcomeInv
<1>2. IInv /\ EInv /\ [Next]_vars => EInv'
  BY NextEInv
<1>3. EInv => EffectsCommitWithSettlement
  BY DEF EInv, EffectsCommitWithSettlement, Effects
<1> QED
  BY <1>1, <1>2, <1>3, Invariance, PTL DEF Spec

-----------------------------------------------------------------------------
(* The fence: a row is settled by the worker whose claim of it is the      *)
(* latest, and by no worker it has overtaken.                              *)
THEOREM Fenced == Spec => SettledByItsHolder
<1>1. IInv /\ [Next]_vars =>
        \/ UNCHANGED vars
        \/ \A e \in Events : settled'[e] # settled[e] =>
              /\ holder[e] \in Workers
              /\ pc[holder[e]] \in {"commit", "record"}
              /\ pc'[holder[e]] = "next"
              /\ current[holder[e]].event = e
  <2> SUFFICES ASSUME IInv, Next, NEW e \in Events, settled'[e] # settled[e]
               PROVE  /\ holder[e] \in Workers
                      /\ pc[holder[e]] \in {"commit", "record"}
                      /\ pc'[holder[e]] = "next"
                      /\ current[holder[e]].event = e
    OBVIOUS
  <2>1. ASSUME NEW w \in Workers, pc[w] \in {"commit", "record"}, Holds(current[w]), Return(w),
               \E at : Settlement(w, at)
        PROVE  /\ holder[e] = w /\ pc'[w] = "next" /\ current[w].event = e
    <3>1. current[w].event = e
      BY <2>1 DEF Settlement, IInv, TypeOK
    <3>2. current[w] \in Held(w) /\ ClaimOK(w, current[w])
      BY <2>1 DEF Held, Delivering, IInv, ClaimsInv
    <3> QED
      BY <2>1, <3>1, <3>2 DEF ClaimOK, Holds, Return, IInv, TypeOK
  <2>2. ASSUME NEW w \in Workers, Commit(w)
        PROVE  pc[w] \in {"commit", "record"} /\ Holds(current[w]) /\ Return(w)
               /\ \E at : Settlement(w, at)
    BY <2>2 DEF Commit, IInv, DeliveryInv, Delivering
  <2>3. ASSUME NEW w \in Workers, RecordError(w)
        PROVE  pc[w] \in {"commit", "record"} /\ Holds(current[w]) /\ Return(w)
               /\ \E at : Settlement(w, at)
    BY <2>3 DEF RecordError
  <2>4. \E w \in Workers : Commit(w) \/ RecordError(w)
    BY DEF Next, Deliver, Write, ClaimBatch, BeginDelivery, EndPass, Dispatch, Settle,
           StatementFails, Crash, Tick
  <2> QED
    BY <2>1, <2>2, <2>3, <2>4
<1> QED
  BY <1>1, Invariance, PTL DEF Spec, SettledByItsHolder

\* One counted attempt of a claimed row is one attempt of the promise.
LEMMA AttemptRefines ==
    ASSUME IInv, NEW e \in Events, NEW result, NEW at, row[e].status = "PROCESSING",
           row' = [row EXCEPT ![e] = After(row[e].attempts + 1, result, at)]
    PROVE  Promise!Next
<1> DEFINE A(r) == AbstractState(r.status)
           st == [d \in Events |-> A(row[d])]
           stp == [d \in Events |-> A(row'[d])]
           at0 == [d \in Events |-> row[d].attempts]
           atp == [d \in Events |-> row'[d].attempts]
<1>1. /\ row'[e] = After(row[e].attempts + 1, result, at)
      /\ \A d \in Events : d # e => row'[d] = row[d]
  BY DEF IInv, TypeOK
<1>2. row[e].attempts \in Nat /\ row[e].attempts < MaxAttempts
  BY DEF IInv, TypeOK, AttemptsAreCountedOnce, HistoryInv
<1>3. /\ row'[e].attempts = row[e].attempts + 1
      /\ \/ row'[e].status = "PROCESSED"
         \/ row'[e].status = "DEAD_LETTER" /\ ~(row[e].attempts + 1 < MaxAttempts)
         \/ row'[e].status = "FAILED" /\ row[e].attempts + 1 < MaxAttempts
  BY <1>1, <1>2, TimeAssumption DEF After, Row
<1>4. /\ A(row[e]) = "waiting"
      /\ row'[e].status = "PROCESSED" => A(row'[e]) = "processed"
      /\ row'[e].status = "DEAD_LETTER" => A(row'[e]) = "dead"
      /\ row'[e].status = "FAILED" => A(row'[e]) = "waiting"
  BY DEF AbstractState
<1>5. \A d \in Events : d # e => A(row'[d]) = A(row[d]) /\ row'[d].attempts = row[d].attempts
  BY <1>1
<1>6. atp = [at0 EXCEPT ![e] = @ + 1] /\ st[e] = "waiting" /\ at0[e] = row[e].attempts
  BY <1>3, <1>4, <1>5
<1>7. /\ row'[e].status = "PROCESSED" => stp = [st EXCEPT ![e] = "processed"]
      /\ row'[e].status = "DEAD_LETTER" => stp = [st EXCEPT ![e] = "dead"]
      /\ row'[e].status = "FAILED" => stp = st
  <2> HIDE DEF A
  <2> QED  BY <1>4, <1>5
<1>8. Promise!Attempt(e)
  BY <1>6 DEF Promise!Attempt
<1>9. Promise!Succeed(e) \/ Promise!Fail(e)
  BY <1>3, <1>6, <1>7, <1>8 DEF Promise!Succeed, Promise!Fail
<1> QED
  BY <1>9 DEF Promise!Next

\* A settlement is such an attempt.
LEMMA SettlementRefines ==
    ASSUME IInv, NEW w \in Workers, Delivering(w), Holds(current[w]), NEW at, Settlement(w, at)
    PROVE  Promise!Next
<1>1. PICK e \in Events : e = current[w].event
  BY DEF IInv, DeliveryInv, Claim
<1>2. current[w] \in Held(w) /\ ClaimOK(w, current[w])
  BY DEF IInv, ClaimsInv, Held
<1>3. row[e].status = "PROCESSING" /\ current[w].attempts = row[e].attempts
  BY <1>1, <1>2 DEF ClaimOK, Holds
<1>4. row' = [row EXCEPT ![e] = After(row[e].attempts + 1, outcome[w], at)]
  BY <1>1, <1>3 DEF Settlement
<1>5. PICK result : result = outcome[w]
  OBVIOUS
<1> QED
  BY <1>3, <1>4, <1>5, AttemptRefines

(* The outbox implements the delivery promise: each of its steps is one    *)
(* publication, one counted attempt, or nothing the promise can see.       *)
THEOREM Implements == Spec => KeepsThePromise
<1>1. Init => Promise!Init
  BY DEF Init, Promise!Init, AbstractState, Row
<1>2. IInv /\ [Next]_vars => [Promise!Next]_(Promise!vars)
  <2> SUFFICES ASSUME IInv, [Next]_vars PROVE Promise!Next \/ UNCHANGED Promise!vars
    OBVIOUS
  <2>1. ASSUME NEW e \in Events, Write(e) PROVE Promise!Next
    <3>1. row' = [row EXCEPT ![e] = Row("PENDING", 0, 0)] /\ row[e].status = "ABSENT"
      BY <2>1 DEF Write
    <3>2. row[e].attempts = 0
      BY <3>1 DEF IInv, AttemptsAreCountedOnce, HistoryInv
    <3>3. row'[e] = Row("PENDING", 0, 0) /\ \A d \in Events : d # e => row'[d] = row[d]
      BY <3>1 DEF IInv, TypeOK
    <3>4. AbstractState("ABSENT") = "absent" /\ AbstractState("PENDING") = "waiting"
      BY DEF AbstractState
    <3> DEFINE st == [d \in Events |-> AbstractState(row[d].status)]
               stp == [d \in Events |-> AbstractState(row'[d].status)]
    <3>5. stp = [st EXCEPT ![e] = "waiting"] /\ st[e] = "absent"
      <4>1. row'[e].status = "PENDING"
        BY <3>3 DEF Row
      <4>2. \A d \in Events : d # e => AbstractState(row'[d].status) = AbstractState(row[d].status)
        BY <3>3
      <4> QED
        BY <3>1, <3>4, <4>1, <4>2
    <3>6. [d \in Events |-> row'[d].attempts] = [d \in Events |-> row[d].attempts]
      BY <3>2, <3>3 DEF Row
    <3>7. Promise!Publish(e)
      BY <3>5, <3>6 DEF Promise!Publish
    <3> QED
      BY <3>7 DEF Promise!Next
  <2>2. ASSUME NEW w \in Workers, ClaimBatch(w) PROVE UNCHANGED Promise!vars
    <3>1. \A e \in Events : /\ row'[e].attempts = row[e].attempts
                             /\ \/ row'[e] = row[e]
                                \/ /\ row[e].status \in {"PENDING", "PROCESSING", "FAILED"}
                                   /\ row'[e].status = "PROCESSING"
      BY <2>2 DEF ClaimBatch, Claimable, Oldest, Due, Row
    <3>2. \A e \in Events : AbstractState(row'[e].status) = AbstractState(row[e].status)
      BY <3>1 DEF AbstractState
    <3> QED
      BY <3>1, <3>2 DEF Promise!vars
  <2>3. ASSUME NEW w \in Workers, Commit(w) PROVE Promise!Next
    BY <2>3, SettlementRefines DEF Commit, IInv, DeliveryInv, Delivering
  <2>4. ASSUME NEW w \in Workers, RecordError(w) PROVE Promise!Next \/ row' = row
    BY <2>4, SettlementRefines DEF RecordError, Delivering
  <2>5. \/ \E e \in Events : Write(e)
        \/ \E w \in Workers : ClaimBatch(w) \/ Commit(w) \/ RecordError(w)
        \/ row' = row
    BY DEF Next, Deliver, BeginDelivery, EndPass, Dispatch, Settle, StatementFails, Crash,
           Tick, vars
  <2>6. row' = row => UNCHANGED Promise!vars
    BY DEF Promise!vars
  <2> QED
    BY <2>1, <2>2, <2>3, <2>4, <2>5, <2>6
<1> QED
  BY <1>1, <1>2, Invariance, PTL DEF Spec, KeepsThePromise, Promise!Spec
=============================================================================
