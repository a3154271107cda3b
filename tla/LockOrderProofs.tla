--------------------------- MODULE LockOrderProofs ---------------------------
(***************************************************************************)
(* Proofs about LockOrder, for any number of requests, documents, types    *)
(* and parties.  Every row has a grade.  A path takes its locks by         *)
(* ascending grade, but for rows that stand behind another that the        *)
(* request holds, shared locks that nobody takes otherwise, and the waits  *)
(* that are known.  So in a circle without a known wait each request waits *)
(* for a row of a higher grade than the one that waits for it, and no      *)
(* grade is the highest.                                                   *)
(***************************************************************************)
EXTENDS LockOrder, Integers, SequenceTheorems, TLAPS

-----------------------------------------------------------------------------
(* Grades                                                                  *)

Grade(row) ==
    IF row[1] \in {"instance", "note", "rule"} THEN 1
    ELSE IF row[1] = "document" THEN 2
    ELSE IF row[1] = "type" THEN 3
    ELSE IF row[1] = "bucket" THEN 4
    ELSE IF row[1] = "party" THEN 5
    ELSE IF row = <<"counter", "WFI">> THEN 6
    ELSE IF row = <<"counter", "TASK">> THEN 7
    ELSE IF row[1] \in {"definition", "event", "counter"} THEN 8
    ELSE 9

LEMMA GradeType == \A row : Grade(row) \in 1..9
BY DEF Grade

LEMMA Grades ==
  ASSUME NEW x
  PROVE  /\ Grade(<<"instance", x>>) = 1 /\ Grade(<<"note", x>>) = 1 /\ Grade(<<"rule", x>>) = 1
         /\ Grade(<<"document", x>>) = 2
         /\ Grade(<<"type", x>>) = 3
         /\ Grade(<<"bucket", x>>) = 4
         /\ Grade(<<"party", x>>) = 5
         /\ Grade(<<"counter", "WFI">>) = 6
         /\ Grade(<<"counter", "TASK">>) = 7
         /\ Grade(<<"counter", "DOC">>) = 8
         /\ Grade(<<"definition">>) = 8 /\ Grade(<<"event", x>>) = 8
         /\ Grade(<<"task", x>>) = 9 /\ Grade(<<"roles", x>>) = 9 /\ Grade(<<"change", x>>) = 9
         /\ \A y : Grade(<<"relationship", x, y>>) = 9
         /\ Grade(<<"role">>) = 9 /\ Grade(<<"department">>) = 9 /\ Grade(<<"form">>) = 9
BY DEF Grade

Kinds == {"instance", "note", "rule", "document", "type", "bucket", "party", "counter",
          "definition", "event", "task", "roles", "change", "relationship", "role",
          "department", "form"}

\* What a request holds when it asks for a lock, by the lock's row.
Needs(op, H, l) ==
    /\ l.row[1] \in Kinds /\ l.mode \in 1..4
    /\ l.row[1] = "task" => Lock(<<"instance", l.row[2]>>, Update) \in H
    /\ l.row[1] = "roles" => Lock(<<"party", l.row[2]>>, Update) \in H
    /\ l.row[1] = "change" =>
         \E m \in {NoKeyUpdate, Update} : Lock(<<"document", l.row[2]>>, m) \in H
    /\ l.row[1] = "relationship" => op = "update_party"
    /\ l.row[1] \in {"role", "department", "form"} => l.mode <= Share \/ op = "retire"
    /\ l.row[1] = "definition" => l.mode <= Share \/ op \in {"publish", "retire"}
    /\ l.row = <<"counter", "WFI">> => op = "submit"
    /\ l.row = <<"counter", "TASK">> => op \in {"submit", "decide"}
    /\ l.row[1] = "counter" =>
         l.row \in {<<"counter", "WFI">>, <<"counter", "TASK">>} \/ op = "create"
    /\ l.row[1] = "event" => op = "deliver"
    /\ l.row[1] = "document" /\ l.mode = NoKeyUpdate =>
         Lock(l.row, Update) \in H \/ Lock(<<"instance", l.row[2]>>, Update) \in H
    /\ l.row[1] = "document" => l.mode # Share
    /\ l.row[1] = "bucket" =>
         /\ l.mode = NoKeyUpdate
         /\ \/ op = "allocate"
            \/ op = "submit" /\ l.row[2] \in Gapless
            \/ op = "set_rule" /\ Lock(<<"type", l.row[2]>>, KeyShare) \in H
    /\ l.row[1] = "type" /\ op = "set_rule" => l.mode = KeyShare
    /\ l.row[1] = "party" /\ op = "decide" =>
         \E d \in InFlight : Subject[d] = l.row[2] /\ Lock(<<"instance", d>>, Update) \in H

\* What may be asked for out of order: what is held already, or stands behind
\* what is held, or is a wait that is known; a decision's party, and the type of
\* a bucket that was made, of which the argument has more to say.
Excused(op, H, l) ==
    \/ l.row[1] \in {"document", "party"} /\ Lock(l.row, Update) \in H
    \/ l.row[1] = "document" /\ l.mode = NoKeyUpdate
         /\ Lock(l.row, KeyShare) \in H /\ Lock(<<"instance", l.row[2]>>, Update) \in H
    \/ l.row[1] = "type" /\ op = "set_rule" /\ l \in H
    \/ l.row[1] = "type" /\ op = "submit" /\ \E h \in H : h.row[1] = "bucket"
    \/ l.row[1] = "type" /\ op = "edit" /\ \E h \in H : h.row[1] = "party"
    \/ l.row[1] = "party" /\ op \in {"assign_role", "update_party"} /\ \E h \in H : h.row[1] = "party"
    \/ l.row[1] = "party" /\ op = "decide"
    \/ l.row[1] = "type" /\ op = "allocate"

\* What is held does not matter to what is asked: the row is the last of all, or
\* is shared by everybody who goes on, or is of a lower grade.
Passed(l, g) ==
    Grade(l.row) = 9 \/ (l.row[1] = "definition" /\ l.mode = Share) \/ Grade(l.row) <= g
Under(h, l) ==
    Grade(h.row) = 9 \/ (h.row[1] = "definition" /\ h.mode = Share) \/ Grade(h.row) < Grade(l.row)

LEMMA NeedsMore ==
  ASSUME NEW op, NEW H, NEW K, H \subseteq K, NEW l
  PROVE  /\ Needs(op, H, l) => Needs(op, K, l)
         /\ Excused(op, H, l) => Excused(op, K, l)
<1>1. Needs(op, H, l) => Needs(op, K, l)
  BY DEF Needs
<1>2. Excused(op, H, l) => Excused(op, K, l)
  BY DEF Excused
<1> QED
  BY <1>1, <1>2

-----------------------------------------------------------------------------
(* Legs of a path                                                          *)

Ran(s) == {s[i] : i \in 1..Len(s)}
Before(s, j) == {s[i] : i \in 1..(j - 1)}

LEMMA Ranges ==
  /\ Ran(<<>>) = {}
  /\ \A a : Ran(<<a>>) = {a}
  /\ \A a, b : Ran(<<a, b>>) = {a, b}
<1>1. Ran(<<>>) = {}
  BY DEF Ran
<1>2. ASSUME NEW a
      PROVE  Ran(<<a>>) = {a}
  <2>1. Len(<<a>>) = 1 /\ <<a>>[1] = a
    OBVIOUS
  <2> QED
    BY <2>1 DEF Ran
<1>3. ASSUME NEW a, NEW b
      PROVE  Ran(<<a, b>>) = {a, b}
  <2>1. Len(<<a, b>>) = 2 /\ <<a, b>>[1] = a /\ <<a, b>>[2] = b
    OBVIOUS
  <2> QED
    BY <2>1 DEF Ran
<1> QED
  BY <1>1, <1>2, <1>3

\* A leg, taken with H held and nothing that matters above g, leaves nothing
\* that matters above m.
Leg(op, s, H, g, m) ==
    /\ s \in Seq(Ran(s)) /\ g \in 0..9 /\ m \in 0..9 /\ g <= m
    /\ \A j \in 1..Len(s) :
         /\ Needs(op, H \cup Before(s, j), s[j])
         /\ \/ Excused(op, H \cup Before(s, j), s[j])
            \/ g < Grade(s[j].row) /\ \A i \in 1..(j - 1) : Under(s[i], s[j])
    /\ \A j \in 1..Len(s) : Passed(s[j], m)

LEMMA EmptyLeg ==
  ASSUME NEW op, NEW H, NEW g \in 0..9, NEW m \in 0..9, g <= m
  PROVE  Leg(op, <<>>, H, g, m)
BY DEF Leg

LEMMA OneLock ==
  ASSUME NEW op, NEW H, NEW g \in 0..9, NEW m \in 0..9, g <= m, NEW l,
         Needs(op, H, l), Excused(op, H, l) \/ g < Grade(l.row), Passed(l, m)
  PROVE  Leg(op, <<l>>, H, g, m)
<1> DEFINE s == <<l>>
<1>1. s \in Seq(Ran(s)) /\ Len(s) = 1 /\ s[1] = l
  <2>1. Ran(s) = {l} /\ Len(s) = 1 /\ s[1] = l
    BY Ranges
  <2> QED
    BY <2>1
<1> HIDE DEF s
<1>2. \A j \in 1..Len(s) : j = 1 /\ s[j] = l /\ Before(s, j) = {}
  BY <1>1 DEF Before
<1>3. \A j \in 1..Len(s) :
         /\ Needs(op, H \cup Before(s, j), s[j])
         /\ \/ Excused(op, H \cup Before(s, j), s[j])
            \/ g < Grade(s[j].row) /\ \A i \in 1..(j - 1) : Under(s[i], s[j])
  <2> TAKE j \in 1..Len(s)
  <2>1. H \cup Before(s, j) = H /\ s[j] = l /\ 1..(j - 1) = {}
    BY <1>2
  <2> QED
    BY <2>1
<1>4. \A j \in 1..Len(s) : Passed(s[j], m)
  BY <1>2
<1>5. Leg(op, s, H, g, m)
  BY <1>1, <1>3, <1>4 DEF Leg
<1> QED
  BY <1>5 DEF s

LEMMA WiderLeg ==
  ASSUME NEW op, NEW s, NEW H, NEW K, H \subseteq K,
         NEW g \in 0..9, NEW k \in 0..9, NEW m \in 0..9, NEW n \in 0..9, k <= g, m <= n,
         Leg(op, s, H, g, m)
  PROVE  Leg(op, s, K, k, n)
<1>1. s \in Seq(Ran(s)) /\ g <= m /\ k <= n
  BY DEF Leg
<1>2. ASSUME NEW j \in 1..Len(s)
      PROVE  /\ Needs(op, K \cup Before(s, j), s[j])
             /\ \/ Excused(op, K \cup Before(s, j), s[j])
                \/ k < Grade(s[j].row) /\ \A i \in 1..(j - 1) : Under(s[i], s[j])
  <2>1. /\ Needs(op, H \cup Before(s, j), s[j])
        /\ \/ Excused(op, H \cup Before(s, j), s[j])
           \/ g < Grade(s[j].row) /\ \A i \in 1..(j - 1) : Under(s[i], s[j])
    BY DEF Leg
  <2>2. H \cup Before(s, j) \subseteq K \cup Before(s, j)
    OBVIOUS
  <2>3. Grade(s[j].row) \in 1..9
    BY GradeType
  <2> QED
    BY <2>1, <2>2, <2>3, NeedsMore
<1>3. ASSUME NEW j \in 1..Len(s)
      PROVE  Passed(s[j], n)
  <2>1. Passed(s[j], m) /\ Grade(s[j].row) \in 1..9
    BY GradeType DEF Leg
  <2> QED
    BY <2>1 DEF Passed
<1> QED
  BY <1>1, <1>2, <1>3 DEF Leg

LEMMA RangeOfJoin ==
  ASSUME NEW s, NEW t, s \in Seq(Ran(s)), t \in Seq(Ran(t))
  PROVE  Ran(s \o t) = Ran(s) \cup Ran(t) /\ s \o t \in Seq(Ran(s \o t))
<1> DEFINE u == s \o t
           L == Len(s)
<1>1. s \in Seq(Ran(s) \cup Ran(t)) /\ t \in Seq(Ran(s) \cup Ran(t))
  <2>1. Ran(s) \subseteq Ran(s) \cup Ran(t) /\ Ran(t) \subseteq Ran(s) \cup Ran(t)
    OBVIOUS
  <2> HIDE DEF u, L
  <2> QED
    BY <2>1, SeqMonotonic
<1>2. /\ u \in Seq(Ran(s) \cup Ran(t)) /\ Len(u) = L + Len(t) /\ L \in Nat /\ Len(t) \in Nat
      /\ \A i \in 1..(L + Len(t)) : u[i] = IF i <= L THEN s[i] ELSE t[i - L]
  BY <1>1, ConcatProperties, LenProperties
<1> HIDE DEF u, L
<1>3. \A i \in 1..L : i \in 1..Len(u) /\ u[i] = s[i]
  BY <1>2
<1>4. \A i \in 1..Len(t) : L + i \in 1..Len(u) /\ u[L + i] = t[i]
  BY <1>2
<1>5. \A j \in 1..Len(u) : j \in 1..L \/ \E i \in 1..Len(t) : j = L + i
  <2> TAKE j \in 1..Len(u)
  <2>1. CASE j <= L
    BY <1>2, <2>1
  <2>2. CASE ~(j <= L)
    <3>1. j - L \in 1..Len(t) /\ j = L + (j - L)
      BY <1>2, <2>2
    <3> QED
      BY <3>1
  <2> QED
    BY <2>1, <2>2
<1>6. Ran(u) = Ran(s) \cup Ran(t)
  <2>1. Ran(s) = {s[i] : i \in 1..L}
    BY DEF Ran, L
  <2>2. ASSUME NEW x \in Ran(u)
        PROVE  x \in Ran(s) \cup Ran(t)
    <3>1. PICK j \in 1..Len(u) : x = u[j]
      BY DEF Ran
    <3>2. CASE j \in 1..L
      BY <1>3, <2>1, <3>1, <3>2
    <3>3. CASE \E i \in 1..Len(t) : j = L + i
      BY <1>4, <3>1, <3>3 DEF Ran
    <3> QED
      BY <1>5, <3>2, <3>3
  <2>3. Ran(s) \subseteq Ran(u)
    BY <1>3, <2>1 DEF Ran
  <2>4. Ran(t) \subseteq Ran(u)
    BY <1>4 DEF Ran
  <2> QED
    BY <2>2, <2>3, <2>4
<1>7. u \in Seq(Ran(u))
  BY <1>2, <1>6
<1> QED
  BY <1>6, <1>7 DEF u

LEMMA JoinRanges ==
  ASSUME NEW op, NEW s, NEW t, NEW H, NEW K, NEW g, NEW m, NEW k, NEW n,
         Leg(op, s, H, g, m), Leg(op, t, K, k, n)
  PROVE  Ran(s \o t) = Ran(s) \cup Ran(t)
<1>1. s \in Seq(Ran(s)) /\ t \in Seq(Ran(t))
  BY DEF Leg
<1> QED
  BY <1>1, RangeOfJoin

LEMMA JoinLegs ==
  ASSUME NEW op, NEW s, NEW t, NEW H, NEW K, K \subseteq H \cup Ran(s),
         NEW g \in 0..9, NEW m \in 0..9, NEW n \in 0..9,
         Leg(op, s, H, g, m), Leg(op, t, K, m, n)
  PROVE  Leg(op, s \o t, H, g, n)
<1> DEFINE u == s \o t
           L == Len(s)
           Fits(j) ==
             /\ Needs(op, H \cup Before(u, j), u[j])
             /\ \/ Excused(op, H \cup Before(u, j), u[j])
                \/ g < Grade(u[j].row) /\ \A i \in 1..(j - 1) : Under(u[i], u[j])
             /\ Passed(u[j], n)
<1>1. /\ s \in Seq(Ran(s) \cup Ran(t)) /\ t \in Seq(Ran(s) \cup Ran(t))
      /\ g <= m /\ m <= n
  <2>1. s \in Seq(Ran(s)) /\ t \in Seq(Ran(t)) /\ g <= m /\ m <= n
    BY DEF Leg
  <2>2. Ran(s) \subseteq Ran(s) \cup Ran(t) /\ Ran(t) \subseteq Ran(s) \cup Ran(t)
    OBVIOUS
  <2> HIDE DEF u, L
  <2> QED
    BY <2>1, <2>2, SeqMonotonic
<1>2. /\ u \in Seq(Ran(s) \cup Ran(t)) /\ Len(u) = L + Len(t) /\ L \in Nat /\ Len(t) \in Nat
      /\ \A i \in 1..(L + Len(t)) : u[i] = IF i <= L THEN s[i] ELSE t[i - L]
  BY <1>1, ConcatProperties, LenProperties
<1> HIDE DEF u, L
<1>3. \A i \in 1..L : i \in 1..Len(u) /\ u[i] = s[i]
  BY <1>2
<1>4. \A i \in 1..Len(t) : L + i \in 1..Len(u) /\ u[L + i] = t[i]
  BY <1>2
<1>5. \A j \in 1..Len(u) : j \in 1..L \/ \E i \in 1..Len(t) : j = L + i
  <2> TAKE j \in 1..Len(u)
  <2>1. CASE j <= L
    BY <1>2, <2>1
  <2>2. CASE ~(j <= L)
    <3>1. j - L \in 1..Len(t) /\ j = L + (j - L)
      BY <1>2, <2>2
    <3> QED
      BY <3>1
  <2> QED
    BY <2>1, <2>2
<1>6. Ran(u) = Ran(s) \cup Ran(t)
  BY JoinRanges DEF u
<1>7. ASSUME NEW j \in 1..L
      PROVE  Fits(j)
  <2>1. u[j] = s[j] /\ \A i \in 1..(j - 1) : u[i] = s[i]
    BY <1>2, <1>3
  <2>2. Before(u, j) = Before(s, j)
    BY <2>1 DEF Before
  <2>3. /\ Needs(op, H \cup Before(s, j), s[j])
        /\ \/ Excused(op, H \cup Before(s, j), s[j])
           \/ g < Grade(s[j].row) /\ \A i \in 1..(j - 1) : Under(s[i], s[j])
        /\ Passed(s[j], m)
    BY DEF Leg, L
  <2>4. Passed(s[j], n)
    <3>1. Grade(s[j].row) \in 1..9
      BY GradeType
    <3> QED
      BY <1>1, <2>3, <3>1 DEF Passed
  <2> QED
    BY <2>1, <2>2, <2>3, <2>4
<1>8. ASSUME NEW i \in 1..Len(t), NEW j \in 1..Len(u), j = L + i
      PROVE  Fits(j)
  <2>1. u[j] = t[i]
    BY <1>4, <1>8
  <2>2. \A k \in 1..(j - 1) : \/ k \in 1..L /\ u[k] = s[k]
                              \/ k - L \in 1..(i - 1) /\ u[k] = t[k - L]
    BY <1>2, <1>3, <1>8
  <2>3. K \cup Before(t, i) \subseteq H \cup Before(u, j)
    <3>1. ASSUME NEW k \in 1..L
          PROVE  s[k] \in Before(u, j)
      <4>1. \E x \in 1..(j - 1) : u[x] = s[k]
        BY <1>2, <1>3, <1>8
      <4> QED
        BY <4>1 DEF Before
    <3>2. ASSUME NEW k \in 1..(i - 1)
          PROVE  t[k] \in Before(u, j)
      <4>1. L + k \in 1..(j - 1) /\ k \in 1..Len(t)
        BY <1>2, <1>8
      <4>2. \E x \in 1..(j - 1) : u[x] = t[k]
        BY <1>4, <4>1
      <4> QED
        BY <4>2 DEF Before
    <3>3. Ran(s) \subseteq Before(u, j)
      BY <3>1 DEF Ran, L
    <3>4. Before(t, i) \subseteq Before(u, j)
      BY <3>2 DEF Before
    <3> QED
      BY <3>3, <3>4
  <2>4. /\ Needs(op, K \cup Before(t, i), t[i])
        /\ \/ Excused(op, K \cup Before(t, i), t[i])
           \/ m < Grade(t[i].row) /\ \A k \in 1..(i - 1) : Under(t[k], t[i])
        /\ Passed(t[i], n)
    BY DEF Leg
  <2>5. ASSUME m < Grade(t[i].row), \A k \in 1..(i - 1) : Under(t[k], t[i])
        PROVE  /\ g < Grade(t[i].row)
               /\ \A k \in 1..(j - 1) : Under(u[k], t[i])
    <3>1. Grade(t[i].row) \in 1..9
      BY GradeType
    <3>2. ASSUME NEW k \in 1..L
          PROVE  Under(s[k], t[i])
      <4>1. Passed(s[k], m) /\ Grade(s[k].row) \in 1..9
        BY GradeType DEF Leg, L
      <4> QED
        BY <2>5, <3>1, <4>1 DEF Passed, Under
    <3>3. \A k \in 1..(j - 1) : Under(u[k], t[i])
      BY <2>2, <2>5, <3>2
    <3> QED
      BY <1>1, <2>5, <3>1, <3>3
  <2> DEFINE before == H \cup Before(u, j)
             held == K \cup Before(t, i)
  <2>6. Needs(op, before, t[i])
    <3>1. Needs(op, held, t[i]) /\ held \subseteq before
      BY <2>3, <2>4
    <3> HIDE DEF held, before
    <3> QED
      BY <3>1, NeedsMore
  <2>7. \/ Excused(op, before, t[i])
        \/ g < Grade(t[i].row) /\ \A k \in 1..(j - 1) : Under(u[k], t[i])
    <3>1. Excused(op, held, t[i]) => Excused(op, before, t[i])
      <4>1. held \subseteq before
        BY <2>3
      <4> HIDE DEF held, before
      <4> QED
        BY <4>1, NeedsMore
    <3> QED
      BY <2>4, <2>5, <3>1
  <2>8. Passed(t[i], n)
    BY <2>4
  <2>9. Needs(op, before, u[j]) /\ Passed(u[j], n)
    BY <2>1, <2>6, <2>8
  <2>10. \/ Excused(op, before, u[j])
         \/ g < Grade(u[j].row) /\ \A k \in 1..(j - 1) : Under(u[k], u[j])
    BY <2>1, <2>7
  <2> QED
    BY <2>9, <2>10
<1>9. ASSUME NEW j \in 1..Len(u)
      PROVE  Fits(j)
  <2> HIDE DEF Fits
  <2>1. CASE j \in 1..L
    BY <1>7, <2>1
  <2>2. CASE \E i \in 1..Len(t) : j = L + i
    BY <1>8, <2>2
  <2> QED
    BY <1>5, <2>1, <2>2
<1>10. Leg(op, u, H, g, n)
  <2>1. u \in Seq(Ran(u)) /\ g <= n
    BY <1>1, <1>2, <1>6
  <2>2. \A j \in 1..Len(u) :
          /\ Needs(op, H \cup Before(u, j), u[j])
          /\ \/ Excused(op, H \cup Before(u, j), u[j])
             \/ g < Grade(u[j].row) /\ \A i \in 1..(j - 1) : Under(u[i], u[j])
    BY <1>9
  <2>3. \A j \in 1..Len(u) : Passed(u[j], n)
    BY <1>9
  <2> QED
    BY <2>1, <2>2, <2>3 DEF Leg
<1> QED
  BY <1>10 DEF u

LEMMA Split ==
  /\ \A a, b : <<a, b>> = <<a>> \o <<b>>
  /\ \A a, b, c : <<a, b, c>> = <<a>> \o <<b>> \o <<c>>
<1>1. ASSUME NEW a, NEW b
      PROVE  <<a, b>> = <<a>> \o <<b>>
  <2> DEFINE S == {a, b}
             u == <<a>> \o <<b>>
  <2>1. <<a>> \in Seq(S) /\ <<b>> \in Seq(S) /\ <<a, b>> \in Seq(S)
    OBVIOUS
  <2>2. /\ u \in Seq(S) /\ Len(u) = Len(<<a>>) + Len(<<b>>)
        /\ \A i \in 1..(Len(<<a>>) + Len(<<b>>)) :
             u[i] = IF i <= Len(<<a>>) THEN <<a>>[i] ELSE <<b>>[i - Len(<<a>>)]
    BY <2>1, ConcatProperties
  <2> HIDE DEF u
  <2>3. Len(u) = 2 /\ u[1] = a /\ u[2] = b
    BY <2>2
  <2>4. \A i \in 1..2 : u[i] = <<a, b>>[i]
    BY <2>3
  <2>5. u = <<a, b>>
    BY <2>1, <2>2, <2>3, <2>4, SeqEqual
  <2> QED
    BY <2>5 DEF u
<1>2. ASSUME NEW a, NEW b, NEW c
      PROVE  <<a, b, c>> = <<a>> \o <<b>> \o <<c>>
  <2> DEFINE S == {a, b, c}
             u == <<a, b>> \o <<c>>
  <2>1. <<a, b>> \in Seq(S) /\ <<c>> \in Seq(S) /\ <<a, b, c>> \in Seq(S)
    OBVIOUS
  <2>2. /\ u \in Seq(S) /\ Len(u) = Len(<<a, b>>) + Len(<<c>>)
        /\ \A i \in 1..(Len(<<a, b>>) + Len(<<c>>)) :
             u[i] = IF i <= Len(<<a, b>>) THEN <<a, b>>[i] ELSE <<c>>[i - Len(<<a, b>>)]
    BY <2>1, ConcatProperties
  <2> HIDE DEF u
  <2>3. Len(u) = 3 /\ u[1] = a /\ u[2] = b /\ u[3] = c
    BY <2>2
  <2>4. \A i \in 1..3 : u[i] = <<a, b, c>>[i]
    BY <2>3
  <2>5. u = <<a, b, c>>
    BY <2>1, <2>2, <2>3, <2>4, SeqEqual
  <2> QED
    BY <1>1, <2>5 DEF u
<1> QED
  BY <1>1, <1>2

\* A leg of one lock, by the kind of its row.

LEMMA DocumentLeg ==
  ASSUME NEW op, NEW H, NEW g \in 0..1, NEW d \in Documents, NEW mode \in {KeyShare, Update}
  PROVE  Leg(op, <<Document(d, mode)>>, H, g, 2)
<1> DEFINE l == Document(d, mode)
<1>1. l.row = <<"document", d>> /\ l.row[1] = "document" /\ l.mode = mode
  BY DEF Document, Lock, KeyShare, Update
<1>2. Grade(l.row) = 2
  BY <1>1, Grades
<1> HIDE DEF l
<1>3. Needs(op, H, l)
  <2>1. l.row[1] \in Kinds /\ l.mode \in 1..4
    BY <1>1 DEF Kinds, KeyShare, Share, NoKeyUpdate, Update
  <2> QED
    BY <1>1, <2>1 DEF Needs, KeyShare, Share, NoKeyUpdate, Update
<1>4. Passed(l, 2)
  BY <1>2 DEF Passed
<1>5. g \in 0..9 /\ 2 \in 0..9 /\ g <= 2 /\ g < Grade(l.row)
  BY <1>2
<1>6. Leg(op, <<l>>, H, g, 2)
  BY <1>3, <1>4, <1>5, OneLock
<1> QED
  BY <1>6 DEF l

LEMMA TypeLeg ==
  ASSUME NEW op, op # "set_rule", NEW H, NEW g \in 0..2, NEW t \in Types,
         NEW mode \in {KeyShare, Update}
  PROVE  Leg(op, <<Type(t, mode)>>, H, g, 3)
<1> DEFINE l == Type(t, mode)
<1>1. l.row = <<"type", t>> /\ l.row[1] = "type" /\ l.mode = mode
  BY DEF Type, Lock, KeyShare, Update
<1>2. Grade(l.row) = 3
  BY <1>1, Grades
<1> HIDE DEF l
<1>3. Needs(op, H, l)
  <2>1. l.row[1] \in Kinds /\ l.mode \in 1..4
    BY <1>1 DEF Kinds, KeyShare, Share, NoKeyUpdate, Update
  <2> QED
    BY <1>1, <2>1 DEF Needs
<1>4. Passed(l, 3)
  BY <1>2 DEF Passed
<1>5. g \in 0..9 /\ 3 \in 0..9 /\ g <= 3 /\ g < Grade(l.row)
  BY <1>2
<1>6. Leg(op, <<l>>, H, g, 3)
  BY <1>3, <1>4, <1>5, OneLock
<1> QED
  BY <1>6 DEF l

LEMMA RuleTypeLeg ==
  ASSUME NEW op, NEW H, NEW g \in 0..2, NEW t \in Types
  PROVE  Leg(op, <<Type(t, KeyShare)>>, H, g, 3)
<1> DEFINE l == Type(t, KeyShare)
<1>1. l.row = <<"type", t>> /\ l.row[1] = "type" /\ l.mode = KeyShare
  BY DEF Type, Lock, KeyShare, Update
<1>2. Grade(l.row) = 3
  BY <1>1, Grades
<1> HIDE DEF l
<1>3. Needs(op, H, l)
  <2>1. l.row[1] \in Kinds /\ l.mode \in 1..4
    BY <1>1 DEF Kinds, KeyShare, Share, NoKeyUpdate, Update
  <2> QED
    BY <1>1, <2>1 DEF Needs
<1>4. Passed(l, 3)
  BY <1>2 DEF Passed
<1>5. g \in 0..9 /\ 3 \in 0..9 /\ g <= 3 /\ g < Grade(l.row)
  BY <1>2
<1>6. Leg(op, <<l>>, H, g, 3)
  BY <1>3, <1>4, <1>5, OneLock
<1> QED
  BY <1>6 DEF l

LEMMA PartyLeg ==
  ASSUME NEW op, op # "decide", NEW H, NEW g \in 0..4, NEW p \in Parties,
         NEW mode \in {KeyShare, Share, NoKeyUpdate, Update}
  PROVE  Leg(op, <<Party(p, mode)>>, H, g, 5)
<1> DEFINE l == Party(p, mode)
<1>1. l.mode = mode /\ l.row = <<"party", p>> /\ l.row[1] = "party"
  BY DEF Party, Lock
<1>2. Grade(l.row) = 5
  BY <1>1, Grades
<1> HIDE DEF l
<1>3. Needs(op, H, l)
  <2>1. l.row[1] \in Kinds /\ l.mode \in 1..4
    BY <1>1 DEF Kinds, KeyShare, Share, NoKeyUpdate, Update
  <2> QED
    BY <1>1, <2>1 DEF Needs
<1>4. Passed(l, 5)
  BY <1>2 DEF Passed
<1>5. g \in 0..9 /\ 5 \in 0..9 /\ g <= 5 /\ g < Grade(l.row)
  BY <1>2
<1>6. Leg(op, <<l>>, H, g, 5)
  BY <1>3, <1>4, <1>5, OneLock
<1> QED
  BY <1>6 DEF l

LEMMA SharedLeg ==
  ASSUME NEW op, NEW H, NEW g \in 0..8, NEW k \in {"role", "department", "form"},
         NEW mode \in {KeyShare, Share}
  PROVE  Leg(op, <<Lock(<<k>>, mode)>>, H, g, g)
<1> DEFINE l == Lock(<<k>>, mode)
<1>1. l.row = <<k>> /\ l.row[1] = k /\ l.mode = mode
  BY DEF Lock
<1>2. Grade(l.row) = 9
  BY <1>1, Grades
<1>3. mode <= Share
  BY DEF KeyShare, Share
<1> HIDE DEF l
<1>4. Needs(op, H, l)
  <2>0. l.row[1] \in Kinds /\ l.mode \in 1..4
    BY <1>1 DEF Kinds, KeyShare, Share, NoKeyUpdate, Update
  <2>1. l.mode <= Share
    BY <1>1, <1>3
  <2>2. l.row # <<"counter", "WFI">> /\ l.row # <<"counter", "TASK">>
    BY <1>1
  <2>3. k \notin {"task", "roles", "change", "relationship", "counter", "event", "document",
                  "bucket", "type", "party"}
    OBVIOUS
  <2> QED
    BY <2>0, <1>1, <2>1, <2>2, <2>3 DEF Needs
<1>5. Passed(l, g)
  BY <1>2 DEF Passed
<1>6. g \in 0..9 /\ g \in 0..9 /\ g <= g /\ g < Grade(l.row)
  BY <1>2
<1>7. Leg(op, <<l>>, H, g, g)
  BY <1>4, <1>5, <1>6, OneLock
<1> QED
  BY <1>7 DEF l

LEMMA DefinitionLeg ==
  ASSUME NEW op, NEW H, NEW g \in 0..7
  PROVE  Leg(op, <<Lock(<<"definition">>, Share)>>, H, g, g)
<1> DEFINE l == Lock(<<"definition">>, Share)
<1>1. l.row = <<"definition">> /\ l.row[1] = "definition" /\ l.mode = Share
  BY DEF Lock
<1> HIDE DEF l
<1>2. Grade(l.row) = 8
  BY <1>1, Grades
<1>3. Needs(op, H, l)
  <2>0. l.row[1] \in Kinds /\ l.mode \in 1..4
    BY <1>1 DEF Kinds, KeyShare, Share, NoKeyUpdate, Update
  <2>1. l.mode <= Share
    BY <1>1 DEF Share
  <2> QED
    BY <2>0, <1>1, <2>1 DEF Needs
<1>4. Passed(l, g)
  BY <1>1 DEF Passed
<1>5. g \in 0..9 /\ g \in 0..9 /\ g <= g /\ g < Grade(l.row)
  BY <1>2
<1>6. Leg(op, <<l>>, H, g, g)
  BY <1>3, <1>4, <1>5, OneLock
<1> QED
  BY <1>6 DEF l

\* A row that stands alone in its first grade: an instance, a note, a rule.
LEMMA FirstLeg ==
  ASSUME NEW op, NEW H, NEW k \in {"instance", "note", "rule"},
         NEW x \in Documents \cup Types, NEW mode \in {NoKeyUpdate, Update}
  PROVE  Leg(op, <<Lock(<<k, x>>, mode)>>, H, 0, 1)
<1> DEFINE l == Lock(<<k, x>>, mode)
<1>1. l.mode = mode /\ l.row = <<k, x>> /\ l.row[1] = k
  BY DEF Lock
<1>2. Grade(l.row) = 1
  BY <1>1, Grades
<1>3. l.row # <<"counter", "WFI">> /\ l.row # <<"counter", "TASK">>
  BY <1>1
<1> HIDE DEF l
<1>4. Needs(op, H, l)
  <2>1. l.row[1] \in Kinds /\ l.mode \in 1..4
    BY <1>1 DEF Kinds, KeyShare, Share, NoKeyUpdate, Update
  <2> QED
    BY <1>1, <1>3, <2>1 DEF Needs
<1>5. Passed(l, 1)
  BY <1>2 DEF Passed
<1>6. 0 \in 0..9 /\ 1 \in 0..9 /\ 0 <= 1 /\ 0 < Grade(l.row)
  BY <1>2
<1>7. Leg(op, <<l>>, H, 0, 1)
  BY <1>4, <1>5, <1>6, OneLock
<1> QED
  BY <1>7 DEF l

LEMMA TaskLeg ==
  ASSUME NEW op, NEW H, NEW g \in 0..8, NEW d \in Documents, Lock(<<"instance", d>>, Update) \in H
  PROVE  Leg(op, <<Lock(<<"task", d>>, Update)>>, H, g, g)
<1> DEFINE l == Lock(<<"task", d>>, Update)
<1>1. l.mode = Update /\ l.row = <<"task", d>> /\ l.row[1] = "task" /\ l.row[2] = d
  BY DEF Lock
<1>2. Grade(l.row) = 9
  BY <1>1, Grades
<1>3. l.row # <<"counter", "WFI">> /\ l.row # <<"counter", "TASK">>
  BY <1>1
<1> HIDE DEF l
<1>4. Needs(op, H, l)
  <2>1. l.row[1] \in Kinds /\ l.mode \in 1..4
    BY <1>1 DEF Kinds, KeyShare, Share, NoKeyUpdate, Update
  <2> QED
    BY <1>1, <1>3, <2>1 DEF Needs
<1>5. Passed(l, g)
  BY <1>2 DEF Passed
<1>6. g \in 0..9 /\ g \in 0..9 /\ g <= g /\ g < Grade(l.row)
  BY <1>2
<1>7. Leg(op, <<l>>, H, g, g)
  BY <1>4, <1>5, <1>6, OneLock
<1> QED
  BY <1>7 DEF l

\* A lock whose grade is the last, or that is excused, at any point of a path.
LEMMA CounterLegs ==
  ASSUME NEW op, NEW H
  PROVE  /\ op = "submit" =>
              \A g \in 0..5 : Leg(op, <<Lock(<<"counter", "WFI">>, NoKeyUpdate)>>, H, g, 6)
         /\ op \in {"submit", "decide"} =>
              \A g \in 0..6 : Leg(op, <<Lock(<<"counter", "TASK">>, NoKeyUpdate)>>, H, g, 7)
         /\ op = "create" =>
              \A g \in 0..7 : Leg(op, <<Lock(<<"counter", "DOC">>, NoKeyUpdate)>>, H, g, 8)
<1>1. ASSUME op = "submit", NEW g \in 0..5
      PROVE  Leg(op, <<Lock(<<"counter", "WFI">>, NoKeyUpdate)>>, H, g, 6)
  <2> DEFINE l == Lock(<<"counter", "WFI">>, NoKeyUpdate)
  <2>1. l.mode = NoKeyUpdate /\ l.row = <<"counter", "WFI">> /\ l.row[1] = "counter" /\ l.row[2] = "WFI"
    BY DEF Lock
  <2> HIDE DEF l
  <2>2. Grade(l.row) = 6
    BY <2>1, Grades
  <2>3. Needs(op, H, l)
    <3>1. l.row[1] \in Kinds /\ l.mode \in 1..4
      BY <2>1 DEF Kinds, KeyShare, Share, NoKeyUpdate, Update
    <3> QED
      BY <1>1, <2>1, <3>1 DEF Needs
  <2>4. Passed(l, 6) /\ g \in 0..9 /\ 6 \in 0..9 /\ g <= 6 /\ g < Grade(l.row)
    BY <2>2 DEF Passed
  <2>5. Leg(op, <<l>>, H, g, 6)
    BY <2>3, <2>4, OneLock
  <2> QED
    BY <2>5 DEF l
<1>2. ASSUME op \in {"submit", "decide"}, NEW g \in 0..6
      PROVE  Leg(op, <<Lock(<<"counter", "TASK">>, NoKeyUpdate)>>, H, g, 7)
  <2> DEFINE l == Lock(<<"counter", "TASK">>, NoKeyUpdate)
  <2>1. l.mode = NoKeyUpdate /\ l.row = <<"counter", "TASK">> /\ l.row[1] = "counter" /\ l.row[2] = "TASK"
    BY DEF Lock
  <2> HIDE DEF l
  <2>2. Grade(l.row) = 7
    BY <2>1, Grades
  <2>3. Needs(op, H, l)
    <3>1. l.row[1] \in Kinds /\ l.mode \in 1..4
      BY <2>1 DEF Kinds, KeyShare, Share, NoKeyUpdate, Update
    <3> QED
      BY <1>2, <2>1, <3>1 DEF Needs
  <2>4. Passed(l, 7) /\ g \in 0..9 /\ 7 \in 0..9 /\ g <= 7 /\ g < Grade(l.row)
    BY <2>2 DEF Passed
  <2>5. Leg(op, <<l>>, H, g, 7)
    BY <2>3, <2>4, OneLock
  <2> QED
    BY <2>5 DEF l
<1>3. ASSUME op = "create", NEW g \in 0..7
      PROVE  Leg(op, <<Lock(<<"counter", "DOC">>, NoKeyUpdate)>>, H, g, 8)
  <2> DEFINE l == Lock(<<"counter", "DOC">>, NoKeyUpdate)
  <2>1. l.mode = NoKeyUpdate /\ l.row = <<"counter", "DOC">> /\ l.row[1] = "counter" /\ l.row[2] = "DOC"
    BY DEF Lock
  <2> HIDE DEF l
  <2>2. Grade(l.row) = 8
    BY <2>1, Grades
  <2>3. Needs(op, H, l)
    <3>1. l.row[1] \in Kinds /\ l.mode \in 1..4
      BY <2>1 DEF Kinds, KeyShare, Share, NoKeyUpdate, Update
    <3> QED
      BY <1>3, <2>1, <3>1 DEF Needs
  <2>4. Passed(l, 8) /\ g \in 0..9 /\ 8 \in 0..9 /\ g <= 8 /\ g < Grade(l.row)
    BY <2>2 DEF Passed
  <2>5. Leg(op, <<l>>, H, g, 8)
    BY <2>3, <2>4, OneLock
  <2> QED
    BY <2>5 DEF l
<1> QED
  BY <1>1, <1>2, <1>3

LEMMA RaisedLeg ==
  ASSUME NEW op \in {"submit", "decide"}, NEW H, NEW g \in 0..6
  PROVE  Leg(op, Raised, H, g, 7)
<1> DEFINE role == Lock(<<"role">>, KeyShare)
           task == Lock(<<"counter", "TASK">>, NoKeyUpdate)
           department == Lock(<<"department">>, KeyShare)
<1>1. Leg(op, <<role>>, H, g, g) /\ Leg(op, <<department>>, H, 7, 7)
  BY SharedLeg
<1>2. Leg(op, <<task>>, H, g, 7)
  BY CounterLegs
<1>3. Raised = <<role>> \o <<task>> \o <<department>>
  BY Split DEF Raised
<1> HIDE DEF role, task, department
<1>4. g \in 0..9 /\ 7 \in 0..9 /\ H \subseteq H \cup Ran(<<role>>)
  OBVIOUS
<1>5. Leg(op, <<role>> \o <<task>>, H, g, 7)
  BY <1>1, <1>2, <1>4, JoinLegs
<1>6. H \subseteq H \cup Ran(<<role>> \o <<task>>)
  OBVIOUS
<1>7. Leg(op, <<role>> \o <<task>> \o <<department>>, H, g, 7)
  BY <1>1, <1>4, <1>5, <1>6, JoinLegs
<1> QED
  BY <1>3, <1>7

\* What a submission or a decision holds once it comes to move the document.
Moving(op, d, H) ==
    \/ /\ op = "submit" /\ Lock(<<"document", d>>, Update) \in H
       /\ TypeOf[d] \in Governed => Lock(<<"party", Subject[d]>>, Update) \in H
    \/ /\ op = "decide" /\ Lock(<<"document", d>>, KeyShare) \in H
       /\ Lock(<<"instance", d>>, Update) \in H
       /\ Carries(d) => d \in InFlight

LEMMA ProjectedLeg ==
  ASSUME NEW op, NEW H, NEW d \in Documents, Moving(op, d, H), NEW g \in 5..7,
         NEW settled \in {<<>>, Settled(d)}
  PROVE  Leg(op, Projected(d, settled), H, g, g)
<1> DEFINE doc == Document(d, NoKeyUpdate)
           change == Lock(<<"change", d>>, Update)
           party == Party(Subject[d], Update)
<1>0. g \in 0..9 /\ g <= g
  OBVIOUS
<1>1. Leg(op, <<doc>>, H, g, g)
  <2>1. doc.row = <<"document", d>> /\ doc.row[1] = "document" /\ doc.row[2] = d
        /\ doc.mode = NoKeyUpdate
    BY DEF Document, Lock
  <2> HIDE DEF doc
  <2>2. Grade(doc.row) = 2
    BY <2>1, Grades
  <2>3. Needs(op, H, doc)
    <3>0. doc.row[1] \in Kinds /\ doc.mode \in 1..4
      BY <2>1 DEF Kinds, KeyShare, Share, NoKeyUpdate, Update
    <3>1. Lock(doc.row, Update) \in H \/ Lock(<<"instance", doc.row[2]>>, Update) \in H
      BY <2>1 DEF Moving
    <3>2. doc.mode # Share
      BY <2>1 DEF NoKeyUpdate, Share
    <3> QED
      BY <3>0, <2>1, <3>1, <3>2 DEF Needs
  <2>4. Excused(op, H, doc)
    BY <2>1 DEF Excused, Moving
  <2>5. Passed(doc, g)
    BY <2>2 DEF Passed
  <2> QED
    BY <1>0, <2>3, <2>4, <2>5, OneLock
<1>2. ASSUME Carries(d)
      PROVE  Leg(op, <<change>>, H \cup Ran(<<doc>>), g, g)
  <2>1. change.mode = Update /\ change.row = <<"change", d>> /\ change.row[1] = "change" /\ change.row[2] = d
    BY DEF Lock
  <2>2. doc \in Ran(<<doc>>) /\ doc = Lock(<<"document", d>>, NoKeyUpdate)
    BY Ranges DEF Document
  <2> HIDE DEF change, doc
  <2>3. Grade(change.row) = 9
    BY <2>1, Grades
  <2>4. Needs(op, H \cup Ran(<<doc>>), change)
    <3>0. change.row[1] \in Kinds /\ change.mode \in 1..4
      BY <2>1 DEF Kinds, KeyShare, Share, NoKeyUpdate, Update
    <3>1. \E m \in {NoKeyUpdate, Update} :
             Lock(<<"document", change.row[2]>>, m) \in H \cup Ran(<<doc>>)
      BY <2>1, <2>2
    <3> QED
      BY <3>0, <2>1, <3>1 DEF Needs
  <2>5. Passed(change, g) /\ g < Grade(change.row)
    BY <2>3 DEF Passed
  <2> QED
    BY <1>0, <2>4, <2>5, OneLock
<1>3. ASSUME Carries(d)
      PROVE  Leg(op, <<party>>, H, g, g)
  <2>1. party.mode = Update /\ party.row = <<"party", Subject[d]>> /\ party.row[1] = "party" /\ party.row[2] = Subject[d]
    BY DEF Lock, Party
  <2> HIDE DEF party
  <2>2. Grade(party.row) = 5
    BY <2>1, Grades
  <2>3. Needs(op, H, party)
    <3>0. party.row[1] \in Kinds /\ party.mode \in 1..4
      BY <2>1 DEF Kinds, KeyShare, Share, NoKeyUpdate, Update
    <3>1. op = "decide" =>
             \E e \in InFlight : Subject[e] = party.row[2] /\ Lock(<<"instance", e>>, Update) \in H
      BY <1>3, <2>1 DEF Moving, Carries
    <3> QED
      BY <3>0, <2>1, <3>1 DEF Needs
  <2>4. Excused(op, H, party)
    <3>1. op = "decide" \/ Lock(party.row, Update) \in H
      BY <1>3, <2>1 DEF Moving, Carries
    <3> QED
      BY <2>1, <3>1 DEF Excused
  <2>5. Passed(party, g)
    BY <2>2 DEF Passed
  <2> QED
    BY <1>0, <2>3, <2>4, <2>5, OneLock
<1>4. Leg(op, settled, H \cup Ran(<<doc>>), g, g)
  <2>1. CASE settled # <<>>
    <3>0. Carries(d)
      BY <2>1 DEF Settled
    <3>1. settled = <<change>> \o <<party>>
      BY <2>1, <3>0, Split DEF Settled
    <3>2. Leg(op, <<change>>, H \cup Ran(<<doc>>), g, g) /\ Leg(op, <<party>>, H, g, g)
      BY <1>2, <1>3, <3>0
    <3>3. H \subseteq (H \cup Ran(<<doc>>)) \cup Ran(<<change>>)
      OBVIOUS
    <3> HIDE DEF change, party, doc
    <3> QED
      BY <1>0, <3>1, <3>2, <3>3, JoinLegs
  <2>2. CASE settled = <<>>
    <3> QED
      BY <1>0, <2>2, EmptyLeg
  <2> QED
    BY <2>1, <2>2
<1>5. Projected(d, settled) = <<doc>> \o settled
  BY DEF Projected
<1> HIDE DEF doc
<1>6. H \cup Ran(<<doc>>) \subseteq H \cup Ran(<<doc>>)
  OBVIOUS
<1>7. Leg(op, <<doc>> \o settled, H, g, g)
  BY <1>0, <1>1, <1>4, <1>6, JoinLegs
<1> QED
  BY <1>5, <1>7

LEMMA EnteredLeg ==
  ASSUME NEW op \in {"submit", "decide"}, NEW H, NEW d \in Documents, Moving(op, d, H),
         NEW e \in Entered(d), NEW g \in 0..6
  PROVE  Leg(op, e, H, g, 7)
<1>0. 6 \in 0..9 /\ 7 \in 0..9 /\ g \in 0..9 /\ g <= 6 /\ 6 \in 5..7 /\ 7 \in 5..7
  OBVIOUS
<1>1. \A x : H \subseteq H \cup Ran(x)
  OBVIOUS
<1>2. Leg(op, Raised, H, 6, 7)
  BY RaisedLeg
<1>3. \A settled \in {<<>>, Settled(d)} :
         Leg(op, Projected(d, settled), H, 6, 6) /\ Leg(op, Projected(d, settled), H, 7, 7)
  BY <1>0, ProjectedLeg
<1>4. Leg(op, e, H, 6, 7)
  <2>1. CASE \E task \in {<<>>, Raised}, settled \in {<<>>, Settled(d)} : e = task \o Projected(d, settled)
    <3>1. PICK task \in {<<>>, Raised}, settled \in {<<>>, Settled(d)} : e = task \o Projected(d, settled)
      BY <2>1
    <3>2. Leg(op, task, H, 6, 7)
      BY <1>0, <1>2, EmptyLeg
    <3> QED
      BY <1>0, <1>1, <1>3, <3>1, <3>2, JoinLegs
  <2>2. CASE e = Projected(d, Settled(d)) \o Raised \o Projected(d, <<>>)
    <3>1. Leg(op, Projected(d, Settled(d)) \o Raised, H, 6, 7)
      BY <1>0, <1>1, <1>2, <1>3, JoinLegs
    <3> QED
      BY <1>0, <1>1, <1>3, <2>2, <3>1, JoinLegs
  <2>3. \/ \E task \in {<<>>, Raised}, settled \in {<<>>, Settled(d)} : e = task \o Projected(d, settled)
        \/ e = Projected(d, Settled(d)) \o Raised \o Projected(d, <<>>)
    BY DEF Entered
  <2> QED
    BY <2>1, <2>2, <2>3
<1> QED
  BY <1>0, <1>4, WiderLeg

-----------------------------------------------------------------------------
(* The paths                                                               *)

LEMMA BucketLeg ==
  ASSUME NEW op, NEW H, NEW t \in Types, NEW g \in 0..3, NEW number \in Bucket(t),
         \/ op = "allocate"
         \/ op = "submit" /\ t \in Gapless
         \/ op = "set_rule" /\ Type(t, KeyShare) \in H
  PROVE  Leg(op, number, H, g, 4)
<1> DEFINE b == Lock(<<"bucket", t>>, NoKeyUpdate)
           k == Type(t, KeyShare)
<1>1. /\ b.mode = NoKeyUpdate /\ b.row = <<"bucket", t>> /\ b.row[1] = "bucket" /\ b.row[2] = t
      /\ k.mode = KeyShare /\ k.row = <<"type", t>> /\ k.row[1] = "type"
      /\ k = Lock(<<"type", t>>, KeyShare) /\ Type(t, KeyShare) = k
  BY DEF Lock, Type
<1>2. number = <<b>> \/ number = <<b>> \o <<k>>
  <2>1. <<b>> \in Seq({b, k}) /\ k \in {b, k}
    OBVIOUS
  <2>2. Append(<<b>>, k) = <<b>> \o <<k>>
    BY <2>1, AppendIsConcat
  <2> QED
    BY <2>2 DEF Bucket
<1>3. b \in Ran(<<b>>)
  BY Ranges
<1> HIDE DEF b, k
<1>4. Grade(b.row) = 4 /\ Grade(k.row) = 3
  BY <1>1, Grades
<1>5. 4 \in 0..9 /\ g \in 0..9 /\ g <= 4 /\ Passed(b, 4) /\ Passed(k, 4) /\ g < Grade(b.row)
  BY <1>4 DEF Passed
<1>6. Leg(op, <<b>>, H, g, 4)
  <2>1. b.row[1] \in Kinds /\ b.mode \in 1..4
    BY <1>1 DEF Kinds, NoKeyUpdate
  <2>2. \/ op = "allocate"
        \/ op = "submit" /\ b.row[2] \in Gapless
        \/ op = "set_rule" /\ Lock(<<"type", b.row[2]>>, KeyShare) \in H
    BY <1>1
  <2>3. b.row # <<"counter", "WFI">> /\ b.row # <<"counter", "TASK">>
    BY <1>1
  <2>4. Needs(op, H, b)
    BY <1>1, <2>1, <2>2, <2>3 DEF Needs
  <2> QED
    BY <1>5, <2>4, OneLock
<1>7. Leg(op, <<k>>, H \cup Ran(<<b>>), 4, 4)
  <2>1. k.row[1] \in Kinds /\ k.mode \in 1..4
    BY <1>1 DEF Kinds, KeyShare
  <2>2. Needs(op, H \cup Ran(<<b>>), k)
    BY <1>1, <2>1 DEF Needs
  <2>3. Excused(op, H \cup Ran(<<b>>), k)
    <3>1. CASE op = "allocate"
      BY <1>1, <3>1 DEF Excused
    <3>2. CASE op = "submit"
      <4>1. \E h \in H \cup Ran(<<b>>) : h.row[1] = "bucket"
        BY <1>1, <1>3
      <4> QED
        BY <1>1, <3>2, <4>1 DEF Excused
    <3>3. CASE op = "set_rule" /\ k \in H
      BY <1>1, <3>3 DEF Excused
    <3> QED
      BY <1>1, <3>1, <3>2, <3>3
  <2>4. 4 \in 0..9 /\ 4 <= 4
    OBVIOUS
  <2> QED
    BY <1>5, <2>2, <2>3, <2>4, OneLock
<1>8. H \cup Ran(<<b>>) \subseteq H \cup Ran(<<b>>)
  OBVIOUS
<1>9. Leg(op, <<b>> \o <<k>>, H, g, 4)
  BY <1>5, <1>6, <1>7, <1>8, JoinLegs
<1> QED
  BY <1>2, <1>6, <1>9

LEMMA PinnedFormLeg ==
  ASSUME LocksConstantsOK, NEW op, op # "set_rule", NEW H, NEW d \in Documents, NEW g \in 0..2
  PROVE  Leg(op, PinnedForm(d), H, g, 3)
<1>1. TypeOf[d] \in Types /\ g \in 0..9 /\ 3 \in 0..9 /\ g <= 3 /\ Update \in {KeyShare, Update}
  BY DEF LocksConstantsOK
<1>2. Leg(op, <<Type(TypeOf[d], Update)>>, H, g, 3)
  BY <1>1, TypeLeg
<1>3. Leg(op, <<>>, H, g, 3)
  BY <1>1, EmptyLeg
<1> QED
  BY <1>2, <1>3 DEF PinnedForm

LEMMA StartedLeg ==
  ASSUME NEW H, NEW d \in Documents, Moving("submit", d, H), NEW s \in Started(d), NEW g \in 0..5
  PROVE  Leg("submit", s, H, g, 7)
<1> DEFINE def == Lock(<<"definition">>, Share)
           wfi == Lock(<<"counter", "WFI">>, NoKeyUpdate)
<1>1. g \in 0..9 /\ 6 \in 0..9 /\ 7 \in 0..9 /\ g <= 7 /\ g \in 0..7 /\ 6 \in 0..6
      /\ "submit" \in {"submit", "decide"}
  OBVIOUS
<1>2. \A x : H \subseteq H \cup Ran(x)
  OBVIOUS
<1>3. CASE s = <<>>
  BY <1>1, <1>3, EmptyLeg
<1>4. CASE \E e \in Entered(d) : s = <<def, wfi>> \o e
  <2>1. PICK e \in Entered(d) : s = <<def, wfi>> \o e
    BY <1>4
  <2>2. Leg("submit", <<def>>, H, g, g)
    BY <1>1, DefinitionLeg
  <2>3. Leg("submit", <<wfi>>, H, g, 6)
    BY CounterLegs
  <2>4. Leg("submit", e, H, 6, 7)
    BY <1>1, EnteredLeg
  <2>5. <<def, wfi>> = <<def>> \o <<wfi>>
    BY Split
  <2> HIDE DEF def, wfi
  <2>6. Leg("submit", <<def>> \o <<wfi>>, H, g, 6)
    BY <1>1, <1>2, <2>2, <2>3, JoinLegs
  <2>7. Leg("submit", (<<def>> \o <<wfi>>) \o e, H, g, 7)
    BY <1>1, <1>2, <2>4, <2>6, JoinLegs
  <2> QED
    BY <2>1, <2>5, <2>7
<1> QED
  BY <1>3, <1>4 DEF Started

LEMMA SubmittedForLeg ==
  ASSUME LocksConstantsOK, NEW H, NEW d \in Documents, Document(d, Update) \in H,
         NEW s \in SubmittedFor(d), NEW g \in 0..4
  PROVE  Leg("submit", s, H, g, 7)
<1> DEFINE party == Party(Subject[d], Update)
<1>1. g \in 0..9 /\ 5 \in 0..9 /\ 7 \in 0..9 /\ g <= 5 /\ g <= 7 /\ 5 \in 0..5 /\ g \in 0..5
      /\ Subject[d] \in Parties /\ H \subseteq H /\ 5 <= 5 /\ 5 <= 7 /\ g <= g
      /\ Update \in {KeyShare, Share, NoKeyUpdate, Update}
  BY DEF LocksConstantsOK
<1>2. Lock(<<"document", d>>, Update) \in H
  BY DEF Document
<1>3. Leg("submit", <<party>>, H, g, 5)
  BY <1>1, PartyLeg
<1>4. Leg("submit", <<party>>, H, g, 7)
  BY <1>1, <1>3, WiderLeg
<1>5. CASE TypeOf[d] \notin Governed
  <2>1. s \in Started(d) /\ Moving("submit", d, H)
    BY <1>2, <1>5 DEF SubmittedFor, Moving
  <2> QED
    BY <1>1, <2>1, StartedLeg
<1>6. CASE s = <<>>
  BY <1>1, <1>6, EmptyLeg
<1>7. CASE s = <<party>>
  BY <1>4, <1>7
<1>8. CASE TypeOf[d] \in Governed /\ \E e \in Started(d) : s = <<party>> \o e
  <2>1. PICK e \in Started(d) : s = <<party>> \o e
    BY <1>8
  <2>2. party \in Ran(<<party>>) /\ party = Lock(<<"party", Subject[d]>>, Update)
    BY Ranges DEF Party
  <2> HIDE DEF party
  <2>3. Moving("submit", d, H \cup Ran(<<party>>))
    BY <1>2, <2>2 DEF Moving
  <2>4. Leg("submit", e, H \cup Ran(<<party>>), 5, 7)
    BY <1>1, <2>3, StartedLeg
  <2>5. H \cup Ran(<<party>>) \subseteq H \cup Ran(<<party>>)
    OBVIOUS
  <2>6. Leg("submit", <<party>> \o e, H, g, 7)
    BY <1>1, <1>3, <2>4, <2>5, JoinLegs
  <2> QED
    BY <2>1, <2>6
<1> QED
  BY <1>5, <1>6, <1>7, <1>8 DEF SubmittedFor

\* Legs joined from the beginning of a path: the second needs nothing that was
\* taken, or something the first took.
LEMMA JoinAlone ==
  ASSUME NEW op, NEW s, NEW t, NEW g, NEW m, NEW n, Leg(op, s, {}, g, m), Leg(op, t, {}, m, n)
  PROVE  Leg(op, s \o t, {}, g, n)
<1>1. g \in 0..9 /\ m \in 0..9 /\ n \in 0..9
  BY DEF Leg
<1> DEFINE H == {}
<1>2. H \subseteq H \cup Ran(s) /\ Leg(op, s, H, g, m) /\ Leg(op, t, H, m, n)
  OBVIOUS
<1> HIDE DEF H
<1>3. Leg(op, s \o t, H, g, n)
  BY <1>1, <1>2, JoinLegs
<1> QED
  BY <1>3 DEF H

LEMMA JoinAfter ==
  ASSUME NEW op, NEW s, NEW t, NEW K, NEW g, NEW m, NEW n, K \subseteq Ran(s),
         Leg(op, s, {}, g, m), Leg(op, t, K, m, n)
  PROVE  Leg(op, s \o t, {}, g, n)
<1>1. g \in 0..9 /\ m \in 0..9 /\ n \in 0..9
  BY DEF Leg
<1> DEFINE H == {}
<1>2. K \subseteq H \cup Ran(s) /\ Leg(op, s, H, g, m)
  OBVIOUS
<1> HIDE DEF H
<1>3. Leg(op, s \o t, H, g, n)
  BY <1>1, <1>2, JoinLegs
<1> QED
  BY <1>3 DEF H

LEMMA InstanceAndTaskLeg ==
  ASSUME NEW op, NEW d \in Documents
  PROVE  /\ Leg(op, InstanceAndTask(d), {}, 0, 1)
         /\ Lock(<<"instance", d>>, Update) \in Ran(InstanceAndTask(d))
<1> DEFINE instance == Lock(<<"instance", d>>, Update)
           task == Lock(<<"task", d>>, Update)
<1>1. Leg(op, <<instance>>, {}, 0, 1)
  BY FirstLeg
<1>2. instance \in Ran(<<instance>>)
  BY Ranges
<1>3. Leg(op, <<task>>, Ran(<<instance>>), 1, 1)
  BY <1>2, TaskLeg
<1>4. InstanceAndTask(d) = <<instance>> \o <<task>>
  BY Split DEF InstanceAndTask
<1> HIDE DEF instance, task
<1>6. /\ Leg(op, <<instance>> \o <<task>>, {}, 0, 1)
      /\ Ran(<<instance>> \o <<task>>) = Ran(<<instance>>) \cup Ran(<<task>>)
  <2>1. Ran(<<instance>>) \subseteq Ran(<<instance>>)
    OBVIOUS
  <2>2. Leg(op, <<instance>> \o <<task>>, {}, 0, 1)
    BY <1>1, <1>3, <2>1, JoinAfter
  <2>3. Ran(<<instance>> \o <<task>>) = Ran(<<instance>>) \cup Ran(<<task>>)
    BY <1>1, <1>3, JoinRanges
  <2> QED
    BY <2>2, <2>3
<1> QED
  BY <1>2, <1>4, <1>6 DEF instance

LEMMA FirstSubmitParts ==
  ASSUME NEW d \in Documents, NEW path \in FirstSubmits(d)
  PROVE  \E number \in IF TypeOf[d] \in Gapless THEN Bucket(TypeOf[d]) ELSE {<<>>},
            s \in SubmittedFor(d) : path = <<Document(d, Update)>> \o PinnedForm(d) \o number \o s
<1> DEFINE numbers == IF TypeOf[d] \in Gapless THEN Bucket(TypeOf[d]) ELSE {<<>>}
           submits == SubmittedFor(d)
           pre == <<Document(d, Update)>> \o PinnedForm(d)
<1>0. FirstSubmits(d) = {pre \o number \o s : number \in numbers, s \in submits}
  BY DEF FirstSubmits
<1> HIDE DEF numbers, submits, pre
<1>1. path \in {pre \o number \o s : number \in numbers, s \in submits}
  BY <1>0
<1>2. \E number \in numbers, s \in submits : path = pre \o number \o s
  BY <1>1
<1> QED
  BY <1>2 DEF numbers, submits, pre

LEMMA FirstSubmitLeg ==
  ASSUME LocksConstantsOK, NEW d \in Documents, NEW path \in FirstSubmits(d)
  PROVE  Leg("submit", path, {}, 0, 7)
<1> DEFINE doc == Document(d, Update)
           form == PinnedForm(d)
<1>1. PICK number \in IF TypeOf[d] \in Gapless THEN Bucket(TypeOf[d]) ELSE {<<>>},
           s \in SubmittedFor(d) : path = <<doc>> \o form \o number \o s
  BY FirstSubmitParts
<1>2. TypeOf[d] \in Types /\ Update \in {KeyShare, Update}
  BY DEF LocksConstantsOK
<1>3. Leg("submit", <<doc>>, {}, 0, 2) /\ doc \in Ran(<<doc>>)
  <2>1. 0 \in 0..1
    OBVIOUS
  <2>2. Leg("submit", <<doc>>, {}, 0, 2)
    BY <1>2, <2>1, DocumentLeg
  <2> QED
    BY <2>2, Ranges
<1>4. Leg("submit", form, {}, 2, 3)
  BY PinnedFormLeg
<1>5. Leg("submit", number, {}, 3, 4)
  <2>1. CASE TypeOf[d] \in Gapless
    <3>1. number \in Bucket(TypeOf[d]) /\ 3 \in 0..3
      BY <1>1, <2>1
    <3> QED
      BY <1>2, <2>1, <3>1, BucketLeg
  <2>2. CASE TypeOf[d] \notin Gapless
    BY <1>1, <2>2, EmptyLeg
  <2> QED
    BY <2>1, <2>2
<1>6. Leg("submit", s, Ran(<<doc>>), 4, 7)
  BY <1>3, SubmittedForLeg
<1> HIDE DEF doc, form
<1>8. /\ Leg("submit", <<doc>> \o form, {}, 0, 3)
      /\ Ran(<<doc>> \o form) = Ran(<<doc>>) \cup Ran(form)
  <2>1. Leg("submit", <<doc>>, {}, 0, 2) /\ Leg("submit", form, {}, 2, 3)
    BY <1>3, <1>4
  <2>2. Leg("submit", <<doc>> \o form, {}, 0, 3)
    BY <2>1, JoinAlone
  <2> QED
    BY <2>1, <2>2, JoinRanges
<1>9. /\ Leg("submit", <<doc>> \o form \o number, {}, 0, 4)
      /\ Ran(<<doc>> \o form \o number) = Ran(<<doc>> \o form) \cup Ran(number)
  <2>1. Leg("submit", <<doc>> \o form \o number, {}, 0, 4)
    BY <1>5, <1>8, JoinAlone
  <2> QED
    BY <1>5, <1>8, <2>1, JoinRanges
<1>10. Ran(<<doc>>) \subseteq Ran(<<doc>> \o form \o number)
  BY <1>8, <1>9
<1>11. Leg("submit", <<doc>> \o form \o number \o s, {}, 0, 7)
  BY <1>6, <1>9, <1>10, JoinAfter
<1> QED
  BY <1>1, <1>11

LEMMA ResubmitLeg ==
  ASSUME LocksConstantsOK, NEW d \in Documents, NEW path \in Resubmits(d)
  PROVE  Leg("submit", path, {}, 0, 7)
<1> DEFINE instance == Lock(<<"instance", d>>, Update)
           doc == Document(d, Update)
           task == Lock(<<"task", d>>, Update)
           party == Party(Subject[d], Update)
           form == PinnedForm(d)
           pair == <<instance, doc>>
<1>1. PICK rest \in IF TypeOf[d] \in Governed THEN {<<party>>} ELSE {<<task>> \o e : e \in Entered(d)} :
           path = pair \o form \o rest
  BY DEF Resubmits
<1>2. Update \in {KeyShare, Update} /\ Subject[d] \in Parties /\ Update \in {KeyShare, Share, NoKeyUpdate, Update}
  BY DEF LocksConstantsOK
<1>3. Leg("submit", pair, {}, 0, 2)
  <2>1. Leg("submit", <<instance>>, {}, 0, 1)
    BY FirstLeg
  <2>2. Leg("submit", <<doc>>, {}, 1, 2)
    <3>1. 1 \in 0..1 /\ Update \in {KeyShare, Update}
      OBVIOUS
    <3> QED
      BY <3>1, DocumentLeg
  <2>3. pair = <<instance>> \o <<doc>>
    BY Split
  <2> HIDE DEF instance, doc, pair
  <2> QED
    BY <2>1, <2>2, <2>3, JoinAlone
<1>4. instance \in Ran(pair) /\ Lock(<<"document", d>>, Update) \in Ran(pair)
  BY Ranges DEF Document
<1>5. Leg("submit", form, {}, 2, 3)
  BY PinnedFormLeg
<1>6. Leg("submit", rest, Ran(pair), 3, 7)
  <2>1. CASE TypeOf[d] \in Governed
    <3>1. Leg("submit", <<party>>, Ran(pair), 3, 5)
      <4>1. 3 \in 0..4 /\ "submit" # "decide"
        OBVIOUS
      <4> HIDE DEF pair
      <4> QED
        BY <1>2, <4>1, PartyLeg
    <3>2. Leg("submit", <<party>>, Ran(pair), 3, 7)
      BY <3>1, WiderLeg
    <3> QED
      BY <1>1, <2>1, <3>2
  <2>2. CASE TypeOf[d] \notin Governed
    <3>1. PICK e \in Entered(d) : rest = <<task>> \o e
      BY <1>1, <2>2
    <3>2. Leg("submit", <<task>>, Ran(pair), 3, 3)
      <4>1. 3 \in 0..8 /\ Lock(<<"instance", d>>, Update) \in Ran(pair)
        BY <1>4
      <4> HIDE DEF pair
      <4> QED
        BY <4>1, TaskLeg
    <3>3. Moving("submit", d, Ran(pair))
      BY <1>4, <2>2 DEF Moving
    <3>4. Leg("submit", e, Ran(pair), 3, 7)
      BY <3>3, EnteredLeg
    <3> HIDE DEF task, pair
    <3>5. Ran(pair) \subseteq Ran(pair) \cup Ran(<<task>>) /\ 3 \in 0..9 /\ 7 \in 0..9
      OBVIOUS
    <3> QED
      BY <3>1, <3>2, <3>4, <3>5, JoinLegs
  <2> QED
    BY <2>1, <2>2
<1> HIDE DEF pair, form
<1>8. Leg("submit", pair \o form, {}, 0, 3) /\ Ran(pair \o form) = Ran(pair) \cup Ran(form)
  <2>1. Leg("submit", pair, {}, 0, 2) /\ Leg("submit", form, {}, 2, 3)
    BY <1>3, <1>5
  <2>2. Leg("submit", pair \o form, {}, 0, 3)
    BY <2>1, JoinAlone
  <2> QED
    BY <2>1, <2>2, JoinRanges
<1>9. Ran(pair) \subseteq Ran(pair \o form)
  BY <1>8
<1>10. Leg("submit", pair \o form \o rest, {}, 0, 7)
  BY <1>6, <1>8, <1>9, JoinAfter
<1> QED
  BY <1>1, <1>10

LEMMA DecisionLeg ==
  ASSUME LocksConstantsOK, NEW d \in Documents, Stage[d] # "draft", NEW path \in Decisions(d)
  PROVE  Leg("decide", path, {}, 0, 7)
<1> DEFINE pair == InstanceAndTask(d)
           doc == Document(d, KeyShare)
<1>1. PICK e \in Entered(d) : path = pair \o <<doc>> \o e
  BY DEF Decisions
<1>2. Leg("decide", pair, {}, 0, 1) /\ Lock(<<"instance", d>>, Update) \in Ran(pair)
  BY InstanceAndTaskLeg
<1>3. Leg("decide", <<doc>>, {}, 1, 2)
  <2>1. 1 \in 0..1 /\ KeyShare \in {KeyShare, Update}
    OBVIOUS
  <2> QED
    BY <2>1, DocumentLeg
<1>4. Lock(<<"document", d>>, KeyShare) \in Ran(<<doc>>)
  BY Ranges DEF Document
<1> HIDE DEF pair, doc
<1>6. Leg("decide", pair \o <<doc>>, {}, 0, 2) /\ Ran(pair \o <<doc>>) = Ran(pair) \cup Ran(<<doc>>)
  <2>1. Leg("decide", pair \o <<doc>>, {}, 0, 2)
    BY <1>2, <1>3, JoinAlone
  <2> QED
    BY <1>2, <1>3, <2>1, JoinRanges
<1> DEFINE H == Ran(pair \o <<doc>>)
<1>7. Moving("decide", d, H)
  BY <1>2, <1>4, <1>6 DEF Moving, InFlight
<1>8. Leg("decide", e, H, 2, 7)
  BY <1>7, EnteredLeg
<1>9. H \subseteq Ran(pair \o <<doc>>)
  OBVIOUS
<1> HIDE DEF H
<1>10. Leg("decide", pair \o <<doc>> \o e, {}, 0, 7)
  BY <1>6, <1>8, <1>9, JoinAfter
<1> QED
  BY <1>1, <1>10

LEMMA HandoverLeg ==
  ASSUME NEW d \in Documents, NEW path \in Handovers(d)
  PROVE  Leg("hand_over", path, {}, 0, 2)
<1> DEFINE pair == InstanceAndTask(d)
           doc == Document(d, KeyShare)
<1>1. PICK role \in {<<>>, <<Lock(<<"role">>, KeyShare)>>} : path = pair \o role \o <<doc>>
  BY DEF Handovers
<1>2. Leg("hand_over", pair, {}, 0, 1)
  BY InstanceAndTaskLeg
<1>3. Leg("hand_over", role, {}, 1, 1)
  <2>1. Leg("hand_over", <<>>, {}, 1, 1)
    BY EmptyLeg
  <2>2. Leg("hand_over", <<Lock(<<"role">>, KeyShare)>>, {}, 1, 1)
    BY SharedLeg
  <2> QED
    BY <1>1, <2>1, <2>2
<1>4. Leg("hand_over", <<doc>>, {}, 1, 2)
  <2>1. 1 \in 0..1 /\ KeyShare \in {KeyShare, Update}
    OBVIOUS
  <2> QED
    BY <2>1, DocumentLeg
<1> HIDE DEF pair, doc
<1>6. Leg("hand_over", pair \o role, {}, 0, 1)
  BY <1>2, <1>3, JoinAlone
<1>7. Leg("hand_over", pair \o role \o <<doc>>, {}, 0, 2)
  BY <1>4, <1>6, JoinAlone
<1> QED
  BY <1>1, <1>7

LEMMA LinkedLeg ==
  ASSUME NEW op, op # "decide", NEW link \in Linked, NEW g \in 0..4
  PROVE  Leg(op, link, {}, g, 5)
<1>1. CASE link = <<>>
  <2>1. g \in 0..9 /\ 5 \in 0..9 /\ g <= 5
    OBVIOUS
  <2> QED
    BY <1>1, <2>1, EmptyLeg
<1>2. CASE \E p \in Parties : link = <<Party(p, Share)>>
  <2>1. Share \in {KeyShare, Share, NoKeyUpdate, Update}
    OBVIOUS
  <2> QED
    BY <1>2, <2>1, PartyLeg
<1> QED
  BY <1>1, <1>2 DEF Linked

LEMMA DepartmentLeg ==
  ASSUME NEW op, NEW H, NEW g \in 0..8
  PROVE  Leg(op, <<Lock(<<"department">>, KeyShare)>>, H, g, g)
<1>1. "department" \in {"role", "department", "form"} /\ KeyShare \in {KeyShare, Share}
  OBVIOUS
<1> QED
  BY <1>1, SharedLeg

LEMMA CreationLeg ==
  ASSUME NEW t \in Types, NEW path \in Creations(t)
  PROVE  Leg("create", path, {}, 0, 8)
<1> DEFINE type == Type(t, Update)
           number == Lock(<<"counter", "DOC">>, NoKeyUpdate)
           department == Lock(<<"department">>, KeyShare)
<1>1. PICK link \in Linked : path = <<type>> \o link \o <<number, department>>
  BY DEF Creations
<1>2. Leg("create", <<type>>, {}, 0, 3)
  <2>1. "create" # "set_rule" /\ 0 \in 0..2 /\ Update \in {KeyShare, Update}
    OBVIOUS
  <2> QED
    BY <2>1, TypeLeg
<1>3. Leg("create", link, {}, 3, 5)
  <2>1. "create" # "decide" /\ 3 \in 0..4
    OBVIOUS
  <2> QED
    BY <2>1, LinkedLeg
<1>4. Leg("create", <<number, department>>, {}, 5, 8)
  <2>1. Leg("create", <<number>>, {}, 5, 8)
    BY CounterLegs
  <2>2. Leg("create", <<department>>, {}, 8, 8)
    <3>1. 8 \in 0..8
      OBVIOUS
    <3> QED
      BY <3>1, DepartmentLeg
  <2>3. <<number, department>> = <<number>> \o <<department>>
    BY Split
  <2> HIDE DEF number, department
  <2>4. Leg("create", <<number>> \o <<department>>, {}, 5, 8)
    BY <2>1, <2>2, JoinAlone
  <2> QED
    BY <2>3, <2>4
<1> HIDE DEF type, number, department
<1>5. Leg("create", <<type>> \o link, {}, 0, 5)
  BY <1>2, <1>3, JoinAlone
<1>6. Leg("create", <<type>> \o link \o <<number, department>>, {}, 0, 8)
  BY <1>4, <1>5, JoinAlone
<1> QED
  BY <1>1, <1>6

LEMMA EditLeg ==
  ASSUME LocksConstantsOK, NEW d \in Documents, NEW path \in Edits(d)
  PROVE  Leg("edit", path, {}, 0, 5)
<1> DEFINE doc == Document(d, Update)
           department == Lock(<<"department">>, KeyShare)
<1>1. PICK link \in Linked, form \in {<<>>, PinnedForm(d)} :
          path = <<doc>> \o link \o form \o <<department>>
  BY DEF Edits
<1>2. Leg("edit", <<doc>>, {}, 0, 2)
  <2>1. 0 \in 0..1 /\ Update \in {KeyShare, Update}
    OBVIOUS
  <2> QED
    BY <2>1, DocumentLeg
<1>3. Leg("edit", <<department>>, {}, 3, 3) /\ Leg("edit", <<department>>, {}, 5, 5)
  <2>1. 3 \in 0..8 /\ 5 \in 0..8
    OBVIOUS
  <2> QED
    BY <2>1, DepartmentLeg
<1> HIDE DEF doc, department
<1>4. CASE link = <<>>
  <2>1. Leg("edit", link, {}, 2, 2)
    BY <1>4, EmptyLeg
  <2>2. Leg("edit", form, {}, 2, 3)
    <3>1. "edit" # "set_rule" /\ 2 \in 0..2
      OBVIOUS
    <3>2. Leg("edit", PinnedForm(d), {}, 2, 3)
      BY <3>1, PinnedFormLeg
    <3>3. Leg("edit", <<>>, {}, 2, 3)
      BY EmptyLeg
    <3> QED
      BY <1>1, <3>2, <3>3
  <2>3. Leg("edit", <<doc>> \o link, {}, 0, 2)
    BY <1>2, <2>1, JoinAlone
  <2>4. Leg("edit", <<doc>> \o link \o form, {}, 0, 3)
    BY <2>2, <2>3, JoinAlone
  <2>5. Leg("edit", <<doc>> \o link \o form \o <<department>>, {}, 0, 3)
    BY <1>3, <2>4, JoinAlone
  <2>6. Leg("edit", path, {}, 0, 3)
    BY <1>1, <2>5
  <2>7. {} \subseteq {} /\ 0 \in 0..9 /\ 3 \in 0..9 /\ 5 \in 0..9 /\ 0 <= 0 /\ 3 <= 5
    OBVIOUS
  <2> QED
    BY <2>6, <2>7, WiderLeg
<1>5. CASE \E p \in Parties : link = <<Party(p, Share)>>
  <2>1. PICK p \in Parties : link = <<Party(p, Share)>>
    BY <1>5
  <2>2. Leg("edit", link, {}, 2, 5)
    <3>1. "edit" # "decide" /\ 2 \in 0..4
      OBVIOUS
    <3> QED
      BY <1>1, <3>1, LinkedLeg
  <2>3. \E h \in Ran(link) : h.row[1] = "party"
    <3>1. Party(p, Share) \in Ran(link)
      BY <2>1, Ranges
    <3>2. Party(p, Share).row[1] = "party"
      BY DEF Party, Lock
    <3> QED
      BY <3>1, <3>2
  <2>4. Leg("edit", form, Ran(link), 5, 5)
    <3> DEFINE type == Type(TypeOf[d], Update)
    <3>1. 5 \in 0..9 /\ 5 <= 5
      OBVIOUS
    <3>2. CASE form = <<>>
      BY <3>1, <3>2, EmptyLeg
    <3>3. CASE form = <<type>>
      <4>1. type.mode = Update /\ type.row = <<"type", TypeOf[d]>> /\ type.row[1] = "type"
        BY DEF Type, Lock
      <4> HIDE DEF type
      <4>2. Grade(type.row) = 3
        BY <4>1, Grades
      <4>3. type.row[1] \in Kinds /\ type.mode \in 1..4
        BY <4>1 DEF Kinds, Update
      <4>4. Needs("edit", Ran(link), type)
        BY <4>1, <4>3 DEF Needs
      <4>5. Excused("edit", Ran(link), type)
        BY <2>3, <4>1 DEF Excused
      <4>6. Passed(type, 5)
        BY <4>2 DEF Passed
      <4> QED
        BY <3>1, <3>3, <4>4, <4>5, <4>6, OneLock
    <3> QED
      BY <1>1, <3>2, <3>3 DEF PinnedForm
  <2>5. Leg("edit", <<doc>> \o link, {}, 0, 5)
    BY <1>2, <2>2, JoinAlone
  <2>6. Ran(link) \subseteq Ran(<<doc>> \o link)
    <3>1. Ran(<<doc>> \o link) = Ran(<<doc>>) \cup Ran(link)
      BY <1>2, <2>2, JoinRanges
    <3> QED
      BY <3>1
  <2>7. Leg("edit", <<doc>> \o link \o form, {}, 0, 5)
    BY <2>4, <2>5, <2>6, JoinAfter
  <2>8. Leg("edit", <<doc>> \o link \o form \o <<department>>, {}, 0, 5)
    BY <1>3, <2>7, JoinAlone
  <2> QED
    BY <1>1, <2>8
<1> QED
  BY <1>1, <1>4, <1>5 DEF Linked

LEMMA NoteAndEventLegs ==
  ASSUME NEW d \in Documents
  PROVE  /\ Leg("annotate", Annotation(d), {}, 0, 2)
         /\ Leg("deliver", DeliveryOf(d), {}, 0, 8)
<1> DEFINE note == Lock(<<"note", d>>, Update)
           doc == Document(d, KeyShare)
           event == Lock(<<"event", d>>, NoKeyUpdate)
<1>1. Leg("annotate", <<note>>, {}, 0, 1)
  BY FirstLeg
<1>2. Leg("annotate", <<doc>>, {}, 1, 2) /\ Leg("deliver", <<doc>>, {}, 0, 2)
  <2>1. 0 \in 0..1 /\ 1 \in 0..1 /\ KeyShare \in {KeyShare, Update}
    OBVIOUS
  <2> QED
    BY <2>1, DocumentLeg
<1>3. Leg("deliver", <<event>>, {}, 2, 8)
  <2>1. event.mode = NoKeyUpdate /\ event.row = <<"event", d>> /\ event.row[1] = "event"
    BY DEF Lock
  <2> HIDE DEF event
  <2>2. Grade(event.row) = 8
    BY <2>1, Grades
  <2>3. event.row[1] \in Kinds /\ event.mode \in 1..4
    BY <2>1 DEF Kinds, NoKeyUpdate
  <2>4. Needs("deliver", {}, event)
    <3>1. event.row # <<"counter", "WFI">> /\ event.row # <<"counter", "TASK">>
      BY <2>1
    <3> QED
      BY <2>1, <2>3, <3>1 DEF Needs
  <2>5. Passed(event, 8) /\ 2 \in 0..9 /\ 8 \in 0..9 /\ 2 <= 8 /\ 2 < Grade(event.row)
    BY <2>2 DEF Passed
  <2> QED
    BY <2>4, <2>5, OneLock
<1>4. Annotation(d) = <<note>> \o <<doc>> /\ DeliveryOf(d) = <<doc>> \o <<event>>
  BY Split DEF Annotation, DeliveryOf
<1> HIDE DEF note, doc, event
<1>5. Leg("annotate", <<note>> \o <<doc>>, {}, 0, 2)
  BY <1>1, <1>2, JoinAlone
<1>6. Leg("deliver", <<doc>> \o <<event>>, {}, 0, 8)
  BY <1>2, <1>3, JoinAlone
<1> QED
  BY <1>4, <1>5, <1>6

LEMMA TypeUpdateLeg ==
  ASSUME NEW t \in Types, NEW path \in TypeUpdates(t)
  PROVE  Leg("update_type", path, {}, 0, 3)
<1> DEFINE type == Type(t, Update)
           f == <<Lock(<<"form">>, Share)>>
           def == <<Lock(<<"definition">>, Share)>>
<1>1. PICK form \in {<<>>, f}, definition \in {<<>>, def} : path = <<type>> \o form \o definition
  BY DEF TypeUpdates
<1>2. Leg("update_type", <<type>>, {}, 0, 3)
  <2>1. "update_type" # "set_rule" /\ 0 \in 0..2 /\ Update \in {KeyShare, Update}
    OBVIOUS
  <2> QED
    BY <2>1, TypeLeg
<1>3. Leg("update_type", <<>>, {}, 3, 3)
  BY EmptyLeg
<1>4. Leg("update_type", f, {}, 3, 3)
  <2>1. 3 \in 0..8 /\ "form" \in {"role", "department", "form"} /\ Share \in {KeyShare, Share}
    OBVIOUS
  <2> QED
    BY <2>1, SharedLeg
<1>5. Leg("update_type", def, {}, 3, 3)
  <2>1. 3 \in 0..7
    OBVIOUS
  <2> QED
    BY <2>1, DefinitionLeg
<1> HIDE DEF type, f, def
<1>6. Leg("update_type", form, {}, 3, 3) /\ Leg("update_type", definition, {}, 3, 3)
  BY <1>1, <1>3, <1>4, <1>5
<1>7. Leg("update_type", <<type>> \o form, {}, 0, 3)
  BY <1>2, <1>6, JoinAlone
<1>8. Leg("update_type", <<type>> \o form \o definition, {}, 0, 3)
  BY <1>6, <1>7, JoinAlone
<1> QED
  BY <1>1, <1>8

LEMMA RuleChangeLeg ==
  ASSUME NEW t \in Types, NEW path \in RuleChanges(t)
  PROVE  Leg("set_rule", path, {}, 0, 4)
<1> DEFINE rule == Lock(<<"rule", t>>, NoKeyUpdate)
           type == Type(t, KeyShare)
           pair == <<rule, type>>
<1>1. PICK seed \in {<<>>} \cup Bucket(t) : path = pair \o seed
  BY DEF RuleChanges
<1>2. Leg("set_rule", <<rule>>, {}, 0, 1)
  BY FirstLeg
<1>3. Leg("set_rule", <<type>>, {}, 1, 3)
  <2>1. 1 \in 0..2
    OBVIOUS
  <2> QED
    BY <2>1, RuleTypeLeg
<1>4. type \in Ran(pair)
  BY Ranges
<1>5. pair = <<rule>> \o <<type>>
  BY Split
<1>6. Leg("set_rule", seed, Ran(pair), 3, 4)
  <2>1. CASE seed = <<>>
    <3>1. 3 \in 0..9 /\ 4 \in 0..9 /\ 3 <= 4
      OBVIOUS
    <3> QED
      BY <2>1, <3>1, EmptyLeg
  <2>2. CASE seed \in Bucket(t)
    <3>1. 3 \in 0..3 /\ Type(t, KeyShare) \in Ran(pair)
      BY <1>4
    <3> HIDE DEF pair, type
    <3> QED
      BY <2>2, <3>1, BucketLeg
  <2> QED
    BY <2>1, <2>2
<1> HIDE DEF rule, type, pair
<1>7. Leg("set_rule", pair, {}, 0, 3)
  BY <1>2, <1>3, <1>5, JoinAlone
<1>8. Ran(pair) \subseteq Ran(pair)
  OBVIOUS
<1>9. Leg("set_rule", pair \o seed, {}, 0, 4)
  BY <1>6, <1>7, <1>8, JoinAfter
<1> QED
  BY <1>1, <1>9

LEMMA RolesLeg ==
  ASSUME NEW op, op # "decide", NEW p \in Parties
  PROVE  /\ Leg(op, <<Party(p, Update), Lock(<<"roles", p>>, NoKeyUpdate)>>, {}, 0, 5)
         /\ Party(p, Update) \in Ran(<<Party(p, Update), Lock(<<"roles", p>>, NoKeyUpdate)>>)
<1> DEFINE party == Party(p, Update)
           roles == Lock(<<"roles", p>>, NoKeyUpdate)
<1>1. Leg(op, <<party>>, {}, 0, 5)
  <2>1. 0 \in 0..4 /\ Update \in {KeyShare, Share, NoKeyUpdate, Update}
    OBVIOUS
  <2> QED
    BY <2>1, PartyLeg
<1>2. /\ roles.mode = NoKeyUpdate /\ roles.row = <<"roles", p>>
      /\ roles.row[1] = "roles" /\ roles.row[2] = p
      /\ party = Lock(<<"party", p>>, Update)
  BY DEF Lock, Party
<1>3. party \in Ran(<<party>>) /\ party \in Ran(<<party, roles>>)
  BY Ranges
<1>4. <<party, roles>> = <<party>> \o <<roles>>
  BY Split
<1> HIDE DEF party, roles
<1>5. Leg(op, <<roles>>, Ran(<<party>>), 5, 5)
  <2>1. Grade(roles.row) = 9
    BY <1>2, Grades
  <2>2. roles.row[1] \in Kinds /\ roles.mode \in 1..4
    BY <1>2 DEF Kinds, NoKeyUpdate
  <2>3. Lock(<<"party", roles.row[2]>>, Update) \in Ran(<<party>>)
    BY <1>2, <1>3
  <2>4. roles.row # <<"counter", "WFI">> /\ roles.row # <<"counter", "TASK">>
    BY <1>2
  <2>5. Needs(op, Ran(<<party>>), roles)
    BY <1>2, <2>2, <2>3, <2>4 DEF Needs
  <2>6. Passed(roles, 5) /\ 5 \in 0..9 /\ 5 <= 5 /\ 5 < Grade(roles.row)
    BY <2>1 DEF Passed
  <2> QED
    BY <2>5, <2>6, OneLock
<1>6. Ran(<<party>>) \subseteq Ran(<<party>>)
  OBVIOUS
<1>7. Leg(op, <<party>> \o <<roles>>, {}, 0, 5)
  BY <1>1, <1>5, <1>6, JoinAfter
<1> QED
  BY <1>3, <1>4, <1>7 DEF party, roles

\* Another party, behind one.
LEMMA OtherPartyLeg ==
  ASSUME NEW op \in {"assign_role", "update_party"}, NEW p, NEW H,
         \E h \in H : h.row[1] = "party"
  PROVE  Leg(op, <<Party(p, KeyShare)>>, H, 5, 5)
<1> DEFINE party == Party(p, KeyShare)
<1>1. party.mode = KeyShare /\ party.row = <<"party", p>> /\ party.row[1] = "party"
  BY DEF Lock, Party
<1> HIDE DEF party
<1>2. Grade(party.row) = 5
  BY <1>1, Grades
<1>3. party.row[1] \in Kinds /\ party.mode \in 1..4
  BY <1>1 DEF Kinds, KeyShare
<1>4. party.row # <<"counter", "WFI">> /\ party.row # <<"counter", "TASK">>
  BY <1>1
<1>5. Needs(op, H, party)
  BY <1>1, <1>3, <1>4 DEF Needs
<1>6. Excused(op, H, party)
  BY <1>1 DEF Excused
<1>7. Passed(party, 5) /\ 5 \in 0..9 /\ 5 <= 5
  BY <1>2 DEF Passed
<1>8. Leg(op, <<party>>, H, 5, 5)
  BY <1>5, <1>6, <1>7, OneLock
<1> QED
  BY <1>8 DEF party

LEMMA RoleAssignmentLeg ==
  ASSUME NEW p \in Parties, NEW path \in RoleAssignments(p)
  PROVE  Leg("assign_role", path, {}, 0, 5)
<1> DEFINE pair == <<Party(p, Update), Lock(<<"roles", p>>, NoKeyUpdate)>>
           department == Lock(<<"department">>, KeyShare)
<1>1. PICK named \in {<<>>} \cup {<<Party(q, KeyShare)>> : q \in Parties \ {p}} :
          path = pair \o named \o <<department>>
  BY DEF RoleAssignments
<1>2. Leg("assign_role", pair, {}, 0, 5) /\ Party(p, Update) \in Ran(pair)
  <2>1. "assign_role" # "decide"
    OBVIOUS
  <2> QED
    BY <2>1, RolesLeg
<1>3. Leg("assign_role", <<department>>, {}, 5, 5)
  <2>1. 5 \in 0..8
    OBVIOUS
  <2> QED
    BY <2>1, DepartmentLeg
<1>4. Party(p, Update).row[1] = "party"
  BY DEF Party, Lock
<1> HIDE DEF pair, department
<1>5. Leg("assign_role", named, Ran(pair), 5, 5)
  <2>1. CASE named = <<>>
    <3>1. 5 \in 0..9 /\ 5 <= 5
      OBVIOUS
    <3> QED
      BY <2>1, <3>1, EmptyLeg
  <2>2. CASE \E q \in Parties : named = <<Party(q, KeyShare)>>
    <3>1. "assign_role" \in {"assign_role", "update_party"} /\ \E h \in Ran(pair) : h.row[1] = "party"
      BY <1>2, <1>4
    <3> QED
      BY <2>2, <3>1, OtherPartyLeg
  <2> QED
    BY <1>1, <2>1, <2>2
<1>6. Ran(pair) \subseteq Ran(pair)
  OBVIOUS
<1>7. Leg("assign_role", pair \o named, {}, 0, 5)
  BY <1>2, <1>5, <1>6, JoinAfter
<1>8. Leg("assign_role", pair \o named \o <<department>>, {}, 0, 5)
  BY <1>3, <1>7, JoinAlone
<1> QED
  BY <1>1, <1>8

LEMMA ReplacedLeg ==
  ASSUME NEW p, NEW q, NEW x, NEW y, NEW s \in Replaced(p, q, <<"relationship", x, y>>), NEW H,
         \E h \in H : h.row[1] = "party"
  PROVE  Leg("update_party", s, H, 5, 5)
<1> DEFINE rel == Lock(<<"relationship", x, y>>, Update)
           other == Party(q, KeyShare)
<1>1. s = <<>> \/ s = <<rel>> \/ s = <<rel>> \o <<other>>
  BY Split DEF Replaced
<1>2. rel.mode = Update /\ rel.row = <<"relationship", x, y>> /\ rel.row[1] = "relationship"
  BY DEF Lock
<1>3. 5 \in 0..9 /\ 5 <= 5 /\ H \subseteq H \cup Ran(<<rel>>)
      /\ "update_party" \in {"assign_role", "update_party"}
  OBVIOUS
<1>4. Leg("update_party", <<other>>, H, 5, 5)
  BY <1>3, OtherPartyLeg
<1> HIDE DEF rel, other
<1>5. Leg("update_party", <<rel>>, H, 5, 5)
  <2>1. Grade(rel.row) = 9
    BY <1>2, Grades
  <2>2. rel.row[1] \in Kinds /\ rel.mode \in 1..4
    BY <1>2 DEF Kinds, Update
  <2>3. rel.row # <<"counter", "WFI">> /\ rel.row # <<"counter", "TASK">>
    BY <1>2
  <2>4. Needs("update_party", H, rel)
    BY <1>2, <2>2, <2>3 DEF Needs
  <2>5. Passed(rel, 5) /\ 5 < Grade(rel.row)
    BY <2>1 DEF Passed
  <2> QED
    BY <1>3, <2>4, <2>5, OneLock
<1>6. Leg("update_party", <<rel>> \o <<other>>, H, 5, 5)
  BY <1>3, <1>4, <1>5, JoinLegs
<1>7. Leg("update_party", <<>>, H, 5, 5)
  BY <1>3, EmptyLeg
<1> QED
  BY <1>1, <1>5, <1>6, <1>7

LEMMA PartyUpdateLeg ==
  ASSUME NEW p \in Parties, NEW path \in PartyUpdates(p)
  PROVE  Leg("update_party", path, {}, 0, 5)
<1> DEFINE party == Party(p, NoKeyUpdate)
<1>1. PICK q \in Parties \ {p} : path \in Relates(p, q)
  BY DEF PartyUpdates
<1>2. PICK from \in Replaced(p, q, <<"relationship", p, q>>),
           to \in Replaced(p, q, <<"relationship", q, p>>) : path = <<party>> \o from \o to
  BY <1>1 DEF Relates
<1>3. Leg("update_party", <<party>>, {}, 0, 5)
  <2>1. "update_party" # "decide" /\ 0 \in 0..4 /\ NoKeyUpdate \in {KeyShare, Share, NoKeyUpdate, Update}
    OBVIOUS
  <2> QED
    BY <2>1, PartyLeg
<1>4. \E h \in Ran(<<party>>) : h.row[1] = "party"
  <2>1. party \in Ran(<<party>>) /\ party.row[1] = "party"
    BY Ranges DEF Party, Lock
  <2> QED
    BY <2>1
<1> HIDE DEF party
<1>5. Leg("update_party", from, Ran(<<party>>), 5, 5) /\ Leg("update_party", to, Ran(<<party>>), 5, 5)
  BY <1>4, ReplacedLeg
<1>6. Ran(<<party>>) \subseteq Ran(<<party>>)
  OBVIOUS
<1>7. Leg("update_party", <<party>> \o from, {}, 0, 5)
  BY <1>3, <1>5, <1>6, JoinAfter
<1>8. Ran(<<party>>) \subseteq Ran(<<party>> \o from)
  <2>1. Ran(<<party>> \o from) = Ran(<<party>>) \cup Ran(from)
    BY <1>3, <1>5, JoinRanges
  <2> QED
    BY <2>1
<1>9. Leg("update_party", <<party>> \o from \o to, {}, 0, 5)
  BY <1>5, <1>7, <1>8, JoinAfter
<1> QED
  BY <1>2, <1>9

LEMMA RetireLeg ==
  ASSUME NEW k \in {"role", "department", "definition", "form"}
  PROVE  Leg("retire", <<Lock(<<k>>, Update)>>, {}, 0, 9)
<1> DEFINE l == Lock(<<k>>, Update)
<1>1. l.mode = Update /\ l.row = <<k>> /\ l.row[1] = k
  BY DEF Lock
<1> HIDE DEF l
<1>2. Grade(l.row) \in {8, 9}
  BY <1>1, Grades
<1>3. l.row[1] \in Kinds /\ l.mode \in 1..4
  BY <1>1 DEF Kinds, Update
<1>4. l.row # <<"counter", "WFI">> /\ l.row # <<"counter", "TASK">>
  BY <1>1
<1>5. Needs("retire", {}, l)
  <2>1. l.row[1] \in {"role", "department", "definition", "form"}
    BY <1>1
  <2> QED
    BY <1>3, <1>4, <2>1 DEF Needs
<1>6. Passed(l, 9) /\ 0 \in 0..9 /\ 9 \in 0..9 /\ 0 <= 9 /\ 0 < Grade(l.row)
  BY <1>2 DEF Passed
<1>7. Leg("retire", <<l>>, {}, 0, 9)
  BY <1>5, <1>6, OneLock
<1> QED
  BY <1>7 DEF l

LEMMA PublicationLeg == Leg("publish", Publication, {}, 0, 8)
<1> DEFINE def == Lock(<<"definition">>, Update)
           role == Lock(<<"role">>, KeyShare)
           department == Lock(<<"department">>, KeyShare)
<1>1. Publication = <<def>> \o <<role>> \o <<department>>
  BY Split DEF Publication
<1>2. Leg("publish", <<department>>, {}, 8, 8) /\ Leg("publish", <<role>>, {}, 8, 8)
  <2>1. 8 \in 0..8 /\ "role" \in {"role", "department", "form"} /\ KeyShare \in {KeyShare, Share}
    OBVIOUS
  <2> QED
    BY <2>1, DepartmentLeg, SharedLeg
<1>3. Leg("publish", <<def>>, {}, 0, 8)
  <2>1. def.mode = Update /\ def.row = <<"definition">> /\ def.row[1] = "definition"
    BY DEF Lock
  <2> HIDE DEF def
  <2>2. Grade(def.row) = 8
    BY <2>1, Grades
  <2>3. def.row[1] \in Kinds /\ def.mode \in 1..4
    BY <2>1 DEF Kinds, Update
  <2>4. def.row # <<"counter", "WFI">> /\ def.row # <<"counter", "TASK">>
    BY <2>1
  <2>5. Needs("publish", {}, def)
    BY <2>1, <2>3, <2>4 DEF Needs
  <2>6. Passed(def, 8) /\ 0 \in 0..9 /\ 8 \in 0..9 /\ 0 <= 8 /\ 0 < Grade(def.row)
    BY <2>2 DEF Passed
  <2> QED
    BY <2>5, <2>6, OneLock
<1> HIDE DEF def, role, department
<1>4. Leg("publish", <<def>> \o <<role>>, {}, 0, 8)
  BY <1>2, <1>3, JoinAlone
<1>5. Leg("publish", <<def>> \o <<role>> \o <<department>>, {}, 0, 8)
  BY <1>2, <1>4, JoinAlone
<1> QED
  BY <1>1, <1>5

-----------------------------------------------------------------------------
(* The parties of a submission                                             *)

\* What a path names of parties is in X.
Names(X, s) ==
    s \in Seq(Ran(s)) /\ \A l \in Ran(s) : l.row[1] = "party" => l.row[2] \in X

LEMMA NamesJoin ==
  ASSUME NEW X, NEW s, NEW t, Names(X, s), Names(X, t)
  PROVE  Names(X, s \o t)
<1>1. Ran(s \o t) = Ran(s) \cup Ran(t) /\ s \o t \in Seq(Ran(s \o t))
  BY RangeOfJoin DEF Names
<1> DEFINE u == s \o t
<1>2. u \in Seq(Ran(u)) /\ Ran(u) = Ran(s) \cup Ran(t)
  BY <1>1
<1> HIDE DEF u
<1>3. Names(X, u)
  BY <1>2 DEF Names
<1> QED
  BY <1>3 DEF u

LEMMA NamesOne ==
  ASSUME NEW X, NEW l, l.row[1] = "party" => l.row[2] \in X
  PROVE  Names(X, <<l>>)
<1> DEFINE s == <<l>>
<1>1. Ran(s) = {l}
  BY Ranges
<1>2. s \in Seq({l})
  OBVIOUS
<1> HIDE DEF s
<1>3. Names(X, s)
  BY <1>1, <1>2 DEF Names
<1> QED
  BY <1>3 DEF s

LEMMA NamesNone == \A X : Names(X, <<>>)
BY Ranges DEF Names

LEMMA NamesMore ==
  ASSUME NEW X, NEW Y, X \subseteq Y, NEW s, Names(X, s)
  PROVE  Names(Y, s)
BY DEF Names

LEMMA NamesOfOthers ==
  ASSUME NEW X, NEW d, NEW mode
  PROVE  /\ Names(X, <<Lock(<<"document", d>>, mode)>>)
         /\ Names(X, <<Lock(<<"type", d>>, mode)>>)
         /\ Names(X, <<Lock(<<"instance", d>>, mode)>>)
         /\ Names(X, <<Lock(<<"task", d>>, mode)>>)
         /\ Names(X, <<Lock(<<"change", d>>, mode)>>)
         /\ Names(X, <<Lock(<<"bucket", d>>, mode)>>)
         /\ Names(X, <<Lock(<<"counter", d>>, mode)>>)
         /\ Names(X, <<Lock(<<"role">>, mode)>>)
         /\ Names(X, <<Lock(<<"department">>, mode)>>)
         /\ Names(X, <<Lock(<<"definition">>, mode)>>)
         /\ Names(X, <<Document(d, mode)>>) /\ Names(X, <<Type(d, mode)>>)
<1>1. ASSUME NEW l, l.row[1] # "party"
      PROVE  Names(X, <<l>>)
  BY <1>1, NamesOne
<1>2. Names(X, <<Lock(<<"document", d>>, mode)>>)
  <2>1. Lock(<<"document", d>>, mode).row[1] # "party"
    BY DEF Lock
  <2> QED
    BY <1>1, <2>1
<1>3. Names(X, <<Lock(<<"type", d>>, mode)>>)
  <2>1. Lock(<<"type", d>>, mode).row[1] # "party"
    BY DEF Lock
  <2> QED
    BY <1>1, <2>1
<1>4. Names(X, <<Lock(<<"instance", d>>, mode)>>)
  <2>1. Lock(<<"instance", d>>, mode).row[1] # "party"
    BY DEF Lock
  <2> QED
    BY <1>1, <2>1
<1>5. Names(X, <<Lock(<<"task", d>>, mode)>>)
  <2>1. Lock(<<"task", d>>, mode).row[1] # "party"
    BY DEF Lock
  <2> QED
    BY <1>1, <2>1
<1>6. Names(X, <<Lock(<<"change", d>>, mode)>>)
  <2>1. Lock(<<"change", d>>, mode).row[1] # "party"
    BY DEF Lock
  <2> QED
    BY <1>1, <2>1
<1>7. Names(X, <<Lock(<<"bucket", d>>, mode)>>)
  <2>1. Lock(<<"bucket", d>>, mode).row[1] # "party"
    BY DEF Lock
  <2> QED
    BY <1>1, <2>1
<1>8. Names(X, <<Lock(<<"counter", d>>, mode)>>)
  <2>1. Lock(<<"counter", d>>, mode).row[1] # "party"
    BY DEF Lock
  <2> QED
    BY <1>1, <2>1
<1>9. Names(X, <<Lock(<<"role">>, mode)>>)
  <2>1. Lock(<<"role">>, mode).row[1] # "party"
    BY DEF Lock
  <2> QED
    BY <1>1, <2>1
<1>10. Names(X, <<Lock(<<"department">>, mode)>>)
  <2>1. Lock(<<"department">>, mode).row[1] # "party"
    BY DEF Lock
  <2> QED
    BY <1>1, <2>1
<1>11. Names(X, <<Lock(<<"definition">>, mode)>>)
  <2>1. Lock(<<"definition">>, mode).row[1] # "party"
    BY DEF Lock
  <2> QED
    BY <1>1, <2>1
<1> QED
  BY <1>2, <1>3, <1>4, <1>5, <1>6, <1>7, <1>8, <1>9, <1>10, <1>11 DEF Document, Type

LEMMA EnteredNames ==
  ASSUME NEW d, NEW e \in Entered(d)
  PROVE  Names(IF TypeOf[d] \in Governed THEN {Subject[d]} ELSE {}, e)
<1> DEFINE X == IF TypeOf[d] \in Governed THEN {Subject[d]} ELSE {}
<1>1. Names(X, Raised)
  <2>1. Raised = <<Lock(<<"role">>, KeyShare)>> \o <<Lock(<<"counter", "TASK">>, NoKeyUpdate)>>
                 \o <<Lock(<<"department">>, KeyShare)>>
    BY Split DEF Raised
  <2> HIDE DEF X
  <2>2. Names(X, <<Lock(<<"role">>, KeyShare)>>)
    BY NamesOfOthers
  <2>3. Names(X, <<Lock(<<"counter", "TASK">>, NoKeyUpdate)>>)
    BY NamesOfOthers
  <2>4. Names(X, <<Lock(<<"department">>, KeyShare)>>)
    BY NamesOfOthers
  <2> QED
    BY <2>1, <2>2, <2>3, <2>4, NamesJoin
<1>2. Names(X, Settled(d))
  <2>1. CASE Carries(d)
    <3>1. Settled(d) = <<Lock(<<"change", d>>, Update)>> \o <<Party(Subject[d], Update)>>
      BY <2>1, Split DEF Settled
    <3>2. Names(X, <<Lock(<<"change", d>>, Update)>>)
      BY NamesOfOthers
    <3>3. Party(Subject[d], Update).row[2] = Subject[d] /\ Subject[d] \in X
      BY <2>1 DEF Party, Lock, Carries
    <3> HIDE DEF X
    <3>4. Names(X, <<Party(Subject[d], Update)>>)
      BY <3>3, NamesOne
    <3> QED
      BY <3>1, <3>2, <3>4, NamesJoin
  <2>2. CASE ~Carries(d)
    BY <2>2, NamesNone DEF Settled
  <2> QED
    BY <2>1, <2>2
<1>3. Names(X, <<>>)
  BY NamesNone
<1> HIDE DEF X
<1>4. \A settled \in {<<>>, Settled(d)} : Names(X, Projected(d, settled))
  <2> TAKE settled \in {<<>>, Settled(d)}
  <2>1. Names(X, <<Document(d, NoKeyUpdate)>>)
    BY NamesOfOthers
  <2>2. Names(X, settled)
    BY <1>2, <1>3
  <2> QED
    BY <2>1, <2>2, NamesJoin DEF Projected
<1>5. ASSUME NEW task \in {<<>>, Raised}, NEW settled \in {<<>>, Settled(d)}
      PROVE  Names(X, task \o Projected(d, settled))
  <2>1. Names(X, task) /\ Names(X, Projected(d, settled))
    BY <1>1, <1>3, <1>4
  <2> QED
    BY <2>1, NamesJoin
<1>6. Names(X, Projected(d, Settled(d)) \o Raised \o Projected(d, <<>>))
  <2>1. Names(X, Projected(d, Settled(d))) /\ Names(X, Projected(d, <<>>))
    BY <1>4
  <2>2. Names(X, Projected(d, Settled(d)) \o Raised)
    BY <1>1, <2>1, NamesJoin
  <2> QED
    BY <2>1, <2>2, NamesJoin
<1>7. Names(X, e)
  <2>1. \/ \E task \in {<<>>, Raised}, settled \in {<<>>, Settled(d)} : e = task \o Projected(d, settled)
        \/ e = Projected(d, Settled(d)) \o Raised \o Projected(d, <<>>)
    BY DEF Entered
  <2> QED
    BY <1>5, <1>6, <2>1
<1> QED
  BY <1>7 DEF X

\* Nothing is asked behind a party that has a change in flight.
Calm(path) ==
    \A i \in 1..(Len(path) - 1) :
        path[i].row[1] = "party" => \A d \in InFlight : Subject[d] # path[i].row[2]

LEMMA CalmPath ==
  ASSUME NEW X, NEW path, Names(X, path), \A d \in InFlight : Subject[d] \notin X
  PROVE  Calm(path)
<1> SUFFICES ASSUME NEW i \in 1..(Len(path) - 1), path[i].row[1] = "party"
             PROVE  \A d \in InFlight : Subject[d] # path[i].row[2]
  BY DEF Calm
<1>1. Len(path) \in Nat
  BY LenProperties DEF Names
<1>2. i \in 1..Len(path)
  BY <1>1
<1>3. path[i] \in Ran(path)
  BY <1>2 DEF Ran
<1> QED
  BY <1>3 DEF Names

LEMMA CalmLast ==
  ASSUME NEW s, NEW l, Names({}, s)
  PROVE  Calm(s \o <<l>>)
<1> DEFINE S == Ran(s) \cup {l}
           u == s \o <<l>>
<1>1. s \in Seq(S) /\ <<l>> \in Seq(S) /\ Len(<<l>>) = 1
  <2>1. s \in Seq(Ran(s)) /\ Ran(s) \subseteq S
    BY DEF Names
  <2>2. <<l>> \in Seq(S) /\ Len(<<l>>) = 1
    OBVIOUS
  <2> HIDE DEF S
  <2> QED
    BY <2>1, <2>2, SeqMonotonic
<1> HIDE DEF S
<1>2. /\ Len(u) = Len(s) + 1 /\ Len(s) \in Nat
      /\ \A i \in 1..(Len(s) + 1) : u[i] = IF i <= Len(s) THEN s[i] ELSE <<l>>[i - Len(s)]
  <2>1. /\ Len(u) = Len(s) + Len(<<l>>)
        /\ \A i \in 1..(Len(s) + Len(<<l>>)) : u[i] = IF i <= Len(s) THEN s[i] ELSE <<l>>[i - Len(s)]
    BY <1>1, ConcatProperties
  <2> QED
    BY <1>1, <2>1, LenProperties
<1> HIDE DEF u
<1>3. \A i \in 1..(Len(u) - 1) : i \in 1..Len(s) /\ u[i] = s[i]
  BY <1>2
<1>4. \A i \in 1..(Len(u) - 1) : u[i].row[1] # "party"
  <2> TAKE i \in 1..(Len(u) - 1)
  <2>1. u[i] \in Ran(s)
    BY <1>3 DEF Ran
  <2> QED
    BY <2>1 DEF Names
<1>5. Calm(u)
  BY <1>4 DEF Calm
<1> QED
  BY <1>5 DEF u

LEMMA StartedNames ==
  ASSUME NEW d, NEW s \in Started(d)
  PROVE  Names(IF TypeOf[d] \in Governed THEN {Subject[d]} ELSE {}, s)
<1> DEFINE X == IF TypeOf[d] \in Governed THEN {Subject[d]} ELSE {}
           def == Lock(<<"definition">>, Share)
           wfi == Lock(<<"counter", "WFI">>, NoKeyUpdate)
<1>1. \A e \in Entered(d) : Names(X, e)
  BY EnteredNames
<1>2. <<def, wfi>> = <<def>> \o <<wfi>>
  BY Split
<1> HIDE DEF X
<1>3. Names(X, <<def>>)
  BY NamesOfOthers
<1>4. Names(X, <<wfi>>)
  BY NamesOfOthers
<1>5. Names(X, <<>>)
  BY NamesNone
<1>6. s = <<>> \/ \E e \in Entered(d) : s = <<def, wfi>> \o e
  BY DEF Started
<1> HIDE DEF def, wfi
<1>7. Names(X, <<def, wfi>>)
  BY <1>2, <1>3, <1>4, NamesJoin
<1>8. Names(X, s)
  BY <1>1, <1>5, <1>6, <1>7, NamesJoin
<1> QED
  BY <1>8 DEF X

LEMMA PinnedFormNames ==
  ASSUME NEW d, NEW X
  PROVE  Names(X, PinnedForm(d))
<1>1. Names(X, <<Type(TypeOf[d], Update)>>)
  BY NamesOfOthers
<1> QED
  BY <1>1, NamesNone DEF PinnedForm

LEMMA BucketNames ==
  ASSUME NEW t, NEW X, NEW number \in Bucket(t)
  PROVE  Names(X, number)
<1> DEFINE b == Lock(<<"bucket", t>>, NoKeyUpdate)
           k == Type(t, KeyShare)
<1>1. number = <<b>> \/ number = <<b>> \o <<k>>
  <2>1. <<b>> \in Seq({b, k}) /\ k \in {b, k}
    OBVIOUS
  <2>2. Append(<<b>>, k) = <<b>> \o <<k>>
    BY <2>1, AppendIsConcat
  <2> QED
    BY <2>2 DEF Bucket
<1>2. Names(X, <<b>>)
  BY NamesOfOthers
<1>3. Names(X, <<k>>)
  BY NamesOfOthers
<1> HIDE DEF b, k
<1> QED
  BY <1>1, <1>2, <1>3, NamesJoin

LEMMA FirstSubmitCalm ==
  ASSUME NEW d \in Documents, NEW path \in FirstSubmits(d)
  PROVE  Calm(path)
<1>1. PICK number \in IF TypeOf[d] \in Gapless THEN Bucket(TypeOf[d]) ELSE {<<>>},
           s \in SubmittedFor(d) : path = <<Document(d, Update)>> \o PinnedForm(d) \o number \o s
  BY FirstSubmitParts
<1> DEFINE doc == Document(d, Update)
           form == PinnedForm(d)
           party == Party(Subject[d], Update)
           pre == <<doc>> \o form \o number
<1>2. \A X : Names(X, pre)
  <2> TAKE X
  <2>1. Names(X, <<doc>>)
    BY NamesOfOthers
  <2>2. Names(X, form)
    BY PinnedFormNames
  <2>3. Names(X, number)
    BY <1>1, BucketNames, NamesNone
  <2> HIDE DEF doc, form
  <2>4. Names(X, <<doc>> \o form)
    BY <2>1, <2>2, NamesJoin
  <2> QED
    BY <2>3, <2>4, NamesJoin
<1>3. path = pre \o s
  BY <1>1
<1>4. ASSUME NEW X, Names(X, s), \A e \in InFlight : Subject[e] \notin X
      PROVE  Calm(path)
  <2>1. Names(X, pre)
    BY <1>2
  <2> HIDE DEF pre
  <2>2. Names(X, path)
    BY <1>3, <1>4, <2>1, NamesJoin
  <2> QED
    BY <1>4, <2>2, CalmPath
<1>5. CASE TypeOf[d] \notin Governed
  <2>1. Names({}, s)
    BY <1>5, StartedNames DEF SubmittedFor
  <2> HIDE DEF pre
  <2> QED
    BY <1>4, <2>1
<1>6. CASE TypeOf[d] \in Governed /\ s = <<>>
  <2>1. Names({}, s)
    BY <1>6, NamesNone
  <2> HIDE DEF pre
  <2> QED
    BY <1>4, <2>1
<1>7. CASE TypeOf[d] \in Governed /\ s = <<party>>
  <2>1. Names({}, pre)
    BY <1>2
  <2> HIDE DEF pre, party
  <2>2. Calm(pre \o <<party>>)
    BY <2>1, CalmLast
  <2> QED
    BY <1>3, <1>7, <2>2
<1>8. CASE /\ TypeOf[d] \in Governed /\ ~ \E e \in InFlight : Subject[e] = Subject[d]
           /\ \E e \in Started(d) : s = <<party>> \o e
  <2>1. PICK e \in Started(d) : s = <<party>> \o e
    BY <1>8
  <2>2. Names({Subject[d]}, e)
    BY <1>8, StartedNames
  <2>3. Names({Subject[d]}, <<party>>)
    <3>1. party.row[2] = Subject[d]
      BY DEF Party, Lock
    <3> HIDE DEF party
    <3> QED
      BY <3>1, NamesOne
  <2>4. Names({Subject[d]}, s)
    BY <2>1, <2>2, <2>3, NamesJoin
  <2>5. \A x \in InFlight : Subject[x] \notin {Subject[d]}
    BY <1>8
  <2> HIDE DEF pre
  <2> QED
    BY <1>4, <2>4, <2>5
<1> QED
  BY <1>5, <1>6, <1>7, <1>8 DEF SubmittedFor

LEMMA ResubmitCalm ==
  ASSUME NEW d \in Documents, NEW path \in Resubmits(d)
  PROVE  Calm(path)
<1> DEFINE instance == Lock(<<"instance", d>>, Update)
           doc == Document(d, Update)
           task == Lock(<<"task", d>>, Update)
           party == Party(Subject[d], Update)
           form == PinnedForm(d)
           pre == <<instance, doc>> \o form
<1>1. PICK rest \in IF TypeOf[d] \in Governed THEN {<<party>>} ELSE {<<task>> \o e : e \in Entered(d)} :
           path = pre \o rest
  BY DEF Resubmits
<1>2. Names({}, pre)
  <2>1. Names({}, <<instance>>)
    BY NamesOfOthers
  <2>2. Names({}, <<doc>>)
    BY NamesOfOthers
  <2>3. Names({}, form)
    BY PinnedFormNames
  <2>4. <<instance, doc>> = <<instance>> \o <<doc>>
    BY Split
  <2> HIDE DEF instance, doc, form
  <2>5. Names({}, <<instance, doc>>)
    BY <2>1, <2>2, <2>4, NamesJoin
  <2> QED
    BY <2>3, <2>5, NamesJoin
<1>3. CASE TypeOf[d] \in Governed
  <2>1. path = pre \o <<party>>
    BY <1>1, <1>3
  <2> HIDE DEF pre, party
  <2> QED
    BY <1>2, <2>1, CalmLast
<1>4. CASE TypeOf[d] \notin Governed
  <2>1. PICK e \in Entered(d) : path = pre \o (<<task>> \o e)
    BY <1>1, <1>4
  <2>2. Names({}, <<task>>)
    BY NamesOfOthers
  <2>3. Names({}, e)
    BY <1>4, EnteredNames
  <2> HIDE DEF pre, task
  <2>4. Names({}, <<task>> \o e)
    BY <2>2, <2>3, NamesJoin
  <2>5. Names({}, path)
    BY <1>2, <2>1, <2>4, NamesJoin
  <2> QED
    BY <2>5, CalmPath
<1> QED
  BY <1>3, <1>4

-----------------------------------------------------------------------------
(* The inductive invariant                                                 *)

\* What the argument needs of a path: it is one leg, and those of some
\* operations end early.
Sound(op, path) ==
    /\ Leg(op, path, {}, 0, 9)
    /\ op = "retire" => Len(path) = 1
    /\ op = "publish" => \A j \in 2..Len(path) : Grade(path[j].row) = 9
    /\ op = "allocate" =>
         \E t \in Types \ Gapless :
            /\ Len(path) \in {1, 2} /\ path[1] = Lock(<<"bucket", t>>, NoKeyUpdate)
            /\ Len(path) = 2 => path[2] = Type(t, KeyShare)
    /\ op = "submit" => Calm(path)

LEMMA SoundLeg ==
  ASSUME NEW op, op \notin {"retire", "publish", "allocate", "submit"}, NEW path, NEW m \in 0..9,
         Leg(op, path, {}, 0, m)
  PROVE  Sound(op, path)
<1> DEFINE H == {}
<1>1. H \subseteq H /\ 0 \in 0..9 /\ 9 \in 0..9 /\ 0 <= 0 /\ m <= 9 /\ Leg(op, path, H, 0, m)
  OBVIOUS
<1> HIDE DEF H
<1>2. Leg(op, path, H, 0, 9)
  BY <1>1, WiderLeg
<1> QED
  BY <1>2 DEF Sound, H

LEMMA SoundSubmit ==
  ASSUME LocksConstantsOK, NEW d \in Documents, NEW path \in FirstSubmits(d) \cup Resubmits(d)
  PROVE  Sound("submit", path)
<1>1. Leg("submit", path, {}, 0, 7) /\ Calm(path)
  BY FirstSubmitLeg, ResubmitLeg, FirstSubmitCalm, ResubmitCalm
<1> DEFINE H == {}
<1>2. H \subseteq H /\ 0 \in 0..9 /\ 7 \in 0..9 /\ 9 \in 0..9 /\ 0 <= 0 /\ 7 <= 9
      /\ Leg("submit", path, H, 0, 7)
  BY <1>1
<1> HIDE DEF H
<1>3. Leg("submit", path, H, 0, 9)
  BY <1>2, WiderLeg
<1> QED
  BY <1>1, <1>3 DEF Sound, H

LEMMA SoundPublication == Sound("publish", Publication)
<1> DEFINE H == {}
<1>1. H \subseteq H /\ 0 \in 0..9 /\ 8 \in 0..9 /\ 9 \in 0..9 /\ 0 <= 0 /\ 8 <= 9
      /\ Leg("publish", Publication, H, 0, 8)
  BY PublicationLeg
<1> HIDE DEF H
<1>2. Leg("publish", Publication, H, 0, 9)
  BY <1>1, WiderLeg
<1>3. \A j \in 2..Len(Publication) : Grade(Publication[j].row) = 9
  <2>1. Len(Publication) = 3 /\ Publication[2] = Lock(<<"role">>, KeyShare)
        /\ Publication[3] = Lock(<<"department">>, KeyShare)
    BY DEF Publication
  <2>2. Grade(Lock(<<"role">>, KeyShare).row) = 9 /\ Grade(Lock(<<"department">>, KeyShare).row) = 9
    BY Grades DEF Lock
  <2>3. \A j \in 2..3 : j = 2 \/ j = 3
    OBVIOUS
  <2> QED
    BY <2>1, <2>2, <2>3
<1> QED
  BY <1>2, <1>3 DEF Sound, H

LEMMA SoundAllocation ==
  ASSUME NEW t \in Types \ Gapless, NEW path \in Bucket(t)
  PROVE  Sound("allocate", path)
<1> DEFINE H == {}
<1>1. H \subseteq H /\ 0 \in 0..9 /\ 4 \in 0..9 /\ 9 \in 0..9 /\ 0 <= 0 /\ 4 <= 9
      /\ Leg("allocate", path, H, 0, 4)
  <2>1. 0 \in 0..3
    OBVIOUS
  <2> QED
    BY <2>1, BucketLeg
<1> HIDE DEF H
<1>2. Leg("allocate", path, H, 0, 9)
  BY <1>1, WiderLeg
<1>3. /\ Len(path) \in {1, 2} /\ path[1] = Lock(<<"bucket", t>>, NoKeyUpdate)
      /\ Len(path) = 2 => path[2] = Type(t, KeyShare)
  <2> DEFINE b == Lock(<<"bucket", t>>, NoKeyUpdate)
             k == Type(t, KeyShare)
  <2>1. path = <<b>> \/ path = <<b, k>>
    BY DEF Bucket
  <2> HIDE DEF b, k
  <2>2. Len(path) \in {1, 2} /\ path[1] = b /\ (Len(path) = 2 => path[2] = k)
    BY <2>1
  <2> QED
    BY <2>2 DEF b, k
<1> QED
  BY <1>2, <1>3 DEF Sound, H

LEMMA SoundRetirement ==
  ASSUME NEW k \in {"role", "department", "definition", "form"}
  PROVE  Sound("retire", <<Lock(<<k>>, Update)>>)
<1>1. Leg("retire", <<Lock(<<k>>, Update)>>, {}, 0, 9)
  BY RetireLeg
<1>2. Len(<<Lock(<<k>>, Update)>>) = 1
  OBVIOUS
<1> QED
  BY <1>1, <1>2 DEF Sound

LEMMA SoundOthers ==
  ASSUME LocksConstantsOK
  PROVE  /\ \A d \in Documents : Stage[d] # "draft" => \A path \in Decisions(d) : Sound("decide", path)
         /\ \A d \in Documents : \A path \in Handovers(d) : Sound("hand_over", path)
         /\ \A d \in Documents : \A path \in Edits(d) : Sound("edit", path)
         /\ \A d \in Documents : Sound("annotate", Annotation(d)) /\ Sound("deliver", DeliveryOf(d))
         /\ \A t \in Types : \A path \in Creations(t) : Sound("create", path)
         /\ \A t \in Types : \A path \in TypeUpdates(t) : Sound("update_type", path)
         /\ \A t \in Types : \A path \in RuleChanges(t) : Sound("set_rule", path)
         /\ \A p \in Parties : \A path \in RoleAssignments(p) : Sound("assign_role", path)
         /\ \A p \in Parties : \A path \in PartyUpdates(p) : Sound("update_party", path)
         /\ \A p \in Parties : Sound("delete_party", PartyDelete(p))
<1>1. ASSUME NEW op \in {"decide", "hand_over", "edit", "annotate", "deliver", "create", "update_type",
                         "set_rule", "assign_role", "update_party", "delete_party"},
             NEW path, NEW m \in {2, 3, 4, 5, 7, 8}, Leg(op, path, {}, 0, m)
      PROVE  Sound(op, path)
  <2>1. op \notin {"retire", "publish", "allocate", "submit"} /\ m \in 0..9
    OBVIOUS
  <2> QED
    BY <1>1, <2>1, SoundLeg
<1>2. ASSUME NEW d \in Documents, Stage[d] # "draft", NEW path \in Decisions(d)
      PROVE  Sound("decide", path)
  BY <1>1, <1>2, DecisionLeg
<1>3. ASSUME NEW d \in Documents, NEW path \in Handovers(d)
      PROVE  Sound("hand_over", path)
  BY <1>1, HandoverLeg
<1>4. ASSUME NEW d \in Documents, NEW path \in Edits(d)
      PROVE  Sound("edit", path)
  BY <1>1, EditLeg
<1>5. ASSUME NEW d \in Documents
      PROVE  Sound("annotate", Annotation(d)) /\ Sound("deliver", DeliveryOf(d))
  <2>1. Leg("annotate", Annotation(d), {}, 0, 2) /\ Leg("deliver", DeliveryOf(d), {}, 0, 8)
    BY NoteAndEventLegs
  <2> QED
    BY <1>1, <2>1
<1>6. ASSUME NEW t \in Types, NEW path \in Creations(t)
      PROVE  Sound("create", path)
  BY <1>1, CreationLeg
<1>7. ASSUME NEW t \in Types, NEW path \in TypeUpdates(t)
      PROVE  Sound("update_type", path)
  BY <1>1, TypeUpdateLeg
<1>8. ASSUME NEW t \in Types, NEW path \in RuleChanges(t)
      PROVE  Sound("set_rule", path)
  BY <1>1, RuleChangeLeg
<1>9. ASSUME NEW p \in Parties, NEW path \in RoleAssignments(p)
      PROVE  Sound("assign_role", path)
  BY <1>1, RoleAssignmentLeg
<1>10. ASSUME NEW p \in Parties, NEW path \in PartyUpdates(p)
       PROVE  Sound("update_party", path)
  BY <1>1, PartyUpdateLeg
<1>11. ASSUME NEW p \in Parties
       PROVE  Sound("delete_party", PartyDelete(p))
  <2>1. "delete_party" # "decide"
    OBVIOUS
  <2>2. Leg("delete_party", PartyDelete(p), {}, 0, 5)
    BY <2>1, RolesLeg DEF PartyDelete
  <2> QED
    BY <1>1, <2>2
<1> QED
  BY <1>2, <1>3, <1>4, <1>5, <1>6, <1>7, <1>8, <1>9, <1>10, <1>11

\* The inductive invariant: every path is sound, and no two requests hold locks
\* that conflict.
Requested(r) ==
    /\ transaction[r] = [op |-> transaction[r].op, path |-> transaction[r].path, at |-> transaction[r].at]
    /\ Sound(transaction[r].op, transaction[r].path)
    /\ transaction[r].at \in 0..Len(transaction[r].path)
Exclusive ==
    \A r, q \in Transactions : r # q =>
        \A i \in 1..transaction[r].at : ~Holds(q, transaction[r].path[i].row, transaction[r].path[i].mode)
IInv ==
    /\ transaction = [r \in Transactions |-> transaction[r]]
    /\ \A r \in Transactions : Requested(r)
    /\ Exclusive

LEMMA ModeOf ==
  ASSUME NEW op, NEW path, Sound(op, path), NEW i \in 1..Len(path)
  PROVE  path[i].mode \in 1..4 /\ Len(path) \in Nat
<1>1. Leg(op, path, {}, 0, 9)
  BY DEF Sound
<1>2. Needs(op, {} \cup Before(path, i), path[i]) /\ path \in Seq(Ran(path))
  BY <1>1 DEF Leg
<1> QED
  BY <1>2, LenProperties DEF Needs

LEMMA IdleIsSound == Sound(Idle.op, Idle.path) /\ Idle.at = 0 /\ Len(Idle.path) = 0
<1>1. Idle.op = "none" /\ Idle.path = <<>> /\ Idle.at = 0
  BY DEF Idle
<1>2. 9 \in 0..9 /\ "none" \notin {"retire", "publish", "allocate", "submit"}
  OBVIOUS
<1>3. Leg("none", <<>>, {}, 0, 9)
  BY EmptyLeg
<1>4. Sound("none", <<>>)
  BY <1>2, <1>3, SoundLeg
<1> QED
  BY <1>1, <1>4

LEMMA InitInvariant == LocksInit => IInv
<1> SUFFICES ASSUME LocksInit PROVE IInv
  OBVIOUS
<1>1. transaction = [r \in Transactions |-> Idle]
  BY DEF LocksInit
<1>2. \A r \in Transactions : transaction[r] = Idle
  BY <1>1
<1>3. ASSUME NEW r \in Transactions
      PROVE  Requested(r)
  <2>1. Idle = [op |-> Idle.op, path |-> Idle.path, at |-> Idle.at]
    BY DEF Idle
  <2> QED
    BY <1>2, <2>1, IdleIsSound DEF Requested
<1>4. Exclusive
  BY <1>2, IdleIsSound DEF Exclusive
<1> QED
  BY <1>1, <1>2, <1>3, <1>4 DEF IInv

\* A request that holds nothing, whatever it is, takes nothing from the invariant.
LEMMA EmptyHandKeeps ==
  ASSUME IInv, NEW r \in Transactions, NEW new,
         transaction' = [transaction EXCEPT ![r] = new],
         new = [op |-> new.op, path |-> new.path, at |-> new.at],
         new.at = 0, Sound(new.op, new.path), Len(new.path) \in Nat
  PROVE  IInv'
<1>1. transaction = [q \in Transactions |-> transaction[q]]
  BY DEF IInv
<1>2. transaction' = [q \in Transactions |-> transaction'[q]]
  BY <1>1
<1>3. transaction'[r] = new /\ \A q \in Transactions \ {r} : transaction'[q] = transaction[q]
  BY <1>1
<1>4. ASSUME NEW q \in Transactions
      PROVE  Requested(q)'
  <2>1. CASE q = r
    BY <1>3, <2>1 DEF Requested
  <2>2. CASE q # r
    BY <1>3, <2>2 DEF Requested, IInv
  <2> QED
    BY <2>1, <2>2
<1>5. Exclusive'
  <2> SUFFICES ASSUME NEW p \in Transactions, NEW q \in Transactions, p # q,
                      NEW i \in 1..transaction'[p].at, NEW j \in 1..transaction'[q].at,
                      transaction'[q].path[j].row = transaction'[p].path[i].row,
                      Conflict(transaction'[q].path[j].mode, transaction'[p].path[i].mode)
               PROVE  FALSE
    BY DEF Exclusive, Holds
  <2>1. p # r /\ q # r
    BY <1>3
  <2>2. transaction'[p] = transaction[p] /\ transaction'[q] = transaction[q]
    BY <1>3, <2>1
  <2> QED
    BY <2>2 DEF IInv, Exclusive, Holds
<1> QED
  BY <1>2, <1>4, <1>5 DEF IInv

LEMMA BeginKeeps ==
  ASSUME IInv, NEW r \in Transactions, NEW op, NEW paths, Begins(r, op, paths),
         \A path \in paths : Sound(op, path)
  PROVE  IInv'
<1>1. PICK path \in paths : transaction' = [transaction EXCEPT ![r] = [op |-> op, path |-> path, at |-> 0]]
  BY DEF Begins
<1> DEFINE new == [op |-> op, path |-> path, at |-> 0]
<1>2. new.op = op /\ new.path = path /\ new.at = 0 /\ new = [op |-> new.op, path |-> new.path, at |-> new.at]
  OBVIOUS
<1>3. Len(path) \in Nat /\ Sound(op, path)
  <2>1. Sound(op, path)
    BY <1>1
  <2>2. path \in Seq(Ran(path))
    BY <2>1 DEF Sound, Leg
  <2> QED
    BY <2>1, <2>2, LenProperties
<1>4. transaction' = [transaction EXCEPT ![r] = new]
  BY <1>1
<1> HIDE DEF new
<1> QED
  BY <1>2, <1>3, <1>4, EmptyHandKeeps

LEMMA EndKeeps ==
  ASSUME IInv, NEW r \in Transactions, EndTransaction(r)
  PROVE  IInv'
<1>1. transaction' = [transaction EXCEPT ![r] = Idle]
  BY DEF EndTransaction
<1>2. Idle = [op |-> Idle.op, path |-> Idle.path, at |-> Idle.at] /\ Len(Idle.path) \in Nat
  BY DEF Idle
<1> QED
  BY <1>1, <1>2, IdleIsSound, EmptyHandKeeps

LEMMA TakeKeeps ==
  ASSUME IInv, NEW r \in Transactions, Take(r)
  PROVE  IInv'
<1>1. transaction = [q \in Transactions |-> transaction[q]]
  BY DEF IInv
<1>2. /\ transaction[r] = [op |-> transaction[r].op, path |-> transaction[r].path, at |-> transaction[r].at]
      /\ Sound(transaction[r].op, transaction[r].path)
      /\ transaction[r].at \in 0..Len(transaction[r].path)
  BY DEF IInv, Requested
<1>3. transaction' = [transaction EXCEPT ![r].at = @ + 1] /\ transaction[r].at < Len(transaction[r].path)
      /\ \A q \in Transactions : ~WaitsFor(r, q)
  BY DEF Take, Asks
<1>4. transaction' = [q \in Transactions |-> transaction'[q]]
  BY <1>1, <1>3
<1>5. \A q \in Transactions \ {r} : transaction'[q] = transaction[q]
  BY <1>1, <1>3
<1>6. transaction'[r] = [op |-> transaction[r].op, path |-> transaction[r].path, at |-> transaction[r].at + 1]
  <2>1. transaction'[r] = [transaction[r] EXCEPT !.at = @ + 1]
    BY <1>1, <1>3
  <2>2. [transaction[r] EXCEPT !.at = @ + 1]
          = [op |-> transaction[r].op, path |-> transaction[r].path, at |-> transaction[r].at + 1]
    BY <1>2
  <2> QED
    BY <2>1, <2>2
<1>7. Len(transaction[r].path) \in Nat
  <2>1. transaction[r].path \in Seq(Ran(transaction[r].path))
    BY <1>2 DEF Sound, Leg
  <2> QED
    BY <2>1, LenProperties
<1>8. transaction'[r].op = transaction[r].op /\ transaction'[r].path = transaction[r].path
      /\ transaction'[r].at = transaction[r].at + 1
  BY <1>6
<1>9. ASSUME NEW q \in Transactions
      PROVE  Requested(q)'
  <2>1. CASE q = r
    <3>1. transaction'[r].at \in 0..Len(transaction'[r].path)
      BY <1>2, <1>3, <1>7, <1>8
    <3> QED
      BY <1>2, <1>6, <1>8, <2>1, <3>1 DEF Requested
  <2>2. CASE q # r
    BY <1>5, <2>2 DEF Requested, IInv
  <2> QED
    BY <2>1, <2>2
\* What r takes is held against it by nobody.
<1>10. ASSUME NEW q \in Transactions, q # r, NEW j \in 1..transaction[q].at,
              transaction[q].path[j].row = Asked(r).row
       PROVE  ~Conflict(transaction[q].path[j].mode, Asked(r).mode)
  BY <1>3, <1>10 DEF WaitsFor, Holds, Asks
<1>11. \A i \in 1..transaction'[r].at : i \in 1..transaction[r].at \/ transaction'[r].path[i] = Asked(r)
  <2>1. \A i \in 1..(transaction[r].at + 1) : i \in 1..transaction[r].at \/ i = transaction[r].at + 1
    BY <1>2, <1>7
  <2> QED
    BY <1>8, <2>1 DEF Asked
<1>12. ASSUME NEW q \in Transactions, NEW j \in 1..transaction[q].at
       PROVE  transaction[q].path[j].mode \in 1..4
  <2>1. Sound(transaction[q].op, transaction[q].path) /\ transaction[q].at \in 0..Len(transaction[q].path)
    BY DEF IInv, Requested
  <2>2. Len(transaction[q].path) \in Nat
    <3>1. transaction[q].path \in Seq(Ran(transaction[q].path))
      BY <2>1 DEF Sound, Leg
    <3> QED
      BY <3>1, LenProperties
  <2>3. j \in 1..Len(transaction[q].path)
    BY <2>1, <2>2
  <2> QED
    BY <2>1, <2>3, ModeOf
<1>13. Asked(r).mode \in 1..4
  <2>1. transaction[r].at + 1 \in 1..Len(transaction[r].path)
    BY <1>2, <1>3, <1>7
  <2> QED
    BY <1>2, <2>1, ModeOf DEF Asked
<1>14. ASSUME NEW q \in Transactions, q # r, NEW j \in 1..transaction[q].at,
              transaction[q].path[j].row = Asked(r).row
       PROVE  ~Conflict(Asked(r).mode, transaction[q].path[j].mode)
  <2>1. ~Conflict(transaction[q].path[j].mode, Asked(r).mode)
    BY <1>10, <1>14
  <2>2. transaction[q].path[j].mode \in 1..4
    BY <1>12
  <2> QED
    BY <1>13, <2>1, <2>2 DEF Conflict
<1>15. Exclusive'
  <2> SUFFICES ASSUME NEW p \in Transactions, NEW q \in Transactions, p # q,
                      NEW i \in 1..transaction'[p].at, NEW j \in 1..transaction'[q].at,
                      transaction'[q].path[j].row = transaction'[p].path[i].row,
                      Conflict(transaction'[q].path[j].mode, transaction'[p].path[i].mode)
               PROVE  FALSE
    BY DEF Exclusive, Holds
  <2>1. ASSUME i \in 1..transaction[p].at, j \in 1..transaction[q].at,
               transaction'[p].path = transaction[p].path, transaction'[q].path = transaction[q].path
        PROVE  FALSE
    BY <2>1 DEF IInv, Exclusive, Holds
  <2>2. CASE p # r /\ q # r
    BY <1>5, <2>1, <2>2
  <2>3. CASE p = r
    <3>1. transaction'[q] = transaction[q]
      BY <1>5, <2>3
    <3>2. CASE i \in 1..transaction[r].at
      BY <1>8, <2>1, <2>3, <3>1, <3>2
    <3>3. CASE transaction'[r].path[i] = Asked(r)
      BY <1>10, <2>3, <3>1, <3>3
    <3> QED
      BY <1>11, <2>3, <3>2, <3>3
  <2>4. CASE q = r
    <3>1. transaction'[p] = transaction[p]
      BY <1>5, <2>4
    <3>2. CASE j \in 1..transaction[r].at
      BY <1>8, <2>1, <2>4, <3>1, <3>2
    <3>3. CASE transaction'[r].path[j] = Asked(r)
      BY <1>14, <2>4, <3>1, <3>3
    <3> QED
      BY <1>11, <2>4, <3>2, <3>3
  <2> QED
    BY <2>2, <2>3, <2>4
<1> QED
  BY <1>4, <1>9, <1>15 DEF IInv

LEMMA NextInvariant ==
  ASSUME LocksConstantsOK, IInv, LocksNext
  PROVE  IInv'
<1>1. PICK r \in Transactions :
        \/ Take(r) \/ EndTransaction(r) \/ Publish(r) \/ Retire(r)
        \/ \E d \in Documents : SubmitDocument(r, d) \/ Work(r, d) \/ File(r, d)
        \/ \E t \in Types : Administer(r, t)
        \/ \E p \in Parties : KeepParty(r, p)
  BY DEF LocksNext
<1>2. CASE Take(r)
  BY <1>2, TakeKeeps
<1>3. CASE EndTransaction(r)
  BY <1>3, EndKeeps
<1>4. CASE Publish(r)
  <2>1. Begins(r, "publish", {Publication}) /\ \A path \in {Publication} : Sound("publish", path)
    BY <1>4, SoundPublication DEF Publish
  <2> QED
    BY <2>1, BeginKeeps
<1>5. CASE Retire(r)
  <2> DEFINE paths == {<<Lock(<<row>>, Update)>> : row \in {"role", "department", "definition", "form"}}
  <2>1. Begins(r, "retire", paths) /\ \A path \in paths : Sound("retire", path)
    BY <1>5, SoundRetirement DEF Retire
  <2> HIDE DEF paths
  <2> QED
    BY <2>1, BeginKeeps
<1>6. ASSUME NEW d \in Documents, SubmitDocument(r, d)
      PROVE  IInv'
  <2>1. PICK paths \in {FirstSubmits(d), Resubmits(d)} : Begins(r, "submit", paths)
    BY <1>6 DEF SubmitDocument
  <2>2. \A path \in paths : Sound("submit", path)
    BY <2>1, SoundSubmit
  <2> QED
    BY <2>1, <2>2, BeginKeeps
<1>7. ASSUME NEW d \in Documents, Work(r, d)
      PROVE  IInv'
  <2>1. \A path \in Decisions(d) : Sound("decide", path)
    BY <1>7, SoundOthers DEF Work
  <2>2. \A path \in Handovers(d) : Sound("hand_over", path)
    BY SoundOthers
  <2>3. Begins(r, "decide", Decisions(d)) \/ Begins(r, "hand_over", Handovers(d))
    BY <1>7 DEF Work
  <2> QED
    BY <2>1, <2>2, <2>3, BeginKeeps
<1>8. ASSUME NEW d \in Documents, File(r, d)
      PROVE  IInv'
  <2>1. \A path \in Edits(d) : Sound("edit", path)
    BY SoundOthers
  <2>2. Sound("annotate", Annotation(d)) /\ Sound("deliver", DeliveryOf(d))
    BY SoundOthers
  <2>3. \/ Begins(r, "edit", Edits(d)) \/ Begins(r, "annotate", {Annotation(d)})
        \/ Begins(r, "deliver", {DeliveryOf(d)})
    BY <1>8 DEF File
  <2>4. /\ \A path \in {Annotation(d)} : Sound("annotate", path)
        /\ \A path \in {DeliveryOf(d)} : Sound("deliver", path)
    BY <2>2
  <2> QED
    BY <2>1, <2>3, <2>4, BeginKeeps
<1>9. ASSUME NEW t \in Types, Administer(r, t)
      PROVE  IInv'
  <2>1. \A path \in Creations(t) : Sound("create", path)
    BY SoundOthers
  <2>2. \A path \in TypeUpdates(t) : Sound("update_type", path)
    BY SoundOthers
  <2>3. \A path \in RuleChanges(t) : Sound("set_rule", path)
    BY SoundOthers
  <2>4. CASE t \notin Gapless /\ Begins(r, "allocate", Bucket(t))
    <3>1. \A path \in Bucket(t) : Sound("allocate", path)
      BY <2>4, SoundAllocation
    <3> QED
      BY <2>4, <3>1, BeginKeeps
  <2>5. CASE \/ Begins(r, "create", Creations(t)) \/ Begins(r, "update_type", TypeUpdates(t))
             \/ Begins(r, "set_rule", RuleChanges(t))
    BY <2>1, <2>2, <2>3, <2>5, BeginKeeps
  <2> QED
    BY <1>9, <2>4, <2>5 DEF Administer
<1>10. ASSUME NEW p \in Parties, KeepParty(r, p)
       PROVE  IInv'
  <2>1. \A path \in RoleAssignments(p) : Sound("assign_role", path)
    BY SoundOthers
  <2>2. \A path \in PartyUpdates(p) : Sound("update_party", path)
    BY SoundOthers
  <2>3. \A path \in {PartyDelete(p)} : Sound("delete_party", path)
    BY SoundOthers
  <2>4. \/ Begins(r, "assign_role", RoleAssignments(p)) \/ Begins(r, "update_party", PartyUpdates(p))
        \/ Begins(r, "delete_party", {PartyDelete(p)})
    BY <1>10 DEF KeepParty
  <2> QED
    BY <2>1, <2>2, <2>3, <2>4, BeginKeeps
<1> QED
  BY <1>1, <1>2, <1>3, <1>4, <1>5, <1>6, <1>7, <1>8, <1>9, <1>10

LEMMA LockOrderInvariance ==
  ASSUME LocksConstantsOK
  PROVE  LocksSpec => []IInv
<1>1. LocksInit => IInv
  BY InitInvariant
<1>2. IInv /\ [LocksNext]_lockVars => IInv'
  <2> SUFFICES ASSUME IInv, [LocksNext]_lockVars PROVE IInv'
    OBVIOUS
  <2>1. CASE LocksNext
    BY <2>1, NextInvariant
  <2>2. CASE UNCHANGED lockVars
    BY <2>2 DEF lockVars, IInv, Requested, Exclusive, Holds
  <2> QED
    BY <2>1, <2>2
<1> QED
  BY <1>1, <1>2, PTL DEF LocksSpec

-----------------------------------------------------------------------------
(* Who waits for whom                                                      *)

Hand(r) == {transaction[r].path[i] : i \in 1..transaction[r].at}

LEMMA Paths ==
  ASSUME IInv, NEW r \in Transactions
  PROVE  /\ Sound(transaction[r].op, transaction[r].path)
         /\ transaction[r].at \in 0..Len(transaction[r].path) /\ Len(transaction[r].path) \in Nat
         /\ \A i \in 1..transaction[r].at : i \in 1..Len(transaction[r].path)
<1>1. Sound(transaction[r].op, transaction[r].path) /\ transaction[r].at \in 0..Len(transaction[r].path)
  BY DEF IInv, Requested
<1>2. transaction[r].path \in Seq(Ran(transaction[r].path))
  BY <1>1 DEF Sound, Leg
<1>3. Len(transaction[r].path) \in Nat
  BY <1>2, LenProperties
<1> QED
  BY <1>1, <1>3

LEMMA Holding ==
  ASSUME IInv, NEW r \in Transactions, NEW h \in Hand(r)
  PROVE  Needs(transaction[r].op, Hand(r), h)
<1>1. PICK i \in 1..transaction[r].at : h = transaction[r].path[i]
  BY DEF Hand
<1>2. i \in 1..Len(transaction[r].path) /\ Leg(transaction[r].op, transaction[r].path, {}, 0, 9)
  BY Paths DEF Sound
<1> DEFINE H == {} \cup Before(transaction[r].path, i)
<1>3. Needs(transaction[r].op, H, h)
  BY <1>1, <1>2 DEF Leg
<1>4. H \subseteq Hand(r)
  <2>1. transaction[r].at \in Nat
    BY Paths
  <2>2. \A j \in 1..(i - 1) : j \in 1..transaction[r].at
    BY <1>1, <2>1
  <2> QED
    BY <2>2 DEF Before, Hand
<1> HIDE DEF H
<1> QED
  BY <1>3, <1>4, NeedsMore

LEMMA Asking ==
  ASSUME IInv, NEW r \in Transactions, Asks(r)
  PROVE  /\ Needs(transaction[r].op, Hand(r), Asked(r))
         /\ \/ Excused(transaction[r].op, Hand(r), Asked(r))
            \/ \A h \in Hand(r) : Under(h, Asked(r))
<1> DEFINE path == transaction[r].path
           j == transaction[r].at + 1
<1>1. j \in 1..Len(path) /\ Leg(transaction[r].op, path, {}, 0, 9) /\ (j - 1) = transaction[r].at
  BY Paths DEF Asks, Sound
<1>2. Asked(r) = path[j]
  BY DEF Asked
<1>3. {} \cup Before(path, j) = Hand(r)
  BY <1>1 DEF Before, Hand
<1>4. \A h \in Hand(r) : \E i \in 1..(j - 1) : h = path[i]
  BY <1>1 DEF Hand
<1> HIDE DEF j, path
<1>5. /\ Needs(transaction[r].op, {} \cup Before(path, j), path[j])
      /\ \/ Excused(transaction[r].op, {} \cup Before(path, j), path[j])
         \/ \A i \in 1..(j - 1) : Under(path[i], path[j])
  BY <1>1 DEF Leg
<1> QED
  BY <1>2, <1>3, <1>4, <1>5

LEMMA Apart ==
  ASSUME IInv, NEW r \in Transactions, NEW q \in Transactions, r # q,
         NEW h \in Hand(r), NEW k \in Hand(q), h.row = k.row
  PROVE  h.mode \in 1..4 /\ k.mode \in 1..4 /\ h.mode + k.mode < 5
<1>1. PICK i \in 1..transaction[r].at : h = transaction[r].path[i]
  BY DEF Hand
<1>2. PICK j \in 1..transaction[q].at : k = transaction[q].path[j]
  BY DEF Hand
<1>3. h.mode \in 1..4 /\ k.mode \in 1..4
  BY Holding DEF Needs
<1>4. ~Conflict(k.mode, h.mode)
  BY <1>1, <1>2 DEF IInv, Exclusive, Holds
<1> QED
  BY <1>3, <1>4 DEF Conflict

LEMMA Waiting ==
  ASSUME IInv, NEW r \in Transactions, NEW q \in Transactions, WaitsFor(r, q)
  PROVE  /\ r # q /\ Asks(r) /\ Asked(r).mode \in 1..4
         /\ \E k \in Hand(q) : /\ k.row = Asked(r).row
                               /\ k.mode \in 1..4 /\ k.mode + Asked(r).mode >= 5
<1>1. r # q /\ Asks(r) /\ Holds(q, Asked(r).row, Asked(r).mode)
  BY DEF WaitsFor
<1>2. PICK j \in 1..transaction[q].at : transaction[q].path[j].row = Asked(r).row
                                    /\ Conflict(transaction[q].path[j].mode, Asked(r).mode)
  BY <1>1 DEF Holds
<1>3. transaction[q].path[j] \in Hand(q)
  BY DEF Hand
<1>4. transaction[q].path[j].mode \in 1..4
  BY <1>3, Holding DEF Needs
<1>5. Asked(r).mode \in 1..4
  BY <1>1, Asking DEF Needs
<1> QED
  BY <1>1, <1>2, <1>3, <1>4, <1>5 DEF Conflict

LEMMA OneOrTwo ==
  ASSUME NEW n \in Nat, NEW i \in 1..(n - 1)
  PROVE  n # 1 /\ (n \in {1, 2} => n = 2 /\ i = 1)
OBVIOUS

\* One that asks and holds something.
LEMMA GoingOn ==
  ASSUME IInv, NEW r \in Transactions, Asks(r), Hand(r) # {}
  PROVE  /\ transaction[r].op # "retire"
         /\ transaction[r].op = "publish" => Grade(Asked(r).row) = 9
         /\ transaction[r].op = "allocate" =>
              \E t \in Types \ Gapless :
                 Hand(r) = {Lock(<<"bucket", t>>, NoKeyUpdate)} /\ Asked(r) = Type(t, KeyShare)
         /\ transaction[r].op = "submit" =>
              \A h \in Hand(r) : h.row[1] = "party" => \A d \in InFlight : Subject[d] # h.row[2]
<1> DEFINE path == transaction[r].path
           at == transaction[r].at
<1>1. at \in 1..(Len(path) - 1) /\ Len(path) \in Nat /\ Sound(transaction[r].op, path)
  <2>1. at # 0
    BY DEF Hand
  <2>2. at \in 0..Len(path) /\ Len(path) \in Nat /\ at < Len(path) /\ Sound(transaction[r].op, path)
    BY Paths DEF Asks
  <2> HIDE DEF at, path
  <2> QED
    BY <2>1, <2>2
<1>2. Asked(r) = path[at + 1] /\ Hand(r) = {path[i] : i \in 1..at}
  BY DEF Asked, Hand
<1> HIDE DEF path, at
<1>3. transaction[r].op # "retire"
  <2>1. transaction[r].op = "retire" => Len(path) = 1
    BY <1>1 DEF Sound
  <2>2. Len(path) # 1
    BY <1>1, OneOrTwo
  <2> QED
    BY <2>1, <2>2
<1>4. ASSUME transaction[r].op = "publish"
      PROVE  Grade(Asked(r).row) = 9
  <2>1. at + 1 \in 2..Len(path)
    BY <1>1
  <2> QED
    BY <1>1, <1>2, <1>4, <2>1 DEF Sound
<1>5. ASSUME transaction[r].op = "allocate"
      PROVE  \E t \in Types \ Gapless :
                Hand(r) = {Lock(<<"bucket", t>>, NoKeyUpdate)} /\ Asked(r) = Type(t, KeyShare)
  <2>1. PICK t \in Types \ Gapless :
            /\ Len(path) \in {1, 2} /\ path[1] = Lock(<<"bucket", t>>, NoKeyUpdate)
            /\ Len(path) = 2 => path[2] = Type(t, KeyShare)
    BY <1>1, <1>5 DEF Sound
  <2>2. Len(path) = 2 /\ at = 1
    <3>1. Len(path) \in {1, 2}
      BY <2>1
    <3> QED
      BY <1>1, <3>1, OneOrTwo
  <2>3. Hand(r) = {path[1]} /\ Asked(r) = path[2]
    BY <1>2, <2>2
  <2> QED
    BY <2>1, <2>2, <2>3
<1>6. ASSUME transaction[r].op = "submit", NEW h \in Hand(r), h.row[1] = "party"
      PROVE  \A d \in InFlight : Subject[d] # h.row[2]
  <2>1. PICK i \in 1..at : h = path[i]
    BY <1>2
  <2>2. i \in 1..(Len(path) - 1)
    BY <1>1
  <2>3. Calm(path)
    BY <1>1, <1>6 DEF Sound
  <2> QED
    BY <1>6, <2>1, <2>2, <2>3 DEF Calm
<1> QED
  BY <1>3, <1>4, <1>5, <1>6

-----------------------------------------------------------------------------
(* Circles                                                                 *)

\* What is left of a circle without those that hold nothing.
Tangle(T) ==
    /\ T \subseteq Transactions /\ T # {}
    /\ \A r \in T : /\ Hand(r) # {} /\ ~WaitsAgainstTheOrder(r)
                    /\ \E q \in T : WaitsFor(r, q)

LEMMA CircleHasTangle ==
  ASSUME IInv, NEW S \in Circles, \A r \in S : ~WaitsAgainstTheOrder(r)
  PROVE  \E T : Tangle(T)
<1>1. S \subseteq Transactions /\ S # {} /\ \A r \in S : \E q \in S : WaitsFor(r, q)
  BY DEF Circles, Circle
<1> DEFINE T == {q \in S : \E r \in S : WaitsFor(r, q)}
<1>2. T \subseteq Transactions /\ T # {}
  BY <1>1
<1>3. ASSUME NEW q \in T
      PROVE  Hand(q) # {} /\ ~WaitsAgainstTheOrder(q) /\ \E p \in T : WaitsFor(q, p)
  <2>1. PICK r \in S : WaitsFor(r, q)
    OBVIOUS
  <2>2. Hand(q) # {}
    BY <1>1, <2>1, Waiting
  <2>3. \E p \in T : WaitsFor(q, p)
    BY <1>1
  <2> QED
    BY <2>2, <2>3
<1> HIDE DEF T
<1>4. Tangle(T)
  BY <1>2, <1>3 DEF Tangle
<1> QED
  BY <1>4

LEMMA InTangle ==
  ASSUME IInv, NEW T, Tangle(T), NEW r \in T
  PROVE  /\ r \in Transactions /\ Asks(r) /\ Hand(r) # {} /\ ~WaitsAgainstTheOrder(r)
         /\ Needs(transaction[r].op, Hand(r), Asked(r))
         /\ \E q \in T : WaitsFor(r, q)
<1>1. r \in Transactions /\ Hand(r) # {} /\ ~WaitsAgainstTheOrder(r) /\ \E q \in T : WaitsFor(r, q) /\ q \in Transactions
  BY DEF Tangle
<1>2. Asks(r)
  BY <1>1, Waiting
<1> QED
  BY <1>1, <1>2, Asking

LEMMA Excuses ==
  ASSUME IInv, NEW T, Tangle(T), NEW r \in T, Excused(transaction[r].op, Hand(r), Asked(r))
  PROVE  \/ transaction[r].op = "decide" /\ Asked(r).row[1] = "party"
         \/ transaction[r].op = "allocate" /\ Asked(r).row[1] = "type"
<1> DEFINE l == Asked(r)
           H == Hand(r)
           op == transaction[r].op
<1>1. /\ r \in Transactions /\ Asks(r) /\ ~WaitsAgainstTheOrder(r) /\ Needs(op, H, l)
      /\ \E q \in T : WaitsFor(r, q)
  BY InTangle
<1>2. PICK q \in T : WaitsFor(r, q)
  BY <1>1
<1>3. q \in Transactions
  BY DEF Tangle
<1>4. r # q /\ l.mode \in 1..4
  BY <1>1, <1>2, <1>3, Waiting
<1>5. PICK k \in Hand(q) : k.row = l.row /\ k.mode \in 1..4 /\ k.mode + l.mode >= 5
  BY <1>1, <1>2, <1>3, Waiting
<1>6. \A h \in H : h.row = k.row => h.mode + k.mode < 5
  BY <1>1, <1>3, <1>4, Apart
\* Whoever has the row already in a mode that keeps out what would keep it out.
<1>7. ~(Lock(l.row, Update) \in H)
  <2>1. Lock(l.row, Update).row = l.row /\ Lock(l.row, Update).mode = 4
    BY DEF Lock, Update
  <2> QED
    BY <1>5, <1>6, <2>1
<1>8. ~(l.row[1] = "document" /\ l.mode = NoKeyUpdate /\ Lock(l.row, KeyShare) \in H
        /\ Lock(<<"instance", l.row[2]>>, Update) \in H)
  <2> SUFFICES ASSUME l.row[1] = "document", l.mode = NoKeyUpdate, Lock(l.row, KeyShare) \in H,
                      Lock(<<"instance", l.row[2]>>, Update) \in H
               PROVE  FALSE
    OBVIOUS
  <2>1. Lock(l.row, KeyShare).row = l.row /\ Lock(l.row, KeyShare).mode = 1
    BY DEF Lock, KeyShare
  <2>2. k.mode + 1 < 5
    BY <1>5, <1>6, <2>1
  <2>3. l.mode = 3
    BY DEF NoKeyUpdate
  <2>4. Needs(transaction[q].op, Hand(q), k)
    BY <1>3, Holding
  <2>5. k.mode # 2
    BY <1>5, <2>4 DEF Needs, Share
  <2>6. k.mode = 3
    BY <1>5, <2>2, <2>3, <2>5
  <2>7. Lock(k.row, Update) \in Hand(q) \/ Lock(<<"instance", k.row[2]>>, Update) \in Hand(q)
    BY <1>5, <2>4, <2>6 DEF Needs, NoKeyUpdate
  <2>8. CASE Lock(k.row, Update) \in Hand(q)
    <3>1. Lock(k.row, Update).row = l.row /\ Lock(k.row, Update).mode = 4
      BY <1>5 DEF Lock, Update
    <3>2. Lock(l.row, KeyShare).mode + Lock(k.row, Update).mode < 5
      BY <1>1, <1>3, <1>4, <2>1, <2>8, <3>1, Apart
    <3> QED
      BY <2>1, <3>1, <3>2
  <2>9. CASE Lock(<<"instance", k.row[2]>>, Update) \in Hand(q)
    <3> DEFINE instance == Lock(<<"instance", l.row[2]>>, Update)
    <3>1. instance.mode = 4 /\ instance \in H /\ instance \in Hand(q)
      BY <1>5, <2>9 DEF Lock, Update
    <3> HIDE DEF instance
    <3>2. instance.mode + instance.mode < 5
      BY <1>1, <1>3, <1>4, <3>1, Apart
    <3> QED
      BY <3>1, <3>2
  <2> QED
    BY <2>7, <2>8, <2>9
<1>9. ~(l.row[1] = "type" /\ op = "set_rule" /\ l \in H)
  <2> SUFFICES ASSUME l.row[1] = "type", op = "set_rule", l \in H
               PROVE  FALSE
    OBVIOUS
  <2>1. l.mode + k.mode < 5
    BY <1>5, <1>6
  <2> QED
    BY <1>4, <1>5, <2>1
\* The waits that are known.
<1>10. \A kind : (\E h \in H : h.row[1] = kind) => HoldsA(r, kind)
  BY DEF HoldsA, Hand
<1>11. /\ ~(l.row[1] = "type" /\ op = "submit" /\ \E h \in H : h.row[1] = "bucket")
       /\ ~(l.row[1] = "type" /\ op = "edit" /\ \E h \in H : h.row[1] = "party")
       /\ ~(l.row[1] = "party" /\ op \in {"assign_role", "update_party"} /\ \E h \in H : h.row[1] = "party")
  <2>1. \A kind : l.row[1] = kind => WaitsForA(r, kind)
    BY <1>1 DEF WaitsForA
  <2> HIDE DEF l, H
  <2> QED
    BY <1>1, <1>10, <2>1 DEF WaitsAgainstTheOrder
<1>12. Excused(op, H, l)
  OBVIOUS
<1> HIDE DEF op, H, l
<1>13. \/ op = "decide" /\ l.row[1] = "party"
       \/ op = "allocate" /\ l.row[1] = "type"
  BY <1>7, <1>8, <1>9, <1>11, <1>12 DEF Excused
<1> QED
  BY <1>13 DEF op, l

LEMMA NoLastRow ==
  ASSUME IInv, NEW T, Tangle(T), NEW r \in T
  PROVE  Grade(Asked(r).row) # 9
<1> SUFFICES ASSUME Grade(Asked(r).row) = 9
             PROVE  FALSE
  OBVIOUS
<1> DEFINE l == Asked(r)
<1>1. /\ r \in Transactions /\ Asks(r) /\ Hand(r) # {} /\ ~WaitsAgainstTheOrder(r)
      /\ Needs(transaction[r].op, Hand(r), l) /\ \E q \in T : WaitsFor(r, q)
  BY InTangle
<1>2. PICK q \in T : WaitsFor(r, q)
  BY <1>1
<1>3. q \in Transactions /\ Asks(q) /\ Hand(q) # {}
  BY InTangle
<1>4. r # q /\ l.mode \in 1..4
  BY <1>1, <1>2, <1>3, Waiting
<1>5. PICK k \in Hand(q) : k.row = l.row /\ k.mode \in 1..4 /\ k.mode + l.mode >= 5
  BY <1>1, <1>2, <1>3, Waiting
<1>6. Needs(transaction[q].op, Hand(q), k)
  BY <1>3, Holding
<1>7. l.row[1] \in {"task", "roles", "change", "relationship", "role", "department", "form"}
  <2>1. l.row[1] \in Kinds
    BY <1>1 DEF Needs
  <2>2. Grade(l.row) = 9
    OBVIOUS
  <2> HIDE DEF l
  <2>3. l.row[1] \notin {"instance", "note", "rule", "document", "type", "bucket", "party", "counter",
                         "definition", "event"}
    BY <2>2 DEF Grade
  <2> QED
    BY <2>1, <2>3 DEF Kinds
<1> HIDE DEF l
\* Two that hold what stands before the row hold it against each other.
<1>8. ASSUME NEW row, NEW m \in 3..4, NEW n \in 3..4, Lock(row, m) \in Hand(r), Lock(row, n) \in Hand(q)
      PROVE  FALSE
  <2>1. Lock(row, m).row = row /\ Lock(row, n).row = row /\ Lock(row, m).mode = m /\ Lock(row, n).mode = n
    BY DEF Lock
  <2>2. Lock(row, m).mode + Lock(row, n).mode < 5
    BY <1>1, <1>3, <1>4, <1>8, <2>1, Apart
  <2> QED
    BY <2>1, <2>2
<1>9. Update = 4 /\ NoKeyUpdate = 3 /\ Share = 2
  BY DEF Update, NoKeyUpdate, Share
<1>10. CASE l.row[1] = "task"
  <2>1. Lock(<<"instance", l.row[2]>>, Update) \in Hand(r) /\ Lock(<<"instance", l.row[2]>>, Update) \in Hand(q)
    BY <1>1, <1>5, <1>6, <1>10 DEF Needs
  <2> QED
    BY <1>8, <1>9, <2>1
<1>11. CASE l.row[1] = "roles"
  <2>1. Lock(<<"party", l.row[2]>>, Update) \in Hand(r) /\ Lock(<<"party", l.row[2]>>, Update) \in Hand(q)
    BY <1>1, <1>5, <1>6, <1>11 DEF Needs
  <2> QED
    BY <1>8, <1>9, <2>1
<1>12. CASE l.row[1] = "change"
  <2>1. PICK m \in {NoKeyUpdate, Update} : Lock(<<"document", l.row[2]>>, m) \in Hand(r)
    BY <1>1, <1>12 DEF Needs
  <2>2. PICK n \in {NoKeyUpdate, Update} : Lock(<<"document", l.row[2]>>, n) \in Hand(q)
    BY <1>5, <1>6, <1>12 DEF Needs
  <2>3. m \in 3..4 /\ n \in 3..4
    BY <1>9
  <2> QED
    BY <1>8, <2>1, <2>2, <2>3
<1>13. CASE l.row[1] = "relationship"
  <2>1. transaction[r].op = "update_party"
    BY <1>1, <1>13 DEF Needs
  <2> QED
    BY <1>1, <1>13, <2>1 DEF WaitsAgainstTheOrder, WaitsForA, l
<1>14. CASE l.row[1] \in {"role", "department", "form"}
  <2>1. transaction[r].op # "retire" /\ transaction[q].op # "retire"
    BY <1>1, <1>3, GoingOn
  <2>2. l.mode <= Share
    BY <1>1, <1>14, <2>1 DEF Needs
  <2>3. k.mode <= Share
    BY <1>5, <1>6, <1>14, <2>1 DEF Needs
  <2> QED
    BY <1>4, <1>5, <1>9, <2>2, <2>3
<1> QED
  BY <1>7, <1>10, <1>11, <1>12, <1>13, <1>14

\* Those that change a definition ask for the last rows only.
LEMMA NoDefinition ==
  ASSUME IInv, NEW T, Tangle(T), NEW r \in T
  PROVE  Asked(r).row[1] # "definition"
<1> SUFFICES ASSUME Asked(r).row[1] = "definition"
             PROVE  FALSE
  OBVIOUS
<1>1. r \in Transactions /\ Asks(r) /\ Hand(r) # {} /\ Needs(transaction[r].op, Hand(r), Asked(r))
  BY InTangle
<1>2. PICK q \in T : WaitsFor(r, q)
  BY InTangle
<1>3. q \in Transactions /\ Asks(q) /\ Hand(q) # {}
  BY InTangle
<1>4. PICK k \in Hand(q) : k.row = Asked(r).row /\ k.mode \in 1..4 /\ k.mode + Asked(r).mode >= 5
  BY <1>1, <1>2, <1>3, Waiting
<1>5. Needs(transaction[q].op, Hand(q), k)
  BY <1>3, Holding
<1>6. transaction[r].op \notin {"retire", "publish"} /\ transaction[q].op \notin {"retire", "publish"}
  BY <1>1, <1>3, GoingOn, NoLastRow
<1>7. Asked(r).mode <= Share /\ k.mode <= Share
  BY <1>1, <1>4, <1>5, <1>6 DEF Needs
<1>8. Asked(r).mode \in 1..4
  BY <1>1 DEF Needs
<1> QED
  BY <1>4, <1>7, <1>8 DEF Share

\* Whoever is waited for asks for a row of a higher grade, unless excused.
LEMMA Rising ==
  ASSUME IInv, NEW T, Tangle(T), NEW r \in T, NEW q \in T, WaitsFor(r, q),
         ~Excused(transaction[q].op, Hand(q), Asked(q))
  PROVE  Grade(Asked(r).row) < Grade(Asked(q).row)
<1>1. r \in Transactions /\ Asks(r) /\ q \in Transactions /\ Asks(q)
  BY InTangle
<1>2. PICK k \in Hand(q) : k.row = Asked(r).row
  BY <1>1, Waiting
<1>3. Under(k, Asked(q))
  BY <1>1, Asking
<1>4. Grade(Asked(r).row) # 9 /\ Asked(r).row[1] # "definition"
  BY NoLastRow, NoDefinition
<1> QED
  BY <1>2, <1>3, <1>4 DEF Under

\* An event, or the counter of documents.
LEMMA NoEighth ==
  ASSUME IInv, NEW T, Tangle(T), NEW r \in T
  PROVE  Grade(Asked(r).row) # 8
<1> SUFFICES ASSUME Grade(Asked(r).row) = 8
             PROVE  FALSE
  OBVIOUS
<1>1. r \in Transactions /\ Asks(r)
  BY InTangle
<1>2. PICK q \in T : WaitsFor(r, q)
  BY InTangle
<1>3. q \in Transactions
  BY InTangle
<1>4. PICK k \in Hand(q) : k.row = Asked(r).row
  BY <1>1, <1>2, <1>3, Waiting
<1>5. Needs(transaction[q].op, Hand(q), k)
  BY <1>3, Holding
<1>6. Asked(r).row[1] # "definition"
  BY NoDefinition
<1>7. /\ Asked(r).row[1] \in {"event", "counter"}
      /\ Asked(r).row \notin {<<"counter", "WFI">>, <<"counter", "TASK">>}
  BY <1>6 DEF Grade
<1>8. transaction[q].op \in {"deliver", "create"}
  BY <1>4, <1>5, <1>7 DEF Needs
<1>9. ~Excused(transaction[q].op, Hand(q), Asked(q))
  BY <1>8, Excuses
<1>10. 8 < Grade(Asked(q).row)
  BY <1>2, <1>9, Rising
<1>11. Grade(Asked(q).row) \in 1..9 /\ Grade(Asked(q).row) # 9
  BY GradeType, NoLastRow
<1> QED
  BY <1>10, <1>11

LEMMA GradesAsked ==
  ASSUME IInv, NEW T, Tangle(T), NEW r \in T
  PROVE  Grade(Asked(r).row) \in 1..7
<1>1. Grade(Asked(r).row) \in 1..9
  BY GradeType
<1>2. Grade(Asked(r).row) # 8 /\ Grade(Asked(r).row) # 9
  BY NoEighth, NoLastRow
<1> QED
  BY <1>1, <1>2

\* The party of a decision is held by nobody else who goes on: a first
\* submission that holds it has no change in flight beside it, and the only
\* change of it is the decision's own, whose process is held.
LEMMA NoDecisionsParty ==
  ASSUME LocksConstantsOK, IInv, NEW T, Tangle(T), NEW r \in T,
         transaction[r].op = "decide", Asked(r).row[1] = "party"
  PROVE  FALSE
<1>1. r \in Transactions /\ Asks(r) /\ Needs(transaction[r].op, Hand(r), Asked(r))
  BY InTangle
<1>2. PICK q \in T : WaitsFor(r, q)
  BY InTangle
<1>3. q \in Transactions /\ Asks(q) /\ Hand(q) # {} /\ Needs(transaction[q].op, Hand(q), Asked(q))
  BY InTangle
<1>4. PICK k \in Hand(q) : k.row = Asked(r).row
  BY <1>1, <1>2, <1>3, Waiting
<1>5. r # q
  BY <1>1, <1>2, <1>3, Waiting
<1>6. Needs(transaction[q].op, Hand(q), k)
  BY <1>3, Holding
<1>7. PICK d \in InFlight : /\ Subject[d] = Asked(r).row[2]
                           /\ Lock(<<"instance", d>>, Update) \in Hand(r)
  BY <1>1 DEF Needs
<1>8. transaction[q].op # "allocate"
  <2> SUFFICES ASSUME transaction[q].op = "allocate"
               PROVE  FALSE
    OBVIOUS
  <2>1. PICK t \in Types : Hand(q) = {Lock(<<"bucket", t>>, NoKeyUpdate)}
    BY <1>3, GoingOn
  <2>2. k.row = <<"bucket", t>>
    BY <2>1 DEF Lock
  <2> QED
    BY <1>4, <2>2
<1>9. transaction[q].op \in {"submit", "decide"}
  <2>1. CASE Excused(transaction[q].op, Hand(q), Asked(q))
    BY <1>8, <2>1, Excuses
  <2>2. CASE ~Excused(transaction[q].op, Hand(q), Asked(q))
    <3>1. Grade(Asked(r).row) < Grade(Asked(q).row)
      BY <1>2, <2>2, Rising
    <3>2. Grade(Asked(r).row) = 5
      BY DEF Grade
    <3>3. Grade(Asked(q).row) \in 1..7
      BY GradesAsked
    <3>4. Grade(Asked(q).row) \in 6..7
      BY <3>1, <3>2, <3>3
    <3>5. Asked(q).row \in {<<"counter", "WFI">>, <<"counter", "TASK">>}
      BY <3>4 DEF Grade
    <3> QED
      BY <1>3, <3>5 DEF Needs
  <2> QED
    BY <2>1, <2>2
<1>10. CASE transaction[q].op = "submit"
  BY <1>3, <1>4, <1>7, <1>10, GoingOn
<1>11. CASE transaction[q].op = "decide"
  <2>1. PICK e \in InFlight : Subject[e] = k.row[2] /\ Lock(<<"instance", e>>, Update) \in Hand(q)
    BY <1>4, <1>6, <1>11 DEF Needs
  <2>2. d = e
    BY <1>4, <1>7, <2>1 DEF LocksConstantsOK
  <2> DEFINE instance == Lock(<<"instance", d>>, Update)
  <2>3. instance \in Hand(r) /\ instance \in Hand(q) /\ instance.mode = 4
    BY <1>7, <2>1, <2>2 DEF Lock, Update
  <2> HIDE DEF instance
  <2>4. instance.mode + instance.mode < 5
    BY <1>1, <1>3, <1>5, <2>3, Apart
  <2> QED
    BY <2>3, <2>4
<1> QED
  BY <1>9, <1>10, <1>11

\* An allocation of its own holds its bucket alone, which only a change of the
\* type's rule may wait for, and that holds the type in the mode that is asked.
LEMMA NobodyWaitsForAllocation ==
  ASSUME IInv, NEW T, Tangle(T), NEW r \in T, NEW q \in T, WaitsFor(r, q),
         transaction[q].op = "allocate"
  PROVE  FALSE
<1>1. r \in Transactions /\ Asks(r) /\ Hand(r) # {} /\ Needs(transaction[r].op, Hand(r), Asked(r))
  BY InTangle
<1>2. q \in Transactions /\ Asks(q) /\ Hand(q) # {}
  BY InTangle
<1>3. PICK t \in Types \ Gapless :
         Hand(q) = {Lock(<<"bucket", t>>, NoKeyUpdate)} /\ Asked(q) = Type(t, KeyShare)
  BY <1>2, GoingOn
<1>4. Asked(r).row = <<"bucket", t>>
  <2>1. PICK k \in Hand(q) : k.row = Asked(r).row
    BY <1>1, <1>2, Waiting
  <2> QED
    BY <1>3, <2>1 DEF Lock
<1>5. transaction[r].op # "allocate"
  <2> SUFFICES ASSUME transaction[r].op = "allocate"
               PROVE  FALSE
    OBVIOUS
  <2>1. \E u \in Types : Asked(r) = Type(u, KeyShare)
    BY <1>1, GoingOn
  <2> QED
    BY <1>4, <2>1 DEF Type, Lock
<1>6. transaction[r].op = "set_rule" /\ Lock(<<"type", t>>, KeyShare) \in Hand(r)
  BY <1>1, <1>3, <1>4, <1>5 DEF Needs
<1>7. PICK p \in T : WaitsFor(q, p)
  BY InTangle
<1>8. p \in Transactions
  BY InTangle
<1>9. Asked(q).row = <<"type", t>> /\ Asked(q).mode = 1
  BY <1>3 DEF Type, Lock, KeyShare
<1>10. PICK k \in Hand(p) : k.row = <<"type", t>> /\ k.mode \in 1..4 /\ k.mode + 1 >= 5
  BY <1>2, <1>7, <1>8, <1>9, Waiting
<1>11. CASE p = r
  <2>1. Needs(transaction[r].op, Hand(r), k)
    BY <1>8, <1>10, <1>11, Holding
  <2>2. k.mode = 1
    BY <1>6, <1>10, <2>1 DEF Needs, KeyShare
  <2> QED
    BY <1>10, <2>2
<1>12. CASE p # r
  <2>1. Lock(<<"type", t>>, KeyShare).row = k.row /\ Lock(<<"type", t>>, KeyShare).mode = 1
    BY <1>10 DEF Lock, KeyShare
  <2>2. Lock(<<"type", t>>, KeyShare).mode + k.mode < 5
    BY <1>1, <1>6, <1>8, <1>10, <1>12, <2>1, Apart
  <2> QED
    BY <1>10, <2>1, <2>2
<1> QED
  BY <1>11, <1>12

LEMMA NoTangle ==
  ASSUME LocksConstantsOK, IInv
  PROVE  \A T : ~Tangle(T)
<1> SUFFICES ASSUME NEW T, Tangle(T)
             PROVE  FALSE
  OBVIOUS
<1>1. ASSUME NEW r \in T
      PROVE  Grade(Asked(r).row) \in 1..7
  BY GradesAsked
<1>2. ASSUME NEW r \in T
      PROVE  \E q \in T : Grade(Asked(r).row) < Grade(Asked(q).row)
  <2>1. PICK q \in T : WaitsFor(r, q)
    BY InTangle
  <2>2. ~Excused(transaction[q].op, Hand(q), Asked(q))
    BY <2>1, Excuses, NoDecisionsParty, NobodyWaitsForAllocation
  <2> QED
    BY <2>1, <2>2, Rising
<1> DEFINE grade == [r \in T |-> Grade(Asked(r).row)]
<1>3. \A r \in T : grade[r] \in 1..7 /\ \E q \in T : grade[r] < grade[q]
  BY <1>1, <1>2
<1> HIDE DEF grade
<1>4. \A r \in T : grade[r] \in 1..6
  BY <1>3
<1>5. \A r \in T : grade[r] \in 1..5
  BY <1>3, <1>4
<1>6. \A r \in T : grade[r] \in 1..4
  BY <1>3, <1>5
<1>7. \A r \in T : grade[r] \in 1..3
  BY <1>3, <1>6
<1>8. \A r \in T : grade[r] \in 1..2
  BY <1>3, <1>7
<1>9. \A r \in T : grade[r] \in 1..1
  BY <1>3, <1>8
<1>10. \A r \in T : FALSE
  BY <1>3, <1>9
<1> QED
  BY <1>10 DEF Tangle

\* Requests that wait for one another in a circle, of any number, do so through
\* one of the five waits WaitsAgainstTheOrder names (submissions, edits, role
\* assignments and party updates): the paths of modules/document, workflow and
\* master_data have no other circle.
THEOREM KnownCircles ==
  ASSUME LocksConstantsOK
  PROVE  LocksSpec => []EveryCircleIsKnown
<1>1. IInv => EveryCircleIsKnown
  BY CircleHasTangle, NoTangle DEF EveryCircleIsKnown
<1> QED
  BY <1>1, LockOrderInvariance, PTL
=============================================================================
