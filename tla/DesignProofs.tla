---------------------------- MODULE DesignProofs -----------------------------
(***************************************************************************)
(* Proofs about what is designed, for every design: forms, of any fields,  *)
(* and workflow definitions, of any states and edges.  Both are algorithms *)
(* over a design, and are argued by induction over their steps (Climbs):   *)
(*                                                                         *)
(*   forms         the order of evaluation is an order, so a field that is *)
(*                 computed reads only what is final when it is computed;  *)
(*   definitions   with fewer automatic states than steps no chain is cut  *)
(*                 short, so what settles beyond an edge settles before it *)
(*                 too, and the way to an end that every state has is one  *)
(*                 that people can take.                                   *)
(***************************************************************************)
EXTENDS Forms, Definitions, FiniteSetTheorems, SequenceTheorems, WellFoundedInduction, TLAPS

(***************************************************************************)
(* Numbers                                                                 *)
(***************************************************************************)

LEMMA LeastExists ==
  ASSUME NEW S, S \subseteq Nat, S # {}
  PROVE  \E m \in S : \A n \in S : m <= n
<1> DEFINE R == {ss \in Nat \X Nat : ss[1] < ss[2]}
<1>1. IsWellFoundedOn(R, Nat)
  BY NatLessThanWellFounded DEF OpToRel
<1>2. PICK m \in S : \A n \in S : <<n, m>> \notin R
  BY <1>1, WFMin
<1>3. \A n \in S : m <= n
  <2> TAKE n \in S
  <2>1. m \in Nat /\ n \in Nat /\ <<n, m>> \in Nat \X Nat
    OBVIOUS
  <2>2. ~ (n < m)
    BY <1>2, <2>1
  <2> QED
    BY <2>1, <2>2
<1> QED
  BY <1>3

\* A set of numbers that has 0, and with each number below N the next, has all
\* of them up to N: induction, as the provers can use it.
LEMMA Climbs ==
  ASSUME NEW N \in Nat, NEW S, 0 \in S, \A n \in 0..N : n \in S /\ n < N => n + 1 \in S
  PROVE  \A n \in 0..N : n \in S
<1> DEFINE rest == (0..N) \ S
<1> SUFFICES ASSUME rest # {} PROVE FALSE
  OBVIOUS
<1>0. rest \subseteq Nat
  OBVIOUS
<1>1. PICK m \in rest : \A n \in rest : m <= n
  BY <1>0, LeastExists
<1>2. m \in 1..N
  OBVIOUS
<1>3. m - 1 \in 0..N /\ m - 1 < N /\ m - 1 \notin rest
  BY <1>1, <1>2
<1>4. m \in S
  BY <1>2, <1>3
<1> QED
  BY <1>4

-----------------------------------------------------------------------------
(***************************************************************************)
(* The order of evaluation                                                 *)
(***************************************************************************)

Ready(d, before) == {f \in Fields \ ToSet(before) : DependsOn(d, f) \subseteq ToSet(before)}
PlacedAt(d, placed, n) ==
    IF n = 0 THEN <<>>
    ELSE LET before == placed[n - 1]
         IN  IF Ready(d, before) = {} THEN before ELSE Append(before, Min(Ready(d, before)))
Placed(d) == CHOOSE placed : placed = [n \in 0..Cardinality(Fields) |-> PlacedAt(d, placed, n)]

LEMMA OrderIsPlaced ==
  ASSUME NEW d
  PROVE  Order(d) = Placed(d)[Cardinality(Fields)]
BY DEF Order, Placed, PlacedAt, Ready

\* Each field once, and after what it depends on.
InOrder(d, s) ==
    /\ s \in Seq(Fields)
    /\ \A i, j \in 1..Len(s) : s[i] = s[j] => i = j
    /\ \A i \in 1..Len(s) : \A f \in DependsOn(d, s[i]) : \E j \in 1..(i - 1) : s[j] = f

LEMMA PlacedDef ==
  ASSUME FormsConstantsOK, NEW d
  PROVE  Placed(d) = [n \in 0..Cardinality(Fields) |-> PlacedAt(d, Placed(d), n)]
<1> DEFINE N == Cardinality(Fields)
           G(before) == IF Ready(d, before) = {} THEN before
                        ELSE Append(before, Min(Ready(d, before)))
           Is(g, m) == g = [n \in 0..m |-> IF n = 0 THEN <<>> ELSE G(g[n - 1])]
           S == {m \in Nat : \E g : Is(g, m)}
<1>1. N \in Nat
  BY FS_CardinalityType DEF FormsConstantsOK
<1> HIDE DEF N, G
<1>2. 0 \in S
  <2>1. Is([n \in 0..0 |-> <<>>], 0)
    OBVIOUS
  <2> QED
    BY <2>1
<1>3. ASSUME NEW m \in 0..N, m \in S
      PROVE  m + 1 \in S
  <2>1. PICK g : Is(g, m)
    BY <1>3
  <2> DEFINE h == [n \in 0..(m + 1) |-> IF n = m + 1 THEN G(g[m]) ELSE g[n]]
  <2>2. \A n \in 1..(m + 1) : h[n - 1] = g[n - 1]
    BY <1>3, <1>1
  <2>3. \A n \in 0..(m + 1) : h[n] = IF n = 0 THEN <<>> ELSE G(h[n - 1])
    BY <1>3, <1>1, <2>1, <2>2
  <2>4. Is(h, m + 1)
    BY <2>3
  <2>5. m + 1 \in Nat
    BY <1>1
  <2> QED
    BY <2>4, <2>5
<1>4. N \in S
  <2> HIDE DEF S
  <2>1. \A m \in 0..N : m \in S /\ m < N => m + 1 \in S
    BY <1>3
  <2>2. \A m \in 0..N : m \in S
    BY <1>1, <1>2, <2>1, Climbs
  <2> QED
    BY <1>1, <2>2
<1>5. \E g : Is(g, N)
  BY <1>4
<1>6. \A g : Is(g, N) <=> g = [n \in 0..N |-> PlacedAt(d, g, n)]
  BY DEF PlacedAt, G
<1> QED
  BY <1>5, <1>6 DEF Placed, N

LEMMA MinIsOf ==
  ASSUME NEW S, S \subseteq Nat, S # {}
  PROVE  Min(S) \in S
BY LeastExists DEF Min

LEMMA PlacedInOrder ==
  ASSUME FormsConstantsOK, NEW d \in Definitions
  PROVE  InOrder(d, Order(d))
<1> DEFINE N == Cardinality(Fields)
           S == {n \in 0..N : InOrder(d, Placed(d)[n])}
<1>1. N \in Nat
  BY FS_CardinalityType DEF FormsConstantsOK
<1>2. \A n \in 0..N : Placed(d)[n] = PlacedAt(d, Placed(d), n)
  BY PlacedDef
<1> HIDE DEF N
<1>3. 0 \in S
  <2>1. Placed(d)[0] = <<>>
    BY <1>1, <1>2 DEF PlacedAt
  <2>2. /\ <<>> \in Seq(Fields) /\ Len(<<>>) = 0
        /\ \A i \in 1..0 : FALSE
    OBVIOUS
  <2>3. InOrder(d, <<>>)
    BY <2>2 DEF InOrder
  <2> QED
    BY <1>1, <2>1, <2>3
<1>4. ASSUME NEW n \in 0..N, n \in S, n < N
      PROVE  n + 1 \in S
  <2> DEFINE before == Placed(d)[n]
             f == Min(Ready(d, before))
             after == Append(before, f)
  <2>1. n + 1 \in 0..N /\ n + 1 # 0 /\ (n + 1) - 1 = n
    BY <1>1, <1>4
  <2>2. Placed(d)[n + 1] = IF Ready(d, before) = {} THEN before ELSE after
    BY <1>2, <2>1 DEF PlacedAt
  <2>3. InOrder(d, before)
    BY <1>4
  <2>4. CASE Ready(d, before) = {}
    BY <2>1, <2>2, <2>3, <2>4
  <2>5. CASE Ready(d, before) # {}
    <3>1. Ready(d, before) \subseteq Nat
      BY DEF Ready, FormsConstantsOK
    <3>2. f \in Ready(d, before)
      BY <3>1, <2>5, MinIsOf
    <3> HIDE DEF f
    <3> HIDE DEF before
    <3>3. before \in Seq(Fields) /\ Len(before) \in Nat
      BY <2>3 DEF InOrder
    <3>4. ToSet(before) = {before[i] : i \in 1..Len(before)}
      BY <3>3 DEF ToSet
    <3>5. f \in Fields /\ \A i \in 1..Len(before) : before[i] # f
      BY <3>2, <3>4 DEF Ready
    <3>6. \A g \in DependsOn(d, f) : \E j \in 1..Len(before) : before[j] = g
      BY <3>2, <3>4 DEF Ready
    <3>7. /\ after \in Seq(Fields) /\ Len(after) = Len(before) + 1
          /\ \A i \in 1..Len(before) : after[i] = before[i]
          /\ after[Len(before) + 1] = f
      BY <3>3, <3>5
    <3> HIDE DEF after
    <3>8. \A i, j \in 1..Len(after) : after[i] = after[j] => i = j
      BY <2>3, <3>3, <3>5, <3>7 DEF InOrder
    <3>9. ASSUME NEW i \in 1..Len(after), NEW g \in DependsOn(d, after[i])
          PROVE  \E j \in 1..(i - 1) : after[j] = g
      <4>1. CASE i = Len(before) + 1
        <5>1. PICK j \in 1..Len(before) : before[j] = g
          BY <3>6, <3>7, <4>1
        <5> QED
          BY <5>1, <4>1, <3>3, <3>7
      <4>2. CASE i # Len(before) + 1
        <5>1. i \in 1..Len(before)
          BY <4>2, <3>3, <3>7
        <5>2. PICK j \in 1..(i - 1) : before[j] = g
          BY <2>3, <3>7, <5>1 DEF InOrder
        <5> QED
          BY <5>1, <5>2, <3>3, <3>7
      <4> QED
        BY <4>1, <4>2
    <3>10. InOrder(d, after)
      BY <3>7, <3>8, <3>9 DEF InOrder
    <3> QED
      BY <2>1, <2>2, <2>5, <3>10 DEF before
  <2> QED
    BY <2>4, <2>5
<1>5. N \in S
  <2> HIDE DEF S
  <2>1. \A n \in 0..N : n \in S /\ n < N => n + 1 \in S
    BY <1>4
  <2>2. \A n \in 0..N : n \in S
    BY <1>1, <1>3, <2>1, Climbs
  <2> QED
    BY <1>1, <2>2
<1> QED
  BY <1>5, OrderIsPlaced DEF N

\* Without a loop every field has its place.
LEMMA EveryFieldPlaced ==
  ASSUME FormsConstantsOK, NEW d \in Definitions, ~HasCycle(d)
  PROVE  \A f \in Fields : \E i \in 1..Len(Order(d)) : Order(d)[i] = f
<1> DEFINE s == Order(d)
           P == 1..Len(s)
<1>1. InOrder(d, s)
  BY PlacedInOrder
<1>2. /\ s \in Seq(Fields) /\ Len(s) \in Nat /\ s \in [P -> Fields]
  BY <1>1 DEF InOrder
<1>3. s \in Injection(P, Fields)
  BY <1>1, <1>2 DEF InOrder, Injection, IsInjective
<1>4. IsFiniteSet(Fields) /\ Cardinality(Fields) \in Nat
  BY FS_CardinalityType DEF FormsConstantsOK
<1>5. IsFiniteSet(P) /\ Cardinality(P) = Len(s)
  BY <1>2, FS_Interval
<1>6. Cardinality(P) <= Cardinality(Fields)
  BY <1>3, <1>4, FS_Injection
<1>7. Cardinality(P) = Cardinality(Fields)
  BY <1>2, <1>4, <1>5, <1>6 DEF HasCycle
<1>8. s \in Surjection(P, Fields)
  BY <1>3, <1>4, <1>7, FS_Injection
<1> QED
  BY <1>8 DEF Surjection

-----------------------------------------------------------------------------
(***************************************************************************)
(* The walk                                                                *)
(***************************************************************************)

Passes == [payload : [Fields -> Values], failed : BOOLEAN]
AfterAt(d, p, after, n) ==
    IF n = 0 THEN [payload |-> p, failed |-> FALSE]
    ELSE CalculateField(d, Order(d)[n], after[n - 1])
After(d, p) == CHOOSE after : after = [n \in 0..Len(Order(d)) |-> AfterAt(d, p, after, n)]

LEMMA CalculateIsAfter ==
  ASSUME NEW d, NEW p
  PROVE  Calculate(d, p) = After(d, p)[Len(Order(d))]
BY DEF Calculate, After, AfterAt

LEMMA AfterDef ==
  ASSUME FormsConstantsOK, NEW d \in Definitions, NEW p
  PROVE  After(d, p) = [n \in 0..Len(Order(d)) |-> AfterAt(d, p, After(d, p), n)]
<1> DEFINE N == Len(Order(d))
           first == [payload |-> p, failed |-> FALSE]
           G(n, pass) == CalculateField(d, Order(d)[n], pass)
           Is(g, m) == g = [n \in 0..m |-> IF n = 0 THEN first ELSE G(n, g[n - 1])]
           S == {m \in Nat : \E g : Is(g, m)}
<1>1. N \in Nat
  BY PlacedInOrder DEF InOrder
<1> HIDE DEF N, G, first
<1>2. 0 \in S
  <2>1. Is([n \in 0..0 |-> first], 0)
    OBVIOUS
  <2> QED
    BY <2>1
<1>3. ASSUME NEW m \in 0..N, m \in S
      PROVE  m + 1 \in S
  <2>1. PICK g : Is(g, m)
    BY <1>3
  <2> DEFINE h == [n \in 0..(m + 1) |-> IF n = m + 1 THEN G(m + 1, g[m]) ELSE g[n]]
  <2>2. \A n \in 1..(m + 1) : h[n - 1] = g[n - 1]
    BY <1>3, <1>1
  <2>3. \A n \in 0..(m + 1) : h[n] = IF n = 0 THEN first ELSE G(n, h[n - 1])
    BY <1>3, <1>1, <2>1, <2>2
  <2>4. Is(h, m + 1)
    BY <2>3
  <2>5. m + 1 \in Nat
    BY <1>1
  <2> QED
    BY <2>4, <2>5
<1>4. N \in S
  <2> HIDE DEF S
  <2>1. \A m \in 0..N : m \in S /\ m < N => m + 1 \in S
    BY <1>3
  <2>2. \A m \in 0..N : m \in S
    BY <1>1, <1>2, <2>1, Climbs
  <2> QED
    BY <1>1, <2>2
<1>5. \E g : Is(g, N)
  BY <1>4
<1>6. \A g : Is(g, N) <=> g = [n \in 0..N |-> AfterAt(d, p, g, n)]
  BY DEF AfterAt, G, first
<1> QED
  BY <1>5, <1>6 DEF After, N

LEMMA EvaluateType ==
  ASSUME NEW e, NEW p
  PROVE  Evaluate(e, p) \in {"yes", "no", "fails"}
BY DEF Evaluate

LEMMA EvaluateReads ==
  ASSUME NEW e, NEW p, NEW q, \A k \in e.reads : p[k] = q[k]
  PROVE  Evaluate(e, p) = Evaluate(e, q)
BY DEF Evaluate

\* What a field's expression comes to in a payload.
Result(d, f, p) ==
    IF Evaluate(d.calculate[f], p) = "fails" THEN "null" ELSE Evaluate(d.calculate[f], p)

\* The field of the walk has the result of its expression; no other is touched.
LEMMA FieldOfTheWalk ==
  ASSUME NEW d, NEW f \in Fields, NEW pass \in Passes
  PROVE  /\ CalculateField(d, f, pass) \in Passes
         /\ \A g \in Fields \ {f} : CalculateField(d, f, pass).payload[g] = pass.payload[g]
         /\ CalculateField(d, f, pass).payload[f] =
              IF Computed(d, f, pass.payload)
                THEN Result(d, f, pass.payload) ELSE pass.payload[f]
         /\ CalculateField(d, f, pass).failed =
              (pass.failed \/ (Computed(d, f, pass.payload)
                                 /\ Evaluate(d.calculate[f], pass.payload) = "fails"))
<1>1. Result(d, f, pass.payload) \in Values
  BY EvaluateType DEF Result, Values
<1> DEFINE result == Evaluate(d.calculate[f], pass.payload)
           to == IF result = "fails" THEN "null" ELSE result
<1>2. to = Result(d, f, pass.payload)
  BY DEF Result
<1>3. CASE ~Computed(d, f, pass.payload)
  <2>1. CalculateField(d, f, pass) = pass
    BY <1>3 DEF CalculateField
  <2> QED
    BY <2>1, <1>3 DEF Passes
<1>4. CASE Computed(d, f, pass.payload)
  <2>1. CalculateField(d, f, pass) =
          [payload |-> [pass.payload EXCEPT ![f] = to],
           failed |-> pass.failed \/ result = "fails"]
    BY <1>4 DEF CalculateField
  <2>2. pass.payload \in [Fields -> Values] /\ pass.failed \in BOOLEAN
    BY DEF Passes
  <2> HIDE DEF to, result
  <2>3. [pass.payload EXCEPT ![f] = to] \in [Fields -> Values]
    BY <1>1, <1>2, <2>2
  <2>4. CalculateField(d, f, pass) \in Passes
    BY <2>1, <2>2, <2>3 DEF Passes
  <2> QED
    BY <1>2, <1>4, <2>1, <2>2, <2>4 DEF result
<1> QED
  BY <1>3, <1>4

\* The same, of one other field.
LEMMA OthersStay ==
  ASSUME NEW d, NEW f \in Fields, NEW pass \in Passes, NEW g \in Fields, g # f
  PROVE  CalculateField(d, f, pass).payload[g] = pass.payload[g]
BY DEF CalculateField, Passes

LEMMA AfterStep ==
  ASSUME FormsConstantsOK, NEW d \in Definitions, NEW p \in [Fields -> Values]
  PROVE  /\ After(d, p)[0] = [payload |-> p, failed |-> FALSE]
         /\ \A n \in 0..Len(Order(d)) : After(d, p)[n] \in Passes
         /\ \A n \in 1..Len(Order(d)) :
               After(d, p)[n] = CalculateField(d, Order(d)[n], After(d, p)[n - 1])
<1> DEFINE N == Len(Order(d))
           S == {n \in 0..N : After(d, p)[n] \in Passes}
<1>1. N \in Nat /\ \A n \in 1..N : Order(d)[n] \in Fields
  BY PlacedInOrder DEF InOrder
<1>2. \A n \in 0..N : After(d, p)[n] = AfterAt(d, p, After(d, p), n)
  BY AfterDef
<1> HIDE DEF N
<1>3. After(d, p)[0] = [payload |-> p, failed |-> FALSE]
  <2>1. 0 \in 0..N
    BY <1>1
  <2>2. After(d, p)[0] = AfterAt(d, p, After(d, p), 0)
    BY <1>2, <2>1
  <2> QED
    BY <2>2 DEF AfterAt
<1>4. \A n \in 1..N : After(d, p)[n] = CalculateField(d, Order(d)[n], After(d, p)[n - 1])
  BY <1>1, <1>2 DEF AfterAt
<1>5. 0 \in S
  <2>1. 0 \in 0..N
    BY <1>1
  <2>2. [payload |-> p, failed |-> FALSE] \in Passes
    BY DEF Passes
  <2> QED
    BY <1>3, <2>1, <2>2
<1>6. ASSUME NEW n \in 0..N, n \in S, n < N
      PROVE  n + 1 \in S
  <2>1. n + 1 \in 1..N /\ n + 1 \in 0..N /\ (n + 1) - 1 = n
    BY <1>1, <1>6
  <2>2. After(d, p)[n + 1] = CalculateField(d, Order(d)[n + 1], After(d, p)[n])
    BY <1>4, <2>1
  <2>3. Order(d)[n + 1] \in Fields
    BY <1>1, <2>1
  <2>4. After(d, p)[n] \in Passes
    BY <1>6
  <2> HIDE DEF S
  <2>5. \A f \in Fields, pass \in Passes : CalculateField(d, f, pass) \in Passes
    BY FieldOfTheWalk
  <2>6. After(d, p)[n + 1] \in Passes
    BY <2>2, <2>3, <2>4, <2>5
  <2> QED
    BY <2>1, <2>6 DEF S
<1>7. \A n \in 0..N : n \in S
  <2> HIDE DEF S
  <2>1. \A n \in 0..N : n \in S /\ n < N => n + 1 \in S
    BY <1>6
  <2> QED
    BY <1>1, <1>5, <2>1, Climbs
<1> QED
  BY <1>3, <1>4, <1>7 DEF N

LEMMA CalculateType ==
  ASSUME FormsConstantsOK, NEW d \in Definitions, NEW p \in [Fields -> Values]
  PROVE  Calculate(d, p) \in Passes
<1>1. InOrder(d, Order(d))
  BY PlacedInOrder
<1>2. Len(Order(d)) \in 0..Len(Order(d))
  BY <1>1 DEF InOrder
<1>3. After(d, p)[Len(Order(d))] \in Passes
  BY <1>2, AfterStep
<1> QED
  BY <1>3, CalculateIsAfter

-----------------------------------------------------------------------------
(***************************************************************************)
(* A client computes nothing                                               *)
(***************************************************************************)

Bare(d, p) == [f \in Fields |-> IF d.mode[f] = "derived" THEN "null" ELSE p[f]]

\* The two walks agree on what they have been to, and on all but the derived.
LEMMA SameAnswer ==
  ASSUME FormsConstantsOK, NEW d \in Definitions, ~HasCycle(d), NEW p \in [Fields -> Values]
  PROVE  Calculate(d, p) = Calculate(d, Bare(d, p))
<1> DEFINE s == Order(d)
           N == Len(s)
           b == Bare(d, p)
           A(n) == After(d, p)[n]
           B(n) == After(d, b)[n]
           Been(f, n) == d.mode[f] # "derived" \/ \E i \in 1..n : s[i] = f
           Same(n) == /\ \A f \in Fields : Been(f, n) => A(n).payload[f] = B(n).payload[f]
                      /\ A(n).failed = B(n).failed
           S == {n \in 0..N : Same(n)}
<1>0. InOrder(d, s)
  BY PlacedInOrder
<1>1. N \in Nat /\ \A n \in 1..N : s[n] \in Fields
  BY <1>0 DEF InOrder
<1>2. b \in [Fields -> Values]
  BY DEF Bare, Values
<1>3. /\ A(0) = [payload |-> p, failed |-> FALSE] /\ B(0) = [payload |-> b, failed |-> FALSE]
      /\ \A n \in 0..N : A(n) \in Passes /\ B(n) \in Passes
      /\ \A n \in 1..N : /\ A(n) = CalculateField(d, s[n], A(n - 1))
                         /\ B(n) = CalculateField(d, s[n], B(n - 1))
  BY <1>2, AfterStep
<1>4. 0 \in S
  <2>1. \A f \in Fields : Been(f, 0) => p[f] = b[f]
    BY DEF Bare
  <2>2. 0 \in 0..N
    BY <1>1
  <2>3. Same(0)
    BY <1>3, <2>1
  <2> QED
    BY <2>2, <2>3
<1> HIDE DEF A, B, b
<1>5. ASSUME NEW n \in 0..N, n \in S, n < N
      PROVE  n + 1 \in S
  <2> DEFINE f == s[n + 1]
  <2>1. n + 1 \in 1..N /\ n + 1 \in 0..N /\ (n + 1) - 1 = n /\ f \in Fields
    BY <1>1, <1>5
  <2>2. /\ A(n) \in Passes /\ B(n) \in Passes
        /\ A(n + 1) = CalculateField(d, f, A(n)) /\ B(n + 1) = CalculateField(d, f, B(n))
    BY <1>3, <2>1
  <2>3. \A g \in DependsOn(d, f) : \E i \in 1..n : s[i] = g
    BY <1>0, <2>1 DEF InOrder
  <2>4. \A g \in d.calculate[f].reads : A(n).payload[g] = B(n).payload[g]
    <3>1. d.calculate[f].reads \subseteq Fields
      BY <2>1 DEF Definitions, Expressions
    <3> QED
      BY <1>5, <2>3, <3>1 DEF DependsOn
  <2>5. Evaluate(d.calculate[f], A(n).payload) = Evaluate(d.calculate[f], B(n).payload)
    BY <2>4, EvaluateReads
  <2>6. Computed(d, f, A(n).payload) = Computed(d, f, B(n).payload)
    <3>1. d.mode[f] # "derived" => A(n).payload[f] = B(n).payload[f]
      BY <1>5, <2>1
    <3> QED
      BY <3>1 DEF Computed
  <2> HIDE DEF f
  <2>7. /\ \A g \in Fields \ {f} : A(n + 1).payload[g] = A(n).payload[g]
        /\ A(n + 1).payload[f] = IF Computed(d, f, A(n).payload)
                                   THEN Result(d, f, A(n).payload) ELSE A(n).payload[f]
        /\ A(n + 1).failed = (A(n).failed \/ (Computed(d, f, A(n).payload)
                                /\ Evaluate(d.calculate[f], A(n).payload) = "fails"))
    BY <2>1, <2>2, FieldOfTheWalk
  <2>8. /\ \A g \in Fields \ {f} : B(n + 1).payload[g] = B(n).payload[g]
        /\ B(n + 1).payload[f] = IF Computed(d, f, B(n).payload)
                                   THEN Result(d, f, B(n).payload) ELSE B(n).payload[f]
        /\ B(n + 1).failed = (B(n).failed \/ (Computed(d, f, B(n).payload)
                                /\ Evaluate(d.calculate[f], B(n).payload) = "fails"))
    BY <2>1, <2>2, FieldOfTheWalk
  <2>9. A(n + 1).payload[f] = B(n + 1).payload[f]
    <3>1. ~Computed(d, f, A(n).payload) => A(n).payload[f] = B(n).payload[f]
      BY <1>5, <2>1 DEF Computed
    <3> QED
      BY <2>5, <2>6, <2>7, <2>8, <3>1 DEF Result
  <2>10. A(n + 1).failed = B(n + 1).failed
    BY <1>5, <2>5, <2>6, <2>7, <2>8
  <2>11. ASSUME NEW g \in Fields, g # f, Been(g, n + 1)
         PROVE  A(n + 1).payload[g] = B(n + 1).payload[g]
    <3>1. Been(g, n)
      BY <2>1, <2>11 DEF f
    <3> QED
      BY <1>5, <2>7, <2>8, <2>11, <3>1
  <2> QED
    BY <2>1, <2>9, <2>10, <2>11
<1>6. N \in S
  <2> HIDE DEF S
  <2>1. \A n \in 0..N : n \in S /\ n < N => n + 1 \in S
    BY <1>5
  <2>2. \A n \in 0..N : n \in S
    BY <1>1, <1>4, <2>1, Climbs
  <2> QED
    BY <1>1, <2>2
<1>7. \A f \in Fields : A(N).payload[f] = B(N).payload[f]
  BY <1>6, EveryFieldPlaced
<1>8. A(N) = B(N)
  BY <1>1, <1>3, <1>6, <1>7 DEF Passes
<1> QED
  BY <1>8, CalculateIsAfter DEF A, B, b

LEMMA SecureOfTheBare ==
  ASSUME FormsConstantsOK, NEW d \in Definitions, NEW p \in [Fields -> Values],
         NEW strictness \in {"Draft", "Submit"}
  PROVE  LET answer == Secure(d, strictness, p)
             same == Secure(d, strictness, Bare(d, p))
         IN  answer.accepted = same.accepted /\ (answer.accepted => answer.payload = same.payload)
<1>1. CASE HasCycle(d)
  <2>1. \A q : ~Secure(d, strictness, q).accepted /\ Secure(d, strictness, q).accepted \in BOOLEAN
    BY <1>1 DEF Secure, Answer, Forgives
  <2> QED
    BY <2>1
<1>2. CASE ~HasCycle(d)
  <2>1. Calculate(d, p) = Calculate(d, Bare(d, p))
    BY <1>2, SameAnswer
  <2>2. Secure(d, strictness, p) = Secure(d, strictness, Bare(d, p))
    BY <2>1 DEF Secure
  <2> QED
    BY <2>2
<1> QED
  BY <1>1, <1>2

\* What may be stored.
Kept(d, p) ==
    LET pass == Calculate(d, p)
        visible == Visible(d, pass.payload)
    IN  [f \in Fields |-> IF f \in visible THEN pass.payload[f] ELSE "null"]
LEMMA SecureKeeps ==
  ASSUME FormsConstantsOK, NEW d \in Definitions, NEW p \in [Fields -> Values], NEW strictness
  PROVE  /\ Secure(d, strictness, p).payload = Kept(d, p)
         /\ Kept(d, p) \in [Fields -> Values]
         /\ Secure(d, strictness, p).accepted => ~HasCycle(d)
<1>1. Secure(d, strictness, p).payload = Kept(d, p)
  BY DEF Secure, Answer, Kept
<1>2. Calculate(d, p).payload \in [Fields -> Values]
  BY CalculateType DEF Passes
<1>3. Kept(d, p) \in [Fields -> Values]
  BY <1>2 DEF Kept, Values
<1>4. Secure(d, strictness, p).accepted => ~HasCycle(d)
  BY DEF Secure, Answer, Forgives
<1> QED
  BY <1>1, <1>3, <1>4

LEMMA PayloadsAreValues ==
  ASSUME FormsConstantsOK
  PROVE  /\ \A p \in Payloads : p \in [Fields -> Values]
         /\ NoValues \in Payloads /\ NoValues \in [Fields -> Values]
         /\ Forms \subseteq Definitions
BY DEF FormsConstantsOK, Payloads, NoValues, Values

-----------------------------------------------------------------------------
(***************************************************************************)
(* What is kept once is kept again                                         *)
(***************************************************************************)

\* A field has its value from its own place in the order on.
LEMMA ValueStays ==
  ASSUME FormsConstantsOK, NEW d \in Definitions, NEW p \in [Fields -> Values],
         NEW i \in 1..Len(Order(d))
  PROVE  \A n \in i..Len(Order(d)) :
            After(d, p)[n].payload[Order(d)[i]] = After(d, p)[i].payload[Order(d)[i]]
<1> DEFINE s == Order(d)
           N == Len(s)
           A(n) == After(d, p)[n]
           S == {n \in 0..N : n >= i => A(n).payload[s[i]] = A(i).payload[s[i]]}
<1>0. InOrder(d, s)
  BY PlacedInOrder
<1>1. N \in Nat /\ i \in 1..N /\ \A n \in 1..N : s[n] \in Fields /\ (s[n] = s[i] => n = i)
  BY <1>0 DEF InOrder
<1>2. /\ \A n \in 0..N : A(n) \in Passes
      /\ \A n \in 1..N : A(n) = CalculateField(d, s[n], A(n - 1))
  BY AfterStep
<1> HIDE DEF A, N, s
<1>3. 0 \in S
  BY <1>1
<1>4. ASSUME NEW n \in 0..N, n \in S, n < N
      PROVE  n + 1 \in S
  <2>1. n + 1 \in 1..N /\ n + 1 \in 0..N /\ (n + 1) - 1 = n
    BY <1>1, <1>4
  <2>2. CASE n + 1 > i
    <3>1. s[n + 1] # s[i] /\ s[i] \in Fields /\ s[n + 1] \in Fields
      BY <1>1, <2>1, <2>2
    <3>2. A(n) \in Passes /\ A(n + 1) = CalculateField(d, s[n + 1], A(n))
      BY <1>2, <2>1
    <3>3. A(n + 1).payload[s[i]] = A(n).payload[s[i]]
      BY <3>1, <3>2, OthersStay
    <3> QED
      BY <1>1, <1>4, <2>1, <2>2, <3>3
  <2>3. CASE ~(n + 1 > i)
    BY <1>1, <2>1, <2>3
  <2> QED
    BY <2>2, <2>3
<1>5. \A n \in 0..N : n \in S
  <2> HIDE DEF S
  <2>1. \A n \in 0..N : n \in S /\ n < N => n + 1 \in S
    BY <1>4
  <2> QED
    BY <1>1, <1>3, <2>1, Climbs
<1>6. \A n \in i..N : A(n).payload[s[i]] = A(i).payload[s[i]]
  BY <1>1, <1>5
<1> QED
  BY <1>6 DEF A, N, s

\* So what was computed is what the last payload makes of it.
LEMMA ComputedFromTheLast ==
  ASSUME FormsConstantsOK, NEW d \in Definitions, ~HasCycle(d), NEW p \in [Fields -> Values],
         NEW f \in Fields, Computed(d, f, Calculate(d, p).payload)
  PROVE  Calculate(d, p).payload[f] = Result(d, f, Calculate(d, p).payload)
<1> DEFINE s == Order(d)
           N == Len(s)
           A(n) == After(d, p)[n]
           last == Calculate(d, p).payload
<1>0. InOrder(d, s)
  BY PlacedInOrder
<1>1. N \in Nat /\ \A n \in 1..N : s[n] \in Fields
  BY <1>0 DEF InOrder
<1>2. PICK i \in 1..N : s[i] = f
  BY EveryFieldPlaced
<1>3. /\ A(i - 1) \in Passes /\ A(i) = CalculateField(d, s[i], A(i - 1))
  <2>1. i - 1 \in 0..N
    BY <1>1
  <2> QED
    BY <2>1, AfterStep
<1>4. last = A(N).payload
  BY CalculateIsAfter
<1>5. last[f] = A(i).payload[f]
  BY <1>1, <1>2, <1>4, ValueStays
<1>6. \A g \in d.calculate[f].reads : A(i - 1).payload[g] = last[g]
  <2> SUFFICES ASSUME NEW g \in d.calculate[f].reads
               PROVE  A(i - 1).payload[g] = last[g]
    OBVIOUS
  <2>1. PICK j \in 1..(i - 1) : s[j] = g
    BY <1>0, <1>2 DEF InOrder, DependsOn
  <2>2. j \in 1..N /\ i - 1 \in j..N /\ N \in j..N
    BY <1>1, <2>1
  <2>3. \A n \in j..N : A(n).payload[s[j]] = A(j).payload[s[j]]
    BY <2>2, ValueStays
  <2> HIDE DEF A, last
  <2>4. A(i - 1).payload[s[j]] = A(N).payload[s[j]]
    BY <2>2, <2>3
  <2> QED
    BY <1>4, <2>1, <2>4
<1> HIDE DEF A, last
<1>7. Evaluate(d.calculate[f], A(i - 1).payload) = Evaluate(d.calculate[f], last)
  BY <1>6, EvaluateReads
<1>8. A(i).payload[f] = IF Computed(d, f, A(i - 1).payload)
                          THEN Result(d, f, A(i - 1).payload) ELSE A(i - 1).payload[f]
  <2>1. CalculateField(d, f, A(i - 1)).payload[f] =
          IF Computed(d, f, A(i - 1).payload)
            THEN Result(d, f, A(i - 1).payload) ELSE A(i - 1).payload[f]
    BY <1>3, FieldOfTheWalk
  <2> QED
    BY <1>2, <1>3, <2>1
<1>9. Computed(d, f, A(i - 1).payload)
  <2>1. Computed(d, f, last)
    BY DEF last
  <2>2. CASE d.mode[f] = "derived"
    BY <2>2 DEF Computed
  <2>3. CASE d.mode[f] # "derived"
    <3>1. d.mode[f] = "generated" /\ last[f] = "null"
      BY <2>1, <2>3 DEF Computed
    <3>2. ~Computed(d, f, A(i - 1).payload) => A(i - 1).payload[f] = "null"
      BY <1>5, <1>8, <3>1
    <3> QED
      BY <3>1, <3>2 DEF Computed
  <2> QED
    BY <2>2, <2>3
<1>10. last[f] = Result(d, f, last)
  BY <1>5, <1>7, <1>8, <1>9 DEF Result
<1> QED
  BY <1>10 DEF last

\* What the expressions of such a form read is visible, whatever the payload.
LEMMA ReadsAreVisible ==
  ASSUME NEW d \in Definitions, ReadsWhatIsKept(d), NEW p
  PROVE  /\ \A f \in Fields : d.calculate[f].reads \subseteq Visible(d, p)
         /\ \A f \in Fields : d.conditional[f].logic.reads \subseteq Visible(d, p)
         /\ d.boxConditional.logic.reads \subseteq Visible(d, p)
<1> DEFINE hideable == {f \in Fields : \/ d.conditional[f] # Always
                                      \/ (f \in d.box /\ d.boxConditional # Always)}
<1>1. Shows(Always, p)
  BY DEF Shows, Always
<1>2. \A f \in Fields \ hideable : f \in Visible(d, p)
  BY <1>1 DEF Visible
<1>3. /\ \A f \in Fields : DependsOn(d, f) \cap hideable = {}
      /\ d.boxConditional.logic.reads \cap hideable = {}
      /\ \A f \in Fields : f \notin d.conditional[f].logic.reads
  BY DEF ReadsWhatIsKept
<1>4. /\ \A f \in Fields : d.calculate[f].reads \subseteq Fields
      /\ \A f \in Fields : d.conditional[f].logic.reads \subseteq Fields
      /\ d.boxConditional.logic.reads \subseteq Fields
  BY DEF Definitions, Expressions, Conditionals, Always, NoExpression
<1>5. \A f \in Fields : d.calculate[f].reads \cup d.conditional[f].logic.reads
                          \subseteq DependsOn(d, f)
  BY <1>3 DEF DependsOn
<1> HIDE DEF hideable
<1> QED
  BY <1>2, <1>3, <1>4, <1>5

LEMMA ShowsReads ==
  ASSUME NEW conditional, NEW p, NEW q, \A k \in conditional.logic.reads : p[k] = q[k]
  PROVE  Shows(conditional, p) = Shows(conditional, q)
BY EvaluateReads DEF Shows

LEMMA VisibleReads ==
  ASSUME NEW d, NEW p, NEW q, NEW V,
         \A k \in V : p[k] = q[k],
         \A f \in Fields : d.conditional[f].logic.reads \subseteq V,
         d.boxConditional.logic.reads \subseteq V
  PROVE  Visible(d, p) = Visible(d, q)
<1>1. Shows(d.boxConditional, p) = Shows(d.boxConditional, q)
  BY ShowsReads
<1>2. \A f \in Fields : Shows(d.conditional[f], p) = Shows(d.conditional[f], q)
  BY ShowsReads
<1> QED
  BY <1>1, <1>2 DEF Visible

\* The walk over what was kept finds in every visible field what it left there.
LEMMA WalkOverTheKept ==
  ASSUME FormsConstantsOK, NEW d \in Definitions, ~HasCycle(d), ReadsWhatIsKept(d),
         NEW p \in [Fields -> Values]
  PROVE  \A f \in Visible(d, Calculate(d, p).payload) :
            Calculate(d, Kept(d, p)).payload[f] = Calculate(d, p).payload[f]
<1> DEFINE s == Order(d)
           N == Len(s)
           last == Calculate(d, p).payload
           V == Visible(d, last)
           q == Kept(d, p)
           A(n) == After(d, q)[n]
           S == {n \in 0..N : \A f \in V : A(n).payload[f] = last[f]}
<1>0. InOrder(d, s)
  BY PlacedInOrder
<1>1. N \in Nat /\ \A n \in 1..N : s[n] \in Fields
  BY <1>0 DEF InOrder
<1>2. q \in [Fields -> Values] /\ V \subseteq Fields
  BY SecureKeeps DEF Visible
<1>3. /\ A(0) = [payload |-> q, failed |-> FALSE]
      /\ \A n \in 0..N : A(n) \in Passes
      /\ \A n \in 1..N : A(n) = CalculateField(d, s[n], A(n - 1))
  BY <1>2, AfterStep
<1>4. \A f \in V : q[f] = last[f]
  BY <1>2 DEF Kept
<1>5. \A f \in Fields : d.calculate[f].reads \subseteq V
  BY ReadsAreVisible
<1>6. \A f \in Fields : Computed(d, f, last) => last[f] = Result(d, f, last)
  BY ComputedFromTheLast
<1> HIDE DEF A, last, V, q, N, s
<1>7. 0 \in S
  <2>1. A(0).payload = q
    BY <1>3
  <2> QED
    BY <1>1, <1>4, <2>1
<1>8. ASSUME NEW n \in 0..N, n \in S, n < N
      PROVE  n + 1 \in S
  <2> DEFINE f == s[n + 1]
  <2>1. n + 1 \in 1..N /\ n + 1 \in 0..N /\ (n + 1) - 1 = n /\ f \in Fields
    BY <1>1, <1>8
  <2>2. A(n) \in Passes /\ A(n + 1) = CalculateField(d, f, A(n))
    BY <1>3, <2>1
  <2> HIDE DEF f
  <2>3. /\ \A g \in Fields \ {f} : A(n + 1).payload[g] = A(n).payload[g]
        /\ A(n + 1).payload[f] = IF Computed(d, f, A(n).payload)
                                   THEN Result(d, f, A(n).payload) ELSE A(n).payload[f]
    BY <2>1, <2>2, FieldOfTheWalk
  <2>4. \A g \in V : A(n).payload[g] = last[g]
    BY <1>8
  <2>5. Evaluate(d.calculate[f], A(n).payload) = Evaluate(d.calculate[f], last)
    BY <1>5, <2>1, <2>4, EvaluateReads
  <2>6. Result(d, f, A(n).payload) = Result(d, f, last)
    BY <2>5 DEF Result
  <2>7. f \in V => A(n + 1).payload[f] = last[f]
    <3>1. f \in V => Computed(d, f, A(n).payload) = Computed(d, f, last)
      BY <2>4 DEF Computed
    <3> QED
      BY <1>6, <2>1, <2>3, <2>4, <2>6, <3>1
  <2>8. \A g \in V : A(n + 1).payload[g] = last[g]
    BY <1>2, <2>3, <2>4, <2>7
  <2> QED
    BY <2>1, <2>8
<1>9. N \in S
  <2> HIDE DEF S
  <2>1. \A n \in 0..N : n \in S /\ n < N => n + 1 \in S
    BY <1>8
  <2>2. \A n \in 0..N : n \in S
    BY <1>1, <1>7, <2>1, Climbs
  <2> QED
    BY <1>1, <2>2
<1>10. \A f \in V : A(N).payload[f] = last[f]
  BY <1>9
<1> QED
  BY <1>10, CalculateIsAfter DEF A, N, s, q, V, last

LEMMA KeptTwice ==
  ASSUME FormsConstantsOK, NEW d \in Definitions, ~HasCycle(d), ReadsWhatIsKept(d),
         NEW p \in [Fields -> Values]
  PROVE  Kept(d, Kept(d, p)) = Kept(d, p)
<1> DEFINE last == Calculate(d, p).payload
           V == Visible(d, last)
           q == Kept(d, p)
           again == Calculate(d, q).payload
<1>1. \A f \in V : again[f] = last[f]
  BY WalkOverTheKept
<1>2. /\ \A f \in Fields : d.conditional[f].logic.reads \subseteq V
      /\ d.boxConditional.logic.reads \subseteq V
  BY ReadsAreVisible
<1>3. q = [f \in Fields |-> IF f \in V THEN last[f] ELSE "null"]
  BY DEF Kept
<1>4. Kept(d, q) = [f \in Fields |-> IF f \in Visible(d, again) THEN again[f] ELSE "null"]
  BY DEF Kept
<1> HIDE DEF last, V, q, again
<1>5. Visible(d, again) = Visible(d, last)
  BY <1>1, <1>2, VisibleReads
<1>6. Visible(d, again) = V
  BY <1>5 DEF V
<1> QED
  BY <1>1, <1>3, <1>4, <1>6 DEF q

-----------------------------------------------------------------------------
(***************************************************************************)
(* What the runs check                                                     *)
(***************************************************************************)

LEMMA InitType == FormsConstantsOK /\ FormsInit => FormsTypeOK
BY PayloadsAreValues DEF FormsInit, FormsTypeOK

LEMMA NextType ==
  ASSUME FormsConstantsOK, FormsTypeOK, [FormsNext]_formVars
  PROVE  FormsTypeOK'
<1>1. form \in Definitions /\ stored \in [Fields -> Values]
  BY PayloadsAreValues DEF FormsTypeOK
<1>2. ASSUME NEW p \in Payloads, Save(p)
      PROVE  FormsTypeOK'
  <2>1. stored' \in [Fields -> Values]
    BY <1>1, <1>2, SecureKeeps, PayloadsAreValues DEF Save
  <2> QED
    BY <1>2, <2>1 DEF Save, FormsTypeOK
<1>3. ASSUME NEW p \in Payloads, SubmitForm(p)
      PROVE  FormsTypeOK'
  <2>1. stored' \in [Fields -> Values]
    BY <1>1, <1>3, SecureKeeps, PayloadsAreValues DEF SubmitForm
  <2> QED
    BY <1>3, <2>1 DEF SubmitForm, FormsTypeOK
<1>4. CASE SubmitStored
  <2>1. stored' \in [Fields -> Values]
    BY <1>1, <1>4, SecureKeeps DEF SubmitStored
  <2> QED
    BY <1>4, <2>1 DEF SubmitStored, FormsTypeOK
<1>5. CASE Return
  BY <1>5 DEF Return, FormsTypeOK
<1>6. CASE UNCHANGED formVars
  BY <1>6 DEF formVars, FormsTypeOK
<1> QED
  BY <1>2, <1>3, <1>4, <1>5, <1>6 DEF FormsNext

(* What is stored is of the form's fields.                                 *)
THEOREM TypeCorrect ==
  ASSUME FormsConstantsOK
  PROVE  FormsSpec => []FormsTypeOK
<1>1. FormsInit => FormsTypeOK
  BY InitType
<1>2. FormsTypeOK /\ [FormsNext]_formVars => FormsTypeOK'
  BY NextType
<1> QED
  BY <1>1, <1>2, PTL DEF FormsSpec

(* ClientComputesNothing of every form: whatever the fields, in whatever   *)
(* order they are declared and read one another, what a client sends for   *)
(* the derived ones decides nothing.                                       *)
THEOREM DerivedAreTheServers ==
  ASSUME FormsConstantsOK
  PROVE  FormsSpec => []ClientComputesNothing
<1>1. FormsTypeOK => ClientComputesNothing
  <2> SUFFICES ASSUME FormsTypeOK PROVE ClientComputesNothing
    OBVIOUS
  <2>1. form \in Definitions /\ sent \in Payloads
    BY PayloadsAreValues DEF FormsTypeOK
  <2>2. ASSUME NEW p \in IF status = "none" THEN Payloads ELSE {sent},
               NEW strictness \in {"Draft", "Submit"}
        PROVE  LET answer == Secure(form, strictness, p)
                   same == Secure(form, strictness, Bare(form, p))
               IN  answer.accepted = same.accepted
                     /\ (answer.accepted => answer.payload = same.payload)
    <3>1. p \in [Fields -> Values]
      BY <2>1, PayloadsAreValues
    <3> QED
      BY <2>1, <3>1, SecureOfTheBare
  <2> QED
    BY <2>2 DEF ClientComputesNothing, Bare
<1> QED
  BY <1>1, TypeCorrect, PTL

\* What a document stores of such a form is what would be kept of it.
StoredIsKept ==
    status \in {"DRAFT", "SUBMITTED", "RETURNED"} =>
        /\ ~HasCycle(form)
        /\ ReadsWhatIsKept(form) => Kept(form, stored) = stored

LEMMA StoredStaysKept ==
  ASSUME FormsConstantsOK, FormsTypeOK, StoredIsKept, [FormsNext]_formVars
  PROVE  StoredIsKept'
<1>1. form \in Definitions /\ stored \in [Fields -> Values]
  BY PayloadsAreValues DEF FormsTypeOK
<1>2. ASSUME NEW p \in [Fields -> Values], NEW strictness,
             Secure(form, strictness, p).accepted, form' = form,
             stored' = Secure(form, strictness, p).payload
      PROVE  StoredIsKept'
  <2>1. ~HasCycle(form) /\ stored' = Kept(form, p)
    BY <1>1, <1>2, SecureKeeps
  <2>2. ReadsWhatIsKept(form) => Kept(form, stored') = stored'
    BY <1>1, <2>1, KeptTwice
  <2> QED
    BY <1>2, <2>1, <2>2 DEF StoredIsKept
<1>3. ASSUME NEW p \in Payloads, Save(p)
      PROVE  StoredIsKept'
  BY <1>2, <1>3, PayloadsAreValues DEF Save
<1>4. ASSUME NEW p \in Payloads, SubmitForm(p)
      PROVE  StoredIsKept'
  BY <1>4 DEF SubmitForm, StoredIsKept
<1>5. CASE SubmitStored
  BY <1>1, <1>2, <1>5 DEF SubmitStored
<1>6. CASE Return
  BY <1>6 DEF Return, StoredIsKept
<1>7. CASE UNCHANGED formVars
  BY <1>7 DEF formVars, StoredIsKept
<1> QED
  BY <1>3, <1>4, <1>5, <1>6, <1>7 DEF FormsNext

(* SubmittedAsSaved of every form whose expressions read no field that can *)
(* be hidden: what is kept of a payload is kept of it again, so a          *)
(* submission changes nothing of what the person saw saved.                *)
THEOREM SubmittedIsSaved ==
  ASSUME FormsConstantsOK
  PROVE  FormsSpec => SubmittedAsSaved
<1>1. FormsInit => StoredIsKept
  BY DEF FormsInit, StoredIsKept
<1>2. FormsTypeOK /\ StoredIsKept /\ [FormsNext]_formVars => StoredIsKept'
  BY StoredStaysKept
<1>3. FormsTypeOK /\ StoredIsKept /\ [FormsNext]_formVars =>
        [ReadsWhatIsKept(form) /\ status # "none" /\ status' = "SUBMITTED"
           => stored' = stored]_formVars
  <2> SUFFICES ASSUME FormsTypeOK, StoredIsKept, FormsNext, ReadsWhatIsKept(form), status # "none",
                      status' = "SUBMITTED"
               PROVE  stored' = stored
    BY DEF formVars
  <2>1. form \in Definitions /\ stored \in [Fields -> Values]
    BY PayloadsAreValues DEF FormsTypeOK
  <2>2. SubmitStored
    BY DEF FormsNext, Save, SubmitForm, Return
  <2>3. stored' = Kept(form, stored)
    BY <2>1, <2>2, SecureKeeps DEF SubmitStored
  <2> QED
    BY <2>2, <2>3 DEF SubmitStored, StoredIsKept
<1> QED
  BY <1>1, <1>2, <1>3, TypeCorrect, PTL DEF FormsSpec, SubmittedAsSaved

-----------------------------------------------------------------------------
(***************************************************************************)
(* Definitions                                                             *)
(***************************************************************************)

\* What is walked to from the roots is in every set that the edges do not leave.
LEMMA WalkIsLeast ==
  ASSUME NEW E, NEW roots, NEW A,
         A \subseteq roots \cup {e[2] : e \in E}, roots \subseteq A,
         \A e \in E : e[1] \in A => e[2] \in A
  PROVE  Walk(E, roots) \subseteq A
BY DEF Walk

\* The roots are walked to, and an edge's end with its start.
LEMMA WalkIsClosed ==
  ASSUME NEW E, NEW roots
  PROVE  /\ roots \subseteq Walk(E, roots)
         /\ \A e \in E : e[1] \in Walk(E, roots) => e[2] \in Walk(E, roots)
BY DEF Walk

\* Whatever is chosen is an edge of the definition out of the state it is in.
LEMMA ChosenAreEdges ==
  ASSUME NEW d, NEW from, NEW action, NEW e \in Chosen(d, from, action)
  PROVE  e \in ToSet(d.edges) /\ e.from = from /\ e.action = action
BY DEF Chosen, Candidates, ToSet

\* With one fallback, and it last, every edge may be the one that is taken.
LEMMA EdgesAreChosen ==
  ASSUME DefinitionsConstantsOK, NEW d \in Submitted, OneFallback(d),
         NEW e \in ToSet(d.edges)
  PROVE  e \in Chosen(d, e.from, e.action)
<1>1. PICK k \in DOMAIN d.edges : e = d.edges[k]
  BY DEF ToSet
<1>2. d.edges \in Seq(Edges) /\ DOMAIN d.edges \subseteq Nat
  BY DEF DefinitionsConstantsOK
<1>3. ASSUME NEW i \in Candidates(d, e.from, e.action), TriedBefore(d, i, k)
      PROVE  d.edges[i].conditioned
  <2>1. i \in DOMAIN d.edges /\ d.edges[i].from = e.from /\ d.edges[i].action = e.action
    BY DEF Candidates
  <2>2. CASE d.edges[i].conditioned = d.edges[k].conditioned
    <3>1. i < k
      BY <1>3, <2>2 DEF TriedBefore
    <3>2. i # k
      BY <1>2, <2>1, <3>1
    <3>3. d.edges[i].conditioned \/ d.edges[k].conditioned
      BY <1>1, <2>1, <3>2 DEF OneFallback
    <3> QED
      BY <2>2, <3>3
  <2>3. CASE d.edges[i].conditioned # d.edges[k].conditioned
    BY <1>3, <2>3 DEF TriedBefore
  <2> QED
    BY <2>2, <2>3
<1>4. k \in Candidates(d, e.from, e.action)
  BY <1>1 DEF Candidates
<1> QED
  BY <1>1, <1>3, <1>4 DEF Chosen

-----------------------------------------------------------------------------
(* Chains of automatic steps                                               *)

LEMMA AutomaticGrows ==
  ASSUME NEW d, NEW A, NEW B, A \cap Service(d) \subseteq B
  PROVE  Automatic(d, A) \subseteq Automatic(d, B)
BY DEF Automatic

ReachedAt(d, s, reached, n) == IF n = 0 THEN {s} ELSE Automatic(d, reached[n - 1])
Reached(d, s) ==
    CHOOSE reached : reached = [n \in 0..(MaxAuto - 1) |-> ReachedAt(d, s, reached, n)]
Within(d, s, n) == UNION {Reached(d, s)[m] : m \in 0..n}
Rests(d, s) == s \notin Service(d) \/ NoneMayHold(d, s, "AUTO")

LEMMA SettlesIsWithin ==
  ASSUME NEW d, NEW s
  PROVE  Settles(d, s) = {t \in Within(d, s, MaxAuto - 1) : Rests(d, t)}
BY DEF Settles, Within, Reached, ReachedAt, Rests

\* There is a function as Settles describes it.
LEMMA ReachedDef ==
  ASSUME DefinitionsConstantsOK, NEW d, NEW s
  PROVE  Reached(d, s) = [n \in 0..(MaxAuto - 1) |-> ReachedAt(d, s, Reached(d, s), n)]
<1> DEFINE N == MaxAuto - 1
           first == {s}
           G(A) == Automatic(d, A)
           Is(g, m) == g = [n \in 0..m |-> IF n = 0 THEN first ELSE G(g[n - 1])]
           S == {m \in Nat : \E g : Is(g, m)}
<1>1. N \in Nat
  BY DEF DefinitionsConstantsOK
<1> HIDE DEF N, G, first
<1>2. 0 \in S
  <2>1. Is([n \in 0..0 |-> first], 0)
    OBVIOUS
  <2> QED
    BY <2>1
<1>3. ASSUME NEW m \in 0..N, m \in S
      PROVE  m + 1 \in S
  <2>1. PICK g : Is(g, m)
    BY <1>3
  <2> DEFINE h == [n \in 0..(m + 1) |-> IF n = m + 1 THEN G(g[m]) ELSE g[n]]
  <2>2. \A n \in 1..(m + 1) : h[n - 1] = g[n - 1]
    BY <1>3, <1>1
  <2>3. \A n \in 0..(m + 1) : h[n] = IF n = 0 THEN first ELSE G(h[n - 1])
    BY <1>3, <1>1, <2>1, <2>2
  <2>4. Is(h, m + 1)
    BY <2>3
  <2>5. m + 1 \in Nat
    BY <1>1
  <2> QED
    BY <2>4, <2>5
<1>4. N \in S
  <2> HIDE DEF S
  <2>1. \A m \in 0..N : m \in S /\ m < N => m + 1 \in S
    BY <1>3
  <2>2. \A m \in 0..N : m \in S
    BY <1>1, <1>2, <2>1, Climbs
  <2> QED
    BY <1>1, <2>2
<1>5. \E g : Is(g, N)
  BY <1>4
<1>6. \A g : Is(g, N) <=> g = [n \in 0..N |-> ReachedAt(d, s, g, n)]
  BY DEF ReachedAt, G, first
<1> QED
  BY <1>5, <1>6 DEF Reached, N

LEMMA ReachedStep ==
  ASSUME DefinitionsConstantsOK, NEW d, NEW s
  PROVE  /\ Reached(d, s)[0] = {s}
         /\ \A n \in 1..(MaxAuto - 1) : Reached(d, s)[n] = Automatic(d, Reached(d, s)[n - 1])
<1>1. MaxAuto - 1 \in Nat
  BY DEF DefinitionsConstantsOK
<1>2. \A n \in 0..(MaxAuto - 1) : Reached(d, s)[n] = ReachedAt(d, s, Reached(d, s), n)
  <2> DEFINE reached == Reached(d, s)
  <2>1. reached = [n \in 0..(MaxAuto - 1) |-> ReachedAt(d, s, reached, n)]
    BY ReachedDef
  <2> HIDE DEF reached
  <2>2. \A n \in 0..(MaxAuto - 1) : reached[n] = ReachedAt(d, s, reached, n)
    BY <2>1
  <2> QED
    BY <2>2 DEF reached
<1>3. 0 \in 0..(MaxAuto - 1) /\ \A n \in 1..(MaxAuto - 1) : n \in 0..(MaxAuto - 1) /\ n # 0
  BY <1>1
<1> QED
  BY <1>2, <1>3 DEF ReachedAt

\* A set that has the state and that automatic steps do not leave has all that
\* is reached from it.
LEMMA StaysWithin ==
  ASSUME DefinitionsConstantsOK, NEW d, NEW s, NEW A, s \in A, Automatic(d, A) \subseteq A
  PROVE  Within(d, s, MaxAuto - 1) \subseteq A
<1> DEFINE N == MaxAuto - 1
           R(n) == Reached(d, s)[n]
           S == {n \in 0..N : R(n) \subseteq A}
<1>1. N \in Nat
  BY DEF DefinitionsConstantsOK
<1>2. R(0) = {s} /\ \A n \in 1..N : R(n) = Automatic(d, R(n - 1))
  BY ReachedStep
<1> HIDE DEF N, R
<1>3. 0 \in S
  BY <1>1, <1>2
<1>4. ASSUME NEW n \in 0..N, n \in S, n < N
      PROVE  n + 1 \in S
  <2>1. n + 1 \in 1..N /\ n + 1 \in 0..N /\ (n + 1) - 1 = n
    BY <1>1, <1>4
  <2>2. R(n + 1) = Automatic(d, R(n)) /\ R(n) \subseteq A
    BY <1>2, <1>4, <2>1
  <2>3. Automatic(d, R(n)) \subseteq Automatic(d, A)
    BY <2>2, AutomaticGrows
  <2> QED
    BY <2>1, <2>2, <2>3
<1>5. \A n \in 0..N : n \in S
  <2> HIDE DEF S
  <2>1. \A n \in 0..N : n \in S /\ n < N => n + 1 \in S
    BY <1>4
  <2> QED
    BY <1>1, <1>3, <2>1, Climbs
<1>6. \A n \in 0..N : R(n) \subseteq A
  BY <1>5
<1> QED
  BY <1>6 DEF Within, N, R

\* What is reached in a step more.
LEMMA WithinOneMore ==
  ASSUME DefinitionsConstantsOK, NEW d, NEW s, NEW n \in 0..(MaxAuto - 2)
  PROVE  /\ n \in Nat /\ n + 1 \in 0..(MaxAuto - 1)
         /\ Within(d, s, n) \subseteq Within(d, s, n + 1)
         /\ Automatic(d, Within(d, s, n)) \subseteq Within(d, s, n + 1)
<1>1. n \in Nat /\ MaxAuto \in Nat /\ n + 1 \in 0..(MaxAuto - 1)
  BY DEF DefinitionsConstantsOK
<1>2. Within(d, s, n) \subseteq Within(d, s, n + 1)
  BY <1>1 DEF Within
<1>3. ASSUME NEW t \in Automatic(d, Within(d, s, n))
      PROVE  t \in Within(d, s, n + 1)
  <2>1. PICK m \in 0..n : t \in Automatic(d, Reached(d, s)[m])
    BY <1>3 DEF Automatic, Within
  <2>2. m + 1 \in 1..(MaxAuto - 1) /\ m + 1 \in 0..(n + 1) /\ (m + 1) - 1 = m
    BY <1>1
  <2>3. Reached(d, s)[m + 1] = Automatic(d, Reached(d, s)[m])
    BY <2>2, ReachedStep
  <2> QED
    BY <2>1, <2>2, <2>3 DEF Within
<1> QED
  BY <1>1, <1>2, <1>3

\* With fewer service states than steps, the steps suffice: a chain that is
\* still growing has met one more of them at each.
LEMMA ServicesRunOut ==
  ASSUME DefinitionsConstantsOK, NEW d \in Submitted, NEW s, Cardinality(Service(d)) < MaxAuto
  PROVE  Automatic(d, Within(d, s, MaxAuto - 1)) \subseteq Within(d, s, MaxAuto - 1)
<1> DEFINE N == MaxAuto - 1
           W(n) == Within(d, s, n)
           met(n) == W(n) \cap Service(d)
           S == {n \in 0..N : Cardinality(met(n)) >= n + 1}
<1> SUFFICES ASSUME ~(Automatic(d, W(N)) \subseteq W(N)) PROVE FALSE
  OBVIOUS
<1>1. N \in Nat /\ MaxAuto = N + 1
  BY DEF DefinitionsConstantsOK
<1>2. IsFiniteSet(Service(d)) /\ Cardinality(Service(d)) \in Nat
  <2>1. IsFiniteSet(StatesOf(d)) /\ Service(d) \in SUBSET StatesOf(d)
    BY DEF DefinitionsConstantsOK, Service
  <2> QED
    BY <2>1, FS_Subset, FS_CardinalityType
<1>3. \A n : IsFiniteSet(met(n)) /\ Cardinality(met(n)) \in Nat
  BY <1>2, FS_Subset, FS_CardinalityType
<1>4. ASSUME NEW n \in 0..N
      PROVE  s \in W(n) /\ W(n) \subseteq W(N)
  <2>1. 0 \in 0..n /\ 0..n \subseteq 0..N
    BY <1>1
  <2>2. Reached(d, s)[0] = {s}
    BY ReachedStep
  <2> QED
    BY <2>1, <2>2 DEF Within
<1>5. ASSUME NEW n \in 0..N
      PROVE  ~(Automatic(d, W(n)) \subseteq W(n))
  <2> SUFFICES ASSUME Automatic(d, W(n)) \subseteq W(n) PROVE FALSE
    OBVIOUS
  <2>1. W(N) \subseteq W(n)
    BY <1>4, StaysWithin
  <2>2. W(N) = W(n)
    BY <1>4, <2>1
  <2> QED
    BY <2>2
<1>6. 0 \in S
  <2>1. Automatic(d, W(0)) # {}
    BY <1>1, <1>5
  <2>2. met(0) # {}
    BY <2>1 DEF Automatic
  <2>3. Cardinality(met(0)) # 0 /\ Cardinality(met(0)) \in Nat
    BY <1>3, <2>2, FS_EmptySet
  <2> HIDE DEF met
  <2> QED
    BY <1>1, <2>3
<1>7. ASSUME NEW n \in 0..N, n \in S, n < N
      PROVE  n + 1 \in S
  <2>1. n \in 0..(MaxAuto - 2) /\ n + 1 \in 0..N /\ n \in Nat
    BY <1>1, <1>7
  <2>2. W(n) \subseteq W(n + 1) /\ Automatic(d, W(n)) \subseteq W(n + 1)
    BY <2>1, WithinOneMore
  <2>3. met(n) # met(n + 1)
    <3> SUFFICES ASSUME met(n) = met(n + 1) PROVE FALSE
      OBVIOUS
    <3>1. W(n + 1) \cap Service(d) \subseteq W(n)
      OBVIOUS
    <3>2. Automatic(d, W(n + 1)) \subseteq Automatic(d, W(n))
      BY <3>1, AutomaticGrows
    <3> QED
      BY <1>5, <2>1, <2>2, <3>2
  <2>4. met(n) \in SUBSET met(n + 1)
    BY <2>2
  <2>5. Cardinality(met(n)) <= Cardinality(met(n + 1))
          /\ Cardinality(met(n + 1)) # Cardinality(met(n))
    BY <1>3, <2>3, <2>4, FS_Subset
  <2>6. Cardinality(met(n)) >= n + 1
    BY <1>7
  <2>7. Cardinality(met(n + 1)) >= (n + 1) + 1
    <3>1. Cardinality(met(n)) \in Nat /\ Cardinality(met(n + 1)) \in Nat
      BY <1>3
    <3> HIDE DEF met
    <3> QED
      BY <2>1, <2>5, <2>6, <3>1
  <2> QED
    BY <2>1, <2>7
<1>8. \A n \in 0..N : n \in S
  <2> HIDE DEF S
  <2>1. \A n \in 0..N : n \in S /\ n < N => n + 1 \in S
    BY <1>7
  <2> HIDE DEF N
  <2> QED
    BY <1>1, <1>6, <2>1, Climbs
<1>9. Cardinality(met(N)) >= N + 1
  BY <1>1, <1>8
<1>10. Cardinality(met(N)) <= Cardinality(Service(d))
  BY <1>2, FS_Subset
<1> QED
  BY <1>1, <1>2, <1>3, <1>9, <1>10

-----------------------------------------------------------------------------
(* A definition that is accepted and workable                              *)

\* A state to which an edge goes is declared, and so is whatever is settled in.
LEMMA SettlesInStates ==
  ASSUME DefinitionsConstantsOK, NEW d \in Submitted, Accepted(d), NEW s \in StatesOf(d)
  PROVE  \A t \in Settles(d, s) : t \in StatesOf(d) /\ Rests(d, t)
<1>1. Automatic(d, StatesOf(d)) \subseteq StatesOf(d)
  BY ChosenAreEdges DEF Automatic, Accepted, Declared
<1>2. Within(d, s, MaxAuto - 1) \subseteq StatesOf(d)
  BY <1>1, StaysWithin
<1> QED
  BY <1>2, SettlesIsWithin

\* The end of an automatic edge settles nowhere its start does not: what is
\* reached through the edge is reached in time.
LEMMA SettlesOnward ==
  ASSUME DefinitionsConstantsOK, NEW d \in Submitted, OneFallback(d),
         Cardinality(Service(d)) < MaxAuto,
         NEW e \in ToSet(d.edges), e.from \in Service(d), e.action = "AUTO"
  PROVE  Settles(d, e.to) \subseteq Settles(d, e.from)
<1> DEFINE W == Within(d, e.from, MaxAuto - 1)
<1>1. Automatic(d, W) \subseteq W
  BY ServicesRunOut
<1>2. e.from \in W
  <2>1. 0 \in 0..(MaxAuto - 1)
    BY DEF DefinitionsConstantsOK
  <2>2. Reached(d, e.from)[0] = {e.from}
    BY ReachedStep
  <2> QED
    BY <2>1, <2>2 DEF Within
<1>3. e.to \in W
  <2>1. e \in Chosen(d, e.from, "AUTO")
    BY EdgesAreChosen
  <2>2. e.to \in Automatic(d, W)
    BY <1>2, <2>1 DEF Automatic
  <2> QED
    BY <1>1, <2>2
<1>4. Within(d, e.to, MaxAuto - 1) \subseteq W
  BY <1>1, <1>3, StaysWithin
<1> QED
  BY <1>4, SettlesIsWithin

\* A state that may be rested in settles in itself alone, if it is no automatic
\* one that goes on.
LEMMA RestingSettles ==
  ASSUME DefinitionsConstantsOK, NEW d \in Submitted, NEW s
  PROVE  /\ Rests(d, s) => s \in Settles(d, s)
         /\ s \notin Service(d) => Settles(d, s) \subseteq {s}
<1>1. s \in Within(d, s, MaxAuto - 1)
  <2>1. 0 \in 0..(MaxAuto - 1)
    BY DEF DefinitionsConstantsOK
  <2>2. Reached(d, s)[0] = {s}
    BY ReachedStep
  <2> QED
    BY <2>1, <2>2 DEF Within
<1>2. ASSUME s \notin Service(d)
      PROVE  Within(d, s, MaxAuto - 1) \subseteq {s}
  <2>1. Automatic(d, {s}) \subseteq {s}
    BY <1>2 DEF Automatic
  <2> QED
    BY <2>1, StaysWithin
<1> QED
  BY <1>1, <1>2, SettlesIsWithin

\* Were no end in reach of a state, the states that settle only within its
\* reach would be left by no edge and have no end among them; but each state
\* has an end ahead of it.
LEMMA AnEndIsAhead ==
  ASSUME DefinitionsConstantsOK, NEW d \in Submitted, Accepted(d), Workable(d),
         NEW s \in StatesOf(d), Rests(d, s)
  PROVE  Walk(Moves(d), {s}) \cap d.final # {}
<1> DEFINE W == Walk(Moves(d), {s})
           A == {t \in StatesOf(d) : Settles(d, t) \subseteq W}
           E == {<<a[2], a[1]>> : a \in Arrows(d)}
           nodes == d.final \cup {e[2] : e \in E}
<1> SUFFICES ASSUME W \cap d.final = {} PROVE FALSE
  OBVIOUS
<1>0. d.final \subseteq StatesOf(d)
  BY DEF DefinitionsConstantsOK
<1>1. s \in W /\ \A m \in Moves(d) : m[1] \in W => m[2] \in W
  BY WalkIsClosed
<1>2. \A t \in d.final : t \in StatesOf(d) /\ Rests(d, t)
  BY <1>0 DEF Rests, NoneMayHold, Accepted
<1>3. s \in A
  <2>1. s \notin d.final
    BY <1>1
  <2>2. s \notin Service(d)
    BY <2>1 DEF Workable, Rests
  <2> QED
    BY <1>1, <2>2, RestingSettles
<1>4. A \cap d.final = {}
  BY <1>2, RestingSettles
<1>5. ASSUME NEW e \in ToSet(d.edges), e.from \in A
      PROVE  e.to \in A
  <2>1. e.from \in StatesOf(d) /\ e.to \in StatesOf(d) /\ Settles(d, e.from) \subseteq W
    BY <1>5 DEF Accepted, Declared
  <2>2. CASE e.from \in Service(d)
    <3>1. e.action = "AUTO"
      BY <2>2 DEF Workable
    <3>2. Settles(d, e.to) \subseteq Settles(d, e.from)
      BY <2>2, <3>1, SettlesOnward DEF Accepted, Workable
    <3> QED
      BY <2>1, <3>2
  <2>3. CASE e.from \notin Service(d)
    <3>1. e.action \in Offers(d, e.from)
      BY <2>3 DEF Workable
    <3>2. e \in Chosen(d, e.from, e.action)
      BY EdgesAreChosen DEF Accepted
    <3>3. \A t \in Settles(d, e.to) : t \in StatesOf(d) /\ t \in Fired(d, e.from, e.action)
      BY <2>1, <3>2, SettlesInStates DEF Fired
    <3>4. e.from \in W
      BY <2>1, <2>3, RestingSettles DEF Rests
    <3>5. \A t \in Settles(d, e.to) : <<e.from, t>> \in Moves(d)
      BY <2>1, <3>1, <3>3 DEF Moves
    <3>6. \A t \in Settles(d, e.to) : t \in W
      BY <1>1, <3>4, <3>5
    <3> QED
      BY <2>1, <3>6
  <2> QED
    BY <2>2, <2>3
<1>6. Walk(E, d.final) \subseteq nodes \ A
  <2> HIDE DEF A
  <2>1. d.final \subseteq nodes \ A
    BY <1>4
  <2>2. ASSUME NEW e \in E, e[1] \in nodes \ A
        PROVE  e[2] \in nodes \ A
    <3>1. PICK edge \in ToSet(d.edges) : e = <<edge.to, edge.from>>
      BY DEF Arrows
    <3>2. edge.from \notin A
      BY <1>5, <2>2, <3>1
    <3> QED
      BY <3>1, <3>2
  <2>3. \A e \in E : e[1] \in nodes \ A => e[2] \in nodes \ A
    BY <2>2
  <2> DEFINE away == nodes \ A
  <2>4. /\ away \subseteq d.final \cup {e[2] : e \in E} /\ d.final \subseteq away
        /\ \A e \in E : e[1] \in away => e[2] \in away
    BY <2>1, <2>3
  <2> HIDE DEF E, nodes, away
  <2>5. Walk(E, d.final) \subseteq away
    BY <2>4, WalkIsLeast
  <2> QED
    BY <2>5 DEF away
<1>7. StatesOf(d) \subseteq Walk(E, d.final)
  BY DEF Accepted, Reachable
<1> QED
  BY <1>3, <1>6, <1>7

-----------------------------------------------------------------------------
\* A process runs on what was accepted, and is where it may rest.
DefinitionsIInv ==
    /\ DefinitionsTypeOK
    /\ accepted => Accepted(definition)
    /\ at # 0 => accepted /\ at \in StatesOf(definition) /\ Rests(definition, at)

(* What a process rests in is a state of a definition that was accepted,   *)
(* which no automatic step leaves.                                         *)
THEOREM DefinitionsInvariance ==
  ASSUME DefinitionsConstantsOK
  PROVE  DefinitionsSpec => []DefinitionsIInv
<1>1. DefinitionsInit => DefinitionsIInv
  BY DEF DefinitionsInit, DefinitionsIInv, DefinitionsTypeOK
<1>2. DefinitionsIInv /\ [DefinitionsNext]_definitionVars => DefinitionsIInv'
  <2> SUFFICES ASSUME DefinitionsIInv, [DefinitionsNext]_definitionVars
               PROVE  DefinitionsIInv'
    OBVIOUS
  <2>1. definition \in Submitted /\ 0 \notin StatesOf(definition)
    BY DEF DefinitionsIInv, DefinitionsTypeOK, DefinitionsConstantsOK, Codes
  <2>2. CASE SaveDefinition
    BY <2>2 DEF SaveDefinition, DefinitionsIInv, DefinitionsTypeOK
  <2>3. CASE Start
    <3>1. Accepted(definition) /\ definition.initial \in StatesOf(definition)
      BY <2>3 DEF Start, DefinitionsIInv, Accepted
    <3>2. at' \in StatesOf(definition) /\ Rests(definition, at')
      BY <2>1, <2>3, <3>1, SettlesInStates DEF Start
    <3> QED
      BY <2>3, <3>1, <3>2 DEF Start, DefinitionsIInv, DefinitionsTypeOK
  <2>4. ASSUME NEW action \in Actions, Fire(action)
        PROVE  DefinitionsIInv'
    <3>1. accepted /\ Accepted(definition)
      BY <2>4 DEF Fire, DefinitionsIInv
    <3>2. PICK e \in Chosen(definition, at, action) : at' \in Settles(definition, e.to)
      BY <2>4 DEF Fire, Fired
    <3>3. e.to \in StatesOf(definition)
      BY <3>1, ChosenAreEdges DEF Accepted, Declared
    <3>4. at' \in StatesOf(definition) /\ Rests(definition, at')
      BY <2>1, <3>1, <3>2, <3>3, SettlesInStates
    <3> QED
      BY <2>4, <3>1, <3>4 DEF Fire, DefinitionsIInv, DefinitionsTypeOK
  <2>5. CASE UNCHANGED definitionVars
    BY <2>5 DEF definitionVars, DefinitionsIInv, DefinitionsTypeOK
  <2> QED
    BY <2>2, <2>3, <2>4, <2>5 DEF DefinitionsNext
<1> QED
  BY <1>1, <1>2, PTL DEF DefinitionsSpec

(* WhatIsAcceptedCanFinish of every definition: however many states and    *)
(* edges it has, and wherever a process of it may rest, an end is in reach *)
(* of the people who work on it.                                           *)
THEOREM AcceptedCanFinish ==
  ASSUME DefinitionsConstantsOK
  PROVE  DefinitionsSpec => []WhatIsAcceptedCanFinish
<1>1. DefinitionsIInv => WhatIsAcceptedCanFinish
  BY AnEndIsAhead DEF DefinitionsIInv, DefinitionsTypeOK, WhatIsAcceptedCanFinish
<1> QED
  BY <1>1, DefinitionsInvariance, PTL
=============================================================================
