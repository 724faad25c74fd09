-------------------------- MODULE BigselRecordProofs --------------------------
(***************************************************************************)
(* Theorems of BigselRecord for any number of inputs, values, limits and   *)
(* deadbands.                                                              *)
(***************************************************************************)
EXTENDS BigselRecord, FiniteSetTheorems, SequenceTheorems, WellFoundedInduction, TLAPS

-----------------------------------------------------------------------------
(* Induction and recursion, over sets and functions instead of operators.  *)

LEMMA Induction ==
    ASSUME NEW S, 0 \in S, \A n \in Nat : n \in S => n + 1 \in S
    PROVE  Nat \subseteq S
<1> DEFINE Bad == Nat \ S
<1>1. SUFFICES ASSUME Bad # {}
               PROVE  FALSE
  OBVIOUS
<1>2. \E k \in Bad : \A n \in Bad : ~(<<n, k>> \in OpToRel(<, Nat))
  BY <1>1, Bad \subseteq Nat, NatLessThanWellFounded, WFMin, Zenon
<1>3. PICK k \in Bad : \A n \in Bad : ~(<<n, k>> \in OpToRel(<, Nat))
  BY <1>2
<1>4. OpToRel(<, Nat) = {p \in Nat \X Nat : p[1] < p[2]}
  BY Zenon DEF OpToRel
<1>5. k \in Nat /\ k # 0 /\ k - 1 \in Nat /\ k - 1 < k
  OBVIOUS
<1>6. <<k - 1, k>> \in OpToRel(<, Nat)
  BY <1>4, <1>5
<1>7. k - 1 \in S
  BY <1>3, <1>5, <1>6
<1> QED
  BY <1>5, <1>7

\* step maps a value in S, and the number of the step, to the next.
IsStep(step, m, S) == step \in [S \X (1 .. m) -> S]

\* f is what the steps make of s0.
Follows(f, s0, step, m, S) ==
    /\ f \in [0 .. m -> S]
    /\ f[0] = s0
    /\ \A n \in 1 .. m : f[n] = step[<<f[n - 1], n>>]

\* A function on 0 .. m may be defined by its first value and a step.
LEMMA Recursion ==
    ASSUME NEW S, NEW s0 \in S, NEW m \in Nat, NEW step, IsStep(step, m, S)
    PROVE  \E f : Follows(f, s0, step, m, S)
<1> DEFINE Good(k, f) == f[0] = s0 /\ \A n \in 1 .. k : f[n] = step[<<f[n - 1], n>>]
           Reached == {k \in Nat : k <= m => \E f \in [0 .. k -> S] : Good(k, f)}
<1> USE DEF IsStep
<1>1. 0 \in Reached
  <2>1. [n \in 0 .. 0 |-> s0] \in [0 .. 0 -> S] /\ Good(0, [n \in 0 .. 0 |-> s0])
    OBVIOUS
  <2> QED
    BY <2>1
<1>2. ASSUME NEW k \in Nat, k \in Reached
      PROVE  k + 1 \in Reached
  <2>1. SUFFICES ASSUME k + 1 <= m
                 PROVE  \E g \in [0 .. k + 1 -> S] : Good(k + 1, g)
    OBVIOUS
  <2>2. PICK f \in [0 .. k -> S] : Good(k, f)
    BY <1>2, <2>1
  <2>3. f[k] \in S /\ k + 1 \in 1 .. m /\ step[<<f[k], k + 1>>] \in S
    BY <2>1
  <2> DEFINE g == [n \in 0 .. k + 1 |-> IF n = k + 1 THEN step[<<f[k], k + 1>>] ELSE f[n]]
  <2>4. g \in [0 .. k + 1 -> S]
    BY <2>3
  <2>5. g[0] = s0
    BY <2>2
  <2>6. ASSUME NEW n \in 1 .. k + 1
        PROVE  g[n] = step[<<g[n - 1], n>>]
    <3>1. CASE n = k + 1
      <4>1. n - 1 = k /\ k \in 0 .. k + 1 /\ k # k + 1
        BY <3>1
      <4>2. g[n] = step[<<f[k], k + 1>>] /\ g[k] = f[k]
        BY <3>1, <4>1
      <4> HIDE DEF g
      <4> QED
        BY <3>1, <4>1, <4>2
    <3>2. CASE n # k + 1
      <4>1. n \in 1 .. k /\ n - 1 \in 0 .. k /\ n - 1 # k + 1 /\ n - 1 \in 0 .. k + 1
        BY <3>2
      <4>2. g[n] = f[n] /\ g[n - 1] = f[n - 1]
        BY <3>2, <4>1
      <4>3. f[n] = step[<<f[n - 1], n>>]
        BY <2>2, <4>1
      <4> HIDE DEF g
      <4> QED
        BY <4>2, <4>3
    <3> QED
      BY <3>1, <3>2
  <2> HIDE DEF g
  <2> QED
    BY <2>4, <2>5, <2>6
<1> HIDE DEF Reached
<1>3. m \in Reached
  BY <1>1, <1>2, Induction
<1>4. PICK f \in [0 .. m -> S] : Good(m, f)
  BY <1>3 DEF Reached
<1> QED
  BY <1>4 DEF Follows

-----------------------------------------------------------------------------
(* The scans of do_sel.                                                    *)

Number == Int \cup {NaN}

\* What the scans and the sort are given: an index, and numbers or NaN.
Given2Sel(r) == r.seln \in Nat /\ \A i \in Inputs : r.a[i] \in Number

Best == [val : Int, seln : Nat]

\* The steps of a scan.
LEMMA ScanUnfold ==
    ASSUME NEW r, Given2Sel(r), NEW high \in BOOLEAN, NEW start \in Int
    PROVE  /\ ScanSteps(r, high, start) \in [0 .. SEL_MAX -> Best]
           /\ ScanSteps(r, high, start)[0] = [val |-> start, seln |-> r.seln]
           /\ \A n \in Inputs :
                 ScanSteps(r, high, start)[n + 1] =
                    LET b == ScanSteps(r, high, start)[n]
                    IN  IF r.a[n] # NaN /\ Beats(r.a[n], b.val, high)
                        THEN [val |-> r.a[n], seln |-> n] ELSE b
<1> DEFINE first == [val |-> start, seln |-> r.seln]
           Next1(b, n) == IF r.a[n - 1] # NaN /\ Beats(r.a[n - 1], b.val, high)
                          THEN [val |-> r.a[n - 1], seln |-> n - 1] ELSE b
           step == [p \in Best \X (1 .. SEL_MAX) |-> Next1(p[1], p[2])]
           Eq(f) == f = [n \in 0 .. SEL_MAX |-> IF n = 0 THEN first ELSE Next1(f[n - 1], n)]
<1>1. first \in Best /\ SEL_MAX \in Nat
  BY BigselAssumption DEF Given2Sel, Best
<1>2. \A b \in Best : \A n \in 1 .. SEL_MAX : Next1(b, n) \in Best
  BY BigselAssumption DEF Given2Sel, Best, Inputs, Number
<1>3. step \in [Best \X (1 .. SEL_MAX) -> Best]
  BY <1>2
<1>4. PICK f : Follows(f, first, step, SEL_MAX, Best)
  <2>1. IsStep(step, SEL_MAX, Best)
    BY <1>3 DEF IsStep
  <2> HIDE DEF step, first
  <2> QED
    BY <1>1, <2>1, Recursion
<1>5. Eq(f)
  <2>1. ASSUME NEW n \in 1 .. SEL_MAX
        PROVE  step[<<f[n - 1], n>>] = Next1(f[n - 1], n)
    <3> HIDE DEF Next1, first
    <3>1. n - 1 \in 0 .. SEL_MAX
      BY <1>1
    <3>2. f[n - 1] \in Best
      BY <1>4, <3>1 DEF Follows
    <3>3. <<f[n - 1], n>> \in Best \X (1 .. SEL_MAX)
      BY <3>2
    <3> QED
      BY <3>3
  <2> HIDE DEF step, Next1, first
  <2>2. ASSUME NEW n \in 0 .. SEL_MAX
        PROVE  f[n] = IF n = 0 THEN first ELSE Next1(f[n - 1], n)
    <3>1. n # 0 => n \in 1 .. SEL_MAX
      BY <1>1
    <3> QED
      BY <1>4, <2>1, <3>1 DEF Follows
  <2>3. f = [n \in 0 .. SEL_MAX |-> f[n]]
    BY <1>4 DEF Follows
  <2> QED
    BY <2>2, <2>3
<1>6. ScanSteps(r, high, start) = CHOOSE g : Eq(g)
  BY DEF ScanSteps
<1> DEFINE best == ScanSteps(r, high, start)
<1>7. Eq(best)
  <2> HIDE DEF Eq
  <2> QED
    BY <1>5, <1>6
<1>8. best[0] = first
  BY <1>1, <1>7
<1>9. \A n \in 1 .. SEL_MAX : best[n] = Next1(best[n - 1], n)
  <2>1. \A n \in 1 .. SEL_MAX : n \in 0 .. SEL_MAX /\ n # 0
    BY <1>1
  <2> HIDE DEF Next1, first
  <2> QED
    BY <1>7, <2>1
<1> HIDE DEF best
<1>10. \A n \in Inputs : n + 1 \in 1 .. SEL_MAX /\ (n + 1) - 1 = n
  BY <1>1 DEF Inputs
<1>11. \A n \in 0 .. SEL_MAX : best[n] \in Best
  <2> DEFINE Typed == {n \in Nat : n <= SEL_MAX => best[n] \in Best}
  <2>1. 0 \in Typed
    BY <1>1, <1>8
  <2>2. \A n \in Nat : n \in Typed => n + 1 \in Typed
    <3> HIDE DEF Next1
    <3> QED
      BY <1>1, <1>2, <1>9
  <2> HIDE DEF Typed
  <2>3. Nat \subseteq Typed
    BY <2>1, <2>2, Induction
  <2> QED
    BY <1>1, <2>3 DEF Typed
<1>12. best \in [0 .. SEL_MAX -> Best]
  <2>1. best = [n \in 0 .. SEL_MAX |-> best[n]]
    BY <1>7 DEF best
  <2> HIDE DEF Next1, first
  <2> QED
    BY <1>11, <2>1
<1> QED
  BY <1>8, <1>9, <1>10, <1>12 DEF best

\* A scan ends with its start or an input, and no number beats that.
LEMMA ScanFinds ==
    ASSUME NEW r, Given2Sel(r), NEW high \in BOOLEAN, NEW start \in Int
    PROVE  LET s == Scan(r, high, start)
           IN  /\ s \in Best
               /\ s.seln = r.seln \/ s.seln \in Inputs
               /\ s.val = start \/ \E i \in Inputs : r.a[i] # NaN /\ r.a[i] = s.val
               /\ ~Beats(start, s.val, high)
               /\ \A i \in Inputs : r.a[i] # NaN => ~Beats(r.a[i], s.val, high)
<1> DEFINE best == ScanSteps(r, high, start)
           Found(n) == /\ best[n].seln = r.seln \/ best[n].seln \in Inputs
                       /\ \/ best[n].val = start
                          \/ \E i \in Inputs : r.a[i] # NaN /\ r.a[i] = best[n].val
                       /\ ~Beats(start, best[n].val, high)
                       /\ \A i \in Inputs : i < n /\ r.a[i] # NaN => ~Beats(r.a[i], best[n].val, high)
           Seen1 == {n \in Nat : n <= SEL_MAX => Found(n)}
<1> HIDE DEF best
<1>1. /\ SEL_MAX \in Nat
      /\ best \in [0 .. SEL_MAX -> Best]
      /\ best[0] = [val |-> start, seln |-> r.seln]
      /\ \A n \in Inputs : best[n + 1] = IF r.a[n] # NaN /\ Beats(r.a[n], best[n].val, high)
                                         THEN [val |-> r.a[n], seln |-> n] ELSE best[n]
  BY ScanUnfold, BigselAssumption DEF best
<1>2. 0 \in Seen1
  <2>1. Found(0)
    BY <1>1 DEF Beats, Inputs
  <2> QED
    BY <2>1
<1>3. ASSUME NEW n \in Nat, n \in Seen1
      PROVE  n + 1 \in Seen1
  <2>1. SUFFICES ASSUME n + 1 <= SEL_MAX
                 PROVE  Found(n + 1)
    OBVIOUS
  <2>2. n \in Inputs /\ n \in 0 .. SEL_MAX /\ best[n] \in Best /\ best[n].val \in Int
    BY <1>1, <2>1 DEF Inputs, Best
  <2>3. Found(n)
    <3>1. n <= SEL_MAX
      BY <1>1, <2>1
    <3> HIDE DEF Found
    <3> QED
      BY <1>3, <3>1
  <2>4. \A i \in Inputs : i < n + 1 <=> i < n \/ i = n
    BY <1>1 DEF Inputs
  <2>5. \A i \in Inputs : r.a[i] # NaN => r.a[i] \in Int
    BY DEF Given2Sel, Number
  <2>6. CASE r.a[n] # NaN /\ Beats(r.a[n], best[n].val, high)
    <3>1. best[n + 1] = [val |-> r.a[n], seln |-> n]
      BY <1>1, <2>2, <2>6
    <3>2. best[n + 1].val = r.a[n] /\ best[n + 1].seln = n
      BY <3>1
    <3> QED
      BY <2>2, <2>3, <2>4, <2>5, <2>6, <3>2 DEF Beats
  <2>7. CASE ~(r.a[n] # NaN /\ Beats(r.a[n], best[n].val, high))
    <3>1. best[n + 1] = best[n]
      BY <1>1, <2>2, <2>7
    <3> QED
      BY <2>3, <2>4, <2>7, <3>1
  <2> QED
    BY <2>6, <2>7
<1> HIDE DEF Seen1
<1>4. SEL_MAX \in Seen1
  BY <1>1, <1>2, <1>3, Induction
<1>5. Found(SEL_MAX) /\ \A i \in Inputs : i < SEL_MAX
  BY <1>1, <1>4 DEF Seen1, Inputs
<1>6. Scan(r, high, start) = best[SEL_MAX] /\ best[SEL_MAX] \in Best
  BY <1>1 DEF Scan, best
<1> QED
  BY <1>5, <1>6

-----------------------------------------------------------------------------
(* The sort of do_sel.                                                     *)

\* The numbers among the first n inputs, and those below v.
FirstNumbers(r, n) == {i \in 0 .. n - 1 : r.a[i] # NaN}
Below(r, n, v) == {i \in FirstNumbers(r, n) : r.a[i] < v}

LEMMA CountNothing ==
    ASSUME NEW r
    PROVE  /\ Cardinality(FirstNumbers(r, 0)) = 0
           /\ \A v \in Int : Cardinality(Below(r, 0, v)) = 0
<1>1. FirstNumbers(r, 0) = {} /\ \A v \in Int : Below(r, 0, v) = {}
  BY DEF FirstNumbers, Below
<1> QED
  BY <1>1, FS_EmptySet

LEMMA CountFinite ==
    ASSUME NEW r, NEW n \in Nat
    PROVE  /\ IsFiniteSet(FirstNumbers(r, n)) /\ Cardinality(FirstNumbers(r, n)) \in Nat
           /\ \A v \in Int : /\ IsFiniteSet(Below(r, n, v))
                             /\ Cardinality(Below(r, n, v)) \in Nat
                             /\ Cardinality(Below(r, n, v)) <= Cardinality(FirstNumbers(r, n))
<1>1. IsFiniteSet(0 .. n - 1)
  BY FS_Interval
<1>2. FirstNumbers(r, n) \subseteq 0 .. n - 1
  BY DEF FirstNumbers
<1>3. \A v \in Int : Below(r, n, v) \subseteq FirstNumbers(r, n)
  BY DEF Below
<1> QED
  BY <1>1, <1>2, <1>3, FS_Subset, FS_CardinalityType

LEMMA CountOneMore ==
    ASSUME NEW r, NEW n \in Nat
    PROVE  /\ Cardinality(FirstNumbers(r, n + 1)) =
                 Cardinality(FirstNumbers(r, n)) + (IF r.a[n] # NaN THEN 1 ELSE 0)
           /\ \A v \in Int :
                 Cardinality(Below(r, n + 1, v)) =
                    Cardinality(Below(r, n, v)) + (IF r.a[n] # NaN /\ r.a[n] < v THEN 1 ELSE 0)
<1>1. 0 .. (n + 1) - 1 = (0 .. n - 1) \cup {n} /\ n \notin 0 .. n - 1
  OBVIOUS
<1>2. IF r.a[n] # NaN THEN FirstNumbers(r, n + 1) = FirstNumbers(r, n) \cup {n}
                      ELSE FirstNumbers(r, n + 1) = FirstNumbers(r, n)
  BY <1>1 DEF FirstNumbers
<1>3. \A v \in Int : IF r.a[n] # NaN /\ r.a[n] < v
                     THEN Below(r, n + 1, v) = Below(r, n, v) \cup {n}
                     ELSE Below(r, n + 1, v) = Below(r, n, v)
  BY <1>2 DEF Below
<1>4. n \notin FirstNumbers(r, n) /\ \A v \in Int : n \notin Below(r, n, v)
  BY <1>1 DEF FirstNumbers, Below
<1>5. IsFiniteSet(FirstNumbers(r, n)) /\ Cardinality(FirstNumbers(r, n)) \in Nat
  BY CountFinite
<1>6. ASSUME NEW v \in Int
      PROVE  Cardinality(Below(r, n + 1, v)) =
                Cardinality(Below(r, n, v)) + (IF r.a[n] # NaN /\ r.a[n] < v THEN 1 ELSE 0)
  <2>1. IsFiniteSet(Below(r, n, v)) /\ Cardinality(Below(r, n, v)) \in Nat
    BY CountFinite
  <2>2. CASE r.a[n] # NaN /\ r.a[n] < v
    <3>1. Below(r, n + 1, v) = Below(r, n, v) \cup {n}
      BY <1>3, <2>2
    <3> QED
      BY <1>4, <2>1, <2>2, <3>1, FS_AddElement
  <2>3. CASE ~(r.a[n] # NaN /\ r.a[n] < v)
    <3>1. Below(r, n + 1, v) = Below(r, n, v)
      BY <1>3, <2>3
    <3> QED
      BY <2>1, <2>3, <3>1
  <2> QED
    BY <2>2, <2>3
<1>7. CASE r.a[n] # NaN
  BY <1>2, <1>4, <1>5, <1>6, <1>7, FS_AddElement
<1>8. CASE r.a[n] = NaN
  BY <1>2, <1>5, <1>6, <1>8
<1> QED
  BY <1>7, <1>8

\* A value goes behind the first c, the ones that are not above it.
LEMMA InsertedAt ==
    ASSUME NEW order \in Seq(Int), NEW v \in Int, NEW c \in 0 .. Len(order),
           \A k \in 1 .. Len(order) : order[k] <= v <=> k <= c
    PROVE  LET new == Inserted(order, v)
           IN  /\ new \in Seq(Int) /\ Len(new) = Len(order) + 1
               /\ \A k \in 1 .. c : new[k] = order[k]
               /\ new[c + 1] = v
               /\ \A k \in c + 1 .. Len(order) : new[k + 1] = order[k]
<1> DEFINE len == Len(order)
           before == {k \in 1 .. len : order[k] <= v}
           j == IF before = {} THEN 0 ELSE CHOOSE k \in before : \A l \in before : k >= l
           front == SubSeq(order, 1, c)
           back == SubSeq(order, c + 1, len)
<1>1. len \in Nat /\ c \in Nat /\ c <= len
  OBVIOUS
<1>2. before = 1 .. c
  BY <1>1
<1>3. j = c
  <2>1. CASE c = 0
    BY <1>2, <2>1
  <2>2. CASE c > 0
    <3>1. c \in before /\ \A l \in before : c >= l
      BY <1>1, <1>2, <2>2
    <3>2. \A k \in before : (\A l \in before : k >= l) => k = c
      BY <1>1, <1>2, <3>1
    <3> HIDE DEF before
    <3>3. (CHOOSE k \in before : \A l \in before : k >= l) = c
      BY <3>1, <3>2
    <3> QED
      BY <3>1, <3>3
  <2> QED
    BY <1>1, <2>1, <2>2
<1>4. Inserted(order, v) = front \o <<v>> \o back
  <2>1. Inserted(order, v) = SubSeq(order, 1, j) \o <<v>> \o SubSeq(order, j + 1, len)
    BY DEF Inserted
  <2> HIDE DEF j
  <2> QED
    BY <1>3, <2>1
<1>5. /\ front \in Seq(Int) /\ Len(front) = c
      /\ \A k \in 1 .. c : front[k] = order[k]
  BY <1>1
<1>6. /\ back \in Seq(Int) /\ Len(back) = len - c
      /\ \A k \in 1 .. len - c : back[k] = order[c + k]
  <2>1. \A i \in c + 1 .. len : order[i] \in Int
    BY <1>1
  <2>2. /\ SubSeq(order, c + 1, len) \in Seq(Int)
        /\ Len(SubSeq(order, c + 1, len)) = IF c + 1 <= len THEN len - (c + 1) + 1 ELSE 0
        /\ \A i \in 1 .. len - (c + 1) + 1 : SubSeq(order, c + 1, len)[i] = order[c + 1 + i - 1]
    BY <1>1, <2>1, SubSeqProperties
  <2>3. len - (c + 1) + 1 = len - c /\ \A k \in Int : c + 1 + k - 1 = c + k
    BY <1>1
  <2>4. Len(back) = len - c
    BY <1>1, <2>2
  <2> HIDE DEF len
  <2> QED
    BY <2>2, <2>3, <2>4
<1> HIDE DEF front, back
<1> DEFINE head == front \o <<v>>
<1>7. /\ head \in Seq(Int) /\ Len(head) = c + 1
      /\ \A k \in 1 .. c : head[k] = order[k]
      /\ head[c + 1] = v
  <2>1. <<v>> \in Seq(Int) /\ Len(<<v>>) = 1 /\ <<v>>[1] = v
    OBVIOUS
  <2>2. /\ head \in Seq(Int) /\ Len(head) = Len(front) + Len(<<v>>)
        /\ \A i \in 1 .. Len(front) + Len(<<v>>) :
              head[i] = IF i <= Len(front) THEN front[i] ELSE <<v>>[i - Len(front)]
    <3> DEFINE one == <<v>>
    <3>1. one \in Seq(Int)
      OBVIOUS
    <3> HIDE DEF one
    <3>2. \A i \in 1 .. Len(front) + Len(one) :
             (front \o one)[i] = IF i <= Len(front) THEN front[i] ELSE one[i - Len(front)]
      BY <1>5, <3>1, ConcatProperties
    <3>3. front \o one \in Seq(Int) /\ Len(front \o one) = Len(front) + Len(one)
      BY <1>5, <3>1, ConcatProperties
    <3> QED
      BY <3>2, <3>3 DEF one
  <2>3. \A k \in 1 .. c : k \in 1 .. c + 1 /\ k <= c
    BY <1>1
  <2>4. c + 1 \in 1 .. c + 1 /\ ~(c + 1 <= c) /\ (c + 1) - c = 1
    BY <1>1
  <2> HIDE DEF head
  <2> QED
    BY <1>5, <2>1, <2>2, <2>3, <2>4
<1> HIDE DEF head
<1>8. /\ head \o back \in Seq(Int) /\ Len(head \o back) = len + 1
      /\ \A k \in 1 .. c + 1 : (head \o back)[k] = head[k]
      /\ \A k \in c + 2 .. len + 1 : (head \o back)[k] = back[k - (c + 1)]
  <2>1. /\ head \o back \in Seq(Int) /\ Len(head \o back) = Len(head) + Len(back)
        /\ \A i \in 1 .. Len(head) + Len(back) :
              (head \o back)[i] = IF i <= Len(head) THEN head[i] ELSE back[i - Len(head)]
    BY <1>6, <1>7, ConcatProperties
  <2>2. Len(head) + Len(back) = len + 1
    BY <1>1, <1>6, <1>7
  <2>3. /\ \A k \in 1 .. c + 1 : k \in 1 .. len + 1 /\ k <= c + 1
        /\ \A k \in c + 2 .. len + 1 : k \in 1 .. len + 1 /\ ~(k <= c + 1)
    BY <1>1
  <2> HIDE DEF len
  <2> QED
    BY <1>7, <2>1, <2>2, <2>3
<1>9. \A k \in c + 1 .. len : k + 1 \in c + 2 .. len + 1 /\ (k + 1) - (c + 1) \in 1 .. len - c
                               /\ c + ((k + 1) - (c + 1)) = k
  BY <1>1
<1>10. \A k \in c + 1 .. len : (head \o back)[k + 1] = order[k]
  BY <1>6, <1>8, <1>9
<1>11. \A k \in 1 .. c : k \in 1 .. c + 1
  BY <1>1
<1>12. Inserted(order, v) = head \o back /\ c + 1 \in 1 .. c + 1
  BY <1>1, <1>4 DEF head
<1> HIDE DEF len
<1>13. /\ \A k \in 1 .. c : (head \o back)[k] = order[k]
       /\ (head \o back)[c + 1] = v
  BY <1>7, <1>8, <1>11, <1>12
<1> QED
  BY <1>8, <1>10, <1>12, <1>13 DEF len

\* A set of positions has a last one.
LEMMA LastPosition ==
    ASSUME NEW m \in Nat, NEW T \in SUBSET (1 .. m), T # {}
    PROVE  \E k \in T : \A l \in T : k >= l
<1> DEFINE Bounded == {n \in Nat : \A U \in SUBSET (1 .. n) :
                                      U # {} => \E k \in U : \A l \in U : k >= l}
<1>1. 0 \in Bounded
  <2>1. 1 .. 0 = {}
    OBVIOUS
  <2> QED
    BY <2>1
<1>2. ASSUME NEW n \in Nat, n \in Bounded
      PROVE  n + 1 \in Bounded
  <2>1. SUFFICES ASSUME NEW U \in SUBSET (1 .. n + 1), U # {}
                 PROVE  \E k \in U : \A l \in U : k >= l
    OBVIOUS
  <2>2. CASE n + 1 \in U
    BY <2>2
  <2>3. CASE n + 1 \notin U
    <3>1. U \in SUBSET (1 .. n)
      BY <2>3
    <3> QED
      BY <1>2, <2>1, <3>1
  <2> QED
    BY <2>2, <2>3
<1> HIDE DEF Bounded
<1>3. m \in Bounded
  BY <1>1, <1>2, Induction
<1> QED
  BY <1>3 DEF Bounded

LEMMA InsertedType ==
    ASSUME NEW order \in Seq(Int), NEW v \in Int
    PROVE  Inserted(order, v) \in Seq(Int)
<1> DEFINE len == Len(order)
           before == {k \in 1 .. len : order[k] <= v}
           j == IF before = {} THEN 0 ELSE CHOOSE k \in before : \A l \in before : k >= l
<1>1. len \in Nat
  OBVIOUS
<1>2. j \in 0 .. len
  <2>1. CASE before = {}
    BY <1>1, <2>1
  <2>2. CASE before # {}
    <3>1. before \in SUBSET (1 .. len)
      OBVIOUS
    <3> HIDE DEF before
    <3>2. \E k \in before : \A l \in before : k >= l
      BY <1>1, <2>2, <3>1, LastPosition
    <3>3. (CHOOSE k \in before : \A l \in before : k >= l) \in before
      BY <3>2
    <3>4. j \in before
      BY <2>2, <3>3
    <3> HIDE DEF j
    <3> QED
      BY <1>1, <3>1, <3>4
  <2> QED
    BY <2>1, <2>2
<1> HIDE DEF j
<1>3. \A i \in 1 .. j : order[i] \in Int
  BY <1>1, <1>2
<1>4. \A i \in j + 1 .. len : order[i] \in Int
  BY <1>1, <1>2
<1>5. SubSeq(order, 1, j) \in Seq(Int)
  BY <1>1, <1>2, <1>3, SubSeqProperties
<1>6. SubSeq(order, j + 1, len) \in Seq(Int)
  BY <1>1, <1>2, <1>4, SubSeqProperties
<1>7. <<v>> \in Seq(Int)
  OBVIOUS
<1>8. SubSeq(order, 1, j) \o <<v>> \o SubSeq(order, j + 1, len) \in Seq(Int)
  BY <1>5, <1>6, <1>7, ConcatProperties
<1> QED
  BY <1>8 DEF Inserted, j

\* The steps of the sort.
LEMMA SortUnfold ==
    ASSUME NEW r, Given2Sel(r)
    PROVE  /\ SortSteps(r) \in [0 .. SEL_MAX -> Seq(Int)]
           /\ SortSteps(r)[0] = << >>
           /\ \A n \in Inputs :
                 SortSteps(r)[n + 1] = IF r.a[n] = NaN THEN SortSteps(r)[n]
                                       ELSE Inserted(SortSteps(r)[n], r.a[n])
<1> DEFINE Next1(o, n) == IF r.a[n - 1] = NaN THEN o ELSE Inserted(o, r.a[n - 1])
           step == [p \in Seq(Int) \X (1 .. SEL_MAX) |-> Next1(p[1], p[2])]
           Eq(f) == f = [n \in 0 .. SEL_MAX |-> IF n = 0 THEN << >> ELSE Next1(f[n - 1], n)]
<1>1. << >> \in Seq(Int) /\ SEL_MAX \in Nat
  BY BigselAssumption
<1>2. \A o \in Seq(Int) : \A n \in 1 .. SEL_MAX : Next1(o, n) \in Seq(Int)
  <2>1. \A n \in 1 .. SEL_MAX : n - 1 \in Inputs
    BY <1>1 DEF Inputs
  <2> QED
    BY <2>1, InsertedType DEF Given2Sel, Number
<1>3. step \in [Seq(Int) \X (1 .. SEL_MAX) -> Seq(Int)]
  <2> HIDE DEF Next1
  <2> QED
    BY <1>2
<1>4. PICK f : Follows(f, << >>, step, SEL_MAX, Seq(Int))
  <2>1. IsStep(step, SEL_MAX, Seq(Int))
    BY <1>3 DEF IsStep
  <2> HIDE DEF step
  <2> QED
    BY <1>1, <2>1, Recursion
<1>5. Eq(f)
  <2>1. ASSUME NEW n \in 1 .. SEL_MAX
        PROVE  step[<<f[n - 1], n>>] = Next1(f[n - 1], n)
    <3> HIDE DEF Next1
    <3>1. n - 1 \in 0 .. SEL_MAX
      BY <1>1
    <3>2. f[n - 1] \in Seq(Int)
      BY <1>4, <3>1 DEF Follows
    <3>3. <<f[n - 1], n>> \in Seq(Int) \X (1 .. SEL_MAX)
      BY <3>2
    <3> QED
      BY <3>3
  <2> HIDE DEF step, Next1
  <2>2. ASSUME NEW n \in 0 .. SEL_MAX
        PROVE  f[n] = IF n = 0 THEN << >> ELSE Next1(f[n - 1], n)
    <3>1. n # 0 => n \in 1 .. SEL_MAX
      BY <1>1
    <3> QED
      BY <1>4, <2>1, <3>1 DEF Follows
  <2>3. f = [n \in 0 .. SEL_MAX |-> f[n]]
    BY <1>4 DEF Follows
  <2> QED
    BY <2>2, <2>3
<1>6. SortSteps(r) = CHOOSE g : Eq(g)
  BY DEF SortSteps
<1> DEFINE order == SortSteps(r)
<1>7. Eq(order)
  <2> HIDE DEF Eq
  <2> QED
    BY <1>5, <1>6
<1>8. order[0] = << >>
  BY <1>1, <1>7
<1>9. \A n \in 1 .. SEL_MAX : order[n] = Next1(order[n - 1], n)
  <2>1. \A n \in 1 .. SEL_MAX : n \in 0 .. SEL_MAX /\ n # 0
    BY <1>1
  <2> HIDE DEF Next1
  <2> QED
    BY <1>7, <2>1
<1> HIDE DEF order
<1>10. \A n \in Inputs : n + 1 \in 1 .. SEL_MAX /\ (n + 1) - 1 = n
  BY <1>1 DEF Inputs
<1>11. \A n \in 0 .. SEL_MAX : order[n] \in Seq(Int)
  <2> DEFINE Typed == {n \in Nat : n <= SEL_MAX => order[n] \in Seq(Int)}
  <2>1. 0 \in Typed
    BY <1>1, <1>8
  <2>2. \A n \in Nat : n \in Typed => n + 1 \in Typed
    <3> HIDE DEF Next1
    <3> QED
      BY <1>1, <1>2, <1>9
  <2> HIDE DEF Typed
  <2>3. Nat \subseteq Typed
    BY <2>1, <2>2, Induction
  <2> QED
    BY <1>1, <2>3 DEF Typed
<1>12. order \in [0 .. SEL_MAX -> Seq(Int)]
  <2>1. order = [n \in 0 .. SEL_MAX |-> order[n]]
    BY <1>7 DEF order
  <2> HIDE DEF Next1
  <2> QED
    BY <1>11, <2>1
<1> QED
  BY <1>8, <1>9, <1>10, <1>12 DEF order

\* After n inputs, order holds their numbers, each value v at its place.
Ordered(r, n, order) ==
    /\ order \in Seq(Int)
    /\ Len(order) = Cardinality(FirstNumbers(r, n))
    /\ \A v \in Int : \A k \in 1 .. Len(order) :
          order[k] < v <=> k <= Cardinality(Below(r, n, v))
    /\ \A k \in 1 .. Len(order) : \E i \in FirstNumbers(r, n) : r.a[i] = order[k]

LEMMA InsertionKeepsOrder ==
    ASSUME NEW r, NEW n \in Nat, NEW order, Ordered(r, n, order), r.a[n] \in Int, r.a[n] # NaN
    PROVE  Ordered(r, n + 1, Inserted(order, r.a[n]))
<1> DEFINE v == r.a[n]
           new == Inserted(order, v)
           c == Cardinality(Below(r, n, v + 1))
           len == Len(order)
           at(w) == Cardinality(Below(r, n, w))
<1>1. /\ order \in Seq(Int) /\ len \in Nat /\ len = Cardinality(FirstNumbers(r, n))
      /\ v \in Int /\ v + 1 \in Int
  BY DEF Ordered
<1>2. \A w \in Int : at(w) \in Nat /\ at(w) <= len
  BY <1>1, CountFinite
<1>3. \A w \in Int : \A k \in 1 .. len : order[k] < w <=> k <= at(w)
  BY DEF Ordered
<1>4. \A k \in 1 .. len : order[k] \in Int
  BY <1>1
<1>5. c \in 0 .. len /\ \A k \in 1 .. len : order[k] <= v <=> k <= c
  <2>1. \A k \in 1 .. len : order[k] < v + 1 <=> k <= c
    BY <1>1, <1>3
  <2>2. \A k \in 1 .. len : order[k] <= v <=> order[k] < v + 1
    BY <1>1, <1>4
  <2>3. c \in Nat /\ c <= len
    BY <1>1, <1>2
  <2> HIDE DEF c, len, v
  <2> QED
    BY <1>1, <2>1, <2>2, <2>3
<1>6. /\ new \in Seq(Int) /\ Len(new) = len + 1
      /\ \A k \in 1 .. c : new[k] = order[k]
      /\ new[c + 1] = v
      /\ \A k \in c + 1 .. len : new[k + 1] = order[k]
  BY <1>1, <1>5, InsertedAt
<1> HIDE DEF new, c, len, at, v
<1>0. c \in Nat /\ len \in Nat /\ c <= len
  BY <1>1, <1>5
<1>7. \A k \in 1 .. len + 1 : \/ k \in 1 .. c
                              \/ k = c + 1
                              \/ k - 1 \in c + 1 .. len /\ k - 1 \in 1 .. len /\ (k - 1) + 1 = k
  BY <1>0
<1>8. Len(new) = Cardinality(FirstNumbers(r, n + 1))
  BY <1>1, <1>6, CountOneMore, CountFinite DEF len, v
<1>9. \A w \in Int : Cardinality(Below(r, n + 1, w)) = at(w) + (IF v < w THEN 1 ELSE 0)
  BY CountOneMore DEF v, at
<1>10. ASSUME NEW w \in Int, NEW k \in 1 .. len + 1
       PROVE  new[k] < w <=> k <= at(w) + (IF v < w THEN 1 ELSE 0)
  <2>1. at(w) \in Nat /\ at(w) <= len /\ \A l \in 1 .. len : order[l] < w <=> l <= at(w)
    BY <1>2, <1>3
  <2>2. IF v < w THEN c <= at(w) ELSE at(w) <= c
    <3>1. CASE v < w /\ c # 0
      <4>1. c \in 1 .. len /\ order[c] <= v
        BY <1>1, <1>5, <3>1
      <4>2. order[c] < w
        BY <1>1, <1>4, <3>1, <4>1
      <4> QED
        BY <2>1, <3>1, <4>1, <4>2
    <3>2. CASE ~(v < w) /\ at(w) # 0
      <4>1. at(w) \in 1 .. len /\ order[at(w)] < w
        BY <1>1, <2>1, <3>2
      <4>2. order[at(w)] <= v
        BY <1>1, <1>4, <3>2, <4>1
      <4> QED
        BY <1>5, <3>2, <4>1, <4>2
    <3> QED
      BY <1>1, <1>5, <2>1, <3>1, <3>2
  <2>3. CASE k \in 1 .. c
    <3>1. new[k] = order[k] /\ k \in 1 .. len /\ k <= c
      BY <1>0, <1>6, <2>3
    <3>2. order[k] < w <=> k <= at(w)
      BY <2>1, <3>1
    <3> QED
      BY <1>0, <2>1, <2>2, <3>1, <3>2
  <2>4. CASE k = c + 1
    <3>1. new[k] = v
      BY <1>6, <2>4
    <3> QED
      BY <1>0, <1>1, <2>1, <2>2, <2>4, <3>1
  <2>5. CASE k - 1 \in c + 1 .. len /\ k - 1 \in 1 .. len /\ (k - 1) + 1 = k
    <3> DEFINE l == k - 1
    <3>1. new[l + 1] = order[l] /\ l + 1 = k /\ l \in 1 .. len /\ l > c
      BY <1>0, <1>6, <2>5
    <3> HIDE DEF l
    <3>2. order[l] < w <=> l <= at(w)
      BY <2>1, <3>1
    <3> QED
      BY <1>0, <2>1, <2>2, <3>1, <3>2
  <2> QED
    BY <1>7, <2>3, <2>4, <2>5
<1>11. ASSUME NEW k \in 1 .. len + 1
       PROVE  \E i \in FirstNumbers(r, n + 1) : r.a[i] = new[k]
  <2>1. FirstNumbers(r, n) \subseteq FirstNumbers(r, n + 1) /\ n \in FirstNumbers(r, n + 1)
    BY DEF FirstNumbers
  <2>2. \A l \in 1 .. len : \E i \in FirstNumbers(r, n) : r.a[i] = order[l]
    BY DEF Ordered, len
  <2>3. CASE k = c + 1
    BY <1>6, <2>1, <2>3 DEF v
  <2>4. CASE k # c + 1
    <3>1. \E l \in 1 .. len : new[k] = order[l]
      <4>1. CASE k \in 1 .. c
        <5>1. k \in 1 .. len
          BY <1>0, <4>1
        <5> QED
          BY <1>6, <4>1, <5>1
      <4>2. CASE k - 1 \in c + 1 .. len /\ k - 1 \in 1 .. len /\ (k - 1) + 1 = k
        <5>1. new[(k - 1) + 1] = order[k - 1]
          BY <1>6, <4>2
        <5> QED
          BY <4>2, <5>1
      <4> QED
        BY <1>7, <2>4, <4>1, <4>2
    <3> QED
      BY <2>1, <2>2, <3>1
  <2> QED
    BY <2>3, <2>4
<1> QED
  BY <1>6, <1>8, <1>9, <1>10, <1>11 DEF Ordered, new, v

\* The sort of do_sel sorts.
LEMMA SortedOrder ==
    ASSUME NEW r, Given2Sel(r)
    PROVE  Ordered(r, SEL_MAX, Sorted(r))
<1> DEFINE order == SortSteps(r)
           Done == {n \in Nat : n <= SEL_MAX => Ordered(r, n, order[n])}
<1> HIDE DEF order
<1>1. /\ SEL_MAX \in Nat /\ order[0] = << >>
      /\ \A n \in Inputs : order[n + 1] = IF r.a[n] = NaN THEN order[n]
                                          ELSE Inserted(order[n], r.a[n])
  BY SortUnfold, BigselAssumption DEF order
<1>2. 0 \in Done
  <2>1. << >> \in Seq(Int) /\ Len(<< >>) = 0 /\ \A k \in 1 .. 0 : FALSE
    OBVIOUS
  <2>2. Ordered(r, 0, << >>)
    BY <2>1, CountNothing DEF Ordered
  <2> QED
    BY <1>1, <2>2
<1>3. ASSUME NEW n \in Nat, n \in Done
      PROVE  n + 1 \in Done
  <2>1. SUFFICES ASSUME n + 1 <= SEL_MAX
                 PROVE  Ordered(r, n + 1, order[n + 1])
    OBVIOUS
  <2>2. n \in Inputs /\ n <= SEL_MAX
    BY <1>1, <2>1 DEF Inputs
  <2>3. Ordered(r, n, order[n])
    BY <1>3, <2>2
  <2>4. CASE r.a[n] = NaN
    <3>1. order[n + 1] = order[n]
      BY <1>1, <2>2, <2>4
    <3>2. /\ Cardinality(FirstNumbers(r, n + 1)) = Cardinality(FirstNumbers(r, n))
          /\ \A v \in Int : Cardinality(Below(r, n + 1, v)) = Cardinality(Below(r, n, v))
      BY <2>4, CountOneMore, CountFinite
    <3>3. FirstNumbers(r, n) \subseteq FirstNumbers(r, n + 1)
      BY DEF FirstNumbers
    <3> QED
      BY <2>3, <3>1, <3>2, <3>3 DEF Ordered
  <2>5. CASE r.a[n] # NaN
    <3>1. order[n + 1] = Inserted(order[n], r.a[n]) /\ r.a[n] \in Int
      BY <1>1, <2>2, <2>5 DEF Given2Sel, Number
    <3> QED
      BY <2>3, <2>5, <3>1, InsertionKeepsOrder
  <2> QED
    BY <2>4, <2>5
<1> HIDE DEF Done
<1>4. SEL_MAX \in Done
  BY <1>1, <1>2, <1>3, Induction
<1> QED
  BY <1>1, <1>4 DEF Done, Sorted, order

\* The middle of the order has at most half of the numbers below it, and more
\* than half not above it.
LEMMA MedianFinds ==
    ASSUME NEW r, Given2Sel(r)
    PROVE  LET m == Median(r)
               all == Cardinality(FirstNumbers(r, SEL_MAX))
           IN  /\ m.seln = all /\ all \in 0 .. SEL_MAX
               /\ FirstNumbers(r, SEL_MAX) = {} => m.val = NaN
               /\ FirstNumbers(r, SEL_MAX) # {} =>
                     /\ m.val \in Int
                     /\ \E i \in FirstNumbers(r, SEL_MAX) : r.a[i] = m.val
                     /\ 2 * Cardinality(Below(r, SEL_MAX, m.val)) <= all
                     /\ 2 * Cardinality(Below(r, SEL_MAX, m.val + 1)) > all
<1> DEFINE order == Sorted(r)
           len == Len(order)
           mid == len \div 2 + 1
           numbers == FirstNumbers(r, SEL_MAX)
<1>1. Median(r) = [val |-> IF len = 0 THEN NaN ELSE order[mid], seln |-> len]
  BY DEF Median
<1>2. Median(r).seln = len /\ Median(r).val = IF len = 0 THEN NaN ELSE order[mid]
  BY <1>1
<1>3. Ordered(r, SEL_MAX, order)
  BY SortedOrder
<1> HIDE DEF order
<1>4. SEL_MAX \in Nat /\ order \in Seq(Int) /\ len \in Nat /\ len = Cardinality(numbers)
  BY <1>3, BigselAssumption DEF Ordered
<1>5. len <= SEL_MAX
  <2>1. IsFiniteSet(0 .. SEL_MAX - 1) /\ Cardinality(0 .. SEL_MAX - 1) <= SEL_MAX
    <3>1. 0 \in Int /\ SEL_MAX - 1 \in Int /\ SEL_MAX - 1 - 0 + 1 = SEL_MAX
      BY <1>4
    <3>2. /\ IsFiniteSet(0 .. SEL_MAX - 1)
          /\ Cardinality(0 .. SEL_MAX - 1) = IF 0 > SEL_MAX - 1 THEN 0 ELSE SEL_MAX - 1 - 0 + 1
      BY <3>1, FS_Interval
    <3> QED
      BY <1>4, <3>1, <3>2
  <2>2. numbers \subseteq 0 .. SEL_MAX - 1
    BY DEF FirstNumbers
  <2>3. Cardinality(numbers) <= Cardinality(0 .. SEL_MAX - 1)
    BY <2>1, <2>2, FS_Subset
  <2>4. Cardinality(0 .. SEL_MAX - 1) \in Nat
    BY <2>1, FS_CardinalityType
  <2> HIDE DEF len
  <2> QED
    BY <1>4, <2>1, <2>3, <2>4
<1>6. numbers = {} <=> len = 0
  BY <1>4, CountFinite, FS_EmptySet
<1>7. ASSUME len # 0
      PROVE  /\ order[mid] \in Int
             /\ \E i \in numbers : r.a[i] = order[mid]
             /\ 2 * Cardinality(Below(r, SEL_MAX, order[mid])) <= len
             /\ 2 * Cardinality(Below(r, SEL_MAX, order[mid] + 1)) > len
  <2>1. mid \in 1 .. len /\ 2 * mid > len /\ 2 * (mid - 1) <= len /\ mid \in Int
    BY <1>4, <1>7
  <2>2. order[mid] \in Int /\ order[mid] + 1 \in Int
    BY <1>4, <2>1
  <2>3. \A v \in Int : order[mid] < v <=> mid <= Cardinality(Below(r, SEL_MAX, v))
    BY <1>3, <2>1 DEF Ordered
  <2>4. \A v \in Int : Cardinality(Below(r, SEL_MAX, v)) \in Nat
    BY <1>4, CountFinite
  <2>5. \E i \in numbers : r.a[i] = order[mid]
    BY <1>3, <2>1 DEF Ordered
  <2>8. len \in Nat
    BY <1>4
  <2> HIDE DEF mid, len
  <2>6. ~(mid <= Cardinality(Below(r, SEL_MAX, order[mid])))
    BY <2>2, <2>3
  <2>7. mid <= Cardinality(Below(r, SEL_MAX, order[mid] + 1))
    BY <2>2, <2>3
  <2> DEFINE below == Cardinality(Below(r, SEL_MAX, order[mid]))
             upto == Cardinality(Below(r, SEL_MAX, order[mid] + 1))
  <2>9. below \in Nat /\ upto \in Nat
    BY <2>2, <2>4
  <2>10. 2 * below <= len /\ 2 * upto > len
    <3> HIDE DEF below, upto
    <3>1. below <= mid - 1 /\ mid <= upto
      BY <2>1, <2>6, <2>7, <2>9 DEF below, upto
    <3> QED
      BY <2>1, <2>8, <2>9, <3>1
  <2> QED
    BY <2>2, <2>5, <2>10
<1> HIDE DEF mid, len
<1> QED
  BY <1>2, <1>4, <1>5, <1>6, <1>7

-----------------------------------------------------------------------------
(* What is selected is what is documented.                                 *)

\* A set of numbers has at most one greatest and at most one least element.
LEMMA HighIsDocumented ==
    ASSUME NEW inp, NEW nvl, Numbers(inp) # {}, \A i \in Numbers(inp) : inp[i] \in Int,
           NEW v, v \in {inp[i] : i \in Numbers(inp)}, \A i \in Numbers(inp) : v >= inp[i]
    PROVE  Documented("High Signal", nvl, inp) = v
<1> DEFINE given == {inp[i] : i \in Numbers(inp)}
<1>1. \A w \in given : (\A i \in Numbers(inp) : w >= inp[i]) => w = v
  OBVIOUS
<1>2. Documented("High Signal", nvl, inp)
         = CHOOSE w \in given : \A i \in Numbers(inp) : w >= inp[i]
  BY DEF Documented
<1> HIDE DEF given
<1> QED
  BY <1>1, <1>2 DEF given

LEMMA LowIsDocumented ==
    ASSUME NEW inp, NEW nvl, Numbers(inp) # {}, \A i \in Numbers(inp) : inp[i] \in Int,
           NEW v, v \in {inp[i] : i \in Numbers(inp)}, \A i \in Numbers(inp) : v <= inp[i]
    PROVE  Documented("Low Signal", nvl, inp) = v
<1> DEFINE given == {inp[i] : i \in Numbers(inp)}
<1>1. \A w \in given : (\A i \in Numbers(inp) : w <= inp[i]) => w = v
  OBVIOUS
<1>2. Documented("Low Signal", nvl, inp)
         = CHOOSE w \in given : \A i \in Numbers(inp) : w <= inp[i]
  BY DEF Documented
<1> HIDE DEF given
<1> QED
  BY <1>1, <1>2 DEF given

\* And at most one median in the documented sense.
LEMMA MedianIsDocumented ==
    ASSUME NEW inp, NEW nvl, Numbers(inp) # {}, \A i \in Numbers(inp) : inp[i] \in Int,
           NEW v, v \in {inp[i] : i \in Numbers(inp)},
           2 * Cardinality({i \in Numbers(inp) : inp[i] < v}) <= Cardinality(Numbers(inp)),
           2 * Cardinality({i \in Numbers(inp) : inp[i] <= v}) > Cardinality(Numbers(inp))
    PROVE  Documented("Median Signal", nvl, inp) = v
<1> DEFINE numbers == Numbers(inp)
           given == {inp[i] : i \in numbers}
           less(w) == {i \in numbers : inp[i] < w}
           upto(w) == {i \in numbers : inp[i] <= w}
           Middle(w) == /\ 2 * Cardinality(less(w)) <= Cardinality(numbers)
                        /\ 2 * Cardinality(upto(w)) > Cardinality(numbers)
<1>1. IsFiniteSet(numbers)
  <2>1. IsFiniteSet(Inputs) /\ numbers \subseteq Inputs
    BY BigselAssumption, FS_Interval DEF Inputs, Numbers
  <2> QED
    BY <2>1, FS_Subset
<1>2. \A w \in given : /\ Cardinality(less(w)) \in Nat /\ Cardinality(upto(w)) \in Nat
                       /\ IsFiniteSet(less(w)) /\ IsFiniteSet(upto(w))
  BY <1>1, FS_Subset, FS_CardinalityType
<1>3. Cardinality(numbers) \in Nat
  BY <1>1, FS_CardinalityType
<1>4. ASSUME NEW w \in given, NEW x \in given, Middle(w), Middle(x), w < x
      PROVE  FALSE
  <2>1. upto(w) \subseteq less(x)
    BY <1>4
  <2>2. Cardinality(upto(w)) <= Cardinality(less(x))
    BY <1>2, <2>1, FS_Subset
  <2> HIDE DEF upto, less, numbers
  <2> QED
    BY <1>2, <1>3, <1>4, <2>2
<1>5. \A w \in given : w \in Int
  OBVIOUS
<1>6. v \in given /\ Middle(v)
  OBVIOUS
<1>7. Documented("Median Signal", nvl, inp) = CHOOSE w \in given : Middle(w)
  BY DEF Documented
<1> HIDE DEF Middle, given
<1>8. \A w \in given : Middle(w) => w = v
  BY <1>4, <1>5, <1>6
<1> QED
  BY <1>6, <1>7, <1>8

\* What the selection gives, of inputs that are no larger than Infinity.
LEMMA SelectedIsDocumented ==
    ASSUME NEW r, Given2Sel(r), r.selm \in Modes, r.selm = "Specified" => r.seln \in Inputs,
           \A i \in Inputs : r.a[i] # NaN => -Infinity <= r.a[i] /\ r.a[i] <= Infinity,
           NEW nvl, NEW inp
    PROVE  /\ Selected(r).val \in {r.a[i] : i \in Inputs} \cup {NaN, Infinity, -Infinity}
           /\ Selected(r).seln = r.seln \/ Selected(r).seln \in 0 .. SEL_MAX
           /\ r.selm = "Specified" => Selected(r).val = r.a[r.seln]
           /\ r.selm # "Specified" /\ (\A i \in Inputs : inp[i] = r.a[i])
                 => Documented(r.selm, nvl, inp) = Selected(r).val
<1> DEFINE numbers == FirstNumbers(r, SEL_MAX)
<1>1. /\ Infinity \in Int /\ -Infinity \in Int /\ SEL_MAX \in Nat
      /\ Inputs \subseteq 0 .. SEL_MAX /\ TRUE \in BOOLEAN /\ FALSE \in BOOLEAN
  BY BigselAssumption DEF Inputs
<1>2. numbers = {i \in Inputs : r.a[i] # NaN}
  BY DEF FirstNumbers, Inputs
<1>3. \A i \in numbers : i \in Inputs /\ r.a[i] \in Int /\ -Infinity <= r.a[i] /\ r.a[i] <= Infinity
  BY <1>2 DEF Given2Sel, Number
<1>4. (\A i \in Inputs : inp[i] = r.a[i]) => Numbers(inp) = numbers
  BY <1>2 DEF Numbers
<1> HIDE DEF numbers
<1>5. CASE r.selm = "Specified"
  <2>1. Selected(r) = [val |-> r.a[r.seln], seln |-> r.seln]
    BY <1>5 DEF Selected
  <2> QED
    BY <1>5, <2>1
<1>6. CASE r.selm = "High Signal"
  <2> DEFINE s == Scan(r, TRUE, -Infinity)
  <2>1. Selected(r) = s
    BY <1>6 DEF Selected
  <2>2. /\ s \in Best /\ (s.seln = r.seln \/ s.seln \in Inputs)
        /\ s.val = -Infinity \/ \E i \in Inputs : r.a[i] # NaN /\ r.a[i] = s.val
        /\ ~Beats(-Infinity, s.val, TRUE)
        /\ \A i \in Inputs : r.a[i] # NaN => ~Beats(r.a[i], s.val, TRUE)
    BY <1>1, ScanFinds
  <2> HIDE DEF s
  <2>3. s.val \in Int /\ s.val >= -Infinity /\ \A i \in numbers : s.val >= r.a[i]
    BY <1>1, <1>2, <1>3, <2>2 DEF Beats, Best
  <2>4. ASSUME \A i \in Inputs : inp[i] = r.a[i]
        PROVE  Documented("High Signal", nvl, inp) = s.val
    <3>1. Numbers(inp) = numbers /\ \A i \in numbers : inp[i] = r.a[i]
      BY <1>3, <1>4, <2>4
    <3>2. CASE numbers = {}
      <4>1. s.val = -Infinity
        BY <1>2, <2>2, <3>2
      <4> QED
        BY <3>1, <3>2, <4>1 DEF Documented
    <3>3. CASE numbers # {}
      <4>1. \E i \in numbers : inp[i] = s.val
        <5>1. CASE s.val = -Infinity
          <6>1. \A i \in numbers : r.a[i] = s.val
            BY <1>1, <1>3, <2>3, <5>1
          <6> QED
            BY <3>1, <3>3, <6>1
        <5>2. CASE s.val # -Infinity
          BY <1>2, <2>2, <3>1, <5>2
        <5> QED
          BY <5>1, <5>2
      <4>2. /\ s.val \in {inp[i] : i \in Numbers(inp)}
            /\ \A i \in Numbers(inp) : inp[i] \in Int /\ s.val >= inp[i]
        BY <1>3, <2>3, <3>1, <4>1
      <4> QED
        BY <3>1, <3>3, <4>2, HighIsDocumented
    <3> QED
      BY <3>2, <3>3
  <2> QED
    BY <1>1, <1>6, <2>1, <2>2, <2>4
<1>7. CASE r.selm = "Low Signal"
  <2> DEFINE s == Scan(r, FALSE, Infinity)
  <2>1. Selected(r) = s
    BY <1>7 DEF Selected
  <2>2. /\ s \in Best /\ (s.seln = r.seln \/ s.seln \in Inputs)
        /\ s.val = Infinity \/ \E i \in Inputs : r.a[i] # NaN /\ r.a[i] = s.val
        /\ ~Beats(Infinity, s.val, FALSE)
        /\ \A i \in Inputs : r.a[i] # NaN => ~Beats(r.a[i], s.val, FALSE)
    BY <1>1, ScanFinds
  <2> HIDE DEF s
  <2>3. s.val \in Int /\ s.val <= Infinity /\ \A i \in numbers : s.val <= r.a[i]
    BY <1>1, <1>2, <1>3, <2>2 DEF Beats, Best
  <2>4. ASSUME \A i \in Inputs : inp[i] = r.a[i]
        PROVE  Documented("Low Signal", nvl, inp) = s.val
    <3>1. Numbers(inp) = numbers /\ \A i \in numbers : inp[i] = r.a[i]
      BY <1>3, <1>4, <2>4
    <3>2. CASE numbers = {}
      <4>1. s.val = Infinity
        BY <1>2, <2>2, <3>2
      <4> QED
        BY <3>1, <3>2, <4>1 DEF Documented
    <3>3. CASE numbers # {}
      <4>1. \E i \in numbers : inp[i] = s.val
        <5>1. CASE s.val = Infinity
          <6>1. \A i \in numbers : r.a[i] = s.val
            BY <1>1, <1>3, <2>3, <5>1
          <6> QED
            BY <3>1, <3>3, <6>1
        <5>2. CASE s.val # Infinity
          BY <1>2, <2>2, <3>1, <5>2
        <5> QED
          BY <5>1, <5>2
      <4>2. /\ s.val \in {inp[i] : i \in Numbers(inp)}
            /\ \A i \in Numbers(inp) : inp[i] \in Int /\ s.val <= inp[i]
        BY <1>3, <2>3, <3>1, <4>1
      <4> QED
        BY <3>1, <3>3, <4>2, LowIsDocumented
    <3> QED
      BY <3>2, <3>3
  <2> QED
    BY <1>1, <1>7, <2>1, <2>2, <2>4
<1>8. CASE r.selm = "Median Signal"
  <2> DEFINE m == Median(r)
             all == Cardinality(numbers)
  <2>1. Selected(r) = m
    BY <1>8 DEF Selected
  <2>2. /\ m.seln = all /\ all \in 0 .. SEL_MAX
        /\ numbers = {} => m.val = NaN
        /\ numbers # {} => /\ m.val \in Int
                           /\ \E i \in numbers : r.a[i] = m.val
                           /\ 2 * Cardinality(Below(r, SEL_MAX, m.val)) <= all
                           /\ 2 * Cardinality(Below(r, SEL_MAX, m.val + 1)) > all
    BY MedianFinds DEF numbers
  <2> HIDE DEF m
  <2>3. ASSUME \A i \in Inputs : inp[i] = r.a[i]
        PROVE  Documented("Median Signal", nvl, inp) = m.val
    <3>1. Numbers(inp) = numbers /\ \A i \in numbers : inp[i] = r.a[i]
      BY <1>3, <1>4, <2>3
    <3>2. CASE numbers = {}
      BY <2>2, <3>1, <3>2 DEF Documented
    <3>3. CASE numbers # {}
      <4>1. {i \in Numbers(inp) : inp[i] < m.val} = Below(r, SEL_MAX, m.val)
        BY <3>1 DEF Below, numbers
      <4>2. {i \in Numbers(inp) : inp[i] <= m.val} = Below(r, SEL_MAX, m.val + 1)
        <5>1. \A i \in numbers : inp[i] <= m.val <=> r.a[i] < m.val + 1
          BY <1>3, <2>2, <3>1, <3>3
        <5> QED
          BY <3>1, <5>1 DEF Below, numbers
      <4>3. m.val \in {inp[i] : i \in Numbers(inp)} /\ \A i \in Numbers(inp) : inp[i] \in Int
        BY <1>3, <2>2, <3>1, <3>3
      <4>4. 2 * Cardinality({i \in Numbers(inp) : inp[i] < m.val}) <= Cardinality(Numbers(inp))
        BY <2>2, <3>1, <3>3, <4>1
      <4>5. 2 * Cardinality({i \in Numbers(inp) : inp[i] <= m.val}) > Cardinality(Numbers(inp))
        BY <2>2, <3>1, <3>3, <4>2
      <4>6. Numbers(inp) # {}
        BY <3>1, <3>3
      <4> QED
        BY <4>3, <4>4, <4>5, <4>6, MedianIsDocumented
    <3> QED
      BY <3>2, <3>3
  <2>4. m.val \in {r.a[i] : i \in Inputs} \cup {NaN}
    BY <1>3, <2>2
  <2> QED
    BY <1>8, <2>1, <2>2, <2>3, <2>4
<1> QED
  BY <1>5, <1>6, <1>7, <1>8 DEF Modes

-----------------------------------------------------------------------------
(* The stages of processing.                                               *)

\* The alarms there are.
LimitStats == {Limits.alarms[k].stat : k \in 1 .. Len(Limits.alarms)}
Stats == {"NO_ALARM", "UDF", "LINK", "SOFT"} \cup LimitStats

AlarmType == [stat : Stats, sevr : NO_ALARM .. INVALID_ALARM]

RecordType ==
    [selm : Modes, seln : Nat, a : [Fields -> Number], val : Number, udf : BOOLEAN,
     alarm : AlarmType, lalm : Int, mlst : Number, alst : Number, nlst : Nat,
     la : [Inputs -> Number]]

\* What the stages hand on.
StageType == [prec : RecordType, ok : BOOLEAN, alarm : AlarmType]

\* What a link to the index and those to the inputs may give.
IndexGiven == Nat \cup {Broken}
InputsGiven == [Inputs -> Number \cup {Broken}]

LEMMA SetSevrType ==
    ASSUME NEW alarm \in AlarmType, NEW stat \in Stats, NEW sevr \in NO_ALARM .. INVALID_ALARM
    PROVE  /\ recGblSetSevr(alarm, stat, sevr) \in AlarmType
           /\ recGblSetSevr(alarm, stat, sevr).sevr >= alarm.sevr
           /\ recGblSetSevr(alarm, stat, sevr).sevr >= sevr
           /\ sevr > alarm.sevr => recGblSetSevr(alarm, stat, sevr).stat = stat
           /\ ~(sevr > alarm.sevr) => recGblSetSevr(alarm, stat, sevr) = alarm
BY DEF recGblSetSevr, AlarmType, NO_ALARM, INVALID_ALARM

LEMMA QuietType == Quiet \in AlarmType /\ Quiet.sevr = NO_ALARM /\ Quiet.stat = "NO_ALARM"
BY DEF Quiet, AlarmType, Stats, NO_ALARM, INVALID_ALARM

LEMMA LinkAlarmType ==
    ASSUME NEW broken \in BOOLEAN
    PROVE  /\ LinkAlarm(broken) \in AlarmType
           /\ LinkAlarm(broken).stat \in {"NO_ALARM", "LINK"}
           /\ broken => LinkAlarm(broken).sevr = INVALID_ALARM
BY QuietType DEF LinkAlarm, recGblSetSevr, AlarmType, Stats, NO_ALARM, INVALID_ALARM

\* Reading inputs changes the inputs that are read.
LEMMA FetchedType ==
    ASSUME NEW p \in RecordType, NEW inp \in InputsGiven, NEW which, which \subseteq Inputs
    PROVE  /\ Fetched(p, inp, which) \in [Fields -> Number]
           /\ \A i \in Inputs : \/ Fetched(p, inp, which)[i] = p.a[i]
                                \/ i \in which /\ inp[i] # Broken /\ Fetched(p, inp, which)[i] = inp[i]
           /\ \A i \in which : inp[i] # Broken => Fetched(p, inp, which)[i] = inp[i]
<1>1. Inputs \subseteq Fields
  BY BigselAssumption DEF Inputs, Fields
<1>2. p.a \in [Fields -> Number]
  BY DEF RecordType
<1>3. \A i \in Inputs : inp[i] \in Number \cup {Broken}
  BY DEF InputsGiven
<1> QED
  BY <1>1, <1>2, <1>3 DEF Fetched

\* What fetch_values changes of a record, and the alarm it raises.
Fetching(p, nvl, inp, f) ==
    /\ f \in StageType
    /\ f.prec = [p EXCEPT !.seln = f.prec.seln, !.a = f.prec.a]
    /\ f.alarm.stat \in {"NO_ALARM", "LINK"}
    /\ f.prec.seln = p.seln \/ f.prec.seln = nvl
    /\ \A i \in Inputs : \/ f.prec.a[i] = p.a[i]
                         \/ inp[i] # Broken /\ f.prec.a[i] = inp[i]
    /\ ~f.ok => f.alarm.sevr = INVALID_ALARM
    /\ p.selm # "Specified" =>
          IF \A i \in Inputs : inp[i] # Broken
          THEN \A i \in Inputs : f.prec.a[i] = inp[i]
          ELSE f.alarm.sevr = INVALID_ALARM
    /\ p.selm = "Specified" /\ f.ok /\ f.prec.seln \in Inputs =>
          nvl \in Inputs /\ inp[nvl] # Broken /\ f.prec.a[f.prec.seln] = inp[nvl]

LEMMA FetchFacts ==
    ASSUME NEW p \in RecordType, NEW nvl \in IndexGiven, NEW inp \in InputsGiven
    PROVE  Fetching(p, nvl, inp, fetch_values(p, nvl, inp))
<1> USE DEF Fetching
<1> DEFINE f == fetch_values(p, nvl, inp)
<1>1. CASE p.selm = "Specified"
  <2> DEFINE seln == IF nvl = Broken THEN p.seln ELSE nvl
             read == nvl # Broken /\ seln \in Inputs
             bad == nvl = Broken \/ (read /\ inp[seln] = Broken)
             a == IF read THEN Fetched(p, inp, {seln}) ELSE p.a
             q == [p EXCEPT !.seln = seln, !.a = a]
  <2>1. f = [prec |-> q, ok |-> ~bad, alarm |-> LinkAlarm(bad)]
    <3>1. p.a = p.a /\ q = [p EXCEPT !.seln = seln, !.a = IF read THEN Fetched(p, inp, {seln}) ELSE @]
      BY DEF RecordType
    <3> QED
      BY <1>1, <3>1 DEF fetch_values, FetchSpecified
  <2>2. seln \in Nat /\ bad \in BOOLEAN
    BY DEF IndexGiven, RecordType
  <2>3. read => {seln} \subseteq Inputs
    OBVIOUS
  <2>4. /\ a \in [Fields -> Number]
        /\ \A i \in Inputs : a[i] = p.a[i] \/ (inp[i] # Broken /\ a[i] = inp[i])
        /\ read /\ inp[seln] # Broken => a[seln] = inp[seln]
    <3>1. p.a \in [Fields -> Number]
      BY DEF RecordType
    <3> QED
      BY <2>3, <3>1, FetchedType
  <2> HIDE DEF a, seln, bad
  <2>5. q \in RecordType /\ q.seln = seln /\ q.a = a
    BY <2>2, <2>4 DEF RecordType
  <2>6. f.prec = q /\ f.ok = ~bad /\ f.alarm = LinkAlarm(bad)
    BY <2>1
  <2>7. f \in StageType
    BY <2>1, <2>2, <2>5, LinkAlarmType DEF StageType
  <2>8. f.prec = [p EXCEPT !.seln = f.prec.seln, !.a = f.prec.a]
    BY <2>5, <2>6
  <2>9. f.alarm.stat \in {"NO_ALARM", "LINK"} /\ (~f.ok => f.alarm.sevr = INVALID_ALARM)
    BY <2>2, <2>6, LinkAlarmType
  <2>10. f.ok /\ f.prec.seln \in Inputs =>
            nvl \in Inputs /\ inp[nvl] # Broken /\ f.prec.a[f.prec.seln] = inp[nvl]
    BY <2>4, <2>5, <2>6 DEF bad, seln
  <2> QED
    BY <1>1, <2>4, <2>5, <2>6, <2>7, <2>8, <2>9, <2>10 DEF seln
<1>2. CASE p.selm # "Specified"
  <2> DEFINE a == Fetched(p, inp, Inputs)
             bad == \E i \in Inputs : inp[i] = Broken
             ok == inp[SEL_MAX - 1] # Broken
             q == [p EXCEPT !.a = a]
  <2>1. f = [prec |-> q, ok |-> ok, alarm |-> LinkAlarm(bad)]
    BY <1>2 DEF fetch_values, FetchAll
  <2>2. SEL_MAX - 1 \in Inputs
    BY BigselAssumption DEF Inputs
  <2>3. bad \in BOOLEAN /\ ok \in BOOLEAN /\ (~ok => bad)
    BY <2>2
  <2>4. /\ a \in [Fields -> Number]
        /\ \A i \in Inputs : a[i] = p.a[i] \/ (inp[i] # Broken /\ a[i] = inp[i])
        /\ \A i \in Inputs : inp[i] # Broken => a[i] = inp[i]
    BY FetchedType
  <2> HIDE DEF a
  <2>5. q \in RecordType /\ q.seln = p.seln /\ q.a = a
    BY <2>4 DEF RecordType
  <2>6. f.prec = q /\ f.ok = ok /\ f.alarm = LinkAlarm(bad)
    BY <2>1
  <2> HIDE DEF ok, bad
  <2>7. f \in StageType
    BY <2>1, <2>3, <2>5, LinkAlarmType DEF StageType
  <2>8. f.prec = [p EXCEPT !.seln = f.prec.seln, !.a = f.prec.a]
    BY <2>5, <2>6 DEF RecordType
  <2>9. f.alarm.stat \in {"NO_ALARM", "LINK"} /\ (bad => f.alarm.sevr = INVALID_ALARM)
    BY <2>3, <2>6, LinkAlarmType
  <2>10. /\ ~f.ok => f.alarm.sevr = INVALID_ALARM
         /\ f.prec.seln = p.seln
         /\ \A i \in Inputs : \/ f.prec.a[i] = p.a[i]
                              \/ inp[i] # Broken /\ f.prec.a[i] = inp[i]
    BY <2>3, <2>4, <2>5, <2>6, <2>9
  <2>11. IF \A i \in Inputs : inp[i] # Broken
         THEN \A i \in Inputs : f.prec.a[i] = inp[i]
         ELSE f.alarm.sevr = INVALID_ALARM
    BY <2>4, <2>5, <2>6, <2>9 DEF bad
  <2> HIDE DEF f
  <2> QED
    BY <1>2, <2>7, <2>8, <2>9, <2>10, <2>11 DEF f
<1> QED
  BY <1>1, <1>2

\* Inputs that are no larger than Infinity.
Finite(r) == \A i \in Inputs : r.a[i] # NaN => -Infinity <= r.a[i] /\ r.a[i] <= Infinity

\* What do_sel changes of a record: nothing but the alarm if no input has the
\* index, and what was selected otherwise.
Selecting(f, nvl, inp, g) ==
    /\ g \in StageType
    /\ g.prec = [f.prec EXCEPT !.val = g.prec.val, !.seln = g.prec.seln,
                               !.udf = g.prec.udf]
    /\ g.alarm.sevr >= f.alarm.sevr
    /\ g.alarm.stat \in {f.alarm.stat, "SOFT"}
    /\ \/ g.prec = f.prec /\ g.alarm.sevr = INVALID_ALARM
       \/ /\ g.prec.udf = (g.prec.val = NaN)
          /\ g.prec.seln = f.prec.seln \/ g.prec.seln \in 0 .. SEL_MAX
          /\ g.prec.val \in {f.prec.a[i] : i \in Inputs} \cup {NaN, Infinity, -Infinity}
          /\ f.prec.selm = "Specified" =>
                f.prec.seln \in Inputs /\ g.prec.val = f.prec.a[f.prec.seln]
          /\ f.prec.selm # "Specified" /\ (\A i \in Inputs : inp[i] = f.prec.a[i])
                => Documented(f.prec.selm, nvl, inp) = g.prec.val

LEMMA SelectFacts ==
    ASSUME NEW f \in StageType, Finite(f.prec), NEW nvl, NEW inp
    PROVE  Selecting(f, nvl, inp, do_sel(f))
<1> USE DEF Selecting
<1> DEFINE g == do_sel(f)
           r == f.prec
<1>1. r \in RecordType /\ f.alarm \in AlarmType /\ f.ok \in BOOLEAN
  BY DEF StageType
<1>2. CASE r.selm = "Specified" /\ r.seln >= SEL_MAX
  <2>1. g = [f EXCEPT !.alarm = recGblSetSevr(f.alarm, "SOFT", INVALID_ALARM)]
    BY <1>2 DEF do_sel, OutOfRange, StageType
  <2>2. /\ recGblSetSevr(f.alarm, "SOFT", INVALID_ALARM) \in AlarmType
        /\ recGblSetSevr(f.alarm, "SOFT", INVALID_ALARM).sevr = INVALID_ALARM
        /\ recGblSetSevr(f.alarm, "SOFT", INVALID_ALARM).stat \in {f.alarm.stat, "SOFT"}
        /\ f.alarm.sevr <= INVALID_ALARM
    BY <1>1 DEF recGblSetSevr, AlarmType, Stats, INVALID_ALARM, NO_ALARM
  <2>3. g \in StageType /\ g.prec = r /\ g.alarm = recGblSetSevr(f.alarm, "SOFT", INVALID_ALARM)
    BY <2>1, <2>2 DEF StageType
  <2>4. r = [r EXCEPT !.val = r.val, !.seln = r.seln, !.udf = r.udf]
    BY <1>1 DEF RecordType
  <2>5. g.alarm.sevr >= f.alarm.sevr
    BY <1>1, <2>2, <2>3 DEF AlarmType, INVALID_ALARM, NO_ALARM
  <2> HIDE DEF g, r
  <2>6. g.prec = [f.prec EXCEPT !.val = g.prec.val, !.seln = g.prec.seln, !.udf = g.prec.udf]
    BY <2>3, <2>4 DEF r
  <2> QED
    BY <2>2, <2>3, <2>5, <2>6 DEF g, r
<1>3. CASE ~(r.selm = "Specified" /\ r.seln >= SEL_MAX)
  <2> DEFINE s == Selected(r)
             q == [r EXCEPT !.val = s.val, !.seln = s.seln, !.udf = (s.val = NaN)]
  <2>1. Given2Sel(r) /\ r.selm \in Modes
    <3>1. Inputs \subseteq Fields
      BY BigselAssumption DEF Inputs, Fields
    <3> QED
      BY <1>1, <3>1 DEF RecordType, Given2Sel
  <2>2. r.selm = "Specified" => r.seln \in Inputs
    BY <1>1, <1>3, BigselAssumption DEF RecordType, Inputs
  <2>3. /\ s.val \in {r.a[i] : i \in Inputs} \cup {NaN, Infinity, -Infinity}
        /\ s.seln = r.seln \/ s.seln \in 0 .. SEL_MAX
        /\ r.selm = "Specified" => s.val = r.a[r.seln]
        /\ r.selm # "Specified" /\ (\A i \in Inputs : inp[i] = r.a[i])
              => Documented(r.selm, nvl, inp) = s.val
    BY <2>1, <2>2, SelectedIsDocumented DEF Finite
  <2>4. g = [f EXCEPT !.prec.val = s.val, !.prec.seln = s.seln, !.prec.udf = (s.val = NaN)]
    BY <1>3 DEF do_sel
  <2>5. s.val \in Number /\ s.seln \in Nat /\ (s.val = NaN) \in BOOLEAN
    BY <1>1, <2>1, <2>3, BigselAssumption DEF Given2Sel, Number, RecordType
  <2> HIDE DEF s
  <2>6. q \in RecordType /\ q.val = s.val /\ q.seln = s.seln /\ q.udf = (s.val = NaN)
    BY <1>1, <2>5 DEF RecordType
  <2>7. g = [f EXCEPT !.prec = q]
    BY <1>1, <2>4 DEF StageType, RecordType
  <2>8. g \in StageType /\ g.prec = q /\ g.alarm = f.alarm
    BY <2>6, <2>7 DEF StageType
  <2>9. q = [r EXCEPT !.val = q.val, !.seln = q.seln, !.udf = q.udf]
    BY <2>6
  <2>10. g.alarm.sevr >= f.alarm.sevr
    BY <1>1, <2>8 DEF AlarmType, INVALID_ALARM, NO_ALARM
  <2> HIDE DEF q, g, r
  <2>11. g.prec = [f.prec EXCEPT !.val = g.prec.val, !.seln = g.prec.seln, !.udf = g.prec.udf]
    BY <2>8, <2>9 DEF r
  <2> QED
    BY <2>2, <2>3, <2>6, <2>8, <2>10, <2>11 DEF g, r
<1> QED
  BY <1>2, <1>3

\* A set of positions has a first one.
LEMMA FirstPosition ==
    ASSUME NEW m \in Nat, NEW T \in SUBSET (1 .. m), T # {}
    PROVE  \E k \in T : \A l \in T : k <= l
<1> DEFINE U == {m + 1 - k : k \in T}
<1>1. U \in SUBSET (1 .. m) /\ U # {}
  <2>1. \A k \in T : m + 1 - k \in 1 .. m
    OBVIOUS
  <2>2. PICK k \in T : TRUE
    OBVIOUS
  <2>3. m + 1 - k \in U
    BY <2>2
  <2> QED
    BY <2>1, <2>3
<1>2. PICK u \in U : \A w \in U : u >= w
  BY <1>1, LastPosition
<1>3. PICK k \in T : u = m + 1 - k
  OBVIOUS
<1>4. \A l \in T : u >= m + 1 - l
  BY <1>2
<1>5. \A l \in T : k <= l
  BY <1>3, <1>4
<1> QED
  BY <1>5

Alarms == 1 .. Len(Limits.alarms)

LEMMA LimitsType ==
    /\ Len(Limits.alarms) \in Nat
    /\ \A k \in Alarms : /\ Limits.alarms[k].level \in Int
                         /\ Limits.alarms[k].sevr \in NO_ALARM .. INVALID_ALARM
                         /\ Limits.alarms[k].upper \in BOOLEAN
                         /\ Limits.alarms[k].stat \in Stats
    /\ Limits.hyst \in Int /\ Limits.mdel \in Int /\ Limits.adel \in Int
    /\ Limits.udfs \in NO_ALARM .. INVALID_ALARM
<1> DEFINE T == [stat : STRING, sevr : NO_ALARM .. INVALID_ALARM, level : Int, upper : BOOLEAN]
<1>1. Limits.alarms \in Seq(T)
  BY LimitsAssumption
<1>2. Len(Limits.alarms) \in Nat /\ \A k \in Alarms : Limits.alarms[k] \in T
  <2> HIDE DEF T
  <2> QED
    BY <1>1 DEF Alarms
<1>3. \A k \in Alarms : Limits.alarms[k].stat \in Stats
  BY DEF Stats, LimitStats, Alarms
<1> QED
  BY <1>2, <1>3, LimitsAssumption

\* checkAlarms raises an alarm or leaves the record and its alarm as they are,
\* but for LALM, which then is the level of the limit.
LEMMA CheckFacts ==
    ASSUME NEW g \in StageType, g.prec.val = NaN => g.prec.udf
    PROVE  LET h == checkAlarms(g)
           IN  /\ h \in StageType
               /\ h.prec = [g.prec EXCEPT !.lalm = h.prec.lalm]
               /\ h.alarm.sevr >= g.alarm.sevr
               /\ h.alarm.sevr = NO_ALARM /\ ~g.prec.udf => Exceeded(g.prec) = {}
               /\ \A k \in Alarms :
                     g.alarm.stat \notin LimitStats /\ h.alarm.stat = Limits.alarms[k].stat
                        => /\ h.prec.lalm = Limits.alarms[k].level
                           /\ Limits.alarms[k].sevr # NO_ALARM
<1> DEFINE h == checkAlarms(g)
<1>1. /\ g.prec \in RecordType /\ g.alarm \in AlarmType /\ g.alarm.sevr \in Int
      /\ g.alarm.sevr >= NO_ALARM /\ g.alarm.sevr <= INVALID_ALARM
  BY DEF StageType, AlarmType, NO_ALARM, INVALID_ALARM
<1>2. \A k \in Alarms : Limits.alarms[k].stat \notin {"NO_ALARM", "UDF", "LINK", "SOFT"}
  BY LimitsAssumption DEF Alarms
<1>3. CASE g.prec.udf
  <2> DEFINE al == recGblSetSevr(g.alarm, "UDF", Limits.udfs)
  <2>1. h = [g EXCEPT !.alarm = al]
    BY <1>3 DEF checkAlarms, StageType
  <2>2. al \in AlarmType /\ al.sevr >= g.alarm.sevr /\ al.stat \in {g.alarm.stat, "UDF"}
    BY <1>1, LimitsType DEF recGblSetSevr, AlarmType, Stats, INVALID_ALARM, NO_ALARM
  <2> HIDE DEF al
  <2>3. h \in StageType /\ h.prec = g.prec /\ h.alarm = al
    BY <2>1, <2>2 DEF StageType
  <2>4. g.prec = [g.prec EXCEPT !.lalm = g.prec.lalm]
    BY <1>1 DEF RecordType
  <2>5. \A k \in Alarms : g.alarm.stat \notin LimitStats => al.stat # Limits.alarms[k].stat
    BY <1>2, <2>2 DEF LimitStats, Alarms
  <2> HIDE DEF h
  <2> QED
    BY <1>3, <2>2, <2>3, <2>4, <2>5 DEF h
<1>4. CASE ~g.prec.udf /\ Exceeded(g.prec) = {}
  <2>1. h = [g EXCEPT !.prec.lalm = g.prec.val]
    BY <1>4 DEF checkAlarms
  <2>2. g.prec.val \in Int
    BY <1>1, <1>4 DEF RecordType, Number
  <2> DEFINE q == [g.prec EXCEPT !.lalm = g.prec.val]
  <2>3. q \in RecordType /\ q.lalm = g.prec.val
    BY <1>1, <2>2 DEF RecordType
  <2>4. h = [g EXCEPT !.prec = q]
    BY <1>1, <2>1 DEF StageType, RecordType
  <2>5. h \in StageType /\ h.prec = q /\ h.alarm = g.alarm
    BY <2>3, <2>4 DEF StageType
  <2>6. q = [g.prec EXCEPT !.lalm = q.lalm]
    BY <2>3
  <2>7. \A k \in Alarms : g.alarm.stat \notin LimitStats => g.alarm.stat # Limits.alarms[k].stat
    BY DEF LimitStats, Alarms
  <2> HIDE DEF q, h
  <2> QED
    BY <1>1, <1>4, <2>5, <2>6, <2>7 DEF h
<1>5. CASE ~g.prec.udf /\ Exceeded(g.prec) # {}
  <2> DEFINE E == Exceeded(g.prec)
             k == CHOOSE j \in E : \A l \in E : j <= l
             limit == Limits.alarms[k]
             al == recGblSetSevr(g.alarm, limit.stat, limit.sevr)
             lalm == IF limit.sevr > g.alarm.sevr THEN limit.level ELSE g.prec.lalm
             q == [g.prec EXCEPT !.lalm = lalm]
  <2>1. E \in SUBSET Alarms /\ \A j \in E : Limits.alarms[j].sevr # NO_ALARM
    BY DEF Exceeded, Alarms
  <2>2. k \in E
    <3>1. \E j \in E : \A l \in E : j <= l
      BY <1>5, <2>1, LimitsType, FirstPosition DEF Alarms
    <3> HIDE DEF E
    <3> QED
      BY <3>1
  <2>3. h = [g EXCEPT !.alarm = al, !.prec.lalm = lalm]
    BY <1>1, <1>5 DEF checkAlarms, StageType, RecordType
  <2> HIDE DEF E, k
  <2>4. /\ k \in Alarms /\ limit.sevr \in NO_ALARM .. INVALID_ALARM /\ limit.sevr # NO_ALARM
        /\ limit.level \in Int /\ limit.stat \in Stats
    BY <2>1, <2>2, LimitsType
  <2> HIDE DEF limit
  <2>5. /\ al \in AlarmType /\ al.sevr >= g.alarm.sevr /\ al.sevr >= limit.sevr
        /\ limit.sevr > g.alarm.sevr => al.stat = limit.stat
        /\ ~(limit.sevr > g.alarm.sevr) => al = g.alarm
    BY <1>1, <2>4, SetSevrType
  <2> HIDE DEF al
  <2>6. lalm \in Int
    BY <1>1, <2>4 DEF RecordType
  <2> HIDE DEF lalm
  <2>7. q \in RecordType /\ q.lalm = lalm
    BY <1>1, <2>6 DEF RecordType
  <2>8. h = [g EXCEPT !.alarm = al, !.prec = q]
    BY <1>1, <2>3 DEF StageType, RecordType
  <2>9. h \in StageType /\ h.prec = q /\ h.alarm = al
    BY <2>5, <2>7, <2>8 DEF StageType
  <2>10. q = [g.prec EXCEPT !.lalm = q.lalm]
    BY <2>7
  <2>11. al.sevr # NO_ALARM
    BY <2>4, <2>5 DEF AlarmType, NO_ALARM, INVALID_ALARM
  <2>12. ASSUME NEW j \in Alarms, g.alarm.stat \notin LimitStats, al.stat = Limits.alarms[j].stat
         PROVE  lalm = Limits.alarms[j].level /\ Limits.alarms[j].sevr # NO_ALARM
    <3>1. al # g.alarm
      BY <2>12 DEF LimitStats, Alarms
    <3>2. limit.sevr > g.alarm.sevr /\ al.stat = limit.stat
      BY <2>5, <3>1
    <3>3. j = k
      BY <2>4, <2>12, <3>2, LimitsAssumption DEF Alarms, limit
    <3> QED
      BY <2>4, <3>2, <3>3 DEF limit, lalm
  <2> HIDE DEF q, h
  <2> QED
    BY <1>5, <2>5, <2>7, <2>9, <2>10, <2>11, <2>12 DEF h
<1> QED
  BY <1>3, <1>4, <1>5

\* What monitor makes of a record, and the fields it posts.
LEMMA MonitorFacts ==
    ASSUME NEW h \in StageType
    PROVE  LET r == monitor(h)
           IN  /\ r.prec \in RecordType
               /\ r.prec = [h.prec EXCEPT !.alarm = h.alarm, !.mlst = r.prec.mlst,
                                          !.alst = r.prec.alst, !.nlst = h.prec.seln,
                                          !.la = [i \in Inputs |-> h.prec.a[i]]]
               /\ IF Moved(h.prec.mlst, h.prec.val, Limits.mdel)
                  THEN r.prec.mlst = h.prec.val /\ r.posts.val
                  ELSE r.prec.mlst = h.prec.mlst
               /\ r.posts.seln <=> h.prec.nlst # h.prec.seln
               /\ \A i \in Inputs : h.prec.a[i] # h.prec.la[i] => i \in r.posts.inputs
<1> DEFINE r == monitor(h)
           p == h.prec
           value == Moved(p.mlst, p.val, Limits.mdel)
           archive == Moved(p.alst, p.val, Limits.adel)
           mlst == IF value THEN p.val ELSE p.mlst
           alst == IF archive THEN p.val ELSE p.alst
           la == [i \in Inputs |-> p.a[i]]
           q == [p EXCEPT !.alarm = h.alarm, !.mlst = mlst, !.alst = alst, !.nlst = p.seln,
                          !.la = la]
           posts == [val    |-> value \/ h.alarm # p.alarm,
                     seln   |-> p.nlst # p.seln,
                     inputs |-> {i \in Inputs : Differs(p.a[i], p.la[i])}]
<1>1. p \in RecordType /\ h.alarm \in AlarmType
  BY DEF StageType
<1>2. q = [p EXCEPT !.alarm = h.alarm, !.mlst = Monitored(p, value),
                    !.alst = IF archive THEN p.val ELSE @, !.nlst = p.seln, !.la = la]
  BY <1>1 DEF Monitored, RecordType
<1>3. r = [prec |-> q, posts |-> posts]
  BY <1>2 DEF monitor
<1>4. r.prec = q /\ r.posts = posts
  BY <1>3
<1>5. mlst \in Number /\ alst \in Number /\ p.seln \in Nat
  BY <1>1 DEF RecordType
<1>6. la \in [Inputs -> Number]
  <2>1. Inputs \subseteq Fields
    BY BigselAssumption DEF Inputs, Fields
  <2> QED
    BY <1>1, <2>1 DEF RecordType
<1> HIDE DEF la, alst
<1>7. q \in RecordType /\ q.mlst = mlst /\ q.alst = alst
  <2> HIDE DEF mlst
  <2> QED
    BY <1>1, <1>5, <1>6 DEF RecordType
<1>8. q = [h.prec EXCEPT !.alarm = h.alarm, !.mlst = q.mlst, !.alst = q.alst,
                         !.nlst = h.prec.seln, !.la = [i \in Inputs |-> h.prec.a[i]]]
  BY <1>7 DEF la
<1>9. posts.val = (value \/ h.alarm # p.alarm) /\ posts.seln = (p.nlst # p.seln)
      /\ posts.inputs = {i \in Inputs : Differs(p.a[i], p.la[i])}
  OBVIOUS
<1>10. \A i \in Inputs : p.a[i] # p.la[i] => i \in posts.inputs
  BY <1>9 DEF Differs
<1> HIDE DEF q, posts, r
<1> QED
  BY <1>4, <1>7, <1>8, <1>9, <1>10 DEF r

\* What the record and its alarm are once a value is selected: an alarm below
\* INVALID vouches for the value.
Outcome(selm, nvl, inp) ==
    IF Readable(selm, nvl, inp) THEN Documented(selm, nvl, inp) ELSE Broken

InputsFinite(inp) ==
    \A i \in Inputs : inp[i] \in Int => -Infinity <= inp[i] /\ inp[i] <= Infinity

Choosing(p, nvl, inp, e) ==
    /\ e \in StageType
    /\ e.prec.selm = p.selm /\ e.prec.lalm = p.lalm /\ e.prec.mlst = p.mlst
    /\ e.prec.nlst = p.nlst /\ e.prec.la = p.la /\ e.prec.alarm = p.alarm
    /\ e.prec.seln \in {p.seln, nvl} \cup 0 .. SEL_MAX
    /\ \A i \in Inputs : \/ e.prec.a[i] = p.a[i]
                         \/ inp[i] # Broken /\ e.prec.a[i] = inp[i]
    /\ e.prec.val \in {p.val, NaN, Infinity, -Infinity} \cup {e.prec.a[i] : i \in Inputs}
    /\ e.prec.val = NaN => e.prec.udf
    /\ e.alarm.stat \in {"NO_ALARM", "LINK", "SOFT"}
    /\ e.alarm.sevr < INVALID_ALARM => e.prec.val = Outcome(p.selm, nvl, inp)

LEMMA ChoiceFacts ==
    ASSUME NEW p \in RecordType, NEW nvl \in IndexGiven, NEW inp \in InputsGiven,
           Finite(p), InputsFinite(inp), p.val = NaN => p.udf
    PROVE  LET f == fetch_values(p, nvl, inp)
           IN  Choosing(p, nvl, inp, IF f.ok THEN do_sel(f) ELSE f)
<1> DEFINE f == fetch_values(p, nvl, inp)
           e == IF f.ok THEN do_sel(f) ELSE f
<1> SUFFICES Choosing(p, nvl, inp, e)
  OBVIOUS
<1>0. Fetching(p, nvl, inp, f)
  BY FetchFacts
<1> HIDE DEF f, e
<1>1. /\ f \in StageType
      /\ f.prec = [p EXCEPT !.seln = f.prec.seln, !.a = f.prec.a]
      /\ f.alarm.stat \in {"NO_ALARM", "LINK"}
      /\ f.prec.seln = p.seln \/ f.prec.seln = nvl
      /\ \A i \in Inputs : f.prec.a[i] = p.a[i] \/ (inp[i] # Broken /\ f.prec.a[i] = inp[i])
      /\ ~f.ok => f.alarm.sevr = INVALID_ALARM
      /\ p.selm # "Specified" =>
            IF \A i \in Inputs : inp[i] # Broken
            THEN \A i \in Inputs : f.prec.a[i] = inp[i]
            ELSE f.alarm.sevr = INVALID_ALARM
      /\ p.selm = "Specified" /\ f.ok /\ f.prec.seln \in Inputs =>
            nvl \in Inputs /\ inp[nvl] # Broken /\ f.prec.a[f.prec.seln] = inp[nvl]
  BY <1>0 DEF Fetching
<1>2. /\ f.prec.selm = p.selm /\ f.prec.lalm = p.lalm /\ f.prec.mlst = p.mlst
      /\ f.prec.nlst = p.nlst /\ f.prec.la = p.la /\ f.prec.alarm = p.alarm
      /\ f.prec.val = p.val /\ f.prec.udf = p.udf
  BY <1>1 DEF RecordType
<1>3. CASE ~f.ok
  <2>1. e = f
    BY <1>3 DEF e
  <2>2. ~(f.alarm.sevr < INVALID_ALARM)
    BY <1>1, <1>3 DEF INVALID_ALARM
  <2> QED
    BY <1>1, <1>2, <2>1, <2>2 DEF Choosing
<1>4. CASE f.ok
  <2>1. e = do_sel(f)
    BY <1>4 DEF e
  <2>2. Finite(f.prec)
    <3>1. \A i \in Inputs : inp[i] \in Int \cup {NaN, Broken}
      BY DEF InputsGiven, Number
    <3> QED
      BY <1>1, <3>1 DEF Finite, InputsFinite
  <2>0. Selecting(f, nvl, inp, e)
    BY <1>1, <2>1, <2>2, SelectFacts
  <2>3. /\ e \in StageType
        /\ e.prec = [f.prec EXCEPT !.val = e.prec.val, !.seln = e.prec.seln,
                                   !.udf = e.prec.udf]
        /\ e.alarm.sevr >= f.alarm.sevr
        /\ e.alarm.stat \in {f.alarm.stat, "SOFT"}
        /\ \/ e.prec = f.prec /\ e.alarm.sevr = INVALID_ALARM
           \/ /\ e.prec.udf = (e.prec.val = NaN)
              /\ e.prec.seln = f.prec.seln \/ e.prec.seln \in 0 .. SEL_MAX
              /\ e.prec.val \in {f.prec.a[i] : i \in Inputs} \cup {NaN, Infinity, -Infinity}
              /\ f.prec.selm = "Specified" =>
                    f.prec.seln \in Inputs /\ e.prec.val = f.prec.a[f.prec.seln]
              /\ f.prec.selm # "Specified" /\ (\A i \in Inputs : inp[i] = f.prec.a[i])
                    => Documented(f.prec.selm, nvl, inp) = e.prec.val
    BY <2>0 DEF Selecting
  <2>4. f.prec \in RecordType
    BY <1>1 DEF StageType
  <2>5. /\ e.prec.selm = p.selm /\ e.prec.lalm = p.lalm /\ e.prec.mlst = p.mlst
        /\ e.prec.nlst = p.nlst /\ e.prec.la = p.la /\ e.prec.alarm = p.alarm
        /\ e.prec.a = f.prec.a
    BY <1>2, <2>3, <2>4 DEF RecordType
  <2>6. e.prec.seln \in {p.seln, nvl} \cup 0 .. SEL_MAX
    BY <1>1, <2>3
  <2>7. e.prec.val \in {p.val, NaN, Infinity, -Infinity} \cup {e.prec.a[i] : i \in Inputs}
    BY <1>2, <2>3, <2>5
  <2>8. e.prec.val = NaN => e.prec.udf
    BY <1>2, <2>3
  <2>9. e.alarm.stat \in {"NO_ALARM", "LINK", "SOFT"}
    BY <1>1, <2>3
  <2>10. ASSUME e.alarm.sevr < INVALID_ALARM
         PROVE  e.prec.val = Outcome(p.selm, nvl, inp)
    <3>1. e.alarm.sevr # INVALID_ALARM /\ f.alarm.sevr # INVALID_ALARM
      BY <1>1, <2>3, <2>10 DEF StageType, AlarmType, INVALID_ALARM, NO_ALARM
    <3>2. CASE p.selm = "Specified"
      <4>1. f.prec.seln \in Inputs /\ e.prec.val = f.prec.a[f.prec.seln]
        BY <1>2, <2>3, <3>1, <3>2
      <4>2. nvl \in Inputs /\ inp[nvl] # Broken /\ e.prec.val = inp[nvl]
        BY <1>1, <1>4, <3>2, <4>1
      <4>3. Documented(p.selm, nvl, inp) = inp[nvl] /\ Readable(p.selm, nvl, inp)
        BY <3>2, <4>2 DEF Documented, Readable
      <4> QED
        BY <4>2, <4>3 DEF Outcome
    <3>3. CASE p.selm # "Specified"
      <4>1. \A i \in Inputs : inp[i] # Broken /\ f.prec.a[i] = inp[i]
        BY <1>1, <3>1, <3>3
      <4>2. Documented(p.selm, nvl, inp) = e.prec.val
        BY <1>2, <2>3, <3>1, <3>3, <4>1
      <4>3. Readable(p.selm, nvl, inp)
        BY <3>3, <4>1 DEF Readable
      <4> QED
        BY <4>2, <4>3 DEF Outcome
    <3> QED
      BY <3>2, <3>3
  <2> QED
    BY <1>1, <2>3, <2>5, <2>6, <2>7, <2>8, <2>9, <2>10 DEF Choosing
<1> QED
  BY <1>3, <1>4

\* What processing makes of a record.
Processing(p, nvl, inp, x) ==
    /\ x.prec \in RecordType
    /\ x.prec.seln \in {p.seln, nvl} \cup 0 .. SEL_MAX
    /\ \A i \in Inputs : \/ x.prec.a[i] = p.a[i]
                         \/ inp[i] # Broken /\ x.prec.a[i] = inp[i]
    /\ x.prec.val \in {p.val, NaN, Infinity, -Infinity} \cup {x.prec.a[i] : i \in Inputs}
    /\ x.prec.val = NaN => x.prec.udf
    /\ x.prec.alarm.sevr < INVALID_ALARM => x.prec.val = Outcome(p.selm, nvl, inp)
    /\ x.prec.alarm.sevr = NO_ALARM /\ ~x.prec.udf =>
          /\ x.prec.val # NaN
          /\ \A k \in Alarms : Limits.alarms[k].sevr # NO_ALARM =>
                ~Exceeds([p EXCEPT !.val = x.prec.val], Limits.alarms[k])
    /\ \A k \in Alarms : x.prec.alarm.stat = Limits.alarms[k].stat =>
          /\ x.prec.lalm = Limits.alarms[k].level
          /\ Limits.alarms[k].sevr # NO_ALARM
    /\ x.prec.nlst = x.prec.seln
    /\ \A i \in Inputs : x.prec.la[i] = x.prec.a[i]
    /\ IF Moved(p.mlst, x.prec.val, Limits.mdel)
       THEN x.prec.mlst = x.prec.val /\ x.posts.val
       ELSE x.prec.mlst = p.mlst
    /\ x.posts.seln <=> p.nlst # x.prec.seln
    /\ \A i \in Inputs : x.prec.a[i] # p.la[i] => i \in x.posts.inputs

LEMMA ProcessFacts ==
    ASSUME NEW p \in RecordType, NEW nvl \in IndexGiven, NEW inp \in InputsGiven,
           Finite(p), InputsFinite(inp), p.val = NaN => p.udf,
           NEW x \in process(p, nvl, inp)
    PROVE  Processing(p, nvl, inp, x)
<1> DEFINE f == fetch_values(p, nvl, inp)
           e == IF f.ok THEN do_sel(f) ELSE f
           h == checkAlarms(e)
<1>1. x = monitor(h)
  BY DEF process
<1>0. Choosing(p, nvl, inp, e)
  BY ChoiceFacts
<1> HIDE DEF e, f
<1>2. /\ e \in StageType
      /\ e.prec.selm = p.selm /\ e.prec.lalm = p.lalm /\ e.prec.mlst = p.mlst
      /\ e.prec.nlst = p.nlst /\ e.prec.la = p.la /\ e.prec.alarm = p.alarm
      /\ e.prec.seln \in {p.seln, nvl} \cup 0 .. SEL_MAX
      /\ \A i \in Inputs : e.prec.a[i] = p.a[i] \/ (inp[i] # Broken /\ e.prec.a[i] = inp[i])
      /\ e.prec.val \in {p.val, NaN, Infinity, -Infinity} \cup {e.prec.a[i] : i \in Inputs}
      /\ e.prec.val = NaN => e.prec.udf
      /\ e.alarm.stat \in {"NO_ALARM", "LINK", "SOFT"}
      /\ e.alarm.sevr < INVALID_ALARM => e.prec.val = Outcome(p.selm, nvl, inp)
  BY <1>0 DEF Choosing
<1>3. /\ h \in StageType
      /\ h.prec = [e.prec EXCEPT !.lalm = h.prec.lalm]
      /\ h.alarm.sevr >= e.alarm.sevr
      /\ h.alarm.sevr = NO_ALARM /\ ~e.prec.udf => Exceeded(e.prec) = {}
      /\ \A k \in Alarms :
            e.alarm.stat \notin LimitStats /\ h.alarm.stat = Limits.alarms[k].stat
               => h.prec.lalm = Limits.alarms[k].level /\ Limits.alarms[k].sevr # NO_ALARM
  BY <1>2, CheckFacts
<1> HIDE DEF h
<1>4. /\ x.prec \in RecordType
      /\ x.prec = [h.prec EXCEPT !.alarm = h.alarm, !.mlst = x.prec.mlst,
                                 !.alst = x.prec.alst, !.nlst = h.prec.seln,
                                 !.la = [i \in Inputs |-> h.prec.a[i]]]
      /\ IF Moved(h.prec.mlst, h.prec.val, Limits.mdel)
         THEN x.prec.mlst = h.prec.val /\ x.posts.val
         ELSE x.prec.mlst = h.prec.mlst
      /\ x.posts.seln <=> h.prec.nlst # h.prec.seln
      /\ \A i \in Inputs : h.prec.a[i] # h.prec.la[i] => i \in x.posts.inputs
  BY <1>1, <1>3, MonitorFacts
<1>5. e.prec \in RecordType /\ h.prec \in RecordType /\ e.alarm \in AlarmType /\ h.alarm \in AlarmType
  BY <1>2, <1>3 DEF StageType
<1>6. /\ h.prec.selm = e.prec.selm /\ h.prec.seln = e.prec.seln /\ h.prec.a = e.prec.a
      /\ h.prec.val = e.prec.val /\ h.prec.udf = e.prec.udf /\ h.prec.mlst = e.prec.mlst
      /\ h.prec.nlst = e.prec.nlst /\ h.prec.la = e.prec.la
  BY <1>3, <1>5 DEF RecordType
<1>7. /\ x.prec.seln = h.prec.seln /\ x.prec.a = h.prec.a /\ x.prec.val = h.prec.val
      /\ x.prec.udf = h.prec.udf /\ x.prec.alarm = h.alarm /\ x.prec.lalm = h.prec.lalm
      /\ x.prec.nlst = h.prec.seln /\ x.prec.la = [i \in Inputs |-> h.prec.a[i]]
  BY <1>4, <1>5 DEF RecordType
<1>8. e.alarm.stat \notin LimitStats
  BY <1>2, LimitsAssumption DEF LimitStats
<1>9. e.alarm.sevr \in Int /\ h.alarm.sevr \in Int /\ INVALID_ALARM \in Int /\ NO_ALARM < INVALID_ALARM
  BY <1>5 DEF AlarmType, INVALID_ALARM, NO_ALARM
<1>10. x.prec.alarm.sevr < INVALID_ALARM => x.prec.val = Outcome(p.selm, nvl, inp)
  BY <1>2, <1>3, <1>6, <1>7, <1>9
<1>11. ASSUME x.prec.alarm.sevr = NO_ALARM, ~x.prec.udf
       PROVE  /\ x.prec.val # NaN
              /\ \A k \in Alarms : Limits.alarms[k].sevr # NO_ALARM =>
                    ~Exceeds([p EXCEPT !.val = x.prec.val], Limits.alarms[k])
  <2>1. ~e.prec.udf /\ Exceeded(e.prec) = {}
    BY <1>3, <1>6, <1>7, <1>11
  <2>2. \A k \in Alarms : Limits.alarms[k].sevr # NO_ALARM => ~Exceeds(e.prec, Limits.alarms[k])
    BY <2>1 DEF Exceeded, Alarms
  <2> DEFINE q == [p EXCEPT !.val = x.prec.val]
  <2>3. q.val = e.prec.val /\ q.lalm = e.prec.lalm
    BY <1>2, <1>6, <1>7 DEF RecordType
  <2> HIDE DEF q
  <2>4. \A limit : Exceeds(q, limit) = Exceeds(e.prec, limit)
    BY <2>3 DEF Exceeds
  <2>5. e.prec.val # NaN
    BY <1>2, <2>1
  <2> QED
    BY <1>6, <1>7, <2>2, <2>4, <2>5 DEF q
<1>12. \A k \in Alarms : x.prec.alarm.stat = Limits.alarms[k].stat =>
          x.prec.lalm = Limits.alarms[k].level /\ Limits.alarms[k].sevr # NO_ALARM
  BY <1>3, <1>7, <1>8
<1>13. /\ x.prec.seln \in {p.seln, nvl} \cup 0 .. SEL_MAX
       /\ \A i \in Inputs : \/ x.prec.a[i] = p.a[i]
                            \/ inp[i] # Broken /\ x.prec.a[i] = inp[i]
       /\ x.prec.val \in {p.val, NaN, Infinity, -Infinity} \cup {x.prec.a[i] : i \in Inputs}
       /\ x.prec.val = NaN => x.prec.udf
  BY <1>2, <1>6, <1>7
<1>14. /\ x.prec.nlst = x.prec.seln
       /\ \A i \in Inputs : x.prec.la[i] = x.prec.a[i]
       /\ x.posts.seln <=> p.nlst # x.prec.seln
       /\ \A i \in Inputs : x.prec.a[i] # p.la[i] => i \in x.posts.inputs
  BY <1>2, <1>4, <1>6, <1>7
<1>15. IF Moved(p.mlst, x.prec.val, Limits.mdel)
       THEN x.prec.mlst = x.prec.val /\ x.posts.val
       ELSE x.prec.mlst = p.mlst
  BY <1>2, <1>4, <1>6, <1>7
<1> QED
  BY <1>4, <1>10, <1>11, <1>12, <1>13, <1>14, <1>15 DEF Processing

-----------------------------------------------------------------------------
(* The inductive invariant.                                                *)

RecordInv ==
    /\ prec \in RecordType
    /\ prec.seln \in Indices \cup 0 .. SEL_MAX
    /\ \A i \in Inputs : prec.a[i] \in Values \cup {NaN} /\ prec.la[i] \in Values \cup {NaN, 0}
    /\ prec.val \in Values \cup {NaN, 0, Infinity, -Infinity}
    /\ shown.val \in Values \cup {NaN, 0, Infinity, -Infinity}
    /\ prec.val = NaN => prec.udf

\* LALM is the level of the limit whose alarm is shown: this is what keeps the
\* alarm up within the hysteresis.
AlarmInv ==
    \A k \in Alarms : prec.alarm.stat = Limits.alarms[k].stat =>
        prec.lalm = Limits.alarms[k].level /\ Limits.alarms[k].sevr # NO_ALARM

\* NLST and the last inputs are what the client knows.  MLST is within the
\* deadband of what it was told and of VAL.
ClientInv ==
    /\ prec # Fresh(prec.selm) =>
          prec.nlst = prec.seln /\ \A i \in Inputs : prec.la[i] = prec.a[i]
    /\ shown.seln = prec.seln
    /\ \A i \in Inputs : shown.a[i] = prec.a[i]
    /\ ~Moved(shown.val, prec.mlst, Limits.mdel)
    /\ ~Moved(prec.mlst, prec.val, Limits.mdel)

BigselInv == RecordInv /\ OnlyTheTruthIsValid /\ AlarmInv

LEMMA ValuesAreNumbers ==
    /\ Inputs \subseteq Fields /\ Values \subseteq Int /\ Indices \subseteq Nat
    /\ NaN \notin Int /\ Broken \notin Int /\ Broken # NaN /\ Infinity \in Int
    /\ \A v \in Values : -Infinity <= v /\ v <= Infinity
    /\ SEL_MAX \in Nat /\ SEL_MAX # 0
<1>1. /\ SEL_MAX \in Nat \ {0} /\ NFields \in Nat /\ SEL_MAX <= NFields
      /\ Infinity \in Int /\ NaN \notin Int /\ Broken \notin Int \cup {NaN}
  BY BigselAssumption
<1>2. \A v \in Values : v \in -Infinity .. Infinity
  BY RecordAssumption
<1> QED
  BY <1>1, <1>2, RecordAssumption DEF Inputs, Fields

\* The record after init_record.
LEMMA FreshFacts ==
    ASSUME NEW selm \in Modes
    PROVE  LET r == Fresh(selm)
           IN  /\ r \in RecordType /\ r.selm = selm /\ r.seln = 0 /\ r.val = 0 /\ r.mlst = 0
               /\ r.udf = TRUE /\ r.alarm = [stat |-> "UDF", sevr |-> INVALID_ALARM]
               /\ \A i \in Inputs : r.a[i] = NaN /\ r.la[i] = 0
<1> DEFINE a == [i \in Fields |-> IF i \in Inputs THEN NaN ELSE 0]
           la == [i \in Inputs |-> 0]
           al == [stat |-> "UDF", sevr |-> INVALID_ALARM]
<1>1. Fresh(selm) = [selm |-> selm, seln |-> 0, a |-> a, val |-> 0, udf |-> TRUE, alarm |-> al,
                     lalm |-> 0, mlst |-> 0, alst |-> 0, nlst |-> 0, la |-> la]
  <2> DEFINE zero == [i \in Fields |-> 0]
             none == [i \in Inputs |-> NaN]
             r == [selm |-> selm, seln |-> 0, a |-> zero, val |-> 0, udf |-> TRUE, alarm |-> al,
                   lalm |-> 0, mlst |-> 0, alst |-> 0, nlst |-> 0, la |-> la]
             b == [i \in Fields |-> IF i \in Inputs THEN none[i] ELSE r.a[i]]
  <2>1. Fresh(selm) = [r EXCEPT !.a = b]
    BY DEF Fresh, init_record
  <2>2. r.a = zero
    OBVIOUS
  <2>3. b = a
    BY <2>2
  <2> HIDE DEF a, b, zero, al, la
  <2> QED
    BY <2>1, <2>3
<1>2. a \in [Fields -> Number] /\ la \in [Inputs -> Number] /\ al \in AlarmType
  BY DEF Number, AlarmType, Stats, INVALID_ALARM, NO_ALARM
<1>3. \A i \in Inputs : a[i] = NaN /\ la[i] = 0
  BY ValuesAreNumbers
<1> HIDE DEF a, la, al
<1>4. Fresh(selm) \in RecordType
  BY <1>1, <1>2 DEF RecordType, Number
<1> QED
  BY <1>1, <1>3, <1>4 DEF al

\* Every step processes the record once, with what its links may give.
LEMMA StepFacts ==
    ASSUME RecordInv, Next
    PROVE  \E nvl \in Indices \cup {Broken}, inp \in [Inputs -> Given] : \E x :
              /\ Processing(prec, nvl, inp, x)
              /\ prec' = x.prec
              /\ shown' = IF prec = Fresh(prec.selm) THEN Seen(x.prec) ELSE Told(x.prec, x.posts)
              /\ truth' = Outcome(prec.selm, nvl, inp)
<1>1. ASSUME NEW nvl \in Indices \cup {Broken}, NEW inp \in [Inputs -> Given], Process(nvl, inp)
      PROVE  \E x : /\ Processing(prec, nvl, inp, x)
                    /\ prec' = x.prec
                    /\ shown' = IF prec = Fresh(prec.selm) THEN Seen(x.prec)
                                ELSE Told(x.prec, x.posts)
                    /\ truth' = Outcome(prec.selm, nvl, inp)
  <2>1. PICK x \in process(prec, nvl, inp) :
            /\ prec' = x.prec
            /\ shown' = IF prec = Fresh(prec.selm) THEN Seen(x.prec) ELSE Told(x.prec, x.posts)
            /\ truth' = Outcome(prec.selm, nvl, inp)
    BY <1>1 DEF Process, Outcome
  <2>2. nvl \in IndexGiven
    BY ValuesAreNumbers DEF IndexGiven
  <2>3. inp \in InputsGiven /\ InputsFinite(inp)
    BY ValuesAreNumbers DEF InputsGiven, InputsFinite, Given, Number
  <2>4. prec \in RecordType /\ Finite(prec) /\ (prec.val = NaN => prec.udf)
    BY ValuesAreNumbers DEF RecordInv, Finite
  <2>5. Processing(prec, nvl, inp, x)
    BY <2>2, <2>3, <2>4, ProcessFacts
  <2> QED
    BY <2>1, <2>5
<1>2. CASE ProcessSpecified
  <2>1. PICK nvl \in Indices \cup {Broken}, v \in Given : Process(nvl, [i \in Inputs |-> v])
    BY <1>2 DEF ProcessSpecified
  <2>2. [i \in Inputs |-> v] \in [Inputs -> Given]
    OBVIOUS
  <2> QED
    BY <1>1, <2>1, <2>2
<1>3. CASE ProcessAll
  <2>1. PICK i \in Inputs, v \in Given, bad \in BOOLEAN :
            Process(Broken, [j \in Inputs |->
                                IF j = i THEN v
                                ELSE IF bad /\ j = (i + 1) % SEL_MAX THEN Broken
                                ELSE prec.a[j]])
    BY <1>3 DEF ProcessAll
  <2>2. \A j \in Inputs : prec.a[j] \in Given
    BY DEF RecordInv, Given
  <2>3. Broken \in Given
    BY DEF Given
  <2>4. [j \in Inputs |-> IF j = i THEN v
                          ELSE IF bad /\ j = (i + 1) % SEL_MAX THEN Broken
                          ELSE prec.a[j]] \in [Inputs -> Given]
    BY <2>2, <2>3
  <2> QED
    BY <1>1, <2>1, <2>4
<1> QED
  BY <1>2, <1>3 DEF Next

LEMMA InitialRecord == Init => BigselInv /\ (Limits.mdel \in Nat => ClientInv)
<1> SUFFICES ASSUME Init
             PROVE  BigselInv /\ (Limits.mdel \in Nat => ClientInv)
  OBVIOUS
<1>1. PICK selm \in Modes : prec = Fresh(selm)
  BY DEF Init
<1>2. /\ prec \in RecordType /\ prec.selm = selm /\ prec.seln = 0 /\ prec.val = 0 /\ prec.mlst = 0
      /\ prec.udf = TRUE /\ prec.alarm = [stat |-> "UDF", sevr |-> INVALID_ALARM]
      /\ \A i \in Inputs : prec.a[i] = NaN /\ prec.la[i] = 0
  BY <1>1, FreshFacts
<1>3. /\ shown.val = prec.val /\ shown.seln = prec.seln
      /\ \A i \in Inputs : shown.a[i] = prec.a[i]
  BY DEF Init, Seen
<1>4. RecordInv
  BY <1>2, <1>3, ValuesAreNumbers DEF RecordInv
<1>5. OnlyTheTruthIsValid
  BY <1>2 DEF OnlyTheTruthIsValid, INVALID_ALARM
<1>6. AlarmInv
  <2>1. \A k \in Alarms : Limits.alarms[k].stat # "UDF"
    BY LimitsAssumption DEF Alarms
  <2> QED
    BY <1>2, <2>1 DEF AlarmInv
<1>7. ASSUME Limits.mdel \in Nat
      PROVE  ClientInv
  <2>1. prec = Fresh(prec.selm)
    BY <1>1, <1>2
  <2>2. ~Moved(0, 0, Limits.mdel)
    BY <1>7, ValuesAreNumbers DEF Moved
  <2> QED
    BY <1>2, <1>3, <2>1, <2>2 DEF ClientInv
<1> QED
  BY <1>4, <1>5, <1>6, <1>7 DEF BigselInv

LEMMA RecordStep ==
    ASSUME RecordInv,
           NEW nvl \in Indices \cup {Broken}, NEW inp \in [Inputs -> Given], NEW x,
           Processing(prec, nvl, inp, x), prec' = x.prec,
           shown' = IF prec = Fresh(prec.selm) THEN Seen(x.prec) ELSE Told(x.prec, x.posts)
    PROVE  RecordInv'
<1>1. /\ x.prec \in RecordType
      /\ x.prec.seln \in {prec.seln, nvl} \cup 0 .. SEL_MAX
      /\ \A i \in Inputs : x.prec.a[i] = prec.a[i] \/ (inp[i] # Broken /\ x.prec.a[i] = inp[i])
      /\ x.prec.val \in {prec.val, NaN, Infinity, -Infinity} \cup {x.prec.a[i] : i \in Inputs}
      /\ x.prec.val = NaN => x.prec.udf
      /\ \A i \in Inputs : x.prec.la[i] = x.prec.a[i]
  BY DEF Processing
<1>2. x.prec.seln \in Indices \cup 0 .. SEL_MAX
  <2>1. x.prec.seln \in Nat
    BY <1>1 DEF RecordType
  <2> QED
    BY <1>1, <2>1, ValuesAreNumbers DEF RecordInv
<1>3. \A i \in Inputs : x.prec.a[i] \in Values \cup {NaN}
  BY <1>1 DEF RecordInv, Given
<1>4. x.prec.val \in Values \cup {NaN, 0, Infinity, -Infinity}
  BY <1>1, <1>3 DEF RecordInv
<1>5. shown'.val \in {x.prec.val, shown.val}
  BY DEF Seen, Told
<1>6. shown'.val \in Values \cup {NaN, 0, Infinity, -Infinity}
  BY <1>4, <1>5 DEF RecordInv
<1> QED
  BY <1>1, <1>2, <1>3, <1>4, <1>6 DEF RecordInv

LEMMA ClientStep ==
    ASSUME RecordInv, ClientInv, Limits.mdel \in Nat,
           NEW nvl \in Indices \cup {Broken}, NEW inp \in [Inputs -> Given], NEW x,
           Processing(prec, nvl, inp, x), prec' = x.prec,
           shown' = IF prec = Fresh(prec.selm) THEN Seen(x.prec) ELSE Told(x.prec, x.posts)
    PROVE  ClientInv'
<1>1. /\ x.prec \in RecordType
      /\ x.prec.nlst = x.prec.seln
      /\ \A i \in Inputs : x.prec.la[i] = x.prec.a[i]
      /\ IF Moved(prec.mlst, x.prec.val, Limits.mdel)
         THEN x.prec.mlst = x.prec.val /\ x.posts.val
         ELSE x.prec.mlst = prec.mlst
      /\ x.posts.seln <=> prec.nlst # x.prec.seln
      /\ \A i \in Inputs : x.prec.a[i] # prec.la[i] => i \in x.posts.inputs
  BY DEF Processing
<1>2. shown'.seln = x.prec.seln /\ \A i \in Inputs : shown'.a[i] = x.prec.a[i]
  <2>1. CASE prec = Fresh(prec.selm)
    BY <2>1 DEF Seen
  <2>2. CASE prec # Fresh(prec.selm)
    <3>1. /\ shown'.seln = IF x.posts.seln THEN x.prec.seln ELSE shown.seln
          /\ \A i \in Inputs : shown'.a[i] = IF i \in x.posts.inputs THEN x.prec.a[i] ELSE shown.a[i]
      BY <2>2 DEF Told
    <3>2. /\ prec.nlst = prec.seln /\ shown.seln = prec.seln
          /\ \A i \in Inputs : prec.la[i] = prec.a[i] /\ shown.a[i] = prec.a[i]
      BY <2>2 DEF ClientInv
    <3> QED
      BY <1>1, <3>1, <3>2
  <2> QED
    BY <2>1, <2>2
<1>3. /\ prec.mlst \in Int \cup {NaN} /\ x.prec.val \in Int \cup {NaN}
      /\ shown.val \in Int \cup {NaN} /\ Limits.mdel \in Int /\ Limits.mdel >= 0 /\ NaN \notin Int
  <2>1. prec \in RecordType /\ shown.val \in Values \cup {NaN, 0, Infinity, -Infinity}
    BY DEF RecordInv
  <2>2. prec.mlst \in Number /\ x.prec.val \in Number
    BY <1>1, <2>1 DEF RecordType
  <2>3. Limits.mdel \in Int /\ Limits.mdel >= 0
    OBVIOUS
  <2>4. Values \subseteq Int /\ Infinity \in Int /\ NaN \notin Int
    BY ValuesAreNumbers
  <2>5. -Infinity \in Int
    BY <2>4
  <2>6. shown.val \in Int \cup {NaN}
    <3>1. CASE shown.val \in Values
      BY <2>4, <3>1
    <3>2. CASE shown.val \in {NaN, 0, Infinity, -Infinity}
      BY <2>4, <2>5, <3>2
    <3> QED
      BY <2>1, <3>1, <3>2
  <2> QED
    BY <2>2, <2>3, <2>4, <2>6 DEF Number
<1>4. ~Moved(x.prec.mlst, x.prec.val, Limits.mdel)
  <2>1. CASE Moved(prec.mlst, x.prec.val, Limits.mdel)
    <3>1. x.prec.mlst = x.prec.val
      BY <1>1, <2>1
    <3> QED
      BY <1>3, <3>1 DEF Moved
  <2>2. CASE ~Moved(prec.mlst, x.prec.val, Limits.mdel)
    BY <1>1, <2>2
  <2> QED
    BY <2>1, <2>2
<1>5. shown'.val = x.prec.val \/ (~x.posts.val /\ shown'.val = shown.val)
  BY DEF Seen, Told
<1>6. ~Moved(shown'.val, x.prec.mlst, Limits.mdel)
  <2>1. CASE shown'.val = x.prec.val
    <3>1. x.prec.mlst \in Int \cup {NaN}
      BY <1>1 DEF RecordType, Number
    <3> QED
      BY <1>3, <1>4, <2>1, <3>1 DEF Moved
  <2>2. CASE ~x.posts.val /\ shown'.val = shown.val
    <3>1. x.prec.mlst = prec.mlst
      BY <1>1, <2>2
    <3> QED
      BY <2>2, <3>1 DEF ClientInv
  <2> QED
    BY <1>5, <2>1, <2>2
<1> QED
  BY <1>1, <1>2, <1>4, <1>6 DEF ClientInv

LEMMA InvStep == BigselInv /\ [Next]_vars => BigselInv'
<1> SUFFICES ASSUME BigselInv, [Next]_vars
             PROVE  BigselInv'
  OBVIOUS
<1>1. CASE UNCHANGED vars
  BY <1>1 DEF vars, BigselInv, RecordInv, OnlyTheTruthIsValid, AlarmInv
<1>2. CASE Next
  <2>0. PICK nvl \in Indices \cup {Broken}, inp \in [Inputs -> Given] : \E x :
              /\ Processing(prec, nvl, inp, x)
              /\ prec' = x.prec
              /\ shown' = IF prec = Fresh(prec.selm) THEN Seen(x.prec) ELSE Told(x.prec, x.posts)
              /\ truth' = Outcome(prec.selm, nvl, inp)
    BY <1>2, StepFacts DEF BigselInv
  <2>1. PICK x :
              /\ Processing(prec, nvl, inp, x)
              /\ prec' = x.prec
              /\ shown' = IF prec = Fresh(prec.selm) THEN Seen(x.prec) ELSE Told(x.prec, x.posts)
              /\ truth' = Outcome(prec.selm, nvl, inp)
    BY <2>0
  <2>2. RecordInv'
    BY <2>1, RecordStep DEF BigselInv
  <2>3. OnlyTheTruthIsValid'
    BY <2>1 DEF Processing, OnlyTheTruthIsValid
  <2>4. AlarmInv'
    BY <2>1 DEF Processing, AlarmInv
  <2> QED
    BY <2>2, <2>3, <2>4 DEF BigselInv
<1> QED
  BY <1>1, <1>2

LEMMA ClientInvStep ==
    ASSUME Limits.mdel \in Nat
    PROVE  BigselInv /\ ClientInv /\ [Next]_vars => ClientInv'
<1> SUFFICES ASSUME BigselInv, ClientInv, [Next]_vars
             PROVE  ClientInv'
  OBVIOUS
<1>1. CASE UNCHANGED vars
  BY <1>1 DEF vars, ClientInv
<1>2. CASE Next
  <2>0. PICK nvl \in Indices \cup {Broken}, inp \in [Inputs -> Given] : \E x :
              /\ Processing(prec, nvl, inp, x)
              /\ prec' = x.prec
              /\ shown' = IF prec = Fresh(prec.selm) THEN Seen(x.prec) ELSE Told(x.prec, x.posts)
    BY <1>2, StepFacts DEF BigselInv
  <2>1. PICK x :
              /\ Processing(prec, nvl, inp, x)
              /\ prec' = x.prec
              /\ shown' = IF prec = Fresh(prec.selm) THEN Seen(x.prec) ELSE Told(x.prec, x.posts)
    BY <2>0
  <2> QED
    BY <2>1, ClientStep DEF BigselInv
<1> QED
  BY <1>1, <1>2

LEMMA BigselInvariant == Spec => []BigselInv
BY InitialRecord, InvStep, PTL DEF Spec

-----------------------------------------------------------------------------
(* The theorems.                                                           *)

\* The record of bigselRecord.c always has the form that TypeOK says.
THEOREM TypeCorrect == Spec => []TypeOK
<1>1. BigselInv => TypeOK
  <2> SUFFICES ASSUME BigselInv
               PROVE  TypeOK
    OBVIOUS
  <2>1. prec \in RecordType
    BY DEF BigselInv, RecordInv
  <2>2. prec.selm \in Modes /\ prec.udf \in BOOLEAN /\ prec.alarm.sevr \in NO_ALARM .. INVALID_ALARM
    BY <2>1 DEF RecordType, AlarmType
  <2> QED
    BY <2>2 DEF BigselInv, RecordInv, TypeOK
<1> QED
  BY <1>1, BigselInvariant, PTL

\* Whatever the links give, a record that is not INVALID holds the documented
\* selection of it: the input, the largest, the smallest or the median, by
\* fetch_values, do_sel and checkAlarms, for any number of inputs.
THEOREM ValidIsTrue == Spec => []OnlyTheTruthIsValid
<1>1. BigselInv => OnlyTheTruthIsValid
  BY DEF BigselInv
<1> QED
  BY <1>1, BigselInvariant, PTL

\* checkAlarms holds a limit alarm until another alarm takes its place, the
\* value is undefined or it is more than hyst inside the limit.
THEOREM AlarmsDoNotFlap == Spec => NoFlapping
<1> DEFINE Calm == \A k \in 1 .. Len(Limits.alarms) :
                      LET limit == Limits.alarms[k]
                      IN  prec.alarm.stat = limit.stat =>
                            prec'.alarm.sevr # NO_ALARM \/ prec'.udf \/ Inside(limit, prec'.val)
<1>1. ASSUME BigselInv, Next
      PROVE  Calm
  <2>0. PICK nvl \in Indices \cup {Broken}, inp \in [Inputs -> Given] : \E x :
              Processing(prec, nvl, inp, x) /\ prec' = x.prec
    BY <1>1, StepFacts DEF BigselInv
  <2>1. PICK x :
              Processing(prec, nvl, inp, x) /\ prec' = x.prec
    BY <2>0
  <2> SUFFICES ASSUME NEW k \in Alarms, prec.alarm.stat = Limits.alarms[k].stat,
                      x.prec.alarm.sevr = NO_ALARM, ~x.prec.udf
               PROVE  Inside(Limits.alarms[k], x.prec.val)
    BY <2>1 DEF Alarms
  <2> DEFINE limit == Limits.alarms[k]
             q == [prec EXCEPT !.val = x.prec.val]
  <2>2. prec.lalm = limit.level /\ limit.sevr # NO_ALARM
    BY <1>1 DEF BigselInv, AlarmInv
  <2>3. x.prec.val # NaN /\ ~Exceeds(q, limit)
    BY <2>1, <2>2 DEF Processing
  <2>4. prec \in RecordType /\ x.prec \in RecordType
    BY <1>1, <2>1 DEF BigselInv, RecordInv, Processing
  <2>5. q.val = x.prec.val /\ q.lalm = limit.level /\ x.prec.val \in Int
    BY <2>2, <2>3, <2>4 DEF RecordType, Number
  <2>6. limit.level \in Int /\ limit.upper \in BOOLEAN /\ Limits.hyst \in Int
    BY LimitsType
  <2> HIDE DEF q, limit
  <2>7. Inside(limit, x.prec.val)
    BY <2>3, <2>5, <2>6 DEF Exceeds, Inside
  <2> QED
    BY <2>7 DEF limit
<1>2. ASSUME BigselInv, [Next]_vars
      PROVE  [Calm]_vars
  BY <1>1, <1>2
<1> QED
  BY <1>2, BigselInvariant, PTL DEF Spec, NoFlapping

\* With a monitor deadband that is not negative, monitor never leaves a client
\* behind that watches the record: a negative MDEL posts every value, and MLST
\* is within no deadband.
THEOREM ClientKeepsUp ==
    ASSUME Limits.mdel \in Nat
    PROVE  Spec => []ClientIsCurrent
<1>1. BigselInv /\ ClientInv => ClientIsCurrent
  <2> SUFFICES ASSUME BigselInv, ClientInv
               PROVE  ClientIsCurrent
    OBVIOUS
  <2>1. /\ prec.mlst \in Int \cup {NaN} /\ prec.val \in Int \cup {NaN}
        /\ shown.val \in Int \cup {NaN} /\ Limits.mdel \in Int /\ NaN \notin Int
    <3>1. prec \in RecordType /\ shown.val \in Values \cup {NaN, 0, Infinity, -Infinity}
      BY DEF BigselInv, RecordInv
    <3>2. prec.mlst \in Number /\ prec.val \in Number
      BY <3>1 DEF RecordType
    <3>3. Limits.mdel \in Int
      OBVIOUS
    <3>4. Values \subseteq Int /\ Infinity \in Int /\ NaN \notin Int
      BY ValuesAreNumbers
    <3>5. -Infinity \in Int
      BY <3>4
    <3>6. shown.val \in Int \cup {NaN}
      <4>1. CASE shown.val \in Values
        BY <3>4, <4>1
      <4>2. CASE shown.val \in {NaN, 0, Infinity, -Infinity}
        BY <3>4, <3>5, <4>2
      <4> QED
        BY <3>1, <4>1, <4>2
    <3> QED
      BY <3>2, <3>3, <3>4, <3>6 DEF Number
  <2>2. ~Moved(shown.val, prec.mlst, Limits.mdel) /\ ~Moved(prec.mlst, prec.val, Limits.mdel)
    BY DEF ClientInv
  <2>3. ~Moved(shown.val, prec.val, 2 * Limits.mdel)
    BY <2>1, <2>2 DEF Moved
  <2> QED
    BY <2>3 DEF ClientInv, ClientIsCurrent
<1>2. BigselInv /\ ClientInv /\ [Next]_vars => (BigselInv /\ ClientInv)'
  BY InvStep, ClientInvStep
<1>3. Init => BigselInv /\ ClientInv
  BY InitialRecord
<1> QED
  BY <1>1, <1>2, <1>3, PTL DEF Spec

=============================================================================
