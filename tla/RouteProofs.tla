----------------------------- MODULE RouteProofs -----------------------------
(***************************************************************************)
(* Proofs about what is reckoned with numbers: the route an avatar takes,  *)
(* on any grid with any furniture, whose search ends on a shortest way or  *)
(* there is none; and the quota of a provider, for any limits, tasks and   *)
(* claims.                                                                 *)
(***************************************************************************)
EXTENDS Integers, Sequences, Course, FiniteSetTheorems, WellFoundedInduction, TLAPS

----------------------------------------------------------------------------
(* Numbers.  What a recursive function over an interval yields is proved    *)
(* with sets: a set of numbers has a least member.                          *)

LEMMA LeastNumber ==
  ASSUME NEW W, W \subseteq Nat, W # {}
  PROVE  \E x \in W : \A y \in W : x <= y
<1>. DEFINE below == {ss \in Nat \X Nat : ss[1] < ss[2]}
<1>1. IsWellFoundedOn(below, Nat)
  BY NatLessThanWellFounded DEF OpToRel
<1>2. \E x \in W : \A y \in W : ~ (<<y, x>> \in below)
  <2>. HIDE DEF below
  <2>. QED BY <1>1, WFMin
<1>3. PICK x \in W : \A y \in W : ~ (<<y, x>> \in below)
  BY <1>2
<1>4. \A y \in W : x <= y
  <2>. TAKE y \in W
  <2>1. x \in Nat /\ y \in Nat
    OBVIOUS
  <2>2. y < x => <<y, x>> \in below
    BY <2>1
  <2>. HIDE DEF below
  <2>. QED BY <1>3, <2>1, <2>2
<1>. QED BY <1>4

LEMMA StepByStep ==
  ASSUME NEW n \in Nat, NEW G, 0 \in G,
         \A i \in 0..(n - 1) : i \in G => i + 1 \in G
  PROVE  \A i \in 0..n : i \in G
<1>. DEFINE bad == (0..n) \ G
<1>1. bad = {}
  <2>. SUFFICES ASSUME bad # {} PROVE FALSE
    OBVIOUS
  <2>1. PICK k \in bad : \A y \in bad : k <= y
    <3>1. bad \subseteq Nat
      OBVIOUS
    <3>. HIDE DEF bad
    <3>. QED BY <3>1, LeastNumber
  <2>2. k \in 0..n /\ k \notin G /\ k # 0
    BY <2>1
  <2>3. k - 1 \in 0..(n - 1) /\ k - 1 \notin bad
    BY <2>1, <2>2
  <2>4. k - 1 \in G /\ (k - 1) + 1 = k
    BY <2>2, <2>3
  <2>. QED BY <2>2, <2>3, <2>4
<1>. QED BY <1>1

(* A step can be repeated n times. *)
Repeats(n, D, a, step) ==
  \E f \in [0..n -> D] : f[0] = a /\ \A i \in 1..n : f[i] = step[<<i, f[i - 1]>>]

LEMMA Iterated ==
  ASSUME NEW n \in Nat, NEW D, NEW a \in D, NEW step \in [(1..n) \X D -> D]
  PROVE  Repeats(n, D, a, step)
<1>. DEFINE Fits(f, k) == f[0] = a /\ \A i \in 1..k : f[i] = step[<<i, f[i - 1]>>]
            Good(k) == \E f \in [0..k -> D] : Fits(f, k)
            done == {k \in 0..n : Good(k)}
<1>1. 0 \in done
  <2>. DEFINE e == [i \in 0..0 |-> a]
  <2>1. e \in [0..0 -> D] /\ e[0] = a
    OBVIOUS
  <2>2. Fits(e, 0)
    BY <2>1
  <2>3. Good(0)
    BY <2>1, <2>2
  <2>. HIDE DEF Good
  <2>. QED BY <2>3
<1>2. ASSUME NEW j \in 0..(n - 1), j \in done PROVE j + 1 \in done
  <2>. DEFINE k == j + 1
  <2>1. k \in 1..n /\ k \in 0..n /\ k - 1 = j
    OBVIOUS
  <2>2. PICK f \in [0..j -> D] : Fits(f, j)
    BY <1>2
  <2>. DEFINE h == [i \in 0..k |-> IF i = k THEN step[<<k, f[j]>>] ELSE f[i]]
  <2>3. f[j] \in D
    BY <2>2
  <2>4. step[<<k, f[j]>>] \in D
    BY <2>1, <2>3
  <2>5. h \in [0..k -> D] /\ h[0] = a
    BY <2>1, <2>2, <2>4
  <2>6. ASSUME NEW i \in 1..k PROVE h[i] = step[<<i, h[i - 1]>>]
    <3>1. CASE i = k
      <4>1. h[k - 1] = f[j] /\ h[k] = step[<<k, f[j]>>]
        BY <2>1
      <4>. HIDE DEF h, k
      <4>. QED BY <3>1, <4>1
    <3>2. CASE i # k
      <4>1. h[i - 1] = f[i - 1] /\ h[i] = f[i]
        BY <3>2
      <4>2. f[i] = step[<<i, f[i - 1]>>]
        BY <2>2, <3>2
      <4>. HIDE DEF h
      <4>. QED BY <4>1, <4>2
    <3>. QED BY <3>1, <3>2
  <2>7. Fits(h, k)
    <3>. HIDE DEF h
    <3>. QED BY <2>5, <2>6
  <2>8. Good(k)
    <3>. HIDE DEF h, Fits
    <3>. QED BY <2>5, <2>7
  <2>. HIDE DEF Good, k
  <2>9. k \in done
    BY <2>1, <2>8
  <2>. QED BY <2>9 DEF k
<1>3. Good(n)
  <2>1. n \in done
    <3>. HIDE DEF done
    <3>. QED BY <1>1, <1>2, StepByStep
  <2>. HIDE DEF Good
  <2>. QED BY <2>1
<1>. QED BY <1>3 DEF Repeats

LEMMA MinIsLeast ==
  ASSUME NEW D, D \subseteq Nat, D # {}
  PROVE  P!Min(D) \in D /\ \A y \in D : P!Min(D) <= y
<1>1. \E x \in D : \A y \in D : x <= y
  BY LeastNumber
<1>. QED BY <1>1 DEF P!Min

----------------------------------------------------------------------------
(* What Filtered keeps of a sequence. *)

LEMMA FilteredRange ==
  ASSUME NEW D, NEW s \in Seq(D), NEW W
  PROVE  /\ P!Filtered(s, W) \in Seq(D)
         /\ P!Range(P!Filtered(s, W)) = P!Range(s) \intersect W
<1>. DEFINE n == Len(s)
            C == Seq(D)
            none == <<>>
            step == [x \in (1..n) \X C |->
                       IF s[x[1]] \in W THEN Append(x[2], s[x[1]]) ELSE x[2]]
            Same(f) == [i \in 0..n |-> IF i = 0 THEN <<>>
                                       ELSE IF s[i] \in W THEN Append(f[i - 1], s[i])
                                       ELSE f[i - 1]]
            kept == CHOOSE f : f = Same(f)
<1>0. n \in Nat
  OBVIOUS
<1>1. none \in C /\ step \in [(1..n) \X C -> C]
  OBVIOUS
<1>2. PICK f \in [0..n -> C] :
        f[0] = none /\ \A i \in 1..n : f[i] = step[<<i, f[i - 1]>>]
  <2>. HIDE DEF step, n, C, none
  <2>1. Repeats(n, C, none, step)
    BY <1>0, <1>1, Iterated
  <2>. QED BY <2>1 DEF Repeats
<1>3. f = Same(f)
  <2>1. \A i \in 0..n : i # 0 => i \in 1..n /\ i - 1 \in 0..n
    BY <1>0
  <2>2. \A i \in 0..n : i # 0 => f[i - 1] \in C
    <3>. HIDE DEF n, C
    <3>. QED BY <1>2, <2>1
  <2>3. \A i \in 0..n : i # 0 =>
          step[<<i, f[i - 1]>>] = IF s[i] \in W THEN Append(f[i - 1], s[i]) ELSE f[i - 1]
    <3>. HIDE DEF n, C
    <3>. QED BY <2>1, <2>2
  <2>4. f = [i \in 0..n |-> f[i]]
    BY <1>2
  <2>5. \A i \in 0..n : f[i] = IF i = 0 THEN <<>>
                              ELSE IF s[i] \in W THEN Append(f[i - 1], s[i]) ELSE f[i - 1]
    <3>. HIDE DEF n, C, step
    <3>. QED BY <1>2, <2>1, <2>3 DEF none
  <2>. HIDE DEF step, n, C
  <2>. QED BY <2>4, <2>5
<1>4. kept = Same(kept)
  <2>. HIDE DEF Same
  <2>. QED BY <1>3
<1>5. P!Filtered(s, W) = kept[n]
  BY DEF P!Filtered
<1>. DEFINE Kept(i) == /\ kept[i] \in C
                       /\ P!Range(kept[i]) = {s[j] : j \in 1..i} \intersect W
            good == {i \in 0..n : Kept(i)}
<1>6. 0 \in good
  <2>1. kept[0] = <<>>
    <3>1. 0 \in 0..n
      BY <1>0
    <3>. HIDE DEF kept, n
    <3>. QED BY <1>4, <3>1
  <2>3. <<>> \in C
    OBVIOUS
  <2>2. P!Range(<<>>) = {} /\ {s[j] : j \in 1..0} = {}
    BY DEF P!Range
  <2>. HIDE DEF kept, C, n
  <2>. QED BY <1>0, <2>1, <2>2, <2>3
<1>7. ASSUME NEW i \in 0..(n - 1), i \in good PROVE i + 1 \in good
  <2>1. kept[i] \in C /\ P!Range(kept[i]) = {s[j] : j \in 1..i} \intersect W
    BY <1>7
  <2>2. kept[i + 1] = IF s[i + 1] \in W THEN Append(kept[i], s[i + 1]) ELSE kept[i]
    <3>1. i + 1 \in 0..n /\ i + 1 # 0 /\ (i + 1) - 1 = i
      BY <1>0
    <3>. HIDE DEF n, kept
    <3>. QED BY <1>4, <3>1
  <2>3. {s[j] : j \in 1..(i + 1)} = {s[j] : j \in 1..i} \union {s[i + 1]}
    OBVIOUS
  <2>4. s[i + 1] \in D
    OBVIOUS
  <2>. HIDE DEF kept, Same
  <2>5. CASE s[i + 1] \in W
    <3>1. kept[i + 1] = Append(kept[i], s[i + 1])
      BY <2>2, <2>5
    <3>2. P!Range(kept[i + 1]) = P!Range(kept[i]) \union {s[i + 1]}
      <4>1. DOMAIN kept[i + 1] = DOMAIN kept[i] \union {Len(kept[i]) + 1}
        BY <2>1, <2>4, <3>1
      <4>2. /\ kept[i + 1][Len(kept[i]) + 1] = s[i + 1]
            /\ \A j \in DOMAIN kept[i] : kept[i + 1][j] = kept[i][j]
        BY <2>1, <2>4, <3>1
      <4>. HIDE DEF C
      <4>. QED BY <4>1, <4>2 DEF P!Range
    <3>3. kept[i + 1] \in C
      BY <2>1, <2>4, <3>1
    <3>4. P!Range(kept[i + 1]) = {s[j] : j \in 1..(i + 1)} \intersect W
      BY <2>1, <2>3, <2>5, <3>2
    <3>. QED BY <3>3, <3>4
  <2>6. CASE s[i + 1] \notin W
    <3>1. {s[j] : j \in 1..(i + 1)} \intersect W = {s[j] : j \in 1..i} \intersect W
      BY <2>3, <2>6
    <3>. QED BY <2>1, <2>2, <2>6, <3>1
  <2>. QED BY <2>5, <2>6
<1>8. Kept(n)
  <2>1. \A i \in 0..n : i \in good
    <3>. HIDE DEF good, n
    <3>. QED BY <1>0, <1>6, <1>7, StepByStep
  <2>2. n \in 0..n
    BY <1>0
  <2>. HIDE DEF Kept, n
  <2>. QED BY <2>1, <2>2
<1>9. {s[j] : j \in 1..n} = P!Range(s)
  BY DEF P!Range
<1>. HIDE DEF kept, C, n
<1>. QED BY <1>5, <1>8, <1>9 DEF C

----------------------------------------------------------------------------
(* Distances.  On a neighbour's way to the goal one saves no more than the  *)
(* step to it costs, although both are rounded: the estimate is consistent. *)

LEMMA SquareGrows ==
  ASSUME NEW a \in Nat, NEW b \in Nat, a <= b PROVE a * a <= b * b
<1>1. PICK c \in Nat : b = a + c
  <2>1. b - a \in Nat /\ b = a + (b - a)
    OBVIOUS
  <2>. QED BY <2>1
<1>2. b * b = a * a + 2 * (a * c) + c * c
  BY <1>1
<1>3. a * c \in Nat /\ c * c \in Nat
  BY <1>1
<1>. QED BY <1>2, <1>3

LEMMA RootHolds ==
  ASSUME NEW n \in 0..(Columns * Columns + Rows * Rows)
  PROVE  /\ RootTable[n] \in Nat
         /\ RootTable[n] * RootTable[n] <= 10000 * n
         /\ (RootTable[n] + 1) * (RootTable[n] + 1) > 10000 * n
<1>. DEFINE W == {k \in Nat : k * k > 10000 * n}
            most == 100 * (Columns + Rows)
<1>0. Columns \in Nat /\ Rows \in Nat /\ n \in Nat /\ most \in Nat
  BY RouteAssumption
<1>1. most + 1 \in W
  <2>1. (Columns + Rows) * (Columns + Rows)
          = Columns * Columns + Rows * Rows + 2 * (Columns * Rows)
    BY <1>0
  <2>2. Columns * Rows \in Nat
    BY <1>0
  <2>3. n <= (Columns + Rows) * (Columns + Rows)
    BY <1>0, <2>1, <2>2
  <2>. DEFINE m == Columns + Rows
  <2>4. m \in Nat /\ (100 * m + 1) * (100 * m + 1) = 10000 * (m * m) + 200 * m + 1
    BY <1>0
  <2>. HIDE DEF m
  <2>5. m * m \in Nat /\ n <= m * m
    BY <2>3, <2>4 DEF m
  <2>6. (100 * m + 1) * (100 * m + 1) > 10000 * n
    <3>. DEFINE q == m * m
                w == (100 * m + 1) * (100 * m + 1)
    <3>1. q \in Nat /\ n <= q /\ w = 10000 * q + 200 * m + 1
      BY <2>4, <2>5
    <3>. HIDE DEF q, w
    <3>2. w > 10000 * n
      BY <1>0, <2>4, <3>1
    <3>. QED BY <3>2 DEF w
  <2>. QED BY <2>4, <2>6 DEF m
<1>2. PICK k \in W : \A y \in W : k <= y
  <2>1. W \subseteq Nat /\ W # {}
    BY <1>1
  <2>. HIDE DEF W
  <2>. QED BY <2>1, LeastNumber
<1>3. k \in Nat /\ k * k > 10000 * n /\ k <= most + 1
  BY <1>1, <1>2
<1>4. k # 0
  BY <1>0, <1>3
<1>5. k - 1 \in 0..most /\ k - 1 \notin W
  BY <1>0, <1>2, <1>3, <1>4
<1>6. (k - 1) * (k - 1) <= 10000 * n
  <2>. DEFINE w == (k - 1) * (k - 1)
  <2>1. w \in Nat /\ ~ (w > 10000 * n)
    BY <1>0, <1>3, <1>4, <1>5
  <2>. HIDE DEF w
  <2>2. w <= 10000 * n
    BY <1>0, <2>1
  <2>. QED BY <2>2 DEF w
<1>7. (k - 1) + 1 = k
  BY <1>3
<1>8. \E r \in 0..most : r * r <= 10000 * n /\ (r + 1) * (r + 1) > 10000 * n
  BY <1>3, <1>5, <1>6, <1>7
<1>9. RootTable[n] = CHOOSE r \in 0..most :
                       r * r <= 10000 * n /\ (r + 1) * (r + 1) > 10000 * n
  BY DEF RootTable
<1>10. RootTable[n] \in 0..most /\ RootTable[n] * RootTable[n] <= 10000 * n
       /\ (RootTable[n] + 1) * (RootTable[n] + 1) > 10000 * n
  <2>. HIDE DEF most
  <2>. QED BY <1>8, <1>9
<1>. QED BY <1>0, <1>10

(* The arithmetic of it: x and y are how far the neighbour is off, and one  *)
(* step straight on, or a diagonal one, adds to the square of the distance. *)
LEMMA RootOfStraight ==
  ASSUME NEW x \in Nat, NEW w \in Nat, NEW v \in Nat, NEW r \in Nat, NEW t \in Nat,
         x * x <= w, v <= w + 2 * x + 1,
         r * r <= 10000 * v, (t + 1) * (t + 1) > 10000 * w
  PROVE  r <= t + 100
<1>. SUFFICES ASSUME r > t + 100 PROVE FALSE
  OBVIOUS
<1>. DEFINE q == t + 1
<1>0. q \in Nat /\ q + 100 <= r
  OBVIOUS
<1>. HIDE DEF q
<1>1. (q + 100) * (q + 100) <= r * r
  BY <1>0, SquareGrows
<1>2. (q + 100) * (q + 100) = q * q + 200 * q + 10000
  BY <1>0
<1>. DEFINE qq == q * q
            xx == x * x
<1>3. qq \in Nat /\ xx \in Nat /\ qq > 10000 * w /\ xx <= w
  BY <1>0 DEF q
<1>4. qq + 200 * q + 10000 <= 10000 * w + 20000 * x + 10000
  <2>. DEFINE rr == r * r
              s2 == (q + 100) * (q + 100)
  <2>1. s2 <= rr /\ s2 = qq + 200 * q + 10000 /\ rr <= 10000 * v /\ rr \in Nat /\ s2 \in Nat
    BY <1>0, <1>1, <1>2
  <2>. HIDE DEF rr, s2, qq
  <2>. QED BY <1>0, <1>3, <2>1
<1>5. q < 100 * x
  <2>. HIDE DEF qq
  <2>. QED BY <1>0, <1>3, <1>4
<1>6. q * q <= (100 * x) * (100 * x)
  <2>1. q <= 100 * x /\ 100 * x \in Nat
    BY <1>0, <1>5
  <2>. QED BY <1>0, <2>1, SquareGrows
<1>7. (100 * x) * (100 * x) = 10000 * xx
  OBVIOUS
<1>8. qq <= 10000 * xx
  BY <1>6, <1>7
<1>. HIDE DEF qq, xx
<1>. QED BY <1>3, <1>8

LEMMA RootOfDiagonal ==
  ASSUME NEW x \in Nat, NEW y \in Nat, NEW w \in Nat, NEW v \in Nat,
         NEW r \in Nat, NEW t \in Nat,
         x * x + y * y <= w, v <= w + 2 * (x + y) + 2,
         r * r <= 10000 * v, (t + 1) * (t + 1) > 10000 * w
  PROVE  r <= t + 142
<1>. SUFFICES ASSUME r > t + 142 PROVE FALSE
  OBVIOUS
<1>. DEFINE q == t + 1
            m == x + y
<1>0. q \in Nat /\ q + 142 <= r /\ m \in Nat /\ v <= w + 2 * m + 2
  OBVIOUS
<1>9. q * q > 10000 * w
  OBVIOUS
<1>10. m * m <= 2 * w
  <2>1. m * m = x * x + y * y + 2 * (x * y)
    OBVIOUS
  <2>2. 2 * (x * y) <= x * x + y * y
    <3>1. (x - y) * (x - y) = x * x + y * y - 2 * (x * y)
      OBVIOUS
    <3>2. (x - y) * (x - y) >= 0
      OBVIOUS
    <3>. DEFINE c == (x - y) * (x - y)
                d == x * x + y * y
                e == x * y
    <3>3. c \in Int /\ d \in Int /\ e \in Int /\ c >= 0 /\ c = d - 2 * e
      BY <3>1, <3>2
    <3>. HIDE DEF c, d, e
    <3>4. 2 * e <= d
      BY <3>3
    <3>. QED BY <3>4 DEF d, e
  <2>. DEFINE d == x * x + y * y
              e == x * y
              mm == m * m
  <2>3. d \in Nat /\ e \in Nat /\ d <= w /\ 2 * e <= d /\ mm = d + 2 * e
    BY <2>1, <2>2
  <2>. HIDE DEF d, e, mm
  <2>4. mm <= 2 * w
    BY <2>3
  <2>. QED BY <2>4 DEF mm
<1>. HIDE DEF q, m
<1>1. (q + 142) * (q + 142) <= r * r
  BY <1>0, SquareGrows
<1>2. (q + 142) * (q + 142) = q * q + 284 * q + 20164
  BY <1>0
<1>. DEFINE qq == q * q
            mm == m * m
<1>3. qq \in Nat /\ mm \in Nat /\ qq > 10000 * w /\ mm <= 2 * w
  BY <1>0, <1>9, <1>10
<1>4. qq + 284 * q + 20164 <= 10000 * w + 20000 * m + 20000
  <2>. DEFINE rr == r * r
              s2 == (q + 142) * (q + 142)
  <2>1. s2 <= rr /\ s2 = qq + 284 * q + 20164 /\ rr <= 10000 * v /\ rr \in Nat /\ s2 \in Nat
    BY <1>0, <1>1, <1>2
  <2>. HIDE DEF rr, s2, qq
  <2>. QED BY <1>0, <1>3, <2>1
<1>5. 284 * q <= 20000 * m
  <2>. HIDE DEF qq, mm
  <2>. QED BY <1>0, <1>3, <1>4
<1>6. (284 * q) * (284 * q) <= (20000 * m) * (20000 * m)
  <2>. DEFINE c == 284 * q
              d == 20000 * m
  <2>1. c \in Nat /\ d \in Nat /\ c <= d
    BY <1>0, <1>5
  <2>. HIDE DEF c, d
  <2>2. c * c <= d * d
    BY <2>1, SquareGrows
  <2>. QED BY <2>2 DEF c, d
<1>7. (284 * q) * (284 * q) = 80656 * qq /\ (20000 * m) * (20000 * m) = 400000000 * mm
  BY <1>0
<1>8. 80656 * qq <= 400000000 * mm
  BY <1>6, <1>7
<1>. HIDE DEF qq, mm
<1>. QED BY <1>3, <1>8

----------------------------------------------------------------------------
(* Neighbours. *)

Way(a, b) ==
  \E d \in P!Range(P!DIRECTIONS) : P!CanTraverse(a, d) /\ P!Moved(a, d) = b

Toll(a, b) == IF a[1] # b[1] /\ a[2] # b[2] THEN 142 ELSE 100

LEMMA EightDirections ==
  /\ P!DIRECTIONS \in Seq(Int \X Int)
  /\ P!Range(P!DIRECTIONS) =
       {<<-1, 0>>, <<1, 0>>, <<0, -1>>, <<0, 1>>,
        <<-1, -1>>, <<1, -1>>, <<-1, 1>>, <<1, 1>>}
<1>1. P!DIRECTIONS \in Seq(Int \X Int)
  BY DEF P!DIRECTIONS
<1>2. DOMAIN P!DIRECTIONS = {1, 2, 3, 4, 5, 6, 7, 8}
  BY DEF P!DIRECTIONS
<1>3. P!Range(P!DIRECTIONS) =
        {P!DIRECTIONS[1], P!DIRECTIONS[2], P!DIRECTIONS[3], P!DIRECTIONS[4],
         P!DIRECTIONS[5], P!DIRECTIONS[6], P!DIRECTIONS[7], P!DIRECTIONS[8]}
  BY <1>2 DEF P!Range
<1>. QED BY <1>1, <1>3 DEF P!DIRECTIONS

LEMMA CellIsPair ==
  ASSUME NEW a \in P!Cell
  PROVE  /\ a[1] \in 1..Columns /\ a[2] \in 1..Rows /\ a = <<a[1], a[2]>>
         /\ a[1] \in Int /\ a[2] \in Int /\ a # P!NoCell
BY RouteAssumption DEF P!Cell, P!NoCell

LEMMA StepIsWay ==
  ASSUME routeGrid \subseteq P!Cell, NEW a \in routeGrid,
         NEW d \in P!Range(P!DIRECTIONS), P!CanTraverse(a, d)
  PROVE  /\ P!Moved(a, d) \in routeGrid /\ Way(a, P!Moved(a, d))
         /\ P!Cost(d) = Toll(a, P!Moved(a, d))
<1>1. a[1] \in Int /\ a[2] \in Int
  BY CellIsPair
<1>2. P!Moved(a, d) \in routeGrid
  BY DEF P!CanTraverse
<1>3. P!Moved(a, d)[1] = a[1] + d[1] /\ P!Moved(a, d)[2] = a[2] + d[2]
  BY DEF P!Moved
<1>4. d[1] \in Int /\ d[2] \in Int
  BY EightDirections
<1>5. P!Cost(d) = Toll(a, P!Moved(a, d))
  BY <1>1, <1>3, <1>4 DEF P!Cost, P!Diagonal, Toll
<1>. QED BY <1>2, <1>5 DEF Way

(* No corner is cut on the way back either. *)
LEMMA WayBack ==
  ASSUME routeGrid \subseteq P!Cell, NEW a \in routeGrid, NEW b, Way(a, b)
  PROVE  /\ b \in routeGrid /\ Way(b, a)
         /\ Toll(a, b) = Toll(b, a) /\ Toll(a, b) \in {100, 142}
<1>1. PICK d \in P!Range(P!DIRECTIONS) : P!CanTraverse(a, d) /\ P!Moved(a, d) = b
  BY DEF Way
<1>2. b \in routeGrid
  BY <1>1 DEF P!CanTraverse
<1>3. /\ a = <<a[1], a[2]>> /\ a[1] \in Int /\ a[2] \in Int
      /\ b = <<a[1] + d[1], a[2] + d[2]>>
  BY <1>1, CellIsPair DEF P!Moved
<1>. DEFINE e == <<0 - d[1], 0 - d[2]>>
<1>4. d[1] \in Int /\ d[2] \in Int /\ e \in P!Range(P!DIRECTIONS)
  BY EightDirections
<1>5. P!Moved(b, e) = a
  BY <1>3, <1>4 DEF P!Moved
<1>6. P!CanTraverse(b, e)
  <2>1. P!Diagonal(e) <=> P!Diagonal(d)
    BY <1>4 DEF P!Diagonal
  <2>2. P!Moved(b, <<e[1], 0>>) = P!Moved(a, <<0, d[2]>>)
    BY <1>3, <1>4 DEF P!Moved
  <2>3. P!Moved(b, <<0, e[2]>>) = P!Moved(a, <<d[1], 0>>)
    BY <1>3, <1>4 DEF P!Moved
  <2>. HIDE DEF e
  <2>. QED BY <1>1, <1>5, <2>1, <2>2, <2>3 DEF P!CanTraverse
<1>7. Way(b, a)
  <2>. HIDE DEF e
  <2>. QED BY <1>4, <1>5, <1>6 DEF Way
<1>8. Toll(a, b) = Toll(b, a) /\ Toll(a, b) \in {100, 142}
  BY DEF Toll
<1>. QED BY <1>2, <1>7, <1>8

LEMMA DistanceIsRoot ==
  ASSUME NEW a \in P!Cell, NEW b \in P!Cell
  PROVE  /\ P!Apart(a, b) \in 0..(Columns * Columns + Rows * Rows)
         /\ P!Distance(a, b) = RootTable[P!Apart(a, b)]
         /\ P!Distance(a, b) \in Nat
<1>1. /\ a[1] \in 1..Columns /\ a[2] \in 1..Rows
      /\ b[1] \in 1..Columns /\ b[2] \in 1..Rows
      /\ Columns \in Nat /\ Rows \in Nat
  BY CellIsPair, RouteAssumption
<1>2. \A n \in Nat : \A i, j \in 1..n :
        (i - j) * (i - j) \in Nat /\ (i - j) * (i - j) <= n * n
  <2>. TAKE n \in Nat
  <2>. TAKE i, j \in 1..n
  <2>1. CASE i >= j
    <3>. DEFINE c == i - j
    <3>1. c \in Nat /\ c <= n
      BY <2>1
    <3>. HIDE DEF c
    <3>2. c * c \in Nat /\ c * c <= n * n
      BY <3>1, SquareGrows
    <3>. QED BY <3>2 DEF c
  <2>2. CASE i < j
    <3>. DEFINE c == j - i
    <3>1. c \in Nat /\ c <= n
      BY <2>2
    <3>2. (i - j) * (i - j) = c * c
      OBVIOUS
    <3>. HIDE DEF c
    <3>3. c * c \in Nat /\ c * c <= n * n
      BY <3>1, SquareGrows
    <3>. QED BY <3>2, <3>3
  <2>. QED BY <2>1, <2>2
<1>3. P!Apart(a, b) \in 0..(Columns * Columns + Rows * Rows)
  <2>. DEFINE c == (a[1] - b[1]) * (a[1] - b[1])
              d == (a[2] - b[2]) * (a[2] - b[2])
              cc == Columns * Columns
              rr == Rows * Rows
  <2>1. c \in Nat /\ d \in Nat /\ c <= cc /\ d <= rr /\ cc \in Nat /\ rr \in Nat
    BY <1>1, <1>2
  <2>2. P!Apart(a, b) = c + d
    BY DEF P!Apart, P!Square
  <2>. HIDE DEF c, d, cc, rr
  <2>3. c + d \in 0..(cc + rr)
    BY <2>1
  <2>. QED BY <2>2, <2>3 DEF cc, rr
<1>4. P!Distance(a, b) = RootTable[P!Apart(a, b)]
  BY DEF P!Distance
<1>. QED BY <1>3, <1>4, RootHolds

LEMMA Consistent ==
  ASSUME routeGrid \subseteq P!Cell, NEW a \in routeGrid, NEW b \in routeGrid,
         NEW c \in routeGrid, Way(a, b)
  PROVE  P!Distance(a, c) <= P!Distance(b, c) + Toll(a, b)
<1>. DEFINE v == P!Apart(a, c)
            w == P!Apart(b, c)
            r == P!Distance(a, c)
            t == P!Distance(b, c)
<1>1. /\ v \in Nat /\ w \in Nat /\ r \in Nat /\ t \in Nat
      /\ r * r <= 10000 * v /\ (t + 1) * (t + 1) > 10000 * w
  <2>1. a \in P!Cell /\ b \in P!Cell /\ c \in P!Cell
    OBVIOUS
  <2>2. /\ v \in 0..(Columns * Columns + Rows * Rows) /\ r = RootTable[v] /\ r \in Nat
        /\ w \in 0..(Columns * Columns + Rows * Rows) /\ t = RootTable[w] /\ t \in Nat
    BY <2>1, DistanceIsRoot
  <2>. HIDE DEF v, w, r, t
  <2>3. v \in Nat /\ w \in Nat
    BY <2>2
  <2>. QED BY <2>2, <2>3, RootHolds
<1>2. PICK d \in P!Range(P!DIRECTIONS) : P!CanTraverse(a, d) /\ P!Moved(a, d) = b
  BY DEF Way
<1>3. /\ a[1] \in Int /\ a[2] \in Int /\ c[1] \in Int /\ c[2] \in Int
      /\ b[1] = a[1] + d[1] /\ b[2] = a[2] + d[2]
  BY <1>2, CellIsPair DEF P!Moved
<1>4. Toll(a, b) = P!Cost(d)
  BY <1>2, StepIsWay
<1>. DEFINE x == b[1] - c[1]
            y == b[2] - c[2]
            k == IF x >= 0 THEN x ELSE 0 - x
            l == IF y >= 0 THEN y ELSE 0 - y
<1>15. x \in Int /\ y \in Int
  BY <1>3, EightDirections
<1>16. \A z \in Int : LET m == IF z >= 0 THEN z ELSE 0 - z
                     IN  m \in Nat /\ m * m = z * z /\ z <= m /\ 0 - z <= m
  OBVIOUS
<1>5. /\ x \in Int /\ y \in Int /\ k \in Nat /\ l \in Nat
      /\ k * k = x * x /\ l * l = y * y /\ x <= k /\ 0 - x <= k /\ y <= l /\ 0 - y <= l
  <2>. HIDE DEF x, y
  <2>. QED BY <1>15, <1>16
<1>6. w = x * x + y * y
  BY DEF P!Apart, P!Square
<1>7. d[1] \in {-1, 0, 1} /\ d[2] \in {-1, 0, 1} /\ ~ (d[1] = 0 /\ d[2] = 0)
  BY EightDirections
<1>8. v = (x - d[1]) * (x - d[1]) + (y - d[2]) * (y - d[2])
  <2>1. a[1] - c[1] = x - d[1] /\ a[2] - c[2] = y - d[2]
    BY <1>3, <1>7
  <2>. QED BY <2>1 DEF P!Apart, P!Square
<1>. HIDE DEF x, y, k, l, v, w, r, t
<1>9. x * x \in Nat /\ y * y \in Nat
  <2>1. k * k \in Nat /\ l * l \in Nat
    BY <1>5
  <2>. QED BY <1>5, <2>1
<1>10. \A z \in Int, e \in {-1, 0, 1} : \A m \in Nat :
         z <= m /\ 0 - z <= m =>
           /\ (z - e) * (z - e) <= z * z + 2 * m + 1
           /\ e = 0 => (z - e) * (z - e) = z * z
  <2>. TAKE z \in Int, e \in {-1, 0, 1}
  <2>. TAKE m \in Nat
  <2>. HAVE z <= m /\ 0 - z <= m
  <2>. DEFINE zz == z * z
  <2>0. zz \in Int
    OBVIOUS
  <2>1. CASE e = 0
    <3>1. (z - e) * (z - e) = zz /\ zz <= zz + 2 * m + 1
      BY <2>1
    <3>. QED BY <2>1, <3>1
  <2>2. CASE e = 1
    <3>1. (z - e) * (z - e) = zz - 2 * z + 1
      BY <2>2
    <3>. HIDE DEF zz
    <3>2. (z - e) * (z - e) <= zz + 2 * m + 1
      BY <2>0, <3>1
    <3>. QED BY <2>2, <3>2 DEF zz
  <2>3. CASE e = -1
    <3>1. (z - e) * (z - e) = zz + 2 * z + 1
      BY <2>3
    <3>. HIDE DEF zz
    <3>2. (z - e) * (z - e) <= zz + 2 * m + 1
      BY <2>0, <3>1
    <3>. QED BY <2>3, <3>2 DEF zz
  <2>. QED BY <2>1, <2>2, <2>3
<1>. DEFINE xx == x * x
            yy == y * y
            vx == (x - d[1]) * (x - d[1])
            vy == (y - d[2]) * (y - d[2])
<1>11. /\ xx \in Nat /\ yy \in Nat /\ vx \in Int /\ vy \in Int
       /\ w = xx + yy /\ v = vx + vy
       /\ vx <= xx + 2 * k + 1 /\ vy <= yy + 2 * l + 1
       /\ (d[1] = 0 => vx = xx) /\ (d[2] = 0 => vy = yy)
       /\ k * k = xx /\ l * l = yy
  <2>1. vx \in Int /\ vy \in Int
    BY <1>5, <1>7
  <2>2. vx <= xx + 2 * k + 1 /\ (d[1] = 0 => vx = xx)
    BY <1>5, <1>7, <1>10
  <2>3. vy <= yy + 2 * l + 1 /\ (d[2] = 0 => vy = yy)
    BY <1>5, <1>7, <1>10
  <2>. QED BY <1>5, <1>6, <1>8, <1>9, <2>1, <2>2, <2>3
<1>. HIDE DEF xx, yy, vx, vy
<1>12. CASE d[1] = 0
  <2>1. l * l <= w /\ v <= w + 2 * l + 1
    BY <1>5, <1>11, <1>12
  <2>2. r <= t + 100
    BY <1>1, <1>5, <2>1, RootOfStraight
  <2>3. P!Cost(d) = 100
    BY <1>12 DEF P!Cost, P!Diagonal
  <2>. QED BY <1>4, <2>2, <2>3 DEF r, t
<1>13. CASE d[2] = 0
  <2>1. k * k <= w /\ v <= w + 2 * k + 1
    BY <1>5, <1>11, <1>13
  <2>2. r <= t + 100
    BY <1>1, <1>5, <2>1, RootOfStraight
  <2>3. P!Cost(d) = 100
    BY <1>13 DEF P!Cost, P!Diagonal
  <2>. QED BY <1>4, <2>2, <2>3 DEF r, t
<1>14. CASE d[1] # 0 /\ d[2] # 0
  <2>1. k * k + l * l <= w /\ v <= w + 2 * (k + l) + 2
    BY <1>5, <1>11
  <2>2. r <= t + 142
    BY <1>1, <1>5, <2>1, RootOfDiagonal
  <2>3. P!Cost(d) = 142
    BY <1>14 DEF P!Cost, P!Diagonal
  <2>. QED BY <1>4, <2>2, <2>3 DEF r, t
<1>. QED BY <1>7, <1>12, <1>13, <1>14

----------------------------------------------------------------------------
(* The search. *)

LEMMA InfinityIsLarge == P!Infinity \in Nat /\ P!Infinity > 0
<1>1. Columns \in Nat /\ Rows \in Nat /\ Columns > 0 /\ Rows > 0
  BY RouteAssumption
<1>. DEFINE n == Columns * Rows
<1>2. n \in Nat /\ n > 0
  BY <1>1
<1>3. P!Infinity = 142 * n
  BY <1>1 DEF P!Infinity
<1>. HIDE DEF n
<1>. QED BY <1>2, <1>3

Lengths == 0..P!Infinity

(* What the search works on, from the click on. *)
RouteShape ==
  /\ routeGrid \subseteq P!Cell /\ routeStart \in routeGrid /\ routeGoal \in routeGrid
  /\ routeOpen \in Seq(routeGrid)
  /\ routeCame \in [routeGrid -> routeGrid \union {P!NoCell}]
  /\ routeG \in [routeGrid -> Lengths] /\ routeLeast \in [routeGrid -> Lengths]

(* The reference's lengths are those of ways from the start ... *)
FromStart ==
  /\ routeLeast[routeStart] = 0
  /\ \A n \in routeGrid \ {routeStart} : routeLeast[n] < P!Infinity =>
       \E m \in routeGrid : Way(m, n) /\ routeLeast[m] + Toll(m, n) <= routeLeast[n]

(* ... and no step makes one shorter. *)
Relaxation ==
  \A m, n \in routeGrid : Way(m, n) => routeLeast[n] <= routeLeast[m] + Toll(m, n)

Unsearched ==
  /\ routeOpen = <<routeStart>>
  /\ routeCame = [n \in routeGrid |-> P!NoCell]
  /\ routeG = [n \in routeGrid |-> IF n = routeStart THEN 0 ELSE P!Infinity]

(* What the search has found out: a point off the open set has told its     *)
(* neighbours how long the way over it is.                                  *)
Searched ==
  /\ \A n \in routeGrid : routeLeast[n] <= routeG[n]
  /\ routeG[routeStart] = 0 /\ routeCame[routeStart] = P!NoCell
  /\ \A n \in routeGrid \ P!Range(routeOpen) : routeG[n] < P!Infinity =>
       \A m \in routeGrid : Way(n, m) => routeG[m] <= routeG[n] + Toll(n, m)
  /\ \A n \in P!Range(routeOpen) : routeG[n] < P!Infinity
  /\ \A n \in routeGrid \ {routeStart} : routeG[n] < P!Infinity =>
       /\ routeCame[n] \in routeGrid /\ Way(routeCame[n], n)
       /\ routeG[routeCame[n]] + Toll(routeCame[n], n) <= routeG[n]
  /\ routeG[routeGoal] < P!Infinity => routeGoal \in P!Range(routeOpen)

RouteInv ==
  /\ routePc \in {"idle", "measure", "search", "done"}
  /\ routePc # "done" => routeRoute = <<>>
  /\ routePc # "idle" => RouteShape
  /\ routePc = "idle" => routeGrid = P!Cell /\ routeOpen = <<>>
  /\ routePc \in {"measure", "search"} => FromStart
  /\ routePc = "measure" => Unsearched
  /\ routePc = "search" => Relaxation /\ Searched
  /\ P!RouteIsShortest

----------------------------------------------------------------------------
(* The nearest free point. *)

LEMMA NearestIsFree ==
  ASSUME NEW D, D \subseteq P!Cell, D # {}, NEW q \in P!Cell
  PROVE  P!NearestWalkable(q, D) \in D
<1>1. \A a \in D : a[1] \in Nat /\ a[2] \in Nat /\ a = <<a[1], a[2]>> /\ P!Apart(q, a) \in Nat
  <2>. TAKE a \in D
  <2>1. a \in P!Cell
    OBVIOUS
  <2>2. P!Apart(q, a) \in Nat
    BY <2>1, DistanceIsRoot
  <2>. QED BY <2>1, <2>2, CellIsPair
<1>. DEFINE away == {P!Apart(q, a) : a \in D}
<1>2. PICK b \in D : \A a \in D : P!Apart(q, b) <= P!Apart(q, a)
  <2>1. away \subseteq Nat /\ away # {}
    BY <1>1
  <2>2. PICK k \in away : \A y \in away : k <= y
    <3>. HIDE DEF away
    <3>. QED BY <2>1, LeastNumber
  <2>. QED BY <2>2
<1>. DEFINE near == {a \in D : P!Apart(q, a) = P!Apart(q, b)}
            row == {a[2] : a \in near}
<1>3. PICK c \in near : \A a \in near : c[2] <= a[2]
  <2>1. row \subseteq Nat /\ row # {}
    BY <1>1
  <2>2. PICK k \in row : \A y \in row : k <= y
    <3>. HIDE DEF row
    <3>. QED BY <2>1, LeastNumber
  <2>. QED BY <2>2
<1>. DEFINE line == {a \in near : a[2] = c[2]}
            column == {a[1] : a \in line}
<1>4. PICK e \in line : \A a \in line : e[1] <= a[1]
  <2>1. column \subseteq Nat /\ column # {}
    BY <1>1
  <2>2. PICK k \in column : \A y \in column : k <= y
    <3>. HIDE DEF column
    <3>. QED BY <2>1, LeastNumber
  <2>. QED BY <2>2
<1>5. e \in D /\ P!Apart(q, e) = P!Apart(q, b) /\ e[2] = c[2]
  OBVIOUS
<1>6. ASSUME NEW m \in D \ {e}
      PROVE  \/ P!Apart(q, e) < P!Apart(q, m)
             \/ P!Apart(q, e) = P!Apart(q, m) /\ P!Before(e, m)
  <2>1. CASE P!Apart(q, m) # P!Apart(q, b)
    BY <1>1, <1>2, <1>5, <2>1
  <2>2. CASE m \in near /\ m[2] # c[2]
    BY <1>1, <1>3, <1>5, <2>2 DEF P!Before
  <2>3. CASE m \in near /\ m[2] = c[2]
    <3>1. e[1] <= m[1] /\ P!Apart(q, e) = P!Apart(q, m)
      BY <1>4, <1>5, <2>3
    <3>2. e[1] # m[1]
      <4>1. e = <<e[1], e[2]>> /\ m = <<m[1], m[2]>>
        BY <1>1, <1>5
      <4>. QED BY <1>5, <1>6, <2>3, <4>1
    <3>3. e[1] < m[1] /\ e[2] = m[2]
      BY <1>1, <1>5, <2>3, <3>1, <3>2
    <3>. QED BY <3>1, <3>3 DEF P!Before
  <2>. QED BY <2>1, <2>2, <2>3
<1>. QED BY <1>5, <1>6 DEF P!NearestWalkable

LEMMA FindStarts ==
  ASSUME RouteInv, NEW q \in P!Cell, NEW z \in P!Cell, P!FindPath(q, z)
  PROVE  RouteInv'
<1>1. PICK walls \in Layouts :
        /\ routeGrid' = P!Cell \ walls
        /\ routeStart' = P!NearestWalkable(q, P!Cell \ walls)
        /\ routeGoal' = P!NearestWalkable(z, P!Cell \ walls)
  BY DEF P!FindPath
<1>. DEFINE D == P!Cell \ walls
<1>2. D \subseteq P!Cell /\ D # {}
  BY RouteAssumption DEF P!Cell
<1>3. routeStart' \in D /\ routeGoal' \in D /\ routeGrid' = D
  <2>. HIDE DEF D
  <2>. QED BY <1>1, <1>2, NearestIsFree DEF D
<1>4. /\ routePc' = "measure" /\ routeOpen' = <<routeStart'>>
      /\ routeCame' = [n \in routeGrid' |-> P!NoCell]
      /\ routeG' = [n \in routeGrid' |-> IF n = routeStart' THEN 0 ELSE P!Infinity]
      /\ routeLeast' = routeG' /\ routeRoute' = <<>>
  BY DEF P!FindPath, RouteInv
<1>. HIDE DEF D
<1>5. RouteShape'
  BY <1>2, <1>3, <1>4, InfinityIsLarge DEF RouteShape, Lengths
<1>6. FromStart'
  BY <1>3, <1>4, InfinityIsLarge DEF FromStart
<1>7. Unsearched'
  BY <1>4 DEF Unsearched
<1>. QED BY <1>4, <1>5, <1>6, <1>7 DEF RouteInv, P!RouteIsShortest

----------------------------------------------------------------------------
(* The reference. *)

LEMMA RelaxStep ==
  ASSUME RouteShape, NEW n \in routeGrid
  PROVE  /\ P!Relaxed[n] \in Lengths /\ P!Relaxed[n] <= routeLeast[n]
         /\ \A m \in routeGrid : Way(m, n) => P!Relaxed[n] <= routeLeast[m] + Toll(m, n)
         /\ \/ P!Relaxed[n] = routeLeast[n]
            \/ \E m \in routeGrid : Way(m, n) /\ P!Relaxed[n] = routeLeast[m] + Toll(m, n)
<1>. DEFINE over == {routeLeast[P!Moved(n, d)] + P!Cost(d) :
                       d \in {e \in P!Range(P!DIRECTIONS) : P!CanTraverse(n, e)}}
            all == {routeLeast[n]} \union over
<1>1. P!Relaxed[n] = P!Min(all)
  BY DEF P!Relaxed
<1>2. ASSUME NEW d \in P!Range(P!DIRECTIONS), P!CanTraverse(n, d)
      PROVE  /\ P!Moved(n, d) \in routeGrid /\ Way(P!Moved(n, d), n)
             /\ P!Cost(d) = Toll(P!Moved(n, d), n)
  <2>1. routeGrid \subseteq P!Cell
    BY DEF RouteShape
  <2>2. /\ P!Moved(n, d) \in routeGrid /\ Way(n, P!Moved(n, d))
        /\ P!Cost(d) = Toll(n, P!Moved(n, d))
    BY <1>2, <2>1, StepIsWay
  <2>. QED BY <2>1, <2>2, WayBack
<1>3. \A m \in routeGrid : routeLeast[m] \in Nat /\ routeLeast[m] <= P!Infinity
  BY InfinityIsLarge DEF RouteShape, Lengths
<1>4. all \subseteq Nat /\ all # {}
  <2>1. \A d : P!Cost(d) \in Nat
    BY DEF P!Cost
  <2>. QED BY <1>2, <1>3, <2>1
<1>5. P!Min(all) \in all /\ \A y \in all : P!Min(all) <= y
  <2>. HIDE DEF all
  <2>. QED BY <1>4, MinIsLeast
<1>6. ASSUME NEW m \in routeGrid, Way(m, n) PROVE routeLeast[m] + Toll(m, n) \in all
  <2>1. routeGrid \subseteq P!Cell
    BY DEF RouteShape
  <2>2. Way(n, m)
    BY <1>6, <2>1, WayBack
  <2>3. PICK d \in P!Range(P!DIRECTIONS) : P!CanTraverse(n, d) /\ P!Moved(n, d) = m
    BY <2>2 DEF Way
  <2>4. P!Cost(d) = Toll(m, n)
    BY <1>2, <2>3
  <2>. QED BY <2>3, <2>4
<1>7. P!Min(all) = routeLeast[n] \/
        \E m \in routeGrid : Way(m, n) /\ P!Min(all) = routeLeast[m] + Toll(m, n)
  BY <1>2, <1>5
<1>8. P!Min(all) <= routeLeast[n]
  BY <1>5
<1>. HIDE DEF all
<1>9. P!Min(all) \in Lengths
  <2>. DEFINE x == P!Min(all)
  <2>1. x \in Nat /\ x <= routeLeast[n] /\ routeLeast[n] \in Nat /\ routeLeast[n] <= P!Infinity
    BY <1>3, <1>4, <1>5, <1>8
  <2>. HIDE DEF x
  <2>2. x \in Lengths
    BY <2>1, InfinityIsLarge DEF Lengths
  <2>. QED BY <2>2 DEF x
<1>. QED BY <1>1, <1>5, <1>6, <1>7, <1>8, <1>9

LEMMA TollIsNat == \A a, b : Toll(a, b) \in Nat /\ Toll(a, b) > 0
BY DEF Toll

LEMMA MeasureRelaxes ==
  ASSUME RouteInv, P!Measure
  PROVE  RouteInv'
<1>1. /\ routePc = "measure" /\ RouteShape /\ FromStart /\ Unsearched
      /\ routeLeast' = P!Relaxed /\ routeRoute = <<>>
      /\ UNCHANGED <<routeGrid, routeStart, routeGoal>>
      /\ UNCHANGED <<routeOpen, routeCame, routeG, routeRoute>>
  BY DEF RouteInv, P!Measure, P!choice
<1>2. \A n \in routeGrid : routeLeast[n] \in Nat /\ P!Relaxed[n] \in Nat
  BY <1>1, RelaxStep, InfinityIsLarge DEF RouteShape, Lengths
<1>3. RouteShape'
  <2>1. P!Relaxed \in [routeGrid -> Lengths]
    <3>1. P!Relaxed = [n \in routeGrid |-> P!Relaxed[n]]
      BY DEF P!Relaxed
    <3>. QED BY <1>1, <3>1, RelaxStep
  <2>. QED BY <1>1, <2>1 DEF RouteShape
<1>4. FromStart'
  <2>1. routeStart \in routeGrid /\ routeLeast[routeStart] = 0
    BY <1>1 DEF RouteShape, FromStart
  <2>2. P!Relaxed[routeStart] = 0
    BY <1>1, <1>2, <2>1, RelaxStep
  <2>3. ASSUME NEW n \in routeGrid \ {routeStart}, P!Relaxed[n] < P!Infinity
        PROVE  \E m \in routeGrid : Way(m, n)' /\ P!Relaxed[m] + Toll(m, n) <= P!Relaxed[n]
    <3>1. \A m : Way(m, n)' <=> Way(m, n)
      BY <1>1 DEF Way, P!CanTraverse
    <3>2. PICK m \in routeGrid : Way(m, n) /\ routeLeast[m] + Toll(m, n) <= P!Relaxed[n]
      <4>1. CASE P!Relaxed[n] = routeLeast[n]
        BY <1>1, <2>3, <4>1 DEF FromStart
      <4>2. CASE \E m \in routeGrid : Way(m, n) /\ P!Relaxed[n] = routeLeast[m] + Toll(m, n)
        BY <1>2, <4>2
      <4>. QED BY <1>1, <4>1, <4>2, RelaxStep
    <3>3. P!Relaxed[m] <= routeLeast[m]
      BY <1>1, RelaxStep
    <3>4. P!Relaxed[m] + Toll(m, n) <= P!Relaxed[n]
      BY <1>2, <3>2, <3>3, TollIsNat
    <3>. QED BY <3>1, <3>2, <3>4
  <2>. QED BY <1>1, <2>2, <2>3 DEF FromStart, Toll
<1>5. CASE P!Relaxed # routeLeast
  <2>1. routePc' = "measure"
    BY <1>5 DEF P!Measure
  <2>2. Unsearched'
    BY <1>1 DEF Unsearched
  <2>. QED BY <1>1, <1>3, <1>4, <2>1, <2>2 DEF RouteInv, P!RouteIsShortest
<1>6. CASE P!Relaxed = routeLeast
  <2>1. routePc' = "search"
    BY <1>6 DEF P!Measure
  <2>2. Relaxation'
    <3>1. \A m, n : Way(m, n)' <=> Way(m, n)
      BY <1>1 DEF Way, P!CanTraverse
    <3>2. \A m, n \in routeGrid : Way(m, n) => routeLeast[n] <= routeLeast[m] + Toll(m, n)
      BY <1>1, <1>6, RelaxStep
    <3>. QED BY <1>1, <1>6, <3>1, <3>2 DEF Relaxation, Toll
  <2>3. Searched
    <3>1. P!Range(routeOpen) = {routeStart}
      BY <1>1 DEF Unsearched, P!Range
    <3>2. \A n \in routeGrid : routeG[n] = IF n = routeStart THEN 0 ELSE P!Infinity
      BY <1>1 DEF Unsearched
    <3>3. routeStart \in routeGrid /\ routeGoal \in routeGrid
      BY <1>1 DEF RouteShape
    <3>4. routeCame[routeStart] = P!NoCell
      BY <1>1, <3>3 DEF Unsearched
    <3>5. \A n \in routeGrid : routeLeast[n] <= routeG[n]
      <4>1. routeLeast[routeStart] = 0
        BY <1>1 DEF FromStart
      <4>2. \A n \in routeGrid : routeLeast[n] <= P!Infinity
        BY <1>1, InfinityIsLarge DEF RouteShape, Lengths
      <4>. QED BY <3>2, <4>1, <4>2, InfinityIsLarge
    <3>. QED BY <3>1, <3>2, <3>3, <3>4, <3>5, InfinityIsLarge DEF Searched
  <2>4. Searched'
    <3>1. \A m, n : Way(m, n)' <=> Way(m, n)
      BY <1>1 DEF Way, P!CanTraverse
    <3>2. routeLeast' = routeLeast
      BY <1>1, <1>6
    <3>. QED BY <1>1, <2>3, <3>1, <3>2 DEF Searched, P!Range, Toll
  <2>. QED BY <1>1, <1>3, <1>4, <2>1, <2>2, <2>4 DEF RouteInv, P!RouteIsShortest
<1>. QED BY <1>5, <1>6

----------------------------------------------------------------------------
(* The loop of the search. *)

LEMMA RangeInside ==
  ASSUME NEW D, NEW s \in Seq(D)
  PROVE  P!Range(s) \subseteq D
BY DEF P!Range

LEMMA RangeOfBoth ==
  ASSUME NEW D, NEW s \in Seq(D), NEW z \in Seq(D)
  PROVE  P!Range(s \o z) = P!Range(s) \union P!Range(z)
<1>1. \A i \in 1..Len(s) : (s \o z)[i] = s[i]
  OBVIOUS
<1>2. \A i \in 1..Len(z) : (s \o z)[Len(s) + i] = z[i] /\ Len(s) + i \in DOMAIN (s \o z)
  OBVIOUS
<1>3. \A i \in DOMAIN (s \o z) :
        i \in DOMAIN s \/ \E j \in DOMAIN z : i = Len(s) + j
  <2>. TAKE i \in DOMAIN (s \o z)
  <2>1. i \in 1..(Len(s) + Len(z)) /\ Len(s) \in Nat /\ Len(z) \in Nat
    OBVIOUS
  <2>2. i > Len(s) => i - Len(s) \in DOMAIN z /\ i = Len(s) + (i - Len(s))
    BY <2>1
  <2>. QED BY <2>1, <2>2
<1>4. P!Range(s \o z) \subseteq P!Range(s) \union P!Range(z)
  BY <1>1, <1>2, <1>3 DEF P!Range
<1>5. P!Range(s) \subseteq P!Range(s \o z)
  BY <1>1 DEF P!Range
<1>6. P!Range(z) \subseteq P!Range(s \o z)
  <2>. SUFFICES ASSUME NEW i \in DOMAIN z PROVE z[i] \in P!Range(s \o z)
    BY DEF P!Range
  <2>1. i \in 1..Len(z)
    OBVIOUS
  <2>2. (s \o z)[Len(s) + i] = z[i] /\ Len(s) + i \in DOMAIN (s \o z)
    BY <1>2, <2>1
  <2>. QED BY <2>2 DEF P!Range
<1>. QED BY <1>4, <1>5, <1>6

LEMMA ScoreIsNat ==
  ASSUME RouteShape, NEW n \in routeGrid
  PROVE  /\ routeG[n] \in Nat /\ routeLeast[n] \in Nat /\ P!Score(n) \in Nat
         /\ routeG[n] <= P!Infinity /\ routeLeast[n] <= P!Infinity
         /\ P!Score(n) = routeG[n] + P!Distance(n, routeGoal)
         /\ P!Distance(n, routeGoal) \in Nat
<1>1. P!Distance(n, routeGoal) \in Nat
  BY DistanceIsRoot DEF RouteShape
<1>. QED BY <1>1, InfinityIsLarge DEF RouteShape, Lengths, P!Score

LEMMA CurrentIsBest ==
  ASSUME RouteShape, routeOpen # <<>>
  PROVE  /\ P!Current \in P!Range(routeOpen) /\ P!Current \in routeGrid
         /\ \A n \in P!Range(routeOpen) : P!Score(P!Current) <= P!Score(n)
<1>. DEFINE scores == {P!Score(n) : n \in P!Range(routeOpen)}
            best == P!Min(scores)
            at == {i \in DOMAIN routeOpen : P!Score(routeOpen[i]) = best}
<1>1. P!Current = routeOpen[P!Min(at)]
  BY DEF P!Current
<1>2. routeOpen \in Seq(routeGrid) /\ P!Range(routeOpen) \subseteq routeGrid
  BY RangeInside DEF RouteShape
<1>3. 1 \in DOMAIN routeOpen
  BY <1>2
<1>4. scores \subseteq Nat /\ scores # {}
  BY <1>2, <1>3, ScoreIsNat DEF P!Range
<1>5. best \in scores /\ \A y \in scores : best <= y
  <2>. HIDE DEF scores
  <2>. QED BY <1>4, MinIsLeast
<1>6. at \subseteq Nat /\ at # {}
  <2>1. PICK n \in P!Range(routeOpen) : best = P!Score(n)
    BY <1>5
  <2>2. PICK i \in DOMAIN routeOpen : routeOpen[i] = n
    BY <2>1 DEF P!Range
  <2>3. DOMAIN routeOpen \subseteq Nat
    BY <1>2
  <2>. QED BY <2>1, <2>2, <2>3
<1>7. P!Min(at) \in at
  <2>. HIDE DEF at
  <2>. QED BY <1>6, MinIsLeast
<1>8. P!Current \in P!Range(routeOpen) /\ P!Score(P!Current) = best
  BY <1>1, <1>7 DEF P!Range
<1>. HIDE DEF best
<1>. QED BY <1>2, <1>5, <1>8

(* The neighbours that are reached better by way of n. *)
Gains(n) == {m \in routeGrid : Way(n, m) /\ routeG[n] + Toll(n, m) < routeG[m]}

LEMMA ExpandStep ==
  ASSUME RouteShape, P!Expand
  PROVE  /\ routePc = "search" /\ routeOpen # <<>> /\ P!Current # routeGoal
         /\ routeCame' = [m \in routeGrid |->
                            IF m \in Gains(P!Current) THEN P!Current ELSE routeCame[m]]
         /\ routeG' = [m \in routeGrid |->
                         IF m \in Gains(P!Current)
                         THEN routeG[P!Current] + Toll(P!Current, m) ELSE routeG[m]]
         /\ routeOpen' \in Seq(routeGrid)
         /\ P!Range(routeOpen') = (P!Range(routeOpen) \ {P!Current}) \union Gains(P!Current)
         /\ UNCHANGED <<routeGrid, routeStart, routeGoal>>
         /\ UNCHANGED <<routePc, routeRoute, routeLeast>>
<1>. DEFINE n == P!Current
            better == P!Better(n)
            next == [i \in DOMAIN better |-> P!Moved(n, better[i])]
            rest == P!Filtered(routeOpen, routeGrid \ {n})
            added == P!Filtered(next, routeGrid \ P!Range(rest))
<1>1. /\ routePc = "search" /\ routeOpen # <<>> /\ n # routeGoal
      /\ routeCame' = [m \in routeGrid |-> IF m \in P!Range(next) THEN n ELSE routeCame[m]]
      /\ routeG' = [m \in routeGrid |->
             IF m \in P!Range(next)
             THEN routeG[n] + P!Cost(CHOOSE d \in P!Range(better) : P!Moved(n, d) = m)
             ELSE routeG[m]]
      /\ routeOpen' = rest \o added
      /\ UNCHANGED <<routeGrid, routeStart, routeGoal>>
      /\ UNCHANGED <<routePc, routeRoute, routeLeast>>
  BY DEF P!Expand, P!choice
<1>2. n \in routeGrid /\ routeGrid \subseteq P!Cell /\ routeOpen \in Seq(routeGrid)
  BY <1>1, CurrentIsBest DEF RouteShape
<1>. HIDE DEF n
<1>3. /\ better \in Seq(Int \X Int)
      /\ P!Range(better) = {d \in P!Range(P!DIRECTIONS) :
             P!CanTraverse(n, d) /\ routeG[n] + P!Cost(d) < routeG[P!Moved(n, d)]}
  <2>. DEFINE W == {d \in P!Range(P!DIRECTIONS) :
                      P!CanTraverse(n, d) /\ routeG[n] + P!Cost(d) < routeG[P!Moved(n, d)]}
  <2>1. better = P!Filtered(P!DIRECTIONS, W)
    BY DEF P!Better
  <2>2. P!Range(P!DIRECTIONS) \intersect W = W
    OBVIOUS
  <2>. HIDE DEF W, better
  <2>3. better \in Seq(Int \X Int) /\ P!Range(better) = W
    BY <2>1, <2>2, EightDirections, FilteredRange
  <2>. QED BY <2>3 DEF W
<1>. HIDE DEF better
<1>4. \A d \in P!Range(better) :
        /\ P!Moved(n, d) \in routeGrid /\ Way(n, P!Moved(n, d))
        /\ P!Cost(d) = Toll(n, P!Moved(n, d))
  BY <1>2, <1>3, StepIsWay
<1>5. P!Range(next) = {P!Moved(n, d) : d \in P!Range(better)}
  BY DEF P!Range
<1>6. P!Range(next) = Gains(n)
  <2>1. ASSUME NEW m \in Gains(n) PROVE m \in P!Range(next)
    <3>1. m \in routeGrid /\ routeG[n] + Toll(n, m) < routeG[m]
      BY DEF Gains
    <3>2. PICK d \in P!Range(P!DIRECTIONS) : P!CanTraverse(n, d) /\ P!Moved(n, d) = m
      BY DEF Gains, Way
    <3>3. P!Cost(d) = Toll(n, m)
      BY <1>2, <3>2, StepIsWay
    <3>4. d \in P!Range(better)
      BY <1>3, <3>1, <3>2, <3>3
    <3>. HIDE DEF next
    <3>. QED BY <1>5, <3>2, <3>4
  <2>2. ASSUME NEW m \in P!Range(next) PROVE m \in Gains(n)
    <3>1. PICK d \in P!Range(better) : P!Moved(n, d) = m
      <4>. HIDE DEF next
      <4>. QED BY <1>5
    <3>2. routeG[n] + P!Cost(d) < routeG[P!Moved(n, d)]
      BY <1>3
    <3>. QED BY <1>4, <3>1, <3>2 DEF Gains
  <2>. HIDE DEF next
  <2>. QED BY <2>1, <2>2
<1>7. ASSUME NEW m \in Gains(n)
      PROVE  P!Cost(CHOOSE d \in P!Range(better) : P!Moved(n, d) = m) = Toll(n, m)
  <2>1. \E d \in P!Range(better) : P!Moved(n, d) = m
    <3>. HIDE DEF next
    <3>. QED BY <1>5, <1>6
  <2>. QED BY <1>4, <2>1
<1>8. next \in Seq(routeGrid)
  <2>1. \A i \in DOMAIN better : better[i] \in P!Range(better)
    BY DEF P!Range
  <2>2. \A i \in DOMAIN better : P!Moved(n, better[i]) \in routeGrid
    BY <1>4, <2>1
  <2>3. DOMAIN better = 1..Len(better) /\ Len(better) \in Nat
    BY <1>3
  <2>4. next = [i \in 1..Len(better) |-> P!Moved(n, better[i])]
    BY <2>3
  <2>. HIDE DEF next
  <2>. QED BY <2>2, <2>3, <2>4
<1>9. rest \in Seq(routeGrid) /\ P!Range(rest) = P!Range(routeOpen) \ {n}
  <2>1. P!Range(routeOpen) \intersect (routeGrid \ {n}) = P!Range(routeOpen) \ {n}
    BY <1>2, RangeInside
  <2>2. rest \in Seq(routeGrid) /\ P!Range(rest) = P!Range(routeOpen) \intersect (routeGrid \ {n})
    BY <1>2, FilteredRange
  <2>. QED BY <2>1, <2>2
<1>. HIDE DEF next, rest
<1>10. added \in Seq(routeGrid) /\ P!Range(added) = Gains(n) \ P!Range(rest)
  <2>1. P!Range(next) \intersect (routeGrid \ P!Range(rest)) = Gains(n) \ P!Range(rest)
    BY <1>6 DEF Gains
  <2>2. /\ added \in Seq(routeGrid)
        /\ P!Range(added) = P!Range(next) \intersect (routeGrid \ P!Range(rest))
    BY <1>8, FilteredRange
  <2>. QED BY <2>1, <2>2
<1>. HIDE DEF added
<1>11. routeOpen' \in Seq(routeGrid) /\ P!Range(routeOpen') = P!Range(rest) \union P!Range(added)
  BY <1>1, <1>9, <1>10, RangeOfBoth
<1>12. P!Range(routeOpen') = (P!Range(routeOpen) \ {n}) \union Gains(n)
  BY <1>9, <1>10, <1>11
<1>13. routeCame' = [m \in routeGrid |-> IF m \in Gains(n) THEN n ELSE routeCame[m]]
  BY <1>1, <1>6
<1>14. routeG' = [m \in routeGrid |->
                    IF m \in Gains(n) THEN routeG[n] + Toll(n, m) ELSE routeG[m]]
  BY <1>1, <1>6, <1>7
<1>. QED BY <1>1, <1>11, <1>12, <1>13, <1>14 DEF n

(* Unless a point's length is final, a point of the open set lies on a      *)
(* shortest way to it, and its own length is final.                         *)
LEMMA OnTheWay ==
  ASSUME RouteShape, FromStart, Searched, NEW n \in routeGrid, routeG[n] > routeLeast[n]
  PROVE  \E q \in P!Range(routeOpen) :
           /\ routeG[q] = routeLeast[q]
           /\ routeLeast[q] + P!Distance(q, routeGoal)
                <= routeLeast[n] + P!Distance(n, routeGoal)
<1>. DEFINE h(a) == P!Distance(a, routeGoal)
            Shown(a) == \E q \in P!Range(routeOpen) :
                          /\ routeG[q] = routeLeast[q]
                          /\ routeLeast[q] + h(q) <= routeLeast[a] + h(a)
            late == {a \in routeGrid : routeG[a] > routeLeast[a] /\ ~ Shown(a)}
            lengths == {routeLeast[a] : a \in late}
<1>0. \A a \in routeGrid : /\ routeG[a] \in Nat /\ routeLeast[a] \in Nat
                           /\ h(a) \in Nat /\ routeG[a] <= P!Infinity
                           /\ routeLeast[a] <= routeG[a]
  BY ScoreIsNat DEF Searched
<1>. HIDE DEF h, Shown
<1>1. late = {}
  <2>. SUFFICES ASSUME late # {} PROVE FALSE
    OBVIOUS
  <2>1. PICK k \in lengths : \A y \in lengths : k <= y
    <3>1. lengths \subseteq Nat /\ lengths # {}
      BY <1>0
    <3>. HIDE DEF lengths
    <3>. QED BY <3>1, LeastNumber
  <2>2. PICK a \in late : routeLeast[a] = k
    BY <2>1
  <2>3. /\ a \in routeGrid /\ routeG[a] > routeLeast[a] /\ ~ Shown(a)
        /\ \A m \in routeGrid : routeG[m] > routeLeast[m] /\ routeLeast[m] < routeLeast[a]
                                  => Shown(m)
    <3>1. \A m \in late : routeLeast[a] <= routeLeast[m]
      BY <2>1, <2>2
    <3>. QED BY <1>0, <2>2, <3>1
  <2>. HIDE DEF late, lengths
  <2>4. a # routeStart
    BY <2>3, InfinityIsLarge DEF FromStart, Searched
  <2>5. PICK m \in routeGrid : Way(m, a) /\ routeLeast[m] + Toll(m, a) <= routeLeast[a]
    <3>1. routeLeast[a] < P!Infinity
      BY <1>0, <2>3, InfinityIsLarge
    <3>. QED BY <2>3, <2>4, <3>1 DEF FromStart
  <2>6. routeLeast[m] < routeLeast[a] /\ Toll(m, a) \in Nat
    BY <1>0, <2>3, <2>5, TollIsNat
  <2>7. routeLeast[m] + h(m) <= routeLeast[a] + h(a)
    <3>1. routeGrid \subseteq P!Cell /\ routeGoal \in routeGrid
      BY DEF RouteShape
    <3>2. h(m) <= h(a) + Toll(m, a)
      BY <2>3, <2>5, <3>1, Consistent DEF h
    <3>. QED BY <1>0, <2>3, <2>5, <2>6, <3>2
  <2>8. CASE routeG[m] > routeLeast[m]
    <3>1. PICK q \in P!Range(routeOpen) :
            routeG[q] = routeLeast[q] /\ routeLeast[q] + h(q) <= routeLeast[m] + h(m)
      BY <2>3, <2>6, <2>8 DEF Shown
    <3>2. q \in routeGrid
      BY RangeInside DEF RouteShape
    <3>3. routeLeast[q] + h(q) <= routeLeast[a] + h(a)
      BY <1>0, <2>3, <2>7, <3>1, <3>2
    <3>. QED BY <2>3, <3>1, <3>3 DEF Shown
  <2>9. CASE routeG[m] = routeLeast[m] /\ m \in P!Range(routeOpen)
    BY <2>3, <2>7, <2>9 DEF Shown
  <2>10. CASE routeG[m] = routeLeast[m] /\ m \notin P!Range(routeOpen)
    <3>1. routeG[m] < P!Infinity
      BY <1>0, <2>3, <2>6, <2>10, InfinityIsLarge
    <3>2. routeG[a] <= routeG[m] + Toll(m, a)
      BY <2>3, <2>5, <2>10, <3>1 DEF Searched
    <3>. QED BY <1>0, <2>3, <2>5, <2>6, <2>10, <3>2
  <2>. QED BY <1>0, <2>8, <2>9, <2>10
<1>2. Shown(n)
  BY <1>1
<1>. QED BY <1>2 DEF Shown, h

LEMMA CurrentIsFinal ==
  ASSUME RouteShape, FromStart, Searched, routeOpen # <<>>
  PROVE  routeG[P!Current] = routeLeast[P!Current]
<1>. DEFINE n == P!Current
<1>1. /\ n \in routeGrid /\ routeLeast[n] <= routeG[n]
      /\ \A m \in P!Range(routeOpen) : m \in routeGrid /\ P!Score(n) <= P!Score(m)
  BY CurrentIsBest, RangeInside DEF Searched, RouteShape
<1>. HIDE DEF n
<1>2. ASSUME routeG[n] > routeLeast[n] PROVE FALSE
  <2>1. PICK q \in P!Range(routeOpen) :
          /\ routeG[q] = routeLeast[q]
          /\ routeLeast[q] + P!Distance(q, routeGoal)
               <= routeLeast[n] + P!Distance(n, routeGoal)
    BY <1>1, <1>2, OnTheWay
  <2>2. q \in routeGrid /\ P!Score(n) <= P!Score(q)
    BY <1>1
  <2>3. /\ P!Score(n) = routeG[n] + P!Distance(n, routeGoal)
        /\ P!Score(q) = routeG[q] + P!Distance(q, routeGoal)
        /\ routeG[n] \in Nat /\ routeLeast[n] \in Nat /\ P!Distance(n, routeGoal) \in Nat
        /\ routeG[q] \in Nat /\ P!Distance(q, routeGoal) \in Nat
    BY <1>1, <2>2, ScoreIsNat
  <2>. QED BY <1>2, <2>1, <2>2, <2>3
<1>3. routeG[n] \in Nat /\ routeLeast[n] \in Nat
  BY <1>1, ScoreIsNat
<1>. QED BY <1>1, <1>2, <1>3 DEF n

LEMMA ExpandSearches ==
  ASSUME RouteInv, P!Expand
  PROVE  RouteInv'
<1>. DEFINE n == P!Current
            B == Gains(n)
<1>1. RouteShape /\ FromStart /\ Relaxation /\ Searched /\ routeRoute = <<>>
  <2>1. routePc = "search"
    BY DEF P!Expand
  <2>. QED BY <2>1 DEF RouteInv
<1>2. /\ routePc = "search" /\ routeOpen # <<>> /\ n # routeGoal
      /\ routeCame' = [m \in routeGrid |-> IF m \in B THEN n ELSE routeCame[m]]
      /\ routeG' = [m \in routeGrid |-> IF m \in B THEN routeG[n] + Toll(n, m) ELSE routeG[m]]
      /\ routeOpen' \in Seq(routeGrid)
      /\ P!Range(routeOpen') = (P!Range(routeOpen) \ {n}) \union B
      /\ UNCHANGED <<routeGrid, routeStart, routeGoal>>
      /\ UNCHANGED <<routePc, routeRoute, routeLeast>>
  BY <1>1, ExpandStep
<1>3. n \in routeGrid /\ n \in P!Range(routeOpen) /\ routeG[n] < P!Infinity
  BY <1>1, <1>2, CurrentIsBest DEF Searched
<1>4. \A m : m \in B <=> m \in routeGrid /\ Way(n, m) /\ routeG[n] + Toll(n, m) < routeG[m]
  BY DEF Gains
<1>. HIDE DEF n, B
<1>5. \A m \in routeGrid : /\ routeG[m] \in Nat /\ routeLeast[m] \in Nat
                           /\ routeG[m] <= P!Infinity
  BY <1>1, ScoreIsNat
<1>6. \A m \in routeGrid :
        /\ m \in B => /\ routeG'[m] = routeG[n] + Toll(n, m) /\ routeG'[m] < routeG[m]
                      /\ routeCame'[m] = n
        /\ m \notin B => routeG'[m] = routeG[m] /\ routeCame'[m] = routeCame[m]
  BY <1>2, <1>4
<1>7. \A m \in routeGrid : routeG'[m] \in Nat /\ routeG'[m] <= routeG[m]
  BY <1>3, <1>5, <1>6, TollIsNat
<1>8. n \notin B /\ routeStart \notin B /\ routeG'[n] = routeG[n]
  <2>1. n \notin B
    BY <1>3, <1>4, <1>5, TollIsNat
  <2>2. routeG[routeStart] = 0 /\ routeStart \in routeGrid
    BY <1>1 DEF Searched, RouteShape
  <2>3. routeStart \notin B
    BY <1>3, <1>4, <1>5, <2>2, TollIsNat
  <2>. QED BY <1>3, <1>6, <2>1, <2>3
<1>9. RouteShape'
  <2>1. routeG' \in [routeGrid -> Lengths]
    <3>1. \A m \in routeGrid : routeG'[m] \in Lengths
      BY <1>5, <1>7, InfinityIsLarge DEF Lengths
    <3>2. routeG' = [m \in routeGrid |-> routeG'[m]]
      BY <1>2
    <3>. HIDE DEF Lengths
    <3>. QED BY <3>1, <3>2
  <2>2. routeCame' \in [routeGrid -> routeGrid \union {P!NoCell}]
    BY <1>1, <1>2, <1>3 DEF RouteShape
  <2>. QED BY <1>1, <1>2, <2>1, <2>2 DEF RouteShape
<1>10. \A a, b : Way(a, b)' <=> Way(a, b)
  BY <1>2 DEF Way, P!CanTraverse
<1>11. FromStart' /\ Relaxation'
  BY <1>1, <1>2, <1>10 DEF FromStart, Relaxation, Toll
<1>12. \A m \in routeGrid : routeLeast[m] <= routeG'[m]
  <2>. TAKE m \in routeGrid
  <2>1. routeLeast[m] <= routeG[m] /\ routeLeast[n] <= routeG[n]
    BY <1>1, <1>3 DEF Searched
  <2>2. CASE m \in B
    <3>1. routeLeast[m] <= routeLeast[n] + Toll(n, m)
      BY <1>1, <1>3, <1>4, <2>2 DEF Relaxation
    <3>. QED BY <1>3, <1>5, <1>6, <2>1, <2>2, <3>1, TollIsNat
  <2>. QED BY <1>6, <2>1, <2>2
<1>13. routeG'[routeStart] = 0 /\ routeCame'[routeStart] = P!NoCell
  BY <1>1, <1>6, <1>8 DEF Searched, RouteShape
<1>14. ASSUME NEW a \in routeGrid \ P!Range(routeOpen'), routeG'[a] < P!Infinity,
              NEW m \in routeGrid, Way(a, m)
       PROVE  routeG'[m] <= routeG'[a] + Toll(a, m)
  <2>1. CASE a = n
    <3>1. CASE m \in B
      BY <1>3, <1>5, <1>6, <1>8, <2>1, <3>1, TollIsNat
    <3>2. CASE m \notin B
      <4>1. ~ (routeG[n] + Toll(n, m) < routeG[m])
        BY <1>4, <1>14, <2>1, <3>2
      <4>. QED BY <1>3, <1>5, <1>6, <1>8, <2>1, <3>2, <4>1, TollIsNat
    <3>. QED BY <3>1, <3>2
  <2>2. CASE a # n
    <3>1. a \notin P!Range(routeOpen) /\ a \notin B
      BY <1>2, <1>14, <2>2
    <3>2. routeG'[a] = routeG[a] /\ routeG[m] <= routeG[a] + Toll(a, m)
      BY <1>1, <1>6, <1>14, <3>1 DEF Searched
    <3>. QED BY <1>5, <1>7, <3>2, TollIsNat
  <2>. QED BY <2>1, <2>2
<1>15. \A a \in P!Range(routeOpen') : routeG'[a] < P!Infinity
  <2>. TAKE a \in P!Range(routeOpen')
  <2>1. a \in routeGrid
    BY <1>2, RangeInside
  <2>2. CASE a \in B
    BY <1>5, <1>6, <1>7, <2>1, <2>2, InfinityIsLarge
  <2>3. CASE a \notin B
    <3>1. a \in P!Range(routeOpen)
      BY <1>2, <2>3
    <3>. QED BY <1>1, <1>6, <2>1, <2>3, <3>1 DEF Searched
  <2>. QED BY <2>2, <2>3
<1>16. ASSUME NEW a \in routeGrid \ {routeStart}, routeG'[a] < P!Infinity
       PROVE  /\ routeCame'[a] \in routeGrid /\ Way(routeCame'[a], a)
              /\ routeG'[routeCame'[a]] + Toll(routeCame'[a], a) <= routeG'[a]
  <2>1. CASE a \in B
    <3>1. routeCame'[a] = n /\ Way(n, a) /\ routeG'[n] + Toll(n, a) = routeG'[a]
      BY <1>4, <1>6, <1>8, <2>1
    <3>. QED BY <1>3, <1>5, <1>7, <3>1
  <2>2. CASE a \notin B
    <3>1. routeG'[a] = routeG[a] /\ routeCame'[a] = routeCame[a]
      BY <1>6, <2>2
    <3>2. /\ routeCame[a] \in routeGrid /\ Way(routeCame[a], a)
          /\ routeG[routeCame[a]] + Toll(routeCame[a], a) <= routeG[a]
      BY <1>1, <1>16, <3>1 DEF Searched
    <3>3. routeG'[routeCame[a]] <= routeG[routeCame[a]]
      BY <1>7, <3>2
    <3>4. routeG'[routeCame[a]] + Toll(routeCame[a], a) <= routeG[a]
      BY <1>5, <1>7, <3>2, <3>3, TollIsNat
    <3>. QED BY <3>1, <3>2, <3>4
  <2>. QED BY <2>1, <2>2
<1>17. routeG'[routeGoal] < P!Infinity => routeGoal \in P!Range(routeOpen')
  <2>1. routeGoal \in routeGrid
    BY <1>1 DEF RouteShape
  <2>2. CASE routeGoal \in B
    BY <1>2, <2>2
  <2>3. CASE routeGoal \notin B
    <3>1. routeG'[routeGoal] = routeG[routeGoal]
      BY <1>6, <2>1, <2>3
    <3>2. routeG[routeGoal] < P!Infinity => routeGoal \in P!Range(routeOpen)
      BY <1>1 DEF Searched
    <3>. QED BY <1>2, <3>1, <3>2
  <2>. QED BY <2>2, <2>3
<1>18. Searched'
  <2>1. P!Infinity' = P!Infinity /\ P!NoCell' = P!NoCell
    BY DEF P!Infinity, P!NoCell
  <2>2. P!Range(routeOpen)' = P!Range(routeOpen')
    BY DEF P!Range
  <2>3. \A a, b : Toll(a, b)' = Toll(a, b)
    BY DEF Toll
  <2>. QED BY <1>2, <1>10, <1>12, <1>13, <1>14, <1>15, <1>16, <1>17, <2>2, <2>3 DEF Searched
<1>. QED BY <1>1, <1>2, <1>9, <1>11, <1>18 DEF RouteInv, P!RouteIsShortest

LEMMA NoRouteHolds ==
  ASSUME RouteInv, P!NoRoute
  PROVE  RouteInv'
<1>1. /\ RouteShape /\ FromStart /\ Searched /\ routeRoute = <<>> /\ routeOpen = <<>>
      /\ routePc' = "done" /\ UNCHANGED <<routeGrid, routeStart, routeGoal>>
      /\ UNCHANGED <<routeOpen, routeCame, routeG, routeRoute, routeLeast>>
  BY DEF RouteInv, P!NoRoute, P!choice
<1>2. P!Range(routeOpen) = {}
  BY <1>1 DEF P!Range
<1>3. routeGoal \in routeGrid /\ ~ (routeG[routeGoal] < P!Infinity)
  BY <1>1, <1>2 DEF RouteShape, Searched
<1>4. ~ (routeG[routeGoal] > routeLeast[routeGoal])
  BY <1>1, <1>2, <1>3, OnTheWay
<1>5. routeLeast[routeGoal] = P!Infinity
  BY <1>1, <1>3, <1>4, ScoreIsNat, InfinityIsLarge
<1>6. P!RouteIsShortest'
  BY <1>1, <1>5 DEF P!RouteIsShortest
<1>7. RouteShape'
  BY <1>1 DEF RouteShape
<1>. QED BY <1>1, <1>6, <1>7 DEF RouteInv

----------------------------------------------------------------------------
(* The way back. *)

(* A shortest way to the goal, from wherever it starts. *)
OnRoute(s) ==
  /\ s \in Seq(routeGrid) /\ s # <<>> /\ s[Len(s)] = routeGoal
  /\ routeG[s[1]] = routeLeast[s[1]] /\ routeG[s[1]] < P!Infinity
  /\ \A j \in 1..(Len(s) - 1) :
       /\ Way(s[j], s[j + 1])
       /\ routeLeast[s[j]] + Toll(s[j], s[j + 1]) = routeLeast[s[j + 1]]
  /\ \A j, k \in 1..Len(s) : j < k => routeLeast[s[j]] < routeLeast[s[k]]

LEMMA RouteGrows ==
  ASSUME RouteShape, Relaxation, Searched, NEW s, OnRoute(s), routeCame[s[1]] # P!NoCell
  PROVE  OnRoute(<<routeCame[s[1]]>> \o s) /\ Len(<<routeCame[s[1]]>> \o s) = Len(s) + 1
<1>. DEFINE h == s[1]
            c == routeCame[s[1]]
            r == <<c>> \o s
<1>1. /\ s \in Seq(routeGrid) /\ s # <<>> /\ Len(s) \in Nat /\ Len(s) > 0
      /\ \A j \in 1..Len(s) : s[j] \in routeGrid
  BY DEF OnRoute
<1>2. h \in routeGrid /\ h # routeStart /\ routeG[h] = routeLeast[h] /\ routeG[h] < P!Infinity
  <2>1. 1 \in 1..Len(s)
    BY <1>1
  <2>. QED BY <1>1, <2>1 DEF OnRoute, Searched
<1>3. c \in routeGrid /\ Way(c, h) /\ routeG[c] + Toll(c, h) <= routeG[h]
  BY <1>2 DEF Searched
<1>4. r \in Seq(routeGrid) /\ Len(r) = Len(s) + 1 /\ r # <<>>
  BY <1>1, <1>3
<1>5. r[1] = c /\ \A k \in 2..Len(r) : r[k] = s[k - 1] /\ k - 1 \in 1..Len(s)
  <2>1. r[1] = c
    BY <1>1
  <2>2. ASSUME NEW k \in 2..Len(r) PROVE r[k] = s[k - 1] /\ k - 1 \in 1..Len(s)
    BY <1>1, <1>4, <2>2
  <2>. QED BY <2>1, <2>2
<1>. HIDE DEF r, h, c
<1>6. /\ routeG[c] \in Nat /\ routeLeast[c] \in Nat /\ routeG[h] \in Nat
      /\ routeLeast[c] <= routeG[c] /\ Toll(c, h) \in Nat /\ Toll(c, h) > 0
      /\ routeLeast[h] <= routeLeast[c] + Toll(c, h)
  BY <1>2, <1>3, ScoreIsNat, TollIsNat DEF Searched, Relaxation
<1>7. /\ routeG[c] = routeLeast[c] /\ routeG[c] < P!Infinity
      /\ routeLeast[c] + Toll(c, h) = routeLeast[h] /\ routeLeast[c] < routeLeast[h]
  BY <1>2, <1>3, <1>6, InfinityIsLarge
<1>8. r[Len(r)] = routeGoal
  <2>1. Len(r) \in 2..Len(r) /\ Len(r) - 1 = Len(s)
    BY <1>1, <1>4
  <2>2. s[Len(s)] = routeGoal
    BY DEF OnRoute
  <2>. QED BY <1>5, <2>1, <2>2
<1>9. ASSUME NEW j \in 1..(Len(r) - 1)
      PROVE  /\ Way(r[j], r[j + 1])
             /\ routeLeast[r[j]] + Toll(r[j], r[j + 1]) = routeLeast[r[j + 1]]
  <2>1. j + 1 \in 2..Len(r) /\ (j + 1) - 1 = j /\ r[j + 1] = s[j]
    BY <1>1, <1>4, <1>5
  <2>2. CASE j = 1
    BY <1>3, <1>5, <1>7, <2>1, <2>2 DEF h
  <2>3. CASE j # 1
    <3>1. j \in 2..Len(r) /\ j - 1 \in 1..(Len(s) - 1) /\ (j - 1) + 1 = j
      BY <1>1, <1>4, <2>3
    <3>2. r[j] = s[j - 1]
      BY <1>5, <3>1
    <3>3. /\ Way(s[j - 1], s[(j - 1) + 1])
          /\ routeLeast[s[j - 1]] + Toll(s[j - 1], s[(j - 1) + 1]) = routeLeast[s[(j - 1) + 1]]
      BY <3>1 DEF OnRoute
    <3>. QED BY <2>1, <3>1, <3>2, <3>3
  <2>. QED BY <2>2, <2>3
<1>10. ASSUME NEW j \in 1..Len(r), NEW k \in 1..Len(r), j < k
       PROVE  routeLeast[r[j]] < routeLeast[r[k]]
  <2>1. k \in 2..Len(r) /\ r[k] = s[k - 1] /\ k - 1 \in 1..Len(s)
    BY <1>1, <1>4, <1>5, <1>10
  <2>2. routeLeast[s[k - 1]] \in Nat
    BY <1>1, <2>1, ScoreIsNat
  <2>3. \A i, l \in 1..Len(s) : i < l => routeLeast[s[i]] < routeLeast[s[l]]
    BY DEF OnRoute
  <2>4. CASE j = 1
    <3>1. r[j] = c /\ (k - 1 = 1 => s[k - 1] = h)
      BY <1>5, <2>4 DEF h
    <3>2. k - 1 # 1 => routeLeast[h] < routeLeast[s[k - 1]]
      <4>1. 1 \in 1..Len(s) /\ (k - 1 # 1 => 1 < k - 1)
        BY <1>1, <2>1
      <4>. QED BY <2>1, <2>3, <4>1 DEF h
    <3>. QED BY <1>6, <1>7, <2>1, <2>2, <3>1, <3>2
  <2>5. CASE j # 1
    <3>1. j \in 2..Len(r) /\ j - 1 \in 1..Len(s) /\ j - 1 < k - 1
      BY <1>1, <1>4, <1>10, <2>1, <2>5
    <3>2. r[j] = s[j - 1]
      BY <1>5, <3>1
    <3>. QED BY <2>1, <2>3, <3>1, <3>2
  <2>. QED BY <2>4, <2>5
<1>11. OnRoute(r)
  BY <1>4, <1>5, <1>7, <1>8, <1>9, <1>10 DEF OnRoute
<1>. QED BY <1>4, <1>11 DEF r, c

LEMMA GridIsFinite ==
  ASSUME RouteShape
  PROVE  /\ IsFiniteSet(routeGrid) /\ Cardinality(routeGrid) \in Nat
         /\ P!Cardinality(routeGrid) = Cardinality(routeGrid)
<1>1. Columns \in Int /\ Rows \in Int /\ 1 \in Int
  BY RouteAssumption
<1>2. IsFiniteSet(1..Columns) /\ IsFiniteSet(1..Rows)
  BY <1>1, FS_Interval
<1>3. IsFiniteSet(P!Cell)
  BY <1>2, FS_Product DEF P!Cell
<1>4. IsFiniteSet(routeGrid)
  BY <1>3, FS_Subset DEF RouteShape
<1>5. P!Cardinality(routeGrid) = Cardinality(routeGrid)
  BY DEF P!Cardinality, P!IsFiniteSet, Cardinality, IsFiniteSet
<1>. QED BY <1>4, <1>5, FS_CardinalityType

(* A shortest way passes no point twice. *)
LEMMA RouteFits ==
  ASSUME RouteShape, NEW s, OnRoute(s)
  PROVE  Len(s) <= Cardinality(routeGrid)
<1>. DEFINE W == 1..Len(s)
<1>1. /\ Len(s) \in Nat /\ s \in [W -> routeGrid]
  BY DEF OnRoute
<1>2. IsFiniteSet(W) /\ Cardinality(W) = Len(s)
  <2>1. 1 \in Int /\ Len(s) \in Int /\ Len(s) - 1 + 1 = Len(s)
    BY <1>1
  <2>2. Cardinality(W) = IF 1 > Len(s) THEN 0 ELSE Len(s) - 1 + 1
    BY <2>1, FS_Interval
  <2>. QED BY <1>1, <2>1, <2>2, FS_Interval
<1>3. IsFiniteSet(routeGrid) /\ Cardinality(routeGrid) \in Nat
  BY GridIsFinite
<1>4. ASSUME Cardinality(routeGrid) < Cardinality(W) PROVE FALSE
  <2>1. PICK j, k \in W : j # k /\ s[j] = s[k]
    <3>. HIDE DEF W
    <3>. QED BY <1>1, <1>2, <1>3, <1>4, FS_PigeonHole
  <2>2. routeLeast[s[j]] \in Nat
    BY <1>1, ScoreIsNat
  <2>3. j \in Nat /\ k \in Nat /\ (j < k \/ k < j)
    BY <1>1, <2>1
  <2>. QED BY <2>1, <2>2, <2>3 DEF OnRoute
<1>. QED BY <1>1, <1>2, <1>3, <1>4

LEMMA RouteIsFound ==
  ASSUME RouteShape, Relaxation, Searched,
         routeG[routeGoal] = routeLeast[routeGoal], routeG[routeGoal] < P!Infinity
  PROVE  /\ OnRoute(P!Reconstructed(routeGoal))
         /\ P!Reconstructed(routeGoal)[1] = routeStart
<1>. DEFINE n == P!Cardinality(routeGrid)
            D == {s \in Seq(routeGrid) : s # <<>>}
            one == <<routeGoal>>
            step == [x \in (1..n) \X D |->
                       IF routeCame[Head(x[2])] = P!NoCell THEN x[2]
                       ELSE <<routeCame[Head(x[2])]>> \o x[2]]
            Same(f) == [i \in 0..n |->
                          IF i = 0 THEN <<routeGoal>>
                          ELSE LET first == Head(f[i - 1]) IN
                               IF routeCame[first] = P!NoCell THEN f[i - 1]
                               ELSE <<routeCame[first]>> \o f[i - 1]]
            path == CHOOSE f : f = Same(f)
<1>0. n \in Nat /\ n = Cardinality(routeGrid)
  BY GridIsFinite
<1>1. one \in D /\ step \in [(1..n) \X D -> D]
  <2>1. routeGoal \in routeGrid
    BY DEF RouteShape
  <2>2. one \in D
    BY <2>1
  <2>3. ASSUME NEW s \in D, routeCame[Head(s)] # P!NoCell
        PROVE  <<routeCame[Head(s)]>> \o s \in D
    <3>1. Head(s) \in routeGrid /\ s \in Seq(routeGrid)
      OBVIOUS
    <3>2. routeCame[Head(s)] \in routeGrid
      BY <2>3, <3>1 DEF RouteShape
    <3>. QED BY <3>1, <3>2
  <2>4. \A x \in (1..n) \X D : x[2] \in D
    OBVIOUS
  <2>5. \A x \in (1..n) \X D : (IF routeCame[Head(x[2])] = P!NoCell THEN x[2]
                                ELSE <<routeCame[Head(x[2])]>> \o x[2]) \in D
    <3>. HIDE DEF D, n
    <3>. QED BY <2>3, <2>4
  <2>. HIDE DEF D, n, one
  <2>. QED BY <2>2, <2>5
<1>2. PICK f \in [0..n -> D] :
        f[0] = one /\ \A i \in 1..n : f[i] = step[<<i, f[i - 1]>>]
  <2>. HIDE DEF step, n, D, one
  <2>1. Repeats(n, D, one, step)
    BY <1>0, <1>1, Iterated
  <2>. QED BY <2>1 DEF Repeats
<1>3. f = Same(f)
  <2>. HIDE DEF n, D
  <2>1. \A i \in 0..n : i # 0 => i \in 1..n /\ i - 1 \in 0..n
    BY <1>0
  <2>2. \A i \in 0..n : i # 0 => f[i - 1] \in D
    BY <1>2, <2>1
  <2>3. \A i \in 0..n : i # 0 =>
          step[<<i, f[i - 1]>>] = IF routeCame[Head(f[i - 1])] = P!NoCell THEN f[i - 1]
                                  ELSE <<routeCame[Head(f[i - 1])]>> \o f[i - 1]
    BY <2>1, <2>2
  <2>4. f = [i \in 0..n |-> f[i]]
    BY <1>2
  <2>. HIDE DEF step
  <2>5. \A i \in 0..n : f[i] = IF i = 0 THEN <<routeGoal>>
                              ELSE LET first == Head(f[i - 1]) IN
                                   IF routeCame[first] = P!NoCell THEN f[i - 1]
                                   ELSE <<routeCame[first]>> \o f[i - 1]
    BY <1>2, <2>1, <2>3 DEF one
  <2>. QED BY <2>4, <2>5
<1>4. path = Same(path)
  <2>. HIDE DEF Same
  <2>. QED BY <1>3
<1>5. P!Reconstructed(routeGoal) = path[n]
  BY DEF P!Reconstructed
<1>. DEFINE Fine(i) == /\ OnRoute(path[i])
                       /\ routeCame[path[i][1]] = P!NoCell \/ Len(path[i]) = i + 1
            good == {i \in 0..n : Fine(i)}
<1>6. 0 \in good
  <2>1. path[0] = <<routeGoal>>
    <3>1. 0 \in 0..n
      BY <1>0
    <3>. HIDE DEF path, n
    <3>. QED BY <1>4, <3>1
  <2>2. OnRoute(<<routeGoal>>)
    BY DEF OnRoute, RouteShape
  <2>. HIDE DEF path, n
  <2>3. Fine(0)
    BY <2>1, <2>2
  <2>. HIDE DEF Fine
  <2>. QED BY <1>0, <2>3
<1>7. ASSUME NEW i \in 0..(n - 1), i \in good PROVE i + 1 \in good
  <2>0. Fine(i)
    <3>. HIDE DEF Fine, n
    <3>. QED BY <1>7
  <2>1. Fine(i) /\ i + 1 \in 0..n
    <3>. HIDE DEF Fine, n
    <3>. QED BY <1>0, <2>0
  <2>2. path[i + 1] = IF routeCame[Head(path[i])] = P!NoCell THEN path[i]
                      ELSE <<routeCame[Head(path[i])]>> \o path[i]
    <3>1. i + 1 \in 0..n /\ i + 1 # 0 /\ (i + 1) - 1 = i
      BY <1>0
    <3>. HIDE DEF n, path
    <3>. QED BY <1>4, <3>1
  <2>. HIDE DEF path, Same
  <2>3. Head(path[i]) = path[i][1] /\ OnRoute(path[i])
    BY <2>1 DEF OnRoute
  <2>4. CASE routeCame[path[i][1]] = P!NoCell
    BY <2>1, <2>2, <2>3, <2>4
  <2>5. CASE routeCame[path[i][1]] # P!NoCell
    <3>1. path[i + 1] = <<routeCame[path[i][1]]>> \o path[i] /\ Len(path[i]) = i + 1
      BY <2>1, <2>2, <2>3, <2>5
    <3>2. OnRoute(path[i + 1]) /\ Len(path[i + 1]) = (i + 1) + 1
      BY <2>3, <2>5, <3>1, RouteGrows
    <3>. QED BY <2>1, <3>2
  <2>. QED BY <2>4, <2>5
<1>8. Fine(n)
  <2>1. \A i \in 0..n : i \in good
    <3>. HIDE DEF good, n
    <3>. QED BY <1>0, <1>6, <1>7, StepByStep
  <2>2. n \in 0..n
    BY <1>0
  <2>. HIDE DEF Fine, n
  <2>. QED BY <2>1, <2>2
<1>. HIDE DEF path, n
<1>9. OnRoute(path[n]) /\ routeCame[path[n][1]] = P!NoCell
  BY <1>0, <1>8, RouteFits
<1>10. path[n][1] = routeStart
  <2>1. path[n][1] \in routeGrid /\ routeG[path[n][1]] < P!Infinity
    BY <1>9 DEF OnRoute
  <2>2. P!NoCell \notin routeGrid
    BY CellIsPair DEF RouteShape
  <2>. QED BY <1>9, <2>1, <2>2 DEF Searched
<1>. QED BY <1>5, <1>9, <1>10

LEMMA GoalIsReached ==
  ASSUME RouteInv, P!GoalReached
  PROVE  RouteInv'
<1>1. /\ RouteShape /\ FromStart /\ Relaxation /\ Searched
      /\ routeOpen # <<>> /\ P!Current = routeGoal
      /\ routeRoute' = P!Reconstructed(routeGoal) /\ routePc' = "done"
      /\ UNCHANGED <<routeGrid, routeStart, routeGoal>>
      /\ UNCHANGED <<routeOpen, routeCame, routeG, routeLeast>>
  BY DEF RouteInv, P!GoalReached, P!choice
<1>2. routeG[routeGoal] = routeLeast[routeGoal] /\ routeG[routeGoal] < P!Infinity
  BY <1>1, CurrentIsFinal, CurrentIsBest DEF Searched
<1>. DEFINE r == P!Reconstructed(routeGoal)
<1>3. OnRoute(r) /\ r[1] = routeStart
  BY <1>1, <1>2, RouteIsFound
<1>. HIDE DEF r
<1>4. /\ r \in Seq(routeGrid) /\ r # <<>> /\ Head(r) = routeStart /\ P!Last(r) = routeGoal
  BY <1>3 DEF OnRoute, P!Last
<1>5. ASSUME NEW i \in 1..(Len(r) - 1)
      PROVE  \E d \in P!Range(P!DIRECTIONS) :
               /\ P!CanTraverse(r[i], d) /\ P!Moved(r[i], d) = r[i + 1]
               /\ routeLeast[r[i]] + P!Cost(d) = routeLeast[r[i + 1]]
  <2>1. /\ Way(r[i], r[i + 1])
        /\ routeLeast[r[i]] + Toll(r[i], r[i + 1]) = routeLeast[r[i + 1]]
    BY <1>3 DEF OnRoute
  <2>2. PICK d \in P!Range(P!DIRECTIONS) :
          P!CanTraverse(r[i], d) /\ P!Moved(r[i], d) = r[i + 1]
    BY <2>1 DEF Way
  <2>3. routeGrid \subseteq P!Cell /\ r[i] \in routeGrid
    BY <1>1, <1>4 DEF RouteShape
  <2>4. P!Cost(d) = Toll(r[i], r[i + 1])
    BY <2>2, <2>3, StepIsWay
  <2>. QED BY <2>1, <2>2, <2>4
<1>6. P!RouteIsShortest'
  <2>1. routeRoute' = r
    BY <1>1 DEF r
  <2>2. \A q, d : P!CanTraverse(q, d)' <=> P!CanTraverse(q, d)
    BY <1>1 DEF P!CanTraverse
  <2>3. P!Last(r) = P!Last(routeRoute)'
    BY <2>1 DEF P!Last
  <2>. QED BY <1>1, <1>2, <1>4, <1>5, <2>1, <2>2, <2>3 DEF P!RouteIsShortest
<1>7. RouteShape'
  BY <1>1 DEF RouteShape
<1>. QED BY <1>1, <1>6, <1>7 DEF RouteInv

LEMMA RouteInit == P!Init => RouteInv
BY DEF P!Init, RouteInv, P!RouteIsShortest

LEMMA RouteNext == RouteInv /\ [P!Next]_routeVars => RouteInv'
<1>. SUFFICES ASSUME RouteInv, [P!Next]_routeVars PROVE RouteInv'
  OBVIOUS
<1>1. ASSUME NEW q \in P!Cell, NEW z \in P!Cell, P!FindPath(q, z) PROVE RouteInv'
  BY <1>1, FindStarts
<1>2. CASE P!Measure
  BY <1>2, MeasureRelaxes
<1>3. CASE P!GoalReached
  BY <1>3, GoalIsReached
<1>4. CASE P!Expand
  BY <1>4, ExpandSearches
<1>5. CASE P!NoRoute
  BY <1>5, NoRouteHolds
<1>6. CASE UNCHANGED routeVars
  <2>1. /\ UNCHANGED <<routeGrid, routeStart, routeGoal, routePc, routeOpen>>
        /\ UNCHANGED <<routeCame, routeG, routeRoute, routeLeast>>
    BY <1>6 DEF routeVars
  <2>2. /\ RouteShape' <=> RouteShape
        /\ Unsearched' <=> Unsearched
        /\ P!RouteIsShortest' <=> P!RouteIsShortest
    BY <2>1 DEF RouteShape, Unsearched, P!RouteIsShortest, P!CanTraverse
  <2>3. /\ FromStart' <=> FromStart
        /\ Relaxation' <=> Relaxation
        /\ Searched' <=> Searched
    BY <2>1 DEF FromStart, Relaxation, Searched, Way, P!CanTraverse, Toll, P!Range
  <2>. QED BY <2>1, <2>2, <2>3 DEF RouteInv
<1>. QED BY <1>1, <1>2, <1>3, <1>4, <1>5, <1>6 DEF P!Next

(* findWorkstationPath answers with a shortest way, on any grid, with any   *)
(* furniture and from any point to any other: A* closes no point for good,  *)
(* and the distance it estimates by never exceeds the way that is left.     *)
THEOREM RoutesAreShortest == CourseSpec => []RouteIsShortest
<1>. DEFINE Inv == part = "route" => RouteInv
<1>1. CourseInit => Inv
  BY RouteInit DEF CourseInit
<1>2. Inv /\ [CourseNext]_courseVars => Inv'
  <2>1. part = "route" /\ [CourseNext]_courseVars => [P!Next]_routeVars
    BY DEF CourseNext, courseVars
  <2>2. [CourseNext]_courseVars => UNCHANGED part
    BY DEF CourseNext, courseVars
  <2>. QED BY <2>1, <2>2, RouteNext
<1>3. Inv => RouteIsShortest
  BY DEF RouteInv, RouteIsShortest
<1>. QED BY <1>1, <1>2, <1>3, PTL DEF CourseSpec

----------------------------------------------------------------------------
(* The claim queue.  What a bucket holds once it is refilled and what was   *)
(* reserved in this tick are within the limit together; with what was       *)
(* reserved in the tick before, within the limit and what flows in a tick.  *)
Filled(limit, b, age) == J!Lower(limit, b + age * (limit \div J!Minute))

Affords(limit, b, age, now, before) ==
  /\ b \in 0..limit /\ age \in 0..2 /\ now \in Nat /\ before \in Nat
  /\ now + Filled(limit, b, age) <= limit
  /\ (now + before) + Filled(limit, b, age) <= limit + (limit \div 2)

LEMMA FullAffords ==
  ASSUME NEW limit \in Nat
  PROVE  Affords(limit, limit, 2, 0, 0)
<1>1. limit \div 2 \in Nat
  OBVIOUS
<1>. DEFINE h == limit \div 2
<1>. HIDE DEF h
<1>2. Filled(limit, limit, 2) = J!Lower(limit, limit + 2 * h)
  BY DEF Filled, J!Minute, h
<1>3. J!Lower(limit, limit + 2 * h) = limit
  BY <1>1 DEF J!Lower, h
<1>. QED BY <1>1, <1>2, <1>3 DEF Affords

(* What a bucket may hold, told without products. *)
LEMMA FilledIs ==
  ASSUME NEW limit \in Nat, NEW b \in 0..limit, NEW age \in 0..2
  PROVE  LET h == limit \div 2 IN
         /\ h \in Nat
         /\ Filled(limit, b, age) \in 0..limit /\ Filled(limit, b, age) >= b
         /\ age = 0 => Filled(limit, b, age) = b
         /\ age = 1 => Filled(limit, b, age) = J!Lower(limit, b + h)
         /\ age = 2 => Filled(limit, b, age) = J!Lower(limit, b + h + h)
<1>. DEFINE h == limit \div 2
<1>1. h \in Nat
  OBVIOUS
<1>2. Filled(limit, b, age) = J!Lower(limit, b + age * h)
  BY DEF Filled, J!Minute
<1>. HIDE DEF h
<1>3. 0 * h = 0 /\ 1 * h = h /\ 2 * h = h + h
  BY <1>1
<1>4. CASE age = 0
  BY <1>1, <1>2, <1>3, <1>4 DEF J!Lower
<1>5. CASE age = 1
  <2>1. Filled(limit, b, age) = J!Lower(limit, b + h)
    BY <1>2, <1>3, <1>5
  <2>. QED BY <1>1, <1>5, <2>1 DEF J!Lower, h
<1>6. CASE age = 2
  <2>1. Filled(limit, b, age) = J!Lower(limit, b + (h + h))
    BY <1>2, <1>3, <1>6
  <2>. QED BY <1>1, <1>6, <2>1 DEF J!Lower, h
<1>7. age = 0 \/ age = 1 \/ age = 2
  OBVIOUS
<1>. QED BY <1>1, <1>4, <1>5, <1>6, <1>7 DEF h

LEMMA AffordsLater ==
  ASSUME NEW limit \in Nat, NEW b, NEW age, NEW n, NEW m, Affords(limit, b, age, n, m)
  PROVE  Affords(limit, b, J!Lower(2, age + 1), 0, n)
<1>. DEFINE l == J!Lower(2, age + 1)
            f == Filled(limit, b, age)
            k == Filled(limit, b, l)
<1>1. /\ b \in 0..limit /\ age \in 0..2 /\ n \in Nat
      /\ n + f <= limit
  BY DEF Affords
<1>2. l \in 0..2 /\ (age = 0 => l = 1) /\ (age = 1 => l = 2) /\ (age = 2 => l = 2)
  BY <1>1 DEF J!Lower
<1>. HIDE DEF l, f, k
<1>. DEFINE h == limit \div 2
<1>3. /\ h \in Nat /\ f \in 0..limit /\ f >= b
      /\ age = 0 => f = b
      /\ age = 1 => f = J!Lower(limit, b + h)
      /\ age = 2 => f = J!Lower(limit, b + h + h)
  BY <1>1, FilledIs DEF f
<1>4. /\ k \in 0..limit /\ k >= b
      /\ l = 0 => k = b
      /\ l = 1 => k = J!Lower(limit, b + h)
      /\ l = 2 => k = J!Lower(limit, b + h + h)
  BY <1>1, <1>2, FilledIs DEF k
<1>. HIDE DEF h
<1>5. k <= limit /\ k <= f + h
  BY <1>1, <1>2, <1>3, <1>4 DEF J!Lower
<1>6. 0 + k <= limit /\ (0 + n) + k <= limit + h
  BY <1>1, <1>3, <1>4, <1>5
<1>. QED BY <1>1, <1>2, <1>3, <1>4, <1>6 DEF Affords, l, k, h

LEMMA AffordsRefilled ==
  ASSUME NEW limit \in Nat, NEW b, NEW age, NEW n, NEW m, Affords(limit, b, age, n, m)
  PROVE  /\ Affords(limit, Filled(limit, b, age), 0, n, m)
         /\ \A c \in 0..Filled(limit, b, age) :
              Affords(limit, Filled(limit, b, age) - c, 0, n + c, m)
<1>. DEFINE f == Filled(limit, b, age)
<1>1. /\ b \in 0..limit /\ age \in 0..2 /\ n \in Nat /\ m \in Nat
      /\ n + f <= limit /\ (n + m) + f <= limit + (limit \div 2)
  BY DEF Affords
<1>. HIDE DEF f
<1>2. f \in 0..limit
  <2>1. f \in 0..limit
    BY <1>1, FilledIs DEF f
  <2>. QED BY <2>1
<1>3. ASSUME NEW c \in 0..f
      PROVE  Affords(limit, f - c, 0, n + c, m)
  <2>. DEFINE d == f - c
  <2>1. d \in 0..limit /\ n + c \in Nat
    BY <1>1, <1>2
  <2>2. Filled(limit, d, 0) = d
    <3>. HIDE DEF d
    <3>. QED BY <2>1, FilledIs
  <2>3. (n + c) + d = n + f /\ ((n + c) + m) + d = (n + m) + f
    BY <1>1, <1>2
  <2>. HIDE DEF d
  <2>4. Affords(limit, d, 0, n + c, m)
    BY <1>1, <2>1, <2>2, <2>3 DEF Affords
  <2>. QED BY <2>4 DEF d
<1>4. Affords(limit, f, 0, n, m)
  <2>1. Filled(limit, f, 0) = f
    BY <1>2, FilledIs
  <2>. QED BY <1>1, <1>2, <2>1 DEF Affords
<1>. QED BY <1>3, <1>4 DEF f

----------------------------------------------------------------------------
QueueRow == [st : J!Status, age : 0..(MostWait + 1),
             wait : 0..J!Higher(1, MostHold), tries : 0..MaxAttempts]
Candidate == [task : QueueTask, tries : Nat]
PollRecord == [pc : {"sleeps", "refused", "chooses", "commits"}, list : Seq(Candidate)]

QueueShape ==
  /\ queueRow \in [QueueTask -> QueueRow]
  /\ queuePoll \in [Poll -> PollRecord]
  /\ queueBucket \in [requests : 0..Rpm, tokens : 0..Tpm, age : 0..2]
  /\ queueRecent \in [1..2 -> [requests : Nat, tokens : Nat]]

(* Attempts are left to a task that is queued, and one that is leased has   *)
(* used one; who commits has something to commit.                           *)
AttemptsLeft ==
  /\ \A t \in QueueTask :
       /\ queueRow[t].st = "queued" => queueRow[t].tries < MaxAttempts
       /\ queueRow[t].st = "leased" => queueRow[t].tries > 0
  /\ \A p \in Poll : queuePoll[p].pc = "commits" => queuePoll[p].list # <<>>

QuotaKept ==
  /\ Affords(Rpm, queueBucket.requests, queueBucket.age,
             queueRecent[1].requests, queueRecent[2].requests)
  /\ Affords(Tpm, queueBucket.tokens, queueBucket.age,
             queueRecent[1].tokens, queueRecent[2].tokens)

QueueInv == QueueShape /\ AttemptsLeft /\ QuotaKept

LEMMA ShortSums ==
  ASSUME QueueShape, NEW what \in {"requests", "tokens"}
  PROVE  /\ J!Spent(what, 1) = queueRecent[1][what]
         /\ J!Spent(what, 2) = queueRecent[1][what] + queueRecent[2][what]
<1>. DEFINE a == queueRecent[1][what]
            b == queueRecent[2][what]
            Same(f) == [i \in 0..J!Minute |-> IF i = 0 THEN 0 ELSE f[i - 1] + queueRecent[i][what]]
            s == [i \in 0..2 |-> IF i = 0 THEN 0 ELSE IF i = 1 THEN a ELSE a + b]
            sum == CHOOSE f : f = Same(f)
<1>1. a \in Nat /\ b \in Nat
  BY DEF QueueShape
<1>2. s = Same(s)
  <2>1. \A i \in 0..2 : s[i] = IF i = 0 THEN 0 ELSE s[i - 1] + queueRecent[i][what]
    <3>1. s[0] = 0 /\ s[1] = a /\ s[2] = a + b
      OBVIOUS
    <3>2. 1 - 1 = 0 /\ 2 - 1 = 1 /\ 0 + a = a
      BY <1>1
    <3>3. \A i \in 0..2 : i = 0 \/ i = 1 \/ i = 2
      OBVIOUS
    <3>. HIDE DEF s
    <3>. QED BY <3>1, <3>2, <3>3
  <2>2. s = [i \in 0..2 |-> s[i]]
    OBVIOUS
  <2>. HIDE DEF s
  <2>. QED BY <2>1, <2>2 DEF J!Minute
<1>3. sum = Same(sum)
  <2>. HIDE DEF Same
  <2>. QED BY <1>2
<1>4. sum[0] = 0 /\ sum[1] = sum[0] + a /\ sum[2] = sum[1] + b
  <2>. HIDE DEF sum
  <2>1. sum = [i \in 0..2 |-> IF i = 0 THEN 0 ELSE sum[i - 1] + queueRecent[i][what]]
    BY <1>3 DEF J!Minute
  <2>2. \A i \in 0..2 : sum[i] = IF i = 0 THEN 0 ELSE sum[i - 1] + queueRecent[i][what]
    BY <2>1
  <2>3. 0 \in 0..2 /\ 1 \in 0..2 /\ 2 \in 0..2 /\ 1 - 1 = 0 /\ 2 - 1 = 1
    OBVIOUS
  <2>. QED BY <2>2, <2>3
<1>5. \A k : J!Spent(what, k) = sum[k]
  BY DEF J!Spent
<1>. HIDE DEF sum
<1>. QED BY <1>1, <1>4, <1>5

LEMMA QuotaIsKept == QueueInv => J!WithinQuota
<1>. SUFFICES ASSUME QueueInv PROVE J!WithinQuota
  OBVIOUS
<1>1. QueueShape /\ QuotaKept /\ Rpm \in Nat /\ Tpm \in Nat
  BY QueueAssumption DEF QueueInv
<1>2. ASSUME NEW limit \in Nat, NEW b, NEW age, NEW n, NEW m, Affords(limit, b, age, n, m)
      PROVE  /\ n <= limit + (1 - 1) * (limit \div 2)
             /\ n + m <= limit + (2 - 1) * (limit \div 2)
  <2>. DEFINE h == limit \div 2
              f == Filled(limit, b, age)
  <2>1. h \in Nat
    OBVIOUS
  <2>2. f \in 0..limit /\ n \in Nat /\ m \in Nat /\ n + f <= limit /\ (n + m) + f <= limit + h
    BY <1>2, FilledIs DEF Affords
  <2>. HIDE DEF h, f
  <2>3. n <= limit + (1 - 1) * h /\ n + m <= limit + (2 - 1) * h
    BY <2>1, <2>2
  <2>. QED BY <2>3 DEF h
<1>3. /\ queueRecent[1].requests <= Rpm + (1 - 1) * (Rpm \div 2)
      /\ queueRecent[1].requests + queueRecent[2].requests <= Rpm + (2 - 1) * (Rpm \div 2)
  BY <1>1, <1>2 DEF QuotaKept
<1>4. /\ queueRecent[1].tokens <= Tpm + (1 - 1) * (Tpm \div 2)
      /\ queueRecent[1].tokens + queueRecent[2].tokens <= Tpm + (2 - 1) * (Tpm \div 2)
  BY <1>1, <1>2 DEF QuotaKept
<1>5. /\ J!Spent("requests", 1) = queueRecent[1].requests
      /\ J!Spent("requests", 2) = queueRecent[1].requests + queueRecent[2].requests
      /\ J!Spent("tokens", 1) = queueRecent[1].tokens
      /\ J!Spent("tokens", 2) = queueRecent[1].tokens + queueRecent[2].tokens
  BY <1>1, ShortSums
<1>. SUFFICES ASSUME NEW k \in 1..2
              PROVE  /\ J!Spent("requests", k) <= Rpm + (k - 1) * (Rpm \div 2)
                     /\ J!Spent("tokens", k) <= Tpm + (k - 1) * (Tpm \div 2)
  BY DEF J!WithinQuota, J!Minute
<1>6. k = 1 \/ k = 2
  OBVIOUS
<1>. QED BY <1>3, <1>4, <1>5, <1>6

LEMMA QueueStarts == J!Init => QueueInv
<1>. SUFFICES ASSUME J!Init PROVE QueueInv
  OBVIOUS
<1>1. QueueShape
  <2>1. J!Absent \in QueueRow /\ J!Queued \in QueueRow
    BY QueueAssumption DEF QueueRow, J!Status, J!Queued, J!Absent, J!Higher
  <2>2. queueRow \in [QueueTask -> QueueRow]
    BY <2>1 DEF J!Init
  <2>3. queuePoll \in [Poll -> PollRecord]
    BY DEF J!Init, PollRecord, J!Sleeps
  <2>4. queueBucket \in [requests : 0..Rpm, tokens : 0..Tpm, age : 0..2]
    BY QueueAssumption DEF J!Init, J!FullBucket, J!Minute
  <2>5. queueRecent \in [1..2 -> [requests : Nat, tokens : Nat]]
    BY DEF J!Init, J!Quiet, J!Minute
  <2>. QED BY <2>2, <2>3, <2>4, <2>5 DEF QueueShape
<1>2. AttemptsLeft
  BY QueueAssumption DEF J!Init, AttemptsLeft, J!Queued, J!Absent, J!Sleeps
<1>3. QuotaKept
  BY QueueAssumption, FullAffords DEF J!Init, QuotaKept, J!FullBucket, J!Quiet, J!Minute
<1>. QED BY <1>1, <1>2, <1>3 DEF QueueInv

(* A step that leaves the rest alone has to show only what it changes.      *)
LEMMA QueueRowMoves ==
  ASSUME QueueInv, queueRow' \in [QueueTask -> QueueRow],
         UNCHANGED <<queuePoll, queueBucket, queueRecent>>,
         \A t \in QueueTask :
           /\ queueRow'[t].st = "queued" => queueRow'[t].tries < MaxAttempts
           /\ queueRow'[t].st = "leased" => queueRow'[t].tries > 0
  PROVE  QueueInv'
<1>1. QueueShape'
  BY DEF QueueInv, QueueShape
<1>2. AttemptsLeft'
  BY DEF QueueInv, AttemptsLeft
<1>3. QuotaKept'
  BY DEF QueueInv, QuotaKept
<1>. QED BY <1>1, <1>2, <1>3 DEF QueueInv

LEMMA PollMoves ==
  ASSUME QueueInv, NEW p \in Poll, NEW k \in PollRecord,
         queuePoll' = [queuePoll EXCEPT ![p] = k], k.pc = "commits" => k.list # <<>>,
         UNCHANGED <<queueRow, queueBucket, queueRecent>>
  PROVE  QueueInv'
<1>1. QueueShape'
  BY DEF QueueInv, QueueShape
<1>2. AttemptsLeft'
  BY DEF QueueInv, AttemptsLeft, QueueShape
<1>3. QuotaKept'
  BY DEF QueueInv, QuotaKept
<1>. QED BY <1>1, <1>2, <1>3 DEF QueueInv

LEMMA QueueCreates ==
  ASSUME QueueInv, NEW t \in QueueTask, J!Create(t)
  PROVE  QueueInv'
<1>1. UNCHANGED <<queuePoll, queueBucket, queueRecent>> /\ queueRow' = [queueRow EXCEPT ![t] = J!Queued]
  BY DEF J!Create
<1>2. J!Queued \in QueueRow /\ J!Queued.st = "queued" /\ J!Queued.tries = 0 /\ 0 < MaxAttempts
  BY QueueAssumption DEF J!Queued, J!Absent, QueueRow, J!Status, J!Higher
<1>3. queueRow \in [QueueTask -> QueueRow]
  BY DEF QueueInv, QueueShape
<1>4. queueRow' \in [QueueTask -> QueueRow]
  BY <1>1, <1>2, <1>3
<1>5. \A u \in QueueTask : queueRow'[u] = queueRow[u] \/ queueRow'[u] = J!Queued
  BY <1>1, <1>3
<1>. QED BY <1>1, <1>2, <1>4, <1>5, QueueRowMoves DEF QueueInv, AttemptsLeft

LEMMA QueueEnds ==
  ASSUME QueueInv, NEW t \in QueueTask, J!EndTask(t)
  PROVE  QueueInv'
<1>. DEFINE e == [J!Absent EXCEPT !.st = "ended"]
<1>1. UNCHANGED <<queuePoll, queueBucket, queueRecent>> /\ queueRow' = [queueRow EXCEPT ![t] = e]
  BY DEF J!EndTask
<1>2. e \in QueueRow /\ e.st = "ended"
  BY QueueAssumption DEF J!Absent, QueueRow, J!Status, J!Higher
<1>. HIDE DEF e
<1>3. queueRow \in [QueueTask -> QueueRow]
  BY DEF QueueInv, QueueShape
<1>4. queueRow' \in [QueueTask -> QueueRow]
  BY <1>1, <1>2, <1>3
<1>5. \A u \in QueueTask : queueRow'[u] = queueRow[u] \/ queueRow'[u] = e
  BY <1>1, <1>3
<1>. QED BY <1>1, <1>2, <1>4, <1>5, QueueRowMoves DEF QueueInv, AttemptsLeft

(* What doubles from one is one at least. *)
LEMMA DoubledIsPositive ==
  ASSUME NEW n \in Nat
  PROVE  J!Doubled(n) \in Nat \ {0}
<1>. DEFINE D == Nat \ {0}
            one == 1
            step == [x \in (1..n) \X D |-> 2 * x[2]]
            Same(f) == [i \in 0..n |-> IF i = 0 THEN 1 ELSE 2 * f[i - 1]]
            power == CHOOSE f : f = Same(f)
<1>1. one \in D /\ step \in [(1..n) \X D -> D]
  OBVIOUS
<1>2. PICK f \in [0..n -> D] :
        f[0] = one /\ \A i \in 1..n : f[i] = step[<<i, f[i - 1]>>]
  <2>. HIDE DEF step, D, one
  <2>1. Repeats(n, D, one, step)
    BY <1>1, Iterated
  <2>. QED BY <2>1 DEF Repeats
<1>3. f = Same(f)
  <2>1. \A i \in 0..n : i # 0 => i \in 1..n /\ i - 1 \in 0..n
    OBVIOUS
  <2>2. \A i \in 0..n : i # 0 => f[i - 1] \in D
    <3>. HIDE DEF D
    <3>. QED BY <1>2, <2>1
  <2>3. \A i \in 0..n : i # 0 => step[<<i, f[i - 1]>>] = 2 * f[i - 1]
    <3>. HIDE DEF D
    <3>. QED BY <2>1, <2>2
  <2>4. f = [i \in 0..n |-> f[i]]
    BY <1>2
  <2>. HIDE DEF step
  <2>5. \A i \in 0..n : f[i] = IF i = 0 THEN 1 ELSE 2 * f[i - 1]
    BY <1>2, <2>1, <2>3
  <2>. QED BY <2>4, <2>5
<1>4. power = Same(power)
  <2>. HIDE DEF Same
  <2>. QED BY <1>3
<1>5. J!Doubled(n) = power[n]
  BY DEF J!Doubled
<1>. DEFINE Fine(i) == power[i] \in D
            good == {i \in 0..n : Fine(i)}
<1>6. 0 \in good
  <2>1. power[0] = 1
    <3>. HIDE DEF power
    <3>. QED BY <1>4
  <2>. HIDE DEF power
  <2>. QED BY <2>1
<1>7. ASSUME NEW i \in 0..(n - 1), i \in good PROVE i + 1 \in good
  <2>1. i + 1 \in 0..n /\ i + 1 # 0 /\ (i + 1) - 1 = i
    OBVIOUS
  <2>2. power[i + 1] = 2 * power[i]
    <3>. HIDE DEF power
    <3>1. \A j \in 0..n : power[j] = IF j = 0 THEN 1 ELSE 2 * power[j - 1]
      BY <1>4
    <3>. QED BY <2>1, <3>1
  <2>. HIDE DEF power
  <2>. QED BY <1>7, <2>1, <2>2
<1>8. n \in good
  <2>. HIDE DEF good
  <2>1. \A i \in 0..n : i \in good
    BY <1>6, <1>7, StepByStep
  <2>. QED BY <2>1
<1>. QED BY <1>5, <1>8

LEMMA DelayIsATick == \A n \in Nat : n > 0 => J!RetryDelay(n) = 1
<1>. SUFFICES ASSUME NEW n \in Nat, n > 0 PROVE J!RetryDelay(n) = 1
  OBVIOUS
<1>. DEFINE d == J!Doubled(n - 1)
<1>1. d \in Nat \ {0}
  <2>1. n - 1 \in Nat
    OBVIOUS
  <2>. QED BY <2>1, DoubledIsPositive
<1>. HIDE DEF d
<1>2. J!Lower(d, 30) \in 1..30
  BY <1>1 DEF J!Lower
<1>3. \A k \in 1..30 : (k + 29) \div 30 = 1
  OBVIOUS
<1>. QED BY <1>2, <1>3 DEF J!RetryDelay, J!MostDelay, d

LEMMA QueueRetries ==
  ASSUME QueueInv, NEW t \in QueueTask, J!RetryTask(t)
  PROVE  QueueInv'
<1>. DEFINE r == queueRow[t]
            e == [[r EXCEPT !.st = "queued"] EXCEPT !.wait = 1]
<1>1. UNCHANGED <<queuePoll, queueBucket, queueRecent>> /\ r.st = "leased" /\ r.tries < MaxAttempts
  BY DEF J!RetryTask
<1>2. queueRow \in [QueueTask -> QueueRow] /\ r \in QueueRow /\ r.tries > 0
  BY <1>1 DEF QueueInv, QueueShape, AttemptsLeft
<1>3. J!RetryDelay(r.tries) = 1
  <2>1. r.tries \in Nat /\ r.tries > 0
    BY <1>2, QueueAssumption DEF QueueRow
  <2>. QED BY <2>1, DelayIsATick
<1>4. queueRow' = [queueRow EXCEPT ![t] = e]
  <2>1. queueRow' = [queueRow EXCEPT ![t].st = "queued", ![t].wait = J!RetryDelay(queueRow[t].tries)]
    BY DEF J!RetryTask
  <2>. QED BY <1>2, <1>3, <2>1
<1>. HIDE DEF r
<1>5. e \in QueueRow /\ e.st = "queued" /\ e.tries = r.tries
  <2>1. 1 \in 0..J!Higher(1, MostHold)
    BY QueueAssumption DEF J!Higher
  <2>. QED BY <1>2, <2>1 DEF QueueRow, J!Status
<1>. HIDE DEF e
<1>6. queueRow' \in [QueueTask -> QueueRow]
  BY <1>2, <1>4, <1>5
<1>7. \A u \in QueueTask : queueRow'[u] = queueRow[u] \/ (u = t /\ queueRow'[u] = e)
  BY <1>2, <1>4
<1>. QED BY <1>1, <1>5, <1>6, <1>7, QueueRowMoves DEF QueueInv, AttemptsLeft

LEMMA QueueBegins ==
  ASSUME QueueInv, NEW p \in Poll, J!BeginClaim(p)
  PROVE  QueueInv'
<1>1. UNCHANGED <<queueRow, queueBucket, queueRecent>>
  BY DEF J!BeginClaim
<1>2. PICK s \in J!Candidates(p) : \E q \in J!Ranked(s \intersect Able) :
        queuePoll' = [queuePoll EXCEPT ![p] =
          [pc |-> "chooses",
           list |-> [i \in DOMAIN q |-> [task |-> q[i], tries |-> queueRow[q[i]].tries]]]]
  BY DEF J!BeginClaim
<1>3. PICK q \in J!Ranked(s \intersect Able) :
        queuePoll' = [queuePoll EXCEPT ![p] =
          [pc |-> "chooses",
           list |-> [i \in DOMAIN q |-> [task |-> q[i], tries |-> queueRow[q[i]].tries]]]]
  BY <1>2
<1>4. s \subseteq QueueTask
  <2>1. s \subseteq J!Ready(p)
    BY <1>2 DEF J!Candidates
  <2>2. J!Ready(p) \subseteq TasksOf[p]
    BY DEF J!Ready
  <2>. QED BY <2>1, <2>2, QueueAssumption
<1>. DEFINE a == s \intersect Able
            n == Cardinality(a)
<1>5. n \in Nat
  <2>1. IsFiniteSet(a)
    BY <1>4, QueueAssumption, FS_Subset
  <2>. QED BY <2>1, FS_CardinalityType
<1>6. q \in [1..n -> a]
  <2>1. q \in J!SetToSeqs(a)
    BY <1>3 DEF J!Ranked
  <2>2. J!Cardinality(a) = n
    BY DEF J!Cardinality, J!IsFiniteSet, Cardinality, IsFiniteSet
  <2>3. \A z \in J!SetToSeqs(a) : z \in [1..J!Cardinality(a) -> a]
    BY DEF J!SetToSeqs
  <2>. QED BY <2>1, <2>2, <2>3
<1>. DEFINE list == [i \in DOMAIN q |-> [task |-> q[i], tries |-> queueRow[q[i]].tries]]
<1>. HIDE DEF n
<1>7. list \in Seq(Candidate)
  <2>1. DOMAIN q = 1..n /\ \A i \in 1..n : q[i] \in QueueTask
    BY <1>4, <1>6
  <2>2. \A u \in QueueTask : queueRow[u].tries \in Nat
    <3>1. \A u \in QueueTask : queueRow[u].tries \in 0..MaxAttempts
      BY DEF QueueInv, QueueShape, QueueRow
    <3>. QED BY <3>1, QueueAssumption
  <2>3. \A i \in 1..n : [task |-> q[i], tries |-> queueRow[q[i]].tries] \in Candidate
    BY <2>1, <2>2 DEF Candidate
  <2>4. list \in [1..n -> Candidate]
    BY <2>1, <2>3
  <2>. HIDE DEF list
  <2>. QED BY <1>5, <2>4
<1>. DEFINE k == [pc |-> "chooses", list |-> list]
<1>8. queuePoll' = [queuePoll EXCEPT ![p] = k]
  BY <1>3
<1>. HIDE DEF list
<1>9. k \in PollRecord /\ k.pc # "commits"
  BY <1>7 DEF PollRecord
<1>. HIDE DEF k
<1>. QED BY <1>1, <1>8, <1>9, PollMoves

LEMMA QueueReserves ==
  ASSUME QueueInv, NEW p \in Poll, J!Reserve(p)
  PROVE  QueueInv'
<1>. DEFINE k == queuePoll[p]
            fr == Filled(Rpm, queueBucket.requests, queueBucket.age)
            ft == Filled(Tpm, queueBucket.tokens, queueBucket.age)
<1>1. /\ queuePoll \in [Poll -> PollRecord] /\ k \in PollRecord /\ k.pc = "chooses"
      /\ queueRow' = queueRow
  BY DEF QueueInv, QueueShape, J!Reserve
<1>2. J!Refused \in PollRecord /\ J!Refused.pc = "refused"
  BY DEF J!Refused, PollRecord
<1>3. J!Refilled = [requests |-> fr, tokens |-> ft, age |-> 0]
  BY DEF J!Refilled, Filled
<1>4. /\ Affords(Rpm, fr, 0, queueRecent[1].requests, queueRecent[2].requests)
      /\ \A c \in 0..fr : Affords(Rpm, fr - c, 0, queueRecent[1].requests + c, queueRecent[2].requests)
  BY AffordsRefilled, QueueAssumption DEF QueueInv, QuotaKept
<1>5. /\ Affords(Tpm, ft, 0, queueRecent[1].tokens, queueRecent[2].tokens)
      /\ \A c \in 0..ft : Affords(Tpm, ft - c, 0, queueRecent[1].tokens + c, queueRecent[2].tokens)
  BY AffordsRefilled, QueueAssumption DEF QueueInv, QuotaKept
<1>. HIDE DEF fr, ft
<1>6. fr \in 0..Rpm /\ ft \in 0..Tpm
  BY <1>4, <1>5 DEF Affords
<1>7. queueRecent \in [1..2 -> [requests : Nat, tokens : Nat]] /\ queueRow \in [QueueTask -> QueueRow]
  BY DEF QueueInv, QueueShape
<1>8. CASE k.list = <<>>
  <2>1. queuePoll' = [queuePoll EXCEPT ![p] = J!Refused] /\ UNCHANGED <<queueBucket, queueRecent>>
    BY <1>8 DEF J!Reserve
  <2>. QED BY <1>1, <1>2, <2>1, PollMoves
<1>9. CASE k.list # <<>>
  <2>. DEFINE t == Head(k.list).task
              c == [k EXCEPT !.pc = "commits"]
  <2>1. Head(k.list) \in Candidate
    <3>1. k.list \in Seq(Candidate)
      BY <1>1 DEF PollRecord
    <3>. QED BY <1>9, <3>1
  <2>2. J!Cost(t) \in Nat \ {0}
    <3>1. Estimate[t] \in Int
      BY <2>1, QueueAssumption DEF Candidate
    <3>. QED BY <3>1 DEF J!Cost, J!Higher
  <2>3. c \in PollRecord /\ c.list = k.list
    BY <1>1 DEF PollRecord
  <2>4. CASE ~ J!Limited
    <3>1. queuePoll' = [queuePoll EXCEPT ![p].pc = "commits"] /\ UNCHANGED <<queueBucket, queueRecent>>
      BY <1>9, <2>4 DEF J!Reserve
    <3>2. queuePoll' = [queuePoll EXCEPT ![p] = c]
      BY <1>1, <3>1
    <3>. QED BY <1>1, <1>9, <2>3, <3>1, <3>2, PollMoves
  <2>5. CASE J!Limited /\ J!Enough(t)
    <3>1. /\ queuePoll' = [queuePoll EXCEPT ![p].pc = "commits"]
          /\ queueBucket' = [J!Refilled EXCEPT !.requests = @ - 1, !.tokens = @ - J!Cost(t)]
          /\ queueRecent' = [queueRecent EXCEPT ![1].requests = @ + 1, ![1].tokens = @ + J!Cost(t)]
      BY <1>9, <2>5 DEF J!Reserve
    <3>2. queuePoll' = [queuePoll EXCEPT ![p] = c]
      BY <1>1, <3>1
    <3>3. 1 \in 0..fr /\ J!Cost(t) \in 0..ft
      BY <1>3, <1>6, <2>2, <2>5, QueueAssumption DEF J!Enough
    <3>. DEFINE a == J!Cost(t)
    <3>. HIDE DEF a, c, t
    <3>4. queueBucket' = [requests |-> fr - 1, tokens |-> ft - a, age |-> 0]
      BY <1>3, <3>1 DEF a
    <3>5. /\ queueRecent'[1] = [requests |-> queueRecent[1].requests + 1, tokens |-> queueRecent[1].tokens + a]
          /\ queueRecent'[2] = queueRecent[2] /\ DOMAIN queueRecent' = 1..2
          /\ queueRecent' = [i \in 1..2 |-> queueRecent'[i]]
      <4>. DEFINE f == [queueRecent EXCEPT ![1].requests = @ + 1]
                  x == queueRecent[1]
      <4>1. x \in [requests : Nat, tokens : Nat]
        BY <1>7
      <4>2. queueRecent' = [f EXCEPT ![1].tokens = @ + a]
        BY <3>1 DEF a
      <4>3. f[1] = [requests |-> x.requests + 1, tokens |-> x.tokens] /\ f[2] = queueRecent[2] /\ DOMAIN f = 1..2
        BY <1>7, <4>1
      <4>. HIDE DEF f
      <4>4. /\ queueRecent'[1] = [requests |-> x.requests + 1, tokens |-> x.tokens + a]
            /\ queueRecent'[2] = queueRecent[2] /\ DOMAIN queueRecent' = 1..2
        BY <4>2, <4>3
      <4>5. queueRecent' = [i \in 1..2 |-> queueRecent'[i]]
        BY <4>2, <4>3
      <4>. QED BY <4>4, <4>5
    <3>6. a \in Nat
      BY <2>2 DEF a
    <3>7. queueRecent' \in [1..2 -> [requests : Nat, tokens : Nat]]
      <4>1. queueRecent[1] \in [requests : Nat, tokens : Nat] /\ queueRecent[2] \in [requests : Nat, tokens : Nat]
        BY <1>7
      <4>2. queueRecent'[1] \in [requests : Nat, tokens : Nat]
        BY <3>5, <3>6, <4>1
      <4>3. \A i \in 1..2 : i = 1 \/ i = 2
        OBVIOUS
      <4>. QED BY <3>5, <4>1, <4>2, <4>3
    <3>8. queueBucket' \in [requests : 0..Rpm, tokens : 0..Tpm, age : 0..2]
      <4>1. fr - 1 \in 0..Rpm /\ ft - a \in 0..Tpm /\ 0 \in 0..2
        BY <1>6, <3>3, QueueAssumption DEF a
      <4>. QED BY <3>4, <4>1
    <3>9. queuePoll' \in [Poll -> PollRecord]
      BY <1>1, <2>3, <3>2 DEF c
    <3>10. QueueShape'
      BY <1>1, <1>7, <3>7, <3>8, <3>9 DEF QueueShape
    <3>11. AttemptsLeft'
      BY <1>1, <1>9, <2>3, <3>2 DEF QueueInv, AttemptsLeft, c
    <3>12. QuotaKept'
      <4>1. Affords(Rpm, fr - 1, 0, queueRecent[1].requests + 1, queueRecent[2].requests)
        BY <1>4, <3>3
      <4>2. Affords(Tpm, ft - a, 0, queueRecent[1].tokens + a, queueRecent[2].tokens)
        BY <1>5, <3>3 DEF a
      <4>. QED BY <3>4, <3>5, <4>1, <4>2 DEF QuotaKept
    <3>. QED BY <3>10, <3>11, <3>12 DEF QueueInv
  <2>6. CASE J!Limited /\ ~ J!Enough(t)
    <3>1. queueBucket' = J!Refilled /\ UNCHANGED queueRecent /\ queuePoll' = [queuePoll EXCEPT ![p] = J!Refused]
      BY <1>9, <2>6 DEF J!Reserve
    <3>2. QueueShape'
      <4>1. queueBucket' \in [requests : 0..Rpm, tokens : 0..Tpm, age : 0..2]
        BY <1>3, <1>6, <3>1
      <4>2. queuePoll' \in [Poll -> PollRecord]
        BY <1>1, <1>2, <3>1
      <4>. QED BY <1>1, <1>7, <3>1, <4>1, <4>2 DEF QueueShape
    <3>3. AttemptsLeft'
      BY <1>1, <1>2, <3>1 DEF QueueInv, AttemptsLeft
    <3>4. QuotaKept'
      BY <1>3, <1>4, <1>5, <3>1 DEF QuotaKept
    <3>. QED BY <3>2, <3>3, <3>4 DEF QueueInv
  <2>. QED BY <2>4, <2>5, <2>6
<1>. QED BY <1>8, <1>9

LEMMA QueueCommits ==
  ASSUME QueueInv, NEW p \in Poll, J!Commit(p)
  PROVE  QueueInv'
<1>. DEFINE k == queuePoll[p]
            t == Head(k.list).task
            r == queueRow[t]
<1>1. /\ queuePoll \in [Poll -> PollRecord] /\ k \in PollRecord /\ k.pc = "commits"
      /\ queueRow \in [QueueTask -> QueueRow] /\ k.list # <<>>
      /\ UNCHANGED <<queueBucket, queueRecent>>
  BY DEF QueueInv, QueueShape, AttemptsLeft, J!Commit
<1>2. k.list \in Seq(Candidate) /\ Head(k.list) \in Candidate /\ Tail(k.list) \in Seq(Candidate)
  <2>1. k.list \in Seq(Candidate)
    BY <1>1 DEF PollRecord
  <2>. QED BY <1>1, <2>1
<1>3. t \in QueueTask
  BY <1>2 DEF Candidate
<1>4. J!Sleeps \in PollRecord /\ J!Sleeps.pc = "sleeps"
  BY DEF J!Sleeps, PollRecord
<1>5. CASE queueRow' = queueRow
  <2>1. \/ queuePoll' = [queuePoll EXCEPT ![p] = J!Sleeps]
        \/ queuePoll' = [queuePoll EXCEPT ![p] = [pc |-> "chooses", list |-> Tail(k.list)]]
    BY DEF J!Commit
  <2>2. [pc |-> "chooses", list |-> Tail(k.list)] \in PollRecord
    BY <1>2 DEF PollRecord
  <2>. QED BY <1>1, <1>4, <1>5, <2>1, <2>2, PollMoves
<1>6. CASE queueRow' # queueRow
  <2>1. /\ queueRow' = [queueRow EXCEPT ![t].st = "leased", ![t].tries = @ + 1, ![t].wait = MostHold]
        /\ queuePoll' = [queuePoll EXCEPT ![p] = J!Sleeps]
        /\ r.st = "queued"
    BY <1>6 DEF J!Commit
  <2>. DEFINE e == [[[r EXCEPT !.st = "leased"] EXCEPT !.tries = @ + 1] EXCEPT !.wait = MostHold]
  <2>2. queueRow' = [queueRow EXCEPT ![t] = e]
    BY <1>1, <1>3, <2>1
  <2>3. r \in QueueRow /\ r.tries < MaxAttempts
    BY <1>1, <1>3, <2>1 DEF QueueInv, AttemptsLeft
  <2>4. e \in QueueRow /\ e.st = "leased" /\ e.tries > 0
    <3>1. r.tries \in 0..MaxAttempts /\ r.tries + 1 \in 0..MaxAttempts /\ r.tries + 1 > 0
      BY <2>3, QueueAssumption DEF QueueRow
    <3>2. MostHold \in 0..J!Higher(1, MostHold)
      BY QueueAssumption DEF J!Higher
    <3>. QED BY <2>3, <3>1, <3>2 DEF QueueRow, J!Status
  <2>. HIDE DEF e, t
  <2>5. queueRow' \in [QueueTask -> QueueRow]
    BY <1>1, <2>2, <2>4
  <2>6. \A u \in QueueTask : queueRow'[u] = queueRow[u] \/ queueRow'[u] = e
    BY <1>1, <2>2
  <2>7. QueueShape'
    BY <1>1, <1>4, <2>1, <2>5 DEF QueueInv, QueueShape
  <2>8. AttemptsLeft'
    BY <1>1, <1>4, <2>1, <2>4, <2>6 DEF QueueInv, AttemptsLeft
  <2>9. QuotaKept'
    BY <1>1 DEF QueueInv, QuotaKept
  <2>. QED BY <2>7, <2>8, <2>9 DEF QueueInv
<1>. QED BY <1>5, <1>6

LEMMA QueueTicks ==
  ASSUME QueueInv, J!Tick
  PROVE  QueueInv'
<1>1. /\ queuePoll' = [p \in Poll |-> J!Sleeps]
      /\ queueBucket' = [queueBucket EXCEPT !.age = J!Lower(J!Minute, @ + 1)]
      /\ queueRecent' = [i \in 1..J!Minute |-> IF i = 1 THEN J!Quiet[1] ELSE queueRecent[i - 1]]
      /\ queueRow' = [t \in QueueTask |->
           [queueRow[t] EXCEPT !.wait = J!Higher(0, @ - 1),
                      !.age = IF t \in Able /\ queueRow[t].st \in {"queued", "leased"}
                              THEN J!Lower(MostWait + 1, @ + 1) ELSE @]]
  BY DEF J!Tick
<1>2. /\ queueBucket \in [requests : 0..Rpm, tokens : 0..Tpm, age : 0..2]
      /\ queueRecent \in [1..2 -> [requests : Nat, tokens : Nat]]
      /\ queueRow \in [QueueTask -> QueueRow]
  BY DEF QueueInv, QueueShape
<1>3. ASSUME NEW t \in QueueTask
      PROVE  queueRow'[t] \in QueueRow /\ queueRow'[t].st = queueRow[t].st /\ queueRow'[t].tries = queueRow[t].tries
  <2>. DEFINE r == queueRow[t]
              w == J!Higher(0, r.wait - 1)
              a == IF t \in Able /\ r.st \in {"queued", "leased"} THEN J!Lower(MostWait + 1, r.age + 1) ELSE r.age
  <2>1. queueRow'[t] = [[r EXCEPT !.wait = w] EXCEPT !.age = a]
    BY <1>1
  <2>2. r \in QueueRow
    BY <1>2
  <2>3. w \in 0..J!Higher(1, MostHold)
    BY <2>2, QueueAssumption DEF QueueRow, J!Higher
  <2>4. a \in 0..(MostWait + 1)
    BY <2>2, QueueAssumption DEF QueueRow, J!Lower
  <2>. HIDE DEF r, w, a
  <2>. QED BY <2>1, <2>2, <2>3, <2>4 DEF QueueRow, r
<1>4. queueRow' \in [QueueTask -> QueueRow]
  <2>1. queueRow' = [t \in QueueTask |-> queueRow'[t]]
    BY <1>1
  <2>. QED BY <1>3, <2>1
<1>. DEFINE l == J!Lower(2, queueBucket.age + 1)
<1>5. l \in 0..2
  BY <1>2 DEF J!Lower
<1>6. /\ queueBucket'.requests = queueBucket.requests /\ queueBucket'.tokens = queueBucket.tokens
      /\ queueBucket'.age = l /\ queueBucket' \in [requests : 0..Rpm, tokens : 0..Tpm, age : 0..2]
  BY <1>1, <1>2, <1>5 DEF J!Minute
<1>. HIDE DEF l
<1>7. /\ queueRecent'[1] = [requests |-> 0, tokens |-> 0] /\ queueRecent'[2] = queueRecent[1]
      /\ queueRecent' \in [1..2 -> [requests : Nat, tokens : Nat]]
  <2>1. J!Quiet[1] = [requests |-> 0, tokens |-> 0]
    BY DEF J!Quiet, J!Minute
  <2>2. queueRecent' = [i \in 1..2 |-> IF i = 1 THEN [requests |-> 0, tokens |-> 0] ELSE queueRecent[i - 1]]
    BY <1>1, <2>1 DEF J!Minute
  <2>3. \A i \in 1..2 : i # 1 => i - 1 = 1 /\ i - 1 \in 1..2
    OBVIOUS
  <2>. QED BY <1>2, <2>2, <2>3
<1>8. QueueShape'
  <2>1. J!Sleeps \in PollRecord
    BY DEF PollRecord, J!Sleeps
  <2>2. queuePoll' \in [Poll -> PollRecord]
    BY <1>1, <2>1
  <2>. QED BY <1>4, <1>6, <1>7, <2>2 DEF QueueShape
<1>9. AttemptsLeft'
  BY <1>1, <1>3 DEF QueueInv, AttemptsLeft, J!Sleeps
<1>10. QuotaKept'
  <2>1. Affords(Rpm, queueBucket.requests, l, 0, queueRecent[1].requests)
    BY AffordsLater, QueueAssumption DEF QueueInv, QuotaKept, l
  <2>2. Affords(Tpm, queueBucket.tokens, l, 0, queueRecent[1].tokens)
    BY AffordsLater, QueueAssumption DEF QueueInv, QuotaKept, l
  <2>. QED BY <1>6, <1>7, <2>1, <2>2 DEF QuotaKept
<1>. QED BY <1>8, <1>9, <1>10 DEF QueueInv

LEMMA QueueRestarts ==
  ASSUME QueueInv, J!Restart
  PROVE  QueueInv'
<1>1. /\ queuePoll' = [p \in Poll |-> J!Sleeps] /\ queueBucket' = J!FullBucket /\ queueRecent' = J!Quiet
      /\ queueRow' = queueRow
  BY DEF J!Restart
<1>2. QueueShape'
  BY <1>1, QueueAssumption DEF QueueInv, QueueShape, PollRecord, J!Sleeps, J!FullBucket, J!Quiet, J!Minute
<1>3. AttemptsLeft'
  BY <1>1 DEF QueueInv, AttemptsLeft, J!Sleeps
<1>4. QuotaKept'
  BY <1>1, QueueAssumption, FullAffords DEF QuotaKept, J!FullBucket, J!Quiet, J!Minute
<1>. QED BY <1>2, <1>3, <1>4 DEF QueueInv

LEMMA QueueNext == QueueInv /\ [J!Next]_queueVars => QueueInv'
<1>. SUFFICES ASSUME QueueInv, [J!Next]_queueVars PROVE QueueInv'
  OBVIOUS
<1>1. CASE UNCHANGED queueVars
  <2>1. UNCHANGED <<queueRow, queuePoll, queueBucket, queueRecent>>
    BY <1>1 DEF queueVars
  <2>. QED BY <2>1, QueueRowMoves DEF QueueInv, QueueShape, AttemptsLeft
<1>2. ASSUME NEW t \in QueueTask, J!Create(t) \/ J!EndTask(t) \/ J!RetryTask(t)
      PROVE  QueueInv'
  BY <1>2, QueueCreates, QueueEnds, QueueRetries
<1>3. ASSUME NEW p \in Poll, J!BeginClaim(p) \/ J!Reserve(p) \/ J!Commit(p)
      PROVE  QueueInv'
  BY <1>3, QueueBegins, QueueReserves, QueueCommits
<1>. QED BY <1>1, <1>2, <1>3, QueueTicks, QueueRestarts DEF J!Next

(* However claims overlap, fail and are repeated, and whatever the limits,  *)
(* one process reserves no more of a provider in any two ticks than a full  *)
(* bucket and what flows into it meanwhile (reserveProviderQuota).          *)
THEOREM QuotaNeverExceeded == CourseSpec => [](part = "queue" => J!WithinQuota)
<1>. DEFINE Kept == part = "queue" => QueueInv
<1>1. CourseInit => Kept
  BY QueueStarts DEF CourseInit
<1>2. Kept /\ [CourseNext]_courseVars => Kept'
  <2>. SUFFICES ASSUME Kept, [CourseNext]_courseVars, part' = "queue"
                PROVE  QueueInv'
    OBVIOUS
  <2>1. part = "queue" /\ [J!Next]_queueVars
    BY DEF CourseNext, courseVars
  <2>. QED BY <2>1, QueueNext
<1>3. Kept => (part = "queue" => J!WithinQuota)
  BY QuotaIsKept
<1>. QED BY <1>1, <1>2, <1>3, PTL DEF CourseSpec

=============================================================================
