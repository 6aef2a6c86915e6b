------------------------ MODULE RoutingZoneProofs ------------------------
(***************************************************************************)
(* The routing table loses no contact, shows each where a lookup goes for  *)
(* it, and counts addresses truly: for every length of ids, size of bins,  *)
(* limits of the tree, set of nodes and addresses and contents of files.   *)
(*                                                                         *)
(* The tree is its leaves.  Good says of a table that they divide the      *)
(* distances between them (Tiled), that a bin has no more contacts than    *)
(* fit and only those of its zone (Placed), that nobody is in two bins     *)
(* (Once), and that the three books tell the same as the bins.  No two     *)
(* contacts share an address (Books), and that is what the proof needs     *)
(* most: a split and a merge take contacts out and add them again, and     *)
(* AddContact would refuse one whose address is still counted, or one      *)
(* that finds a full bin.  Amid this a table is only Sound, for some       *)
(* distances then have no leaf and the set of all contacts has some that   *)
(* no bin has.                                                             *)
(*                                                                         *)
(* A loop of the program is a function of the number of turns.  LoopRuns   *)
(* says that the equation which defines it has a solution and that what    *)
(* each turn keeps holds to the end; every function with a loop is proved  *)
(* by a lemma on one turn and by this one.                                 *)
(***************************************************************************)
EXTENDS RoutingZone, WellFoundedInduction, FiniteSetTheorems, TLAPS

----------------------------------------------------------------------------
(* Numbers, and loops.                                                     *)

\* A set of numbers has a smallest one.
LEMMA SmallestOne ==
    ASSUME NEW S \in SUBSET Nat, S # {}
    PROVE  \E x \in S : \A y \in S : x <= y
<1>1. PICK x \in S : \A y \in S : ~ (y < x)
  <2>1. PICK x \in S : \A y \in S : <<y, x>> \notin OpToRel(<, Nat)
    BY NatLessThanWellFounded, WFMin
  <2> QED
    BY <2>1 DEF OpToRel
<1> QED
  BY <1>1

\* g[i] is the state after i turns of a loop that starts in t; F[i] is its ith turn.
IsLoop(g, N, t, F) == g = [i \in 0 .. N |-> IF i = 0 THEN t ELSE F[i][g[i - 1]]]

\* The equation of a loop has a solution.
LEMMA LoopExists ==
    ASSUME NEW N \in Nat, NEW t, NEW F
    PROVE  \E g : IsLoop(g, N, t, F)
<1> DEFINE Is(g, n) == g = [i \in 0 .. n |-> IF i = 0 THEN t ELSE F[i][g[i - 1]]]
           Bad == {n \in Nat : ~ \E g : Is(g, n)}
<1> SUFFICES ASSUME Bad # {} PROVE FALSE
  BY DEF IsLoop
<1>1. PICK n \in Bad : \A m \in Bad : n <= m
  <2>1. Bad \in SUBSET Nat
    OBVIOUS
  <2> HIDE DEF Bad
  <2> QED
    BY <2>1, SmallestOne
<1>2. CASE n = 0
  <2> DEFINE g == [i \in 0 .. 0 |-> t]
  <2>1. g = [i \in 0 .. 0 |-> IF i = 0 THEN t ELSE F[i][g[i - 1]]]
    OBVIOUS
  <2> HIDE DEF g
  <2> QED
    BY <2>1, <1>1, <1>2
<1>3. CASE n # 0
  <2>1. n - 1 \in Nat /\ n - 1 \notin Bad
    BY <1>1, <1>3
  <2>2. PICK h : Is(h, n - 1)
    BY <2>1
  <2> DEFINE g == [i \in 0 .. n |-> IF i = n THEN F[n][h[n - 1]] ELSE h[i]]
  <2>3. \A i \in 0 .. n - 1 : h[i] = IF i = 0 THEN t ELSE F[i][h[i - 1]]
    BY <2>2
  <2>4. \A i \in 0 .. n : g[i] = IF i = 0 THEN t ELSE F[i][g[i - 1]]
    <3> TAKE i \in 0 .. n
    <3>1. CASE i = n
      <4>1. g[n - 1] = h[n - 1]
        BY <2>1
      <4> QED
        BY <1>3, <3>1, <4>1
    <3>2. CASE i # n
      <4>1. i \in 0 .. n - 1 /\ g[i] = h[i]
        BY <2>1, <3>2
      <4>2. i # 0 => g[i - 1] = h[i - 1]
        BY <4>1, <2>1
      <4> HIDE DEF g
      <4> QED
        BY <2>3, <4>1, <4>2
    <3> QED
      BY <3>1, <3>2
  <2>5. g = [i \in 0 .. n |-> g[i]]
    OBVIOUS
  <2> HIDE DEF g
  <2>6. Is(g, n)
    BY <2>4, <2>5
  <2> QED
    BY <2>6, <1>1
<1> QED
  BY <1>2, <1>3 DEF IsLoop

\* What every turn of a loop keeps, from G[i - 1] to G[i], holds all the way.
LEMMA LoopStays ==
    ASSUME NEW N \in Nat, NEW G, NEW h, h[0] \in G[0],
           \A i \in 1 .. N : h[i - 1] \in G[i - 1] => h[i] \in G[i]
    PROVE  \A i \in 0 .. N : h[i] \in G[i]
<1> DEFINE Bad == {n \in 0 .. N : h[n] \notin G[n]}
<1> SUFFICES ASSUME Bad # {} PROVE FALSE
  OBVIOUS
<1>1. PICK n \in Bad : \A m \in Bad : n <= m
  <2>1. Bad \in SUBSET Nat
    OBVIOUS
  <2> HIDE DEF Bad
  <2> QED
    BY <2>1, SmallestOne
<1>2. n \in 0 .. N /\ n # 0
  OBVIOUS
<1>3. n - 1 \in 0 .. N /\ ~ (n <= n - 1) /\ n \in 1 .. N
  BY <1>2
<1>4. n - 1 \notin Bad
  BY <1>1, <1>3
<1> QED
  BY <1>3, <1>4

\* The same of a loop given by its equation.
LEMMA LoopRuns ==
    ASSUME NEW N \in Nat, NEW G, NEW F, NEW t \in G[0],
           \A i \in 1 .. N : \A u \in G[i - 1] : F[i][u] \in G[i]
    PROVE  \E g : IsLoop(g, N, t, F) /\ \A i \in 0 .. N : g[i] \in G[i]
<1>1. PICK g : IsLoop(g, N, t, F)
  BY LoopExists
<1>2. g[0] = t /\ \A i \in 1 .. N : g[i] = F[i][g[i - 1]]
  <2>1. \A i \in 0 .. N : g[i] = IF i = 0 THEN t ELSE F[i][g[i - 1]]
    BY <1>1 DEF IsLoop
  <2> QED
    BY <2>1
<1>3. \A i \in 0 .. N : g[i] \in G[i]
  BY <1>2, LoopStays
<1> QED
  BY <1>1, <1>3

\* Division leaves a rest.
LEMMA Division ==
    ASSUME NEW n \in Nat, NEW d \in Nat \ {0}
    PROVE  /\ n \div d \in Nat /\ n % d \in 0 .. d - 1
           /\ n = d * (n \div d) + (n % d)
BY SMTT(30)

\* Products grow with their factors.
LEMMA Products ==
    ASSUME NEW a \in Nat, NEW b \in Nat, NEW d \in Nat, a <= b
    PROVE  a * d <= b * d /\ a * d \in Nat
BY SMTT(30)

\* A product with a sum.
LEMMA Distributes ==
    ASSUME NEW a \in Nat, NEW d \in Nat
    PROVE  (a + 1) * d = a * d + d /\ a * d \in Nat /\ d * a = a * d
BY SMTT(30)

\* A product with twice a number.
LEMMA Doubles ==
    ASSUME NEW a \in Nat, NEW d \in Nat
    PROVE  (2 * a) * d = 2 * (a * d) /\ a * (2 * d) = 2 * (a * d) /\ a * d \in Nat
BY SMTT(30)

\* Each power of two is twice the one before.
LEMMA PowersDouble ==
    /\ Pow2[0] = 1
    /\ \A n \in 0 .. Bits : Pow2[n] \in Nat \ {0}
    /\ \A n \in 1 .. Bits : Pow2[n] = 2 * Pow2[n - 1]
<1>1. Bits \in Nat \ {0}
  BY RoutingAssumption
<1> DEFINE G == [i \in 0 .. Bits |-> Nat \ {0}]
           F == [i \in 1 .. Bits |-> [u \in Nat |-> 2 * u]]
<1>2. /\ 1 \in G[0]
      /\ \A i \in 1 .. Bits : \A u \in G[i - 1] : F[i][u] \in G[i]
  BY <1>1
<1>3. PICK g : IsLoop(g, Bits, 1, F) /\ \A i \in 0 .. Bits : g[i] \in G[i]
  <2> HIDE DEF F, G
  <2> QED
    BY <1>1, <1>2, LoopRuns
<1>4. \A i \in 1 .. Bits : F[i][g[i - 1]] = 2 * g[i - 1]
  <2> TAKE i \in 1 .. Bits
  <2>1. i - 1 \in 0 .. Bits
    BY <1>1
  <2>2. g[i - 1] \in Nat
    BY <2>1, <1>3
  <2> QED
    BY <2>2
<1>5. g = [i \in 0 .. Bits |-> IF i = 0 THEN 1 ELSE 2 * g[i - 1]]
  <2> DEFINE f == [i \in 0 .. Bits |-> IF i = 0 THEN 1 ELSE 2 * g[i - 1]]
             e == [i \in 0 .. Bits |-> IF i = 0 THEN 1 ELSE F[i][g[i - 1]]]
  <2>1. \A i \in 0 .. Bits : f[i] = e[i]
    <3> TAKE i \in 0 .. Bits
    <3>1. i # 0 => i \in 1 .. Bits
      BY <1>1
    <3> HIDE DEF F
    <3> QED
      BY <3>1, <1>4
  <2>2. f = e
    BY <2>1
  <2> QED
    BY <2>2, <1>3 DEF IsLoop
<1>6. Pow2 = [i \in 0 .. Bits |-> IF i = 0 THEN 1 ELSE 2 * Pow2[i - 1]]
  <2> HIDE DEF F, G
  <2> QED
    BY <1>5 DEF Pow2
<1> DEFINE p == Pow2
<1>7. p = [i \in 0 .. Bits |-> IF i = 0 THEN 1 ELSE 2 * p[i - 1]]
  BY <1>6
<1> HIDE DEF p
<1>8. \A i \in 0 .. Bits : p[i] = IF i = 0 THEN 1 ELSE 2 * p[i - 1]
  BY <1>7
<1>9. p[0] = 1 /\ \A i \in 1 .. Bits : p[i] = 2 * p[i - 1]
  BY <1>1, <1>8
<1>10. \A i \in 1 .. Bits : p[i - 1] \in Nat \ {0} => p[i] \in Nat \ {0}
  BY <1>9
<1>11. \A i \in 0 .. Bits : p[i] \in G[i]
  <2>1. /\ p[0] \in G[0]
        /\ \A i \in 1 .. Bits : p[i - 1] \in G[i - 1] => p[i] \in G[i]
    BY <1>9, <1>10, <1>1
  <2> HIDE DEF G
  <2> QED
    BY <1>1, <2>1, LoopStays
<1> QED
  BY <1>9, <1>11 DEF p

----------------------------------------------------------------------------
(* What zones cover.                                                       *)

\* All zones: what they cover is made of distances.
Zones == {z \in (0 .. Bits) \X Nat : (z[2] + 1) * Width[z[1]] <= Pow2[Bits]}

\* A zone covers twice as many distances as one of the next level.
LEMMA WidthsHalve ==
    /\ \A l \in 0 .. Bits : Width[l] \in Nat \ {0}
    /\ \A l \in 0 .. Bits : l # Bits => Width[l] = 2 * Width[l + 1]
    /\ Width[0] = Pow2[Bits] /\ Pow2[Bits] \in Nat \ {0} /\ Bits \in Nat
<1>1. Bits \in Nat \ {0}
  BY RoutingAssumption
<1>2. \A l \in 0 .. Bits : Width[l] = Pow2[Bits - l] /\ Bits - l \in 0 .. Bits
  BY <1>1 DEF Width
<1>3. \A l \in 0 .. Bits : Width[l] \in Nat \ {0}
  BY <1>2, PowersDouble
<1>4. \A l \in 0 .. Bits : l # Bits => Width[l] = 2 * Width[l + 1]
  <2> TAKE l \in 0 .. Bits
  <2> HAVE l # Bits
  <2>1. l + 1 \in 0 .. Bits /\ Bits - l \in 1 .. Bits /\ (Bits - l) - 1 = Bits - (l + 1)
    BY <1>1
  <2>2. Pow2[Bits - l] = 2 * Pow2[(Bits - l) - 1]
    BY <2>1, PowersDouble
  <2> QED
    BY <2>1, <2>2, <1>2
<1>5. Width[0] = Pow2[Bits]
  <2>1. 0 \in 0 .. Bits /\ Bits - 0 = Bits
    BY <1>1
  <2> QED
    BY <2>1, <1>2
<1>6. Pow2[Bits] \in Nat \ {0}
  BY <1>1, PowersDouble
<1> QED
  BY <1>1, <1>3, <1>4, <1>5, <1>6

\* A zone covers an interval of distances.
LEMMA CoversIs ==
    ASSUME NEW z \in (0 .. Bits) \X Nat, NEW d \in Nat
    PROVE  /\ Covers(z, d) <=> z[2] * Width[z[1]] <= d /\ d < z[2] * Width[z[1]] + Width[z[1]]
           /\ Width[z[1]] \in Nat \ {0} /\ z[2] * Width[z[1]] \in Nat
           /\ (z[2] + 1) * Width[z[1]] = z[2] * Width[z[1]] + Width[z[1]]
<1> DEFINE w == Width[z[1]]
           q == d \div w
           r == d % w
           i == z[2]
<1>1. w \in Nat \ {0} /\ i \in Nat
  BY WidthsHalve
<1>2. q \in Nat /\ r \in 0 .. w - 1 /\ d = w * q + r
  <2> HIDE DEF w
  <2> QED
    BY <1>1, Division
<1>3. Covers(z, d) <=> q = i
  BY DEF Covers
<1> HIDE DEF w, q, r, i
<1>4. (i + 1) * w = i * w + w /\ i * w \in Nat
  BY <1>1, Distributes
<1>5. (q + 1) * w = q * w + w /\ q * w \in Nat /\ w * q = q * w
  BY <1>1, <1>2, Distributes
<1>6. CASE q = i
  BY <1>1, <1>2, <1>3, <1>4, <1>5, <1>6 DEF w, i
<1>7. CASE q < i
  <2>1. (q + 1) * w <= i * w
    <3>1. q + 1 \in Nat /\ q + 1 <= i
      BY <1>1, <1>2, <1>7
    <3> QED
      BY <3>1, <1>1, Products
  <2>2. d < i * w
    <3> DEFINE a == i * w
               b == q * w
    <3>1. a \in Nat /\ b \in Nat /\ b + w <= a /\ d = b + r
      BY <2>1, <1>4, <1>5, <1>2
    <3> HIDE DEF a, b
    <3>2. d < a
      BY <3>1, <1>2, <1>1
    <3> QED
      BY <3>2 DEF a
  <2>3. q # i
    BY <1>1, <1>2, <1>7
  <2>4. ~ (i * w <= d)
    <3> DEFINE a == i * w
    <3>1. a \in Nat /\ d < a
      BY <2>2, <1>4
    <3> HIDE DEF a
    <3>2. ~ (a <= d)
      BY <3>1
    <3> QED
      BY <3>2 DEF a
  <2> QED
    BY <2>3, <2>4, <1>1, <1>3, <1>4 DEF w, i
<1>8. CASE i < q
  <2>1. (i + 1) * w <= q * w
    <3>1. i + 1 \in Nat /\ i + 1 <= q
      BY <1>1, <1>2, <1>8
    <3> QED
      BY <3>1, <1>1, <1>2, Products
  <2>2. ~ (d < i * w + w)
    <3> DEFINE a == i * w
               b == q * w
    <3>1. a \in Nat /\ b \in Nat /\ a + w <= b /\ d = b + r
      BY <2>1, <1>4, <1>5, <1>2
    <3> HIDE DEF a, b
    <3>2. ~ (d < a + w)
      BY <3>1, <1>2, <1>1
    <3> QED
      BY <3>2 DEF a
  <2>3. q # i
    BY <1>1, <1>2, <1>8
  <2> QED
    BY <2>2, <2>3, <1>1, <1>3, <1>4 DEF w, i
<1> QED
  <2>1. q = i \/ q < i \/ i < q
    BY <1>1, <1>2
  <2> QED
    BY <2>1, <1>6, <1>7, <1>8

\* The root covers every distance.
LEMMA RootIsAll == Root \in Zones /\ \A d \in Distances : d \in Nat /\ Covers(Root, d)
<1>1. Bits \in Nat /\ Width[0] = Pow2[Bits] /\ Pow2[Bits] \in Nat \ {0}
  BY WidthsHalve
<1> DEFINE p == Pow2[Bits]
<1> HIDE DEF p
<1>2. Root \in (0 .. Bits) \X Nat /\ Root[1] = 0 /\ Root[2] = 0
  BY <1>1 DEF Root
<1>3. (0 + 1) * p <= p /\ 0 * p = 0
  BY <1>1 DEF p
<1>4. Root \in Zones
  BY <1>1, <1>2, <1>3 DEF Zones, p
<1>5. \A d \in Distances : d \in Nat /\ d < p /\ 0 <= d
  BY <1>1 DEF Distances, p
<1>6. ASSUME NEW d \in Distances PROVE Covers(Root, d)
  <2>1. d \in Nat /\ 0 * p <= d /\ d < 0 * p + p
    BY <1>1, <1>3, <1>5 DEF p
  <2>2. Covers(Root, d) <=> Root[2] * Width[Root[1]] <= d /\ d < Root[2] * Width[Root[1]] + Width[Root[1]]
    BY <1>2, <2>1, CoversIs
  <2> QED
    BY <2>1, <2>2, <1>1, <1>2 DEF p
<1> QED
  BY <1>4, <1>5, <1>6

\* Every zone covers some distance.
LEMMA ZonesCover ==
    ASSUME NEW z \in Zones
    PROVE  \E d \in Distances : Covers(z, d)
<1> DEFINE w == Width[z[1]]
           d == z[2] * w
           p == Pow2[Bits]
<1>1. z \in (0 .. Bits) \X Nat /\ (z[2] + 1) * w <= p
  BY DEF Zones
<1>2. p \in Nat \ {0}
  BY WidthsHalve
<1>3. w \in Nat \ {0} /\ d \in Nat /\ (z[2] + 1) * w = d + w
  <2>1. z[2] \in Nat /\ w \in Nat \ {0}
    BY <1>1, WidthsHalve
  <2> HIDE DEF w
  <2> QED
    BY <2>1, Distributes
<1>4. Covers(z, d) <=> d <= d /\ d < d + w
  <2> HIDE DEF d
  <2>1. Covers(z, d) <=> z[2] * Width[z[1]] <= d /\ d < z[2] * Width[z[1]] + Width[z[1]]
    BY <1>1, <1>3, CoversIs
  <2> QED
    BY <2>1 DEF d
<1> HIDE DEF d, w, p
<1>5. Covers(z, d)
  BY <1>3, <1>4
<1>6. d \in 0 .. p - 1
  BY <1>1, <1>2, <1>3
<1> QED
  BY <1>5, <1>6 DEF Distances, p

\* The halves of a zone cover what it covers, and share nothing.
LEMMA HalvesCover ==
    ASSUME NEW z \in (0 .. Bits) \X Nat, z[1] # Bits, NEW a, NEW b,
           a = <<z[1] + 1, 2 * z[2]>>, b = <<z[1] + 1, 2 * z[2] + 1>>
    PROVE  /\ a \in (0 .. Bits) \X Nat /\ b \in (0 .. Bits) \X Nat /\ a # b
           /\ z \in Zones => a \in Zones /\ b \in Zones
           /\ b \in Zones => z \in Zones
           /\ \A d \in Nat : /\ Covers(z, d) <=> Covers(a, d) \/ Covers(b, d)
                             /\ ~ (Covers(a, d) /\ Covers(b, d))
<1> DEFINE v == Width[z[1]]
           w == Width[z[1] + 1]
           i == z[2]
           l == z[1]
<1>1. i \in Nat /\ l \in 0 .. Bits /\ l # Bits /\ l + 1 \in 0 .. Bits
  <2>1. i \in Nat /\ l \in 0 .. Bits /\ l # Bits /\ Bits \in Nat
    BY WidthsHalve
  <2> QED
    BY <2>1
<1>2. v = 2 * w /\ w \in Nat \ {0} /\ v \in Nat
  BY <1>1, WidthsHalve
<1>3. a[1] = l + 1 /\ a[2] = 2 * i /\ b[1] = l + 1 /\ b[2] = 2 * i + 1
  OBVIOUS
<1>4. a = <<l + 1, 2 * i>> /\ b = <<l + 1, 2 * i + 1>>
  OBVIOUS
<1> HIDE DEF i, l
<1>5. a \in (0 .. Bits) \X Nat /\ b \in (0 .. Bits) \X Nat /\ a # b
  <2>1. 2 * i \in Nat /\ 2 * i + 1 \in Nat /\ 2 * i # 2 * i + 1
    BY <1>1
  <2> QED
    BY <2>1, <1>1, <1>4, <1>3
<1> DEFINE p == i * w
<1>6. p \in Nat /\ (2 * i) * w = 2 * p /\ (2 * i + 1) * w = 2 * p + w /\ i * v = 2 * p
      /\ ((2 * i + 1) + 1) * w = 2 * p + w + w /\ (i + 1) * v = 2 * p + w + w
  <2> HIDE DEF w, v
  <2>1. p \in Nat /\ (2 * i) * w = 2 * p /\ i * (2 * w) = 2 * p
    BY <1>1, <1>2, Doubles
  <2>2. 2 * i \in Nat /\ 2 * i + 1 \in Nat
    BY <1>1
  <2>3. (2 * i + 1) * w = (2 * i) * w + w
    BY <2>2, <1>2, Distributes
  <2>4. ((2 * i + 1) + 1) * w = (2 * i + 1) * w + w
    BY <2>2, <1>2, Distributes
  <2>5. (i + 1) * v = i * v + v
    BY <1>1, <1>2, Distributes
  <2>6. i * v = 2 * p
    BY <2>1, <1>2
  <2>7. v = w + w
    BY <1>2
  <2> HIDE DEF p
  <2> DEFINE x == i * v
             y == (2 * i) * w
             u == (2 * i + 1) * w
             s == (i + 1) * v
             t == ((2 * i + 1) + 1) * w
  <2>8. p \in Nat /\ y = 2 * p /\ x = 2 * p /\ u = y + w /\ t = u + w /\ s = x + v
    BY <2>1, <2>3, <2>4, <2>5, <2>6
  <2> HIDE DEF x, y, u, s, t
  <2>9. y = 2 * p /\ u = 2 * p + w /\ x = 2 * p /\ t = 2 * p + w + w /\ s = 2 * p + w + w
    BY <2>8, <2>7, <1>2
  <2> QED
    BY <2>8, <2>9 DEF x, y, u, s, t
<1>7. ASSUME NEW d \in Nat
      PROVE  /\ Covers(z, d) <=> Covers(a, d) \/ Covers(b, d)
             /\ ~ (Covers(a, d) /\ Covers(b, d))
  <2>1. Covers(z, d) <=> 2 * p <= d /\ d < 2 * p + v
    <3>1. Covers(z, d) <=> z[2] * Width[z[1]] <= d /\ d < z[2] * Width[z[1]] + Width[z[1]]
      BY CoversIs
    <3> QED
      BY <3>1, <1>6 DEF i, l
  <2>2. Covers(a, d) <=> 2 * p <= d /\ d < 2 * p + w
    <3>1. Covers(a, d) <=> a[2] * Width[a[1]] <= d /\ d < a[2] * Width[a[1]] + Width[a[1]]
      BY <1>5, CoversIs
    <3>2. Width[a[1]] = w /\ a[2] * Width[a[1]] = (2 * i) * w
      BY <1>3 DEF l
    <3> QED
      BY <3>1, <3>2, <1>6
  <2>3. Covers(b, d) <=> 2 * p + w <= d /\ d < 2 * p + w + w
    <3>1. Covers(b, d) <=> b[2] * Width[b[1]] <= d /\ d < b[2] * Width[b[1]] + Width[b[1]]
      BY <1>5, CoversIs
    <3>2. Width[b[1]] = w /\ b[2] * Width[b[1]] = (2 * i + 1) * w
      BY <1>3 DEF l
    <3> QED
      BY <3>1, <3>2, <1>6
  <2>4. p \in Nat
    BY <1>6
  <2> HIDE DEF p, w, v
  <2> QED
    BY <2>1, <2>2, <2>3, <2>4, <1>2
<1>8. /\ z \in Zones <=> (i + 1) * v <= Pow2[Bits]
      /\ a \in Zones <=> (2 * i + 1) * w <= Pow2[Bits]
      /\ b \in Zones <=> ((2 * i + 1) + 1) * w <= Pow2[Bits]
  BY <1>3, <1>5 DEF Zones, i, l
<1>9. Pow2[Bits] \in Nat
  BY WidthsHalve
<1>10. /\ z \in Zones <=> 2 * p + w + w <= Pow2[Bits]
       /\ a \in Zones <=> 2 * p + w <= Pow2[Bits]
       /\ b \in Zones <=> 2 * p + w + w <= Pow2[Bits]
  BY <1>8, <1>6
<1>11. /\ z \in Zones => a \in Zones /\ b \in Zones
       /\ b \in Zones => z \in Zones
  <2> DEFINE n == Pow2[Bits]
  <2>1. n \in Nat /\ p \in Nat /\ w \in Nat
    BY <1>6, <1>9, <1>2
  <2> HIDE DEF p, w, n
  <2>2. 2 * p + w + w <= n => 2 * p + w <= n
    BY <2>1
  <2> QED
    BY <2>2, <1>10 DEF n
<1> QED
  BY <1>5, <1>7, <1>11

----------------------------------------------------------------------------
(* Bins.                                                                   *)

\* A bin has each contact once.
IsBin(s) == s \in Seq(Ids) /\ IsInjective(s)

\* The contacts of a bin, by their places.
LEMMA BinsAreFinite ==
    ASSUME NEW s \in Seq(Ids)
    PROVE  /\ Len(s) \in Nat /\ DOMAIN s = 1 .. Len(s) /\ ToSet(s) \subseteq Ids
           /\ \A i \in DOMAIN s : s[i] \in ToSet(s) /\ s[i] \in Ids
           /\ \A id \in ToSet(s) : \E i \in DOMAIN s : s[i] = id
           /\ \A id : Contains(s, id) <=> id \in ToSet(s)
<1>1. Len(s) \in Nat /\ DOMAIN s = 1 .. Len(s) /\ \A i \in DOMAIN s : s[i] \in Ids
  OBVIOUS
<1> QED
  BY <1>1 DEF ToSet, Contains

\* A new bin is empty.
LEMMA EmptyBin == /\ <<>> \in Seq(Ids) /\ IsBin(<<>>) /\ ToSet(<<>>) = {} /\ Len(<<>>) = 0
                  /\ \A s \in Seq(Ids) : ToSet(s) = {} => s = <<>>
<1>1. DOMAIN <<>> = {} /\ <<>> \in Seq(Ids) /\ Len(<<>>) = 0
  OBVIOUS
<1>2. ASSUME NEW s \in Seq(Ids), ToSet(s) = {} PROVE s = <<>>
  <2>1. Len(s) \in Nat /\ DOMAIN s = 1 .. Len(s)
    OBVIOUS
  <2>2. DOMAIN s = {}
    BY <1>2 DEF ToSet
  <2>3. Len(s) = 0
    BY <2>1, <2>2
  <2> QED
    BY <2>3
<1> QED
  BY <1>1, <1>2 DEF IsBin, IsInjective, ToSet

\* A contact is put at the bottom of a bin.
LEMMA AppendBin ==
    ASSUME NEW s, IsBin(s), NEW id \in Ids, id \notin ToSet(s), NEW r, r = Append(s, id)
    PROVE  IsBin(r) /\ Len(r) = Len(s) + 1 /\ ToSet(r) = ToSet(s) \cup {id}
<1>1. s \in Seq(Ids) /\ Len(s) \in Nat /\ DOMAIN s = 1 .. Len(s)
  BY DEF IsBin
<1> DEFINE n == Len(s)
<1>2. r \in Seq(Ids) /\ Len(r) = n + 1 /\ DOMAIN r = 1 .. n + 1
  BY <1>1
<1>3. \A i \in 1 .. n : r[i] = s[i]
  BY <1>1
<1>4. r[n + 1] = id
  BY <1>1
<1>5. n \in Nat /\ 1 .. n + 1 = (1 .. n) \cup {n + 1}
  BY <1>1
<1>6. \A i \in 1 .. n : s[i] # id
  BY <1>1 DEF ToSet
<1> HIDE DEF n
<1>7. IsInjective(r)
  <2> SUFFICES ASSUME NEW i \in 1 .. n + 1, NEW j \in 1 .. n + 1, r[i] = r[j] PROVE i = j
    BY <1>2 DEF IsInjective
  <2>1. CASE i \in 1 .. n /\ j \in 1 .. n
    BY <2>1, <1>1, <1>3 DEF IsBin, IsInjective, n
  <2>2. CASE i = n + 1 \/ j = n + 1
    BY <2>2, <1>3, <1>4, <1>5, <1>6
  <2> QED
    BY <2>1, <2>2, <1>5
<1>8. ToSet(r) = ToSet(s) \cup {id}
  <2>1. ToSet(r) = {r[i] : i \in 1 .. n + 1} /\ ToSet(s) = {s[i] : i \in 1 .. n}
    BY <1>1, <1>2 DEF ToSet, n
  <2> QED
    BY <2>1, <1>3, <1>4, <1>5
<1> QED
  BY <1>2, <1>7, <1>8 DEF IsBin, n

\* Two bins in a row.
LEMMA ConcatBin ==
    ASSUME NEW s, IsBin(s), NEW u, IsBin(u), ToSet(s) \cap ToSet(u) = {}, NEW r, r = s \o u
    PROVE  IsBin(r) /\ Len(r) = Len(s) + Len(u) /\ ToSet(r) = ToSet(s) \cup ToSet(u)
<1> DEFINE n == Len(s)
           m == Len(u)
<1>1. s \in Seq(Ids) /\ u \in Seq(Ids) /\ n \in Nat /\ m \in Nat /\ DOMAIN s = 1 .. n /\ DOMAIN u = 1 .. m
  BY DEF IsBin
<1>2. Len(r) = n + m /\ r \in Seq(Ids)
  BY <1>1
<1>3. \A i \in 1 .. n : r[i] = s[i] /\ i \in 1 .. n + m
  BY <1>1
<1>4. \A j \in 1 .. m : r[n + j] = u[j] /\ n + j \in 1 .. n + m
  <2> TAKE j \in 1 .. m
  <2>1. n + j \in 1 .. n + m /\ ~ (n + j <= n) /\ (n + j) - n = j
    BY <1>1
  <2> QED
    BY <2>1, <1>1
<1> HIDE DEF n, m
<1>5. DOMAIN r = 1 .. n + m
  BY <1>1, <1>2
<1>6. \A i \in 1 .. n + m : i \in 1 .. n \/ \E j \in 1 .. m : i = n + j
  <2> TAKE i \in 1 .. n + m
  <2> SUFFICES ASSUME i \notin 1 .. n PROVE \E j \in 1 .. m : i = n + j
    OBVIOUS
  <2>1. i - n \in 1 .. m /\ i = n + (i - n)
    BY <1>1
  <2> QED
    BY <2>1
<1>7. \A i \in 1 .. n, j \in 1 .. m : s[i] # u[j]
  BY <1>1 DEF ToSet
<1>8. IsInjective(r)
  <2> SUFFICES ASSUME NEW i \in 1 .. n + m, NEW j \in 1 .. n + m, r[i] = r[j] PROVE i = j
    BY <1>5 DEF IsInjective
  <2>1. CASE i \in 1 .. n /\ j \in 1 .. n
    BY <2>1, <1>1, <1>3 DEF IsBin, IsInjective
  <2>2. ASSUME NEW x \in 1 .. m, i = n + x, j \in 1 .. n PROVE FALSE
    BY <2>2, <1>3, <1>4, <1>7
  <2>3. ASSUME NEW x \in 1 .. m, j = n + x, i \in 1 .. n PROVE FALSE
    BY <2>3, <1>3, <1>4, <1>7
  <2>4. ASSUME NEW x \in 1 .. m, NEW y \in 1 .. m, i = n + x, j = n + y PROVE i = j
    <3>1. u[x] = u[y]
      BY <2>4, <1>4
    <3>2. x = y
      BY <3>1, <1>1 DEF IsBin, IsInjective
    <3> QED
      BY <3>2, <2>4
  <2> QED
    BY <2>1, <2>2, <2>3, <2>4, <1>6
<1>9. ToSet(r) = ToSet(s) \cup ToSet(u)
  <2>1. ToSet(r) = {r[i] : i \in 1 .. n + m} /\ ToSet(s) = {s[i] : i \in 1 .. n} /\ ToSet(u) = {u[i] : i \in 1 .. m}
    BY <1>1, <1>5 DEF ToSet
  <2>2. ToSet(s) \subseteq ToSet(r) /\ ToSet(u) \subseteq ToSet(r)
    BY <2>1, <1>3, <1>4
  <2>3. \A i \in 1 .. n + m : r[i] \in ToSet(s) \cup ToSet(u)
    BY <2>1, <1>3, <1>4, <1>6
  <2> QED
    BY <2>1, <2>2, <2>3
<1> QED
  BY <1>2, <1>8, <1>9 DEF IsBin, n, m

\* A contact is taken out of a bin.
LEMMA RemoveBin ==
    ASSUME NEW s, IsBin(s), NEW id \in ToSet(s), NEW r, r = RemoveFirst(s, id)
    PROVE  IsBin(r) /\ Len(r) = Len(s) - 1 /\ ToSet(r) = ToSet(s) \ {id}
<1>1. s \in Seq(Ids) /\ Len(s) \in Nat /\ DOMAIN s = 1 .. Len(s)
  BY DEF IsBin
<1> DEFINE I == {i \in 1 .. Len(s) : s[i] = id}
           k == SelectInSeq(s, LAMBDA v : v = id)
<1>2. I # {} /\ I \in SUBSET Nat
  BY <1>1 DEF ToSet
<1>3. k \in I
  <2>1. \E x \in I : \A y \in I : x <= y
    <3> HIDE DEF I
    <3> QED
      BY <1>2, SmallestOne
  <2>2. k = CHOOSE x \in I : \A y \in I : x <= y
    BY <1>2 DEF SelectInSeq, Min
  <2> HIDE DEF I, k
  <2> QED
    BY <2>1, <2>2
<1>4. r = RemoveAt(s, k)
  <2>1. \E i \in 1 .. Len(s) : s[i] = id
    BY <1>2
  <2> QED
    BY <2>1 DEF RemoveFirst
<1>5. k \in 1 .. Len(s) /\ s[k] = id
  <2> HIDE DEF k
  <2> QED
    BY <1>3
<1> HIDE DEF k, I
<1> DEFINE f == SubSeq(s, 1, k - 1)
           g == SubSeq(s, k + 1, Len(s))
<1>6. f \in Seq(Ids) /\ Len(f) = k - 1 /\ \A j \in 1 .. k - 1 : f[j] = s[j]
  <2>1. 1 \in Nat /\ k - 1 \in 0 .. Len(s)
    BY <1>1, <1>5
  <2>2. \A j \in 1 .. k - 1 : j \in 1 .. Len(s)
    BY <1>1, <1>5
  <2> QED
    BY <2>1, <2>2, <1>1, <1>5
<1>7. g \in Seq(Ids) /\ Len(g) = Len(s) - k /\ \A j \in 1 .. Len(s) - k : g[j] = s[k + j]
  <2>1. k + 1 \in 1 .. Len(s) + 1 /\ Len(s) \in Nat /\ Len(s) - (k + 1) + 1 = Len(s) - k /\ Len(s) - k \in Nat
    BY <1>1, <1>5
  <2>2. \A j \in k + 1 .. Len(s) : j \in 1 .. Len(s)
    BY <1>1, <1>5
  <2>3. g \in Seq(Ids)
    BY <2>1, <2>2, <1>1
  <2>4. Len(g) = Len(s) - k
    <3> DEFINE n == Len(s)
    <3>1. n \in Nat /\ k \in 1 .. n
      BY <1>1, <1>5
    <3>2. CASE k = n
      BY <3>2, <3>1, <1>1, SMTT(30)
    <3>3. CASE k # n
      <4>1. k + 1 <= n /\ k + 1 \in Nat
        BY <3>1, <3>3
      <4>2. Len(g) = n - (k + 1) + 1
        BY <4>1, <3>1, <1>1, SMTT(30)
      <4> HIDE DEF n
      <4> QED
        BY <4>2, <3>1 DEF n
    <3> QED
      BY <3>2, <3>3
  <2>5. \A j \in 1 .. Len(s) - k : g[j] = s[k + j]
    <3> TAKE j \in 1 .. Len(s) - k
    <3>1. (k + 1) + j - 1 = k + j
      BY <1>1, <1>5
    <3>2. g[j] = s[(k + 1) + j - 1]
      BY <2>1, <1>1, <1>5
    <3> QED
      BY <3>1, <3>2
  <2> QED
    BY <2>3, <2>4, <2>5
<1>8. r = f \o g
  BY <1>4 DEF RemoveAt
<1> HIDE DEF f, g
<1>9. IsBin(f)
  <2>1. DOMAIN f = 1 .. k - 1 /\ \A j \in 1 .. k - 1 : j \in DOMAIN s
    BY <1>1, <1>5, <1>6
  <2> QED
    BY <2>1, <1>6 DEF IsBin, IsInjective
<1>10. IsBin(g)
  <2>1. DOMAIN g = 1 .. Len(s) - k /\ \A j \in 1 .. Len(s) - k : k + j \in DOMAIN s
    BY <1>1, <1>5, <1>7
  <2>2. \A i, j \in 1 .. Len(s) - k : k + i = k + j => i = j
    BY <1>1, <1>5
  <2> QED
    BY <2>1, <2>2, <1>7 DEF IsBin, IsInjective
<1>11. ToSet(f) = {s[j] : j \in 1 .. k - 1}
  <2>1. DOMAIN f = 1 .. k - 1
    BY <1>1, <1>5, <1>6
  <2> QED
    BY <2>1, <1>6 DEF ToSet
<1>12. ToSet(g) = {s[j] : j \in k + 1 .. Len(s)}
  <2>1. DOMAIN g = 1 .. Len(s) - k
    BY <1>1, <1>5, <1>7
  <2>2. \A j \in 1 .. Len(s) - k : k + j \in k + 1 .. Len(s)
    BY <1>1, <1>5
  <2>3. \A j \in k + 1 .. Len(s) : j - k \in 1 .. Len(s) - k /\ k + (j - k) = j
    BY <1>1, <1>5
  <2>4. ToSet(g) = {g[j] : j \in 1 .. Len(s) - k}
    BY <2>1 DEF ToSet
  <2>5. ToSet(g) \subseteq {s[j] : j \in k + 1 .. Len(s)}
    BY <2>4, <2>2, <1>7
  <2>6. \A j \in k + 1 .. Len(s) : s[j] = g[j - k]
    BY <2>3, <1>7
  <2>7. {s[j] : j \in k + 1 .. Len(s)} \subseteq ToSet(g)
    BY <2>3, <2>4, <2>6
  <2> QED
    BY <2>5, <2>7
<1>13. \A i, j \in 1 .. Len(s) : s[i] = s[j] => i = j
  BY <1>1 DEF IsBin, IsInjective
<1>14. ToSet(f) \cap ToSet(g) = {}
  <2> SUFFICES ASSUME NEW i \in 1 .. k - 1, NEW j \in k + 1 .. Len(s), s[i] = s[j] PROVE FALSE
    BY <1>11, <1>12
  <2>1. i \in 1 .. Len(s) /\ j \in 1 .. Len(s) /\ i # j
    BY <1>1, <1>5
  <2> QED
    BY <2>1, <1>13
<1>15. ToSet(f) \cup ToSet(g) = ToSet(s) \ {id}
  <2>1. ToSet(s) = {s[j] : j \in 1 .. Len(s)}
    BY <1>1 DEF ToSet
  <2>2. \A j \in 1 .. Len(s) : j # k => j \in 1 .. k - 1 \/ j \in k + 1 .. Len(s)
    BY <1>1, <1>5
  <2>3. \A j \in 1 .. k - 1 : j \in 1 .. Len(s) /\ j # k
    BY <1>1, <1>5
  <2>4. \A j \in k + 1 .. Len(s) : j \in 1 .. Len(s) /\ j # k
    BY <1>1, <1>5
  <2>5. \A j \in 1 .. Len(s) : j # k => s[j] # id
    BY <1>5, <1>13
  <2>6. ToSet(f) \cup ToSet(g) \subseteq ToSet(s) \ {id}
    BY <2>1, <2>3, <2>4, <2>5, <1>11, <1>12
  <2>7. ToSet(s) \ {id} \subseteq ToSet(f) \cup ToSet(g)
    BY <2>1, <2>2, <1>5, <1>11, <1>12
  <2> QED
    BY <2>6, <2>7
<1>16. Len(f) + Len(g) = Len(s) - 1
  BY <1>1, <1>5, <1>6, <1>7
<1> QED
  BY <1>8, <1>9, <1>10, <1>14, <1>15, <1>16, ConcatBin

\* A contact is moved to the bottom of its bin.
LEMMA PushBin ==
    ASSUME NEW s, IsBin(s), NEW id \in ToSet(s), NEW r, r = PushToBottom(s, id)
    PROVE  IsBin(r) /\ Len(r) = Len(s) /\ ToSet(r) = ToSet(s)
<1> DEFINE q == RemoveFirst(s, id)
<1>1. IsBin(q) /\ Len(q) = Len(s) - 1 /\ ToSet(q) = ToSet(s) \ {id}
  BY RemoveBin
<1>2. r = Append(q, id)
  BY DEF PushToBottom
<1> HIDE DEF q
<1>3. id \in Ids /\ Len(s) \in Nat
  BY BinsAreFinite DEF IsBin
<1>4. IsBin(r) /\ Len(r) = Len(q) + 1 /\ ToSet(r) = ToSet(q) \cup {id}
  BY <1>1, <1>2, <1>3, AppendBin
<1> QED
  BY <1>1, <1>3, <1>4

----------------------------------------------------------------------------
(* Tables.                                                                 *)

\* The data of a contact.
Contacts == [addr : Addrs \cup {"none"}, kind : Kinds, type : Nat, expires : {"unset", "future", "past"}]

\* Tables, whatever they hold.
Tables == [bins : UNION {[D -> Seq(Ids)] : D \in SUBSET Zones}, tracked : [Addrs -> Int],
           nodes : SUBSET Ids, events : SUBSET Zones]

\* The contacts in the bins of a table.
In(t) == UNION {ToSet(t.bins[z]) : z \in DOMAIN t.bins}

\* Of the contacts I no two share an address, and each address is counted once.
Books(I, data, tracked) ==
    /\ \A id \in I : data[id].addr \in Addrs
    /\ \A x, y \in I : data[x].addr = data[y].addr => x = y
    /\ \A a \in Addrs : tracked[a] = IF \E id \in I : data[id].addr = a THEN 1 ELSE 0

\* A bin has at most K contacts, which belong to its zone.
Placed(t) ==
    \A z \in DOMAIN t.bins :
       IsBin(t.bins[z]) /\ Len(t.bins[z]) <= K /\ \A id \in ToSet(t.bins[z]) : Covers(z, id)

\* No contact is in two bins.
Once(t) == \A y, z \in DOMAIN t.bins : \A id \in ToSet(t.bins[y]) : id \in ToSet(t.bins[z]) => y = z

\* What holds of a table at any time, amid a split or a merge too, when some
\* distances have no leaf.
Sound(t, data) == t \in Tables /\ Placed(t) /\ Once(t) /\ Books(In(t), data, t.tracked)

\* Zones that divide the distances between them.
Tiled(D) == \A d \in Distances : \E z \in D : Covers(z, d) /\ \A y \in D : Covers(y, d) => y = z

\* What holds of a table when no function is at work on it.
Good(t, data) ==
    /\ Sound(t, data)
    /\ Tiled(DOMAIN t.bins)
    /\ t.events = DOMAIN t.bins
    /\ t.nodes = In(t)

\* What it takes to be a table.
LEMMA TableIs ==
    ASSUME NEW t
    PROVE  t \in Tables <=>
             /\ t = [bins |-> t.bins, tracked |-> t.tracked, nodes |-> t.nodes, events |-> t.events]
             /\ t.bins = [z \in DOMAIN t.bins |-> t.bins[z]]
             /\ DOMAIN t.bins \subseteq Zones
             /\ \A z \in DOMAIN t.bins : t.bins[z] \in Seq(Ids)
             /\ t.tracked \in [Addrs -> Int] /\ t.nodes \subseteq Ids /\ t.events \subseteq Zones
<1> DEFINE B == UNION {[D -> Seq(Ids)] : D \in SUBSET Zones}
<1>1. \A f : f \in B <=> /\ f = [z \in DOMAIN f |-> f[z]] /\ DOMAIN f \subseteq Zones
                         /\ \A z \in DOMAIN f : f[z] \in Seq(Ids)
  <2> TAKE f
  <2>1. f \in B => \E D \in SUBSET Zones : f \in [D -> Seq(Ids)]
    OBVIOUS
  <2>2. \A D \in SUBSET Zones : f \in [D -> Seq(Ids)] => f \in B
    OBVIOUS
  <2>3. \A D : f \in [D -> Seq(Ids)] <=> f = [z \in DOMAIN f |-> f[z]] /\ DOMAIN f = D
                                          /\ \A z \in DOMAIN f : f[z] \in Seq(Ids)
    OBVIOUS
  <2> HIDE DEF B
  <2> QED
    BY <2>1, <2>2, <2>3
<1>2. t \in Tables <=> t \in [bins : B, tracked : [Addrs -> Int], nodes : SUBSET Ids, events : SUBSET Zones]
  BY DEF Tables
<1> HIDE DEF B
<1>3. t \in Tables <=> /\ t = [bins |-> t.bins, tracked |-> t.tracked, nodes |-> t.nodes, events |-> t.events]
                       /\ t.bins \in B /\ t.tracked \in [Addrs -> Int] /\ t.nodes \subseteq Ids /\ t.events \subseteq Zones
  BY <1>2
<1> QED
  BY <1>1, <1>3

\* The contacts of a table are those of its bins.
LEMMA BinsOfTable ==
    ASSUME NEW t \in Tables
    PROVE  /\ DOMAIN t.bins \subseteq Zones /\ In(t) \subseteq Ids
           /\ \A z \in DOMAIN t.bins : t.bins[z] \in Seq(Ids) /\ ToSet(t.bins[z]) \subseteq In(t)
           /\ \A id : id \in In(t) <=> \E z \in DOMAIN t.bins : id \in ToSet(t.bins[z])
<1>1. DOMAIN t.bins \subseteq Zones /\ \A z \in DOMAIN t.bins : t.bins[z] \in Seq(Ids)
  BY TableIs
<1>2. \A z \in DOMAIN t.bins : ToSet(t.bins[z]) \subseteq Ids
  BY <1>1, BinsAreFinite
<1> QED
  BY <1>1, <1>2 DEF In

\* The counts depend on nothing but the addresses of the contacts.
LEMMA BooksOfOthers ==
    ASSUME NEW I, NEW data, NEW c, Books(I, data, c), NEW other, \A id \in I : other[id].addr = data[id].addr
    PROVE  Books(I, other, c)
<1>1. \A a \in Addrs : (\E id \in I : other[id].addr = a) <=> (\E id \in I : data[id].addr = a)
  OBVIOUS
<1> QED
  BY <1>1 DEF Books

\* A contact with an address that nobody has comes in, and is counted.
LEMMA BooksWhenAdded ==
    ASSUME NEW I, NEW data, NEW c \in [Addrs -> Int], Books(I, data, c), NEW id,
           id \notin I, NEW a \in Addrs, data[id].addr = a, ~ (c[a] >= 1),
           NEW d, d = [c EXCEPT ![a] = @ + 1]
    PROVE  Books(I \cup {id}, data, d)
<1>1. \A x \in I : data[x].addr # a
  BY DEF Books
<1>2. c[a] = 0
  BY <1>1 DEF Books
<1>3. d[a] = 1 /\ \A b \in Addrs : b # a => d[b] = c[b]
  BY <1>2
<1>4. \A x \in I \cup {id} : data[x].addr \in Addrs
  BY DEF Books
<1>5. \A x, y \in I \cup {id} : data[x].addr = data[y].addr => x = y
  BY <1>1 DEF Books
<1>6. ASSUME NEW b \in Addrs PROVE d[b] = IF \E x \in I \cup {id} : data[x].addr = b THEN 1 ELSE 0
  <2>1. CASE b = a
    BY <2>1, <1>3
  <2>2. CASE b # a
    <3>1. (\E x \in I \cup {id} : data[x].addr = b) <=> (\E x \in I : data[x].addr = b)
      BY <2>2
    <3>2. c[b] = IF \E x \in I : data[x].addr = b THEN 1 ELSE 0
      BY DEF Books
    <3> QED
      BY <3>1, <3>2, <2>2, <1>3
  <2> QED
    BY <2>1, <2>2
<1> QED
  BY <1>4, <1>5, <1>6 DEF Books

\* Contacts leave, and are discounted.
LEMMA BooksWhenTaken ==
    ASSUME NEW I, NEW data, NEW c \in [Addrs -> Int], Books(I, data, c), NEW J, J \subseteq I,
           NEW d, \A a \in Addrs : d[a] = c[a] - (IF \E id \in J : data[id].addr = a THEN 1 ELSE 0)
    PROVE  Books(I \ J, data, d)
<1>1. \A x \in I \ J : data[x].addr \in Addrs
  BY DEF Books
<1>2. \A x, y \in I : data[x].addr = data[y].addr => x = y
  BY DEF Books
<1>3. ASSUME NEW a \in Addrs PROVE d[a] = IF \E x \in I \ J : data[x].addr = a THEN 1 ELSE 0
  <2>1. c[a] = IF \E x \in I : data[x].addr = a THEN 1 ELSE 0
    BY DEF Books
  <2>2. CASE \E x \in J : data[x].addr = a
    <3>1. PICK x \in J : data[x].addr = a
      BY <2>2
    <3>2. ~ \E y \in I \ J : data[y].addr = a
      BY <3>1, <1>2
    <3>3. c[a] = 1 /\ d[a] = c[a] - 1
      BY <2>1, <2>2
    <3> QED
      BY <3>2, <3>3
  <2>3. CASE ~ \E x \in J : data[x].addr = a
    <3>1. (\E x \in I \ J : data[x].addr = a) <=> (\E x \in I : data[x].addr = a)
      BY <2>3
    <3>2. d[a] = c[a] - 0 /\ c[a] \in Int
      BY <2>3
    <3>3. d[a] = c[a]
      BY <3>2
    <3> QED
      BY <3>1, <3>3, <2>1
  <2> QED
    BY <2>2, <2>3
<1> QED
  BY <1>1, <1>2, <1>3 DEF Books

\* A contact takes an address that nobody has.
LEMMA BooksWhenMoved ==
    ASSUME NEW I, NEW data, NEW c \in [Addrs -> Int], Books(I, data, c), NEW id \in I,
           NEW old, old = data[id].addr, NEW new \in Addrs, new # old, c[new] = 0,
           NEW d, d = [c EXCEPT ![old] = @ - 1, ![new] = @ + 1],
           NEW other, other[id].addr = new, \A x \in I : x # id => other[x].addr = data[x].addr
    PROVE  Books(I, other, d) /\ d \in [Addrs -> Int] /\ \A x \in I : data[x].addr # new
<1>1. \A x \in I : data[x].addr # new
  BY DEF Books
<1>2. old \in Addrs /\ c[old] = 1
  BY DEF Books
<1>3. d[new] = 1 /\ d[old] = 0 /\ \A b \in Addrs : b # old /\ b # new => d[b] = c[b]
  BY <1>2
<1>4. d \in [Addrs -> Int]
  <2>1. c[old] - 1 \in Int /\ c[new] + 1 \in Int
    BY <1>2
  <2> QED
    BY <2>1, <1>2
<1>5. \A x \in I : other[x].addr \in Addrs
  BY DEF Books
<1>6. \A x, y \in I : other[x].addr = other[y].addr => x = y
  BY <1>1 DEF Books
<1>7. ASSUME NEW b \in Addrs PROVE d[b] = IF \E x \in I : other[x].addr = b THEN 1 ELSE 0
  <2>1. CASE b = new
    BY <2>1, <1>3
  <2>2. CASE b = old
    <3>1. ~ \E x \in I : other[x].addr = b
      BY <2>2 DEF Books
    <3> QED
      BY <3>1, <2>2, <1>3
  <2>3. CASE b # old /\ b # new
    <3>1. (\E x \in I : other[x].addr = b) <=> (\E x \in I : data[x].addr = b)
      BY <2>3
    <3>2. c[b] = IF \E x \in I : data[x].addr = b THEN 1 ELSE 0
      BY DEF Books
    <3> QED
      BY <3>1, <3>2, <2>3, <1>3
  <2> QED
    BY <2>1, <2>2, <2>3
<1> QED
  BY <1>1, <1>4, <1>5, <1>6, <1>7 DEF Books

\* One bin gets a contact that no bin had.
LEMMA OneBinGrows ==
    ASSUME NEW t \in Tables, Placed(t), Once(t), NEW r \in Tables, DOMAIN r.bins = DOMAIN t.bins,
           NEW z \in DOMAIN t.bins, \A y \in DOMAIN t.bins : y # z => r.bins[y] = t.bins[y],
           IsBin(r.bins[z]), Len(r.bins[z]) <= K,
           NEW id, id \notin In(t), Covers(z, id), ToSet(r.bins[z]) = ToSet(t.bins[z]) \cup {id}
    PROVE  Placed(r) /\ Once(r) /\ In(r) = In(t) \cup {id}
<1>1. \A y \in DOMAIN t.bins : id \notin ToSet(t.bins[y])
  BY DEF In
<1>2. \A y \in DOMAIN t.bins : y # z => ToSet(r.bins[y]) = ToSet(t.bins[y])
  OBVIOUS
<1>3. Placed(r)
  BY DEF Placed
<1>4. Once(r)
  <2> SUFFICES ASSUME NEW y \in DOMAIN t.bins, NEW w \in DOMAIN t.bins, NEW x \in ToSet(r.bins[y]), x \in ToSet(r.bins[w])
               PROVE  y = w
    BY DEF Once
  <2>1. CASE x = id
    <3>1. \A v \in DOMAIN t.bins : id \in ToSet(r.bins[v]) => v = z
      BY <1>1, <1>2
    <3> QED
      BY <3>1, <2>1
  <2>2. CASE x # id
    <3>1. \A v \in DOMAIN t.bins : x \in ToSet(r.bins[v]) => x \in ToSet(t.bins[v])
      BY <2>2, <1>2
    <3>2. x \in ToSet(t.bins[y]) /\ x \in ToSet(t.bins[w])
      BY <3>1
    <3> QED
      BY <3>2 DEF Once
  <2> QED
    BY <2>1, <2>2
<1>5. In(r) = In(t) \cup {id}
  <2>1. \A x : x \in In(r) <=> \E y \in DOMAIN t.bins : x \in ToSet(r.bins[y])
    BY BinsOfTable
  <2>2. \A x : x \in In(t) <=> \E y \in DOMAIN t.bins : x \in ToSet(t.bins[y])
    BY BinsOfTable
  <2>3. \A x : x \in In(r) <=> x \in In(t) \cup {id}
    BY <2>1, <2>2, <1>2
  <2> QED
    BY <2>3
<1> QED
  BY <1>3, <1>4, <1>5

\* One bin loses a contact.
LEMMA OneBinShrinks ==
    ASSUME NEW t \in Tables, Placed(t), Once(t), NEW r \in Tables, DOMAIN r.bins = DOMAIN t.bins,
           NEW z \in DOMAIN t.bins, \A y \in DOMAIN t.bins : y # z => r.bins[y] = t.bins[y],
           IsBin(r.bins[z]), Len(r.bins[z]) <= K,
           NEW id \in ToSet(t.bins[z]), ToSet(r.bins[z]) = ToSet(t.bins[z]) \ {id}
    PROVE  Placed(r) /\ Once(r) /\ In(r) = In(t) \ {id} /\ id \in In(t)
<1>1. \A y \in DOMAIN t.bins : y # z => id \notin ToSet(t.bins[y])
  BY DEF Once
<1>2. \A y \in DOMAIN t.bins : y # z => ToSet(r.bins[y]) = ToSet(t.bins[y])
  OBVIOUS
<1>3. Placed(r)
  BY DEF Placed
<1>4. Once(r)
  BY <1>1, <1>2 DEF Once
<1>5. In(r) = In(t) \ {id}
  <2>1. \A x : x \in In(r) <=> \E y \in DOMAIN t.bins : x \in ToSet(r.bins[y])
    BY BinsOfTable
  <2>2. \A x : x \in In(t) <=> \E y \in DOMAIN t.bins : x \in ToSet(t.bins[y])
    BY BinsOfTable
  <2>3. \A x : x \in In(r) <=> x \in In(t) \ {id}
    BY <2>1, <2>2, <1>1, <1>2
  <2> QED
    BY <2>3
<1> QED
  BY <1>3, <1>4, <1>5, BinsOfTable

\* The contacts of one bin change places.
LEMMA OneBinTurns ==
    ASSUME NEW t \in Tables, Placed(t), Once(t), NEW r \in Tables, DOMAIN r.bins = DOMAIN t.bins,
           NEW z \in DOMAIN t.bins, \A y \in DOMAIN t.bins : y # z => r.bins[y] = t.bins[y],
           IsBin(r.bins[z]), Len(r.bins[z]) <= K, ToSet(r.bins[z]) = ToSet(t.bins[z])
    PROVE  Placed(r) /\ Once(r) /\ In(r) = In(t)
<1>2. \A y \in DOMAIN t.bins : ToSet(r.bins[y]) = ToSet(t.bins[y])
  OBVIOUS
<1>3. Placed(r)
  BY DEF Placed
<1>4. Once(r)
  BY <1>2 DEF Once
<1>5. In(r) = In(t)
  BY <1>2 DEF In
<1> QED
  BY <1>3, <1>4, <1>5

----------------------------------------------------------------------------
(* The functions that change one bin, or the zones.                        *)

\* An address is counted if a contact has it.
LEMMA AddressesAreApart ==
    ASSUME NEW t \in Tables, NEW data, Books(In(t), data, t.tracked), NEW a \in Addrs
    PROVE  /\ t.tracked[a] >= 1 <=> \E x \in In(t) : data[x].addr = a
           /\ t.tracked[a] = 0 <=> ~ \E x \in In(t) : data[x].addr = a
           /\ t.tracked[a] \in Int
<1>1. t.tracked[a] = IF \E x \in In(t) : data[x].addr = a THEN 1 ELSE 0
  BY DEF Books
<1> QED
  BY <1>1

\* A bin has room for one contact at least.
LEMMA KIsNat == K \in Nat /\ K # 0
BY RoutingAssumption

\* AddContact adds the contact or does nothing; it adds one that is new, has an
\* address of its own and finds room.
LEMMA AddContactKeeps ==
    ASSUME NEW t, NEW data, Sound(t, data), NEW z \in DOMAIN t.bins, NEW id \in Ids,
           Covers(z, id), data[id].addr \in Addrs, NEW r, r = AddContact(t, data, z, id)
    PROVE  /\ Sound(r, data) /\ DOMAIN r.bins = DOMAIN t.bins /\ r.events = t.events
           /\ \A y \in DOMAIN t.bins : y # z => r.bins[y] = t.bins[y]
           /\ Len(r.bins[z]) <= Len(t.bins[z]) + 1
           /\ \/ r = t
              \/ In(r) = In(t) \cup {id} /\ r.nodes = t.nodes \cup {id}
           /\ id \notin In(t) /\ Len(t.bins[z]) < K /\ (\A x \in In(t) : data[x].addr # data[id].addr) => id \in In(r)
<1> DEFINE a == data[id].addr
           bin == t.bins[z]
<1> HIDE DEF a, bin
<1>1. t \in Tables /\ Placed(t) /\ Once(t) /\ Books(In(t), data, t.tracked) /\ a \in Addrs
  BY DEF Sound, a
<1>2. IsBin(bin) /\ bin \in Seq(Ids) /\ Len(bin) \in Nat /\ ToSet(bin) \subseteq In(t) /\ K \in Nat
  BY <1>1, BinsOfTable, KIsNat, BinsAreFinite DEF Placed, bin
<1>3. Contains(bin, id) <=> id \in ToSet(bin)
  BY <1>2, BinsAreFinite
<1>4. t.tracked[a] >= 1 <=> \E x \in In(t) : data[x].addr = a
  BY <1>1, AddressesAreApart
<1>5. CASE Contains(bin, id) \/ t.tracked[a] >= 1 \/ Len(bin) >= K
  <2>1. r = t
    BY <1>5 DEF AddContact, a, bin
  <2>2. Len(bin) <= Len(bin) + 1 /\ ~ (Len(bin) >= K /\ Len(bin) < K)
    BY <1>2
  <2>3. ~ (id \notin In(t) /\ Len(bin) < K /\ \A x \in In(t) : data[x].addr # a)
    BY <1>5, <2>2, <1>2, <1>3, <1>4
  <2> QED
    BY <2>1, <2>2, <2>3 DEF a, bin
<1>6. CASE ~ (Contains(bin, id) \/ t.tracked[a] >= 1 \/ Len(bin) >= K)
  <2> DEFINE new == Append(bin, id)
  <2>1. r = [t EXCEPT !.bins[z] = Append(@, id), !.tracked[a] = @ + 1, !.nodes = @ \cup {id}]
    BY <1>6 DEF AddContact, a, bin
  <2>2. IsBin(new) /\ Len(new) = Len(bin) + 1 /\ ToSet(new) = ToSet(bin) \cup {id}
    BY <1>2, <1>3, <1>6, AppendBin
  <2>3. new \in Seq(Ids)
    BY <2>2 DEF IsBin
  <2> HIDE DEF new
  <2>4. /\ t = [bins |-> t.bins, tracked |-> t.tracked, nodes |-> t.nodes, events |-> t.events]
        /\ t.bins = [y \in DOMAIN t.bins |-> t.bins[y]]
        /\ t.tracked \in [Addrs -> Int] /\ t.nodes \subseteq Ids /\ t.events \subseteq Zones
    BY <1>1, TableIs
  <2>5. r = [bins |-> [t.bins EXCEPT ![z] = new], tracked |-> [t.tracked EXCEPT ![a] = @ + 1],
             nodes |-> t.nodes \cup {id}, events |-> t.events]
    BY <2>1, <2>4 DEF new, bin
  <2>6. /\ r.bins = [t.bins EXCEPT ![z] = new] /\ r.tracked = [t.tracked EXCEPT ![a] = @ + 1]
        /\ r.nodes = t.nodes \cup {id} /\ r.events = t.events
    BY <2>5
  <2>7. DOMAIN r.bins = DOMAIN t.bins /\ r.bins[z] = new /\ \A y \in DOMAIN t.bins : y # z => r.bins[y] = t.bins[y]
    BY <2>6
  <2>8. r.tracked \in [Addrs -> Int]
    <3>1. t.tracked[a] + 1 \in Int
      BY <2>4, <1>1
    <3> QED
      BY <3>1, <2>4, <2>6
  <2>9. r \in Tables
    <3>1. DOMAIN t.bins \subseteq Zones /\ \A y \in DOMAIN t.bins : t.bins[y] \in Seq(Ids)
      BY <1>1, BinsOfTable
    <3>2. \A y \in DOMAIN r.bins : r.bins[y] \in Seq(Ids)
      BY <3>1, <2>7, <2>3
    <3>3. r.bins = [y \in DOMAIN r.bins |-> r.bins[y]]
      BY <2>4, <2>6
    <3>4. r = [bins |-> r.bins, tracked |-> r.tracked, nodes |-> r.nodes, events |-> r.events]
      BY <2>5
    <3>5. r.nodes \subseteq Ids /\ r.events \subseteq Zones
      BY <2>4, <2>6
    <3> QED
      BY <3>1, <3>2, <3>3, <3>4, <3>5, <2>7, <2>8, TableIs
  <2>10. id \notin In(t)
    BY <1>6, <1>4 DEF a
  <2>11. Len(new) <= K /\ Len(new) <= Len(bin) + 1
    BY <2>2, <1>2, <1>6
  <2>12. Placed(r) /\ Once(r) /\ In(r) = In(t) \cup {id}
    BY <1>1, <2>2, <2>7, <2>9, <2>10, <2>11, OneBinGrows DEF bin
  <2>13. Books(In(r), data, r.tracked)
    BY <1>1, <1>6, <2>4, <2>6, <2>10, <2>12, BooksWhenAdded DEF a
  <2> QED
    BY <2>6, <2>7, <2>9, <2>11, <2>12, <2>13 DEF Sound, bin
<1> QED
  BY <1>5, <1>6

\* RemoveContact takes the contact out of its bin and the books.
LEMMA RemoveContactKeeps ==
    ASSUME NEW t, NEW data, Good(t, data), NEW z \in DOMAIN t.bins, NEW id \in ToSet(t.bins[z]),
           NEW r, r = RemoveContact(t, data, z, id)
    PROVE  /\ Good(r, data) /\ DOMAIN r.bins = DOMAIN t.bins
           /\ In(r) = In(t) \ {id} /\ ToSet(r.bins[z]) = ToSet(t.bins[z]) \ {id}
<1> DEFINE a == data[id].addr
           bin == t.bins[z]
           new == RemoveFirst(bin, id)
<1>0. r = [t EXCEPT !.bins[z] = RemoveFirst(@, id), !.tracked[a] = @ - 1, !.nodes = @ \ {id}]
  BY DEF RemoveContact
<1> HIDE DEF a, bin, new
<1>1. t \in Tables /\ Placed(t) /\ Once(t) /\ Books(In(t), data, t.tracked)
  BY DEF Good, Sound
<1>2. IsBin(bin) /\ bin \in Seq(Ids) /\ Len(bin) \in Nat /\ Len(bin) <= K /\ ToSet(bin) \subseteq In(t) /\ K \in Nat
  BY <1>1, BinsOfTable, KIsNat, BinsAreFinite DEF Placed, bin
<1>3. a \in Addrs
  BY <1>1, <1>2 DEF Books, a, bin
<1>4. IsBin(new) /\ Len(new) = Len(bin) - 1 /\ ToSet(new) = ToSet(bin) \ {id}
  BY <1>2, RemoveBin DEF new, bin
<1>5. new \in Seq(Ids) /\ Len(new) <= K
  BY <1>2, <1>4 DEF IsBin
<1>6. /\ t = [bins |-> t.bins, tracked |-> t.tracked, nodes |-> t.nodes, events |-> t.events]
      /\ t.bins = [y \in DOMAIN t.bins |-> t.bins[y]]
      /\ t.tracked \in [Addrs -> Int] /\ t.nodes \subseteq Ids /\ t.events \subseteq Zones
  BY <1>1, TableIs
<1>7. r = [bins |-> [t.bins EXCEPT ![z] = new], tracked |-> [t.tracked EXCEPT ![a] = @ - 1],
           nodes |-> t.nodes \ {id}, events |-> t.events]
  BY <1>0, <1>6 DEF new, bin
<1>8. /\ r.bins = [t.bins EXCEPT ![z] = new] /\ r.tracked = [t.tracked EXCEPT ![a] = @ - 1]
      /\ r.nodes = t.nodes \ {id} /\ r.events = t.events
  BY <1>7
<1>9. DOMAIN r.bins = DOMAIN t.bins /\ r.bins[z] = new /\ \A y \in DOMAIN t.bins : y # z => r.bins[y] = t.bins[y]
  BY <1>8
<1>10. r.tracked \in [Addrs -> Int]
  <2>1. t.tracked[a] - 1 \in Int
    BY <1>6, <1>3
  <2> QED
    BY <2>1, <1>6, <1>8
<1>11. r \in Tables
  <2>1. DOMAIN t.bins \subseteq Zones /\ \A y \in DOMAIN t.bins : t.bins[y] \in Seq(Ids)
    BY <1>1, BinsOfTable
  <2>2. \A y \in DOMAIN r.bins : r.bins[y] \in Seq(Ids)
    BY <2>1, <1>5, <1>9
  <2>3. r.bins = [y \in DOMAIN r.bins |-> r.bins[y]]
    BY <1>6, <1>8
  <2>4. r = [bins |-> r.bins, tracked |-> r.tracked, nodes |-> r.nodes, events |-> r.events]
    BY <1>7
  <2>5. r.nodes \subseteq Ids /\ r.events \subseteq Zones
    BY <1>6, <1>8
  <2> QED
    BY <2>1, <2>2, <2>3, <2>4, <2>5, <1>9, <1>10, TableIs
<1>12. Placed(r) /\ Once(r) /\ In(r) = In(t) \ {id} /\ id \in In(t)
  BY <1>1, <1>4, <1>5, <1>9, <1>11, OneBinShrinks DEF bin
<1>13. Books(In(t) \ {id}, data, r.tracked)
  <2>1. ASSUME NEW b \in Addrs
        PROVE  r.tracked[b] = t.tracked[b] - (IF \E x \in {id} : data[x].addr = b THEN 1 ELSE 0)
    <3>1. CASE b = a
      BY <3>1, <1>6, <1>8 DEF a
    <3>2. CASE b # a
      <4>1. r.tracked[b] = t.tracked[b] /\ t.tracked[b] \in Int /\ ~ \E x \in {id} : data[x].addr = b
        BY <3>2, <1>6, <1>8 DEF a
      <4>2. t.tracked[b] - 0 = t.tracked[b]
        BY <4>1
      <4> QED
        BY <4>1, <4>2
    <3> QED
      BY <3>1, <3>2
  <2>2. {id} \subseteq In(t)
    BY <1>12
  <2> QED
    BY <2>1, <2>2, <1>1, <1>6, BooksWhenTaken
<1>14. Tiled(DOMAIN r.bins) /\ r.events = DOMAIN r.bins /\ r.nodes = In(r)
  BY <1>8, <1>9, <1>12 DEF Good
<1> QED
  BY <1>4, <1>9, <1>11, <1>12, <1>13, <1>14 DEF Good, Sound, bin

\* PushToBottom keeps the contact.
LEMMA TurnKeeps ==
    ASSUME NEW t, NEW data, Good(t, data), NEW z \in DOMAIN t.bins, NEW id \in ToSet(t.bins[z]),
           NEW r, r = [t EXCEPT !.bins[z] = PushToBottom(@, id)]
    PROVE  /\ Good(r, data) /\ In(r) = In(t)
<1> DEFINE bin == t.bins[z]
           new == PushToBottom(bin, id)
<1> HIDE DEF bin, new
<1>1. t \in Tables /\ Placed(t) /\ Once(t) /\ Books(In(t), data, t.tracked)
  BY DEF Good, Sound
<1>2. IsBin(bin) /\ Len(bin) <= K
  BY <1>1 DEF Placed, bin
<1>4. IsBin(new) /\ Len(new) = Len(bin) /\ ToSet(new) = ToSet(bin)
  BY <1>2, PushBin DEF new, bin
<1>5. new \in Seq(Ids) /\ Len(new) <= K
  BY <1>2, <1>4 DEF IsBin
<1>6. /\ t = [bins |-> t.bins, tracked |-> t.tracked, nodes |-> t.nodes, events |-> t.events]
      /\ t.bins = [y \in DOMAIN t.bins |-> t.bins[y]]
      /\ t.tracked \in [Addrs -> Int] /\ t.nodes \subseteq Ids /\ t.events \subseteq Zones
  BY <1>1, TableIs
<1>7. r = [bins |-> [t.bins EXCEPT ![z] = new], tracked |-> t.tracked, nodes |-> t.nodes, events |-> t.events]
  BY <1>6 DEF new, bin
<1>8. r.bins = [t.bins EXCEPT ![z] = new] /\ r.tracked = t.tracked /\ r.nodes = t.nodes /\ r.events = t.events
  BY <1>7
<1>9. DOMAIN r.bins = DOMAIN t.bins /\ r.bins[z] = new /\ \A y \in DOMAIN t.bins : y # z => r.bins[y] = t.bins[y]
  BY <1>8
<1>11. r \in Tables
  <2>1. DOMAIN t.bins \subseteq Zones /\ \A y \in DOMAIN t.bins : t.bins[y] \in Seq(Ids)
    BY <1>1, BinsOfTable
  <2>2. \A y \in DOMAIN r.bins : r.bins[y] \in Seq(Ids)
    BY <2>1, <1>5, <1>9
  <2>3. r.bins = [y \in DOMAIN r.bins |-> r.bins[y]]
    BY <1>6, <1>8
  <2>4. r = [bins |-> r.bins, tracked |-> r.tracked, nodes |-> r.nodes, events |-> r.events]
    BY <1>7
  <2>5. /\ DOMAIN r.bins \subseteq Zones /\ r.tracked \in [Addrs -> Int]
        /\ r.nodes \subseteq Ids /\ r.events \subseteq Zones
    BY <2>1, <1>6, <1>8, <1>9
  <2> QED
    BY <2>2, <2>3, <2>4, <2>5, TableIs
<1>12. Placed(r) /\ Once(r) /\ In(r) = In(t)
  BY <1>1, <1>4, <1>5, <1>9, <1>11, OneBinTurns DEF bin
<1> QED
  BY <1>1, <1>8, <1>9, <1>11, <1>12 DEF Good, Sound

\* New zones are empty and have a timer.
LEMMA NewZonesKeep ==
    ASSUME NEW t, NEW data, Sound(t, data), NEW zones \in SUBSET Zones, zones \cap DOMAIN t.bins = {},
           NEW r, r = NewZones(t, zones)
    PROVE  /\ Sound(r, data) /\ In(r) = In(t) /\ r.nodes = t.nodes
           /\ DOMAIN r.bins = DOMAIN t.bins \cup zones /\ r.events = t.events \cup zones
           /\ \A z \in zones : r.bins[z] = <<>>
           /\ \A z \in DOMAIN t.bins : r.bins[z] = t.bins[z]
<1>1. t \in Tables /\ Placed(t) /\ Once(t) /\ Books(In(t), data, t.tracked)
  BY DEF Sound
<1>2. /\ t = [bins |-> t.bins, tracked |-> t.tracked, nodes |-> t.nodes, events |-> t.events]
      /\ t.tracked \in [Addrs -> Int] /\ t.nodes \subseteq Ids /\ t.events \subseteq Zones
  BY <1>1, TableIs
<1> DEFINE b == [z \in DOMAIN t.bins \cup zones |-> IF z \in zones THEN <<>> ELSE t.bins[z]]
<1>3. r = [bins |-> b, tracked |-> t.tracked, nodes |-> t.nodes, events |-> t.events \cup zones]
  BY <1>2 DEF NewZones
<1>4. /\ DOMAIN b = DOMAIN t.bins \cup zones /\ b = [z \in DOMAIN b |-> b[z]]
      /\ \A z \in zones : b[z] = <<>>
      /\ \A z \in DOMAIN t.bins : b[z] = t.bins[z]
  OBVIOUS
<1> HIDE DEF b
<1>5. r.bins = b /\ r.tracked = t.tracked /\ r.nodes = t.nodes /\ r.events = t.events \cup zones
  BY <1>3
<1>6. DOMAIN t.bins \subseteq Zones /\ \A z \in DOMAIN t.bins : t.bins[z] \in Seq(Ids)
  BY <1>1, BinsOfTable
<1>7. r \in Tables
  <2>1. \A z \in DOMAIN b : b[z] \in Seq(Ids)
    BY <1>4, <1>6, EmptyBin
  <2>2. r = [bins |-> r.bins, tracked |-> r.tracked, nodes |-> r.nodes, events |-> r.events]
    BY <1>3
  <2>3. r.events \subseteq Zones /\ DOMAIN r.bins \subseteq Zones
    BY <1>2, <1>4, <1>5, <1>6
  <2>4. /\ r.bins = [z \in DOMAIN r.bins |-> r.bins[z]]
        /\ \A z \in DOMAIN r.bins : r.bins[z] \in Seq(Ids)
    BY <2>1, <1>4, <1>5
  <2>5. r.tracked \in [Addrs -> Int] /\ r.nodes \subseteq Ids
    BY <1>2, <1>5
  <2> QED
    BY <2>2, <2>3, <2>4, <2>5, TableIs
<1>8. 0 <= K
  BY KIsNat
<1>9. Placed(r)
  <2> SUFFICES ASSUME NEW z \in DOMAIN b
               PROVE  IsBin(b[z]) /\ Len(b[z]) <= K /\ \A id \in ToSet(b[z]) : Covers(z, id)
    BY <1>5 DEF Placed
  <2>1. CASE z \in zones
    BY <2>1, <1>4, <1>8, EmptyBin
  <2>2. CASE z \in DOMAIN t.bins
    BY <2>2, <1>1, <1>4 DEF Placed
  <2> QED
    BY <2>1, <2>2, <1>4
<1>10. \A z \in zones : ToSet(b[z]) = {}
  BY <1>4, EmptyBin
<1>11. Once(r)
  <2> SUFFICES ASSUME NEW y \in DOMAIN b, NEW z \in DOMAIN b, NEW id, id \in ToSet(b[y]), id \in ToSet(b[z]) PROVE y = z
    BY <1>5 DEF Once
  <2>1. y \in DOMAIN t.bins /\ z \in DOMAIN t.bins
    BY <1>4, <1>10
  <2> QED
    BY <2>1, <1>1, <1>4 DEF Once
<1>12. In(r) = In(t)
  <2>1. \A x : x \in In(r) <=> \E y \in DOMAIN b : x \in ToSet(b[y])
    BY <1>5, <1>7, BinsOfTable
  <2>2. \A x : x \in In(t) <=> \E y \in DOMAIN t.bins : x \in ToSet(t.bins[y])
    BY <1>1, BinsOfTable
  <2>3. \A x : x \in In(r) <=> x \in In(t)
    BY <2>1, <2>2, <1>4, <1>10
  <2> QED
    BY <2>3
<1> QED
  BY <1>1, <1>4, <1>5, <1>7, <1>9, <1>11, <1>12 DEF Sound

\* Timers are stopped.
LEMMA StopTimersKeeps ==
    ASSUME NEW t, NEW data, Sound(t, data), NEW zones, NEW r, r = StopTimers(t, zones)
    PROVE  /\ Sound(r, data) /\ In(r) = In(t) /\ r.nodes = t.nodes /\ r.bins = t.bins
           /\ r.events = t.events \ zones
<1>1. t \in Tables /\ Placed(t) /\ Once(t) /\ Books(In(t), data, t.tracked)
  BY DEF Sound
<1>2. /\ t = [bins |-> t.bins, tracked |-> t.tracked, nodes |-> t.nodes, events |-> t.events]
      /\ t.bins = [z \in DOMAIN t.bins |-> t.bins[z]]
      /\ DOMAIN t.bins \subseteq Zones
      /\ \A z \in DOMAIN t.bins : t.bins[z] \in Seq(Ids)
      /\ t.tracked \in [Addrs -> Int] /\ t.nodes \subseteq Ids /\ t.events \subseteq Zones
  BY <1>1, TableIs
<1>3. r = [bins |-> t.bins, tracked |-> t.tracked, nodes |-> t.nodes, events |-> t.events \ zones]
  BY <1>2 DEF StopTimers
<1>4. r.bins = t.bins /\ r.tracked = t.tracked /\ r.nodes = t.nodes /\ r.events = t.events \ zones
  BY <1>3
<1>5. r = [bins |-> r.bins, tracked |-> r.tracked, nodes |-> r.nodes, events |-> r.events]
  BY <1>3
<1>6. r \in Tables
  <2>1. r.events \subseteq Zones
    BY <1>2, <1>4
  <2> QED
    BY <2>1, <1>2, <1>4, <1>5, TableIs
<1>7. Placed(r) /\ Once(r)
  BY <1>1, <1>4 DEF Placed, Once
<1>8. In(r) = In(t)
  BY <1>4 DEF In
<1> QED
  BY <1>1, <1>4, <1>6, <1>7, <1>8 DEF Sound

----------------------------------------------------------------------------
(* Many contacts at once.                                                  *)

\* The contacts in some of the bins.
Within(t, zones) == UNION {ToSet(t.bins[z]) : z \in zones}

\* The entries of some bins that have an address.
EntriesAt(t, data, zones, a) ==
    {e \in {e \in zones \X (1 .. K) : e[2] \in DOMAIN t.bins[e[1]]} : data[t.bins[e[1]][e[2]]].addr = a}

\* An address has one entry in some bins, if a contact there has it, or none.
LEMMA EntriesAreCounted ==
    ASSUME NEW t, NEW data, Sound(t, data), NEW zones, zones \subseteq DOMAIN t.bins, NEW a \in Addrs,
           NEW at, at = EntriesAt(t, data, zones, a)
    PROVE  Cardinality(at) = IF \E id \in Within(t, zones) : data[id].addr = a THEN 1 ELSE 0
<1>1. t \in Tables /\ Placed(t) /\ Once(t) /\ Books(In(t), data, t.tracked)
  BY DEF Sound
<1>2. \A z \in zones : /\ IsBin(t.bins[z]) /\ t.bins[z] \in Seq(Ids) /\ Len(t.bins[z]) <= K
                       /\ ToSet(t.bins[z]) \subseteq In(t)
  BY <1>1, BinsOfTable DEF Placed
<1>3. \A z \in zones : /\ Len(t.bins[z]) \in Nat /\ DOMAIN t.bins[z] = 1 .. Len(t.bins[z])
                       /\ \A i \in DOMAIN t.bins[z] : t.bins[z][i] \in ToSet(t.bins[z])
                       /\ \A id \in ToSet(t.bins[z]) : \E i \in DOMAIN t.bins[z] : t.bins[z][i] = id
  BY <1>2, BinsAreFinite
<1>4. \A z \in zones : DOMAIN t.bins[z] \subseteq 1 .. K
  BY <1>2, <1>3, KIsNat
<1>5. \A e : e \in at <=> /\ e \in zones \X (1 .. K) /\ e[2] \in DOMAIN t.bins[e[1]]
                          /\ data[t.bins[e[1]][e[2]]].addr = a
  BY DEF EntriesAt
<1>6. \A id : id \in Within(t, zones) <=> \E z \in zones : id \in ToSet(t.bins[z])
  BY DEF Within
<1>7. CASE ~ \E id \in Within(t, zones) : data[id].addr = a
  <2>1. at = {}
    <3> SUFFICES ASSUME NEW e \in at PROVE FALSE
      OBVIOUS
    <3>1. e[1] \in zones /\ e[2] \in DOMAIN t.bins[e[1]] /\ data[t.bins[e[1]][e[2]]].addr = a
      BY <1>5
    <3>2. t.bins[e[1]][e[2]] \in Within(t, zones)
      BY <3>1, <1>3, <1>6
    <3> QED
      BY <3>1, <3>2, <1>7
  <2> QED
    BY <2>1, <1>7, FS_EmptySet
<1>8. CASE \E id \in Within(t, zones) : data[id].addr = a
  <2>1. PICK id \in Within(t, zones) : data[id].addr = a
    BY <1>8
  <2>2. PICK z \in zones : id \in ToSet(t.bins[z])
    BY <1>6
  <2>3. PICK i \in DOMAIN t.bins[z] : t.bins[z][i] = id
    BY <2>2, <1>3
  <2>4. i \in 1 .. K
    BY <2>3, <1>4
  <2> DEFINE p == <<z, i>>
  <2>5. p \in at
    <3>1. p \in zones \X (1 .. K) /\ p[1] = z /\ p[2] = i
      BY <2>4
    <3> HIDE DEF p
    <3> QED
      BY <3>1, <2>1, <2>3, <1>5
  <2>6. ASSUME NEW e \in at PROVE e = p
    <3>1. /\ e \in zones \X (1 .. K) /\ e[1] \in zones /\ e[2] \in DOMAIN t.bins[e[1]]
          /\ data[t.bins[e[1]][e[2]]].addr = a
      BY <1>5
    <3> DEFINE x == t.bins[e[1]][e[2]]
    <3>2. x \in ToSet(t.bins[e[1]]) /\ data[x].addr = a
      BY <3>1, <1>3
    <3> HIDE DEF x
    <3>3. x \in In(t) /\ id \in In(t)
      BY <3>1, <3>2, <2>2, <1>2
    <3>4. x = id
      BY <3>2, <3>3, <2>1, <1>1 DEF Books
    <3>5. e[1] = z
      BY <3>1, <3>2, <3>4, <2>2, <1>1 DEF Once
    <3>6. e[2] = i
      <4>1. IsInjective(t.bins[z]) /\ t.bins[z][e[2]] = t.bins[z][i] /\ e[2] \in DOMAIN t.bins[z]
        BY <1>2, <2>3, <3>1, <3>4, <3>5 DEF IsBin, x
      <4> QED
        BY <4>1 DEF IsInjective
    <3>7. e = <<e[1], e[2]>>
      BY <3>1
    <3> QED
      BY <3>5, <3>6, <3>7
  <2> HIDE DEF p
  <2>7. at = {p}
    BY <2>5, <2>6
  <2> QED
    BY <2>7, <1>8, FS_Singleton
<1> QED
  BY <1>7, <1>8

\* DeleteBins takes the contacts of the bins out of the tree and the counts; the
\* set of all contacts keeps them, for they are added again.
LEMMA DeleteBinsKeep ==
    ASSUME NEW t, NEW data, Sound(t, data), NEW zones, zones \subseteq DOMAIN t.bins,
           NEW r, r = DeleteBins(t, data, zones)
    PROVE  /\ Sound(r, data) /\ In(r) = In(t) \ Within(t, zones) /\ r.nodes = t.nodes /\ r.events = t.events
           /\ DOMAIN r.bins = DOMAIN t.bins \ zones
           /\ \A z \in DOMAIN r.bins : r.bins[z] = t.bins[z]
           /\ Within(t, zones) \subseteq In(t)
<1>1. t \in Tables /\ Placed(t) /\ Once(t) /\ Books(In(t), data, t.tracked)
  BY DEF Sound
<1>2. /\ t = [bins |-> t.bins, tracked |-> t.tracked, nodes |-> t.nodes, events |-> t.events]
      /\ t.tracked \in [Addrs -> Int] /\ t.nodes \subseteq Ids /\ t.events \subseteq Zones
  BY <1>1, TableIs
<1> DEFINE b == [z \in DOMAIN t.bins \ zones |-> t.bins[z]]
           entries == {e \in zones \X (1 .. K) : e[2] \in DOMAIN t.bins[e[1]]}
           at(a) == {e \in entries : data[t.bins[e[1]][e[2]]].addr = a}
           c == [a \in Addrs |-> t.tracked[a] - Cardinality(at(a))]
<1>3. r = [bins |-> b, tracked |-> c, nodes |-> t.nodes, events |-> t.events]
  BY <1>2 DEF DeleteBins
<1>4. \A a \in Addrs : Cardinality(at(a)) = IF \E id \in Within(t, zones) : data[id].addr = a THEN 1 ELSE 0
  <2> TAKE a \in Addrs
  <2> DEFINE A == at(a)
  <2>1. A = EntriesAt(t, data, zones, a)
    BY DEF EntriesAt
  <2> HIDE DEF A
  <2>2. Cardinality(A) = IF \E id \in Within(t, zones) : data[id].addr = a THEN 1 ELSE 0
    BY <2>1, EntriesAreCounted
  <2> QED
    BY <2>2 DEF A
<1> HIDE DEF at, entries
<1>5. \A a \in Addrs : c[a] = t.tracked[a] - (IF \E id \in Within(t, zones) : data[id].addr = a THEN 1 ELSE 0)
  BY <1>4
<1>6. c \in [Addrs -> Int]
  <2>1. \A a \in Addrs : t.tracked[a] - Cardinality(at(a)) \in Int
    BY <1>2, <1>4
  <2> QED
    BY <2>1
<1>7. DOMAIN b = DOMAIN t.bins \ zones /\ b = [z \in DOMAIN b |-> b[z]] /\ \A z \in DOMAIN b : b[z] = t.bins[z]
  OBVIOUS
<1> HIDE DEF b, c
<1>8. r.bins = b /\ r.tracked = c /\ r.nodes = t.nodes /\ r.events = t.events
  BY <1>3
<1>9. DOMAIN t.bins \subseteq Zones /\ \A z \in DOMAIN t.bins : t.bins[z] \in Seq(Ids)
  BY <1>1, BinsOfTable
<1>10. r \in Tables
  <2>1. DOMAIN b \subseteq Zones /\ \A z \in DOMAIN b : b[z] \in Seq(Ids)
    BY <1>7, <1>9
  <2>2. r = [bins |-> r.bins, tracked |-> r.tracked, nodes |-> r.nodes, events |-> r.events]
    BY <1>3, <1>8
  <2>3. r.bins = [z \in DOMAIN r.bins |-> r.bins[z]]
    BY <1>7, <1>8
  <2> QED
    BY <2>1, <2>2, <2>3, <1>2, <1>6, <1>8, TableIs
<1>11. Placed(r)
  BY <1>1, <1>7, <1>8 DEF Placed
<1>12. Once(r)
  BY <1>1, <1>7, <1>8 DEF Once
<1>13. Within(t, zones) \subseteq In(t)
  BY DEF Within, In
<1>14. In(r) = In(t) \ Within(t, zones)
  <2>1. \A x : x \in In(r) <=> \E y \in DOMAIN b : x \in ToSet(b[y])
    BY <1>8, <1>10, BinsOfTable
  <2>2. \A x : x \in In(t) <=> \E y \in DOMAIN t.bins : x \in ToSet(t.bins[y])
    BY <1>1, BinsOfTable
  <2>3. \A x : x \in Within(t, zones) <=> \E z \in zones : x \in ToSet(t.bins[z])
    BY DEF Within
  <2>4. ASSUME NEW x, x \in In(r) PROVE x \in In(t) \ Within(t, zones)
    <3>1. PICK y \in DOMAIN b : x \in ToSet(b[y])
      BY <2>1, <2>4
    <3>2. y \in DOMAIN t.bins /\ y \notin zones /\ x \in ToSet(t.bins[y])
      BY <3>1, <1>7
    <3>3. \A z \in zones : x \notin ToSet(t.bins[z])
      BY <3>2, <1>1 DEF Once
    <3> QED
      BY <3>2, <3>3, <2>2, <2>3
  <2>5. ASSUME NEW x, x \in In(t) \ Within(t, zones) PROVE x \in In(r)
    <3>1. PICK y \in DOMAIN t.bins : x \in ToSet(t.bins[y])
      BY <2>2, <2>5
    <3>2. y \notin zones
      BY <3>1, <2>3, <2>5
    <3> QED
      BY <3>1, <3>2, <1>7, <2>1
  <2> QED
    BY <2>4, <2>5
<1>15. Books(In(r), data, r.tracked)
  <2>1. Books(In(t) \ Within(t, zones), data, c)
    BY <1>1, <1>2, <1>5, <1>13, BooksWhenTaken
  <2> QED
    BY <2>1, <1>8, <1>14
<1> QED
  BY <1>7, <1>8, <1>10, <1>11, <1>12, <1>13, <1>14, <1>15 DEF Sound

\* The first i of a list.
First(list, i) == {list[j] : j \in 1 .. i}

\* u is t with the first i contacts of the list added to some zones.
Filled(u, t, data, zones, list, i) ==
    /\ Sound(u, data)
    /\ DOMAIN u.bins = DOMAIN t.bins /\ u.events = t.events
    /\ In(u) = In(t) \cup First(list, i) /\ u.nodes = t.nodes \cup First(list, i)
    /\ \A z \in zones : Len(u.bins[z]) <= i

\* A list of contacts, all new to the table, that some empty bins have room for.
Fits(t, data, zones, list) ==
    /\ Sound(t, data) /\ zones \subseteq DOMAIN t.bins /\ \A z \in zones : t.bins[z] = <<>>
    /\ IsBin(list) /\ Len(list) <= K /\ ToSet(list) \cap In(t) = {}
    /\ \A id \in ToSet(list) : data[id].addr \in Addrs /\ \E z \in zones : Covers(z, id)
    /\ \A x, y \in In(t) \cup ToSet(list) : data[x].addr = data[y].addr => x = y

\* One turn of the loop that adds contacts: none is refused.
LEMMA OneMoreFits ==
    ASSUME NEW t, NEW data, NEW zones, NEW list, Fits(t, data, zones, list), NEW i \in 1 .. Len(list),
           NEW u, Filled(u, t, data, zones, list, i - 1),
           NEW r, r = AddContact(u, data, ZoneOf(zones, list[i]), list[i])
    PROVE  Filled(r, t, data, zones, list, i)
<1> DEFINE id == list[i]
           z == ZoneOf(zones, id)
           n == Len(list)
<1>1. list \in Seq(Ids) /\ IsInjective(list) /\ n <= K
  BY DEF Fits, IsBin
<1>2. /\ n \in Nat /\ DOMAIN list = 1 .. n /\ id \in ToSet(list) /\ id \in Ids /\ i \in 1 .. n
      /\ \A j \in 1 .. n : list[j] \in ToSet(list)
  BY <1>1, BinsAreFinite
<1>3. data[id].addr \in Addrs /\ z \in zones /\ Covers(z, id)
  <2>1. data[id].addr \in Addrs /\ \E y \in zones : Covers(y, id)
    BY <1>2 DEF Fits
  <2> QED
    BY <2>1 DEF ZoneOf
<1> HIDE DEF z
<1>4. /\ Sound(u, data) /\ DOMAIN u.bins = DOMAIN t.bins /\ u.events = t.events
      /\ In(u) = In(t) \cup First(list, i - 1) /\ u.nodes = t.nodes \cup First(list, i - 1)
      /\ \A y \in zones : Len(u.bins[y]) <= i - 1
  BY DEF Filled
<1>5. z \in DOMAIN u.bins /\ zones \subseteq DOMAIN u.bins
  BY <1>3, <1>4 DEF Fits
<1>6. /\ Sound(r, data) /\ DOMAIN r.bins = DOMAIN u.bins /\ r.events = u.events
      /\ \A y \in DOMAIN u.bins : y # z => r.bins[y] = u.bins[y]
      /\ Len(r.bins[z]) <= Len(u.bins[z]) + 1
      /\ \/ r = u
         \/ In(r) = In(u) \cup {id} /\ r.nodes = u.nodes \cup {id}
      /\ id \notin In(u) /\ Len(u.bins[z]) < K /\ (\A x \in In(u) : data[x].addr # data[id].addr) => id \in In(r)
  <2>1. r = AddContact(u, data, z, id)
    BY DEF z
  <2> HIDE DEF id
  <2> QED
    BY <2>1, <1>2, <1>3, <1>4, <1>5, AddContactKeeps
<1>7. /\ \A j \in 1 .. i - 1 : j \in 1 .. n /\ j # i
      /\ 1 .. i = (1 .. i - 1) \cup {i} /\ i - 1 + 1 = i /\ i \in Nat /\ i - 1 \in Nat
  BY <1>2
<1>8. First(list, i) = First(list, i - 1) \cup {id} /\ First(list, i - 1) \subseteq ToSet(list)
  BY <1>2, <1>7 DEF First
<1>9. id \notin In(u)
  <2>1. id \notin First(list, i - 1)
    BY <1>1, <1>2, <1>7 DEF First, IsInjective
  <2>2. id \notin In(t)
    BY <1>2 DEF Fits
  <2> QED
    BY <2>1, <2>2, <1>4
<1>10. \A y \in zones : Len(u.bins[y]) \in Nat /\ Len(r.bins[y]) \in Nat
  <2>1. u \in Tables /\ r \in Tables
    BY <1>4, <1>6 DEF Sound
  <2>2. \A y \in zones : u.bins[y] \in Seq(Ids) /\ r.bins[y] \in Seq(Ids)
    BY <2>1, <1>5, <1>6, BinsOfTable
  <2> QED
    BY <2>2, BinsAreFinite
<1>11. Len(u.bins[z]) < K
  <2>1. Len(u.bins[z]) <= i - 1 /\ Len(u.bins[z]) \in Nat /\ K \in Nat
    BY <1>3, <1>4, <1>10, KIsNat
  <2> HIDE DEF n
  <2> QED
    BY <2>1, <1>1, <1>2
<1>12. \A x \in In(u) : data[x].addr # data[id].addr
  <2> SUFFICES ASSUME NEW x \in In(u), data[x].addr = data[id].addr PROVE FALSE
    OBVIOUS
  <2>1. x \in In(t) \cup ToSet(list) /\ id \in In(t) \cup ToSet(list)
    BY <1>2, <1>4, <1>8
  <2>2. x = id
    BY <2>1 DEF Fits
  <2> QED
    BY <2>2, <1>9
<1>13. id \in In(r)
  BY <1>6, <1>9, <1>11, <1>12
<1>14. In(r) = In(u) \cup {id} /\ r.nodes = u.nodes \cup {id}
  BY <1>6, <1>9, <1>13
<1>15. In(r) = In(t) \cup First(list, i) /\ r.nodes = t.nodes \cup First(list, i)
  BY <1>4, <1>8, <1>14
<1>16. ASSUME NEW y \in zones PROVE Len(r.bins[y]) <= i
  <2>1. Len(u.bins[y]) <= i - 1 /\ Len(u.bins[y]) \in Nat /\ Len(r.bins[y]) \in Nat
    BY <1>4, <1>10
  <2>2. Len(r.bins[y]) <= Len(u.bins[y]) + 1
    <3>1. CASE y = z
      BY <3>1, <1>6
    <3>2. CASE y # z
      <4>1. r.bins[y] = u.bins[y]
        BY <3>2, <1>5, <1>6
      <4> QED
        BY <4>1, <2>1
    <3> QED
      BY <3>1, <3>2
  <2> QED
    BY <2>1, <2>2, <1>7
<1> QED
  BY <1>4, <1>6, <1>15, <1>16 DEF Filled

\* All contacts of a list that fits find a place.
LEMMA AddContactsKeep ==
    ASSUME NEW t, NEW data, NEW zones, NEW list, Fits(t, data, zones, list),
           NEW r, r = AddContacts(t, data, zones, list)
    PROVE  /\ Sound(r, data) /\ DOMAIN r.bins = DOMAIN t.bins /\ r.events = t.events
           /\ In(r) = In(t) \cup ToSet(list) /\ r.nodes = t.nodes \cup ToSet(list)
<1> DEFINE n == Len(list)
           G == [i \in 0 .. n |-> {u \in Tables : Filled(u, t, data, zones, list, i)}]
           F == [i \in 1 .. n |-> [u \in Tables |-> AddContact(u, data, ZoneOf(zones, list[i]), list[i])]]
<1>1. n \in Nat /\ DOMAIN list = 1 .. n /\ t \in Tables /\ list \in Seq(Ids)
  BY BinsAreFinite DEF Fits, IsBin, Sound
<1>2. First(list, 0) = {} /\ First(list, n) = ToSet(list)
  BY <1>1 DEF First, ToSet
<1>3. Filled(t, t, data, zones, list, 0)
  <2>1. \A z \in zones : Len(t.bins[z]) <= 0
    BY EmptyBin DEF Fits
  <2> QED
    BY <2>1, <1>2 DEF Filled, Fits
<1>4. \A i \in 1 .. n : i - 1 \in 0 .. n /\ i \in 0 .. n
  BY <1>1
<1>5. ASSUME NEW i \in 1 .. n, NEW u \in G[i - 1]
      PROVE  u \in Tables /\ F[i][u] \in G[i] /\ AddContact(u, data, ZoneOf(zones, list[i]), list[i]) \in G[i]
  <2>1. u \in Tables /\ Filled(u, t, data, zones, list, i - 1)
    BY <1>4
  <2> DEFINE s == AddContact(u, data, ZoneOf(zones, list[i]), list[i])
  <2>2. F[i][u] = s
    BY <2>1
  <2> HIDE DEF F
  <2>3. Filled(s, t, data, zones, list, i)
    BY <2>1, OneMoreFits
  <2>4. s \in Tables
    BY <2>3 DEF Filled, Sound
  <2> HIDE DEF s
  <2>5. s \in G[i]
    BY <2>3, <2>4, <1>4
  <2> HIDE DEF G
  <2> QED
    BY <2>1, <2>2, <2>5 DEF s
<1>6. t \in G[0]
  BY <1>1, <1>3
<1>7. PICK g : IsLoop(g, n, t, F) /\ \A i \in 0 .. n : g[i] \in G[i]
  <2> HIDE DEF F, G, n
  <2> QED
    BY <1>1, <1>5, <1>6, LoopRuns
<1> DEFINE added(f) == [i \in 0 .. n |-> IF i = 0 THEN t
                                         ELSE AddContact(f[i - 1], data, ZoneOf(zones, list[i]), list[i])]
<1>8. g = added(g)
  <2> DEFINE e == [i \in 0 .. n |-> IF i = 0 THEN t ELSE F[i][g[i - 1]]]
             f == added(g)
  <2>1. \A i \in 1 .. n : F[i][g[i - 1]] = AddContact(g[i - 1], data, ZoneOf(zones, list[i]), list[i])
    <3> TAKE i \in 1 .. n
    <3>1. g[i - 1] \in Tables
      BY <1>4, <1>5, <1>7
    <3> QED
      BY <3>1
  <2>2. \A i \in 0 .. n : f[i] = e[i]
    <3> TAKE i \in 0 .. n
    <3>1. i # 0 => i \in 1 .. n
      BY <1>1
    <3> HIDE DEF F
    <3> QED
      BY <3>1, <2>1
  <2>3. f = e
    BY <2>2
  <2> QED
    BY <2>3, <1>7 DEF IsLoop
<1> DEFINE h == CHOOSE h : h = added(h)
<1>9. h = added(h)
  <2> HIDE DEF added
  <2> QED
    BY <1>8
<1>10. r = h[n]
  BY DEF AddContacts
<1> HIDE DEF h
<1>11. h[0] = t /\ \A i \in 1 .. n : h[i] = AddContact(h[i - 1], data, ZoneOf(zones, list[i]), list[i])
  <2>1. \A i \in 0 .. n : h[i] = IF i = 0 THEN t ELSE AddContact(h[i - 1], data, ZoneOf(zones, list[i]), list[i])
    BY <1>9
  <2> HIDE DEF added, n
  <2>2. 0 \in 0 .. n /\ \A i \in 1 .. n : i \in 0 .. n /\ i # 0
    BY <1>1
  <2> QED
    BY <2>1, <2>2
<1>12. \A i \in 0 .. n : h[i] \in G[i]
  <2> HIDE DEF F, G, n, added
  <2>1. h[0] \in G[0] /\ \A i \in 1 .. n : h[i - 1] \in G[i - 1] => h[i] \in G[i]
    BY <1>5, <1>6, <1>11
  <2> QED
    BY <2>1, <1>1, LoopStays
<1>13. Filled(r, t, data, zones, list, n)
  <2>1. n \in 0 .. n
    BY <1>1
  <2> HIDE DEF n
  <2> QED
    BY <2>1, <1>10, <1>12
<1> QED
  BY <1>13, <1>2 DEF Filled

----------------------------------------------------------------------------
(* Splits and merges.                                                      *)

\* The halves of a zone.
Low(z) == <<z[1] + 1, 2 * z[2]>>
High(z) == <<z[1] + 1, 2 * z[2] + 1>>

\* Two leaves cover no distance both.
LEMMA LeavesAreApart ==
    ASSUME NEW D \in SUBSET Zones, Tiled(D), NEW y \in D, NEW z \in D, NEW d \in Distances,
           Covers(y, d), Covers(z, d)
    PROVE  y = z
BY DEF Tiled

\* Leaves still divide the distances when the halves of one take its place,
LEMMA HalvesTile ==
    ASSUME NEW D \in SUBSET Zones, Tiled(D), NEW z \in D, z[1] # Bits, NEW a, NEW b,
           a = <<z[1] + 1, 2 * z[2]>>, b = <<z[1] + 1, 2 * z[2] + 1>>
    PROVE  /\ a \in Zones /\ b \in Zones /\ a \notin D /\ b \notin D
           /\ Tiled((D \cup {a, b}) \ {z})
           /\ \A d \in Distances : Covers(z, d) => Covers(a, d) \/ Covers(b, d)
<1>1. z \in Zones /\ z \in (0 .. Bits) \X Nat
  BY DEF Zones
<1>2. /\ a \in Zones /\ b \in Zones /\ a # b
      /\ \A d \in Nat : /\ Covers(z, d) <=> Covers(a, d) \/ Covers(b, d)
                        /\ ~ (Covers(a, d) /\ Covers(b, d))
  BY <1>1, HalvesCover
<1>3. \A d \in Distances : d \in Nat
  BY RootIsAll
<1>4. a # z /\ b # z
  <2>1. z[1] \in Int /\ a[1] = z[1] + 1 /\ b[1] = z[1] + 1
    BY <1>1, WidthsHalve
  <2>2. z[1] + 1 # z[1]
    BY <2>1
  <2> QED
    BY <2>1, <2>2
<1>5. a \notin D /\ b \notin D
  <2>1. ASSUME NEW c \in {a, b}, c \in D PROVE FALSE
    <3>1. PICK d \in Distances : Covers(c, d)
      BY <1>2, ZonesCover
    <3>2. Covers(z, d)
      BY <3>1, <1>2, <1>3
    <3> QED
      BY <3>1, <3>2, <2>1, <1>4, LeavesAreApart
  <2> QED
    BY <2>1
<1>6. Tiled((D \cup {a, b}) \ {z})
  <2> SUFFICES ASSUME NEW d \in Distances
               PROVE  \E y \in (D \cup {a, b}) \ {z} :
                         Covers(y, d) /\ \A x \in (D \cup {a, b}) \ {z} : Covers(x, d) => x = y
    BY DEF Tiled
  <2>1. PICK y \in D : Covers(y, d) /\ \A x \in D : Covers(x, d) => x = y
    BY DEF Tiled
  <2>2. d \in Nat
    BY <1>3
  <2>3. CASE y = z
    <3>1. \A x \in D : x # z => ~ Covers(x, d)
      BY <2>1, <2>3
    <3>2. CASE Covers(a, d)
      <4>1. ~ Covers(b, d)
        BY <3>2, <1>2, <2>2
      <4>2. \A x \in (D \cup {a, b}) \ {z} : Covers(x, d) => x = a
        BY <3>1, <4>1
      <4> QED
        BY <3>2, <4>2, <1>4
    <3>3. CASE Covers(b, d)
      <4>1. ~ Covers(a, d)
        BY <3>3, <1>2, <2>2
      <4>2. \A x \in (D \cup {a, b}) \ {z} : Covers(x, d) => x = b
        BY <3>1, <4>1
      <4> QED
        BY <3>3, <4>2, <1>4
    <3> QED
      BY <3>2, <3>3, <2>1, <2>2, <2>3, <1>2
  <2>4. CASE y # z
    <3>1. ~ Covers(z, d)
      BY <2>1, <2>4
    <3>2. ~ Covers(a, d) /\ ~ Covers(b, d)
      BY <3>1, <2>2, <1>2
    <3> QED
      BY <2>1, <2>4, <3>2
  <2> QED
    BY <2>3, <2>4
<1> QED
  BY <1>2, <1>3, <1>5, <1>6

\* and when a zone takes the place of its halves.
LEMMA ParentTiles ==
    ASSUME NEW D \in SUBSET Zones, Tiled(D), NEW z, z \in (0 .. Bits) \X Nat, z[1] # Bits, NEW a \in D, NEW b \in D,
           a = Low(z), b = High(z)
    PROVE  /\ z \in Zones /\ z \notin D /\ a # b
           /\ Tiled((D \ {a, b}) \cup {z})
           /\ \A d \in Distances : Covers(a, d) \/ Covers(b, d) => Covers(z, d)
<1>1. a = <<z[1] + 1, 2 * z[2]>> /\ b = <<z[1] + 1, 2 * z[2] + 1>>
  BY DEF Low, High
<1>2. /\ z \in Zones /\ a # b
      /\ \A d \in Nat : /\ Covers(z, d) <=> Covers(a, d) \/ Covers(b, d)
                        /\ ~ (Covers(a, d) /\ Covers(b, d))
  BY <1>1, HalvesCover
<1>3. \A d \in Distances : d \in Nat
  BY RootIsAll
<1>4. a # z /\ b # z
  <2>1. z[1] \in Int /\ a[1] = z[1] + 1 /\ b[1] = z[1] + 1
    BY <1>1, WidthsHalve
  <2>2. z[1] + 1 # z[1]
    BY <2>1
  <2> QED
    BY <2>1, <2>2
<1>5. z \notin D
  <2> SUFFICES ASSUME z \in D PROVE FALSE
    OBVIOUS
  <2>1. PICK d \in Distances : Covers(a, d)
    BY ZonesCover
  <2>2. Covers(z, d)
    BY <2>1, <1>2, <1>3
  <2> QED
    BY <2>1, <2>2, <1>4, LeavesAreApart
<1>6. Tiled((D \ {a, b}) \cup {z})
  <2> SUFFICES ASSUME NEW d \in Distances
               PROVE  \E y \in (D \ {a, b}) \cup {z} :
                         Covers(y, d) /\ \A x \in (D \ {a, b}) \cup {z} : Covers(x, d) => x = y
    BY DEF Tiled
  <2>1. PICK y \in D : Covers(y, d) /\ \A x \in D : Covers(x, d) => x = y
    BY DEF Tiled
  <2>2. d \in Nat
    BY <1>3
  <2>3. CASE y \in {a, b}
    <3>1. Covers(z, d)
      BY <2>1, <2>2, <2>3, <1>2
    <3>2. \A x \in D \ {a, b} : ~ Covers(x, d)
      BY <2>1, <2>3
    <3> QED
      BY <3>1, <3>2
  <2>4. CASE y \notin {a, b}
    <3>1. ~ Covers(a, d) /\ ~ Covers(b, d)
      BY <2>1, <2>4
    <3>2. ~ Covers(z, d)
      BY <3>1, <2>2, <1>2
    <3> QED
      BY <2>1, <2>4, <3>2
  <2> QED
    BY <2>3, <2>4
<1> QED
  BY <1>2, <1>3, <1>5, <1>6

\* Ids are distances.
LEMMA IdsAreDistances == \A id \in Ids : id \in Distances
BY RoutingAssumption

\* Split loses no contact: both halves have room for what they get.
LEMMA SplitKeeps ==
    ASSUME NEW t, NEW data, Good(t, data), NEW z \in DOMAIN t.bins, z[1] # Bits, NEW r, r = Split(t, data, z)
    PROVE  Good(r, data) /\ In(r) = In(t)
<1> DEFINE D == DOMAIN t.bins
           bin == t.bins[z]
           a == <<z[1] + 1, 2 * z[2]>>
           b == <<z[1] + 1, 2 * z[2] + 1>>
           S == SubZones(z)
           t1 == StopTimers(t, {z})
           t2 == NewZones(t1, S)
           t3 == DeleteBins(t2, data, {z})
<1>0. r = AddContacts(t3, data, S, bin)
  BY DEF Split
<1>1. S = {a, b}
  BY DEF SubZones
<1>2. Sound(t, data) /\ t \in Tables /\ Tiled(D) /\ t.events = D /\ t.nodes = In(t) /\ D \subseteq Zones
  BY BinsOfTable DEF Good, Sound
<1>3. /\ a \in Zones /\ b \in Zones /\ a \notin D /\ b \notin D
      /\ Tiled((D \cup {a, b}) \ {z})
      /\ \A d \in Distances : Covers(z, d) => Covers(a, d) \/ Covers(b, d)
  <2>1. a = <<z[1] + 1, 2 * z[2]>> /\ b = <<z[1] + 1, 2 * z[2] + 1>> /\ z \in D
    OBVIOUS
  <2> HIDE DEF a, b, D
  <2> QED
    BY <2>1, <1>2, HalvesTile
<1> HIDE DEF a, b, S, bin
<1>4. /\ Sound(t1, data) /\ In(t1) = In(t) /\ t1.nodes = t.nodes /\ t1.bins = t.bins
      /\ t1.events = D \ {z}
  <2> DEFINE x == t1
  <2>1. x = StopTimers(t, {z})
    OBVIOUS
  <2> HIDE DEF x
  <2>2. /\ Sound(x, data) /\ In(x) = In(t) /\ x.nodes = t.nodes /\ x.bins = t.bins
        /\ x.events = t.events \ {z}
    BY <2>1, <1>2, StopTimersKeeps
  <2> QED
    BY <2>2, <1>2 DEF x
<1> HIDE DEF t1
<1>5. /\ Sound(t2, data) /\ In(t2) = In(t1) /\ t2.nodes = t1.nodes
      /\ DOMAIN t2.bins = DOMAIN t1.bins \cup S /\ t2.events = t1.events \cup S
      /\ \A y \in S : t2.bins[y] = <<>>
      /\ \A y \in DOMAIN t1.bins : t2.bins[y] = t1.bins[y]
  <2> DEFINE x == t2
  <2>1. x = NewZones(t1, S)
    OBVIOUS
  <2>2. S \in SUBSET Zones /\ S \cap DOMAIN t1.bins = {}
    BY <1>1, <1>3, <1>4
  <2> HIDE DEF x
  <2>3. /\ Sound(x, data) /\ In(x) = In(t1) /\ x.nodes = t1.nodes
        /\ DOMAIN x.bins = DOMAIN t1.bins \cup S /\ x.events = t1.events \cup S
        /\ \A y \in S : x.bins[y] = <<>>
        /\ \A y \in DOMAIN t1.bins : x.bins[y] = t1.bins[y]
    BY <2>1, <2>2, <1>4, NewZonesKeep
  <2> QED
    BY <2>3 DEF x
<1> HIDE DEF t2
<1>6. /\ Sound(t3, data) /\ In(t3) = In(t2) \ Within(t2, {z}) /\ t3.nodes = t2.nodes /\ t3.events = t2.events
      /\ DOMAIN t3.bins = DOMAIN t2.bins \ {z}
      /\ \A y \in DOMAIN t3.bins : t3.bins[y] = t2.bins[y]
      /\ Within(t2, {z}) \subseteq In(t2)
  <2> DEFINE x == t3
  <2>1. x = DeleteBins(t2, data, {z})
    OBVIOUS
  <2>2. {z} \subseteq DOMAIN t2.bins
    BY <1>4, <1>5
  <2> HIDE DEF x
  <2>3. /\ Sound(x, data) /\ In(x) = In(t2) \ Within(t2, {z}) /\ x.nodes = t2.nodes /\ x.events = t2.events
        /\ DOMAIN x.bins = DOMAIN t2.bins \ {z}
        /\ \A y \in DOMAIN x.bins : x.bins[y] = t2.bins[y]
        /\ Within(t2, {z}) \subseteq In(t2)
    BY <2>1, <2>2, <1>5, DeleteBinsKeep
  <2> QED
    BY <2>3 DEF x
<1> HIDE DEF t3
<1>7. Within(t2, {z}) = ToSet(bin)
  <2>1. t2.bins[z] = bin
    BY <1>4, <1>5 DEF bin
  <2> QED
    BY <2>1 DEF Within
<1>8. IsBin(bin) /\ Len(bin) <= K /\ ToSet(bin) \subseteq In(t) /\ \A id \in ToSet(bin) : Covers(z, id) /\ id \in Ids
  BY <1>2, BinsOfTable DEF Sound, Placed, bin
<1>9. Books(In(t), data, t.tracked)
  BY <1>2 DEF Sound
<1>10. Fits(t3, data, S, bin)
  <2>1. Sound(t3, data)
    BY <1>6
  <2>2. z \notin S
    BY <1>1, <1>3
  <2>3. S \subseteq DOMAIN t3.bins /\ \A y \in S : t3.bins[y] = <<>>
    BY <2>2, <1>5, <1>6
  <2>4. In(t3) = In(t) \ ToSet(bin)
    BY <1>4, <1>5, <1>6, <1>7
  <2>5. \A id \in ToSet(bin) : data[id].addr \in Addrs
    BY <1>8, <1>9 DEF Books
  <2>6. \A id \in ToSet(bin) : \E y \in S : Covers(y, id)
    BY <1>1, <1>3, <1>8, IdsAreDistances
  <2>7. In(t3) \cup ToSet(bin) = In(t)
    BY <2>4, <1>8
  <2>8. \A x, y \in In(t3) \cup ToSet(bin) : data[x].addr = data[y].addr => x = y
    BY <2>7, <1>9 DEF Books
  <2>9. ToSet(bin) \cap In(t3) = {}
    BY <2>4
  <2> QED
    BY <2>1, <2>3, <2>5, <2>6, <2>8, <2>9, <1>8 DEF Fits
<1>11. /\ Sound(r, data) /\ DOMAIN r.bins = DOMAIN t3.bins /\ r.events = t3.events
       /\ In(r) = In(t3) \cup ToSet(bin) /\ r.nodes = t3.nodes \cup ToSet(bin)
  BY <1>0, <1>10, AddContactsKeep
<1>12. In(r) = In(t) /\ r.nodes = In(t)
  BY <1>2, <1>4, <1>5, <1>6, <1>7, <1>8, <1>11
<1>13. DOMAIN r.bins = (D \cup {a, b}) \ {z} /\ r.events = DOMAIN r.bins
  BY <1>1, <1>3, <1>4, <1>5, <1>6, <1>11
<1> QED
  BY <1>3, <1>11, <1>12, <1>13 DEF Good

\* Merge loses no contact, as two mergeable leaves have room in one.
LEMMA MergeKeeps ==
    ASSUME NEW t, NEW data, Good(t, data), NEW z \in (0 .. Bits) \X Nat, z[1] # Bits, Mergeable(t, z),
           NEW r, r = Merge(t, data, z)
    PROVE  Good(r, data) /\ In(r) = In(t)
<1> DEFINE D == DOMAIN t.bins
           a == <<z[1] + 1, 2 * z[2]>>
           b == <<z[1] + 1, 2 * z[2] + 1>>
           list == t.bins[a] \o t.bins[b]
           S == SubZones(z)
           t1 == StopTimers(t, S)
           t2 == DeleteBins(t1, data, S)
           t3 == NewZones(t2, {z})
<1>0. r = AddContacts(t3, data, {z}, list)
  BY DEF Merge
<1>1. S = {a, b}
  BY DEF SubZones
<1>2. Sound(t, data) /\ t \in Tables /\ Tiled(D) /\ t.events = D /\ t.nodes = In(t) /\ D \subseteq Zones
  BY BinsOfTable DEF Good, Sound
<1> DEFINE n == Len(t.bins[a])
           m == Len(t.bins[b])
<1> HIDE DEF S
<1>20. a \in D /\ b \in D /\ (n + m < K \div 2 \/ m + n < K \div 2)
  <2>1. PICK p \in S, q \in S : /\ p # q /\ IsLeaf(t, p) /\ IsLeaf(t, q)
                                /\ Len(t.bins[p]) + Len(t.bins[q]) < K \div 2
    BY DEF Mergeable, S
  <2> HIDE DEF a, b
  <2>2. (p = a /\ q = b) \/ (p = b /\ q = a)
    BY <2>1, <1>1
  <2> QED
    BY <2>1, <2>2 DEF IsLeaf
<1>3. /\ z \in Zones /\ z \notin D /\ a # b
      /\ Tiled((D \ {a, b}) \cup {z})
      /\ \A d \in Distances : Covers(a, d) \/ Covers(b, d) => Covers(z, d)
  <2>1. a = Low(z) /\ b = High(z)
    BY DEF Low, High
  <2>2. a \in D /\ b \in D /\ Tiled(D) /\ D \in SUBSET Zones
    BY <1>2, <1>20
  <2> HIDE DEF a, b, D, n, m
  <2> QED
    BY <2>1, <2>2, ParentTiles
<1> HIDE DEF a, b, list
<1>4. /\ Sound(t1, data) /\ In(t1) = In(t) /\ t1.nodes = t.nodes /\ t1.bins = t.bins
      /\ t1.events = D \ S
  <2> DEFINE x == t1
  <2>1. x = StopTimers(t, S)
    OBVIOUS
  <2> HIDE DEF x
  <2>2. /\ Sound(x, data) /\ In(x) = In(t) /\ x.nodes = t.nodes /\ x.bins = t.bins
        /\ x.events = t.events \ S
    BY <2>1, <1>2, StopTimersKeeps
  <2> QED
    BY <2>2, <1>2 DEF x
<1> HIDE DEF t1
<1>5. /\ Sound(t2, data) /\ In(t2) = In(t1) \ Within(t1, S) /\ t2.nodes = t1.nodes /\ t2.events = t1.events
      /\ DOMAIN t2.bins = DOMAIN t1.bins \ S
      /\ Within(t1, S) \subseteq In(t1)
  <2> DEFINE x == t2
  <2>1. x = DeleteBins(t1, data, S)
    OBVIOUS
  <2>2. S \subseteq DOMAIN t1.bins
    BY <1>1, <1>4, <1>20
  <2> HIDE DEF x
  <2>3. /\ Sound(x, data) /\ In(x) = In(t1) \ Within(t1, S) /\ x.nodes = t1.nodes /\ x.events = t1.events
        /\ DOMAIN x.bins = DOMAIN t1.bins \ S
        /\ Within(t1, S) \subseteq In(t1)
    BY <2>1, <2>2, <1>4, DeleteBinsKeep
  <2> QED
    BY <2>3 DEF x
<1> HIDE DEF t2
<1>6. /\ Sound(t3, data) /\ In(t3) = In(t2) /\ t3.nodes = t2.nodes
      /\ DOMAIN t3.bins = DOMAIN t2.bins \cup {z} /\ t3.events = t2.events \cup {z}
      /\ t3.bins[z] = <<>>
  <2> DEFINE x == t3
             Z == {z}
  <2>1. x = NewZones(t2, Z)
    OBVIOUS
  <2>2. Z \in SUBSET Zones /\ Z \cap DOMAIN t2.bins = {}
    BY <1>3, <1>4, <1>5
  <2> HIDE DEF x, Z
  <2>3. /\ Sound(x, data) /\ In(x) = In(t2) /\ x.nodes = t2.nodes
        /\ DOMAIN x.bins = DOMAIN t2.bins \cup Z /\ x.events = t2.events \cup Z
        /\ \A y \in Z : x.bins[y] = <<>>
    BY <2>1, <2>2, <1>5, NewZonesKeep
  <2> QED
    BY <2>3 DEF x, Z
<1> HIDE DEF t3
<1>7. /\ \A y \in {a, b} : IsBin(t.bins[y]) /\ t.bins[y] \in Seq(Ids) /\ Len(t.bins[y]) \in Nat
      /\ \A y \in {a, b} : ToSet(t.bins[y]) \subseteq In(t)
      /\ \A y \in {a, b} : \A id \in ToSet(t.bins[y]) : Covers(y, id) /\ id \in Ids
  <2>1. \A y \in D : /\ IsBin(t.bins[y]) /\ t.bins[y] \in Seq(Ids)
                     /\ ToSet(t.bins[y]) \subseteq In(t)
                     /\ \A id \in ToSet(t.bins[y]) : Covers(y, id)
    BY <1>2, BinsOfTable DEF Sound, Placed
  <2>2. \A y \in D : Len(t.bins[y]) \in Nat /\ ToSet(t.bins[y]) \subseteq Ids
    BY <2>1, BinsAreFinite
  <2> QED
    BY <2>1, <2>2, <1>20
<1>8. ToSet(t.bins[a]) \cap ToSet(t.bins[b]) = {}
  BY <1>2, <1>3, <1>20 DEF Sound, Once
<1>9. IsBin(list) /\ Len(list) = n + m /\ ToSet(list) = ToSet(t.bins[a]) \cup ToSet(t.bins[b])
  <2> DEFINE u == t.bins[a]
             v == t.bins[b]
  <2>1. IsBin(u) /\ IsBin(v) /\ ToSet(u) \cap ToSet(v) = {} /\ list = u \o v
    BY <1>7, <1>8 DEF list
  <2> HIDE DEF u, v
  <2>2. IsBin(list) /\ Len(list) = Len(u) + Len(v) /\ ToSet(list) = ToSet(u) \cup ToSet(v)
    BY <2>1, ConcatBin
  <2> QED
    BY <2>2 DEF u, v
<1>10. Len(list) <= K
  <2>1. n \in Nat /\ m \in Nat /\ K \in Nat
    BY <1>7, KIsNat
  <2> DEFINE h == K \div 2
  <2>2. h <= K /\ h \in Nat
    BY <2>1
  <2>3. n + m < h \/ m + n < h
    BY <1>20
  <2>4. Len(list) = n + m
    BY <1>9
  <2> HIDE DEF n, m, h
  <2> QED
    BY <2>1, <2>2, <2>3, <2>4
<1>11. Within(t1, S) = ToSet(list)
  <2>1. Within(t1, S) = UNION {ToSet(t.bins[y]) : y \in {a, b}}
    BY <1>1, <1>4 DEF Within
  <2>2. Within(t1, S) = ToSet(t.bins[a]) \cup ToSet(t.bins[b])
    BY <2>1
  <2> QED
    BY <2>2, <1>9
<1>12. Books(In(t), data, t.tracked)
  BY <1>2 DEF Sound
<1>13. In(t3) = In(t) \ ToSet(list) /\ ToSet(list) \subseteq In(t)
  BY <1>4, <1>5, <1>6, <1>11
<1>14. Fits(t3, data, {z}, list)
  <2>1. {z} \subseteq DOMAIN t3.bins /\ \A y \in {z} : t3.bins[y] = <<>>
    BY <1>6
  <2>2. \A id \in ToSet(list) : data[id].addr \in Addrs
    BY <1>12, <1>13 DEF Books
  <2>3. \A id \in ToSet(list) : \E y \in {z} : Covers(y, id)
    BY <1>3, <1>7, <1>9, IdsAreDistances
  <2>4. In(t3) \cup ToSet(list) = In(t) /\ ToSet(list) \cap In(t3) = {}
    BY <1>13
  <2>5. \A x, y \in In(t3) \cup ToSet(list) : data[x].addr = data[y].addr => x = y
    BY <2>4, <1>12 DEF Books
  <2> QED
    BY <2>1, <2>2, <2>3, <2>4, <2>5, <1>6, <1>9, <1>10 DEF Fits
<1>15. /\ Sound(r, data) /\ DOMAIN r.bins = DOMAIN t3.bins /\ r.events = t3.events
       /\ In(r) = In(t3) \cup ToSet(list) /\ r.nodes = t3.nodes \cup ToSet(list)
  BY <1>0, <1>14, AddContactsKeep
<1>16. In(r) = In(t) /\ r.nodes = In(t)
  BY <1>2, <1>4, <1>5, <1>6, <1>13, <1>15
<1>17. DOMAIN r.bins = (D \ {a, b}) \cup {z} /\ r.events = DOMAIN r.bins
  BY <1>1, <1>4, <1>5, <1>6, <1>15
<1> QED
  BY <1>3, <1>15, <1>16, <1>17 DEF Good

\* The leaf of an id, and the contact in it if the table knows it.
LEMMA LeafIs ==
    ASSUME NEW t, NEW data, Good(t, data), NEW id \in Ids
    PROVE  /\ Leaf(t, id) \in DOMAIN t.bins /\ Covers(Leaf(t, id), id)
           /\ IsKnown(t, id) <=> id \in In(t)
           /\ id \in ToSet(t.bins[Leaf(t, id)]) <=> id \in In(t)
<1> DEFINE z == Leaf(t, id)
<1>1. Sound(t, data) /\ t \in Tables /\ Tiled(DOMAIN t.bins) /\ DOMAIN t.bins \subseteq Zones /\ id \in Distances
  BY BinsOfTable, IdsAreDistances DEF Good, Sound
<1>2. \E y \in DOMAIN t.bins : Covers(y, id)
  BY <1>1 DEF Tiled
<1>3. z \in DOMAIN t.bins /\ Covers(z, id)
  BY <1>2 DEF Leaf, ZoneOf
<1> HIDE DEF z
<1>4. id \in ToSet(t.bins[z]) <=> id \in In(t)
  <2>1. id \in ToSet(t.bins[z]) => id \in In(t)
    BY <1>1, <1>3, BinsOfTable
  <2>2. ASSUME id \in In(t) PROVE id \in ToSet(t.bins[z])
    <3>1. PICK y \in DOMAIN t.bins : id \in ToSet(t.bins[y])
      BY <2>2, <1>1, BinsOfTable
    <3>2. Covers(y, id)
      BY <3>1, <1>1 DEF Sound, Placed
    <3>3. y = z
      BY <3>1, <3>2, <1>1, <1>3, LeavesAreApart
    <3> QED
      BY <3>1, <3>3
  <2> QED
    BY <2>1, <2>2
<1>5. IsKnown(t, id) <=> id \in ToSet(t.bins[z])
  <2>1. t.bins[z] \in Seq(Ids)
    BY <1>1, <1>3, BinsOfTable
  <2>2. Contains(t.bins[z], id) <=> id \in ToSet(t.bins[z])
    BY <2>1, BinsAreFinite
  <2> QED
    BY <2>2 DEF IsKnown, z
<1> QED
  BY <1>3, <1>4, <1>5 DEF z

\* One turn of the loop of MakeRoom,
Opened(u, data, id, level) ==
    LET z == Leaf(u, id)
    IN IF z[1] = level - 1 /\ CanSplit(u, z) THEN Split(u, data, z) ELSE u

\* One turn of the loop that makes room.
LEMMA OpenedKeeps ==
    ASSUME NEW u, NEW data, Good(u, data), NEW id \in Ids, NEW level \in 1 .. Bits,
           NEW r, r = Opened(u, data, id, level)
    PROVE  Good(r, data) /\ In(r) = In(u)
<1> DEFINE z == Leaf(u, id)
<1>1. z \in DOMAIN u.bins
  BY LeafIs
<1>2. r = u \/ (z[1] = level - 1 /\ r = Split(u, data, z))
  BY DEF Opened
<1> HIDE DEF z
<1>3. level - 1 # Bits
  BY WidthsHalve
<1>4. CASE r = u
  BY <1>4
<1>5. CASE z[1] = level - 1 /\ r = Split(u, data, z)
  <2>1. z[1] # Bits
    BY <1>3, <1>5
  <2> QED
    BY <2>1, <1>1, <1>5, SplitKeeps
<1> QED
  BY <1>2, <1>4, <1>5

\* Splits make room for a new contact and lose none.
LEMMA MakeRoomKeeps ==
    ASSUME NEW t, NEW data, Good(t, data), NEW id \in Ids, NEW r, r = MakeRoom(t, data, id)
    PROVE  Good(r, data) /\ In(r) = In(t)
<1> DEFINE S == {u \in Tables : Good(u, data) /\ In(u) = In(t)}
           G == [i \in 0 .. Bits |-> S]
           F == [i \in 1 .. Bits |-> [u \in S |-> Opened(u, data, id, i)]]
<1>1. Bits \in Nat /\ t \in S
  BY WidthsHalve DEF Good, Sound
<1>4. \A i \in 1 .. Bits : i - 1 \in 0 .. Bits /\ i \in 0 .. Bits
  BY <1>1
<1>5. ASSUME NEW i \in 1 .. Bits, NEW u \in G[i - 1]
      PROVE  u \in S /\ F[i][u] \in G[i] /\ Opened(u, data, id, i) \in G[i]
  <2>1. u \in S
    BY <1>4
  <2> DEFINE s == Opened(u, data, id, i)
  <2>2. F[i][u] = s
    BY <2>1
  <2> HIDE DEF F
  <2>3. Good(s, data) /\ In(s) = In(u)
    BY <2>1, OpenedKeeps
  <2>4. s \in Tables
    BY <2>3 DEF Good, Sound
  <2> HIDE DEF s
  <2>5. s \in G[i]
    BY <2>1, <2>3, <2>4, <1>4
  <2> HIDE DEF G, S
  <2> QED
    BY <2>1, <2>2, <2>5 DEF s
<1>6. t \in G[0]
  BY <1>1
<1>7. PICK g : IsLoop(g, Bits, t, F) /\ \A i \in 0 .. Bits : g[i] \in G[i]
  <2> HIDE DEF F, G, S
  <2> QED
    BY <1>1, <1>5, <1>6, LoopRuns
<1> DEFINE room(f) == [level \in 0 .. Bits |-> IF level = 0 THEN t ELSE Opened(f[level - 1], data, id, level)]
<1>8. g = room(g)
  <2> DEFINE e == [i \in 0 .. Bits |-> IF i = 0 THEN t ELSE F[i][g[i - 1]]]
             f == room(g)
  <2>1. \A i \in 1 .. Bits : F[i][g[i - 1]] = Opened(g[i - 1], data, id, i)
    <3> TAKE i \in 1 .. Bits
    <3>1. g[i - 1] \in S
      <4> HIDE DEF S, F
      <4> QED
        BY <1>4, <1>7
    <3> HIDE DEF S
    <3> QED
      BY <3>1
  <2>2. \A i \in 0 .. Bits : f[i] = e[i]
    <3> TAKE i \in 0 .. Bits
    <3>1. i # 0 => i \in 1 .. Bits
      BY <1>1
    <3> HIDE DEF F
    <3> QED
      BY <3>1, <2>1
  <2>3. f = e
    <3> HIDE DEF F
    <3> QED
      BY <2>2
  <2> QED
    BY <2>3, <1>7 DEF IsLoop
<1> DEFINE h == CHOOSE h : h = room(h)
<1>9. h = room(h)
  <2> HIDE DEF room
  <2> QED
    BY <1>8
<1>10. r = h[Bits]
  BY DEF MakeRoom, Opened
<1> HIDE DEF h
<1>11. h[0] = t /\ \A i \in 1 .. Bits : h[i] = Opened(h[i - 1], data, id, i)
  <2>1. \A i \in 0 .. Bits : h[i] = IF i = 0 THEN t ELSE Opened(h[i - 1], data, id, i)
    BY <1>9
  <2> HIDE DEF room
  <2>2. 0 \in 0 .. Bits /\ \A i \in 1 .. Bits : i \in 0 .. Bits /\ i # 0
    BY <1>1
  <2> QED
    BY <2>1, <2>2
<1>12. \A i \in 0 .. Bits : h[i] \in G[i]
  <2> HIDE DEF F, G, room, S
  <2>1. h[0] \in G[0] /\ \A i \in 1 .. Bits : h[i - 1] \in G[i - 1] => h[i] \in G[i]
    BY <1>5, <1>6, <1>11
  <2> QED
    BY <2>1, <1>1, LoopStays
<1>13. r \in S
  <2> HIDE DEF F, S
  <2>1. Bits \in 0 .. Bits
    BY <1>1
  <2> QED
    BY <2>1, <1>10, <1>12
<1> QED
  BY <1>13

\* A number lies between two powers of two.
LEMMA LevelExists ==
    ASSUME NEW n \in 1 .. (Pow2[Bits] - 1)
    PROVE  \E l \in 0 .. (Bits - 1) : Pow2[l] <= n /\ n < Pow2[l + 1]
<1> DEFINE M == {m \in 0 .. Bits : n < Pow2[m]}
<1>1. Bits \in Nat /\ Pow2[Bits] \in Nat
  BY WidthsHalve
<1>2. Bits \in M /\ M \in SUBSET Nat
  BY <1>1
<1>3. PICK m \in M : \A k \in M : m <= k
  <2> HIDE DEF M
  <2> QED
    BY <1>2, SmallestOne
<1>4. m \in 0 .. Bits /\ n < Pow2[m] /\ n \in Nat /\ n >= 1
  BY <1>1
<1>5. m # 0
  BY <1>4, PowersDouble
<1>6. m - 1 \in 0 .. Bits /\ ~ (m <= m - 1) /\ m - 1 \in 0 .. (Bits - 1) /\ (m - 1) + 1 = m
  BY <1>1, <1>4, <1>5
<1>7. m - 1 \notin M
  <2> HIDE DEF M
  <2> QED
    BY <1>3, <1>6
<1>8. ~ (n < Pow2[m - 1]) /\ Pow2[m - 1] \in Nat
  BY <1>6, <1>7, PowersDouble
<1>9. Pow2[m - 1] <= n
  <2> DEFINE p == Pow2[m - 1]
  <2> HIDE DEF p, M
  <2>1. p <= n
    BY <1>8, <1>4 DEF p
  <2> QED
    BY <2>1 DEF p
<1> QED
  BY <1>4, <1>6, <1>9

\* The zones that Consolidate looks at have halves.
LEMMA InnerZonesAreZones ==
    /\ Len(InnerZones) \in Nat
    /\ \A i \in 1 .. Len(InnerZones) : InnerZones[i] \in (0 .. Bits) \X Nat /\ InnerZones[i][1] # Bits
<1> DEFINE level(n) == CHOOSE l \in 0 .. (Bits - 1) : Pow2[l] <= n /\ n < Pow2[l + 1]
           last == Pow2[Bits] - 1
           zone(n) == <<level(n), n - Pow2[level(n)]>>
<1>1. last \in Nat /\ Bits \in Nat
  BY WidthsHalve
<1>2. InnerZones = [i \in 1 .. last |-> zone(last + 1 - i)]
  BY DEF InnerZones
<1>3. ASSUME NEW n \in 1 .. last
      PROVE  zone(n) \in (0 .. Bits) \X Nat /\ zone(n)[1] # Bits
  <2> DEFINE l == level(n)
  <2>1. l \in 0 .. (Bits - 1) /\ Pow2[l] <= n /\ n < Pow2[l + 1]
    BY LevelExists
  <2> HIDE DEF l
  <2>2. l \in 0 .. Bits /\ l # Bits
    BY <2>1, <1>1
  <2>3. Pow2[l] \in Nat
    BY <2>2, PowersDouble
  <2> DEFINE p == Pow2[l]
  <2>4. p \in Nat /\ p <= n /\ n \in Nat
    BY <2>1, <2>3, <1>1
  <2> HIDE DEF p
  <2>5. n - p \in Nat
    BY <2>4
  <2>6. zone(n) = <<l, n - p>>
    BY DEF l, p
  <2> HIDE DEF level, zone
  <2> QED
    BY <2>2, <2>5, <2>6
<1> HIDE DEF zone, level, last
<1>4. Len(InnerZones) = last
  BY <1>1, <1>2
<1>5. ASSUME NEW i \in 1 .. last PROVE InnerZones[i] \in (0 .. Bits) \X Nat /\ InnerZones[i][1] # Bits
  <2>1. last + 1 - i \in 1 .. last
    BY <1>1
  <2>2. InnerZones[i] = zone(last + 1 - i)
    BY <1>2
  <2> QED
    BY <2>1, <2>2, <1>3
<1> QED
  BY <1>1, <1>4, <1>5

\* of Consolidated,
Joined(u, data, z) == IF Mergeable(u, z) THEN Merge(u, data, z) ELSE u

\* One turn of the loop that merges.
LEMMA JoinedKeeps ==
    ASSUME NEW u, NEW data, Good(u, data), NEW z \in (0 .. Bits) \X Nat, z[1] # Bits, NEW r, r = Joined(u, data, z)
    PROVE  Good(r, data) /\ In(r) = In(u)
<1>1. CASE Mergeable(u, z)
  BY <1>1, MergeKeeps DEF Joined
<1>2. CASE ~ Mergeable(u, z)
  BY <1>2 DEF Joined
<1> QED
  BY <1>1, <1>2

\* Consolidate loses no contact.
LEMMA ConsolidatedKeeps ==
    ASSUME NEW t, NEW data, Good(t, data), NEW r, r = Consolidated(t, data)
    PROVE  Good(r, data) /\ In(r) = In(t)
<1> DEFINE n == Len(InnerZones)
           S == {u \in Tables : Good(u, data) /\ In(u) = In(t)}
           G == [i \in 0 .. n |-> S]
           F == [i \in 1 .. n |-> [u \in S |-> Joined(u, data, InnerZones[i])]]
<1>0. \A i \in 1 .. n : InnerZones[i] \in (0 .. Bits) \X Nat /\ InnerZones[i][1] # Bits
  BY InnerZonesAreZones
<1>1. n \in Nat /\ t \in S
  BY InnerZonesAreZones DEF Good, Sound
<1> HIDE DEF n
<1>4. \A i \in 1 .. n : i - 1 \in 0 .. n /\ i \in 0 .. n
  BY <1>1
<1>5. ASSUME NEW i \in 1 .. n, NEW u \in G[i - 1]
      PROVE  u \in S /\ F[i][u] \in G[i] /\ Joined(u, data, InnerZones[i]) \in G[i]
  <2>1. u \in S
    BY <1>4
  <2> DEFINE s == Joined(u, data, InnerZones[i])
  <2>2. F[i][u] = s
    BY <2>1
  <2> HIDE DEF F
  <2>3. Good(s, data) /\ In(s) = In(u)
    <3> DEFINE z == InnerZones[i]
    <3>1. z \in (0 .. Bits) \X Nat /\ z[1] # Bits
      BY <1>0
    <3>2. Good(u, data) /\ s = Joined(u, data, z)
      BY <2>1
    <3> HIDE DEF z, s
    <3> QED
      BY <3>1, <3>2, JoinedKeeps
  <2>4. s \in Tables
    BY <2>3 DEF Good, Sound
  <2> HIDE DEF s
  <2>5. s \in G[i]
    BY <2>1, <2>3, <2>4, <1>4
  <2> HIDE DEF G, S
  <2> QED
    BY <2>1, <2>2, <2>5 DEF s
<1>6. t \in G[0]
  BY <1>1
<1>7. PICK g : IsLoop(g, n, t, F) /\ \A i \in 0 .. n : g[i] \in G[i]
  <2> HIDE DEF F, G, S
  <2> QED
    BY <1>1, <1>5, <1>6, LoopRuns
<1> DEFINE merged(f) == [i \in 0 .. n |-> IF i = 0 THEN t ELSE Joined(f[i - 1], data, InnerZones[i])]
<1>8. g = merged(g)
  <2> DEFINE e == [i \in 0 .. n |-> IF i = 0 THEN t ELSE F[i][g[i - 1]]]
             f == merged(g)
  <2>1. \A i \in 1 .. n : F[i][g[i - 1]] = Joined(g[i - 1], data, InnerZones[i])
    <3> TAKE i \in 1 .. n
    <3>1. g[i - 1] \in S
      <4> HIDE DEF S, F
      <4> QED
        BY <1>4, <1>7
    <3> HIDE DEF S
    <3> QED
      BY <3>1
  <2>2. \A i \in 0 .. n : f[i] = e[i]
    <3> TAKE i \in 0 .. n
    <3>1. i # 0 => i \in 1 .. n
      BY <1>1
    <3> HIDE DEF F
    <3> QED
      BY <3>1, <2>1
  <2>3. f = e
    <3> HIDE DEF F
    <3> QED
      BY <2>2
  <2> QED
    BY <2>3, <1>7 DEF IsLoop
<1> DEFINE h == CHOOSE h : h = merged(h)
<1>9. h = merged(h)
  <2> HIDE DEF merged
  <2> QED
    BY <1>8
<1>10. r = h[n]
  BY DEF Consolidated, Joined, n
<1> HIDE DEF h
<1>11. h[0] = t /\ \A i \in 1 .. n : h[i] = Joined(h[i - 1], data, InnerZones[i])
  <2>1. \A i \in 0 .. n : h[i] = IF i = 0 THEN t ELSE Joined(h[i - 1], data, InnerZones[i])
    BY <1>9
  <2> HIDE DEF merged
  <2>2. 0 \in 0 .. n /\ \A i \in 1 .. n : i \in 0 .. n /\ i # 0
    BY <1>1
  <2> QED
    BY <2>1, <2>2
<1>12. \A i \in 0 .. n : h[i] \in G[i]
  <2> HIDE DEF F, G, merged, S
  <2>1. h[0] \in G[0] /\ \A i \in 1 .. n : h[i - 1] \in G[i - 1] => h[i] \in G[i]
    BY <1>5, <1>6, <1>11
  <2> QED
    BY <2>1, <1>1, LoopStays
<1>13. r \in S
  <2> HIDE DEF F, S
  <2>1. n \in 0 .. n
    BY <1>1
  <2> QED
    BY <2>1, <1>10, <1>12
<1> QED
  BY <1>13

----------------------------------------------------------------------------
(* States: the table and the data of the contacts.                         *)

\* A state of a running Kad between two events.
Fine(s) ==
    /\ s = [table |-> s.table, contact |-> s.contact]
    /\ s.contact \in [Ids -> Contacts]
    /\ Good(s.table, s.contact)

\* The same contacts with the same addresses.
Same(s, r) ==
    /\ In(r.table) = In(s.table)
    /\ \A id \in In(s.table) : r.contact[id].addr = s.contact[id].addr

\* A state is its table and its contacts.
LEMMA StateIs ==
    ASSUME NEW t, NEW d, NEW r, r = [table |-> t, contact |-> d]
    PROVE  r.table = t /\ r.contact = d /\ r = [table |-> r.table, contact |-> r.contact]
OBVIOUS

\* What it takes to be a contact.
LEMMA ContactIs ==
    ASSUME NEW c
    PROVE  c \in Contacts <=> /\ c = [addr |-> c.addr, kind |-> c.kind, type |-> c.type, expires |-> c.expires]
                              /\ c.addr \in Addrs \cup {"none"} /\ c.kind \in Kinds /\ c.type \in Nat
                              /\ c.expires \in {"unset", "future", "past"}
BY DEF Contacts

\* The data of one contact changes.
LEMMA ContactChanges ==
    ASSUME NEW f \in [Ids -> Contacts], NEW id \in Ids, NEW c \in Contacts, NEW g, g = [f EXCEPT ![id] = c]
    PROVE  g \in [Ids -> Contacts] /\ g[id] = c /\ \A x \in Ids : x # id => g[x] = f[x]
OBVIOUS

\* Only the addresses of the contacts matter to the table.
LEMMA GoodOfOthers ==
    ASSUME NEW t, NEW data, Good(t, data), NEW other, \A id \in In(t) : other[id].addr = data[id].addr
    PROVE  Good(t, other)
BY BooksOfOthers DEF Good, Sound

\* An unknown contact is refused, or added and no other changed.
LEMMA LearnKeeps ==
    ASSUME NEW s, Fine(s), NEW o \in Offer, o.id \notin In(s.table), NEW r, r = Learn(s, o)
    PROVE  /\ Fine(r)
           /\ \/ Same(s, r)
              \/ /\ In(r.table) = In(s.table) \cup {o.id} /\ r.contact[o.id].addr = o.addr
                 /\ \A x \in In(s.table) : r.contact[x].addr = s.contact[x].addr
<1> DEFINE data == [s.contact EXCEPT ![o.id] = NewContact(o)]
           room == MakeRoom(s.table, data, o.id)
           z == Leaf(room, o.id)
           added == AddContact(room, data, z, o.id)
<1>1. /\ o.id \in Ids /\ o.addr \in Addrs /\ o.kind \in Kinds
      /\ Good(s.table, s.contact) /\ s.contact \in [Ids -> Contacts]
  BY DEF Offer, Fine
<1>2. r = [table |-> added, contact |-> IF o.id \in added.nodes THEN data ELSE s.contact]
  BY DEF Learn
<1>3. NewContact(o) \in Contacts /\ NewContact(o).addr = o.addr
  BY <1>1 DEF NewContact, Contacts
<1>4. data \in [Ids -> Contacts] /\ data[o.id] = NewContact(o) /\ \A x \in Ids : x # o.id => data[x] = s.contact[x]
  BY <1>1, <1>3, ContactChanges
<1> HIDE DEF data
<1>5. In(s.table) \subseteq Ids
  BY <1>1, BinsOfTable DEF Good, Sound
<1>6. \A x \in In(s.table) : data[x].addr = s.contact[x].addr
  BY <1>4, <1>5
<1>7. Good(s.table, data)
  BY <1>1, <1>6, GoodOfOthers
<1>8. Good(room, data) /\ In(room) = In(s.table)
  BY <1>1, <1>7, MakeRoomKeeps
<1> HIDE DEF room
<1>9. z \in DOMAIN room.bins /\ Covers(z, o.id)
  BY <1>1, <1>8, LeafIs
<1> HIDE DEF z
<1>10. data[o.id].addr \in Addrs /\ Sound(room, data)
  BY <1>1, <1>3, <1>4, <1>8 DEF Good
<1>11. /\ Sound(added, data) /\ DOMAIN added.bins = DOMAIN room.bins /\ added.events = room.events
       /\ \/ added = room
          \/ In(added) = In(room) \cup {o.id} /\ added.nodes = room.nodes \cup {o.id}
  <2> DEFINE x == added
             id == o.id
  <2>1. x = AddContact(room, data, z, id) /\ id \in Ids /\ data[id].addr \in Addrs /\ Covers(z, id)
    BY <1>1, <1>9, <1>10
  <2> HIDE DEF x, id
  <2>2. /\ Sound(x, data) /\ DOMAIN x.bins = DOMAIN room.bins /\ x.events = room.events
        /\ \/ x = room
           \/ In(x) = In(room) \cup {id} /\ x.nodes = room.nodes \cup {id}
    BY <2>1, <1>9, <1>10, AddContactKeeps
  <2> QED
    BY <2>2 DEF x, id
<1> HIDE DEF added
<1>12. Good(added, data)
  <2>1. Tiled(DOMAIN added.bins) /\ added.events = DOMAIN added.bins
    BY <1>8, <1>11 DEF Good
  <2>2. added.nodes = In(added)
    BY <1>8, <1>11 DEF Good
  <2> QED
    BY <2>1, <2>2, <1>11 DEF Good
<1>13. r.table = added /\ r = [table |-> r.table, contact |-> r.contact]
  BY <1>2
<1>14. CASE added = room
  <2>1. o.id \notin added.nodes
    BY <1>8, <1>14 DEF Good
  <2>2. r.contact = s.contact
    BY <2>1, <1>2
  <2>3. Good(added, s.contact)
    BY <1>6, <1>8, <1>12, <1>14, GoodOfOthers
  <2> QED
    BY <2>2, <2>3, <1>1, <1>8, <1>13, <1>14 DEF Fine, Same
<1>15. CASE In(added) = In(room) \cup {o.id} /\ added.nodes = room.nodes \cup {o.id}
  <2>1. o.id \in added.nodes
    BY <1>15
  <2>2. r.contact = data
    BY <2>1, <1>2
  <2> QED
    BY <2>2, <1>3, <1>4, <1>6, <1>8, <1>12, <1>13, <1>15 DEF Fine
<1> QED
  BY <1>11, <1>14, <1>15

\* SetAlive changes neither who is known nor an address.
LEMMA HeardKeeps ==
    ASSUME NEW s, Fine(s), NEW id \in In(s.table), NEW type \in Nat, NEW r, r = Heard(s, id, type)
    PROVE  Fine(r) /\ Same(s, r)
<1> DEFINE t == [s.table EXCEPT !.bins[Leaf(s.table, id)] = PushToBottom(@, id)]
           data == [s.contact EXCEPT ![id].type = type, ![id].expires = "future"]
<1>1. /\ Good(s.table, s.contact) /\ s.contact \in [Ids -> Contacts] /\ In(s.table) \subseteq Ids /\ id \in Ids
  BY BinsOfTable DEF Fine, Good, Sound
<1>2. r = [table |-> t, contact |-> data]
  BY DEF Heard
<1>3. Good(t, s.contact) /\ In(t) = In(s.table)
  <2> DEFINE z == Leaf(s.table, id)
             x == t
             u == s.table
             d == s.contact
  <2>1. z \in DOMAIN u.bins /\ id \in ToSet(u.bins[z]) /\ Good(u, d)
    BY <1>1, LeafIs
  <2>2. x = [u EXCEPT !.bins[z] = PushToBottom(@, id)]
    OBVIOUS
  <2> HIDE DEF x, z, u, d
  <2>3. Good(x, d) /\ In(x) = In(u)
    BY <2>1, <2>2, TurnKeeps
  <2> QED
    BY <2>3 DEF x, u, d
<1> HIDE DEF t
<1>4. data \in [Ids -> Contacts] /\ \A x \in Ids : data[x].addr = s.contact[x].addr
  <2> DEFINE c == [s.contact[id] EXCEPT !.type = type, !.expires = "future"]
             f == s.contact
  <2>1. f[id] \in Contacts
    BY <1>1
  <2>2. c \in Contacts /\ c.addr = f[id].addr
    BY <2>1 DEF Contacts
  <2>3. data = [f EXCEPT ![id] = c]
    BY <1>1
  <2>4. f \in [Ids -> Contacts]
    BY <1>1
  <2> HIDE DEF c, f, data
  <2>5. data \in [Ids -> Contacts] /\ data[id] = c /\ \A x \in Ids : x # id => data[x] = f[x]
    BY <2>2, <2>3, <2>4, <1>1, ContactChanges
  <2> QED
    BY <2>2, <2>5 DEF f
<1> HIDE DEF data
<1>5. Good(t, data)
  BY <1>1, <1>3, <1>4, GoodOfOthers
<1>6. r.table = t /\ r.contact = data /\ r = [table |-> r.table, contact |-> r.contact]
  BY <1>2
<1> QED
  BY <1>1, <1>3, <1>4, <1>5, <1>6 DEF Fine, Same

\* One contact has another address, which nobody had.
MovedTo(s, r, id, addr) ==
    /\ In(r.table) = In(s.table) /\ r.contact[id].addr = addr
    /\ \A x \in In(s.table) : x # id => r.contact[x].addr = s.contact[x].addr
    /\ \A x \in In(s.table) : s.contact[x].addr # addr

\* ChangeContactIPAddress gives a contact an address that nobody had.
LEMMA MovedKeeps ==
    ASSUME NEW s, Fine(s), NEW id \in In(s.table), NEW addr \in Addrs,
           MayMove(s.table, s.contact[id].addr, addr), NEW r, r = Moved(s, id, addr)
    PROVE  Fine(r) /\ (r = s \/ MovedTo(s, r, id, addr))
<1> DEFINE old == s.contact[id].addr
           t == s.table
           d == s.contact
           c == [t.tracked EXCEPT ![old] = @ - 1, ![addr] = @ + 1]
           u == [t EXCEPT !.tracked = c]
           data == [d EXCEPT ![id].addr = addr]
<1>1. /\ Good(t, d) /\ d \in [Ids -> Contacts] /\ In(t) \subseteq Ids /\ id \in Ids /\ t \in Tables
  BY BinsOfTable DEF Fine, Good, Sound
<1>2. CASE old = addr
  BY <1>2 DEF Moved
<1>3. CASE old # addr
  <2>1. r = [table |-> u, contact |-> data]
    BY <1>3 DEF Moved
  <2>2. t.tracked[addr] = 0
    BY <1>3 DEF MayMove
  <2> DEFINE e == [d[id] EXCEPT !.addr = addr]
  <2>3. e \in Contacts /\ e.addr = addr
    <3>1. d[id] \in Contacts
      BY <1>1
    <3> QED
      BY <3>1 DEF Contacts
  <2>4. data = [d EXCEPT ![id] = e]
    BY <1>1
  <2> HIDE DEF e, data, u, c, t, d, old
  <2>5. data \in [Ids -> Contacts] /\ data[id].addr = addr /\ \A x \in Ids : x # id => data[x] = d[x]
    BY <2>3, <2>4, <1>1, ContactChanges
  <2>6. /\ t = [bins |-> t.bins, tracked |-> t.tracked, nodes |-> t.nodes, events |-> t.events]
        /\ t.bins = [z \in DOMAIN t.bins |-> t.bins[z]]
        /\ DOMAIN t.bins \subseteq Zones
        /\ \A z \in DOMAIN t.bins : t.bins[z] \in Seq(Ids)
        /\ t.tracked \in [Addrs -> Int] /\ t.nodes \subseteq Ids /\ t.events \subseteq Zones
    BY <1>1, TableIs
  <2>7. Placed(t) /\ Once(t) /\ Books(In(t), d, t.tracked) /\ Tiled(DOMAIN t.bins) /\ t.events = DOMAIN t.bins /\ t.nodes = In(t)
    BY <1>1 DEF Good, Sound
  <2>8. Books(In(t), data, c) /\ c \in [Addrs -> Int] /\ \A x \in In(t) : d[x].addr # addr
    <3>1. c = [t.tracked EXCEPT ![old] = @ - 1, ![addr] = @ + 1] /\ old = d[id].addr /\ id \in In(t)
      BY DEF c, old, d, t
    <3>2. \A x \in In(t) : x # id => data[x].addr = d[x].addr
      BY <2>5, <1>1
    <3> DEFINE m == t.tracked
               I == In(t)
    <3>3. m \in [Addrs -> Int] /\ Books(I, d, m) /\ m[addr] = 0 /\ addr # old
      BY <2>2, <2>6, <2>7, <1>3
    <3>4. c = [m EXCEPT ![old] = @ - 1, ![addr] = @ + 1]
      BY <3>1
    <3>5. \A x \in I : x # id => data[x].addr = d[x].addr
      BY <3>2
    <3> HIDE DEF m, I
    <3>6. Books(I, data, c) /\ c \in [Addrs -> Int] /\ \A x \in I : d[x].addr # addr
      BY <3>1, <3>3, <3>4, <3>5, <2>5, BooksWhenMoved DEF I
    <3> QED
      BY <3>6 DEF I
  <2>9. u = [bins |-> t.bins, tracked |-> c, nodes |-> t.nodes, events |-> t.events]
    BY <2>6 DEF u
  <2>10. u.bins = t.bins /\ u.tracked = c /\ u.nodes = t.nodes /\ u.events = t.events
    BY <2>9
  <2>11. u \in Tables
    <3>1. u = [bins |-> u.bins, tracked |-> u.tracked, nodes |-> u.nodes, events |-> u.events]
      BY <2>9
    <3> QED
      BY <3>1, <2>6, <2>8, <2>10, TableIs
  <2>12. Placed(u) /\ Once(u)
    BY <2>7, <2>10 DEF Placed, Once
  <2>13. In(u) = In(t)
    BY <2>10 DEF In
  <2>14. Good(u, data)
    BY <2>7, <2>8, <2>10, <2>11, <2>12, <2>13 DEF Good, Sound
  <2>15. r.table = u /\ r.contact = data /\ r = [table |-> r.table, contact |-> r.contact]
    BY <2>1
  <2>16. Fine(r)
    BY <2>5, <2>14, <2>15 DEF Fine
  <2>17. MovedTo(s, r, id, addr)
    BY <2>5, <2>8, <2>13, <2>15, <1>1 DEF MovedTo, t, d
  <2> QED
    BY <2>16, <2>17
<1> QED
  BY <1>2, <1>3

\* The version of a contact is known.
WithKind(s, id, kind) == [s EXCEPT !.contact[id].kind = kind]

\* The version of a contact does not matter to the table.
LEMMA KindKeeps ==
    ASSUME NEW s, Fine(s), NEW id \in Ids, NEW kind \in Kinds, NEW r, r = WithKind(s, id, kind)
    PROVE  Fine(r) /\ Same(s, r)
<1> DEFINE d == s.contact
           c == [d[id] EXCEPT !.kind = kind]
           data == [d EXCEPT ![id] = c]
<1>1. s = [table |-> s.table, contact |-> s.contact] /\ d \in [Ids -> Contacts] /\ Good(s.table, d)
  BY DEF Fine
<1>2. r = [table |-> s.table, contact |-> data]
  BY <1>1 DEF WithKind
<1>3. c \in Contacts /\ c.addr = d[id].addr
  <2>1. d[id] \in Contacts
    BY <1>1
  <2> QED
    BY <2>1 DEF Contacts
<1> HIDE DEF c, d
<1>4. data \in [Ids -> Contacts] /\ data[id] = c /\ \A x \in Ids : x # id => data[x] = d[x]
  BY <1>1, <1>3, ContactChanges
<1> HIDE DEF data
<1>5. In(s.table) \subseteq Ids
  BY <1>1, BinsOfTable DEF Good, Sound
<1>6. \A x \in In(s.table) : data[x].addr = d[x].addr
  BY <1>3, <1>4, <1>5
<1>7. Good(s.table, data)
  BY <1>1, <1>6, GoodOfOthers
<1>8. r.table = s.table /\ r.contact = data /\ r = [table |-> r.table, contact |-> r.contact]
  <2> DEFINE t == s.table
  <2>1. r = [table |-> t, contact |-> data]
    BY <1>2
  <2> HIDE DEF t
  <2>2. r.table = t /\ r.contact = data /\ r = [table |-> r.table, contact |-> r.contact]
    BY <2>1, StateIs
  <2> QED
    BY <2>2 DEF t
<1> QED
  BY <1>4, <1>6, <1>7, <1>8 DEF Fine, Same, d

\* A HELLO changes one address, or none.
LEMMA UpdatedKeeps ==
    ASSUME NEW s, Fine(s), NEW o \in Offer, o.id \in In(s.table), NEW type \in Nat, NEW r, r = Updated(s, o, type)
    PROVE  Fine(r) /\ (Same(s, r) \/ MovedTo(s, r, o.id, o.addr))
<1> DEFINE c == s.contact[o.id]
           moved == Moved(s, o.id, o.addr)
           kinded == [moved EXCEPT !.contact[o.id].kind = o.kind]
           may == MayMove(s.table, c.addr, o.addr)
           id == o.id
<1>1. /\ o.addr \in Addrs /\ o.kind \in Kinds /\ id \in In(s.table) /\ id \in Ids
  BY DEF Offer
<1>2. \/ r = Heard(s, id, type)
      \/ r = s
      \/ may /\ r = moved
      \/ may /\ r = Heard(kinded, id, type)
  <2> DEFINE h == Heard(s, id, type)
             k == Heard(kinded, id, type)
             p == o.kind # "new" /\ o.addr = c.addr
             q == c.kind = "settled"
             w == c.kind = "new" /\ o.kind # "new"
  <2>1. r = CASE q /\ o.kind # "new" /\ o.addr = c.addr -> h
              [] q /\ ~ (o.kind # "new" /\ o.addr = c.addr) -> s
              [] c.kind # "settled" /\ ~ may -> s
              [] c.kind = "new" /\ o.kind # "new" /\ may -> moved
              [] OTHER -> k
    BY DEF Updated
  <2>2. r = CASE q /\ p -> h [] q /\ ~ p -> s [] ~ q /\ ~ may -> s [] w /\ may -> moved [] OTHER -> k
    BY <2>1
  <2>3. w => ~ q
    OBVIOUS
  <2> HIDE DEF h, k, p, q, w, moved, may, kinded
  <2>4. CASE q /\ p
    BY <2>2, <2>3, <2>4 DEF h
  <2>5. CASE q /\ ~ p
    BY <2>2, <2>3, <2>5
  <2>6. CASE ~ q /\ ~ may
    BY <2>2, <2>6
  <2>7. CASE ~ q /\ may /\ w
    <3>1. r = moved
      BY <2>2, <2>7
    <3> QED
      BY <3>1, <2>7
  <2>8. CASE ~ q /\ may /\ ~ w
    <3>1. r = k
      BY <2>2, <2>8
    <3> QED
      BY <3>1, <2>8 DEF k
  <2> QED
    BY <2>4, <2>5, <2>6, <2>7, <2>8
<1>3. Same(s, s)
  BY DEF Same
<1>4. CASE r = Heard(s, id, type)
  <2> HIDE DEF id
  <2> QED
    BY <1>1, <1>4, HeardKeeps
<1>5. CASE r = s
  BY <1>3, <1>5
<1>6. may => Fine(moved) /\ (moved = s \/ MovedTo(s, moved, id, o.addr))
  <2> DEFINE m == moved
  <2>1. m = Moved(s, id, o.addr)
    OBVIOUS
  <2>2. may => MayMove(s.table, s.contact[id].addr, o.addr)
    OBVIOUS
  <2> HIDE DEF m, id, may
  <2>3. may => Fine(m) /\ (m = s \/ MovedTo(s, m, id, o.addr))
    BY <2>1, <2>2, <1>1, MovedKeeps
  <2> QED
    BY <2>3 DEF m
<1> HIDE DEF may, moved
<1>7. may /\ r = Heard(kinded, id, type) => Fine(r) /\ (Same(s, r) \/ MovedTo(s, r, id, o.addr))
  <2> SUFFICES ASSUME may, r = Heard(kinded, id, type)
               PROVE  Fine(r) /\ (Same(s, r) \/ MovedTo(s, r, id, o.addr))
    OBVIOUS
  <2>1. Fine(moved) /\ (moved = s \/ MovedTo(s, moved, id, o.addr))
    BY <1>6
  <2>2. Fine(kinded) /\ Same(moved, kinded)
    <3> DEFINE k == kinded
    <3>1. k = WithKind(moved, id, o.kind)
      BY DEF WithKind
    <3> HIDE DEF k
    <3>2. Fine(k) /\ Same(moved, k)
      BY <3>1, <2>1, <1>1, KindKeeps
    <3> QED
      BY <3>2 DEF k
  <2> HIDE DEF kinded, id
  <2>3. In(kinded.table) = In(s.table)
    BY <2>1, <2>2 DEF Same, MovedTo
  <2>4. Fine(r) /\ Same(kinded, r)
    <3>1. id \in In(kinded.table)
      BY <2>3, <1>1
    <3> QED
      BY <3>1, <2>2, HeardKeeps
  <2>5. CASE moved = s
    BY <2>5, <2>2, <2>4 DEF Same
  <2>6. CASE MovedTo(s, moved, id, o.addr)
    BY <2>6, <2>2, <2>4, <1>1 DEF Same, MovedTo
  <2> QED
    BY <2>1, <2>4, <2>5, <2>6
<1> QED
  BY <1>2, <1>3, <1>4, <1>5, <1>6, <1>7

----------------------------------------------------------------------------
(* Zones whose turn it is, and the file.                                   *)

\* of Discarded,
Spared(u, z, id) ==
    IF IsDead(contact[id]) /\ Cardinality(u.nodes) > Keep THEN RemoveContact(u, contact, z, id) ELSE u

\* u is t without some of the first i contacts of a list in the bin of z.
Thinned(u, t, z, list, i) ==
    /\ Good(u, contact) /\ DOMAIN u.bins = DOMAIN t.bins /\ In(u) \subseteq In(t)
    /\ \A j \in i + 1 .. Len(list) : list[j] \in ToSet(u.bins[z])

\* One turn of the loop that discards.
LEMMA SparedIsThinned ==
    ASSUME NEW t, NEW z \in DOMAIN t.bins, NEW list, IsBin(list), NEW i \in 1 .. Len(list),
           NEW u, Thinned(u, t, z, list, i - 1), NEW r, r = Spared(u, z, list[i])
    PROVE  Thinned(r, t, z, list, i)
<1>1. Len(list) \in Nat /\ DOMAIN list = 1 .. Len(list) /\ IsInjective(list)
  BY BinsAreFinite DEF IsBin
<1>2. /\ \A j \in i + 1 .. Len(list) : j \in (i - 1) + 1 .. Len(list) /\ j # i /\ j \in 1 .. Len(list)
      /\ i \in (i - 1) + 1 .. Len(list)
  BY <1>1
<1>3. /\ Good(u, contact) /\ DOMAIN u.bins = DOMAIN t.bins /\ In(u) \subseteq In(t)
      /\ \A j \in (i - 1) + 1 .. Len(list) : list[j] \in ToSet(u.bins[z])
  BY DEF Thinned
<1> DEFINE id == list[i]
<1>4. id \in ToSet(u.bins[z]) /\ z \in DOMAIN u.bins
  BY <1>2, <1>3
<1>5. \A j \in i + 1 .. Len(list) : list[j] \in ToSet(u.bins[z]) /\ list[j] # id
  BY <1>1, <1>2, <1>3 DEF IsInjective
<1>6. CASE r = u
  BY <1>3, <1>5, <1>6 DEF Thinned
<1>7. CASE r = RemoveContact(u, contact, z, id)
  <2> HIDE DEF id
  <2>1. /\ Good(r, contact) /\ DOMAIN r.bins = DOMAIN u.bins
        /\ In(r) = In(u) \ {id} /\ ToSet(r.bins[z]) = ToSet(u.bins[z]) \ {id}
    <3>1. Good(u, contact)
      BY <1>3
    <3> QED
      BY <3>1, <1>4, <1>7, RemoveContactKeeps
  <2> QED
    BY <2>1, <1>3, <1>5 DEF Thinned
<1> QED
  BY <1>6, <1>7 DEF Spared

\* The dead contacts of a zone leave, and nothing else changes.
LEMMA DiscardedKeeps ==
    ASSUME NEW t, Good(t, contact), NEW z \in DOMAIN t.bins, NEW r, r = Discarded(t, z)
    PROVE  Good(r, contact) /\ DOMAIN r.bins = DOMAIN t.bins /\ In(r) \subseteq In(t)
<1> DEFINE list == t.bins[z]
           n == Len(list)
           G == [i \in 0 .. n |-> {u \in Tables : Thinned(u, t, z, list, i)}]
           F == [i \in 1 .. n |-> [u \in Tables |-> Spared(u, z, list[i])]]
<1>1. n \in Nat /\ DOMAIN list = 1 .. n /\ t \in Tables /\ IsBin(list)
  <2>1. t \in Tables /\ IsBin(list)
    BY DEF Good, Sound, Placed
  <2>2. n \in Nat /\ DOMAIN list = 1 .. n
    BY <2>1, BinsAreFinite DEF IsBin
  <2> QED
    BY <2>1, <2>2
<1>3. Thinned(t, t, z, list, 0)
  <2>1. \A j \in 0 + 1 .. n : list[j] \in ToSet(list)
    BY <1>1 DEF ToSet
  <2> QED
    BY <2>1 DEF Thinned
<1> HIDE DEF list
<1>4. \A i \in 1 .. n : i - 1 \in 0 .. n /\ i \in 0 .. n
  BY <1>1
<1>5. ASSUME NEW i \in 1 .. n, NEW u \in G[i - 1]
      PROVE  u \in Tables /\ F[i][u] \in G[i] /\ Spared(u, z, list[i]) \in G[i]
  <2>1. u \in Tables /\ Thinned(u, t, z, list, i - 1)
    BY <1>4
  <2> DEFINE s == Spared(u, z, list[i])
  <2>2. F[i][u] = s
    BY <2>1
  <2> HIDE DEF F
  <2>3. Thinned(s, t, z, list, i)
    BY <2>1, <1>1, SparedIsThinned
  <2>4. s \in Tables
    BY <2>3 DEF Thinned, Good, Sound
  <2> HIDE DEF s
  <2>5. s \in G[i]
    BY <2>3, <2>4, <1>4
  <2> HIDE DEF G
  <2> QED
    BY <2>1, <2>2, <2>5 DEF s
<1>6. t \in G[0]
  BY <1>1, <1>3
<1>7. PICK g : IsLoop(g, n, t, F) /\ \A i \in 0 .. n : g[i] \in G[i]
  <2> HIDE DEF F, G, n
  <2> QED
    BY <1>1, <1>5, <1>6, LoopRuns
<1> DEFINE left(f) == [i \in 0 .. n |-> IF i = 0 THEN t ELSE Spared(f[i - 1], z, list[i])]
<1>8. g = left(g)
  <2> DEFINE e == [i \in 0 .. n |-> IF i = 0 THEN t ELSE F[i][g[i - 1]]]
             f == left(g)
  <2>1. \A i \in 1 .. n : F[i][g[i - 1]] = Spared(g[i - 1], z, list[i])
    <3> TAKE i \in 1 .. n
    <3>1. g[i - 1] \in Tables
      BY <1>4, <1>5, <1>7
    <3> QED
      BY <3>1
  <2>2. \A i \in 0 .. n : f[i] = e[i]
    <3> TAKE i \in 0 .. n
    <3>1. i # 0 => i \in 1 .. n
      BY <1>1
    <3> HIDE DEF F
    <3> QED
      BY <3>1, <2>1
  <2>3. f = e
    BY <2>2
  <2> QED
    BY <2>3, <1>7 DEF IsLoop
<1> DEFINE h == CHOOSE h : h = left(h)
<1>9. h = left(h)
  <2> HIDE DEF left
  <2> QED
    BY <1>8
<1>10. r = h[n]
  BY DEF Discarded, Spared, list
<1> HIDE DEF h
<1>11. h[0] = t /\ \A i \in 1 .. n : h[i] = Spared(h[i - 1], z, list[i])
  <2>1. \A i \in 0 .. n : h[i] = IF i = 0 THEN t ELSE Spared(h[i - 1], z, list[i])
    BY <1>9
  <2> HIDE DEF left, n
  <2>2. 0 \in 0 .. n /\ \A i \in 1 .. n : i \in 0 .. n /\ i # 0
    BY <1>1
  <2> QED
    BY <2>1, <2>2
<1>12. \A i \in 0 .. n : h[i] \in G[i]
  <2> HIDE DEF F, G, n, left
  <2>1. h[0] \in G[0] /\ \A i \in 1 .. n : h[i - 1] \in G[i - 1] => h[i] \in G[i]
    BY <1>5, <1>6, <1>11
  <2> QED
    BY <2>1, <1>1, LoopStays
<1>13. Thinned(r, t, z, list, n)
  <2>1. n \in 0 .. n
    BY <1>1
  <2> HIDE DEF n
  <2> QED
    BY <2>1, <1>10, <1>12
<1> QED
  BY <1>13 DEF Thinned

\* States, whatever they hold.
States == [table : Tables, contact : [Ids -> Contacts]]

\* and of Read.
ToldOf(s, o) == IF IsKnown(s.table, o.id) THEN s ELSE Learn(s, o)

\* Good states are states.
LEMMA FineStates ==
    ASSUME NEW s, Fine(s)
    PROVE  s \in States
<1>1. s = [table |-> s.table, contact |-> s.contact] /\ s.contact \in [Ids -> Contacts] /\ s.table \in Tables
  BY DEF Fine, Good, Sound
<1> QED
  BY <1>1 DEF States

\* One turn of the loop that reads the file.
LEMMA ToldKeeps ==
    ASSUME NEW s, Fine(s), NEW o \in Offer, NEW r, r = ToldOf(s, o)
    PROVE  Fine(r)
<1>1. CASE IsKnown(s.table, o.id)
  BY <1>1 DEF ToldOf
<1>2. CASE ~ IsKnown(s.table, o.id)
  <2>1. o.id \in Ids /\ Good(s.table, s.contact)
    BY DEF Offer, Fine
  <2>2. o.id \notin In(s.table)
    BY <2>1, <1>2, LeafIs
  <2> QED
    BY <1>2, <2>2, LearnKeeps DEF ToldOf
<1> QED
  BY <1>1, <1>2

\* ReadFile leaves a good table.
LEMMA ReadKeeps ==
    ASSUME NEW s, Fine(s), NEW file \in Seq(Offer), NEW r, r = Read(s, file)
    PROVE  Fine(r)
<1> DEFINE n == Len(file)
           S == {u \in States : Fine(u)}
           G == [i \in 0 .. n |-> S]
           F == [i \in 1 .. n |-> [u \in S |-> ToldOf(u, file[i])]]
<1>0. \A i \in 1 .. n : file[i] \in Offer
  OBVIOUS
<1>1. n \in Nat /\ s \in S
  BY FineStates
<1> HIDE DEF n
<1>4. \A i \in 1 .. n : i - 1 \in 0 .. n /\ i \in 0 .. n
  BY <1>1
<1>5. ASSUME NEW i \in 1 .. n, NEW u \in G[i - 1]
      PROVE  u \in S /\ F[i][u] \in G[i] /\ ToldOf(u, file[i]) \in G[i]
  <2>1. u \in S
    BY <1>4
  <2> DEFINE v == ToldOf(u, file[i])
  <2>2. F[i][u] = v
    BY <2>1
  <2> HIDE DEF F
  <2>3. Fine(v)
    BY <2>1, <1>0, ToldKeeps
  <2>4. v \in States
    BY <2>3, FineStates
  <2> HIDE DEF v
  <2>5. v \in G[i]
    BY <2>3, <2>4, <1>4
  <2> HIDE DEF G, S
  <2> QED
    BY <2>1, <2>2, <2>5 DEF v
<1>6. s \in G[0]
  BY <1>1
<1>7. PICK g : IsLoop(g, n, s, F) /\ \A i \in 0 .. n : g[i] \in G[i]
  <2> HIDE DEF F, G, S
  <2> QED
    BY <1>1, <1>5, <1>6, LoopRuns
<1> DEFINE read(f) == [i \in 0 .. n |-> IF i = 0 THEN s ELSE ToldOf(f[i - 1], file[i])]
<1>8. g = read(g)
  <2> DEFINE e == [i \in 0 .. n |-> IF i = 0 THEN s ELSE F[i][g[i - 1]]]
             f == read(g)
  <2>1. \A i \in 1 .. n : F[i][g[i - 1]] = ToldOf(g[i - 1], file[i])
    <3> TAKE i \in 1 .. n
    <3>1. g[i - 1] \in S
      <4> HIDE DEF S, F
      <4> QED
        BY <1>4, <1>7
    <3> HIDE DEF S
    <3> QED
      BY <3>1
  <2>2. \A i \in 0 .. n : f[i] = e[i]
    <3> TAKE i \in 0 .. n
    <3>1. i # 0 => i \in 1 .. n
      BY <1>1
    <3> HIDE DEF F
    <3> QED
      BY <3>1, <2>1
  <2>3. f = e
    <3> HIDE DEF F
    <3> QED
      BY <2>2
  <2> QED
    BY <2>3, <1>7 DEF IsLoop
<1> DEFINE h == CHOOSE h : h = read(h)
<1>9. h = read(h)
  <2> HIDE DEF read
  <2> QED
    BY <1>8
<1>10. r = h[n]
  BY DEF Read, ToldOf, n
<1> HIDE DEF h
<1>11. h[0] = s /\ \A i \in 1 .. n : h[i] = ToldOf(h[i - 1], file[i])
  <2>1. \A i \in 0 .. n : h[i] = IF i = 0 THEN s ELSE ToldOf(h[i - 1], file[i])
    BY <1>9
  <2> HIDE DEF read
  <2>2. 0 \in 0 .. n /\ \A i \in 1 .. n : i \in 0 .. n /\ i # 0
    BY <1>1
  <2> QED
    BY <2>1, <2>2
<1>12. \A i \in 0 .. n : h[i] \in G[i]
  <2> HIDE DEF F, G, read, S
  <2>1. h[0] \in G[0] /\ \A i \in 1 .. n : h[i - 1] \in G[i - 1] => h[i] \in G[i]
    BY <1>5, <1>6, <1>11
  <2> QED
    BY <2>1, <1>1, LoopStays
<1>13. r \in S
  <2> HIDE DEF F, S
  <2>1. n \in 0 .. n
    BY <1>1
  <2> QED
    BY <2>1, <1>10, <1>12
<1> QED
  BY <1>13

----------------------------------------------------------------------------
(* The steps.                                                              *)

\* The inductive invariant.
IInv ==
    /\ running \in BOOLEAN
    /\ contact \in [Ids -> Contacts]
    /\ running => Good(table, contact)
    /\ ~ running => table = Empty

\* The table of a stopped Kad has no contact.
LEMMA EmptyIsEmpty == In(Empty) = {}
BY DEF In, Empty

\* Forgotten data is data.
LEMMA NoContactIs == NoContact \in Contacts
BY DEF NoContact, Contacts, Kinds

\* What the users of the table see of it.
LEMMA KnownIs ==
    /\ InBins = In(table)
    /\ DOMAIN Known = In(table) /\ \A id \in In(table) : Known[id] = contact[id].addr
    /\ Known = [id \in In(table) |-> contact[id].addr]
    /\ DOMAIN Known' = In(table') /\ \A id \in In(table') : Known'[id] = contact'[id].addr
    /\ Known' = [id \in In(table') |-> contact'[id].addr]
<1>1. InBins = In(table) /\ InBins' = In(table')
  BY DEF InBins, In
<1>2. Known = [id \in In(table) |-> contact[id].addr] /\ Known' = [id \in In(table') |-> contact'[id].addr]
  BY <1>1 DEF Known
<1> QED
  BY <1>1, <1>2

\* They see no change where no contact and no address changes,
LEMMA KnownStays ==
    ASSUME In(table') = In(table), \A id \in In(table) : contact'[id].addr = contact[id].addr
    PROVE  Known' = Known
BY KnownIs

\* and contacts forgotten where some leave.
LEMMA KnownIsForgotten ==
    ASSUME In(table') \subseteq In(table), \A id \in In(table') : contact'[id].addr = contact[id].addr
    PROVE  Abstract!Next
<1>1. DOMAIN Known' \subseteq DOMAIN Known /\ DOMAIN Known' = In(table')
  BY KnownIs
<1>2. Known' = [id \in In(table') |-> Known[id]]
  BY KnownIs
<1>3. Abstract!Forget
  BY <1>1, <1>2 DEF Abstract!Forget
<1> QED
  BY <1>3 DEF Abstract!Next

\* The invariant, of the state as the functions take it.
LEMMA StateIsFine ==
    ASSUME IInv, running
    PROVE  Fine(State) /\ State.table = table /\ State.contact = contact
<1>1. State = [table |-> table, contact |-> contact]
  BY DEF State
<1>2. State.table = table /\ State.contact = contact /\ State = [table |-> State.table, contact |-> State.contact]
  BY <1>1, StateIs
<1> QED
  BY <1>2 DEF IInv, Fine

\* A packet tells of an unknown contact.
LEMMA StepAdd ==
    ASSUME IInv, NEW o \in Offer, Add(o)
    PROVE  IInv' /\ [Abstract!Next]_Known
<1> DEFINE s == State
           r == Learn(s, o)
<1>1. running /\ ~ IsKnown(table, o.id) /\ table' = r.table /\ contact' = r.contact /\ running' = running
  BY DEF Add, Becomes
<1>2. Fine(s) /\ s.table = table /\ s.contact = contact
  BY <1>1, StateIsFine
<1> HIDE DEF s
<1>3. o.id \in Ids /\ o.addr \in Addrs /\ Good(table, contact)
  BY <1>1 DEF Offer, IInv
<1>4. o.id \notin In(table)
  BY <1>1, <1>3, LeafIs
<1>5. /\ Fine(r)
      /\ \/ Same(s, r)
         \/ /\ In(r.table) = In(s.table) \cup {o.id} /\ r.contact[o.id].addr = o.addr
            /\ \A x \in In(s.table) : r.contact[x].addr = s.contact[x].addr
  <2> DEFINE q == r
  <2>1. q = Learn(s, o) /\ o.id \notin In(s.table)
    BY <1>2, <1>4
  <2> HIDE DEF q
  <2>2. /\ Fine(q)
        /\ \/ Same(s, q)
           \/ /\ In(q.table) = In(s.table) \cup {o.id} /\ q.contact[o.id].addr = o.addr
              /\ \A x \in In(s.table) : q.contact[x].addr = s.contact[x].addr
    BY <2>1, <1>2, LearnKeeps
  <2> QED
    BY <2>2 DEF q
<1> HIDE DEF r
<1>6. IInv'
  BY <1>1, <1>5 DEF IInv, Fine
<1>7. CASE Same(s, r)
  <2>1. In(table') = In(table) /\ \A id \in In(table) : contact'[id].addr = contact[id].addr
    BY <1>1, <1>2, <1>7 DEF Same
  <2>2. Known' = Known
    BY <2>1, KnownStays
  <2> QED
    BY <2>2, <1>6
<1>8. CASE /\ In(r.table) = In(s.table) \cup {o.id} /\ r.contact[o.id].addr = o.addr
           /\ \A x \in In(s.table) : r.contact[x].addr = s.contact[x].addr
  <2> DEFINE id == o.id
             a == o.addr
  <2>1. /\ In(table') = In(table) \cup {id} /\ contact'[id].addr = a
        /\ \A x \in In(table) : contact'[x].addr = contact[x].addr
    BY <1>1, <1>2, <1>8
  <2>2. \A x \in In(table) : contact[x].addr # a
    <3>1. Books(In(table'), contact', table'.tracked)
      BY <1>1, <1>5 DEF Fine, Good, Sound
    <3>2. \A x \in In(table) : contact'[x].addr = contact'[id].addr => x = id
      BY <2>1, <3>1 DEF Books
    <3> QED
      BY <2>1, <3>2, <1>4
  <2>3. id \in Ids /\ a \in Addrs /\ id \notin In(table)
    BY <1>3, <1>4
  <2> HIDE DEF id, a
  <2>4. id \notin DOMAIN Known /\ a \notin Abstract!Taken
    BY <2>2, <2>3, KnownIs DEF Abstract!Taken
  <2>5. Known' = Abstract!With(Known, id, a)
    <3>1. Abstract!With(Known, id, a) = [z \in In(table) \cup {id} |-> IF z = id THEN a ELSE Known[z]]
      BY KnownIs DEF Abstract!With
    <3>2. \A z \in In(table) \cup {id} : contact'[z].addr = IF z = id THEN a ELSE Known[z]
      BY <2>1, <2>3, KnownIs
    <3>3. Known' = [z \in In(table) \cup {id} |-> contact'[z].addr]
      BY <2>1, KnownIs
    <3> QED
      BY <3>1, <3>2, <3>3
  <2>6. Abstract!Learn(id, a)
    BY <2>4, <2>5 DEF Abstract!Learn
  <2> QED
    BY <2>3, <2>6, <1>6 DEF Abstract!Next
<1> QED
  BY <1>5, <1>7, <1>8

\* A HELLO of a known one.
LEMMA StepUpdate ==
    ASSUME IInv, NEW o \in Offer, Update(o)
    PROVE  IInv' /\ [Abstract!Next]_Known
<1>1. PICK type \in Fresh : /\ table' = Updated(State, o, type).table
                            /\ contact' = Updated(State, o, type).contact
  BY DEF Update, Becomes
<1> DEFINE s == State
           r == Updated(s, o, type)
<1>2. running /\ IsKnown(table, o.id) /\ table' = r.table /\ contact' = r.contact /\ running' = running
  BY <1>1 DEF Update
<1>3. Fine(s) /\ s.table = table /\ s.contact = contact
  BY <1>2, StateIsFine
<1> HIDE DEF s
<1>4. o.id \in Ids /\ o.addr \in Addrs /\ Good(table, contact) /\ type \in Nat
  BY <1>2, RoutingAssumption DEF Offer, IInv
<1>5. o.id \in In(table)
  BY <1>2, <1>4, LeafIs
<1>6. Fine(r) /\ (Same(s, r) \/ MovedTo(s, r, o.id, o.addr))
  BY <1>3, <1>4, <1>5, UpdatedKeeps
<1> HIDE DEF r
<1>7. IInv'
  BY <1>2, <1>6 DEF IInv, Fine
<1>8. CASE Same(s, r)
  <2>1. In(table') = In(table) /\ \A id \in In(table) : contact'[id].addr = contact[id].addr
    BY <1>2, <1>3, <1>8 DEF Same
  <2>2. Known' = Known
    BY <2>1, KnownStays
  <2> QED
    BY <2>2, <1>7
<1>9. CASE MovedTo(s, r, o.id, o.addr)
  <2> DEFINE id == o.id
             a == o.addr
  <2>1. /\ In(table') = In(table) /\ contact'[id].addr = a
        /\ \A x \in In(table) : x # id => contact'[x].addr = contact[x].addr
        /\ \A x \in In(table) : contact[x].addr # a
    BY <1>2, <1>3, <1>9 DEF MovedTo
  <2>2. a \in Addrs /\ id \in In(table)
    BY <1>4, <1>5
  <2> HIDE DEF id, a
  <2>3. id \in DOMAIN Known /\ a \notin Abstract!Taken
    BY <2>1, <2>2, KnownIs DEF Abstract!Taken
  <2>4. Known' = Abstract!With(Known, id, a)
    <3>1. Abstract!With(Known, id, a) = [z \in In(table) |-> IF z = id THEN a ELSE Known[z]]
      <4>1. In(table) \cup {id} = In(table)
        BY <2>2
      <4> QED
        BY <4>1, KnownIs DEF Abstract!With
    <3>2. \A z \in In(table) : contact'[z].addr = IF z = id THEN a ELSE Known[z]
      BY <2>1, <2>2, KnownIs
    <3>3. Known' = [z \in In(table) |-> contact'[z].addr]
      BY <2>1, KnownIs
    <3> QED
      BY <3>1, <3>2, <3>3
  <2>5. Abstract!Move(id, a)
    BY <2>3, <2>4 DEF Abstract!Move
  <2> QED
    BY <2>2, <2>3, <2>5, <1>7 DEF Abstract!Next
<1> QED
  BY <1>6, <1>8, <1>9

\* A contact's time runs out.
LEMMA StepExpire ==
    ASSUME IInv, NEW id \in Ids, Expire(id)
    PROVE  IInv' /\ [Abstract!Next]_Known
<1>1. /\ running /\ running' = running /\ table' = table
      /\ contact' = [contact EXCEPT ![id].expires = "past"]
  BY DEF Expire
<1>2. contact \in [Ids -> Contacts] /\ Good(table, contact)
  BY <1>1 DEF IInv
<1> DEFINE c == [contact[id] EXCEPT !.expires = "past"]
<1>3. c \in Contacts /\ c.addr = contact[id].addr
  <2>1. contact[id] \in Contacts
    BY <1>2
  <2> QED
    BY <2>1 DEF Contacts
<1>4. contact' = [contact EXCEPT ![id] = c]
  BY <1>1, <1>2
<1> HIDE DEF c
<1>5. contact' \in [Ids -> Contacts] /\ contact'[id] = c /\ \A x \in Ids : x # id => contact'[x] = contact[x]
  BY <1>2, <1>3, <1>4, ContactChanges
<1>6. In(table) \subseteq Ids
  BY <1>2, BinsOfTable DEF Good, Sound
<1>7. \A x \in In(table) : contact'[x].addr = contact[x].addr
  BY <1>3, <1>5, <1>6
<1>8. Good(table', contact')
  <2>1. Good(table, contact')
    BY <1>2, <1>7, GoodOfOthers
  <2> QED
    BY <2>1, <1>1
<1>9. Known' = Known
  BY <1>1, <1>7, KnownStays
<1> QED
  BY <1>1, <1>5, <1>8, <1>9 DEF IInv

\* Leaves are merged.
LEMMA StepConsolidate ==
    ASSUME IInv, Consolidate
    PROVE  IInv' /\ [Abstract!Next]_Known
<1>1. running /\ running' = running /\ contact' = contact /\ table' = Consolidated(table, contact)
  BY DEF Consolidate
<1>2. Good(table, contact)
  BY <1>1 DEF IInv
<1>3. Good(table', contact) /\ In(table') = In(table)
  BY <1>1, <1>2, ConsolidatedKeeps
<1>4. Known' = Known
  BY <1>1, <1>3, KnownStays
<1> QED
  BY <1>1, <1>3, <1>4 DEF IInv

\* The contacts after the first loop of OnSmallTimer.
TimerData(t, z) ==
    [id \in Ids |-> IF id \notin t.nodes THEN NoContact
                    ELSE IF Contains(t.bins[z], id) THEN Clocked(id) ELSE contact[id]]

\* The clock of a new contact starts.
LEMMA ClockedIs ==
    ASSUME contact \in [Ids -> Contacts], NEW id \in Ids
    PROVE  Clocked(id) \in Contacts /\ Clocked(id).addr = contact[id].addr
<1>1. contact[id] \in Contacts
  OBVIOUS
<1>2. /\ [contact[id] EXCEPT !.expires = "past"] \in Contacts
      /\ [contact[id] EXCEPT !.expires = "past"].addr = contact[id].addr
  BY <1>1 DEF Contacts
<1> QED
  BY <1>1, <1>2 DEF Clocked

\* A contact is pinged.
LEMMA PingedIs ==
    ASSUME NEW b \in Contacts
    PROVE  Pinged(b) \in Contacts /\ Pinged(b).addr = b.addr
<1>1. b = [addr |-> b.addr, kind |-> b.kind, type |-> b.type, expires |-> b.expires]
  BY DEF Contacts
<1>2. /\ b.type + 1 \in Nat /\ b.addr \in Addrs \cup {"none"} /\ b.kind \in Kinds
  BY DEF Contacts
<1>3. Pinged(b) = [b EXCEPT !.type = b.type + 1, !.expires = "future"]
  BY DEF Pinged
<1>4. Pinged(b) = [addr |-> b.addr, kind |-> b.kind, type |-> b.type + 1, expires |-> "future"]
  BY <1>1, <1>3
<1> QED
  BY <1>2, <1>4 DEF Contacts

\* The timer changes no address.
LEMMA DataAfterTimer ==
    ASSUME contact \in [Ids -> Contacts], NEW t, Good(t, contact), NEW z \in DOMAIN t.bins,
           NEW data, data = TimerData(t, z)
    PROVE  /\ data \in [Ids -> Contacts] /\ Good(t, data)
           /\ \A id \in In(t) : data[id].addr = contact[id].addr
<1>1. \A id \in Ids : Clocked(id) \in Contacts /\ Clocked(id).addr = contact[id].addr
  BY ClockedIs
<1>2. t.nodes = In(t) /\ In(t) \subseteq Ids
  BY BinsOfTable DEF Good, Sound
<1>3. data \in [Ids -> Contacts]
  BY <1>1, NoContactIs DEF TimerData
<1>4. \A id \in In(t) : data[id].addr = contact[id].addr
  BY <1>1, <1>2 DEF TimerData
<1>5. Good(t, data)
  BY <1>4, GoodOfOthers
<1> QED
  BY <1>3, <1>4, <1>5

\* The timer of a zone.
LEMMA StepTimer ==
    ASSUME IInv, NEW z \in table.events, NEW soon \in BOOLEAN, OnSmallTimer(z, soon)
    PROVE  IInv' /\ [Abstract!Next]_Known
<1> DEFINE t == Discarded(table, z)
           data == TimerData(t, z)
           bin == t.bins[z]
           front == Head(bin)
<1>1. /\ running /\ running' = running /\ z \in DOMAIN table.bins
      /\ \/ table' = t /\ contact' = data
         \/ bin # <<>> /\ table' = [t EXCEPT !.bins[z] = PushToBottom(@, front)] /\ contact' = data
         \/ bin # <<>> /\ table' = t /\ contact' = [data EXCEPT ![front] = Pinged(@)]
  BY DEF OnSmallTimer, IsLeaf, TimerData
<1>2. contact \in [Ids -> Contacts] /\ Good(table, contact)
  BY <1>1 DEF IInv
<1>3. Good(t, contact) /\ DOMAIN t.bins = DOMAIN table.bins /\ In(t) \subseteq In(table)
  <2> DEFINE q == t
  <2>1. q = Discarded(table, z)
    OBVIOUS
  <2> HIDE DEF q
  <2>2. Good(q, contact) /\ DOMAIN q.bins = DOMAIN table.bins /\ In(q) \subseteq In(table)
    BY <2>1, <1>1, <1>2, DiscardedKeeps
  <2> QED
    BY <2>2 DEF q
<1> HIDE DEF t
<1>4. /\ data \in [Ids -> Contacts] /\ Good(t, data)
      /\ \A id \in In(t) : data[id].addr = contact[id].addr
  <2> DEFINE q == data
  <2>1. q = TimerData(t, z)
    OBVIOUS
  <2>2. z \in DOMAIN t.bins
    BY <1>1, <1>3
  <2> HIDE DEF q
  <2>3. /\ q \in [Ids -> Contacts] /\ Good(t, q)
        /\ \A id \in In(t) : q[id].addr = contact[id].addr
    BY <2>1, <2>2, <1>2, <1>3, DataAfterTimer
  <2> QED
    BY <2>3 DEF q
<1> HIDE DEF data
<1>5. z \in DOMAIN t.bins /\ bin \in Seq(Ids) /\ ToSet(bin) \subseteq In(t) /\ In(t) \subseteq Ids
  BY <1>1, <1>3, BinsOfTable DEF Good, Sound
<1>6. bin # <<>> => front \in ToSet(bin) /\ front \in Ids
  <2> HIDE DEF bin
  <2>1. bin # <<>> => 1 \in DOMAIN bin /\ Head(bin) = bin[1] /\ bin[1] \in Ids
    BY <1>5
  <2> QED
    BY <2>1 DEF ToSet
<1>7. ASSUME Good(table', contact'), contact' \in [Ids -> Contacts], In(table') = In(t),
             \A id \in In(t) : contact'[id].addr = data[id].addr
      PROVE  IInv' /\ [Abstract!Next]_Known
  <2>1. IInv'
    BY <1>1, <1>7 DEF IInv
  <2>2. Abstract!Next
    BY <1>3, <1>4, <1>7, KnownIsForgotten
  <2> QED
    BY <2>1, <2>2
<1>8. CASE table' = t /\ contact' = data
  BY <1>4, <1>7, <1>8
<1>9. CASE bin # <<>> /\ table' = [t EXCEPT !.bins[z] = PushToBottom(@, front)] /\ contact' = data
  <2>1. front \in ToSet(t.bins[z])
    BY <1>6, <1>9
  <2> DEFINE r == table'
  <2>2. r = [t EXCEPT !.bins[z] = PushToBottom(@, front)]
    BY <1>9
  <2> HIDE DEF front, r
  <2>3. Good(r, data) /\ In(r) = In(t)
    BY <2>1, <2>2, <1>4, <1>5, TurnKeeps
  <2>4. Good(table', contact') /\ In(table') = In(t)
    BY <2>3, <1>9 DEF r
  <2> QED
    BY <2>4, <1>4, <1>7, <1>9
<1>10. CASE bin # <<>> /\ table' = t /\ contact' = [data EXCEPT ![front] = Pinged(@)]
  <2>1. front \in Ids
    BY <1>6, <1>10
  <2> HIDE DEF front
  <2> DEFINE c == Pinged(data[front])
  <2>2. c \in Contacts /\ c.addr = data[front].addr
    <3>1. data[front] \in Contacts
      BY <1>4, <2>1
    <3> QED
      BY <3>1, PingedIs
  <2>3. contact' = [data EXCEPT ![front] = c]
    BY <1>10
  <2> HIDE DEF c
  <2>4. contact' \in [Ids -> Contacts] /\ contact'[front] = c /\ \A x \in Ids : x # front => contact'[x] = data[x]
    BY <2>1, <2>2, <2>3, <1>4, ContactChanges
  <2>5. \A x \in In(t) : contact'[x].addr = data[x].addr
    BY <2>2, <2>4, <1>5
  <2>6. Good(t, contact')
    BY <2>5, <1>4, GoodOfOthers
  <2>7. Good(table', contact') /\ In(table') = In(t)
    BY <2>6, <1>10
  <2> QED
    BY <2>4, <2>5, <2>7, <1>7
<1> QED
  BY <1>1, <1>8, <1>9, <1>10

\* Kad starts, with a root zone and what the file has.
LEMMA StepStart ==
    ASSUME IInv, Start
    PROVE  IInv' /\ [Abstract!Next]_Known
<1> DEFINE s == [State EXCEPT !.table = NewZones(@, {Root})]
           u == NewZones(table, {Root})
<1>1. PICK file \in Files : table' = Read(s, file).table /\ contact' = Read(s, file).contact
  BY DEF Start, Becomes
<1>2. ~ running /\ running' = TRUE /\ table = Empty /\ contact \in [Ids -> Contacts]
  BY DEF Start, IInv
<1>3. file \in Seq(Offer)
  <2>1. file \in Seq(Offers) /\ Offers \subseteq Offer
    BY RoutingAssumption
  <2> QED
    BY <2>1
<1>4. Sound(Empty, contact) /\ DOMAIN Empty.bins = {} /\ Empty.nodes = {} /\ Empty.events = {} /\ In(Empty) = {}
  <2> DEFINE b == [z \in {} |-> <<>>]
             c == [a \in Addrs |-> 0]
             e == Empty
  <2>0. DOMAIN b = {} /\ b = [z \in DOMAIN b |-> b[z]]
    OBVIOUS
  <2>1. e = [bins |-> b, tracked |-> c, nodes |-> {}, events |-> {}]
    BY DEF Empty
  <2>2. c \in [Addrs -> Int] /\ \A a \in Addrs : c[a] = 0
    OBVIOUS
  <2> HIDE DEF b, c, e
  <2>3. e.bins = b /\ e.tracked = c /\ e.nodes = {} /\ e.events = {}
    BY <2>1
  <2>4. e = [bins |-> e.bins, tracked |-> e.tracked, nodes |-> e.nodes, events |-> e.events]
    BY <2>1, <2>3
  <2>5. e \in Tables
    BY <2>0, <2>2, <2>3, <2>4, TableIs
  <2>6. Placed(e) /\ Once(e) /\ In(e) = {}
    BY <2>0, <2>3 DEF Placed, Once, In
  <2>7. Books({}, contact, c)
    BY <2>2 DEF Books
  <2>8. Sound(e, contact)
    BY <2>3, <2>5, <2>6, <2>7 DEF Sound
  <2> QED
    BY <2>0, <2>3, <2>6, <2>8 DEF e
<1>5. Good(u, contact)
  <2> DEFINE r == u
             Z == {Root}
             t == table
  <2>1. Z \in SUBSET Zones /\ Z \cap DOMAIN t.bins = {} /\ Sound(t, contact) /\ r = NewZones(t, Z)
    BY <1>2, <1>4, RootIsAll
  <2>2. DOMAIN t.bins = {} /\ t.nodes = {} /\ t.events = {} /\ In(t) = {}
    BY <1>2, <1>4
  <2> HIDE DEF r, Z, t
  <2>3. /\ Sound(r, contact) /\ In(r) = In(t) /\ r.nodes = t.nodes
        /\ DOMAIN r.bins = DOMAIN t.bins \cup Z /\ r.events = t.events \cup Z
    BY <2>1, NewZonesKeep
  <2>4. DOMAIN r.bins = Z /\ r.events = Z /\ r.nodes = {} /\ In(r) = {}
    BY <2>2, <2>3
  <2>5. Tiled(Z)
    BY RootIsAll DEF Tiled, Z
  <2>6. Good(r, contact)
    BY <2>3, <2>4, <2>5 DEF Good
  <2> QED
    BY <2>6 DEF r
<1>6. s = [table |-> u, contact |-> contact]
  BY DEF State
<1> HIDE DEF s, u
<1>7. Fine(s)
  <2>1. s.table = u /\ s.contact = contact /\ s = [table |-> s.table, contact |-> s.contact]
    BY <1>6, StateIs
  <2> QED
    BY <2>1, <1>2, <1>5 DEF Fine
<1> DEFINE r == Read(s, file)
<1>8. Fine(r)
  BY <1>3, <1>7, ReadKeeps
<1>9. table' = r.table /\ contact' = r.contact
  BY <1>1
<1> HIDE DEF r
<1>10. Good(table', contact') /\ contact' \in [Ids -> Contacts]
  BY <1>8, <1>9 DEF Fine
<1>11. IInv'
  BY <1>2, <1>10 DEF IInv
<1>12. DOMAIN Known = {}
  BY <1>2, EmptyIsEmpty, KnownIs
<1>13. In(table') \subseteq Ids /\ Books(In(table'), contact', table'.tracked)
  BY <1>10, BinsOfTable DEF Good, Sound
<1>14. Abstract!Load
  <2>1. \A id \in In(table') : Known'[id] \in Addrs
    BY <1>13, KnownIs DEF Books
  <2>2. Known' \in [DOMAIN Known' -> Addrs]
    BY <2>1, KnownIs
  <2>3. \A x, y \in DOMAIN Known' : Known'[x] = Known'[y] => x = y
    BY <1>13, KnownIs DEF Books
  <2>4. DOMAIN Known' \subseteq Ids
    BY <1>13, KnownIs
  <2> QED
    BY <1>12, <2>2, <2>3, <2>4 DEF Abstract!Load
<1> QED
  BY <1>11, <1>14 DEF Abstract!Next

\* Kad stops, and every count is zero again.
LEMMA StepStop ==
    ASSUME IInv, Stop
    PROVE  IInv' /\ [Abstract!Next]_Known
<1> DEFINE D == DOMAIN table.bins
           r == DeleteBins(table, contact, D)
<1>1. /\ running /\ running' = FALSE /\ table' = [r EXCEPT !.nodes = {}, !.events = {}]
      /\ contact' = [id \in Ids |-> NoContact]
  BY DEF Stop
<1>2. Sound(table, contact)
  BY <1>1 DEF IInv, Good
<1>3. /\ Sound(r, contact) /\ DOMAIN r.bins = {}
  <2> DEFINE q == r
  <2>1. q = DeleteBins(table, contact, D) /\ D \subseteq DOMAIN table.bins
    OBVIOUS
  <2> HIDE DEF q
  <2>2. Sound(q, contact) /\ DOMAIN q.bins = DOMAIN table.bins \ D
    BY <2>1, <1>2, DeleteBinsKeep
  <2> QED
    BY <2>2 DEF q
<1> HIDE DEF r
<1>4. r \in Tables /\ Books(In(r), contact, r.tracked) /\ In(r) = {}
  BY <1>3 DEF Sound, In
<1>5. \A a \in Addrs : r.tracked[a] = 0
  BY <1>4 DEF Books
<1>6. /\ r = [bins |-> r.bins, tracked |-> r.tracked, nodes |-> r.nodes, events |-> r.events]
      /\ r.bins = [z \in DOMAIN r.bins |-> r.bins[z]]
      /\ r.tracked \in [Addrs -> Int]
  BY <1>4, TableIs
<1>7. r.bins = [z \in {} |-> <<>>] /\ r.tracked = [a \in Addrs |-> 0]
  <2>1. r.bins = [z \in {} |-> r.bins[z]]
    BY <1>3, <1>6
  <2>2. [z \in {} |-> r.bins[z]] = [z \in {} |-> <<>>]
    OBVIOUS
  <2>3. r.tracked = [a \in Addrs |-> r.tracked[a]]
    BY <1>6
  <2>4. [a \in Addrs |-> r.tracked[a]] = [a \in Addrs |-> 0]
    BY <1>5
  <2> QED
    BY <2>1, <2>2, <2>3, <2>4
<1>8. table' = [bins |-> r.bins, tracked |-> r.tracked, nodes |-> {}, events |-> {}]
  BY <1>1, <1>6
<1>9. table' = Empty
  BY <1>7, <1>8 DEF Empty
<1>10. contact' \in [Ids -> Contacts]
  BY <1>1, NoContactIs
<1>11. In(table') = {}
  BY <1>9, EmptyIsEmpty
<1>12. Abstract!Next
  BY <1>11, KnownIsForgotten
<1> QED
  BY <1>1, <1>9, <1>10, <1>12 DEF IInv

\* Nothing happens.
LEMMA StepStutter ==
    ASSUME IInv, UNCHANGED vars
    PROVE  IInv' /\ [Abstract!Next]_Known
<1>1. running' = running /\ table' = table /\ contact' = contact
  BY DEF vars
<1>2. Known' = Known
  BY <1>1, KnownStays
<1> QED
  BY <1>1, <1>2 DEF IInv

\* At first Kad is stopped.
LEMMA InitInv ==
    ASSUME Init
    PROVE  IInv /\ Abstract!Init
<1>1. running = FALSE /\ table = Empty /\ contact = [id \in Ids |-> NoContact]
  BY DEF Init
<1>2. IInv
  BY <1>1, NoContactIs DEF IInv
<1>3. Abstract!Init
  BY <1>1, EmptyIsEmpty, KnownIs DEF Abstract!Init
<1> QED
  BY <1>2, <1>3

\* Every step keeps the invariant, and is a step of RoutingTable or hidden from
\* its users.
LEMMA StepInv ==
    ASSUME IInv, [Next]_vars
    PROVE  IInv' /\ [Abstract!Next]_Known
<1>1. \A o \in Offers : o \in Offer
  BY RoutingAssumption
<1>2. \A o \in Hellos : o \in Offer
  BY RoutingAssumption
<1>3. ASSUME NEW o \in Offers, Add(o) PROVE IInv' /\ [Abstract!Next]_Known
  BY <1>1, <1>3, StepAdd
<1>4. ASSUME NEW o \in Hellos, Update(o) PROVE IInv' /\ [Abstract!Next]_Known
  BY <1>2, <1>4, StepUpdate
<1> QED
  BY <1>3, <1>4, StepStart, StepStop, StepConsolidate, StepExpire, StepTimer, StepStutter DEF Next

----------------------------------------------------------------------------
(* What is claimed.                                                        *)

\* Invariance of IInv: as long as Kad runs the table is good, and a stopped Kad
\* has none (CRoutingZone::Init, ~CRoutingZone).
THEOREM Invariance == Spec => []IInv
<1>1. Init => IInv
  BY InitInv
<1>2. IInv /\ [Next]_vars => IInv'
  BY StepInv
<1> QED
  BY <1>1, <1>2, PTL DEF Spec

\* The count of an address, by which CRoutingBin::AddContact and MayMove refuse
\* others, is the number of contacts that have it: it is never lost and never falls
\* below zero, however the tree is split, merged, read, timed, stopped and started.
THEOREM CountsStayTrue == Spec => []CountsAreTrue
<1>1. IInv => CountsAreTrue
  <2> SUFFICES ASSUME IInv, NEW a \in Addrs
               PROVE  table.tracked[a] = Cardinality({id \in InBins : contact[id].addr = a})
    BY DEF CountsAreTrue
  <2> DEFINE S == {id \in In(table) : contact[id].addr = a}
  <2>1. {id \in InBins : contact[id].addr = a} = S
    BY KnownIs
  <2>2. CASE running
    <3>1. Books(In(table), contact, table.tracked)
      BY <2>2 DEF IInv, Good, Sound
    <3>2. table.tracked[a] = IF \E id \in In(table) : contact[id].addr = a THEN 1 ELSE 0
      BY <3>1 DEF Books
    <3>3. CASE \E id \in In(table) : contact[id].addr = a
      <4>1. PICK id \in In(table) : contact[id].addr = a
        BY <3>3
      <4>2. S = {id}
        BY <3>1, <4>1 DEF Books
      <4> HIDE DEF S
      <4>3. Cardinality(S) = 1
        BY <4>2, FS_Singleton
      <4> QED
        BY <2>1, <3>2, <3>3, <4>3
    <3>4. CASE ~ \E id \in In(table) : contact[id].addr = a
      <4>1. S = {}
        BY <3>4
      <4> HIDE DEF S
      <4>2. Cardinality(S) = 0
        BY <4>1, FS_EmptySet
      <4> QED
        BY <2>1, <3>2, <3>4, <4>2
    <3> QED
      BY <3>3, <3>4
  <2>3. CASE ~ running
    <3>1. table = Empty
      BY <2>3 DEF IInv
    <3>2. table.tracked[a] = 0
      BY <3>1 DEF Empty
    <3>3. S = {}
      BY <3>1, EmptyIsEmpty
    <3> HIDE DEF S
    <3>4. Cardinality(S) = 0
      BY <3>3, FS_EmptySet
    <3> QED
      BY <2>1, <3>2, <3>4
  <2> QED
    BY <2>2, <2>3
<1> QED
  BY <1>1, Invariance, PTL

\* The leaves divide the distances between them and each has its timer, none is
\* left to a deleted zone; every contact stands once, in the leaf where GetContact
\* looks for it, and s_ContactsSet is what is in the bins.
THEOREM TreeStaysSound == Spec => []TreeIsSound
<1>1. IInv => TreeIsSound
  <2> SUFFICES ASSUME IInv PROVE TreeIsSound
    OBVIOUS
  <2>1. CASE ~ running
    <3>1. table = Empty
      BY <2>1 DEF IInv
    <3>2. table.nodes = {} /\ table.events = {} /\ DOMAIN table.bins = {}
      BY <3>1 DEF Empty
    <3>3. InBins = {}
      BY <3>1, EmptyIsEmpty, KnownIs
    <3> QED
      BY <2>1, <3>2, <3>3 DEF TreeIsSound
  <2>2. CASE running
    <3>1. Good(table, contact)
      BY <2>2 DEF IInv
    <3>2. table.nodes = InBins /\ table.events = DOMAIN table.bins /\ Tiled(DOMAIN table.bins) /\ Placed(table)
      BY <3>1, KnownIs DEF Good, Sound
    <3>3. ASSUME NEW id \in Distances \ {0} PROVE Cardinality({z \in DOMAIN table.bins : Covers(z, id)}) = 1
      <4>1. PICK z \in DOMAIN table.bins : Covers(z, id) /\ \A y \in DOMAIN table.bins : Covers(y, id) => y = z
        BY <3>2 DEF Tiled
      <4> DEFINE S == {y \in DOMAIN table.bins : Covers(y, id)}
      <4>2. S = {z}
        BY <4>1
      <4> HIDE DEF S
      <4>3. Cardinality(S) = 1
        BY <4>2, FS_Singleton
      <4> QED
        BY <4>3 DEF S
    <3>4. ASSUME NEW z \in DOMAIN table.bins
          PROVE  IsInjective(table.bins[z]) /\ \A i \in DOMAIN table.bins[z] : Covers(z, table.bins[z][i])
      <4>1. IsBin(table.bins[z]) /\ \A id \in ToSet(table.bins[z]) : Covers(z, id)
        BY <3>2 DEF Placed
      <4>2. \A i \in DOMAIN table.bins[z] : table.bins[z][i] \in ToSet(table.bins[z])
        BY DEF ToSet
      <4> QED
        BY <4>1, <4>2 DEF IsBin
    <3> QED
      BY <3>2, <3>3, <3>4 DEF TreeIsSound
  <2> QED
    BY <2>1, <2>2
<1> QED
  BY <1>1, Invariance, PTL

\* To those who use it the tree of zones is a plain set of contacts without a
\* shared address: splits, merges and turns in the bins are hidden from them, and a
\* step adds one, changes the address of one, loads a file, or forgets some.
THEOREM TableIsRoutingTable == Spec => IsRoutingTable
<1>1. Init => Abstract!Init
  BY InitInv
<1>2. IInv /\ [Next]_vars => [Abstract!Next]_Known
  BY StepInv
<1> QED
  BY <1>1, <1>2, Invariance, PTL DEF Spec, IsRoutingTable, Abstract!Spec

============================================================================
