------------------------- MODULE SamSessionProofs -------------------------
(***************************************************************************)
(* Both parties of a SAM connection get what the other one said, and the   *)
(* line of a peer goes to the application, for every set of sessions, any  *)
(* datagrams, and any way the connection cuts what is read and written.    *)
(*                                                                         *)
(* Nothing is lost on the way because the bytes of a message only change   *)
(* places.  UpOK puts the places of one direction in a row (the queue,     *)
(* what is half written, the connection), DownOK those of the other (the   *)
(* contexts payloadCtx and readCtx, what the application took, what was    *)
(* put back, the connection), and says that this row carries the messages  *)
(* that were not yet heard.  ReadOK says how a handler that was left in    *)
(* the middle of a message goes on.  For the streams it takes ControlOK:   *)
(* what a session expects is what the answer to come will say, so that it  *)
(* hands over the socket at the second answer and reads nothing behind it. *)
(*                                                                         *)
(* It does not hold of an accepter whose peer sends while the handler of   *)
(* the answer still runs, which reads on in the socket it has just handed  *)
(* over; hence the assumption that "eager" is no part of Env.              *)
(***************************************************************************)
EXTENDS SamSession, SequenceTheorems, FiniteSetTheorems, TLAPS

----------------------------------------------------------------------------
(* The bytes of messages                                                  *)

\* What messages are about, and what they are.
Names == {"HELLO", "GENERATE", "CREATE", "NAMING", "CONNECT", "ACCEPT", "none", "line", ""}
Things == Names \cup {Outgoing[k] : k \in Nat} \cup {Incoming[k] : k \in Nat}
Messages == {"COMMAND", "DATAGRAM", "OK", "ERROR", "PEER", "garbled"} \X Things
Unit == Messages \X Nat

\* A message is two or four units long.
LEMMA SizeOf == \A m : Size(m) \in {2, 4} /\ Size(m) \in Nat
BY DEF Size

\* The units of a message are told apart by their number.
LEMMA UnitsOf ==
    ASSUME NEW m \in Messages
    PROVE  /\ Units(m) \in Seq(Unit) /\ Len(Units(m)) = Size(m)
           /\ \A j \in 1 .. Size(m) : Units(m)[j] = <<m, j>>
<1>1. Size(m) \in Nat
  BY SizeOf
<1>2. \A j \in 1 .. Size(m) : <<m, j>> \in Unit
  BY DEF Unit
<1> DEFINE n == Size(m)
<1> HIDE DEF n
<1>3. [k \in 1 .. n |-> <<m, k>>] \in Seq(Unit) /\ Len([k \in 1 .. n |-> <<m, k>>]) = n
  BY <1>1, <1>2 DEF n
<1> QED
  BY <1>1, <1>3 DEF Units, n

\* What is before and behind a place of a sequence.
LEMMA AfterIs ==
    ASSUME NEW S, NEW s \in Seq(S), NEW n \in 0 .. Len(s)
    PROVE  /\ After(s, n) \in Seq(S) /\ Len(After(s, n)) = Len(s) - n
           /\ \A i \in 1 .. Len(s) - n : After(s, n)[i] = s[n + i]
           /\ Upto(s, n) \in Seq(S) /\ Len(Upto(s, n)) = n
           /\ \A i \in 1 .. n : Upto(s, n)[i] = s[i]
<1>1. Len(s) \in Nat /\ \A i \in 1 .. Len(s) : s[i] \in S
  BY LenProperties, ElementOfSeq
<1>2. \A i \in n + 1 .. Len(s) : s[i] \in S
  BY <1>1
<1>3. \A i \in 1 .. n : s[i] \in S
  BY <1>1
<1>4. n + 1 \in Int /\ Len(s) \in Int /\ n \in Int
  BY <1>1
<1>5. /\ SubSeq(s, n + 1, Len(s)) \in Seq(S)
      /\ Len(SubSeq(s, n + 1, Len(s))) = IF n + 1 <= Len(s) THEN Len(s) - (n + 1) + 1 ELSE 0
      /\ \A i \in 1 .. Len(s) - (n + 1) + 1 : SubSeq(s, n + 1, Len(s))[i] = s[n + 1 + i - 1]
  BY <1>2, <1>4, SubSeqProperties
<1>6. /\ SubSeq(s, 1, n) \in Seq(S)
      /\ Len(SubSeq(s, 1, n)) = IF 1 <= n THEN n - 1 + 1 ELSE 0
      /\ \A i \in 1 .. n - 1 + 1 : SubSeq(s, 1, n)[i] = s[1 + i - 1]
  BY <1>3, <1>4, SubSeqProperties
<1> QED
  BY <1>1, <1>5, <1>6 DEF After, Upto

\* The two parts of a sequence make the sequence.
LEMMA Split ==
    ASSUME NEW S, NEW s \in Seq(S), NEW n \in 0 .. Len(s)
    PROVE  Upto(s, n) \o After(s, n) = s
<1>1. Len(s) \in Nat
  BY LenProperties
<1>2. n + 1 - 1 = n /\ 1 \in 1 .. Len(s) + 1 /\ n \in 1 - 1 .. Len(s) /\ Len(s) \in n .. Len(s)
  BY <1>1
<1>3. SubSeq(s, 1, n) \o SubSeq(s, n + 1, Len(s)) = SubSeq(s, 1, Len(s))
  BY <1>2, ConcatAdjacentSubSeq
<1> QED
  BY <1>3, SubSeqFull DEF Upto, After

\* U is the units of the messages of s from number n + 1 to m, one after the
\* other.  at[k] units are of the messages up to number k.
Carries(U, s, n, m) ==
    /\ n \in Nat /\ m \in Nat /\ n <= m /\ m <= Len(s)
    /\ \E at \in [n .. m -> 0 .. Len(U)] :
          /\ at[n] = 0 /\ at[m] = Len(U)
          /\ \A k \in n .. m - 1 :
                /\ at[k + 1] = at[k] + Size(s[k + 1])
                /\ \A j \in 1 .. Size(s[k + 1]) : U[at[k] + j] = <<s[k + 1], j>>
          /\ \A k, l \in n .. m : k <= l => at[k] <= at[l]

\* No bytes carry no messages.
LEMMA CarriesNone ==
    ASSUME NEW s, NEW n \in Nat, n <= Len(s)
    PROVE  Carries(<<>>, s, n, n)
<1> DEFINE at == [k \in n .. n |-> 0]
<1>1. at \in [n .. n -> 0 .. Len(<<>>)] /\ at[n] = 0 /\ Len(<<>>) = 0
  OBVIOUS
<1>2. n .. n - 1 = {} /\ \A k, l \in n .. n : at[k] <= at[l]
  OBVIOUS
<1> HIDE DEF at
<1> QED
  BY <1>1, <1>2 DEF Carries

\* Which messages bytes carry depends on these messages alone.
LEMMA CarriesSame ==
    ASSUME NEW U, NEW s, NEW t, NEW n, NEW m, Carries(U, s, n, m), m <= Len(t),
           \A k \in n + 1 .. m : t[k] = s[k]
    PROVE  Carries(U, t, n, m)
<1>1. \A k \in n .. m - 1 : k + 1 \in n + 1 .. m
  BY DEF Carries
<1> QED
  BY <1>1 DEF Carries

\* The first bytes are the units of the first message.
LEMMA CarriesFirst ==
    ASSUME NEW U \in Seq(Unit), NEW s, NEW n, NEW m, Carries(U, s, n, m)
    PROVE  /\ U = <<>> <=> n = m
           /\ U # <<>> =>
                /\ n < m /\ Size(s[n + 1]) <= Len(U)
                /\ \A j \in 1 .. Size(s[n + 1]) : U[j] = <<s[n + 1], j>>
                /\ n + 1 = m => Len(U) = Size(s[n + 1])
<1>1. PICK at \in [n .. m -> 0 .. Len(U)] :
          /\ at[n] = 0 /\ at[m] = Len(U)
          /\ \A k \in n .. m - 1 :
                /\ at[k + 1] = at[k] + Size(s[k + 1])
                /\ \A j \in 1 .. Size(s[k + 1]) : U[at[k] + j] = <<s[k + 1], j>>
          /\ \A k, l \in n .. m : k <= l => at[k] <= at[l]
  BY DEF Carries
<1>2. n \in Nat /\ m \in Nat /\ n <= m
  BY DEF Carries
<1>3. Len(U) \in Nat /\ (U = <<>> <=> Len(U) = 0)
  BY EmptySeq, LenProperties
<1>4. CASE n = m
  BY <1>1, <1>3, <1>4
<1>5. CASE n # m
  <2>1. n \in n .. m - 1 /\ n + 1 \in n .. m
    BY <1>2, <1>5
  <2>2. at[n + 1] = Size(s[n + 1]) /\ at[n + 1] <= Len(U) /\ Size(s[n + 1]) \in {2, 4}
    BY <1>1, <2>1, SizeOf
  <2>3. \A j \in 1 .. Size(s[n + 1]) : U[j] = <<s[n + 1], j>>
    BY <1>1, <2>1, SizeOf
  <2> QED
    BY <1>1, <1>2, <1>3, <1>5, <2>2, <2>3
<1> QED
  BY <1>4, <1>5

\* Without the units of the first message, the bytes carry the others.
LEMMA CarriesRest ==
    ASSUME NEW U \in Seq(Unit), NEW s, NEW n, NEW m, Carries(U, s, n, m), n < m
    PROVE  Carries(After(U, Size(s[n + 1])), s, n + 1, m)
<1>1. PICK at \in [n .. m -> 0 .. Len(U)] :
          /\ at[n] = 0 /\ at[m] = Len(U)
          /\ \A k \in n .. m - 1 :
                /\ at[k + 1] = at[k] + Size(s[k + 1])
                /\ \A j \in 1 .. Size(s[k + 1]) : U[at[k] + j] = <<s[k + 1], j>>
          /\ \A k, l \in n .. m : k <= l => at[k] <= at[l]
  BY DEF Carries
<1>2. n \in Nat /\ m \in Nat /\ n + 1 <= m /\ m <= Len(s) /\ n + 1 \in Nat
  BY DEF Carries
<1>3. Len(U) \in Nat
  BY LenProperties
<1> DEFINE z == Size(s[n + 1])
           V == After(U, z)
           bt == [k \in n + 1 .. m |-> at[k] - z]
<1>4. z \in {2, 4} /\ at[n + 1] = z /\ z <= Len(U)
  BY <1>1, <1>2, SizeOf
<1> HIDE DEF z
<1>5. V \in Seq(Unit) /\ Len(V) = Len(U) - z /\ \A i \in 1 .. Len(U) - z : V[i] = U[z + i]
  <2>1. z \in 0 .. Len(U)
    BY <1>3, <1>4
  <2> QED
    BY <2>1, AfterIs
<1> HIDE DEF V
<1>6. \A k \in n + 1 .. m : at[k] \in z .. Len(U)
  BY <1>1, <1>2, <1>4
<1>7. bt \in [n + 1 .. m -> 0 .. Len(V)]
  BY <1>3, <1>4, <1>5, <1>6
<1>8. bt[n + 1] = 0 /\ bt[m] = Len(V)
  BY <1>1, <1>2, <1>3, <1>4, <1>5
<1>9. ASSUME NEW k \in n + 1 .. m - 1
      PROVE  /\ bt[k + 1] = bt[k] + Size(s[k + 1])
             /\ \A j \in 1 .. Size(s[k + 1]) : V[bt[k] + j] = <<s[k + 1], j>>
  <2>1. k \in n .. m - 1 /\ k \in n + 1 .. m /\ k + 1 \in n + 1 .. m
    BY <1>2
  <2>2. at[k + 1] = at[k] + Size(s[k + 1]) /\ Size(s[k + 1]) \in {2, 4}
    BY <1>1, <2>1, SizeOf
  <2>3. bt[k + 1] = at[k + 1] - z /\ bt[k] = at[k] - z
    BY <2>1
  <2>4. at[k] \in z .. Len(U) /\ at[k + 1] \in z .. Len(U)
    BY <1>6, <2>1
  <2> DEFINE a == at[k]
             b == at[k + 1]
             x == Size(s[k + 1])
  <2>5. a \in Nat /\ b \in Nat /\ z \in Nat /\ x \in Nat /\ b = a + x /\ z <= a /\ b <= Len(U)
    BY <1>3, <1>4, <2>2, <2>4
  <2>6. ASSUME NEW j \in 1 .. Size(s[k + 1])
        PROVE  V[bt[k] + j] = <<s[k + 1], j>>
    <3>1. j \in 1 .. x /\ U[a + j] = <<s[k + 1], j>>
      BY <1>1, <2>1
    <3> HIDE DEF a, b, x
    <3>2. a - z + j \in 1 .. Len(U) - z /\ z + (a - z + j) = a + j
      BY <1>3, <2>5, <3>1
    <3>3. V[a - z + j] = U[a + j]
      BY <1>5, <3>2
    <3> QED
      BY <2>3, <3>1, <3>3 DEF a
  <2>7. b - z = a - z + x
    <3> HIDE DEF a, b, x
    <3> QED
      BY <2>5
  <2> QED
    BY <2>3, <2>6, <2>7
<1>10. ASSUME NEW k \in n + 1 .. m, NEW l \in n + 1 .. m, k <= l
       PROVE  bt[k] <= bt[l]
  <2>1. at[k] <= at[l] /\ at[k] \in z .. Len(U) /\ at[l] \in z .. Len(U)
    BY <1>1, <1>2, <1>6, <1>10
  <2> QED
    BY <1>3, <1>4, <2>1
<1> HIDE DEF bt
<1>11. Carries(V, s, n + 1, m)
  BY <1>2, <1>7, <1>8, <1>9, <1>10 DEF Carries
<1> QED
  BY <1>11 DEF V, z

\* With the units of another message at the end, they carry this one too.
LEMMA CarriesMore ==
    ASSUME NEW U \in Seq(Unit), NEW s \in Seq(Messages), NEW n, NEW m, Carries(U, s, n, m), m < Len(s)
    PROVE  Carries(U \o Units(s[m + 1]), s, n, m + 1)
<1>1. PICK at \in [n .. m -> 0 .. Len(U)] :
          /\ at[n] = 0 /\ at[m] = Len(U)
          /\ \A k \in n .. m - 1 :
                /\ at[k + 1] = at[k] + Size(s[k + 1])
                /\ \A j \in 1 .. Size(s[k + 1]) : U[at[k] + j] = <<s[k + 1], j>>
          /\ \A k, l \in n .. m : k <= l => at[k] <= at[l]
  BY DEF Carries
<1>2. n \in Nat /\ m \in Nat /\ n <= m /\ m + 1 <= Len(s) /\ Len(s) \in Nat
  BY LenProperties DEF Carries
<1>3. Len(U) \in Nat
  BY LenProperties
<1> DEFINE x == s[m + 1]
           z == Size(x)
           V == U \o Units(x)
           bt == [k \in n .. m + 1 |-> IF k = m + 1 THEN Len(U) + z ELSE at[k]]
<1>4. x \in Messages /\ z \in {2, 4}
  BY <1>2, ElementOfSeq, SizeOf
<1>5. Units(x) \in Seq(Unit) /\ Len(Units(x)) = z /\ \A j \in 1 .. z : Units(x)[j] = <<x, j>>
  BY <1>4, UnitsOf
<1> HIDE DEF z, x
<1>6. /\ V \in Seq(Unit) /\ Len(V) = Len(U) + z
      /\ \A i \in 1 .. Len(U) + z : V[i] = IF i <= Len(U) THEN U[i] ELSE Units(x)[i - Len(U)]
  BY <1>5, ConcatProperties
<1> HIDE DEF V
<1>7. \A k \in n .. m : at[k] \in 0 .. Len(U) /\ bt[k] = at[k]
  BY <1>1, <1>2
<1>8. bt[m + 1] = Len(U) + z
  BY <1>2
<1>9. bt \in [n .. m + 1 -> 0 .. Len(V)]
  BY <1>1, <1>2, <1>3, <1>4, <1>6
<1> HIDE DEF bt
<1>10. bt[n] = 0 /\ bt[m + 1] = Len(V)
  BY <1>1, <1>2, <1>6, <1>7, <1>8
<1>11. ASSUME NEW k \in n .. m
       PROVE  /\ bt[k + 1] = bt[k] + Size(s[k + 1])
              /\ \A j \in 1 .. Size(s[k + 1]) : V[bt[k] + j] = <<s[k + 1], j>>
  <2>1. CASE k = m
    <3>1. bt[k] = Len(U) /\ s[k + 1] = x /\ Size(s[k + 1]) = z
      BY <1>1, <1>2, <1>7, <2>1 DEF x, z
    <3>2. ASSUME NEW j \in 1 .. z
          PROVE  V[Len(U) + j] = <<x, j>>
      <4>1. Len(U) + j \in 1 .. Len(U) + z /\ ~ (Len(U) + j <= Len(U)) /\ Len(U) + j - Len(U) = j
        BY <1>3, <1>4
      <4>2. V[Len(U) + j] = Units(x)[j]
        BY <1>6, <4>1
      <4> QED
        BY <1>5, <4>2
    <3> QED
      BY <1>8, <2>1, <3>1, <3>2
  <2>2. CASE k # m
    <3>1. k \in n .. m - 1 /\ k + 1 \in n .. m
      BY <1>2, <2>2
    <3>2. at[k + 1] = at[k] + Size(s[k + 1]) /\ Size(s[k + 1]) \in {2, 4}
      BY <1>1, <3>1, SizeOf
    <3>3. bt[k + 1] = at[k + 1] /\ bt[k] = at[k] /\ at[k] \in 0 .. Len(U) /\ at[k + 1] \in 0 .. Len(U)
      BY <1>7, <3>1
    <3>4. ASSUME NEW j \in 1 .. Size(s[k + 1])
          PROVE  V[bt[k] + j] = <<s[k + 1], j>>
      <4>1. at[k] + j \in 1 .. Len(U) + z /\ at[k] + j <= Len(U)
        BY <1>3, <1>4, <3>2, <3>3
      <4> QED
        BY <1>1, <1>6, <3>1, <3>3, <4>1
    <3> QED
      BY <3>2, <3>3, <3>4
  <2> QED
    BY <2>1, <2>2
<1>12. ASSUME NEW k \in n .. m + 1, NEW l \in n .. m + 1, k <= l
       PROVE  bt[k] <= bt[l]
  <2>1. CASE l = m + 1
    BY <1>3, <1>4, <1>6, <1>8, <1>9, <2>1
  <2>2. CASE l # m + 1
    BY <1>1, <1>2, <1>7, <1>12, <2>2
  <2> QED
    BY <2>1, <2>2
<1>13. n \in Nat /\ m + 1 \in Nat /\ n <= m + 1 /\ m + 1 <= Len(s) /\ n .. m + 1 - 1 = n .. m
  BY <1>2
<1> DEFINE o == m + 1
<1>14. ASSUME NEW k \in n .. o - 1
       PROVE  /\ bt[k + 1] = bt[k] + Size(s[k + 1])
              /\ \A j \in 1 .. Size(s[k + 1]) : V[bt[k] + j] = <<s[k + 1], j>>
  <2>1. k \in n .. m
    BY <1>2
  <2> QED
    BY <1>11, <2>1
<1>15. /\ n \in Nat /\ o \in Nat /\ n <= o /\ o <= Len(s)
       /\ bt \in [n .. o -> 0 .. Len(V)] /\ bt[n] = 0 /\ bt[o] = Len(V)
       /\ \A k, l \in n .. o : k <= l => bt[k] <= bt[l]
  BY <1>9, <1>10, <1>12, <1>13
<1> HIDE DEF o
<1>16. Carries(V, s, n, o)
  BY <1>14, <1>15 DEF Carries
<1> QED
  BY <1>16 DEF V, x, o

----------------------------------------------------------------------------
(* What the program says                                                  *)

\* What is behind a place of the first of two sequences.
LEMMA AfterConcat ==
    ASSUME NEW S, NEW a \in Seq(S), NEW b \in Seq(S), NEW z \in 0 .. Len(a)
    PROVE  After(a \o b, z) = After(a, z) \o b
<1>1. Len(a) \in Nat /\ Len(b) \in Nat
  BY LenProperties
<1>2. /\ a \o b \in Seq(S) /\ Len(a \o b) = Len(a) + Len(b)
      /\ \A i \in 1 .. Len(a) + Len(b) : (a \o b)[i] = IF i <= Len(a) THEN a[i] ELSE b[i - Len(a)]
  BY ConcatProperties
<1>3. z \in 0 .. Len(a \o b)
  BY <1>1, <1>2
<1>4. /\ After(a \o b, z) \in Seq(S) /\ Len(After(a \o b, z)) = Len(a \o b) - z
      /\ \A i \in 1 .. Len(a \o b) - z : After(a \o b, z)[i] = (a \o b)[z + i]
  BY <1>2, <1>3, AfterIs
<1>5. /\ After(a, z) \in Seq(S) /\ Len(After(a, z)) = Len(a) - z
      /\ \A i \in 1 .. Len(a) - z : After(a, z)[i] = a[z + i]
  BY AfterIs
<1>6. /\ After(a, z) \o b \in Seq(S) /\ Len(After(a, z) \o b) = Len(After(a, z)) + Len(b)
      /\ \A i \in 1 .. Len(After(a, z)) + Len(b) :
            (After(a, z) \o b)[i] = IF i <= Len(After(a, z)) THEN After(a, z)[i] ELSE b[i - Len(After(a, z))]
  BY <1>5, ConcatProperties
<1> DEFINE l == After(a \o b, z)
           r == After(a, z) \o b
<1>7. l \in Seq(S) /\ r \in Seq(S) /\ Len(l) = Len(r)
  BY <1>1, <1>2, <1>4, <1>5, <1>6
<1>8. ASSUME NEW i \in 1 .. Len(l)
      PROVE  l[i] = r[i]
  <2>1. i \in 1 .. Len(a) + Len(b) - z
    BY <1>2, <1>4
  <2>2. l[i] = (a \o b)[z + i]
    BY <1>2, <1>4, <2>1
  <2>3. CASE i <= Len(a) - z
    <3>1. z + i <= Len(a) /\ z + i \in 1 .. Len(a) + Len(b) /\ i \in 1 .. Len(a) - z
      BY <1>1, <2>1, <2>3
    <3> QED
      BY <1>1, <1>2, <1>5, <1>6, <2>1, <2>2, <3>1
  <2>4. CASE ~ (i <= Len(a) - z)
    <3>1. ~ (z + i <= Len(a)) /\ z + i \in 1 .. Len(a) + Len(b) /\ z + i - Len(a) = i - (Len(a) - z)
      BY <1>1, <2>1, <2>4
    <3>2. (a \o b)[z + i] = b[z + i - Len(a)]
      BY <1>2, <3>1
    <3>3. r[i] = b[i - (Len(a) - z)]
      BY <1>1, <1>5, <1>6, <2>1, <2>4
    <3> QED
      BY <2>2, <3>1, <3>2, <3>3
  <2> QED
    BY <2>3, <2>4
<1> HIDE DEF l, r
<1>9. l = r
  BY <1>7, <1>8, SeqEqual
<1> QED
  BY <1>9 DEF l, r

\* What was asked for is what the router got, what is on its way to it or half
\* written, and the queue, in this order.
UpOK ==
    /\ asked \in Seq(Messages) /\ queue \in Seq(Messages) /\ got \in Seq(Messages)
    /\ up \in Seq(Unit) /\ write \in Seq(Unit)
    /\ Len(queue) <= Len(asked)
    /\ \A k \in 1 .. Len(got) : got[k] = asked[k]
    /\ \A k \in 1 .. Len(queue) : queue[k] = asked[Len(asked) - Len(queue) + k]
    /\ Carries(up \o write, asked, Len(got), Len(asked) - Len(queue))

\* Something more is asked for, or not.
Extends ==
    \/ asked' = asked /\ queue' = queue
    \/ \E m \in Messages : asked' = Append(asked, m) /\ queue' = Append(queue, m)

\* A command or a datagram that sam_queue takes waits behind the others.
LEMMA UpExtends ==
    ASSUME UpOK, Extends, UNCHANGED <<up, write, got>>
    PROVE  UpOK'
<1>1. CASE asked' = asked /\ queue' = queue
  BY <1>1 DEF UpOK
<1>2. ASSUME NEW m \in Messages, asked' = Append(asked, m), queue' = Append(queue, m)
      PROVE  UpOK'
  <2>1. Len(asked) \in Nat /\ Len(queue) \in Nat /\ Len(queue) <= Len(asked)
    BY LenProperties DEF UpOK
  <2>2. /\ asked' \in Seq(Messages) /\ Len(asked') = Len(asked) + 1
        /\ \A k \in 1 .. Len(asked) : asked'[k] = asked[k]
        /\ asked'[Len(asked) + 1] = m
    BY <1>2, AppendProperties DEF UpOK
  <2>3. /\ queue' \in Seq(Messages) /\ Len(queue') = Len(queue) + 1
        /\ \A k \in 1 .. Len(queue) : queue'[k] = queue[k]
        /\ queue'[Len(queue) + 1] = m
    BY <1>2, AppendProperties DEF UpOK
  <2>4. Len(asked') - Len(queue') = Len(asked) - Len(queue) /\ Len(queue') <= Len(asked')
    BY <2>1, <2>2, <2>3
  <2>5. ASSUME NEW k \in 1 .. Len(queue')
        PROVE  queue'[k] = asked'[Len(asked') - Len(queue') + k]
    <3>1. CASE k = Len(queue) + 1
      <4>1. Len(asked') - Len(queue') + k = Len(asked) + 1
        BY <2>1, <2>4, <3>1
      <4> QED
        BY <2>2, <2>3, <3>1, <4>1
    <3>2. CASE k # Len(queue) + 1
      <4>1. k \in 1 .. Len(queue) /\ Len(asked) - Len(queue) + k \in 1 .. Len(asked)
        BY <2>1, <2>3, <3>2
      <4> QED
        BY <2>2, <2>3, <2>4, <4>1 DEF UpOK
    <3> QED
      BY <3>1, <3>2
  <2>6. Carries(up \o write, asked, Len(got), Len(asked) - Len(queue))
    BY DEF UpOK
  <2>7. Len(got) \in Nat /\ Len(got) <= Len(asked) - Len(queue)
    BY <2>6 DEF Carries
  <2>8. \A k \in Len(got) + 1 .. Len(asked) - Len(queue) : asked'[k] = asked[k]
    BY <2>1, <2>2, <2>7
  <2>9. Carries(up \o write, asked', Len(got), Len(asked) - Len(queue))
    <3>1. Len(asked) - Len(queue) <= Len(asked')
      BY <2>1, <2>2
    <3> QED
      BY <2>6, <2>8, <3>1, CarriesSame
  <2>10. \A k \in 1 .. Len(got') : got'[k] = asked'[k]
    BY <2>1, <2>2, <2>7 DEF UpOK
  <2>11. got' = got /\ up' = up /\ write' = write
    OBVIOUS
  <2>12. Carries(up' \o write', asked', Len(got'), Len(asked') - Len(queue'))
    BY <2>4, <2>9, <2>11
  <2> QED
    BY <2>2, <2>3, <2>4, <2>5, <2>10, <2>11, <2>12 DEF UpOK, Carries
<1> QED
  BY <1>1, <1>2 DEF Extends

\* sam_handle_output takes a message off the queue when the last one is written.
LEMMA UpNext ==
    ASSUME UpOK, NextMessage
    PROVE  UpOK'
<1>1. asked' = asked /\ got' = got /\ up' = up /\ write = <<>>
  BY DEF NextMessage, router
<1>2. CASE queue = <<>>
  BY <1>1, <1>2, UpExtends DEF NextMessage, Extends
<1>3. CASE queue # <<>>
  <2>1. write' = Units(Head(queue)) /\ queue' = Tail(queue)
    BY <1>3 DEF NextMessage
  <2>2. Len(asked) \in Nat /\ Len(queue) \in Nat \ {0} /\ Len(queue) <= Len(asked) /\ queue[1] = Head(queue)
    BY <1>3, LenProperties, EmptySeq DEF UpOK
  <2>3. queue' \in Seq(Messages) /\ Len(queue') = Len(queue) - 1 /\ \A k \in 1 .. Len(queue') : queue'[k] = queue[k + 1]
    BY <1>3, <2>1, HeadTailProperties DEF UpOK
  <2> DEFINE M == Len(asked) - Len(queue)
  <2>4. M \in Nat /\ M < Len(asked) /\ Len(asked') - Len(queue') = M + 1 /\ Len(queue') <= Len(asked')
    BY <1>1, <2>2, <2>3
  <2>5. Head(queue) = asked[M + 1]
    BY <2>2 DEF UpOK
  <2>6. up \o write = up
    BY <1>1, ConcatEmptySeq DEF UpOK
  <2>7. Carries(up, asked, Len(got), M)
    BY <2>6 DEF UpOK
  <2>8. asked[M + 1] \in Messages
    BY <2>2, <2>4, ElementOfSeq DEF UpOK
  <2>9. write' \in Seq(Unit)
    BY <2>1, <2>5, <2>8, UnitsOf
  <2>10. ASSUME NEW k \in 1 .. Len(queue')
         PROVE  queue'[k] = asked'[Len(asked') - Len(queue') + k]
    <3>1. k + 1 \in 1 .. Len(queue) /\ Len(asked') - Len(queue') + k = M + (k + 1)
      BY <1>1, <2>2, <2>3, <2>4
    <3> QED
      BY <1>1, <2>3, <3>1 DEF UpOK
  <2> HIDE DEF M
  <2>11. Carries(up \o Units(asked[M + 1]), asked, Len(got), M + 1)
    BY <2>4, <2>7, CarriesMore DEF UpOK
  <2>12. Carries(up' \o write', asked', Len(got'), Len(asked') - Len(queue'))
    BY <1>1, <2>1, <2>4, <2>5, <2>11
  <2> QED
    BY <1>1, <2>3, <2>4, <2>9, <2>10, <2>12 DEF UpOK
<1> QED
  BY <1>2, <1>3

\* However much of a message is written, the bytes stay in order.
LEMMA UpWrite ==
    ASSUME UpOK, Write
    PROVE  UpOK'
<1>1. PICK n \in 0 .. Len(write) : up' = up \o Upto(write, n) /\ write' = After(write, n)
  BY DEF Write
<1>2. asked' = asked /\ got' = got /\ queue' = queue
  BY DEF Write, router
<1>3. /\ Upto(write, n) \in Seq(Unit) /\ After(write, n) \in Seq(Unit)
      /\ Upto(write, n) \o After(write, n) = write
  BY AfterIs, Split DEF UpOK
<1>4. up' \o write' = up \o write
  <2>1. (up \o Upto(write, n)) \o After(write, n) = up \o (Upto(write, n) \o After(write, n))
    <3>1. up \in Seq(Unit)
      BY DEF UpOK
    <3> DEFINE a == Upto(write, n)
               b == After(write, n)
    <3>2. a \in Seq(Unit) /\ b \in Seq(Unit)
      BY <1>3
    <3> HIDE DEF a, b
    <3>3. (up \o a) \o b = up \o (a \o b)
      BY <3>1, <3>2, ConcatAssociative
    <3> QED
      BY <3>3 DEF a, b
  <2> QED
    BY <1>1, <1>3, <2>1
<1>5. up' \in Seq(Unit) /\ write' \in Seq(Unit)
  BY <1>1, <1>3, ConcatProperties DEF UpOK
<1> QED
  BY <1>2, <1>4, <1>5 DEF UpOK

\* The router gets the next message that was asked for.
LEMMA UpGets ==
    ASSUME UpOK, RouterGets
    PROVE  /\ UpOK'
           /\ Len(got) < Len(asked) /\ got' = Append(got, asked[Len(got) + 1])
           /\ up[1][1] = asked[Len(got) + 1] /\ up[1][1] \in Messages
           /\ asked' = asked
<1> DEFINE m == up[1][1]
           z == Size(m)
           U == up \o write
           n == Len(got)
           M == Len(asked) - Len(queue)
<1>1. /\ up # <<>> /\ Len(up) >= z /\ up' = After(up, z)
      /\ got' = Append(got, IF Upto(up, z) = Units(m) THEN m ELSE Garbled)
  BY DEF RouterGets
<1>2. asked' = asked /\ queue' = queue /\ write' = write
  BY DEF RouterGets, out, session
<1>3. up \in Seq(Unit) /\ write \in Seq(Unit) /\ Len(up) \in Nat \ {0} /\ Len(write) \in Nat
  BY <1>1, EmptySeq, LenProperties DEF UpOK
<1>4. /\ U \in Seq(Unit) /\ Len(U) = Len(up) + Len(write)
      /\ \A i \in 1 .. Len(up) + Len(write) : U[i] = IF i <= Len(up) THEN up[i] ELSE write[i - Len(up)]
  BY <1>3, ConcatProperties
<1>5. U # <<>> /\ U[1] = up[1]
  BY <1>3, <1>4, EmptySeq
<1>6. Carries(U, asked, n, M)
  BY DEF UpOK
<1>7. /\ n < M /\ \A j \in 1 .. Size(asked[n + 1]) : U[j] = <<asked[n + 1], j>>
  <2> HIDE DEF U, n, M
  <2> QED
    BY <1>4, <1>5, <1>6, CarriesFirst
<1>8. n \in Nat /\ M \in Nat /\ M <= Len(asked) /\ n < Len(asked) /\ Len(asked) \in Nat
  BY <1>6, <1>7, LenProperties DEF Carries, UpOK
<1>9. m = asked[n + 1] /\ m \in Messages
  <2>1. U[1] = <<asked[n + 1], 1>>
    BY <1>7, SizeOf
  <2>2. asked[n + 1] \in Messages
    BY <1>8, ElementOfSeq DEF UpOK
  <2> HIDE DEF U, n
  <2> QED
    BY <1>5, <2>1, <2>2
<1>10. z \in {2, 4} /\ z \in 0 .. Len(up)
  BY <1>1, <1>3, SizeOf
<1>11. Upto(up, z) = Units(m)
  <2>1. /\ Upto(up, z) \in Seq(Unit) /\ Len(Upto(up, z)) = z /\ \A i \in 1 .. z : Upto(up, z)[i] = up[i]
    BY <1>3, <1>10, AfterIs
  <2>2. Units(m) \in Seq(Unit) /\ Len(Units(m)) = z /\ \A i \in 1 .. z : Units(m)[i] = <<m, i>>
    BY <1>9, UnitsOf
  <2>3. \A i \in 1 .. z : up[i] = U[i]
    BY <1>3, <1>4, <1>10
  <2>4. \A i \in 1 .. z : U[i] = <<m, i>>
    BY <1>7, <1>9
  <2> HIDE DEF U, m, z
  <2> QED
    BY <2>1, <2>2, <2>3, <2>4, SeqEqual
<1>12. got' = Append(got, asked[n + 1])
  BY <1>1, <1>9, <1>11
<1>13. /\ got' \in Seq(Messages) /\ Len(got') = n + 1
       /\ \A k \in 1 .. n : got'[k] = got[k]
       /\ got'[n + 1] = asked[n + 1]
  BY <1>9, <1>12, AppendProperties DEF UpOK
<1>14. up' \in Seq(Unit) /\ up' \o write' = After(U, z)
  BY <1>1, <1>2, <1>3, <1>10, AfterIs, AfterConcat
<1>15. Carries(After(U, z), asked, n + 1, M)
  <2>1. Carries(After(U, Size(asked[n + 1])), asked, n + 1, M)
    <3> HIDE DEF U, n, M
    <3> QED
      BY <1>4, <1>6, <1>7, CarriesRest
  <2> QED
    BY <1>9, <2>1
<1>16. Carries(up' \o write', asked', Len(got'), Len(asked') - Len(queue'))
  BY <1>2, <1>13, <1>14, <1>15
<1>17. \A k \in 1 .. Len(got') : got'[k] = asked'[k]
  <2>1. \A k \in 1 .. n : got[k] = asked[k]
    BY DEF UpOK
  <2> HIDE DEF n
  <2> QED
    BY <1>2, <1>8, <1>13, <2>1
<1>18. UpOK'
  BY <1>2, <1>3, <1>13, <1>14, <1>16, <1>17 DEF UpOK
<1> QED
  BY <1>8, <1>9, <1>12, <1>18, <1>2

----------------------------------------------------------------------------
(* What the program is told                                               *)

\* Where sequences of units are cut does not matter.
LEMMA Assoc ==
    ASSUME NEW a \in Seq(Unit), NEW b \in Seq(Unit), NEW c \in Seq(Unit)
    PROVE  (a \o b) \o c = a \o (b \o c) /\ a \o b \in Seq(Unit) /\ Len(a \o b) = Len(a) + Len(b)
BY ConcatAssociative, ConcatProperties

\* Everything that is sent down the connection; what of it was read and not
\* acted on, and all of it that is not acted on.
Spoken == IF peer THEN Append(told, PeerLine) ELSE told
Heads == (line \o payload) \o taken
Coming == (Heads \o unread) \o down

\* What was said is what the session acted on and what is in its contexts, in
\* the hands of the application, put back, or on its way, in this order.
DownOK ==
    /\ told \in Seq(Messages) /\ heard \in Seq(Messages) /\ peer \in BOOLEAN
    /\ line \in Seq(Unit) /\ payload \in Seq(Unit) /\ taken \in Seq(Unit)
    /\ unread \in Seq(Unit) /\ down \in Seq(Unit)
    /\ Len(heard) <= Len(told)
    /\ \A k \in 1 .. Len(heard) : heard[k] = told[k]
    /\ Carries(Coming, Spoken, Len(heard), Len(Spoken))

\* The answers come first, then the line of the peer.
LEMMA SpokenIs ==
    ASSUME told \in Seq(Messages), peer \in BOOLEAN
    PROVE  /\ Spoken \in Seq(Messages) /\ Len(told) \in Nat
           /\ Len(Spoken) = IF peer THEN Len(told) + 1 ELSE Len(told)
           /\ \A k \in 1 .. Len(told) : Spoken[k] = told[k]
           /\ peer => Spoken[Len(told) + 1] = PeerLine
<1>1. PeerLine \in Messages /\ Len(told) \in Nat
  <2>1. "line" \in Things
    BY DEF Things, Names
  <2> QED
    BY <2>1, LenProperties DEF PeerLine, Messages
<1>2. CASE peer
  <2>1. Spoken = Append(told, PeerLine)
    BY <1>2 DEF Spoken
  <2> HIDE DEF Spoken
  <2> QED
    BY <1>1, <1>2, <2>1, AppendProperties
<1>3. CASE ~ peer
  BY <1>1, <1>3 DEF Spoken
<1> QED
  BY <1>2, <1>3

\* What was read, and what a Read finds, is all that comes.
LEMMA ComingIs ==
    ASSUME line \in Seq(Unit), payload \in Seq(Unit), taken \in Seq(Unit), unread \in Seq(Unit), down \in Seq(Unit)
    PROVE  /\ Heads \in Seq(Unit) /\ Len(Heads) = Len(line) + Len(payload) + Len(taken)
           /\ Readable \in Seq(Unit) /\ Len(Readable) = Len(unread) + Len(down)
           /\ Coming = Heads \o Readable /\ Coming \in Seq(Unit) /\ Len(Coming) = Len(Heads) + Len(Readable)
<1>1. line \o payload \in Seq(Unit) /\ Len(line \o payload) = Len(line) + Len(payload)
  BY Assoc
<1> DEFINE a == line \o payload
<1>2. a \o taken \in Seq(Unit) /\ Len(a \o taken) = Len(a) + Len(taken)
  <2> HIDE DEF a
  <2> QED
    BY <1>1, Assoc DEF a
<1>3. Heads \in Seq(Unit) /\ Len(Heads) = Len(line) + Len(payload) + Len(taken)
  BY <1>1, <1>2 DEF Heads
<1>4. Readable \in Seq(Unit) /\ Len(Readable) = Len(unread) + Len(down)
  BY Assoc DEF Readable
<1>5. (Heads \o unread) \o down = Heads \o (unread \o down)
  <2> HIDE DEF Heads
  <2> QED
    BY <1>3, Assoc
<1>6. Heads \o Readable \in Seq(Unit) /\ Len(Heads \o Readable) = Len(Heads) + Len(Readable)
  BY <1>3, <1>4, Assoc
<1> QED
  BY <1>3, <1>4, <1>5, <1>6 DEF Coming, Readable

\* A Read takes the bytes put back first, and leaves what it did not ask for.
LEMMA ReadSplits ==
    ASSUME unread \in Seq(Unit), down \in Seq(Unit), NEW n \in 0 .. Len(Readable)
    PROVE  /\ Upto(Readable, n) \in Seq(Unit) /\ Len(Upto(Readable, n)) = n
           /\ \A i \in 1 .. n : Upto(Readable, n)[i] = Readable[i]
           /\ After(unread, n) \in Seq(Unit) /\ Arrived(n) \in Seq(Unit)
           /\ Upto(Readable, n) \o (After(unread, n) \o Arrived(n)) = Readable
           /\ n >= Len(unread) => After(unread, n) = <<>> /\ Upto(Readable, n) \o Arrived(n) = Readable
<1>1. /\ Readable \in Seq(Unit) /\ Len(Readable) = Len(unread) + Len(down)
      /\ \A i \in 1 .. Len(unread) + Len(down) :
            Readable[i] = IF i <= Len(unread) THEN unread[i] ELSE down[i - Len(unread)]
  BY ConcatProperties DEF Readable
<1>2. Len(unread) \in Nat /\ Len(down) \in Nat
  BY LenProperties
<1>3. /\ Upto(Readable, n) \in Seq(Unit) /\ Len(Upto(Readable, n)) = n
      /\ \A i \in 1 .. n : Upto(Readable, n)[i] = Readable[i]
      /\ Upto(Readable, n) \o After(Readable, n) = Readable
  <2> HIDE DEF Readable
  <2> QED
    BY <1>1, AfterIs, Split
<1>4. CASE n <= Len(unread)
  <2>1. Arrived(n) = down
    BY <1>2, <1>4 DEF Arrived
  <2>2. n \in 0 .. Len(unread)
    BY <1>1, <1>2, <1>4
  <2>3. After(unread, n) \in Seq(Unit) /\ Len(After(unread, n)) = Len(unread) - n
    BY <2>2, AfterIs
  <2>4. After(Readable, n) = After(unread, n) \o down
    BY <2>2, AfterConcat DEF Readable
  <2>5. n >= Len(unread) => After(unread, n) = <<>> /\ After(Readable, n) = down
    <3> HAVE n >= Len(unread)
    <3>1. Len(After(unread, n)) = 0
      BY <1>2, <2>2, <2>3
    <3>2. After(unread, n) = <<>>
      BY <2>3, <3>1, EmptySeq
    <3> QED
      BY <2>4, <3>2, ConcatEmptySeq
  <2> QED
    BY <1>3, <2>1, <2>3, <2>4, <2>5
<1>5. CASE ~ (n <= Len(unread))
  <2> DEFINE o == n - Len(unread)
  <2>1. o \in 0 .. Len(down) /\ n > Len(unread)
    BY <1>1, <1>2, <1>5
  <2>2. Arrived(n) = After(down, o)
    BY <2>1 DEF Arrived
  <2>3. After(unread, n) = <<>>
    <3>1. n + 1 \in Int /\ Len(unread) \in Int /\ Len(unread) < n + 1
      BY <1>2, <2>1
    <3> QED
      BY <3>1, SubSeqEmpty DEF After
  <2>4. /\ After(down, o) \in Seq(Unit) /\ Len(After(down, o)) = Len(down) - o
        /\ \A i \in 1 .. Len(down) - o : After(down, o)[i] = down[o + i]
    BY <2>1, AfterIs
  <2>5. /\ After(Readable, n) \in Seq(Unit) /\ Len(After(Readable, n)) = Len(Readable) - n
        /\ \A i \in 1 .. Len(Readable) - n : After(Readable, n)[i] = Readable[n + i]
    <3> HIDE DEF Readable
    <3> QED
      BY <1>1, AfterIs
  <2>6. Len(Readable) - n = Len(down) - o
    BY <1>1, <1>2, <2>1
  <2>7. ASSUME NEW i \in 1 .. Len(down) - o
        PROVE  After(Readable, n)[i] = After(down, o)[i]
    <3>1. /\ n + i \in 1 .. Len(unread) + Len(down) /\ ~ (n + i <= Len(unread))
          /\ n + i - Len(unread) = o + i
      BY <1>2, <2>1
    <3>2. Readable[n + i] = down[o + i]
      BY <1>1, <3>1
    <3> QED
      BY <2>4, <2>5, <2>6, <3>2
  <2>8. After(Readable, n) = After(down, o)
    <3> DEFINE a == After(Readable, n)
               b == After(down, o)
    <3>1. a \in Seq(Unit) /\ b \in Seq(Unit) /\ Len(a) = Len(b) /\ \A i \in 1 .. Len(a) : a[i] = b[i]
      BY <2>4, <2>5, <2>6, <2>7
    <3> HIDE DEF a, b
    <3>2. a = b
      BY <3>1, SeqEqual
    <3> QED
      BY <3>2 DEF a, b
  <2> HIDE DEF o
  <2>9. <<>> \o After(down, o) = After(down, o)
    BY <2>4, ConcatEmptySeq
  <2> QED
    BY <1>3, <2>2, <2>3, <2>4, <2>8, <2>9
<1> QED
  BY <1>4, <1>5

\* Bytes that go from one place to the next are the same bytes.
LEMMA DownMoves ==
    ASSUME DownOK, UNCHANGED <<told, heard, peer>>,
           line' \in Seq(Unit), payload' \in Seq(Unit), taken' \in Seq(Unit), unread' \in Seq(Unit),
           down' \in Seq(Unit),
           NEW x \in Seq(Unit), Heads' = Heads \o x, x \o (unread' \o down') = Readable
    PROVE  DownOK' /\ Coming' = Coming
<1>1. Heads \in Seq(Unit) /\ Coming = Heads \o Readable
  BY ComingIs DEF DownOK
<1>2. Coming' = (Heads' \o unread') \o down'
  BY DEF Coming
<1>3. Heads' \in Seq(Unit)
  BY <1>1, Assoc
<1>4. (Heads' \o unread') \o down' = Heads' \o (unread' \o down')
  <2> DEFINE h == Heads'
             u == unread'
             d == down'
  <2>1. h \in Seq(Unit) /\ u \in Seq(Unit) /\ d \in Seq(Unit)
    BY <1>3
  <2> HIDE DEF h, u, d
  <2>2. (h \o u) \o d = h \o (u \o d)
    BY ONLY <2>1, Assoc
  <2> QED
    BY <2>2 DEF h, u, d
<1>5. (Heads \o x) \o (unread' \o down') = Heads \o (x \o (unread' \o down'))
  <2> DEFINE h == Heads
             r == unread' \o down'
  <2>1. h \in Seq(Unit) /\ r \in Seq(Unit)
    BY <1>1, Assoc
  <2> HIDE DEF h, r
  <2>2. (h \o x) \o r = h \o (x \o r)
    BY ONLY <2>1, Assoc
  <2> QED
    BY <2>2 DEF h, r
<1>6. Coming' = Coming
  BY <1>1, <1>2, <1>4, <1>5
<1>7. told' = told /\ heard' = heard /\ peer' = peer /\ Spoken' = Spoken
  BY DEF Spoken
<1>8. Carries(Coming, Spoken, Len(heard), Len(Spoken))
  BY DEF DownOK
<1> HIDE DEF Coming, Spoken
<1>9. Carries(Coming', Spoken', Len(heard'), Len(Spoken'))
  BY <1>6, <1>7, <1>8
<1> QED
  BY <1>6, <1>7, <1>9 DEF DownOK

\* What the router or the peer says comes last.
LEMMA DownTells ==
    ASSUME DownOK, NEW x \in Messages, down' = down \o Units(x),
           UNCHANGED <<line, payload, taken, unread, heard>>,
           \/ ~ peer /\ peer' = peer /\ told' = Append(told, x)
           \/ ~ peer /\ peer' = TRUE /\ told' = told /\ x = PeerLine
    PROVE  DownOK'
<1>1. /\ line' = line /\ payload' = payload /\ taken' = taken /\ unread' = unread /\ heard' = heard
      /\ down \in Seq(Unit) /\ Heads' = Heads /\ Units(x) \in Seq(Unit) /\ down' \in Seq(Unit)
  BY UnitsOf, Assoc DEF DownOK, Heads
<1>2. Spoken' = Append(Spoken, x)
  BY DEF Spoken
<1>3. told' \in Seq(Messages) /\ Len(told') >= Len(told) /\ \A k \in 1 .. Len(told) : told'[k] = told[k]
  <2>1. told \in Seq(Messages) /\ Len(told) \in Nat
    BY LenProperties DEF DownOK
  <2>2. CASE told' = told
    BY <2>1, <2>2
  <2>3. CASE told' = Append(told, x)
    BY <2>1, <2>3, AppendProperties
  <2> QED
    BY <2>2, <2>3
<1>4. /\ Spoken \in Seq(Messages) /\ Len(Spoken) \in Nat
  BY SpokenIs DEF DownOK
<1>5. /\ Spoken' \in Seq(Messages) /\ Len(Spoken') = Len(Spoken) + 1
      /\ \A k \in 1 .. Len(Spoken) : Spoken'[k] = Spoken[k]
      /\ Spoken'[Len(Spoken) + 1] = x
  <2> HIDE DEF Spoken
  <2> QED
    BY <1>2, <1>4, AppendProperties
<1>6. Coming' = Coming \o Units(x) /\ Coming \in Seq(Unit)
  <2> DEFINE h == Heads \o unread
  <2>1. h \in Seq(Unit)
    <3>1. Heads \in Seq(Unit) /\ unread \in Seq(Unit)
      BY ComingIs DEF DownOK
    <3> HIDE DEF Heads
    <3> QED
      BY <3>1, Assoc
  <2>2. Coming = h \o down /\ Coming' = h \o (down \o Units(x))
    BY <1>1 DEF Coming
  <2> HIDE DEF h, Coming
  <2>3. (h \o down) \o Units(x) = h \o (down \o Units(x)) /\ h \o down \in Seq(Unit)
    BY <1>1, <2>1, Assoc
  <2> QED
    BY <2>2, <2>3
<1>7. Carries(Coming, Spoken, Len(heard), Len(Spoken))
  BY DEF DownOK
<1> HIDE DEF Coming, Spoken
<1>8. Len(heard) \in Nat
  BY <1>7 DEF Carries
<1>9. Carries(Coming, Spoken', Len(heard), Len(Spoken))
  <2>1. \A k \in Len(heard) + 1 .. Len(Spoken) : Spoken'[k] = Spoken[k]
    BY <1>4, <1>5, <1>8
  <2>2. Len(Spoken) <= Len(Spoken')
    BY <1>4, <1>5
  <2> QED
    BY <1>7, <2>1, <2>2, CarriesSame
<1>10. Carries(Coming \o Units(Spoken'[Len(Spoken) + 1]), Spoken', Len(heard), Len(Spoken) + 1)
  <2>1. Len(Spoken) < Len(Spoken')
    BY <1>4, <1>5
  <2> QED
    BY <1>5, <1>6, <1>9, <2>1, CarriesMore
<1>11. Carries(Coming', Spoken', Len(heard'), Len(Spoken'))
  BY <1>1, <1>5, <1>6, <1>10
<1>12. Len(heard') <= Len(told') /\ \A k \in 1 .. Len(heard') : heard'[k] = told'[k]
  <2>1. Len(told) \in Nat /\ Len(heard) <= Len(told) /\ \A k \in 1 .. Len(heard) : heard[k] = told[k]
    BY LenProperties DEF DownOK
  <2>2. Len(told') \in Nat
    BY <1>3, LenProperties
  <2> QED
    BY <1>1, <1>3, <1>8, <2>1, <2>2
<1>13. peer' \in BOOLEAN
  BY DEF DownOK
<1> QED
  BY <1>1, <1>3, <1>11, <1>12, <1>13 DEF DownOK

\* What comes next was said by the router.
Due == peer => Len(heard) < Len(told)

\* Where in a message a handler was left; it reads on only where the next
\* message is one for the session.
ReadOK ==
    /\ read \in {"start", "parse"}
    /\ line # <<>> \/ payload # <<>> \/ read = "parse" => Len(heard) < Len(told)
    /\ read = "start" => payload = <<>> /\ Len(line) <= 1
    /\ read = "parse" => Len(line) = 2 /\ Len(payload) <= Size(told[Len(heard) + 1]) - 2
    /\ taken # <<>> => sock = "TRANSFERRED"
    /\ handler = "input" => /\ state # "OFF" /\ taken = <<>>
                            /\ sock = "TRANSFERRED" => kind = "accepter" /\ ~ peer
                            /\ Due

\* The next bytes are those of m.
AtFront(m) ==
    /\ Len(Coming) >= Size(m)
    /\ \A j \in 1 .. Size(m) : Coming[j] = <<m, j>>

\* The first bytes to come are those of the next message of the router.
LEMMA FrontIs ==
    ASSUME DownOK, Coming # <<>>, Due
    PROVE  /\ Len(heard) < Len(told) /\ Len(heard) \in Nat
           /\ told[Len(heard) + 1] \in Messages
           /\ AtFront(told[Len(heard) + 1])
<1> DEFINE n == Len(heard)
           U == Coming
           s == Spoken
<1>1. U \in Seq(Unit) /\ Carries(U, s, n, Len(s)) /\ U # <<>>
  BY ComingIs DEF DownOK
<1>2. /\ Len(s) = IF peer THEN Len(told) + 1 ELSE Len(told)
      /\ Len(told) \in Nat /\ \A k \in 1 .. Len(told) : s[k] = told[k]
  BY SpokenIs DEF DownOK
<1>3. n \in Nat /\ n <= Len(told)
  BY LenProperties DEF DownOK
<1> HIDE DEF U, s
<1>4. /\ n < Len(s) /\ Size(s[n + 1]) <= Len(U)
      /\ \A j \in 1 .. Size(s[n + 1]) : U[j] = <<s[n + 1], j>>
  BY <1>1, CarriesFirst
<1>5. n < Len(told) /\ n + 1 \in 1 .. Len(told)
  <2>1. peer => n < Len(told)
    BY DEF Due
  <2> HIDE DEF n
  <2>2. n < Len(told)
    BY <1>2, <1>3, <1>4, <2>1
  <2> QED
    BY <1>2, <1>3, <2>2
<1>6. s[n + 1] = told[n + 1] /\ told[n + 1] \in Messages
  BY <1>2, <1>5, ElementOfSeq DEF DownOK
<1>7. /\ n < Len(told) /\ n \in Nat /\ told[n + 1] \in Messages
      /\ Len(U) >= Size(told[n + 1])
      /\ \A j \in 1 .. Size(told[n + 1]) : U[j] = <<told[n + 1], j>>
  BY <1>3, <1>4, <1>5, <1>6
<1> QED
  BY <1>7 DEF U, AtFront

\* Where what was read of a message lies.
LEMMA HeadsAre ==
    ASSUME DownOK, taken = <<>>
    PROVE  /\ Heads = line \o payload
           /\ Len(Heads) = Len(line) + Len(payload)
           /\ \A i \in 1 .. Len(line) : Heads[i] = line[i] /\ Coming[i] = line[i]
           /\ \A i \in 1 .. Len(payload) : /\ Heads[Len(line) + i] = payload[i]
                                          /\ Coming[Len(line) + i] = payload[i]
           /\ \A i \in 1 .. Len(Readable) : Coming[Len(line) + Len(payload) + i] = Readable[i]
<1>1. /\ line \in Seq(Unit) /\ payload \in Seq(Unit) /\ unread \in Seq(Unit) /\ down \in Seq(Unit)
      /\ taken \in Seq(Unit)
  BY DEF DownOK
<1>2. /\ line \o payload \in Seq(Unit) /\ Len(line \o payload) = Len(line) + Len(payload)
      /\ \A i \in 1 .. Len(line) + Len(payload) :
            (line \o payload)[i] = IF i <= Len(line) THEN line[i] ELSE payload[i - Len(line)]
  BY <1>1, ConcatProperties
<1>3. Heads = line \o payload
  BY <1>2, ConcatEmptySeq DEF Heads
<1>4. Len(line) \in Nat /\ Len(payload) \in Nat /\ Len(Readable) \in Nat
  BY <1>1, LenProperties, ComingIs
<1>5. /\ Readable \in Seq(Unit) /\ Coming = Heads \o Readable
  BY <1>1, ComingIs
<1> HIDE DEF Heads, Readable, Coming
<1>6. \A i \in 1 .. Len(Heads) + Len(Readable) :
        Coming[i] = IF i <= Len(Heads) THEN Heads[i] ELSE Readable[i - Len(Heads)]
  BY <1>2, <1>3, <1>5, ConcatProperties
<1>7. ASSUME NEW i \in 1 .. Len(line)
      PROVE  Heads[i] = line[i] /\ Coming[i] = line[i]
  <2>1. i \in 1 .. Len(line) + Len(payload) /\ i <= Len(line) /\ i \in 1 .. Len(Heads) + Len(Readable) /\ i <= Len(Heads)
    BY <1>2, <1>3, <1>4
  <2> QED
    BY <1>2, <1>3, <1>6, <2>1
<1>8. ASSUME NEW i \in 1 .. Len(payload)
      PROVE  Heads[Len(line) + i] = payload[i] /\ Coming[Len(line) + i] = payload[i]
  <2> DEFINE j == Len(line) + i
  <2>1. /\ j \in 1 .. Len(line) + Len(payload) /\ ~ (j <= Len(line)) /\ j - Len(line) = i
        /\ j \in 1 .. Len(Heads) + Len(Readable) /\ j <= Len(Heads)
    BY <1>2, <1>3, <1>4
  <2> HIDE DEF j
  <2>2. Heads[j] = payload[i] /\ Coming[j] = Heads[j]
    BY <1>2, <1>3, <1>6, <2>1
  <2> QED
    BY <2>2 DEF j
<1>9. ASSUME NEW i \in 1 .. Len(Readable)
      PROVE  Coming[Len(line) + Len(payload) + i] = Readable[i]
  <2> DEFINE j == Len(line) + Len(payload) + i
  <2>1. j \in 1 .. Len(Heads) + Len(Readable) /\ ~ (j <= Len(Heads)) /\ j - Len(Heads) = i
    BY <1>2, <1>3, <1>4
  <2> HIDE DEF j
  <2>2. Coming[j] = Readable[i]
    BY <1>6, <2>1
  <2> QED
    BY <2>2 DEF j
<1> QED
  BY <1>2, <1>3, <1>7, <1>8, <1>9

\* sam_handle_input_reentrant stops at the first newline and puts back what follows.
LEMMA DownReadLine ==
    ASSUME DownOK, ReadOK, ReadLine
    PROVE  DownOK' /\ ReadOK'
<1> DEFINE N == Len(Readable)
<1>1. PICK n \in CanRead(N) :
          LET chunk == Upto(Readable, n)
              ends  == {k \in 1 .. n : IsEnd(chunk[k])}
          IN  /\ down' = Arrived(n)
              /\ IF ends = {}
                 THEN /\ line' = line \o chunk /\ unread' = <<>>
                      /\ handler' = "none" /\ read' = read
                 ELSE \E end \in ends :
                      /\ \A k \in ends : end <= k
                      /\ line' = line \o Upto(chunk, end) /\ unread' = Unread(chunk, end)
                      /\ handler' = handler /\ read' = "parse"
  BY DEF ReadLine
<1>2. handler = "input" /\ read = "start" /\ taken = <<>> /\ payload = <<>> /\ Len(line) <= 1
  BY DEF ReadLine, ReadOK
<1>3. /\ kind' = kind /\ state' = state /\ sock' = sock /\ told' = told /\ heard' = heard
      /\ peer' = peer /\ taken' = taken /\ payload' = payload
  BY DEF ReadLine, session, stream, router
<1>4. /\ Len(unread) \in Nat /\ Len(down) \in Nat /\ N = Len(unread) + Len(down)
      /\ unread \in Seq(Unit) /\ down \in Seq(Unit) /\ Readable \in Seq(Unit)
      /\ line \in Seq(Unit) /\ Len(line) \in Nat
  BY ComingIs, LenProperties DEF DownOK
<1>5. n \in 0 .. N /\ n >= Len(unread) /\ n \in Nat
  BY <1>4 DEF CanRead, Least
<1> DEFINE chunk == Upto(Readable, n)
           ends == {k \in 1 .. n : IsEnd(chunk[k])}
<1>6. /\ chunk \in Seq(Unit) /\ Len(chunk) = n /\ \A i \in 1 .. n : chunk[i] = Readable[i]
      /\ Arrived(n) \in Seq(Unit) /\ chunk \o Arrived(n) = Readable
  BY <1>4, <1>5, ReadSplits
<1>7. \A i \in 1 .. n : chunk[i] = Coming[Len(line) + i]
  <2>1. Len(payload) = 0
    BY <1>2
  <2>2. \A i \in 1 .. N : Coming[Len(line) + 0 + i] = Readable[i]
    BY <1>2, <2>1, HeadsAre
  <2>3. \A i \in 1 .. n : i \in 1 .. N /\ Len(line) + 0 + i = Len(line) + i
    BY <1>4, <1>5
  <2> HIDE DEF chunk, N
  <2> QED
    BY <1>6, <2>2, <2>3
<1>8. \A i \in 1 .. Len(line) : Coming[i] = line[i]
  BY <1>2, HeadsAre
<1>9. Heads = line
  BY <1>2, <1>4, HeadsAre, ConcatEmptySeq
<1>10. ASSUME line # <<>> \/ n # 0
       PROVE  /\ Len(heard) < Len(told) /\ told[Len(heard) + 1] \in Messages
              /\ Coming[1] = <<told[Len(heard) + 1], 1>> /\ Coming[2] = <<told[Len(heard) + 1], 2>>
              /\ 2 <= Len(Coming)
  <2>1. Coming # <<>>
    <3>1. Len(Coming) = Len(line) + N
      BY <1>2, <1>9, ComingIs DEF DownOK
    <3>2. Len(line) # 0 \/ n # 0
      BY <1>4, <1>10, EmptySeq
    <3>3. Len(Coming) > 0
      <4> HIDE DEF N
      <4> QED
        BY <1>4, <1>5, <3>1, <3>2
    <3> QED
      BY <3>3
  <2>2. Due
    BY <1>2 DEF ReadOK, Due
  <2>3. /\ Len(heard) < Len(told) /\ told[Len(heard) + 1] \in Messages
        /\ Len(Coming) >= Size(told[Len(heard) + 1])
        /\ \A j \in 1 .. Size(told[Len(heard) + 1]) : Coming[j] = <<told[Len(heard) + 1], j>>
    BY <2>1, <2>2, FrontIs DEF AtFront
  <2>4. Size(told[Len(heard) + 1]) \in {2, 4}
    BY SizeOf
  <2>5. Len(Coming) \in Nat
    BY LenProperties, ComingIs DEF DownOK
  <2> DEFINE z == Size(told[Len(heard) + 1])
             m == told[Len(heard) + 1]
             C == Coming
  <2>6. z \in {2, 4} /\ Len(C) >= z /\ \A j \in 1 .. z : C[j] = <<m, j>>
    BY <2>3, <2>4
  <2>7. Len(C) \in Nat
    BY <2>5
  <2> HIDE DEF z, m, C
  <2>8. 1 \in 1 .. z /\ 2 \in 1 .. z
    BY <2>6
  <2>9. C[1] = <<m, 1>> /\ C[2] = <<m, 2>> /\ 2 <= Len(C)
    BY <2>6, <2>7, <2>8
  <2> QED
    BY <2>3, <2>9 DEF m, C
<1> HIDE DEF chunk
<1>11. CASE ends = {}
  <2>1. /\ down' = Arrived(n) /\ line' = line \o chunk /\ unread' = <<>>
        /\ handler' = "none" /\ read' = read
    BY <1>1, <1>11 DEF chunk
  <2>2. line' \in Seq(Unit) /\ Len(line') = Len(line) + n
    BY <1>4, <1>6, <2>1, Assoc
  <2>3. unread' \o down' = Arrived(n) /\ unread' \in Seq(Unit)
    BY <1>6, <2>1, ConcatEmptySeq, EmptySeq
  <2>4. Heads' = Heads \o chunk
    <3>1. Heads' = (line' \o <<>>) \o <<>>
      BY <1>2, <1>3 DEF Heads
    <3>2. Heads' = line'
      BY <2>2, <3>1, ConcatEmptySeq
    <3> QED
      BY <1>9, <2>1, <3>2
  <2>5. DownOK'
    <3>1. payload' \in Seq(Unit) /\ taken' \in Seq(Unit) /\ down' \in Seq(Unit)
      BY <1>3, <1>6, <2>1 DEF DownOK
    <3>2. chunk \o (unread' \o down') = Readable
      BY <1>6, <2>3
    <3> QED
      BY <1>3, <1>6, <2>2, <2>3, <2>4, <3>1, <3>2, DownMoves
  <2>6. Len(line') <= 1
    <3> SUFFICES ASSUME Len(line) + n >= 2 PROVE FALSE
      BY <1>4, <1>5, <2>2
    <3>1. line # <<>> \/ n # 0
      BY <1>4, EmptySeq
    <3>2. Coming[2] = <<told[Len(heard) + 1], 2>>
      BY <1>10, <3>1
    <3>3. 2 - Len(line) \in 1 .. n /\ Len(line) + (2 - Len(line)) = 2
      BY <1>2, <1>4, <1>5
    <3>4. chunk[2 - Len(line)] = <<told[Len(heard) + 1], 2>>
      BY <1>7, <3>2, <3>3
    <3>5. IsEnd(chunk[2 - Len(line)])
      BY <3>4 DEF IsEnd
    <3> QED
      BY <1>11, <3>3, <3>5
  <2>7. line' # <<>> => Len(heard) < Len(told)
    <3> HAVE line' # <<>>
    <3>1. line # <<>> \/ n # 0
      <4> SUFFICES ASSUME line = <<>>, n = 0 PROVE FALSE
        OBVIOUS
      <4>1. Len(line') = 0
        BY <2>2
      <4> QED
        BY <2>2, <4>1, EmptySeq
    <3> QED
      BY <1>10, <3>1
  <2>8. ReadOK'
    BY <1>2, <1>3, <2>1, <2>6, <2>7 DEF ReadOK, Due
  <2> QED
    BY <2>5, <2>8
<1>12. CASE ends # {}
  <2>1. PICK end \in ends :
            /\ \A k \in ends : end <= k
            /\ line' = line \o Upto(chunk, end) /\ unread' = Unread(chunk, end)
            /\ handler' = handler /\ read' = "parse"
    BY <1>1, <1>12 DEF chunk
  <2>2. down' = Arrived(n)
    BY <1>1
  <2>3. end \in 1 .. n /\ end \in 0 .. Len(chunk) /\ n # 0 /\ IsEnd(chunk[end])
    BY <1>5, <1>6
  <2>4. /\ Upto(chunk, end) \in Seq(Unit) /\ Len(Upto(chunk, end)) = end
        /\ After(chunk, end) \in Seq(Unit) /\ Upto(chunk, end) \o After(chunk, end) = chunk
    BY <1>6, <2>3, AfterIs, Split
  <2>5. unread' = After(chunk, end)
    BY <2>1 DEF Unread
  <2>6. line' \in Seq(Unit) /\ Len(line') = Len(line) + end
    <3> DEFINE a == Upto(chunk, end)
    <3>1. a \in Seq(Unit) /\ Len(a) = end /\ line \in Seq(Unit)
      BY <1>4, <2>4
    <3>2. line' = line \o a
      BY <2>1
    <3> HIDE DEF a
    <3>3. line \o a \in Seq(Unit) /\ Len(line \o a) = Len(line) + Len(a)
      BY ONLY <3>1, Assoc
    <3> QED
      BY <3>1, <3>2, <3>3
  <2>7. Upto(chunk, end) \o (unread' \o down') = Readable
    <3> DEFINE a == Upto(chunk, end)
               b == After(chunk, end)
               c == Arrived(n)
    <3>1. a \in Seq(Unit) /\ b \in Seq(Unit) /\ c \in Seq(Unit)
      BY <1>6, <2>4
    <3>2. a \o b = chunk /\ chunk \o c = Readable /\ unread' = b /\ down' = c
      BY <1>6, <2>2, <2>4, <2>5
    <3> HIDE DEF a, b, c
    <3>3. (a \o b) \o c = a \o (b \o c)
      BY ONLY <3>1, Assoc
    <3> QED
      BY <3>2, <3>3 DEF a
  <2>8. Heads' = Heads \o Upto(chunk, end)
    <3>1. Heads' = (line' \o <<>>) \o <<>>
      BY <1>2, <1>3 DEF Heads
    <3>2. Heads' = line'
      BY <2>6, <3>1, ConcatEmptySeq
    <3> QED
      BY <1>9, <2>1, <3>2
  <2>9. DownOK'
    <3>1. payload' \in Seq(Unit) /\ taken' \in Seq(Unit) /\ down' \in Seq(Unit) /\ unread' \in Seq(Unit)
      BY <1>3, <1>6, <2>2, <2>4, <2>5 DEF DownOK
    <3> DEFINE x == Upto(chunk, end)
    <3>2. x \in Seq(Unit) /\ Heads' = Heads \o x /\ x \o (unread' \o down') = Readable
      BY <2>4, <2>7, <2>8
    <3> HIDE DEF x
    <3> QED
      BY <1>3, <2>6, <3>1, <3>2, DownMoves
  <2>10. /\ Len(heard) < Len(told) /\ told[Len(heard) + 1] \in Messages
         /\ Coming[1] = <<told[Len(heard) + 1], 1>> /\ Coming[2] = <<told[Len(heard) + 1], 2>>
    BY <1>10, <2>3
  <2>11. Len(line') = 2
    <3>1. Len(line) + end >= 2
      <4> SUFFICES ASSUME Len(line) + end < 2 PROVE FALSE
        BY <1>4, <2>3
      <4>1. Len(line) = 0 /\ end = 1
        BY <1>4, <2>3
      <4>2. chunk[1] = Coming[1]
        BY <1>4, <1>7, <2>3, <4>1
      <4> QED
        BY <2>3, <2>10, <4>1, <4>2 DEF IsEnd
    <3>2. Len(line) + end <= 2
      <4> SUFFICES ASSUME Len(line) + end > 2 PROVE FALSE
        BY <1>4, <2>3
      <4>1. 2 - Len(line) \in 1 .. n /\ Len(line) + (2 - Len(line)) = 2 /\ 2 - Len(line) < end
        BY <1>2, <1>4, <1>5, <2>3
      <4>2. chunk[2 - Len(line)] = <<told[Len(heard) + 1], 2>>
        BY <1>7, <2>10, <4>1
      <4>3. 2 - Len(line) \in ends
        BY <4>1, <4>2 DEF IsEnd
      <4> QED
        BY <1>5, <2>1, <2>3, <4>1, <4>3
    <3> QED
      BY <1>4, <2>3, <2>6, <3>1, <3>2
  <2>12. Len(payload') <= Size(told'[Len(heard') + 1]) - 2
    BY <1>2, <1>3, SizeOf
  <2>13. ReadOK'
    BY <1>2, <1>3, <2>1, <2>10, <2>11, <2>12 DEF ReadOK, Due
  <2> QED
    BY <2>9, <2>13
<1> QED
  BY <1>11, <1>12

\* The message whose line was read.
Told == told[Len(heard) + 1]

\* The line that was read is the whole line of the next message.
LEMMA LineIs ==
    ASSUME DownOK, ReadOK, handler = "input", read = "parse"
    PROVE  /\ Len(heard) < Len(told) /\ Len(heard) \in Nat /\ Told \in Messages
           /\ AtFront(Told) /\ Message = Told /\ IsLine /\ PayloadSize = Size(Told) - 2
           /\ taken = <<>> /\ Len(line) = 2
<1>1. taken = <<>> /\ Len(line) = 2 /\ Due
  BY DEF ReadOK
<1>2. Coming # <<>>
  <2>1. /\ line \in Seq(Unit) /\ payload \in Seq(Unit) /\ taken \in Seq(Unit)
        /\ unread \in Seq(Unit) /\ down \in Seq(Unit)
    BY DEF DownOK
  <2>2. Len(line) + Len(payload) + Len(taken) + Len(Readable) = Len(Coming)
    BY <2>1, ComingIs
  <2>3. Len(payload) \in Nat /\ Len(taken) \in Nat /\ Len(Readable) \in Nat
    BY <2>1, ComingIs, LenProperties
  <2>4. Len(Coming) > 0
    <3> HIDE DEF Coming, Readable
    <3> QED
      BY <1>1, <2>2, <2>3
  <2>5. Len(<<>>) = 0
    OBVIOUS
  <2> HIDE DEF Coming
  <2> QED
    BY <2>4, <2>5
<1>3. Len(heard) < Len(told) /\ Len(heard) \in Nat /\ Told \in Messages /\ AtFront(Told)
  BY <1>1, <1>2, FrontIs DEF Told
<1> DEFINE m == Told
<1>4. Units(m) \in Seq(Unit) /\ Len(Units(m)) = Size(m) /\ \A j \in 1 .. Size(m) : Units(m)[j] = <<m, j>>
  BY <1>3, UnitsOf
<1>5. Size(m) \in {2, 4}
  BY SizeOf
<1>6. \A i \in 1 .. 2 : line[i] = <<m, i>>
  <2>1. \A i \in 1 .. 2 : Coming[i] = line[i] /\ i \in 1 .. Size(m)
    BY <1>1, <1>5, HeadsAre
  <2>2. \A j \in 1 .. Size(m) : Coming[j] = <<m, j>>
    BY <1>3 DEF AtFront
  <2> HIDE DEF Coming, m
  <2> QED
    BY <2>1, <2>2
<1>7. Message = m
  <2>1. line[1] = <<m, 1>>
    BY <1>6
  <2> HIDE DEF m
  <2> QED
    BY <2>1 DEF Message
<1>8. LineOf(m) \in Seq(Unit) /\ Len(LineOf(m)) = 2 /\ \A i \in 1 .. 2 : LineOf(m)[i] = <<m, i>>
  <2> DEFINE u == Units(m)
  <2>1. u \in Seq(Unit) /\ Len(u) \in {2, 4} /\ \A j \in 1 .. 2 : u[j] = <<m, j>>
    BY <1>4, <1>5
  <2>2. LineOf(m) = Upto(u, 2)
    BY DEF LineOf, Upto
  <2> HIDE DEF u, m
  <2>3. 2 \in 0 .. Len(u)
    BY <2>1
  <2>4. /\ Upto(u, 2) \in Seq(Unit) /\ Len(Upto(u, 2)) = 2
        /\ \A i \in 1 .. 2 : Upto(u, 2)[i] = u[i]
    BY <2>1, <2>3, AfterIs
  <2> QED
    BY <2>1, <2>2, <2>4
<1>9. IsLine
  <2>1. line \in Seq(Unit)
    BY DEF DownOK
  <2> HIDE DEF m
  <2>2. line = LineOf(m)
    BY <1>1, <1>6, <1>8, <2>1, SeqEqual
  <2> QED
    BY <1>7, <2>2 DEF IsLine
<1>10. PayloadSize = Size(m) - 2
  BY <1>7, <1>9 DEF PayloadSize
<1> QED
  BY <1>1, <1>3, <1>7, <1>9, <1>10

\* sam_read2 takes no more than what is left of the payload.
LEMMA DownReadPayload ==
    ASSUME DownOK, ReadOK, ReadPayload
    PROVE  DownOK' /\ ReadOK'
<1> DEFINE z == PayloadSize
<1>1. /\ handler = "input" /\ read = "parse" /\ Len(payload) < z
      /\ z = Size(Told) - 2 /\ taken = <<>> /\ Len(heard) < Len(told)
  BY LineIs DEF ReadPayload
<1>2. PICK n \in CanRead(z - Len(payload)) :
          /\ payload' = payload \o Upto(Readable, n)
          /\ unread' = After(unread, n) /\ down' = Arrived(n)
  BY DEF ReadPayload
<1>3. /\ kind' = kind /\ state' = state /\ sock' = sock /\ told' = told /\ heard' = heard
      /\ peer' = peer /\ taken' = taken /\ line' = line
  BY DEF ReadPayload, session, stream, router
<1>4. /\ Len(unread) \in Nat /\ Len(down) \in Nat /\ Len(Readable) = Len(unread) + Len(down)
      /\ unread \in Seq(Unit) /\ down \in Seq(Unit) /\ Readable \in Seq(Unit)
      /\ line \in Seq(Unit) /\ payload \in Seq(Unit) /\ Len(payload) \in Nat
  BY ComingIs, LenProperties DEF DownOK
<1>5. Size(Told) \in {2, 4}
  BY SizeOf
<1>6. n \in 0 .. Len(Readable) /\ n <= z - Len(payload)
  <2> DEFINE r == Len(Readable)
  <2>1. r = Len(unread) + Len(down) /\ z \in {0, 2} /\ n \in Least(z - Len(payload), Len(unread)) .. Least(z - Len(payload), r)
    BY <1>1, <1>4, <1>5 DEF CanRead
  <2> HIDE DEF r, z
  <2>2. n \in 0 .. r /\ n <= z - Len(payload)
    BY <1>1, <1>4, <2>1 DEF Least
  <2> QED
    BY <2>2 DEF r
<1> DEFINE x == Upto(Readable, n)
<1>7. /\ x \in Seq(Unit) /\ Len(x) = n /\ After(unread, n) \in Seq(Unit) /\ Arrived(n) \in Seq(Unit)
      /\ x \o (After(unread, n) \o Arrived(n)) = Readable
  BY <1>4, <1>6, ReadSplits
<1>8. payload' = payload \o x
  BY <1>2
<1>9. x \o (unread' \o down') = Readable /\ unread' \in Seq(Unit) /\ down' \in Seq(Unit)
  BY <1>2, <1>7
<1> HIDE DEF x
<1>10. payload' \in Seq(Unit) /\ Len(payload') = Len(payload) + n
  BY <1>4, <1>7, <1>8, Assoc
<1>11. Heads' = Heads \o x
  <2>1. line \o payload \in Seq(Unit) /\ line \o (payload \o x) \in Seq(Unit) /\ (line \o payload) \o x = line \o (payload \o x)
    <3>1. line \in Seq(Unit) /\ payload \in Seq(Unit) /\ x \in Seq(Unit)
      BY <1>4, <1>7
    <3>2. (line \o payload) \o x = line \o (payload \o x)
      BY ONLY <3>1, Assoc
    <3>3. line \o payload \in Seq(Unit) /\ payload \o x \in Seq(Unit)
      BY ONLY <3>1, Assoc
    <3>4. line \o (payload \o x) \in Seq(Unit)
      BY ONLY <3>1, <3>3, Assoc
    <3> QED
      BY <3>2, <3>3, <3>4
  <2>2. Heads = line \o payload
    BY <1>1, <2>1, ConcatEmptySeq DEF Heads
  <2>3. Heads' = line \o (payload \o x)
    BY <1>1, <1>3, <1>8, <2>1, ConcatEmptySeq DEF Heads
  <2> QED
    BY <2>1, <2>2, <2>3
<1>12. DownOK'
  <2>1. line' \in Seq(Unit) /\ taken' \in Seq(Unit)
    BY <1>3 DEF DownOK
  <2> QED
    BY <1>3, <1>7, <1>9, <1>10, <1>11, <2>1, DownMoves
<1>13. read' = "parse" /\ handler' \in {"none", "input"}
  BY <1>1 DEF ReadPayload, Resumed
<1>14. Told' = Told /\ Len(payload') <= Size(Told) - 2
  <2>1. Told' = Told
    BY <1>3 DEF Told
  <2> HIDE DEF Told
  <2> QED
    BY <1>1, <1>4, <1>5, <1>6, <1>10, <2>1
<1>15. ReadOK'
  BY <1>1, <1>3, <1>13, <1>14 DEF ReadOK, Due, Told
<1> QED
  BY <1>12, <1>15

\* sam_parse acts on the next message the router said.
LEMMA DownDispatch ==
    ASSUME DownOK, ReadOK, Dispatch
    PROVE  /\ DownOK' /\ heard' = Append(heard, Told) /\ Len(heard) < Len(told) /\ Told \in Messages
           /\ IsLine /\ Message = Told
           /\ Len(heard) \in Nat /\ Len(heard') = Len(heard) + 1 /\ taken = <<>>
<1> DEFINE m == Told
           z == Size(m)
<1>1. /\ handler = "input" /\ read = "parse" /\ Len(payload) >= PayloadSize
      /\ line' = <<>> /\ payload' = <<>> /\ taken' = taken /\ unread' = unread /\ down' = down
      /\ peer' = peer /\ told' = told
      /\ heard' = Append(heard, IF IsLine /\ payload = PayloadOf(Message) THEN Message ELSE Garbled)
  BY DEF Dispatch, stream, router
<1>2. /\ Len(heard) < Len(told) /\ Len(heard) \in Nat /\ m \in Messages
      /\ AtFront(m) /\ Message = m /\ IsLine /\ PayloadSize = Size(m) - 2
      /\ taken = <<>> /\ Len(line) = 2
  BY <1>1, LineIs
<1>3. z \in {2, 4}
  BY SizeOf
<1>4. /\ line \in Seq(Unit) /\ payload \in Seq(Unit) /\ unread \in Seq(Unit) /\ down \in Seq(Unit)
      /\ Len(payload) \in Nat /\ told \in Seq(Messages) /\ heard \in Seq(Messages)
  BY LenProperties DEF DownOK
<1>5. Len(payload) = z - 2
  <2>1. Len(payload) <= z - 2 /\ Len(payload) >= z - 2
    BY <1>1, <1>2 DEF ReadOK, Told
  <2> HIDE DEF z
  <2> QED
    BY <1>3, <1>4, <2>1
<1>6. payload = PayloadOf(m)
  <2> DEFINE u == Units(m)
             p == PayloadOf(m)
  <2>1. u \in Seq(Unit) /\ Len(u) = z /\ \A j \in 1 .. z : u[j] = <<m, j>>
    BY <1>2, UnitsOf
  <2>2. p = After(u, 2)
    BY <2>1 DEF PayloadOf, After
  <2>3. 2 \in 0 .. Len(u)
    <3> HIDE DEF z, u
    <3> QED
      BY <1>3, <2>1
  <2>4. /\ After(u, 2) \in Seq(Unit) /\ Len(After(u, 2)) = Len(u) - 2
        /\ \A i \in 1 .. Len(u) - 2 : After(u, 2)[i] = u[2 + i]
    <3> HIDE DEF u
    <3> QED
      BY <2>1, <2>3, AfterIs
  <2>5. \A i \in 1 .. Len(payload) : Coming[2 + i] = payload[i]
    BY <1>2, HeadsAre
  <2>6. \A j \in 1 .. z : Coming[j] = <<m, j>>
    BY <1>2 DEF AtFront
  <2> HIDE DEF m, z, u, p, Coming
  <2>7. \A i \in 1 .. z - 2 : 2 + i \in 1 .. z
    BY <1>3
  <2>8. \A i \in 1 .. z - 2 : payload[i] = p[i]
    BY <1>5, <2>1, <2>2, <2>4, <2>5, <2>6, <2>7
  <2>9. p \in Seq(Unit) /\ Len(p) = z - 2
    BY <2>1, <2>2, <2>4
  <2>10. payload = p
    BY <1>4, <1>5, <2>8, <2>9, SeqEqual
  <2> QED
    BY <2>10 DEF p
<1>7. heard' = Append(heard, m)
  BY <1>1, <1>2, <1>6
<1>8. /\ heard' \in Seq(Messages) /\ Len(heard') = Len(heard) + 1
      /\ \A k \in 1 .. Len(heard) : heard'[k] = heard[k]
      /\ heard'[Len(heard) + 1] = m
  <2> HIDE DEF m
  <2> QED
    BY <1>2, <1>4, <1>7, AppendProperties
<1>9. /\ Heads \in Seq(Unit) /\ Len(Heads) = z /\ Readable \in Seq(Unit) /\ Coming = Heads \o Readable
      /\ Coming \in Seq(Unit)
  <2>1. taken \in Seq(Unit) /\ Len(taken) = 0
    BY <1>2, <1>4, EmptySeq DEF DownOK
  <2>2. /\ Heads \in Seq(Unit) /\ Len(Heads) = Len(line) + Len(payload) + Len(taken)
        /\ Readable \in Seq(Unit) /\ Coming = Heads \o Readable /\ Coming \in Seq(Unit)
    BY <1>4, <2>1, ComingIs
  <2>3. 2 + (z - 2) + 0 = z
    <3> HIDE DEF z
    <3> QED
      BY <1>3
  <2> HIDE DEF z, Coming, Heads, Readable
  <2> QED
    BY <1>2, <1>5, <2>1, <2>2, <2>3
<1>10. After(Coming, z) = Readable
  <2> DEFINE h == Heads
             r == Readable
  <2>1. h \in Seq(Unit) /\ r \in Seq(Unit) /\ z \in 0 .. Len(h) /\ z = Len(h)
    BY <1>3, <1>9
  <2>2. Coming = h \o r
    BY <1>9
  <2> HIDE DEF h, r, z
  <2>3. After(h \o r, z) = After(h, z) \o r
    BY ONLY <2>1, AfterConcat
  <2>4. After(h, z) = <<>>
    <3>1. After(h, z) \in Seq(Unit) /\ Len(After(h, z)) = Len(h) - z
      BY ONLY <2>1, AfterIs
    <3>2. Len(After(h, z)) = 0
      BY <1>3, <2>1, <3>1
    <3> QED
      BY <3>1, <3>2, EmptySeq
  <2>5. <<>> \o r = r
    BY <2>1, ConcatEmptySeq
  <2> QED
    BY <2>2, <2>3, <2>4, <2>5 DEF r
<1>11. Coming' = Readable
  <2>1. Heads' = (<<>> \o <<>>) \o <<>>
    BY <1>1, <1>2 DEF Heads
  <2>2. <<>> \o <<>> = <<>> /\ <<>> \o unread = unread
    BY <1>4, ConcatEmptySeq, EmptySeq
  <2>3. Heads' = <<>>
    BY <2>1, <2>2
  <2>4. Coming' = (<<>> \o unread) \o down
    BY <1>1, <2>3 DEF Coming
  <2> QED
    BY <2>2, <2>4 DEF Readable
<1>12. Carries(Coming', Spoken', Len(heard'), Len(Spoken'))
  <2> DEFINE U == Coming
             s == Spoken
             n == Len(heard)
  <2>1. U \in Seq(Unit) /\ Carries(U, s, n, Len(s))
    BY <1>9 DEF DownOK
  <2>2. /\ Len(s) = IF peer THEN Len(told) + 1 ELSE Len(told)
        /\ Len(told) \in Nat /\ \A k \in 1 .. Len(told) : s[k] = told[k]
    BY SpokenIs DEF DownOK
  <2>3. s' = s
    BY <1>1 DEF Spoken
  <2>4. n < Len(s) /\ s[n + 1] = m
    <3>1. n \in Nat /\ n < Len(told) /\ m = told[n + 1]
      BY <1>2 DEF Told
    <3> HIDE DEF n, s, m
    <3>2. n + 1 \in 1 .. Len(told) /\ n < Len(s)
      BY <2>2, <3>1
    <3> QED
      BY <2>2, <3>1, <3>2
  <2>5. After(U, z) = Coming'
    BY <1>10, <1>11
  <2>6. Len(heard') = n + 1
    BY <1>8
  <2> HIDE DEF U, s, n, m
  <2>7. Carries(After(U, z), s, n + 1, Len(s))
    BY <2>1, <2>4, CarriesRest DEF z
  <2>8. Carries(Coming', s', Len(heard'), Len(s'))
    BY <2>3, <2>5, <2>6, <2>7
  <2> QED
    BY <2>8 DEF s
<1>13. Len(heard') <= Len(told') /\ \A k \in 1 .. Len(heard') : heard'[k] = told'[k]
  <2>1. Len(told) \in Nat /\ Len(heard) \in Nat /\ \A k \in 1 .. Len(heard) : heard[k] = told[k]
    BY <1>2, LenProperties DEF DownOK
  <2>2. m = told[Len(heard) + 1]
    BY DEF Told
  <2> HIDE DEF m
  <2> QED
    BY <1>1, <1>2, <1>8, <2>1, <2>2
<1>14. /\ told' \in Seq(Messages) /\ peer' \in BOOLEAN /\ unread' \in Seq(Unit) /\ down' \in Seq(Unit)
       /\ taken' \in Seq(Unit) /\ line' \in Seq(Unit) /\ payload' \in Seq(Unit)
  BY <1>1, EmptySeq DEF DownOK
<1>15. DownOK'
  BY <1>8, <1>12, <1>13, <1>14 DEF DownOK
<1> QED
  BY <1>2, <1>7, <1>8, <1>15

\* What the application reads stays in the stream.
LEMMA DownRead ==
    ASSUME DownOK, Read
    PROVE  DownOK'
<1>1. PICK n \in CanRead(Len(Readable)) :
          taken' = taken \o Upto(Readable, n) /\ unread' = After(unread, n) /\ down' = Arrived(n)
  BY DEF Read
<1>2. line' = line /\ payload' = payload /\ UNCHANGED <<told, heard, peer>>
  BY DEF Read, router
<1>3. /\ unread \in Seq(Unit) /\ down \in Seq(Unit) /\ line \in Seq(Unit) /\ payload \in Seq(Unit)
      /\ taken \in Seq(Unit)
      /\ Len(unread) \in Nat /\ Len(down) \in Nat /\ Len(Readable) = Len(unread) + Len(down)
  BY ComingIs, LenProperties DEF DownOK
<1>4. n \in 0 .. Len(Readable)
  BY <1>3 DEF CanRead, Least
<1> DEFINE x == Upto(Readable, n)
<1>5. /\ x \in Seq(Unit) /\ After(unread, n) \in Seq(Unit) /\ Arrived(n) \in Seq(Unit)
      /\ x \o (After(unread, n) \o Arrived(n)) = Readable
  BY <1>3, <1>4, ReadSplits
<1>6. /\ taken' = taken \o x
      /\ x \o (unread' \o down') = Readable /\ unread' \in Seq(Unit) /\ down' \in Seq(Unit)
  BY <1>1, <1>5
<1> HIDE DEF x
<1>7. taken' \in Seq(Unit)
  BY <1>3, <1>5, <1>6, Assoc
<1>8. Heads' = Heads \o x
  <2> DEFINE a == line \o payload
  <2>1. a \in Seq(Unit) /\ taken \in Seq(Unit) /\ x \in Seq(Unit)
    BY <1>3, <1>5, Assoc
  <2>2. Heads = a \o taken /\ Heads' = a \o (taken \o x)
    BY <1>2, <1>6 DEF Heads
  <2> HIDE DEF a
  <2>3. (a \o taken) \o x = a \o (taken \o x)
    BY ONLY <2>1, Assoc
  <2> QED
    BY <2>2, <2>3
<1> QED
  BY <1>2, <1>3, <1>5, <1>6, <1>7, <1>8, DownMoves

----------------------------------------------------------------------------
(* Where a session stands                                                 *)

\* What is asked for once the router said hello.
Wanted == IF kind = "client" THEN "CONNECT" ELSE "ACCEPT"

\* How far the session of a stream is.
Progress ==
    \/ state = "OFF"
    \/ /\ state = "SERVER_CONNECTED" /\ expected = "SAM_HELLOED" /\ sock = "CONNECTING"
       /\ Len(asked) = 1 /\ Len(heard) = 0
    \/ /\ state = "SAM_HELLOED" /\ expected = "STREAM_OK" /\ sock = "CONNECTING"
       /\ Len(asked) = 2 /\ Len(heard) = 1
    \/ /\ state = "ON" /\ expected = "ON" /\ sock = "TRANSFERRED"
       /\ Len(asked) = 2 /\ Len(heard) = 2

\* It says hello, then what it wants;
Asking ==
    /\ Len(asked) <= 2
    /\ Len(asked) >= 1 => asked[1] = Command("HELLO")
    /\ Len(asked) = 2 => asked[2] = Command(Wanted)

\* each is answered once, and the answers name what they answer;
Answers ==
    /\ Len(told) = Len(got)
    /\ \A k \in 1 .. Len(told) : \E r \in {"OK", "ERROR"} : told[k] = Answer(r, asked[k][2])

\* the peer comes after that.
PeerIsLast ==
    /\ peer => Len(told) = 2
    /\ peer /\ kind = "accepter" => sock = "TRANSFERRED"

StreamOK == ~ OwnSocket => Asking /\ Answers /\ Progress /\ PeerIsLast

\* The others have no peer, and hand over no socket.
OwnOK == OwnSocket => expected # "STREAM_OK" /\ sock # "TRANSFERRED" /\ ~ peer

\* What may be expected.
States == {"SERVER_CONNECTED", "SAM_HELLOED", "KEYS_GENERATED", "SESSION_CREATED", "NAMING_LOOKEDUP",
           "STREAM_OK", "DATAGRAM_INCOMING", "ON"}

\* Before the connection is made.
Starting == tcp = "connecting" =>
    /\ state = "OFF" /\ expected = "SERVER_CONNECTED" /\ sock = "CONNECTING"
    /\ asked = <<>> /\ told = <<>> /\ down = <<>>

ControlOK == kind \in Kinds /\ expected \in States /\ Starting /\ OwnOK /\ StreamOK

\* The inductive invariant.
IInv == UpOK /\ DownOK /\ ReadOK /\ ControlOK

\* What the state machines ask for, and what they expect of the answer.
LEMMA Speaks ==
    ASSUME NEW s, NextCommand(s) # "none"
    PROVE  /\ NextCommand(s) \in {"HELLO", "GENERATE", "CREATE", "NAMING", "CONNECT", "ACCEPT"}
           /\ Command(NextCommand(s)) \in Messages /\ StateAfter[NextCommand(s)] \in States
           /\ OwnSocket => StateAfter[NextCommand(s)] # "STREAM_OK"
<1> DEFINE c == NextCommand(s)
<1>1. /\ c \in {"HELLO", "GENERATE", "CREATE", "NAMING", "CONNECT", "ACCEPT"}
      /\ OwnSocket => c \notin {"CONNECT", "ACCEPT"}
  BY DEF NextCommand, OwnSocket
<1> HIDE DEF c
<1>2. Command(c) \in Messages
  BY <1>1 DEF Command, Messages, Things, Names
<1>3. /\ StateAfter[c] \in States
      /\ OwnSocket => StateAfter[c] # "STREAM_OK"
  BY <1>1 DEF StateAfter, States
<1> QED
  BY <1>1, <1>2, <1>3 DEF c

\* A change of state asks for at most one thing.
LEMMA ChangeExtends ==
    ASSUME NEW s, change_state(s)
    PROVE  Extends /\ kind' = kind
<1>1. kind' = kind
  BY DEF change_state
<1>2. CASE Asks(s)
  <2>1. /\ asked' = Append(asked, Command(NextCommand(s))) /\ queue' = Append(queue, Command(NextCommand(s)))
        /\ NextCommand(s) # "none"
    BY <1>2 DEF Asks, sam_queue
  <2>2. Command(NextCommand(s)) \in Messages
    BY <2>1, Speaks
  <2> QED
    BY <1>1, <2>1, <2>2 DEF Extends
<1>3. CASE Runs(s) \/ Receives(s) \/ Transfers(s) \/ Fails(s)
  BY <1>1, <1>3 DEF Extends, Runs, Receives, Transfers, Fails
<1> QED
  BY <1>2, <1>3 DEF change_state

\* raise_error expects nothing else and asks for nothing.
LEMMA ChangeFails ==
    ASSUME expected \in States, change_state("OFF")
    PROVE  /\ state' = "OFF" /\ expected' = expected /\ asked' = asked /\ queue' = queue /\ kind' = kind
           /\ sock' = CASE OwnSocket -> "STOPPED" [] kind = "client" -> "TRANSFERRED" [] OTHER -> sock
<1>1. expected # "OFF"
  BY DEF States
<1> QED
  BY <1>1 DEF change_state, Fails

\* A session that owns its socket never hands it over.
LEMMA ChangeOwn ==
    ASSUME NEW s, change_state(s), OwnSocket, OwnOK, expected \in States, peer' = peer
    PROVE  OwnOK' /\ expected' \in States /\ OwnSocket' /\ sock' # "TRANSFERRED"
<1>1. OwnSocket' /\ expected # "STREAM_OK" /\ sock # "TRANSFERRED" /\ ~ peer'
  BY DEF change_state, OwnSocket, OwnOK
<1>2. CASE s = expected /\ Asks(s)
  BY <1>1, <1>2, Speaks DEF Asks, OwnOK
<1>3. CASE s = expected /\ Runs(s)
  BY <1>1, <1>3 DEF Runs, OwnOK, States
<1>4. CASE s = expected /\ Receives(s)
  BY <1>1, <1>4 DEF Receives, OwnOK
<1>5. CASE s = expected /\ Transfers(s)
  BY <1>1, <1>5 DEF Transfers
<1>6. CASE Fails(s)
  <2>1. sock' = "STOPPED"
    BY <1>6 DEF Fails, OwnSocket
  <2>2. expected' = expected
    BY <1>6 DEF Fails
  <2> QED
    BY <1>1, <2>1, <2>2 DEF OwnOK
<1> QED
  BY <1>2, <1>3, <1>4, <1>5, <1>6 DEF change_state

\* What ControlOK is about.
Control == <<kind, state, expected, sock, tcp, peer, asked, got, told, heard>>

\* An action that leaves the control alone keeps what is said of it.
LEMMA ControlStays ==
    ASSUME ControlOK, UNCHANGED Control, down' = down \/ tcp # "connecting"
    PROVE  ControlOK'
<1>1. /\ kind' = kind /\ state' = state /\ expected' = expected /\ sock' = sock /\ tcp' = tcp /\ peer' = peer
      /\ asked' = asked /\ got' = got /\ told' = told /\ heard' = heard
  BY DEF Control
<1>2. kind' \in Kinds /\ expected' \in States /\ Starting'
  BY <1>1 DEF ControlOK, Starting
<1>3. OwnOK'
  BY <1>1 DEF ControlOK, OwnOK, OwnSocket
<1>4. StreamOK'
  BY <1>1 DEF ControlOK, StreamOK, OwnSocket, Progress, Wanted, Asking, Answers, PeerIsLast
<1> QED
  BY <1>2, <1>3, <1>4 DEF ControlOK

\* The same of the contexts of reading,
LEMMA ReadStays ==
    ASSUME ReadOK, UNCHANGED <<kind, state, sock, peer, told, heard, taken, read, line, payload>>,
           handler' = handler \/ handler' # "input"
    PROVE  ReadOK'
BY DEF ReadOK, Due

\* of the bytes that come,
LEMMA DownStays ==
    ASSUME DownOK, UNCHANGED <<peer, told, heard, taken, line, payload, unread, down>>
    PROVE  DownOK'
<1>1. Coming' = Coming /\ Spoken' = Spoken
  BY DEF Coming, Heads, Spoken
<1> HIDE DEF Coming, Spoken
<1> QED
  BY <1>1 DEF DownOK

\* and of those that go.
LEMMA UpStays ==
    ASSUME UpOK, UNCHANGED <<asked, queue, got, up, write>>
    PROVE  UpOK'
BY DEF UpOK

----------------------------------------------------------------------------
(* Every action keeps the invariant                                       *)

\* A handler that reads means that the connection was made.
LEMMA InputIsUp ==
    ASSUME IInv, handler = "input"
    PROVE  state # "OFF" /\ tcp # "connecting"
BY DEF IInv, ReadOK, ControlOK, Starting

\* The session reads a line, or of a payload.
LEMMA StepReads ==
    ASSUME IInv, ReadLine \/ ReadPayload
    PROVE  IInv'
<1>1. UpOK'
  BY UpStays DEF IInv, ReadLine, ReadPayload, session, out, router
<1>2. DownOK' /\ ReadOK'
  BY DownReadLine, DownReadPayload DEF IInv
<1>3. ControlOK'
  <2>1. tcp # "connecting"
    BY InputIsUp DEF ReadLine, ReadPayload
  <2>2. UNCHANGED Control
    BY DEF ReadLine, ReadPayload, Control, session, stream, router
  <2> QED
    BY <2>1, <2>2, ControlStays DEF IInv
<1> QED
  BY <1>1, <1>2, <1>3 DEF IInv

\* A handler begins to read: then the answers were not all heard.
LEMMA StepOnInput ==
    ASSUME IInv, OnInput
    PROVE  IInv'
<1>1. UpOK'
  BY UpStays DEF IInv, OnInput, session, out, router
<1>2. DownOK'
  BY DownStays DEF IInv, OnInput, in, stream, router
<1>3. ControlOK'
  <2>1. UNCHANGED Control /\ down' = down
    BY DEF OnInput, Control, session, stream, router
  <2> QED
    BY <2>1, ControlStays DEF IInv
<1>4. /\ kind' = kind /\ state' = state /\ sock' = sock /\ peer' = peer /\ told' = told /\ heard' = heard
      /\ taken' = taken /\ read' = read /\ line' = line /\ payload' = payload
      /\ state # "OFF" /\ sock # "TRANSFERRED"
  BY DEF OnInput, IsSams, session, stream, router, in
<1>5. Due
  <2> SUFFICES ASSUME peer PROVE Len(heard) < Len(told)
    BY DEF Due
  <2>1. ~ OwnSocket
    BY DEF IInv, ControlOK, OwnOK
  <2>2. Len(told) = 2 /\ Progress
    BY <2>1 DEF IInv, ControlOK, StreamOK, PeerIsLast
  <2> QED
    BY <1>4, <2>2 DEF Progress
<1>6. ReadOK'
  BY <1>4, <1>5 DEF IInv, ReadOK, Due
<1> QED
  BY <1>1, <1>2, <1>3, <1>6 DEF IInv

\* Handlers and calls that only move what is to be written, or what is kept
\* for the owner.
LEMMA StepQuiet ==
    ASSUME IInv, OnOutput \/ RecvFrom \/ udp_server_connected \/ SetNetworkStarted \/ NextMessage \/ Write
    PROVE  IInv'
<1>1. UpOK'
  <2>1. CASE NextMessage
    BY <2>1, UpNext DEF IInv
  <2>2. CASE Write
    BY <2>2, UpWrite DEF IInv
  <2>3. CASE OnOutput \/ RecvFrom \/ udp_server_connected \/ SetNetworkStarted
    BY <2>3, UpStays DEF IInv, OnOutput, RecvFrom, udp_server_connected, SetNetworkStarted, session, out, router
  <2> QED
    BY <2>1, <2>2, <2>3
<1>2. /\ UNCHANGED <<peer, told, heard, taken, line, payload, unread, down, kind, state, sock, read>>
      /\ UNCHANGED Control
  BY DEF OnOutput, RecvFrom, udp_server_connected, SetNetworkStarted, NextMessage, Write,
         session, in, stream, router, Control
<1>3. handler' = handler \/ handler' # "input"
  BY DEF OnOutput, RecvFrom, udp_server_connected, SetNetworkStarted, NextMessage, Write
<1>4. DownOK'
  BY <1>2, DownStays DEF IInv
<1>5. ReadOK'
  BY <1>2, <1>3, ReadStays DEF IInv
<1>6. ControlOK'
  BY <1>2, ControlStays DEF IInv
<1> QED
  BY <1>1, <1>4, <1>5, <1>6 DEF IInv

\* The number of the datagrams that were sent is a number.
LEMMA SentIs ==
    ASSUME NEW s \in Seq(Messages)
    PROVE  Sent(s) \in Nat
<1>1. IsFiniteSet(1 .. Len(s))
  BY LenProperties, FS_Interval
<1>2. {k \in DOMAIN s : s[k][1] = "DATAGRAM"} \subseteq 1 .. Len(s)
  BY LenProperties
<1>3. IsFiniteSet({k \in DOMAIN s : s[k][1] = "DATAGRAM"})
  BY <1>1, <1>2, FS_Subset
<1> QED
  BY <1>3, FS_CardinalityType DEF Sent

\* Kad sends a datagram.
LEMMA StepSendTo ==
    ASSUME IInv, SendTo
    PROVE  IInv'
<1>1. UpOK'
  <2> DEFINE m == Datagram(Outgoing[Sent(asked) + 1])
  <2>1. Sent(asked) + 1 \in Nat
    BY SentIs DEF IInv, UpOK
  <2>2. m \in Messages
    BY <2>1 DEF Datagram, Messages, Things
  <2>3. asked' = Append(asked, m) /\ queue' = Append(queue, m)
    BY DEF SendTo, sam_queue
  <2> HIDE DEF m
  <2>4. Extends
    BY <2>2, <2>3 DEF Extends
  <2>5. UNCHANGED <<up, write, got>>
    BY DEF SendTo, router
  <2> QED
    BY <2>4, <2>5, UpExtends DEF IInv
<1>2. /\ UNCHANGED <<peer, told, heard, taken, line, payload, unread, down, kind, state, sock, read, handler, tcp, expected>>
      /\ kind = "datagram" /\ sock = "RUNNING"
  BY DEF SendTo, session, in, stream, router
<1>3. DownOK'
  BY <1>2, DownStays DEF IInv
<1>4. ReadOK'
  BY <1>2, ReadStays DEF IInv
<1>5. ControlOK'
  <2>1. OwnSocket'
    BY <1>2 DEF OwnSocket
  <2>2. kind' \in Kinds /\ expected' \in States /\ OwnOK'
    BY <1>2 DEF IInv, ControlOK, OwnOK, OwnSocket
  <2>3. Starting'
    BY <1>2 DEF IInv, ControlOK, Starting
  <2> QED
    BY <2>1, <2>2, <2>3 DEF ControlOK, StreamOK
<1> QED
  BY <1>1, <1>3, <1>4, <1>5 DEF IInv

\* The application reads.
LEMMA StepRead ==
    ASSUME IInv, Read
    PROVE  IInv'
<1>1. UpOK'
  BY UpStays DEF IInv, Read, session, out, router
<1>2. DownOK'
  BY DownRead DEF IInv
<1>3. /\ UNCHANGED <<peer, told, heard, line, payload, kind, state, sock, read, handler>> /\ UNCHANGED Control
      /\ sock = "TRANSFERRED" /\ handler = "none"
  BY DEF Read, session, router, Control
<1>4. tcp # "connecting"
  BY <1>3 DEF IInv, ControlOK, Starting
<1>5. ControlOK'
  BY <1>3, <1>4, ControlStays DEF IInv
<1>6. ReadOK'
  BY <1>3 DEF IInv, ReadOK, Due
<1> QED
  BY <1>1, <1>2, <1>5, <1>6 DEF IInv

\* The router ends the connection.
LEMMA StepRouterDies ==
    ASSUME IInv, RouterDies
    PROVE  IInv'
<1>1. /\ UNCHANGED <<peer, told, heard, taken, line, payload, unread, down, kind, state, sock, read, handler, expected, asked, got>>
      /\ UNCHANGED <<queue, up, write>> /\ tcp' = "closed"
  BY DEF RouterDies, session, in, stream, router, out
<1>2. UpOK'
  BY <1>1, UpStays DEF IInv
<1>3. DownOK'
  BY <1>1, DownStays DEF IInv
<1>4. ReadOK'
  BY <1>1, ReadStays DEF IInv
<1>5. ControlOK'
  <2>1. kind' \in Kinds /\ expected' \in States /\ Starting'
    BY <1>1 DEF IInv, ControlOK, Starting
  <2>2. OwnOK'
    BY <1>1 DEF IInv, ControlOK, OwnOK, OwnSocket
  <2>3. StreamOK'
    BY <1>1 DEF IInv, ControlOK, StreamOK, OwnSocket, Progress, Wanted, Asking, Answers, PeerIsLast
  <2> QED
    BY <2>1, <2>2, <2>3 DEF ControlOK
<1> QED
  BY <1>2, <1>3, <1>4, <1>5 DEF IInv

\* What is said while the session waits lies behind what it reads.
LEMMA ReadTells ==
    ASSUME ReadOK, DownOK, UNCHANGED <<kind, state, sock, peer, heard, taken, read, line, payload, handler>>,
           NEW x, told' = Append(told, x), x \in Messages
    PROVE  ReadOK'
<1>1. /\ Len(told) \in Nat /\ Len(told') = Len(told) + 1 /\ Len(heard) \in Nat
      /\ \A k \in 1 .. Len(told) : told'[k] = told[k]
  BY LenProperties, AppendProperties DEF DownOK
<1>2. ASSUME Len(heard) < Len(told)
      PROVE  Len(heard) < Len(told') /\ told'[Len(heard) + 1] = told[Len(heard) + 1]
  <2>1. Len(heard) + 1 \in 1 .. Len(told)
    BY <1>1, <1>2
  <2> QED
    BY <1>1, <1>2, <2>1
<1> QED
  BY <1>2 DEF ReadOK, Due

\* The router gets a message and answers it.
LEMMA StepRouterGets ==
    ASSUME IInv, RouterGets
    PROVE  IInv'
<1> DEFINE m == up[1][1]
           n == Len(got)
<1>1. /\ UpOK' /\ n < Len(asked) /\ got' = Append(got, asked[n + 1])
      /\ m = asked[n + 1] /\ m \in Messages /\ asked' = asked
  BY UpGets DEF IInv
<1>2. /\ tcp = "open" /\ tcp' = tcp
      /\ UNCHANGED <<peer, heard, taken, line, payload, unread, kind, state, sock, read, handler, expected>>
  BY DEF RouterGets, session, in, stream, out
<1>3. \/ \E r \in {"OK", "ERROR"} : /\ told' = Append(told, Answer(r, m[2])) /\ down' = down \o Units(Answer(r, m[2]))
      \/ told' = told /\ down' = down /\ m[1] = "DATAGRAM"
  BY DEF RouterGets, Tells
<1>4. Len(asked) \in Nat /\ n \in Nat /\ asked \in Seq(Messages) /\ told \in Seq(Messages) /\ got \in Seq(Messages)
  BY LenProperties DEF IInv, UpOK, DownOK
<1>5. Len(got') = n + 1
  BY <1>1, <1>4, AppendProperties, ElementOfSeq DEF UpOK
<1>6. ASSUME ~ OwnSocket
      PROVE  /\ ~ peer /\ n \in {0, 1} /\ \E c : m = Command(c)
             /\ \E r \in {"OK", "ERROR"} : told' = Append(told, Answer(r, asked[n + 1][2]))
  <2>1. /\ Len(asked) <= 2 /\ Len(told) = n
        /\ Len(asked) >= 1 => asked[1] = Command("HELLO")
        /\ Len(asked) = 2 => asked[2] = Command(Wanted)
        /\ peer => Len(told) = 2
    BY <1>6 DEF IInv, ControlOK, StreamOK, Asking, Answers, PeerIsLast
  <2>2. n \in {0, 1} /\ ~ peer
    BY <1>1, <1>4, <2>1
  <2>3. \E c : m = Command(c)
    <3>1. CASE n = 0
      BY <1>1, <1>4, <2>1, <3>1
    <3>2. CASE n = 1
      <4> DEFINE a == Len(asked)
      <4>0. n < a /\ a \in Nat /\ a <= 2
        BY <1>1, <1>4, <2>1
      <4>1. Len(asked) = 2 /\ n + 1 = 2
        <5> HIDE DEF a
        <5>1. a = 2
          BY <3>2, <4>0
        <5> QED
          BY <3>2, <5>1 DEF a
      <4> QED
        BY <1>1, <2>1, <4>1
    <3> QED
      BY <2>2, <3>1, <3>2
  <2>4. m[1] # "DATAGRAM"
    BY <2>3 DEF Command
  <2> QED
    BY <1>1, <1>3, <2>2, <2>3, <2>4
<1>7. ~ peer
  BY <1>6 DEF IInv, ControlOK, OwnOK
<1>8. \A r \in {"OK", "ERROR"} : Answer(r, m[2]) \in Messages
  <2> HIDE DEF m
  <2> QED
    BY <1>1 DEF Answer, Messages
<1> HIDE DEF m
<1>9. DownOK' /\ ReadOK'
  <2>1. CASE told' = told /\ down' = down
    BY <1>2, <2>1, DownStays, ReadStays DEF IInv
  <2>2. ASSUME NEW r \in {"OK", "ERROR"},
               told' = Append(told, Answer(r, m[2])), down' = down \o Units(Answer(r, m[2]))
        PROVE  DownOK' /\ ReadOK'
    <3> DEFINE x == Answer(r, m[2])
    <3>1. x \in Messages /\ told' = Append(told, x) /\ down' = down \o Units(x) /\ peer' = peer
      BY <1>2, <1>8, <2>2
    <3> HIDE DEF x
    <3>2. DownOK'
      BY <1>2, <1>7, <3>1, DownTells DEF IInv
    <3>3. ReadOK'
      BY <1>2, <3>1, ReadTells DEF IInv
    <3> QED
      BY <3>2, <3>3
  <2> QED
    BY <1>3, <2>1, <2>2
<1>10. ControlOK'
  <2>1. kind' \in Kinds /\ expected' \in States /\ Starting' /\ OwnOK'
    BY <1>2 DEF IInv, ControlOK, Starting, OwnOK, OwnSocket
  <2>2. StreamOK'
    <3> SUFFICES ASSUME ~ OwnSocket PROVE StreamOK'
      BY <1>2 DEF StreamOK, OwnSocket
    <3>1. PICK r \in {"OK", "ERROR"} : told' = Append(told, Answer(r, asked[n + 1][2]))
      BY <1>6
    <3> DEFINE x == Answer(r, asked[n + 1][2])
    <3>2. /\ Len(told) = n /\ \A k \in 1 .. Len(told) : \E q \in {"OK", "ERROR"} : told[k] = Answer(q, asked[k][2])
      BY DEF IInv, ControlOK, StreamOK, Asking, Answers, PeerIsLast
    <3>3. Len(told') = n + 1 /\ (\A k \in 1 .. n : told'[k] = told[k]) /\ told'[n + 1] = x
      <4>1. x \in Messages
        BY <1>1, <1>8
      <4>2. told' = Append(told, x)
        BY <3>1
      <4> HIDE DEF x, n
      <4> QED
        BY <1>4, <3>2, <4>1, <4>2, AppendProperties
    <3>4. \A k \in 1 .. Len(told') : \E q \in {"OK", "ERROR"} : told'[k] = Answer(q, asked[k][2])
      <4> TAKE k \in 1 .. Len(told')
      <4>1. CASE k = n + 1
        <5>1. told'[k] = Answer(r, asked[k][2])
          BY <3>3, <4>1
        <5> QED
          BY <5>1
      <4>2. CASE k # n + 1
        <5>1. k \in 1 .. n
          BY <1>4, <3>3, <4>2
        <5> HIDE DEF n
        <5> QED
          BY <3>2, <3>3, <5>1
      <4> QED
        BY <4>1, <4>2
    <3>5. Len(told') = Len(got') /\ ~ peer' /\ asked' = asked
      BY <1>1, <1>2, <1>5, <1>7, <3>3
    <3>6. Asking /\ Progress
      BY DEF IInv, ControlOK, StreamOK
    <3>7. Progress' /\ Asking'
      BY <1>2, <3>5, <3>6 DEF Progress, Wanted, Asking
    <3>8. Answers'
      BY <3>4, <3>5 DEF Answers
    <3>9. PeerIsLast'
      BY <3>5 DEF PeerIsLast
    <3> QED
      BY <3>7, <3>8, <3>9 DEF StreamOK
  <2> QED
    BY <2>1, <2>2 DEF ControlOK
<1> QED
  BY <1>1, <1>9, <1>10 DEF IInv

\* The router passes on a datagram.
LEMMA StepRouterTells ==
    ASSUME IInv, RouterTells
    PROVE  IInv'
<1> DEFINE x == Datagram(Incoming[Sent(told) + 1])
<1>1. /\ tcp = "open" /\ tcp' = tcp /\ kind = "datagram"
      /\ UNCHANGED <<peer, heard, taken, line, payload, unread, kind, state, sock, read, handler, expected>>
      /\ UNCHANGED <<asked, queue, got, up, write>>
  BY DEF RouterTells, session, in, stream, out
<1>2. told' = Append(told, x) /\ down' = down \o Units(x)
  BY DEF RouterTells, Tells
<1>3. x \in Messages
  <2>1. Sent(told) + 1 \in Nat
    BY SentIs DEF IInv, DownOK
  <2> QED
    BY <2>1 DEF Datagram, Messages, Things
<1> HIDE DEF x
<1>4. ~ peer /\ OwnSocket
  BY <1>1 DEF IInv, ControlOK, OwnOK, OwnSocket
<1>5. UpOK'
  BY <1>1, UpStays DEF IInv
<1>6. DownOK'
  BY <1>1, <1>2, <1>3, <1>4, DownTells DEF IInv
<1>7. ReadOK'
  BY <1>1, <1>2, <1>3, ReadTells DEF IInv
<1>8. ControlOK'
  BY <1>1, <1>4 DEF IInv, ControlOK, Starting, OwnOK, OwnSocket, StreamOK
<1> QED
  BY <1>5, <1>6, <1>7, <1>8 DEF IInv

\* A peer sends once it is known: behind both answers, and to an accepter when
\* the session has done with the socket.
LEMMA StepPeerSends ==
    ASSUME "eager" \notin Env, IInv, PeerSends
    PROVE  IInv'
<1>1. /\ tcp = "open" /\ tcp' = tcp /\ ~ peer /\ peer' = TRUE /\ down' = down \o Units(PeerLine)
      /\ UNCHANGED <<told, heard, taken, line, payload, unread, kind, state, sock, read, handler, expected>>
      /\ UNCHANGED <<asked, queue, got, up, write>>
  BY DEF PeerSends, session, in, router, out
<1>2. \/ kind = "client" /\ Said(Answer("OK", "CONNECT"))
      \/ kind = "accepter" /\ Said(Answer("OK", "ACCEPT")) /\ sock = "TRANSFERRED" /\ handler = "none"
  BY DEF PeerSends
<1>3. ~ OwnSocket /\ Said(Answer("OK", Wanted))
  BY <1>2 DEF OwnSocket, Wanted
<1>4. /\ Len(asked) <= 2 /\ Len(told) = Len(got) /\ Progress
      /\ Len(asked) >= 1 => asked[1] = Command("HELLO")
      /\ \A k \in 1 .. Len(told) : \E r \in {"OK", "ERROR"} : told[k] = Answer(r, asked[k][2])
  BY <1>3 DEF IInv, ControlOK, StreamOK, Asking, Answers, PeerIsLast
<1>5. Len(told) \in Nat /\ Len(got) \in Nat /\ Len(asked) \in Nat /\ Len(got) <= Len(asked) /\ Len(heard) \in Nat
  <2>1. Len(got) <= Len(asked) - Len(queue) /\ Len(queue) \in Nat /\ Len(asked) \in Nat /\ Len(got) \in Nat
    BY LenProperties DEF IInv, UpOK, Carries
  <2>2. Len(told) \in Nat /\ Len(heard) \in Nat
    BY LenProperties DEF IInv, DownOK
  <2> QED
    BY <2>1, <2>2
<1>6. Len(told) = 2
  <2>1. PICK k \in 1 .. Len(told) : told[k] = Answer("OK", Wanted)
    BY <1>3 DEF Said
  <2>2. PICK r \in {"OK", "ERROR"} : told[k] = Answer(r, asked[k][2])
    BY <1>4, <2>1
  <2>3. asked[k][2] = Wanted
    BY <2>1, <2>2 DEF Answer
  <2>4. k # 1
    <3> SUFFICES ASSUME k = 1 PROVE FALSE
      OBVIOUS
    <3>1. asked[1] = Command("HELLO")
      BY <1>4, <1>5, <2>1
    <3> QED
      BY <2>3, <3>1 DEF Command, Wanted
  <2> QED
    BY <1>4, <1>5, <2>1, <2>4
<1>7. UpOK'
  BY <1>1, UpStays DEF IInv
<1>8. DownOK'
  <2>1. PeerLine \in Messages
    BY DEF PeerLine, Messages, Things, Names
  <2> QED
    BY <1>1, <2>1, DownTells DEF IInv
<1>9. ReadOK'
  <2>1. ASSUME handler = "input"
        PROVE  sock # "TRANSFERRED" /\ Len(heard) < Len(told)
    <3>1. kind = "client" /\ state # "OFF" /\ sock # "TRANSFERRED"
      BY <1>2, <2>1 DEF IInv, ReadOK
    <3>2. Len(heard) = 0 \/ Len(heard) = 1
      BY <1>4, <3>1 DEF Progress
    <3>3. Len(heard) < Len(told)
      BY <1>6, <3>2
    <3> QED
      BY <3>1, <3>3
  <2> QED
    BY <1>1, <2>1 DEF IInv, ReadOK, Due
<1>10. ControlOK'
  <2>1. kind' \in Kinds /\ expected' \in States /\ Starting'
    BY <1>1 DEF IInv, ControlOK, Starting
  <2>2. OwnOK'
    BY <1>1, <1>3 DEF OwnOK, OwnSocket
  <2>3. StreamOK'
    BY <1>1, <1>2, <1>3, <1>6 DEF IInv, ControlOK, StreamOK, OwnSocket, Progress, Wanted, Asking, Answers, PeerIsLast
  <2> QED
    BY <2>1, <2>2, <2>3 DEF ControlOK
<1> QED
  BY <1>7, <1>8, <1>9, <1>10 DEF IInv

\* The session fails outside of Dispatch.
LEMMA StepFails ==
    ASSUME IInv, change_state("OFF"), UNCHANGED <<write, in, up, down, stream, heard, router>>,
           handler' # "input", tcp' # "connecting"
    PROVE  IInv'
<1>1. /\ state' = "OFF" /\ expected' = expected /\ asked' = asked /\ queue' = queue /\ kind' = kind
      /\ sock' = CASE OwnSocket -> "STOPPED" [] kind = "client" -> "TRANSFERRED" [] OTHER -> sock
  BY ChangeFails DEF IInv, ControlOK
<1>2. UNCHANGED <<read, line, payload, unread, peer, taken, got, told, heard, up, write, down>>
  BY DEF in, stream, router
<1>3. UpOK'
  BY <1>1, <1>2, UpStays DEF IInv
<1>4. DownOK'
  BY <1>2, DownStays DEF IInv
<1>5. OwnSocket' <=> OwnSocket
  BY <1>1 DEF OwnSocket
<1>6. sock = "TRANSFERRED" => sock' = "TRANSFERRED"
  <2>1. OwnSocket => sock # "TRANSFERRED"
    BY DEF IInv, ControlOK, OwnOK
  <2> QED
    BY <1>1, <2>1 DEF OwnSocket
<1>7. ReadOK'
  BY <1>2, <1>6 DEF IInv, ReadOK
<1>8. kind' \in Kinds /\ expected' \in States /\ Starting'
  BY <1>1 DEF IInv, ControlOK, Starting
<1>9. OwnOK'
  <2> SUFFICES ASSUME OwnSocket PROVE OwnOK'
    BY <1>5 DEF OwnOK
  <2>1. sock' = "STOPPED"
    BY <1>1 DEF OwnSocket
  <2> QED
    BY <1>1, <1>2, <2>1 DEF IInv, ControlOK, OwnOK
<1>10. StreamOK'
  <2> SUFFICES ASSUME ~ OwnSocket PROVE StreamOK'
    BY <1>5 DEF StreamOK
  <2>1. Asking /\ Answers /\ PeerIsLast
    BY DEF IInv, ControlOK, StreamOK
  <2>2. Asking' /\ Answers' /\ Progress'
    BY <1>1, <1>2, <2>1 DEF Asking, Answers, Progress, Wanted
  <2>3. PeerIsLast'
    BY <1>1, <1>2, <1>6, <2>1 DEF PeerIsLast
  <2> QED
    BY <2>2, <2>3 DEF StreamOK
<1>11. ControlOK'
  BY <1>8, <1>9, <1>10 DEF ControlOK
<1> QED
  BY <1>3, <1>4, <1>7, <1>11 DEF IInv

\* The connection is lost.
LEMMA StepOnLost ==
    ASSUME IInv, OnLost
    PROVE  IInv'
<1>1. CASE IsSams /\ raise_error
  <2>1. change_state("OFF") /\ tcp' # "connecting" /\ handler' # "input"
    BY <1>1 DEF OnLost, raise_error
  <2> QED
    BY <2>1, StepFails DEF OnLost
<1>2. CASE UNCHANGED <<session, queue, posted, asked, tcp, notify, inputs, inbox>>
  <2>1. /\ UNCHANGED <<peer, told, heard, taken, line, payload, unread, down, kind, state, sock, read, handler>>
        /\ UNCHANGED Control /\ UNCHANGED <<asked, queue, got, up, write>>
    BY <1>2 DEF OnLost, session, in, stream, router, Control
  <2>2. UpOK' /\ DownOK' /\ ReadOK' /\ ControlOK'
    BY <2>1, UpStays, DownStays, ReadStays, ControlStays DEF IInv
  <2> QED
    BY <2>2 DEF IInv
<1> QED
  BY <1>1, <1>2 DEF OnLost

\* A Read or a Write fails.
LEMMA StepReadOrWriteFails ==
    ASSUME IInv, ReadOrWriteFails
    PROVE  IInv'
<1>1. change_state("OFF") /\ tcp' # "connecting" /\ handler' # "input"
  BY DEF ReadOrWriteFails, raise_error
<1> QED
  BY <1>1, StepFails DEF ReadOrWriteFails

\* The connection with the router is made, or refused.
LEMMA StepOnConnection ==
    ASSUME IInv, OnConnection
    PROVE  IInv'
<1>1. /\ state = "OFF" /\ expected = "SERVER_CONNECTED" /\ sock = "CONNECTING" /\ asked = <<>> /\ told = <<>>
      /\ down = <<>> /\ handler # "input"
  BY DEF OnConnection, IInv, ControlOK, Starting, ReadOK
<1>2. UNCHANGED <<read, line, payload, unread, peer, taken, got, told, heard, up, write, down, handler>>
  BY DEF OnConnection, in, stream, router
<1>3. CASE change_state("OFF") /\ tcp' = "closed"
  BY <1>1, <1>2, <1>3, StepFails DEF OnConnection
<1>4. CASE change_state("SERVER_CONNECTED") /\ tcp' = "open"
  <2>1. NextCommand("SERVER_CONNECTED") = "HELLO"
    BY DEF NextCommand
  <2>2. Asks("SERVER_CONNECTED")
    BY <1>1, <1>4 DEF change_state, Runs, Receives, Transfers
  <2>3. /\ state' = "SERVER_CONNECTED" /\ expected' = "SAM_HELLOED" /\ sock' = sock
        /\ asked' = Append(asked, Command("HELLO"))
    BY <2>1, <2>2 DEF Asks, sam_queue, StateAfter
  <2>4. Extends /\ kind' = kind
    BY <1>4, ChangeExtends
  <2>5. UpOK'
    BY <1>2, <2>4, UpExtends DEF IInv
  <2>6. DownOK'
    BY <1>2, DownStays DEF IInv
  <2>7. ReadOK'
    BY <1>1, <1>2, <2>3 DEF IInv, ReadOK
  <2>8. asked' = <<Command("HELLO")>>
    BY <1>1, <2>3
  <2>9. Len(heard) = 0 /\ heard' = heard
    <3>1. Len(heard) <= Len(told) /\ Len(heard) \in Nat /\ Len(told) = 0
      BY <1>1, LenProperties DEF IInv, DownOK
    <3> QED
      BY <1>2, <3>1
  <2>10. ControlOK'
    <3>1. kind' \in Kinds /\ expected' \in States /\ Starting' /\ (OwnSocket' <=> OwnSocket)
      BY <1>4, <2>3, <2>4 DEF IInv, ControlOK, Starting, States, OwnSocket
    <3>2. OwnOK'
      BY <1>1, <1>2, <2>3, <3>1 DEF IInv, ControlOK, OwnOK
    <3>3. StreamOK'
      <4> SUFFICES ASSUME ~ OwnSocket PROVE StreamOK'
        BY <3>1 DEF StreamOK
      <4>1. Answers /\ PeerIsLast
        BY DEF IInv, ControlOK, StreamOK
      <4>2. Len(asked') = 1 /\ asked'[1] = Command("HELLO")
        BY <2>8
      <4>3. Asking'
        BY <4>2 DEF Asking, Command
      <4>4. Answers'
        BY <1>1, <1>2, <4>1 DEF Answers
      <4>5. PeerIsLast'
        BY <1>2, <2>3, <2>4, <4>1 DEF PeerIsLast
      <4>6. Progress'
        BY <1>1, <2>3, <2>9, <4>2 DEF Progress
      <4> QED
        BY <4>3, <4>4, <4>5, <4>6 DEF StreamOK
    <3> QED
      BY <3>1, <3>2, <3>3 DEF ControlOK
  <2> QED
    BY <2>5, <2>6, <2>7, <2>10 DEF IInv
<1> QED
  BY <1>3, <1>4 DEF OnConnection

\* Which message the session of a stream acts on, and what comes of it: the
\* socket is handed over by the second answer and by nothing else, and then no
\* handler reads on where a peer may have sent.
LEMMA DispatchOfStream ==
    ASSUME IInv, Dispatch, ~ OwnSocket
    PROVE  /\ StreamOK' /\ kind' = kind /\ expected' \in States
           /\ sock # "TRANSFERRED" /\ state # "OFF"
           /\ handler' = "input" => /\ state' # "OFF"
                                    /\ sock' = "TRANSFERRED" => kind = "accepter"
                                    /\ peer => Len(heard') < Len(told')
<1>1. /\ Len(heard) < Len(told) /\ Len(heard) \in Nat /\ Len(heard') = Len(heard) + 1
      /\ IsLine /\ Message = Told /\ Told \in Messages
  BY DownDispatch DEF IInv
<1>2. Asking /\ Answers /\ Progress /\ PeerIsLast
  BY DEF IInv, ControlOK, StreamOK
<1>3. /\ state # "OFF" /\ (sock = "TRANSFERRED" => kind = "accepter" /\ ~ peer)
  BY DEF Dispatch, IInv, ReadOK
<1>4. /\ Len(told) \in Nat /\ Len(asked) \in Nat /\ Len(got) \in Nat /\ Len(told) <= Len(asked) /\ Len(asked) <= 2
  <2>1. Len(got) <= Len(asked) - Len(queue) /\ Len(queue) \in Nat /\ Len(asked) \in Nat /\ Len(got) \in Nat
    BY LenProperties DEF IInv, UpOK, Carries
  <2>2. Len(told) \in Nat
    BY LenProperties DEF IInv, DownOK
  <2> QED
    BY <1>2, <2>1, <2>2 DEF Answers, Asking
<1>5. told' = told /\ got' = got /\ peer' = peer
  BY DEF Dispatch, stream, router
<1>6. PICK r \in {"OK", "ERROR"} : Told = Answer(r, asked[Len(heard) + 1][2])
  <2>1. Len(heard) + 1 \in 1 .. Len(told)
    BY <1>1, <1>4
  <2> QED
    BY <1>2, <2>1 DEF Answers, Told
<1>7. Message[1] = r /\ Message[2] = asked[Len(heard) + 1][2]
  BY <1>1, <1>6 DEF Answer
<1>8. \/ change_state(StateAfter[Message[2]])
      \/ change_state("OFF")
  BY <1>1, <1>7 DEF Dispatch, raise_error
<1>9. ~ OwnSocket' /\ kind' = kind /\ kind \in {"client", "accepter"}
  <2>1. kind' = kind
    BY <1>8 DEF change_state
  <2> QED
    BY <2>1, EnvAssumption DEF OwnSocket, IInv, ControlOK
<1>13. Len(heard) = 0 \/ Len(heard) = 1
  <2> DEFINE h == Len(heard)
             t == Len(told)
             a == Len(asked)
  <2>1. h < t /\ h \in Nat /\ t \in Nat /\ t <= a /\ a \in Nat /\ a <= 2
    BY <1>1, <1>4
  <2> HIDE DEF h, t, a
  <2>2. h = 0 \/ h = 1
    BY <2>1
  <2> QED
    BY <2>2 DEF h
<1>10. CASE change_state("OFF")
  <2>1. /\ state' = "OFF" /\ expected' = expected /\ asked' = asked
        /\ sock' = CASE OwnSocket -> "STOPPED" [] kind = "client" -> "TRANSFERRED" [] OTHER -> sock
    BY <1>10, ChangeFails DEF IInv, ControlOK
  <2>2. sock # "TRANSFERRED"
    <3>1. Len(heard) # 2
      BY <1>13
    <3> QED
      BY <1>2, <1>3, <3>1 DEF Progress
  <2>3. handler' = "none"
    BY <2>1 DEF Dispatch
  <2>4. Asking' /\ Answers' /\ Progress'
    BY <1>2, <1>5, <1>9, <2>1 DEF Asking, Answers, Progress, Wanted
  <2>5. PeerIsLast'
    BY <1>2, <1>5, <1>9, <2>1, <2>2 DEF PeerIsLast
  <2>6. expected' \in States
    BY <2>1 DEF IInv, ControlOK
  <2> QED
    BY <1>3, <1>9, <2>2, <2>3, <2>4, <2>5, <2>6 DEF StreamOK
<1>11. CASE change_state(StateAfter[Message[2]]) /\ Len(heard) = 0
  <2>1. state = "SERVER_CONNECTED" /\ expected = "SAM_HELLOED" /\ sock = "CONNECTING" /\ Len(asked) = 1
    BY <1>2, <1>3, <1>11 DEF Progress
  <2>2. Message[2] = "HELLO"
    <3>1. asked[1] = Command("HELLO") /\ Len(heard) + 1 = 1
      BY <1>2, <1>11, <2>1 DEF Asking
    <3> QED
      BY <1>7, <3>1 DEF Command
  <2>3. StateAfter[Message[2]] = "SAM_HELLOED"
    BY <2>2 DEF StateAfter
  <2>4. NextCommand("SAM_HELLOED") = Wanted /\ Wanted \in {"CONNECT", "ACCEPT"}
    BY <1>9 DEF NextCommand, Wanted, OwnSocket
  <2>5. Asks("SAM_HELLOED")
    BY <1>11, <2>1, <2>3 DEF change_state, Runs, Receives, Transfers
  <2>6. /\ state' = "SAM_HELLOED" /\ expected' = "STREAM_OK" /\ sock' = sock
        /\ asked' = Append(asked, Command(Wanted))
    BY <2>4, <2>5 DEF Asks, sam_queue, StateAfter
  <2>7. Len(asked') = 2 /\ asked'[1] = asked[1] /\ asked'[2] = Command(Wanted) /\ Wanted' = Wanted
    <3>1. asked \in Seq(Messages) /\ Command(Wanted) \in Messages
      BY <2>4 DEF IInv, UpOK, Command, Messages, Things, Names
    <3> DEFINE w == Command(Wanted)
    <3>2. asked' = Append(asked, w)
      BY <2>6
    <3>3. w \in Messages
      BY <3>1
    <3> HIDE DEF w
    <3>4. Len(asked') = Len(asked) + 1 /\ asked'[1] = asked[1] /\ asked'[2] = w
      <4>1. /\ Len(Append(asked, w)) = Len(asked) + 1
            /\ \A i \in 1 .. Len(asked) : Append(asked, w)[i] = asked[i]
            /\ Append(asked, w)[Len(asked) + 1] = w
        BY ONLY <3>1, <3>3, AppendProperties
      <4>2. 1 \in 1 .. Len(asked) /\ Len(asked) + 1 = 2
        BY <2>1
      <4> QED
        BY <3>2, <4>1, <4>2
    <3> QED
      BY <1>9, <2>1, <3>4 DEF w, Wanted
  <2>8. Asking'
    BY <1>2, <2>1, <2>7 DEF Asking, Command
  <2>9. Answers'
    <3>1. \A k \in 1 .. Len(told) : k = 1
      BY <1>4, <2>1
    <3> QED
      BY <1>2, <1>5, <2>7, <3>1 DEF Answers
  <2>10. Progress'
    BY <1>1, <1>11, <2>1, <2>6, <2>7 DEF Progress
  <2>11. PeerIsLast'
    BY <1>2, <1>5, <1>9, <2>6 DEF PeerIsLast
  <2>12. peer => Len(heard') < Len(told')
    <3>1. peer => Len(told) = 2
      BY <1>2 DEF PeerIsLast
    <3>2. Len(heard') = 1 /\ told' = told
      BY <1>1, <1>5, <1>11
    <3> QED
      BY <3>1, <3>2
  <2> QED
    BY <1>3, <1>9, <2>1, <2>6, <2>8, <2>9, <2>10, <2>11, <2>12 DEF StreamOK, States
<1>12. CASE change_state(StateAfter[Message[2]]) /\ Len(heard) = 1
  <2>1. state = "SAM_HELLOED" /\ expected = "STREAM_OK" /\ sock = "CONNECTING" /\ Len(asked) = 2
    BY <1>2, <1>3, <1>12 DEF Progress
  <2>2. Message[2] = Wanted /\ Wanted \in {"CONNECT", "ACCEPT"}
    <3>1. asked[2] = Command(Wanted) /\ Len(heard) + 1 = 2
      BY <1>2, <1>12, <2>1 DEF Asking
    <3> QED
      BY <1>7, <3>1 DEF Command, Wanted
  <2>3. StateAfter[Message[2]] = "STREAM_OK"
    BY <2>2 DEF StateAfter
  <2>4. NextCommand("STREAM_OK") = "none"
    BY DEF NextCommand
  <2>5. Transfers("STREAM_OK")
    BY <1>12, <2>1, <2>3, <2>4 DEF change_state, Asks, Runs, Receives
  <2>6. /\ state' = "ON" /\ expected' = "ON" /\ sock' = "TRANSFERRED" /\ asked' = asked
    BY <2>5 DEF Transfers
  <2>7. Asking' /\ Answers'
    BY <1>2, <1>5, <1>9, <2>6 DEF Asking, Answers, Wanted
  <2>8. Progress'
    BY <1>1, <1>12, <2>1, <2>6 DEF Progress
  <2>9. PeerIsLast'
    BY <1>2, <1>5, <1>9, <2>6 DEF PeerIsLast
  <2>10. handler' = "input" => kind = "accepter"
    BY <1>9, <2>6 DEF Dispatch
  <2>11. kind = "accepter" => ~ peer
    BY <1>2, <2>1 DEF PeerIsLast
  <2> QED
    BY <1>3, <1>9, <2>1, <2>6, <2>7, <2>8, <2>9, <2>10, <2>11 DEF StreamOK, States
<1> QED
  BY <1>8, <1>10, <1>11, <1>12, <1>13

\* The session acts on a message.
LEMMA StepDispatch ==
    ASSUME IInv, Dispatch
    PROVE  IInv'
<1>1. /\ DownOK' /\ Len(heard) < Len(told) /\ taken = <<>>
  BY DownDispatch DEF IInv
<1>2. PICK s : change_state(s)
  BY DEF Dispatch, raise_error
<1>3. /\ UNCHANGED <<taken, unread, down, peer, up, write, got, told>>
      /\ read' = "start" /\ line' = <<>> /\ payload' = <<>>
      /\ handler = "input" /\ handler' \in {"none", "input"}
      /\ handler' = "input" => state' # "OFF"
  BY DEF Dispatch, stream, router
<1>4. Extends /\ kind' = kind
  BY <1>2, ChangeExtends
<1>5. UpOK'
  BY <1>3, <1>4, UpExtends DEF IInv
<1>6. tcp # "connecting" /\ tcp' # "connecting"
  BY <1>3, InputIsUp DEF Dispatch, raise_error
<1>7. CASE OwnSocket
  <2>1. OwnOK' /\ expected' \in States /\ OwnSocket' /\ sock' # "TRANSFERRED"
    BY <1>2, <1>3, <1>7, ChangeOwn DEF IInv, ControlOK
  <2>2. ~ peer
    BY <1>7 DEF IInv, ControlOK, OwnOK
  <2>3. ReadOK'
    BY <1>1, <1>3, <2>1, <2>2 DEF ReadOK, Due
  <2>4. ControlOK'
    BY <1>4, <1>6, <2>1 DEF IInv, ControlOK, Starting, StreamOK
  <2> QED
    BY <1>1, <1>5, <2>3, <2>4 DEF IInv
<1>8. CASE ~ OwnSocket
  <2>1. /\ StreamOK' /\ expected' \in States /\ sock # "TRANSFERRED"
        /\ handler' = "input" => /\ state' # "OFF"
                                 /\ sock' = "TRANSFERRED" => kind = "accepter"
                                 /\ peer => Len(heard') < Len(told')
    BY <1>8, DispatchOfStream
  <2>2. kind = "accepter" => ~ peer
    BY <1>8, <2>1 DEF IInv, ControlOK, StreamOK, PeerIsLast
  <2>3. ReadOK'
    BY <1>1, <1>3, <1>4, <2>1, <2>2 DEF ReadOK, Due
  <2>4. ControlOK'
    BY <1>4, <1>6, <1>8, <2>1 DEF IInv, ControlOK, Starting, OwnOK, OwnSocket
  <2> QED
    BY <1>1, <1>5, <2>3, <2>4 DEF IInv
<1> QED
  BY <1>7, <1>8

----------------------------------------------------------------------------
(* The invariant, and the link                                            *)

\* At the start nothing was said.
LEMMA InitInv == Init => IInv
<1> SUFFICES ASSUME Init PROVE IInv
  OBVIOUS
<1>1. <<>> \in Seq(Messages) /\ <<>> \in Seq(Unit) /\ Len(<<>>) = 0 /\ <<>> \o <<>> = <<>>
  BY EmptySeq, ConcatEmptySeq
<1>2. \A s : Len(s) = 0 => Carries(<<>>, s, 0, 0)
  BY CarriesNone
<1>3. UpOK
  BY <1>1, <1>2 DEF Init, UpOK
<1>4. DownOK
  <2>1. Coming = <<>> /\ Spoken = <<>>
    BY <1>1 DEF Init, Coming, Heads, Spoken
  <2> HIDE DEF Coming, Spoken
  <2>2. Carries(Coming, Spoken, Len(heard), Len(Spoken))
    BY <1>1, <1>2, <2>1 DEF Init
  <2>3. /\ told \in Seq(Messages) /\ heard \in Seq(Messages) /\ peer \in BOOLEAN
        /\ line \in Seq(Unit) /\ payload \in Seq(Unit) /\ taken \in Seq(Unit)
        /\ unread \in Seq(Unit) /\ down \in Seq(Unit)
        /\ Len(heard) = 0 /\ Len(told) = 0
    BY <1>1 DEF Init
  <2> QED
    BY <2>2, <2>3 DEF DownOK
<1>5. ReadOK
  BY <1>1 DEF Init, ReadOK
<1>6. ControlOK
  BY <1>1 DEF Init, ControlOK, Starting, States, OwnOK, StreamOK, Asking, Answers, Progress, PeerIsLast
<1> QED
  BY <1>3, <1>4, <1>5, <1>6 DEF IInv

\* Every step keeps the invariant.
LEMMA StepInv ==
    ASSUME "eager" \notin Env, IInv, [Next]_vars
    PROVE  IInv'
<1>1. CASE Handler
  BY <1>1, StepReads, StepDispatch, StepQuiet, StepReadOrWriteFails DEF Handler
<1>2. CASE Events
  BY <1>2, StepOnConnection, StepOnLost, StepOnInput, StepQuiet DEF Events
<1>3. CASE Owner
  BY <1>3, StepSendTo, StepQuiet, StepRead DEF Owner
<1>4. CASE Router
  BY <1>4, StepRouterGets, StepRouterTells, StepPeerSends, StepRouterDies DEF Router
<1>5. CASE UNCHANGED vars
  <2>1. /\ UNCHANGED <<peer, told, heard, taken, line, payload, unread, down, kind, state, sock, read, handler>>
        /\ UNCHANGED Control /\ UNCHANGED <<asked, queue, got, up, write>>
    BY <1>5 DEF vars, session, in, stream, router, out, Control
  <2>2. UpOK' /\ DownOK' /\ ReadOK' /\ ControlOK'
    BY <2>1, UpStays, DownStays, ReadStays, ControlStays DEF IInv
  <2> QED
    BY <2>2 DEF IInv
<1> QED
  BY <1>1, <1>2, <1>3, <1>4, <1>5 DEF Next

\* The invariant holds of every run in which a peer does not send before the
\* accepter is done with the answer to its request.
THEOREM Invariance ==
    ASSUME "eager" \notin Env
    PROVE  Spec => []IInv
<1>1. IInv /\ [Next]_vars => IInv'
  BY StepInv
<1> QED
  BY InitInv, <1>1, PTL DEF Spec

\* A sequence is a prefix of itself, and of itself with one more.
LEMMA Extended ==
    ASSUME NEW S, NEW s \in Seq(S), NEW t, t = s \/ \E x \in S : t = Append(s, x)
    PROVE  IsPrefix(s, t)
<1>1. Len(s) \in Nat
  BY LenProperties
<1>2. CASE t = s
  BY <1>1, <1>2 DEF IsPrefix
<1>3. ASSUME NEW x \in S, t = Append(s, x)
      PROVE  IsPrefix(s, t)
  <2>1. t \in Seq(S) /\ Len(t) = Len(s) + 1 /\ \A i \in 1 .. Len(s) : t[i] = s[i]
    BY <1>3, AppendProperties
  <2>2. Len(s) \in 0 .. Len(s) /\ Len(s) \in 0 .. Len(t)
    BY <1>1, <2>1
  <2>3. /\ Upto(s, Len(s)) \in Seq(S) /\ Len(Upto(s, Len(s))) = Len(s)
        /\ \A i \in 1 .. Len(s) : Upto(s, Len(s))[i] = s[i]
    BY <2>2, AfterIs
  <2>4. /\ Upto(t, Len(s)) \in Seq(S) /\ Len(Upto(t, Len(s))) = Len(s)
        /\ \A i \in 1 .. Len(s) : Upto(t, Len(s))[i] = t[i]
    BY <2>1, <2>2, AfterIs
  <2>5. Upto(s, Len(s)) = Upto(t, Len(s))
    BY <2>1, <2>3, <2>4, SeqEqual
  <2> QED
    BY <1>1, <2>1, <2>5 DEF IsPrefix, Upto
<1> QED
  BY <1>2, <1>3

\* Every step of the session, of its owner and of the router is a step of the
\* link between them, or none: one message more is heard, or got, and at most
\* one more is said.
LEMMA StepLink ==
    ASSUME IInv, [Next]_vars
    PROVE  [Link!Next]_(Link!vars)
<1>1. asked \in Seq(Messages) /\ told \in Seq(Messages)
  BY DEF IInv, UpOK, DownOK
<1>2. ASSUME Extends, UNCHANGED <<got, told>>,
             \/ heard' = heard
             \/ Len(heard) < Len(told) /\ heard' = Append(heard, told[Len(heard) + 1])
      PROVE  [Link!Next]_(Link!vars)
  <2>1. asked' = asked \/ \E x \in Messages : asked' = Append(asked, x)
    BY <1>2 DEF Extends
  <2>2. IsPrefix(asked, asked')
    BY <1>1, <2>1, Extended
  <2>3. Link!Says(asked) /\ Link!Gets(heard, told)
    BY <1>2, <2>2 DEF Link!Says, Link!Gets, Link!IsPrefix, IsPrefix
  <2> QED
    BY <1>2, <2>3 DEF Link!Next, Link!Program
<1>3. CASE ReadLine \/ ReadPayload \/ NextMessage \/ Write \/ OnInput \/ OnOutput
  BY <1>3 DEF ReadLine, ReadPayload, NextMessage, Write, OnInput, OnOutput, router, Link!vars
<1>4. CASE RecvFrom \/ udp_server_connected \/ SetNetworkStarted \/ Read \/ PeerSends \/ RouterDies
  BY <1>4 DEF RecvFrom, udp_server_connected, SetNetworkStarted, Read, PeerSends, RouterDies, router, Link!vars
<1>5. CASE Dispatch
  <2>1. heard' = Append(heard, told[Len(heard) + 1]) /\ Len(heard) < Len(told)
    BY <1>5, DownDispatch DEF IInv, Told
  <2>2. PICK s : change_state(s)
    BY <1>5 DEF Dispatch, raise_error
  <2>3. Extends /\ UNCHANGED <<got, told>>
    BY <1>5, <2>2, ChangeExtends DEF Dispatch, router
  <2> QED
    BY <1>2, <2>1, <2>3
<1>6. CASE ReadOrWriteFails \/ OnConnection
  <2>1. PICK s : change_state(s)
    BY <1>6 DEF ReadOrWriteFails, OnConnection, raise_error
  <2>2. Extends /\ UNCHANGED <<got, told>> /\ heard' = heard
    BY <1>6, <2>1, ChangeExtends DEF ReadOrWriteFails, OnConnection, router
  <2> QED
    BY <1>2, <2>2
<1>7. CASE OnLost
  <2>1. CASE IsSams /\ raise_error
    <3>1. Extends /\ UNCHANGED <<got, told>> /\ heard' = heard
      BY <1>7, <2>1, ChangeExtends DEF OnLost, raise_error, router
    <3> QED
      BY <1>2, <3>1
  <2>2. CASE asked' = asked
    BY <1>7, <2>2 DEF OnLost, router, Link!vars
  <2> QED
    BY <1>7, <2>1, <2>2 DEF OnLost
<1>8. CASE SendTo
  <2> DEFINE m == Datagram(Outgoing[Sent(asked) + 1])
  <2>1. Sent(asked) + 1 \in Nat
    BY <1>1, SentIs
  <2>2. m \in Messages
    BY <2>1 DEF Datagram, Messages, Things
  <2>3. asked' = Append(asked, m) /\ queue' = Append(queue, m) /\ UNCHANGED <<got, told>> /\ heard' = heard
    BY <1>8 DEF SendTo, sam_queue, router
  <2> HIDE DEF m
  <2>4. Extends
    BY <2>2, <2>3 DEF Extends
  <2> QED
    BY <1>2, <2>3, <2>4
<1>9. ASSUME UNCHANGED <<asked, heard>>,
             \/ got' = got
             \/ Len(got) < Len(asked) /\ got' = Append(got, asked[Len(got) + 1]),
             \/ told' = told
             \/ \E x \in Messages : told' = Append(told, x)
      PROVE  [Link!Next]_(Link!vars)
  <2>1. IsPrefix(told, told')
    BY <1>1, <1>9, Extended
  <2>2. Link!Says(told) /\ Link!Gets(got, asked)
    BY <1>9, <2>1 DEF Link!Says, Link!Gets, Link!IsPrefix, IsPrefix
  <2> QED
    BY <1>9, <2>2 DEF Link!Next, Link!Router
<1>10. CASE RouterGets
  <2> DEFINE m == up[1][1]
  <2>1. /\ Len(got) < Len(asked) /\ got' = Append(got, asked[Len(got) + 1])
        /\ m \in Messages /\ asked' = asked
    BY <1>10, UpGets DEF IInv
  <2>2. heard' = heard
    BY <1>10 DEF RouterGets
  <2>3. \/ \E r \in {"OK", "ERROR"} : told' = Append(told, Answer(r, m[2]))
        \/ told' = told
    BY <1>10 DEF RouterGets, Tells
  <2> HIDE DEF m
  <2>4. \A r \in {"OK", "ERROR"} : Answer(r, m[2]) \in Messages
    BY <2>1 DEF Answer, Messages
  <2>5. told' = told \/ \E x \in Messages : told' = Append(told, x)
    BY <2>3, <2>4
  <2> QED
    BY <1>9, <2>1, <2>2, <2>5
<1>11. CASE RouterTells
  <2> DEFINE m == Datagram(Incoming[Sent(told) + 1])
  <2>1. Sent(told) + 1 \in Nat
    BY <1>1, SentIs
  <2>2. m \in Messages
    BY <2>1 DEF Datagram, Messages, Things
  <2>3. told' = Append(told, m) /\ UNCHANGED <<asked, heard>> /\ got' = got
    BY <1>11 DEF RouterTells, Tells
  <2> HIDE DEF m
  <2>4. \E x \in Messages : told' = Append(told, x)
    BY <2>2, <2>3
  <2> QED
    BY <1>9, <2>3, <2>4
<1>12. CASE UNCHANGED vars
  BY <1>12 DEF vars, router, Link!vars
<1> QED
  BY <1>3, <1>4, <1>5, <1>6, <1>7, <1>8, <1>10, <1>11, <1>12 DEF Next, Handler, Events, Owner, Router

\* SamSession implements SamLink: both parties get what the other one said,
\* whole, in order and once, wherever reads and writes are cut and whatever
\* handler is left in the middle (sam_handle_input_reentrant, sam_read2,
\* sam_handle_output, libs/i2p/CSamSession.cpp).
THEOREM LinkHolds ==
    ASSUME "eager" \notin Env
    PROVE  Spec => IsLink
<1>1. Init => Link!Init
  BY DEF Init, Link!Init
<1>2. IInv /\ [Next]_vars => [Link!Next]_(Link!vars)
  BY StepLink
<1> QED
  BY Invariance, <1>1, <1>2, PTL DEF Spec, IsLink, Link!Spec

----------------------------------------------------------------------------
(* The stream of a peer                                                   *)

\* What comes is what the session is in the middle of, and the stream.
LEMMA StreamIs ==
    ASSUME DownOK
    PROVE  /\ Stream \in Seq(Unit) /\ Len(Stream) \in Nat /\ Coming \in Seq(Unit)
           /\ Len(Coming) = Len(line) + Len(payload) + Len(Stream)
           /\ \A i \in 1 .. Len(Stream) : Coming[Len(line) + Len(payload) + i] = Stream[i]
           /\ Len(taken) \in Nat /\ Len(taken) <= Len(Stream) /\ \A i \in 1 .. Len(taken) : taken[i] = Stream[i]
<1> DEFINE h == line \o payload
           t == taken
           u == unread
           d == down
<1>1. line \in Seq(Unit) /\ payload \in Seq(Unit) /\ t \in Seq(Unit) /\ u \in Seq(Unit) /\ d \in Seq(Unit)
  BY DEF DownOK
<1>2. h \in Seq(Unit) /\ Len(h) = Len(line) + Len(payload)
  BY ONLY <1>1, Assoc
<1>3. Coming = ((h \o t) \o u) \o d /\ Stream = (t \o u) \o d
  BY DEF Coming, Heads, Stream
<1> HIDE DEF h, t, u, d
<1>4. t \o u \in Seq(Unit) /\ h \o t \in Seq(Unit) /\ (h \o t) \o u = h \o (t \o u)
  BY ONLY <1>1, <1>2, Assoc
<1>5. (t \o u) \o d \in Seq(Unit) /\ (h \o (t \o u)) \o d = h \o ((t \o u) \o d)
  BY ONLY <1>1, <1>2, <1>4, Assoc
<1>6. Stream \in Seq(Unit) /\ Coming = h \o Stream
  BY <1>3, <1>4, <1>5
<1> HIDE DEF Stream, Coming
<1>7. /\ h \o Stream \in Seq(Unit) /\ Len(h \o Stream) = Len(h) + Len(Stream)
      /\ \A i \in 1 .. Len(h) + Len(Stream) : (h \o Stream)[i] = IF i <= Len(h) THEN h[i] ELSE Stream[i - Len(h)]
  <2> DEFINE g == Stream
  <2>1. h \in Seq(Unit) /\ g \in Seq(Unit)
    BY <1>2, <1>6
  <2> HIDE DEF g
  <2>2. /\ h \o g \in Seq(Unit) /\ Len(h \o g) = Len(h) + Len(g)
        /\ \A i \in 1 .. Len(h) + Len(g) : (h \o g)[i] = IF i <= Len(h) THEN h[i] ELSE g[i - Len(h)]
    BY ONLY <2>1, ConcatProperties
  <2> QED
    BY <2>2 DEF g
<1>8. Len(h) \in Nat /\ Len(Stream) \in Nat /\ Len(t) \in Nat /\ Len(u) \in Nat /\ Len(d) \in Nat
  BY <1>1, <1>2, <1>6, LenProperties
<1>9. ASSUME NEW i \in 1 .. Len(Stream)
      PROVE  Coming[Len(h) + i] = Stream[i]
  <2>1. Len(h) + i \in 1 .. Len(h) + Len(Stream) /\ ~ (Len(h) + i <= Len(h)) /\ Len(h) + i - Len(h) = i
    BY <1>8
  <2> QED
    BY <1>6, <1>7, <2>1
<1>10. t \o (u \o d) = (t \o u) \o d /\ u \o d \in Seq(Unit)
  <2>1. u \o d \in Seq(Unit)
    BY ONLY <1>1, Assoc
  <2>2. t \in Seq(Unit) /\ u \in Seq(Unit) /\ d \in Seq(Unit)
    BY <1>1
  <2>3. (t \o u) \o d = t \o (u \o d)
    BY ONLY <2>2, Assoc
  <2> QED
    BY <2>1, <2>3
<1> DEFINE r == u \o d
<1>11. r \in Seq(Unit) /\ Stream = t \o r
  BY <1>3, <1>10 DEF Stream
<1> HIDE DEF r
<1>12. /\ Len(t \o r) = Len(t) + Len(r) /\ Len(r) \in Nat
       /\ \A i \in 1 .. Len(t) + Len(r) : (t \o r)[i] = IF i <= Len(t) THEN t[i] ELSE r[i - Len(t)]
  BY ONLY <1>1, <1>11, ConcatProperties, LenProperties
<1>13. Len(t) <= Len(Stream) /\ \A i \in 1 .. Len(t) : t[i] = Stream[i]
  BY <1>8, <1>11, <1>12
<1> QED
  BY <1>2, <1>6, <1>7, <1>8, <1>9, <1>13 DEF t

\* The line of the peer is the last that comes, behind answers, and none of it
\* was read by the session.
LEMMA PeerPart ==
    ASSUME IInv, peer
    PROVE  /\ ~ OwnSocket /\ Len(heard) \in {0, 1, 2}
           /\ Len(Coming) = 6 - 2 * Len(heard)
           /\ Coming[5 - 2 * Len(heard)] = <<PeerLine, 1>> /\ Coming[6 - 2 * Len(heard)] = <<PeerLine, 2>>
           /\ \A i \in 1 .. 4 - 2 * Len(heard) : Coming[i][1] # PeerLine
           /\ Len(line) \in Nat /\ Len(payload) \in Nat /\ Len(line) + Len(payload) <= 4 - 2 * Len(heard)
<1> DEFINE n == Len(heard)
           U == Coming
           s == Spoken
<1>1. ~ OwnSocket
  BY DEF IInv, ControlOK, OwnOK
<1>2. Len(told) = 2 /\ \A k \in 1 .. 2 : \E r \in {"OK", "ERROR"} : told[k] = Answer(r, asked[k][2])
  BY <1>1 DEF IInv, ControlOK, StreamOK, Answers, PeerIsLast
<1>3. \A k \in 1 .. 2 : Size(told[k]) = 2 /\ told[k] # PeerLine
  <2> TAKE k \in 1 .. 2
  <2>1. PICK r \in {"OK", "ERROR"} : told[k] = Answer(r, asked[k][2])
    BY <1>2
  <2>2. told[k][1] = r
    BY <2>1 DEF Answer
  <2> QED
    BY <2>2 DEF Size, PeerLine
<1>4. Len(s) = 3 /\ (\A k \in 1 .. 2 : s[k] = told[k]) /\ s[3] = PeerLine
  <2>1. /\ Len(s) = IF peer THEN Len(told) + 1 ELSE Len(told)
        /\ \A k \in 1 .. Len(told) : s[k] = told[k]
        /\ peer => s[Len(told) + 1] = PeerLine
    BY SpokenIs DEF IInv, DownOK
  <2> HIDE DEF s
  <2> QED
    BY <1>2, <2>1
<1>5. \A k \in 1 .. 3 : Size(s[k]) = 2
  <2>1. Size(PeerLine) = 2
    BY DEF Size, PeerLine
  <2> HIDE DEF s
  <2> QED
    BY <1>3, <1>4, <2>1
<1>6. n = 0 \/ n = 1 \/ n = 2
  <2>1. n \in Nat /\ n <= Len(told)
    BY LenProperties DEF IInv, DownOK
  <2> HIDE DEF n
  <2> QED
    BY <1>2, <2>1
<1>7. Carries(U, s, n, 3) /\ U \in Seq(Unit)
  BY <1>4, ComingIs DEF IInv, DownOK
<1>8. PICK at \in [n .. 3 -> 0 .. Len(U)] :
          /\ at[n] = 0 /\ at[3] = Len(U)
          /\ \A k \in n .. 3 - 1 :
                /\ at[k + 1] = at[k] + Size(s[k + 1])
                /\ \A j \in 1 .. Size(s[k + 1]) : U[at[k] + j] = <<s[k + 1], j>>
  <2> HIDE DEF U, s, n
  <2> QED
    BY <1>7 DEF Carries
<1>9. \A k \in n .. 2 : /\ at[k + 1] = at[k] + 2
                        /\ U[at[k] + 1] = <<s[k + 1], 1>> /\ U[at[k] + 2] = <<s[k + 1], 2>>
  <2> HIDE DEF U, s, n
  <2> TAKE k \in n .. 2
  <2>1. k \in n .. 3 - 1 /\ k + 1 \in 1 .. 3
    BY <1>6
  <2>2. Size(s[k + 1]) = 2
    BY <1>5, <2>1
  <2>3. at[k + 1] = at[k] + Size(s[k + 1]) /\ \A j \in 1 .. Size(s[k + 1]) : U[at[k] + j] = <<s[k + 1], j>>
    BY <1>8, <2>1
  <2>4. \A j \in 1 .. 2 : U[at[k] + j] = <<s[k + 1], j>>
    BY <2>2, <2>3
  <2>5. 1 \in 1 .. 2 /\ 2 \in 1 .. 2
    OBVIOUS
  <2> QED
    BY <2>2, <2>3, <2>4, <2>5
<1> HIDE DEF U, s, n
<1>10. /\ Len(U) = 6 - 2 * n /\ U[5 - 2 * n] = <<PeerLine, 1>> /\ U[6 - 2 * n] = <<PeerLine, 2>>
       /\ \A i \in 1 .. 4 - 2 * n : U[i][1] # PeerLine
  <2>1. CASE n = 2
    <3>1. at[2] = 0 /\ at[3] = 2 /\ U[1] = <<s[3], 1>> /\ U[2] = <<s[3], 2>>
      BY <1>8, <1>9, <2>1
    <3> QED
      BY <1>4, <1>8, <2>1, <3>1
  <2>2. CASE n = 1
    <3>1. at[1] = 0 /\ at[2] = 2 /\ U[1] = <<s[2], 1>> /\ U[2] = <<s[2], 2>>
      BY <1>8, <1>9, <2>2
    <3>2. at[3] = 4 /\ U[3] = <<s[3], 1>> /\ U[4] = <<s[3], 2>>
      BY <1>8, <1>9, <2>2, <3>1
    <3>3. \A i \in 1 .. 2 : U[i][1] = told[2]
      BY <1>4, <3>1
    <3> QED
      BY <1>3, <1>4, <1>8, <2>2, <3>2, <3>3
  <2>3. CASE n = 0
    <3>1. at[0] = 0 /\ at[1] = 2 /\ U[1] = <<s[1], 1>> /\ U[2] = <<s[1], 2>>
      BY <1>8, <1>9, <2>3
    <3>2. at[2] = 4 /\ U[3] = <<s[2], 1>> /\ U[4] = <<s[2], 2>>
      BY <1>8, <1>9, <2>3, <3>1
    <3>3. at[3] = 6 /\ U[5] = <<s[3], 1>> /\ U[6] = <<s[3], 2>>
      BY <1>8, <1>9, <2>3, <3>2
    <3>4. \A i \in 1 .. 4 : U[i][1] = told[1] \/ U[i][1] = told[2]
      BY <1>4, <3>1, <3>2
    <3> QED
      BY <1>3, <1>4, <1>8, <2>3, <3>3, <3>4
  <2> QED
    BY <1>6, <2>1, <2>2, <2>3
<1>11. Len(line) \in Nat /\ Len(payload) \in Nat /\ Len(line) + Len(payload) <= 4 - 2 * n
  <2>1. line \in Seq(Unit) /\ payload \in Seq(Unit) /\ Len(line) \in Nat /\ Len(payload) \in Nat
    BY LenProperties DEF IInv, DownOK
  <2>2. /\ read \in {"start", "parse"} /\ (line # <<>> \/ payload # <<>> => n < 2)
        /\ read = "start" => payload = <<>> /\ Len(line) <= 1
        /\ read = "parse" => Len(line) = 2 /\ n < 2 /\ Len(payload) <= Size(told[n + 1]) - 2
    BY <1>2 DEF IInv, ReadOK, n
  <2>3. CASE n = 2
    BY <2>1, <2>2, <2>3
  <2>4. CASE n # 2
    <3>1. Size(told[n + 1]) = 2
      BY <1>3, <1>6, <2>4
    <3>2. Len(payload) = 0 /\ Len(line) <= 2
      <4>1. CASE read = "start"
        BY <2>1, <2>2, <4>1
      <4>2. CASE read = "parse"
        <5>1. Len(line) = 2 /\ Len(payload) <= Size(told[n + 1]) - 2
          BY <2>2, <4>2
        <5> QED
          BY <2>1, <3>1, <5>1
      <4> QED
        BY <2>2, <4>1, <4>2
    <3> QED
      BY <1>6, <2>1, <2>4, <3>2
  <2> QED
    BY <2>3, <2>4
<1> QED
  BY <1>1, <1>6, <1>10, <1>11 DEF n, U

\* So it lies in the stream, in one piece and once,
LEMMA PeerIsWhole ==
    ASSUME IInv, peer
    PROVE  \E k \in DOMAIN Stream : /\ SubSeq(Stream, k, k + 1) = Units(PeerLine)
                                    /\ OfPeer(Stream) = {k, k + 1}
<1> DEFINE n == Len(heard)
           U == Coming
           S == Stream
           p == Len(line) + Len(payload)
           k == 5 - 2 * n - p
<1>1. /\ n \in {0, 1, 2} /\ Len(U) = 6 - 2 * n
      /\ U[5 - 2 * n] = <<PeerLine, 1>> /\ U[6 - 2 * n] = <<PeerLine, 2>>
      /\ \A i \in 1 .. 4 - 2 * n : U[i][1] # PeerLine
      /\ p \in Nat /\ p <= 4 - 2 * n
  BY PeerPart
<1>2. /\ S \in Seq(Unit) /\ Len(S) \in Nat /\ Len(U) = p + Len(S)
      /\ \A i \in 1 .. Len(S) : U[p + i] = S[i]
  BY StreamIs DEF IInv
<1>3. PeerLine \in Messages
  BY DEF PeerLine, Messages, Things, Names
<1>4. Units(PeerLine) \in Seq(Unit) /\ Len(Units(PeerLine)) = 2 /\ \A j \in 1 .. 2 : Units(PeerLine)[j] = <<PeerLine, j>>
  <2>1. Size(PeerLine) = 2
    BY DEF Size, PeerLine
  <2> QED
    BY <1>3, <2>1, UnitsOf
<1> HIDE DEF n, U, S, p
<1>5. k \in 1 .. Len(S) /\ k + 1 \in 1 .. Len(S) /\ Len(S) = k + 1 /\ p + k = 5 - 2 * n /\ p + (k + 1) = 6 - 2 * n
  BY <1>1, <1>2
<1>6. k \in Nat
  BY <1>5
<1> HIDE DEF k
<1>7. S[k] = <<PeerLine, 1>> /\ S[k + 1] = <<PeerLine, 2>>
  BY <1>1, <1>2, <1>5
<1>8. SubSeq(S, k, k + 1) = Units(PeerLine)
  <2>1. \A i \in k .. k + 1 : S[i] \in Unit
    <3>1. \A i \in k .. k + 1 : i \in 1 .. Len(S)
      BY <1>5, <1>6
    <3> QED
      BY <1>2, <3>1, ElementOfSeq
  <2> DEFINE l == k + 1
  <2>2. l \in Int /\ k \in Int /\ \A i \in k .. l : S[i] \in Unit
    BY <1>6, <2>1
  <2> HIDE DEF l
  <2>3. /\ SubSeq(S, k, l) \in Seq(Unit)
        /\ Len(SubSeq(S, k, l)) = IF k <= l THEN l - k + 1 ELSE 0
        /\ \A i \in 1 .. l - k + 1 : SubSeq(S, k, l)[i] = S[k + i - 1]
    BY <2>2, SubSeqProperties
  <2>4. l - k + 1 = 2 /\ k <= l
    BY <1>6 DEF l
  <2>5. Len(SubSeq(S, k, l)) = 2 /\ \A i \in 1 .. 2 : SubSeq(S, k, l)[i] = S[k + i - 1]
    BY <2>3, <2>4
  <2>6. \A i \in 1 .. 2 : S[k + i - 1] = <<PeerLine, i>>
    <3> TAKE i \in 1 .. 2
    <3>1. CASE i = 1
      <4>1. k + i - 1 = k
        BY <1>6, <3>1
      <4> QED
        BY <1>7, <3>1, <4>1
    <3>2. CASE i = 2
      <4>1. k + i - 1 = k + 1
        BY <1>6, <3>2
      <4> QED
        BY <1>7, <3>2, <4>1
    <3> QED
      BY <3>1, <3>2
  <2>7. \A i \in 1 .. 2 : SubSeq(S, k, l)[i] = Units(PeerLine)[i]
    BY <1>4, <2>5, <2>6
  <2>8. SubSeq(S, k, l) = Units(PeerLine)
    BY <1>4, <2>3, <2>5, <2>7, SeqEqual
  <2> QED
    BY <2>8 DEF l
<1>9. OfPeer(S) = {k, k + 1}
  <2>1. DOMAIN S = 1 .. Len(S)
    BY <1>2, LenProperties
  <2>2. k \in OfPeer(S) /\ k + 1 \in OfPeer(S)
    BY <1>5, <1>7, <2>1 DEF OfPeer
  <2>3. ASSUME NEW i \in 1 .. Len(S), i # k, i # k + 1
        PROVE  S[i][1] # PeerLine
    <3>1. i < k
      BY <1>5, <1>6, <2>3
    <3>2. p + i \in 1 .. 4 - 2 * n
      BY <1>1, <1>5, <1>6, <3>1
    <3>3. U[p + i] = S[i]
      BY <1>2
    <3> QED
      BY <1>1, <3>2, <3>3
  <2> QED
    BY <2>1, <2>2, <2>3 DEF OfPeer
<1>10. k \in DOMAIN S
  BY <1>2, <1>5, LenProperties
<1> QED
  BY <1>8, <1>9, <1>10 DEF S

\* and an application that got the socket of a session that is up reads nothing
\* else.
LEMMA TakenIsOfPeer ==
    ASSUME IInv, state = "ON"
    PROVE  OfPeer(taken) = DOMAIN taken
<1>1. taken \in Seq(Unit) /\ DOMAIN taken = 1 .. Len(taken)
  BY LenProperties DEF IInv, DownOK
<1>2. CASE taken = <<>>
  BY <1>2 DEF OfPeer
<1>3. CASE taken # <<>>
  <2>1. sock = "TRANSFERRED" /\ ~ OwnSocket
    BY <1>3 DEF IInv, ReadOK, ControlOK, OwnOK
  <2>2. Len(heard) = 2 /\ Len(asked) = 2
    BY <2>1 DEF IInv, ControlOK, StreamOK, Progress
  <2>3. Len(told) = 2
    <3>1. Len(told) = Len(got)
      BY <2>1 DEF IInv, ControlOK, StreamOK, Answers
    <3>2. Len(got) <= Len(asked) - Len(queue) /\ Len(queue) \in Nat /\ Len(got) \in Nat
      BY LenProperties DEF IInv, UpOK, Carries
    <3>3. Len(heard) <= Len(told)
      BY DEF IInv, DownOK
    <3> QED
      BY <2>2, <3>1, <3>2, <3>3
  <2>4. /\ Len(Stream) \in Nat /\ Len(Coming) = Len(line) + Len(payload) + Len(Stream)
        /\ \A i \in 1 .. Len(Stream) : Coming[Len(line) + Len(payload) + i] = Stream[i]
        /\ Len(taken) \in Nat /\ Len(taken) <= Len(Stream) /\ \A i \in 1 .. Len(taken) : taken[i] = Stream[i]
        /\ Coming \in Seq(Unit)
    BY StreamIs DEF IInv
  <2>5. line = <<>> /\ payload = <<>>
    BY <2>2, <2>3 DEF IInv, ReadOK
  <2>6. Len(Coming) > 0
    <3>1. Len(taken) # 0
      BY <1>1, <1>3, EmptySeq
    <3>2. Len(line) = 0 /\ Len(payload) = 0
      BY <2>5
    <3> HIDE DEF Coming, Stream
    <3> QED
      BY <2>4, <3>1, <3>2
  <2>7. peer
    <3> SUFFICES ASSUME ~ peer PROVE FALSE
      OBVIOUS
    <3>1. Spoken = told
      BY DEF Spoken
    <3>2. Carries(Coming, told, 2, 2)
      BY <2>2, <2>3, <3>1 DEF IInv, DownOK
    <3> HIDE DEF Coming
    <3>3. Coming = <<>>
      BY <2>4, <3>2, CarriesFirst
    <3> QED
      BY <2>6, <3>3
  <2>8. Len(Coming) = 2 /\ Coming[1] = <<PeerLine, 1>> /\ Coming[2] = <<PeerLine, 2>>
    <3>1. /\ Len(Coming) = 6 - 2 * Len(heard)
          /\ Coming[5 - 2 * Len(heard)] = <<PeerLine, 1>> /\ Coming[6 - 2 * Len(heard)] = <<PeerLine, 2>>
      BY <2>7, PeerPart
    <3> HIDE DEF Coming
    <3> QED
      BY <2>2, <3>1
  <2>9. ASSUME NEW i \in 1 .. Len(taken)
        PROVE  taken[i][1] = PeerLine
    <3>1. Len(line) = 0 /\ Len(payload) = 0
      BY <2>5
    <3> HIDE DEF Coming, Stream
    <3>2. i \in 1 .. 2 /\ i \in 1 .. Len(Stream) /\ Len(line) + Len(payload) + i = i
      BY <2>4, <2>8, <3>1
    <3>3. taken[i] = Coming[i]
      BY <2>4, <3>2
    <3> QED
      BY <2>8, <3>2, <3>3
  <2> QED
    BY <1>1, <2>9 DEF OfPeer
<1> QED
  BY <1>2, <1>3

\* What a peer sends belongs to the application: none of it is taken for an
\* answer of the router, and none of it is lost or mixed with an answer on the
\* way to the application that takes over the socket.
THEOREM PeerStreamHolds ==
    ASSUME "eager" \notin Env
    PROVE  Spec => []PeerStreamIsWhole
<1>1. IInv => PeerStreamIsWhole
  BY PeerIsWhole, TakenIsOfPeer DEF PeerStreamIsWhole
<1> QED
  BY Invariance, <1>1, PTL

============================================================================
