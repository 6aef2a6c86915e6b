------------------------- MODULE UploadQueueProofs -------------------------
(***************************************************************************)
(* What holds of UploadQueue for every set of clients and files and every  *)
(* setting of its limits.                                                  *)
(*                                                                         *)
(* The functions of the queue call each other, so the proof follows the    *)
(* calls: a lemma per function says what a state it leaves behind has to   *)
(* do with the state it was given, in terms of two relations, Shrinks and  *)
(* Grows.  What makes a single state of the queue a good one is Legal:     *)
(* both limits, and Held, by which nobody holds two slots.                 *)
(*                                                                         *)
(* This is not enough for the lists and the upload states of the clients   *)
(* to agree and for ranks to be places.  Good adds to it that the waiting  *)
(* list is a row (Row) and, for every client, that its state fits the list *)
(* it is on (OK).  A function of the queue mostly changes one client, and  *)
(* the row: Only says so, and what is left to prove for each function is   *)
(* that this client is all right.                                          *)
(*                                                                         *)
(* None of that holds where a client is banned for asking too often: Ban   *)
(* overwrites the state of a client that may be waiting or have a slot     *)
(* (UploadClient.cpp:784), and it stays on its list.  Hence                *)
(* the assumption that "ban" is no part of Env; the bans that strangers    *)
(* receive at their first hello, as the twins of identified clients, are   *)
(* part of what is proved.                                                 *)
(***************************************************************************)
EXTENDS UploadQueue, FiniteSetTheorems, TLAPS

\* What SlotsHeldOnce needs to be inductive: of a client that was deleted, no
\* socket is left that could make a slot of it again, and no file.
Held(s) ==
    /\ IsInjective(s.uploading)
    /\ Range(s.uploading) \subseteq s.live
    /\ \A c \in Clients : s.ustate[c] = "UPLOADING" => IsDownloading(s, c)
    /\ \A c \in Clients \ s.live : s.sock[c] = "none" /\ s.file[c] = NoFile

\* r is a state in which nobody was given a slot or a place since s, and the last
\* slot was given to the same kind of client.
Shrinks(s, r) ==
    /\ r \in QueueState
    /\ Len(r.uploading) <= Len(s.uploading) /\ Range(r.uploading) \subseteq Range(s.uploading)
    /\ Len(r.waiting) <= Len(s.waiting)
    /\ r.lastupslotHighID = s.lastupslotHighID
    /\ Held(s) => Held(r)

\* As Shrinks, but one slot may have been added.
Grows(s, r) ==
    /\ r \in QueueState
    /\ Len(r.uploading) <= Len(s.uploading) + 1
    /\ Len(r.waiting) <= Len(s.waiting)
    /\ r.lastupslotHighID = s.lastupslotHighID
    /\ Held(s) => Held(r)

\* SlotLimit and QueueLimit of one state of the queue, and what leaves room for
\* one more slot.
Slots(s) == Len(s.uploading) <= MaxSlots + (IF s.lastupslotHighID THEN 0 ELSE 1)

Places(s) == Len(s.waiting) + Len(s.uploading) <= QueueSize + MaxSlots + 1

Room(s) == Len(s.waiting) + Len(s.uploading) <= QueueSize + MaxSlots

\* Lists have lengths.
LEMMA Lengths ==
    ASSUME NEW s \in QueueState
    PROVE  /\ s.waiting \in Seq(Clients) /\ Len(s.waiting) \in Nat
           /\ s.uploading \in Seq(Clients) /\ Len(s.uploading) \in Nat
           /\ s.lastupslotHighID \in BOOLEAN
  BY DEF QueueState

----------------------------------------------------------------------------
(* Lists                                                                   *)

\* A list without its first c is a list.
LEMMA DropFirstType ==
    ASSUME NEW S, NEW s \in Seq(S), NEW c
    PROVE  /\ DropFirst(s, c) \in Seq(S)
           /\ Len(DropFirst(s, c)) <= Len(s)
           /\ c \in Range(s) => Len(DropFirst(s, c)) = Len(s) - 1
           /\ Range(DropFirst(s, c)) \subseteq Range(s)
<1>1. CASE s = << >>
  <2>1. DropFirst(s, c) = << >>
    BY <1>1 DEF DropFirst
  <2>2. c \notin Range(s) /\ Range(<< >>) = {}
    BY <1>1 DEF Range
  <2> QED
    BY <2>1, <2>2
<1>2. CASE s # << >>
  <2>1. Len(s) - 1 \in Nat
    BY <1>2
  <2>2. DropFirst(s, c) \in [1 .. Len(s) - 1 -> S]
    BY <2>1 DEF DropFirst
  <2>3. \A i \in 1 .. Len(s) - 1 : DropFirst(s, c)[i] \in {s[i], s[i + 1]}
    BY DEF DropFirst
  <2>4. Range(DropFirst(s, c)) \subseteq Range(s)
    BY <2>1, <2>2, <2>3 DEF Range
  <2> QED
    BY <2>1, <2>2, <2>4
<1> QED
  BY <1>1, <1>2

\* A list without the one c on it.
LEMMA DropFirstDrops ==
    ASSUME NEW S, NEW s \in Seq(S), IsInjective(s), NEW c \in Range(s)
    PROVE  /\ IsInjective(DropFirst(s, c))
           /\ Range(DropFirst(s, c)) = Range(s) \ {c}
<1>1. PICK k \in 1 .. Len(s) : s[k] = c
  BY DEF Range
<1> DEFINE d == DropFirst(s, c)
<1>2. Len(s) \in Nat \ {0} /\ DOMAIN s = 1 .. Len(s)
  BY <1>1
<1>3. DOMAIN d = 1 .. Len(s) - 1
  BY DEF DropFirst
<1>4. ASSUME NEW i \in DOMAIN d
      PROVE  d[i] = IF i < k THEN s[i] ELSE s[i + 1]
  <2>1. (\A j \in 1 .. i : s[j] # c) <=> i < k
    BY <1>1, <1>2, <1>3 DEF IsInjective
  <2>2. d[i] = IF \A j \in 1 .. i : s[j] # c THEN s[i] ELSE s[i + 1]
    BY <1>3 DEF DropFirst
  <2> QED
    BY <2>1, <2>2
<1> HIDE DEF d
<1>5. IsInjective(d)
  BY <1>1, <1>2, <1>3, <1>4 DEF IsInjective
<1>6. Range(d) \subseteq Range(s) \ {c}
  BY <1>1, <1>2, <1>3, <1>4 DEF Range, IsInjective
<1>7. ASSUME NEW e \in Range(s) \ {c} PROVE e \in Range(d)
  <2>1. PICK i \in 1 .. Len(s) : s[i] = e
    BY DEF Range
  <2>2. i # k
    BY <1>1, <2>1
  <2>3. CASE i < k
    <3>1. i \in DOMAIN d /\ d[i] = s[i]
      BY <1>1, <1>3, <1>4, <2>3
    <3> QED
      BY <2>1, <3>1 DEF Range
  <2>4. CASE i > k
    <3>1. i - 1 \in DOMAIN d /\ d[i - 1] = s[i]
      BY <1>1, <1>3, <1>4, <2>4
    <3> QED
      BY <2>1, <3>1 DEF Range
  <2> QED
    BY <2>2, <2>3, <2>4
<1> QED
  BY <1>5, <1>6, <1>7 DEF d

\* A place is a number.
LEMMA LastPlaceType ==
    ASSUME NEW S, NEW s \in Seq(S), NEW c
    PROVE  LastPlace(s, c) \in Nat
<1>1. IsFiniteSet(1 .. Len(s))
  BY FS_Interval
<1>2. {i \in DOMAIN s : \E j \in i .. Len(s) : s[j] = c} \subseteq 1 .. Len(s)
  OBVIOUS
<1> QED
  BY <1>1, <1>2, FS_Subset, FS_CardinalityType DEF LastPlace

\* A list with c behind it.
LEMMA AppendAdds ==
    ASSUME NEW S, NEW s \in Seq(S), NEW c \in S
    PROVE  /\ Append(s, c) \in Seq(S) /\ Len(Append(s, c)) = Len(s) + 1
           /\ Range(Append(s, c)) = Range(s) \union {c}
           /\ IsInjective(s) /\ c \notin Range(s) => IsInjective(Append(s, c))
<1> DEFINE a == Append(s, c)
<1>1. /\ a \in Seq(S) /\ Len(a) = Len(s) + 1 /\ Len(s) \in Nat
      /\ \A i \in 1 .. Len(s) : a[i] = s[i]
      /\ a[Len(s) + 1] = c
  OBVIOUS
<1> HIDE DEF a
<1>2. DOMAIN a = 1 .. Len(s) + 1 /\ DOMAIN s = 1 .. Len(s)
  BY <1>1
<1>3. Range(a) = Range(s) \union {c}
  <2>1. Range(a) \subseteq Range(s) \union {c}
    BY <1>1, <1>2 DEF Range
  <2>2. ASSUME NEW e \in Range(s) PROVE e \in Range(a)
    BY <1>1, <1>2 DEF Range
  <2>3. c \in Range(a)
    BY <1>1, <1>2 DEF Range
  <2> QED
    BY <2>1, <2>2, <2>3
<1>4. IsInjective(s) /\ c \notin Range(s) => IsInjective(a)
  BY <1>1, <1>2 DEF IsInjective, Range
<1> QED
  BY <1>1, <1>3, <1>4 DEF a

\* A listing of some of the places of s makes a list of clients of s, which is
\* no longer than s, and has those clients, each as often as before.
LEMMA ListingType ==
    ASSUME NEW S, NEW s \in Seq(S), NEW K \in SUBSET DOMAIN s, NEW p \in Listings(K)
    PROVE  /\ [i \in DOMAIN p |-> s[p[i]]] \in Seq(S)
           /\ Len([i \in DOMAIN p |-> s[p[i]]]) = Cardinality(K)
           /\ Cardinality(K) \in Nat /\ Cardinality(K) <= Len(s)
           /\ Range([i \in DOMAIN p |-> s[p[i]]]) = {s[k] : k \in K}
           /\ IsInjective(s) => IsInjective([i \in DOMAIN p |-> s[p[i]]])
<1>1. IsFiniteSet(1 .. Len(s)) /\ Cardinality(1 .. Len(s)) = Len(s)
  <2>1. Len(s) \in Nat
    OBVIOUS
  <2>2. /\ IsFiniteSet(1 .. Len(s))
        /\ Cardinality(1 .. Len(s)) = IF 1 > Len(s) THEN 0 ELSE Len(s) - 1 + 1
    BY <2>1, FS_Interval
  <2> QED
    BY <2>1, <2>2
<1>2. K \subseteq 1 .. Len(s)
  OBVIOUS
<1> DEFINE n == Cardinality(K)
<1>3. IsFiniteSet(K) /\ n \in Nat /\ n <= Len(s)
  BY <1>1, <1>2, FS_Subset, FS_CardinalityType
<1>4. p \in [1 .. n -> K] /\ \A i, j \in 1 .. n : p[i] = p[j] => i = j
  BY DEF Listings, IsInjective
<1>5. \A k \in K : \E i \in 1 .. n : p[i] = k
  <2>1. p \in Injection(1 .. n, K)
    BY <1>4 DEF Injection, IsInjective
  <2>2. Cardinality(1 .. n) = n
    BY <1>3, FS_Interval
  <2>3. p \in Surjection(1 .. n, K)
    BY <1>3, <2>1, <2>2, FS_Injection
  <2> QED
    BY <2>3 DEF Surjection
<1> DEFINE l == [i \in DOMAIN p |-> s[p[i]]]
<1>6. l \in [1 .. n -> S] /\ \A i \in 1 .. n : l[i] = s[p[i]]
  BY <1>2, <1>4
<1> HIDE DEF l, n
<1>7. l \in Seq(S) /\ Len(l) = n
  BY <1>3, <1>6
<1>8. Range(l) = {s[k] : k \in K}
  BY <1>4, <1>5, <1>6 DEF Range
<1>9. IsInjective(s) => IsInjective(l)
  BY <1>2, <1>4, <1>6 DEF IsInjective
<1> QED
  BY <1>3, <1>7, <1>8, <1>9 DEF l, n

\* So taking clients off a list leaves a list that is no longer, of the others.
LEMMA WithoutType ==
    ASSUME NEW S, NEW s \in Seq(S), NEW D, NEW u \in Without(s, D)
    PROVE  /\ u \in Seq(S) /\ Len(u) <= Len(s)
           /\ Len(u) = Cardinality({i \in DOMAIN s : s[i] \notin D})
           /\ Range(u) = Range(s) \ D
           /\ IsInjective(s) => IsInjective(u)
<1> DEFINE kept == {i \in DOMAIN s : s[i] \notin D}
<1>1. PICK p \in Listings(kept) : u = [i \in DOMAIN p |-> s[p[i]]]
  BY DEF Without
<1>2. kept \in SUBSET DOMAIN s /\ {s[k] : k \in kept} = Range(s) \ D
  BY DEF Range
<1> HIDE DEF kept
<1>3. /\ u \in Seq(S) /\ Len(u) = Cardinality(kept)
      /\ Cardinality(kept) \in Nat /\ Cardinality(kept) <= Len(s)
      /\ Range(u) = {s[k] : k \in kept} /\ (IsInjective(s) => IsInjective(u))
  BY <1>1, <1>2, ListingType
<1> QED
  BY <1>2, <1>3 DEF kept

\* Those that are taken off and those that stay are all.
LEMMA WithoutSplits ==
    ASSUME NEW s \in Seq(Clients), NEW D \in SUBSET Clients,
           NEW u \in Without(s, D), NEW w \in Without(s, Clients \ D)
    PROVE  Len(u) + Len(w) = Len(s)
<1> DEFINE I == {i \in DOMAIN s : s[i] \notin D}
           J == {i \in DOMAIN s : s[i] \notin Clients \ D}
<1>1. Len(u) = Cardinality(I) /\ Len(w) = Cardinality(J)
  BY WithoutType
<1>2. Len(s) \in Nat /\ DOMAIN s = 1 .. Len(s)
  OBVIOUS
<1>3. IsFiniteSet(1 .. Len(s)) /\ Cardinality(1 .. Len(s)) = Len(s)
  <2>1. /\ IsFiniteSet(1 .. Len(s))
        /\ Cardinality(1 .. Len(s)) = IF 1 > Len(s) THEN 0 ELSE Len(s) - 1 + 1
    BY <1>2, FS_Interval
  <2> QED
    BY <1>2, <2>1
<1>4. I \union J = 1 .. Len(s) /\ I \intersect J = {}
  BY <1>2
<1>5. IsFiniteSet(I) /\ IsFiniteSet(J)
  BY <1>2, <1>3, FS_Subset
<1> HIDE DEF I, J
<1>6. Cardinality(I \union J) = Cardinality(I) + Cardinality(J) - Cardinality(I \intersect J)
  BY <1>5, FS_Union
<1>7. Cardinality({}) = 0 /\ Cardinality(I) \in Nat /\ Cardinality(J) \in Nat
  BY <1>5, FS_EmptySet, FS_CardinalityType
<1>8. Cardinality(I \union J) = Len(s) /\ Cardinality(I \intersect J) = 0
  BY <1>3, <1>4, <1>7
<1> QED
  BY <1>1, <1>6, <1>7, <1>8

----------------------------------------------------------------------------
(* Leaving the lists                                                       *)

\* Slots that are taken away twice are taken away.
LEMMA ShrinksIsTransitive ==
    ASSUME NEW s \in QueueState, NEW r \in QueueState, NEW t \in QueueState,
           Shrinks(s, r), Shrinks(r, t)
    PROVE  Shrinks(s, t)
  BY Lengths DEF Shrinks

\* Where nothing happens, no slot is taken.
LEMMA ShrinksIsReflexive ==
    ASSUME NEW s \in QueueState
    PROVE  Shrinks(s, s)
  BY Lengths DEF Shrinks

\* What is done to clients whose slots stay: nobody starts uploading, and the
\* deleted get no socket and no file.
Spares(s, r) ==
    /\ r.uploading = s.uploading /\ r.live = s.live
    /\ r.lastupslotHighID = s.lastupslotHighID
    /\ \A c \in Clients : r.ustate[c] = "UPLOADING" => s.ustate[c] = "UPLOADING"
    /\ \A c \in Clients \ s.live : r.sock[c] \in {"none", s.sock[c]} /\ r.file[c] \in {NoFile, s.file[c]}

\* It keeps who holds a slot.
LEMMA SparesKeepsHeld ==
    ASSUME NEW s, NEW r, Spares(s, r), Held(s)
    PROVE  Held(r)
<1>1. \A c \in Clients \ r.live : r.sock[c] = "none" /\ r.file[c] = NoFile
  BY DEF Spares, Held
<1>2. \A c \in Clients : r.ustate[c] = "UPLOADING" => IsDownloading(r, c)
  BY DEF Spares, Held, IsDownloading
<1> QED
  BY <1>1, <1>2 DEF Held, Spares

\* And takes none.
LEMMA SparesShrinks ==
    ASSUME NEW s \in QueueState, NEW r \in QueueState, Spares(s, r), Len(r.waiting) <= Len(s.waiting)
    PROVE  Shrinks(s, r)
  BY Lengths, SparesKeepsHeld DEF Shrinks, Spares

\* RemoveFromUploadQueue takes no slot, but may give one back.
LEMMA RemoveFromUploadQueueShrinks ==
    ASSUME NEW s \in QueueState, NEW c \in Clients
    PROVE  /\ Shrinks(s, RemoveFromUploadQueue(s, c))
           /\ RemoveFromUploadQueue(s, c).waiting = s.waiting
           /\ RemoveFromUploadQueue(s, c).live = s.live
           /\ Held(s) => ~IsDownloading(RemoveFromUploadQueue(s, c), c)
<1>1. s.uploading \in Seq(Clients)
  BY DEF QueueState
<1> DEFINE u == DropFirst(s.uploading, c)
           r == [s EXCEPT !.uploading = u, !.ustate[c] = "NONE"]
<1>2. u \in Seq(Clients) /\ Len(u) <= Len(s.uploading) /\ Range(u) \subseteq Range(s.uploading)
  BY <1>1, DropFirstType
<1>3. RemoveFromUploadQueue(s, c) = IF IsDownloading(s, c) THEN r ELSE s
  BY DEF RemoveFromUploadQueue, QueueState
<1>4. ASSUME Held(s), IsDownloading(s, c)
      PROVE  IsInjective(u) /\ Range(u) = Range(s.uploading) \ {c}
  BY <1>1, <1>4, DropFirstDrops DEF Held, IsDownloading
<1> HIDE DEF u
<1>5. /\ r \in QueueState /\ r.uploading = u /\ r.waiting = s.waiting /\ r.live = s.live
      /\ r.sock = s.sock /\ r.file = s.file
      /\ \A d \in Clients : r.ustate[d] = IF d = c THEN "NONE" ELSE s.ustate[d]
      /\ r.lastupslotHighID = s.lastupslotHighID
  BY <1>2 DEF QueueState, UploadStates
<1> HIDE DEF r
<1>6. IsDownloading(s, c) => (Held(s) => Held(r) /\ ~IsDownloading(r, c))
  BY <1>4, <1>5 DEF Held, IsDownloading
<1>7. IsDownloading(s, c) => Shrinks(s, r)
  BY <1>2, <1>5, <1>6, Lengths DEF Shrinks
<1> QED
  BY <1>3, <1>5, <1>6, <1>7, ShrinksIsReflexive

\* Nor does RemoveFromWaitingQueue, and it gives a place back.
LEMMA RemoveFromWaitingQueueShrinks ==
    ASSUME NEW s \in QueueState, NEW c \in Clients
    PROVE  /\ Shrinks(s, RemoveFromWaitingQueue(s, c))
           /\ Spares(s, RemoveFromWaitingQueue(s, c))
           /\ IsOnUploadQueue(s, c) => Len(RemoveFromWaitingQueue(s, c).waiting) = Len(s.waiting) - 1
           /\ RemoveFromWaitingQueue(s, c).file = s.file
<1> DEFINE w      == DropFirst(s.waiting, c)
           behind == {w[i] : i \in {j \in DOMAIN w : \E k \in 1 .. j : s.waiting[k] = c}}
           rank   == [d \in Clients |-> IF d \in behind THEN LastPlace(w, d)
                                        ELSE IF d = c THEN 0 ELSE s.rank[d]]
           banned == IF IsBanned(s, c) THEN s.banned \ {Dest[c]} ELSE s.banned
           r      == [s EXCEPT !.waiting = w, !.banned = banned,
                               !.ustate[c] = "NONE", !.rank = rank]
<1>1. /\ w \in Seq(Clients) /\ Len(w) <= Len(s.waiting)
      /\ IsOnUploadQueue(s, c) => Len(w) = Len(s.waiting) - 1
  BY DropFirstType, Lengths DEF IsOnUploadQueue
<1>2. rank \in [Clients -> Nat]
  <2>1. \A d \in Clients : LastPlace(w, d) \in Nat
    BY <1>1, LastPlaceType
  <2>2. s.rank \in [Clients -> Nat]
    BY DEF QueueState
  <2> HIDE DEF behind, w
  <2> QED
    BY <2>1, <2>2
<1>3. banned \in SUBSET Range(Dest)
  BY DEF QueueState
<1>4. RemoveFromWaitingQueue(s, c) = IF IsOnUploadQueue(s, c) THEN r ELSE s
  BY DEF RemoveFromWaitingQueue, QueueState
<1> HIDE DEF w, rank, banned, behind
<1>5. /\ r \in QueueState /\ r.uploading = s.uploading /\ r.waiting = w /\ r.live = s.live
      /\ r.sock = s.sock /\ r.file = s.file
      /\ \A d \in Clients : r.ustate[d] = IF d = c THEN "NONE" ELSE s.ustate[d]
      /\ r.lastupslotHighID = s.lastupslotHighID
  BY <1>1, <1>2, <1>3 DEF QueueState, UploadStates
<1> HIDE DEF r
<1>6. Spares(s, r) /\ Spares(s, s)
  BY <1>5 DEF Spares
<1>7. Shrinks(s, r)
  BY <1>1, <1>5, <1>6, SparesShrinks
<1> QED
  BY <1>1, <1>4, <1>5, <1>6, <1>7, ShrinksIsReflexive

\* Forget touches neither list: whom it forgets holds no slot.
LEMMA ForgetShrinks ==
    ASSUME NEW s \in QueueState, NEW D \in SUBSET Clients,
           Held(s) => D \intersect Range(s.uploading) = {}
    PROVE  /\ Shrinks(s, Forget(s, D))
           /\ Forget(s, D).waiting = s.waiting /\ Forget(s, D).uploading = s.uploading
           /\ Forget(s, D).live = s.live \ D
           /\ \A c \in Clients \ D : Forget(s, D).file[c] = s.file[c]
<1> DEFINE r == Forget(s, D)
<1>1. r \in QueueState
  BY DEF Forget, QueueState, UploadStates, SocketStates
<1>2. /\ r.uploading = s.uploading /\ r.waiting = s.waiting /\ r.live = s.live \ D
      /\ r.lastupslotHighID = s.lastupslotHighID
      /\ \A c \in Clients : /\ r.ustate[c] = IF c \in D THEN "NONE" ELSE s.ustate[c]
                            /\ r.sock[c] = IF c \in D THEN "none" ELSE s.sock[c]
                            /\ r.file[c] = IF c \in D THEN NoFile ELSE s.file[c]
  BY DEF Forget, QueueState
<1> HIDE DEF r
<1>3. Held(s) => Held(r)
  BY <1>2 DEF Held, IsDownloading
<1>4. Shrinks(s, r)
  BY <1>1, <1>2, <1>3, Lengths DEF Shrinks
<1> QED
  BY <1>2, <1>4 DEF r

\* Safe_Delete takes the client off both lists, and adds none.
LEMMA SafeDeleteShrinks ==
    ASSUME NEW s \in QueueState, NEW c \in Clients
    PROVE  Shrinks(s, Safe_Delete(s, c))
<1> DEFINE r == RemoveFromUploadQueue(s, c)
           t == RemoveFromWaitingQueue(r, c)
<1>1. r \in QueueState /\ Shrinks(s, r) /\ (Held(s) => ~IsDownloading(r, c))
  BY RemoveFromUploadQueueShrinks DEF Shrinks
<1> HIDE DEF r
<1>2. t \in QueueState /\ Shrinks(r, t) /\ t.uploading = r.uploading
  BY <1>1, RemoveFromWaitingQueueShrinks DEF Shrinks, Spares
<1> HIDE DEF t
<1>3. Shrinks(s, t)
  BY <1>1, <1>2, ShrinksIsTransitive
<1> DEFINE x == Forget(t, {c})
<1>4. CASE Held(s)
  <2>1. {c} \intersect Range(t.uploading) = {}
    BY <1>1, <1>2, <1>4 DEF IsDownloading
  <2>2. Shrinks(t, x)
    BY <1>2, <2>1, ForgetShrinks
  <2> QED
    BY <1>2, <1>3, <2>2, ShrinksIsTransitive, ShrinksIsReflexive DEF Safe_Delete, r, t, Shrinks
<1>5. CASE ~Held(s)
  <2>1. /\ x \in QueueState /\ x.uploading = t.uploading /\ x.waiting = t.waiting
        /\ x.lastupslotHighID = t.lastupslotHighID
    BY <1>2 DEF Forget, QueueState, UploadStates, SocketStates
  <2>2. Shrinks(s, x)
    BY <1>3, <1>5, <2>1 DEF Shrinks
  <2> QED
    BY <2>2, ShrinksIsReflexive DEF Safe_Delete, r, t
<1> QED
  BY <1>4, <1>5

\* Disconnected may take the slot of the client, and gives none.
LEMMA DisconnectedShrinks ==
    ASSUME NEW s \in QueueState, NEW c \in Clients
    PROVE  Shrinks(s, Disconnected(s, c))
<1> DEFINE r == IF s.ustate[c] = "UPLOADING" THEN RemoveFromUploadQueue(s, c) ELSE s
           t == [r EXCEPT !.downloading = @ \ {c}, !.sock[c] = "none"]
<1>1. Shrinks(s, r)
  BY ShrinksIsReflexive, RemoveFromUploadQueueShrinks
<1>2. r \in QueueState
  BY <1>1 DEF Shrinks
<1>3. Disconnected(s, c) = IF c \in s.live THEN t ELSE s
  BY DEF Disconnected
<1> HIDE DEF r
<1>4. t \in QueueState /\ Spares(r, t) /\ t.waiting = r.waiting
  BY <1>2 DEF QueueState, SocketStates, Spares
<1> HIDE DEF t
<1>5. Shrinks(r, t)
  BY <1>2, <1>4, SparesShrinks, Lengths
<1>6. Shrinks(s, t)
  BY <1>1, <1>2, <1>4, <1>5, ShrinksIsTransitive
<1> QED
  BY <1>3, <1>6, ShrinksIsReflexive

\* Nor does it when the client is deleted afterwards.
LEMMA DisconnectOrDeleteShrinks ==
    ASSUME NEW s \in QueueState, NEW c \in Clients, NEW r \in DisconnectOrDelete(s, c)
    PROVE  Shrinks(s, r)
<1> DEFINE d == Disconnected(s, c)
<1>1. d \in QueueState /\ Shrinks(s, d)
  BY DisconnectedShrinks DEF Shrinks
<1>2. Shrinks(d, Safe_Delete(d, c)) /\ Safe_Delete(d, c) \in QueueState
  BY <1>1, SafeDeleteShrinks DEF Shrinks
<1>3. Shrinks(s, Safe_Delete(d, c))
  BY <1>1, <1>2, ShrinksIsTransitive
<1>4. r \in {d, Safe_Delete(d, c), s}
  BY DEF DisconnectOrDelete
<1> HIDE DEF d
<1> QED
  BY <1>1, <1>3, <1>4, ShrinksIsReflexive

\* A client that is dropped for want of a socket gives up its slot, if any.
LEMMA DropIfNoSocketShrinks ==
    ASSUME NEW s \in QueueState, NEW c \in Clients, NEW r \in DropIfNoSocket(s, c)
    PROVE  Shrinks(s, r)
  BY ShrinksIsReflexive, DisconnectOrDeleteShrinks DEF DropIfNoSocket

----------------------------------------------------------------------------
(* Sorting                                                                 *)

\* The first pass only ever takes slots away, from clients it deletes.
LEMMA PurgeShrinks ==
    ASSUME NEW s \in QueueState, NEW r \in Purge(s)
    PROVE  /\ Shrinks(s, r) /\ r.waiting = s.waiting
           /\ \A c \in s.live : c \notin Purged(s) => c \in r.live
<1> DEFINE gone  == Purged(s)
           loose == {c \in gone : s.sock[c] = "none" /\ c \in s.live}
           us    == [c \in Clients |-> IF c \in gone THEN "NONE" ELSE s.ustate[c]]
           rs    == [c \in Clients |-> IF c \in gone THEN 0 ELSE s.rank[c]]
           bs    == s.banned \ {Dest[c] : c \in {d \in gone : IsBanned(s, d)}}
           ds    == s.downloading \ loose
           swept == [s EXCEPT !.ustate = us, !.rank = rs, !.banned = bs, !.downloading = ds]
<1>1. gone \in SUBSET Clients
  BY DEF Purged, QueueState, Range
<1>2. PICK D \in SUBSET loose : \E u \in Without(s.uploading, D) :
          r = Forget([swept EXCEPT !.uploading = u], D)
  <2>1. PICK D \in Unneeded(s, loose) : \E u \in Without(s.uploading, D) :
            r = Forget([swept EXCEPT !.uploading = u], D)
    BY DEF Purge
  <2> QED
    BY <2>1 DEF Unneeded
<1>3. D \in SUBSET Clients /\ D \subseteq gone
  BY <1>1, <1>2
<1> PICK u \in Without(s.uploading, D) : r = Forget([swept EXCEPT !.uploading = u], D)
  BY <1>2
<1>4. s.uploading \in Seq(Clients)
  BY DEF QueueState
<1>6. /\ us \in [Clients -> UploadStates] /\ rs \in [Clients -> Nat]
      /\ bs \in SUBSET Range(Dest) /\ ds \in SUBSET Clients
  BY DEF QueueState, UploadStates
<1>7. \A c \in Clients : us[c] = IF c \in gone THEN "NONE" ELSE s.ustate[c]
  OBVIOUS
<1> HIDE DEF gone, loose, us, rs, bs, ds
<1>5. /\ u \in Seq(Clients) /\ Len(u) <= Len(s.uploading)
      /\ Range(u) = Range(s.uploading) \ D /\ (IsInjective(s.uploading) => IsInjective(u))
  BY <1>4, WithoutType
<1>8. /\ swept \in QueueState /\ swept.ustate = us /\ swept.waiting = s.waiting
      /\ swept.live = s.live /\ swept.sock = s.sock /\ swept.file = s.file
      /\ swept.lastupslotHighID = s.lastupslotHighID
  BY <1>6 DEF QueueState
<1> DEFINE t == [swept EXCEPT !.uploading = u]
<1> HIDE DEF swept
<1>9. /\ t \in QueueState /\ t.uploading = u /\ t.waiting = s.waiting
      /\ t.live = s.live /\ t.sock = s.sock /\ t.file = s.file /\ t.ustate = us
      /\ t.lastupslotHighID = s.lastupslotHighID
  BY <1>5, <1>8 DEF QueueState
<1>10. r = Forget(t, D)
  BY DEF swept
<1> HIDE DEF t
<1>11. ASSUME Held(s) PROVE Held(t)
  <2>1. ASSUME NEW c \in Clients, t.ustate[c] = "UPLOADING" PROVE IsDownloading(t, c)
    <3>1. c \notin D /\ s.ustate[c] = "UPLOADING"
      BY <1>3, <1>7, <1>9, <2>1
    <3> QED
      BY <1>5, <1>9, <1>11, <3>1 DEF Held, IsDownloading
  <2>2. Range(t.uploading) \subseteq t.live /\ IsInjective(t.uploading)
    BY <1>5, <1>9, <1>11 DEF Held
  <2> QED
    BY <1>9, <1>11, <2>1, <2>2 DEF Held
<1>12. Shrinks(s, t)
  BY <1>5, <1>9, <1>11, Lengths DEF Shrinks
<1>13. D \intersect Range(t.uploading) = {}
  BY <1>5, <1>9
<1>14. Shrinks(t, r) /\ r.waiting = t.waiting /\ r.live = t.live \ D
  <2>1. /\ Shrinks(t, Forget(t, D)) /\ Forget(t, D).waiting = t.waiting
        /\ Forget(t, D).live = t.live \ D
    BY <1>3, <1>9, <1>13, ForgetShrinks
  <2> QED
    BY <1>10, <2>1
<1>15. Shrinks(s, r)
  BY <1>9, <1>12, <1>14, ShrinksIsTransitive DEF Shrinks
<1> QED
  BY <1>3, <1>9, <1>14, <1>15 DEF gone

\* The second pass touches no slot at all.
LEMMA RankAndMarkShrinks ==
    ASSUME NEW s \in QueueState, NEW w \in Seq(Clients), Len(w) <= Len(s.waiting)
    PROVE  /\ Shrinks(s, RankAndMark(s, w)) /\ RankAndMark(s, w).live = s.live
           /\ RankAndMark(s, w).waiting = w
<1> DEFINE rs == [c \in Clients |-> IF c \in Range(w) THEN LastPlace(w, c) ELSE s.rank[c]]
           ms == (s.addNext \ Range(w)) \union
                     {c \in Range(w) : \A i \in DOMAIN w :
                         w[i] = c => \A j \in 1 .. i : MustCallIn(s, w[j])}
           r  == [s EXCEPT !.waiting = w, !.rank = rs, !.addNext = ms]
<1>1. rs \in [Clients -> Nat]
  <2>1. \A c \in Clients : LastPlace(w, c) \in Nat
    BY LastPlaceType
  <2>2. s.rank \in [Clients -> Nat]
    BY DEF QueueState
  <2> QED
    BY <2>1, <2>2
<1>2. ms \in SUBSET Clients
  BY DEF QueueState, Range
<1>3. RankAndMark(s, w) = r
  BY DEF RankAndMark, QueueState
<1> HIDE DEF rs, ms
<1>4. r \in QueueState /\ Spares(s, r) /\ r.waiting = w
  BY <1>1, <1>2 DEF QueueState, Spares
<1> HIDE DEF r
<1> QED
  BY <1>3, <1>4, SparesShrinks DEF Spares

\* Both passes together give no slot, and leave nobody on the list who was deleted.
LEMMA SortGetBestClientShrinks ==
    ASSUME NEW s \in QueueState, NEW r \in SortGetBestClient(s)
    PROVE  /\ Shrinks(s, r)
           /\ Held(s) => Range(r.waiting) \subseteq r.live
<1> DEFINE kept == {i \in DOMAIN s.waiting : s.waiting[i] \notin Purged(s)}
<1>1. PICK x \in Purge(s) : \E p \in Orders(x, kept) :
          r = RankAndMark(x, [i \in DOMAIN p |-> s.waiting[p[i]]])
  BY DEF SortGetBestClient
<1>2. PICK p \in Listings(kept) : r = RankAndMark(x, [i \in DOMAIN p |-> s.waiting[p[i]]])
  BY <1>1 DEF Orders
<1> DEFINE w == [i \in DOMAIN p |-> s.waiting[p[i]]]
<1>3. s.waiting \in Seq(Clients) /\ kept \in SUBSET DOMAIN s.waiting
  BY DEF QueueState
<1>4. \A k \in kept : s.waiting[k] \in Range(s.waiting) /\ s.waiting[k] \notin Purged(s)
  BY DEF Range
<1> HIDE DEF kept
<1>5. w \in Seq(Clients) /\ Len(w) <= Len(s.waiting) /\ Range(w) = {s.waiting[k] : k \in kept}
  BY <1>2, <1>3, ListingType
<1>6. /\ x \in QueueState /\ Shrinks(s, x) /\ x.waiting = s.waiting
      /\ \A c \in s.live : c \notin Purged(s) => c \in x.live
  BY PurgeShrinks DEF Shrinks
<1> HIDE DEF w
<1>7. Shrinks(x, r) /\ r.waiting = w /\ r.live = x.live
  BY <1>2, <1>5, <1>6, RankAndMarkShrinks DEF w
<1>8. ASSUME Held(s), NEW c \in Range(w) PROVE c \in x.live
  <2>1. c \in Range(s.waiting) /\ c \notin Purged(s)
    BY <1>4, <1>5
  <2>2. s.file[c] \in s.shared /\ c \in Clients
    BY <1>5, <2>1 DEF Purged, Range
  <2>3. s.file[c] # NoFile
    BY <2>2, ConstantsAssumption DEF QueueState, ConstantsAssumption
  <2>4. c \in s.live
    BY <1>8, <2>2, <2>3 DEF Held
  <2> QED
    BY <1>6, <2>1, <2>4
<1> QED
  BY <1>6, <1>7, <1>8, ShrinksIsTransitive DEF Shrinks

----------------------------------------------------------------------------
(* Handing out slots                                                       *)

\* Connecting may fail and delete the client, but gives no slot.
LEMMA TryToConnectShrinks ==
    ASSUME NEW s \in QueueState, NEW c \in Clients, c \in s.live,
           NEW r \in TryToConnect(s, c)
    PROVE  Shrinks(s, r)
<1> DEFINE o == [s EXCEPT !.sock[c] = "connecting"]
<1>1. r \in DisconnectOrDelete(s, c) \/ r = o
  BY DEF TryToConnect
<1>2. /\ o \in QueueState /\ o.uploading = s.uploading /\ o.waiting = s.waiting
      /\ o.live = s.live /\ o.file = s.file /\ o.ustate = s.ustate
      /\ \A d \in Clients \ {c} : o.sock[d] = s.sock[d]
      /\ o.lastupslotHighID = s.lastupslotHighID
  BY DEF QueueState, SocketStates
<1> HIDE DEF o
<1>3. Held(s) => Held(o)
  BY <1>2 DEF Held, IsDownloading
<1>4. Shrinks(s, o)
  BY <1>2, <1>3, Lengths DEF Shrinks
<1> QED
  BY <1>1, <1>4, DisconnectOrDeleteShrinks

\* A client without a slot gets one at the end of the list.
LEMMA SlotIsAdded ==
    ASSUME NEW s \in QueueState, NEW c \in Clients, ~IsDownloading(s, c),
           NEW t \in QueueState, Len(t.uploading) <= Len(s.uploading), Len(t.waiting) <= Len(s.waiting),
           t.lastupslotHighID = s.lastupslotHighID, Range(t.uploading) \subseteq Range(s.uploading),
           Held(s) => c \in t.live /\ Held([t EXCEPT !.ustate[c] = "CONNECTING"])
    PROVE  Grows(s, [t EXCEPT !.uploading = Append(@, c)])
<1> DEFINE u == Append(t.uploading, c)
           x == [t EXCEPT !.uploading = u]
           y == [t EXCEPT !.ustate[c] = "CONNECTING"]
<1>1. /\ t.uploading \in Seq(Clients) /\ Len(t.uploading) \in Nat /\ Len(s.uploading) \in Nat
      /\ c \notin Range(t.uploading)
  BY Lengths DEF IsDownloading
<1>2. /\ u \in Seq(Clients) /\ Len(u) = Len(t.uploading) + 1
      /\ Range(u) = Range(t.uploading) \union {c}
      /\ IsInjective(t.uploading) => IsInjective(u)
  BY <1>1, AppendAdds
<1>3. x = [t EXCEPT !.uploading = Append(@, c)]
  BY DEF QueueState
<1> HIDE DEF u
<1>4. /\ x \in QueueState /\ x.uploading = u /\ x.waiting = t.waiting /\ x.live = t.live
      /\ x.sock = t.sock /\ x.file = t.file /\ x.ustate = t.ustate
      /\ x.lastupslotHighID = t.lastupslotHighID
  BY <1>2 DEF QueueState
<1>5. /\ y.uploading = t.uploading /\ y.live = t.live /\ y.sock = t.sock /\ y.file = t.file
      /\ \A d \in Clients \ {c} : y.ustate[d] = t.ustate[d]
  BY DEF QueueState
<1> HIDE DEF x, y
<1>6. ASSUME Held(y), c \in t.live PROVE Held(x)
  BY <1>2, <1>4, <1>5, <1>6 DEF Held, IsDownloading
<1>7. Held(s) => Held(x)
  BY <1>6 DEF y
<1> QED
  BY <1>1, <1>2, <1>3, <1>4, <1>7 DEF Grows

\* What shrinks grows by nothing.
LEMMA ShrinksGrows ==
    ASSUME NEW s \in QueueState, NEW r, Shrinks(s, r)
    PROVE  Grows(s, r)
<1>1. r \in QueueState
  BY DEF Shrinks
<1> QED
  BY <1>1, Lengths DEF Shrinks, Grows

\* One slot is given at most, and the note of who got the last one stays.
LEMMA GiveSlotGrows ==
    ASSUME NEW s \in QueueState, NEW c \in Clients, c \in s.live, NEW r \in GiveSlot(s, c)
    PROVE  Grows(s, r)
<1> DEFINE up   == [s EXCEPT !.ustate[c] = "UPLOADING"]
           call == [s EXCEPT !.ustate[c] = "CONNECTING"]
           told == IF IsConnected(s, c) THEN {up} ELSE TryToConnect(call, c)
<1>1. Grows(s, s)
  BY ShrinksGrows, ShrinksIsReflexive
<1>2. \/ r = s
      \/ /\ ~IsDownloading(s, c)
         /\ \E t \in told : r = IF c \in t.live THEN [t EXCEPT !.uploading = Append(@, c)] ELSE t
  BY DEF GiveSlot
<1>3. /\ call \in QueueState /\ Spares(s, call) /\ call.waiting = s.waiting /\ call.live = s.live
      /\ call.ustate[c] = "CONNECTING"
  BY DEF QueueState, UploadStates, Spares
<1>5. /\ up \in QueueState /\ up.uploading = s.uploading /\ up.waiting = s.waiting /\ up.live = s.live
      /\ up.lastupslotHighID = s.lastupslotHighID
      /\ [up EXCEPT !.ustate[c] = "CONNECTING"] = call
  BY DEF QueueState, UploadStates
<1> HIDE DEF up, call
<1>4. Shrinks(s, call)
  <2>1. Len(call.waiting) <= Len(s.waiting)
    BY <1>3, Lengths
  <2> QED
    BY <1>3, <2>1, SparesShrinks
<1>6. ASSUME ~IsDownloading(s, c), NEW t \in TryToConnect(call, c)
      PROVE  Shrinks(s, t) /\ (c \in t.live => Grows(s, [t EXCEPT !.uploading = Append(@, c)]))
  <2>1. Shrinks(call, t)
    BY <1>3, <1>6, TryToConnectShrinks
  <2>2. Shrinks(s, t) /\ t \in QueueState
    BY <1>3, <1>4, <2>1, ShrinksIsTransitive DEF Shrinks
  <2>3. ASSUME Held(s) PROVE Held([t EXCEPT !.ustate[c] = "CONNECTING"])
    <3> DEFINE y == [t EXCEPT !.ustate[c] = "CONNECTING"]
    <3>1. Spares(t, y)
      BY <2>2 DEF Spares, QueueState
    <3> QED
      BY <2>2, <2>3, <3>1, SparesKeepsHeld DEF Shrinks
  <2> QED
    BY <1>6, <2>2, <2>3, SlotIsAdded DEF Shrinks
<1>7. ASSUME ~IsDownloading(s, c)
      PROVE  Grows(s, [up EXCEPT !.uploading = Append(@, c)]) /\ c \in up.live
  <2>1. Held(s) => Held([up EXCEPT !.ustate[c] = "CONNECTING"])
    BY <1>4, <1>5 DEF Shrinks
  <2>2. Len(up.uploading) <= Len(s.uploading) /\ Len(up.waiting) <= Len(s.waiting)
    BY <1>5, Lengths
  <2> QED
    BY <1>5, <1>7, <2>1, <2>2, SlotIsAdded
<1>8. CASE r = s
  BY <1>1, <1>8
<1>9. ASSUME ~IsDownloading(s, c), NEW t \in told,
             r = IF c \in t.live THEN [t EXCEPT !.uploading = Append(@, c)] ELSE t
      PROVE  Grows(s, r)
  <2>1. CASE t = up
    BY <1>7, <1>9, <2>1
  <2>2. CASE t \in TryToConnect(call, c)
    BY <1>6, <1>9, <2>2, ShrinksGrows
  <2> QED
    BY <1>9, <2>1, <2>2
<1> QED
  BY <1>2, <1>8, <1>9

\* Best names clients, and taking one off the list touches no slot.
LEMMA TakeBestType ==
    ASSUME NEW s \in QueueState, NEW c \in Best(s)
    PROVE  /\ c \in Clients /\ c \in Range(s.waiting) /\ TakeBest(s, c) \in QueueState
           /\ TakeBest(s, c).uploading = s.uploading /\ TakeBest(s, c).live = s.live
           /\ Len(TakeBest(s, c).waiting) = Len(s.waiting) - 1
           /\ Held(s) => Held(TakeBest(s, c))
<1>1. c \in Clients /\ c \in Range(s.waiting)
  BY Lengths DEF Best, Range
<1> DEFINE r == RemoveFromWaitingQueue(s, c)
           t == [r EXCEPT !.lastupslotHighID = TRUE]
<1>2. /\ r \in QueueState /\ r.uploading = s.uploading /\ r.live = s.live
      /\ Len(r.waiting) = Len(s.waiting) - 1 /\ (Held(s) => Held(r))
  BY <1>1, RemoveFromWaitingQueueShrinks DEF Shrinks, Spares, IsOnUploadQueue
<1> HIDE DEF r
<1>3. /\ t \in QueueState /\ t.uploading = r.uploading /\ t.waiting = r.waiting
      /\ t.live = r.live /\ t.sock = r.sock /\ t.file = r.file /\ t.ustate = r.ustate
  BY <1>2 DEF QueueState
<1>4. TakeBest(s, c) = t
  BY DEF TakeBest, r
<1> HIDE DEF t
<1>5. Held(r) => Held(t)
  BY <1>3 DEF Held, IsDownloading
<1> QED
  BY <1>1, <1>2, <1>3, <1>4, <1>5

\* What TypeOK, SlotLimit, QueueLimit and SlotsHeldOnce say of one state of the
\* queue, and why the next state will be so too.
Legal(s) == s \in QueueState /\ Slots(s) /\ Places(s) /\ Held(s)

\* The limits are numbers, and no file has the empty hash.
LEMMA Settings ==
    MaxSlots \in Nat /\ QueueSize \in Nat /\ QueueSize + MaxSlots \in Nat /\ NoFile \notin Files
  BY ConstantsAssumption DEF ConstantsAssumption

\* Sums of lengths: what both lists may do to them.
LEMMA Sums ==
    ASSUME NEW n \in Nat, NEW a \in Nat, NEW b \in Nat, NEW c \in Nat, NEW d \in Nat
    PROVE  /\ a + b <= n + 1 /\ c <= a /\ d <= b => c + d <= n + 1
           /\ a + b <= n + 1 /\ c <= a - 1 /\ d <= b => c + d <= n
           /\ a + b <= n /\ c <= a /\ d <= b + 1 => c + d <= n + 1
           /\ a + b <= n + 1 /\ c <= a - 1 /\ d <= b + 1 => c + d <= n + 1
  OBVIOUS

\* Taking slots and places away from a legal state leaves a legal state.
LEMMA ShrinksIsLegal ==
    ASSUME NEW s, Legal(s), NEW r, Shrinks(s, r)
    PROVE  Legal(r)
<1>1. s \in QueueState /\ r \in QueueState /\ Held(r)
  BY DEF Legal, Shrinks
<1>2. Slots(r)
  BY <1>1, Lengths, Settings DEF Legal, Slots, Shrinks
<1>3. Places(r)
  <2>1. /\ Len(s.waiting) \in Nat /\ Len(s.uploading) \in Nat
        /\ Len(r.waiting) \in Nat /\ Len(r.uploading) \in Nat
    BY <1>1, Lengths
  <2>2. /\ Len(s.waiting) + Len(s.uploading) <= QueueSize + MaxSlots + 1
        /\ Len(r.waiting) <= Len(s.waiting) /\ Len(r.uploading) <= Len(s.uploading)
    BY DEF Legal, Places, Shrinks
  <2> QED
    BY <2>1, <2>2, Settings, Sums, Zenon DEF Places
<1> QED
  BY <1>1, <1>2, <1>3 DEF Legal

\* So does what spares the slots.
LEMMA SparesIsLegal ==
    ASSUME NEW s, Legal(s), NEW r \in QueueState, Spares(s, r), r.waiting = s.waiting
    PROVE  Legal(r)
<1>1. s \in QueueState /\ Len(r.waiting) <= Len(s.waiting)
  BY Lengths DEF Legal
<1> QED
  BY <1>1, SparesShrinks, ShrinksIsLegal

\* A state with a free slot is legal after one more is given, whoever got the last.
LEMMA GrowsIsLegal ==
    ASSUME NEW s \in QueueState, Held(s), Room(s), Len(s.uploading) < MaxSlots, NEW r, Grows(s, r)
    PROVE  Legal(r)
<1>1. r \in QueueState /\ Held(r)
  BY DEF Grows
<1>2. /\ Len(s.waiting) \in Nat /\ Len(s.uploading) \in Nat
      /\ Len(r.waiting) \in Nat /\ Len(r.uploading) \in Nat /\ r.lastupslotHighID \in BOOLEAN
  BY <1>1, Lengths
<1>3. Len(r.waiting) <= Len(s.waiting) /\ Len(r.uploading) <= Len(s.uploading) + 1
  BY DEF Grows
<1>4. Slots(r)
  BY <1>2, <1>3, Settings DEF Slots
<1>5. Places(r)
  BY <1>2, <1>3, Settings, Sums, Zenon DEF Places, Room
<1> QED
  BY <1>1, <1>4, <1>5 DEF Legal

\* AddUpNextClient on its own is called when a slot is free.
LEMMA AddUpNextClientIsLegal ==
    ASSUME NEW s, Legal(s), Len(s.uploading) < MaxSlots, NEW r \in AddUpNextClient(s)
    PROVE  Legal(r)
<1>1. PICK x \in SortGetBestClient(s) :
          r \in IF Best(x) = {} THEN {x} ELSE UNION {GiveSlot(TakeBest(x, c), c) : c \in Best(x)}
  BY DEF AddUpNextClient
<1>2. s \in QueueState /\ Held(s)
  BY DEF Legal
<1>3. /\ Shrinks(s, x) /\ x \in QueueState /\ Legal(x) /\ Held(x)
      /\ Range(x.waiting) \subseteq x.live
  BY <1>2, SortGetBestClientShrinks, ShrinksIsLegal DEF Shrinks
<1>4. Len(x.uploading) < MaxSlots
  BY <1>2, <1>3, Lengths, Settings DEF Shrinks
<1>5. ASSUME NEW c \in Best(x), r \in GiveSlot(TakeBest(x, c), c)
      PROVE  Legal(r)
  <2> DEFINE t == TakeBest(x, c)
  <2>1. /\ c \in Clients /\ c \in t.live /\ t \in QueueState /\ Held(t)
        /\ t.uploading = x.uploading /\ Len(t.waiting) = Len(x.waiting) - 1
    BY <1>3, TakeBestType
  <2> HIDE DEF t
  <2>2. Grows(t, r)
    BY <1>5, <2>1, GiveSlotGrows DEF t
  <2>3. Room(t)
    <3>1. /\ Len(x.waiting) \in Nat /\ Len(x.uploading) \in Nat
          /\ Len(t.waiting) \in Nat /\ Len(t.uploading) \in Nat
      BY <1>3, <2>1, Lengths
    <3>2. Len(x.waiting) + Len(x.uploading) <= QueueSize + MaxSlots + 1
      BY <1>3 DEF Legal, Places
    <3>3. Len(t.waiting) <= Len(x.waiting) - 1 /\ Len(t.uploading) <= Len(x.uploading)
      BY <2>1, <3>1
    <3> QED
      BY <3>1, <3>2, <3>3, Settings, Sums, Zenon DEF Room
  <2> QED
    BY <1>4, <2>1, <2>2, <2>3, GrowsIsLegal
<1> QED
  BY <1>1, <1>3, <1>5

\* AddUpNextClient for one client gives one slot at most: its file is shared, so
\* the client was not deleted.
LEMMA AddDirectlyGrows ==
    ASSUME NEW s \in QueueState, Held(s), NEW c \in Clients, NEW r \in AddDirectly(s, c)
    PROVE  Grows(s, r)
<1>1. Grows(s, s)
  BY ShrinksGrows, ShrinksIsReflexive
<1>2. CASE s.file[c] \in s.shared /\ r \in GiveSlot(s, c)
  <2>1. s.file[c] # NoFile
    BY <1>2, Settings DEF QueueState
  <2>2. c \in s.live
    BY <2>1 DEF Held
  <2> QED
    BY <1>2, <2>2, GiveSlotGrows
<1> QED
  BY <1>1, <1>2 DEF AddDirectly

\* The heart of the limit: whoever called in gets a slot beyond MaxSlots only if
\* the last slot went to a client of the other kind, and then it is noted.
LEMMA AskAgainIsLegal ==
    ASSUME NEW s, Legal(s), NEW c \in Clients, IsOnUploadQueue(s, c), NEW r \in AskAgain(s, c)
    PROVE  Legal(r)
<1>1. s \in QueueState /\ Held(s)
  BY DEF Legal
<1> DEFINE marked == [s EXCEPT !.addNext = @ \ {c}]
           extra  == IF s.lastupslotHighID THEN 1 ELSE 0
           out    == RemoveFromWaitingQueue(marked, c)
<1>2. CASE r = s
  BY <1>2
<1>3. CASE r # s
  <2>1. /\ Len(s.uploading) < MaxSlots + extra
        /\ \E x \in AddDirectly(out, c) : r = [x EXCEPT !.lastupslotHighID = FALSE]
    BY <1>3 DEF AskAgain
  <2>2. PICK x \in AddDirectly(out, c) : r = [x EXCEPT !.lastupslotHighID = FALSE]
    BY <2>1
  <2>3. marked \in QueueState /\ Spares(s, marked) /\ marked.waiting = s.waiting
    BY <1>1 DEF QueueState, Spares
  <2>4. IsOnUploadQueue(marked, c) /\ Held(marked)
    BY <1>1, <2>3, SparesKeepsHeld DEF IsOnUploadQueue
  <2> HIDE DEF marked
  <2>5. /\ out \in QueueState /\ Held(out) /\ out.uploading = s.uploading
        /\ Len(out.waiting) = Len(s.waiting) - 1
    BY <2>3, <2>4, RemoveFromWaitingQueueShrinks DEF Shrinks, Spares
  <2> HIDE DEF out
  <2>6. Grows(out, x) /\ x \in QueueState /\ Held(x)
    BY <2>5, AddDirectlyGrows DEF Grows
  <2>7. /\ r \in QueueState /\ r.uploading = x.uploading /\ r.waiting = x.waiting /\ r.live = x.live
        /\ r.ustate = x.ustate /\ r.sock = x.sock /\ r.file = x.file /\ ~r.lastupslotHighID
    BY <2>2, <2>6 DEF QueueState
  <2>8. Held(r)
    BY <2>6, <2>7 DEF Held, IsDownloading
  <2>9. Slots(r)
    BY <1>1, <2>1, <2>5, <2>6, <2>7, Lengths, Settings DEF Slots, Grows
  <2>10. Places(r)
    <3>1. /\ Len(s.waiting) \in Nat /\ Len(s.uploading) \in Nat
          /\ Len(r.waiting) \in Nat /\ Len(r.uploading) \in Nat
      BY <1>1, <2>7, Lengths
    <3>2. Len(s.waiting) + Len(s.uploading) <= QueueSize + MaxSlots + 1
      BY DEF Legal, Places
    <3>3. Len(r.waiting) <= Len(s.waiting) - 1 /\ Len(r.uploading) <= Len(s.uploading) + 1
      BY <2>5, <2>6, <2>7 DEF Grows
    <3> QED
      BY <3>1, <3>2, <3>3, Settings, Sums, Zenon DEF Places
  <2> QED
    BY <2>7, <2>8, <2>9, <2>10 DEF Legal
<1> QED
  BY <1>2, <1>3

\* A newcomer is given a slot only when one is free, and a place only below the cap.
LEMMA EnqueueIsLegal ==
    ASSUME NEW s, Legal(s), NEW c \in Clients, NEW r \in Enqueue(s, c)
    PROVE  Legal(r)
<1>1. s \in QueueState /\ s.waiting \in Seq(Clients) /\ Held(s)
  BY Lengths DEF Legal
<1> DEFINE longer == [s EXCEPT !.waiting = Append(@, c)]
<1>2. CASE r = s
  BY <1>2
<1>3. CASE /\ s.waiting = << >> /\ Len(s.uploading) < MaxSlots
           /\ \E x \in AddDirectly(s, c) : r = [x EXCEPT !.justStarted = TRUE]
  <2>1. PICK x \in AddDirectly(s, c) : r = [x EXCEPT !.justStarted = TRUE]
    BY <1>3
  <2>2. x \in QueueState /\ Grows(s, x)
    BY <1>1, AddDirectlyGrows DEF Grows
  <2>3. Room(s)
    BY <1>1, <1>3, Lengths, Settings DEF Room
  <2>4. Legal(x)
    BY <1>1, <1>3, <2>2, <2>3, GrowsIsLegal
  <2>5. r \in QueueState /\ Spares(x, r) /\ r.waiting = x.waiting
    BY <2>1, <2>2 DEF QueueState, Spares
  <2> QED
    BY <2>4, <2>5, SparesIsLegal
<1>4. CASE /\ Len(s.waiting) < QueueSize
           /\ \E x \in SortGetBestClient(longer) : r = [x EXCEPT !.ustate[c] = "ONUPLOADQUEUE"]
  <2>1. PICK x \in SortGetBestClient(longer) : r = [x EXCEPT !.ustate[c] = "ONUPLOADQUEUE"]
    BY <1>4
  <2>2. Append(s.waiting, c) \in Seq(Clients) /\ Len(Append(s.waiting, c)) = Len(s.waiting) + 1
    BY <1>1
  <2>3. /\ longer \in QueueState /\ Spares(s, longer)
        /\ Len(longer.waiting) = Len(s.waiting) + 1
    BY <1>1, <2>2 DEF QueueState, Spares
  <2> HIDE DEF longer
  <2>4. Held(longer)
    BY <1>1, <2>3, SparesKeepsHeld
  <2>5. Slots(longer) /\ Places(longer)
    <3>1. Len(s.waiting) \in Nat /\ Len(s.uploading) \in Nat /\ s.lastupslotHighID \in BOOLEAN
      BY <1>1, Lengths
    <3>2. Len(s.uploading) <= MaxSlots + 1 /\ Slots(s)
      BY <3>1, Settings DEF Legal, Slots
    <3>3. longer.uploading = s.uploading /\ longer.lastupslotHighID = s.lastupslotHighID
      BY <2>3 DEF Spares
    <3> DEFINE a == Len(s.waiting)
               b == Len(s.uploading)
    <3>4. a \in Nat /\ b \in Nat /\ b <= MaxSlots + 1 /\ a < QueueSize
      BY <1>4, <3>1, <3>2
    <3>5. Len(longer.waiting) = a + 1 /\ Len(longer.uploading) = b
      BY <2>3, <3>3
    <3> HIDE DEF a, b
    <3>6. a + 1 + b <= QueueSize + MaxSlots + 1
      BY <3>4, Settings
    <3>7. Places(longer)
      BY <3>5, <3>6 DEF Places
    <3> QED
      BY <3>2, <3>3, <3>7 DEF Slots
  <2>6. Legal(longer)
    BY <2>3, <2>4, <2>5 DEF Legal
  <2>7. x \in QueueState /\ Legal(x)
    BY <2>1, <2>3, <2>6, SortGetBestClientShrinks, ShrinksIsLegal DEF Shrinks
  <2>8. r \in QueueState /\ Spares(x, r) /\ r.waiting = x.waiting
    BY <2>1, <2>7 DEF QueueState, UploadStates, Spares
  <2> QED
    BY <2>7, <2>8, SparesIsLegal
<1>5. \/ r = s
      \/ /\ s.waiting = << >> /\ Len(s.uploading) < MaxSlots
         /\ \E x \in AddDirectly(s, c) : r = [x EXCEPT !.justStarted = TRUE]
      \/ /\ ~(Len(s.waiting) >= QueueSize)
         /\ \E x \in SortGetBestClient(longer) : r = [x EXCEPT !.ustate[c] = "ONUPLOADQUEUE"]
  BY DEF Enqueue
<1> HIDE DEF longer
<1>6. ~(Len(s.waiting) >= QueueSize) => Len(s.waiting) < QueueSize
  BY <1>1, Lengths, Settings
<1> QED
  BY <1>2, <1>3, <1>4, <1>5, <1>6

\* A request for a slot is answered within the limit, whether the client waits or not.
LEMMA AnswerRequestIsLegal ==
    ASSUME NEW s, Legal(s), NEW c \in Clients, NEW r \in AnswerRequest(s, c)
    PROVE  Legal(r)
  BY AskAgainIsLegal, EnqueueIsLegal DEF AnswerRequest

\* A waiting client that gives way to one of the same hash frees places only.
LEMMA YieldTwinShrinks ==
    ASSUME NEW s \in QueueState, NEW c \in Clients, NEW r \in YieldTwin(s, c)
    PROVE  Shrinks(s, r)
<1> DEFINE t == Twin[c]
           x == RemoveFromWaitingQueue(s, t)
<1>1. t \in Clients
  BY ConstantsAssumption DEF ConstantsAssumption
<1>2. x \in QueueState /\ Shrinks(s, x)
  BY <1>1, RemoveFromWaitingQueueShrinks DEF Shrinks
<1>3. r = s \/ r \in DropIfNoSocket(x, t)
  BY DEF YieldTwin
<1> HIDE DEF t, x
<1>4. CASE r \in DropIfNoSocket(x, t)
  <2>1. Shrinks(x, r)
    BY <1>1, <1>2, <1>4, DropIfNoSocketShrinks
  <2> QED
    BY <1>2, <2>1, ShrinksIsTransitive DEF Shrinks
<1> QED
  BY <1>3, <1>4, ShrinksIsReflexive

\* Asking for a slot, with or without a hash clash, never breaks the limit.
LEMMA AddClientToQueueIsLegal ==
    ASSUME NEW s, Legal(s), NEW c \in Clients, NEW r \in AddClientToQueue(s, c)
    PROVE  Legal(r)
<1> DEFINE x == [s EXCEPT !.stale = @ \ {c}]
<1>1. s \in QueueState
  BY DEF Legal
<1>2. x \in QueueState /\ Spares(s, x) /\ x.waiting = s.waiting
  BY <1>1 DEF QueueState, Spares
<1>3. Legal(x)
  BY <1>2, SparesIsLegal
<1>4. \/ r = s
      \/ r \in AnswerRequest(x, c)
      \/ \E y \in YieldTwin(x, c) : r \in AfterTwin(y, c)
  BY DEF AddClientToQueue
<1> HIDE DEF x
<1>5. CASE \E y \in YieldTwin(x, c) : r \in AfterTwin(y, c)
  <2>1. PICK y \in YieldTwin(x, c) : r \in AfterTwin(y, c)
    BY <1>5
  <2>2. Legal(y)
    BY <1>2, <1>3, <2>1, YieldTwinShrinks, ShrinksIsLegal
  <2>3. r \in AnswerRequest(y, c) \/ r \in DropIfNoSocket(y, c)
    BY <2>1 DEF AfterTwin
  <2>4. y \in QueueState
    BY <2>2 DEF Legal
  <2> QED
    BY <2>2, <2>3, <2>4, AnswerRequestIsLegal, DropIfNoSocketShrinks, ShrinksIsLegal
<1> QED
  BY <1>3, <1>4, <1>5, AnswerRequestIsLegal

----------------------------------------------------------------------------
(* Feeding the slots                                                       *)

\* SendBlockData may end a slot or hand it over, but never exceeds the limit.
LEMMA SendBlockDataIsLegal ==
    ASSUME NEW s, Legal(s), NEW c \in Clients, c \in s.live, NEW r \in SendBlockData(s, c)
    PROVE  Legal(r)
<1>1. s \in QueueState
  BY DEF Legal
<1>2. CASE r \in {s, RemoveFromUploadQueue(s, c)}
  BY <1>1, <1>2, RemoveFromUploadQueueShrinks, ShrinksIsLegal
<1>3. CASE \E f \in s.shared : r = [s EXCEPT !.file[c] = f]
  <2>1. PICK f \in s.shared : r = [s EXCEPT !.file[c] = f]
    BY <1>3
  <2>2. f \in Files
    BY <1>1 DEF QueueState
  <2>3. r \in QueueState /\ Spares(s, r) /\ r.waiting = s.waiting
    BY <1>1, <2>1, <2>2 DEF QueueState, Spares
  <2> QED
    BY <2>3, SparesIsLegal
<1>4. CASE \E f \in s.shared : r = RemoveFromUploadQueue([s EXCEPT !.shared = @ \ {f}], c)
  <2>1. PICK f \in s.shared : r = RemoveFromUploadQueue([s EXCEPT !.shared = @ \ {f}], c)
    BY <1>4
  <2> DEFINE x == [s EXCEPT !.shared = @ \ {f}]
  <2>2. x \in QueueState /\ Spares(s, x) /\ x.waiting = s.waiting
    BY <1>1 DEF QueueState, Spares
  <2>3. Legal(x)
    BY <2>2, SparesIsLegal
  <2> QED
    BY <2>1, <2>2, <2>3, RemoveFromUploadQueueShrinks, ShrinksIsLegal
<1>5. CASE r \in KickOut(s, c)
  <2> DEFINE x == [s EXCEPT !.allowKicking = FALSE]
  <2>1. x \in QueueState /\ Spares(s, x) /\ x.waiting = s.waiting
    BY <1>1 DEF QueueState, Spares
  <2>2. Legal(x)
    BY <2>1, SparesIsLegal
  <2>3. Legal(RemoveFromUploadQueue(x, c))
    BY <2>1, <2>2, RemoveFromUploadQueueShrinks, ShrinksIsLegal
  <2> QED
    BY <1>5, <2>3, AddClientToQueueIsLegal DEF KickOut
<1>6. r \in CreateNextBlockPackage(s, c) \/ r \in KickOut(s, c)
  BY DEF SendBlockData
<1>7. r \in CreateNextBlockPackage(s, c) =>
          \/ r \in {s, RemoveFromUploadQueue(s, c)}
          \/ \E f \in s.shared : r = [s EXCEPT !.file[c] = f]
          \/ \E f \in s.shared : r = RemoveFromUploadQueue([s EXCEPT !.shared = @ \ {f}], c)
  BY DEF CreateNextBlockPackage
<1> QED
  BY <1>2, <1>3, <1>4, <1>5, <1>6, <1>7

\* Nor does the step of Process that serves one slot.
LEMMA FeedIsLegal ==
    ASSUME NEW s, Legal(s), NEW c \in Clients, c \in s.live, NEW r \in Feed(s, c)
    PROVE  Legal(r)
<1>1. s \in QueueState
  BY DEF Legal
<1> DEFINE x == RemoveFromUploadQueue(s, c)
<1>2. x \in QueueState /\ Legal(x)
  BY <1>1, RemoveFromUploadQueueShrinks, ShrinksIsLegal DEF Legal
<1>3. r \in DisconnectOrDelete(x, c) \/ r \in SendBlockData(s, c)
  BY DEF Feed
<1> HIDE DEF x
<1> QED
  BY <1>2, <1>3, DisconnectOrDeleteShrinks, SendBlockDataIsLegal, ShrinksIsLegal

\* The loop's cursor never stands before the first slot.
LEMMA CursorsType ==
    ASSUME NEW s \in QueueState, NEW u \in Seq(Clients),
           NEW p \in 1 .. Len(s.uploading), NEW n \in Cursors(s, u, p)
    PROVE  n \in Nat \ {0}
<1>1. CASE n = Len(u) + 1 \/ n \in 1 .. Len(u) + 1
  BY <1>1
<1>2. CASE \E c \in Range(u) : n = LastPlace(u, c)
  <2>1. PICK c \in Range(u) : n = LastPlace(u, c)
    BY <1>2
  <2> DEFINE K == {i \in DOMAIN u : \E j \in i .. Len(u) : u[j] = c}
  <2>2. PICK i \in 1 .. Len(u) : u[i] = c
    BY <2>1 DEF Range
  <2>3. i \in K
    BY <2>2
  <2>4. IsFiniteSet(K)
    <3>1. K \subseteq 1 .. Len(u)
      OBVIOUS
    <3>2. IsFiniteSet(1 .. Len(u))
      BY FS_Interval
    <3> QED
      BY <3>1, <3>2, FS_Subset
  <2>5. Cardinality(K) \in Nat \ {0}
    BY <2>3, <2>4, FS_CardinalityType, FS_EmptySet
  <2> QED
    BY <2>1, <2>5 DEF LastPlace
<1> QED
  BY <1>1, <1>2 DEF Cursors

----------------------------------------------------------------------------
(* The actions                                                             *)

\* A hello changes the ID and the socket of a client that exists, and no slot.
LEMMA ProcessHelloIsLegal ==
    ASSUME NEW s, Legal(s), NEW c \in Clients, c \in s.live
    PROVE  Legal(ProcessHello(s, c))
<1> DEFINE x == [s EXCEPT !.sock[c] = "established", !.lowID = @ \ {c}]
           y == [x EXCEPT !.ustate[c] = "UPLOADING"]
<1>1. s \in QueueState
  BY DEF Legal
<1>2. x \in QueueState /\ Spares(s, x) /\ x.waiting = s.waiting
  BY <1>1 DEF QueueState, SocketStates, Spares
<1>3. Legal(x)
  BY <1>2, SparesIsLegal
<1>4. ProcessHello(s, c) = IF x.ustate[c] = "CONNECTING" /\ IsDownloading(x, c) THEN y ELSE x
  BY DEF ProcessHello, ConnectionEstablished
<1> HIDE DEF x
<1>5. /\ y \in QueueState /\ y.uploading = x.uploading /\ y.waiting = x.waiting /\ y.live = x.live
      /\ y.sock = x.sock /\ y.file = x.file /\ y.lastupslotHighID = x.lastupslotHighID
      /\ \A d \in Clients \ {c} : y.ustate[d] = x.ustate[d]
  BY <1>2 DEF QueueState, UploadStates
<1> HIDE DEF y
<1>6. ASSUME IsDownloading(x, c) PROVE Legal(y)
  <2>1. Held(y)
    BY <1>3, <1>5, <1>6 DEF Legal, Held, IsDownloading
  <2> QED
    BY <1>3, <1>5, <2>1 DEF Legal, Slots, Places
<1> QED
  BY <1>3, <1>4, <1>6

\* A ban changes the state of a client, and no slot.
LEMMA BanIsLegal ==
    ASSUME NEW s, Legal(s), NEW c \in Clients
    PROVE  Legal(Ban(s, c)) /\ Ban(s, c).live = s.live
<1>1. s \in QueueState
  BY DEF Legal
<1>2. Dest[c] \in Range(Dest)
  BY ConstantsAssumption DEF ConstantsAssumption, Range
<1>3. /\ Ban(s, c) \in QueueState /\ Spares(s, Ban(s, c))
      /\ Ban(s, c).waiting = s.waiting
  BY <1>1, <1>2 DEF Ban, QueueState, UploadStates, Spares
<1> QED
  BY <1>3, SparesIsLegal DEF Spares

\* Suspending a file takes slots away and puts their clients back on the list.
LEMMA SuspendUploadIsLegal ==
    ASSUME NEW s, Legal(s), NEW f \in Files, NEW terminate \in BOOLEAN,
           NEW r \in SuspendUpload(s, f, terminate)
    PROVE  Legal(r)
<1> DEFINE hit   == {c \in Range(s.uploading) : s.file[c] = f}
           us    == [c \in Clients |-> IF c \notin hit THEN s.ustate[c]
                                       ELSE IF terminate THEN "NONE" ELSE "ONUPLOADQUEUE"]
           ended == {[s EXCEPT !.uploading = u, !.ustate = us] : u \in Without(s.uploading, hit)}
<1>1. s \in QueueState /\ s.uploading \in Seq(Clients) /\ Held(s)
  BY DEF Legal, QueueState
<1>2. us \in [Clients -> UploadStates]
  BY <1>1 DEF QueueState, UploadStates
<1>3. \A c \in Clients : us[c] = "UPLOADING" => s.ustate[c] = "UPLOADING" /\ c \notin hit
  OBVIOUS
<1> DEFINE back(x) == {[x EXCEPT !.suspended = @ \union {f}, !.waiting = @ \o w] :
                          w \in Without(s.uploading, Clients \ hit)}
<1>4. SuspendUpload(s, f, terminate) = IF terminate THEN ended ELSE UNION {back(x) : x \in ended}
  BY Zenon DEF SuspendUpload
<1>5. hit \in SUBSET Clients
  BY <1>1 DEF Range
<1> HIDE DEF us, hit
<1>6. ASSUME NEW u \in Without(s.uploading, hit), NEW x, x = [s EXCEPT !.uploading = u, !.ustate = us]
      PROVE  Shrinks(s, x) /\ x.uploading = u /\ x.waiting = s.waiting
  <2>1. /\ u \in Seq(Clients) /\ Len(u) <= Len(s.uploading)
        /\ Range(u) = Range(s.uploading) \ hit /\ IsInjective(u)
    <3>1. IsInjective(s.uploading) /\ s.uploading \in Seq(Clients)
      BY <1>1 DEF Held
    <3> HIDE DEF ended
    <3> QED
      BY <3>1, WithoutType, Zenon
  <2>2. /\ x \in QueueState /\ x.uploading = u /\ x.waiting = s.waiting /\ x.live = s.live
        /\ x.ustate = us /\ x.sock = s.sock /\ x.file = s.file
        /\ x.lastupslotHighID = s.lastupslotHighID
    BY <1>1, <1>2, <1>6, <2>1 DEF QueueState
  <2>3. Held(x)
    BY <1>1, <1>3, <2>1, <2>2 DEF Held, IsDownloading
  <2> QED
    BY <1>1, <2>1, <2>2, <2>3, Lengths DEF Shrinks
<1>7. ASSUME NEW x \in ended PROVE Legal(x)
  BY <1>6, ShrinksIsLegal
<1>8. CASE terminate
  BY <1>4, <1>7, <1>8
<1>9. CASE ~terminate
  <2>1. PICK x \in ended : r \in back(x)
    <3>1. r \in UNION {back(x) : x \in ended}
      BY <1>4, <1>9
    <3> HIDE DEF back, ended
    <3> QED
      BY <3>1
  <2>2. PICK u \in Without(s.uploading, hit) : x = [s EXCEPT !.uploading = u, !.ustate = us]
    OBVIOUS
  <2>3. PICK w \in Without(s.uploading, Clients \ hit) :
           r = [x EXCEPT !.suspended = @ \union {f}, !.waiting = @ \o w]
    BY <2>1
  <2> HIDE DEF ended, back
  <2> DEFINE ws == x.waiting \o w
             sf == x.suspended \union {f}
  <2>4. x \in QueueState /\ Legal(x) /\ x.uploading = u /\ x.waiting = s.waiting
    BY <1>6, <2>2, ShrinksIsLegal DEF Shrinks
  <2>5. w \in Seq(Clients) /\ Len(u) + Len(w) = Len(s.uploading)
    <3>1. s.uploading \in Seq(Clients)
      BY <1>1
    <3>2. w \in Seq(Clients)
      BY <3>1, <2>3, WithoutType, Zenon
    <3>3. Len(u) + Len(w) = Len(s.uploading)
      BY <3>1, <1>5, <2>2, <2>3, WithoutSplits, Zenon
    <3> QED
      BY <3>2, <3>3
  <2>6. ws \in Seq(Clients) /\ Len(ws) = Len(s.waiting) + Len(w)
    BY <1>1, <2>4, <2>5, Lengths
  <2>7. sf \in SUBSET Files
    BY <2>4 DEF QueueState
  <2>8. r = [x EXCEPT !.suspended = sf, !.waiting = ws]
    BY <2>3, <2>4 DEF QueueState
  <2> HIDE DEF ws, sf
  <2>9. r \in QueueState /\ Spares(x, r) /\ r.waiting = ws
    BY <2>4, <2>6, <2>7, <2>8 DEF QueueState, Spares
  <2>10. Held(r) /\ Slots(r)
    BY <2>4, <2>9, SparesKeepsHeld DEF Legal, Spares, Slots
  <2>11. Len(r.waiting) + Len(r.uploading) = Len(s.waiting) + Len(s.uploading)
    <3> DEFINE a == Len(s.waiting)
               b == Len(s.uploading)
               m == Len(u)
               n == Len(w)
    <3>1. a \in Nat /\ b \in Nat /\ m \in Nat /\ n \in Nat /\ m + n = b
      BY <1>1, <2>4, <2>5, Lengths
    <3>2. Len(r.waiting) = a + n /\ Len(r.uploading) = m
      BY <2>4, <2>6, <2>9 DEF Spares
    <3> HIDE DEF a, b, m, n
    <3>3. a + n + m = a + b
      BY <3>1
    <3> QED
      BY <3>2, <3>3 DEF a, b
  <2>12. Places(r)
    BY <2>11 DEF Legal, Places
  <2> QED
    BY <2>9, <2>10, <2>12 DEF Legal
<1> QED
  BY <1>8, <1>9

\* The inductive invariant: the queue is legal and the loop of Process in place.
Inv == Legal(q) /\ phase \in Phases /\ pos \in Nat \ {0}

\* Whoever has a socket exists.
LEMMA Connected ==
    ASSUME Inv, NEW c \in Clients, q.sock[c] # "none"
    PROVE  c \in q.live
  BY DEF Inv, Legal, Held

\* A handler keeps the invariant if every state it may leave behind is legal.
LEMMA HandlerKeepsInv ==
    ASSUME Inv, NEW S, Handler(S), \A r \in S : Legal(r)
    PROVE  Inv'
<1>1. Legal(q') /\ phase' = phase /\ pos' = pos
  BY DEF Handler
<1> QED
  BY <1>1 DEF Inv

\* The program starts with empty lists.
LEMMA InitInv == Init => Inv
<1> SUFFICES ASSUME Init PROVE Inv
  OBVIOUS
<1>1. q \in QueueState
  BY DEF Init, QueueState, UploadStates, SocketStates
<1>2. Len(q.uploading) = 0 /\ Len(q.waiting) = 0 /\ q.uploading = << >>
  BY DEF Init
<1>3. Slots(q) /\ Places(q)
  BY <1>1, <1>2, Settings DEF Slots, Places, QueueState
<1>4. Held(q)
  <2>1. IsInjective(q.uploading) /\ Range(q.uploading) = {}
    BY <1>2 DEF IsInjective, Range
  <2>2. \A c \in Clients : q.ustate[c] = "NONE" /\ q.sock[c] = "none" /\ q.file[c] = NoFile
    BY DEF Init
  <2> QED
    BY <2>1, <2>2 DEF Held
<1> QED
  BY <1>1, <1>3, <1>4 DEF Init, Inv, Legal, Phases

\* Process gives a slot only after it has counted them.
LEMMA ProcessStartKeepsInv == ASSUME Inv, ProcessStart PROVE Inv'
<1>1. Legal(q) /\ q \in QueueState
  BY DEF Inv, Legal
<1>2. phase' \in Phases /\ pos' \in Nat \ {0}
  BY DEF ProcessStart, Phases
<1>3. Legal(q')
  <2>1. ASSUME NEW b \in BOOLEAN, q' = [q EXCEPT !.allowKicking = b]
        PROVE  Legal(q')
    <3>1. q' \in QueueState /\ Spares(q, q') /\ q'.waiting = q.waiting
      BY <1>1, <2>1 DEF QueueState, Spares
    <3> QED
      BY <1>1, <3>1, SparesIsLegal
  <2>2. ASSUME Len(q.uploading) < MaxSlots,
               q' \in AddUpNextClient([q EXCEPT !.allowKicking = FALSE, !.justStarted = TRUE])
        PROVE  Legal(q')
    <3> DEFINE s == [q EXCEPT !.allowKicking = FALSE, !.justStarted = TRUE]
    <3>1. s \in QueueState /\ Spares(q, s) /\ s.waiting = q.waiting
      BY <1>1 DEF QueueState, Spares
    <3>2. Len(s.uploading) < MaxSlots /\ q' \in AddUpNextClient(s)
      BY <2>2, <3>1 DEF Spares
    <3> HIDE DEF s
    <3>3. Legal(s)
      BY <1>1, <3>1, SparesIsLegal
    <3> QED
      BY <3>2, <3>3, AddUpNextClientIsLegal
  <2> QED
    BY <2>1, <2>2 DEF ProcessStart
<1> QED
  BY <1>2, <1>3 DEF Inv

\* The loop of Process serves one slot within the limit.
LEMMA FeedSlotKeepsInv == ASSUME Inv, FeedSlot PROVE Inv'
<1>1. Legal(q) /\ q \in QueueState /\ phase' \in Phases /\ pos \in Nat \ {0}
  BY DEF Inv, Legal, FeedSlot
<1>2. q.uploading \in Seq(Clients) /\ pos \in 1 .. Len(q.uploading)
  BY <1>1 DEF FeedSlot, QueueState
<1>3. q.uploading[pos] \in Clients /\ q.uploading[pos] \in q.live
  <2>1. q.uploading[pos] \in Range(q.uploading)
    BY <1>2 DEF Range
  <2> QED
    BY <1>1, <1>2, <2>1 DEF Legal, Held
<1>4. Legal(q')
  BY <1>1, <1>3, FeedIsLegal DEF FeedSlot
<1>5. q'.uploading \in Seq(Clients)
  BY <1>4 DEF Legal, QueueState
<1>6. pos' \in Nat \ {0}
  BY <1>1, <1>2, <1>5, CursorsType DEF FeedSlot
<1> QED
  BY <1>1, <1>4, <1>6 DEF Inv

\* The end of the loop touches no slot.
LEMMA ProcessEndKeepsInv == ASSUME Inv, ProcessEnd PROVE Inv'
<1>1. Legal(q) /\ q \in QueueState
  BY DEF Inv, Legal
<1>2. q' = q \/ q' \in SortGetBestClient(q)
  BY DEF ProcessEnd
<1>3. Legal(q')
  BY <1>1, <1>2, SortGetBestClientShrinks, ShrinksIsLegal
<1>4. phase' \in Phases /\ pos' \in Nat \ {0}
  BY DEF ProcessEnd, Phases
<1> QED
  BY <1>3, <1>4 DEF Inv

\* Whatever a peer does keeps the limit.
LEMMA PeerNextKeepsInv == ASSUME Inv, NEW c \in Clients, PeerNext(c) PROVE Inv'
<1>1. Legal(q) /\ q \in QueueState
  BY DEF Inv, Legal
<1>2. ASSUME NEW r \in QueueState, Spares(q, r), r.waiting = q.waiting
      PROVE  Legal(r)
  BY <1>1, <1>2, SparesIsLegal
<1>3. CASE Hello(c)
  <2> DEFINE n == [q EXCEPT !.live = @ \union {c}]
  <2>1. /\ n \in QueueState /\ n.uploading = q.uploading /\ n.waiting = q.waiting
        /\ n.live = q.live \union {c} /\ n.ustate = q.ustate /\ n.sock = q.sock /\ n.file = q.file
        /\ n.lastupslotHighID = q.lastupslotHighID
    BY <1>1 DEF QueueState
  <2>3. Handler({ProcessHello(Ban(n, c), c)}) \/ Handler({ProcessHello(n, c)})
    BY <1>3 DEF Hello
  <2> HIDE DEF n
  <2>2. Legal(n)
    BY <1>1, <2>1 DEF Legal, Slots, Places, Held, IsDownloading
  <2>4. Legal(ProcessHello(Ban(n, c), c)) /\ Legal(ProcessHello(n, c))
    BY <2>1, <2>2, BanIsLegal, ProcessHelloIsLegal
  <2> QED
    BY <2>3, <2>4, HandlerKeepsInv
<1>4. CASE OnConnect(c)
  <2> DEFINE r == [q EXCEPT !.sock[c] = "linked"]
  <2>1. c \in q.live /\ Handler({r})
    BY <1>4, Connected DEF OnConnect
  <2>2. r \in QueueState /\ Spares(q, r) /\ r.waiting = q.waiting
    BY <1>1, <2>1 DEF QueueState, SocketStates, Spares
  <2> HIDE DEF r
  <2> QED
    BY <1>2, <2>1, <2>2, HandlerKeepsInv
<1>5. CASE HelloAnswer(c)
  <2>1. c \in q.live
    BY <1>5, Connected DEF HelloAnswer
  <2> QED
    BY <1>1, <1>5, <2>1, ProcessHelloIsLegal, HandlerKeepsInv DEF HelloAnswer
<1>6. CASE Disconnect(c)
  <2>1. \A r \in DisconnectOrDelete(q, c) : Legal(r)
    BY <1>1, DisconnectOrDeleteShrinks, ShrinksIsLegal
  <2> QED
    BY <1>6, <2>1, HandlerKeepsInv DEF Disconnect
<1>7. CASE ChangeClientID(c)
  <2> DEFINE r == [q EXCEPT !.lowID = @ \union {c}]
             t == [q EXCEPT !.lowID = @ \ {c}]
  <2>1. /\ r \in QueueState /\ Spares(q, r) /\ r.waiting = q.waiting
        /\ t \in QueueState /\ Spares(q, t) /\ t.waiting = q.waiting
    BY <1>1 DEF QueueState, Spares
  <2>2. Handler({r, t})
    BY <1>7 DEF ChangeClientID
  <2> HIDE DEF r, t
  <2> QED
    BY <1>2, <2>1, <2>2, HandlerKeepsInv
<1>8. CASE EndTransfer(c)
  <2>1. Legal(RemoveFromUploadQueue(q, c))
    BY <1>1, RemoveFromUploadQueueShrinks, ShrinksIsLegal
  <2> QED
    BY <1>8, <2>1, HandlerKeepsInv DEF EndTransfer
<1>9. CASE ChangeDownload(c)
  <2> DEFINE r == [q EXCEPT !.downloading = IF c \in @ THEN @ \ {c} ELSE @ \union {c}]
  <2>1. r \in QueueState /\ Spares(q, r) /\ r.waiting = q.waiting
    BY <1>1 DEF QueueState, Spares
  <2>2. Handler({r})
    BY <1>9 DEF ChangeDownload
  <2> HIDE DEF r
  <2> QED
    BY <1>2, <2>1, <2>2, HandlerKeepsInv
<1>10. CASE Age(c)
  <2> DEFINE r == [q EXCEPT !.stale = @ \union {c}]
  <2>1. r \in QueueState /\ Spares(q, r) /\ r.waiting = q.waiting
    BY <1>1 DEF QueueState, Spares
  <2>2. Handler({r})
    BY <1>10 DEF Age
  <2> HIDE DEF r
  <2> QED
    BY <1>2, <2>1, <2>2, HandlerKeepsInv
<1>11. ASSUME NEW f \in Files, StartUploadReq(c, f)
       PROVE  Inv'
  <2> DEFINE x == [q EXCEPT !.file[c] = f]
  <2>1. Legal(x)
    <3>1. c \in q.live
      BY <1>11, Connected DEF StartUploadReq
    <3>2. x \in QueueState /\ Spares(q, x) /\ x.waiting = q.waiting
      BY <1>1, <3>1 DEF QueueState, Spares
    <3> HIDE DEF x
    <3> QED
      BY <1>2, <3>2
  <2>2. Legal(Ban(q, c))
    BY <1>1, BanIsLegal
  <2>3. \A r \in AddClientToQueue(x, c) : Legal(r)
    BY <2>1, AddClientToQueueIsLegal
  <2>4. PICK S : Handler(S) /\ \A r \in S : r = q \/ r = Ban(q, c) \/ r \in AddClientToQueue(x, c)
    <3> DEFINE S == (IF IsBanned(q, c) \/ f \notin q.shared THEN {q} ELSE AddClientToQueue(x, c))
                    \union (IF "ban" \in Env /\ ~IsBanned(q, c) /\ c \notin q.downloading
                            THEN {Ban(q, c)} ELSE {})
    <3>1. Handler(S)
      BY <1>11 DEF StartUploadReq
    <3>2. \A r \in S : r = q \/ r = Ban(q, c) \/ r \in AddClientToQueue(x, c)
      OBVIOUS
    <3> QED
      BY <3>1, <3>2
  <2> HIDE DEF x
  <2>5. \A r \in S : Legal(r)
    BY <1>1, <2>2, <2>3, <2>4
  <2> QED
    BY <2>4, <2>5, HandlerKeepsInv
<1>12. ASSUME NEW f \in Files, SetReqFile(c, f)
       PROVE  Inv'
  <2> DEFINE r == [q EXCEPT !.file[c] = f]
  <2>1. c \in q.live /\ Handler({r})
    BY <1>12, Connected DEF SetReqFile, IsConnected
  <2>2. r \in QueueState /\ Spares(q, r) /\ r.waiting = q.waiting
    BY <1>1, <2>1 DEF QueueState, Spares
  <2> HIDE DEF r
  <2> QED
    BY <1>2, <2>1, <2>2, HandlerKeepsInv
<1> QED
  BY <1>3, <1>4, <1>5, <1>6, <1>7, <1>8, <1>9, <1>10, <1>11, <1>12 DEF PeerNext

\* A deleted file is forgotten by all, and nothing else changes.
LEMMA RemoveFileForgets ==
    ASSUME NEW s \in QueueState, NEW f \in Files, NEW r, r = RemoveFile(s, f)
    PROVE  /\ r \in QueueState /\ r.uploading = s.uploading /\ r.waiting = s.waiting
           /\ r.rank = s.rank /\ r.live = s.live /\ r.ustate = s.ustate /\ r.sock = s.sock
           /\ r.lastupslotHighID = s.lastupslotHighID
           /\ \A c \in Clients : r.file[c] \in {NoFile, s.file[c]}
  BY DEF RemoveFile, QueueState

\* So does whatever happens to a file.
LEMMA FileNextKeepsInv == ASSUME Inv, NEW f \in Files, FileNext(f) PROVE Inv'
<1>1. Legal(q) /\ q \in QueueState
  BY DEF Inv, Legal
<1>2. CASE FileComplete(f)
  BY <1>1, <1>2, SuspendUploadIsLegal, HandlerKeepsInv DEF FileComplete
<1>3. CASE CompleteFileEnded(f)
  <2> DEFINE x == [q EXCEPT !.suspended = @ \ {f}]
             r == [x EXCEPT !.shared = @ \union {f}]
  <2>1. x \in QueueState /\ Spares(q, x) /\ x.waiting = q.waiting
    BY <1>1 DEF QueueState, Spares
  <2>2. Handler({r})
    BY <1>3 DEF CompleteFileEnded, ResumeUpload
  <2> HIDE DEF x
  <2>3. r \in QueueState /\ Spares(x, r) /\ r.waiting = x.waiting
    BY <2>1 DEF QueueState, Spares
  <2> HIDE DEF r
  <2>4. Legal(r)
    BY <1>1, <2>1, <2>3, SparesIsLegal
  <2> QED
    BY <2>2, <2>4, HandlerKeepsInv
<1>4. CASE DeleteFile(f)
  <2>1. ASSUME NEW s \in SuspendUpload(q, f, TRUE)
        PROVE  Legal(RemoveFile(s, f))
    <3>1. Legal(s) /\ s \in QueueState
      BY <1>1, SuspendUploadIsLegal DEF Legal
    <3> DEFINE r == RemoveFile(s, f)
    <3>2. r \in QueueState /\ Spares(s, r) /\ r.waiting = s.waiting
      BY <3>1, RemoveFileForgets DEF Spares
    <3> QED
      BY <3>1, <3>2, SparesIsLegal
  <2> QED
    BY <1>4, <2>1, HandlerKeepsInv DEF DeleteFile
<1>5. CASE ReloadShared(f)
  <2> DEFINE r == [q EXCEPT !.shared = IF f \in @ THEN @ \ {f} ELSE @ \union {f}]
  <2>1. r \in QueueState /\ Spares(q, r) /\ r.waiting = q.waiting
    BY <1>1 DEF QueueState, Spares
  <2>2. Handler({r})
    BY <1>5 DEF ReloadShared
  <2> HIDE DEF r
  <2>3. Legal(r)
    BY <1>1, <2>1, SparesIsLegal
  <2> QED
    BY <2>2, <2>3, HandlerKeepsInv
<1> QED
  BY <1>2, <1>3, <1>4, <1>5 DEF FileNext

\* Time, the user and the end of the program.
LEMMA TimeKeepsInv ==
    ASSUME Inv,
           \/ \E c \in Clients : DeleteOne(c)
           \/ \E d \in Range(Dest) : BanExpires(d)
           \/ Tick \/ ResortQueue \/ Shutdown
    PROVE  Inv'
<1>1. Legal(q) /\ q \in QueueState /\ phase \in Phases /\ pos \in Nat \ {0}
  BY DEF Inv, Legal
<1>2. CASE \E c \in Clients : DeleteOne(c)
  <2>1. PICK c \in Clients : DeleteOne(c)
    BY <1>2
  <2>2. Disconnected(q, c) \in QueueState /\ Legal(Disconnected(q, c))
    BY <1>1, DisconnectedShrinks, ShrinksIsLegal DEF Legal
  <2>3. Legal(q')
    BY <2>1, <2>2, SafeDeleteShrinks, ShrinksIsLegal DEF DeleteOne
  <2>4. phase' = phase /\ pos' = pos
    BY <2>1 DEF DeleteOne
  <2> QED
    BY <1>1, <2>3, <2>4 DEF Inv
<1>3. CASE \E d \in Range(Dest) : BanExpires(d)
  <2>1. PICK d \in Range(Dest) : Handler({[q EXCEPT !.banned = @ \ {d}]})
    BY <1>3 DEF BanExpires
  <2> DEFINE r == [q EXCEPT !.banned = @ \ {d}]
  <2>2. r \in QueueState /\ Spares(q, r) /\ r.waiting = q.waiting
    BY <1>1 DEF QueueState, Spares
  <2> HIDE DEF r
  <2>3. Legal(r)
    BY <1>1, <2>2, SparesIsLegal
  <2> QED
    BY <2>1, <2>3, HandlerKeepsInv DEF r
<1>4. CASE Tick
  <2>1. q' \in QueueState /\ Spares(q, q') /\ q'.waiting = q.waiting
    BY <1>1, <1>4 DEF Tick, QueueState, Spares
  <2>2. Legal(q')
    BY <1>1, <2>1, SparesIsLegal
  <2> QED
    BY <1>1, <1>4, <2>2 DEF Tick, Inv
<1>5. CASE ResortQueue
  <2>1. \A r \in SortGetBestClient(q) : Legal(r)
    BY <1>1, SortGetBestClientShrinks, ShrinksIsLegal
  <2> QED
    BY <1>5, <2>1, HandlerKeepsInv DEF ResortQueue
<1>6. CASE Shutdown
  BY <1>1, <1>6 DEF Shutdown, Inv, Phases
<1> QED
  BY <1>2, <1>3, <1>4, <1>5, <1>6

\* So does every step.
LEMMA NextKeepsInv == ASSUME Inv, [Next]_vars PROVE Inv'
<1>1. CASE Next
  BY <1>1, ProcessStartKeepsInv, FeedSlotKeepsInv, ProcessEndKeepsInv, PeerNextKeepsInv,
     FileNextKeepsInv, TimeKeepsInv DEF Next, Process
<1>2. CASE UNCHANGED vars
  BY <1>2 DEF vars, Inv
<1> QED
  BY <1>1, <1>2

----------------------------------------------------------------------------

\* The slots, the waiting list and every field of the clients on them stay what
\* the declarations of CUploadQueue and CUpDownClient allow.
THEOREM TypeCorrect == Spec => []TypeOK
<1>1. Inv => TypeOK
  BY DEF Inv, Legal, TypeOK
<1> QED
  BY <1>1, InitInv, NextKeepsInv, PTL DEF Spec

\* There are never more slots than GetMaxSlots() allows, but for the single one
\* that a client which had to call in may take, however requests, hash clashes,
\* kicks and suspensions interleave (UploadQueue.cpp:393-402).
THEOREM SlotsAreLimited == Spec => []SlotLimit
<1>1. Inv => SlotLimit
  BY DEF Inv, Legal, Slots, SlotLimit
<1> QED
  BY <1>1, InitInv, NextKeepsInv, PTL DEF Spec

\* The waiting list keeps within the queue size but for the clients whose slots a
\* suspended upload put back on it, who are never more than the slots there are:
\* CUploadQueue::SuspendUpload appends to the list without a look at its size
\* (UploadQueue.cpp:631), and yet it cannot grow without bound.
THEOREM PlacesAreLimited == Spec => []QueueLimit
<1>1. Inv => QueueLimit
  BY DEF Inv, Legal, Places, QueueLimit
<1> QED
  BY <1>1, InitInv, NextKeepsInv, PTL DEF Spec

\* Nobody ever holds two slots, no slot is held by a client that was deleted, and
\* whoever is in state US_UPLOADING, by which AddReqBlock accepts a block request,
\* has a slot: whatever the peers, the shared files and the user do.
THEOREM SlotsAreHeldOnce == Spec => []SlotsHeldOnce
<1>1. Inv => SlotsHeldOnce
  BY DEF Inv, Legal, Held, SlotsHeldOnce
<1> QED
  BY <1>1, InitInv, NextKeepsInv, PTL DEF Spec

----------------------------------------------------------------------------
(* What is claimed of one state, client by client                          *)

\* The waiting list is a row: nobody stands in it twice, and ranks are places.
Row(s) ==
    /\ IsInjective(s.waiting)
    /\ \A i \in DOMAIN s.waiting : s.rank[s.waiting[i]] \in {0, i}
    /\ \A c \in Clients : ~IsOnUploadQueue(s, c) => s.rank[c] = 0

\* The state of c fits the list it is on; and a client that is said to be waiting is,
\* unless it is one of Z.
OK(Z, s, c) ==
    /\ IsOnUploadQueue(s, c) =>
           c \in s.live /\ ~IsDownloading(s, c) /\ s.ustate[c] = "ONUPLOADQUEUE"
    /\ IsDownloading(s, c) =>
           /\ s.ustate[c] \in {"CONNECTING", "UPLOADING"}
           /\ s.sock[c] = "established" => s.ustate[c] = "UPLOADING"
    /\ c \notin Z => (s.ustate[c] = "ONUPLOADQUEUE" => IsOnUploadQueue(s, c))

Fine(Z, s) == Row(s) /\ \A c \in Clients : OK(Z, s, c)

\* Nothing that OK tells of c has changed from s to r.
Same(s, r, c) ==
    /\ IsOnUploadQueue(r, c) <=> IsOnUploadQueue(s, c)
    /\ IsDownloading(r, c) <=> IsDownloading(s, c)
    /\ c \in r.live <=> c \in s.live
    /\ c \in r.stale <=> c \in s.stale
    /\ r.ustate[c] = s.ustate[c] /\ r.sock[c] = s.sock[c] /\ r.file[c] = s.file[c]

\* From s to r only c has changed, and where others stand in the row.
Only(s, r, c) ==
    /\ r \in QueueState /\ (Held(s) => Held(r)) /\ (Row(s) => Row(r))
    /\ r.shared = s.shared
    /\ \A d \in Clients \ {c} : Same(s, r, d)

LEMMA OnlyIsTransitive ==
    ASSUME NEW s, NEW r, NEW t, NEW c, Only(s, r, c), Only(r, t, c)
    PROVE  Only(s, t, c)
  BY DEF Only, Same

LEMMA OnlyIsReflexive ==
    ASSUME NEW s \in QueueState, NEW c
    PROVE  Only(s, s, c)
  BY DEF Only, Same

\* The others are all right where only c has changed.
LEMMA OthersAreOK ==
    ASSUME NEW Z, NEW s, NEW r, NEW c \in Clients, Only(s, r, c), Row(s),
           \A d \in Clients \ {c} : OK(Z, s, d), OK(Z, r, c)
    PROVE  Fine(Z, r)
<1>1. Row(r)
  BY DEF Only
<1>2. ASSUME NEW d \in Clients \ {c} PROVE OK(Z, r, d)
  <2>1. OK(Z, s, d) /\ Same(s, r, d) /\ r.shared = s.shared
    BY DEF Only
  <2> QED
    BY <2>1 DEF OK, Same
<1> QED
  BY <1>1, <1>2 DEF Fine

----------------------------------------------------------------------------
(* Places                                                                  *)

\* In a row everybody has one place.
LEMMA OnlyPlace ==
    ASSUME NEW S, NEW s \in Seq(S), IsInjective(s), NEW i \in 1 .. Len(s)
    PROVE  LastPlace(s, s[i]) = i
<1>1. {j \in DOMAIN s : \E k \in j .. Len(s) : s[k] = s[i]} = 1 .. i
  <2>1. DOMAIN s = 1 .. Len(s) /\ Len(s) \in Nat
    OBVIOUS
  <2>2. \A j \in 1 .. Len(s) : \A k \in j .. Len(s) : s[k] = s[i] => k = i
    BY <2>1 DEF IsInjective
  <2> QED
    BY <2>1, <2>2
<1>2. Cardinality(1 .. i) = i
  BY FS_Interval
<1> QED
  BY <1>1, <1>2 DEF LastPlace

\* Where those on the list go when c leaves it.
LEMMA DropFirstMoves ==
    ASSUME NEW S, NEW s \in Seq(S), IsInjective(s), NEW k \in 1 .. Len(s)
    PROVE  /\ DOMAIN DropFirst(s, s[k]) = 1 .. Len(s) - 1
           /\ \A i \in 1 .. Len(s) - 1 :
                 DropFirst(s, s[k])[i] = IF i < k THEN s[i] ELSE s[i + 1]
<1> DEFINE d == DropFirst(s, s[k])
<1>1. Len(s) \in Nat \ {0} /\ DOMAIN s = 1 .. Len(s)
  OBVIOUS
<1>2. DOMAIN d = 1 .. Len(s) - 1
  BY DEF DropFirst
<1>3. ASSUME NEW i \in 1 .. Len(s) - 1
      PROVE  d[i] = IF i < k THEN s[i] ELSE s[i + 1]
  <2>1. (\A j \in 1 .. i : s[j] # s[k]) <=> i < k
    BY <1>1 DEF IsInjective
  <2>2. d[i] = IF \A j \in 1 .. i : s[j] # s[k] THEN s[i] ELSE s[i + 1]
    BY DEF DropFirst
  <2> QED
    BY <2>1, <2>2
<1> QED
  BY <1>2, <1>3

----------------------------------------------------------------------------
(* Leaving the lists                                                       *)

\* Giving up a slot.
LEMMA RemoveFromUploadQueueFrees ==
    ASSUME NEW s \in QueueState, Held(s), NEW c \in Clients
    PROVE  LET r == RemoveFromUploadQueue(s, c)
           IN  /\ Only(s, r, c)
               /\ r.waiting = s.waiting /\ r.rank = s.rank
               /\ ~IsDownloading(r, c) /\ (IsOnUploadQueue(r, c) <=> IsOnUploadQueue(s, c))
               /\ r.live = s.live /\ r.sock = s.sock /\ r.file = s.file /\ r.stale = s.stale
               /\ r.ustate[c] = IF IsDownloading(s, c) THEN "NONE" ELSE s.ustate[c]
               /\ Range(r.uploading) \subseteq Range(s.uploading)
<1> DEFINE u == DropFirst(s.uploading, c)
           x == [s EXCEPT !.uploading = u, !.ustate[c] = "NONE"]
           r == RemoveFromUploadQueue(s, c)
<1>1. r \in QueueState /\ Held(r) /\ (Held(s) => Held(r))
  BY RemoveFromUploadQueueShrinks DEF Shrinks
<1>2. r = IF IsDownloading(s, c) THEN x ELSE s
  BY DEF RemoveFromUploadQueue, QueueState
<1>3. CASE IsDownloading(s, c)
  <2>1. Range(u) = Range(s.uploading) \ {c}
    BY <1>3, DropFirstDrops, Lengths DEF Held, IsDownloading
  <2> HIDE DEF u
  <2>2. /\ x.waiting = s.waiting /\ x.rank = s.rank /\ x.uploading = u
        /\ x.live = s.live /\ x.sock = s.sock /\ x.file = s.file /\ x.stale = s.stale
        /\ x.shared = s.shared
        /\ \A d \in Clients : x.ustate[d] = IF d = c THEN "NONE" ELSE s.ustate[d]
    BY DEF QueueState
  <2> HIDE DEF x, r
  <2>3. r = x
    BY <1>2, <1>3
  <2>4. Row(s) => Row(r)
    BY <2>2, <2>3 DEF Row, IsOnUploadQueue
  <2>5. Only(s, r, c)
    BY <1>1, <2>1, <2>2, <2>3, <2>4 DEF Only, Same, IsOnUploadQueue, IsDownloading
  <2> QED
    BY <1>3, <2>1, <2>2, <2>3, <2>5 DEF IsOnUploadQueue, IsDownloading, r
<1>4. CASE ~IsDownloading(s, c)
  BY <1>2, <1>4, OnlyIsReflexive DEF r
<1> QED
  BY <1>3, <1>4

\* Giving up a place: those behind move up, and their ranks with them.
LEMMA RemoveFromWaitingQueueFrees ==
    ASSUME NEW s \in QueueState, Row(s), NEW c \in Clients
    PROVE  LET r == RemoveFromWaitingQueue(s, c)
           IN  /\ Only(s, r, c)
               /\ r.uploading = s.uploading
               /\ ~IsOnUploadQueue(r, c) /\ (IsDownloading(r, c) <=> IsDownloading(s, c))
               /\ r.live = s.live /\ r.sock = s.sock /\ r.file = s.file /\ r.stale = s.stale
               /\ r.ustate[c] = IF IsOnUploadQueue(s, c) THEN "NONE" ELSE s.ustate[c]
               /\ Row(r)
<1> DEFINE w      == DropFirst(s.waiting, c)
           behind == {w[i] : i \in {j \in DOMAIN w : \E k \in 1 .. j : s.waiting[k] = c}}
           rank   == [d \in Clients |-> IF d \in behind THEN LastPlace(w, d)
                                        ELSE IF d = c THEN 0 ELSE s.rank[d]]
           banned == IF IsBanned(s, c) THEN s.banned \ {Dest[c]} ELSE s.banned
           x      == [s EXCEPT !.waiting = w, !.banned = banned,
                               !.ustate[c] = "NONE", !.rank = rank]
           r      == RemoveFromWaitingQueue(s, c)
<1>1. r \in QueueState /\ (Held(s) => Held(r))
  BY RemoveFromWaitingQueueShrinks DEF Shrinks
<1>2. r = IF IsOnUploadQueue(s, c) THEN x ELSE s
  BY DEF RemoveFromWaitingQueue, QueueState
<1>3. s.waiting \in Seq(Clients) /\ IsInjective(s.waiting)
  BY DEF QueueState, Row
<1>4. CASE IsOnUploadQueue(s, c)
  <2>1. PICK k \in 1 .. Len(s.waiting) : s.waiting[k] = c
    BY <1>3, <1>4 DEF IsOnUploadQueue, Range
  <2> DEFINE n == Len(s.waiting)
  <2>2. n \in Nat \ {0} /\ DOMAIN s.waiting = 1 .. n
    BY <1>3, <2>1
  <2>3. w \in Seq(Clients) /\ IsInjective(w) /\ Range(w) = Range(s.waiting) \ {c} /\ Len(w) = n - 1
    BY <1>3, <1>4, DropFirstType, DropFirstDrops DEF IsOnUploadQueue
  <2>4. DOMAIN w = 1 .. n - 1 /\ \A i \in 1 .. n - 1 : w[i] = IF i < k THEN s.waiting[i] ELSE s.waiting[i + 1]
    BY <1>3, <2>1, DropFirstMoves
  <2> HIDE DEF w, n
  <2>5. \A j \in 1 .. n - 1 : (\E m \in 1 .. j : s.waiting[m] = c) <=> k <= j
    BY <1>3, <2>1, <2>2 DEF IsInjective
  <2>6. behind = {w[j] : j \in {i \in 1 .. n - 1 : k <= i}}
    BY <2>4, <2>5
  <2>7. \A i \in 1 .. n - 1 : w[i] \in behind <=> k <= i
    BY <2>3, <2>4, <2>6 DEF IsInjective
  <2>8. \A i \in 1 .. n - 1 : w[i] \in Clients /\ w[i] # c /\ LastPlace(w, w[i]) = i
    <3>1. Len(w) = n - 1 /\ \A i \in 1 .. n - 1 : w[i] \in Range(w)
      BY <2>2, <2>3, <2>4 DEF Range
    <3> QED
      BY <2>3, <3>1, OnlyPlace
  <2>9. behind \subseteq Range(w)
    BY <2>4, <2>6 DEF Range
  <2> HIDE DEF behind
  <2>10. \A d \in Clients : rank[d] = IF d \in behind THEN LastPlace(w, d)
                                     ELSE IF d = c THEN 0 ELSE s.rank[d]
    OBVIOUS
  <2> HIDE DEF rank, banned
  <2>11. /\ x.waiting = w /\ x.rank = rank /\ x.uploading = s.uploading
         /\ x.live = s.live /\ x.sock = s.sock /\ x.file = s.file /\ x.stale = s.stale
         /\ x.shared = s.shared
         /\ \A d \in Clients : x.ustate[d] = IF d = c THEN "NONE" ELSE s.ustate[d]
    BY DEF QueueState
  <2> HIDE DEF x, r
  <2>12. r = x
    BY <1>2, <1>4
  <2>13. Row(r)
    <3>1. ASSUME NEW i \in 1 .. n - 1 PROVE rank[w[i]] \in {0, i}
      <4>1. CASE k <= i
        BY <2>7, <2>8, <2>10, <4>1
      <4>2. CASE ~(k <= i)
        <5>1. w[i] = s.waiting[i] /\ i \in DOMAIN s.waiting
          BY <2>1, <2>2, <2>4, <4>2
        <5>2. s.rank[w[i]] \in {0, i}
          BY <5>1 DEF Row
        <5> QED
          BY <2>7, <2>8, <2>10, <4>2, <5>2
      <4> QED
        BY <4>1, <4>2
    <3>2. ASSUME NEW d \in Clients, d \notin Range(w) PROVE rank[d] = 0
      BY <2>3, <2>9, <2>10, <3>2 DEF Row, IsOnUploadQueue
    <3> QED
      BY <2>3, <2>4, <2>11, <2>12, <3>1, <3>2 DEF Row, IsOnUploadQueue
  <2>14. Only(s, r, c)
    BY <1>1, <2>3, <2>11, <2>12, <2>13 DEF Only, Same, IsOnUploadQueue, IsDownloading
  <2> QED
    BY <1>4, <2>3, <2>11, <2>12, <2>13, <2>14 DEF IsOnUploadQueue, IsDownloading, r
<1>5. CASE ~IsOnUploadQueue(s, c)
  BY <1>2, <1>5, OnlyIsReflexive DEF r
<1> QED
  BY <1>4, <1>5

\* What is left of clients that are forgotten.
LEMMA ForgetFrees ==
    ASSUME NEW s \in QueueState, NEW D \in SUBSET Clients
    PROVE  LET r == Forget(s, D)
           IN  /\ r.waiting = s.waiting /\ r.uploading = s.uploading /\ r.rank = s.rank
               /\ r.shared = s.shared /\ r.live = s.live \ D /\ r.stale = s.stale \ D
               /\ \A c \in Clients : /\ r.ustate[c] = IF c \in D THEN "NONE" ELSE s.ustate[c]
                                     /\ r.sock[c] = IF c \in D THEN "none" ELSE s.sock[c]
                                     /\ r.file[c] = IF c \in D THEN NoFile ELSE s.file[c]
  BY DEF Forget, QueueState

\* Who is deleted is on no list any more.
LEMMA SafeDeleteFrees ==
    ASSUME NEW s \in QueueState, Held(s), Row(s), NEW c \in Clients, c \in s.live
    PROVE  LET r == Safe_Delete(s, c)
           IN  /\ Only(s, r, c)
               /\ ~IsDownloading(r, c) /\ ~IsOnUploadQueue(r, c) /\ c \notin r.live
               /\ r.ustate[c] = "NONE"
<1> DEFINE u == RemoveFromUploadQueue(s, c)
           w == RemoveFromWaitingQueue(u, c)
           r == Forget(w, {c})
<1>1. /\ u \in QueueState /\ Held(u) /\ Row(u) /\ Only(s, u, c)
      /\ ~IsDownloading(u, c) /\ u.live = s.live
  BY RemoveFromUploadQueueFrees DEF Only
<1> HIDE DEF u
<1>2. /\ w \in QueueState /\ Held(w) /\ Row(w) /\ Only(u, w, c)
      /\ ~IsDownloading(w, c) /\ ~IsOnUploadQueue(w, c) /\ w.live = s.live
  BY <1>1, RemoveFromWaitingQueueFrees DEF Only
<1> HIDE DEF w
<1>3. r \in QueueState /\ Held(r) /\ r.waiting = w.waiting /\ r.uploading = w.uploading
  BY <1>2, ForgetShrinks DEF Shrinks, IsDownloading
<1>4. /\ r.live = w.live \ {c} /\ r.rank = w.rank /\ r.shared = w.shared /\ r.stale = w.stale \ {c}
      /\ r.ustate[c] = "NONE"
      /\ \A d \in Clients \ {c} : r.ustate[d] = w.ustate[d] /\ r.sock[d] = w.sock[d] /\ r.file[d] = w.file[d]
  BY <1>2 DEF Forget, QueueState
<1> HIDE DEF r
<1>5. Row(r)
  BY <1>2, <1>3, <1>4 DEF Row, IsOnUploadQueue
<1>6. Only(w, r, c)
  BY <1>3, <1>4, <1>5 DEF Only, Same, IsOnUploadQueue, IsDownloading
<1>7. Only(s, r, c)
  BY <1>1, <1>2, <1>6, OnlyIsTransitive
<1>8. r = Safe_Delete(s, c)
  BY DEF Safe_Delete, u, w, r
<1> QED
  BY <1>2, <1>3, <1>4, <1>7, <1>8 DEF IsOnUploadQueue, IsDownloading

\* Losing the socket: an uploading client loses its slot with it.
LEMMA DisconnectedFrees ==
    ASSUME NEW s \in QueueState, Held(s), NEW c \in Clients, c \in s.live
    PROVE  LET r == Disconnected(s, c)
           IN  /\ Only(s, r, c)
               /\ r.waiting = s.waiting /\ r.live = s.live /\ r.file = s.file /\ r.sock[c] = "none"
               /\ IF s.ustate[c] = "UPLOADING"
                  THEN ~IsDownloading(r, c) /\ r.ustate[c] = "NONE"
                  ELSE (IsDownloading(r, c) <=> IsDownloading(s, c)) /\ r.ustate[c] = s.ustate[c]
<1> DEFINE u == IF s.ustate[c] = "UPLOADING" THEN RemoveFromUploadQueue(s, c) ELSE s
           r == [u EXCEPT !.downloading = @ \ {c}, !.sock[c] = "none"]
<1>1. /\ u \in QueueState /\ Held(u) /\ Only(s, u, c) /\ u.waiting = s.waiting
      /\ u.live = s.live /\ u.file = s.file
      /\ IF s.ustate[c] = "UPLOADING"
         THEN ~IsDownloading(u, c) /\ u.ustate[c] = "NONE"
         ELSE (IsDownloading(u, c) <=> IsDownloading(s, c)) /\ u.ustate[c] = s.ustate[c]
  <2>1. CASE s.ustate[c] = "UPLOADING"
    <3>1. IsDownloading(s, c)
      BY <2>1 DEF Held
    <3> QED
      BY <2>1, <3>1, RemoveFromUploadQueueFrees DEF Only
  <2>2. CASE s.ustate[c] # "UPLOADING"
    BY <2>2, OnlyIsReflexive
  <2> QED
    BY <2>1, <2>2
<1> HIDE DEF u
<1>2. /\ r \in QueueState /\ Spares(u, r) /\ r.waiting = u.waiting /\ r.uploading = u.uploading
      /\ r.live = u.live /\ r.file = u.file /\ r.rank = u.rank /\ r.shared = u.shared
      /\ r.ustate = u.ustate /\ r.stale = u.stale /\ r.sock[c] = "none"
      /\ \A d \in Clients \ {c} : r.sock[d] = u.sock[d]
  BY <1>1 DEF QueueState, SocketStates, Spares
<1>3. r = Disconnected(s, c)
  BY DEF Disconnected, u, r
<1> HIDE DEF r
<1>4. Held(r)
  BY <1>1, <1>2, SparesKeepsHeld
<1>5. Row(u) => Row(r)
  BY <1>2 DEF Row, IsOnUploadQueue
<1>6. Only(u, r, c)
  BY <1>2, <1>4, <1>5 DEF Only, Same, IsOnUploadQueue, IsDownloading
<1>7. Only(s, r, c)
  BY <1>1, <1>6, OnlyIsTransitive
<1> QED
  BY <1>1, <1>2, <1>3, <1>7 DEF IsDownloading

\* A client that is left alive stands where it stood, but for the slot.
LEMMA DisconnectOrDeleteFrees ==
    ASSUME NEW s \in QueueState, Held(s), Row(s), NEW c \in Clients,
           NEW r \in DisconnectOrDelete(s, c)
    PROVE  /\ Only(s, r, c)
           /\ c \in r.live =>
                  /\ c \in s.live /\ r.file[c] = s.file[c] /\ r.sock[c] = "none"
                  /\ IsOnUploadQueue(r, c) <=> IsOnUploadQueue(s, c)
                  /\ IF s.ustate[c] = "UPLOADING"
                     THEN ~IsDownloading(r, c) /\ r.ustate[c] = "NONE"
                     ELSE (IsDownloading(r, c) <=> IsDownloading(s, c)) /\ r.ustate[c] = s.ustate[c]
           /\ c \notin r.live =>
                  r = s \/ (~IsDownloading(r, c) /\ ~IsOnUploadQueue(r, c) /\ r.ustate[c] = "NONE")
           /\ c \notin s.live => r = s
<1>1. CASE c \notin s.live
  <2>1. r = s
    BY <1>1 DEF DisconnectOrDelete
  <2>2. Only(s, r, c)
    BY <2>1, OnlyIsReflexive
  <2> QED
    BY <1>1, <2>1, <2>2, Zenon
<1>2. CASE c \in s.live
  <2> DEFINE d == Disconnected(s, c)
             x == Safe_Delete(d, c)
  <2>1. r \in {d, x}
    BY <1>2 DEF DisconnectOrDelete
  <2>2. /\ Only(s, d, c) /\ d \in QueueState /\ Held(d) /\ Row(d) /\ c \in d.live
        /\ d.waiting = s.waiting /\ d.file = s.file /\ d.sock[c] = "none"
        /\ IF s.ustate[c] = "UPLOADING"
           THEN ~IsDownloading(d, c) /\ d.ustate[c] = "NONE"
           ELSE (IsDownloading(d, c) <=> IsDownloading(s, c)) /\ d.ustate[c] = s.ustate[c]
    BY <1>2, DisconnectedFrees DEF Only
  <2> HIDE DEF d
  <2>3. /\ Only(d, x, c) /\ ~IsDownloading(x, c) /\ ~IsOnUploadQueue(x, c) /\ c \notin x.live
        /\ x.ustate[c] = "NONE"
    BY <2>2, SafeDeleteFrees
  <2> HIDE DEF x
  <2>4. Only(s, x, c)
    BY <2>2, <2>3, OnlyIsTransitive
  <2> QED
    <3>1. CASE r = d
      BY <1>2, <2>2, <3>1 DEF IsOnUploadQueue
    <3>2. CASE r = x
      BY <1>2, <2>3, <2>4, <3>2
    <3> QED
      BY <2>1, <3>1, <3>2
<1> QED
  BY <1>1, <1>2

\* So it is all right if it was.
LEMMA DisconnectOrDeleteIsFine ==
    ASSUME NEW Z, NEW s \in QueueState, Held(s), Fine(Z, s), NEW c \in Clients,
           NEW r \in DisconnectOrDelete(s, c)
    PROVE  Fine(Z, r)
<1>1. Row(s) /\ OK(Z, s, c) /\ \A d \in Clients \ {c} : OK(Z, s, d)
  BY DEF Fine
<1>2. r.shared = s.shared
  BY <1>1, DisconnectOrDeleteFrees DEF Only
<1>3. CASE c \in r.live
  <2>1. /\ c \in s.live /\ r.file[c] = s.file[c] /\ r.sock[c] = "none"
        /\ IsOnUploadQueue(r, c) <=> IsOnUploadQueue(s, c)
        /\ IF s.ustate[c] = "UPLOADING"
           THEN ~IsDownloading(r, c) /\ r.ustate[c] = "NONE"
           ELSE (IsDownloading(r, c) <=> IsDownloading(s, c)) /\ r.ustate[c] = s.ustate[c]
    BY <1>1, <1>3, DisconnectOrDeleteFrees
  <2>2. OK(Z, r, c)
    BY <1>1, <1>2, <1>3, <2>1 DEF OK
  <2> QED
    BY <1>1, <2>2, DisconnectOrDeleteFrees, OthersAreOK
<1>4. CASE c \notin r.live
  <2>1. OK(Z, r, c)
    <3>1. r = s \/ (~IsDownloading(r, c) /\ ~IsOnUploadQueue(r, c) /\ r.ustate[c] = "NONE")
      BY <1>1, <1>4, DisconnectOrDeleteFrees
    <3> QED
      BY <1>1, <1>4, <3>1 DEF OK
  <2> QED
    BY <1>1, <2>1, DisconnectOrDeleteFrees, OthersAreOK
<1> QED
  BY <1>3, <1>4

----------------------------------------------------------------------------
(* Sorting                                                                 *)

\* The first pass takes the purged clients' states; nobody who holds a slot is
\* among them, and their entries stay.
LEMMA PurgeFrees ==
    ASSUME NEW s \in QueueState, Range(s.waiting) \intersect Range(s.uploading) = {},
           NEW r \in Purge(s)
    PROVE  /\ r \in QueueState /\ (Held(s) => Held(r)) /\ r.waiting = s.waiting
           /\ r.shared = s.shared
           /\ Range(r.uploading) = Range(s.uploading)
           /\ r.rank = [c \in Clients |-> IF c \in Purged(s) THEN 0 ELSE s.rank[c]]
           /\ \A c \in Clients : IF c \in Purged(s) THEN r.ustate[c] = "NONE"
                ELSE /\ r.ustate[c] = s.ustate[c] /\ r.sock[c] = s.sock[c] /\ r.file[c] = s.file[c]
                     /\ c \in r.live <=> c \in s.live
                     /\ c \in r.stale <=> c \in s.stale
<1> DEFINE gone  == Purged(s)
           loose == {c \in gone : s.sock[c] = "none" /\ c \in s.live}
           us    == [c \in Clients |-> IF c \in gone THEN "NONE" ELSE s.ustate[c]]
           rs    == [c \in Clients |-> IF c \in gone THEN 0 ELSE s.rank[c]]
           bs    == s.banned \ {Dest[c] : c \in {d \in gone : IsBanned(s, d)}}
           ds    == s.downloading \ loose
           swept == [s EXCEPT !.ustate = us, !.rank = rs, !.banned = bs, !.downloading = ds]
<1>1. gone \in SUBSET Clients /\ gone \subseteq Range(s.waiting)
  BY DEF Purged, QueueState, Range
<1>2. PICK D \in SUBSET loose : \E u \in Without(s.uploading, D) :
          r = Forget([swept EXCEPT !.uploading = u], D)
  <2>1. PICK D \in Unneeded(s, loose) : \E u \in Without(s.uploading, D) :
            r = Forget([swept EXCEPT !.uploading = u], D)
    BY DEF Purge
  <2> QED
    BY <2>1 DEF Unneeded
<1>3. D \in SUBSET Clients /\ D \subseteq gone
  BY <1>1, <1>2
<1> PICK u \in Without(s.uploading, D) : r = Forget([swept EXCEPT !.uploading = u], D)
  BY <1>2
<1>4. s.uploading \in Seq(Clients)
  BY DEF QueueState
<1>5. rs = [c \in Clients |-> IF c \in Purged(s) THEN 0 ELSE s.rank[c]]
  OBVIOUS
<1>6. /\ us \in [Clients -> UploadStates] /\ rs \in [Clients -> Nat]
      /\ bs \in SUBSET Range(Dest) /\ ds \in SUBSET Clients
  BY DEF QueueState, UploadStates
<1>7. \A c \in Clients : us[c] = IF c \in gone THEN "NONE" ELSE s.ustate[c]
  OBVIOUS
<1>8. gone = Purged(s)
  OBVIOUS
<1> HIDE DEF gone, loose, us, rs, bs, ds
<1>9. u \in Seq(Clients) /\ Range(u) = Range(s.uploading)
  <2>1. u \in Seq(Clients) /\ Range(u) = Range(s.uploading) \ D
    BY <1>4, WithoutType
  <2> QED
    BY <1>1, <1>3, <2>1
<1> DEFINE t == [swept EXCEPT !.uploading = u]
<1>10. /\ t \in QueueState /\ t.waiting = s.waiting /\ t.uploading = u /\ t.ustate = us /\ t.rank = rs
       /\ t.live = s.live /\ t.sock = s.sock /\ t.file = s.file /\ t.shared = s.shared
       /\ t.stale = s.stale
  BY <1>6, <1>9 DEF QueueState
<1> HIDE DEF t, swept
<1>11. r = Forget(t, D)
  BY DEF t
<1>12. /\ r.waiting = t.waiting /\ r.uploading = t.uploading /\ r.shared = t.shared /\ r.rank = t.rank
       /\ r.live = t.live \ D /\ r.stale = t.stale \ D
       /\ \A c \in Clients : /\ r.ustate[c] = IF c \in D THEN "NONE" ELSE t.ustate[c]
                             /\ r.sock[c] = IF c \in D THEN "none" ELSE t.sock[c]
                             /\ r.file[c] = IF c \in D THEN NoFile ELSE t.file[c]
  <2> HIDE DEF us, rs
  <2> QED
    <3>1. t \in QueueState /\ D \in SUBSET Clients
      BY <1>3, <1>10
    <3> DEFINE x == Forget(t, D)
    <3>2. /\ x.waiting = t.waiting /\ x.uploading = t.uploading /\ x.shared = t.shared /\ x.rank = t.rank
          /\ x.live = t.live \ D /\ x.stale = t.stale \ D
          /\ \A c \in Clients : /\ x.ustate[c] = IF c \in D THEN "NONE" ELSE t.ustate[c]
                                /\ x.sock[c] = IF c \in D THEN "none" ELSE t.sock[c]
                                /\ x.file[c] = IF c \in D THEN NoFile ELSE t.file[c]
      BY <3>1, ForgetFrees
    <3>3. r = x
      BY <1>11
    <3> HIDE DEF x
    <3> QED
      BY <3>2, <3>3
<1>13. r \in QueueState /\ (Held(s) => Held(r))
  BY PurgeShrinks DEF Shrinks
<1>14. \A c \in Clients : IF c \in gone THEN r.ustate[c] = "NONE"
                ELSE /\ r.ustate[c] = s.ustate[c] /\ r.sock[c] = s.sock[c] /\ r.file[c] = s.file[c]
                     /\ c \in r.live <=> c \in s.live
                     /\ c \in r.stale <=> c \in s.stale
  BY <1>3, <1>7, <1>10, <1>12
<1> QED
  BY <1>5, <1>8, <1>9, <1>10, <1>12, <1>13, <1>14

\* The second pass gives everybody on the list the rank that is its place.
LEMMA RankAndMarkFrees ==
    ASSUME NEW s \in QueueState, NEW w \in Seq(Clients), Len(w) <= Len(s.waiting), IsInjective(w),
           \A c \in Clients : c \notin Range(w) => s.rank[c] = 0
    PROVE  LET r == RankAndMark(s, w)
           IN  /\ r \in QueueState /\ (Held(s) => Held(r)) /\ Row(r) /\ r.waiting = w
               /\ r.uploading = s.uploading /\ r.live = s.live /\ r.sock = s.sock
               /\ r.file = s.file /\ r.ustate = s.ustate /\ r.shared = s.shared
               /\ r.stale = s.stale
<1> DEFINE rs == [c \in Clients |-> IF c \in Range(w) THEN LastPlace(w, c) ELSE s.rank[c]]
           r  == RankAndMark(s, w)
<1>1. r \in QueueState /\ (Held(s) => Held(r)) /\ r.waiting = w
  BY RankAndMarkShrinks DEF Shrinks
<1>2. \A c \in Clients : rs[c] = IF c \in Range(w) THEN LastPlace(w, c) ELSE s.rank[c]
  OBVIOUS
<1>3. \A i \in 1 .. Len(w) : w[i] \in Clients /\ w[i] \in Range(w) /\ LastPlace(w, w[i]) = i
  BY OnlyPlace DEF Range
<1>4. /\ r.rank = rs /\ r.uploading = s.uploading /\ r.live = s.live /\ r.sock = s.sock
      /\ r.file = s.file /\ r.ustate = s.ustate /\ r.shared = s.shared /\ r.stale = s.stale
  BY DEF RankAndMark, QueueState
<1> HIDE DEF rs, r
<1>5. \A i \in DOMAIN w : rs[w[i]] = i
  BY <1>2, <1>3
<1>6. Row(r)
  BY <1>1, <1>2, <1>4, <1>5 DEF Row, IsOnUploadQueue
<1> QED
  BY <1>1, <1>4, <1>6 DEF r

\* Both passes: the purged leave, the others stay what they are, and get their ranks.
LEMMA SortGetBestClientFrees ==
    ASSUME NEW s \in QueueState, Row(s), Range(s.waiting) \intersect Range(s.uploading) = {},
           NEW r \in SortGetBestClient(s)
    PROVE  /\ r \in QueueState /\ (Held(s) => Held(r)) /\ Row(r) /\ r.shared = s.shared
           /\ Range(r.uploading) = Range(s.uploading)
           /\ Range(r.waiting) = Range(s.waiting) \ Purged(s)
           /\ \A c \in Clients : IF c \in Purged(s) THEN r.ustate[c] = "NONE" ELSE Same(s, r, c)
<1> DEFINE kept == {i \in DOMAIN s.waiting : s.waiting[i] \notin Purged(s)}
<1>1. PICK x \in Purge(s) : \E p \in Orders(x, kept) :
          r = RankAndMark(x, [i \in DOMAIN p |-> s.waiting[p[i]]])
  BY DEF SortGetBestClient
<1>2. PICK p \in Listings(kept) : r = RankAndMark(x, [i \in DOMAIN p |-> s.waiting[p[i]]])
  BY <1>1 DEF Orders
<1> DEFINE w == [i \in DOMAIN p |-> s.waiting[p[i]]]
<1>3. s.waiting \in Seq(Clients) /\ IsInjective(s.waiting) /\ kept \in SUBSET DOMAIN s.waiting
  BY DEF QueueState, Row
<1>4. {s.waiting[k] : k \in kept} = Range(s.waiting) \ Purged(s)
  BY DEF Range
<1> HIDE DEF kept
<1>5. w \in Seq(Clients) /\ Len(w) <= Len(s.waiting) /\ IsInjective(w)
      /\ Range(w) = Range(s.waiting) \ Purged(s)
  BY <1>2, <1>3, <1>4, ListingType
<1>6. /\ x \in QueueState /\ (Held(s) => Held(x)) /\ x.waiting = s.waiting
      /\ x.shared = s.shared /\ Range(x.uploading) = Range(s.uploading)
      /\ x.rank = [c \in Clients |-> IF c \in Purged(s) THEN 0 ELSE s.rank[c]]
      /\ \A c \in Clients : IF c \in Purged(s) THEN x.ustate[c] = "NONE"
           ELSE /\ x.ustate[c] = s.ustate[c] /\ x.sock[c] = s.sock[c] /\ x.file[c] = s.file[c]
                /\ c \in x.live <=> c \in s.live
                /\ c \in x.stale <=> c \in s.stale
  BY <1>1, PurgeFrees
<1> HIDE DEF w
<1>7. \A c \in Clients : c \notin Range(w) => x.rank[c] = 0
  BY <1>5, <1>6 DEF Row, IsOnUploadQueue
<1>8. /\ r \in QueueState /\ (Held(x) => Held(r)) /\ Row(r) /\ r.waiting = w
      /\ r.uploading = x.uploading /\ r.live = x.live /\ r.sock = x.sock
      /\ r.file = x.file /\ r.ustate = x.ustate /\ r.shared = x.shared
      /\ r.stale = x.stale
  <2>1. r = RankAndMark(x, w)
    BY <1>2 DEF w
  <2>2. Len(w) <= Len(x.waiting)
    BY <1>5, <1>6
  <2> QED
    BY <1>5, <1>6, <1>7, <2>1, <2>2, RankAndMarkFrees
<1>9. ASSUME NEW c \in Clients
      PROVE  IF c \in Purged(s) THEN r.ustate[c] = "NONE" ELSE Same(s, r, c)
  BY <1>5, <1>6, <1>8 DEF Same, IsOnUploadQueue, IsDownloading
<1> QED
  BY <1>5, <1>6, <1>8, <1>9

\* Sorting leaves everybody all right.
LEMMA SortGetBestClientIsFine ==
    ASSUME NEW Z, NEW s \in QueueState, Fine(Z, s), NEW r \in SortGetBestClient(s)
    PROVE  /\ Fine(Z, r) /\ r \in QueueState /\ (Held(s) => Held(r)) /\ r.shared = s.shared
           /\ Range(r.uploading) = Range(s.uploading)
           /\ \A c \in Range(r.waiting) : c \in Clients /\ r.file[c] \in r.shared
<1>1. Row(s) /\ Range(s.waiting) \intersect Range(s.uploading) = {}
  BY Lengths DEF Fine, OK, IsOnUploadQueue, IsDownloading, Range
<1>2. /\ r \in QueueState /\ (Held(s) => Held(r)) /\ Row(r) /\ r.shared = s.shared
      /\ Range(r.uploading) = Range(s.uploading)
      /\ Range(r.waiting) = Range(s.waiting) \ Purged(s)
      /\ \A c \in Clients : IF c \in Purged(s) THEN r.ustate[c] = "NONE" ELSE Same(s, r, c)
  BY <1>1, SortGetBestClientFrees
<1>3. ASSUME NEW c \in Clients PROVE OK(Z, r, c)
  <2>1. CASE c \in Purged(s)
    <3>1. c \in Range(s.waiting)
      BY <2>1 DEF Purged
    <3> QED
      BY <1>1, <1>2, <2>1, <3>1 DEF OK, IsOnUploadQueue, IsDownloading
  <2>2. CASE c \notin Purged(s)
    <3>1. Same(s, r, c) /\ OK(Z, s, c)
      BY <1>2, <2>2 DEF Fine
    <3> QED
      BY <1>2, <3>1 DEF OK, Same
  <2> QED
    BY <2>1, <2>2
<1>4. ASSUME NEW c \in Range(r.waiting) PROVE c \in Clients /\ r.file[c] \in r.shared
  <2>1. c \in Clients /\ c \notin Purged(s) /\ c \in Range(s.waiting)
    BY <1>2, Lengths DEF Range
  <2> QED
    BY <1>2, <2>1 DEF Same, Purged
<1> QED
  BY <1>2, <1>3, <1>4 DEF Fine

----------------------------------------------------------------------------
(* Handing out slots                                                       *)

\* Whoever is called is told to wait for the connection, if it is left alive.
LEMMA TryToConnectFrees ==
    ASSUME NEW s \in QueueState, Held(s), Row(s), NEW c \in Clients, c \in s.live,
           ~IsOnUploadQueue(s, c), ~IsDownloading(s, c), s.ustate[c] = "CONNECTING",
           NEW r \in TryToConnect(s, c)
    PROVE  /\ Only(s, r, c) /\ ~IsOnUploadQueue(r, c) /\ ~IsDownloading(r, c)
           /\ c \in r.live => /\ r.ustate[c] = "CONNECTING" /\ r.sock[c] # "established"
                              /\ r.file[c] = s.file[c]
           /\ c \notin r.live => r.ustate[c] = "NONE"
<1> DEFINE o == [s EXCEPT !.sock[c] = "connecting"]
<1>1. r \in DisconnectOrDelete(s, c) \/ r = o
  BY DEF TryToConnect
<1>2. CASE r \in DisconnectOrDelete(s, c)
  <2>1. Only(s, r, c)
    BY <1>2, DisconnectOrDeleteFrees
  <2>2. CASE c \in r.live
    BY <1>2, <2>1, <2>2, DisconnectOrDeleteFrees
  <2>3. CASE c \notin r.live
    BY <1>2, <2>1, <2>3, DisconnectOrDeleteFrees
  <2> QED
    BY <2>2, <2>3
<1>3. CASE r = o
  <2>1. /\ o \in QueueState /\ o.uploading = s.uploading /\ o.waiting = s.waiting
        /\ o.live = s.live /\ o.file = s.file /\ o.ustate = s.ustate /\ o.rank = s.rank
        /\ o.shared = s.shared /\ o.stale = s.stale /\ o.sock[c] = "connecting"
        /\ \A d \in Clients \ {c} : o.sock[d] = s.sock[d]
    BY DEF QueueState, SocketStates
  <2> HIDE DEF o
  <2>2. Held(o) /\ Row(o)
    BY <2>1 DEF Held, Row, IsDownloading, IsOnUploadQueue
  <2>3. Only(s, o, c)
    BY <2>1, <2>2 DEF Only, Same, IsDownloading, IsOnUploadQueue
  <2> QED
    BY <1>3, <2>1, <2>3 DEF IsDownloading, IsOnUploadQueue
<1> QED
  BY <1>1, <1>2, <1>3

\* A client that is on no list gets a slot, or is deleted.
LEMMA GiveSlotIsFine ==
    ASSUME NEW Z, NEW s \in QueueState, Held(s), Row(s), NEW c \in Clients, c \in s.live,
           \A d \in Clients \ {c} : OK(Z, s, d),
           ~IsOnUploadQueue(s, c), ~IsDownloading(s, c), s.file[c] \in s.shared,
           NEW r \in GiveSlot(s, c)
    PROVE  Fine(Z, r) /\ Held(r) /\ r \in QueueState
<1> DEFINE up   == [s EXCEPT !.ustate[c] = "UPLOADING"]
           call == [s EXCEPT !.ustate[c] = "CONNECTING"]
           told == IF IsConnected(s, c) THEN {up} ELSE TryToConnect(call, c)
<1>1. \E t \in told : r = IF c \in t.live THEN [t EXCEPT !.uploading = Append(@, c)] ELSE t
  BY DEF GiveSlot
<1>2. r \in QueueState /\ Held(r)
  BY GiveSlotGrows DEF Grows
<1>3. /\ call \in QueueState /\ Spares(s, call) /\ call.waiting = s.waiting /\ call.rank = s.rank
      /\ call.uploading = s.uploading /\ call.live = s.live
      /\ call.sock = s.sock /\ call.file = s.file /\ call.shared = s.shared /\ call.stale = s.stale
      /\ call.ustate[c] = "CONNECTING"
      /\ \A d \in Clients \ {c} : call.ustate[d] = s.ustate[d]
  BY DEF QueueState, UploadStates, Spares
<1>4. /\ up \in QueueState /\ up.waiting = s.waiting /\ up.rank = s.rank
      /\ up.uploading = s.uploading /\ up.live = s.live
      /\ up.sock = s.sock /\ up.file = s.file /\ up.shared = s.shared /\ up.stale = s.stale
      /\ up.ustate[c] = "UPLOADING"
      /\ \A d \in Clients \ {c} : up.ustate[d] = s.ustate[d]
  BY DEF QueueState, UploadStates
<1> HIDE DEF up, call
<1>5. Held(call) /\ Row(call) /\ Row(up)
  BY <1>3, <1>4, SparesKeepsHeld DEF Row, IsOnUploadQueue
<1>6. Only(s, call, c)
  BY <1>3, <1>5 DEF Only, Same, IsOnUploadQueue, IsDownloading
<1>7. ASSUME NEW t \in told
      PROVE  /\ t \in QueueState /\ Row(t) /\ t.shared = s.shared
             /\ \A d \in Clients \ {c} : Same(s, t, d)
             /\ ~IsOnUploadQueue(t, c) /\ ~IsDownloading(t, c)
             /\ c \in t.live => /\ t.ustate[c] \in {"CONNECTING", "UPLOADING"}
                                /\ t.sock[c] = "established" => t.ustate[c] = "UPLOADING"
                                /\ t.file[c] = s.file[c]
             /\ c \notin t.live => t.ustate[c] = "NONE"
  <2>1. CASE t = up
    BY <1>4, <1>5, <2>1 DEF Same, IsOnUploadQueue, IsDownloading
  <2>2. CASE t \in TryToConnect(call, c)
    <3>1. ~IsOnUploadQueue(call, c) /\ ~IsDownloading(call, c) /\ c \in call.live
      BY <1>3 DEF IsOnUploadQueue, IsDownloading
    <3>2. /\ Only(call, t, c) /\ ~IsOnUploadQueue(t, c) /\ ~IsDownloading(t, c)
          /\ c \in t.live => /\ t.ustate[c] = "CONNECTING" /\ t.sock[c] # "established"
                             /\ t.file[c] = call.file[c]
          /\ c \notin t.live => t.ustate[c] = "NONE"
      BY <1>3, <1>5, <2>2, <3>1, TryToConnectFrees
    <3>3. Only(s, t, c)
      BY <1>6, <3>2, OnlyIsTransitive
    <3> QED
      BY <1>3, <1>5, <3>2, <3>3 DEF Only
  <2> QED
    BY <1>7, <2>1, <2>2
<1>8. PICK t \in told : r = IF c \in t.live THEN [t EXCEPT !.uploading = Append(@, c)] ELSE t
  BY <1>1
<1> HIDE DEF told
<1>9. CASE c \notin t.live
  <2>1. OK(Z, r, c)
    BY <1>7, <1>8, <1>9 DEF OK
  <2>2. Only(s, r, c)
    BY <1>2, <1>7, <1>8, <1>9 DEF Only
  <2> QED
    BY <1>2, <2>1, <2>2, OthersAreOK
<1>10. CASE c \in t.live
  <2> DEFINE u == Append(t.uploading, c)
  <2>1. t \in QueueState /\ t.uploading \in Seq(Clients)
    BY <1>7, Lengths
  <2>2. Range(u) = Range(t.uploading) \union {c}
    BY <2>1, AppendAdds
  <2>3. r = [t EXCEPT !.uploading = u]
    BY <1>8, <1>10, <2>1 DEF QueueState
  <2> HIDE DEF u
  <2>4. /\ r.uploading = u /\ r.waiting = t.waiting /\ r.rank = t.rank
        /\ r.live = t.live /\ r.sock = t.sock /\ r.file = t.file /\ r.ustate = t.ustate
        /\ r.shared = t.shared /\ r.stale = t.stale
    BY <2>1, <2>3 DEF QueueState
  <2>5. Row(r)
    BY <1>7, <2>4 DEF Row, IsOnUploadQueue
  <2>6. OK(Z, r, c)
    BY <1>7, <1>10, <2>2, <2>4 DEF OK, IsOnUploadQueue, IsDownloading, UploadStates
  <2>7. ASSUME NEW d \in Clients \ {c} PROVE Same(s, r, d)
    BY <1>7, <2>2, <2>4 DEF Same, IsOnUploadQueue, IsDownloading
  <2>8. Only(s, r, c)
    BY <1>2, <1>7, <2>4, <2>5, <2>7 DEF Only
  <2> QED
    BY <1>2, <2>6, <2>8, OthersAreOK
<1> QED
  BY <1>9, <1>10

----------------------------------------------------------------------------
(* Good states                                                             *)

\* What the proof carries from state to state.
Good(Z, s) == s \in QueueState /\ Held(s) /\ Fine(Z, s)

\* What does not change whom the lists hold, and what OK says of them.
Alike(s, r) ==
    /\ r \in QueueState
    /\ r.waiting = s.waiting /\ r.uploading = s.uploading /\ r.rank = s.rank
    /\ r.ustate = s.ustate /\ r.sock = s.sock /\ r.file = s.file
    /\ r.live = s.live /\ r.shared = s.shared

LEMMA AlikeIsGood ==
    ASSUME NEW Z, NEW s, NEW r, Good(Z, s), Alike(s, r)
    PROVE  Good(Z, r)
<1>1. Held(r)
  BY DEF Good, Alike, Held, IsDownloading
<1>2. Row(r)
  BY DEF Good, Alike, Fine, Row, IsOnUploadQueue
<1>3. ASSUME NEW c \in Clients PROVE OK(Z, r, c)
  <2>1. OK(Z, s, c)
    BY DEF Good, Fine
  <2> QED
    BY <2>1 DEF Alike, OK, IsDownloading, IsOnUploadQueue
<1> QED
  BY <1>1, <1>2, <1>3 DEF Good, Fine, Alike

\* A good state is left for a good one if only c changes, to what is all right.
LEMMA OnlyIsGood ==
    ASSUME NEW Z, NEW s, Good(Z, s), NEW c \in Clients, NEW r, Only(s, r, c), OK(Z, r, c)
    PROVE  Good(Z, r)
  BY OthersAreOK DEF Good, Fine, Only

\* The functions that only take away.
LEMMA RemovalsAreGood ==
    ASSUME NEW Z, NEW s, Good(Z, s), NEW c \in Clients
    PROVE  /\ Good(Z, RemoveFromUploadQueue(s, c))
           /\ Good(Z, RemoveFromWaitingQueue(s, c))
           /\ \A r \in DisconnectOrDelete(s, c) : Good(Z, r)
           /\ \A r \in DropIfNoSocket(s, c) : Good(Z, r)
           /\ \A r \in SortGetBestClient(s) : Good(Z, r)
<1>1. s \in QueueState /\ Held(s) /\ Fine(Z, s) /\ Row(s) /\ OK(Z, s, c)
  BY DEF Good, Fine
<1>2. Good(Z, RemoveFromUploadQueue(s, c))
  <2> DEFINE r == RemoveFromUploadQueue(s, c)
  <2>1. /\ Only(s, r, c) /\ r.shared = s.shared
        /\ ~IsDownloading(r, c) /\ (IsOnUploadQueue(r, c) <=> IsOnUploadQueue(s, c))
        /\ r.live = s.live /\ r.sock = s.sock /\ r.file = s.file
        /\ r.ustate[c] = IF IsDownloading(s, c) THEN "NONE" ELSE s.ustate[c]
    BY <1>1, RemoveFromUploadQueueFrees DEF Only
  <2> HIDE DEF r
  <2>2. OK(Z, r, c)
    BY <1>1, <2>1 DEF OK
  <2> QED
    BY <2>1, <2>2, OnlyIsGood DEF r
<1>3. Good(Z, RemoveFromWaitingQueue(s, c))
  <2> DEFINE r == RemoveFromWaitingQueue(s, c)
  <2>1. /\ Only(s, r, c) /\ r.shared = s.shared
        /\ ~IsOnUploadQueue(r, c) /\ (IsDownloading(r, c) <=> IsDownloading(s, c))
        /\ r.live = s.live /\ r.sock = s.sock /\ r.file = s.file
        /\ r.ustate[c] = IF IsOnUploadQueue(s, c) THEN "NONE" ELSE s.ustate[c]
    BY <1>1, RemoveFromWaitingQueueFrees DEF Only
  <2> HIDE DEF r
  <2>2. OK(Z, r, c)
    BY <1>1, <2>1 DEF OK
  <2> QED
    BY <2>1, <2>2, OnlyIsGood DEF r
<1>4. \A r \in DisconnectOrDelete(s, c) : Good(Z, r)
  BY <1>1, DisconnectOrDeleteIsFine, DisconnectOrDeleteFrees DEF Good, Only
<1>5. \A r \in DropIfNoSocket(s, c) : Good(Z, r)
  BY <1>4 DEF DropIfNoSocket
<1>6. \A r \in SortGetBestClient(s) : Good(Z, r)
  BY <1>1, SortGetBestClientIsFine DEF Good
<1> QED
  BY <1>2, <1>3, <1>4, <1>5, <1>6

\* AddUpNextClient finds clients that exist, wait, and want a shared file.
LEMMA AddUpNextClientIsGood ==
    ASSUME NEW Z, NEW s, Good(Z, s), NEW r \in AddUpNextClient(s)
    PROVE  Good(Z, r)
<1>1. PICK x \in SortGetBestClient(s) :
          r \in IF Best(x) = {} THEN {x} ELSE UNION {GiveSlot(TakeBest(x, c), c) : c \in Best(x)}
  BY DEF AddUpNextClient
<1>2. /\ x \in QueueState /\ Held(x) /\ Fine(Z, x) /\ Row(x)
      /\ \A c \in Range(x.waiting) : c \in Clients /\ x.file[c] \in x.shared
  BY SortGetBestClientIsFine DEF Good, Fine
<1>3. ASSUME NEW c \in Best(x), r \in GiveSlot(TakeBest(x, c), c)
      PROVE  Good(Z, r)
  <2>1. c \in Clients /\ IsOnUploadQueue(x, c) /\ c \in x.live /\ ~IsDownloading(x, c) /\ x.file[c] \in x.shared
    BY <1>2, TakeBestType DEF Fine, OK, IsOnUploadQueue
  <2> DEFINE w == RemoveFromWaitingQueue(x, c)
             t == TakeBest(x, c)
  <2>2. /\ Only(x, w, c) /\ ~IsOnUploadQueue(w, c) /\ ~IsDownloading(w, c) /\ c \in w.live
        /\ w.file = x.file /\ w.shared = x.shared
    BY <1>2, <2>1, RemoveFromWaitingQueueFrees DEF Only
  <2>3. Good(Z, w)
    BY <1>2, <2>1, RemovalsAreGood DEF Good
  <2> HIDE DEF w
  <2>4. Alike(w, t)
    BY <2>3 DEF TakeBest, Good, Alike, QueueState, w
  <2> HIDE DEF t
  <2>5. Good(Z, t)
    BY <2>3, <2>4, AlikeIsGood
  <2>6. c \in t.live /\ ~IsOnUploadQueue(t, c) /\ ~IsDownloading(t, c) /\ t.file[c] \in t.shared
    BY <2>1, <2>2, <2>4 DEF Alike, IsOnUploadQueue, IsDownloading
  <2> QED
    BY <1>3, <2>1, <2>5, <2>6, GiveSlotIsFine DEF t, Good, Fine
<1> QED
  BY <1>1, <1>2, <1>3 DEF Good

\* AddUpNextClient for a client on no list.
LEMMA AddDirectlyIsGood ==
    ASSUME NEW Z, NEW s, Good(Z, s), NEW c \in Clients, c \in s.live,
           ~IsOnUploadQueue(s, c), ~IsDownloading(s, c), NEW r \in AddDirectly(s, c)
    PROVE  Good(Z, r)
<1>1. s \in QueueState /\ Held(s) /\ Row(s) /\ \A d \in Clients \ {c} : OK(Z, s, d)
  BY DEF Good, Fine
<1>2. r = s \/ (s.file[c] \in s.shared /\ r \in GiveSlot(s, c))
  BY DEF AddDirectly
<1> QED
  BY <1>1, <1>2, GiveSlotIsFine DEF Good

\* A client that waits and calls in gets a slot, or its place back in time.
LEMMA AskAgainIsGood ==
    ASSUME NEW Z, NEW s, Good(Z, s), NEW c \in Clients, IsOnUploadQueue(s, c), NEW r \in AskAgain(s, c)
    PROVE  Good(Z, r)
<1> DEFINE marked == [s EXCEPT !.addNext = @ \ {c}]
           out    == RemoveFromWaitingQueue(marked, c)
<1>1. CASE r = s
  BY <1>1
<1>2. CASE \E x \in AddDirectly(out, c) : r = [x EXCEPT !.lastupslotHighID = FALSE]
  <2>1. PICK x \in AddDirectly(out, c) : r = [x EXCEPT !.lastupslotHighID = FALSE]
    BY <1>2
  <2>2. Alike(s, marked)
    BY DEF Good, Alike, QueueState
  <2>3. Good(Z, marked) /\ IsOnUploadQueue(marked, c)
    BY <2>2, AlikeIsGood DEF Alike, IsOnUploadQueue
  <2> HIDE DEF marked
  <2>4. marked \in QueueState /\ Row(marked) /\ c \in marked.live /\ ~IsDownloading(marked, c)
    BY <2>3 DEF Good, Fine, OK
  <2>5. Good(Z, out) /\ c \in out.live /\ ~IsOnUploadQueue(out, c) /\ ~IsDownloading(out, c)
    BY <2>3, <2>4, RemovalsAreGood, RemoveFromWaitingQueueFrees
  <2> HIDE DEF out
  <2>6. Good(Z, x)
    BY <2>5, AddDirectlyIsGood
  <2>7. Alike(x, r)
    BY <2>1, <2>6 DEF Good, Alike, QueueState
  <2> QED
    BY <2>6, <2>7, AlikeIsGood
<1> QED
  BY <1>1, <1>2 DEF AskAgain

\* What is known of a client that asks for a slot: it exists, it is not about to be
\* called, and, unless it is one of Z, it asks for a shared file.
Asks(Z, s, c) ==
    /\ c \in s.live
    /\ IsDownloading(s, c) => s.ustate[c] = "UPLOADING"
    /\ c \notin Z => s.file[c] \in s.shared

\* A newcomer is put on one of the lists, or purged again by the sort at once.
LEMMA EnqueueIsGood ==
    ASSUME NEW Z, NEW s, Good(Z, s), NEW c \in Clients, Asks(Z, s, c), c \notin s.stale,
           ~IsOnUploadQueue(s, c), NEW r \in Enqueue(s, c)
    PROVE  Good(Z, r)
<1> DEFINE longer == [s EXCEPT !.waiting = Append(@, c)]
<1>1. \/ r = s
      \/ s.ustate[c] # "UPLOADING" /\ \E x \in AddDirectly(s, c) : r = [x EXCEPT !.justStarted = TRUE]
      \/ s.ustate[c] # "UPLOADING"
         /\ \E x \in SortGetBestClient(longer) : r = [x EXCEPT !.ustate[c] = "ONUPLOADQUEUE"]
  BY DEF Enqueue
<1>2. CASE r = s
  BY <1>2
<1>3. CASE s.ustate[c] # "UPLOADING" /\ \E x \in AddDirectly(s, c) : r = [x EXCEPT !.justStarted = TRUE]
  <2>1. PICK x \in AddDirectly(s, c) : r = [x EXCEPT !.justStarted = TRUE]
    BY <1>3
  <2>2. Good(Z, x)
    BY <1>3, AddDirectlyIsGood DEF Asks
  <2>3. Alike(x, r)
    BY <2>1, <2>2 DEF Good, Alike, QueueState
  <2> QED
    BY <2>2, <2>3, AlikeIsGood
<1>4. CASE s.ustate[c] # "UPLOADING"
           /\ \E x \in SortGetBestClient(longer) : r = [x EXCEPT !.ustate[c] = "ONUPLOADQUEUE"]
  <2>1. PICK x \in SortGetBestClient(longer) : r = [x EXCEPT !.ustate[c] = "ONUPLOADQUEUE"]
    BY <1>4
  <2>2. /\ s \in QueueState /\ Held(s) /\ Row(s) /\ s.waiting \in Seq(Clients)
        /\ c \in s.live /\ ~IsDownloading(s, c) /\ c \notin Range(s.waiting)
    BY <1>4, Lengths DEF Good, Fine, Asks, IsOnUploadQueue
  <2> DEFINE w == Append(s.waiting, c)
             n == Len(s.waiting)
  <2>3. /\ w \in Seq(Clients) /\ Range(w) = Range(s.waiting) \union {c} /\ IsInjective(w)
    BY <2>2, AppendAdds DEF Row
  <2>4. /\ n \in Nat /\ DOMAIN s.waiting = 1 .. n /\ DOMAIN w = 1 .. n + 1
        /\ w[n + 1] = c /\ \A i \in 1 .. n : w[i] = s.waiting[i]
    BY <2>2
  <2>5. longer = [s EXCEPT !.waiting = w]
    BY <2>2 DEF QueueState
  <2> HIDE DEF w, n, longer
  <2>6. /\ longer \in QueueState /\ longer.waiting = w /\ longer.uploading = s.uploading
        /\ longer.rank = s.rank /\ longer.ustate = s.ustate /\ longer.sock = s.sock
        /\ longer.file = s.file /\ longer.live = s.live /\ longer.shared = s.shared
        /\ longer.stale = s.stale
    BY <2>2, <2>3, <2>5 DEF QueueState
  <2>7. Held(longer)
    BY <2>2, <2>6 DEF Held, IsDownloading
  <2>8. Row(longer)
    <3>1. s.rank[c] = 0
      BY <2>2 DEF Row, IsOnUploadQueue
    <3>2. \A i \in 1 .. n + 1 : s.rank[w[i]] \in {0, i}
      BY <2>2, <2>4, <3>1 DEF Row
    <3> QED
      BY <2>2, <2>3, <2>4, <2>6, <3>2 DEF Row, IsOnUploadQueue
  <2>9. ASSUME NEW d \in Clients \ {c} PROVE OK(Z, longer, d)
    <3>1. OK(Z, s, d)
      BY DEF Good, Fine
    <3> QED
      BY <2>3, <2>6, <3>1 DEF OK, IsOnUploadQueue, IsDownloading
  <2>10. Range(longer.waiting) \intersect Range(longer.uploading) = {}
    <3>1. \A d \in Clients : d \in Range(s.waiting) => d \notin Range(s.uploading)
      BY DEF Good, Fine, OK, IsOnUploadQueue, IsDownloading
    <3>2. Range(s.waiting) \subseteq Clients
      BY <2>2 DEF Range
    <3> QED
      BY <2>2, <2>3, <2>6, <3>1, <3>2 DEF IsDownloading
  <2>11. /\ x \in QueueState /\ Held(x) /\ Row(x) /\ x.shared = s.shared
         /\ Range(x.uploading) = Range(s.uploading)
         /\ Range(x.waiting) = Range(w) \ Purged(longer)
         /\ \A d \in Clients : IF d \in Purged(longer) THEN x.ustate[d] = "NONE" ELSE Same(longer, x, d)
    BY <2>6, <2>7, <2>8, <2>10, SortGetBestClientFrees
  <2>12. ASSUME NEW d \in Clients \ {c} PROVE OK(Z, x, d)
    <3>1. CASE d \in Purged(longer)
      <4>1. d \in Range(longer.waiting)
        BY <3>1 DEF Purged
      <4> QED
        BY <2>6, <2>10, <2>11, <3>1, <4>1 DEF OK, IsOnUploadQueue, IsDownloading
    <3>2. CASE d \notin Purged(longer)
      <4>1. Same(longer, x, d) /\ OK(Z, longer, d)
        BY <2>9, <2>11, <3>2
      <4> QED
        BY <2>6, <2>11, <4>1 DEF OK, Same
    <3> QED
      BY <3>1, <3>2
  <2>13. /\ r \in QueueState /\ r.waiting = x.waiting /\ r.uploading = x.uploading /\ r.rank = x.rank
         /\ r.live = x.live /\ r.sock = x.sock /\ r.file = x.file /\ r.shared = x.shared
         /\ r.stale = x.stale /\ r.ustate[c] = "ONUPLOADQUEUE"
         /\ \A d \in Clients \ {c} : r.ustate[d] = x.ustate[d]
    BY <2>1, <2>11 DEF QueueState, UploadStates
  <2>14. Held(r) /\ Row(r)
    BY <2>11, <2>13 DEF Held, Row, IsOnUploadQueue, IsDownloading
  <2>15. OK(Z, r, c)
    <3>1. ~IsDownloading(r, c)
      BY <2>2, <2>11, <2>13 DEF IsDownloading
    <3>2. CASE c \in Purged(longer)
      <4>1. ~IsOnUploadQueue(r, c)
        BY <2>11, <2>13, <3>2 DEF IsOnUploadQueue
      <4>2. c \in Z
        BY <2>6, <3>2 DEF Purged, Asks
      <4> QED
        BY <3>1, <4>1, <4>2 DEF OK
    <3>3. CASE c \notin Purged(longer)
      <4>1. IsOnUploadQueue(r, c) /\ c \in r.live
        BY <2>2, <2>3, <2>6, <2>11, <2>13, <3>3 DEF IsOnUploadQueue, Same
      <4> QED
        BY <2>13, <3>1, <4>1 DEF OK
    <3> QED
      BY <3>2, <3>3
  <2>16. ASSUME NEW d \in Clients \ {c} PROVE OK(Z, r, d)
    BY <2>12, <2>13 DEF OK, IsOnUploadQueue, IsDownloading
  <2> QED
    BY <2>13, <2>14, <2>15, <2>16 DEF Good, Fine
<1> QED
  BY <1>1, <1>2, <1>3, <1>4

\* Its own turn in AddClientToQueue.
LEMMA AnswerRequestIsGood ==
    ASSUME NEW Z, NEW s, Good(Z, s), NEW c \in Clients, Asks(Z, s, c), c \notin s.stale,
           NEW r \in AnswerRequest(s, c)
    PROVE  Good(Z, r)
  BY AskAgainIsGood, EnqueueIsGood DEF AnswerRequest

\* The twin that gives way changes nothing for c.
LEMMA YieldTwinIsGood ==
    ASSUME NEW Z, NEW s, Good(Z, s), NEW c \in Clients, Twin[c] # c, NEW r \in YieldTwin(s, c)
    PROVE  Good(Z, r) /\ Same(s, r, c) /\ r.shared = s.shared
<1> DEFINE t == Twin[c]
           x == RemoveFromWaitingQueue(s, t)
<1>1. t \in Clients /\ c \in Clients \ {t}
  BY ConstantsAssumption DEF ConstantsAssumption
<1>2. s \in QueueState /\ Held(s) /\ Row(s)
  BY DEF Good, Fine
<1>3. Good(Z, x) /\ Only(s, x, t)
  BY <1>1, <1>2, RemovalsAreGood, RemoveFromWaitingQueueFrees
<1>4. r = s \/ r \in DropIfNoSocket(x, t)
  BY DEF YieldTwin
<1> HIDE DEF t, x
<1>5. CASE r = s
  BY <1>5 DEF Same
<1>6. CASE r \in DropIfNoSocket(x, t)
  <2>1. r = x \/ r \in DisconnectOrDelete(x, t)
    BY <1>6 DEF DropIfNoSocket
  <2>2. x \in QueueState /\ Held(x) /\ Row(x)
    BY <1>3 DEF Good, Fine
  <2>3. Only(x, r, t)
    BY <1>1, <2>1, <2>2, OnlyIsReflexive, DisconnectOrDeleteFrees
  <2>4. Only(s, r, t)
    BY <1>3, <2>3, OnlyIsTransitive
  <2>5. Good(Z, r)
    BY <1>1, <1>3, <1>6, RemovalsAreGood
  <2> QED
    BY <1>1, <2>4, <2>5 DEF Only
<1> QED
  BY <1>4, <1>5, <1>6

\* A request for a slot, with or without a hash clash.
LEMMA AddClientToQueueIsGood ==
    ASSUME NEW Z, NEW s, Good(Z, s), NEW c \in Clients, Asks(Z, s, c), NEW r \in AddClientToQueue(s, c)
    PROVE  Good(Z, r)
<1> DEFINE x == [s EXCEPT !.stale = @ \ {c}]
<1>1. Alike(s, x) /\ c \notin x.stale
  BY DEF Good, Alike, QueueState
<1>2. \/ r = s
      \/ r \in AnswerRequest(x, c)
      \/ Twin[c] # c /\ \E y \in YieldTwin(x, c) : r \in AfterTwin(y, c)
  BY DEF AddClientToQueue
<1> HIDE DEF x
<1>3. Good(Z, x) /\ Asks(Z, x, c)
  BY <1>1, AlikeIsGood DEF Alike, Asks, IsDownloading
<1>4. CASE Twin[c] # c /\ \E y \in YieldTwin(x, c) : r \in AfterTwin(y, c)
  <2>1. PICK y \in YieldTwin(x, c) : r \in AfterTwin(y, c)
    BY <1>4
  <2>2. Good(Z, y) /\ Same(x, y, c) /\ y.shared = x.shared
    BY <1>3, <1>4, <2>1, YieldTwinIsGood
  <2>3. Asks(Z, y, c) /\ c \notin y.stale
    BY <1>1, <1>3, <2>2 DEF Same, Asks
  <2>4. r \in AnswerRequest(y, c) \/ r \in DropIfNoSocket(y, c)
    BY <2>1 DEF AfterTwin
  <2> QED
    BY <2>2, <2>3, <2>4, AnswerRequestIsGood, RemovalsAreGood
<1> QED
  BY <1>1, <1>2, <1>3, <1>4, AnswerRequestIsGood

----------------------------------------------------------------------------
(* Feeding the slots                                                       *)

\* The client whose time is over loses its slot before it asks for another.
LEMMA KickOutIsGood ==
    ASSUME NEW Z, NEW s, Good(Z, s), NEW c \in Range(s.uploading), c \in Clients,
           c \in Z \/ s.file[c] \in s.shared, NEW r \in KickOut(s, c)
    PROVE  Good(Z, r)
<1> DEFINE x == [s EXCEPT !.allowKicking = FALSE]
           u == RemoveFromUploadQueue(x, c)
<1>1. Alike(s, x)
  BY DEF Good, Alike, QueueState
<1>2. r \in AddClientToQueue(u, c)
  BY DEF KickOut
<1> HIDE DEF x
<1>3. Good(Z, x) /\ x \in QueueState /\ Held(x) /\ IsDownloading(x, c)
  BY <1>1, AlikeIsGood DEF Good, Alike, IsDownloading
<1>4. Good(Z, u) /\ ~IsDownloading(u, c) /\ u.live = x.live /\ u.file = x.file /\ u.shared = x.shared
  BY <1>3, RemovalsAreGood, RemoveFromUploadQueueFrees DEF Only
<1> HIDE DEF u
<1>5. Asks(Z, u, c)
  BY <1>1, <1>3, <1>4 DEF Asks, Good, Fine, OK, Held, IsDownloading, Alike
<1> QED
  BY <1>2, <1>4, <1>5, AddClientToQueueIsGood

\* What the loop of Process does for one slot.
LEMMA FeedIsGood ==
    ASSUME NEW Z, NEW s, Good(Z, s), NEW c \in Range(s.uploading), c \in Clients,
           c \in Z \/ s.file[c] \in s.shared, NEW r \in Feed(s, c)
    PROVE  Good(Z, r)
<1>1. s \in QueueState /\ OK(Z, s, c) /\ s.shared \in SUBSET Files /\ s.file \in [Clients -> Files \union {NoFile}]
  BY DEF Good, Fine, QueueState
<1>2. CASE r \in {s, RemoveFromUploadQueue(s, c)}
  BY <1>2, RemovalsAreGood
<1>3. CASE \E f \in s.shared : r = [s EXCEPT !.file[c] = f]
  <2>1. PICK f \in s.shared : r = [s EXCEPT !.file[c] = f]
    BY <1>3
  <2>2. /\ r \in QueueState /\ r.waiting = s.waiting /\ r.uploading = s.uploading /\ r.rank = s.rank
        /\ r.ustate = s.ustate /\ r.sock = s.sock /\ r.live = s.live /\ r.shared = s.shared
        /\ r.stale = s.stale /\ r.file[c] = f /\ \A d \in Clients \ {c} : r.file[d] = s.file[d]
    BY <1>1, <2>1 DEF QueueState
  <2>3. Held(r) /\ Row(r)
    BY <2>2 DEF Good, Held, Fine, Row, IsDownloading, IsOnUploadQueue
  <2>4. OK(Z, r, c)
    BY <1>1, <2>2 DEF OK, IsDownloading, IsOnUploadQueue
  <2>5. Only(s, r, c)
    BY <2>2, <2>3 DEF Only, Same, IsDownloading, IsOnUploadQueue
  <2> QED
    BY <2>4, <2>5, OnlyIsGood
<1>4. CASE "unshare" \in Env /\ \E f \in s.shared : r = RemoveFromUploadQueue([s EXCEPT !.shared = @ \ {f}], c)
  <2>1. PICK f \in s.shared : r = RemoveFromUploadQueue([s EXCEPT !.shared = @ \ {f}], c)
    BY <1>4
  <2> DEFINE x == [s EXCEPT !.shared = @ \ {f}]
  <2>2. /\ x \in QueueState /\ x.waiting = s.waiting /\ x.uploading = s.uploading /\ x.rank = s.rank
        /\ x.ustate = s.ustate /\ x.sock = s.sock /\ x.live = s.live /\ x.file = s.file
    BY <1>1 DEF QueueState
  <2>3. r = RemoveFromUploadQueue(x, c)
    BY <2>1
  <2> HIDE DEF x
  <2>4. Held(x) /\ Row(x)
    BY <2>2 DEF Good, Held, Fine, Row, IsDownloading, IsOnUploadQueue
  <2>5. ASSUME NEW d \in Clients PROVE OK(Z, x, d)
    <3>1. OK(Z, s, d)
      BY DEF Good, Fine
    <3> QED
      BY <1>4, <2>2, <3>1 DEF OK, IsDownloading, IsOnUploadQueue
  <2>6. Good(Z, x)
    BY <2>2, <2>4, <2>5 DEF Good, Fine
  <2> QED
    BY <2>3, <2>6, RemovalsAreGood
<1>5. CASE r \in DisconnectOrDelete(RemoveFromUploadQueue(s, c), c)
  BY <1>5, RemovalsAreGood
<1>6. r \in DisconnectOrDelete(RemoveFromUploadQueue(s, c), c) \/ r \in CreateNextBlockPackage(s, c)
      \/ r \in KickOut(s, c)
  BY DEF Feed, SendBlockData
<1>7. r \in CreateNextBlockPackage(s, c) =>
          \/ r \in {s, RemoveFromUploadQueue(s, c)}
          \/ \E f \in s.shared : r = [s EXCEPT !.file[c] = f]
          \/ /\ "unshare" \in Env
             /\ \E f \in s.shared : r = RemoveFromUploadQueue([s EXCEPT !.shared = @ \ {f}], c)
  BY DEF CreateNextBlockPackage
<1> QED
  BY <1>2, <1>3, <1>4, <1>5, <1>6, <1>7, KickOutIsGood

----------------------------------------------------------------------------
(* The actions                                                             *)

\* A hello gives the client its connection, and the slot that waits for it.
LEMMA ProcessHelloIsGood ==
    ASSUME NEW Z, NEW s, Good(Z, s), NEW c \in Clients, c \in s.live
    PROVE  Good(Z, ProcessHello(s, c))
<1> DEFINE x == [s EXCEPT !.sock[c] = "established", !.lowID = @ \ {c}]
           y == [x EXCEPT !.ustate[c] = "UPLOADING"]
           r == ProcessHello(s, c)
<1>1. s \in QueueState /\ Held(s) /\ Row(s) /\ OK(Z, s, c)
  BY DEF Good, Fine
<1>2. /\ x \in QueueState /\ x.waiting = s.waiting /\ x.uploading = s.uploading /\ x.rank = s.rank
      /\ x.ustate = s.ustate /\ x.live = s.live /\ x.file = s.file /\ x.shared = s.shared
      /\ x.stale = s.stale
      /\ \A d \in Clients : x.sock[d] = IF d = c THEN "established" ELSE s.sock[d]
  BY <1>1 DEF QueueState, SocketStates
<1>3. r = IF x.ustate[c] = "CONNECTING" /\ IsDownloading(x, c) THEN y ELSE x
  BY DEF ProcessHello, ConnectionEstablished
<1> HIDE DEF x
<1>4. /\ y \in QueueState /\ y.waiting = s.waiting /\ y.uploading = s.uploading /\ y.rank = s.rank
      /\ y.sock = x.sock /\ y.live = s.live /\ y.file = s.file /\ y.shared = s.shared
      /\ y.stale = s.stale
      /\ \A d \in Clients : y.ustate[d] = IF d = c THEN "UPLOADING" ELSE s.ustate[d]
  BY <1>2 DEF QueueState, UploadStates
<1> HIDE DEF y, r
<1>5. CASE x.ustate[c] = "CONNECTING" /\ IsDownloading(x, c)
  <2>1. r = y /\ IsDownloading(s, c) /\ ~IsOnUploadQueue(s, c)
    BY <1>1, <1>2, <1>3, <1>5 DEF IsDownloading, OK
  <2>2. Held(y) /\ Row(y)
    BY <1>1, <1>2, <1>4, <2>1 DEF Held, Row, IsDownloading, IsOnUploadQueue
  <2>3. OK(Z, y, c)
    BY <1>1, <1>4, <2>1 DEF OK, IsDownloading, IsOnUploadQueue
  <2>4. Only(s, y, c)
    BY <1>2, <1>4, <2>2 DEF Only, Same, IsDownloading, IsOnUploadQueue
  <2> QED
    BY <2>1, <2>3, <2>4, OnlyIsGood DEF r
<1>6. CASE ~(x.ustate[c] = "CONNECTING" /\ IsDownloading(x, c))
  <2>1. r = x /\ ~(s.ustate[c] = "CONNECTING" /\ IsDownloading(s, c))
    BY <1>2, <1>3, <1>6 DEF IsDownloading
  <2>2. Held(x) /\ Row(x)
    BY <1>1, <1>2 DEF Held, Row, IsDownloading, IsOnUploadQueue
  <2>3. OK(Z, x, c)
    BY <1>1, <1>2, <2>1 DEF OK, IsDownloading, IsOnUploadQueue
  <2>4. Only(s, x, c)
    BY <1>2, <2>2 DEF Only, Same, IsDownloading, IsOnUploadQueue
  <2> QED
    BY <2>1, <2>3, <2>4, OnlyIsGood DEF r
<1> QED
  BY <1>5, <1>6

\* A list with another behind it.
LEMMA JoinAdds ==
    ASSUME NEW S, NEW s \in Seq(S), NEW w \in Seq(S)
    PROVE  /\ Range(s \o w) = Range(s) \union Range(w)
           /\ IsInjective(s) /\ IsInjective(w) /\ Range(s) \intersect Range(w) = {}
                  => IsInjective(s \o w)
           /\ DOMAIN (s \o w) = 1 .. Len(s) + Len(w)
           /\ \A i \in 1 .. Len(s) : (s \o w)[i] = s[i]
           /\ \A i \in Len(s) + 1 .. Len(s) + Len(w) : (s \o w)[i] \in Range(w)
<1> DEFINE j == s \o w
           m == Len(s)
           n == Len(w)
<1>1. m \in Nat /\ n \in Nat /\ DOMAIN s = 1 .. m /\ DOMAIN w = 1 .. n /\ DOMAIN j = 1 .. m + n
  OBVIOUS
<1>2. /\ \A i \in 1 .. m : j[i] = s[i]
      /\ \A i \in 1 .. n : j[m + i] = w[i]
  OBVIOUS
<1> HIDE DEF j, m, n
<1>3. \A i \in m + 1 .. m + n : i - m \in 1 .. n /\ j[i] = w[i - m]
  <2>1. ASSUME NEW i \in m + 1 .. m + n PROVE i - m \in 1 .. n /\ m + (i - m) = i
    BY <1>1
  <2> QED
    BY <1>2, <2>1
<1>4. \A i \in m + 1 .. m + n : j[i] \in Range(w)
  BY <1>1, <1>3 DEF Range
<1>5. Range(j) = Range(s) \union Range(w)
  <2>1. ASSUME NEW i \in 1 .. m + n PROVE j[i] \in Range(s) \union Range(w)
    <3>1. CASE i \in 1 .. m
      BY <1>1, <1>2, <3>1 DEF Range
    <3>2. CASE i \in m + 1 .. m + n
      BY <1>4, <3>2
    <3> QED
      BY <1>1, <3>1, <3>2
  <2>2. ASSUME NEW i \in 1 .. m PROVE s[i] \in Range(j)
    BY <1>1, <1>2 DEF Range
  <2>3. ASSUME NEW i \in 1 .. n PROVE w[i] \in Range(j)
    <3>1. m + i \in DOMAIN j
      BY <1>1
    <3> QED
      BY <1>2, <3>1 DEF Range
  <2> QED
    BY <1>1, <2>1, <2>2, <2>3 DEF Range
<1>6. ASSUME IsInjective(s), IsInjective(w), Range(s) \intersect Range(w) = {}
      PROVE  IsInjective(j)
  <2>1. ASSUME NEW a \in 1 .. m + n, NEW b \in 1 .. m + n, j[a] = j[b], a < b
        PROVE  FALSE
    <3>1. CASE b <= m
      BY <1>1, <1>2, <1>6, <2>1, <3>1 DEF IsInjective
    <3>2. CASE a <= m /\ b > m
      <4>1. j[a] \in Range(s) /\ b \in m + 1 .. m + n
        BY <1>1, <1>2, <2>1, <3>2 DEF Range
      <4> QED
        BY <1>4, <1>6, <2>1, <4>1
    <3>3. CASE a > m
      <4>1. a \in m + 1 .. m + n /\ b \in m + 1 .. m + n
        BY <1>1, <2>1, <3>3
      <4>2. w[a - m] = w[b - m] /\ a - m \in 1 .. n /\ b - m \in 1 .. n
        BY <1>3, <2>1, <4>1
      <4>3. a - m = b - m
        BY <1>1, <1>6, <4>2 DEF IsInjective
      <4> QED
        BY <1>1, <2>1, <4>3
    <3> QED
      BY <1>1, <3>1, <3>2, <3>3
  <2> QED
    BY <1>1, <2>1 DEF IsInjective
<1> QED
  BY <1>1, <1>2, <1>4, <1>5, <1>6 DEF j, m, n

\* Those who lose their slots to a file that is moved wait behind all others, and are
\* told no rank yet.
LEMMA SuspendUploadIsGood ==
    ASSUME NEW Z, NEW s, Legal(s), Good(Z, s), NEW f \in Files, NEW terminate \in BOOLEAN,
           NEW r \in SuspendUpload(s, f, terminate)
    PROVE  /\ Good(Z, r) /\ r.shared = s.shared
           /\ \A c \in Range(r.uploading) : r.file[c] # f
<1> DEFINE hit   == {c \in Range(s.uploading) : s.file[c] = f}
           us    == [c \in Clients |-> IF c \notin hit THEN s.ustate[c]
                                       ELSE IF terminate THEN "NONE" ELSE "ONUPLOADQUEUE"]
           ended == {[s EXCEPT !.uploading = u, !.ustate = us] : u \in Without(s.uploading, hit)}
           back(x) == {[x EXCEPT !.suspended = @ \union {f}, !.waiting = @ \o w] :
                          w \in Without(s.uploading, Clients \ hit)}
<1>1. /\ s \in QueueState /\ Held(s) /\ Row(s) /\ s.uploading \in Seq(Clients)
      /\ s.waiting \in Seq(Clients) /\ IsInjective(s.uploading) /\ IsInjective(s.waiting)
      /\ s.suspended \in SUBSET Files
  BY DEF Good, Fine, QueueState, Held, Row
<1>2. us \in [Clients -> UploadStates]
  BY <1>1 DEF QueueState, UploadStates
<1>3. \A c \in Clients : us[c] = IF c \notin hit THEN s.ustate[c]
                                 ELSE IF terminate THEN "NONE" ELSE "ONUPLOADQUEUE"
  OBVIOUS
<1>4. SuspendUpload(s, f, terminate) = IF terminate THEN ended ELSE UNION {back(x) : x \in ended}
  BY Zenon DEF SuspendUpload
<1>5. hit \in SUBSET Clients /\ hit \subseteq Range(s.uploading)
      /\ \A c \in Clients : c \in hit <=> IsDownloading(s, c) /\ s.file[c] = f
  BY <1>1 DEF Range, IsDownloading
<1>6. r \in QueueState /\ Held(r)
  BY SuspendUploadIsLegal DEF Legal
<1> HIDE DEF us, hit
<1>7. ASSUME NEW x \in ended
      PROVE  /\ x \in QueueState /\ Range(x.uploading) = Range(s.uploading) \ hit /\ x.ustate = us
             /\ x.waiting = s.waiting /\ x.rank = s.rank /\ x.sock = s.sock
             /\ x.file = s.file /\ x.live = s.live /\ x.shared = s.shared
             /\ x.suspended = s.suspended
  <2>1. PICK u \in Without(s.uploading, hit) : x = [s EXCEPT !.uploading = u, !.ustate = us]
    OBVIOUS
  <2> HIDE DEF ended, back
  <2>2. u \in Seq(Clients) /\ Range(u) = Range(s.uploading) \ hit
    <3>1. s.uploading \in Seq(Clients)
      BY <1>1
    <3> QED
      BY <2>1, <3>1, WithoutType, Zenon
  <2> QED
    BY <1>1, <1>2, <2>1, <2>2 DEF QueueState
<1>8. CASE terminate
  <2>1. /\ Range(r.uploading) = Range(s.uploading) \ hit /\ r.ustate = us
        /\ r.waiting = s.waiting /\ r.rank = s.rank /\ r.sock = s.sock
        /\ r.file = s.file /\ r.live = s.live /\ r.shared = s.shared
    BY <1>4, <1>7, <1>8
  <2> HIDE DEF ended, back
  <2>2. Row(r)
    BY <1>1, <2>1 DEF Row, IsOnUploadQueue
  <2>3. ASSUME NEW c \in Clients PROVE OK(Z, r, c)
    <3>1. OK(Z, s, c)
      BY DEF Good, Fine
    <3> QED
      BY <1>3, <1>5, <1>8, <2>1, <3>1 DEF OK, IsOnUploadQueue, IsDownloading
  <2>4. \A c \in Range(r.uploading) : r.file[c] # f
    BY <1>1, <1>5, <2>1 DEF IsDownloading, Range
  <2> QED
    BY <1>6, <2>1, <2>2, <2>3, <2>4 DEF Good, Fine
<1>9. CASE ~terminate
  <2>1. PICK x \in ended : r \in back(x)
    <3>1. r \in UNION {back(x) : x \in ended}
      BY <1>4, <1>9
    <3> HIDE DEF back, ended
    <3> QED
      BY <3>1
  <2>2. PICK w \in Without(s.uploading, Clients \ hit) :
           r = [x EXCEPT !.suspended = @ \union {f}, !.waiting = @ \o w]
    BY <2>1
  <2>3. /\ x \in QueueState /\ Range(x.uploading) = Range(s.uploading) \ hit /\ x.ustate = us
        /\ x.waiting = s.waiting /\ x.rank = s.rank /\ x.sock = s.sock
        /\ x.file = s.file /\ x.live = s.live /\ x.shared = s.shared
        /\ x.suspended = s.suspended
    BY <1>7
  <2> HIDE DEF ended, back
  <2> DEFINE ws == s.waiting \o w
             sf == s.suspended \union {f}
  <2>4. w \in Seq(Clients) /\ IsInjective(w) /\ Range(w) = Range(s.uploading) \ (Clients \ hit)
    <3>1. s.uploading \in Seq(Clients)
      BY <1>1
    <3> DEFINE stay == Clients \ hit
    <3>2. w \in Without(s.uploading, stay)
      BY <2>2
    <3> HIDE DEF stay
    <3>3. /\ w \in Seq(Clients) /\ Range(w) = Range(s.uploading) \ stay
          /\ IsInjective(s.uploading) => IsInjective(w)
      BY <3>1, <3>2, WithoutType, Zenon
    <3> QED
      BY <1>1, <3>3 DEF stay
  <2>5. Range(s.uploading) \subseteq Clients /\ Range(s.waiting) \subseteq Clients
    BY <1>1 DEF Range
  <2>6. Range(w) = hit
    BY <1>5, <2>4, <2>5
  <2>7. Range(s.waiting) \intersect Range(w) = {}
    BY <1>5, <2>5, <2>6 DEF Good, Fine, OK, IsOnUploadQueue, IsDownloading
  <2> DEFINE m == Len(s.waiting)
             n == Len(w)
  <2>8. /\ Range(ws) = Range(s.waiting) \union hit /\ IsInjective(ws)
        /\ DOMAIN ws = 1 .. m + n /\ \A i \in 1 .. m : ws[i] = s.waiting[i]
        /\ \A i \in m + 1 .. m + n : ws[i] \in hit
    BY <1>1, <2>4, <2>6, <2>7, JoinAdds
  <2>9. ws \in Seq(Clients) /\ m \in Nat /\ n \in Nat /\ DOMAIN s.waiting = 1 .. m
    BY <1>1, <2>4
  <2>10. r = [x EXCEPT !.suspended = sf, !.waiting = ws]
    BY <2>2, <2>3 DEF QueueState
  <2> HIDE DEF ws, sf, m, n
  <2>11. /\ r.waiting = ws /\ Range(r.uploading) = Range(s.uploading) \ hit /\ r.ustate = us
         /\ r.rank = s.rank /\ r.sock = s.sock /\ r.file = s.file /\ r.live = s.live
         /\ r.shared = s.shared
    BY <2>3, <2>10 DEF QueueState
  <2>12. Row(r)
    <3>1. \A c \in hit : s.rank[c] = 0
      BY <1>1, <1>5, <2>6, <2>7 DEF Row, IsOnUploadQueue
    <3>2. \A i \in 1 .. m : s.rank[ws[i]] \in {0, i}
      BY <1>1, <2>8, <2>9 DEF Row
    <3>3. \A i \in 1 .. m + n : s.rank[ws[i]] \in {0, i}
      <4>1. \A i \in 1 .. m + n : i \in 1 .. m \/ i \in m + 1 .. m + n
        BY <2>9
      <4> QED
        BY <2>8, <3>1, <3>2, <4>1
    <3> QED
      BY <1>1, <2>8, <2>11, <3>3 DEF Row, IsOnUploadQueue
  <2>13. ASSUME NEW c \in Clients PROVE OK(Z, r, c)
    <3>1. OK(Z, s, c) /\ (IsDownloading(s, c) => c \in s.live)
      BY <1>1 DEF Good, Fine, Held, IsDownloading
    <3> QED
      BY <1>3, <1>5, <1>9, <2>8, <2>11, <3>1 DEF OK, IsOnUploadQueue, IsDownloading
  <2>14. \A c \in Range(r.uploading) : r.file[c] # f
    BY <1>1, <1>5, <2>5, <2>11 DEF IsDownloading
  <2> QED
    BY <1>6, <2>11, <2>12, <2>13, <2>14 DEF Good, Fine
<1> QED
  BY <1>8, <1>9

\* A handler leaves a good state behind if every state it may leave is good.
LEMMA HandlerIsGood ==
    ASSUME NEW Z, NEW S, Handler(S), \A r \in S : Good(Z, r)
    PROVE  Good(Z, q')
  BY DEF Handler

\* The program starts with empty lists.
LEMMA InitIsGood == ASSUME NEW Z, Init PROVE Good(Z, q)
<1>1. q \in QueueState /\ Held(q)
  BY InitInv DEF Inv, Legal
<1>2. /\ q.waiting = << >> /\ q.uploading = << >>
      /\ \A c \in Clients : q.rank[c] = 0 /\ q.ustate[c] = "NONE"
  BY DEF Init
<1>3. Range(q.waiting) = {} /\ Range(q.uploading) = {} /\ DOMAIN q.waiting = {} /\ IsInjective(q.waiting)
  BY <1>2 DEF Range, IsInjective
<1>4. Row(q)
  BY <1>2, <1>3 DEF Row
<1>5. \A c \in Clients : OK(Z, q, c)
  BY <1>2, <1>3 DEF OK, IsOnUploadQueue, IsDownloading
<1> QED
  BY <1>1, <1>4, <1>5 DEF Good, Fine

\* All who may lose their slot while their file is not shared are in Z.
Excused(Z) ==
    \A c \in Clients : IsDownloading(q, c) /\ q.file[c] \notin q.shared => c \in Z

\* Process keeps the lists in agreement.
LEMMA ProcessIsGood ==
    ASSUME NEW Z, Excused(Z), Inv, Good(Z, q), Process
    PROVE  Good(Z, q')
<1>1. q \in QueueState /\ Held(q)
  BY DEF Good
<1>2. CASE ProcessStart
  <2>1. ASSUME NEW b \in BOOLEAN, q' = [q EXCEPT !.allowKicking = b] PROVE Good(Z, q')
    <3>1. Alike(q, q')
      BY <1>1, <2>1 DEF Alike, QueueState
    <3> QED
      BY <3>1, AlikeIsGood
  <2>2. ASSUME q' \in AddUpNextClient([q EXCEPT !.allowKicking = FALSE, !.justStarted = TRUE])
        PROVE  Good(Z, q')
    <3> DEFINE s == [q EXCEPT !.allowKicking = FALSE, !.justStarted = TRUE]
    <3>1. Alike(q, s)
      BY <1>1 DEF Alike, QueueState
    <3>2. q' \in AddUpNextClient(s)
      BY <2>2
    <3> HIDE DEF s
    <3> QED
      BY <3>1, <3>2, AlikeIsGood, AddUpNextClientIsGood
  <2> QED
    BY <1>2, <2>1, <2>2 DEF ProcessStart
<1>3. CASE FeedSlot
  <2>1. q.uploading \in Seq(Clients) /\ pos \in 1 .. Len(q.uploading)
    BY <1>1, <1>3 DEF FeedSlot, QueueState, Inv
  <2>2. q.uploading[pos] \in Clients /\ q.uploading[pos] \in Range(q.uploading)
    BY <2>1 DEF Range
  <2> QED
    BY <1>3, <2>2, FeedIsGood DEF FeedSlot, Excused, IsDownloading
<1>4. CASE ProcessEnd
  <2>1. q' = q \/ q' \in SortGetBestClient(q)
    BY <1>4 DEF ProcessEnd
  <2> QED
    BY <1>1, <2>1, SortGetBestClientIsFine DEF Good
<1> QED
  BY <1>2, <1>3, <1>4 DEF Process

\* So do the peers, if none of them is banned for its requests while it is on a list.
LEMMA PeerNextIsGood ==
    ASSUME NEW Z, "ban" \notin Env, Inv, Good(Z, q), NEW c \in Clients, PeerNext(c)
    PROVE  Good(Z, q')
<1>1. q \in QueueState /\ Held(q) /\ Row(q) /\ OK(Z, q, c)
  BY DEF Good, Fine
<1>2. ASSUME NEW r, Alike(q, r) PROVE Good(Z, r)
  BY <1>2, AlikeIsGood
<1>3. CASE Hello(c)
  <2> DEFINE n == [q EXCEPT !.live = @ \union {c}]
             b == Ban(n, c)
  <2>1. /\ n \in QueueState /\ n.uploading = q.uploading /\ n.waiting = q.waiting /\ n.rank = q.rank
        /\ n.live = q.live \union {c} /\ n.ustate = q.ustate /\ n.sock = q.sock /\ n.file = q.file
        /\ n.shared = q.shared /\ n.stale = q.stale
    BY <1>1 DEF QueueState
  <2>2. Handler({ProcessHello(n, c)}) \/ (c \notin q.live /\ Handler({ProcessHello(b, c)}))
    BY <1>3 DEF Hello
  <2> HIDE DEF n
  <2>3. Good(Z, n)
    <3>1. Held(n) /\ Row(n)
      BY <1>1, <2>1 DEF Held, Row, IsDownloading, IsOnUploadQueue
    <3>2. OK(Z, n, c)
      BY <1>1, <2>1 DEF OK, Held, IsDownloading, IsOnUploadQueue
    <3>3. Only(q, n, c)
      BY <2>1, <3>1 DEF Only, Same, IsDownloading, IsOnUploadQueue
    <3> QED
      BY <3>2, <3>3, OnlyIsGood
  <2>4. ASSUME c \notin q.live PROVE Good(Z, b) /\ c \in b.live
    <3>1. ~IsDownloading(n, c) /\ ~IsOnUploadQueue(n, c) /\ c \in n.live
      BY <1>1, <2>1, <2>4 DEF OK, Held, IsDownloading, IsOnUploadQueue
    <3>2. Dest[c] \in Range(Dest)
      BY ConstantsAssumption DEF ConstantsAssumption, Range
    <3>3. /\ b \in QueueState /\ b.uploading = n.uploading /\ b.waiting = n.waiting /\ b.rank = n.rank
          /\ b.live = n.live /\ b.sock = n.sock /\ b.file = n.file /\ b.shared = n.shared
          /\ b.stale = n.stale
          /\ \A d \in Clients : b.ustate[d] = IF d = c THEN "BANNED" ELSE n.ustate[d]
      BY <2>1, <3>2 DEF Ban, QueueState, UploadStates
    <3> HIDE DEF b
    <3>4. Held(b) /\ Row(b)
      BY <2>3, <3>1, <3>3 DEF Good, Fine, Held, Row, IsDownloading, IsOnUploadQueue
    <3>5. OK(Z, b, c)
      BY <3>1, <3>3 DEF OK, IsDownloading, IsOnUploadQueue
    <3>6. Only(n, b, c)
      BY <3>3, <3>4 DEF Only, Same, IsDownloading, IsOnUploadQueue
    <3> QED
      BY <2>3, <3>1, <3>3, <3>5, <3>6, OnlyIsGood
  <2>5. c \in n.live
    BY <2>1
  <2> HIDE DEF b
  <2> QED
    BY <2>2, <2>3, <2>4, <2>5, ProcessHelloIsGood, HandlerIsGood
<1>4. CASE OnConnect(c)
  <2> DEFINE r == [q EXCEPT !.sock[c] = "linked"]
  <2>1. Handler({r})
    BY <1>4 DEF OnConnect
  <2>2. /\ r \in QueueState /\ r.uploading = q.uploading /\ r.waiting = q.waiting /\ r.rank = q.rank
        /\ r.live = q.live /\ r.ustate = q.ustate /\ r.file = q.file
        /\ r.shared = q.shared /\ r.stale = q.stale
        /\ \A d \in Clients : r.sock[d] = IF d = c THEN "linked" ELSE q.sock[d]
    BY <1>1 DEF QueueState, SocketStates
  <2>3. c \in q.live
    BY <1>4, Connected DEF OnConnect
  <2> HIDE DEF r
  <2>4. Held(r) /\ Row(r)
    BY <1>1, <2>2, <2>3 DEF Held, Row, IsDownloading, IsOnUploadQueue
  <2>5. OK(Z, r, c)
    BY <1>1, <2>2 DEF OK, IsDownloading, IsOnUploadQueue
  <2>6. Only(q, r, c)
    BY <2>2, <2>4 DEF Only, Same, IsDownloading, IsOnUploadQueue
  <2> QED
    BY <2>1, <2>5, <2>6, OnlyIsGood, HandlerIsGood
<1>5. CASE HelloAnswer(c)
  <2>1. c \in q.live
    BY <1>5, Connected DEF HelloAnswer
  <2> QED
    BY <1>5, <2>1, ProcessHelloIsGood, HandlerIsGood DEF HelloAnswer
<1>6. CASE Disconnect(c)
  BY <1>6, RemovalsAreGood, HandlerIsGood DEF Disconnect
<1>7. CASE ChangeClientID(c)
  <2> DEFINE r == [q EXCEPT !.lowID = @ \union {c}]
             t == [q EXCEPT !.lowID = @ \ {c}]
  <2>1. Alike(q, r) /\ Alike(q, t)
    BY <1>1 DEF QueueState, Alike
  <2>2. Handler({r, t})
    BY <1>7 DEF ChangeClientID
  <2> HIDE DEF r, t
  <2> QED
    BY <1>2, <2>1, <2>2, HandlerIsGood
<1>8. CASE EndTransfer(c)
  BY <1>8, RemovalsAreGood, HandlerIsGood DEF EndTransfer
<1>9. CASE ChangeDownload(c)
  <2> DEFINE r == [q EXCEPT !.downloading = IF c \in @ THEN @ \ {c} ELSE @ \union {c}]
  <2>1. Alike(q, r)
    BY <1>1 DEF QueueState, Alike
  <2>2. Handler({r})
    BY <1>9 DEF ChangeDownload
  <2> HIDE DEF r
  <2> QED
    BY <1>2, <2>1, <2>2, HandlerIsGood
<1>10. CASE Age(c)
  <2> DEFINE r == [q EXCEPT !.stale = @ \union {c}]
  <2>1. Alike(q, r)
    BY <1>1 DEF QueueState, Alike
  <2>2. Handler({r})
    BY <1>10 DEF Age
  <2> HIDE DEF r
  <2> QED
    BY <1>2, <2>1, <2>2, HandlerIsGood
<1>11. ASSUME NEW f \in Files, StartUploadReq(c, f) PROVE Good(Z, q')
  <2> DEFINE x == [q EXCEPT !.file[c] = f]
  <2>1. PICK S : Handler(S) /\ \A r \in S : r = q \/ (f \in q.shared /\ r \in AddClientToQueue(x, c))
    <3> DEFINE S == (IF IsBanned(q, c) \/ f \notin q.shared THEN {q} ELSE AddClientToQueue(x, c))
                    \union (IF "ban" \in Env /\ ~IsBanned(q, c) /\ c \notin q.downloading
                            THEN {Ban(q, c)} ELSE {})
    <3>1. Handler(S)
      BY <1>11 DEF StartUploadReq
    <3>2. \A r \in S : r = q \/ (f \in q.shared /\ r \in AddClientToQueue(x, c))
      OBVIOUS
    <3> QED
      BY <3>1, <3>2
  <2>2. CASE f \in q.shared
    <3>1. /\ x \in QueueState /\ x.uploading = q.uploading /\ x.waiting = q.waiting /\ x.rank = q.rank
          /\ x.live = q.live /\ x.ustate = q.ustate /\ x.sock = q.sock
          /\ x.shared = q.shared /\ x.stale = q.stale
          /\ \A d \in Clients : x.file[d] = IF d = c THEN f ELSE q.file[d]
      BY <1>1 DEF QueueState
    <3>2. c \in q.live /\ q.sock[c] = "established"
      BY <1>11, Connected DEF StartUploadReq
    <3> HIDE DEF x
    <3>3. Held(x) /\ Row(x)
      BY <1>1, <3>1, <3>2 DEF Held, Row, IsDownloading, IsOnUploadQueue
    <3>4. OK(Z, x, c)
      BY <1>1, <2>2, <3>1 DEF OK, IsDownloading, IsOnUploadQueue
    <3>5. Only(q, x, c)
      BY <3>1, <3>3 DEF Only, Same, IsDownloading, IsOnUploadQueue
    <3>6. Good(Z, x)
      BY <3>4, <3>5, OnlyIsGood
    <3>7. Asks(Z, x, c)
      BY <1>1, <2>2, <3>1, <3>2 DEF Asks, OK, IsDownloading
    <3> QED
      BY <2>1, <3>6, <3>7, AddClientToQueueIsGood, HandlerIsGood
  <2>3. CASE f \notin q.shared
    <3> HIDE DEF x
    <3> QED
      BY <2>1, <2>3, HandlerIsGood
  <2> QED
    BY <2>2, <2>3
<1>12. ASSUME NEW f \in Files, SetReqFile(c, f) PROVE Good(Z, q')
  <2> DEFINE r == [q EXCEPT !.file[c] = f]
  <2>1. Handler({r}) /\ c \in q.live
    BY <1>12, Connected DEF SetReqFile, IsConnected
  <2>2. /\ r \in QueueState /\ r.uploading = q.uploading /\ r.waiting = q.waiting /\ r.rank = q.rank
        /\ r.live = q.live /\ r.ustate = q.ustate /\ r.sock = q.sock
        /\ r.shared = q.shared /\ r.stale = q.stale
        /\ \A d \in Clients : r.file[d] = IF d = c THEN f ELSE q.file[d]
    BY <1>1 DEF QueueState
  <2> HIDE DEF r
  <2>3. Held(r) /\ Row(r)
    BY <1>1, <2>1, <2>2 DEF Held, Row, IsDownloading, IsOnUploadQueue
  <2>4. OK(Z, r, c)
    BY <1>1, <2>2 DEF OK, IsDownloading, IsOnUploadQueue
  <2>5. Only(q, r, c)
    BY <2>2, <2>3 DEF Only, Same, IsDownloading, IsOnUploadQueue
  <2> QED
    BY <2>1, <2>4, <2>5, OnlyIsGood, HandlerIsGood
<1> QED
  BY <1>3, <1>4, <1>5, <1>6, <1>7, <1>8, <1>9, <1>10, <1>11, <1>12 DEF PeerNext

\* The list of shared files may change, and requests for what leaves it be forgotten.
LEMMA SharingIsGood ==
    ASSUME NEW Z, NEW s, Good(Z, s), NEW r \in QueueState,
           r.uploading = s.uploading, r.waiting = s.waiting, r.rank = s.rank, r.live = s.live,
           r.ustate = s.ustate, r.sock = s.sock,
           \A c \in Clients : r.file[c] \in {NoFile, s.file[c]}
    PROVE  Good(Z, r)
<1>1. Held(r)
  BY DEF Good, Held, IsDownloading
<1>2. Row(r)
  BY DEF Good, Fine, Row, IsOnUploadQueue
<1>3. ASSUME NEW c \in Clients PROVE OK(Z, r, c)
  <2>1. OK(Z, s, c)
    BY DEF Good, Fine
  <2> QED
    BY <2>1 DEF OK, IsDownloading, IsOnUploadQueue
<1> QED
  BY <1>1, <1>2, <1>3 DEF Good, Fine

\* So do the shared files.
LEMMA FileNextIsGood ==
    ASSUME NEW Z, Inv, Good(Z, q), NEW f \in Files, FileNext(f)
    PROVE  Good(Z, q')
<1>1. q \in QueueState /\ Legal(q) /\ FALSE \in BOOLEAN /\ TRUE \in BOOLEAN
  BY DEF Good, Inv
<1>3. CASE FileComplete(f)
  BY <1>1, <1>3, SuspendUploadIsGood, HandlerIsGood DEF FileComplete
<1>4. CASE CompleteFileEnded(f)
  <2> DEFINE r == [ResumeUpload(q, f) EXCEPT !.shared = @ \union {f}]
  <2>1. Handler({r})
    BY <1>4 DEF CompleteFileEnded
  <2>2. /\ r \in QueueState /\ r.uploading = q.uploading /\ r.waiting = q.waiting
        /\ r.rank = q.rank /\ r.live = q.live /\ r.ustate = q.ustate /\ r.sock = q.sock
        /\ r.file = q.file /\ r.shared = q.shared \union {f}
    BY <1>1 DEF QueueState, ResumeUpload
  <2> HIDE DEF r
  <2>3. Good(Z, r)
    BY <2>2, SharingIsGood
  <2> QED
    BY <2>1, <2>3, HandlerIsGood
<1>5. CASE DeleteFile(f)
  <2> DEFINE S == {RemoveFile(s, f) : s \in SuspendUpload(q, f, TRUE)}
  <2>1. Handler(S)
    BY <1>5 DEF DeleteFile
  <2>2. ASSUME NEW s \in SuspendUpload(q, f, TRUE) PROVE Good(Z, RemoveFile(s, f))
    <3>1. Good(Z, s) /\ s \in QueueState
      BY <1>1, SuspendUploadIsGood DEF Good
    <3> QED
      BY <3>1, RemoveFileForgets, SharingIsGood
  <2> QED
    BY <2>1, <2>2, HandlerIsGood
<1>6. CASE ReloadShared(f)
  <2> DEFINE r == [q EXCEPT !.shared = IF f \in @ THEN @ \ {f} ELSE @ \union {f}]
  <2>1. Handler({r})
    BY <1>6 DEF ReloadShared
  <2>2. /\ r \in QueueState /\ r.uploading = q.uploading /\ r.waiting = q.waiting
        /\ r.rank = q.rank /\ r.live = q.live /\ r.ustate = q.ustate /\ r.sock = q.sock
        /\ r.file = q.file
        /\ r.shared = IF f \in q.shared THEN q.shared \ {f} ELSE q.shared \union {f}
    BY <1>1 DEF QueueState
  <2> HIDE DEF r
  <2>3. Good(Z, r)
    BY <2>2, SharingIsGood
  <2> QED
    BY <2>1, <2>3, HandlerIsGood
<1> QED
  BY <1>3, <1>4, <1>5, <1>6 DEF FileNext

\* So do time, the user and the end of the program.
LEMMA TimeIsGood ==
    ASSUME NEW Z, Good(Z, q),
           \/ \E c \in Clients : DeleteOne(c)
           \/ \E d \in Range(Dest) : BanExpires(d)
           \/ Tick \/ ResortQueue \/ Shutdown
    PROVE  Good(Z, q')
<1>1. q \in QueueState /\ Held(q) /\ Row(q)
  BY DEF Good, Fine
<1>2. ASSUME NEW c \in Clients, DeleteOne(c) PROVE Good(Z, q')
  <2> DEFINE d == Disconnected(q, c)
  <2>1. c \in q.live /\ q' = Safe_Delete(d, c)
    BY <1>2 DEF DeleteOne
  <2>2. Only(q, d, c) /\ d.live = q.live
    BY <1>1, <2>1, DisconnectedFrees
  <2>3. d \in QueueState /\ Held(d) /\ Row(d) /\ c \in d.live
    BY <1>1, <2>1, <2>2 DEF Only
  <2> HIDE DEF d
  <2>4. /\ Only(d, q', c) /\ ~IsDownloading(q', c) /\ ~IsOnUploadQueue(q', c)
        /\ q'.ustate[c] = "NONE"
    BY <2>1, <2>3, SafeDeleteFrees
  <2>5. Only(q, q', c)
    BY <2>2, <2>4, OnlyIsTransitive
  <2>6. OK(Z, q', c)
    BY <2>4 DEF OK
  <2> QED
    BY <2>5, <2>6, OnlyIsGood
<1>3. ASSUME NEW d \in Range(Dest), BanExpires(d) PROVE Good(Z, q')
  <2> DEFINE r == [q EXCEPT !.banned = @ \ {d}]
  <2>1. Handler({r})
    BY <1>3 DEF BanExpires
  <2>2. Alike(q, r)
    BY <1>1 DEF QueueState, Alike
  <2> HIDE DEF r
  <2> QED
    BY <2>1, <2>2, AlikeIsGood, HandlerIsGood
<1>4. CASE Tick
  <2>1. Alike(q, q')
    BY <1>1, <1>4 DEF Tick, QueueState, Alike
  <2> QED
    BY <2>1, AlikeIsGood
<1>5. CASE ResortQueue
  BY <1>1, <1>5, SortGetBestClientIsFine DEF ResortQueue, Handler, Good
<1>6. CASE Shutdown
  BY <1>6 DEF Shutdown
<1> QED
  BY <1>2, <1>3, <1>4, <1>5, <1>6

\* Every step keeps the lists in agreement, if nobody is banned for asking too often.
LEMMA NextIsGood ==
    ASSUME NEW Z, Excused(Z), "ban" \notin Env, Inv, Good(Z, q), [Next]_vars
    PROVE  Good(Z, q')
<1>1. CASE UNCHANGED vars
  BY <1>1 DEF vars
<1>2. CASE Process
  BY <1>2, ProcessIsGood
<1>3. CASE \E c \in Clients : PeerNext(c)
  BY <1>3, PeerNextIsGood
<1>4. CASE \E f \in Files : FileNext(f)
  BY <1>4, FileNextIsGood
<1> QED
  BY <1>1, <1>2, <1>3, <1>4, TimeIsGood DEF Next

\* If every client is in Z, nobody is promised to wait.
LEMMA AllIsGood ==
    ASSUME "ban" \notin Env, Inv, Good(Clients, q), [Next]_vars
    PROVE  Good(Clients, q')
<1>1. Excused(Clients)
  BY DEF Excused
<1> QED
  BY <1>1, NextIsGood

\* What good states promise.
LEMMA GoodListsAgree ==
    ASSUME NEW Z, Good(Z, q)
    PROVE  RankIsPlace /\ ListsAgree
<1>1. q \in QueueState /\ Row(q) /\ \A c \in Clients : OK(Z, q, c)
  BY DEF Good, Fine
<1>2. Range(q.waiting) \subseteq Clients /\ Range(q.uploading) \subseteq Clients
  BY <1>1, Lengths DEF Range
<1>3. RankIsPlace
  BY <1>1 DEF RankIsPlace, Row
<1>4. ListsAgree
  <2>1. Range(q.waiting) \intersect Range(q.uploading) = {}
    BY <1>1, <1>2 DEF OK, IsOnUploadQueue, IsDownloading
  <2>2. \A c \in Range(q.waiting) : q.ustate[c] = "ONUPLOADQUEUE"
    BY <1>1, <1>2 DEF OK, IsOnUploadQueue
  <2>3. \A c \in Range(q.uploading) : q.ustate[c] \in {"CONNECTING", "UPLOADING"}
    BY <1>1, <1>2 DEF OK, IsDownloading
  <2> QED
    BY <1>1, <2>1, <2>2, <2>3 DEF ListsAgree, Row
<1> QED
  BY <1>3, <1>4
----------------------------------------------------------------------------
(* Slots are given for shared files, with or without bans                  *)

\* Whoever has a slot in r and had none in s asked for a file that is shared in r.
Grants(s, r) == \A d \in Range(r.uploading) \ Range(s.uploading) : r.file[d] \in r.shared

\* Slots that are taken away first are given to nobody.
LEMMA GrantsAfterLosses ==
    ASSUME NEW s, NEW t, NEW r, Range(t.uploading) \subseteq Range(s.uploading), Grants(t, r)
    PROVE  Grants(s, r)
  BY DEF Grants

LEMMA ShrinksGrants ==
    ASSUME NEW s, NEW r, Shrinks(s, r)
    PROVE  Grants(s, r)
  BY DEF Shrinks, Grants

\* Taking somebody off a list takes no file away.
LEMMA RemovalsKeepFiles ==
    ASSUME NEW s \in QueueState, NEW c \in Clients
    PROVE  /\ RemoveFromUploadQueue(s, c).file = s.file
           /\ RemoveFromUploadQueue(s, c).shared = s.shared
           /\ RemoveFromWaitingQueue(s, c).file = s.file
           /\ RemoveFromWaitingQueue(s, c).shared = s.shared
           /\ Disconnected(s, c).file = s.file /\ Disconnected(s, c).shared = s.shared
<1>1. /\ RemoveFromUploadQueue(s, c).file = s.file
      /\ RemoveFromUploadQueue(s, c).shared = s.shared
      /\ RemoveFromUploadQueue(s, c) \in QueueState
  BY RemoveFromUploadQueueShrinks DEF RemoveFromUploadQueue, QueueState, Shrinks
<1>2. /\ RemoveFromWaitingQueue(s, c).file = s.file
      /\ RemoveFromWaitingQueue(s, c).shared = s.shared
  BY DEF RemoveFromWaitingQueue, QueueState
<1>3. Disconnected(s, c).file = s.file /\ Disconnected(s, c).shared = s.shared
  <2> DEFINE r == IF s.ustate[c] = "UPLOADING" THEN RemoveFromUploadQueue(s, c) ELSE s
  <2>1. r \in QueueState /\ r.file = s.file /\ r.shared = s.shared
    BY <1>1
  <2>2. Disconnected(s, c) = IF c \in s.live
                             THEN [r EXCEPT !.downloading = @ \ {c}, !.sock[c] = "none"] ELSE s
    BY DEF Disconnected
  <2> HIDE DEF r
  <2> QED
    BY <2>1, <2>2 DEF QueueState
<1> QED
  BY <1>1, <1>2, <1>3

\* Who survives a failed connection has kept its file.
LEMMA TryToConnectKeepsFiles ==
    ASSUME NEW s \in QueueState, NEW c \in Clients, NEW r \in TryToConnect(s, c), c \in r.live
    PROVE  r \in QueueState /\ r.file = s.file /\ r.shared = s.shared
           /\ Range(r.uploading) \subseteq Range(s.uploading)
<1>1. CASE r = [s EXCEPT !.sock[c] = "connecting"]
  BY <1>1 DEF QueueState, SocketStates
<1>2. CASE r \in DisconnectOrDelete(s, c)
  <2> DEFINE d == Disconnected(s, c)
  <2>1. r \in {s, d, Safe_Delete(d, c)}
    BY <1>2 DEF DisconnectOrDelete
  <2>2. d \in QueueState /\ Shrinks(s, d)
    BY DisconnectedShrinks DEF Shrinks
  <2>3. d.file = s.file /\ d.shared = s.shared
    BY RemovalsKeepFiles
  <2> HIDE DEF d
  <2>4. r = Safe_Delete(d, c) => r = d
    <3>1. c \in d.live => c \notin Safe_Delete(d, c).live
      <4> DEFINE x == RemoveFromWaitingQueue(RemoveFromUploadQueue(d, c), c)
      <4>1. x \in QueueState
        BY <2>2, RemoveFromUploadQueueShrinks, RemoveFromWaitingQueueShrinks DEF Shrinks
      <4>2. Safe_Delete(d, c) = IF c \in d.live THEN Forget(x, {c}) ELSE d
        BY DEF Safe_Delete
      <4> HIDE DEF x
      <4>3. Forget(x, {c}).live = x.live \ {c}
        BY <4>1 DEF Forget, QueueState
      <4> QED
        BY <4>2, <4>3
    <3>2. c \notin d.live => Safe_Delete(d, c) = d
      BY DEF Safe_Delete
    <3> QED
      BY <3>1, <3>2
  <2> QED
    BY <2>1, <2>2, <2>3, <2>4 DEF Shrinks
<1> QED
  BY <1>1, <1>2 DEF TryToConnect

\* A slot is given for the file the client had asked for before.
LEMMA GiveSlotGrants ==
    ASSUME NEW s \in QueueState, NEW c \in Clients, s.file[c] \in s.shared,
           NEW r \in GiveSlot(s, c)
    PROVE  r \in QueueState /\ Grants(s, r)
<1> DEFINE up   == [s EXCEPT !.ustate[c] = "UPLOADING"]
           call == [s EXCEPT !.ustate[c] = "CONNECTING"]
           told == IF IsConnected(s, c) THEN {up} ELSE TryToConnect(call, c)
<1>1. CASE r = s
  BY <1>1 DEF Grants
<1>2. CASE r # s
  <2>1. PICK t \in told : r = IF c \in t.live THEN [t EXCEPT !.uploading = Append(@, c)] ELSE t
    BY <1>2 DEF GiveSlot
  <2>2. /\ up \in QueueState /\ up.uploading = s.uploading /\ up.file = s.file /\ up.shared = s.shared
        /\ call \in QueueState /\ call.uploading = s.uploading /\ call.file = s.file
        /\ call.shared = s.shared /\ call.live = s.live
    BY DEF QueueState, UploadStates
  <2>3. t = up \/ t \in TryToConnect(call, c)
    BY <2>1
  <2> HIDE DEF up, call, told
  <2>4. /\ t \in QueueState /\ Range(t.uploading) \subseteq Range(s.uploading)
        /\ c \in t.live => t.file = s.file /\ t.shared = s.shared
    <3>1. CASE t = up
      BY <2>2, <3>1
    <3>2. CASE t \in TryToConnect(call, c)
      <4>1. Shrinks(call, t) \/ c \notin call.live
        BY <2>2, <3>2, TryToConnectShrinks
      <4>2. c \notin call.live => t = call \/ t = [call EXCEPT !.sock[c] = "connecting"]
        BY <3>2 DEF TryToConnect, DisconnectOrDelete
      <4>3. LET o == [call EXCEPT !.sock[c] = "connecting"]
            IN  o \in QueueState /\ o.uploading = call.uploading
        BY <2>2 DEF QueueState, SocketStates
      <4>4. t \in QueueState /\ Range(t.uploading) \subseteq Range(call.uploading)
        BY <2>2, <4>1, <4>2, <4>3 DEF Shrinks
      <4> QED
        BY <2>2, <3>2, <4>4, TryToConnectKeepsFiles
    <3> QED
      BY <2>3, <3>1, <3>2
  <2>5. CASE c \notin t.live
    BY <2>1, <2>4, <2>5 DEF Grants
  <2>6. CASE c \in t.live
    <3> DEFINE a == Append(t.uploading, c)
    <3>1. t.uploading \in Seq(Clients)
      BY <2>4 DEF QueueState
    <3>2. a \in Seq(Clients) /\ Range(a) = Range(t.uploading) \union {c}
      BY <3>1, AppendAdds
    <3>3. r = [t EXCEPT !.uploading = a]
      BY <2>1, <2>4, <2>6 DEF QueueState
    <3> HIDE DEF a
    <3>4. /\ r \in QueueState /\ r.uploading = a /\ r.file = t.file /\ r.shared = t.shared
      BY <2>4, <3>2, <3>3 DEF QueueState
    <3> QED
      BY <2>4, <2>6, <3>2, <3>4 DEF Grants
  <2> QED
    BY <2>5, <2>6
<1> QED
  BY <1>1, <1>2

\* The first pass leaves nobody on the list whose file is not shared.
LEMMA SortGetBestClientLeavesShared ==
    ASSUME NEW s \in QueueState, NEW r \in SortGetBestClient(s)
    PROVE  \A c \in Range(r.waiting) : c \in Clients /\ r.file[c] \in r.shared
<1> DEFINE kept == {i \in DOMAIN s.waiting : s.waiting[i] \notin Purged(s)}
<1>1. PICK x \in Purge(s) : \E p \in Orders(x, kept) :
          r = RankAndMark(x, [i \in DOMAIN p |-> s.waiting[p[i]]])
  BY DEF SortGetBestClient
<1>2. PICK p \in Listings(kept) : r = RankAndMark(x, [i \in DOMAIN p |-> s.waiting[p[i]]])
  BY <1>1 DEF Orders
<1> DEFINE w == [i \in DOMAIN p |-> s.waiting[p[i]]]
<1>3. s.waiting \in Seq(Clients) /\ kept \in SUBSET DOMAIN s.waiting
  BY DEF QueueState
<1>4. \A k \in kept : s.waiting[k] \in Range(s.waiting) /\ s.waiting[k] \notin Purged(s)
                      /\ s.waiting[k] \in Clients
  BY <1>3 DEF Range
<1> HIDE DEF kept
<1>5. w \in Seq(Clients) /\ Range(w) = {s.waiting[k] : k \in kept}
  BY <1>2, <1>3, ListingType
<1>6. /\ x \in QueueState /\ x.shared = s.shared
      /\ \A c \in Clients \ Purged(s) : x.file[c] = s.file[c]
  <2> DEFINE gone  == Purged(s)
             loose == {c \in gone : s.sock[c] = "none" /\ c \in s.live}
             swept == [s EXCEPT !.ustate = [c \in Clients |-> IF c \in gone THEN "NONE" ELSE @[c]],
                                !.rank   = [c \in Clients |-> IF c \in gone THEN 0 ELSE @[c]],
                                !.banned = @ \ {Dest[c] : c \in {d \in gone : IsBanned(s, d)}},
                                !.downloading = @ \ loose]
  <2>1. PICK D \in Unneeded(s, loose) : \E u \in Without(s.uploading, D) :
            x = Forget([swept EXCEPT !.uploading = u], D)
    BY <1>1 DEF Purge
  <2>2. D \subseteq gone
    BY <2>1 DEF Unneeded
  <2>3. PICK u \in Without(s.uploading, D) : x = Forget([swept EXCEPT !.uploading = u], D)
    BY <2>1
  <2> DEFINE t == [swept EXCEPT !.uploading = u]
  <2>4. t.file = s.file /\ t.shared = s.shared
    BY DEF QueueState
  <2>5. x = Forget(t, D)
    BY <2>3
  <2> HIDE DEF t, swept, loose
  <2>6. /\ x.shared = t.shared
        /\ x.file = [c \in Clients |-> IF c \in D THEN NoFile ELSE t.file[c]]
    BY <2>5 DEF Forget
  <2>7. x \in QueueState
    BY <1>1, PurgeShrinks DEF Shrinks
  <2> QED
    BY <2>2, <2>4, <2>6, <2>7
<1> HIDE DEF w
<1>7. r.waiting = w /\ r.file = x.file /\ r.shared = x.shared
  BY <1>2, <1>6 DEF RankAndMark, QueueState, w
<1>8. ASSUME NEW c \in Range(w) PROVE c \in Clients /\ x.file[c] \in x.shared
  <2>1. c \in Clients /\ c \in Range(s.waiting) /\ c \notin Purged(s)
    BY <1>4, <1>5
  <2> QED
    BY <1>6, <2>1 DEF Purged
<1> QED
  BY <1>7, <1>8

\* The functions that give slots give them for shared files.
LEMMA AddUpNextClientGrants ==
    ASSUME NEW s \in QueueState, NEW r \in AddUpNextClient(s)
    PROVE  Grants(s, r)
<1>1. PICK x \in SortGetBestClient(s) :
          r \in IF Best(x) = {} THEN {x} ELSE UNION {GiveSlot(TakeBest(x, c), c) : c \in Best(x)}
  BY DEF AddUpNextClient
<1>2. x \in QueueState /\ Shrinks(s, x)
  BY SortGetBestClientShrinks DEF Shrinks
<1>3. CASE r = x
  BY <1>2, <1>3, ShrinksGrants
<1>4. ASSUME NEW c \in Best(x), r \in GiveSlot(TakeBest(x, c), c) PROVE Grants(s, r)
  <2> DEFINE t == TakeBest(x, c)
             y == RemoveFromWaitingQueue(x, c)
  <2>1. c \in Clients /\ c \in Range(x.waiting) /\ t \in QueueState /\ t.uploading = x.uploading
    BY <1>2, TakeBestType
  <2>2. y \in QueueState /\ y.file = x.file /\ y.shared = x.shared
    BY <1>2, <2>1, RemovalsKeepFiles, RemoveFromWaitingQueueShrinks DEF Shrinks
  <2>3. t = [y EXCEPT !.lastupslotHighID = TRUE]
    BY DEF TakeBest
  <2> HIDE DEF t, y
  <2>4. t.file = x.file /\ t.shared = x.shared
    BY <2>2, <2>3 DEF QueueState
  <2>5. t.file[c] \in t.shared
    BY <1>1, <2>1, <2>4, SortGetBestClientLeavesShared
  <2>6. Grants(t, r)
    BY <1>4, <2>1, <2>5, GiveSlotGrants DEF t
  <2> QED
    BY <1>2, <2>1, <2>6, GrantsAfterLosses DEF Shrinks
<1> QED
  BY <1>1, <1>3, <1>4

LEMMA AddDirectlyGrants ==
    ASSUME NEW s \in QueueState, NEW c \in Clients, NEW r \in AddDirectly(s, c)
    PROVE  r \in QueueState /\ Grants(s, r)
<1>1. CASE r = s
  BY <1>1 DEF Grants
<1>2. CASE s.file[c] \in s.shared /\ r \in GiveSlot(s, c)
  BY <1>2, GiveSlotGrants
<1> QED
  BY <1>1, <1>2 DEF AddDirectly

LEMMA AnswerRequestGrants ==
    ASSUME NEW s \in QueueState, NEW c \in Clients, NEW r \in AnswerRequest(s, c)
    PROVE  Grants(s, r)
<1>1. CASE r = s
  BY <1>1 DEF Grants
<1>2. ASSUME r # s, r \in AskAgain(s, c) PROVE Grants(s, r)
  <2> DEFINE marked == [s EXCEPT !.addNext = @ \ {c}]
             out    == RemoveFromWaitingQueue(marked, c)
  <2>1. PICK x \in AddDirectly(out, c) : r = [x EXCEPT !.lastupslotHighID = FALSE]
    BY <1>2 DEF AskAgain
  <2>2. marked \in QueueState /\ marked.uploading = s.uploading
    BY DEF QueueState
  <2> HIDE DEF marked
  <2>3. out \in QueueState /\ Range(out.uploading) \subseteq Range(s.uploading)
    BY <2>2, RemoveFromWaitingQueueShrinks DEF Shrinks
  <2> HIDE DEF out
  <2>4. x \in QueueState /\ Grants(out, x)
    BY <2>1, <2>3, AddDirectlyGrants
  <2>5. r.uploading = x.uploading /\ r.file = x.file /\ r.shared = x.shared
    BY <2>1, <2>4 DEF QueueState
  <2>6. Grants(out, r)
    BY <2>4, <2>5 DEF Grants
  <2> QED
    BY <2>3, <2>6, GrantsAfterLosses
<1>3. ASSUME r # s, r \in Enqueue(s, c) PROVE Grants(s, r)
  <2> DEFINE longer == [s EXCEPT !.waiting = Append(@, c)]
  <2>1. \/ \E x \in AddDirectly(s, c) : r = [x EXCEPT !.justStarted = TRUE]
        \/ \E x \in SortGetBestClient(longer) : r = [x EXCEPT !.ustate[c] = "ONUPLOADQUEUE"]
    BY <1>3 DEF Enqueue
  <2>2. ASSUME NEW x \in AddDirectly(s, c), r = [x EXCEPT !.justStarted = TRUE] PROVE Grants(s, r)
    <3>1. x \in QueueState /\ Grants(s, x)
      BY AddDirectlyGrants
    <3>2. r.uploading = x.uploading /\ r.file = x.file /\ r.shared = x.shared
      BY <2>2, <3>1 DEF QueueState
    <3> QED
      BY <3>1, <3>2 DEF Grants
  <2>3. ASSUME NEW x \in SortGetBestClient(longer), r = [x EXCEPT !.ustate[c] = "ONUPLOADQUEUE"]
        PROVE  Grants(s, r)
    <3>1. longer \in QueueState /\ longer.uploading = s.uploading
      <4> DEFINE a == Append(s.waiting, c)
      <4>1. a \in Seq(Clients) /\ longer = [s EXCEPT !.waiting = a]
        BY AppendAdds DEF QueueState
      <4> HIDE DEF a, longer
      <4> QED
        BY <4>1 DEF QueueState
    <3> HIDE DEF longer
    <3>2. x \in QueueState /\ Range(x.uploading) \subseteq Range(s.uploading)
      BY <2>3, <3>1, SortGetBestClientShrinks DEF Shrinks
    <3>3. r.uploading = x.uploading
      BY <2>3, <3>2 DEF QueueState
    <3> QED
      BY <3>2, <3>3 DEF Grants
  <2> QED
    BY <2>1, <2>2, <2>3
<1> QED
  BY <1>1, <1>2, <1>3 DEF AnswerRequest

LEMMA AddClientToQueueGrants ==
    ASSUME NEW s \in QueueState, NEW c \in Clients, NEW r \in AddClientToQueue(s, c)
    PROVE  Grants(s, r)
<1> DEFINE x == [s EXCEPT !.stale = @ \ {c}]
<1>1. x \in QueueState /\ Range(x.uploading) \subseteq Range(s.uploading)
  BY DEF QueueState
<1>2. \/ r = s \/ r \in AnswerRequest(x, c)
      \/ \E y \in YieldTwin(x, c) : r \in AfterTwin(y, c)
  BY DEF AddClientToQueue
<1> HIDE DEF x
<1>3. CASE r = s
  BY <1>3 DEF Grants
<1>4. CASE r \in AnswerRequest(x, c)
  BY <1>1, <1>4, AnswerRequestGrants, GrantsAfterLosses
<1>5. ASSUME NEW y \in YieldTwin(x, c), r \in AfterTwin(y, c) PROVE Grants(s, r)
  <2>1. y \in QueueState /\ Range(y.uploading) \subseteq Range(x.uploading)
    BY <1>1, YieldTwinShrinks DEF Shrinks
  <2>2. Grants(y, r)
    BY <1>5, <2>1, AnswerRequestGrants, DropIfNoSocketShrinks, ShrinksGrants DEF AfterTwin
  <2>3. Range(y.uploading) \subseteq Range(s.uploading)
    BY <1>1, <2>1
  <2> QED
    BY <2>2, <2>3, GrantsAfterLosses
<1> QED
  BY <1>2, <1>3, <1>4, <1>5

\* Feeding takes slots away, or makes a client whose time is over ask for a new one.
LEMMA FeedGrants ==
    ASSUME NEW s \in QueueState, NEW c \in Clients, NEW r \in Feed(s, c)
    PROVE  Grants(s, r)
<1> DEFINE x == RemoveFromUploadQueue(s, c)
<1>1. x \in QueueState /\ Shrinks(s, x)
  BY RemoveFromUploadQueueShrinks DEF Shrinks
<1>2. CASE r = x \/ r = s
  BY <1>1, <1>2, ShrinksGrants, ShrinksIsReflexive
<1>3. CASE r \in DisconnectOrDelete(x, c)
  <2> HIDE DEF x
  <2> QED
    BY <1>1, <1>3, DisconnectOrDeleteShrinks, ShrinksGrants, GrantsAfterLosses DEF Shrinks
<1>4. CASE \E f \in s.shared : r = [s EXCEPT !.file[c] = f]
  <2>1. r.uploading = s.uploading
    BY <1>4 DEF QueueState
  <2> QED
    BY <2>1 DEF Grants
<1>5. ASSUME NEW f \in s.shared, r = RemoveFromUploadQueue([s EXCEPT !.shared = @ \ {f}], c)
      PROVE  Grants(s, r)
  <2> DEFINE y == [s EXCEPT !.shared = @ \ {f}]
  <2>1. y \in QueueState /\ y.uploading = s.uploading
    BY DEF QueueState
  <2>2. r = RemoveFromUploadQueue(y, c)
    BY <1>5
  <2> HIDE DEF y
  <2>3. Shrinks(y, r)
    BY <2>1, <2>2, RemoveFromUploadQueueShrinks
  <2> QED
    BY <2>1, <2>3 DEF Shrinks, Grants
<1>6. CASE r \in KickOut(s, c)
  <2> DEFINE y == [s EXCEPT !.allowKicking = FALSE]
             z == RemoveFromUploadQueue(y, c)
  <2>1. y \in QueueState /\ y.uploading = s.uploading
    BY DEF QueueState
  <2>2. r \in AddClientToQueue(z, c)
    BY <1>6 DEF KickOut
  <2> HIDE DEF y
  <2>3. z \in QueueState /\ Range(z.uploading) \subseteq Range(s.uploading)
    BY <2>1, RemoveFromUploadQueueShrinks DEF Shrinks
  <2> HIDE DEF z
  <2> QED
    BY <2>2, <2>3, AddClientToQueueGrants, GrantsAfterLosses
<1>7. \/ r = s \/ r = x \/ r \in DisconnectOrDelete(x, c)
      \/ \E f \in s.shared : r = [s EXCEPT !.file[c] = f]
      \/ \E f \in s.shared : r = RemoveFromUploadQueue([s EXCEPT !.shared = @ \ {f}], c)
      \/ r \in KickOut(s, c)
  BY DEF Feed, SendBlockData, CreateNextBlockPackage
<1> QED
  BY <1>2, <1>3, <1>4, <1>5, <1>6, <1>7

\* The steps of Process.
LEMMA ProcessGrants ==
    ASSUME Inv, Process
    PROVE  Grants(q, q')
<1>1. q \in QueueState
  BY DEF Inv, Legal
<1>2. CASE ProcessStart
  <2>1. ASSUME NEW b \in BOOLEAN, q' = [q EXCEPT !.allowKicking = b] PROVE Grants(q, q')
    <3>1. q'.uploading = q.uploading
      BY <1>1, <2>1 DEF QueueState
    <3> QED
      BY <3>1 DEF Grants
  <2>2. ASSUME q' \in AddUpNextClient([q EXCEPT !.allowKicking = FALSE, !.justStarted = TRUE])
        PROVE  Grants(q, q')
    <3> DEFINE s == [q EXCEPT !.allowKicking = FALSE, !.justStarted = TRUE]
    <3>1. s \in QueueState /\ Range(s.uploading) \subseteq Range(q.uploading)
      BY <1>1 DEF QueueState
    <3>2. q' \in AddUpNextClient(s)
      BY <2>2
    <3> HIDE DEF s
    <3> QED
      BY <3>1, <3>2, AddUpNextClientGrants, GrantsAfterLosses
  <2> QED
    BY <1>2, <2>1, <2>2 DEF ProcessStart
<1>3. CASE FeedSlot
  <2>1. q.uploading \in Seq(Clients) /\ pos \in 1 .. Len(q.uploading)
    BY <1>1, <1>3 DEF FeedSlot, QueueState, Inv
  <2>2. q.uploading[pos] \in Clients
    BY <2>1
  <2> QED
    BY <1>1, <1>3, <2>2, FeedGrants DEF FeedSlot
<1>4. CASE ProcessEnd
  BY <1>1, <1>4, SortGetBestClientShrinks, ShrinksIsReflexive, ShrinksGrants DEF ProcessEnd
<1> QED
  BY <1>2, <1>3, <1>4 DEF Process

\* What the peers do: only a request for a file may end with a new slot.
LEMMA PeerNextGrants ==
    ASSUME Inv, NEW c \in Clients, PeerNext(c)
    PROVE  Grants(q, q')
<1>1. q \in QueueState
  BY DEF Inv, Legal
<1>2. ASSUME NEW S, Handler(S), \A r \in S : Range(r.uploading) \subseteq Range(q.uploading)
      PROVE  Grants(q, q')
  BY <1>2 DEF Handler, Grants
<1>3. \A s \in QueueState : ProcessHello(s, c).uploading = s.uploading
  <2> TAKE s \in QueueState
  <2> DEFINE x == [s EXCEPT !.sock[c] = "established", !.lowID = @ \ {c}]
  <2>1. x \in QueueState /\ x.uploading = s.uploading
    BY DEF QueueState, SocketStates
  <2>2. ProcessHello(s, c) = ConnectionEstablished(x, c)
    BY DEF ProcessHello
  <2> HIDE DEF x
  <2> QED
    BY <2>1, <2>2 DEF ConnectionEstablished, QueueState
<1>4. CASE Hello(c)
  <2> DEFINE newly == [q EXCEPT !.live = @ \union {c}]
             h == IF c \notin q.live /\ Twin[c] # c /\ Twin[c] \in q.live /\ Twin[c] \in Identified
                  THEN Ban(newly, c) ELSE newly
  <2>1. newly \in QueueState /\ newly.uploading = q.uploading
    BY <1>1 DEF QueueState
  <2>2. Handler({ProcessHello(h, c)})
    BY <1>4 DEF Hello
  <2> HIDE DEF newly
  <2>3. Ban(newly, c) \in QueueState /\ Ban(newly, c).uploading = q.uploading
    <3>1. Dest[c] \in Range(Dest)
      BY ConstantsAssumption DEF ConstantsAssumption, Range
    <3> QED
      BY <2>1, <3>1 DEF Ban, QueueState, UploadStates
  <2>4. h \in QueueState /\ h.uploading = q.uploading
    BY <2>1, <2>3
  <2> HIDE DEF h
  <2> QED
    BY <1>2, <1>3, <2>2, <2>4
<1>5. CASE OnConnect(c)
  <2>1. [q EXCEPT !.sock[c] = "linked"].uploading = q.uploading
    BY <1>1 DEF QueueState
  <2> QED
    BY <1>2, <1>5, <2>1 DEF OnConnect
<1>6. CASE HelloAnswer(c)
  BY <1>1, <1>2, <1>3, <1>6 DEF HelloAnswer
<1>7. CASE Disconnect(c)
  BY <1>1, <1>2, <1>7, DisconnectOrDeleteShrinks DEF Disconnect, Shrinks
<1>8. CASE ChangeClientID(c)
  <2>1. /\ [q EXCEPT !.lowID = @ \union {c}].uploading = q.uploading
        /\ [q EXCEPT !.lowID = @ \ {c}].uploading = q.uploading
    BY <1>1 DEF QueueState
  <2> QED
    BY <1>2, <1>8, <2>1 DEF ChangeClientID
<1>9. CASE EndTransfer(c)
  BY <1>1, <1>2, <1>9, RemoveFromUploadQueueShrinks DEF EndTransfer, Shrinks
<1>10. CASE ChangeDownload(c)
  <2> DEFINE r == [q EXCEPT !.downloading = IF c \in @ THEN @ \ {c} ELSE @ \union {c}]
  <2>1. r.uploading = q.uploading
    BY <1>1 DEF QueueState
  <2>2. Handler({r})
    BY <1>10 DEF ChangeDownload
  <2> HIDE DEF r
  <2> QED
    BY <1>2, <2>1, <2>2
<1>11. CASE Age(c)
  <2>1. [q EXCEPT !.stale = @ \union {c}].uploading = q.uploading
    BY <1>1 DEF QueueState
  <2> QED
    BY <1>2, <1>11, <2>1 DEF Age
<1>12. ASSUME NEW f \in Files, StartUploadReq(c, f) PROVE Grants(q, q')
  <2> DEFINE x == [q EXCEPT !.file[c] = f]
  <2>1. q' = q \/ q' = Ban(q, c) \/ q' \in AddClientToQueue(x, c)
    BY <1>12 DEF StartUploadReq, Handler
  <2>2. x \in QueueState /\ x.uploading = q.uploading /\ Ban(q, c).uploading = q.uploading
    BY <1>1 DEF QueueState, Ban
  <2> HIDE DEF x
  <2>3. CASE q' = q \/ q' = Ban(q, c)
    BY <2>2, <2>3 DEF Grants
  <2>4. CASE q' \in AddClientToQueue(x, c)
    BY <2>2, <2>4, AddClientToQueueGrants DEF Grants
  <2> QED
    BY <2>1, <2>3, <2>4
<1>13. ASSUME NEW f \in Files, SetReqFile(c, f) PROVE Grants(q, q')
  <2>1. [q EXCEPT !.file[c] = f].uploading = q.uploading
    BY <1>1 DEF QueueState
  <2> QED
    BY <1>2, <1>13, <2>1 DEF SetReqFile
<1> QED
  BY <1>4, <1>5, <1>6, <1>7, <1>8, <1>9, <1>10, <1>11, <1>12, <1>13 DEF PeerNext

\* Everything else gives no slot.
LEMMA OthersGrant ==
    ASSUME Inv,
           \/ \E f \in Files : FileNext(f)
           \/ \E c \in Clients : DeleteOne(c)
           \/ \E d \in Range(Dest) : BanExpires(d)
           \/ Tick \/ ResortQueue \/ Shutdown \/ UNCHANGED vars
    PROVE  Grants(q, q')
<1>1. q \in QueueState /\ q.uploading \in Seq(Clients)
  BY DEF Inv, Legal, QueueState
<1> SUFFICES Range(q'.uploading) \subseteq Range(q.uploading)
  BY DEF Grants
<1>2. ASSUME NEW f \in Files, NEW terminate \in BOOLEAN, NEW r \in SuspendUpload(q, f, terminate)
      PROVE  Range(r.uploading) \subseteq Range(q.uploading) /\ r \in QueueState
  <2> DEFINE hit == {c \in Range(q.uploading) : q.file[c] = f}
             us  == [c \in Clients |-> IF c \notin hit THEN q.ustate[c]
                                       ELSE IF terminate THEN "NONE" ELSE "ONUPLOADQUEUE"]
             ended == {[q EXCEPT !.uploading = u, !.ustate = us] : u \in Without(q.uploading, hit)}
             back(x) == {[x EXCEPT !.suspended = @ \union {f}, !.waiting = @ \o w] :
                            w \in Without(q.uploading, Clients \ hit)}
  <2>1. SuspendUpload(q, f, terminate) = IF terminate THEN ended ELSE UNION {back(x) : x \in ended}
    BY Zenon DEF SuspendUpload
  <2>2. r \in QueueState
    BY SuspendUploadIsLegal DEF Inv, Legal
  <2> HIDE DEF hit, us
  <2>3. ASSUME NEW x \in ended
        PROVE  /\ Range(x.uploading) \subseteq Range(q.uploading)
               /\ \A y \in back(x) : y.uploading = x.uploading
    <3>1. PICK u \in Without(q.uploading, hit) : x = [q EXCEPT !.uploading = u, !.ustate = us]
      OBVIOUS
    <3>2. \A y \in back(x) : y.uploading = x.uploading
      BY <1>1, <3>1 DEF QueueState
    <3> HIDE DEF ended, back
    <3>3. Range(u) = Range(q.uploading) \ hit
      BY <1>1, <3>1, WithoutType, Zenon
    <3>4. x.uploading = u
      BY <1>1, <3>1 DEF QueueState
    <3> QED
      BY <3>2, <3>3, <3>4
  <2> HIDE DEF ended, back
  <2>4. CASE terminate
    BY <2>1, <2>2, <2>3, <2>4
  <2>5. CASE ~terminate
    <3>1. PICK x \in ended : r \in back(x)
      BY <2>1, <2>5
    <3> QED
      BY <2>2, <2>3, <3>1
  <2> QED
    BY <2>4, <2>5
<1>3. ASSUME NEW f \in Files, FileNext(f) PROVE Range(q'.uploading) \subseteq Range(q.uploading)
  <2>1. CASE FileComplete(f)
    BY <1>2, <2>1 DEF FileComplete, Handler
  <2>2. CASE CompleteFileEnded(f)
    BY <1>1, <2>2 DEF CompleteFileEnded, Handler, ResumeUpload, QueueState
  <2>3. CASE DeleteFile(f)
    <3>1. PICK s \in SuspendUpload(q, f, TRUE) : q' = RemoveFile(s, f)
      BY <2>3 DEF DeleteFile, Handler
    <3>2. Range(s.uploading) \subseteq Range(q.uploading) /\ s \in QueueState
      BY <1>2
    <3> QED
      BY <3>1, <3>2, RemoveFileForgets
  <2>4. CASE ReloadShared(f)
    BY <1>1, <2>4 DEF ReloadShared, Handler, QueueState
  <2> QED
    BY <2>1, <2>2, <2>3, <2>4, <1>3 DEF FileNext
<1>4. ASSUME NEW c \in Clients, DeleteOne(c) PROVE Range(q'.uploading) \subseteq Range(q.uploading)
  <2>1. Shrinks(q, Disconnected(q, c))
    BY <1>1, DisconnectedShrinks
  <2>2. Shrinks(Disconnected(q, c), q')
    BY <1>4, <2>1, SafeDeleteShrinks DEF DeleteOne, Shrinks
  <2> QED
    BY <2>1, <2>2 DEF Shrinks
<1>5. ASSUME NEW d \in Range(Dest), BanExpires(d) PROVE Range(q'.uploading) \subseteq Range(q.uploading)
  BY <1>1, <1>5 DEF BanExpires, Handler, QueueState
<1>6. CASE Tick
  BY <1>1, <1>6 DEF Tick, QueueState
<1>7. CASE ResortQueue
  BY <1>1, <1>7, SortGetBestClientShrinks DEF ResortQueue, Handler, Shrinks
<1>8. CASE Shutdown \/ UNCHANGED vars
  BY <1>8 DEF Shutdown, vars
<1> QED
  BY <1>3, <1>4, <1>5, <1>6, <1>7, <1>8

----------------------------------------------------------------------------

\* The rank of a waiting client is the place it has on the list, or 0 until a sort
\* has run after its file was suspended, and a client that does not wait has none,
\* in spite of the two ways ranks are kept: all told anew by SortGetBestClient, or
\* counted from the gap on by RemoveFromWaitingQueue (UploadQueue.cpp:643-663).
THEOREM RanksArePlaces == "ban" \notin Env => (Spec => []RankIsPlace)
<1> SUFFICES ASSUME "ban" \notin Env PROVE Spec => []RankIsPlace
  OBVIOUS
<1>1. Init => Inv /\ Good(Clients, q)
  BY InitInv, InitIsGood
<1>2. Inv /\ Good(Clients, q) /\ [Next]_vars => (Inv /\ Good(Clients, q))'
  BY NextKeepsInv, AllIsGood
<1>3. Good(Clients, q) => RankIsPlace
  BY GoodListsAgree
<1> QED
  BY <1>1, <1>2, <1>3, PTL DEF Spec

\* Nobody stands on the waiting list twice or has a place and a slot, whoever waits is
\* US_ONUPLOADQUEUE, and whoever has a slot CONNECTING or UPLOADING: what the removals
\* take for granted, which take off one entry and reset the state for all.  Peers may
\* change the file they ask about at any time, also to one that is not shared, and files
\* may leave the shared list.  That a client in state US_ONUPLOADQUEUE waits is not
\* promised: the sort in AddClientToQueue may purge the client that was just put on the
\* list, which is told to wait all the same (UploadQueue.cpp:513).
THEOREM ListsStayInAgreement == "ban" \notin Env => (Spec => []ListsAgree)
<1> SUFFICES ASSUME "ban" \notin Env PROVE Spec => []ListsAgree
  OBVIOUS
<1>1. Init => Inv /\ Good(Clients, q)
  BY InitInv, InitIsGood
<1>2. Inv /\ Good(Clients, q) /\ [Next]_vars => (Inv /\ Good(Clients, q))'
  BY NextKeepsInv, AllIsGood
<1>3. Good(Clients, q) => ListsAgree
  BY GoodListsAgree
<1> QED
  BY <1>1, <1>2, <1>3, PTL DEF Spec

\* A client is told to wait without being on the list in one case only: it had a slot,
\* and the file it asked about last is not shared when its time is over.  All others in
\* state US_ONUPLOADQUEUE are on the list, however files and requests change, so
\* that Process and AddClientToQueue will find them.
THEOREM OnlyLostSlotsAreStray == "ban" \notin Env => (Spec => StraysLostTheirSlot)
<1> SUFFICES ASSUME "ban" \notin Env PROVE Spec => StraysLostTheirSlot
  OBVIOUS
<1>1. Init => Inv /\ Good(Clients, q)
  BY InitInv, InitIsGood
<1>2. Inv /\ Good(Clients, q) /\ [Next]_vars => (Inv /\ Good(Clients, q))'
  BY NextKeepsInv, AllIsGood
<1>3. Inv /\ Good(Clients, q) /\ [Next]_vars =>
          [\A c \in Clients : ~Stray(c) /\ Stray(c)' =>
               IsDownloading(q, c) /\ q.file[c] \notin q.shared]_vars
  <2> SUFFICES ASSUME Inv, Good(Clients, q), [Next]_vars, NEW c \in Clients, ~Stray(c), Stray(c)'
               PROVE  IsDownloading(q, c) /\ q.file[c] \notin q.shared
    OBVIOUS
  <2> DEFINE Z == {d \in Clients : Stray(d) \/ (IsDownloading(q, d) /\ q.file[d] \notin q.shared)}
  <2>1. Excused(Z)
    BY DEF Excused
  <2>2. Good(Z, q)
    BY DEF Good, Fine, OK, Stray
  <2>3. c \in Z => IsDownloading(q, c) /\ q.file[c] \notin q.shared
    OBVIOUS
  <2> HIDE DEF Z
  <2>4. Good(Z, q')
    BY <2>1, <2>2, NextIsGood
  <2>5. c \in Z
    BY <2>4 DEF Good, Fine, OK, Stray
  <2> QED
    BY <2>3, <2>5
<1> QED
  BY <1>1, <1>2, <1>3, PTL DEF Spec, StraysLostTheirSlot

\* A slot is given only to a client whose file is shared at that moment, with files
\* entering and leaving the shared list, bans, kicks and requests for other files in
\* any order: Process relies on the sort just before, the other paths check.
THEOREM SlotsAreForSharedFiles == Spec => GrantsAreShared
<1>1. Inv /\ [Next]_vars =>
          [\A c \in Range(q'.uploading) \ Range(q.uploading) : q'.file[c] \in q'.shared]_vars
  <2> SUFFICES ASSUME Inv, [Next]_vars PROVE Grants(q, q')
    BY DEF Grants
  <2> QED
    BY ProcessGrants, PeerNextGrants, OthersGrant DEF Next
<1> QED
  BY <1>1, InitInv, NextKeepsInv, PTL DEF Spec, GrantsAreShared
===========================================================================
