---- MODULE GapListProofs ----
\* For a file of any size, the gaps of its list stay apart, the list stays the
\* set of the missing bytes, and both caches stay true.
EXTENDS GapList, TLAPS, WellFoundedInduction, FiniteSetTheorems

----
\* A set of numbers of bytes has a least element: the intervals that end at its
\* elements are ordered by inclusion, which is well founded on finite sets.
LEMMA Least ==
    ASSUME NEW N \in Nat, NEW S \in SUBSET (0 .. N), S # {}
    PROVE  \E x \in S : \A y \in S : x <= y
<1> DEFINE Whole == 0 .. N
           R == StrictSubsetOrdering(Whole)
           T == {0 .. e : e \in S}
<1>1. IsFiniteSet(Whole)
  BY FS_Interval
<1>2. IsWellFoundedOn(R, SUBSET Whole)
  <2>1. IsWellFoundedOn(R, FiniteSubsetsOf(Whole))
    BY FS_StrictSubsetOrderingWellFounded
  <2>2. FiniteSubsetsOf(Whole) = SUBSET Whole
    <3> HIDE DEF Whole
    <3> QED BY <1>1, FS_FiniteSubsetsOfFinite
  <2> QED BY <2>1, <2>2
<1>3. T \subseteq SUBSET Whole /\ T # {}
  <2>1. \A e \in S : (0 .. e) \subseteq (0 .. N)
    OBVIOUS
  <2> QED BY <2>1, Zenon
<1>4. \E X \in T : \A Y \in T : <<Y, X>> \notin R
  <2> HIDE DEF R, T, Whole
  <2> QED BY <1>2, <1>3, WFMin
<1>5. PICK x \in S : \A y \in S : <<0 .. y, 0 .. x>> \notin R
  BY <1>4
<1>6. ASSUME NEW y \in S, y < x
      PROVE  FALSE
  <2>1. (0 .. y) \subseteq (0 .. x) /\ (0 .. y) # (0 .. x) /\ (0 .. x) \subseteq Whole
    BY <1>6
  <2>2. <<0 .. y, 0 .. x>> \in R
    BY <2>1 DEF StrictSubsetOrdering
  <2> QED BY <2>2, <1>5
<1>7. \A y \in S : x <= y
  BY <1>6
<1> QED BY <1>7

----
\* What the loops of AddGap and FillGap rely on at each turn: the iterator is at
\* a gap or at the end, and the gaps before it are behind them for good.
Bounded ==
    /\ DOMAIN gaplist \subseteq Bytes
    /\ \A e \in DOMAIN gaplist : gaplist[e] \in Bytes

CallOK ==
    /\ call \in [op : {"idle", "add", "fill"}, from : Bytes, to : Bytes,
                 it : Bytes \cup {End}, part : {AnyPart} \cup Parts]
    /\ call.from <= call.to
    /\ call.op # "idle" /\ call.it # End => call.it \in DOMAIN gaplist

Passed ==
    /\ call.op = "add"  => \A e \in DOMAIN gaplist : e < call.it => e + 1 < call.from
    /\ call.op = "fill" => \A e \in DOMAIN gaplist : e < call.it => e < call.from

IInv == Bounded /\ GapsApart /\ CallOK /\ Passed

LEMMA BytesAreInt == Bytes \subseteq Int /\ End \in Nat /\ 0 \in Bytes /\ FileSize - 1 \in Bytes
BY SizeAssumption DEF Bytes, End

\* The iterator lower_bound returns has no gap before it that ends at the key
\* or later.
LEMMA LowerBoundIsFirst ==
    ASSUME Bounded, NEW key \in Int
    PROVE  /\ LowerBound(key) \in Bytes \cup {End}
           /\ LowerBound(key) # End => LowerBound(key) \in DOMAIN gaplist /\ LowerBound(key) >= key
           /\ \A e \in DOMAIN gaplist : e < LowerBound(key) => e < key
<1> DEFINE following == {e \in DOMAIN gaplist : e >= key}
<1>1. CASE following = {}
  <2>1. LowerBound(key) = End
    BY <1>1 DEF LowerBound
  <2>2. \A e \in DOMAIN gaplist : e < key
    BY <1>1, SizeAssumption DEF Bounded, Bytes
  <2> QED BY <2>1, <2>2
<1>2. CASE following # {}
  <2>1. following \in SUBSET (0 .. FileSize)
    BY SizeAssumption DEF Bounded, Bytes
  <2>2. \E e \in following : \A f \in following : e <= f
    <3> HIDE DEF following
    <3> QED BY <2>1, <1>2, Least, SizeAssumption
  <2>3. /\ LowerBound(key) \in following
        /\ \A f \in following : LowerBound(key) <= f
    <3>1. LowerBound(key) = CHOOSE e \in following : \A f \in following : e <= f
      BY <1>2 DEF LowerBound
    <3> HIDE DEF following
    <3> QED BY <3>1, <2>2
  <2>4. LowerBound(key) \in Bytes
    BY <2>3 DEF Bounded
  <2> QED BY <2>3, <2>4, SizeAssumption DEF Bounded, Bytes, End
<1> QED BY <1>1, <1>2

\* The gap behind the current one.
LEMMA FollowingIsNext ==
    ASSUME Bounded, CallOK, call.it # End
    PROVE  /\ Following \in Bytes \cup {End}
           /\ Following # End => Following \in DOMAIN gaplist \ {Current}
           /\ \A e \in DOMAIN gaplist : e < Following => e <= Current
<1>1. call.it + 1 \in Int
  BY SizeAssumption DEF CallOK, Bytes, End
<1>2. \A e \in DOMAIN gaplist : e \in Int /\ call.it \in Int
  BY SizeAssumption DEF Bounded, CallOK, Bytes, End
<1> QED BY <1>1, <1>2, LowerBoundIsFirst DEF Following, Current

\* Where bytes are missing, byte by byte.
LEMMA CoveredBytes ==
    ASSUME Bounded
    PROVE  \A b : b \in Covered(gaplist) <=>
                    /\ b \in Bytes
                    /\ \E e \in DOMAIN gaplist : gaplist[e] <= b /\ b <= e
<1>1. \A e \in DOMAIN gaplist : e \in Bytes /\ gaplist[e] \in Bytes
  BY DEF Bounded
<1>2. \A s, e \in Bytes : \A b : b \in s .. e <=> b \in Bytes /\ s <= b /\ b <= e
  BY SizeAssumption DEF Bytes
<1> QED BY <1>1, <1>2 DEF Covered

MissingByte(b) ==
    /\ b \in Bytes
    /\ CASE call.op = "add"  -> \/ \E e \in DOMAIN gaplist : gaplist[e] <= b /\ b <= e
                                \/ call.from <= b /\ b <= call.to
         [] call.op = "fill" -> /\ \E e \in DOMAIN gaplist : gaplist[e] <= b /\ b <= e
                                /\ ~ (call.from <= b /\ b <= call.to)
         [] OTHER            -> \E e \in DOMAIN gaplist : gaplist[e] <= b /\ b <= e

LEMMA MissingBytewise ==
    ASSUME Bounded, CallOK
    PROVE  \A b : b \in Missing <=> MissingByte(b)
<1>1. call.op \in {"idle", "add", "fill"} /\ call.from \in Bytes /\ call.to \in Bytes
  BY DEF CallOK
<1>2. \A b : b \in call.from .. call.to <=> b \in Bytes /\ call.from <= b /\ b <= call.to
  BY <1>1, SizeAssumption DEF Bytes
<1>3. CASE call.op = "add"
  BY <1>2, <1>3, CoveredBytes DEF Missing, MissingByte
<1>4. CASE call.op = "fill"
  BY <1>2, <1>4, CoveredBytes DEF Missing, MissingByte
<1>5. CASE call.op = "idle"
  BY <1>5, CoveredBytes DEF Missing, MissingByte
<1> QED BY <1>1, <1>3, <1>4, <1>5

\* A turn that erases the gap it is at and moves on.
LEMMA Erasure ==
    ASSUME IInv, call.it # End, call.op # "idle",
           gaplist' = Erase(gaplist, Current), call'.it = Following
    PROVE  /\ DOMAIN gaplist' = DOMAIN gaplist \ {Current}
           /\ \A e \in DOMAIN gaplist' : gaplist'[e] = gaplist[e]
           /\ Current \in DOMAIN gaplist
           /\ Bounded' /\ GapsApart'
           /\ call'.it \in Bytes \cup {End}
           /\ call'.it # End => call'.it \in DOMAIN gaplist'
           /\ \A e \in DOMAIN gaplist' : e < call'.it => e < Current
<1>1. /\ DOMAIN gaplist' = DOMAIN gaplist \ {Current}
      /\ \A e \in DOMAIN gaplist' : gaplist'[e] = gaplist[e]
      /\ Current \in DOMAIN gaplist
  BY DEF Erase, IInv, CallOK, Current
<1>2. Bounded' /\ GapsApart'
  BY <1>1 DEF IInv, Bounded, GapsApart
<1>3. \A e \in DOMAIN gaplist' : e < Following => e < Current
  BY <1>1, FollowingIsNext, SizeAssumption DEF IInv, Bounded, Bytes, CallOK, Current
<1> QED BY <1>1, <1>2, <1>3, FollowingIsNext DEF IInv

LEMMA SwallowKeeps ==
    ASSUME IInv, Swallow
    PROVE  IInv' /\ \A b \in Bytes : MissingByte(b)' <=> MissingByte(b)
<1> USE SizeAssumption
<1>1. /\ call.op = "add" /\ call.it # End
      /\ CurStart >= call.from /\ Current <= call.to
      /\ gaplist' = Erase(gaplist, Current)
      /\ call' = [call EXCEPT !.it = Following]
  BY DEF Swallow, Adding
<1>2. /\ call'.op = "add" /\ call'.from = call.from /\ call'.to = call.to
      /\ call'.it = Following
  BY <1>1 DEF IInv, CallOK
<1>3. CallOK'
  BY <1>1, <1>2, Erasure DEF IInv, CallOK
<1>4. Passed'
  BY <1>1, <1>2, Erasure DEF IInv, Passed, Current
<1>5. ASSUME NEW b \in Bytes
      PROVE  MissingByte(b)' <=> MissingByte(b)
  <2>1. gaplist[Current] <= b /\ b <= Current => call.from <= b /\ b <= call.to
    BY <1>1, Erasure, <1>2 DEF IInv, Bounded, CallOK, Bytes, CurStart, Current
  <2> QED BY <2>1, <1>1, <1>2, Erasure DEF MissingByte
<1> QED BY <1>1, <1>2, <1>3, <1>4, <1>5, Erasure DEF IInv

LEMMA JoinHeadKeeps ==
    ASSUME IInv, JoinHead
    PROVE  IInv' /\ \A b \in Bytes : MissingByte(b)' <=> MissingByte(b)
<1> USE SizeAssumption
<1>1. /\ call.op = "add" /\ call.it # End
      /\ Current > call.to /\ CurStart >= call.from /\ CurStart <= call.to + 1
      /\ gaplist' = Erase(gaplist, Current)
      /\ call' = [call EXCEPT !.to = Current, !.it = Following]
  BY DEF JoinHead, Adding, HeadJoins
<1>2. /\ call'.op = "add" /\ call'.from = call.from /\ call'.to = Current
      /\ call'.it = Following
  BY <1>1 DEF IInv, CallOK
<1>3. CallOK'
  <2>1. Current \in Bytes /\ call.from <= Current
    BY <1>1, <1>2, Erasure DEF IInv, CallOK, Bounded, Bytes
  <2> QED BY <2>1, <1>1, <1>2, Erasure DEF IInv, CallOK
<1>4. Passed'
  BY <1>1, <1>2, Erasure DEF IInv, Passed, Current
<1>5. ASSUME NEW b \in Bytes
      PROVE  MissingByte(b)' <=> MissingByte(b)
  <2>1. /\ call.from <= b /\ b <= Current
        <=> \/ call.from <= b /\ b <= call.to
            \/ gaplist[Current] <= b /\ b <= Current
    BY <1>1, <1>2, Erasure DEF IInv, Bounded, CallOK, Bytes, CurStart, Current
  <2> QED BY <2>1, <1>1, <1>2, Erasure DEF MissingByte
<1> QED BY <1>1, <1>2, <1>3, <1>4, <1>5, Erasure DEF IInv

LEMMA JoinTailKeeps ==
    ASSUME IInv, JoinTail
    PROVE  IInv' /\ \A b \in Bytes : MissingByte(b)' <=> MissingByte(b)
<1> USE SizeAssumption
<1>1. /\ call.op = "add" /\ call.it # End
      /\ CurStart < call.from /\ Current <= call.to /\ Current >= call.from - 1
      /\ gaplist' = Erase(gaplist, Current)
      /\ call' = [call EXCEPT !.from = CurStart, !.it = Following]
  BY DEF JoinTail, Adding
<1>2. /\ call'.op = "add" /\ call'.from = gaplist[Current] /\ call'.to = call.to
      /\ call'.it = Following
  BY <1>1 DEF IInv, CallOK, CurStart, Current
<1>3. CallOK'
  <2>1. gaplist[Current] \in Bytes /\ gaplist[Current] <= call.to
    BY <1>1, <1>2, Erasure DEF IInv, CallOK, Bounded, Bytes, CurStart, Current
  <2>2. CurStart = gaplist[Current]
    BY DEF CurStart, Current
  <2> QED BY <2>1, <2>2, <1>1, <1>2, Erasure DEF IInv, CallOK
<1>4. Passed'
  <2>1. \A e \in DOMAIN gaplist' : e < Current => e + 1 < gaplist[Current]
    BY <1>1, <1>2, Erasure DEF IInv, GapsApart
  <2> QED BY <2>1, <1>1, <1>2, Erasure DEF Passed
<1>5. ASSUME NEW b \in Bytes
      PROVE  MissingByte(b)' <=> MissingByte(b)
  <2>1. /\ gaplist[Current] <= b /\ b <= call.to
        <=> \/ call.from <= b /\ b <= call.to
            \/ gaplist[Current] <= b /\ b <= Current
    BY <1>1, <1>2, Erasure DEF IInv, Bounded, CallOK, Bytes, CurStart, Current
  <2> QED BY <2>1, <1>1, <1>2, Erasure DEF MissingByte
<1> QED BY <1>1, <1>2, <1>3, <1>4, <1>5, Erasure DEF IInv


\* A call that returns leaves nothing for the iterator to be right about.
LEMMA IdleIsFine ==
    ASSUME call' = Idle
    PROVE  CallOK' /\ Passed' /\ call'.op = "idle"
BY BytesAreInt DEF Idle, CallOK, Passed, AnyPart

LEMMA ContainedKeeps ==
    ASSUME IInv, Contained
    PROVE  IInv' /\ \A b \in Bytes : MissingByte(b)' <=> MissingByte(b)
<1> USE SizeAssumption
<1>1. /\ call.op = "add" /\ call.it \in DOMAIN gaplist
      /\ gaplist[call.it] < call.from /\ call.it > call.to
      /\ gaplist' = gaplist /\ call' = Idle
  BY DEF Contained, Adding, IInv, CallOK, CurStart, Current
<1>2. Bounded' /\ GapsApart'
  BY <1>1 DEF IInv, Bounded, GapsApart
<1>3. ASSUME NEW b \in Bytes
      PROVE  MissingByte(b)' <=> MissingByte(b)
  <2>1. call.from <= b /\ b <= call.to => gaplist[call.it] <= b /\ b <= call.it
    BY <1>1 DEF IInv, Bounded, CallOK, Bytes
  <2> QED BY <2>1, <1>1, IdleIsFine DEF MissingByte
<1> QED BY <1>1, <1>2, <1>3, IdleIsFine DEF IInv

LEMMA InsertGapKeeps ==
    ASSUME IInv, InsertGap
    PROVE  IInv' /\ \A b \in Bytes : MissingByte(b)' <=> MissingByte(b)
<1> USE SizeAssumption
<1>1. /\ call.op = "add"
      /\ call.it # End => call.it \in DOMAIN gaplist /\ gaplist[call.it] > call.to + 1
      /\ gaplist' = Insert(gaplist, call.to, call.from) /\ call' = Idle
  <2>1. call.it # End => gaplist[call.it] > call.to + 1
    BY DEF InsertGap, HeadJoins, CurStart, IInv, CallOK, Bounded, Bytes
  <2> QED BY <2>1 DEF InsertGap, IInv, CallOK
<1>2. \A e \in DOMAIN gaplist :
         \/ e < call.it /\ e + 1 < call.from
         \/ gaplist[e] > call.to + 1
  BY <1>1 DEF IInv, Bounded, CallOK, Passed, GapsApart, Bytes, End
<1>3. call.to \in Bytes /\ call.from \in Bytes /\ call.from <= call.to /\ call.to \notin DOMAIN gaplist
  BY <1>2 DEF IInv, Bounded, CallOK, GapsApart, Bytes
<1>4. /\ DOMAIN gaplist' = DOMAIN gaplist \cup {call.to}
      /\ \A e \in DOMAIN gaplist : gaplist'[e] = gaplist[e]
      /\ gaplist'[call.to] = call.from
  BY <1>1, <1>3 DEF Insert
<1>5. Bounded'
  BY <1>3, <1>4 DEF IInv, Bounded
<1>6. GapsApart'
  <2>1. \A e \in DOMAIN gaplist : \/ e + 1 < call.from
                                  \/ gaplist[e] > call.to + 1 /\ e > call.to
    BY <1>2, <1>3 DEF IInv, Bounded, GapsApart, Bytes
  <2>2. \A e \in DOMAIN gaplist : e \in Bytes /\ gaplist[e] \in Bytes
    BY DEF IInv, Bounded
  <2> QED BY <2>1, <2>2, <1>3, <1>4 DEF IInv, GapsApart, Bytes
<1>7. ASSUME NEW b \in Bytes
      PROVE  MissingByte(b)' <=> MissingByte(b)
  BY <1>1, <1>4, IdleIsFine DEF MissingByte
<1> QED BY <1>1, <1>5, <1>6, <1>7, IdleIsFine DEF IInv

LEMMA FillWholeKeeps ==
    ASSUME IInv, FillWhole
    PROVE  IInv' /\ \A b \in Bytes : MissingByte(b)' <=> MissingByte(b)
<1> USE SizeAssumption
<1>1. /\ call.op = "fill" /\ call.it # End
      /\ CurStart >= call.from /\ Current <= call.to
      /\ gaplist' = Erase(gaplist, Current)
      /\ call' = [call EXCEPT !.it = Following]
  BY DEF FillWhole, Filling
<1>2. /\ call'.op = "fill" /\ call'.from = call.from /\ call'.to = call.to
      /\ call'.it = Following
  BY <1>1 DEF IInv, CallOK
<1>3. CallOK'
  BY <1>1, <1>2, Erasure DEF IInv, CallOK
<1>4. Passed'
  BY <1>1, <1>2, Erasure DEF IInv, Passed, Current
<1>5. ASSUME NEW b \in Bytes
      PROVE  MissingByte(b)' <=> MissingByte(b)
  <2>1. gaplist[Current] <= b /\ b <= Current => call.from <= b /\ b <= call.to
    BY <1>1, Erasure, <1>2 DEF IInv, Bounded, CallOK, Bytes, CurStart, Current
  <2> QED BY <2>1, <1>1, <1>2, Erasure DEF MissingByte
<1> QED BY <1>1, <1>2, <1>3, <1>4, <1>5, Erasure DEF IInv

LEMMA FillHeadKeeps ==
    ASSUME IInv, FillHead
    PROVE  IInv' /\ \A b \in Bytes : MissingByte(b)' <=> MissingByte(b)
<1> USE SizeAssumption
<1>1. /\ call.op = "fill" /\ call.it \in DOMAIN gaplist
      /\ gaplist[call.it] >= call.from /\ gaplist[call.it] <= call.to /\ call.it > call.to
      /\ gaplist' = [gaplist EXCEPT ![call.it] = call.to + 1] /\ call' = Idle
  BY DEF FillHead, Filling, Return, IInv, CallOK, CurStart, Current
<1>2. /\ DOMAIN gaplist' = DOMAIN gaplist
      /\ \A e \in DOMAIN gaplist : gaplist'[e] = IF e = call.it THEN call.to + 1 ELSE gaplist[e]
  BY <1>1
<1>3. \A e \in DOMAIN gaplist : e \in Bytes /\ gaplist[e] \in Bytes
  BY DEF IInv, Bounded
<1>4. call.from \in Bytes /\ call.to \in Bytes /\ call.from <= call.to
  BY DEF IInv, CallOK
<1>5. Bounded' /\ GapsApart'
  BY <1>1, <1>2, <1>3, <1>4 DEF IInv, Bounded, GapsApart, Bytes
<1>6. \A e \in DOMAIN gaplist : e = call.it \/ e < call.from \/ gaplist[e] > call.it
  BY <1>1, <1>3, <1>4 DEF IInv, Passed, GapsApart, Bytes
<1>7. ASSUME NEW b \in Bytes
      PROVE  MissingByte(b)' <=> MissingByte(b)
  <2>1. ASSUME NEW e \in DOMAIN gaplist
        PROVE  gaplist'[e] <= b /\ b <= e
               <=> gaplist[e] <= b /\ b <= e /\ ~ (call.from <= b /\ b <= call.to)
    BY <1>1, <1>2, <1>3, <1>4, <1>6 DEF IInv, GapsApart, Bytes
  <2> QED BY <2>1, <1>1, <1>2, IdleIsFine DEF MissingByte
<1> QED BY <1>1, <1>5, <1>7, IdleIsFine DEF IInv

LEMMA CutKeeps ==
    ASSUME IInv, Cut
    PROVE  IInv' /\ \A b \in Bytes : MissingByte(b)' <=> MissingByte(b)
<1> USE SizeAssumption
<1>1. /\ call.op = "fill" /\ call.it \in DOMAIN gaplist
      /\ gaplist[call.it] < call.from /\ call.it > call.to
      /\ call' = Idle
  BY DEF Cut, Filling, Return, IInv, CallOK, CurStart, Current
<1>2. \A e \in DOMAIN gaplist : e \in Bytes /\ gaplist[e] \in Bytes
  BY DEF IInv, Bounded
<1>3. call.from \in Bytes /\ call.to \in Bytes /\ call.from <= call.to /\ call.from - 1 \in Bytes
  BY <1>1, <1>2 DEF IInv, CallOK, Bytes
<1>4. call.from - 1 \notin DOMAIN gaplist
  BY <1>1, <1>2, <1>3 DEF IInv, GapsApart, Bytes
<1>5. /\ DOMAIN gaplist' = DOMAIN gaplist \cup {call.from - 1}
      /\ \A e \in DOMAIN gaplist : gaplist'[e] = IF e = call.it THEN call.to + 1 ELSE gaplist[e]
      /\ gaplist'[call.from - 1] = gaplist[call.it]
  <2> DEFINE g == [gaplist EXCEPT ![call.it] = call.to + 1]
  <2>1. gaplist' = Insert(g, call.from - 1, gaplist[call.it])
    BY DEF Cut, CurStart, Current
  <2>2. /\ DOMAIN g = DOMAIN gaplist
        /\ \A e \in DOMAIN gaplist : g[e] = IF e = call.it THEN call.to + 1 ELSE gaplist[e]
    OBVIOUS
  <2> HIDE DEF g
  <2> QED BY <2>1, <2>2, <1>4 DEF Insert
<1>6. Bounded'
  BY <1>1, <1>2, <1>3, <1>5 DEF IInv, Bounded, Bytes
<1>7. \A e \in DOMAIN gaplist : e = call.it \/ e + 1 < gaplist[call.it] \/ gaplist[e] > call.it + 1
  BY <1>1, <1>2 DEF IInv, GapsApart, Bytes
<1>8. GapsApart'
  <2>1. \A e \in DOMAIN gaplist' : gaplist'[e] <= e
    BY <1>1, <1>2, <1>3, <1>5 DEF IInv, GapsApart, Bytes
  <2>2. ASSUME NEW e \in DOMAIN gaplist', NEW f \in DOMAIN gaplist', e < f
        PROVE  e + 1 < gaplist'[f]
    <3>1. CASE e \in DOMAIN gaplist /\ f \in DOMAIN gaplist
      BY <3>1, <2>2, <1>1, <1>2, <1>3, <1>5, <1>7 DEF IInv, GapsApart, Bytes
    <3>2. CASE e = call.from - 1 /\ f \in DOMAIN gaplist
      BY <3>2, <2>2, <1>1, <1>2, <1>3, <1>5, <1>7 DEF Bytes
    <3>3. CASE e \in DOMAIN gaplist /\ f = call.from - 1
      BY <3>3, <2>2, <1>1, <1>2, <1>3, <1>5, <1>7 DEF IInv, GapsApart, Bytes
    <3>4. CASE e = call.from - 1 /\ f = call.from - 1
      BY <3>4, <2>2, <1>3 DEF Bytes
    <3> QED BY <3>1, <3>2, <3>3, <3>4, <1>5
  <2> QED BY <2>1, <2>2 DEF GapsApart
<1>9. ASSUME NEW b \in Bytes
      PROVE  MissingByte(b)' <=> MissingByte(b)
  <2>1. ASSUME NEW e \in DOMAIN gaplist, e # call.it
        PROVE  gaplist'[e] <= b /\ b <= e
               <=> gaplist[e] <= b /\ b <= e /\ ~ (call.from <= b /\ b <= call.to)
    BY <2>1, <1>1, <1>2, <1>3, <1>5, <1>7 DEF IInv, GapsApart, Bytes
  <2>2. \/ gaplist'[call.it] <= b /\ b <= call.it
        \/ gaplist'[call.from - 1] <= b /\ b <= call.from - 1
        <=> gaplist[call.it] <= b /\ b <= call.it /\ ~ (call.from <= b /\ b <= call.to)
    BY <1>1, <1>2, <1>3, <1>5 DEF Bytes
  <2>3. MissingByte(b)' <=> \E e \in DOMAIN gaplist' : gaplist'[e] <= b /\ b <= e
    BY <1>1, IdleIsFine DEF MissingByte
  <2>4. MissingByte(b) <=> \E e \in DOMAIN gaplist : /\ gaplist[e] <= b /\ b <= e
                                                     /\ ~ (call.from <= b /\ b <= call.to)
    BY <1>1 DEF MissingByte
  <2> HIDE DEF MissingByte
  <2> QED BY <2>1, <2>2, <2>3, <2>4, <1>1, <1>5
<1> QED BY <1>1, <1>6, <1>8, <1>9, IdleIsFine DEF IInv

LEMMA FillTailKeeps ==
    ASSUME IInv, FillTail
    PROVE  IInv' /\ \A b \in Bytes : MissingByte(b)' <=> MissingByte(b)
<1> USE SizeAssumption
<1>1. /\ call.op = "fill" /\ call.it # End /\ call.it \in DOMAIN gaplist
      /\ gaplist[call.it] < call.from /\ call.it <= call.to /\ call.it >= call.from
      /\ call' = [call EXCEPT !.it = Following]
  BY DEF FillTail, Filling, IInv, CallOK, CurStart, Current
<1>2. /\ call'.op = "fill" /\ call'.from = call.from /\ call'.to = call.to
      /\ call'.it = Following
  BY <1>1 DEF IInv, CallOK
<1>3. \A e \in DOMAIN gaplist : e \in Bytes /\ gaplist[e] \in Bytes
  BY DEF IInv, Bounded
<1>4. call.from \in Bytes /\ call.to \in Bytes /\ call.from <= call.to /\ call.from - 1 \in Bytes
  BY <1>1, <1>3 DEF IInv, CallOK, Bytes
<1>5. call.from - 1 \notin DOMAIN gaplist
  BY <1>1, <1>3, <1>4 DEF IInv, GapsApart, Bytes
<1>6. /\ DOMAIN gaplist' = (DOMAIN gaplist \cup {call.from - 1}) \ {call.it}
      /\ \A e \in DOMAIN gaplist : e # call.it => gaplist'[e] = gaplist[e]
      /\ gaplist'[call.from - 1] = gaplist[call.it]
      /\ call.from - 1 # call.it
  <2> DEFINE g == Insert(gaplist, call.from - 1, gaplist[call.it])
  <2>1. gaplist' = Erase(g, call.it)
    BY DEF FillTail, CurStart, Current
  <2>2. /\ DOMAIN g = DOMAIN gaplist \cup {call.from - 1}
        /\ \A e \in DOMAIN gaplist : g[e] = gaplist[e]
        /\ g[call.from - 1] = gaplist[call.it]
    BY <1>5 DEF Insert
  <2>3. call.from - 1 # call.it
    BY <1>1, <1>5
  <2> HIDE DEF g
  <2> QED BY <2>1, <2>2, <2>3 DEF Erase
<1>7. Bounded'
  BY <1>1, <1>3, <1>4, <1>6 DEF IInv, Bounded
<1>8. \A e \in DOMAIN gaplist : e = call.it \/ e + 1 < gaplist[call.it] \/ gaplist[e] > call.it + 1
  BY <1>1, <1>3 DEF IInv, GapsApart, Bytes
<1>9. GapsApart'
  <2>1. \A e \in DOMAIN gaplist' : gaplist'[e] <= e
    BY <1>1, <1>3, <1>4, <1>6 DEF IInv, GapsApart, Bytes
  <2>2. ASSUME NEW e \in DOMAIN gaplist', NEW f \in DOMAIN gaplist', e < f
        PROVE  e + 1 < gaplist'[f]
    <3>1. CASE e \in DOMAIN gaplist /\ f \in DOMAIN gaplist
      BY <3>1, <2>2, <1>1, <1>3, <1>4, <1>6, <1>8 DEF IInv, GapsApart, Bytes
    <3>2. CASE e = call.from - 1 /\ f \in DOMAIN gaplist
      BY <3>2, <2>2, <1>1, <1>3, <1>4, <1>6, <1>8 DEF Bytes
    <3>3. CASE e \in DOMAIN gaplist /\ f = call.from - 1
      BY <3>3, <2>2, <1>1, <1>3, <1>4, <1>6, <1>8 DEF IInv, GapsApart, Bytes
    <3>4. CASE e = call.from - 1 /\ f = call.from - 1
      BY <3>4, <2>2, <1>4 DEF Bytes
    <3> QED BY <3>1, <3>2, <3>3, <3>4, <1>6
  <2> QED BY <2>1, <2>2 DEF GapsApart
<1>10. /\ Following \in Bytes \cup {End}
       /\ Following # End => Following \in DOMAIN gaplist'
       /\ \A e \in DOMAIN gaplist : e < Following => e <= call.it
  BY <1>1, <1>6, FollowingIsNext DEF IInv, Current
<1>11. CallOK'
  BY <1>1, <1>2, <1>10 DEF IInv, CallOK
<1>12. Passed'
  <2>1. \A e \in DOMAIN gaplist : e < call.it => e < call.from
    BY <1>1 DEF IInv, Passed
  <2>2. \A e \in DOMAIN gaplist' : e < Following => e < call.from
    BY <2>1, <1>1, <1>3, <1>4, <1>6, <1>10 DEF Bytes
  <2> QED BY <2>2, <1>2 DEF Passed
<1>13. ASSUME NEW b \in Bytes
       PROVE  MissingByte(b)' <=> MissingByte(b)
  <2>1. gaplist'[call.from - 1] <= b /\ b <= call.from - 1
        <=> gaplist[call.it] <= b /\ b <= call.it /\ ~ (call.from <= b /\ b <= call.to)
    BY <1>1, <1>3, <1>4, <1>6 DEF Bytes
  <2>2. MissingByte(b)' <=> \E e \in DOMAIN gaplist' : /\ gaplist'[e] <= b /\ b <= e
                                                       /\ ~ (call.from <= b /\ b <= call.to)
    BY <1>2 DEF MissingByte
  <2>3. MissingByte(b) <=> \E e \in DOMAIN gaplist : /\ gaplist[e] <= b /\ b <= e
                                                     /\ ~ (call.from <= b /\ b <= call.to)
    BY <1>1 DEF MissingByte
  <2>4. b <= call.from - 1 => ~ (call.from <= b)
    BY <1>4 DEF Bytes
  <2> HIDE DEF MissingByte
  <2> QED BY <2>1, <2>2, <2>3, <2>4, <1>1, <1>6
<1> QED BY <1>7, <1>9, <1>11, <1>12, <1>13 DEF IInv

LEMMA FilledKeeps ==
    ASSUME IInv, Filled
    PROVE  IInv' /\ \A b \in Bytes : MissingByte(b)' <=> MissingByte(b)
<1> USE SizeAssumption
<1>1. /\ call.op = "fill" /\ gaplist' = gaplist /\ call' = Idle
      /\ call.it # End => call.it \in DOMAIN gaplist /\ gaplist[call.it] > call.to
  BY DEF Filled, Return, IInv, CallOK, CurStart
<1>2. Bounded' /\ GapsApart'
  BY <1>1 DEF IInv, Bounded, GapsApart
<1>3. \A e \in DOMAIN gaplist : e < call.from \/ gaplist[e] > call.to
  BY <1>1 DEF IInv, Bounded, CallOK, Passed, GapsApart, Bytes, End
<1>4. ASSUME NEW b \in Bytes
      PROVE  MissingByte(b)' <=> MissingByte(b)
  <2>1. ASSUME NEW e \in DOMAIN gaplist, gaplist[e] <= b, b <= e
        PROVE  ~ (call.from <= b /\ b <= call.to)
    BY <2>1, <1>3 DEF IInv, Bounded, CallOK, Bytes
  <2> QED BY <2>1, <1>1, IdleIsFine DEF MissingByte
<1> QED BY <1>1, <1>2, <1>4, IdleIsFine DEF IInv

\* The steps that begin a call, and those outside of one.
LEMMA AddGapBegins ==
    ASSUME IInv, NEW r \in Ranges, AddGap(r[1], r[2])
    PROVE  IInv' /\ \A b \in Bytes : MissingByte(b)' <=> MissingByte(b) \/ (r[1] <= b /\ b <= r[2])
<1> USE SizeAssumption
<1> DEFINE key == IF r[1] > 0 THEN r[1] - 1 ELSE 0
<1>1. /\ call = Idle /\ gaplist' = gaplist
      /\ call' = [op |-> "add", from |-> r[1], to |-> r[2], it |-> LowerBound(key), part |-> AnyPart]
  BY DEF AddGap, FirstToJoin
<1>2. r[1] \in Bytes /\ r[2] \in Bytes /\ r[1] <= r[2] /\ key \in Int
  BY DEF Ranges, Bytes
<1>3. /\ LowerBound(key) \in Bytes \cup {End}
      /\ LowerBound(key) # End => LowerBound(key) \in DOMAIN gaplist /\ LowerBound(key) >= key
      /\ \A e \in DOMAIN gaplist : e < LowerBound(key) => e < key
  <2> HIDE DEF key
  <2> QED BY <1>2, LowerBoundIsFirst DEF IInv
<1>4. Bounded' /\ GapsApart'
  BY <1>1 DEF IInv, Bounded, GapsApart
<1>5. CallOK'
  BY <1>1, <1>2, <1>3 DEF CallOK
<1>6. Passed'
  <2>1. \A e \in DOMAIN gaplist : e < LowerBound(key) => e + 1 < r[1]
    BY <1>2, <1>3 DEF IInv, Bounded, Bytes
  <2> QED BY <2>1, <1>1 DEF Passed
<1>7. ASSUME NEW b \in Bytes
      PROVE  MissingByte(b)' <=> MissingByte(b) \/ (r[1] <= b /\ b <= r[2])
  BY <1>1 DEF MissingByte, Idle
<1> QED BY <1>4, <1>5, <1>6, <1>7 DEF IInv

LEMMA FillGapBegins ==
    ASSUME IInv, NEW r \in Ranges, NEW p \in {AnyPart} \cup Parts, FillGap(r[1], r[2], p)
    PROVE  IInv' /\ \A b \in Bytes : MissingByte(b)' <=> MissingByte(b) /\ ~ (r[1] <= b /\ b <= r[2])
<1> USE SizeAssumption
<1>1. /\ call = Idle /\ gaplist' = gaplist
      /\ call' = [op |-> "fill", from |-> r[1], to |-> r[2], it |-> LowerBound(r[1]), part |-> p]
  BY DEF FillGap
<1>2. r[1] \in Bytes /\ r[2] \in Bytes /\ r[1] <= r[2] /\ r[1] \in Int
  BY DEF Ranges, Bytes
<1>3. /\ LowerBound(r[1]) \in Bytes \cup {End}
      /\ LowerBound(r[1]) # End => LowerBound(r[1]) \in DOMAIN gaplist /\ LowerBound(r[1]) >= r[1]
      /\ \A e \in DOMAIN gaplist : e < LowerBound(r[1]) => e < r[1]
  BY <1>2, LowerBoundIsFirst DEF IInv
<1>4. Bounded' /\ GapsApart'
  BY <1>1 DEF IInv, Bounded, GapsApart
<1>5. CallOK'
  BY <1>1, <1>2, <1>3 DEF CallOK
<1>6. Passed'
  BY <1>1, <1>3 DEF Passed
<1>7. ASSUME NEW b \in Bytes
      PROVE  MissingByte(b)' <=> MissingByte(b) /\ ~ (r[1] <= b /\ b <= r[2])
  BY <1>1 DEF MissingByte, Idle
<1> QED BY <1>4, <1>5, <1>6, <1>7 DEF IInv

LEMMA ResetKeeps ==
    ASSUME IInv, Reset
    PROVE  IInv' /\ \E isEmpty \in BOOLEAN : \A b \in Bytes : MissingByte(b)' <=> isEmpty
<1> USE SizeAssumption
<1>1. PICK isEmpty \in BOOLEAN : gaplist' = FirstGaps(isEmpty)
  BY DEF Reset
<1>2. call' = Idle
  BY DEF Reset
<1>3. /\ DOMAIN gaplist' = IF isEmpty THEN {FileSize - 1} ELSE {}
      /\ \A e \in DOMAIN gaplist' : gaplist'[e] = 0
  BY <1>1 DEF FirstGaps
<1>4. Bounded' /\ GapsApart'
  BY <1>3, BytesAreInt DEF Bounded, GapsApart, Bytes
<1>5. \A b \in Bytes : MissingByte(b)' <=> isEmpty
  BY <1>2, <1>3 DEF MissingByte, Idle, Bytes
<1> QED BY <1>2, <1>4, <1>5, IdleIsFine DEF IInv

LEMMA QueriesKeep ==
    ASSUME IInv, UNCHANGED <<gaplist, call>>
    PROVE  IInv' /\ \A b \in Bytes : MissingByte(b)' <=> MissingByte(b)
<1>1. gaplist' = gaplist /\ call' = call
  OBVIOUS
<1> QED BY <1>1 DEF IInv, Bounded, GapsApart, CallOK, Passed, MissingByte

----
\* Parts lie within the file.
LEMMA Division ==
    ASSUME NEW n \in Nat, NEW d \in Nat \ {0}
    PROVE  /\ n \div d \in Nat /\ n % d \in 0 .. d - 1
           /\ n = d * (n \div d) + (n % d)
BY SMTT(30)

LEMMA Products ==
    ASSUME NEW a \in Nat, NEW b \in Nat, NEW d \in Nat, a <= b
    PROVE  a * d <= b * d /\ a * d \in Nat
BY SMTT(30)

LEMMA PartsInFile ==
    ASSUME NEW p \in Parts
    PROVE  <<PartStart(p), PartEnd(p)>> \in Ranges
<1> USE SizeAssumption
<1> DEFINE q == FileSize \div PARTSIZE
           r == FileSize % PARTSIZE
<1>1. q \in Nat /\ r \in 0 .. PARTSIZE - 1 /\ FileSize = PARTSIZE * q + r
  BY Division
<1>2. m_iPartCount = IF r = 0 THEN q ELSE q + 1
  BY DEF m_iPartCount
<1> HIDE DEF q, r
<1>3. p \in Nat /\ p <= q /\ (r = 0 => p <= q - 1)
  BY <1>1, <1>2 DEF Parts
<1>4. p * PARTSIZE \in Nat /\ p * PARTSIZE <= q * PARTSIZE /\ q * PARTSIZE = PARTSIZE * q
  BY <1>1, <1>3, Products
<1>5. p * PARTSIZE <= FileSize - 1
  <2>1. CASE r = 0
    <3>1. q - 1 \in Nat /\ p <= q - 1
      BY <1>1, <1>3, <2>1
    <3>2. p * PARTSIZE <= (q - 1) * PARTSIZE /\ (q - 1) * PARTSIZE = PARTSIZE * q - PARTSIZE
      BY <3>1, <1>1, <1>3, Products
    <3> QED BY <3>2, <1>1, <1>4, <2>1
  <2>2. CASE r # 0
    BY <2>2, <1>1, <1>4
  <2> QED BY <2>1, <2>2
<1>6. p # m_iPartCount - 1 => p * PARTSIZE + PARTSIZE - 1 <= FileSize - 1
  <2> HAVE p # m_iPartCount - 1
  <2>1. p + 1 <= q /\ p + 1 \in Nat
    BY <1>1, <1>2, <1>3
  <2>2. (p + 1) * PARTSIZE <= q * PARTSIZE
    BY <2>1, <1>1, Products
  <2>3. (p + 1) * PARTSIZE = p * PARTSIZE + PARTSIZE
    BY <1>3
  <2> QED BY <2>2, <2>3, <1>1, <1>4
<1> QED BY <1>4, <1>5, <1>6 DEF Ranges, Bytes, PartStart, PartEnd

----
LEMMA InitIsFine == Init => IInv /\ \E isEmpty \in BOOLEAN : \A b \in Bytes : MissingByte(b) <=> isEmpty
<1> SUFFICES ASSUME Init PROVE IInv /\ \E isEmpty \in BOOLEAN : \A b \in Bytes : MissingByte(b) <=> isEmpty
  OBVIOUS
<1>1. PICK isEmpty \in BOOLEAN : gaplist = FirstGaps(isEmpty)
  BY DEF Init
<1>2. call = Idle
  BY DEF Init
<1>3. /\ DOMAIN gaplist = IF isEmpty THEN {FileSize - 1} ELSE {}
      /\ \A e \in DOMAIN gaplist : gaplist[e] = 0
  BY <1>1 DEF FirstGaps
<1>4. Bounded /\ GapsApart
  BY <1>3, BytesAreInt, SizeAssumption DEF Bounded, GapsApart, Bytes
<1>5. CallOK /\ Passed
  BY <1>2, BytesAreInt DEF Idle, CallOK, Passed, AnyPart
<1>6. \A b \in Bytes : MissingByte(b) <=> isEmpty
  BY <1>2, <1>3, SizeAssumption DEF MissingByte, Idle, Bytes
<1> QED BY <1>4, <1>5, <1>6 DEF IInv

\* What a step does to the missing bytes: the start of a call adds or removes a
\* range, a reset sets all or none, and the turns of the loops change nothing.
Keeps == \A b \in Bytes : MissingByte(b)' <=> MissingByte(b)

Turns   == Keeps /\ (call'.op = call.op \/ (call.op # "idle" /\ call'.op = "idle"))
Adds(r) ==
    /\ call.op = "idle" /\ call'.op = "add"
    /\ \A b \in Bytes : MissingByte(b)' <=> MissingByte(b) \/ (r[1] <= b /\ b <= r[2])
Removes(r) ==
    /\ call.op = "idle" /\ call'.op = "fill"
    /\ \A b \in Bytes : MissingByte(b)' <=> MissingByte(b) /\ ~ (r[1] <= b /\ b <= r[2])
Sets ==
    /\ call.op = "idle" /\ call'.op = "idle"
    /\ \E isEmpty \in BOOLEAN : \A b \in Bytes : MissingByte(b)' <=> isEmpty

LEMMA Starts ==
    ASSUME IInv, NEW r \in Ranges
    PROVE  /\ AddGap(r[1], r[2]) => IInv' /\ Adds(r)
           /\ \A p \in {AnyPart} \cup Parts : FillGap(r[1], r[2], p) => IInv' /\ Removes(r)
<1>1. AddGap(r[1], r[2]) => call.op = "idle" /\ call'.op = "add"
  BY DEF AddGap, Idle
<1>2. \A p : FillGap(r[1], r[2], p) => call.op = "idle" /\ call'.op = "fill"
  BY DEF FillGap, Idle
<1> QED BY <1>1, <1>2, AddGapBegins, FillGapBegins DEF Adds, Removes

LEMMA LoopTurns ==
    ASSUME IInv, AddStep \/ FillStep
    PROVE  IInv' /\ Turns
<1>1. call'.op = call.op \/ (call.op # "idle" /\ call'.op = "idle")
  <2>1. CASE Swallow \/ JoinHead \/ JoinTail \/ FillWhole \/ FillTail
    <3>1. call \in [op : {"idle", "add", "fill"}, from : Bytes, to : Bytes,
                    it : Bytes \cup {End}, part : {AnyPart} \cup Parts]
      BY DEF IInv, CallOK
    <3> QED BY <3>1, <2>1 DEF Swallow, JoinHead, JoinTail, FillWhole, FillTail
  <2>2. call.op # "idle"
    BY DEF AddStep, FillStep, Swallow, JoinHead, JoinTail, Contained, InsertGap,
           FillWhole, FillHead, Cut, FillTail, Filled, Adding, Filling
  <2>3. CASE Contained \/ InsertGap \/ FillHead \/ Cut \/ Filled
    BY <2>2, <2>3 DEF Contained, InsertGap, FillHead, Cut, Filled, Return, Idle
  <2> QED BY <2>1, <2>3 DEF AddStep, FillStep
<1>2. IInv' /\ Keeps
  BY SwallowKeeps, JoinHeadKeeps, JoinTailKeeps, ContainedKeeps, InsertGapKeeps,
     FillWholeKeeps, FillHeadKeeps, CutKeeps, FillTailKeeps, FilledKeeps
     DEF AddStep, FillStep, Keeps
<1> QED BY <1>1, <1>2 DEF Turns

LEMMA Step ==
    ASSUME IInv, [Next]_vars
    PROVE  IInv' /\ (Turns \/ Sets \/ \E r \in Ranges : Adds(r) \/ Removes(r))
<1>1. CASE Reset
  <2>1. call.op = "idle" /\ call'.op = "idle"
    BY <1>1 DEF Reset, Idle
  <2> QED BY <1>1, <2>1, ResetKeeps DEF Sets
<1>2. ASSUME NEW r \in Ranges, AddGap(r[1], r[2]) \/ FillGap(r[1], r[2], AnyPart)
      PROVE  IInv' /\ (Adds(r) \/ Removes(r))
  BY <1>2, Starts
<1>3. ASSUME NEW p \in Parts, AddGap(PartStart(p), PartEnd(p)) \/ FillGap(PartStart(p), PartEnd(p), p)
      PROVE  IInv' /\ \E r \in Ranges : Adds(r) \/ Removes(r)
  <2> DEFINE r == <<PartStart(p), PartEnd(p)>>
  <2>1. r \in Ranges /\ (AddGap(r[1], r[2]) \/ FillGap(r[1], r[2], p))
    BY <1>3, PartsInFile
  <2> HIDE DEF r
  <2> QED BY <2>1, Starts
<1>4. ASSUME UNCHANGED <<gaplist, call>>
      PROVE  IInv' /\ Turns
  BY <1>4, QueriesKeep DEF Keeps, Turns
<1>5. CASE AddStep \/ FillStep
  BY <1>5, LoopTurns
<1> QED BY <1>1, <1>2, <1>3, <1>4, <1>5 DEF Next, IsComplete, GetGapSize, vars

LEMMA Invariance == Spec => []IInv
<1>1. Init => IInv
  BY InitIsFine
<1>2. IInv /\ [Next]_vars => IInv'
  BY Step
<1> QED BY <1>1, <1>2, PTL DEF Spec

\* The gaps of a file of any size never overlap and never touch, whatever
\* ranges AddGap and FillGap are called with, at every turn of their loops.
THEOREM GapsStayApart == Spec => []GapsApart
<1>1. IInv => GapsApart
  BY DEF IInv
<1> QED BY <1>1, Invariance, PTL

SameBytes == \A b : b \in Missing <=> MissingByte(b)

\* CGapList is the set of the missing bytes: AddGap adds its range, FillGap
\* removes it, and the joining and cutting of gaps loses and invents nothing.
THEOREM ImplementsMissingBytes == Spec => IsMissingBytes
<1>1. IInv => SameBytes
  BY MissingBytewise DEF IInv, SameBytes
<1>2. IInv' => SameBytes'
  BY <1>1, PTL
<1> USE DEF SameBytes
<1>3. Init => M!Init
  <2> HAVE Init
  <2>1. IInv /\ call = Idle /\ \E isEmpty \in BOOLEAN : \A b \in Bytes : MissingByte(b) <=> isEmpty
    BY InitIsFine DEF Init
  <2>2. Missing \subseteq Bytes
    BY <2>1, <1>1 DEF MissingByte
  <2>3. Missing \in {{}, Bytes}
    <3> HIDE DEF MissingByte
    <3> QED BY <2>1, <2>2, <1>1
  <2> QED BY <2>1, <2>3 DEF M!Init, M!Bytes, Bytes, Idle
<1>4. IInv /\ IInv' /\ [Next]_vars => [M!Next]_(M!vars)
  <2> SUFFICES ASSUME IInv, IInv', [Next]_vars PROVE [M!Next]_(M!vars)
    OBVIOUS
  <2>1. Missing \subseteq Bytes /\ Missing' \subseteq Bytes
    BY <1>1, <1>2 DEF MissingByte
  <2>2. \A r \in Ranges : /\ r[1] \in M!Bytes /\ r[2] \in M!Bytes /\ r[1] <= r[2]
                          /\ \A b \in Bytes : b \in r[1] .. r[2] <=> r[1] <= b /\ b <= r[2]
                          /\ r[1] .. r[2] \subseteq Bytes
    BY SizeAssumption DEF Ranges, M!Bytes, Bytes
  <2>3. CASE Turns
    <3>1. Missing' = Missing
      BY <2>1, <2>3, <1>1, <1>2 DEF Keeps, Turns
    <3>2. call'.op = call.op \/ M!Done
      BY <3>1, <2>3 DEF Turns, M!Done
    <3> QED BY <3>1, <3>2 DEF M!Next, M!vars
  <2>4. ASSUME NEW r \in Ranges, Adds(r)
        PROVE  M!Next
    <3>1. Missing' = Missing \cup (r[1] .. r[2])
      BY <2>1, <2>2, <2>4, <1>1, <1>2 DEF Adds
    <3>2. M!Lose(r[1], r[2])
      BY <3>1, <2>4 DEF Adds, M!Lose, M!Start
    <3> QED BY <3>2, <2>2 DEF M!Next
  <2>5. ASSUME NEW r \in Ranges, Removes(r)
        PROVE  M!Next
    <3>1. Missing' = Missing \ (r[1] .. r[2])
      BY <2>1, <2>2, <2>5, <1>1, <1>2 DEF Removes
    <3>2. M!Receive(r[1], r[2])
      BY <3>1, <2>5 DEF Removes, M!Receive, M!Start
    <3> QED BY <3>2, <2>2 DEF M!Next
  <2>6. CASE Sets
    <3>1. Missing' \in {{}, Bytes}
      BY <2>1, <2>6, <1>2 DEF Sets
    <3> QED BY <3>1, <2>6 DEF Sets, M!Next, M!Reset, M!Bytes, Bytes
  <2> QED BY <2>3, <2>4, <2>5, <2>6, Step
<1> QED BY <1>3, <1>4, Invariance, PTL DEF Spec, M!Spec, IsMissingBytes

----
\* What the folds over the gaps count.  A fold is a recursive function that is
\* only given by its equation: the number of bytes solves the equation, and two
\* solutions do not differ, since there is no smallest set on which they do.

\* Two functions that add w up over a set in the order of CHOOSE agree.
LEMMA FoldsAgree ==
    ASSUME NEW S, IsFiniteSet(S), NEW f, NEW g,
           f[{}] = g[{}],
           \A s \in SUBSET S : \A x \in s :
               x = (CHOOSE y \in s : TRUE) /\ f[s \ {x}] = g[s \ {x}] => f[s] = g[s]
    PROVE  f[S] = g[S]
<1> DEFINE T == {s \in SUBSET S : f[s] # g[s]}
<1> SUFFICES ASSUME T # {} PROVE FALSE
  BY DEF T
<1>1. T \subseteq FiniteSubsetsOf(S)
  BY FS_FiniteSubsetsOfFinite
<1>2. PICK s \in T : \A u \in T : <<u, s>> \notin StrictSubsetOrdering(S)
  <2> HIDE DEF T
  <2> QED
    BY <1>1, FS_StrictSubsetOrderingWellFounded, WFMin, Zenon
<1>3. s # {} /\ s \in SUBSET S /\ f[s] # g[s]
  OBVIOUS
<1>4. PICK x \in s : x = CHOOSE y \in s : TRUE
  BY <1>3
<1>5. s \ {x} \in SUBSET S /\ <<s \ {x}, s>> \in StrictSubsetOrdering(S)
  BY <1>3 DEF StrictSubsetOrdering
<1>6. f[s \ {x}] = g[s \ {x}]
  BY <1>5, <1>2
<1> QED
  BY <1>3, <1>4, <1>6

\* The bytes of some intervals that do not overlap.
Joined(lo, hi, s) == UNION {lo[e] .. hi[e] : e \in s}

Disjoint(lo, hi, S) ==
    /\ lo \in [S -> Bytes] /\ hi \in [S -> Bytes]
    /\ \A e \in S : lo[e] <= hi[e]
    /\ \A e, f \in S : e # f => (lo[e] .. hi[e]) \cap (lo[f] .. hi[f]) = {}

LEMMA JoinedIsFinite ==
    ASSUME NEW S, NEW lo, NEW hi, Disjoint(lo, hi, S), NEW s \in SUBSET S
    PROVE  /\ Joined(lo, hi, s) \subseteq Bytes
           /\ IsFiniteSet(Joined(lo, hi, s)) /\ Cardinality(Joined(lo, hi, s)) \in Nat
<1>1. IsFiniteSet(Bytes)
  BY FS_Interval, SizeAssumption DEF Bytes
<1>2. \A e \in s : lo[e] .. hi[e] \subseteq Bytes
  BY SizeAssumption DEF Disjoint, Bytes
<1>3. Joined(lo, hi, s) \subseteq Bytes
  BY <1>2 DEF Joined
<1> QED
  BY <1>1, <1>3, FS_Subset, FS_CardinalityType

LEMMA OneMore ==
    ASSUME NEW S, NEW lo, NEW hi, Disjoint(lo, hi, S), NEW s \in SUBSET S, NEW x \in s
    PROVE  Cardinality(Joined(lo, hi, s))
             = Cardinality(Joined(lo, hi, s \ {x})) + (hi[x] - lo[x] + 1)
<1> DEFINE A == Joined(lo, hi, s \ {x})
           B == lo[x] .. hi[x]
<1>1. Joined(lo, hi, s) = A \cup B /\ Joined(lo, hi, s \ {x}) = A
  BY DEF Joined
<1>2. A \cap B = {}
  BY DEF Joined, Disjoint
<1>3. IsFiniteSet(A) /\ Cardinality(A) \in Nat
  BY JoinedIsFinite
<1>4. IsFiniteSet(B) /\ Cardinality(B) = hi[x] - lo[x] + 1
  <2>1. lo[x] \in Int /\ hi[x] \in Int /\ lo[x] <= hi[x]
    BY BytesAreInt DEF Disjoint
  <2> QED
    BY <2>1, FS_Interval
<1>5. Cardinality({}) = 0
  BY FS_EmptySet
<1> HIDE DEF A, B
<1>6. Cardinality(A \cup B) = Cardinality(A) + Cardinality(B) - Cardinality(A \cap B)
  BY <1>3, <1>4, FS_Union
<1>7. hi[x] - lo[x] + 1 \in Int
  <2>1. hi[x] \in Int /\ lo[x] \in Int
    BY BytesAreInt DEF Disjoint
  <2> QED
    BY <2>1
<1>8. Cardinality(A \cap B) = 0
  BY <1>2, <1>5
<1>9. Cardinality(A \cup B) = Cardinality(A) + (hi[x] - lo[x] + 1)
  <2> DEFINE k == Cardinality(A)
             l == Cardinality(B)
  <2>2. k \in Int /\ l \in Int
    BY <1>3, <1>4, <1>7
  <2>3. Cardinality(A \cup B) = k + l - 0
    BY <1>6, <1>8, Zenon
  <2>4. l = hi[x] - lo[x] + 1
    BY <1>4
  <2> HIDE DEF k, l
  <2>5. Cardinality(A \cup B) = k + l
    BY <2>2, <2>3
  <2> QED
    BY <2>4, <2>5, Zenon DEF k
<1> QED
  BY <1>1, <1>9, Zenon

\* What a fold over the ends of such intervals adds up is the number of their bytes.
LEMMA FoldCounts ==
    ASSUME NEW S, IsFiniteSet(S), NEW lo, NEW hi, Disjoint(lo, hi, S), NEW f,
           f[{}] = 0,
           \A s \in SUBSET S : \A x \in s :
               x = (CHOOSE y \in s : TRUE) /\ f[s \ {x}] \in Int =>
                   f[s] = f[s \ {x}] + (hi[x] - lo[x] + 1)
    PROVE  f[S] = Cardinality(Joined(lo, hi, S))
<1> DEFINE g == [s \in SUBSET S |-> Cardinality(Joined(lo, hi, s))]
<1>1. ASSUME NEW s \in SUBSET S, NEW x \in s, x = (CHOOSE y \in s : TRUE), f[s \ {x}] = g[s \ {x}]
      PROVE  f[s] = g[s]
  <2>1. g[s] = Cardinality(Joined(lo, hi, s))
    OBVIOUS
  <2>2. s \ {x} \in SUBSET S
    OBVIOUS
  <2>3. g[s \ {x}] = Cardinality(Joined(lo, hi, s \ {x}))
    BY <2>2
  <2>4. f[s] = f[s \ {x}] + (hi[x] - lo[x] + 1)
    <3>1. f[s \ {x}] \in Int
      <4> HIDE DEF g
      <4> QED
        BY <1>1, <2>2, <2>3, JoinedIsFinite
    <3> QED
      BY <1>1, <3>1
  <2>5. Cardinality(Joined(lo, hi, s)) = Cardinality(Joined(lo, hi, s \ {x})) + (hi[x] - lo[x] + 1)
    BY OneMore
  <2> HIDE DEF g
  <2> QED
    BY <1>1, <2>1, <2>3, <2>4, <2>5, Zenon
<1>2. f[{}] = g[{}]
  <2>1. Joined(lo, hi, {}) = {}
    BY DEF Joined
  <2> QED
    BY <2>1, FS_EmptySet
<1>3. g[S] = Cardinality(Joined(lo, hi, S))
  OBVIOUS
<1> HIDE DEF g
<1>4. f[S] = g[S]
  BY <1>1, <1>2, FoldsAgree
<1> QED
  BY <1>3, <1>4

LEMMA SumCounts ==
    ASSUME Bounded, GapsApart
    PROVE  Sum(gaplist) = Cardinality(Covered(gaplist))
<1> DEFINE S == DOMAIN gaplist
           hi == [e \in S |-> e]
           lo == [e \in S |-> gaplist[e]]
           AddsUp(f) == f = [s \in SUBSET S |->
                         IF s = {} THEN 0
                         ELSE f[s \ {CHOOSE x \in s : TRUE}] +
                                ((CHOOSE x \in s : TRUE) - gaplist[CHOOSE x \in s : TRUE] + 1)]
           it == CHOOSE f : AddsUp(f)
<1>1. Sum(gaplist) = it[S]
  BY DEF Sum, FoldSet, MapThenFoldSet
<1>2. IsFiniteSet(S)
  <2>1. IsFiniteSet(Bytes)
    BY FS_Interval, SizeAssumption DEF Bytes
  <2> QED
    BY <2>1, FS_Subset DEF Bounded
<1>3. Disjoint(lo, hi, S)
  <2>1. \A e \in S : e \in Bytes /\ gaplist[e] \in Bytes /\ gaplist[e] <= e
    BY DEF Bounded, GapsApart
  <2>2. \A e, f \in S : e # f => (gaplist[e] .. e) \cap (gaplist[f] .. f) = {}
    <3>1. ASSUME NEW e \in S, NEW f \in S, e < f
          PROVE  (gaplist[e] .. e) \cap (gaplist[f] .. f) = {}
      <4>1. e + 1 < gaplist[f] /\ e \in Int /\ gaplist[f] \in Int
        BY <2>1, <3>1, BytesAreInt DEF GapsApart
      <4> QED
        BY <4>1
    <3>2. \A e, f \in S : e # f => e < f \/ f < e
      <4>1. \A e \in S : e \in Int
        BY <2>1, BytesAreInt
      <4> HIDE DEF S
      <4> QED
        BY <4>1
    <3> QED
      BY <3>1, <3>2
  <2> QED
    BY <2>1, <2>2 DEF Disjoint
<1>4. AddsUp([s \in SUBSET S |-> Cardinality(Joined(lo, hi, s))])
  <2> DEFINE g == [s \in SUBSET S |-> Cardinality(Joined(lo, hi, s))]
  <2>1. ASSUME NEW s \in SUBSET S, s # {}
        PROVE  g[s] = g[s \ {CHOOSE x \in s : TRUE}] +
                        ((CHOOSE x \in s : TRUE) - gaplist[CHOOSE x \in s : TRUE] + 1)
    <3>1. PICK x \in s : x = CHOOSE y \in s : TRUE
      BY <2>1
    <3>2. hi[x] = x /\ lo[x] = gaplist[x]
      OBVIOUS
    <3>3. g[s] = g[s \ {x}] + (hi[x] - lo[x] + 1)
      <4> HIDE DEF hi, lo
      <4> QED
        BY <1>3, OneMore
    <3> HIDE DEF g
    <3> QED
      BY <3>1, <3>2, <3>3
  <2>2. g[{}] = 0
    <3>1. Joined(lo, hi, {}) = {}
      BY DEF Joined
    <3> QED
      BY <3>1, FS_EmptySet
  <2>3. g = [s \in SUBSET S |-> g[s]]
    OBVIOUS
  <2>4. \A s \in SUBSET S : g[s] = IF s = {} THEN 0
                         ELSE g[s \ {CHOOSE x \in s : TRUE}] +
                                ((CHOOSE x \in s : TRUE) - gaplist[CHOOSE x \in s : TRUE] + 1)
    BY <2>1, <2>2
  <2> HIDE DEF g
  <2>5. AddsUp(g)
    BY <2>3, <2>4
  <2> QED
    BY <2>5 DEF g
<1>5. AddsUp(it)
  <2> HIDE DEF AddsUp
  <2> QED
    BY <1>4
<1>6. it[{}] = 0
  <2> HIDE DEF it
  <2> QED
    BY <1>5
<1>7. \A s \in SUBSET S : \A x \in s : x = (CHOOSE y \in s : TRUE) =>
               it[s] = it[s \ {x}] + (hi[x] - lo[x] + 1)
  <2> HIDE DEF it
  <2> QED
    BY <1>5
<1>8. it[S] = Cardinality(Joined(lo, hi, S))
  <2> HIDE DEF it, lo, hi
  <2> QED
    BY <1>2, <1>3, <1>6, <1>7, FoldCounts
<1>9. Joined(lo, hi, S) = Covered(gaplist)
  BY DEF Joined, Covered
<1> QED
  BY <1>1, <1>8, <1>9
\* The missing bytes of a part, as GetGapSize of a part adds them up.
LEMMA SizeInPartCounts ==
    ASSUME Bounded, GapsApart, NEW p \in Parts
    PROVE  SizeInPart(p) = Cardinality(Covered(gaplist) \cap (PartStart(p) .. PartEnd(p)))
<1> DEFINE first == PartStart(p)
           last == PartEnd(p)
           S == GapsIn(first, last)
           hi == [e \in S |-> IF e < last THEN e ELSE last]
           lo == [e \in S |-> IF gaplist[e] > first THEN gaplist[e] ELSE first]
           AddsUp(f) == f = [s \in SUBSET S |->
               IF s = {} THEN 0
               ELSE f[s \ {CHOOSE x \in s : TRUE}]
                      + (IF (CHOOSE x \in s : TRUE) < last THEN (CHOOSE x \in s : TRUE) ELSE last)
                      - (IF gaplist[CHOOSE x \in s : TRUE] > first THEN gaplist[CHOOSE x \in s : TRUE]
                                                                 ELSE first) + 1]
           it == CHOOSE f : AddsUp(f)
<1>1. SizeInPart(p) = it[S]
  BY DEF SizeInPart, FoldSet, MapThenFoldSet
<1>2. first \in Bytes /\ last \in Bytes /\ first <= last
  BY PartsInFile DEF Ranges
<1>3. \A e \in S : /\ e \in Bytes /\ gaplist[e] \in Bytes /\ gaplist[e] <= e
                   /\ gaplist[e] <= last /\ e >= first /\ e \in Int /\ gaplist[e] \in Int
  BY BytesAreInt DEF Bounded, GapsApart, GapsIn
<1>4. first \in Int /\ last \in Int
  BY <1>2, BytesAreInt
<1>5. \A e, f \in S : e < f => e < gaplist[f]
  <2>1. \A e, f \in S : e < f => e + 1 < gaplist[f]
    BY DEF GapsApart, GapsIn
  <2> HIDE DEF S
  <2> QED
    BY <1>3, <2>1
<1>6. S \subseteq DOMAIN gaplist
  BY DEF GapsIn
<1>7. IsFiniteSet(S)
  <2>1. IsFiniteSet(Bytes)
    BY FS_Interval, SizeAssumption DEF Bytes
  <2>2. S \subseteq Bytes
    BY <1>3
  <2> QED
    BY <2>1, <2>2, FS_Subset
<1> HIDE DEF first, last, S
<1>8. Disjoint(lo, hi, S)
  <2>1. \A e \in S : lo[e] \in Bytes /\ hi[e] \in Bytes /\ lo[e] <= hi[e] /\ gaplist[e] <= lo[e] /\ hi[e] <= e
    BY <1>2, <1>3, <1>4
  <2>2. lo \in [S -> Bytes] /\ hi \in [S -> Bytes]
    BY <2>1
  <2>3. ASSUME NEW e \in S, NEW f \in S, e < f
        PROVE  (lo[e] .. hi[e]) \cap (lo[f] .. hi[f]) = {}
    <3>1. e < gaplist[f] /\ e \in Int /\ gaplist[f] \in Int
      BY <1>3, <1>5, <2>3
    <3>2. hi[e] <= e /\ gaplist[f] <= lo[f] /\ hi[e] \in Int /\ lo[f] \in Int /\ lo[e] \in Int /\ hi[f] \in Int
      BY <2>1, BytesAreInt
    <3> HIDE DEF lo, hi
    <3> QED
      BY <3>1, <3>2
  <2>4. \A e, f \in S : e # f => e < f \/ f < e
    BY <1>3
  <2> HIDE DEF lo, hi
  <2> QED
    BY <2>1, <2>2, <2>3, <2>4 DEF Disjoint
<1>9. AddsUp([s \in SUBSET S |-> Cardinality(Joined(lo, hi, s))])
  <2> DEFINE g == [s \in SUBSET S |-> Cardinality(Joined(lo, hi, s))]
  <2>1. ASSUME NEW s \in SUBSET S, s # {}
        PROVE  g[s] = g[s \ {CHOOSE x \in s : TRUE}]
                      + (IF (CHOOSE x \in s : TRUE) < last THEN (CHOOSE x \in s : TRUE) ELSE last)
                      - (IF gaplist[CHOOSE x \in s : TRUE] > first THEN gaplist[CHOOSE x \in s : TRUE]
                                                                 ELSE first) + 1
    <3>1. PICK x \in s : x = CHOOSE y \in s : TRUE
      BY <2>1
    <3>2. /\ hi[x] = IF x < last THEN x ELSE last
          /\ lo[x] = IF gaplist[x] > first THEN gaplist[x] ELSE first
      OBVIOUS
    <3>3. g[s] = g[s \ {x}] + (hi[x] - lo[x] + 1)
      <4> HIDE DEF hi, lo
      <4> QED
        BY <1>8, OneMore
    <3>4. g[s \ {x}] \in Int /\ hi[x] \in Int /\ lo[x] \in Int
      <4>1. s \ {x} \in SUBSET S
        OBVIOUS
      <4>2. hi[x] \in Int /\ lo[x] \in Int
        BY <1>8, BytesAreInt DEF Disjoint
      <4> HIDE DEF hi, lo
      <4> QED
        BY <4>1, <4>2, <1>8, JoinedIsFinite
    <3>5. g[s] = g[s \ {x}] + hi[x] - lo[x] + 1
      <4> HIDE DEF g, hi, lo
      <4> QED
        BY <3>3, <3>4
    <3> HIDE DEF g
    <3> QED
      BY <3>1, <3>2, <3>5
  <2>2. g[{}] = 0
    <3>1. Joined(lo, hi, {}) = {}
      BY DEF Joined
    <3> QED
      BY <3>1, FS_EmptySet
  <2>3. g = [s \in SUBSET S |-> g[s]]
    OBVIOUS
  <2> HIDE DEF g
  <2>5. AddsUp(g)
    BY <2>1, <2>2, <2>3
  <2> QED
    BY <2>5 DEF g
<1>10. AddsUp(it)
  <2> HIDE DEF AddsUp
  <2> QED
    BY <1>9
<1>11. it[{}] = 0
  <2> HIDE DEF it
  <2> QED
    BY <1>10
<1>12. ASSUME NEW s \in SUBSET S, NEW x \in s, x = (CHOOSE y \in s : TRUE), it[s \ {x}] \in Int
      PROVE  it[s] = it[s \ {x}] + (hi[x] - lo[x] + 1)
  <2>1. /\ hi[x] = IF x < last THEN x ELSE last
        /\ lo[x] = IF gaplist[x] > first THEN gaplist[x] ELSE first
    OBVIOUS
  <2>2. hi[x] \in Int /\ lo[x] \in Int
    BY <1>8, BytesAreInt DEF Disjoint
  <2> HIDE DEF it, hi, lo
  <2>3. it[s] = it[s \ {x}] + hi[x] - lo[x] + 1
    BY <1>10, <1>12, <2>1
  <2> QED
    BY <1>12, <2>2, <2>3
<1>13. it[S] = Cardinality(Joined(lo, hi, S))
  <2> HIDE DEF it, lo, hi
  <2> QED
    BY <1>7, <1>8, <1>11, <1>12, FoldCounts
<1>14. Joined(lo, hi, S) = Covered(gaplist) \cap (first .. last)
  <2>1. \A b : b \in Joined(lo, hi, S) <=> \E e \in S : b \in lo[e] .. hi[e]
    <3> HIDE DEF lo, hi
    <3> QED
      BY DEF Joined
  <2>2. \A e \in S : \A b : b \in lo[e] .. hi[e] <=> b \in (gaplist[e] .. e) /\ b \in first .. last
    <3>1. ASSUME NEW e \in S, NEW b
          PROVE  b \in lo[e] .. hi[e] <=> b \in (gaplist[e] .. e) /\ b \in first .. last
      <4>1. /\ hi[e] = IF e < last THEN e ELSE last
            /\ lo[e] = IF gaplist[e] > first THEN gaplist[e] ELSE first
        OBVIOUS
      <4> HIDE DEF lo, hi
      <4> QED
        BY <1>3, <1>4, <4>1
    <3> QED
      BY <3>1
  <2>3. ASSUME NEW e \in DOMAIN gaplist, NEW b, b \in gaplist[e] .. e, b \in first .. last
        PROVE  e \in S
    <3>1. e \in Int /\ gaplist[e] \in Int
      BY BytesAreInt DEF Bounded
    <3> QED
      BY <1>4, <2>3, <3>1 DEF S, GapsIn, first, last
  <2> HIDE DEF lo, hi
  <2> QED
    BY <1>6, <2>1, <2>2, <2>3 DEF Covered
<1> QED
  BY <1>1, <1>13, <1>14 DEF first, last

----
\* A byte lies in the part of its number, and in no other.
LEMMA PartBounds ==
    ASSUME NEW b \in Bytes
    PROVE  /\ PartOf(b) \in Parts
           /\ PartStart(PartOf(b)) <= b /\ b <= PartEnd(PartOf(b))
<1> USE SizeAssumption
<1> DEFINE q == FileSize \div PARTSIZE
           r == FileSize % PARTSIZE
           k == b \div PARTSIZE
           m == b % PARTSIZE
<1>1. q \in Nat /\ r \in 0 .. PARTSIZE - 1 /\ FileSize = PARTSIZE * q + r
  BY Division
<1>2. m_iPartCount = IF r = 0 THEN q ELSE q + 1
  BY DEF m_iPartCount
<1>3. b \in Nat /\ b <= FileSize - 1
  BY DEF Bytes
<1>4. k \in Nat /\ m \in 0 .. PARTSIZE - 1 /\ b = PARTSIZE * k + m
  BY <1>3, Division
<1>5. PartOf(b) = k
  BY DEF PartOf
<1> HIDE DEF q, r, k, m
<1>6. k * PARTSIZE = PARTSIZE * k /\ k * PARTSIZE \in Nat /\ q * PARTSIZE = PARTSIZE * q /\ q * PARTSIZE \in Nat
  BY <1>1, <1>4, Products
<1>7. k <= q
  <2> SUFFICES ASSUME k >= q + 1 PROVE FALSE
    BY <1>1, <1>4
  <2>1. (q + 1) * PARTSIZE <= k * PARTSIZE /\ (q + 1) * PARTSIZE = q * PARTSIZE + PARTSIZE
    BY <1>1, <1>4, Products
  <2> QED
    BY <1>1, <1>3, <1>4, <1>6, <2>1
<1>8. r = 0 => k # q
  BY <1>1, <1>3, <1>4, <1>6
<1>9. k \in Parts
  BY <1>1, <1>2, <1>4, <1>7, <1>8 DEF Parts
<1>10. PartStart(k) <= b /\ b <= PartEnd(k)
  BY <1>3, <1>4, <1>6 DEF PartStart, PartEnd
<1> QED
  BY <1>5, <1>9, <1>10

LEMMA PartsFollow ==
    ASSUME NEW p \in Parts, NEW o \in Parts, o < p
    PROVE  PartEnd(o) < PartStart(p)
<1> USE SizeAssumption
<1>1. m_iPartCount \in Nat
  BY Division DEF m_iPartCount
<1>2. p \in Nat /\ o \in Nat /\ o + 1 <= p /\ o # m_iPartCount - 1
  BY <1>1 DEF Parts
<1>3. (o + 1) * PARTSIZE <= p * PARTSIZE /\ (o + 1) * PARTSIZE = o * PARTSIZE + PARTSIZE
  BY <1>2, Products
<1>4. o * PARTSIZE \in Nat /\ p * PARTSIZE \in Nat
  BY <1>2, Products
<1> QED
  BY <1>2, <1>3, <1>4 DEF PartStart, PartEnd

InPart(p, b) == PartStart(p) <= b /\ b <= PartEnd(p)

LEMMA PartsAreInt ==
    ASSUME NEW p \in Parts
    PROVE  /\ p \in Int /\ PartStart(p) \in Bytes /\ PartEnd(p) \in Bytes
           /\ PartStart(p) \in Int /\ PartEnd(p) \in Int /\ PartStart(p) <= PartEnd(p)
<1>1. p \in Int
  BY SizeAssumption, Division DEF Parts, m_iPartCount
<1>2. PartStart(p) \in Bytes /\ PartEnd(p) \in Bytes /\ PartStart(p) <= PartEnd(p)
  BY PartsInFile DEF Ranges
<1> QED
  BY <1>1, <1>2, BytesAreInt

\* Mark names the parts that have a byte of the range.
LEMMA MarkedParts ==
    ASSUME NEW start \in Bytes, NEW end \in Bytes, start <= end, NEW p \in Parts
    PROVE  p \in PartOf(start) .. PartOf(end)
             <=> \E b \in Bytes : InPart(p, b) /\ start <= b /\ b <= end
<1> DEFINE f == PartOf(start)
           t == PartOf(end)
<1>1. /\ f \in Parts /\ PartStart(f) <= start /\ start <= PartEnd(f)
      /\ t \in Parts /\ PartStart(t) <= end /\ end <= PartEnd(t)
  BY PartBounds
<1>2. start \in Int /\ end \in Int /\ \A b \in Bytes : b \in Int
  BY BytesAreInt
<1> HIDE DEF f, t
<1>3. ASSUME p \in f .. t
      PROVE  \E b \in Bytes : InPart(p, b) /\ start <= b /\ b <= end
  <2>1. CASE p = f
    BY <1>1, <1>2, <2>1 DEF InPart
  <2>2. CASE p # f
    <3>1. f < p
      BY <1>1, <1>3, <2>2, PartsAreInt
    <3>2. start < PartStart(p)
      BY <1>1, <1>2, <3>1, PartsFollow, PartsAreInt
    <3>3. PartStart(p) <= end
      <4>1. CASE p = t
        BY <1>1, <4>1
      <4>2. CASE p # t
        <5>1. p < t
          BY <1>1, <1>3, <4>2, PartsAreInt
        <5> QED
          BY <1>1, <1>2, <5>1, PartsFollow, PartsAreInt
      <4> QED
        BY <4>1, <4>2
    <3> QED
      BY <1>2, <3>2, <3>3, PartsAreInt DEF InPart
  <2> QED
    BY <2>1, <2>2
<1>4. ASSUME NEW b \in Bytes, InPart(p, b), start <= b, b <= end
      PROVE  p \in f .. t
  <2>1. ~ (p < f)
    <3> SUFFICES ASSUME p < f PROVE FALSE
      OBVIOUS
    <3>1. PartEnd(p) < PartStart(f)
      BY <1>1, PartsFollow
    <3> QED
      BY <1>1, <1>2, <1>4, <3>1, PartsAreInt DEF InPart
  <2>2. ~ (t < p)
    <3> SUFFICES ASSUME t < p PROVE FALSE
      OBVIOUS
    <3>1. PartEnd(t) < PartStart(p)
      BY <1>1, PartsFollow
    <3> QED
      BY <1>1, <1>2, <1>4, <3>1, PartsAreInt DEF InPart
  <2>3. p \in Int /\ f \in Int /\ t \in Int
    BY <1>1, PartsAreInt
  <2> QED
    BY <2>1, <2>2, <2>3
<1> QED
  BY <1>3, <1>4 DEF f, t

----
\* What is cached: FillGap of a part fills all of it, and the size is only kept
\* between calls.
Says(p) ==
    /\ partsComplete[p] = "complete"   => \A b \in Bytes : InPart(p, b) => ~ MissingByte(b)
    /\ partsComplete[p] = "incomplete" => \E b \in Bytes : InPart(p, b) /\ MissingByte(b)

WholePart ==
    call.op = "fill" /\ call.part # AnyPart =>
        call.from = PartStart(call.part) /\ call.to = PartEnd(call.part)

CachesOK ==
    /\ partsComplete \in [Parts -> {"complete", "incomplete", "unknown"}]
    /\ \A p \in Parts : Says(p)
    /\ WholePart
    /\ totalGapSize # NotValid => call.op = "idle" /\ totalGapSize = Cardinality(Missing)

\* A list that was just initialized.
Fresh ==
    /\ call = Idle /\ totalGapSize = NotValid
    /\ \E isEmpty \in BOOLEAN : /\ partsComplete = FirstParts(isEmpty)
                              /\ \A b \in Bytes : MissingByte(b) <=> isEmpty

LEMMA FreshIsFine == Fresh => CachesOK
<1> SUFFICES ASSUME Fresh PROVE CachesOK
  OBVIOUS
<1> PICK isEmpty \in BOOLEAN : /\ partsComplete = FirstParts(isEmpty)
                               /\ \A b \in Bytes : MissingByte(b) <=> isEmpty
  BY DEF Fresh
<1>1. partsComplete \in [Parts -> {"complete", "incomplete", "unknown"}]
  BY DEF FirstParts
<1>2. ASSUME NEW p \in Parts
      PROVE  Says(p)
  <2>1. partsComplete[p] = IF isEmpty THEN "incomplete" ELSE "complete"
    BY DEF FirstParts
  <2>2. PartStart(p) \in Bytes /\ InPart(p, PartStart(p))
    BY PartsAreInt DEF InPart
  <2> HIDE DEF MissingByte, InPart
  <2> QED
    BY <2>1, <2>2 DEF Says
<1> QED
  BY <1>1, <1>2 DEF Fresh, CachesOK, WholePart, Idle

LEMMA CallsMark ==
    ASSUME IInv, CachesOK, NEW r \in Ranges, NEW p \in {AnyPart} \cup Parts,
           p # AnyPart => r = <<PartStart(p), PartEnd(p)>>,
           AddGap(r[1], r[2]) \/ FillGap(r[1], r[2], p)
    PROVE  CachesOK'
<1>1. r[1] \in Bytes /\ r[2] \in Bytes /\ r[1] <= r[2]
  BY SizeAssumption DEF Ranges
<1>2. totalGapSize' = NotValid
  BY DEF AddGap, FillGap
<1>3. CASE AddGap(r[1], r[2])
  <2>1. partsComplete' = Mark(r[1], r[2], "incomplete") /\ call'.op = "add"
    BY <1>3 DEF AddGap
  <2>2. \A b \in Bytes : MissingByte(b)' <=> MissingByte(b) \/ (r[1] <= b /\ b <= r[2])
    BY <1>3, AddGapBegins
  <2>3. ASSUME NEW o \in Parts
        PROVE  Says(o)'
    <3>1. partsComplete'[o] = IF o \in PartOf(r[1]) .. PartOf(r[2]) THEN "incomplete" ELSE partsComplete[o]
      BY <2>1 DEF Mark
    <3>2. o \in PartOf(r[1]) .. PartOf(r[2]) <=> \E b \in Bytes : InPart(o, b) /\ r[1] <= b /\ b <= r[2]
      BY <1>1, MarkedParts
    <3>3. Says(o)
      BY DEF CachesOK
    <3> QED
      BY <2>2, <3>1, <3>2, <3>3 DEF Says, InPart, PartStart, PartEnd
  <2>4. partsComplete' \in [Parts -> {"complete", "incomplete", "unknown"}]
    BY <2>1 DEF Mark, CachesOK
  <2> QED
    BY <1>2, <2>1, <2>3, <2>4 DEF CachesOK, WholePart
<1>4. CASE FillGap(r[1], r[2], p)
  <2>1. /\ partsComplete' = Mark(r[1], r[2], "unknown")
        /\ call'.op = "fill" /\ call'.from = r[1] /\ call'.to = r[2] /\ call'.part = p
    BY <1>4 DEF FillGap
  <2>2. \A b \in Bytes : MissingByte(b)' <=> MissingByte(b) /\ ~ (r[1] <= b /\ b <= r[2])
    BY <1>4, FillGapBegins
  <2>3. ASSUME NEW o \in Parts
        PROVE  Says(o)'
    <3>1. partsComplete'[o] = IF o \in PartOf(r[1]) .. PartOf(r[2]) THEN "unknown" ELSE partsComplete[o]
      BY <2>1 DEF Mark
    <3>2. o \in PartOf(r[1]) .. PartOf(r[2]) <=> \E b \in Bytes : InPart(o, b) /\ r[1] <= b /\ b <= r[2]
      BY <1>1, MarkedParts
    <3>3. Says(o)
      BY DEF CachesOK
    <3> QED
      BY <2>2, <3>1, <3>2, <3>3 DEF Says, InPart, PartStart, PartEnd
  <2>4. partsComplete' \in [Parts -> {"complete", "incomplete", "unknown"}]
    BY <2>1 DEF Mark, CachesOK
  <2>5. WholePart'
    BY <2>1 DEF WholePart, PartStart, PartEnd
  <2> QED
    BY <1>2, <2>3, <2>4, <2>5 DEF CachesOK
<1> QED
  BY <1>3, <1>4

\* A turn of a loop, and the return of a call for a part.
LEMMA TurnsCache ==
    ASSUME IInv, CachesOK, AddStep \/ FillStep
    PROVE  CachesOK'
<1>1. IInv' /\ Keeps /\ call.op # "idle"
  <2>1. call.op # "idle"
    BY DEF AddStep, FillStep, Swallow, JoinHead, JoinTail, Contained, InsertGap,
           FillWhole, FillHead, Cut, FillTail, Filled, Adding, Filling
  <2> QED
    BY <2>1, LoopTurns DEF Turns
<1>2. totalGapSize = NotValid /\ totalGapSize' = totalGapSize
  BY <1>1 DEF CachesOK, AddStep, FillStep, Swallow, JoinHead, JoinTail, Contained, InsertGap,
              FillWhole, FillHead, Cut, FillTail, Filled
<1>3. call \in [op : {"idle", "add", "fill"}, from : Bytes, to : Bytes,
                it : Bytes \cup {End}, part : {AnyPart} \cup Parts]
  BY DEF IInv, CallOK
<1>4. CASE partsComplete' = partsComplete
  <2>1. ASSUME NEW p \in Parts PROVE Says(p)'
    <3>1. Says(p)
      BY DEF CachesOK
    <3> QED
      BY <1>1, <1>4, <3>1 DEF Says, Keeps, InPart, PartStart, PartEnd
  <2>2. WholePart'
    <3>1. \/ call'.op # "fill"
          \/ call'.op = call.op /\ call'.part = call.part /\ call'.from = call.from /\ call'.to = call.to
      <4>1. CASE Swallow \/ JoinHead \/ JoinTail
        BY <1>3, <4>1 DEF Swallow, JoinHead, JoinTail, Adding
      <4>2. CASE FillWhole \/ FillTail
        BY <1>3, <4>2 DEF FillWhole, FillTail, Filling
      <4>3. CASE Contained \/ InsertGap \/ FillHead \/ Cut \/ Filled
        BY <4>3 DEF Contained, InsertGap, FillHead, Cut, Filled, Return, Idle
      <4> QED
        BY <4>1, <4>2, <4>3 DEF AddStep, FillStep
    <3> QED
      BY <3>1 DEF CachesOK, WholePart, PartStart, PartEnd
  <2> QED
    BY <1>2, <1>4, <2>1, <2>2 DEF CachesOK
<1>5. CASE partsComplete' # partsComplete
  <2>1. call.op = "fill" /\ Return /\ call.part # AnyPart
    BY <1>5 DEF AddStep, FillStep, Swallow, JoinHead, JoinTail, Contained, InsertGap,
              FillWhole, FillHead, Cut, FillTail, Filled, Filling, Return
  <2>2. call' = Idle /\ partsComplete' = [partsComplete EXCEPT ![call.part] = "complete"] /\ call.part \in Parts
    BY <1>3, <2>1 DEF Return
  <2>3. call.from = PartStart(call.part) /\ call.to = PartEnd(call.part)
    BY <2>1 DEF CachesOK, WholePart
  <2>4. partsComplete \in [Parts -> {"complete", "incomplete", "unknown"}]
    BY DEF CachesOK
  <2>5. ASSUME NEW p \in Parts PROVE Says(p)'
    <3>1. Says(p)
      BY DEF CachesOK
    <3>2. CASE p = call.part
      <4>1. partsComplete'[p] = "complete"
        BY <2>2, <2>4, <3>2
      <4>2. \A b \in Bytes : InPart(p, b) => ~ MissingByte(b)
        BY <2>1, <2>3, <3>2 DEF InPart, MissingByte
      <4> QED
        BY <1>1, <4>1, <4>2 DEF Says, Keeps, InPart, PartStart, PartEnd
    <3>3. CASE p # call.part
      <4>1. partsComplete'[p] = partsComplete[p]
        BY <2>2, <2>4, <3>3
      <4> QED
        BY <1>1, <4>1, <3>1 DEF Says, Keeps, InPart, PartStart, PartEnd
    <3> QED
      BY <3>2, <3>3
  <2> QED
    BY <1>2, <2>2, <2>4, <2>5 DEF CachesOK, WholePart, Idle
<1> QED
  BY <1>4, <1>5

LEMMA QueriesCache ==
    ASSUME IInv, CachesOK, GetGapSize \/ \E p \in Parts : IsComplete(p)
    PROVE  CachesOK'
<1>1. gaplist' = gaplist /\ call' = call /\ call = Idle
  BY DEF GetGapSize, IsComplete
<1>2. Missing' = Missing /\ \A b \in Bytes : MissingByte(b)' <=> MissingByte(b)
  BY <1>1 DEF Missing, Covered, MissingByte
<1>3. WholePart'
  BY <1>1 DEF CachesOK, WholePart, PartStart, PartEnd
<1>4. CASE GetGapSize
  <2>1. partsComplete' = partsComplete
    BY <1>4 DEF GetGapSize
  <2>2. Missing = Covered(gaplist) /\ call.op = "idle"
    BY <1>1 DEF Missing, Idle
  <2>3. totalGapSize' # NotValid => totalGapSize' = Cardinality(Missing)
    BY <1>4, <2>2, SumCounts DEF GetGapSize, CachesOK, IInv
  <2>4. ASSUME NEW p \in Parts PROVE Says(p)'
    <3>1. Says(p)
      BY DEF CachesOK
    <3> QED
      BY <1>2, <2>1, <3>1 DEF Says, InPart, PartStart, PartEnd
  <2> QED
    BY <1>1, <1>2, <1>3, <2>1, <2>2, <2>3, <2>4 DEF CachesOK
<1>5. ASSUME NEW p \in Parts, IsComplete(p)
      PROVE  CachesOK'
  <2>1. /\ partsComplete' = [partsComplete EXCEPT ![p] =
                 IF RangeIsComplete(PartStart(p), PartEnd(p)) THEN "complete" ELSE "incomplete"]
        /\ totalGapSize' = totalGapSize
    BY <1>5 DEF IsComplete
  <2>2. partsComplete \in [Parts -> {"complete", "incomplete", "unknown"}]
    BY DEF CachesOK
  <2>3. RangeIsComplete(PartStart(p), PartEnd(p)) <=> \A b \in Bytes : InPart(p, b) => ~ MissingByte(b)
    <3>1. \A b \in Bytes : MissingByte(b) <=> \E e \in DOMAIN gaplist : gaplist[e] <= b /\ b <= e
      BY <1>1 DEF MissingByte, Idle
    <3>2. ASSUME NEW e \in GapsIn(PartStart(p), PartEnd(p))
          PROVE  \E b \in Bytes : InPart(p, b) /\ MissingByte(b)
      <4>1. /\ e \in DOMAIN gaplist /\ gaplist[e] \in Bytes /\ e \in Bytes /\ gaplist[e] <= e
            /\ gaplist[e] <= PartEnd(p) /\ e >= PartStart(p)
        BY DEF GapsIn, IInv, Bounded, GapsApart
      <4>2. gaplist[e] \in Int /\ e \in Int
        BY <4>1, BytesAreInt
      <4> DEFINE b == IF gaplist[e] > PartStart(p) THEN gaplist[e] ELSE PartStart(p)
      <4>3. b \in Bytes /\ InPart(p, b) /\ gaplist[e] <= b /\ b <= e
        BY <4>1, <4>2, PartsAreInt DEF InPart
      <4> HIDE DEF b
      <4> QED
        BY <3>1, <4>1, <4>3
    <3>3. ASSUME NEW b \in Bytes, InPart(p, b), NEW e \in DOMAIN gaplist, gaplist[e] <= b, b <= e
          PROVE  e \in GapsIn(PartStart(p), PartEnd(p))
      <4>1. b \in Int /\ e \in Int /\ gaplist[e] \in Int
        BY BytesAreInt DEF IInv, Bounded
      <4> QED
        BY <3>3, <4>1, PartsAreInt DEF GapsIn, InPart
    <3> HIDE DEF InPart, MissingByte
    <3> QED
      BY <3>1, <3>2, <3>3 DEF RangeIsComplete
  <2>4. ASSUME NEW o \in Parts PROVE Says(o)'
    <3>1. Says(o)
      BY DEF CachesOK
    <3>2. partsComplete'[o] = IF o = p THEN IF RangeIsComplete(PartStart(p), PartEnd(p)) THEN "complete" ELSE "incomplete"
                              ELSE partsComplete[o]
      BY <2>1, <2>2
    <3> HIDE DEF RangeIsComplete
    <3> QED
      BY <1>2, <2>3, <3>1, <3>2 DEF Says, InPart, PartStart, PartEnd
  <2>5. partsComplete' \in [Parts -> {"complete", "incomplete", "unknown"}]
    BY <2>1, <2>2
  <2>6. totalGapSize' # NotValid => call'.op = "idle" /\ totalGapSize' = Cardinality(Missing)
    BY <1>1, <2>1 DEF CachesOK
  <2> QED
    BY <1>2, <1>3, <2>4, <2>5, <2>6 DEF CachesOK
<1> QED
  BY <1>4, <1>5

LEMMA CachesStep ==
    ASSUME IInv, CachesOK, [Next]_vars
    PROVE  CachesOK'
<1>1. CASE Reset
  <2>1. PICK isEmpty \in BOOLEAN : gaplist' = FirstGaps(isEmpty) /\ partsComplete' = FirstParts(isEmpty)
    BY <1>1 DEF Reset
  <2>2. call' = Idle /\ totalGapSize' = NotValid
    BY <1>1 DEF Reset
  <2>3. \A b \in Bytes : MissingByte(b)' <=> isEmpty
    <3>1. /\ DOMAIN gaplist' = IF isEmpty THEN {FileSize - 1} ELSE {}
          /\ \A e \in DOMAIN gaplist' : gaplist'[e] = 0
      BY <2>1 DEF FirstGaps
    <3> QED
      BY <2>2, <3>1, SizeAssumption DEF MissingByte, Idle, Bytes
  <2> QED
    <3>1. Fresh'
      BY <2>1, <2>2, <2>3 DEF Fresh, FirstParts, Idle
    <3>2. Fresh' => CachesOK'
      BY FreshIsFine, PTL
    <3> QED
      BY <3>1, <3>2
<1>2. ASSUME NEW r \in Ranges, AddGap(r[1], r[2]) \/ FillGap(r[1], r[2], AnyPart)
      PROVE  CachesOK'
  BY <1>2, CallsMark
<1>3. ASSUME NEW p \in Parts, AddGap(PartStart(p), PartEnd(p)) \/ FillGap(PartStart(p), PartEnd(p), p)
      PROVE  CachesOK'
  <2> DEFINE r == <<PartStart(p), PartEnd(p)>>
  <2>1. /\ r \in Ranges /\ r = <<PartStart(p), PartEnd(p)>>
        /\ AddGap(r[1], r[2]) \/ FillGap(r[1], r[2], p)
    BY <1>3, PartsInFile
  <2> HIDE DEF r
  <2> QED
    BY <2>1, CallsMark
<1>4. CASE GetGapSize \/ \E p \in Parts : IsComplete(p)
  BY <1>4, QueriesCache
<1>5. CASE AddStep \/ FillStep
  BY <1>5, TurnsCache
<1>6. CASE UNCHANGED vars
  <2>1. gaplist' = gaplist /\ call' = call /\ partsComplete' = partsComplete /\ totalGapSize' = totalGapSize
    BY <1>6 DEF vars
  <2> QED
    BY <2>1 DEF CachesOK, Says, WholePart, Missing, Covered, MissingByte, InPart, PartStart, PartEnd
<1> QED
  BY <1>1, <1>2, <1>3, <1>4, <1>5, <1>6 DEF Next

LEMMA CachesInit == Init => CachesOK
<1> SUFFICES ASSUME Init PROVE CachesOK
  OBVIOUS
<1>1. PICK isEmpty \in BOOLEAN : gaplist = FirstGaps(isEmpty) /\ partsComplete = FirstParts(isEmpty)
  BY DEF Init
<1>2. call = Idle /\ totalGapSize = NotValid
  BY DEF Init
<1>3. \A b \in Bytes : MissingByte(b) <=> isEmpty
  <2>1. /\ DOMAIN gaplist = IF isEmpty THEN {FileSize - 1} ELSE {}
        /\ \A e \in DOMAIN gaplist : gaplist[e] = 0
    BY <1>1 DEF FirstGaps
  <2> QED
    BY <1>2, <2>1, SizeAssumption DEF MissingByte, Idle, Bytes
<1> QED
  BY <1>1, <1>2, <1>3, FreshIsFine DEF Fresh

\* For a file of any size and parts of any size, after any calls: what the two
\* caches say of a part and of the whole is true of the missing bytes, and the
\* loops of GetGapSize count them (CGapList::GetGapSize, IsComplete).
THEOREM CachesStayTrue == Spec => []CachesAreTrue
<1>1. Init => IInv /\ CachesOK
  BY InitIsFine, CachesInit
<1>2. IInv /\ CachesOK /\ [Next]_vars => (IInv /\ CachesOK)'
  BY Step, CachesStep
<1>3. IInv /\ CachesOK => CachesAreTrue
  <2> SUFFICES ASSUME IInv, CachesOK PROVE CachesAreTrue
    OBVIOUS
  <2>1. \A b : b \in Missing <=> b \in Bytes /\ MissingByte(b)
    BY MissingBytewise DEF IInv, MissingByte
  <2>2. \A p \in Parts : \A b \in Bytes : b \in PartStart(p) .. PartEnd(p) <=> InPart(p, b)
    BY BytesAreInt, PartsAreInt DEF InPart
  <2>3. ASSUME NEW p \in Parts, call = Idle
        PROVE  SizeInPart(p) = Cardinality(Missing \cap (PartStart(p) .. PartEnd(p)))
    <3>1. Missing = Covered(gaplist)
      BY <2>3 DEF Missing, Idle
    <3> QED
      BY <3>1, SizeInPartCounts DEF IInv
  <2>4. ASSUME NEW p \in Parts
        PROVE  /\ partsComplete[p] = "complete"   => Missing \cap (PartStart(p) .. PartEnd(p)) = {}
               /\ partsComplete[p] = "incomplete" => Missing \cap (PartStart(p) .. PartEnd(p)) # {}
    <3>1. Says(p)
      BY DEF CachesOK
    <3> HIDE DEF MissingByte, InPart
    <3> QED
      BY <2>1, <2>2, <3>1 DEF Says
  <2> QED
    BY <2>3, <2>4 DEF CachesAreTrue, CachesOK
<1> QED
  BY <1>1, <1>2, <1>3, PTL DEF Spec
====
