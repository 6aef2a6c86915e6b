---- MODULE ThrottlerProofs ----
(***************************************************************************)
(* What holds of the throttler and the packet queues for any number of      *)
(* sockets, any sizes of packets and fragments and any budgets: no socket   *)
(* that was deleted is called, no control packet is forgotten, and packets  *)
(* leave whole.                                                            *)
(***************************************************************************)
EXTENDS Throttler, FiniteSetTheorems, SequenceTheorems, TLAPS

----
(* The inductive invariant.                                                *)

Packet == [id : Nat \ {0}, size : Nat \ {0}, control : BOOLEAN]

SocketState ==
    [con : {"unborn", "connecting", "connected", "disconnected", "deleted"},
     control : Seq(Packet), standard : Seq(Packet), buffer : Packet \cup {None}, sent : Nat,
     isControl : BOOLEAN, busy : BOOLEAN, hasSent : BOOLEAN]

ThrottlerState ==
    [run : BOOLEAN, tempFirst : Seq(Sockets), temp : Seq(Sockets), first : Seq(Sockets),
     control : Seq(Sockets), order : Seq(Sockets), remembered : Nat]

CallState ==
    [sock : Sockets \cup {NoSocket}, max : Int, frag : Nat \ {0}, only : BOOLEAN, long : BOOLEAN,
     standard : Nat, control : Nat, error : BOOLEAN, back : {"idle", "control", "trickle", "share"}]

PassState ==
    [at : {"idle", "ended", "control", "trickle", "share", "enter", "send", "write"},
     budget : Nat, spent : Nat, slots : Nat, counter : Nat, call : CallState]

WireState == [packet : Packet \cup {None}, to : Nat]

TypeOK ==
    /\ sock \in [Sockets -> SocketState]
    /\ ubt \in ThrottlerState
    /\ pass \in PassState
    /\ holders \in SUBSET Sockets /\ IsFiniteSet(holders)
    /\ made \in Nat
    /\ wire \in [Sockets -> WireState]

Open(s) == sock[s].con \in {"connecting", "connected"}

InCall == pass.at \in {"enter", "send", "write"}

(* Where a pass stands: it only goes on while the throttler runs, its loops *)
(* over the slots know how many there are, and a call of Send that was not  *)
(* made for control packets is that of a slot.                             *)
PassOK ==
    /\ ~Undisturbed => ubt.run
    /\ pass.at \in {"trickle", "share"} => pass.slots = Len(ubt.order)
    /\ InCall =>
          /\ pass.call.sock \in Sockets
          /\ pass.call.back \in {"control", "trickle", "share"}
          /\ pass.call.back # "control" => pass.slots = Len(ubt.order)
          /\ ~pass.call.only => Contains(ubt.order, pass.call.sock)
    /\ pass.at \in {"send", "write"} =>
          sock[pass.call.sock].con = "connected" /\ ~sock[pass.call.sock].busy
    /\ pass.at = "write" => sock[pass.call.sock].buffer # None

(* A list of the throttler names the socket.                               *)
Listed(u, x) ==
    \/ Contains(u.tempFirst, x) \/ Contains(u.temp, x)
    \/ Contains(u.first, x) \/ Contains(u.control, x) \/ Contains(u.order, x)

(* CalledIsAlive, said of all the lists at once.                            *)
Alive ==
    /\ InCall => sock[pass.call.sock].con # "deleted"
    /\ ubt.run => \A s \in Sockets : Listed(ubt, s) => sock[s].con # "deleted"

(* Who has client data to send is in the list of slots, and stays there     *)
(* when the slot is taken.                                                 *)
HasData(k) == k.standard # <<>> \/ (k.buffer # None /\ ~k.isControl)

SlotsOK ==
    /\ \A s \in holders : Open(s)
    /\ ubt.run => \A s \in Sockets : s \in holders \/ (Open(s) /\ HasData(sock[s])) => Contains(ubt.order, s)

(* NoneForgotten, in the middle of a pass too.                              *)
Remembered ==
    ubt.run => \A s \in Sockets :
        Open(s) /\ Pending(s) =>
            \/ Listed(ubt, s)
            \/ sock[s].busy /\ sock[s].isControl
            \/ InCall /\ pass.call.sock = s /\ pass.call.only

(* Packets are numbered in the order they are made, so that both queues     *)
(* rise, and behind the packet that was last on the connection.            *)
Rising(q, n) ==
    /\ \A i \in 1..Len(q) : q[i].id <= n
    /\ \A i, j \in 1..Len(q) : i < j => q[i].id < q[j].id

AllControl(q) == \A i \in 1..Len(q) : q[i].control
AllData(q)    == \A i \in 1..Len(q) : ~q[i].control

Before(p, q) == \A i \in 1..Len(q) : p.control = q[i].control => p.id < q[i].id

(* The packet in progress is the one on the connection, just as far as it   *)
(* was sent; one that is not begun follows a packet that is through.        *)
InProgress(k, w) ==
    /\ k.sent <= k.buffer.size
    /\ k.isControl = k.buffer.control
    /\ Before(k.buffer, k.control) /\ Before(k.buffer, k.standard)
    /\ IF k.sent > 0 THEN w.packet = k.buffer /\ w.to = k.sent
       ELSE w.to = w.packet.size /\ (w.packet.control = k.buffer.control => w.packet.id < k.buffer.id)

SocketOK(k, w, n) ==
    /\ k.con = "unborn" => k.control = <<>> /\ k.standard = <<>> /\ k.buffer = None
    /\ k.con # "deleted" =>
          /\ Rising(k.control, n) /\ Rising(k.standard, n)
          /\ AllControl(k.control) /\ AllData(k.standard)
          /\ Before(w.packet, k.control) /\ Before(w.packet, k.standard)
          /\ w.packet.id <= n /\ k.buffer.id <= n
          /\ IF k.buffer = None THEN w.to = w.packet.size /\ ~k.busy /\ k.sent = 0 ELSE InProgress(k, w)

SocketsOK == \A s \in Sockets : SocketOK(sock[s], wire[s], made)

IInv == TypeOK /\ PassOK /\ Alive /\ SlotsOK /\ Remembered /\ SocketsOK

----
(* The lists of the throttler.                                             *)

(* The ranks of the kept indices are distinct and go up to their number, so *)
(* that every kept entry is at its rank.                                   *)
LEMMA RankIsPlaceOfKept ==
    ASSUME NEW n \in Nat, NEW kept \in SUBSET (1..n)
    PROVE  LET rank(i) == Cardinality({j \in kept : j <= i})
           IN  /\ Cardinality(kept) \in Nat
               /\ \A i \in kept : rank(i) \in 1..Cardinality(kept)
               /\ \A i, j \in kept : rank(i) = rank(j) => i = j
               /\ \A k \in 1..Cardinality(kept) : \E i \in kept : rank(i) = k
<1> DEFINE upto(i) == {j \in kept : j <= i}
           rank(i) == Cardinality(upto(i))
           rankOf == [i \in kept |-> rank(i)]
<1>1. IsFiniteSet(kept) /\ Cardinality(kept) \in Nat
  <2>1. IsFiniteSet(1..n)
    BY FS_Interval
  <2>2. IsFiniteSet(kept)
    BY <2>1, FS_Subset
  <2> QED
    BY <2>2, FS_CardinalityType
<1>2. \A i \in kept : /\ IsFiniteSet(upto(i)) /\ rank(i) \in Nat
                      /\ rank(i) <= Cardinality(kept) /\ rank(i) # 0
  <2> SUFFICES ASSUME NEW i \in kept
               PROVE  /\ IsFiniteSet(upto(i)) /\ rank(i) \in Nat
                      /\ rank(i) <= Cardinality(kept) /\ rank(i) # 0
    OBVIOUS
  <2>1. upto(i) \in SUBSET kept /\ i \in upto(i)
    OBVIOUS
  <2>2. IsFiniteSet(upto(i)) /\ rank(i) <= Cardinality(kept)
    BY <1>1, <2>1, FS_Subset
  <2>3. rank(i) \in Nat /\ rank(i) # 0
    BY <2>1, <2>2, FS_CardinalityType, FS_EmptySet
  <2> QED
    BY <2>2, <2>3
<1>3. \A i, j \in kept : i < j => rank(i) # rank(j)
  <2> SUFFICES ASSUME NEW i \in kept, NEW j \in kept, i < j
               PROVE  rank(i) # rank(j)
    OBVIOUS
  <2>1. i \in Int /\ j \in Int /\ kept \subseteq Int
    OBVIOUS
  <2>2. upto(i) \in SUBSET upto(j) /\ upto(i) # upto(j)
    <3>1. \A k \in upto(i) : k \in upto(j)
      BY <2>1
    <3>2. j \in upto(j) /\ j \notin upto(i)
      BY <2>1
    <3> QED
      BY <3>1, <3>2
  <2>3. IsFiniteSet(upto(j))
    BY <1>2
  <2> HIDE DEF upto
  <2>4. Cardinality(upto(j)) # Cardinality(upto(i))
    BY <2>2, <2>3, FS_Subset
  <2> QED
    BY <2>4
<1>4. \A i, j \in kept : rank(i) = rank(j) => i = j
  BY <1>3
<1> HIDE DEF rank, upto
<1>5. \A i \in kept : rank(i) \in 1..Cardinality(kept)
  BY <1>1, <1>2
<1>6. rankOf \in Injection(kept, 1..Cardinality(kept))
  BY <1>4, <1>5 DEF Injection, IsInjective
<1>7. IsFiniteSet(1..Cardinality(kept)) /\ Cardinality(1..Cardinality(kept)) = Cardinality(kept)
  BY <1>1, FS_Interval
<1>8. rankOf \in Surjection(kept, 1..Cardinality(kept))
  BY <1>6, <1>7, FS_Injection
<1>9. \A k \in 1..Cardinality(kept) : \E i \in kept : rank(i) = k
  BY <1>8 DEF Surjection
<1> QED
  BY <1>1, <1>4, <1>5, <1>9 DEF rank, upto

(* A list without a socket has all its other entries and no more.          *)
LEMMA WithoutElements ==
    ASSUME NEW S, NEW list \in Seq(S), NEW s
    PROVE  /\ Without(list, s) \in Seq(S)
           /\ \A x : Contains(Without(list, s), x) <=> Contains(list, x) /\ x # s
<1> DEFINE kept    == {i \in 1..Len(list) : list[i] # s}
           rank(i) == Cardinality({j \in kept : j <= i})
           at(k)   == CHOOSE i \in kept : rank(i) = k
           others  == [k \in 1..Cardinality(kept) |-> list[at(k)]]
<1>1. Without(list, s) = others
  BY DEF Without
<1>2. Len(list) \in Nat /\ kept \in SUBSET (1..Len(list)) /\ \A i \in 1..Len(list) : list[i] \in S
  OBVIOUS
<1>3. \A k \in kept : list[k] \in S /\ list[k] # s
  OBVIOUS
<1>4. \A k \in 1..Len(list) : list[k] # s => k \in kept
  OBVIOUS
<1> HIDE DEF kept
<1>5. /\ Cardinality(kept) \in Nat
      /\ \A i \in kept : rank(i) \in 1..Cardinality(kept)
      /\ \A i, j \in kept : rank(i) = rank(j) => i = j
      /\ \A k \in 1..Cardinality(kept) : \E i \in kept : rank(i) = k
  BY <1>2, RankIsPlaceOfKept
<1> HIDE DEF rank
<1>6. \A k \in 1..Cardinality(kept) : at(k) \in kept
  BY <1>5
<1>7. \A i \in kept : at(rank(i)) = i
  BY <1>5
<1> HIDE DEF at
<1>8. others \in Seq(S) /\ Len(others) = Cardinality(kept)
  BY <1>5, <1>6, <1>3
<1>9. \A x : Contains(others, x) => Contains(list, x) /\ x # s
  BY <1>2, <1>6, <1>8, <1>3 DEF Contains
<1>10. \A x : Contains(list, x) /\ x # s => Contains(others, x)
  <2> SUFFICES ASSUME NEW i \in 1..Len(list), list[i] # s
               PROVE  Contains(others, list[i])
    BY DEF Contains
  <2>1. i \in kept
    BY <1>4
  <2>2. rank(i) \in 1..Len(others) /\ others[rank(i)] = list[i]
    BY <1>5, <1>7, <1>8, <2>1
  <2> QED
    BY <2>2 DEF Contains
<1> QED
  BY <1>1, <1>8, <1>9, <1>10

(* What the other operations on the lists do to their elements.            *)
LEMMA EmptyElements ==
    ASSUME NEW S
    PROVE  <<>> \in Seq(S) /\ \A x : ~Contains(<<>>, x)
BY DEF Contains

LEMMA AppendElements ==
    ASSUME NEW S, NEW list \in Seq(S), NEW e \in S
    PROVE  /\ Append(list, e) \in Seq(S)
           /\ \A x : Contains(Append(list, e), x) <=> Contains(list, x) \/ x = e
<1>1. \A i \in 1..Len(list) : Append(list, e)[i] = list[i]
  BY AppendProperties
<1>2. Len(Append(list, e)) = Len(list) + 1 /\ Append(list, e)[Len(list) + 1] = e
  BY AppendProperties
<1> QED
  BY <1>1, <1>2, AppendProperties DEF Contains

LEMMA ConcatElements ==
    ASSUME NEW S, NEW list \in Seq(S), NEW more \in Seq(S)
    PROVE  /\ list \o more \in Seq(S)
           /\ \A x : Contains(list \o more, x) <=> Contains(list, x) \/ Contains(more, x)
<1>1. /\ list \o more \in Seq(S) /\ Len(list \o more) = Len(list) + Len(more)
      /\ \A i \in 1..Len(list) + Len(more) :
            (list \o more)[i] = IF i <= Len(list) THEN list[i] ELSE more[i - Len(list)]
  BY ConcatProperties
<1>2. Len(list) \in Nat /\ Len(more) \in Nat
  OBVIOUS
<1>3. \A x : Contains(list \o more, x) => Contains(list, x) \/ Contains(more, x)
  <2> SUFFICES ASSUME NEW i \in 1..Len(list) + Len(more)
               PROVE  Contains(list, (list \o more)[i]) \/ Contains(more, (list \o more)[i])
    BY <1>1 DEF Contains
  <2>1. CASE i <= Len(list)
    BY <1>1, <1>2, <2>1 DEF Contains
  <2>2. CASE i > Len(list)
    <3>1. i - Len(list) \in 1..Len(more)
      BY <1>2, <2>2
    <3> QED
      BY <1>1, <1>2, <2>2, <3>1 DEF Contains
  <2> QED
    BY <1>2, <2>1, <2>2
<1>4. \A x : Contains(list, x) => Contains(list \o more, x)
  BY <1>1, <1>2 DEF Contains
<1>5. \A x : Contains(more, x) => Contains(list \o more, x)
  <2> SUFFICES ASSUME NEW i \in 1..Len(more)
               PROVE  Contains(list \o more, more[i])
    BY DEF Contains
  <2>1. /\ i + Len(list) \in 1..Len(list) + Len(more) /\ ~(i + Len(list) <= Len(list))
        /\ (i + Len(list)) - Len(list) = i
    BY <1>2
  <2> QED
    BY <1>1, <2>1 DEF Contains
<1> QED
  BY <1>1, <1>3, <1>4, <1>5

LEMMA TailElements ==
    ASSUME NEW S, NEW list \in Seq(S), list # <<>>
    PROVE  /\ Tail(list) \in Seq(S) /\ Head(list) \in S
           /\ Contains(list, Head(list))
           /\ \A x : Contains(list, x) <=> Contains(Tail(list), x) \/ x = Head(list)
<1>1. /\ Tail(list) \in Seq(S) /\ Head(list) \in S /\ Len(Tail(list)) = Len(list) - 1
      /\ \A i \in 1..Len(Tail(list)) : Tail(list)[i] = list[i + 1]
  BY HeadTailProperties
<1>2. Len(list) \in Nat \ {0} /\ Head(list) = list[1]
  BY EmptySeq
<1>3. \A i \in 1..Len(list) : list[i] = Head(list) \/ Contains(Tail(list), list[i])
  <2> SUFFICES ASSUME NEW i \in 1..Len(list), i # 1
               PROVE  Contains(Tail(list), list[i])
    BY <1>2
  <2>1. i - 1 \in 1..Len(Tail(list)) /\ (i - 1) + 1 = i
    BY <1>1, <1>2
  <2> QED
    BY <1>1, <2>1 DEF Contains
<1>4. \A i \in 1..Len(Tail(list)) : i + 1 \in 1..Len(list) /\ Tail(list)[i] = list[i + 1]
  BY <1>1, <1>2
<1> QED
  BY <1>1, <1>2, <1>3, <1>4 DEF Contains

LEMMA InsertElements ==
    ASSUME NEW S, NEW list \in Seq(S), NEW e \in S, NEW i \in 1..Len(list) + 1
    PROVE  /\ InsertAt(list, i, e) \in Seq(S)
           /\ \A x : Contains(InsertAt(list, i, e), x) <=> Contains(list, x) \/ x = e
<1> DEFINE before == SubSeq(list, 1, i - 1)
           after  == SubSeq(list, i, Len(list))
<1>1. Len(list) \in Nat /\ \A j \in 1..Len(list) : list[j] \in S
  OBVIOUS
<1>2. before \in Seq(S) /\ after \in Seq(S)
  BY <1>1, SubSeqProperties
<1>3. before \o after = list
  <2>1. 1 \in 1..Len(list) + 1 /\ i - 1 \in 1 - 1..Len(list) /\ Len(list) \in i - 1..Len(list)
    BY <1>1
  <2>2. before \o SubSeq(list, (i - 1) + 1, Len(list)) = SubSeq(list, 1, Len(list))
    BY <2>1, ConcatAdjacentSubSeq
  <2>3. (i - 1) + 1 = i /\ SubSeq(list, 1, Len(list)) = list
    BY <1>1, SubSeqFull
  <2> QED
    BY <2>2, <2>3
<1>4. <<e>> \in Seq(S) /\ \A x : Contains(<<e>>, x) <=> x = e
  BY DEF Contains
<1> HIDE DEF before, after
<1>5. /\ before \o <<e>> \in Seq(S)
      /\ \A x : Contains(before \o <<e>>, x) <=> Contains(before, x) \/ x = e
  BY <1>2, <1>4, ConcatElements
<1>6. /\ (before \o <<e>>) \o after \in Seq(S)
      /\ \A x : Contains((before \o <<e>>) \o after, x) <=> Contains(before \o <<e>>, x) \/ Contains(after, x)
  BY <1>2, <1>5, ConcatElements
<1>7. \A x : Contains(list, x) <=> Contains(before, x) \/ Contains(after, x)
  BY <1>2, <1>3, ConcatElements
<1>8. InsertAt(list, i, e) = (before \o <<e>>) \o after
  BY DEF InsertAt, before, after
<1> QED
  BY <1>5, <1>6, <1>7, <1>8

----
(* The operations of the throttler on its lists.                           *)

LEMMA Queueing ==
    ASSUME NEW u \in ThrottlerState, NEW s \in Sockets, NEW hasSent \in BOOLEAN
    PROVE  LET new == QueueForSendingControlPacket(u, s, hasSent) IN
           /\ new \in ThrottlerState /\ new.run = u.run /\ new.order = u.order
           /\ \A x : Listed(new, x) <=> Listed(u, x) \/ (u.run /\ x = s)
<1>1. /\ Append(u.tempFirst, s) \in Seq(Sockets)
      /\ \A x : Contains(Append(u.tempFirst, s), x) <=> Contains(u.tempFirst, x) \/ x = s
  BY AppendElements DEF ThrottlerState
<1>2. /\ Append(u.temp, s) \in Seq(Sockets)
      /\ \A x : Contains(Append(u.temp, s), x) <=> Contains(u.temp, x) \/ x = s
  BY AppendElements DEF ThrottlerState
<1> QED
  BY <1>1, <1>2 DEF QueueForSendingControlPacket, ThrottlerState, Listed

LEMMA Removing ==
    ASSUME NEW u \in ThrottlerState, NEW s
    PROVE  LET new == RemoveFromAllQueues(u, s) IN
           /\ new \in ThrottlerState /\ new.run = u.run
           /\ u.run => \A x : /\ Listed(new, x) <=> Listed(u, x) /\ x # s
                              /\ Contains(new.order, x) <=> Contains(u.order, x) /\ x # s
<1>1. \A list \in Seq(Sockets) :
          /\ Without(list, s) \in Seq(Sockets)
          /\ \A x : Contains(Without(list, s), x) <=> Contains(list, x) /\ x # s
  BY WithoutElements
<1> QED
  BY <1>1 DEF RemoveFromAllQueues, ThrottlerState, Listed

LEMMA Adding ==
    ASSUME NEW u \in ThrottlerState, NEW s \in Sockets, NEW index \in Nat
    PROVE  LET new == AddToStandardList(u, index, s) IN
           /\ new \in ThrottlerState /\ new.run = u.run
           /\ \A x : /\ Listed(new, x) <=> Listed(u, x) \/ x = s
                     /\ Contains(new.order, x) <=> Contains(u.order, x) \/ x = s
<1> DEFINE others == Without(u.order, s)
           place  == IF index > Len(others) THEN Len(others) ELSE index
           order  == InsertAt(others, place + 1, s)
<1>1. u.order \in Seq(Sockets)
  BY DEF ThrottlerState
<1>2. /\ others \in Seq(Sockets)
      /\ \A x : Contains(others, x) <=> Contains(u.order, x) /\ x # s
  BY <1>1, WithoutElements
<1> HIDE DEF others
<1>3. place + 1 \in 1..Len(others) + 1
  BY <1>2, LenProperties
<1> HIDE DEF place
<1>4. order \in Seq(Sockets) /\ \A x : Contains(order, x) <=> Contains(others, x) \/ x = s
  BY <1>2, <1>3, InsertElements
<1>5. AddToStandardList(u, index, s) = [u EXCEPT !.order = order]
  BY DEF AddToStandardList, order, place, others
<1> HIDE DEF order
<1> QED
  BY <1>2, <1>4, <1>5 DEF ThrottlerState, Listed

----
(* Sizes.                                                                  *)

LEMMA RoundUpType ==
    ASSUME NEW n \in Int, NEW frag \in Nat \ {0}
    PROVE  RoundUp(n, frag) \in Int
<1>1. n % frag \in Int /\ n \div frag \in Int
  OBVIOUS
<1> QED
  BY <1>1 DEF RoundUp

(* No more is offered to the connection than is left of the packet.        *)
LEMMA OfferedIsLeft ==
    ASSUME NEW c \in CallState, NEW k \in SocketState, k.buffer # None
    PROVE  ToSend(c, k) \in Int /\ ToSend(c, k) <= k.buffer.size - k.sent
<1>1. /\ k.buffer.size \in Nat /\ k.sent \in Nat /\ c.max \in Int /\ c.frag \in Nat \ {0}
      /\ c.standard \in Nat /\ c.control \in Nat
  BY DEF CallState, SocketState, Packet
<1>2. Total(c) \in Nat
  BY <1>1 DEF Total
<1>3. RoundUp(Total(c), c.frag) \in Int
  BY <1>1, <1>2, RoundUpType
<1> QED
  BY <1>1, <1>2, <1>3 DEF ToSend

----
(* The numbers of packets.                                                 *)

LEMMA PacketsOfQueue ==
    ASSUME NEW q \in Seq(Packet)
    PROVE  Len(q) \in Nat /\ \A i \in 1..Len(q) : q[i] \in Packet /\ q[i].id \in Nat
<1>1. Len(q) \in Nat /\ \A i \in 1..Len(q) : q[i] \in Packet
  OBVIOUS
<1>2. \A p \in Packet : p.id \in Nat
  BY DEF Packet
<1> QED
  BY <1>1, <1>2

LEMMA NoPacket ==
    None \notin Packet /\ None.id = 0 /\ None.size = 0 /\ None.control = FALSE
BY DEF None, Packet

LEMMA NothingRises ==
    /\ \A n : Rising(<<>>, n)
    /\ \A p : Before(p, <<>>)
    /\ AllControl(<<>>) /\ AllData(<<>>)
BY DEF Rising, Before, AllControl, AllData

LEMMA RisingGrows ==
    ASSUME NEW q \in Seq(Packet), NEW n \in Nat, Rising(q, n)
    PROVE  Rising(q, n + 1)
BY PacketsOfQueue DEF Rising

LEMMA RisingAppend ==
    ASSUME NEW q \in Seq(Packet), NEW n \in Nat, Rising(q, n), NEW p \in Packet, p.id = n + 1
    PROVE  /\ Rising(Append(q, p), n + 1)
           /\ AllControl(q) /\ p.control => AllControl(Append(q, p))
           /\ AllData(q) /\ ~p.control => AllData(Append(q, p))
           /\ \A x : x.id \in Nat /\ x.id <= n /\ Before(x, q) => Before(x, Append(q, p))
<1>1. /\ Len(Append(q, p)) = Len(q) + 1
      /\ \A i \in 1..Len(q) : Append(q, p)[i] = q[i]
      /\ Append(q, p)[Len(q) + 1] = p
  BY AppendProperties
<1>2. Len(q) \in Nat /\ \A i \in 1..Len(q) : q[i].id \in Nat
  BY PacketsOfQueue
<1>3. Rising(Append(q, p), n + 1)
  BY <1>1, <1>2 DEF Rising
<1>4. /\ AllControl(q) /\ p.control => AllControl(Append(q, p))
      /\ AllData(q) /\ ~p.control => AllData(Append(q, p))
  BY <1>1, <1>2 DEF AllControl, AllData
<1>5. \A x : x.id \in Nat /\ x.id <= n /\ Before(x, q) => Before(x, Append(q, p))
  BY <1>1, <1>2 DEF Before
<1> QED
  BY <1>3, <1>4, <1>5

(* The head of a queue goes before the rest of it.                         *)
LEMMA RisingTail ==
    ASSUME NEW q \in Seq(Packet), NEW n \in Nat, Rising(q, n), q # <<>>
    PROVE  /\ Head(q) \in Packet /\ Tail(q) \in Seq(Packet) /\ Head(q).id <= n
           /\ Rising(Tail(q), n) /\ Before(Head(q), Tail(q))
           /\ AllControl(q) => Head(q).control /\ AllControl(Tail(q))
           /\ AllData(q) => ~Head(q).control /\ AllData(Tail(q))
           /\ \A p : Before(p, q) =>
                  Before(p, Tail(q)) /\ (p.control = Head(q).control => p.id < Head(q).id)
<1>1. /\ Tail(q) \in Seq(Packet) /\ Head(q) \in Packet /\ Len(Tail(q)) = Len(q) - 1
      /\ \A i \in 1..Len(Tail(q)) : Tail(q)[i] = q[i + 1]
  BY HeadTailProperties
<1>2. Len(q) \in Nat \ {0} /\ Head(q) = q[1] /\ 1 \in 1..Len(q)
  BY EmptySeq
<1>3. \A i \in 1..Len(Tail(q)) : i + 1 \in 1..Len(q) /\ 1 < i + 1
  BY <1>1, <1>2
<1>4. Head(q).id <= n
  BY <1>2 DEF Rising
<1>5. Rising(Tail(q), n)
  <2>1. \A i, j \in 1..Len(Tail(q)) : i < j => i + 1 < j + 1
    BY <1>1, <1>2
  <2> QED
    BY <1>1, <1>3, <2>1 DEF Rising
<1>6. Before(Head(q), Tail(q))
  BY <1>1, <1>2, <1>3 DEF Rising, Before
<1>7. /\ AllControl(q) => Head(q).control /\ AllControl(Tail(q))
      /\ AllData(q) => ~Head(q).control /\ AllData(Tail(q))
  BY <1>1, <1>2, <1>3 DEF AllControl, AllData
<1>8. \A p : Before(p, q) =>
          Before(p, Tail(q)) /\ (p.control = Head(q).control => p.id < Head(q).id)
  BY <1>1, <1>2, <1>3 DEF Before
<1> QED
  BY <1>1, <1>4, <1>5, <1>6, <1>7, <1>8

(* A packet of one kind goes before every packet of the other.             *)
LEMMA OtherKind ==
    ASSUME NEW p \in Packet, NEW q \in Seq(Packet),
           (p.control /\ AllData(q)) \/ (~p.control /\ AllControl(q))
    PROVE  Before(p, q)
BY DEF Before, AllData, AllControl

----
(* The invariant holds initially, and every action keeps it: the types, the *)
(* parts of the invariant one after the other.                             *)

LEMMA IdleType ==
    Idle \in PassState /\ NoCall \in CallState /\ Idle.at = "idle"
BY DEF Idle, NoCall, PassState, CallState

LEMMA InitEstablishes ==
    Init => IInv
<1> SUFFICES ASSUME Init PROVE IInv
  OBVIOUS
<1>1. NewSocket \in SocketState /\ [packet |-> None, to |-> 0] \in WireState
  BY EmptySeq DEF NewSocket, SocketState, WireState, None
<1>2. Idle \in PassState
  BY IdleType
<1>3. ubt \in ThrottlerState
  BY EmptySeq DEF Init, ThrottlerState
<1>4. TypeOK
  BY <1>1, <1>2, <1>3, FS_EmptySet DEF Init, TypeOK
<1>5. \A x : ~Listed(ubt, x)
  BY EmptyElements DEF Init, Listed
<1>6. pass.at = "idle"
  BY DEF Init, Idle
<1>7. PassOK /\ Alive
  BY <1>5, <1>6 DEF PassOK, Undisturbed, InCall, Alive
<1>8. SlotsOK /\ Remembered
  BY DEF Init, SlotsOK, Remembered, Open, NewSocket
<1>9. SocketsOK
  <2>2. \A s \in Sockets :
           /\ sock[s].control = <<>> /\ sock[s].standard = <<>> /\ sock[s].buffer = None
           /\ sock[s].sent = 0 /\ ~sock[s].busy /\ wire[s].packet = None /\ wire[s].to = 0
    BY DEF Init, NewSocket
  <2>3. made = 0
    BY DEF Init
  <2>4. ASSUME NEW s \in Sockets PROVE SocketOK(sock[s], wire[s], made)
    <3>1. /\ Rising(sock[s].control, made) /\ Rising(sock[s].standard, made)
          /\ AllControl(sock[s].control) /\ AllData(sock[s].standard)
      BY <2>2, NothingRises
    <3>2. Before(wire[s].packet, sock[s].control) /\ Before(wire[s].packet, sock[s].standard)
      BY <2>2, NothingRises
    <3>3. wire[s].packet.id <= made /\ sock[s].buffer.id <= made /\ wire[s].to = wire[s].packet.size
      BY <2>2, <2>3, NoPacket
    <3> QED
      BY <2>2, <3>1, <3>2, <3>3 DEF SocketOK
  <2> QED
    BY <2>4 DEF SocketsOK
<1> QED
  BY <1>4, <1>7, <1>8, <1>9 DEF IInv

LEMMA CreateKeeps ==
    ASSUME IInv, NEW s \in Sockets, Create(s)
    PROVE  IInv'
<1> USE DEF IInv
<1>1. TypeOK'
  BY DEF Create, TypeOK, SocketState
<1>2. \A t \in Sockets : t # s => sock'[t] = sock[t]
  BY DEF Create, TypeOK
<1>3. /\ sock'[s].con = "connecting" /\ sock'[s].control = sock[s].control
      /\ sock'[s].standard = sock[s].standard /\ sock'[s].buffer = sock[s].buffer
      /\ sock'[s].sent = sock[s].sent /\ sock'[s].busy = sock[s].busy
      /\ sock[s].control = <<>> /\ sock[s].standard = <<>> /\ sock[s].buffer = None
  BY DEF Create, TypeOK, SocketState, SocketsOK, SocketOK
<1>4. PassOK' /\ Alive'
  BY <1>2, <1>3 DEF Create, PassOK, Alive, Undisturbed, InCall, TypeOK
<1>5. SlotsOK'
  BY <1>2, <1>3 DEF Create, SlotsOK, Open, HasData
<1>6. Remembered'
  BY <1>2, <1>3 DEF Create, Remembered, Open, Pending, Undisturbed, InCall
<1>7. SocketsOK'
  BY <1>2, <1>3 DEF Create, SocketsOK, SocketOK
<1> QED
  BY <1>1, <1>4, <1>5, <1>6, <1>7

(* A control packet is queued with the socket, which the throttler is told  *)
(* of; a packet with client data waits for the turn of the slot.           *)
LEMMA SendPacketKeeps ==
    ASSUME IInv, NEW s \in Sockets, NEW size \in Sizes, NEW control \in BOOLEAN,
           SendPacket(s, size, control)
    PROVE  IInv'
<1> USE DEF IInv
<1> DEFINE p == [id |-> made + 1, size |-> size, control |-> control]
<1>1. /\ made \in Nat /\ size \in Nat \ {0} /\ made' = made + 1 /\ wire' = wire /\ pass' = pass
      /\ holders' = holders /\ holders \subseteq Sockets
      /\ Undisturbed /\ Open(s) /\ (control \/ s \in holders)
  BY ThrottlerAssumption DEF SendPacket, TypeOK, Open
<1>2. p \in Packet /\ p.id = made + 1 /\ p.control = control
  BY <1>1 DEF Packet
<1>3. \A t \in Sockets : /\ sock[t] \in SocketState /\ wire[t] \in WireState
                         /\ SocketOK(sock[t], wire[t], made)
  BY DEF TypeOK, SocketsOK
<1>4. \A k \in SocketState : k.control \in Seq(Packet) /\ k.standard \in Seq(Packet) /\ k.hasSent \in BOOLEAN
  BY DEF SocketState
<1>5. /\ Append(sock[s].control, p) \in Seq(Packet) /\ Append(sock[s].standard, p) \in Seq(Packet)
      /\ Append(sock[s].control, p) # <<>> /\ Append(sock[s].standard, p) # <<>>
  BY <1>2, <1>3, <1>4, AppendProperties
<1>6. \A t \in Sockets : t # s => sock'[t] = sock[t]
  BY DEF SendPacket, TypeOK
<1>7. /\ sock'[s].con = sock[s].con /\ sock'[s].buffer = sock[s].buffer /\ sock'[s].sent = sock[s].sent
      /\ sock'[s].busy = sock[s].busy /\ sock'[s].isControl = sock[s].isControl
      /\ control  => /\ sock'[s].control = Append(sock[s].control, p)
                     /\ sock'[s].standard = sock[s].standard
      /\ ~control => /\ sock'[s].standard = Append(sock[s].standard, p)
                     /\ sock'[s].control = sock[s].control
  BY DEF SendPacket, TypeOK, SocketState
<1>8. /\ ubt' \in ThrottlerState /\ ubt'.run = ubt.run /\ ubt'.order = ubt.order
      /\ \A x : Listed(ubt', x) <=> Listed(ubt, x) \/ (ubt.run /\ control /\ x = s)
  <2>1. ubt \in ThrottlerState /\ sock[s].hasSent \in BOOLEAN
    BY <1>3, <1>4 DEF TypeOK
  <2>2. CASE control
    BY <2>1, <2>2, Queueing DEF SendPacket
  <2>3. CASE ~control
    BY <2>1, <2>3 DEF SendPacket
  <2> QED
    BY <2>2, <2>3
<1>9. TypeOK'
  <2>1. sock' \in [Sockets -> SocketState]
    <3> DEFINE controls == IF control THEN Append(sock[s].control, p) ELSE sock[s].control
               standards == IF control THEN sock[s].standard ELSE Append(sock[s].standard, p)
               new == [sock[s] EXCEPT !.control = controls, !.standard = standards]
    <3>1. controls \in Seq(Packet) /\ standards \in Seq(Packet)
      BY <1>3, <1>4, <1>5
    <3>2. sock' = [sock EXCEPT ![s] = new]
      BY <1>3 DEF SendPacket, SocketState
    <3> HIDE DEF controls, standards
    <3>3. new \in SocketState
      BY <1>3, <3>1 DEF SocketState
    <3> QED
      BY <3>2, <3>3 DEF TypeOK
  <2> QED
    BY <1>1, <1>8, <2>1 DEF TypeOK
<1> HIDE DEF p
<1>10. PassOK' /\ Alive'
  BY <1>1, <1>6, <1>7, <1>8 DEF PassOK, Alive, Undisturbed, InCall, Open
<1>11. SlotsOK'
  BY <1>1, <1>6, <1>7, <1>8 DEF SlotsOK, Open, HasData
<1>12. Remembered'
  BY <1>1, <1>6, <1>7, <1>8 DEF Remembered, Open, Pending, Undisturbed, InCall
<1>13. SocketsOK'
  <2> SUFFICES ASSUME NEW t \in Sockets PROVE SocketOK(sock'[t], wire'[t], made')
    BY DEF SocketsOK
  <2>1. SocketOK(sock[t], wire[t], made)
    BY <1>3
  <2>2. /\ sock[t].control \in Seq(Packet) /\ sock[t].standard \in Seq(Packet)
        /\ wire[t].packet.id \in Nat /\ sock[t].buffer.id \in Nat
    BY <1>3, NoPacket DEF SocketState, WireState, Packet
  <2>3. /\ Rising(sock[t].control, made) => Rising(sock[t].control, made + 1)
        /\ Rising(sock[t].standard, made) => Rising(sock[t].standard, made + 1)
    BY <1>1, <2>2, RisingGrows
  <2>4. CASE t # s
    BY <1>1, <1>6, <2>1, <2>2, <2>3, <2>4 DEF SocketOK
  <2>5. CASE t = s /\ control
    <3>1. sock'[s].control = Append(sock[s].control, p)
      BY <1>7, <2>5
    <3>2. /\ Rising(sock[s].control, made) => Rising(sock'[s].control, made + 1)
          /\ Rising(sock[s].control, made) /\ AllControl(sock[s].control) => AllControl(sock'[s].control)
          /\ Rising(sock[s].control, made) =>
                \A x : x.id \in Nat /\ x.id <= made /\ Before(x, sock[s].control) => Before(x, sock'[s].control)
      BY <1>1, <1>2, <2>2, <2>5, <3>1, RisingAppend
    <3> QED
      BY <1>1, <1>7, <2>1, <2>2, <2>3, <2>5, <3>2 DEF SocketOK, InProgress, Open
  <2>6. CASE t = s /\ ~control
    <3>1. sock'[s].standard = Append(sock[s].standard, p)
      BY <1>7, <2>6
    <3>2. /\ Rising(sock[s].standard, made) => Rising(sock'[s].standard, made + 1)
          /\ Rising(sock[s].standard, made) /\ AllData(sock[s].standard) => AllData(sock'[s].standard)
          /\ Rising(sock[s].standard, made) =>
                \A x : x.id \in Nat /\ x.id <= made /\ Before(x, sock[s].standard) => Before(x, sock'[s].standard)
      BY <1>1, <1>2, <2>2, <2>6, <3>1, RisingAppend
    <3> QED
      BY <1>1, <1>7, <2>1, <2>2, <2>3, <2>6, <3>2 DEF SocketOK, InProgress, Open
  <2> QED
    BY <2>4, <2>5, <2>6
<1> QED
  BY <1>9, <1>10, <1>11, <1>12, <1>13

LEMMA OnSendKeeps ==
    ASSUME IInv, NEW s \in Sockets, OnSend(s)
    PROVE  IInv'
<1> USE DEF IInv
<1>1. /\ made' = made /\ wire' = wire /\ pass' = pass /\ holders' = holders /\ holders \subseteq Sockets
      /\ Undisturbed /\ Open(s)
  BY DEF OnSend, TypeOK, Open
<1>2. \A t \in Sockets : t # s => sock'[t] = sock[t]
  BY DEF OnSend, TypeOK
<1>3. /\ sock'[s].con = "connected" /\ ~sock'[s].busy /\ sock'[s].buffer = sock[s].buffer
      /\ sock'[s].sent = sock[s].sent /\ sock'[s].isControl = sock[s].isControl
      /\ sock'[s].control = sock[s].control /\ sock'[s].standard = sock[s].standard
  BY DEF OnSend, TypeOK, SocketState
<1>4. /\ ubt' \in ThrottlerState /\ ubt'.run = ubt.run /\ ubt'.order = ubt.order
      /\ \A x : Listed(ubt', x) <=> Listed(ubt, x) \/ (ubt.run /\ sock[s].isControl /\ x = s)
  <2>1. ubt \in ThrottlerState /\ sock[s].hasSent \in BOOLEAN
    BY DEF TypeOK, SocketState
  <2>2. CASE sock[s].isControl
    BY <2>1, <2>2, Queueing DEF OnSend
  <2>3. CASE ~sock[s].isControl
    BY <2>1, <2>3 DEF OnSend
  <2> QED
    BY <2>2, <2>3
<1>5. TypeOK'
  <2> DEFINE new == [sock[s] EXCEPT !.busy = FALSE, !.con = "connected"]
  <2>1. sock[s] \in SocketState
    BY DEF TypeOK
  <2>2. sock' = [sock EXCEPT ![s] = new] /\ new \in SocketState
    BY <2>1 DEF OnSend, SocketState
  <2> HIDE DEF new
  <2> QED
    BY <1>1, <1>4, <2>2 DEF TypeOK
<1>6. PassOK' /\ Alive'
  BY <1>1, <1>2, <1>3, <1>4 DEF PassOK, Alive, Undisturbed, InCall, Open
<1>7. SlotsOK'
  BY <1>1, <1>2, <1>3, <1>4 DEF SlotsOK, Open, HasData
<1>8. Remembered'
  BY <1>1, <1>2, <1>3, <1>4 DEF Remembered, Open, Pending, Undisturbed, InCall
<1>9. SocketsOK'
  BY <1>1, <1>2, <1>3 DEF SocketsOK, SocketOK, InProgress, Open
<1> QED
  BY <1>5, <1>6, <1>7, <1>8, <1>9

LEMMA DisconnectKeeps ==
    ASSUME IInv, NEW s \in Sockets, Disconnect(s)
    PROVE  IInv'
<1> USE DEF IInv
<1>1. /\ made' = made /\ wire' = wire /\ pass' = pass /\ ubt' = ubt
      /\ holders' = holders \ {s} /\ holders \subseteq Sockets /\ IsFiniteSet(holders') /\ Undisturbed /\ Open(s)
  BY FS_RemoveElement DEF Disconnect, TypeOK, Open
<1>2. \A t \in Sockets : t # s => sock'[t] = sock[t]
  BY DEF Disconnect, TypeOK
<1>3. /\ sock'[s].con = "disconnected" /\ sock'[s].busy = sock[s].busy
      /\ sock'[s].buffer = sock[s].buffer
      /\ sock'[s].sent = sock[s].sent /\ sock'[s].isControl = sock[s].isControl
      /\ sock'[s].control = sock[s].control
      /\ sock'[s].standard = sock[s].standard \/ sock'[s].standard = <<>>
  BY DEF Disconnect, TypeOK, SocketState
<1>4. TypeOK'
  <2> DEFINE standards == IF s \in holders THEN <<>> ELSE sock[s].standard
             new == [sock[s] EXCEPT !.con = "disconnected", !.standard = standards]
  <2>1. sock[s] \in SocketState /\ standards \in Seq(Packet)
    BY EmptySeq DEF TypeOK, SocketState
  <2>2. sock' = [sock EXCEPT ![s] = new]
    BY <2>1 DEF Disconnect, SocketState
  <2> HIDE DEF standards
  <2>3. new \in SocketState
    BY <2>1 DEF SocketState
  <2> QED
    BY <1>1, <2>2, <2>3 DEF TypeOK
<1>5. PassOK' /\ Alive'
  BY <1>1, <1>2, <1>3 DEF PassOK, Alive, Undisturbed, InCall
<1>6. SlotsOK'
  BY <1>1, <1>2, <1>3 DEF SlotsOK, Open, HasData
<1>7. Remembered'
  BY <1>1, <1>2, <1>3 DEF Remembered, Open, Pending, Undisturbed, InCall
<1>8. SocketsOK'
  BY <1>1, <1>2, <1>3, NothingRises DEF SocketsOK, SocketOK, InProgress, Open
<1> QED
  BY <1>4, <1>5, <1>6, <1>7, <1>8

LEMMA DeleteKeeps ==
    ASSUME IInv, NEW s \in Sockets, Delete(s)
    PROVE  IInv'
<1> USE DEF IInv
<1>1. /\ made' = made /\ wire' = wire /\ pass' = pass
      /\ holders' = holders /\ holders \subseteq Sockets /\ Undisturbed /\ ~Open(s)
  BY DEF Delete, TypeOK, Open
<1>2. \A t \in Sockets : t # s => sock'[t] = sock[t]
  BY DEF Delete, TypeOK
<1>3. sock'[s].con = "deleted"
  BY DEF Delete, TypeOK, SocketState, ClearQueues
<1>4. /\ ubt' \in ThrottlerState /\ ubt'.run = ubt.run
      /\ ubt.run => \A x : /\ Listed(ubt', x) <=> Listed(ubt, x) /\ x # s
                           /\ Contains(ubt'.order, x) <=> Contains(ubt.order, x) /\ x # s
  <2>1. ubt \in ThrottlerState /\ ubt' = RemoveFromAllQueues(ubt, s)
    BY DEF Delete, TypeOK
  <2> QED
    BY <2>1, Removing
<1>5. TypeOK'
  <2>1. [ClearQueues(sock[s]) EXCEPT !.con = "deleted"] \in SocketState
    BY EmptySeq DEF ClearQueues, TypeOK, SocketState
  <2>2. sock' = [sock EXCEPT ![s] = [ClearQueues(sock[s]) EXCEPT !.con = "deleted"]]
    BY DEF Delete
  <2> QED
    BY <1>1, <1>4, <2>1, <2>2 DEF TypeOK
<1>6. PassOK' /\ Alive'
  BY <1>1, <1>2, <1>3, <1>4 DEF PassOK, Alive, Undisturbed, InCall
<1>7. SlotsOK'
  BY <1>1, <1>2, <1>3, <1>4 DEF SlotsOK, Open, HasData
<1>8. Remembered'
  BY <1>1, <1>2, <1>3, <1>4 DEF Remembered, Open, Pending, Undisturbed, InCall
<1>9. SocketsOK'
  BY <1>1, <1>2, <1>3 DEF SocketsOK, SocketOK
<1> QED
  BY <1>5, <1>6, <1>7, <1>8, <1>9

LEMMA SlotGivenKeeps ==
    ASSUME IInv, NEW s \in Sockets, SlotGiven(s)
    PROVE  IInv'
<1> USE DEF IInv
<1>1. /\ made' = made /\ wire' = wire /\ pass' = pass /\ sock' = sock
      /\ holders' = holders \cup {s} /\ holders \subseteq Sockets /\ IsFiniteSet(holders') /\ Undisturbed /\ Open(s)
  BY FS_AddElement DEF SlotGiven, TypeOK, Open
<1>2. /\ ubt' \in ThrottlerState /\ ubt'.run = ubt.run
      /\ \A x : /\ Listed(ubt', x) <=> Listed(ubt, x) \/ x = s
                /\ Contains(ubt'.order, x) <=> Contains(ubt.order, x) \/ x = s
  <2>1. /\ ubt \in ThrottlerState /\ Cardinality(holders) \in Nat
        /\ ubt' = AddToStandardList(ubt, Cardinality(holders), s)
    BY FS_CardinalityType DEF SlotGiven, TypeOK
  <2> QED
    BY <2>1, Adding
<1>3. TypeOK'
  BY <1>1, <1>2 DEF TypeOK
<1>4. PassOK' /\ Alive'
  BY <1>1, <1>2 DEF PassOK, Alive, Undisturbed, InCall, Open
<1>5. SlotsOK'
  BY <1>1, <1>2 DEF SlotsOK, Open
<1>6. Remembered'
  BY <1>1, <1>2 DEF Remembered, Open, Pending, InCall
<1>7. SocketsOK'
  BY <1>1 DEF SocketsOK
<1> QED
  BY <1>3, <1>4, <1>5, <1>6, <1>7

LEMMA SlotTakenKeeps ==
    ASSUME IInv, NEW s \in Sockets, SlotTaken(s)
    PROVE  IInv'
<1> USE DEF IInv
<1>1. /\ made' = made /\ wire' = wire /\ pass' = pass /\ ubt' = ubt
      /\ holders' = holders \ {s} /\ holders \subseteq Sockets /\ IsFiniteSet(holders') /\ Undisturbed
  BY FS_RemoveElement DEF SlotTaken, TypeOK
<1>2. \A t \in Sockets : t # s => sock'[t] = sock[t]
  BY DEF SlotTaken, TypeOK
<1>3. /\ sock'[s].con = sock[s].con /\ sock'[s].busy = sock[s].busy
      /\ sock'[s].buffer = sock[s].buffer
      /\ sock'[s].sent = sock[s].sent /\ sock'[s].isControl = sock[s].isControl
      /\ sock'[s].control = sock[s].control /\ sock'[s].standard = <<>>
  BY DEF SlotTaken, TypeOK, SocketState
<1>4. TypeOK'
  BY <1>1, EmptySeq DEF SlotTaken, TypeOK, SocketState
<1>5. PassOK' /\ Alive'
  BY <1>1, <1>2, <1>3 DEF PassOK, Alive, Undisturbed, InCall
<1>6. SlotsOK'
  BY <1>1, <1>2, <1>3 DEF SlotsOK, Open, HasData
<1>7. Remembered'
  BY <1>1, <1>2, <1>3 DEF Remembered, Open, Pending, Undisturbed, InCall
<1>8. SocketsOK'
  BY <1>1, <1>2, <1>3, NothingRises DEF SocketsOK, SocketOK, InProgress
<1> QED
  BY <1>4, <1>5, <1>6, <1>7, <1>8

LEMMA EndThreadKeeps ==
    ASSUME IInv, EndThread
    PROVE  IInv'
<1> USE DEF IInv
<1>1. /\ made' = made /\ wire' = wire /\ pass' = pass /\ sock' = sock
      /\ holders' = holders /\ Undisturbed /\ ~ubt'.run
  BY DEF EndThread, TypeOK, ThrottlerState
<1>2. TypeOK'
  BY <1>1 DEF EndThread, TypeOK, ThrottlerState
<1>3. PassOK' /\ Alive'
  BY <1>1 DEF PassOK, Alive, Undisturbed, InCall
<1>4. SlotsOK' /\ Remembered' /\ SocketsOK'
  BY <1>1 DEF SlotsOK, Remembered, SocketsOK, Open
<1> QED
  BY <1>2, <1>3, <1>4

----
(* The pass: the loops of the throttler.                                   *)

LEMMA StopKeeps ==
    ASSUME IInv, Stop
    PROVE  IInv'
<1> USE DEF IInv
<1>1. /\ made' = made /\ wire' = wire /\ sock' = sock /\ holders' = holders
      /\ ~ubt'.run /\ pass'.at = "ended"
  BY DEF Stop, TypeOK, ThrottlerState, PassState
<1>2. TypeOK'
  BY <1>1, EmptySeq DEF Stop, TypeOK, ThrottlerState, PassState
<1>3. PassOK' /\ Alive'
  BY <1>1 DEF PassOK, Alive, Undisturbed, InCall
<1>4. SlotsOK' /\ Remembered' /\ SocketsOK'
  BY <1>1 DEF SlotsOK, Remembered, SocketsOK, Open
<1> QED
  BY <1>2, <1>3, <1>4

(* The sockets that asked since the last pass stay listed.                 *)
LEMMA WakeKeeps ==
    ASSUME IInv, NEW budget \in Budgets, Wake(budget)
    PROVE  IInv'
<1> USE DEF IInv
<1>1. /\ made' = made /\ wire' = wire /\ sock' = sock /\ holders' = holders /\ holders \subseteq Sockets
      /\ Undisturbed /\ ubt.run /\ ubt \in ThrottlerState
      /\ pass'.at = "control"
  BY DEF Wake, TypeOK, Undisturbed, Idle
<1>2. /\ ubt' \in ThrottlerState /\ ubt'.run = ubt.run /\ ubt'.order = ubt.order
      /\ \A x : Listed(ubt', x) <=> Listed(ubt, x)
  <2> DEFINE firsts == ubt.first \o ubt.tempFirst
             controls == ubt.control \o ubt.temp
  <2>1. /\ firsts \in Seq(Sockets)
        /\ \A x : Contains(firsts, x) <=> Contains(ubt.first, x) \/ Contains(ubt.tempFirst, x)
    BY <1>1, ConcatElements DEF ThrottlerState
  <2>2. /\ controls \in Seq(Sockets)
        /\ \A x : Contains(controls, x) <=> Contains(ubt.control, x) \/ Contains(ubt.temp, x)
    BY <1>1, ConcatElements DEF ThrottlerState
  <2>3. <<>> \in Seq(Sockets) /\ \A x : ~Contains(<<>>, x)
    BY EmptyElements
  <2>4. ubt' = [ubt EXCEPT !.first = firsts, !.control = controls, !.tempFirst = <<>>, !.temp = <<>>]
    BY <1>1 DEF Wake, ThrottlerState
  <2> HIDE DEF firsts, controls
  <2>5. /\ ubt'.first = firsts /\ ubt'.control = controls /\ ubt'.tempFirst = <<>> /\ ubt'.temp = <<>>
        /\ ubt'.run = ubt.run /\ ubt'.order = ubt.order /\ ubt'.remembered = ubt.remembered
    BY <1>1, <2>4 DEF ThrottlerState
  <2>6. ubt' \in ThrottlerState
    BY <1>1, <2>1, <2>2, <2>3, <2>4 DEF ThrottlerState
  <2> QED
    BY <2>1, <2>2, <2>3, <2>5, <2>6 DEF Listed
<1>3. TypeOK'
  <2>1. pass' \in PassState
    <3>1. budget \in Nat
      BY ThrottlerAssumption
    <3>2. Idle \in PassState
      BY IdleType
    <3> QED
      BY <3>1, <3>2 DEF Wake, PassState
  <2> QED
    BY <1>1, <1>2, <2>1 DEF TypeOK
<1>4. PassOK' /\ Alive'
  BY <1>1, <1>2 DEF PassOK, Alive, Undisturbed, InCall
<1>5. SlotsOK'
  BY <1>1, <1>2 DEF SlotsOK, Open
<1>6. Remembered'
  BY <1>1, <1>2 DEF Remembered, Open, Pending, InCall, Undisturbed
<1>7. SocketsOK'
  BY <1>1 DEF SocketsOK
<1> QED
  BY <1>3, <1>4, <1>5, <1>6, <1>7

(* What is left to prove of a loop that calls a socket, or that goes on to  *)
(* the next loop, with the slots as they were.                             *)
LEMMA LoopKeeps ==
    ASSUME IInv, ~InCall, ~Undisturbed,
           sock' = sock, holders' = holders, made' = made, wire' = wire,
           ubt' \in ThrottlerState, ubt'.run = ubt.run, ubt'.order = ubt.order,
           pass' \in PassState,
           pass'.at \in {"control", "trickle", "share", "enter", "idle"},
           pass'.at \in {"trickle", "share"} => pass'.slots = Len(ubt.order),
           pass'.at = "enter" =>
              /\ pass'.call.sock \in Sockets /\ Listed(ubt, pass'.call.sock)
              /\ pass'.call.back \in {"control", "trickle", "share"}
              /\ pass'.call.back # "control" => pass'.slots = Len(ubt.order)
              /\ ~pass'.call.only => Contains(ubt.order, pass'.call.sock),
           \A x : Listed(ubt', x) => Listed(ubt, x),
           \A x : Listed(ubt, x) => Listed(ubt', x) \/ (pass'.at = "enter" /\ pass'.call.sock = x /\ pass'.call.only)
    PROVE  IInv'
<1> USE DEF IInv
<1>1. ubt.run
  BY DEF PassOK
<1>2. TypeOK'
  BY DEF TypeOK
<1>3. PassOK' /\ Alive'
  BY <1>1 DEF PassOK, Alive, Undisturbed, InCall
<1>4. SlotsOK'
  BY DEF SlotsOK, Open, TypeOK
<1>5. Remembered'
  BY <1>1 DEF Remembered, Open, Pending, InCall
<1>6. SocketsOK'
  BY DEF SocketsOK
<1> QED
  BY <1>2, <1>3, <1>4, <1>5, <1>6

(* A socket of the two queues is taken off, and called to send control      *)
(* packets only.                                                           *)
LEMMA ControlLoopKeeps ==
    ASSUME IInv, ControlLoop
    PROVE  IInv'
<1>1. /\ made' = made /\ wire' = wire /\ sock' = sock /\ holders' = holders
      /\ ~Undisturbed /\ ~InCall /\ ubt \in ThrottlerState /\ pass \in PassState
  BY DEF IInv, ControlLoop, TypeOK, Undisturbed, InCall
<1>2. Left \in Int /\ Frag \in Nat \ {0}
  BY <1>1, ThrottlerAssumption DEF Left, PassState
<1>3. ASSUME NEW list \in {"first", "control"}, ubt[list] # <<>>,
             ubt' = [ubt EXCEPT ![list] = Tail(@)],
             pass' = [pass EXCEPT !.at = "enter", !.call = Call(Head(ubt[list]), Left, Frag, TRUE, "control")]
      PROVE  IInv'
  <2> DEFINE s == Head(ubt[list])
             call == Call(s, Left, Frag, TRUE, "control")
  <2>1. /\ Tail(ubt[list]) \in Seq(Sockets) /\ s \in Sockets
        /\ \A x : Contains(ubt[list], x) <=> Contains(Tail(ubt[list]), x) \/ x = s
    <3>1. ubt[list] \in Seq(Sockets)
      BY <1>1 DEF ThrottlerState
    <3> QED
      BY <1>3, <3>1, TailElements
  <2>2. call \in CallState /\ call.sock = s /\ call.only /\ call.back = "control"
    BY <1>2, <2>1 DEF Call, NoCall, CallState
  <2>3. ubt' \in ThrottlerState /\ ubt'.run = ubt.run /\ ubt'.order = ubt.order
    BY <1>1, <1>3, <2>1 DEF ThrottlerState
  <2>4. \A x : Listed(ubt, x) <=> Listed(ubt', x) \/ x = s
    <3>1. CASE list = "first"
      BY <1>1, <1>3, <2>1, <3>1 DEF ThrottlerState, Listed
    <3>2. CASE list = "control"
      BY <1>1, <1>3, <2>1, <3>2 DEF ThrottlerState, Listed
    <3> QED
      BY <3>1, <3>2
  <2> HIDE DEF call, s
  <2>5. pass' \in PassState /\ pass'.at = "enter" /\ pass'.call = call
    BY <1>1, <1>3, <2>2 DEF PassState, call, s
  <2> QED
    BY <1>1, <2>1, <2>2, <2>3, <2>4, <2>5, LoopKeeps
<1>4. ASSUME pass' = [pass EXCEPT !.at = "trickle", !.slots = Len(ubt.order), !.counter = 0], ubt' = ubt
      PROVE  IInv'
  <2>1. Len(ubt.order) \in Nat
    BY <1>1, LenProperties DEF ThrottlerState
  <2>2. pass' \in PassState /\ pass'.at = "trickle" /\ pass'.slots = Len(ubt.order)
    BY <1>1, <1>4, <2>1 DEF PassState
  <2> QED
    BY <1>1, <1>4, <2>2, LoopKeeps
<1> QED
  BY <1>3, <1>4 DEF ControlLoop

LEMMA SlotIsListed ==
    ASSUME ubt \in ThrottlerState, NEW i \in 1..Len(ubt.order)
    PROVE  /\ ubt.order[i] \in Sockets
           /\ Listed(ubt, ubt.order[i]) /\ Contains(ubt.order, ubt.order[i])
<1>1. ubt.order \in Seq(Sockets)
  BY DEF ThrottlerState
<1> QED
  BY <1>1 DEF Listed, Contains

LEMMA TrickleLoopKeeps ==
    ASSUME IInv, TrickleLoop
    PROVE  IInv'
<1>1. /\ made' = made /\ wire' = wire /\ sock' = sock /\ holders' = holders /\ ubt' = ubt
      /\ ~Undisturbed /\ ~InCall /\ ubt \in ThrottlerState /\ pass \in PassState
      /\ pass.at = "trickle" /\ pass.slots = Len(ubt.order) /\ pass.slots \in Nat /\ pass.counter \in Nat
  BY DEF IInv, TrickleLoop, TypeOK, Undisturbed, InCall, PassOK, PassState
<1>2. Frag \in Nat \ {0}
  BY ThrottlerAssumption
<1>3. CASE pass.counter < pass.slots
  <2> DEFINE s == ubt.order[pass.counter + 1]
  <2>1. s \in Sockets /\ Listed(ubt, s) /\ Contains(ubt.order, s)
    BY <1>1, <1>3, SlotIsListed
  <2>2. \A needed \in NeededBytes(sock[s]) : needed \in Int
    <3>1. sock[s] \in SocketState
      BY <2>1 DEF IInv, TypeOK
    <3>2. sock[s].standard # <<>> => Head(sock[s].standard) \in Packet
      BY <3>1, HeadTailProperties DEF SocketState
    <3>3. \A p \in Packet : p.size \in Int
      BY DEF Packet
    <3>4. sock[s].sent \in Int /\ sock[s].buffer.size \in Int
      BY <3>1, <3>3, NoPacket DEF SocketState
    <3> QED
      BY <3>2, <3>3, <3>4 DEF NeededBytes
  <2>3. PICK needed \in {0} \cup NeededBytes(sock[s]) :
           pass' = [pass EXCEPT !.counter = @ + 1,
                      !.at = IF needed > 0 THEN "enter" ELSE @,
                      !.call = IF needed > 0 THEN Call(s, needed, Frag, FALSE, "trickle") ELSE @]
    <3>1. ~(pass.counter >= pass.slots)
      BY <1>1, <1>3
    <3> QED
      BY <3>1, Zenon DEF TrickleLoop
  <2> DEFINE call == Call(s, needed, Frag, FALSE, "trickle")
  <2>4. call \in CallState /\ call.sock = s /\ ~call.only /\ call.back = "trickle"
    <3>1. needed \in Int
      BY <2>2
    <3> QED
      BY <1>2, <2>1, <3>1 DEF Call, NoCall, CallState
  <2> DEFINE next == pass.counter + 1
  <2>7. /\ next \in Nat
        /\ needed > 0 => pass' = [pass EXCEPT !.counter = next, !.at = "enter", !.call = call]
        /\ ~(needed > 0) => pass' = [pass EXCEPT !.counter = next, !.at = @, !.call = @]
    <3>1. next \in Nat
      BY <1>1
    <3>2. CASE needed > 0
      BY <2>3, <3>1, <3>2
    <3>3. CASE ~(needed > 0)
      BY <2>3, <3>1, <3>3
    <3> QED
      BY <3>1, <3>2, <3>3
  <2> HIDE DEF call, s, next
  <2>5. CASE needed > 0
    <3>2. pass' \in PassState /\ pass'.at = "enter" /\ pass'.call = call /\ pass'.slots = pass.slots
      BY <1>1, <2>4, <2>5, <2>7 DEF PassState
    <3> QED
      BY <1>1, <2>1, <2>4, <3>2, LoopKeeps
  <2>6. CASE ~(needed > 0)
    <3>1. pass' \in PassState /\ pass'.at = "trickle" /\ pass'.slots = pass.slots
      BY <1>1, <2>6, <2>7 DEF PassState
    <3> QED
      BY <1>1, <3>1, LoopKeeps
  <2> QED
    BY <2>5, <2>6
<1>4. CASE ~(pass.counter < pass.slots)
  <2>1. pass' = [pass EXCEPT !.at = "share", !.counter = 0]
    BY <1>4 DEF TrickleLoop
  <2>2. pass' \in PassState /\ pass'.at = "share" /\ pass'.slots = pass.slots
    BY <1>1, <2>1 DEF PassState
  <2> QED
    BY <1>1, <2>2, LoopKeeps
<1> QED
  BY <1>3, <1>4

LEMMA ShareLoopKeeps ==
    ASSUME IInv, ShareLoop
    PROVE  IInv'
<1>1. /\ made' = made /\ wire' = wire /\ sock' = sock /\ holders' = holders
      /\ ~Undisturbed /\ ~InCall /\ ubt \in ThrottlerState /\ pass \in PassState
      /\ pass.slots = Len(ubt.order) /\ pass.slots \in Nat /\ pass.counter \in Nat
      /\ ubt.remembered \in Nat
  BY DEF IInv, ShareLoop, TypeOK, Undisturbed, InCall, PassOK, PassState, ThrottlerState
<1>2. Left \in Int /\ Double \in Nat \ {0}
  BY <1>1, ThrottlerAssumption DEF Left, PassState
<1>3. CASE pass.counter < 2 * pass.slots /\ Left > 0
  <2> DEFINE i == IF ubt.remembered >= pass.slots THEN 0 ELSE ubt.remembered
             data == IF pass.counter < pass.slots - 1 THEN Double ELSE Left
             s == ubt.order[i + 1]
             call == Call(s, data, Double, FALSE, "share")
             next == pass.counter + 1
             place == i + 1
  <2>1. /\ pass' = [pass EXCEPT !.at = "enter", !.counter = next, !.call = call]
        /\ ubt' = [ubt EXCEPT !.remembered = place]
    <3>1. ~(pass.counter >= 2 * pass.slots \/ Left <= 0)
      BY <1>1, <1>2, <1>3
    <3> QED
      BY <3>1, Zenon DEF ShareLoop
  <2>2. next \in Nat /\ place \in Nat /\ i + 1 \in 1..Len(ubt.order) /\ data \in Int
    BY <1>1, <1>2, <1>3
  <2>3. s \in Sockets /\ Listed(ubt, s) /\ Contains(ubt.order, s)
    BY <1>1, <2>2, SlotIsListed
  <2>4. call \in CallState /\ call.sock = s /\ ~call.only /\ call.back = "share"
    BY <1>2, <2>2, <2>3 DEF Call, NoCall, CallState
  <2> HIDE DEF i, data, s, call, next, place
  <2>5. /\ ubt' \in ThrottlerState /\ ubt'.run = ubt.run /\ ubt'.order = ubt.order
        /\ \A x : Listed(ubt', x) <=> Listed(ubt, x)
    BY <1>1, <2>1, <2>2 DEF ThrottlerState, Listed
  <2>6. pass' \in PassState /\ pass'.at = "enter" /\ pass'.call = call /\ pass'.slots = pass.slots
    BY <1>1, <2>1, <2>2, <2>4 DEF PassState
  <2> QED
    BY <1>1, <2>3, <2>4, <2>5, <2>6, LoopKeeps
<1>4. CASE ~(pass.counter < 2 * pass.slots /\ Left > 0)
  <2>1. pass' = Idle /\ ubt' = ubt
    BY <1>4 DEF ShareLoop
  <2> QED
    BY <1>1, <2>1, IdleType, LoopKeeps
<1> QED
  BY <1>3, <1>4

----
(* The pass: the calls of Send.                                            *)

(* What is known of a socket while it is called.                           *)
LEMMA InCallFacts ==
    ASSUME IInv, InCall
    PROVE  /\ pass.call.sock \in Sockets /\ pass.call \in CallState /\ pass \in PassState
           /\ sock[pass.call.sock] \in SocketState /\ wire[pass.call.sock] \in WireState
           /\ SocketOK(sock[pass.call.sock], wire[pass.call.sock], made) /\ made \in Nat
           /\ sock[pass.call.sock].con # "deleted"
           /\ ubt.run /\ ~Undisturbed /\ ubt \in ThrottlerState
           /\ pass.call.back \in {"control", "trickle", "share"}
           /\ pass.call.back # "control" => pass.slots = Len(ubt.order)
           /\ ~pass.call.only => Contains(ubt.order, pass.call.sock)
<1>1. ~Undisturbed
  BY DEF InCall, Undisturbed
<1>2. pass \in PassState /\ pass.call \in CallState
  BY DEF IInv, TypeOK, PassState
<1> QED
  BY <1>1, <1>2 DEF IInv, TypeOK, PassOK, Alive, SocketsOK

(* The socket of a call has data or a packet in progress only if it is in   *)
(* the list of slots, or is sending a control packet.                       *)
LEMMA BusyIsListed ==
    ASSUME IInv, InCall, NEW s \in Sockets, Open(s), sock[s].buffer # None
    PROVE  sock[s].isControl \/ Listed(ubt, s)
BY InCallFacts DEF IInv, SlotsOK, HasData, Listed

(* The call returns: no more is known of the pass, and a socket that was    *)
(* only called for its control packets is listed again, or waits for OnSend. *)
LEMMA ReturnKeeps ==
    ASSUME IInv, InCall, Return(pass.call),
           sock' = sock, holders' = holders, made' = made, wire' = wire,
           ubt' \in ThrottlerState, ubt'.run = ubt.run, ubt'.order = ubt.order,
           \A x : Listed(ubt, x) => Listed(ubt', x),
           \A x : Listed(ubt', x) => Listed(ubt, x) \/ x = pass.call.sock,
           pass.call.only /\ Open(pass.call.sock) /\ Pending(pass.call.sock) =>
              \/ Listed(ubt', pass.call.sock)
              \/ sock[pass.call.sock].busy /\ sock[pass.call.sock].isControl
    PROVE  IInv'
<1> DEFINE c == pass.call
           spent == pass.spent + Total(c)
<1>1. /\ c.sock \in Sockets /\ c.back \in {"control", "trickle", "share"} /\ ubt.run
      /\ c.back # "control" => pass.slots = Len(ubt.order)
      /\ sock[c.sock].con # "deleted" /\ pass \in PassState /\ c \in CallState
  BY InCallFacts
<1>2. spent \in Nat
  BY <1>1 DEF PassState, CallState, Total
<1>3. pass' = [pass EXCEPT !.at = c.back, !.spent = spent, !.call = NoCall]
  BY DEF Return
<1> HIDE DEF spent
<1>4. pass' \in PassState /\ pass'.at = c.back /\ pass'.slots = pass.slots
  BY <1>1, <1>2, <1>3, IdleType DEF PassState
<1>5. TypeOK'
  BY <1>4 DEF IInv, TypeOK
<1>6. PassOK' /\ Alive'
  BY <1>1, <1>4 DEF IInv, PassOK, Alive, Undisturbed, InCall
<1>7. SlotsOK'
  BY DEF IInv, SlotsOK, Open, TypeOK
<1>8. Remembered'
  BY <1>1, <1>4 DEF IInv, Remembered, Open, Pending, InCall
<1>9. SocketsOK'
  BY DEF IInv, SocketsOK
<1> QED
  BY <1>5, <1>6, <1>7, <1>8, <1>9 DEF IInv

LEMMA Requeueing ==
    ASSUME IInv, InCall, Requeue(pass.call)
    PROVE  /\ ubt' \in ThrottlerState /\ ubt'.run = ubt.run /\ ubt'.order = ubt.order
           /\ \A x : Listed(ubt, x) => Listed(ubt', x)
           /\ \A x : Listed(ubt', x) => Listed(ubt, x) \/ x = pass.call.sock
           /\ pass.call.only /\ Pending(pass.call.sock) => Listed(ubt', pass.call.sock)
<1>1. /\ pass.call.sock \in Sockets /\ ubt \in ThrottlerState /\ ubt.run
      /\ sock[pass.call.sock].hasSent \in BOOLEAN
  BY InCallFacts DEF SocketState
<1>2. CASE pass.call.only /\ Pending(pass.call.sock)
  <2>1. ubt' = QueueForSendingControlPacket(ubt, pass.call.sock, sock[pass.call.sock].hasSent)
    BY <1>2 DEF Requeue
  <2> QED
    BY <1>1, <2>1, Queueing
<1>3. CASE ~(pass.call.only /\ Pending(pass.call.sock))
  BY <1>1, <1>3 DEF Requeue
<1> QED
  BY <1>2, <1>3

(* A socket that is refused because it is busy with client data is a slot. *)
LEMMA EnterKeeps ==
    ASSUME IInv, Enter
    PROVE  IInv'
<1> DEFINE c == pass.call
           k == sock[c.sock]
<1>1. /\ InCall /\ pass.at = "enter" /\ holders' = holders /\ made' = made /\ wire' = wire
  BY DEF Enter, InCall
<1>2. /\ c.sock \in Sockets /\ c \in CallState /\ pass \in PassState /\ ubt.run /\ ubt \in ThrottlerState
      /\ c.back \in {"control", "trickle", "share"}
      /\ c.back # "control" => pass.slots = Len(ubt.order)
      /\ ~c.only => Contains(ubt.order, c.sock)
      /\ k.con # "deleted" /\ SocketOK(k, wire[c.sock], made)
  BY <1>1, InCallFacts
<1>3. CASE Refused(c, k) /\ Return(c) /\ UNCHANGED <<sock, ubt>>
  <2>1. Open(c.sock) => sock[c.sock].buffer # None
    BY <1>2, <1>3 DEF Refused, SocketOK, Open
  <2>2. Open(c.sock) => Listed(ubt, c.sock) \/ (sock[c.sock].busy /\ sock[c.sock].isControl)
    BY <1>1, <1>2, <1>3, <2>1, BusyIsListed DEF Refused, Open
  <2> QED
    BY <1>1, <1>2, <1>3, <2>2, ReturnKeeps
<1>4. CASE Return(c) /\ Requeue(c) /\ sock' = sock
  BY <1>1, <1>4, Requeueing, ReturnKeeps
<1>5. ASSUME NEW long \in BOOLEAN, k.con = "connected", ~k.busy, UNCHANGED <<sock, ubt>>,
             pass' = [pass EXCEPT !.at = "send", !.call.long = long, !.call.max = RoundUp(c.max, c.frag)]
      PROVE  IInv'
  <2>1. RoundUp(c.max, c.frag) \in Int
    BY <1>2, RoundUpType DEF CallState
  <2> DEFINE max == RoundUp(c.max, c.frag)
             call == [c EXCEPT !.long = long, !.max = max]
  <2> HIDE DEF max
  <2>2. /\ call \in CallState /\ call.sock = c.sock /\ call.only = c.only /\ call.back = c.back
        /\ pass' = [pass EXCEPT !.at = "send", !.call = call]
    BY <1>2, <1>5, <2>1 DEF CallState, PassState, max
  <2> HIDE DEF call
  <2>3. pass' \in PassState /\ pass'.at = "send" /\ pass'.call = call /\ pass'.slots = pass.slots
    BY <1>2, <2>2 DEF PassState
  <2>4. TypeOK'
    BY <1>1, <1>5, <2>3 DEF IInv, TypeOK
  <2>5. PassOK' /\ Alive'
    BY <1>1, <1>2, <1>5, <2>2, <2>3 DEF IInv, PassOK, Alive, Undisturbed, InCall
  <2>6. SlotsOK'
    BY <1>1, <1>5 DEF IInv, SlotsOK, Open, TypeOK
  <2>7. Remembered'
    BY <1>1, <1>5, <2>2, <2>3 DEF IInv, Remembered, Open, Pending, InCall
  <2>8. SocketsOK'
    BY <1>1, <1>5 DEF IInv, SocketsOK
  <2> QED
    BY <2>4, <2>5, <2>6, <2>7, <2>8 DEF IInv
<1> QED
  BY <1>3, <1>4, <1>5 DEF Enter

(* The call goes on: only its socket changes, and what was put on the      *)
(* connection; nobody is forgotten, for the call itself remembers.         *)
LEMMA CallGoesOn ==
    ASSUME IInv, InCall, ubt' = ubt, holders' = holders, made' = made,
           sock' \in [Sockets -> SocketState], wire' \in [Sockets -> WireState], pass' \in PassState,
           \A t \in Sockets : t # pass.call.sock => sock'[t] = sock[t] /\ wire'[t] = wire[t],
           pass'.at \in {"send", "write"}, pass'.slots = pass.slots,
           pass'.call.sock = pass.call.sock, pass'.call.only = pass.call.only,
           pass'.call.back = pass.call.back,
           sock'[pass.call.sock].con = "connected", sock[pass.call.sock].con = "connected",
           ~sock'[pass.call.sock].busy,
           pass'.at = "write" => sock'[pass.call.sock].buffer # None,
           HasData(sock'[pass.call.sock]) => HasData(sock[pass.call.sock]),
           SocketOK(sock'[pass.call.sock], wire'[pass.call.sock], made)
    PROVE  IInv'
<1> DEFINE s == pass.call.sock
<1>1. /\ s \in Sockets /\ ubt.run
      /\ pass.call.back \in {"control", "trickle", "share"}
      /\ pass.call.back # "control" => pass.slots = Len(ubt.order)
      /\ ~pass.call.only => Contains(ubt.order, s)
  BY InCallFacts
<1>2. TypeOK'
  BY DEF IInv, TypeOK
<1>3. PassOK' /\ Alive'
  BY <1>1 DEF IInv, PassOK, Alive, Undisturbed, InCall
<1>4. SlotsOK'
  BY <1>1 DEF IInv, SlotsOK, Open, TypeOK
<1>5. Remembered'
  <2> SUFFICES ASSUME NEW t \in Sockets, Open(t)', Pending(t)'
               PROVE  \/ Listed(ubt', t)
                      \/ sock'[t].busy /\ sock'[t].isControl
                      \/ InCall' /\ pass'.call.sock = t /\ pass'.call.only
    BY DEF Remembered
  <2>1. CASE t = s
    BY <1>1, <2>1 DEF Listed, InCall
  <2>2. CASE t # s
    BY <1>1, <2>2 DEF IInv, Remembered, Open, Pending, InCall
  <2> QED
    BY <2>1, <2>2
<1>6. SocketsOK'
  BY DEF IInv, SocketsOK
<1> QED
  BY <1>2, <1>3, <1>4, <1>5, <1>6 DEF IInv

(* The next packet is the head of a queue: it follows what is on the        *)
(* connection, and goes before all that waits.                             *)
LEMMA PickPacketOK ==
    ASSUME NEW k \in SocketState, NEW w \in WireState, NEW n \in Nat, SocketOK(k, w, n),
           k.con = "connected", k.control # <<>> \/ k.standard # <<>> \/ k.buffer # None
    PROVE  LET new == PickPacket(k) IN
           /\ new \in SocketState /\ new.con = "connected" /\ new.busy = k.busy /\ new.buffer # None
           /\ HasData(new) => HasData(k)
           /\ SocketOK(new, w, n)
<1>1. /\ k.control \in Seq(Packet) /\ k.standard \in Seq(Packet)
      /\ w.packet.control \in BOOLEAN
  BY NoPacket DEF SocketState, WireState, Packet
<1>2. /\ Rising(k.control, n) /\ Rising(k.standard, n)
      /\ AllControl(k.control) /\ AllData(k.standard)
      /\ Before(w.packet, k.control) /\ Before(w.packet, k.standard) /\ w.packet.id <= n
  BY DEF SocketOK
<1>3. CASE k.buffer # None
  <2>1. PickPacket(k) = k
    BY <1>3 DEF PickPacket
  <2> QED
    BY <1>3, <2>1
<1>4. CASE k.buffer = None /\ k.control # <<>>
  <2> DEFINE p == Head(k.control)
             rest == Tail(k.control)
             new == [k EXCEPT !.buffer = p, !.control = rest, !.sent = 0, !.isControl = TRUE]
  <2>1. PickPacket(k) = new
    BY <1>4 DEF PickPacket
  <2>2. /\ p \in Packet /\ rest \in Seq(Packet) /\ p.id <= n
        /\ Rising(rest, n) /\ Before(p, rest) /\ p.control /\ AllControl(rest)
        /\ Before(w.packet, rest) /\ (w.packet.control = p.control => w.packet.id < p.id)
    BY <1>1, <1>2, <1>4, RisingTail
  <2>3. Before(p, k.standard)
    BY <1>1, <1>2, <2>2, OtherKind
  <2>4. w.to = w.packet.size /\ ~k.busy
    BY <1>4 DEF SocketOK
  <2>5. p # None /\ p.size \in Nat /\ p.control = TRUE
    BY <2>2, NoPacket DEF Packet
  <2> HIDE DEF p, rest
  <2>6. /\ new.con = k.con /\ new.buffer = p /\ new.control = rest /\ new.standard = k.standard
        /\ new.sent = 0 /\ new.isControl = TRUE /\ new.busy = k.busy
    BY DEF SocketState
  <2>7. new \in SocketState
    BY <2>2 DEF SocketState
  <2> HIDE DEF new
  <2>8. InProgress(new, w)
    <3>1. new.sent <= new.buffer.size /\ ~(new.sent > 0)
      BY <2>5, <2>6
    <3>2. new.isControl = new.buffer.control
      BY <2>5, <2>6
    <3>3. Before(new.buffer, new.control) /\ Before(new.buffer, new.standard)
      BY <2>2, <2>3, <2>6
    <3>4. w.to = w.packet.size /\ (w.packet.control = new.buffer.control => w.packet.id < new.buffer.id)
      BY <2>2, <2>4, <2>6
    <3> QED
      BY <3>1, <3>2, <3>3, <3>4 DEF InProgress
  <2>9. SocketOK(new, w, n)
    BY <1>2, <2>2, <2>5, <2>6, <2>8 DEF SocketOK
  <2> QED
    BY <1>4, <2>1, <2>5, <2>6, <2>7, <2>9 DEF HasData
<1>5. CASE k.buffer = None /\ k.control = <<>>
  <2> DEFINE p == Head(k.standard)
             rest == Tail(k.standard)
             new == [k EXCEPT !.buffer = p, !.standard = rest, !.sent = 0, !.isControl = FALSE]
  <2>1. PickPacket(k) = new /\ k.standard # <<>>
    BY <1>5 DEF PickPacket
  <2>2. /\ p \in Packet /\ rest \in Seq(Packet) /\ p.id <= n
        /\ Rising(rest, n) /\ Before(p, rest) /\ ~p.control /\ AllData(rest)
        /\ Before(w.packet, rest) /\ (w.packet.control = p.control => w.packet.id < p.id)
    BY <1>1, <1>2, <2>1, RisingTail
  <2>3. Before(p, k.control)
    BY <1>1, <1>2, <2>2, OtherKind
  <2>4. w.to = w.packet.size /\ ~k.busy
    BY <1>5 DEF SocketOK
  <2>5. p # None /\ p.size \in Nat /\ p.control = FALSE
    BY <2>2, NoPacket DEF Packet
  <2> HIDE DEF p, rest
  <2>6. /\ new.con = k.con /\ new.buffer = p /\ new.control = k.control /\ new.standard = rest
        /\ new.sent = 0 /\ new.isControl = FALSE /\ new.busy = k.busy
    BY DEF SocketState
  <2>7. new \in SocketState
    BY <2>2 DEF SocketState
  <2> HIDE DEF new
  <2>8. InProgress(new, w)
    <3>1. new.sent <= new.buffer.size /\ ~(new.sent > 0)
      BY <2>5, <2>6
    <3>2. new.isControl = new.buffer.control
      BY <2>5, <2>6
    <3>3. Before(new.buffer, new.control) /\ Before(new.buffer, new.standard)
      BY <2>2, <2>3, <2>6
    <3>4. w.to = w.packet.size /\ (w.packet.control = new.buffer.control => w.packet.id < new.buffer.id)
      BY <2>2, <2>4, <2>6
    <3> QED
      BY <3>1, <3>2, <3>3, <3>4 DEF InProgress
  <2>9. SocketOK(new, w, n)
    BY <1>2, <2>2, <2>5, <2>6, <2>8 DEF SocketOK
  <2> QED
    BY <1>5, <2>1, <2>5, <2>6, <2>7, <2>9 DEF HasData
<1> QED
  BY <1>3, <1>4, <1>5

LEMMA SendLoopKeeps ==
    ASSUME IInv, SendLoop
    PROVE  IInv'
<1> DEFINE c == pass.call
           k == sock[c.sock]
<1>1. /\ InCall /\ pass.at = "send" /\ holders' = holders /\ made' = made /\ wire' = wire
      /\ k.con = "connected" /\ ~k.busy
  BY DEF SendLoop, InCall, IInv, PassOK
<1>2. /\ c.sock \in Sockets /\ pass \in PassState /\ k \in SocketState /\ wire[c.sock] \in WireState
      /\ made \in Nat /\ SocketOK(k, wire[c.sock], made)
      /\ sock \in [Sockets -> SocketState] /\ wire \in [Sockets -> WireState]
  BY <1>1, InCallFacts DEF IInv, TypeOK
<1>3. CASE Continues(c, k) /\ sock' = [sock EXCEPT ![c.sock] = PickPacket(k)] /\ ubt' = ubt
           /\ pass' = [pass EXCEPT !.at = "write"]
  <2>1. k.control # <<>> \/ k.standard # <<>> \/ k.buffer # None
    BY <1>3 DEF Continues
  <2> DEFINE new == PickPacket(k)
  <2>2. /\ new \in SocketState /\ new.con = "connected" /\ new.busy = k.busy /\ new.buffer # None
        /\ HasData(new) => HasData(k)
        /\ SocketOK(new, wire[c.sock], made)
    BY <1>1, <1>2, <2>1, PickPacketOK
  <2> HIDE DEF new
  <2>3. /\ sock' \in [Sockets -> SocketState] /\ sock'[c.sock] = new
        /\ \A t \in Sockets : t # c.sock => sock'[t] = sock[t]
    BY <1>2, <1>3, <2>2 DEF new
  <2>4. pass' \in PassState /\ pass'.at = "write" /\ pass'.call = c /\ pass'.slots = pass.slots
    BY <1>2, <1>3 DEF PassState
  <2> QED
    BY <1>1, <1>2, <1>3, <2>2, <2>3, <2>4, CallGoesOn
<1>4. CASE Return(c) /\ Requeue(c) /\ sock' = sock
  BY <1>1, <1>4, Requeueing, ReturnKeeps
<1> QED
  BY <1>3, <1>4 DEF SendLoop

(* More of the packet in progress is put on the connection.                *)
LEMMA WrittenOK ==
    ASSUME NEW k \in SocketState, NEW w, NEW n, SocketOK(k, w, n), k.con = "connected", k.buffer # None,
           NEW m \in Nat \ {0}, k.sent + m <= k.buffer.size,
           NEW new, new.con = "connected", ~new.busy, new.buffer = k.buffer, new.sent = k.sent + m,
           new.isControl = k.isControl, new.control = k.control, new.standard = k.standard
    PROVE  SocketOK(new, [packet |-> k.buffer, to |-> k.sent + m], n)
<1> DEFINE onWire == [packet |-> k.buffer, to |-> k.sent + m]
<1>1. onWire.packet = k.buffer /\ onWire.to = new.sent
  OBVIOUS
<1>2. new.sent > 0 /\ new.sent <= new.buffer.size
  BY DEF SocketState
<1> HIDE DEF onWire
<1>3. InProgress(k, w)
  BY DEF SocketOK
<1>4. InProgress(new, onWire)
  BY <1>1, <1>2, <1>3 DEF InProgress
<1>5. SocketOK(new, onWire, n)
  BY <1>1, <1>3, <1>4 DEF SocketOK, InProgress
<1> QED
  BY <1>5 DEF onWire

(* What is known before the connection is written to.                      *)
LEMMA WriteFacts ==
    ASSUME IInv, pass.at = "write"
    PROVE  /\ InCall /\ pass.call.sock \in Sockets /\ pass.call \in CallState /\ pass \in PassState
           /\ sock[pass.call.sock] \in SocketState /\ wire[pass.call.sock] \in WireState
           /\ SocketOK(sock[pass.call.sock], wire[pass.call.sock], made) /\ made \in Nat
           /\ sock[pass.call.sock].con = "connected" /\ ~sock[pass.call.sock].busy
           /\ sock[pass.call.sock].buffer # None /\ sock[pass.call.sock].buffer \in Packet
           /\ sock \in [Sockets -> SocketState] /\ wire \in [Sockets -> WireState]
<1>1. InCall
  BY DEF InCall
<1>2. sock \in [Sockets -> SocketState] /\ wire \in [Sockets -> WireState]
  BY DEF IInv, TypeOK
<1>3. \A k \in SocketState : k.buffer # None => k.buffer \in Packet
  BY DEF SocketState
<1> QED
  BY <1>1, <1>2, <1>3, InCallFacts DEF IInv, PassOK

(* The effect of a write that took something: so much more of the packet in *)
(* progress is on the connection.                                          *)
LEMMA WriteSomeEffect ==
    ASSUME IInv, NEW s \in Sockets, WriteSome(s)
    PROVE  \E n \in Nat \ {0} :
              /\ sock[s].sent + n <= sock[s].buffer.size
              /\ wire' = [wire EXCEPT ![s] = [packet |-> sock[s].buffer, to |-> sock[s].sent + n]]
              /\ sock' = [sock EXCEPT ![s].sent = @ + n, ![s].busy = FALSE, ![s].hasSent = TRUE]
              /\ pass' = [pass EXCEPT !.call.control = IF sock[s].isControl THEN @ + n ELSE @,
                                      !.call.standard = IF sock[s].isControl THEN @ ELSE @ + n]
<1>1. PICK n \in 1..ToSend(pass.call, sock[s]) :
          /\ wire' = [wire EXCEPT ![s] = [packet |-> sock[s].buffer, to |-> sock[s].sent + n]]
          /\ sock' = [sock EXCEPT ![s].sent = @ + n, ![s].busy = FALSE, ![s].hasSent = TRUE]
          /\ pass' = [pass EXCEPT !.call.control = IF sock[s].isControl THEN @ + n ELSE @,
                                  !.call.standard = IF sock[s].isControl THEN @ ELSE @ + n]
  BY Zenon DEF WriteSome
<1>2. /\ pass.call \in CallState /\ sock[s] \in SocketState /\ sock[s].buffer # None
      /\ sock[s].buffer \in Packet
  BY WriteFacts DEF WriteSome
<1>3. /\ ToSend(pass.call, sock[s]) \in Int
      /\ ToSend(pass.call, sock[s]) <= sock[s].buffer.size - sock[s].sent
  BY <1>2, OfferedIsLeft
<1>4. sock[s].buffer.size \in Nat /\ sock[s].sent \in Nat
  BY <1>2 DEF SocketState, Packet
<1>5. n \in Nat \ {0} /\ sock[s].sent + n <= sock[s].buffer.size
  BY <1>3, <1>4
<1> QED
  BY <1>1, <1>5, Zenon

LEMMA WriteSomeKeeps ==
    ASSUME IInv, NEW s \in Sockets, WriteSome(s)
    PROVE  IInv'
<1> DEFINE c == pass.call
           k == sock[s]
<1>1. PICK n \in Nat \ {0} :
          /\ k.sent + n <= k.buffer.size
          /\ wire' = [wire EXCEPT ![s] = [packet |-> k.buffer, to |-> k.sent + n]]
          /\ sock' = [sock EXCEPT ![s].sent = @ + n, ![s].busy = FALSE, ![s].hasSent = TRUE]
          /\ pass' = [pass EXCEPT !.call.control = IF k.isControl THEN @ + n ELSE @,
                                  !.call.standard = IF k.isControl THEN @ ELSE @ + n]
  BY WriteSomeEffect
<1>2. /\ pass.at = "write" /\ c.sock = s /\ ubt' = ubt /\ holders' = holders /\ made' = made
  BY DEF WriteSome
<1>3. /\ InCall /\ c \in CallState /\ pass \in PassState /\ k \in SocketState
      /\ SocketOK(k, wire[s], made) /\ k.con = "connected" /\ ~k.busy /\ k.buffer # None
      /\ k.buffer \in Packet
      /\ sock \in [Sockets -> SocketState] /\ wire \in [Sockets -> WireState]
  BY <1>2, WriteFacts
<1> DEFINE sum == k.sent + n
           onWire == [packet |-> k.buffer, to |-> sum]
           new == [k EXCEPT !.sent = sum, !.busy = FALSE, !.hasSent = TRUE]
<1>4. sum \in Nat /\ sock' = [sock EXCEPT ![s] = new]
  <2>1. sum \in Nat
    BY <1>3 DEF SocketState
  <2>2. sock' = [sock EXCEPT ![s].sent = sum, ![s].busy = FALSE, ![s].hasSent = TRUE]
    BY <1>1
  <2> HIDE DEF sum
  <2>3. sock' = [sock EXCEPT ![s] = new]
    BY <1>3, <2>2 DEF SocketState
  <2> QED
    BY <2>1, <2>3
<1>5. wire' = [wire EXCEPT ![s] = onWire]
  BY <1>1
<1> HIDE DEF sum
<1>6. onWire \in WireState
  BY <1>3, <1>4 DEF WireState
<1>7. /\ new \in SocketState /\ new.con = "connected" /\ ~new.busy /\ new.buffer = k.buffer
      /\ new.sent = sum /\ new.isControl = k.isControl /\ new.control = k.control
      /\ new.standard = k.standard
  BY <1>3, <1>4 DEF SocketState
<1> HIDE DEF new
<1>8. SocketOK(new, onWire, made)
  BY <1>1, <1>3, <1>7, WrittenOK DEF sum
<1> HIDE DEF onWire
<1>9. /\ sock' \in [Sockets -> SocketState] /\ sock'[s] = new
      /\ wire' \in [Sockets -> WireState] /\ wire'[s] = onWire
      /\ \A t \in Sockets : t # s => sock'[t] = sock[t] /\ wire'[t] = wire[t]
  BY <1>3, <1>4, <1>5, <1>6, <1>7
<1>10. /\ pass' \in PassState /\ pass'.at = "write" /\ pass'.slots = pass.slots
       /\ pass'.call.sock = c.sock /\ pass'.call.only = c.only /\ pass'.call.back = c.back
  <2> DEFINE controls == IF k.isControl THEN c.control + n ELSE c.control
             standards == IF k.isControl THEN c.standard ELSE c.standard + n
             call == [c EXCEPT !.control = controls, !.standard = standards]
  <2>1. controls \in Nat /\ standards \in Nat
    BY <1>3 DEF CallState
  <2>2. pass' = [pass EXCEPT !.call = call]
    BY <1>1, <1>3 DEF PassState, CallState
  <2> HIDE DEF controls, standards
  <2>3. call \in CallState /\ call.sock = c.sock /\ call.only = c.only /\ call.back = c.back
    BY <1>3, <2>1 DEF CallState
  <2> HIDE DEF call
  <2> QED
    BY <1>2, <1>3, <2>2, <2>3 DEF PassState
<1>11. HasData(sock'[s]) => HasData(sock[s])
  BY <1>7, <1>9 DEF HasData
<1> QED
  BY <1>2, <1>3, <1>7, <1>8, <1>9, <1>10, <1>11, CallGoesOn

(* A connection that can take no more leaves the call at once: if a control *)
(* packet is in progress OnSend asks again, if not the socket is a slot.    *)
LEMMA WriteFailsKeeps ==
    ASSUME IInv, WriteFails
    PROVE  IInv'
<1> DEFINE c == pass.call
           s == c.sock
           k == sock[s]
<1>1. /\ pass.at = "write" /\ ubt' = ubt /\ holders' = holders /\ made' = made /\ wire' = wire
  BY DEF WriteFails
<1>2. /\ InCall /\ s \in Sockets /\ c \in CallState /\ pass \in PassState /\ k \in SocketState
      /\ SocketOK(k, wire[s], made) /\ k.con = "connected" /\ ~k.busy /\ k.buffer # None
      /\ sock \in [Sockets -> SocketState] /\ wire \in [Sockets -> WireState]
  BY <1>1, WriteFacts
<1>3. CASE sock' = [sock EXCEPT ![s].busy = TRUE] /\ Return(c)
  <2> DEFINE spent == pass.spent + Total(c)
  <2>1. /\ ubt.run /\ c.back \in {"control", "trickle", "share"}
        /\ c.back # "control" => pass.slots = Len(ubt.order)
    BY <1>2, InCallFacts
  <2>2. /\ sock' \in [Sockets -> SocketState]
        /\ sock'[s].con = k.con /\ sock'[s].busy /\ sock'[s].buffer = k.buffer
        /\ sock'[s].sent = k.sent /\ sock'[s].isControl = k.isControl
        /\ sock'[s].control = k.control /\ sock'[s].standard = k.standard
        /\ \A t \in Sockets : t # s => sock'[t] = sock[t]
    BY <1>2, <1>3 DEF SocketState
  <2>3. spent \in Nat
    BY <1>2 DEF PassState, CallState, Total
  <2>4. pass' = [pass EXCEPT !.at = c.back, !.spent = spent, !.call = NoCall]
    BY <1>3 DEF Return
  <2> HIDE DEF spent
  <2>5. pass' \in PassState /\ pass'.at = c.back /\ pass'.slots = pass.slots
    BY <1>2, <2>1, <2>3, <2>4, IdleType DEF PassState
  <2>6. TypeOK'
    BY <1>1, <2>2, <2>5 DEF IInv, TypeOK
  <2>7. PassOK' /\ Alive'
    BY <1>1, <1>2, <2>1, <2>2, <2>5 DEF IInv, PassOK, Alive, Undisturbed, InCall
  <2>8. SlotsOK'
    BY <1>1, <2>2 DEF IInv, SlotsOK, Open, HasData, TypeOK
  <2>9. Remembered'
    <3> SUFFICES ASSUME NEW t \in Sockets, Open(t)', Pending(t)'
                 PROVE  Listed(ubt', t) \/ (sock'[t].busy /\ sock'[t].isControl)
      BY DEF Remembered
    <3>1. CASE t = s
      BY <1>1, <1>2, <2>2, <3>1, BusyIsListed DEF Open
    <3>2. CASE t # s
      BY <1>1, <2>1, <2>2, <3>2 DEF IInv, Remembered, Open, Pending
    <3> QED
      BY <3>1, <3>2
  <2>10. SocketsOK'
    <3>1. SocketOK(sock'[s], wire[s], made)
      BY <1>2, <2>2 DEF SocketOK, InProgress
    <3> QED
      BY <1>1, <1>2, <2>2, <3>1 DEF IInv, SocketsOK
  <2> QED
    BY <2>6, <2>7, <2>8, <2>9, <2>10 DEF IInv
<1>4. CASE pass' = [pass EXCEPT !.call.error = TRUE] /\ sock' = sock
  <2> DEFINE call == [c EXCEPT !.error = TRUE]
  <2>1. /\ call \in CallState /\ call.sock = s /\ call.only = c.only /\ call.back = c.back
        /\ pass' = [pass EXCEPT !.call = call]
    BY <1>2, <1>4 DEF CallState, PassState
  <2> HIDE DEF call
  <2>2. /\ pass' \in PassState /\ pass'.at = "write" /\ pass'.call = call /\ pass'.slots = pass.slots
    BY <1>1, <1>2, <2>1 DEF PassState
  <2> QED
    BY <1>1, <1>2, <1>4, <2>1, <2>2, CallGoesOn
<1> QED
  BY <1>3, <1>4 DEF WriteFails

LEMMA WriteEndsKeeps ==
    ASSUME IInv, WriteEnds
    PROVE  IInv'
<1> DEFINE c == pass.call
           s == c.sock
           k == sock[s]
<1>1. /\ pass.at = "write" /\ ubt' = ubt /\ holders' = holders /\ made' = made /\ wire' = wire
      /\ pass' = [pass EXCEPT !.at = "send"]
      /\ sock' = IF k.sent = k.buffer.size
                 THEN [sock EXCEPT ![s].buffer = None, ![s].sent = 0] ELSE sock
  BY DEF WriteEnds
<1>2. /\ InCall /\ s \in Sockets /\ pass \in PassState /\ k \in SocketState
      /\ SocketOK(k, wire[s], made) /\ k.con = "connected" /\ ~k.busy /\ k.buffer # None
      /\ k.buffer \in Packet /\ made \in Nat
      /\ sock \in [Sockets -> SocketState] /\ wire \in [Sockets -> WireState]
  BY <1>1, WriteFacts
<1>3. pass' \in PassState /\ pass'.at = "send" /\ pass'.call = c /\ pass'.slots = pass.slots
  BY <1>1, <1>2 DEF PassState
<1>4. CASE k.sent = k.buffer.size
  <2> DEFINE new == [k EXCEPT !.buffer = None, !.sent = 0]
  <2>1. sock' = [sock EXCEPT ![s] = new]
    BY <1>1, <1>2, <1>4
  <2>2. /\ new \in SocketState /\ new.con = k.con /\ new.busy = k.busy /\ new.buffer = None
        /\ new.sent = 0 /\ new.control = k.control /\ new.standard = k.standard
    BY <1>2 DEF SocketState
  <2> HIDE DEF new
  <2>3. /\ sock' \in [Sockets -> SocketState] /\ sock'[s] = new
        /\ \A t \in Sockets : t # s => sock'[t] = sock[t]
    BY <1>2, <2>1, <2>2
  <2>4. wire[s].to = wire[s].packet.size
    <3>1. k.sent > 0
      BY <1>2, <1>4 DEF Packet
    <3> QED
      BY <1>2, <1>4, <3>1 DEF SocketOK, InProgress
  <2>5. SocketOK(new, wire[s], made)
    BY <1>2, <2>2, <2>4, NoPacket DEF SocketOK
  <2>6. HasData(sock'[s]) => HasData(sock[s])
    BY <2>2, <2>3 DEF HasData
  <2> QED
    BY <1>1, <1>2, <1>3, <2>2, <2>3, <2>5, <2>6, CallGoesOn
<1>5. CASE k.sent # k.buffer.size
  BY <1>1, <1>2, <1>3, <1>5, CallGoesOn
<1> QED
  BY <1>4, <1>5

----
(* The invariant is inductive.                                             *)

LEMMA StepKeeps ==
    IInv /\ [Next]_vars => IInv'
<1> SUFFICES ASSUME IInv, [Next]_vars PROVE IInv'
  OBVIOUS
<1>1. CASE Calls
  BY <1>1, EnterKeeps, SendLoopKeeps, WriteSomeKeeps, WriteFailsKeeps, WriteEndsKeeps DEF Calls
<1>2. CASE Entry
  BY <1>2, StopKeeps, WakeKeeps, ControlLoopKeeps, TrickleLoopKeeps, ShareLoopKeeps DEF Entry
<1>3. CASE EndThread
  BY <1>3, EndThreadKeeps
<1>4. ASSUME NEW s \in Sockets,
             \/ Create(s)
             \/ OnSend(s)
             \/ Disconnect(s)
             \/ Delete(s)
             \/ SlotGiven(s)
             \/ SlotTaken(s)
             \/ \E size \in Sizes, control \in BOOLEAN : SendPacket(s, size, control)
      PROVE  IInv'
  BY <1>4, CreateKeeps, OnSendKeeps, DisconnectKeeps, DeleteKeeps, SlotGivenKeeps, SlotTakenKeeps,
     SendPacketKeeps
<1>5. CASE UNCHANGED vars
  BY <1>5 DEF vars, IInv, TypeOK, PassOK, Alive, SlotsOK, Remembered, SocketsOK, Undisturbed, InCall,
     Open, Pending
<1> QED
  BY <1>1, <1>2, <1>3, <1>4, <1>5 DEF Next

(* The types, and all the rest of the inductive invariant.                 *)
THEOREM InductiveInvariant ==
    Spec => []IInv
<1>1. Init => IInv
  BY InitEstablishes
<1>2. IInv /\ [Next]_vars => IInv'
  BY StepKeeps
<1> QED
  BY <1>1, <1>2, PTL DEF Spec

(* The throttler never calls and never lists a socket that was deleted.    *)
THEOREM NoDeadSocketIsCalled ==
    Spec => []CalledIsAlive
<1>1. IInv => CalledIsAlive
  <2> SUFFICES ASSUME IInv PROVE CalledIsAlive
    OBVIOUS
  <2>1. \A l \in {"tempFirst", "temp", "first", "control", "order"} : ubt[l] \in Seq(Sockets)
    BY DEF IInv, TypeOK, ThrottlerState
  <2>2. ASSUME NEW l \in {"tempFirst", "temp", "first", "control", "order"}, NEW i \in 1..Len(ubt[l])
        PROVE  ubt[l][i] \in Sockets /\ Listed(ubt, ubt[l][i])
    <3>1. ubt[l][i] \in Sockets
      BY <2>1
    <3>2. Contains(ubt[l], ubt[l][i])
      BY DEF Contains
    <3>3. \A x : Contains(ubt[l], x) => Listed(ubt, x)
      BY DEF Listed
    <3> QED
      BY <3>1, <3>2, <3>3
  <2> QED
    BY <2>2 DEF IInv, Alive, InCall, CalledIsAlive
<1>2. Spec => []IInv
  BY InductiveInvariant
<1> QED
  BY <1>1, <1>2, PTL

(* A connection with a control packet to send is on its way to be called.  *)
THEOREM NoControlPacketIsForgotten ==
    Spec => []NoneForgotten
<1>1. IInv => NoneForgotten
  <2>1. \A s : Listed(ubt, s) => Asked(s)
    BY Zenon DEF Listed, Asked
  <2> QED
    BY <2>1 DEF IInv, Remembered, Open, Undisturbed, InCall, NoneForgotten
<1>2. Spec => []IInv
  BY InductiveInvariant
<1> QED
  BY <1>1, <1>2, PTL

(* What a peer receives is whole packets, one after the other.             *)
THEOREM PacketsLeaveWhole ==
    Spec => WireIsWhole
<1> DEFINE Whole == \A s \in Sockets :
                       LET old == wire[s]
                           new == wire'[s] IN
                       new # old =>
                          \/ new.packet = old.packet /\ sock[s].sent = old.to /\ new.to > old.to
                          \/ new.packet # old.packet /\ sock[s].sent = 0 /\ old.to = old.packet.size
<1>1. ASSUME IInv, NEW s \in Sockets, WriteSome(s) PROVE Whole
  <2>1. PICK n \in Nat \ {0} :
            wire' = [wire EXCEPT ![s] = [packet |-> sock[s].buffer, to |-> sock[s].sent + n]]
    BY <1>1, WriteSomeEffect
  <2>2. /\ wire \in [Sockets -> WireState] /\ sock[s] \in SocketState /\ sock[s].sent \in Nat
        /\ SocketOK(sock[s], wire[s], made) /\ sock[s].con = "connected" /\ sock[s].buffer # None
    BY <1>1, WriteFacts DEF WriteSome, SocketState
  <2>3. InProgress(sock[s], wire[s])
    BY <2>2 DEF SocketOK
  <2>4. /\ wire'[s].packet = sock[s].buffer /\ wire'[s].to = sock[s].sent + n
        /\ \A t \in Sockets : t # s => wire'[t] = wire[t]
    BY <2>1, <2>2
  <2>5. CASE sock[s].sent > 0
    BY <2>2, <2>3, <2>4, <2>5 DEF InProgress
  <2>6. CASE sock[s].sent = 0
    <3>1. wire[s].packet # sock[s].buffer /\ wire[s].to = wire[s].packet.size
      <4>1. sock[s].buffer \in Packet
        BY <2>2 DEF SocketState
      <4>2. wire[s].packet.id \in Nat /\ sock[s].buffer.id \in Nat
        BY <2>2, <4>1, NoPacket DEF WireState, Packet
      <4> QED
        BY <2>3, <2>6, <4>2 DEF InProgress
    <3> QED
      BY <2>4, <2>6, <3>1
  <2> QED
    BY <2>2, <2>5, <2>6
<1>2. ASSUME IInv, [Next]_vars PROVE [Whole]_wire
  <2>1. CASE \E s \in Sockets : WriteSome(s)
    BY <1>1, <1>2, <2>1
  <2>2. CASE UNCHANGED wire
    BY <2>2
  <2> QED
    BY <1>2, <2>1, <2>2, Zenon DEF Next, Calls, Entry, vars, Enter, SendLoop, WriteFails, WriteEnds, Stop, Wake,
       ControlLoop, TrickleLoop, ShareLoop, EndThread, Create, OnSend, Disconnect, Delete, SlotGiven,
       SlotTaken, SendPacket
<1>3. Spec => []IInv
  BY InductiveInvariant
<1>4. Spec => [][Whole]_wire
  BY <1>2, <1>3, PTL DEF Spec
<1> QED
  BY <1>4 DEF WireIsWhole
====
