---- MODULE RoutingZone ----
(***************************************************************************)
(* The Kad routing table: CRoutingZone, CRoutingBin and the part of CContact *)
(* that says how long a contact is kept.                                    *)
(*                                                                         *)
(* The table is a binary tree of zones over the distance of a contact's id  *)
(* from our own.  A leaf has a bin of at most K contacts, the one heard     *)
(* from longest ago first.  A full leaf may split in two, two nearly empty  *)
(* leaves merge again; each leaf has a timer that pings and discards its    *)
(* contacts.  Three books are kept beside the tree: the number of contacts  *)
(* per address (s_globalContactIPs), the set of all contacts (s_ContactsSet) *)
(* and the zones that have a timer (CKademlia::m_events, raw pointers).     *)
(*                                                                         *)
(* An id is its distance, of Bits bits; a zone is its level and index.      *)
(***************************************************************************)
EXTENDS Integers, Sequences, SequencesExt, FiniteSets

CONSTANTS
    Bits,        \* the length of an id (128 in the code)
    Ids, Addrs,  \* the other nodes, and their addresses
    K,           \* the size of a bin (10)
    KBASE, KK,   \* zones above this level, or below this index, may split (4, 5)
    MaxLevel,    \* zones at this level may not (127)
    Keep,        \* KeepKadContacts: a table of this size keeps dead contacts
    Fresh,       \* the types of a contact just heard from, a subset of 0..2
    Offers,      \* the contacts that packets and files tell of
    Hellos,      \* the contacts that tell of themselves, and may change what is known
    Files,       \* the contents of nodes.dat, sequences of offers
    Followed,    \* the contacts whose fate KeptAreHeard follows
    Env          \* which of the events of EnvFeatures happen

EnvFeatures == {"consolidate", "stop"}

(* A contact without a Kad version that has sender keys may be changed once, *)
(* by its first HELLO ("legacy"), then only refreshed ("settled").          *)
Kinds == {"legacy", "settled", "new"}
Offer == [id : Ids, addr : Addrs, kind : Kinds]

(* 2^n: how many distances are left when all but n of the bits are given.   *)
Pow2[n \in 0..Bits] == IF n = 0 THEN 1 ELSE 2 * Pow2[n - 1]

Distances == 0..(Pow2[Bits] - 1)

ASSUME RoutingAssumption ==
    /\ Bits \in Nat \ {0} /\ Ids \subseteq Distances \ {0} /\ IsFiniteSet(Ids)
    /\ K \in Nat \ {0, 1} /\ KBASE \in Nat /\ KK \in Nat /\ MaxLevel \in Nat /\ Keep \in Nat
    /\ Fresh \subseteq 0..2 /\ Fresh # {} /\ Followed \subseteq Ids
    /\ Offers \subseteq Offer /\ Hellos \subseteq Offers /\ Files \subseteq Seq(Offers) /\ Env \subseteq EnvFeatures

VARIABLES
    running,  \* CKademlia::m_running
    table,    \* the bins of the leaves, and the three books
    contact   \* the data of the contacts, which all holders of a contact share

vars == <<running, table, contact>>

NoContact == [addr |-> "none", kind |-> "new", type |-> 0, expires |-> "unset"]

NewContact(o) == [addr |-> o.addr, kind |-> o.kind, type |-> 3, expires |-> "unset"]

Empty == [bins |-> [z \in {} |-> <<>>], tracked |-> [a \in Addrs |-> 0],
          nodes |-> {}, events |-> {}]

Root == <<0, 0>>

----
(* Zones                                                                   *)

(* How many distances a zone of a level covers.                            *)
Width == [level \in 0..Bits |-> Pow2[Bits - level]]

Covers(z, id) == id \div Width[z[1]] = z[2]

SubZones(z) == {<<z[1] + 1, 2 * z[2]>>, <<z[1] + 1, 2 * z[2] + 1>>}

(* The one of some zones that an id belongs to.                            *)
ZoneOf(zones, id) == CHOOSE z \in zones : Covers(z, id)

Leaf(t, id) == ZoneOf(DOMAIN t.bins, id)

IsLeaf(t, z) == z \in DOMAIN t.bins

CanSplit(t, z) == z[1] < MaxLevel /\ (z[2] < KK \/ z[1] < KBASE) /\ Len(t.bins[z]) = K

(* Zones are made with an empty bin and a timer.                           *)
NewZones(t, zones) ==
    [t EXCEPT !.bins = [z \in DOMAIN @ \cup zones |-> IF z \in zones THEN <<>> ELSE @[z]],
              !.events = @ \cup zones]

StopTimers(t, zones) == [t EXCEPT !.events = @ \ zones]

----
(* Bins.  data is the contacts' data.                                      *)

\* Slip: the address is not counted.
AddContact_Slip(t, data, z, id) ==
    IF Contains(t.bins[z], id) \/ t.tracked[data[id].addr] >= 1 \/ Len(t.bins[z]) >= K
    THEN t
    ELSE [t EXCEPT !.bins[z] = Append(@, id), !.nodes = @ \cup {id}]

AddContact(t, data, z, id) ==
    IF Contains(t.bins[z], id) \/ t.tracked[data[id].addr] >= 1 \/ Len(t.bins[z]) >= K
    THEN t
    ELSE [t EXCEPT !.bins[z] = Append(@, id),
                   !.tracked[data[id].addr] = @ + 1,
                   !.nodes = @ \cup {id}]

RemoveContact(t, data, z, id) ==
    [t EXCEPT !.bins[z] = RemoveFirst(@, id), !.tracked[data[id].addr] = @ - 1, !.nodes = @ \ {id}]

\* Slip: the contact keeps its place.
PushToBottom_Slip(bin, id) == bin

PushToBottom(bin, id) == Append(RemoveFirst(bin, id), id)

(* The bins of some zones are deleted: each of their entries is discounted. *)
DeleteBins(t, data, zones) ==
    LET entries == {e \in zones \X (1..K) : e[2] \in DOMAIN t.bins[e[1]]}
        at(a) == {e \in entries : data[t.bins[e[1]][e[2]]].addr = a} IN
    [t EXCEPT !.bins = [z \in DOMAIN @ \ zones |-> @[z]],
              !.tracked = [a \in Addrs |-> @[a] - Cardinality(at(a))]]

(* The contacts of a list are added, each to the one of some zones that it  *)
(* belongs to.                                                             *)
AddContacts(t, data, zones, list) ==
    LET added[i \in 0..Len(list)] ==
            IF i = 0 THEN t ELSE AddContact(added[i - 1], data, ZoneOf(zones, list[i]), list[i])
    IN added[Len(list)]

----
(* Splitting and merging                                                   *)

\* Slip: the timer of the zone is not stopped.
Split_Slip(t, data, z) ==
    AddContacts(DeleteBins(NewZones(t, SubZones(z)), data, {z}), data, SubZones(z), t.bins[z])

Split(t, data, z) ==
    LET split == DeleteBins(NewZones(StopTimers(t, {z}), SubZones(z)), data, {z})
    IN AddContacts(split, data, SubZones(z), t.bins[z])

(* The leaf that a new contact belongs to splits as long as it is full and  *)
(* allowed to.                                                             *)
MakeRoom(t, data, id) ==
    LET room[level \in 0..Bits] ==
            IF level = 0 THEN t
            ELSE LET u == room[level - 1]
                     z == Leaf(u, id)
                 IN IF z[1] = level - 1 /\ CanSplit(u, z) THEN Split(u, data, z) ELSE u
    IN room[Bits]

Mergeable(t, z) ==
    \E a, b \in SubZones(z) :
       /\ a # b /\ IsLeaf(t, a) /\ IsLeaf(t, b)
       /\ Len(t.bins[a]) + Len(t.bins[b]) < K \div 2

Merge(t, data, z) ==
    LET left == <<z[1] + 1, 2 * z[2]>>
        right == <<z[1] + 1, 2 * z[2] + 1>>
        merged == NewZones(DeleteBins(StopTimers(t, SubZones(z)), data, SubZones(z)), {z})
    IN AddContacts(merged, data, {z}, t.bins[left] \o t.bins[right])

(* All zones that may have subzones, the deepest first.                    *)
InnerZones ==
    LET level(n) == CHOOSE l \in 0..(Bits - 1) : Pow2[l] <= n /\ n < Pow2[l + 1]
        last == Pow2[Bits] - 1
    IN [i \in 1..last |-> LET n == last + 1 - i IN <<level(n), n - Pow2[level(n)]>>]

Consolidated(t, data) ==
    LET merged[i \in 0..Len(InnerZones)] ==
            IF i = 0 THEN t
            ELSE LET u == merged[i - 1]
                     z == InnerZones[i]
                 IN IF Mergeable(u, z) THEN Merge(u, data, z) ELSE u
    IN merged[Len(InnerZones)]

----
(* A packet or the file tells of a contact.                                *)

(* Add, of a contact that the table does not have.                         *)
Learn(s, o) ==
    LET data == [s.contact EXCEPT ![o.id] = NewContact(o)]
        room == MakeRoom(s.table, data, o.id)
        added == AddContact(room, data, Leaf(room, o.id), o.id)
    IN [table   |-> added,
        contact |-> IF o.id \in added.nodes THEN data ELSE s.contact]

IsKnown(t, id) == Contains(t.bins[Leaf(t, id)], id)

(* SetAlive                                                                *)
Heard(s, id, type) ==
    [table   |-> [s.table EXCEPT !.bins[Leaf(s.table, id)] = PushToBottom(@, id)],
     contact |-> [s.contact EXCEPT ![id].type = type, ![id].expires = "future"]]

\* Slip: the new address is not looked up.
MayMove_Slip(t, old, new) == TRUE

MayMove(t, old, new) == old = new \/ t.tracked[new] = 0

(* ChangeContactIPAddress                                                  *)
Moved(s, id, addr) ==
    LET old == s.contact[id].addr
        tracked == [s.table.tracked EXCEPT ![old] = @ - 1, ![addr] = @ + 1] IN
    IF old = addr THEN s
    ELSE [table   |-> [s.table EXCEPT !.tracked = tracked],
          contact |-> [s.contact EXCEPT ![id].addr = addr]]

(* The HELLO of a contact that the table has, whose sender key fits.  The   *)
(* address is changed before the versions are compared.                    *)
Updated(s, o, type) ==
    LET c == s.contact[o.id]
        moved == Moved(s, o.id, o.addr)
    IN CASE c.kind = "settled" /\ o.kind # "new" /\ o.addr = c.addr -> Heard(s, o.id, type)
         [] c.kind = "settled" /\ ~(o.kind # "new" /\ o.addr = c.addr) -> s
         [] c.kind # "settled" /\ ~MayMove(s.table, c.addr, o.addr) -> s
         [] c.kind = "new" /\ o.kind # "new" /\ MayMove(s.table, c.addr, o.addr) -> moved
         [] OTHER -> Heard([moved EXCEPT !.contact[o.id].kind = o.kind], o.id, type)

InBins == UNION {ToSet(table.bins[z]) : z \in DOMAIN table.bins}

State == [table |-> table, contact |-> contact]
Becomes(s) == table' = s.table /\ contact' = s.contact

Add(o) ==
    /\ running
    /\ ~IsKnown(table, o.id)
    /\ Becomes(Learn(State, o))
    /\ UNCHANGED running

Update(o) ==
    /\ running
    /\ IsKnown(table, o.id)
    /\ \E type \in Fresh : Becomes(Updated(State, o, type))
    /\ UNCHANGED running

----
(* Time                                                                    *)

(* A contact's time runs out.                                              *)
Expire(id) ==
    /\ running
    /\ contact[id].expires = "future"
    /\ contact' = [contact EXCEPT ![id].expires = "past"]
    /\ UNCHANGED <<running, table>>

IsDead(c) == c.type = 4 /\ c.expires = "past"

(* The first loop of OnSmallTimer: dead contacts go, as long as there are   *)
(* more contacts than are to be kept; the clock of new ones starts.        *)
Discarded(t, z) ==
    LET list == t.bins[z]
        left[i \in 0..Len(list)] ==
            IF i = 0 THEN t
            ELSE LET u == left[i - 1]
                 IN IF IsDead(contact[list[i]]) /\ Cardinality(u.nodes) > Keep
                    THEN RemoveContact(u, contact, z, list[i]) ELSE u
    IN left[Len(list)]

Clocked(id) ==
    IF contact[id].expires = "unset" THEN [contact[id] EXCEPT !.expires = "past"] ELSE contact[id]

Pinged(c) == \* CheckingType
    [c EXCEPT !.type = @ + 1, !.expires = "future"]

(* The oldest contact of the zone is pinged, unless its time is not over or *)
(* it is dead: then the next one is, the next time.  A ping that follows    *)
(* another within ten seconds ("soon") does not count.                     *)
OnSmallTimer(z, soon) ==
    /\ running
    /\ z \in table.events
    /\ IsLeaf(table, z)
    /\ \E t \in {Discarded(table, z)} :
       \E data \in {[id \in Ids |-> IF id \notin t.nodes THEN NoContact
                                    ELSE IF Contains(t.bins[z], id) THEN Clocked(id) ELSE contact[id]]} :
       LET bin == t.bins[z]
           front == Head(bin)
           waits == contact[front].expires # "past" \/ contact[front].type = 4 IN
       \/ /\ bin = <<>>
          /\ table' = t /\ contact' = data
       \/ /\ bin # <<>> /\ waits
          /\ table' = [t EXCEPT !.bins[z] = PushToBottom(@, front)]
          /\ contact' = data
       \/ /\ bin # <<>> /\ ~waits
          /\ table' = t
          /\ contact' = IF soon THEN data ELSE [data EXCEPT ![front] = Pinged(@)]
    /\ UNCHANGED running

Consolidate ==
    /\ running /\ "consolidate" \in Env
    /\ table' = Consolidated(table, contact)
    /\ UNCHANGED <<running, contact>>

----
(* Kad is started, and reads nodes.dat; and stopped.                       *)

(* ReadFile                                                                *)
Read(s, file) ==
    LET read[i \in 0..Len(file)] ==
            IF i = 0 THEN s
            ELSE IF IsKnown(read[i - 1].table, file[i].id) THEN read[i - 1] ELSE Learn(read[i - 1], file[i])
    IN read[Len(file)]

Start ==
    /\ ~running
    /\ \E file \in Files : Becomes(Read([State EXCEPT !.table = NewZones(@, {Root})], file))
    /\ running' = TRUE

Stop ==
    /\ running /\ "stop" \in Env
    /\ running' = FALSE
    /\ table' = [DeleteBins(table, contact, DOMAIN table.bins) EXCEPT !.nodes = {}, !.events = {}]
    /\ contact' = [id \in Ids |-> NoContact]

Init ==
    /\ running = FALSE
    /\ table = Empty
    /\ contact = [id \in Ids |-> NoContact]

Next ==
    \/ Start
    \/ Stop
    \/ Consolidate
    \/ \E o \in Offers : Add(o)
    \/ \E o \in Hellos : Update(o)
    \/ \E id \in Ids : Expire(id)
    \/ \E z \in table.events, soon \in BOOLEAN : OnSmallTimer(z, soon)

Spec == Init /\ [][Next]_vars

(* Kad's timer goes round all zones, so that the leaf a contact is in has   *)
(* its turn again and again, whatever it is split or merged into; and time  *)
(* passes.  Of the contacts that are not followed nothing is assumed.       *)
TimerOf(id) == id \in InBins /\ OnSmallTimer(Leaf(table, id), FALSE)

Fairness ==
    /\ \A id \in Followed : SF_vars(TimerOf(id))
    /\ \A id \in Followed : WF_vars(Expire(id))

FairSpec == Spec /\ Fairness

----
(* What is claimed.                                                        *)

(* The count of each address is the number of contacts that have it, across *)
(* splits, merges, changes of address and restarts; else an address would   *)
(* be refused for ever, or a count fall below zero.                        *)
CountsAreTrue ==
    \A a \in Addrs : table.tracked[a] = Cardinality({id \in InBins : contact[id].addr = a})

(* The leaves divide the ids between them and have a timer each, no timer   *)
(* being left to a zone that was deleted; every contact stands once, in the *)
(* leaf where a lookup goes for it, and the set of all contacts, by whose   *)
(* size dead contacts are kept or not, is what is in the bins.  Splits and  *)
(* merges drop no contact and put none where it is not found.              *)
TreeIsSound ==
    /\ table.nodes = InBins
    /\ table.events = DOMAIN table.bins
    /\ running =>
       /\ \A id \in Distances \ {0} : Cardinality({z \in DOMAIN table.bins : Covers(z, id)}) = 1
       /\ \A z \in DOMAIN table.bins :
             IsInjective(table.bins[z]) /\ \A i \in DOMAIN table.bins[z] : Covers(z, table.bins[z][i])

(* The table is, to its users, a set of contacts without a shared address. *)
Known == [id \in InBins |-> contact[id].addr]
Abstract == INSTANCE RoutingTable WITH known <- Known
IsRoutingTable == Abstract!Spec

(* A contact that a table above its size keeps is heard from again and      *)
(* again: pings, expiry and the turns in its bin get to every silent one.   *)
KeptAreHeard ==
    \A id \in Followed :
       <>[](id \in table.nodes /\ Cardinality(table.nodes) > Keep) =>
          []<>(contact[id].type \in Fresh)
====
