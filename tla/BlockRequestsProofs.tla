----------------------- MODULE BlockRequestsProofs -----------------------
(***************************************************************************)
(* The blocks a file has on its list of requests are those its sources are *)
(* waited for, and no byte is asked of two of them without need: for every *)
(* set of sources, size of file, parts and blocks, any number of mishaps   *)
(* of all kinds, and any ranking of the parts.                             *)
(*                                                                         *)
(* A handler goes through many states of the program before the step ends. *)
(* Good(s, R) is what holds of each of them, R being the blocks that were  *)
(* requested when the step began: what is requested is waited for (Held),  *)
(* requested blocks do not overlap (Apart), and what is waited for is      *)
(* requested, or was when the step began, or was let go before             *)
(* (Accounted).  At the end of the step the bytes of the blocks that were  *)
(* requested and no longer are, but are still waited for, are let go       *)
(* (Becomes): then Good(Now, {}) holds again, which is the invariant.      *)
(*                                                                         *)
(* What is taken off the list would break this if it were asked for again  *)
(* in the same step and then looked as if it had been requested all the    *)
(* time.  So blocks are only taken off while nothing was asked for in the  *)
(* step (Early); this is true of every handler, as SendBlockRequests is    *)
(* the last thing each of them does, and drops a slower source only when   *)
(* it found nothing to ask for.                                            *)
(***************************************************************************)
EXTENDS BlockRequests, WellFoundedInduction, TLAPS

----------------------------------------------------------------------------
(* Numbers.                                                                 *)

\* A set of numbers has a smallest one.
LEMMA SmallestOne ==
    ASSUME NEW S \in SUBSET Nat, S # {}
    PROVE  \E x \in S : \A y \in S : x <= y
<1>1. PICK x \in S : \A y \in S : ~ (y < x)
  <2>1. PICK x \in S : \A y \in S : <<y, x>> \notin OpToRel(<, Nat)
    BY NatLessThanWellFounded, WFMin
  <2> QED
    BY <2>1 DEF OpToRel
<1> QED
  BY <1>1

\* Min is in the set and is the smallest.
LEMMA MinIsIn ==
    ASSUME NEW S \in SUBSET Nat, S # {}
    PROVE  Min(S) \in S /\ \A y \in S : Min(S) <= y
BY SmallestOne DEF Min

\* Bytes are numbered from the first one; the bytes of a part are bytes of the file.
LEMMA BytesArePlain ==
    /\ Bytes \subseteq Nat
    /\ \A n : PartBytes(n) \subseteq Bytes
    /\ Parts \subseteq Int /\ NoPart \in Int
<1>1. \A p \in Bytes : PartOf(p) \in Int
  BY BlockRequestsAssumption DEF Bytes, PartOf
<1> QED
  BY BlockRequestsAssumption DEF Bytes, Parts, PartBytes, NoPart

\* Bytes are numbers.
LEMMA BytesAreInt == \A b \in Bytes : b \in Nat /\ b \in Int /\ b <= b /\ b >= b
BY BytesArePlain

----------------------------------------------------------------------------
(* What holds of a state s of the program amid a step that began with       *)
(* the blocks R requested.                                                  *)

\* The types.
States == {"onqueue", "downloading", "noneededparts"}
Requests == [owner : Sources, first : Bytes, last : Bytes]
PendingBlocks == [first : Bytes, last : Bytes, bad : BOOLEAN]
Files == [missing : SUBSET Bytes, requested : SUBSET Requests, buffered : SUBSET Bytes,
          corrupted : SUBSET Parts, status : {"ready", "paused", "completing"}, letGo : SUBSET Bytes]
Transfers == [state : States, pending : Seq(PendingBlocks), window : Nat,
              lastPart : Parts \cup {NoPart}, sentCancel : BOOLEAN]

\* A state of the program in the middle of a step.
IsState(s) ==
    /\ s = [file |-> s.file, src |-> s.src, peer |-> s.peer]
    /\ s.file \in Files
    /\ s.src \in [Sources -> Transfers]

\* Who does not download waits for nothing.
WaitingIsDownloading(s) ==
    \A c \in Sources : s.src[c].state # "downloading" => s.src[c].pending = <<>>

\* WaitedFor, by positions.
IsWaited(t, r) == \E i \in DOMAIN t[r.owner].pending :
    t[r.owner].pending[i].first = r.first /\ t[r.owner].pending[i].last = r.last

\* RequestedAreHeld, of s.
Held(s) == \A r \in s.file.requested : s.src[r.owner].state = "downloading" /\ IsWaited(s.src, r)

\* No byte is in two requested blocks.
Apart(s) == \A q, r \in s.file.requested : q # r => ~ (q.first <= r.last /\ q.last >= r.first)

\* A block that is waited for is requested, was until this step, or is let go.
Accounted(s, R) ==
    \A c \in Sources : \A i \in DOMAIN s.src[c].pending :
        \/ \E r \in s.file.requested \cup R :
               r.owner = c /\ r.first = s.src[c].pending[i].first /\ r.last = s.src[c].pending[i].last
        \/ BytesOf(s.src[c].pending[i]) \subseteq s.file.letGo

\* All of it.
Good(s, R) ==
    /\ IsState(s) /\ WaitingIsDownloading(s)
    /\ Held(s) /\ Apart(s) /\ Accounted(s, R)

\* Nothing was asked for yet in this step.
Early(s, R) == Good(s, R) /\ s.file.requested \subseteq R

\* The inductive invariant: between two steps.
IInv == Good(Now, {})

\* WaitedFor, by positions.
LEMMA WaitedIsWaited ==
    ASSUME NEW s, NEW r
    PROVE  WaitedFor(s, r) <=> IsWaited(s.src, r)
BY DEF WaitedFor, IsWaited, ToSet

----------------------------------------------------------------------------
(* The beginning and the end of a step.                                     *)

\* At the beginning of a step the invariant holds with what is requested then.
LEMMA StepBegins ==
    ASSUME IInv
    PROVE  Early(Now, file.requested)
BY DEF Early, IInv, Good, IsState, WaitingIsDownloading, Held, Apart, Accounted, Now

\* A block that is no longer requested when the step ends, while its owner waits
\* for it, is let go: then the invariant holds again.
LEMMA StepEnds ==
    ASSUME NEW STATE s, Good(s, file.requested), Becomes(s), file \in Files
    PROVE  IInv'
<1>1. IsState(s) /\ s.file \in Files /\ s.src \in [Sources -> Transfers]
  BY DEF Good, IsState
<1>2. src' = s.src /\ file' = [s.file EXCEPT !.letGo = @ \cup LetGo(s)]
  BY DEF Becomes
<1>3. LetGo(s) \subseteq Bytes
  <2>1. \A r \in file.requested : BytesOf(r) \subseteq Bytes
    BY BlockRequestsAssumption DEF BytesOf, Bytes, Files, Requests
  <2> QED
    BY <2>1 DEF LetGo
<1>4. /\ file' \in Files /\ file'.requested = s.file.requested
      /\ file'.letGo = s.file.letGo \cup LetGo(s)
  BY <1>1, <1>2, <1>3 DEF Files
<1>5. Now' = [file |-> file', src |-> src', peer |-> peer']
  BY DEF Now
<1>6. IsState(Now)'
  BY <1>1, <1>2, <1>4, <1>5 DEF IsState
<1>7. WaitingIsDownloading(Now)' /\ Held(Now)' /\ Apart(Now)'
  <2>1. Now'.src = s.src /\ Now'.file.requested = s.file.requested
    BY <1>2, <1>4, <1>5
  <2>2. WaitingIsDownloading(Now)'
    BY <2>1 DEF Good, WaitingIsDownloading
  <2>3. Held(Now)'
    BY <2>1 DEF Good, Held, IsWaited
  <2>4. Apart(Now)'
    BY <2>1 DEF Good, Apart
  <2> QED
    BY <2>2, <2>3, <2>4
<1>8. ASSUME NEW c \in Sources, NEW i \in DOMAIN s.src[c].pending
      PROVE  \/ \E r \in s.file.requested :
                    r.owner = c /\ r.first = s.src[c].pending[i].first /\ r.last = s.src[c].pending[i].last
             \/ BytesOf(s.src[c].pending[i]) \subseteq file'.letGo
  <2>1. CASE BytesOf(s.src[c].pending[i]) \subseteq s.file.letGo
    BY <2>1, <1>4
  <2>2. ASSUME NEW r \in file.requested \ s.file.requested,
               r.owner = c, r.first = s.src[c].pending[i].first, r.last = s.src[c].pending[i].last
        PROVE  BytesOf(s.src[c].pending[i]) \subseteq file'.letGo
    <3>1. WaitedFor(s, r)
      BY <2>2, WaitedIsWaited DEF IsWaited
    <3>2. BytesOf(r) \subseteq LetGo(s)
      BY <2>2, <3>1 DEF LetGo
    <3> QED
      BY <2>2, <3>2, <1>4 DEF BytesOf
  <2> QED
    BY <2>1, <2>2 DEF Good, Accounted
<1>9. Accounted(Now, {})'
  BY <1>2, <1>4, <1>5, <1>8 DEF Accounted
<1> QED
  BY <1>6, <1>7, <1>9 DEF IInv, Good

----------------------------------------------------------------------------
(* The list of the file gets shorter.                                       *)

\* g is f with another list of requests, none of them new.
Shrinks(g, f) == g \in Files /\ g.requested \subseteq f.requested /\ g.letGo = f.letGo

\* Requests may be taken off the list of the file at any time before anything is
\* asked for.
LEMMA ShrinkIsGood ==
    ASSUME NEW s, NEW R, Early(s, R), NEW g, Shrinks(g, s.file)
    PROVE  Early([s EXCEPT !.file = g], R)
<1> DEFINE t == [s EXCEPT !.file = g]
<1>1. t = [file |-> g, src |-> s.src, peer |-> s.peer]
  BY DEF Early, Good, IsState
<1>2. IsState(t)
  BY <1>1 DEF Early, Good, IsState, Shrinks
<1> HIDE DEF t
<1>3. WaitingIsDownloading(t) /\ Held(t) /\ Apart(t)
  BY <1>1 DEF Early, Good, WaitingIsDownloading, Held, Apart, Shrinks
<1>4. Accounted(t, R)
  BY <1>1 DEF Early, Good, Accounted, Shrinks
<1>5. t.file.requested \subseteq R
  BY <1>1 DEF Early, Shrinks
<1> QED
  BY <1>2, <1>3, <1>4, <1>5 DEF Early, Good, t

\* RemoveBlockFromList takes off what contains one of the blocks, and no more.
LEMMA RemoveShrinks ==
    ASSUME NEW f \in Files, NEW blocks
    PROVE  /\ Shrinks(RemoveBlockFromList(f, blocks), f)
           /\ \A r \in RemoveBlockFromList(f, blocks).requested :
                  r \in f.requested /\ ~ \E b \in blocks : r.first <= b.first /\ r.last >= b.last
           /\ \A r \in f.requested : r \in RemoveBlockFromList(f, blocks).requested
                  \/ \E b \in blocks : r.first <= b.first /\ r.last >= b.last
BY DEF RemoveBlockFromList, Shrinks, Files

\* FlushBuffer takes blocks off the list, if any,
LEMMA FlushShrinks ==
    ASSUME NEW f \in Files, NEW good
    PROVE  Shrinks(FlushBuffer(f, good), f)
<1> DEFINE changed == {n \in Parts : PartBytes(n) \cap f.buffered # {}}
           whole   == {n \in changed : Complete(f, n)}
           spoilt  == whole \ good
           healed  == (changed \ whole) \cap f.corrupted \cap good
           missing == (f.missing \cup UNION {PartBytes(n) : n \in spoilt}) \ UNION {PartBytes(n) : n \in healed}
           corrupted == (f.corrupted \cup spoilt) \ ((whole \cap good) \cup healed)
           checked == [f EXCEPT !.buffered = {}, !.missing = missing, !.corrupted = corrupted]
           listed == RemoveBlockFromList(checked, {[first |-> Min(PartBytes(n)), last |-> Max(PartBytes(n))] : n \in healed})
<1>1. FlushBuffer(f, good) = IF f.buffered = {} THEN f
                             ELSE [listed EXCEPT !.status = IF listed.missing = {} THEN "completing" ELSE @]
  BY DEF FlushBuffer
<1>2. missing \subseteq Bytes
  BY BytesArePlain DEF Files
<1>3. corrupted \subseteq Parts
  BY DEF Files
<1> HIDE DEF missing, corrupted, healed
<1>4. checked \in Files /\ checked.requested = f.requested /\ checked.letGo = f.letGo
  BY <1>2, <1>3 DEF Files
<1> HIDE DEF checked
<1>5. Shrinks(listed, checked)
  BY <1>4, RemoveShrinks
<1> HIDE DEF listed
<1>6. Shrinks([listed EXCEPT !.status = IF listed.missing = {} THEN "completing" ELSE @], listed)
  BY <1>5 DEF Shrinks, Files
<1>7. Shrinks(f, f)
  BY DEF Shrinks
<1> QED
  BY <1>1, <1>4, <1>5, <1>6, <1>7 DEF Shrinks

\* and so does WriteToBuffer, when the last byte comes.
LEMMA WriteShrinks ==
    ASSUME NEW f \in Files, NEW p \in f.missing, NEW good
    PROVE  Shrinks(WriteToBuffer(f, p, good), f)
<1> DEFINE written == [f EXCEPT !.buffered = @ \cup {p}, !.missing = @ \ {p}]
<1>1. Shrinks(written, f)
  BY DEF Shrinks, Files
<1>2. WriteToBuffer(f, p, good) = IF written.missing = {} THEN FlushBuffer(written, good) ELSE written
  BY DEF WriteToBuffer
<1> HIDE DEF written
<1>3. Shrinks(FlushBuffer(written, good), written)
  BY <1>1, FlushShrinks DEF Shrinks
<1> QED
  BY <1>1, <1>2, <1>3 DEF Shrinks

----------------------------------------------------------------------------
(* The sources stop.                                                        *)

\* ClearDownloadBlockRequests takes every block of the clients off the list.
LEMMA ClearIsGood ==
    ASSUME NEW s, NEW R, Early(s, R), NEW cs \in SUBSET Sources,
           NEW t, t = ClearDownloadBlockRequests(s, cs)
    PROVE  /\ Early(t, R)
           /\ t.src = [c \in Sources |-> IF c \in cs THEN [s.src[c] EXCEPT !.pending = <<>>] ELSE s.src[c]]
           /\ \A r \in t.file.requested : r.owner \notin cs
<1> DEFINE blocks == UNION {ToSet(s.src[c].pending) : c \in cs}
           g == RemoveBlockFromList(s.file, blocks)
           u == [c \in Sources |-> IF c \in cs THEN [s.src[c] EXCEPT !.pending = <<>>] ELSE s.src[c]]
<1>1. t = [file |-> g, src |-> u, peer |-> s.peer]
  <2>1. s = [file |-> s.file, src |-> s.src, peer |-> s.peer]
    BY DEF Early, Good, IsState
  <2>2. t = [[s EXCEPT !.src = u] EXCEPT !.file = g]
    BY <2>1 DEF ClearDownloadBlockRequests, Update
  <2> HIDE DEF g, u
  <2> QED
    BY <2>1, <2>2
<1>2. u \in [Sources -> Transfers]
  <2>1. s.src \in [Sources -> Transfers]
    BY DEF Early, Good, IsState
  <2>2. <<>> \in Seq(PendingBlocks)
    OBVIOUS
  <2> QED
    BY <2>1, <2>2 DEF Transfers
<1>3. \A c \in Sources : /\ u[c].state = s.src[c].state
                         /\ u[c].pending = IF c \in cs THEN <<>> ELSE s.src[c].pending
  <2>1. s.src \in [Sources -> Transfers]
    BY DEF Early, Good, IsState
  <2> QED
    BY <2>1 DEF Transfers
<1>4. s.file \in Files /\ s.file.requested \subseteq Requests
  BY DEF Early, Good, IsState, Files
<1>5. /\ Shrinks(g, s.file)
      /\ \A r \in g.requested : ~ \E b \in blocks : r.first <= b.first /\ r.last >= b.last
  BY <1>4, RemoveShrinks
<1>6. \A r \in g.requested : r.owner \notin cs
  <2> SUFFICES ASSUME NEW r \in g.requested, r.owner \in cs PROVE FALSE
    OBVIOUS
  <2>1. r \in s.file.requested /\ r \in Requests
    BY <1>4, <1>5 DEF Shrinks
  <2>2. PICK i \in DOMAIN s.src[r.owner].pending :
            s.src[r.owner].pending[i].first = r.first /\ s.src[r.owner].pending[i].last = r.last
    BY <2>1 DEF Early, Good, Held, IsWaited
  <2>3. s.src[r.owner].pending[i] \in blocks
    <3>1. s.src[r.owner].pending[i] \in ToSet(s.src[r.owner].pending)
      BY DEF ToSet
    <3>2. ToSet(s.src[r.owner].pending) \in {ToSet(s.src[c].pending) : c \in cs}
      OBVIOUS
    <3> QED
      BY <3>1, <3>2, Zenon
  <2>4. r.first \in Int /\ r.last \in Int
    <3>1. r.first \in Bytes /\ r.last \in Bytes
      BY <2>1 DEF Requests
    <3> QED
      BY <3>1, BytesAreInt, Zenon
  <2>5. PICK b \in blocks : b.first = r.first /\ b.last = r.last
    BY <2>2, <2>3
  <2>6. ~ (r.first <= b.first /\ r.last >= b.last)
    <3> HIDE DEF blocks, g
    <3> QED
      BY <1>5
  <2>7. r.first <= r.first /\ r.last >= r.last
    BY <2>4
  <2> HIDE DEF blocks, g
  <2> QED
    BY <2>5, <2>6, <2>7
<1> HIDE DEF g, u, blocks
<1>7. IsState(t)
  BY <1>1, <1>2, <1>5 DEF IsState, Shrinks
<1>8. WaitingIsDownloading(t) /\ Apart(t)
  BY <1>1, <1>3, <1>5 DEF Early, Good, WaitingIsDownloading, Apart, Shrinks
<1>9. Held(t)
  <2> SUFFICES ASSUME NEW r \in g.requested PROVE u[r.owner].state = "downloading" /\ IsWaited(u, r)
    BY <1>1 DEF Held
  <2>1. r \in s.file.requested /\ r.owner \in Sources /\ r.owner \notin cs
    BY <1>4, <1>5, <1>6 DEF Shrinks, Requests
  <2> QED
    BY <2>1, <1>3 DEF Early, Good, Held, IsWaited
<1>10. Accounted(t, R)
  <2> SUFFICES ASSUME NEW c \in Sources, NEW i \in DOMAIN u[c].pending
               PROVE  \/ \E r \in R :
                             r.owner = c /\ r.first = u[c].pending[i].first /\ r.last = u[c].pending[i].last
                      \/ BytesOf(u[c].pending[i]) \subseteq g.letGo
    BY <1>1 DEF Accounted
  <2>1. c \notin cs /\ u[c].pending = s.src[c].pending
    BY <1>3
  <2> QED
    BY <2>1, <1>5 DEF Early, Good, Accounted, Shrinks
<1> QED
  BY <1>1, <1>5, <1>6, <1>7, <1>8, <1>9, <1>10 DEF Early, Good, Shrinks, u

\* Only what the list and the pending blocks do not show changes at the sources.
LEMMA SameBlocksAreGood ==
    ASSUME NEW s, NEW R, Good(s, R), NEW t, IsState(t), t.file = s.file,
           \A c \in Sources :
               /\ t.src[c].state = s.src[c].state
               /\ DOMAIN t.src[c].pending = DOMAIN s.src[c].pending
               /\ \A i \in DOMAIN s.src[c].pending :
                      /\ t.src[c].pending[i].first = s.src[c].pending[i].first
                      /\ t.src[c].pending[i].last = s.src[c].pending[i].last
    PROVE  Good(t, R)
<1>1. WaitingIsDownloading(t)
  <2> SUFFICES ASSUME NEW c \in Sources, t.src[c].state # "downloading" PROVE t.src[c].pending = <<>>
    BY DEF WaitingIsDownloading
  <2>1. s.src[c].pending = <<>>
    BY DEF Good, WaitingIsDownloading
  <2>2. t.src[c].pending \in Seq(PendingBlocks)
    BY DEF IsState, Transfers
  <2>3. DOMAIN t.src[c].pending = {}
    BY <2>1
  <2> QED
    BY <2>2, <2>3
<1>2. Held(t)
  <2>1. \A r \in s.file.requested : r.owner \in Sources
    BY DEF Good, IsState, Files, Requests
  <2> QED
    BY <2>1 DEF Good, Held, IsWaited
<1>3. Apart(t)
  BY DEF Good, Apart
<1>4. Accounted(t, R)
  <2> SUFFICES ASSUME NEW d \in Sources, NEW i \in DOMAIN t.src[d].pending
               PROVE  \/ \E r \in s.file.requested \cup R :
                             r.owner = d /\ r.first = t.src[d].pending[i].first /\ r.last = t.src[d].pending[i].last
                      \/ BytesOf(t.src[d].pending[i]) \subseteq s.file.letGo
    BY DEF Accounted
  <2> QED
    BY DEF Good, Accounted, BytesOf
<1> QED
  BY <1>1, <1>2, <1>3, <1>4 DEF Good

\* The same, where the pending blocks stay as they are.
LEMMA SameIsGood ==
    ASSUME NEW s, NEW R, Good(s, R), NEW t, IsState(t), t.file = s.file,
           \A c \in Sources : t.src[c].pending = s.src[c].pending /\ t.src[c].state = s.src[c].state
    PROVE  Good(t, R)
BY SameBlocksAreGood

\* OP_CANCELTRANSFER is remembered.
LEMMA CancelIsGood ==
    ASSUME NEW s, NEW R, Good(s, R), NEW cs \in SUBSET Sources, NEW t, t = Cancel(s, cs)
    PROVE  /\ Good(t, R) /\ t.file = s.file
           /\ \A c \in Sources : t.src[c].pending = s.src[c].pending /\ t.src[c].state = s.src[c].state
<1> DEFINE told == {c \in cs : ~ s.src[c].sentCancel}
           u == [c \in Sources |-> IF c \in told THEN [s.src[c] EXCEPT !.sentCancel = TRUE] ELSE s.src[c]]
<1>1. PICK peers : t = [[s EXCEPT !.src = u] EXCEPT !.peer = peers]
  BY DEF Cancel, Update
<1>2. u \in [Sources -> Transfers]
  BY DEF Good, IsState, Transfers
<1>3. \A c \in Sources : u[c].state = s.src[c].state /\ u[c].pending = s.src[c].pending
  BY DEF Good, IsState, Transfers
<1> HIDE DEF u
<1>4. t = [file |-> s.file, src |-> u, peer |-> peers]
  BY <1>1 DEF Good, IsState
<1>5. IsState(t)
  BY <1>2, <1>4 DEF Good, IsState
<1> QED
  BY <1>3, <1>4, <1>5, SameIsGood

\* SetDownloadState clears the blocks of those that stop.
LEMMA SetDownloadStateIsGood ==
    ASSUME NEW s, NEW R, Early(s, R), NEW cs \in SUBSET Sources,
           NEW state \in States, NEW t, t = SetDownloadState(s, cs, state)
    PROVE  /\ Early(t, R)
           /\ \A c \in Sources : t.src[c].state = IF c \in cs THEN state ELSE s.src[c].state
<1> DEFINE ended == {c \in cs : s.src[c].state = "downloading" /\ state # "downloading"}
           v == ClearDownloadBlockRequests(s, ended)
           w == [c \in Sources |-> IF c \in ended THEN [v.src[c] EXCEPT !.lastPart = NoPart] ELSE v.src[c]]
           u == [c \in Sources |-> IF c \in cs THEN [w[c] EXCEPT !.state = state] ELSE w[c]]
<1>1. /\ Early(v, R)
      /\ v.src = [c \in Sources |-> IF c \in ended THEN [s.src[c] EXCEPT !.pending = <<>>] ELSE s.src[c]]
      /\ \A r \in v.file.requested : r.owner \notin ended
  <2> HIDE DEF v
  <2>1. v = ClearDownloadBlockRequests(s, ended) /\ ended \in SUBSET Sources
    BY DEF v
  <2> HIDE DEF ended
  <2> QED
    BY <2>1, ClearIsGood
<1>2. t = [[v EXCEPT !.src = w] EXCEPT !.src = [c \in Sources |-> IF c \in cs
               THEN [[v EXCEPT !.src = w].src[c] EXCEPT !.state = state] ELSE [v EXCEPT !.src = w].src[c]]]
  BY DEF SetDownloadState, Update
<1> HIDE DEF v
<1>3. t = [file |-> v.file, src |-> u, peer |-> v.peer]
  <2>1. v = [file |-> v.file, src |-> v.src, peer |-> v.peer]
    BY <1>1 DEF Early, Good, IsState
  <2> HIDE DEF w
  <2>2. [v EXCEPT !.src = w] = [file |-> v.file, src |-> w, peer |-> v.peer]
    BY <2>1
  <2> QED
    BY <1>2, <2>2
<1>4. v.src \in [Sources -> Transfers] /\ s.src \in [Sources -> Transfers]
  BY <1>1 DEF Early, Good, IsState
<1>5. w \in [Sources -> Transfers]
  BY <1>4 DEF Transfers
<1>6. \A c \in Sources : /\ w[c].state = s.src[c].state /\ w[c].pending = v.src[c].pending
                         /\ w[c].window = s.src[c].window
  BY <1>1, <1>4 DEF Transfers
<1> HIDE DEF w, ended
<1>7. u \in [Sources -> Transfers]
  BY <1>5 DEF Transfers
<1>8. \A c \in Sources : /\ u[c].state = IF c \in cs THEN state ELSE s.src[c].state
                         /\ u[c].pending = v.src[c].pending /\ u[c].window = s.src[c].window
  BY <1>5, <1>6 DEF Transfers
<1> HIDE DEF u
<1>9. \A c \in Sources : v.src[c].state = s.src[c].state
                           /\ v.src[c].pending = IF c \in ended THEN <<>> ELSE s.src[c].pending
  BY <1>1, <1>4 DEF Transfers
<1>10. IsState(t)
  BY <1>1, <1>3, <1>7 DEF Early, Good, IsState
<1>11. WaitingIsDownloading(t)
  <2> SUFFICES ASSUME NEW c \in Sources, u[c].state # "downloading" PROVE u[c].pending = <<>>
    BY <1>3 DEF WaitingIsDownloading
  <2>1. CASE c \in ended
    BY <2>1, <1>8, <1>9
  <2>2. CASE c \notin ended
    <3>1. s.src[c].state # "downloading"
      BY <2>2, <1>8 DEF ended
    <3> QED
      BY <2>2, <3>1, <1>8, <1>9 DEF Early, Good, WaitingIsDownloading
  <2> QED
    BY <2>1, <2>2
<1>12. Held(t)
  <2> SUFFICES ASSUME NEW r \in v.file.requested PROVE u[r.owner].state = "downloading" /\ IsWaited(u, r)
    BY <1>3 DEF Held
  <2>1. r.owner \in Sources /\ r.owner \notin ended
    BY <1>1 DEF Early, Good, IsState, Files, Requests
  <2>2. v.src[r.owner].state = "downloading" /\ IsWaited(v.src, r)
    BY <1>1 DEF Early, Good, Held
  <2>3. u[r.owner].state = "downloading"
    BY <2>1, <2>2, <1>8, <1>9 DEF ended
  <2> QED
    BY <2>1, <2>2, <2>3, <1>8 DEF IsWaited
<1>13. Apart(t)
  BY <1>1, <1>3 DEF Early, Good, Apart
<1>14. Accounted(t, R)
  BY <1>1, <1>3, <1>8 DEF Early, Good, Accounted
<1> QED
  BY <1>1, <1>3, <1>8, <1>10, <1>11, <1>12, <1>13, <1>14 DEF Early, Good

\* The same of the term itself.
LEMMA StateIsSet ==
    ASSUME NEW s, NEW R, Early(s, R), NEW cs \in SUBSET Sources, NEW state \in States
    PROVE  /\ Early(SetDownloadState(s, cs, state), R)
           /\ \A d \in Sources :
                  SetDownloadState(s, cs, state).src[d].state = IF d \in cs THEN state ELSE s.src[d].state
<1> SUFFICES ASSUME NEW t, t = SetDownloadState(s, cs, state)
             PROVE  /\ Early(t, R)
                    /\ \A d \in Sources : t.src[d].state = IF d \in cs THEN state ELSE s.src[d].state
  OBVIOUS
<1>1. Early(t, R)
  BY SetDownloadStateIsGood
<1>2. \A d \in Sources : t.src[d].state = IF d \in cs THEN state ELSE s.src[d].state
  BY SetDownloadStateIsGood
<1> QED
  BY <1>1, <1>2

\* Sources are sent away when the file does not download.
LEMMA RefuseIsGood ==
    ASSUME NEW s, NEW R, Early(s, R), NEW cs \in SUBSET Sources
    PROVE  Early(Refuse(s, cs), R)
<1>1. Early(Cancel(s, cs), R)
  BY CancelIsGood DEF Early
<1>2. "onqueue" \in States
  BY DEF States
<1>3. Early(SetDownloadState(Cancel(s, cs), cs, "onqueue"), R)
  BY <1>1, <1>2, StateIsSet
<1> QED
  BY <1>3 DEF Refuse

----------------------------------------------------------------------------
(* A source is asked for blocks.                                            *)

\* GetNextEmptyBlockInPart chooses a free block, if there is one.
LEMMA FreeIsChosen ==
    ASSUME NEW f, NEW n, FreePieces(f, n) # {}
    PROVE  GetNextEmptyBlockInPart(f, n) \in FreePieces(f, n)
<1> DEFINE S == {b.first : b \in FreePieces(f, n)}
<1>1. FreePieces(f, n) \subseteq Blocks
  BY DEF FreePieces, Pieces
<1>2. \A b \in Blocks : b.first \in Bytes
  BY DEF Blocks
<1>3. S \in SUBSET Nat /\ S # {}
  BY <1>1, <1>2, BytesAreInt
<1>4. PICK x \in S : \A y \in S : x <= y
  BY <1>3, SmallestOne
<1>5. \E b \in FreePieces(f, n) : \A d \in FreePieces(f, n) : b.first <= d.first
  BY <1>4
<1> QED
  BY <1>5 DEF GetNextEmptyBlockInPart

\* The state after c was asked for block b of part n.
AskedFor(s, c, b, n) ==
    [s EXCEPT !.file.requested = @ \cup {[owner |-> c, first |-> b.first, last |-> b.last]},
              !.src[c].pending = Append(@, [first |-> b.first, last |-> b.last, bad |-> FALSE]),
              !.src[c].lastPart = n]

\* A free block is asked for.
LEMMA AskedForIsGood ==
    ASSUME NEW s, NEW R, Good(s, R), NEW c \in Sources, s.src[c].state = "downloading",
           NEW b \in Blocks, ~ IsAlreadyRequested(s.file, b), NEW n \in Parts,
           NEW t, t = AskedFor(s, c, b, n)
    PROVE  /\ Good(t, R)
           /\ t.src[c].state = "downloading" /\ t.src[c].pending # <<>>
<1> DEFINE q == [owner |-> c, first |-> b.first, last |-> b.last]
           e == [first |-> b.first, last |-> b.last, bad |-> FALSE]
           p == s.src[c].pending
           g == [s.file EXCEPT !.requested = @ \cup {q}]
           v == [s.src[c] EXCEPT !.pending = Append(p, e), !.lastPart = n]
           u == [s.src EXCEPT ![c] = v]
<1>1. s = [file |-> s.file, src |-> s.src, peer |-> s.peer]
      /\ s.file \in Files /\ s.src \in [Sources -> Transfers]
  BY DEF Good, IsState
<1>2. s.src[c] \in Transfers /\ p \in Seq(PendingBlocks)
  BY <1>1 DEF Transfers
<1>3. t = [file |-> g, src |-> u, peer |-> s.peer]
  BY <1>1, <1>2 DEF AskedFor, Files, Transfers
<1>4. b.first \in Bytes /\ b.last \in Bytes
  BY DEF Blocks
<1>5. q \in Requests /\ e \in PendingBlocks
  BY <1>4 DEF Requests, PendingBlocks
<1>6. g \in Files /\ g.requested = s.file.requested \cup {q} /\ g.letGo = s.file.letGo
  <2> HIDE DEF q
  <2> QED
    BY <1>1, <1>5 DEF Files
<1>7. /\ Append(p, e) \in Seq(PendingBlocks) /\ Append(p, e) # <<>>
      /\ DOMAIN Append(p, e) = DOMAIN p \cup {Len(p) + 1}
      /\ \A i \in DOMAIN p : Append(p, e)[i] = p[i]
      /\ Append(p, e)[Len(p) + 1] = e
  <2> HIDE DEF e, p
  <2> QED
    BY <1>2, <1>5
<1> DEFINE a == Append(p, e)
<1> HIDE DEF a
<1>8. v \in Transfers /\ v.pending = a /\ v.state = "downloading"
  <2>1. v = [s.src[c] EXCEPT !.pending = a, !.lastPart = n]
    BY DEF a
  <2>2. a \in Seq(PendingBlocks)
    BY <1>7 DEF a
  <2> HIDE DEF v
  <2> QED
    BY <1>2, <2>1, <2>2 DEF Transfers
<1>9. u \in [Sources -> Transfers] /\ u[c] = v /\ \A d \in Sources : d # c => u[d] = s.src[d]
  BY <1>1, <1>8
<1> HIDE DEF q, g, v, u
<1>10. IsState(t)
  BY <1>3, <1>6, <1>9 DEF IsState
<1>11. WaitingIsDownloading(t)
  BY <1>3, <1>8, <1>9 DEF Good, WaitingIsDownloading
<1>12. Held(t)
  <2> SUFFICES ASSUME NEW r \in g.requested PROVE u[r.owner].state = "downloading" /\ IsWaited(u, r)
    BY <1>3 DEF Held
  <2>1. CASE r = q
    <3>1. r.owner = c /\ e.first = r.first /\ e.last = r.last
      BY <2>1 DEF q
    <3>2. Len(p) + 1 \in DOMAIN a /\ a[Len(p) + 1] = e
      BY <1>7 DEF a
    <3> HIDE DEF e
    <3> QED
      BY <3>1, <3>2, <1>8, <1>9 DEF IsWaited
  <2>2. CASE r \in s.file.requested
    <3>1. s.src[r.owner].state = "downloading" /\ IsWaited(s.src, r)
      BY <2>2 DEF Good, Held
    <3>2. r.owner \in Sources
      BY <2>2, <1>1 DEF Files, Requests
    <3>3. CASE r.owner # c
      BY <3>1, <3>2, <3>3, <1>9 DEF IsWaited
    <3>4. CASE r.owner = c
      <4>1. PICK i \in DOMAIN p : p[i].first = r.first /\ p[i].last = r.last
        BY <3>1, <3>4 DEF IsWaited
      <4>2. i \in DOMAIN a /\ a[i] = p[i]
        BY <1>7 DEF a
      <4> HIDE DEF p
      <4> QED
        BY <3>4, <4>1, <4>2, <1>8, <1>9 DEF IsWaited
    <3> QED
      BY <3>3, <3>4
  <2> QED
    BY <2>1, <2>2, <1>6
<1>13. Apart(t)
  <2>1. \A r \in s.file.requested : ~ (b.first <= r.last /\ b.last >= r.first)
    BY DEF IsAlreadyRequested
  <2>2. q.first = b.first /\ q.last = b.last
    BY DEF q
  <2>3. \A r \in s.file.requested : r.first \in Int /\ r.last \in Int
    BY <1>1, BytesAreInt DEF Files, Requests
  <2>4. b.first \in Int /\ b.last \in Int
    BY <1>4, BytesAreInt
  <2>5. \A r \in s.file.requested : ~ (q.first <= r.last /\ q.last >= r.first)
                                  /\ ~ (r.first <= q.last /\ r.last >= q.first)
    BY <2>1, <2>2, <2>3, <2>4
  <2>6. Apart(s)
    BY DEF Good
  <2> QED
    BY <2>5, <2>6, <1>3, <1>6 DEF Apart
<1>14. Accounted(t, R)
  <2> SUFFICES ASSUME NEW d \in Sources, NEW i \in DOMAIN u[d].pending
               PROVE  \/ \E r \in g.requested \cup R :
                             r.owner = d /\ r.first = u[d].pending[i].first /\ r.last = u[d].pending[i].last
                      \/ BytesOf(u[d].pending[i]) \subseteq g.letGo
    BY <1>3 DEF Accounted
  <2>1. CASE d = c /\ i = Len(p) + 1
    <3>1. u[d].pending[i] = e
      BY <2>1, <1>7, <1>8, <1>9 DEF a
    <3>2. q.owner = d /\ q.first = e.first /\ q.last = e.last /\ q \in g.requested
      BY <2>1, <1>6 DEF q
    <3> QED
      BY <3>1, <3>2
  <2>2. CASE ~ (d = c /\ i = Len(p) + 1)
    <3>1. i \in DOMAIN s.src[d].pending /\ u[d].pending[i] = s.src[d].pending[i]
      <4>1. CASE d = c
        BY <2>2, <4>1, <1>7, <1>8, <1>9 DEF a
      <4>2. CASE d # c
        BY <4>2, <1>9
      <4> QED
        BY <4>1, <4>2
    <3> QED
      BY <3>1, <1>6 DEF Good, Accounted
  <2> QED
    BY <2>1, <2>2
<1> QED
  BY <1>3, <1>7, <1>8, <1>9, <1>10, <1>11, <1>12, <1>13, <1>14 DEF Good, a

\* One turn of the loop.
LEMMA AskOneIsGood ==
    ASSUME NEW s, NEW R, Good(s, R), NEW c \in Sources, s.src[c].state = "downloading",
           NEW order \in Orders, NEW t, t = AskOne(s, c, order)
    PROVE  /\ Good(t, R)
           /\ t.src[c].state = "downloading"
           /\ \/ t.file = s.file /\ t.src[c].pending = s.src[c].pending
              \/ t.src[c].pending # <<>>
<1> DEFINE last == s.src[c].lastPart
           useful == {i \in DOMAIN order : order[i] \in HasParts[c] /\ FreePieces(s.file, order[i]) # {}}
           n == IF last # NoPart /\ FreePieces(s.file, last) # {} THEN last
                ELSE IF useful # {} THEN order[Min(useful)] ELSE NoPart
           b == GetNextEmptyBlockInPart(s.file, n)
<1>1. t = IF n = NoPart THEN [s EXCEPT !.src[c].lastPart = NoPart] ELSE AskedFor(s, c, b, n)
  BY DEF AskOne, AskedFor
<1>2. s = [file |-> s.file, src |-> s.src, peer |-> s.peer]
      /\ s.file \in Files /\ s.src \in [Sources -> Transfers]
  BY DEF Good, IsState
<1>3. last \in Parts \cup {NoPart}
  BY <1>2 DEF Transfers
<1>4. /\ DOMAIN order = 1 .. Cardinality(Parts)
      /\ \A i \in DOMAIN order : order[i] \in Parts
  BY DEF Orders, SetToSeqs
<1>5. useful # {} => Min(useful) \in useful
  <2>1. useful \in SUBSET Nat
    BY <1>4
  <2> HIDE DEF useful
  <2> QED
    BY <2>1, MinIsIn
<1>6. n # NoPart => n \in Parts /\ FreePieces(s.file, n) # {}
  <2>1. useful # {} => order[Min(useful)] \in Parts /\ FreePieces(s.file, order[Min(useful)]) # {}
    BY <1>4, <1>5
  <2> HIDE DEF useful
  <2> QED
    BY <2>1, <1>3
<1> HIDE DEF n, useful
<1>7. CASE n = NoPart
  <2> DEFINE v == [s.src[c] EXCEPT !.lastPart = NoPart]
             u == [s.src EXCEPT ![c] = v]
  <2>1. t = [file |-> s.file, src |-> u, peer |-> s.peer]
    BY <1>1, <1>2, <1>7
  <2>2. v \in Transfers /\ v.pending = s.src[c].pending /\ v.state = s.src[c].state
    BY <1>2 DEF Transfers
  <2> HIDE DEF v
  <2>3. u \in [Sources -> Transfers] /\ u[c] = v /\ \A d \in Sources : d # c => u[d] = s.src[d]
    BY <1>2, <2>2
  <2> HIDE DEF u
  <2>4. IsState(t)
    BY <1>2, <2>1, <2>3 DEF IsState
  <2>5. \A d \in Sources : t.src[d].pending = s.src[d].pending /\ t.src[d].state = s.src[d].state
    BY <2>1, <2>2, <2>3
  <2> QED
    BY <2>1, <2>4, <2>5, SameIsGood
<1>8. CASE n # NoPart
  <2>1. b \in FreePieces(s.file, n)
    BY <1>6, <1>8, FreeIsChosen
  <2>2. b \in Blocks /\ ~ IsAlreadyRequested(s.file, b)
    BY <2>1 DEF FreePieces, Pieces
  <2>3. t = AskedFor(s, c, b, n) /\ n \in Parts
    BY <1>1, <1>6, <1>8
  <2> HIDE DEF b
  <2> QED
    BY <2>2, <2>3, AskedForIsGood
<1> QED
  BY <1>7, <1>8

----------------------------------------------------------------------------
(* The loop of GetNextRequestedBlock.  There is a function that solves its  *)
(* equation, since there is no smallest number of turns for which there is  *)
(* none; and no first turn after which the state is not good.               *)

\* g is what the loop makes of s in up to N turns.
IsRun(g, s, c, order, N) == g = [i \in 0 .. N |-> IF i = 0 THEN s ELSE AskOne(g[i - 1], c, order)]

\* The equation of the loop has a solution for any number of turns.
LEMMA RunExists ==
    ASSUME NEW s, NEW c, NEW order, NEW N \in Nat
    PROVE  \E g : IsRun(g, s, c, order, N)
<1> DEFINE Bad == {n \in Nat : ~ \E g : IsRun(g, s, c, order, n)}
<1> SUFFICES ASSUME Bad # {} PROVE FALSE
  OBVIOUS
<1>1. PICK n \in Bad : \A m \in Bad : n <= m
  <2>1. Bad \in SUBSET Nat
    OBVIOUS
  <2> HIDE DEF Bad
  <2> QED
    BY <2>1, SmallestOne
<1>2. CASE n = 0
  <2> DEFINE g == [i \in 0 .. 0 |-> s]
  <2>1. g = [i \in 0 .. 0 |-> IF i = 0 THEN s ELSE AskOne(g[i - 1], c, order)]
    OBVIOUS
  <2> HIDE DEF g
  <2> QED
    BY <2>1, <1>1, <1>2 DEF IsRun
<1>3. CASE n # 0
  <2>1. n - 1 \in Nat /\ n - 1 \notin Bad
    BY <1>1, <1>3
  <2>2. PICK h : IsRun(h, s, c, order, n - 1)
    BY <2>1
  <2> DEFINE g == [i \in 0 .. n |-> IF i = n THEN AskOne(h[n - 1], c, order) ELSE h[i]]
  <2>3. \A i \in 0 .. n - 1 : h[i] = IF i = 0 THEN s ELSE AskOne(h[i - 1], c, order)
    BY <2>2 DEF IsRun
  <2>4. \A i \in 0 .. n : g[i] = IF i = 0 THEN s ELSE AskOne(g[i - 1], c, order)
    <3> TAKE i \in 0 .. n
    <3>1. CASE i = n
      <4>1. g[n - 1] = h[n - 1]
        BY <2>1
      <4> QED
        BY <1>3, <3>1, <4>1
    <3>2. CASE i # n
      <4>1. i \in 0 .. n - 1 /\ g[i] = h[i]
        BY <2>1, <3>2
      <4>2. i # 0 => g[i - 1] = h[i - 1]
        BY <4>1, <2>1
      <4> HIDE DEF g
      <4> QED
        BY <2>3, <4>1, <4>2
    <3> QED
      BY <3>1, <3>2
  <2>5. g = [i \in 0 .. n |-> g[i]]
    OBVIOUS
  <2> HIDE DEF g
  <2>6. g = [i \in 0 .. n |-> IF i = 0 THEN s ELSE AskOne(g[i - 1], c, order)]
    BY <2>4, <2>5
  <2> QED
    BY <2>6, <1>1 DEF IsRun
<1> QED
  BY <1>2, <1>3

\* After every turn of the loop the state is good.
LEMMA RunIsGood ==
    ASSUME NEW s, NEW R, Good(s, R), NEW c \in Sources, s.src[c].state = "downloading",
           NEW order \in Orders, NEW N \in Nat, NEW g, IsRun(g, s, c, order, N)
    PROVE  /\ Good(g[N], R) /\ g[N].src[c].state = "downloading"
           /\ g[N].file = s.file \/ g[N].src[c].pending # <<>>
<1> DEFINE P(t) == /\ Good(t, R) /\ t.src[c].state = "downloading"
                   /\ t.file = s.file \/ t.src[c].pending # <<>>
           Bad == {n \in 0 .. N : ~ P(g[n])}
<1> SUFFICES ASSUME Bad # {} PROVE FALSE
  OBVIOUS
<1>1. PICK n \in Bad : \A m \in Bad : n <= m
  <2>1. Bad \in SUBSET Nat
    OBVIOUS
  <2> HIDE DEF Bad
  <2> QED
    BY <2>1, SmallestOne
<1>2. \A i \in 0 .. N : g[i] = IF i = 0 THEN s ELSE AskOne(g[i - 1], c, order)
  BY DEF IsRun
<1>3. n # 0
  <2> SUFFICES ASSUME n = 0 PROVE FALSE
    OBVIOUS
  <2>1. g[n] = s
    BY <1>2
  <2> QED
    BY <2>1, <1>1
<1>4. n - 1 \in 0 .. N /\ n - 1 \notin Bad
  <2>1. n \in 0 .. N
    OBVIOUS
  <2> HIDE DEF Bad
  <2> QED
    BY <1>1, <1>3, <2>1
<1>5. P(g[n - 1])
  BY <1>4
<1>6. g[n] = AskOne(g[n - 1], c, order)
  BY <1>2, <1>3
<1>7. P(g[n])
  BY <1>5, <1>6, AskOneIsGood
<1> QED
  BY <1>7

\* GetNextRequestedBlock asks for blocks, or leaves the list as it was.
LEMMA GetNextIsGood ==
    ASSUME NEW s, NEW R, Good(s, R), NEW c \in Sources, s.src[c].state = "downloading",
           NEW order \in Orders, NEW t, t = GetNextRequestedBlock(s, c, order)
    PROVE  /\ Good(t, R) /\ t.src[c].state = "downloading"
           /\ t.file = s.file \/ t.src[c].pending # <<>>
<1> DEFINE room == (s.src[c].window - Len(s.src[c].pending)) % 65536
           count == Min({room, FileSize})
           run == CHOOSE g : IsRun(g, s, c, order, count)
<1>1. t = run[count]
  BY DEF GetNextRequestedBlock, IsRun
<1>2. count \in Nat
  <2>1. s.src[c].window \in Nat /\ s.src[c].pending \in Seq(PendingBlocks)
    BY DEF Good, IsState, Transfers
  <2>2. room \in Nat
    BY <2>1
  <2>3. {room, FileSize} \in SUBSET Nat
    BY <2>2, BlockRequestsAssumption
  <2> HIDE DEF room
  <2> QED
    BY <2>3, MinIsIn
<1> HIDE DEF count
<1>3. IsRun(run, s, c, order, count)
  BY <1>2, RunExists
<1> HIDE DEF run
<1> QED
  BY <1>1, <1>2, <1>3, RunIsGood

----------------------------------------------------------------------------
(* SendBlockRequests.                                                       *)

\* OP_REQUESTPARTS asks the peer for what is pending already.
LEMMA RequestPartsIsGood ==
    ASSUME NEW s, NEW R, Good(s, R), NEW c \in Sources
    PROVE  Good(RequestParts(s, c), R)
<1> DEFINE p == s.src[c].pending
           fresh == [i \in DOMAIN p |-> [p[i] EXCEPT !.bad = FALSE]]
           v == [s.src[c] EXCEPT !.pending = fresh]
           u == [s.src EXCEPT ![c] = v]
           t == RequestParts(s, c)
<1>1. s = [file |-> s.file, src |-> s.src, peer |-> s.peer]
      /\ s.file \in Files /\ s.src \in [Sources -> Transfers]
  BY DEF Good, IsState
<1>2. PICK x : t = [[s EXCEPT !.src[c].pending = fresh] EXCEPT !.peer[c] = x]
  BY DEF RequestParts
<1>3. PICK peers : t = [file |-> s.file, src |-> u, peer |-> peers]
  <2>1. [s EXCEPT !.src[c].pending = fresh] = [file |-> s.file, src |-> u, peer |-> s.peer]
    <3> HIDE DEF fresh, t
    <3> QED
      BY <1>1
  <2> HIDE DEF fresh, t, u
  <2>2. t = [file |-> s.file, src |-> u, peer |-> [s.peer EXCEPT ![c] = x]]
    BY <1>2, <2>1
  <2> QED
    BY <2>2
<1> HIDE DEF t
<1>4. p \in Seq(PendingBlocks)
  BY <1>1 DEF Transfers
<1>5. fresh \in Seq(PendingBlocks) /\ DOMAIN fresh = DOMAIN p
      /\ \A i \in DOMAIN p : fresh[i].first = p[i].first /\ fresh[i].last = p[i].last
  <2> HIDE DEF p
  <2>1. \A i \in DOMAIN p : p[i] \in PendingBlocks
    BY <1>4
  <2>2. \A i \in DOMAIN p : /\ [p[i] EXCEPT !.bad = FALSE] \in PendingBlocks
                            /\ [p[i] EXCEPT !.bad = FALSE].first = p[i].first
                            /\ [p[i] EXCEPT !.bad = FALSE].last = p[i].last
    BY <2>1 DEF PendingBlocks
  <2>3. DOMAIN p = 1 .. Len(p) /\ Len(p) \in Nat
    BY <1>4
  <2>4. fresh \in [1 .. Len(p) -> PendingBlocks]
    BY <2>2, <2>3
  <2>5. DOMAIN fresh = DOMAIN p /\ \A i \in DOMAIN p : fresh[i] = [p[i] EXCEPT !.bad = FALSE]
    OBVIOUS
  <2> HIDE DEF fresh
  <2>6. fresh \in Seq(PendingBlocks)
    BY <2>3, <2>4
  <2> QED
    BY <2>2, <2>5, <2>6
<1> HIDE DEF fresh
<1>6. v \in Transfers /\ v.pending = fresh /\ v.state = s.src[c].state
  BY <1>1, <1>5 DEF Transfers
<1> HIDE DEF v
<1>7. u \in [Sources -> Transfers] /\ u[c] = v /\ \A d \in Sources : d # c => u[d] = s.src[d]
  BY <1>1, <1>6
<1> HIDE DEF u
<1>8. IsState(t)
  BY <1>1, <1>3, <1>7 DEF IsState
<1>9. \A d \in Sources : /\ u[d].state = s.src[d].state
                         /\ DOMAIN u[d].pending = DOMAIN s.src[d].pending
                         /\ \A i \in DOMAIN s.src[d].pending :
                                /\ u[d].pending[i].first = s.src[d].pending[i].first
                                /\ u[d].pending[i].last = s.src[d].pending[i].last
  BY <1>5, <1>6, <1>7
<1> QED
  BY <1>3, <1>8, <1>9, SameBlocksAreGood DEF t

\* A source may have some number of blocks pending.
LEMMA WindowIsNat ==
    ASSUME NEW w \in Nat, NEW c, NEW faster
    PROVE  Window(w, c, faster) \in Nat
<1>1. Min({2 * w, MaxRequests}) \in Nat
  <2>1. {2 * w, MaxRequests} \in SUBSET Nat
    BY BlockRequestsAssumption
  <2> QED
    BY <2>1, MinIsIn
<1>2. Max({w \div 2, MinRequests}) \in Nat
  <2>1. w \div 2 \in Nat /\ MinRequests \in Nat
    BY BlockRequestsAssumption
  <2>2. \E x \in {w \div 2, MinRequests} : \A y \in {w \div 2, MinRequests} : x >= y
    BY <2>1
  <2>3. Max({w \div 2, MinRequests}) \in {w \div 2, MinRequests}
    BY <2>2 DEF Max
  <2> QED
    BY <2>1, <2>3
<1> QED
  BY <1>1, <1>2 DEF Window

\* A slower source is dropped, or this one has nothing to be asked for.
LEMMA DropIsGood ==
    ASSUME NEW s, NEW R, Early(s, R), NEW victim \in Sources
    PROVE  LET idle == SetDownloadState(Cancel(s, {victim}), {victim}, "noneededparts")
           IN  Early(idle, R) /\ \A c \in Sources : victim # c => idle.src[c].state = s.src[c].state
<1> DEFINE cs == {victim}
           cancelled == Cancel(s, cs)
           unneeded == "noneededparts"
           idle == SetDownloadState(cancelled, cs, unneeded)
<1>1. cs \in SUBSET Sources /\ \A c \in Sources : victim # c => c \notin cs
  OBVIOUS
<1>2. unneeded \in States
  BY DEF States
<1> HIDE DEF cs, unneeded
<1>3. Early(cancelled, R)
  BY <1>1, CancelIsGood DEF Early
<1>4. \A c \in Sources : cancelled.src[c].state = s.src[c].state
  BY <1>1, CancelIsGood DEF Early
<1> HIDE DEF cancelled
<1>5. Early(idle, R)
  BY <1>1, <1>2, <1>3, StateIsSet
<1>6. \A c \in Sources : idle.src[c].state = IF c \in cs THEN unneeded ELSE cancelled.src[c].state
  BY <1>1, <1>2, <1>3, StateIsSet
<1> HIDE DEF idle
<1>7. \A c \in Sources : victim # c => idle.src[c].state = s.src[c].state
  BY <1>1, <1>4, <1>6
<1> QED
  BY <1>5, <1>7 DEF idle, cancelled, cs, unneeded

\* The second asking happens only when the first has found nothing.
LEMMA AskIsGood ==
    ASSUME NEW s, NEW R, Early(s, R), NEW c \in Sources,
           s.src[c].state = "downloading",
           NEW order \in Orders, NEW slow \in Sources \cup {NoSource}, NEW faster
    PROVE  Good(Ask(s, c, order, slow, faster), R)
<1> DEFINE w == Window(s.src[c].window, c, faster)
           v == [s.src[c] EXCEPT !.window = w]
           u == [s.src EXCEPT ![c] = v]
           begun == [s EXCEPT !.src[c].window = w]
           asked == GetNextRequestedBlock(begun, c, order)
           victim == IF slow = NoSource THEN c ELSE slow
           idle == SetDownloadState(Cancel(asked, {victim}), {victim}, "noneededparts")
           again == GetNextRequestedBlock(idle, c, order)
<1>1. Ask(s, c, order, slow, faster) =
        IF asked.src[c].pending # <<>> THEN RequestParts(asked, c)
        ELSE IF victim # c /\ again.src[c].pending # <<>> THEN RequestParts(again, c)
        ELSE IF victim # c THEN again
        ELSE idle
  BY DEF Ask
<1>2. s = [file |-> s.file, src |-> s.src, peer |-> s.peer]
      /\ s.file \in Files /\ s.src \in [Sources -> Transfers]
  BY DEF Early, Good, IsState
<1>3. w \in Nat
  BY <1>2, WindowIsNat DEF Transfers
<1> HIDE DEF w
<1>4. begun = [file |-> s.file, src |-> u, peer |-> s.peer]
  BY <1>2
<1>5. v \in Transfers /\ v.pending = s.src[c].pending /\ v.state = s.src[c].state
  BY <1>2, <1>3 DEF Transfers
<1> HIDE DEF v, begun
<1>6. u \in [Sources -> Transfers] /\ u[c] = v /\ \A d \in Sources : d # c => u[d] = s.src[d]
  BY <1>2, <1>5
<1> HIDE DEF u
<1>7. IsState(begun)
  BY <1>2, <1>4, <1>6 DEF IsState
<1>8. /\ begun.file = s.file
      /\ \A d \in Sources : begun.src[d].pending = s.src[d].pending /\ begun.src[d].state = s.src[d].state
  BY <1>4, <1>5, <1>6
<1>9. Good(begun, R) /\ begun.src[c].state = "downloading"
  BY <1>7, <1>8, SameIsGood DEF Early
<1>10. /\ Good(asked, R) /\ asked.src[c].state = "downloading"
       /\ asked.file = s.file \/ asked.src[c].pending # <<>>
  BY <1>8, <1>9, GetNextIsGood
<1>11. CASE asked.src[c].pending # <<>>
  <2> HIDE DEF asked
  <2> QED
    BY <1>1, <1>10, <1>11, RequestPartsIsGood
<1>12. CASE asked.src[c].pending = <<>>
  <2> HIDE DEF asked
  <2>1. Early(asked, R)
    BY <1>8, <1>10, <1>12 DEF Early
  <2>2. victim \in Sources
    OBVIOUS
  <2> HIDE DEF victim
  <2>4. Early(idle, R) /\ (victim # c => idle.src[c].state = "downloading")
    BY <1>10, <2>1, <2>2, DropIsGood
  <2> HIDE DEF idle
  <2>5. victim # c => Good(again, R)
    BY <2>4, GetNextIsGood DEF Early
  <2> HIDE DEF again
  <2> QED
    BY <1>1, <1>12, <2>4, <2>5, RequestPartsIsGood DEF Early
<1> QED
  BY <1>11, <1>12

\* SendBlockRequests, whatever it meets.
LEMMA SendBlockRequestsIsGood ==
    ASSUME NEW s, NEW R, Early(s, R), NEW c \in Sources,
           s.src[c].state = "downloading",
           NEW order \in Orders, NEW slow \in Sources \cup {NoSource}, NEW faster
    PROVE  Good(SendBlockRequests(s, c, order, slow, faster), R)
BY AskIsGood DEF SendBlockRequests, Early

----------------------------------------------------------------------------
(* ProcessBlockPacket.                                                      *)

\* The length of two sequences in a row.
LEMMA JoinedSeqs ==
    ASSUME NEW S, NEW l \in Seq(S), NEW r \in Seq(S)
    PROVE  l \o r \in Seq(S) /\ Len(l \o r) = Len(l) + Len(r)
OBVIOUS

\* RemoveAt takes one element out and no other.
LEMMA OneIsRemoved ==
    ASSUME NEW S, NEW q \in Seq(S), NEW i \in DOMAIN q
    PROVE  /\ RemoveAt(q, i) \in Seq(S)
           /\ \A j \in DOMAIN RemoveAt(q, i) : \E k \in DOMAIN q : RemoveAt(q, i)[j] = q[k]
           /\ \A k \in DOMAIN q : k # i => \E j \in DOMAIN RemoveAt(q, i) : RemoveAt(q, i)[j] = q[k]
<1> DEFINE l == SubSeq(q, 1, i - 1)
           r == SubSeq(q, i + 1, Len(q))
<1>1. i \in 1 .. Len(q) /\ Len(q) \in Nat /\ DOMAIN q = 1 .. Len(q)
  OBVIOUS
<1>2. l \in Seq(S) /\ Len(l) = i - 1 /\ \A j \in 1 .. i - 1 : l[j] = q[j]
  BY <1>1
<1>3. r \in Seq(S) /\ Len(r) = Len(q) - i /\ \A j \in 1 .. Len(q) - i : r[j] = q[i + j]
  BY <1>1
<1> HIDE DEF l, r
<1>4. RemoveAt(q, i) = l \o r
  BY DEF RemoveAt, l, r
<1> DEFINE m == l \o r
<1>5. m \in Seq(S) /\ DOMAIN m = 1 .. Len(q) - 1
  <2>1. m \in Seq(S) /\ Len(m) = Len(l) + Len(r)
    BY <1>2, <1>3, JoinedSeqs
  <2>2. Len(l) + Len(r) = Len(q) - 1
    BY <1>1, <1>2, <1>3
  <2> HIDE DEF m
  <2>3. DOMAIN m = 1 .. Len(m)
    BY <2>1
  <2> QED
    BY <2>1, <2>2, <2>3, Zenon
<1>6. \A j \in 1 .. Len(q) - 1 : m[j] = IF j < i THEN q[j] ELSE q[j + 1]
  <2> TAKE j \in 1 .. Len(q) - 1
  <2>1. CASE j < i
    BY <2>1, <1>1, <1>2, <1>3
  <2>2. CASE ~ (j < i)
    <3>1. m[j] = r[j - (i - 1)]
      BY <2>2, <1>1, <1>2, <1>3
    <3>2. j - (i - 1) \in 1 .. Len(q) - i /\ i + (j - (i - 1)) = j + 1
      BY <2>2, <1>1
    <3> QED
      BY <2>2, <3>1, <3>2, <1>3
  <2> QED
    BY <2>1, <2>2
<1> HIDE DEF m
<1>7. \A j \in DOMAIN m : \E k \in DOMAIN q : m[j] = q[k]
  BY <1>1, <1>5, <1>6
<1>8. ASSUME NEW k \in DOMAIN q, k # i
      PROVE  \E j \in DOMAIN m : m[j] = q[k]
  <2>1. CASE k < i
    BY <2>1, <1>1, <1>5, <1>6
  <2>2. CASE k > i
    <3>1. k - 1 \in 1 .. Len(q) - 1 /\ ~ (k - 1 < i) /\ (k - 1) + 1 = k
      BY <2>2, <1>1
    <3> QED
      BY <3>1, <1>5, <1>6
  <2> QED
    BY <1>8, <1>1, <2>1, <2>2
<1> QED
  BY <1>4, <1>5, <1>7, <1>8 DEF m

\* The state after the last byte of a block came and was written.
Finished(s, c, i, g) ==
    [s EXCEPT !.file = RemoveBlockFromList(g, {s.src[c].pending[i]}), !.src[c].pending = RemoveAt(@, i)]

\* The last byte of a block comes: the block is taken off the list, and with it
\* any block of another source around it.
LEMMA FinishedIsGood ==
    ASSUME NEW s, NEW R, Early(s, R), NEW c \in Sources, NEW i \in DOMAIN s.src[c].pending,
           s.src[c].state = "downloading",
           NEW g, Shrinks(g, s.file), NEW t, t = Finished(s, c, i, g)
    PROVE  Early(t, R) /\ t.src[c].state = "downloading"
<1> DEFINE p == s.src[c].pending
           b == p[i]
           h == RemoveBlockFromList(g, {b})
           q == RemoveAt(p, i)
           v == [s.src[c] EXCEPT !.pending = q]
           u == [s.src EXCEPT ![c] = v]
<1>1. s = [file |-> s.file, src |-> s.src, peer |-> s.peer]
      /\ s.file \in Files /\ s.src \in [Sources -> Transfers]
  BY DEF Early, Good, IsState
<1>2. p \in Seq(PendingBlocks)
  BY <1>1 DEF Transfers
<1>3. t = [file |-> h, src |-> u, peer |-> s.peer]
  <2> HIDE DEF h
  <2>1. t = [s EXCEPT !.file = h, !.src[c].pending = q]
    BY DEF Finished, h
  <2> HIDE DEF q
  <2> QED
    BY <1>1, <2>1
<1>4. /\ q \in Seq(PendingBlocks)
      /\ \A j \in DOMAIN q : \E k \in DOMAIN p : q[j] = p[k]
      /\ \A k \in DOMAIN p : k # i => \E j \in DOMAIN q : q[j] = p[k]
  <2> HIDE DEF p
  <2> QED
    BY <1>2, OneIsRemoved DEF p
<1>5. /\ Shrinks(h, g)
      /\ \A r \in h.requested : ~ (r.first <= b.first /\ r.last >= b.last)
  <2>1. g \in Files
    BY DEF Shrinks
  <2> HIDE DEF b
  <2> QED
    BY <2>1, RemoveShrinks
<1>6. Shrinks(h, s.file)
  BY <1>5 DEF Shrinks
<1> HIDE DEF q, h
<1>7. v \in Transfers /\ v.pending = q /\ v.state = "downloading"
  BY <1>1, <1>4 DEF Transfers
<1> HIDE DEF v
<1>8. u \in [Sources -> Transfers] /\ u[c] = v /\ \A d \in Sources : d # c => u[d] = s.src[d]
  BY <1>1, <1>7
<1> HIDE DEF u
<1>9. IsState(t)
  BY <1>3, <1>6, <1>8 DEF IsState, Shrinks
<1>10. WaitingIsDownloading(t)
  BY <1>3, <1>7, <1>8 DEF Early, Good, WaitingIsDownloading
<1>11. Held(t)
  <2> SUFFICES ASSUME NEW r \in h.requested PROVE u[r.owner].state = "downloading" /\ IsWaited(u, r)
    BY <1>3 DEF Held
  <2>1. r \in s.file.requested /\ r \in Requests
    BY <1>1, <1>6 DEF Shrinks, Files
  <2>2. s.src[r.owner].state = "downloading" /\ IsWaited(s.src, r) /\ r.owner \in Sources
    BY <2>1 DEF Early, Good, Held, Requests
  <2>3. CASE r.owner # c
    BY <2>2, <2>3, <1>8 DEF IsWaited
  <2>4. CASE r.owner = c
    <3>1. PICK k \in DOMAIN p : p[k].first = r.first /\ p[k].last = r.last
      BY <2>2, <2>4 DEF IsWaited
    <3>2. r.first \in Bytes /\ r.last \in Bytes
      BY <2>1 DEF Requests
    <3>3. r.first <= r.first /\ r.last >= r.last
      BY <3>2, BytesAreInt
    <3>4. k # i
      <4> SUFFICES ASSUME k = i PROVE FALSE
        OBVIOUS
      <4>1. b.first = r.first /\ b.last = r.last
        BY <3>1
      <4> HIDE DEF b, p
      <4> QED
        BY <4>1, <3>3, <1>5
    <3>5. PICK j \in DOMAIN q : q[j] = p[k]
      BY <3>4, <1>4
    <3> HIDE DEF p
    <3> QED
      BY <2>4, <3>1, <3>5, <1>7, <1>8 DEF IsWaited
  <2> QED
    BY <2>3, <2>4
<1>12. Apart(t)
  BY <1>3, <1>6 DEF Early, Good, Apart, Shrinks
<1>13. Accounted(t, R)
  <2> SUFFICES ASSUME NEW d \in Sources, NEW j \in DOMAIN u[d].pending
               PROVE  \/ \E r \in R :
                             r.owner = d /\ r.first = u[d].pending[j].first /\ r.last = u[d].pending[j].last
                      \/ BytesOf(u[d].pending[j]) \subseteq h.letGo
    BY <1>3 DEF Accounted
  <2>1. PICK k \in DOMAIN s.src[d].pending : u[d].pending[j] = s.src[d].pending[k]
    BY <1>4, <1>7, <1>8
  <2>2. s.file.requested \cup R = R
    BY DEF Early
  <2> QED
    BY <2>1, <2>2, <1>6 DEF Early, Good, Accounted, Shrinks
<1>14. t.file.requested \subseteq R
  BY <1>3, <1>6 DEF Early, Shrinks
<1>15. t.src[c].state = "downloading"
  BY <1>3, <1>7, <1>8
<1> QED
  BY <1>9, <1>10, <1>11, <1>12, <1>13, <1>14, <1>15 DEF Early, Good

\* A state with another file and other sources.
LEMMA FieldsAreReplaced ==
    ASSUME NEW s, s = [file |-> s.file, src |-> s.src, peer |-> s.peer], NEW g, NEW u,
           NEW t, t = [s EXCEPT !.file = g, !.src = u]
    PROVE  t = [file |-> g, src |-> u, peer |-> s.peer]
OBVIOUS

\* A block of a broken zip stream is marked.
LEMMA BadIsGood ==
    ASSUME NEW s, NEW R, Early(s, R), NEW c \in Sources, NEW i \in DOMAIN s.src[c].pending,
           NEW g, Shrinks(g, s.file)
    PROVE  Early([s EXCEPT !.file = g, !.src[c].pending[i].bad = TRUE], R)
<1> DEFINE m == [s EXCEPT !.file = g]
           p == s.src[c].pending
           q == [p EXCEPT ![i] = [p[i] EXCEPT !.bad = TRUE]]
           v == [s.src[c] EXCEPT !.pending = q]
           u == [s.src EXCEPT ![c] = v]
           t == [s EXCEPT !.file = g, !.src[c].pending[i].bad = TRUE]
<1>1. s = [file |-> s.file, src |-> s.src, peer |-> s.peer] /\ s.src \in [Sources -> Transfers]
  BY DEF Early, Good, IsState
<1>2. m = [file |-> g, src |-> s.src, peer |-> s.peer]
  BY <1>1
<1>3. t = [file |-> g, src |-> u, peer |-> s.peer]
  <2>1. t = [s EXCEPT !.file = g, !.src = [s.src EXCEPT ![c] = [s.src[c] EXCEPT !.pending = q]]]
    BY <1>1
  <2> HIDE DEF t, q
  <2>2. t = [s EXCEPT !.file = g, !.src = u]
    BY <2>1
  <2> HIDE DEF u
  <2> QED
    BY <1>1, <2>2, FieldsAreReplaced
<1> HIDE DEF t
<1>4. Early(m, R)
  BY ShrinkIsGood
<1> HIDE DEF m
<1>5. p \in Seq(PendingBlocks) /\ i \in DOMAIN p
  BY <1>1 DEF Transfers
<1>6. /\ q \in Seq(PendingBlocks) /\ DOMAIN q = DOMAIN p
      /\ \A j \in DOMAIN p : q[j].first = p[j].first /\ q[j].last = p[j].last
  <2> DEFINE e == [p[i] EXCEPT !.bad = TRUE]
  <2> HIDE DEF p
  <2>1. e \in PendingBlocks /\ e.first = p[i].first /\ e.last = p[i].last
    <3>1. p[i] \in PendingBlocks
      BY <1>5
    <3> QED
      BY <3>1 DEF PendingBlocks
  <2> HIDE DEF e
  <2>2. [p EXCEPT ![i] = e] \in Seq(PendingBlocks) /\ DOMAIN [p EXCEPT ![i] = e] = DOMAIN p
        /\ \A j \in DOMAIN p : [p EXCEPT ![i] = e][j] = IF j = i THEN e ELSE p[j]
    BY <1>5, <2>1
  <2>3. q = [p EXCEPT ![i] = e]
    BY DEF e
  <2> HIDE DEF q
  <2> QED
    BY <2>1, <2>2, <2>3
<1> HIDE DEF q
<1>7. v \in Transfers /\ v.pending = q /\ v.state = s.src[c].state
  BY <1>1, <1>6 DEF Transfers
<1> HIDE DEF v
<1>8. u \in [Sources -> Transfers] /\ u[c] = v /\ \A d \in Sources : d # c => u[d] = s.src[d]
  BY <1>1, <1>7
<1> HIDE DEF u
<1>9. IsState(t)
  BY <1>3, <1>8 DEF IsState, Shrinks
<1>10. \A d \in Sources : /\ t.src[d].state = m.src[d].state
                          /\ DOMAIN t.src[d].pending = DOMAIN m.src[d].pending
                          /\ \A j \in DOMAIN m.src[d].pending :
                                 /\ t.src[d].pending[j].first = m.src[d].pending[j].first
                                 /\ t.src[d].pending[j].last = m.src[d].pending[j].last
  BY <1>2, <1>3, <1>6, <1>7, <1>8
<1>11. t.file = m.file
  BY <1>2, <1>3
<1>12. Good(t, R)
  BY <1>4, <1>9, <1>10, <1>11, SameBlocksAreGood DEF Early
<1> QED
  BY <1>4, <1>11, <1>12 DEF Early, t

\* The pending block a packet is for.
Found(s, c, p) == SelectInSeq(s.src[c].pending, LAMBDA b : p \in BytesOf(b))

\* A packet is for a pending block or for none; who has one pending downloads.
LEMMA FoundIsPending ==
    ASSUME NEW s, NEW R, Early(s, R), NEW c \in Sources, NEW p
    PROVE  \/ Found(s, c, p) = 0
           \/ Found(s, c, p) \in DOMAIN s.src[c].pending /\ s.src[c].state = "downloading"
<1> DEFINE q == s.src[c].pending
           I == {i \in 1 .. Len(q) : p \in BytesOf(q[i])}
<1>1. q \in Seq(PendingBlocks)
  BY DEF Early, Good, IsState, Transfers
<1>2. s.src[c].state # "downloading" => q = <<>>
  BY DEF Early, Good, WaitingIsDownloading
<1>3. Found(s, c, p) = IF I # {} THEN Min(I) ELSE 0
  BY DEF Found, SelectInSeq
<1> HIDE DEF q
<1>4. I \in SUBSET Nat /\ I \subseteq DOMAIN q
  BY <1>1
<1> HIDE DEF I
<1>5. I # {} => Min(I) \in DOMAIN q
  BY <1>4, MinIsIn
<1>6. I # {} => s.src[c].state = "downloading"
  <2>1. q = <<>> => DOMAIN q = {}
    OBVIOUS
  <2> QED
    BY <1>2, <1>4, <2>1
<1> QED
  BY <1>3, <1>5, <1>6 DEF q

\* A block of which no more is taken is asked of others.
LEMMA RemovedIsGood ==
    ASSUME NEW s, NEW R, Early(s, R), NEW blocks
    PROVE  Good([s EXCEPT !.file = RemoveBlockFromList(@, blocks)], R)
<1>1. s.file \in Files
  BY DEF Early, Good, IsState
<1>2. Shrinks(RemoveBlockFromList(s.file, blocks), s.file)
  BY <1>1, RemoveShrinks
<1> QED
  BY <1>2, ShrinkIsGood DEF Early

\* ProcessBlockPacket, whatever is wrong with the packet.
LEMMA ProcessBlockPacketIsGood ==
    ASSUME NEW s, NEW R, Early(s, R), NEW c \in Sources, NEW p, NEW fault, NEW good, NEW more,
           more.order \in Orders, more.slow \in Sources \cup {NoSource}
    PROVE  Good(ProcessBlockPacket(s, c, p, fault, good, more), R)
<1> DEFINE i == Found(s, c, p)
           b == s.src[c].pending[i]
           wrote == WriteToBuffer(s.file, p, good)
           off == [s EXCEPT !.file = RemoveBlockFromList(@, {b})]
           bad == [s EXCEPT !.file = RemoveBlockFromList(@, {b}), !.src[c].pending[i].bad = TRUE]
           finished == Finished(s, c, i, wrote)
           sent == SendBlockRequests(finished, c, more.order, more.slow, more.faster)
           t == ProcessBlockPacket(s, c, p, fault, good, more)
<1>1. t = IF s.src[c].state \notin {"downloading", "noneededparts"} \/ i = 0 THEN s
          ELSE IF b.bad \/ fault = "overrun" THEN off
          ELSE IF fault = "zstream" THEN bad
          ELSE IF p \notin s.file.missing THEN s
          ELSE IF p # b.last THEN [s EXCEPT !.file = wrote]
          ELSE sent
  BY DEF ProcessBlockPacket, Found, Finished
<1>2. s.file \in Files /\ Good(s, R)
  BY DEF Early, Good, IsState
<1>3. i = 0 \/ (i \in DOMAIN s.src[c].pending /\ s.src[c].state = "downloading")
  BY FoundIsPending
<1> HIDE DEF i, t
<1>4. Good(off, R)
  BY RemovedIsGood
<1>5. ASSUME i # 0
      PROVE  Good(bad, R)
  <2>1. Shrinks(RemoveBlockFromList(s.file, {b}), s.file)
    BY <1>2, RemoveShrinks
  <2> DEFINE g == RemoveBlockFromList(s.file, {b})
  <2>2. bad = [s EXCEPT !.file = g, !.src[c].pending[i].bad = TRUE]
    OBVIOUS
  <2> HIDE DEF g, bad
  <2>3. Early(bad, R)
    BY <1>3, <1>5, <2>1, <2>2, BadIsGood DEF g
  <2> QED
    BY <2>3 DEF Early
<1>6. ASSUME p \in s.file.missing
      PROVE  Shrinks(wrote, s.file)
  BY <1>2, <1>6, WriteShrinks
<1>7. ASSUME p \in s.file.missing
      PROVE  Good([s EXCEPT !.file = wrote], R)
  <2> HIDE DEF wrote
  <2> QED
    BY <1>6, <1>7, ShrinkIsGood DEF Early
<1>8. ASSUME i # 0, p \in s.file.missing
      PROVE  Good(sent, R)
  <2>1. Shrinks(wrote, s.file)
    BY <1>6, <1>8
  <2> HIDE DEF wrote
  <2>2. i \in DOMAIN s.src[c].pending /\ s.src[c].state = "downloading"
    BY <1>3, <1>8
  <2>3. Early(finished, R) /\ finished.src[c].state = "downloading"
    BY <2>1, <2>2, FinishedIsGood
  <2> HIDE DEF finished
  <2> QED
    BY <2>3, SendBlockRequestsIsGood
<1> HIDE DEF off, bad, sent, wrote, b
<1> QED
  BY <1>1, <1>2, <1>4, <1>5, <1>7, <1>8 DEF t

----------------------------------------------------------------------------
(* The steps.                                                          *)

\* What a handler does to the packets under way does not matter.
LEMMA PeersDoNotMatter ==
    ASSUME IInv, NEW peers
    PROVE  /\ Early([Now EXCEPT !.peer = peers], file.requested)
           /\ [Now EXCEPT !.peer = peers].src = src
           /\ [Now EXCEPT !.peer = peers].file = file
<1> DEFINE t == [Now EXCEPT !.peer = peers]
<1>1. Early(Now, file.requested)
  BY StepBegins
<1>2. t = [file |-> file, src |-> src, peer |-> peers] /\ Now = [file |-> file, src |-> src, peer |-> peer]
  BY DEF Now
<1>3. IsState(Now)
  BY DEF IInv, Good
<1> HIDE DEF t
<1>4. IsState(t)
  BY <1>2, <1>3 DEF IsState
<1>5. Good(t, file.requested)
  BY <1>1, <1>2, <1>4, SameIsGood DEF Early
<1>6. Early(t, file.requested)
  BY <1>1, <1>2, <1>5 DEF Early
<1> QED
  BY <1>2, <1>6 DEF t

\* The types, from the invariant.
LEMMA FileIsFile == ASSUME IInv PROVE file \in Files /\ src \in [Sources -> Transfers]
BY DEF IInv, Good, IsState, Now

\* A source starts to download.
LEMMA StartedIsGood ==
    ASSUME NEW s, NEW R, Early(s, R), NEW c \in Sources
    PROVE  LET started == [SetDownloadState(s, {c}, "downloading") EXCEPT !.src[c].lastPart = NoPart]
           IN  Early(started, R) /\ started.src[c].state = "downloading"
<1> DEFINE cs == {c}
           down == "downloading"
           m == SetDownloadState(s, cs, down)
           v == [m.src[c] EXCEPT !.lastPart = NoPart]
           u == [m.src EXCEPT ![c] = v]
           t == [m EXCEPT !.src[c].lastPart = NoPart]
<1>1. cs \in SUBSET Sources /\ c \in cs /\ down \in States
  BY DEF States
<1> HIDE DEF cs, down
<1>2. Early(m, R) /\ m.src[c].state = down
  BY <1>1, StateIsSet
<1> HIDE DEF m
<1>3. m = [file |-> m.file, src |-> m.src, peer |-> m.peer] /\ m.src \in [Sources -> Transfers]
  BY <1>2 DEF Early, Good, IsState
<1>4. t = [file |-> m.file, src |-> u, peer |-> m.peer]
  BY <1>3
<1>5. v \in Transfers /\ v.pending = m.src[c].pending /\ v.state = m.src[c].state
  BY <1>3 DEF Transfers
<1> HIDE DEF v, t
<1>6. u \in [Sources -> Transfers] /\ u[c] = v /\ \A d \in Sources : d # c => u[d] = m.src[d]
  BY <1>3, <1>5
<1> HIDE DEF u
<1>7. IsState(t)
  BY <1>2, <1>4, <1>6 DEF Early, Good, IsState
<1>8. \A d \in Sources : t.src[d].pending = m.src[d].pending /\ t.src[d].state = m.src[d].state
  BY <1>4, <1>5, <1>6
<1>9. Good(t, R)
  BY <1>2, <1>4, <1>7, <1>8, SameIsGood DEF Early
<1>10. Early(t, R) /\ t.src[c].state = down
  BY <1>2, <1>4, <1>8, <1>9 DEF Early
<1> QED
  BY <1>10 DEF t, m, cs, down

\* What SendBlockRequests may meet in a step.
LEMMA ChoicesAreOrders ==
    ASSUME NEW c \in Sources, NEW more \in Asks(c) \cup Drops(c)
    PROVE  more.order \in Orders /\ more.slow \in Sources \cup {NoSource}
BY DEF Asks, Drops

\* OP_ACCEPTUPLOADREQ,
LEMMA StepAccept ==
    ASSUME IInv, NEW c \in Sources, NEW more \in Asks(c) \cup Drops(c), OnAccept(c, more)
    PROVE  IInv'
<1> DEFINE s == [Now EXCEPT !.peer = Take(c, "control")]
           started == [SetDownloadState(s, {c}, "downloading") EXCEPT !.src[c].lastPart = NoPart]
           refused == Refuse(s, {c})
           sent == SendBlockRequests(started, c, more.order, more.slow, more.faster)
           t == IF file.status # "ready" THEN refused ELSE IF src[c].state # "onqueue" THEN s ELSE sent
           R == file.requested
<1>1. Becomes(t)
  BY DEF OnAccept
<1>2. Early(s, R)
  BY PeersDoNotMatter
<1> HIDE DEF s
<1>3. Early(started, R) /\ started.src[c].state = "downloading"
  BY <1>2, StartedIsGood
<1> HIDE DEF started
<1>4. Good(sent, R)
  BY <1>3, ChoicesAreOrders, SendBlockRequestsIsGood
<1>5. Good(refused, R)
  <2>1. {c} \in SUBSET Sources
    OBVIOUS
  <2>2. Early(refused, R)
    BY <1>2, <2>1, RefuseIsGood
  <2> QED
    BY <2>2 DEF Early
<1> HIDE DEF sent, refused
<1>6. Good(t, R)
  BY <1>2, <1>4, <1>5 DEF Early
<1> HIDE DEF t
<1> QED
  BY <1>1, <1>6, FileIsFile, StepEnds

\* OP_OUTOFPARTREQS,
LEMMA StepOutOfParts ==
    ASSUME IInv, NEW c \in Sources, OutOfParts(c)
    PROVE  IInv'
<1> DEFINE s == [Now EXCEPT !.peer = Take(c, "control")]
           stopped == SetDownloadState(s, {c}, "onqueue")
           t == IF src[c].state = "downloading" THEN stopped ELSE s
           R == file.requested
<1>1. Becomes(t)
  BY DEF OutOfParts
<1>2. Early(s, R)
  BY PeersDoNotMatter
<1> HIDE DEF s
<1>3. Early(stopped, R)
  <2>1. {c} \in SUBSET Sources /\ "onqueue" \in States
    BY DEF States
  <2> QED
    BY <1>2, <2>1, StateIsSet
<1> HIDE DEF stopped
<1>4. Good(t, R)
  BY <1>2, <1>3 DEF Early
<1> HIDE DEF t
<1> QED
  BY <1>1, <1>4, FileIsFile, StepEnds

\* and OP_SENDINGPART keep the invariant.
LEMMA StepData ==
    ASSUME IInv, NEW c \in Sources, NEW fault, NEW good, NEW more \in Asks(c) \cup Drops(c),
           OnData(c, fault, good, more)
    PROVE  IInv'
<1> DEFINE s == [Now EXCEPT !.peer = Take(c, "data")]
           p == Head(peer[c].data)
           taken == ProcessBlockPacket(s, c, p, fault, good, more)
           refused == Refuse(s, {c})
           t == IF file.status = "ready" THEN taken ELSE refused
           R == file.requested
<1>1. Becomes(t)
  BY DEF OnData
<1>2. Early(s, R)
  BY PeersDoNotMatter
<1> HIDE DEF s, p
<1>3. Good(taken, R)
  BY <1>2, ChoicesAreOrders, ProcessBlockPacketIsGood
<1>4. Good(refused, R)
  <2>1. {c} \in SUBSET Sources
    OBVIOUS
  <2>2. Early(refused, R)
    BY <1>2, <2>1, RefuseIsGood
  <2> QED
    BY <2>2 DEF Early
<1> HIDE DEF taken, refused
<1>5. Good(t, R)
  BY <1>3, <1>4
<1> HIDE DEF t
<1> QED
  BY <1>1, <1>5, FileIsFile, StepEnds

\* The steps that only take blocks off the list:
LEMMA StepShrinks ==
    ASSUME IInv, NEW STATE g, Shrinks(g, file), Becomes([Now EXCEPT !.file = g])
    PROVE  IInv'
<1> DEFINE R == file.requested
           s == [Now EXCEPT !.file = g]
<1>1. Early(Now, R) /\ Now.file = file
  BY StepBegins DEF Now
<1>2. Good(s, R)
  BY <1>1, ShrinkIsGood DEF Early
<1> HIDE DEF s
<1> QED
  BY <1>2, FileIsFile, StepEnds DEF s

\* the buffer is flushed,
LEMMA StepFlush ==
    ASSUME IInv, NEW good, OnFlush(good)
    PROVE  IInv'
<1>1. Shrinks(FlushBuffer(file, good), file)
  BY FileIsFile, FlushShrinks
<1>2. Becomes([Now EXCEPT !.file = FlushBuffer(file, good)])
  BY DEF OnFlush, Now
<1> QED
  BY <1>1, <1>2, StepShrinks

\* or a part is recovered with AICH.
LEMMA StepRecover ==
    ASSUME IInv, NEW n \in Parts, NEW cells, NEW flushed, NEW good,
           AICHRecoveryDataAvailable(n, cells, flushed, good)
    PROVE  IInv'
<1> DEFINE s == FlushBuffer(file, flushed)
           First(cell) == Min(PartBytes(n))
           Size(cell) == Cardinality({p \in PartBytes(n) : Cell(p) = cell})
           filled == [s EXCEPT !.missing = @ \ {p \in Bytes : Cell(p) \in cells}]
           blocks == {[first |-> First(cell), last |-> First(cell) + Size(cell) - 1] : cell \in cells}
           listed == RemoveBlockFromList(filled, blocks)
           judged == IF ~Complete(listed, n) \/ n \in good THEN [listed EXCEPT !.corrupted = @ \ {n}]
                     ELSE [listed EXCEPT !.missing = @ \cup PartBytes(n)]
           ended == [judged EXCEPT !.status = IF judged.missing = {} THEN "completing" ELSE @]
           g == IF Complete(s, n) THEN s ELSE ended
<1>1. Becomes([Now EXCEPT !.file = g])
  BY DEF AICHRecoveryDataAvailable
<1>2. Shrinks(s, file)
  BY FileIsFile, FlushShrinks
<1> HIDE DEF s
<1>3. Shrinks(filled, file)
  BY <1>2 DEF Shrinks, Files
<1> HIDE DEF filled, blocks
<1>4. Shrinks(listed, filled)
  BY <1>3, RemoveShrinks DEF Shrinks
<1>5. Shrinks(listed, file)
  BY <1>3, <1>4 DEF Shrinks
<1> HIDE DEF listed
<1>6. Shrinks([listed EXCEPT !.corrupted = @ \ {n}], file)
  BY <1>5 DEF Shrinks, Files
<1>7. Shrinks([listed EXCEPT !.missing = @ \cup PartBytes(n)], file)
  BY <1>5, BytesArePlain DEF Shrinks, Files
<1>8. Shrinks(judged, file)
  BY <1>6, <1>7
<1> HIDE DEF judged
<1>9. Shrinks(ended, file)
  BY <1>8 DEF Shrinks, Files
<1> HIDE DEF ended
<1>10. Shrinks(g, file)
  BY <1>2, <1>9
<1> HIDE DEF g
<1> QED
  BY <1>1, <1>10, StepShrinks

\* A source is given up.
LEMMA StepTimeout ==
    ASSUME IInv, NEW c \in Sources, Timeout(c)
    PROVE  IInv'
<1> DEFINE t == Refuse(Now, {c})
<1>1. Becomes(t)
  BY DEF Timeout
<1>2. {c} \in SUBSET Sources
  OBVIOUS
<1>3. Early(t, file.requested)
  BY <1>2, StepBegins, RefuseIsGood
<1> HIDE DEF t
<1> QED
  BY <1>1, <1>3, FileIsFile, StepEnds DEF Early

\* The file is paused.
LEMMA StepPause ==
    ASSUME IInv, PauseFile
    PROVE  IInv'
<1> DEFINE cs == {c \in Sources : src[c].state = "downloading"}
           s == Refuse(Now, cs)
           g == [s.file EXCEPT !.status = "paused"]
           t == [s EXCEPT !.file = g]
<1>1. Becomes([s EXCEPT !.file.status = "paused"])
  BY DEF PauseFile
<1>2. Early(s, file.requested)
  BY StepBegins, RefuseIsGood
<1> HIDE DEF s
<1>3. s.file \in Files
  BY <1>2 DEF Early, Good, IsState
<1>4. Becomes(t)
  BY <1>1
<1>5. Shrinks(g, s.file)
  BY <1>3 DEF Shrinks, Files
<1> HIDE DEF g
<1>6. Good(t, file.requested)
  BY <1>2, <1>5, ShrinkIsGood DEF Early
<1> HIDE DEF t
<1> QED
  BY <1>4, <1>6, FileIsFile, StepEnds

\* A source that waits for nothing changes its mind.
LEMMA OtherStateIsGood ==
    ASSUME NEW s, NEW R, Good(s, R), NEW c \in Sources, s.src[c].state # "downloading",
           NEW v \in Transfers, v.state # "downloading", v.pending = s.src[c].pending,
           NEW t, IsState(t), t.file = s.file, t.src = [s.src EXCEPT ![c] = v]
    PROVE  Good(t, R)
<1>1. s.src \in [Sources -> Transfers]
  BY DEF Good, IsState
<1>2. /\ t.src[c] = v
      /\ \A d \in Sources : d # c => t.src[d] = s.src[d]
  BY <1>1
<1>3. WaitingIsDownloading(t)
  BY <1>2 DEF Good, WaitingIsDownloading
<1>4. Held(t)
  <2>1. \A r \in s.file.requested : r.owner \in Sources /\ r.owner # c
    BY DEF Good, Held, IsState, Files, Requests
  <2> QED
    BY <1>2, <2>1 DEF Good, Held, IsWaited
<1>5. Apart(t)
  BY DEF Good, Apart
<1>6. Accounted(t, R)
  <2>1. \A d \in Sources : t.src[d].pending = s.src[d].pending
    BY <1>2
  <2> QED
    BY <2>1 DEF Good, Accounted
<1> QED
  BY <1>3, <1>4, <1>5, <1>6 DEF Good

\* A source is asked for a place on its waiting list.
LEMMA StepAskForDownload ==
    ASSUME IInv, NEW c \in Sources, AskForDownload(c)
    PROVE  IInv'
<1> DEFINE v == [src[c] EXCEPT !.sentCancel = FALSE, !.state = IF Needed(c) THEN "onqueue" ELSE "noneededparts"]
<1>1. /\ src[c].state # "downloading"
      /\ src' = [src EXCEPT ![c].sentCancel = FALSE,
                            ![c].state = IF Needed(c) THEN "onqueue" ELSE "noneededparts"]
      /\ file' = file
  BY DEF AskForDownload
<1>2. file \in Files /\ src \in [Sources -> Transfers]
  BY FileIsFile
<1>3. src' = [src EXCEPT ![c] = v]
  <2> QED
    BY <1>1, <1>2
<1>4. v \in Transfers /\ v.state # "downloading" /\ v.pending = src[c].pending
  BY <1>2 DEF Transfers, States
<1> HIDE DEF v
<1>5. Now = [file |-> file, src |-> src, peer |-> peer] /\ Now' = [file |-> file', src |-> src', peer |-> peer']
  BY DEF Now
<1>6. IsState(Now')
  BY <1>1, <1>2, <1>3, <1>4, <1>5 DEF IsState
<1>7. Good(Now', {})
  BY <1>1, <1>3, <1>4, <1>5, <1>6, OtherStateIsGood DEF IInv
<1> QED
  BY <1>7 DEF IInv

\* The connection to a source is lost.
LEMMA StepDisconnected ==
    ASSUME IInv, NEW c \in Sources, Disconnected(c)
    PROVE  IInv'
<1> DEFINE stopped == SetDownloadState(Now, {c}, "onqueue")
           cleared == ClearDownloadBlockRequests(Now, {c})
           s == IF src[c].state = "downloading" THEN stopped ELSE cleared
           v == [s.src[c] EXCEPT !.sentCancel = FALSE]
           u == [s.src EXCEPT ![c] = v]
           peers == [s.peer EXCEPT ![c] = NewPeer]
           t == [s EXCEPT !.src[c].sentCancel = FALSE, !.peer[c] = NewPeer]
           R == file.requested
<1>1. Becomes(t)
  BY DEF Disconnected
<1>2. Early(stopped, R)
  <2>1. {c} \in SUBSET Sources /\ "onqueue" \in States
    BY DEF States
  <2> QED
    BY <2>1, StepBegins, StateIsSet
<1>3. Early(cleared, R)
  <2>1. {c} \in SUBSET Sources
    OBVIOUS
  <2> QED
    BY <2>1, StepBegins, ClearIsGood
<1> HIDE DEF stopped, cleared
<1>4. Early(s, R)
  BY <1>2, <1>3
<1> HIDE DEF s
<1>5. s = [file |-> s.file, src |-> s.src, peer |-> s.peer] /\ s.src \in [Sources -> Transfers]
  BY <1>4 DEF Early, Good, IsState
<1>6. t = [file |-> s.file, src |-> u, peer |-> peers]
  <2>1. t = [s EXCEPT !.src = [s.src EXCEPT ![c] = [s.src[c] EXCEPT !.sentCancel = FALSE]],
                      !.peer = [s.peer EXCEPT ![c] = NewPeer]]
    BY <1>5
  <2> HIDE DEF t
  <2>2. t = [s EXCEPT !.src = u, !.peer = peers]
    BY <2>1
  <2> HIDE DEF u, peers
  <2> QED
    BY <1>5, <2>2
<1>7. v \in Transfers /\ v.pending = s.src[c].pending /\ v.state = s.src[c].state
  BY <1>5 DEF Transfers
<1> HIDE DEF v, t, peers
<1>8. u \in [Sources -> Transfers] /\ u[c] = v /\ \A d \in Sources : d # c => u[d] = s.src[d]
  BY <1>5, <1>7
<1> HIDE DEF u
<1>9. IsState(t)
  BY <1>4, <1>6, <1>8 DEF Early, Good, IsState
<1>10. \A d \in Sources : t.src[d].pending = s.src[d].pending /\ t.src[d].state = s.src[d].state
  BY <1>6, <1>7, <1>8
<1>11. Good(t, R)
  BY <1>4, <1>6, <1>9, <1>10, SameIsGood DEF Early
<1> QED
  BY <1>1, <1>11, FileIsFile, StepEnds

\* The steps that touch neither the list of the file nor the sources.
LEMMA StepElsewhere ==
    ASSUME IInv, src' = src, file' \in Files,
           file'.requested = file.requested, file'.letGo = file.letGo
    PROVE  IInv'
<1>1. Now = [file |-> file, src |-> src, peer |-> peer] /\ Now' = [file |-> file', src |-> src', peer |-> peer']
  BY DEF Now
<1>2. IsState(Now')
  BY <1>1, FileIsFile DEF IsState
<1>3. WaitingIsDownloading(Now') /\ Held(Now') /\ Apart(Now')
  BY <1>1 DEF IInv, Good, WaitingIsDownloading, Held, IsWaited, Apart
<1>4. Accounted(Now', {})
  BY <1>1 DEF IInv, Good, Accounted
<1> QED
  BY <1>2, <1>3, <1>4 DEF IInv, Good

\* At first nothing is requested.
LEMMA InitInv ==
    ASSUME Init
    PROVE  IInv
<1>1. file \in Files /\ file.requested = {} /\ file.letGo = {}
  BY DEF Init, Files
<1>2. src \in [Sources -> Transfers] /\ \A c \in Sources : src[c].pending = <<>>
  <2>1. <<>> \in Seq(PendingBlocks) /\ MinRequests \in Nat /\ "onqueue" \in States
    BY BlockRequestsAssumption DEF States
  <2> QED
    BY <2>1 DEF Init, Transfers
<1>3. Now = [file |-> file, src |-> src, peer |-> peer]
  BY DEF Now
<1>4. IsState(Now)
  BY <1>1, <1>2, <1>3 DEF IsState
<1>5. WaitingIsDownloading(Now) /\ Held(Now) /\ Apart(Now)
  BY <1>1, <1>2, <1>3 DEF WaitingIsDownloading, Held, Apart
<1>6. Accounted(Now, {})
  <2>1. \A c \in Sources : DOMAIN src[c].pending = {}
    BY <1>2
  <2> QED
    BY <1>3, <2>1 DEF Accounted
<1> QED
  BY <1>4, <1>5, <1>6 DEF IInv, Good

\* Every step keeps the invariant.
LEMMA StepInv ==
    ASSUME IInv, [Next]_vars
    PROVE  IInv'
<1>1. ASSUME NEW c \in Sources, Accept(c) PROVE IInv'
  BY <1>1, StepAccept DEF Accept
<1>2. ASSUME NEW c \in Sources, OutOfParts(c) PROVE IInv'
  BY <1>2, StepOutOfParts
<1>3. ASSUME NEW c \in Sources, Data(c) PROVE IInv'
  BY <1>3, StepData DEF Data
<1>4. CASE Flush
  BY <1>4, StepFlush DEF Flush
<1>5. CASE Recover
  BY <1>5, StepRecover DEF Recover
<1>6. ASSUME NEW c \in Sources, Timeout(c) PROVE IInv'
  BY <1>6, StepTimeout
<1>7. ASSUME NEW c \in Sources, AskForDownload(c) PROVE IInv'
  BY <1>7, StepAskForDownload
<1>8. ASSUME NEW c \in Sources, Disconnected(c) PROVE IInv'
  BY <1>8, StepDisconnected
<1>9. CASE PauseFile
  BY <1>9, StepPause
<1>10. CASE ResumeFile
  BY <1>10, FileIsFile, StepElsewhere DEF ResumeFile, Files
<1>11. ASSUME NEW c \in Sources, AddUpNextClient(c) PROVE IInv'
  BY <1>11, FileIsFile, StepElsewhere DEF AddUpNextClient
<1>12. ASSUME NEW c \in Sources, ClearUploadBlockRequests(c) PROVE IInv'
  BY <1>12, FileIsFile, StepElsewhere DEF ClearUploadBlockRequests
<1>13. ASSUME NEW c \in Sources, SendOutOfPartReqsAndAddToWaitingQueue(c) PROVE IInv'
  BY <1>13, FileIsFile, StepElsewhere DEF SendOutOfPartReqsAndAddToWaitingQueue
<1>14. CASE UNCHANGED vars
  BY <1>14, FileIsFile, StepElsewhere DEF vars
<1> QED
  BY <1>1, <1>2, <1>3, <1>4, <1>5, <1>6, <1>7, <1>8, <1>9, <1>10, <1>11, <1>12, <1>13, <1>14 DEF Next

\* The invariant holds in every run.
LEMMA Invariance == Spec => []IInv
<1>1. Init => IInv
  BY InitInv
<1>2. IInv /\ [Next]_vars => IInv'
  BY StepInv
<1> QED
  BY <1>1, <1>2, PTL DEF Spec

\* RequestedAreHeld: what is on the list of requested blocks of a file belongs to a
\* block that a downloading source still has pending (CPartFile::
\* RemoveBlockFromList and CUpDownClient::ClearDownloadBlockRequests are called
\* wherever one ends), so that no pointer of the list is left over and no byte is
\* kept from the other sources by a source that is gone.
THEOREM BlocksAreHeld == Spec => []RequestedAreHeld
<1>1. IInv => RequestedAreHeld
  BY WaitedIsWaited DEF IInv, Good, Held, RequestedAreHeld, Now
<1> QED
  BY <1>1, Invariance, PTL

\* What is in a sequence is at some place of it.
LEMMA IsAtPlace == \A q : \A b \in ToSet(q) : \E i \in DOMAIN q : b = q[i]
BY DEF ToSet

\* AskedOnce: two sources are waited for the same byte only if its block was taken
\* off the list while its source still waited, however GetNextRequestedBlock and
\* the ends of blocks, sources and the file follow each other
\* (CPartFile::IsAlreadyRequested).
THEOREM BytesAreAskedOnce == Spec => []AskedOnce
<1>1. IInv => AskedOnce
  <2> SUFFICES ASSUME IInv, NEW c \in Sources, NEW d \in Sources, c # d,
                      NEW b \in ToSet(src[c].pending), NEW e \in ToSet(src[d].pending),
                      NEW x \in BytesOf(b) \cap BytesOf(e)
               PROVE  x \in file.letGo
    BY DEF AskedOnce
  <2>1. PICK i \in DOMAIN src[c].pending : b = src[c].pending[i]
    BY IsAtPlace
  <2>2. PICK j \in DOMAIN src[d].pending : e = src[d].pending[j]
    BY IsAtPlace
  <2>3. Now.file = file /\ Now.src = src
    BY DEF Now
  <2>4. Accounted(Now, {}) /\ Apart(Now)
    BY DEF IInv, Good
  <2>5. \/ BytesOf(b) \subseteq file.letGo
        \/ \E q \in file.requested : q.owner = c /\ q.first = b.first /\ q.last = b.last
    BY <2>1, <2>3, <2>4 DEF Accounted
  <2>6. \/ BytesOf(e) \subseteq file.letGo
        \/ \E q \in file.requested : q.owner = d /\ q.first = e.first /\ q.last = e.last
    BY <2>2, <2>3, <2>4 DEF Accounted
  <2>7. ASSUME NEW q \in file.requested, q.owner = c, q.first = b.first, q.last = b.last,
               NEW r \in file.requested, r.owner = d, r.first = e.first, r.last = e.last
        PROVE  FALSE
    <3>1. q # r
      BY <2>7
    <3>2. ~ (q.first <= r.last /\ q.last >= r.first)
      BY <2>3, <2>4, <3>1 DEF Apart
    <3>3. q.first \in Nat /\ q.last \in Nat /\ r.first \in Nat /\ r.last \in Nat
      BY FileIsFile, BytesArePlain DEF Files, Requests
    <3>4. x \in q.first .. q.last /\ x \in r.first .. r.last
      BY <2>7 DEF BytesOf
    <3> QED
      BY <3>2, <3>3, <3>4
  <2> QED
    BY <2>5, <2>6, <2>7
<1> QED
  BY <1>1, Invariance, PTL

============================================================================
