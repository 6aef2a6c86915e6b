---- MODULE BlockRequests ----
(***************************************************************************)
(* The block requests of a download: which source is asked for which bytes *)
(* of a part file, and what becomes of the answers (DownloadClient.cpp,    *)
(* PartFile.cpp).  The other end of each transfer is the upload side of    *)
(* the same program (UploadClient.cpp): the blocks a peer is asked for, the *)
(* blocks it has done, the packets it has under way.                        *)
(*                                                                         *)
(* All handlers run in the main thread, one at a time: an action is one of *)
(* them, with everything it calls.  Control packets overtake data at the   *)
(* sender, so a peer has two channels to us; our packets reach it at once, *)
(* for a delay there is a delay of its answers.  A packet carries one byte *)
(* (the unit of the model), a block up to BLOCKSIZE of them.               *)
(***************************************************************************)
EXTENDS Integers, Sequences, SequencesExt, FiniteSets, FiniteSetsExt

CONSTANTS
    Sources,      \* the clients that are sources of the file
    HasParts,     \* per source: the parts it has (m_downPartStatus)
    VBTTags,      \* the sources with value based type tags (GetVBTTags)
    FileSize, PARTSIZE, BLOCKSIZE,
    MinRequests,  \* STANDARD_BLOCKS_REQUEST
    MaxRequests,  \* 0x20
    NoSource,     \* no client at all
    MaxControl,   \* how many control packets are on their way to us at most
    MaxMishaps,   \* how many of the mishaps below happen in all
    Mishaps       \* which of AllMishaps happen

AllMishaps == {"corrupt",     \* the bytes of a part do not match its hash
               "overrun",     \* a packet ends behind its block
               "zstream",     \* a packed block cannot be unpacked
               "disconnect",  \* the connection is lost, and all under way on it
               "late",        \* DOWNLOADTIMEOUT passes before the answer comes
               "drop",        \* a slower source is dropped (GetDropSlowSources)
               "pause"}       \* the user pauses the file


NoPart == -1                  \* CPartFile::NO_PART

ASSUME BlockRequestsAssumption ==
    /\ FileSize \in Nat \ {0} /\ PARTSIZE \in Nat \ {0} /\ BLOCKSIZE \in Nat \ {0}
    /\ MinRequests \in Nat \ {0} /\ MaxRequests \in Nat /\ MaxRequests >= MinRequests
    /\ MaxControl \in Nat \ {0}
    /\ MaxMishaps \in Nat /\ Mishaps \subseteq AllMishaps
    /\ VBTTags \subseteq Sources /\ NoSource \notin Sources

VARIABLES file,     \* the part file
          src,      \* per source: our end of the transfer
          peer,     \* per source: its end, and what is under way to us
          mishaps   \* how many mishaps are still to come

vars == <<file, src, peer, mishaps>>

----
(* Bytes, parts, cells (the BLOCKSIZE-aligned pieces of a part) and blocks. *)
Bytes == 0 .. FileSize - 1
PartOf(p) == p \div PARTSIZE
Parts == 0 .. PartOf(FileSize - 1)
PartBytes(n) == {p \in Bytes : PartOf(p) = n}
Cell(p) == <<PartOf(p), (p % PARTSIZE) \div BLOCKSIZE>>
Blocks == {b \in [first : Bytes, last : Bytes] : b.first <= b.last}
BytesOf(b) == b.first .. b.last
Orders == SetToSeqs(Parts)

(* A state of the program between two statements of a handler.              *)
Now == [file |-> file, src |-> src, peer |-> peer]

(* A block is taken off the list of the file although its owner still waits *)
(* for it: its bytes are let go, somebody else may be asked for them too.   *)
WaitedFor(s, r) == \E b \in ToSet(s.src[r.owner].pending) : b.first = r.first /\ b.last = r.last
LetGo(s) == UNION {BytesOf(r) : r \in {q \in file.requested \ s.file.requested : WaitedFor(s, q)}}

Becomes(s) ==
    /\ file' = [s.file EXCEPT !.letGo = @ \cup LetGo(s)]
    /\ src' = s.src
    /\ peer' = s.peer

Complete(f, n) == PartBytes(n) \cap f.missing = {}

----
(* What is asked for.                                                       *)

\* Slip: a block that only begins inside a requested one is free.
IsAlreadyRequested_Slip(f, b) == \E r \in f.requested : r.first >= b.first /\ r.last <= b.last

IsAlreadyRequested(f, b) == \E r \in f.requested : b.first <= r.last /\ b.last >= r.first

(* The gaps of a part, cut at the borders of its cells.                     *)
Pieces(f, n) ==
    {b \in Blocks : /\ BytesOf(b) \subseteq PartBytes(n) \cap f.missing
                    /\ Cell(b.first) = Cell(b.last)
                    /\ \A p \in {b.first - 1, b.last + 1} \cap f.missing : Cell(p) # Cell(b.first)}

FreePieces(f, n) == {b \in Pieces(f, n) : ~IsAlreadyRequested(f, b)}

GetNextEmptyBlockInPart(f, n) ==
    CHOOSE b \in FreePieces(f, n) : \A d \in FreePieces(f, n) : b.first <= d.first

(* One turn of GetNextRequestedBlock: the part asked last as long as it has *)
(* a free block, then the best ranked one the source has.  The ranks depend *)
(* on how frequent the parts are among all sources: order is any ranking.   *)
AskOne(s, c, order) ==
    LET last == s.src[c].lastPart
        useful == {i \in DOMAIN order : order[i] \in HasParts[c] /\ FreePieces(s.file, order[i]) # {}}
        n == IF last # NoPart /\ FreePieces(s.file, last) # {} THEN last
             ELSE IF useful # {} THEN order[Min(useful)] ELSE NoPart
        b == GetNextEmptyBlockInPart(s.file, n)
    IN  IF n = NoPart THEN [s EXCEPT !.src[c].lastPart = NoPart]
        ELSE [s EXCEPT !.file.requested = @ \cup {[owner |-> c, first |-> b.first, last |-> b.last]},
                       !.src[c].pending = Append(@, [first |-> b.first, last |-> b.last, bad |-> FALSE]),
                       !.src[c].lastPart = n]

(* The blocks pass through m_DownloadBlocks_list to the pending ones at     *)
(* once, as no more of them are asked for than may be pending.  count is a  *)
(* uint16; there are never more blocks than bytes.                          *)
GetNextRequestedBlock(s, c, order) ==
    LET count == Min({(s.src[c].window - Len(s.src[c].pending)) % 65536, FileSize})
        asked[i \in 0 .. count] == IF i = 0 THEN s ELSE AskOne(asked[i - 1], c, order)
    IN  asked[count]

\* Slip: a block that ends with the range is not in it.
RemoveBlockFromList_Slip(f, blocks) ==
    [f EXCEPT !.requested = {r \in @ : ~ \E b \in blocks : r.first <= b.first /\ r.last > b.last}]

(* For each of the blocks, all requested ones that contain it.              *)
RemoveBlockFromList(f, blocks) ==
    [f EXCEPT !.requested = {r \in @ : ~ \E b \in blocks : r.first <= b.first /\ r.last >= b.last}]

(* What is done to a source is done to each client of a set cs, which is a  *)
(* single one but when the file is paused.                                  *)

Update(s, cs, Changed(_)) ==
    [s EXCEPT !.src = [c \in Sources |-> IF c \in cs THEN Changed(s.src[c]) ELSE s.src[c]]]

\* Slip: the blocks are deleted, and stay on the list of the file.
ClearDownloadBlockRequests_Slip(s, cs) == Update(s, cs, LAMBDA t : [t EXCEPT !.pending = <<>>])

ClearDownloadBlockRequests(s, cs) ==
    [Update(s, cs, LAMBDA t : [t EXCEPT !.pending = <<>>]) EXCEPT
        !.file = RemoveBlockFromList(@, UNION {ToSet(s.src[c].pending) : c \in cs})]

(* lastPart is read only while downloading, and reset when that begins: the *)
(* model forgets it when it ends.                                           *)
SetDownloadState(s, cs, state) ==
    LET ended == {c \in cs : s.src[c].state = "downloading" /\ state # "downloading"}
        freed == Update(ClearDownloadBlockRequests(s, ended), ended, LAMBDA t : [t EXCEPT !.lastPart = NoPart])
    IN  Update(freed, cs, LAMBDA t : [t EXCEPT !.state = state])

----
(* Our packets to a peer, and what its upload side does with them.          *)

(* OP_CANCELTRANSFER, sent once until the source is asked again.  The peer  *)
(* takes us off its upload slots.                                           *)
Cancel(s, cs) ==
    LET told == {c \in cs : ~ s.src[c].sentCancel}
        out(p) == [p EXCEPT !.us = IF @ = "uploading" THEN "none" ELSE @, !.asked = {}]
    IN  [Update(s, told, LAMBDA t : [t EXCEPT !.sentCancel = TRUE]) EXCEPT
            !.peer = [c \in Sources |-> IF c \in told THEN out(s.peer[c]) ELSE s.peer[c]]]

(* AddReqBlock: a block the peer was asked for in this session before is    *)
(* not sent again; without an upload slot nothing is.  The blocks a peer    *)
(* still has to send and the packets it has made of them are one sequence.  *)
AddReqBlock(p, b) ==
    LET r == [first |-> b.first, last |-> b.last]
    IN  IF p.us # "uploading" \/ r \in p.asked THEN p
        ELSE [p EXCEPT !.asked = @ \cup {r}, !.data = @ \o [i \in 1 .. r.last - r.first + 1 |-> r.first + i - 1]]

(* OP_REQUESTPARTS names all pending blocks, and gives those with a broken  *)
(* zip stream another chance.                                               *)
RequestParts(s, c) ==
    LET fresh == [i \in DOMAIN s.src[c].pending |-> [s.src[c].pending[i] EXCEPT !.bad = FALSE]]
    IN  [s EXCEPT !.src[c].pending = fresh, !.peer[c] = FoldLeft(AddReqBlock, @, fresh)]

----
(* SendBlockRequests.  faster: the last block came within 5 seconds.  slow: *)
(* the slower client to drop, or NoSource.                                  *)
Window(window, c, faster) ==
    IF c \notin VBTTags THEN window
    ELSE IF faster THEN Min({2 * window, MaxRequests}) ELSE Max({window \div 2, MinRequests})

Ask(s, c, order, slow, faster) ==
    LET asked  == GetNextRequestedBlock([s EXCEPT !.src[c].window = Window(@, c, faster)], c, order)
        victim == IF slow = NoSource THEN c ELSE slow
        idle   == SetDownloadState(Cancel(asked, {victim}), {victim}, "noneededparts")
        again  == GetNextRequestedBlock(idle, c, order)
    IN  IF asked.src[c].pending # <<>> THEN RequestParts(asked, c)
        ELSE IF victim # c /\ again.src[c].pending # <<>> THEN RequestParts(again, c)
        ELSE IF victim # c THEN again    \* "WTF, we just freed blocks": none of a part it has
        ELSE idle

SendBlockRequests(s, c, order, slow, faster) ==
    IF c \in VBTTags /\ s.src[c].pending # <<>> THEN s ELSE Ask(s, c, order, slow, faster)

----
(* What arrives.                                                            *)

(* FlushBuffer: each part with new data is checked if it is whole, or if it *)
(* was corrupted before (ICH).  good: the parts that match their hash.      *)
FlushBuffer(f, good) ==
    LET changed == {n \in Parts : PartBytes(n) \cap f.buffered # {}}
        whole   == {n \in changed : Complete(f, n)}
        spoilt  == whole \ good
        healed  == (changed \ whole) \cap f.corrupted \cap good
        checked == [f EXCEPT !.buffered = {},
                             !.missing = (@ \cup UNION {PartBytes(n) : n \in spoilt})
                                            \ UNION {PartBytes(n) : n \in healed},
                             !.corrupted = (@ \cup spoilt) \ ((whole \cap good) \cup healed)]
        listed  == RemoveBlockFromList(checked, {[first |-> Min(PartBytes(n)), last |-> Max(PartBytes(n))] : n \in healed})
    IN  IF f.buffered = {} THEN f
        ELSE [listed EXCEPT !.status = IF listed.missing = {} THEN "completing" ELSE @]

(* WriteToBuffer of a byte that is missing.                                 *)
WriteToBuffer(f, p, good) ==
    LET written == [f EXCEPT !.buffered = @ \cup {p}, !.missing = @ \ {p}]
    IN  IF written.missing = {} THEN FlushBuffer(written, good) ELSE written

(* ProcessBlockPacket: byte p from source c, in the pending block it finds  *)
(* first.  fault: what is wrong with the packet; more: the choices of the   *)
(* SendBlockRequests that follows the last byte of a block.                 *)
ProcessBlockPacket(s, c, p, fault, good, more) ==
    LET pending == s.src[c].pending
        i == SelectInSeq(pending, LAMBDA b : p \in BytesOf(b))
        b == pending[i]
        wrote == WriteToBuffer(s.file, p, good)
        finished == [s EXCEPT !.file = RemoveBlockFromList(wrote, {b}),
                              !.src[c].pending = RemoveAt(@, i)]
    IN  IF s.src[c].state \notin {"downloading", "noneededparts"} \/ i = 0 THEN s
        ELSE IF b.bad \/ fault = "overrun" THEN [s EXCEPT !.file = RemoveBlockFromList(@, {b})]
        ELSE IF fault = "zstream" THEN [s EXCEPT !.file = RemoveBlockFromList(@, {b}), !.src[c].pending[i].bad = TRUE]
        ELSE IF p \notin s.file.missing THEN s
        ELSE IF p # b.last THEN [s EXCEPT !.file = wrote]
        ELSE SendBlockRequests(finished, c, more.order, more.slow, more.faster)

(* What follows the checks that the file does not download.                 *)
Refuse(s, cs) == SetDownloadState(Cancel(s, cs), cs, "onqueue")

----
(* The steps.                                                               *)

Mishap(kind) == kind \in Mishaps /\ mishaps > 0 /\ mishaps' = mishaps - 1
NoMishap == UNCHANGED mishaps

(* What SendBlockRequests may meet; to drop a slower source is a mishap for *)
(* it.  Only another downloading source is ever slower.                     *)
Faster(c) == IF c \in VBTTags THEN BOOLEAN ELSE {FALSE}
Asks(c) == [order : Orders, faster : Faster(c), slow : {NoSource}]
Drops(c) == [order : Orders, faster : Faster(c),
             slow : {d \in Sources \ {c} : src[d].state = "downloading"}]

(* The parts that match their hash once byte p (or none) is written: all    *)
(* that are whole, if nothing is corrupt, and any that ICH tries.           *)
Matches(written) ==
    {Parts \ tried : tried \in SUBSET {n \in file.corrupted : ~(PartBytes(n) \cap file.missing \subseteq written)}}

NewPeer == [us |-> "none", asked |-> {}, data |-> <<>>, control |-> <<>>]

Take(c, channel) == [peer EXCEPT ![c][channel] = Tail(@)]

(* OP_ACCEPTUPLOADREQ.                                                      *)
OnAccept(c, more) ==
    LET s == [Now EXCEPT !.peer = Take(c, "control")]
        started == [SetDownloadState(s, {c}, "downloading") EXCEPT !.src[c].lastPart = NoPart]
    IN  /\ peer[c].control # <<>> /\ Head(peer[c].control) = "accept"
        /\ Becomes(IF file.status # "ready" THEN Refuse(s, {c})
                   ELSE IF src[c].state # "onqueue" THEN s
                   ELSE SendBlockRequests(started, c, more.order, more.slow, more.faster))

Accept(c) ==
    \/ NoMishap /\ \E more \in Asks(c) : OnAccept(c, more)
    \/ Mishap("drop") /\ \E more \in Drops(c) : OnAccept(c, more)

(* OP_OUTOFPARTREQS.                                                        *)
OutOfParts(c) ==
    /\ peer[c].control # <<>> /\ Head(peer[c].control) = "outofparts"
    /\ LET s == [Now EXCEPT !.peer = Take(c, "control")]
       IN  Becomes(IF src[c].state = "downloading" THEN SetDownloadState(s, {c}, "onqueue") ELSE s)
    /\ NoMishap

(* OP_SENDINGPART.                                                          *)
OnData(c, fault, good, more) ==
    LET s == [Now EXCEPT !.peer = Take(c, "data")]
    IN  /\ peer[c].data # <<>>
        /\ Becomes(IF file.status = "ready"
                   THEN ProcessBlockPacket(s, c, Head(peer[c].data), fault, good, more)
                   ELSE Refuse(s, {c}))

Data(c) ==
    LET p == Head(peer[c].data)
    IN  /\ peer[c].data # <<>>
        /\ \/ NoMishap /\ \E good \in Matches({p}), more \in Asks(c) : OnData(c, "none", good, more)
           \/ Mishap("drop") /\ \E good \in Matches({p}), more \in Drops(c) : OnData(c, "none", good, more)
           \/ Mishap("corrupt") /\ \E good \in SUBSET Parts, more \in Asks(c) : OnData(c, "none", good, more)
           \/ \E fault \in {"overrun", "zstream"}, more \in Asks(c) :
                  Mishap(fault) /\ OnData(c, fault, Parts, more)

(* CPartFile::Process: the buffer is flushed when it is large or old.       *)
OnFlush(good) ==
    /\ file.status = "ready" /\ file.buffered # {}
    /\ Becomes([Now EXCEPT !.file = FlushBuffer(@, good)])

Flush ==
    \/ NoMishap /\ \E good \in Matches({}) : OnFlush(good)
    \/ Mishap("corrupt") /\ \E good \in SUBSET Parts : OnFlush(good)

(* AICHRecoveryDataAvailable, asked for when the part was found corrupted:  *)
(* the cells that match are missing no more, and their blocks are taken off *)
(* the list of the file; for a cell at pos the code names the bytes from    *)
(* the start of the part, not from pos.                                     *)
AICHRecoveryDataAvailable(n, cells, flushed, good) ==
    LET s == FlushBuffer(file, flushed)
        First(cell) == Min(PartBytes(n))
        Size(cell) == Cardinality({p \in PartBytes(n) : Cell(p) = cell})
        filled == [s EXCEPT !.missing = @ \ {p \in Bytes : Cell(p) \in cells}]
        listed == RemoveBlockFromList(filled, {[first |-> First(cell), last |-> First(cell) + Size(cell) - 1] : cell \in cells})
        judged == IF ~Complete(listed, n) \/ n \in good THEN [listed EXCEPT !.corrupted = @ \ {n}]
                  ELSE [listed EXCEPT !.missing = @ \cup PartBytes(n)]
    IN  /\ file.status = "ready" /\ n \in file.corrupted
        /\ Becomes([Now EXCEPT !.file =
                IF Complete(s, n) THEN s
                ELSE [judged EXCEPT !.status = IF judged.missing = {} THEN "completing" ELSE @]])
        /\ NoMishap

Recover ==
    \E n \in Parts, flushed \in Matches({}) :
        \E cells \in SUBSET {Cell(p) : p \in PartBytes(n)} : AICHRecoveryDataAvailable(n, cells, flushed, Parts)

(* CalculateKBpsDown, called by Process: nothing came for DOWNLOADTIMEOUT.  *)
(* While an answer is still to come that is a mishap.                       *)
Silent(c) == peer[c].data = <<>> /\ peer[c].control = <<>>

Timeout(c) ==
    /\ file.status = "ready" /\ src[c].state = "downloading"
    /\ Becomes(Refuse(Now, {c}))
    /\ IF Silent(c) THEN NoMishap ELSE Mishap("late")

(* AskForDownload and its answers: the file status, which tells whether the *)
(* source has a needed part (ProcessFileStatus), and a place on its waiting *)
(* list (OP_STARTUPLOADREQ); who has a slot is told so again, unless the    *)
(* packet that says so is still on its way.                                 *)
Needed(c) == \E n \in HasParts[c] : ~Complete(file, n)

AskForDownload(c) ==
    /\ file.status = "ready" /\ src[c].state # "downloading"
    /\ src' = [src EXCEPT ![c].sentCancel = FALSE,
                          ![c].state = IF Needed(c) THEN "onqueue" ELSE "noneededparts"]
    /\ peer' = IF ~Needed(c) THEN peer
               ELSE IF peer[c].us = "uploading" THEN [peer EXCEPT ![c].control = IF @ = <<>> THEN <<"accept">> ELSE @]
               ELSE [peer EXCEPT ![c].us = "waiting"]
    /\ UNCHANGED file /\ NoMishap

(* Disconnected: the source stays known, what was under way is lost, and so *)
(* is the upload slot of the peer.                                          *)
Disconnected(c) ==
    LET s == IF src[c].state = "downloading" THEN SetDownloadState(Now, {c}, "onqueue")
             ELSE ClearDownloadBlockRequests(Now, {c})
    IN  /\ Mishap("disconnect")
        /\ Becomes([s EXCEPT !.src[c].sentCancel = FALSE, !.peer[c] = NewPeer])

PauseFile ==
    /\ file.status = "ready"
    /\ Mishap("pause")
    /\ Becomes([Refuse(Now, {c \in Sources : src[c].state = "downloading"}) EXCEPT !.file.status = "paused"])

ResumeFile ==
    /\ file.status = "paused"
    /\ file' = [file EXCEPT !.status = "ready"]
    /\ UNCHANGED <<src, peer>> /\ NoMishap

(* The upload side of a peer: it gives us a slot, and ends the session when *)
(* its time is over, putting us on its waiting list again.                  *)
AddUpNextClient(c) ==
    /\ peer[c].us = "waiting" /\ Len(peer[c].control) < MaxControl /\ peer[c].data = <<>>
    /\ peer' = [peer EXCEPT ![c].us = "uploading", ![c].control = Append(@, "accept")]
    /\ UNCHANGED <<file, src>> /\ NoMishap

SendOutOfPartReqsAndAddToWaitingQueue(c) ==
    /\ peer[c].us = "uploading" /\ Len(peer[c].control) < MaxControl
    /\ peer' = [peer EXCEPT ![c].us = "waiting", ![c].control = Append(@, "outofparts"), ![c].asked = {}]
    /\ UNCHANGED <<file, src>> /\ NoMishap

(* With the session end the blocks of which no packets were made.           *)
ClearUploadBlockRequests(c) ==
    /\ peer[c].us # "uploading" /\ peer[c].data # <<>>
    /\ \E n \in 0 .. Len(peer[c].data) - 1 : peer' = [peer EXCEPT ![c].data = SubSeq(@, 1, n)]
    /\ UNCHANGED <<file, src>> /\ NoMishap

----
Init ==
    /\ file = [missing |-> Bytes, requested |-> {}, buffered |-> {}, corrupted |-> {},
               status |-> "ready", letGo |-> {}]
    /\ src = [c \in Sources |-> [state |-> "onqueue", pending |-> <<>>, window |-> MinRequests,
                                 lastPart |-> NoPart, sentCancel |-> FALSE]]
    /\ peer = [c \in Sources |-> [NewPeer EXCEPT !.us = "waiting"]]
    /\ mishaps = MaxMishaps

Next ==
    \/ \E c \in Sources : Accept(c)
    \/ \E c \in Sources : OutOfParts(c)
    \/ \E c \in Sources : Data(c)
    \/ Flush
    \/ Recover
    \/ \E c \in Sources : Timeout(c)
    \/ \E c \in Sources : AskForDownload(c)
    \/ \E c \in Sources : Disconnected(c)
    \/ PauseFile
    \/ ResumeFile
    \/ \E c \in Sources : AddUpNextClient(c)
    \/ \E c \in Sources : ClearUploadBlockRequests(c)
    \/ \E c \in Sources : SendOutOfPartReqsAndAddToWaitingQueue(c)

Spec == Init /\ [][Next]_vars

(* The connections carry what is put on them, the timers run, the user      *)
(* resumes the file, the peers grant slots.  A peer that is asked again and *)
(* again sends something in one of its sessions.                            *)
(* ENABLED is spelt out where it would be slow to evaluate; Received is what *)
(* any step does that takes a packet.                                       *)
Received(c) == peer'[c].data # peer[c].data /\ Data(c)
Served(c) == peer[c].data # <<>> /\ src[c].state = "downloading"
Stalled(c) == file.status = "ready" /\ src[c].state = "downloading" /\ Silent(c)
Unflushed == file.status = "ready" /\ file.buffered # {}

Fairness ==
    /\ WF_vars(ResumeFile)
    /\ []<>(~Unflushed) \/ []<><<Flush>>_vars
    /\ \A c \in Sources :
          /\ WF_vars(OutOfParts(c)) /\ WF_vars(AskForDownload(c)) /\ WF_vars(AddUpNextClient(c))
          /\ []<>(~Stalled(c)) \/ []<><<Stalled(c) /\ Timeout(c)>>_vars
          /\ []<>(peer[c].control = <<>>) \/ []<><<Accept(c)>>_vars
          /\ []<>(peer[c].data = <<>>) \/ []<><<Received(c)>>_vars
          /\ <>[](~Served(c)) \/ []<><<Served(c) /\ Received(c)>>_vars

FairSpec == Spec /\ Fairness

----
(* What is claimed.                                                         *)

(* A block on the list of the file is waited for by the source it was asked *)
(* of, which is downloading: the list holds pointers to the blocks of the   *)
(* sources, and what stays on it is asked of nobody else.                   *)
RequestedAreHeld ==
    \A r \in file.requested : src[r.owner].state = "downloading" /\ WaitedFor(Now, r)

(* Two sources are waited for the same byte only if its block was let go:   *)
(* no byte is asked for twice without need.                                 *)
AskedOnce ==
    \A c, d \in Sources : c # d =>
        \A b \in ToSet(src[c].pending), e \in ToSet(src[d].pending) :
            BytesOf(b) \cap BytesOf(e) \subseteq file.letGo

(* Once the mishaps are over the file is completed, whatever sources were   *)
(* dropped, timed out or asked for what they had already sent.              *)
FileCompletes == <>(file.status = "completing")
====
