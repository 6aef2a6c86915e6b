---------------------------- MODULE UploadQueue ----------------------------
(***************************************************************************)
(* The upload queue of iMule: who waits for an upload slot, who holds one, *)
(* and what the peers, the sockets, the shared files and the core timer do *)
(* to both (UploadQueue.cpp, with the parts of UploadClient.cpp,           *)
(* BaseClient.cpp and ClientTCPSocket.cpp that call it or are called).     *)
(*                                                                         *)
(* All of it runs in one thread.  A handler is one action, except          *)
(* CUploadQueue::Process, whose loop over the slots is one action per slot *)
(* so that its cursor is part of the state.  Handlers call each other      *)
(* (AddClientToQueue -> SortGetBestClient -> Disconnected -> Safe_Delete   *)
(* -> RemoveFromWaitingQueue ...), so a called function is an operator     *)
(* from the queue's state to the SET of states it may leave behind; an     *)
(* operator that leaves exactly one is a plain function of the state.      *)
(***************************************************************************)
EXTENDS Integers, Sequences, FiniteSets, Functions

CONSTANTS
    Clients,      \* the CUpDownClient objects, by name
    Files,        \* the hashes peers may ask for
    NoFile,       \* the empty hash of a client that asked for nothing
    MaxSlots,     \* GetMaxSlots(), for one setting of the preferences
    QueueSize,    \* thePrefs::GetQueueSize()
    MaxPerDest,   \* clients of one address allowed on the queue (3 in the code)
    Dest,         \* the I2P destination of each client
    Twin,         \* the other client with the same user hash, or the client itself
    Identified,   \* clients whose secure identification succeeds
    FriendSlot,   \* clients holding a friend slot
    PowerShare,   \* files with upload priority PR_POWERSHARE
    IdChangers,   \* clients that may change their client id
    Env           \* which of EnvFeatures the environment makes use of

EnvFeatures == { "ban",      \* peers may ask so often that they are banned
                 "source",   \* clients may be download sources for us too
                 "chat",     \* clients may be chat partners
                 "filter",   \* IP filter or crypt settings may refuse a connection
                 "sockets",  \* the listen socket may run out of sockets
                 "age",      \* peers may not ask again for MAX_PURGEQUEUETIME
                 "unshare",  \* files may leave and enter the shared list
                 "complete", \* files may be completed, or deleted, while shared
                 "download", \* downloads need not be shared, peers may ask for them
                 "shutdown" }\* the program may end

ASSUME ConstantsAssumption ==
    /\ NoFile \notin Files
    /\ MaxSlots \in Nat \ {0} /\ QueueSize \in Nat /\ MaxPerDest \in Nat
    /\ DOMAIN Dest = Clients
    /\ Twin \in [Clients -> Clients]
    /\ Identified \subseteq Clients /\ FriendSlot \subseteq Clients
    /\ IdChangers \subseteq Clients
    /\ PowerShare \subseteq Files
    /\ Env \subseteq EnvFeatures

VARIABLES
    q,            \* the queue and the clients on it, see QueueState
    phase,        \* what the core is doing, see Phases
    pos           \* the cursor of Process' loop over the slots

vars == <<q, phase, pos>>

Phases == { "run",    \* in the event loop, any handler may run
            "feed",   \* inside Process, feeding the slots
            "down" }  \* in CClientList::DeleteAll at program end

UploadStates == {"NONE", "ONUPLOADQUEUE", "CONNECTING", "UPLOADING", "BANNED"}

\* A socket is opened by us (connecting), then waits for the answer to our
\* hello (linked); a hello, or the answer to ours, makes it established.
SocketStates == {"none", "connecting", "linked", "established"}

QueueState ==
    [ waiting      : Seq(Clients),                 \* m_waitinglist
      uploading    : Seq(Clients),                 \* m_uploadinglist
      ustate       : [Clients -> UploadStates],    \* m_nUploadState
      sock         : [Clients -> SocketStates],    \* m_socket
      file         : [Clients -> Files \union {NoFile}], \* m_requpfileid
      rank         : [Clients -> Nat],             \* m_waitingPosition
      live         : SUBSET Clients,               \* not CS_DYING
      lowID        : SUBSET Clients,               \* HasLowID()
      addNext      : SUBSET Clients,               \* m_bAddNextConnect
      stale        : SUBSET Clients,               \* last request too long ago
      downloading  : SUBSET Clients,               \* we are in DS_DOWNLOADING
      banned       : SUBSET Range(Dest),           \* CClientList::m_bannedList
      shared       : SUBSET Files,                 \* sharedfiles
      suspended    : SUBSET Files,                 \* suspendedUploadsSet
      lastupslotHighID : BOOLEAN,
      allowKicking : BOOLEAN,
      justStarted  : BOOLEAN ]                     \* tick - m_nLastStartUpload < 1000

----------------------------------------------------------------------------
(* Lists                                                                   *)

\* s without its first c, which must be on it.
DropFirst(s, c) ==
    [i \in 1 .. Len(s) - 1 |-> IF \A j \in 1 .. i : s[j] # c THEN s[i] ELSE s[i + 1]]

\* The last place of c in s, 0 when it has none.
LastPlace(s, c) == Cardinality({i \in DOMAIN s : \E j \in i .. Len(s) : s[j] = c})

\* The ways of listing the positions in K, each once.
Listings(K) == {p \in [1 .. Cardinality(K) -> K] : IsInjective(p)}

Ascending(p, m) == \A i, j \in m + 1 .. Len(p) : i < j => p[i] < p[j]

\* The one sequence that is s without the clients of D, as a singleton set.
Without(s, D) ==
    LET kept == {i \in DOMAIN s : s[i] \notin D}
    IN  {[i \in DOMAIN p |-> s[p[i]]] : p \in {r \in Listings(kept) : Ascending(r, 0)}}

----------------------------------------------------------------------------
(* What the queue asks about a client                                      *)

IsOnUploadQueue(s, c) == c \in Range(s.waiting)
IsDownloading(s, c)   == c \in Range(s.uploading)
IsConnected(s, c)     == s.sock[c] \in {"linked", "established"}
IsBanned(s, c)        == Dest[c] \in s.banned /\ c \notin s.downloading

\* A client that is up for a slot only by connecting to us itself.
MustCallIn(s, c)      == c \in s.lowID /\ ~IsConnected(s, c)

----------------------------------------------------------------------------
(* Leaving the lists                                                       *)

\* Slip: the client keeps its upload state.
RemoveFromUploadQueue_StateKept(s, c) ==
    IF IsDownloading(s, c) THEN [s EXCEPT !.uploading = DropFirst(@, c)] ELSE s

RemoveFromUploadQueue(s, c) ==
    IF IsDownloading(s, c)
    THEN [s EXCEPT !.uploading = DropFirst(@, c), !.ustate[c] = "NONE"]
    ELSE s

\* Slip: nobody gets a new rank.
RemoveFromWaitingQueue_RanksKept(s, c) ==
    IF IsOnUploadQueue(s, c)
    THEN [s EXCEPT !.waiting = DropFirst(@, c), !.ustate[c] = "NONE", !.rank[c] = 0]
    ELSE s

\* Slip: the ranks behind the client are counted down instead of told anew.
RemoveFromWaitingQueue_CountedDown(s, c) ==
    LET w      == DropFirst(s.waiting, c)
        behind == {w[i] : i \in {j \in DOMAIN w : \E k \in 1 .. j : s.waiting[k] = c}}
    IN  IF IsOnUploadQueue(s, c)
        THEN [s EXCEPT !.waiting = w, !.ustate[c] = "NONE",
                       !.rank = [d \in Clients |-> IF d \in behind THEN @[d] - 1
                                                   ELSE IF d = c THEN 0 ELSE @[d]]]
        ELSE s

\* Takes the first entry of c off the waiting list, lifts c's ban, and gives
\* the clients behind it their new ranks.
RemoveFromWaitingQueue(s, c) ==
    LET w      == DropFirst(s.waiting, c)
        behind == {w[i] : i \in {j \in DOMAIN w : \E k \in 1 .. j : s.waiting[k] = c}}
    IN  IF IsOnUploadQueue(s, c)
        THEN [s EXCEPT !.waiting   = w,
                       !.banned    = IF IsBanned(s, c) THEN @ \ {Dest[c]} ELSE @,
                       !.ustate[c] = "NONE",
                       !.rank      = [d \in Clients |->
                                        IF d \in behind THEN LastPlace(w, d)
                                        ELSE IF d = c THEN 0 ELSE @[d]]]
        ELSE s

\* What is left of the clients D once they are CS_DYING: nothing but their names.
Forget(s, D) ==
    [s EXCEPT !.live = @ \ D, !.lowID = @ \ D, !.addNext = @ \ D, !.stale = @ \ D,
              !.downloading = @ \ D,
              !.sock   = [c \in Clients |-> IF c \in D THEN "none" ELSE @[c]],
              !.file   = [c \in Clients |-> IF c \in D THEN NoFile ELSE @[c]],
              !.ustate = [c \in Clients |-> IF c \in D THEN "NONE" ELSE @[c]]]

Safe_Delete(s, c) ==
    IF c \in s.live
    THEN Forget(RemoveFromWaitingQueue(RemoveFromUploadQueue(s, c), c), {c})
    ELSE s

Disconnected(s, c) ==
    LET r == IF s.ustate[c] = "UPLOADING" THEN RemoveFromUploadQueue(s, c) ELSE s
    IN  IF c \in s.live
        THEN [r EXCEPT !.downloading = @ \ {c}, !.sock[c] = "none"]
        ELSE s

\* What we may want of a client as its downloader: nothing, its place in a
\* remote queue ("source"), or a connection that has failed ("dead").
\* Disconnected has turned DS_DOWNLOADING into DS_ONQUEUE.
DownloadStates(s, c) ==
    IF c \in s.downloading THEN {"source"}
    ELSE IF "source" \in Env THEN {"none", "source", "dead"} ELSE {"none"}

ChatStates == IF "chat" \in Env THEN BOOLEAN ELSE {FALSE}

\* The verdict Disconnected returns: is the client needed in any way?
NotNeeded(ustate, dlstate, chat) ==
    /\ ~chat
    /\ \/ ustate = "CONNECTING"
       \/ dlstate = "dead"
       \/ ustate # "ONUPLOADQUEUE" /\ dlstate = "none"

\* if (c->Disconnected(...)) c->Safe_Delete();
DisconnectOrDelete(s, c) ==
    LET r == Disconnected(s, c)
    IN  IF c \in s.live
        THEN {IF NotNeeded(r.ustate[c], d, t) THEN Safe_Delete(r, c) ELSE r :
                  d \in DownloadStates(s, c), t \in ChatStates}
        ELSE {s}

DropIfNoSocket(s, c) == IF s.sock[c] = "none" THEN DisconnectOrDelete(s, c) ELSE {s}

----------------------------------------------------------------------------
(* Sorting the waiting list                                                *)

\* Slip: only the clients that went silent are swept out.
Purged_SilentOnly(s) == Range(s.waiting) \intersect s.stale

\* The clients the first pass sweeps out.
Purged(s) == {c \in Range(s.waiting) : c \in s.stale \/ s.file[c] \notin s.shared}

\* Which of the clients L, whose upload state is US_NONE, may be in no way needed.
Unneeded(s, L) ==
    {D \in SUBSET L : \A c \in L : \E d \in DownloadStates(s, c), t \in ChatStates :
                          c \in D <=> NotNeeded("NONE", d, t)}

\* Slip: who is swept out keeps its upload state.
Purge_StateKept(s) ==
    LET gone  == Purged(s)
        loose == {c \in gone : s.sock[c] = "none" /\ c \in s.live}
        swept == [s EXCEPT !.rank = [c \in Clients |-> IF c \in gone THEN 0 ELSE @[c]],
                           !.banned = @ \ {Dest[c] : c \in {d \in gone : IsBanned(s, d)}},
                           !.downloading = @ \ loose]
    IN  UNION {{Forget([swept EXCEPT !.uploading = u], D) : u \in Without(s.uploading, D)} :
                   D \in Unneeded(s, loose)}

\* The first pass takes the purged clients off; those without a socket are
\* disconnected, and deleted unless something else wants them.  (Their entries
\* leave m_waitinglist in SortGetBestClient, with everybody else's new place.)
Purge(s) ==
    LET gone  == Purged(s)
        loose == {c \in gone : s.sock[c] = "none" /\ c \in s.live}
        swept == [s EXCEPT !.ustate = [c \in Clients |-> IF c \in gone THEN "NONE" ELSE @[c]],
                           !.rank   = [c \in Clients |-> IF c \in gone THEN 0 ELSE @[c]],
                           !.banned = @ \ {Dest[c] : c \in {d \in gone : IsBanned(s, d)}},
                           !.downloading = @ \ loose]
    IN  UNION {{Forget([swept EXCEPT !.uploading = u], D) : u \in Without(s.uploading, D)} :
                   D \in Unneeded(s, loose)}

\* Banned clients and those of a suspended file have their score cleared.
Scoreless(s) == {c \in Range(s.waiting) : IsBanned(s, c) \/ s.file[c] \in s.suspended}

\* The orders the insertion sort may leave the positions K of the list in,
\* over all scores: the first m have positive scores, the rest have none and
\* stay as they were.
Orders(s, K) ==
    {p \in Listings(K) : \E m \in 0 .. Len(p) :
        /\ \A i \in 1 .. m : s.waiting[p[i]] \notin Scoreless(s)
        /\ Ascending(p, m)}

\* The second pass over the sorted list w: ranks, and the mark on everybody
\* ahead of the first client that we can serve now.
RankAndMark(s, w) ==
    [s EXCEPT !.waiting = w,
              !.rank    = [c \in Clients |-> IF c \in Range(w) THEN LastPlace(w, c) ELSE @[c]],
              !.addNext = (@ \ Range(w)) \union
                          {c \in Range(w) : \A i \in DOMAIN w :
                              w[i] = c => \A j \in 1 .. i : MustCallIn(s, w[j])}]

SortGetBestClient(s) ==
    LET kept == {i \in DOMAIN s.waiting : s.waiting[i] \notin Purged(s)}
    IN  UNION {{RankAndMark(r, [i \in DOMAIN p |-> s.waiting[p[i]]]) : p \in Orders(r, kept)} :
                   r \in Purge(s)}

\* Slip: only the head of the list is considered.
Best_HeadOnly(s) ==
    {s.waiting[i] : i \in {j \in DOMAIN s.waiting : j = 1 /\ ~MustCallIn(s, s.waiting[j])}}

\* The best client of a sorted list, if there is one: the first that need not call in.
Best(s) == {s.waiting[i] : i \in {j \in DOMAIN s.waiting :
               /\ ~MustCallIn(s, s.waiting[j])
               /\ \A k \in 1 .. j - 1 : MustCallIn(s, s.waiting[k])}}

TakeBest(s, c) == [RemoveFromWaitingQueue(s, c) EXCEPT !.lastupslotHighID = TRUE]

----------------------------------------------------------------------------
(* Handing out slots                                                       *)

\* TryToConnect(true) for a client without a connection.
TryToConnect(s, c) ==
    LET refused == DisconnectOrDelete(s, c)
        opened  == {[s EXCEPT !.sock[c] = "connecting"]}
    IN  IF Dest[c] \in s.banned THEN refused
        ELSE IF "filter" \in Env THEN opened \union refused ELSE opened

\* The part of AddUpNextClient that follows the choice of the client.
GiveSlot(s, c) ==
    LET told == IF IsConnected(s, c)
                THEN {[s EXCEPT !.ustate[c] = "UPLOADING"]}
                ELSE TryToConnect([s EXCEPT !.ustate[c] = "CONNECTING"], c)
    IN  IF IsDownloading(s, c) THEN {s}
        ELSE {IF c \in r.live THEN [r EXCEPT !.uploading = Append(@, c)] ELSE r : r \in told}

\* AddUpNextClient(): the best client of the waiting list.
AddUpNextClient(s) ==
    UNION {IF Best(r) = {} THEN {r} ELSE UNION {GiveSlot(TakeBest(r, c), c) : c \in Best(r)} :
               r \in SortGetBestClient(s)}

\* AddUpNextClient(directadd): this client, if its file may be uploaded.
AddDirectly(s, c) ==
    IF s.file[c] \in s.suspended \/ s.file[c] \notin s.shared THEN {s} ELSE GiveSlot(s, c)

\* Slip: the extra slot is not noted as taken.
AskAgain_NotNoted(s, c) ==
    LET extra == IF s.lastupslotHighID THEN 1 ELSE 0
    IN  IF c \in s.addNext /\ Len(s.uploading) < MaxSlots + extra
        THEN AddDirectly(RemoveFromWaitingQueue([s EXCEPT !.addNext = @ \ {c}], c), c)
        ELSE {s}

\* Slip: the client stays on the waiting list.
AskAgain_StillWaiting(s, c) ==
    LET extra == IF s.lastupslotHighID THEN 1 ELSE 0
    IN  IF c \in s.addNext /\ Len(s.uploading) < MaxSlots + extra
        THEN {[r EXCEPT !.lastupslotHighID = FALSE] :
                  r \in AddDirectly([s EXCEPT !.addNext = @ \ {c}], c)}
        ELSE {s}

\* AddClientToQueue for a client that waits already: the turn of one that
\* called in, or just a reminder of its rank.
AskAgain(s, c) ==
    LET marked == [s EXCEPT !.addNext = @ \ {c}]
        extra  == IF s.lastupslotHighID THEN 1 ELSE 0
    IN  IF c \in s.addNext /\ Len(s.uploading) < MaxSlots + extra
        THEN {[r EXCEPT !.lastupslotHighID = FALSE] :
                  r \in AddDirectly(RemoveFromWaitingQueue(marked, c), c)}
        ELSE {s}

SameDestOnQueue(s, c) ==
    Cardinality({d \in s.live : Dest[d] = Dest[c] /\ (d = c \/ IsOnUploadQueue(s, d))})

\* Slip: the list is not capped.
Enqueue_Uncapped(s, c) ==
    LET queued == {[r EXCEPT !.ustate[c] = "ONUPLOADQUEUE"] :
                       r \in SortGetBestClient([s EXCEPT !.waiting = Append(@, c)])}
    IN  IF s.ustate[c] = "UPLOADING" THEN {s}
        ELSE IF s.waiting = << >> /\ ~s.justStarted /\ Len(s.uploading) < MaxSlots
        THEN {[r EXCEPT !.justStarted = TRUE] : r \in AddDirectly(s, c)}
        ELSE queued

\* AddClientToQueue for a newcomer.
Enqueue(s, c) ==
    LET free    == s.waiting = << >> /\ ~s.justStarted /\ Len(s.uploading) < MaxSlots
        started == {[r EXCEPT !.justStarted = TRUE] : r \in AddDirectly(s, c)}
        queued  == {[r EXCEPT !.ustate[c] = "ONUPLOADQUEUE"] :
                        r \in SortGetBestClient([s EXCEPT !.waiting = Append(@, c)])}
    IN  IF \/ SameDestOnQueue(s, c) > MaxPerDest
           \/ s.ustate[c] = "UPLOADING"
           \/ Len(s.waiting) >= QueueSize
        THEN {s}
        ELSE (IF free THEN started ELSE {})
             \union (IF ~free \/ "sockets" \in Env THEN queued ELSE {})

\* A waiting client with the hash of c gives way unless it is identified.
YieldTwin(s, c) ==
    LET t == Twin[c]
    IN  IF t \in Identified THEN {s} ELSE DropIfNoSocket(RemoveFromWaitingQueue(s, t), t)

\* The client's own turn in AddClientToQueue, and that of its twin.
AnswerRequest(s, c) == IF IsOnUploadQueue(s, c) THEN AskAgain(s, c) ELSE Enqueue(s, c)

AfterTwin(s, c) == IF c \in Identified THEN AnswerRequest(s, c) ELSE DropIfNoSocket(s, c)

\* The clients with c's hash are visited in an order the hash list does not
\* promise: c itself may come before or after its twin.
AddClientToQueue(s, c) ==
    LET r      == [s EXCEPT !.stale = @ \ {c}]
        known  == IsOnUploadQueue(s, c)
        clash  == Twin[c] # c /\ IsOnUploadQueue(s, Twin[c])
    IN  IF IsBanned(s, c) THEN {s}
        ELSE (IF known \/ ~clash THEN AnswerRequest(r, c) ELSE {})
             \union (IF clash THEN UNION {AfterTwin(x, c) : x \in YieldTwin(r, c)} ELSE {})

----------------------------------------------------------------------------
(* Feeding the slots                                                       *)

Vips(s) ==
    Cardinality({i \in DOMAIN s.uploading :
        s.uploading[i] \in FriendSlot \/ s.file[s.uploading[i]] \in PowerShare})

\* CheckForTimeOver, but for the hour and the 10 MB, which may have passed or not.
MayBeKicked(s, c) ==
    /\ s.allowKicking
    /\ c \notin FriendSlot
    /\ s.file[c] \in PowerShare => Vips(s) > MaxSlots \div 2

\* The client's time is over: it loses its slot and asks for a new one.
KickOut(s, c) ==
    AddClientToQueue(RemoveFromUploadQueue([s EXCEPT !.allowKicking = FALSE], c), c)

\* Nothing to send or everything sent, possibly from another file, or an error:
\* a block that cannot be served, or a file that cannot be opened any more.
CreateNextBlockPackage(s, c) ==
    {s, RemoveFromUploadQueue(s, c)}
    \union {[s EXCEPT !.file[c] = f] : f \in s.shared}
    \union (IF "unshare" \in Env
            THEN {RemoveFromUploadQueue([s EXCEPT !.shared = @ \ {f}], c) : f \in s.shared}
            ELSE {})

SendBlockData(s, c) ==
    CreateNextBlockPackage(s, c) \union (IF MayBeKicked(s, c) THEN KickOut(s, c) ELSE {})

\* Slip: a slot without a socket is passed over.
Feed_DeadPassedOver(s, c) == IF s.sock[c] = "none" THEN {s} ELSE SendBlockData(s, c)

Feed(s, c) ==
    IF s.sock[c] = "none"
    THEN DisconnectOrDelete(RemoveFromUploadQueue(s, c), c)
    ELSE SendBlockData(s, c)

\* Where the list iterator stands when s.uploading[p] has been fed and the list
\* is u: it was advanced before, past the end it stays past the end, and if the
\* entry it points to was erased it may be anywhere.
Cursors(s, u, p) ==
    IF p = Len(s.uploading) THEN {Len(u) + 1}
    ELSE IF s.uploading[p + 1] \in Range(u)
    THEN {LastPlace(u, s.uploading[p + 1])}
    ELSE 1 .. Len(u) + 1

----------------------------------------------------------------------------
(* CUploadQueue::Process, run by the core timer                            *)

ProcessStart ==
    /\ phase = "run"
    /\ \/ /\ q.waiting = << >> \/ q.justStarted \/ "sockets" \in Env
          /\ q' = [q EXCEPT !.allowKicking = FALSE]
       \/ /\ q.waiting # << >> /\ ~q.justStarted
          /\ Len(q.uploading) < MaxSlots
          /\ q' \in AddUpNextClient([q EXCEPT !.allowKicking = FALSE, !.justStarted = TRUE])
       \/ /\ q.waiting # << >> /\ ~q.justStarted
          /\ Len(q.uploading) >= MaxSlots
          /\ q' = [q EXCEPT !.allowKicking = TRUE]
    /\ phase' = "feed" /\ pos' = 1

FeedSlot ==
    /\ phase = "feed" /\ pos <= Len(q.uploading)
    /\ q' \in Feed(q, q.uploading[pos])
    /\ pos' \in Cursors(q, q'.uploading, pos)
    /\ UNCHANGED phase

\* The loop is over; the list is sorted if that did not happen for two minutes.
ProcessEnd ==
    /\ phase = "feed" /\ pos > Len(q.uploading)
    /\ q' \in {q} \union SortGetBestClient(q)
    /\ phase' = "run" /\ pos' = 1

----------------------------------------------------------------------------
(* The peers                                                               *)

\* Any handler but Process leaves the loop's cursor alone.
Handler(states) == phase = "run" /\ q' \in states /\ UNCHANGED <<phase, pos>>

\* ConnectionEstablished: a slot waiting for the connection starts uploading.
ConnectionEstablished(s, c) ==
    IF s.ustate[c] = "CONNECTING" /\ IsDownloading(s, c)
    THEN [s EXCEPT !.ustate[c] = "UPLOADING"]
    ELSE s

\* A hello or the answer to ours: the client has a high id again.
ProcessHello(s, c) ==
    ConnectionEstablished([s EXCEPT !.sock[c] = "established", !.lowID = @ \ {c}], c)

Ban(s, c) == [s EXCEPT !.banned = @ \union {Dest[c]}, !.ustate[c] = "BANNED"]

\* A peer connects and says hello.  A socket from a banned address is refused.
\* A client we know gets the new socket; an unknown one is taken on, unless it
\* would be mistaken for its twin, and is banned if its twin is the real one.
Hello(c) ==
    LET t     == Twin[c]
        newly == [q EXCEPT !.live = @ \union {c}]
    IN  /\ Dest[c] \notin q.banned
        /\ \/ c \in q.live
           \/ ~IsOnUploadQueue(q, c) /\ (t \in q.live => IsConnected(q, t))
        /\ Handler({ProcessHello(IF c \notin q.live /\ t # c /\ t \in q.live /\ t \in Identified
                                 THEN Ban(newly, c) ELSE newly, c)})

\* The connection we opened is there, and our hello is sent.
OnConnect(c) ==
    /\ q.sock[c] = "connecting"
    /\ Handler({[q EXCEPT !.sock[c] = "linked"]})

HelloAnswer(c) ==
    /\ q.sock[c] = "linked"
    /\ Handler({ProcessHello(q, c)})

\* The socket is closed by the peer, by an error or by a timeout.
Disconnect(c) ==
    /\ q.sock[c] # "none"
    /\ Handler(DisconnectOrDelete(q, c))

ChangeClientID(c) ==
    /\ c \in IdChangers /\ IsConnected(q, c)
    /\ Handler({[q EXCEPT !.lowID = @ \union {c}], [q EXCEPT !.lowID = @ \ {c}]})

\* Files on the download queue, of more than one part, of which no part is complete.
Downloads == IF "download" \in Env THEN Files ELSE {}

\* OP_REQUESTFILENAME, OP_SETREQFILEID, OP_MULTIPACKET, OP_REQUESTSOURCES: the
\* peer is told about a file, shared or not, which is its file from now on, be
\* it waiting or holding a slot.  The last two look at the handshake, and the
\* last one does not look at the ban.
SetReqFile(c, f) ==
    /\ IsConnected(q, c)
    /\ q.sock[c] = "established" \/ ~IsBanned(q, c)
    /\ f \in q.shared \union Downloads
    /\ Handler({[q EXCEPT !.file[c] = f]})

\* OP_STARTUPLOADREQ: one request too many may get the peer banned.
StartUploadReq(c, f) ==
    LET asks(s) == IF IsBanned(s, c) \/ f \notin s.shared THEN {s}
                   ELSE AddClientToQueue([s EXCEPT !.file[c] = f], c)
        evil    == "ban" \in Env /\ ~IsBanned(q, c) /\ c \notin q.downloading
    IN  /\ q.sock[c] = "established"
        /\ Handler(asks(q) \union (IF evil THEN {Ban(q, c)} ELSE {}))

\* OP_CANCELTRANSFER, and OP_END_OF_DOWNLOAD for the client's file.
EndTransfer(c) ==
    /\ IsConnected(q, c) /\ IsDownloading(q, c)
    /\ Handler({RemoveFromUploadQueue(q, c)})

\* We start or stop downloading from a connected client.
ChangeDownload(c) ==
    /\ "source" \in Env /\ q.sock[c] = "established"
    /\ Handler({[q EXCEPT !.downloading = IF c \in @ THEN @ \ {c} ELSE @ \union {c}]})

----------------------------------------------------------------------------
(* The shared files                                                        *)

SuspendUpload(s, f, terminate) ==
    LET hit    == {c \in Range(s.uploading) : s.file[c] = f}
        ustate == [c \in Clients |-> IF c \notin hit THEN s.ustate[c]
                                     ELSE IF terminate THEN "NONE" ELSE "ONUPLOADQUEUE"]
        ended  == {[s EXCEPT !.uploading = u, !.ustate = ustate] : u \in Without(s.uploading, hit)}
        moved  == Without(s.uploading, Clients \ hit)
    IN  IF terminate THEN ended
        ELSE UNION {{[r EXCEPT !.suspended = @ \union {f}, !.waiting = @ \o w] : w \in moved} :
                        r \in ended}

ResumeUpload(s, f) == [s EXCEPT !.suspended = @ \ {f}]

\* PerformFileComplete: a shared part file is complete and about to be moved.
FileComplete(f) ==
    /\ "complete" \in Env /\ f \in (q.shared \union Downloads) \ q.suspended
    /\ Handler(SuspendUpload(q, f, FALSE))

\* CompleteFileEnded: the file is in place (or, after an error, still suspended).
CompleteFileEnded(f) ==
    /\ f \in q.suspended
    /\ Handler({[ResumeUpload(q, f) EXCEPT !.shared = @ \union {f}]})

\* The file is no longer shared, and its destructor clears the requests for it.
RemoveFile(s, f) ==
    [s EXCEPT !.shared = @ \ {f},
              !.file   = [c \in Clients |-> IF @[c] = f THEN NoFile ELSE @[c]]]

\* CPartFile::Delete.
DeleteFile(f) ==
    /\ "complete" \in Env /\ f \in (q.shared \union Downloads) \ q.suspended
    /\ Handler({RemoveFile(s, f) : s \in SuspendUpload(q, f, TRUE)})

\* The shared directories are read again, without the file or with it, or the
\* first part of a download is complete.
ReloadShared(f) ==
    /\ \/ "unshare" \in Env
       \/ f \notin q.shared /\ Env \intersect {"complete", "download"} # {}
    /\ Handler({[q EXCEPT !.shared = IF f \in @ THEN @ \ {f} ELSE @ \union {f}]})

----------------------------------------------------------------------------
(* Time, and the end                                                       *)

\* A second has passed since the last upload was started: even while Process
\* runs, for AddClientToQueue looks at the clock itself.
Tick ==
    /\ q.justStarted
    /\ q' = [q EXCEPT !.justStarted = FALSE]
    /\ UNCHANGED <<phase, pos>>

\* MAX_PURGEQUEUETIME has passed since the client last asked.
Age(c) ==
    /\ "age" \in Env /\ IsOnUploadQueue(q, c)
    /\ Handler({[q EXCEPT !.stale = @ \union {c}]})

\* CLIENTBANTIME has passed.
BanExpires(d) == d \in q.banned /\ Handler({[q EXCEPT !.banned = @ \ {d}]})

\* The user changed something that asks for a new order.
ResortQueue == Handler(SortGetBestClient(q))

Shutdown ==
    /\ "shutdown" \in Env /\ phase = "run"
    /\ phase' = "down" /\ UNCHANGED <<q, pos>>

\* One turn of DeleteAll: the verdict of Disconnected does not matter.
DeleteOne(c) ==
    /\ phase = "down" /\ c \in q.live
    /\ q' = Safe_Delete(Disconnected(q, c), c)
    /\ UNCHANGED <<phase, pos>>

----------------------------------------------------------------------------

Init == \E shared \in {Files, Files \ Downloads} :
    /\ q = [ waiting |-> << >>, uploading |-> << >>,
             ustate  |-> [c \in Clients |-> "NONE"],
             sock    |-> [c \in Clients |-> "none"],
             file    |-> [c \in Clients |-> NoFile],
             rank    |-> [c \in Clients |-> 0],
             live |-> {}, lowID |-> {}, addNext |-> {}, stale |-> {},
             downloading |-> {}, banned |-> {}, shared |-> shared, suspended |-> {},
             lastupslotHighID |-> TRUE, allowKicking |-> TRUE, justStarted |-> FALSE ]
    /\ phase = "run" /\ pos = 1

Process == ProcessStart \/ FeedSlot \/ ProcessEnd

PeerNext(c) ==
    \/ Hello(c) \/ OnConnect(c) \/ HelloAnswer(c) \/ Disconnect(c) \/ ChangeClientID(c)
    \/ EndTransfer(c) \/ ChangeDownload(c) \/ Age(c)
    \/ \E f \in Files : SetReqFile(c, f) \/ StartUploadReq(c, f)

FileNext(f) == FileComplete(f) \/ CompleteFileEnded(f) \/ DeleteFile(f) \/ ReloadShared(f)

Next ==
    \/ Process
    \/ \E c \in Clients : PeerNext(c) \/ DeleteOne(c)
    \/ \E f \in Files : FileNext(f)
    \/ \E d \in Range(Dest) : BanExpires(d)
    \/ Tick \/ ResortQueue \/ Shutdown

Spec == Init /\ [][Next]_vars

\* The core timer keeps running Process, whose loop ends, and time passes.
\* Nothing is assumed of peers, files or the user.
Fairness == WF_vars(ProcessStart) /\ WF_vars(FeedSlot) /\ WF_vars(ProcessEnd) /\ WF_vars(Tick)

FairSpec == Spec /\ Fairness
----------------------------------------------------------------------------
(* What is claimed                                                         *)

\* Every variable holds what its declaration in the code allows.
TypeOK ==
    /\ q \in QueueState
    /\ phase \in Phases
    /\ pos \in Nat \ {0}

\* Never more slots than configured, and one more only while the last slot went
\* to a client that called in (the rule told at UploadQueue.cpp:393-402).
SlotLimit == Len(q.uploading) <= MaxSlots + (IF q.lastupslotHighID THEN 0 ELSE 1)

\* The waiting list is capped at QueueSize when somebody new is put on it; what
\* suspended uploads add to it without a look at the cap never exceeds the slots.
QueueLimit == Len(q.waiting) + Len(q.uploading) <= QueueSize + MaxSlots + 1

\* Nobody holds two slots, whoever holds one is a client that still exists, and
\* a client in state US_UPLOADING has one: block requests are accepted from it on
\* the strength of that state alone (AddReqBlock).
SlotsHeldOnce ==
    /\ IsInjective(q.uploading)
    /\ Range(q.uploading) \subseteq q.live
    /\ \A c \in Clients : q.ustate[c] = "UPLOADING" => IsDownloading(q, c)

\* The two lists and the upload states tell one story: nobody is on both lists
\* or twice on the waiting list, and the states of those on a list say which,
\* whatever file a peer asks about meanwhile (RemoveFromWaitingQueue and
\* RemoveFromUploadQueue take off one entry and reset the state for all).
ListsAgree ==
    /\ IsInjective(q.waiting)
    /\ Range(q.waiting) \intersect Range(q.uploading) = {}
    /\ \A c \in Range(q.waiting) : q.ustate[c] = "ONUPLOADQUEUE"
    /\ \A c \in Range(q.uploading) : q.ustate[c] \in {"CONNECTING", "UPLOADING"}

\* A client in state US_ONUPLOADQUEUE that is on no list: it waits for nothing,
\* and Disconnected takes it for a client that is still needed.
Stray(c) == q.ustate[c] = "ONUPLOADQUEUE" /\ ~IsOnUploadQueue(q, c)

\* That comes about in one way only: the time of a client is over, and the sort
\* in AddClientToQueue sweeps it out again as its file is not shared, be it that
\* the file was lost or that the peer asked about another one in the meantime
\* (UploadQueue.cpp:86 and 513).
StraysLostTheirSlot ==
    [][\A c \in Clients : ~Stray(c) /\ Stray(c)' =>
           IsDownloading(q, c) /\ q.file[c] \notin q.shared]_vars

\* The rank a peer is told is its place on the list, or nothing (0, not told)
\* when it came back from a suspended upload and no sort has run since.
RankIsPlace ==
    /\ \A i \in DOMAIN q.waiting : q.rank[q.waiting[i]] \in {0, i}
    /\ \A c \in Clients : ~IsOnUploadQueue(q, c) => q.rank[c] = 0

\* Nobody is given a slot for a file that is not shared at that moment.
GrantsAreShared ==
    [][\A c \in Range(q'.uploading) \ Range(q.uploading) : q'.file[c] \in q'.shared]_vars

\* Somebody on the waiting list can be served right now.
CanServe ==
    \E c \in Range(q.waiting) :
        ~MustCallIn(q, c) /\ c \notin q.stale /\ q.file[c] \in q.shared

GiveOut == Len(q'.uploading) > Len(q.uploading)

\* A slot does not stay free for ever while somebody who can be served waits:
\* the upload queue keeps handing out slots, wherever the low id clients stand.
FreeSlotsAreFilled ==
    <>[](CanServe /\ Len(q.uploading) < MaxSlots) => []<><<GiveOut>>_vars

\* A slot whose client has lost its socket is taken back.
DeadSlotsAreFreed ==
    \A c \in Clients :
        (IsDownloading(q, c) /\ q.sock[c] = "none")
            ~> (~IsDownloading(q, c) \/ q.sock[c] # "none" \/ phase = "down")
=============================================================================
