# TLA+ models of iMule

iMule is the eMule/aMule client for the I2P network. This directory holds TLA+ modules translated from its C++
sources, the TLC configurations that check them on small instances, and proofs for TLAPS of what holds for every
instance. `PROJECT.json` maps each definition to the lines it stands for, and lists the runs, the mutants (slips of
the code that a property must notice), the findings, the hazards and the theorems.

    tlc -workers 2 -config UploadQueue_queue.cfg MCUploadQueue.tla     # a run
    tlapm UploadQueueProofs.tla                                        # a proof module

Paths below are relative to `src/src/`.

## 1. The system

The core is single threaded. An event loop runs socket events, timers (the core timer calls the queues' `Process`
functions), user events and *coroutines*: what used to be threads in aMule are functions cut into turns
(`CR_RETURN`, `CR_CALL`) that an idle handler or a timer resumes. So there are no data races, but many
interleavings: between two turns, or between a request and its event, any other handler may run.

| Part | State it keeps | Operations | Talks to |
|---|---|---|---|
| Upload queue (`UploadQueue.cpp`) | waiting list, upload list, suspended files, kick and low-id flags | requests, `Process`, sorting, kicks, suspend and resume | clients, client list, shared files, part files |
| Clients (`BaseClient`, `UploadClient`, `DownloadClient`) | socket, upload and download state, file asked for, rank | hello, connect, disconnect, delete, ban | everything |
| Client list (`ClientList.cpp`) | clients by address and hash, bans | find, merge, expire, `DeleteAll` | clients |
| Thread scheduler (`ThreadScheduler.cpp`, `libs/common/coroutine`) | task list, registrations, current task, position of the coroutine, idle bindings | `AddTask`, `Start`, `Terminate`, turns | tasks |
| Tasks (`ThreadTasks.cpp`) | hashing, completion, allocation, AICH synchronisation | one turn after the other, then an event | scheduler, files, application |
| Part files (`PartFile.cpp`) | gaps, buffer, status, pause flags, `.part` and `.part.met` on disk | write, flush, hash, complete, pause, cancel, load, save | scheduler, upload queue, download queue |
| Download queue (`DownloadQueue.cpp`) | list of part files, sources | load at start, disk space, start next | part files, clients |
| Throttler and packet queues (`UploadBandwidthThrottler.cpp`, `EMSocket.cpp`) | control queues, slot list, partly sent packet | queue, send, remove | upload queue, sockets |
| Gap list (`GapList.cpp`) | gaps by their last byte, which parts are complete, the total | fill, add, query | part files |
| Block requests (`DownloadClient.cpp`, `PartFile.cpp`, `UploadClient.cpp`) | requested and pending blocks, the window of a source, what a peer has sent | ask, receive, refuse, time out, recover | part files, clients |
| Credits, AICH (`ClientCredits*.cpp`, `SHAHashSet.cpp`) | identification states, hash trees | challenge, verify, recover | clients, part files |
| Kad (`kademlia/`) | routing zones and bins, searches, index, packet tracks | look up, store, publish, expire | UDP sockets, client list |
| SAM session (`libs/i2p/`) | state of the connection to the I2P router, command queue, half-read payload | connect, name lookup, streams, datagrams | all sockets |
| Known and shared files, IP filter, preferences, statistics, searches, friends, EC, GUI | see `PROJECT.json` | | |

What is hard in it, part by part, with the properties that make the part correct:

* **Upload queue.** Handlers call each other deeply (a request sorts the queue, the sort disconnects a client,
  which deletes it, which takes it off the queue), `Process` iterates over a list its callees change, clients move
  between two lists while their state is kept in a third place, files leave the shared list or are suspended under
  waiting clients, clients that must call in jump the queue for one extra slot. *Correct* when lists and states
  agree, slots are limited, held once and only by clients that exist, ranks are places, slots are given for shared
  files only, and neither a free slot nor a dead one is forgotten.
* **Thread scheduler.** `AddTask` decides from the coroutine's position whether to wake it, with registrations
  outliving their tasks by a turn. *Correct* when what is registered is what is queued or running, work never waits
  without an idle handler, and the most urgent task is next.
* **Part files.** Completion is a chain of two tasks and two events, with the user, full disks, failing renames and
  crashes in between, and file numbers that are reused. *Correct* when only a hashed file is moved, data are never
  lost, a completed download is whole, numbers are not shared, and completions end.
* **Throttler, packet queues.** Sockets removed while they stand in five lists of plain pointers; packets cut by
  budgets, fragments and blocked connections; sockets that ask to be called again from inside the loop that calls
  them. *Correct* when no deleted socket is called, a socket with control packets is always on some list and gets
  them out, packets leave whole and in order, and a pass ends.
* **Gap list, block requests.** Ranges with inclusive ends cut and joined one by one, with caches dropped on the
  way; pointers to blocks kept by the file and by its sources, which may answer late, lose the connection, be
  dropped or send what does not match its hash. *Correct* when the list is the set of missing bytes and the caches
  agree with it, when what is requested is requested of a source that downloads, of one only, and when the file
  completes.
* **Kad routing table.** Splits and merges move contacts by removing and adding them again, against a count of
  contacts per address. *Correct* when the counts are those of the bins, every contact stands in the zone of its
  id, no address is known twice, and a contact that is kept is heard from again.
* **SAM session.** Lines, payloads and commands are read and written by coroutines that return wherever the
  connection would block, on a socket that is handed over to the application later. *Correct* when both sides get
  what was said, whole and in order, no byte of a peer is taken for the router's, and a session comes up or is
  known to be lost.
* **Kad searches, credits, client list.** Replies that come late, twice or never; searches deleted from a loop over
  them; merging of two objects that turn out to be one client.

The hazards, each at its line, are in `PROJECT.json` ("hazards").

## 2. Plan

| | Modules | State |
|---|---|---|
| 1 | `UploadQueue`, `MCUploadQueue`, `UploadQueueProofs` | done: all its invariants and its action property are proved |
| 2 | `ThreadScheduler`, `MCThreadScheduler`, `ThreadSchedulerProofs` | done |
| 3 | `PartFile`, which composes the files with an instance of `ThreadScheduler`, and `PartFileProofs` | done |
| 4 | `Throttler`, `MCThrottler`, `ThrottlerProofs`: the throttler with the packet queues of its sockets | done |
| 5 | `GapList`, which implements `MissingBytes`, with `GapListProofs` | done |
| 6 | `BlockRequests`, `MCBlockRequests`: both ends of a download, and `BlockRequestsProofs` | done |
| 7 | `RoutingZone`, `MCRoutingZone`, which implements `RoutingTable`, with `RoutingZoneProofs` | done |
| 8 | `SamSession`, `MCSamSession`, which implements `SamLink`, with `SamSessionProofs` | done |
| 9 | Kad: `SearchManager` and `Search`; `PacketTracking`; the limits of the index | planned |
| 10 | `I2PConnectionManager`: reconnections, on top of `SamSession` | planned |
| 11 | `ClientList` and `ClientCredits`: merging and identification | planned |

## 3. How the code is modelled

**State.** Each module has one record with the component's data members (`q`, `sched`, `app`) and small variables
for where the core is (`phase`, `pos`, `pass`, `call`, `handler`). A C++ object is a name, a null pointer a
constant of its own.

**Handlers.** A handler is one action, with everything it calls. A called function is an operator from the record
to the record it leaves, or to the *set* of records when the code's outcome depends on something abstracted
(scores, clocks, failing input and output). Called functions are operators even where the code nests five deep, in
the code's order, so that a function's early return is the operator's condition. Where the order inside a loop is
the question, the loop is cut into one action per turn, so that its iterator is state: `CUploadQueue::Process`, a
pass of the throttler, the calls of the gap list. Coroutines are cut at their returns.

**Environment.** `Env` (`Mishaps` in `BlockRequests`) names what the peers, the disk and the user make use of, each
feature explained where it is declared, so that each run can choose the hard parts of its question. Where a
property is checked without a feature that breaks it, sections 4 and 5 say so.

**Slips.** A definition that ends in `_Slip`, or in the name of what it gets wrong, is a plausible mistake in the
code. No specification uses it; `PROJECT.json` ("mutants") says which property notices it.

### UploadQueue

| Definition | Code |
|---|---|
| `QueueState` | members of `CUploadQueue`; of clients, `m_nUploadState`, `m_socket`, `m_requpfileid`, `m_waitingPosition`, `m_bAddNextConnect` |
| `SortGetBestClient` = `Purge`, `Orders`, `RankAndMark`, `Best` | the two passes and the insertion sort of `CUploadQueue::SortGetBestClient` |
| `AddUpNextClient`, `AddDirectly`, `GiveSlot` | `AddUpNextClient()` and `AddUpNextClient(directadd)` |
| `AddClientToQueue` = `AfterTwin`, `YieldTwin`, `AnswerRequest`, `AskAgain`, `Enqueue` | `CUploadQueue::AddClientToQueue` |
| `ProcessStart`, `FeedSlot`, `ProcessEnd`, `Cursors` | `CUploadQueue::Process` and its iterator |
| `Disconnected`, `Safe_Delete`, `NotNeeded`, `Forget` | `CUpDownClient::Disconnected`, `Safe_Delete` |
| `Hello`, `HelloAnswer`, `OnConnect`, `Disconnect`, `ChangeClientID`, `SetReqFile`, `StartUploadReq`, `EndTransfer` | packet and socket handlers of `CClientTCPSocket` |
| `SuspendUpload`, `FileComplete`, `CompleteFileEnded`, `DeleteFile`, `RemoveFile`, `ReloadShared` | the queue's side of part files and shared files |
| `Age`, `Tick`, `BanExpires`, `Shutdown`, `DeleteOne` | time and program end |

Abstractions. *Scores*: any order of the waiting clients is possible, with those of score 0 (banned, or of a
suspended file) last in their old order, which is what the sort makes of equal scores. *Ids*: iMule clients have a
high id unless they send `OP_CHANGE_CLIENT_ID`, and get it back with every hello. *Addresses*: ports are always 0,
so the check of three clients of one address by `GetClientsFromIP` never triggers and is left out; the check by
destination is kept (`MaxPerDest`). *Time*: the second between two starts is `justStarted`, the purge time is
`stale`, the hour and the 10 MB of a slot may have passed or not. *Slots*: `MaxSlots` is constant, one setting of
the preferences. *Identity*: two clients may say they have the same hash (`Twin`); who can prove it is
`Identified`. A hello by an unknown client whose twin is known but not connected is left out, since the two would
be merged. *Files asked for*: four packets, beside the request for a slot, say which file a
peer means from now on, and take files of the download queue that are not shared yet; `SetReqFile` is all of them,
and `download` (`Downloads`) lets such files exist, which are shared once their first part is complete
(`ReloadShared`). *Iterator*: when the entry under the iterator of `Process` is erased, it may stand anywhere afterwards.

### ThreadScheduler

`sched` has the members of `CThreadScheduler`, of the coroutine it is (`place`, `ended`) and the number of idle
bindings. `Add` is any caller of `AddTask`; `Begin`, `TaskEnds` and `Proceed` are the three turns of `Continue`
that change something (its other returns come back without a change); `Leave` is what happens when the loop ends,
`OnExit` included. `Start` and `Terminate` are the application's calls. No caller passes `overwrite`, so that path
(which would leave a deleted task in the list) is not modelled.

### PartFile

`app` holds the files, what stands under each number in the Temp directory, what stands in Incoming, the posted
events and the scheduler, which is an instance of `ThreadScheduler` whose operators it calls. `phase` is `dead`,
`load` or `run`. `FlushBuffer`, `CompleteFile`, `PartFileHashFinished`, `StopFile`, `ResumeFile` and so on are the
functions of `CPartFile`; `HashingTask`, `RenameFile`, `CloneFile`, `OpenFails`, `CloneDone` are the turns of tasks
that matter; `OnFinishedHashing` and `OnFinishedCompletion` the events; `Restart` kills the program between any two
steps, with a buffer, a move or a save half done (`Torn`), `Boot`, `LoadMetFile` and `Loaded` start it.

*Cancelling.* The download window looks at the status of the selected files, shows a message box, and deletes them
when the user says yes. The box runs the event loop, so that these are two actions: `AskToCancel` puts the files in
`box`, where they stay while tasks, events and timers go on, and `Answer` closes it. Nothing looks at the status
again; the feature `blind` lets the user confirm whatever the files have become, and without it only what the window
would still offer. `RemoteCancel` is the remote control and the category menu, which look at no status at all; with
`remote` the user has them delete whatever file it is.

*Saving.* `SavePartFile` removes the old `.met`, writes the new one, and keeps a copy of that as `.bak`. It may fail before it
begins, or after the removal (`met`), and the program may die in between (`TornSaves`): in both cases the file is
left without a `.met`, and the next start, which lists `*.part.met` only, does not know it. A new `.met` that is cut
short is replaced by the `.bak` when it is loaded, which is as if the save had not begun. That the `.bak` is the
`.met` of the last complete save leaves out two deaths, each inside a save, with none that was completed in between.
A death within the first save of a new download, which has no data yet, is left out as well.

Abstractions. A block fills a whole part, so the recovery of partly received parts has no place, and the hash set
is there. A file's content is the set of its right parts. Hashing reads a file in one turn: nothing writes to it
between the turns, as blocks are only taken in `PS_EMPTY` and `PS_READY`. Files are not preallocated. A failing
truncation, and the flush at a clean end, are left out. What happens to a deleted file that an event, or the message
box, still refers to is undefined and ends there in the model. `late` lets other handlers
run between the end of a task and its event, and before the scheduler's next turn; without it those come first.

### Throttler

| Definition | Code |
|---|---|
| `ubt` | `UploadBandwidthThrottler`: `m_TempControlQueueFirst_list`, `m_TempControlQueue_list`, `m_ControlQueueFirst_list`, `m_ControlQueue_list`, `m_StandardOrder_list`, `m_doRun`, `rememberedSlotCounter` |
| `sock` | `CEMSocket`: both packet queues, `sendbuffer`, `sent`, `m_currentPacket_is_controlpacket`, `m_bBusy`, `m_hasSent`, the connection |
| `Wake`, `ControlLoop`, `TrickleLoop`, `ShareLoop`, `EndThread` | one pass of `UploadBandwidthThrottler::Entry` |
| `Enter`, `SendLoop`, `PickPacket`, `WriteSome`, `WriteFails`, `WriteEnds` | `CEMSocket::Send` |
| `SendPacket`, `OnSend`, `Delete` | `CEMSocket`'s functions of these names, its destructor |
| `SlotGiven`, `SlotTaken`, `Disconnect` | what the upload queue and the client do to the slot list and the socket |

Nothing runs beside a pass, so the other actions wait for its end. A pass has any of `Budgets` to spend, and the
answers to the code's questions about clocks are open. The receiving half and obfuscation are left out. `wire` is a
history variable: the packet last put on the connection and how much of it.

### GapList, MissingBytes

`gaplist` maps the last byte of a gap to its first, as `m_gaplist` does. Each turn of the loops of `AddGap` and
`FillGap` is an action (`Swallow`, `JoinHead`, `JoinTail`, `Contained`, `InsertGap`; `FillWhole`, `FillHead`,
`Cut`, `FillTail`, `Filled`), with `call` the range and the iterator. `partsComplete` and `totalGapSize` are the
caches; `IsComplete` and `GetGapSize` fill them. `MissingBytes` is the abstract specification: a set of bytes that
a call adds a range to or takes one from. Its `missing` is what the gaps cover, plus or minus what the call under
way has still to do.

### BlockRequests

| Definition | Code |
|---|---|
| `file` | `CPartFile`: gaps, buffer, `m_requestedblocks_list`, `m_corrupted_list`, status |
| `src[c]` | our end of a source: download state, pending blocks, `m_lastPartAsked`, the number of blocks it may have |
| `peer[c]` | the source's end: upload state, the blocks asked of it in this session (`m_BlockRequests_queue`, `m_DoneBlocks_list`), and the data and control packets on their way to us |
| `GetNextRequestedBlock`, `IsAlreadyRequested`, `GetNextEmptyBlockInPart` | `CPartFile`'s functions |
| `SendBlockRequests`, `ProcessBlockPacket`, `SetDownloadState`, `ClearDownloadBlockRequests` | `CUpDownClient`'s functions, the dropping of slower sources included |
| `FlushBuffer`, `WriteToBuffer`, `AICHRecoveryDataAvailable` | `CPartFile`'s functions |
| `AddReqBlock`, `AddUpNextClient`, `SendOutOfPartReqsAndAddToWaitingQueue`, `ClearUploadBlockRequests` | the other end, which is the same program |

A packet carries one byte, the unit of the model. Our packets reach the source at once, since a delay of its
answers is as good; `AskForDownload` and the answers it leads to are one step. Control packets overtake data at the
sender. The ranks of the parts are any order. `letGo` is not in the code: it
remembers the bytes of every block that a step takes off the list of the file while its owner still waits for it,
whatever took it off: a packet that overruns its block, recovered blocks, or the end of a block that lies inside
another source's larger one. `Becomes` computes it at the end of each step.
`MaxControl` bounds the control packets under way, `MaxMishaps` all mishaps together. The corruption black box and
full disks are left out.

### RoutingZone, RoutingTable

A zone is its level and index, an id its distance from ours, a leaf's bin a sequence of ids. `table` has the bins,
the count per address (`s_globalContactIPs`), the set of all contacts (`s_ContactsSet`) and the zones with a timer
(`CKademlia::m_events`); `contact` the data that all holders of a `CContact` share. `AddContact`, `RemoveContact`,
`PushToBottom` are functions of `CRoutingBin`, `DeleteBins` its destructor; `NewZones` is `Init`, `StopTimers`
`StopTimer`, and `CanSplit`, `Split`, `Merge`, `Consolidated`, `Add`, `Update`, `OnSmallTimer`, `Read` and `Stop`
are `CRoutingZone`'s. The loops of the code (`AddContacts`, `MakeRoom`, `Consolidated`, `Discarded`, `Read`) are
functions of the number of turns made. What is found by descending the tree (`ZoneOf`, `Leaf`) is the zone whose
distances begin with the same bits (`Covers`). `Expire` lets the time of a contact run out; `Pinged` is
`CheckingType`. `RoutingTable` is the abstract specification: a map from ids to addresses, no address twice, in
which splits and merges cannot be seen. Closest-contact queries and random lookups change nothing and are left out,
as is the verification of addresses.

### SamSession, SamLink

| Definition | Code |
|---|---|
| `state`, `sock`, `expected` | `m_conn_state` of `CSam`; `m_state` and `m_expected_state` of the socket that owns the session |
| `read`, `line`, `payload`, `unread` | contexts of `sam_handle_input_reentrant` and `sam_read2`, and what was put back by `Unread` |
| `queue`, `write`, `posted`, `blocked` | `m_waitingWriteMsgQueue`, what is left of `writeCtx.msg`, whether an OUTPUT event was posted by `sam_queue` or will come from the socket |
| `change_state`, `NextCommand`, `StateAfter`, `Runs`, `Receives`, `Transfers`, `Fails` | `change_state` and the `state_machine` of the datagram, server, client and accepting sockets |
| `ReadLine`, `ReadPayload`, `Dispatch`, `NextMessage`, `Write` | the handlers, cut at their reads and writes; `handler` says which one runs |
| `SendTo`, `RecvFrom`, `Read`, `udp_server_connected`, `SetNetworkStarted` | the owner |

A message is its kind and subject; on the wire it is four units at most: text, newline, and for a datagram a byte
of payload that looks like a newline and one that does not. A read takes any beginning of what was sent, since the
rest may not have arrived, and a write any beginning of what is left. `asked` and `heard` are history variables:
with `got` and `told`, of the router, they are the state of `SamLink`, in which each side gets what the other one
said, whole, in order and once.

## 4. The runs

| Run | Bounds | Shows |
|---|---|---|
| `UploadQueue_queue` | 4 clients (one changes its id), 1 slot, 1 place, 1 file completed, deleted and shared again; symmetric clients | `TypeOK`, `SlotLimit`, `QueueLimit`, `RankIsPlace` |
| `UploadQueue_faults` | 2 clients of one hash, 2 slots, 2 places; bans, refusals, sources, chats, missing sockets, lost files, downloads that are asked about, program end | `SlotsHeldOnce` (slots single, and of clients that know it), `GrantsAreShared` |
| `UploadQueue_live` | 2 clients that change ids, chat and grow silent, 1 slot, 2 places, 1 file that is lost and shared again, or a download | `ListsAgree`, `StraysLostTheirSlot`; `FreeSlotsAreFilled`, `DeadSlotsAreFreed` under fairness |
| `ThreadScheduler` | 5 tasks of 3 types, two of one name, 4 of them added; start, end, restart | `TasksRegistered`, `WorkIsServed`, `BestFirst`; `QueuedIsRun`, `FollowUpRuns` under fairness |
| `PartFile_safe` | 1 file, 2 parts, everything but failing writes, saves and copies and cancels without a look at the status; 6 tasks | `OnlyHashedIsMoved`, `CompletedIsWhole`, `NothingIsLost`, `CompletionIsForKnown`; that `ThreadScheduler!Spec` is implemented |
| `PartFile_live` | 2 files and numbers, 2 parts; wrong data, failing writes and renames, restarts, cancels; 4 tasks | `NumbersAreOwn`; `CompletingEnds` under fairness |
| `PartFile_clone` | 1 file; failing renames and copies | the finding below, as a violation |
| `Throttler` | 1 socket, 3 packets of 1.5 fragments, passes with less and more than one fragment to spend; slots given and taken, disconnection, errors, program end | `CalledIsAlive`, `NoneForgotten`, `WireIsWhole`; `ControlGoesOut`, `PassEnds` under fairness |
| `GapList` | 8 bytes in parts of 3, all ranges | `GapsApart`, `CachesAreTrue`; that `MissingBytes!Spec` is implemented |
| `BlockRequests` | 3 bytes in parts and blocks of 2, a source with all and one with the first part; one mishap of any of the seven kinds | `RequestedAreHeld`, `AskedOnce`; `FileCompletes` under fairness |
| `RoutingZone` | 5 nodes, ids of 4 bits, bins of 4; a `nodes.dat`, a node that takes another one's address, consolidation, stop | `CountsAreTrue`, `TreeIsSound`; that `RoutingTable!Spec` is implemented; `KeptAreHeard` under fairness |
| `SamSession` | the four kinds of sockets, two datagrams each way, an inbox of one; connection lost, session or stream refused | `PeerStreamIsWhole`; that `SamLink!Spec` is implemented; `SessionSettles` under fairness |

*Why the bounds are enough.* One slot and one place make every limit bite at once; the fourth client is the one
that finds the queue full while another holds the extra slot. Two clients are enough for one to be fed while the
other is under the iterator, and for a twin. Two parts are the smallest file that can be half right, and the code
treats files of one part on its own. Two files and two numbers let a number be reused while a task of its old owner
is queued. `MaxAge` and `Ages` bound how many tasks are added; each completion takes two, and a third and fourth follow a
restart or a resume. A packet of one and a half fragments is cut by a budget, by the fragment size and by a blocked
connection. Eight bytes in parts of three leave a last part that is shorter, gaps that span two borders and a gap
that is cut in two inside a part. A part of two bytes has a block that can be half received, and the last part is
one byte. Five nodes fill a bin of four and split it twice. Two datagrams are enough for one to be read while the
other arrives or is pushed out of the inbox.

Larger instances were checked apart from the runs, since they take longer: the four clients of `UploadQueue_queue`
with lost files too, for `ListsAgree` and `StraysLostTheirSlot` (2.6 million states), three clients with two downloads
for the same; two sockets in `Throttler` (2 packets without liveness, 1.4 million states; 1 packet with it), and a
file of four bytes in parts of three in `BlockRequests` (safety, 570 000 states; 1.8 million for three bytes in a
single block with three mishaps). Two parts of the code are seen by no run: `MaxPerDest` never binds with so few
clients, and `FriendSlot` and `PowerShare` are empty, which only allows more kicks.

What the passing runs leave out because it breaks a property (section 5 has what the code does then):

* `UploadQueue_live` the filter: a client refused when it is given a slot uses up the one start of that second, and
  peers that come back to be refused can do so for ever. It is also the run for `ListsAgree` and
  `StraysLostTheirSlot`, which are checked without bans.
* `PartFile_safe` failing writes, saves and copies, and users who cancel by the remote control whatever
  the file is (`remote`), or confirm whatever it has become (`blind`). `PartFile_live` has failing writes, but not the rest of these, nor failing
  reads, full disks, the user's other operations and `late`, with which its two files would also be beyond TLC's
  reach in a few minutes. So the gap of `ThreadScheduler.cpp:172`, in which a task is discarded as a duplicate, is
  not in the run of `CompletingEnds`.
* `SamSession` the features `early`, `eager` and `gap`: its claims are about peers that connect once the accepter has
  handled its answer, and about datagrams that come while Kad listens.

*Fairness.* `UploadQueue`: the core timer keeps calling `Process`, its loop ends, and time passes; nothing is
assumed of peers, files or users. `ThreadScheduler` and `PartFile`: idle events keep coming (timers wake the loop),
a task works through a file of finite length, posted events are handled, and a start that has begun to load comes
to its end. `Throttler`: the timer keeps waking it, and a pass runs on; a connection that is not dead becomes
writable again and takes some data, again and again. `BlockRequests`: the user resumes a paused file, sources keep
being asked and their queues give them slots again, the buffer is flushed and a silent source times out, as
`CPartFile::Process` does every second; what was sent while a transfer goes on arrives. `RoutingZone`: the timers
of the zones fire, and the time of a followed contact runs out. `SamSession`: a handler that began ends, the loop
serves every event, bytes that were sent arrive, and the router answers.

Fairness is weak where nothing but the step itself disables it. It is strong where others may disable a step for a
while: arriving bytes and writable connections (a handler in between), events of a socket, and the timer of the
zone a contact is in, since zones split and merge.

## 5. Findings

`PartFile_clone`: an input or output error half way through copying a completed file is taken for success, and the
original is removed (`ThreadTasks.cpp:452`, against `ThreadTasks.h:281`).

These were met as well, and have no run of their own:

* *Upload queue.* The next `Process` gives a slot back to the client whose upload was just suspended, since its
  score is cleared but the second pass of the sort does not look at scores (`UploadQueue.cpp:133`, against the
  comment at 602). Banned while uploading, then a source of ours, a client gets on both lists, and with a
  suspension twice on the waiting list (`UploadQueue.cpp:631`); the assertion in the destructor fails
  (`UploadQueue.cpp:327`). A client that is kicked out when its file is not shared, because the file was lost, or
  because the client asked for the name of a file we are still downloading (`ClientTCPSocket.cpp:453`), is appended to
  the waiting list, swept out again by the sort, and then set to `US_ONUPLOADQUEUE` (`UploadQueue.cpp:513`): it is on
  no list, and counts as waiting. `StraysLostTheirSlot` says that this is the only way to get there.
* *Part files.* A file whose last buffer could not be written has no gaps and, resumed, is moved without having
  been hashed (`PartFile.cpp:2286`; `OnlyHashedIsMoved` with `write` and `user`). The remote control and the
  category menu delete a file that is being completed, and the completion event refers to a deleted object
  (`amule.cpp:1357`; `CompletionIsForKnown` with `remote`). A hashing asked for before the registration of the last
  one is gone is discarded as a duplicate (`ThreadScheduler.cpp:172`; `CompletingEnds` with `late`).
  A file that is saved between its move and the event of it writes the `.met` of a number that may be another
  file's by then (`PartFile.cpp:688`; `NumbersAreOwn` with `user` and `late`).
* *Cancelling.* The download window does not look at the status again when its message box is answered
  (`DownloadListCtrl.cpp:414`). A file that is being completed by then is deleted with its task in the queue, which
  has the same effects as a cancel by the remote control: `OnlyHashedIsMoved` and `CompletionIsForKnown` fail with
  `blind`. The task keeps its registration, and if the number is used again, the completion of the next file is
  discarded as a duplicate (`CompletingEnds`), or the task moves that file's data.
* *Saving.* The old `.part.met` is removed before the new one is written (`PartFile.cpp:713`). If the program dies
  in between, or the new file cannot be opened, the download is not found by the next start, which reads a backup for
  a broken `.met` but not for a missing one (`DownloadQueue.cpp:119`), and its number, which is free by the name of
  the `.met` (`PartFile.cpp:250`), is given to the next download, which overwrites the data. `NothingIsLost` names the
  death as its exception and fails with `met`, and so does `NumbersAreOwn`, as the number of a download that goes on is
  free.
* *Throttler.* Nobody calls `RemoveFromStandardList` from outside: sockets of clients that lost their slot stay on
  the slot list until they are deleted (`UploadBandwidthThrottler.cpp:159`).
* *Block requests.* After a corruption the blocks of a part are asked for again, but the uploading end ignores a
  request for a block it has already sent (`UploadClient.cpp:502`), so the source stalls until the download times
  out. The assertion that blocks were freed when one is found pending (`DownloadClient.cpp:698`) can fail.
  `AICHRecoveryDataAvailable` takes the block at the beginning of the part off the list for each block it recovers
  (`PartFile.cpp:3201`). After such a block was let go, a smaller one inside it may be asked of another source, or
  the other way round; the end of the smaller one then takes the larger one off the list too, although its source
  still sends it (`DownloadClient.cpp:1012`, `PartFile.cpp:1893`), and others may be asked for its bytes. It takes
  at least two mishaps, and costs traffic only.
* *Routing table.* A contact's address is changed although the update is refused afterwards (`RoutingZone.cpp:510`,
  against the comment at 430).
* *SAM.* A datagram that comes between `SESSION STATUS` and the `NAMING REPLY` does not match the expected state:
  the owner is told that the session is lost, and the naming reply makes it run again
  (`wxI2PDatagramSocket.cpp:86`; `early`). The first line of a peer that connects before the answer to `STREAM
  ACCEPT` is handled is parsed as a message of the router, and the listening socket is reported lost
  (`wxI2PSocketServer.cpp:240`; `eager`). Datagrams kept before Kad listens have no event, so that those after them
  are each read one too late (`wxI2PDatagramSocket.cpp:232`, `amule.cpp:767`; `gap`). The inbox holds one datagram
  more than its limit (`wxI2PDatagramSocket.cpp:219`). An unknown version is thrown as a pointer and not caught
  (`CSamSession.cpp:418`), and a failed name lookup is treated as success (`CSamSession.cpp:556`). A client that
  is refused, or whose SAM connection is lost while it connects, posts no event, the code for it being commented out
  (`wxI2PSocketClient.cpp:283`): only timeouts find it. `SessionSettles` has this as its exception (`NotTold`). The
  loss of the datagram session between `udp_server_connected` and `SetNetworkStarted` is not told either, as nobody
  listens (`I2PConnectionManager.cpp:328`).

## 6. What is proved

All theorems hold for every value of the constants that satisfies the named assumptions of the module
(`ConstantsAssumption`, `TasksAssumption`, `SizeAssumption`, `ThrottlerAssumption`, `FilesAssumption`,
`EnvAssumption`, `BlockRequestsAssumption`, `RoutingAssumption`), which TLC evaluates in every run.

**UploadQueueProofs.** `TypeCorrect` (`Spec => []TypeOK`), `SlotsAreLimited` (`SlotLimit`), `PlacesAreLimited`
(`QueueLimit`) and `SlotsAreHeldOnce` (`SlotsHeldOnce`), for every `Env`. The inductive invariant `Inv` says of the
queue's state that it is `Legal`: well typed, within both limits, and `Held`. `Held` adds to `SlotsHeldOnce` that of
a deleted client no socket and no file is left: its entry may still stand on the waiting list, and it is only
because an entry without a shared file is purged before a slot is given that no slot goes to a deleted client. Type
correctness is where much of the work is, as each of the nested functions must be shown to leave lists of clients
and ranks that are numbers, for every order a sort may leave. The proof follows the calls. Two relations say all
that callers need: `Shrinks(s, r)`, that `r` gives no slot or place and has the same flag, and `Grows(s, r)`, that
it has at most one slot more; both keep `Held`. Each operator has a lemma: removing, disconnecting, deleting and
sorting shrink; giving a slot grows; a request, which may take the extra slot, goes from a legal state to a legal
one, because it grows either below the limit, or to one above it and clears the flag, which the next slot given
from the list sets again, and that only happens below the limit. `QueueLimit` bounds the sum of both lists because
a slot that is suspended moves from one to the other, past the check of the queue's size. One lemma per action then
gives the step.

In the same module: `RanksArePlaces` (`RankIsPlace`), `ListsStayInAgreement` (`ListsAgree`) and
`SlotsAreForSharedFiles` (`GrantsAreShared`, an action property). The last holds for every `Env`: a slot is either
given right after a sort, which leaves nobody on the list whose file is not shared, or after a check. The others rest
on `Good`, which adds to `Held` that the waiting list is a row (`Row`: nobody twice, ranks are places) and that the
state of each client fits its list (`OK`). `OK` needs a fact that `ListsAgree` does not mention: who has a slot and an
established connection is `UPLOADING` (or a second hello would leave a slot that is not). Most functions change one
client only, and the order of the row; `Only(s, r, c)` says so, and what is left for each is the one client. The
theorems name what breaks the claims: where peers are banned for asking too often (`"ban"`), `Ban` overwrites the
state of a client that waits or has a slot, and TLC finds counterexamples to both.

A client that was kicked out and purged by the sort it caused is told that it waits (`UploadQueue.cpp:513`), so `Good`
has a parameter: the clients that may be in that state. `OnlyLostSlotsAreStray` (`StraysLostTheirSlot`, an action
property) makes use of it. Nobody is added to them by any step but a kick-out, and by that only the client whose
time is over, and only if its file is not shared (`Excused`). `ListsAgree` holds with any such clients, as whoever is
on a list is not one of them.

**ThreadSchedulerProofs.** `TypeCorrect`, `BooksAreRight` (`TasksRegistered`), `WorkIsAttended` (`WorkIsServed`),
`FrontIsThere` (`FrontExists`: the list is never marked for sorting while it is empty) and `PicksBest` (`BestFirst`,
an action property). None of the claims is inductive
alone. `Sound` strengthens them: a scheduler mid-loop or with a binding is running and has not ended, so that
`IsAlive` tells the truth when `AddTask` asks; an unmarked list is in order, so that taking its front is taking the
best; and the task list is empty before the scheduler exists. `Placed` (the coroutine is at its beginning just when
there is no current task) holds between turns only, and is broken and restored inside `Proceed`, which is why it
stands apart.

**GapListProofs.** `GapsStayApart` (`Spec => []GapsApart`), `ImplementsMissingBytes` (`Spec => M!Spec`) and
`CachesStayTrue` (`Spec => []CachesAreTrue`), for every size of file and part. The gaps are apart between calls only
because each turn of a loop leaves them apart, and a turn is right only if those before it have left nothing undone.
So the inductive invariant `IInv` adds to
`Bounded` (gaps are inside the file) and `GapsApart` what holds in the middle of a call: `CallOK`, that the
iterator is at the end or on an entry, and `Passed`, that no gap before the iterator touches the range. For the
refinement, each turn that is not the last one is shown to leave `Missing` as it is: what the list loses or gains
is inside the range, which counts as missing (or present) from the start of the call. The first and last turns are
then `Lose`, `Receive` and `Done`.

The caches need a second invariant, `CachesOK`, on top of it. What a cached entry says of its part is true of the
missing bytes as the call has already made them, so in the middle of it too: `Mark` runs before the loop, and takes
back (or sets) what is said of every part the range touches. A fill of a part covers just that part, so that its
"complete" is true; and the total is cached between calls only, where it is the number of missing bytes.
What makes it hard is that the total is a sum over
the gaps, a fold, and that no induction is at hand. `FoldsAgree` goes around it: two functions that solve the
equation of the fold on the subsets of a finite set agree, since otherwise there were a smallest set on which they
differ (the sizes of such sets are natural numbers, and one of them is the least). The number of missing bytes
solves the equation, as gaps are apart.

**ThrottlerProofs.** `NoDeadSocketIsCalled` (`CalledIsAlive`), `NoControlPacketIsForgotten` (`NoneForgotten`) and
`PacketsLeaveWhole` (`WireIsWhole`), for any sockets (not even finitely many), packets and budgets. The first says
that a list of plain pointers never outlives what it points to, the second that no packet is left behind by a
throttler that drops sockets in four places, the third that no budget, however it cuts the packets, mixes two of
them. The inductive invariant `IInv` has, beside the types, one part per way the lists are kept right: `PassOK`
(a pass knows how long the slot list is, and the socket it calls is open and on it), `Alive` (what is on a list of
a running throttler, or being called, is not deleted), `SlotsOK` (an open socket that holds a slot or has client
data is on the slot list), `Remembered` (`NoneForgotten`, in the middle of a pass too) and `SocketsOK`: both queues
of a socket rise by packet number, behind the packet that was last on the connection, and the rest to be sent is
the rest of that packet. `Remembered` depends on `SlotsOK`: a socket whose control packet is sent in part goes on
to its client data, and then only the slot list names it.

**PartFileProofs.** For any files, parts and numbers, and any failures and deaths of the program: `PartFilesSchedule`
(`Spec => Scheduler`, the refinement of `ThreadScheduler`), `CompletionIsTold` (`CompletionIsForKnown`),
`NumbersStayOwn` (`NumbersAreOwn`), `HashedIsMoved` (`OnlyHashedIsMoved`), `CompletedStaysWhole` (`CompletedIsWhole`)
and `NoDataAreLost` (`NothingIsLost`). The refinement holds for every `Env`. The claims hold but for the failures of
section 5 that break them, and their theorems name those: no file is cancelled by those who do not look at what it has
become, the remote control and a user who answers the message box blindly (`Kept`); no save fails (`Sole`); no file is
saved between its move and the event of it (`Signs`); no write fails (`Hashes`); and no copy does either (`Copies`).
All but `CompletionIsTold`, which needs `Kept` only, rest on `Sole`. Everything else may happen: wrong data, a full
disk, failing reads and moves, the user's operations, message boxes that stay open while a file is completed, late
turns, and a death between any two steps or in the middle of a write, a move or a save. The death in the middle of a
save leaves a part file that is lost from then on.

The inductive invariant `IInv` is `Fit /\ PhaseOK`. At its heart is `AwaitsOne`: for each file at most one thing is
awaited at a time, a task that has not ended or its event, under the file's number and with the status that goes
with it. That is why a file's operations, which only look at the status, never schedule a second hashing or
completion, and why a task never meets a change of its file. On it rest `RecordOK` (a buffer is only filled while
blocks are taken in, and a file that is being completed has no gaps) and `DiskOK`: until it is moved a file owns
its number, what a posted hashing result says of the disk is still so, and a file that goes to be moved without
another hashing (`ToMove`) is right in all its parts. A clone in progress reads a whole source (`CloneOK`).
`PhaseOK` says what is left of a program that died and what the loading of `.met` files starts from. The lemmas
first settle what each function does to one file and its disk (`FlushBuffer`, `CompleteFile`,
`PartFileHashFinished`, ...), then that the other files keep theirs, and then one lemma per action gives the step.
What an action does to the scheduler is cited from `ThreadSchedulerProofs`, whose instance `SP` has the tasks of
part files for its tasks; `Adds` says that what runs in a handler is a step of `S!Spec` or none.

**SamSessionProofs.** `LinkHolds` (`Spec => IsLink`, the refinement of `SamLink`) and `PeerStreamHolds`
(`PeerStreamIsWhole`), for any kinds of sessions, datagrams and sizes of the inbox, whatever else the router and the
network do. Of `Env` only `"eager"` is excluded, which breaks both (section 5). Bytes are
only moved between places, and the invariant puts the places in a row. `UpOK`: the messages asked for and not yet
got are those in the connection, half written, and in the queue. `DownOK`: the messages told and not yet heard are
in the contexts `line` and `payload`, in the hands of the application, put back, and in the connection. That bytes
*carry* messages is said without recursion, by the offset at which each message begins (`Carries`), so that taking
the first message off and adding one at the end are lemmas about a function. `ReadOK` says how the handler that was
left in the middle goes on: at the start of a line it has at most one unit of it, behind it at most the payload of
this message, and it only reads where the next message is one for the session. That is where streams need
`ControlOK`: the answers name what was asked for, in the same order, and what the session expects is what the next
answer says (`Progress`), so that the second answer and nothing else hands over the socket, and a peer, who comes
after it, is not read by the session.

**BlockRequestsProofs.** `BlocksAreHeld` (`RequestedAreHeld`) and `BytesAreAskedOnce` (`AskedOnce`), for any sources,
sizes of file, part and block, any number of mishaps of all kinds and any ranking of the parts. A handler goes
through many states before its step ends, with blocks leaving the list and coming to it on the way. `Good(s, R)` is
what holds of each of them, `R` being the blocks that were requested when the step began: what is requested is
waited for (`Held`), requested blocks do not overlap (`Apart`, without which `AskedOnce` is not inductive), and a
block that is waited for is requested, or was when the step began, or was let go by an earlier step (`Accounted`).
At the end of the step what is in `R`, still waited for and no longer requested is let go, and `Good(Now, {})`, the
invariant `IInv`, holds again. Each function of the code has a lemma that it keeps `Good`. Those that take blocks
off the list need `Early` for it, that nothing was asked for in this step yet: each handler asks last, and a slower
source is dropped only when nothing was found to ask for. The loop of `GetNextRequestedBlock` is a recursive
function; that it exists, and that every turn is good, is shown by taking the smallest number of turns for which it
is not so. The proof found an error of the model: `letGo` was set in the handlers that are meant to let go, and the
end of a block, which can take a larger one of another source off the list, was not among them (section 5).

**RoutingZoneProofs.** `CountsStayTrue` (`CountsAreTrue`), `TreeStaysSound` (`TreeIsSound`) and
`TableIsRoutingTable` (`Spec => Abstract!Spec`, the refinement of `RoutingTable`), for any length of ids, size of
bins, limits of the tree, finite set of nodes, addresses, offers and files, and every `Env`. The inductive invariant
`IInv` says that a stopped Kad has an empty table with no count left over, and that the table of a running one is
`Good`: the leaves divide the distances between them (`Tiled`), a bin holds at most `K` contacts, all of its own
zone (`Placed`), nobody is in two bins (`Once`), the timers are those of the leaves, the set of all contacts is what
the bins hold, and no two contacts share an address, each address being counted once if it is some contact's and
not at all otherwise (`Books`). Neither of the claims is inductive alone. A split or a merge takes contacts out and
adds them again through `AddContact`, which refuses a contact whose address is counted or that finds a full bin: no
contact is lost because the counts are true and addresses apart *at that moment*, and counts stay true because none
is refused. A wrong count would lose contacts at the next split, and a lost contact leaves the set of all contacts
larger than the tree. In the middle of these functions some distances have no leaf and the set has contacts that no
bin has, so that only `Sound` holds there, which is `Good` without the tiling and two of the books; `Fits` says of
the list that is added that everything in it will be taken. `Abstract!Next` of a step then follows from what each
function does to the contacts and addresses in the tree: nothing (splits, merges, turns in a bin, pings), one more,
one address changed to one that nobody had, or some gone.

Two things had to be built for it. A loop of the model is a recursive function in a `LET`, whose defining equation
only is known if some function satisfies it: `LoopRuns` says that one does, and that what each turn keeps holds at
the end, and each loop is a lemma on one turn and a citation of it. And zones are numbers: that the halves of a zone
cover what it covers, and share nothing, is arithmetic of powers of two (`PowersDouble`, `CoversIs`, `HalvesCover`),
about products and quotients of variables, which the provers do not find unless led through it.

**Only model-checked.** Every invariant and action property of the runs, and every refinement, has its theorem; what
is left to TLC is liveness: `FreeSlotsAreFilled`, `DeadSlotsAreFreed`, `QueuedIsRun`, `FollowUpRuns`,
`CompletingEnds`, `ControlGoesOut`, `PassEnds`, `FileCompletes`, `KeptAreHeard` and `SessionSettles`. Liveness under
fairness and `ENABLED` are outside of what the proof system handles. No module uses RECURSIVE operators; folds, and
functions that are defined recursively, are reasoned about as in `GapListProofs`, `BlockRequestsProofs` and
`RoutingZoneProofs`, since the induction theorems of the library take operators as parameters, which the provers
cannot instantiate.

## 7. What is not modelled

The components marked `not_modelled` in `PROJECT.json`, each with the reason; those of the plan's points 9 to 11
are to come. Of the components that are modelled in part, left out are: preallocation and import of part files,
sources and source exchange, the receiving half of a socket, allocation tasks and the loading of the IP filter, and
of the SAM session the closing by its owner, reconnections, `STREAM FORWARD` and the blocking mode. Left out for
good: the cryptography, the user interfaces, the web server, the external connection's protocol, the servers
inherited from aMule, and code that is generated or comes from others (`intl`, `po`, `extern`, wxWidgets, the Java
I2P router).
