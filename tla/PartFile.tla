------------------------------ MODULE PartFile ------------------------------
(***************************************************************************)
(* The life of part files: blocks come in and are buffered, flushed and    *)
(* hashed part by part; a complete file is hashed as a whole and moved to  *)
(* the Incoming directory; files are paused, stopped, resumed, cancelled,  *)
(* and loaded again when the program starts (PartFile.cpp, with the tasks  *)
(* of ThreadTasks.cpp, the events amule.cpp handles for them, and the      *)
(* CThreadScheduler that runs the tasks, which is module ThreadScheduler). *)
(*                                                                         *)
(* A block fills a whole part here, so recovery of partly received parts   *)
(* (ICH, AICH) has no place.  Files are created without preallocation, and *)
(* have their part hashes.                                                 *)
(***************************************************************************)
EXTENDS Integers, Sequences, FiniteSets, Functions

CONSTANTS
    Files,        \* the CPartFile objects, by name
    NoFile,       \* the null pointer
    NoTask,       \* no task
    Parts,        \* the parts of each file
    Numbers,      \* the numbers of part files: 001.part, 002.part, ...
    NoMet,        \* there is no .part.met file
    Env,          \* which of EnvFeatures the environment makes use of
    MaxAge        \* bound: no new work is given once so many tasks were added

EnvFeatures == { "corrupt",  \* peers may send wrong data
                 "space",    \* the disk may be full when a buffer is flushed
                 "write",    \* writing a buffer may fail
                 "met",      \* saving a .part.met may fail
                 "read",     \* hashing may fail to read
                 "move",     \* a rename may fail, and opening files to copy instead
                 "copy",     \* reading or writing may fail while a file is copied
                 "restart",  \* the program may die, and be started again
                 "user",     \* the user pauses, stops and resumes files
                 "cancel",   \* the user cancels files, also by a remote control
                 "blind",    \* ... and confirms it whatever became of them meanwhile
                 "remote",   \* ... or tells the remote control, whatever they are
                 "late" }    \* things may happen between a task's end and its
                             \* event, and before the scheduler's next turn

ASSUME FilesAssumption ==
    /\ NoFile \notin Files
    /\ Numbers \subseteq Nat \ {0} /\ IsFiniteSet(Numbers)
    /\ IsFiniteSet(Parts) /\ Parts # {}
    /\ Env \subseteq EnvFeatures /\ MaxAge \in Nat
    /\ NoTask \notin [type : {"Hashing", "Completing", "AICH Syncronizing"},
                       num : Nat, owner : Files \union {NoFile}]
    /\ NoMet \notin [owner : Files, filled : SUBSET Parts, paused : BOOLEAN]

VARIABLES
    app,          \* files, disk, tasks and events, see AppState
    phase         \* "run", or "load" while part files are loaded at the start

vars == <<app, phase>>

Sync == [type |-> "AICH Syncronizing", num |-> 0, owner |-> NoFile]

PartTasks == [type : {"Hashing", "Completing"}, num : Numbers, owner : Files]

S == INSTANCE ThreadScheduler WITH
        Tasks      <- PartTasks \union {Sync},
        TypeOf     <- [t \in PartTasks \union {Sync} |-> t.type],
        DescOf     <- [t \in PartTasks \union {Sync} |-> t.num],
        PriorityOf <- [t \in PartTasks \union {Sync} |-> IF t = Sync THEN 0 ELSE 2],
        FollowUp   <- [t \in PartTasks \union {Sync} |->
                          IF t.type = "Hashing" THEN Sync ELSE NoTask],
        Ages       <- Nat,             \* the bound is that of MaxAge
        sched      <- app.sched

Statuses == {"EMPTY", "READY", "WAITINGFORHASH", "COMPLETING", "COMPLETE", "ERROR"}

PartFileState ==
    [ life         : { "absent",     \* not created yet
                       "known",      \* in m_filelist
                       "saved",      \* only on disk, the program is starting
                       "completed",  \* in m_completedDownloads
                       "gone" },     \* deleted
      num          : Numbers \union {0},     \* in m_partmetfilename
      status       : Statuses,
      paused       : BOOLEAN,
      stopped      : BOOLEAN,
      insufficient : BOOLEAN,
      filled       : SUBSET Parts,           \* no gap in m_gaplist
      buffer       : SUBSET Parts,           \* m_BufferedData_list ...
      good         : SUBSET Parts ]          \* ... and which of it is right

\* What stands under one number in the Temp directory.
DiskState ==
    [ part    : BOOLEAN,                     \* the .part file exists
      good    : SUBSET Parts,                \* and is right in these parts
      touched : BOOLEAN,                     \* it is newer than the .met says
      met     : [owner : Files, filled : SUBSET Parts, paused : BOOLEAN] \union {NoMet} ]

NoDisk == [part |-> FALSE, good |-> {}, touched |-> FALSE, met |-> NoMet]

\* MULE_EVT_HASHING, with the parts whose hash is right, and MULE_EVT_COMPLETED.
Events ==
    [ type : {"hashed", "completed"}, owner : Files, good : SUBSET Parts, error : BOOLEAN ]

AppState ==
    [ file   : [Files -> PartFileState],
      disk   : [Numbers -> DiskState],
      copy   : [Files -> SUBSET Parts],      \* right in the Incoming directory
      cloning : BOOLEAN,                     \* CloneFile has opened its files ...
      source : SUBSET Parts,                 \* ... and reads one right in these parts
      box    : SUBSET Files,                 \* a message box asks whether to cancel these
      events : Seq(Events),                  \* posted to wxTheApp
      sched  : S!SchedulerState ]

----------------------------------------------------------------------------
(* The files                                                               *)

IsComplete(s, f) == s.file[f].filled = Parts

GetStatus(s, f) ==
    LET r == s.file[f]
    IN  IF r.status \in {"ERROR", "COMPLETING", "COMPLETE"} \/ ~(r.paused \/ r.insufficient)
        THEN r.status
        ELSE IF r.insufficient THEN "INSUFFICIENT" ELSE "PAUSED"

Task(s, type, f) == [type |-> type, num |-> s.file[f].num, owner |-> f]

AddTask(s, t) == [s EXCEPT !.sched = S!AddTask(@, t)]

\* Whether a save would write anything.
IsSaved(s, f) ==
    s.file[f].status \notin {"WAITINGFORHASH", "COMPLETE"} /\ s.disk[s.file[f].num].part

\* The old .part.met is gone, and the new one not there yet.
Removed(s, f) == [s EXCEPT !.disk[s.file[f].num].met = NoMet]

\* Writes the .part.met file: the gaps, blocks that are only buffered included.
\* It may fail before it does anything, or when the new file is to be opened; if
\* it fails later, the .bak that is read for a broken .met is still the old one.
SavePartFile(s, f) ==
    LET r == s.file[f]
    IN  IF ~IsSaved(s, f) THEN {s}
        ELSE {[s EXCEPT !.disk[r.num].touched = FALSE,
                        !.disk[r.num].met = [owner |-> f, filled |-> r.filled,
                                             paused |-> r.paused]]}
             \union (IF "met" \in Env THEN {s, Removed(s, f)} ELSE {})

PauseFile(s, f, insufficient) ==
    IF s.file[f].status \in {"COMPLETE", "COMPLETING"} THEN s
    ELSE [s EXCEPT !.file[f].paused = TRUE, !.file[f].insufficient = insufficient]

\* CompleteFile(false): the whole file is to be hashed.
CompleteFile_Hash(s, f) ==
    AddTask([s EXCEPT !.file[f].status = "COMPLETING"], Task(s, "Hashing", f))

\* The buffered parts W reach the disk.
Written(s, f, W) ==
    LET n == s.file[f].num
    IN  [s EXCEPT !.disk[n].good = (@ \ W) \union (W \intersect s.file[f].good),
                  !.disk[n].touched = TRUE]

\* Writing fails: the buffer is dropped, but its parts are not gaps again.
WriteError(s, f, W) ==
    [Written(s, f, W) EXCEPT !.file[f].status = "ERROR",
                             !.file[f].buffer = {}, !.file[f].good = {}]

\* The parts just written are hashed, but for those that cannot be read; those
\* that are wrong are gaps again.
PartsHashed(s, f, unread) ==
    LET r    == s.file[f]
        lost == (r.buffer \ r.good) \union unread
    IN  [s EXCEPT !.file[f] =
            [r EXCEPT !.filled = @ \ lost, !.buffer = {}, !.good = {},
                      !.status = IF unread # {} THEN "ERROR"
                                 ELSE IF @ = "EMPTY" /\ r.buffer # lost THEN "READY" ELSE @]]

Flushed(s, f, unread) ==
    {IF IsComplete(r, f) THEN CompleteFile_Hash(r, f) ELSE r :
        r \in SavePartFile(PartsHashed(Written(s, f, s.file[f].buffer), f, unread), f)}

FlushBuffer(s, f) ==
    LET b == s.file[f].buffer
    IN  IF b = {} THEN {s}
        ELSE (UNION {Flushed(s, f, E) : E \in IF "read" \in Env THEN SUBSET b ELSE {{}}})
             \union (IF "space" \in Env THEN {PauseFile(s, f, TRUE)} ELSE {})
             \union (IF "write" \in Env
                     THEN {WriteError(s, f, W) : W \in (SUBSET b) \ {b}} ELSE {})

StopFile(s, f) == FlushBuffer(PauseFile([s EXCEPT !.file[f].stopped = TRUE], f, FALSE), f)

\* CompleteFile(true): the file is hashed, and is to be moved.
CompleteFile_Move(s, f) ==
    {AddTask(r, Task(r, "Completing", f)) :
        r \in UNION {FlushBuffer([x EXCEPT !.file[f].status = "COMPLETING"], f) :
                        x \in StopFile(s, f)}}

Resumed(s, f) ==
    [s EXCEPT !.file[f].paused = FALSE, !.file[f].stopped = FALSE, !.file[f].insufficient = FALSE]

\* A file without space may have to wait on; one that failed is moved if it has
\* no gaps.
ResumeFile(s, f) ==
    LET r == Resumed(s, f)
    IN  IF s.file[f].status \in {"COMPLETE", "COMPLETING"} THEN {s}
        ELSE (IF s.file[f].insufficient THEN {s} ELSE {})
             \union (IF IsComplete(r, f) /\ r.file[f].status = "ERROR"
                     THEN CompleteFile_Move(r, f) ELSE {r})

\* The next paused file is resumed, if the preferences say so.
StartNextFile(s) ==
    {s} \union UNION {ResumeFile(s, g) :
                         g \in {h \in Files : s.file[h].life = "known" /\ GetStatus(s, h) = "PAUSED"}}

\* Slip: a file that could not be moved is only paused.
CompleteFileEnded_Paused(s, f, error) ==
    StartNextFile(
        IF error THEN [s EXCEPT !.file[f].paused = TRUE]
        ELSE [s EXCEPT !.file[f].paused = FALSE, !.file[f].status = "COMPLETE",
                       !.file[f].life = "completed"])

CompleteFileEnded(s, f, error) ==
    StartNextFile(
        IF error THEN [s EXCEPT !.file[f].paused = TRUE, !.file[f].status = "ERROR"]
        ELSE [s EXCEPT !.file[f].paused = FALSE, !.file[f].status = "COMPLETE",
                       !.file[f].life = "completed"])

\* Slip: a corrupted part does not keep the file from being moved.
PartFileHashFinished_AnyPart(s, f, good) ==
    LET wrong == s.file[f].filled \ good
        found == IF Cardinality(Parts) > 1 THEN good ELSE {}
        r     == [s EXCEPT !.file[f].filled = (@ \ wrong) \union found]
    IN  IF (wrong = {} \/ found # {}) /\ s.file[f].status = "COMPLETING"
        THEN CompleteFile_Move(r, f)
        ELSE SavePartFile([r EXCEPT !.file[f].status = "READY"], f)

\* The hashes of all parts are there: wrong parts are gaps again, and in a file
\* of several parts those that were gaps but are right are no longer.
PartFileHashFinished(s, f, good) ==
    LET wrong == s.file[f].filled \ good
        found == IF Cardinality(Parts) > 1 THEN good ELSE {}
        r     == [s EXCEPT !.file[f].filled = (@ \ wrong) \union found]
    IN  IF wrong = {} /\ s.file[f].status = "COMPLETING" THEN CompleteFile_Move(r, f)
        ELSE SavePartFile([r EXCEPT !.file[f].status = "READY"], f)

\* A part file that is found on disk: hashed if it is complete, or if it was
\* changed after its .met was saved.
LoadPartFile(s, f) ==
    LET n == s.file[f].num
        m == s.disk[n].met
        r == [s EXCEPT !.file[f] =
                [ life |-> "known", num |-> n,
                  status |-> IF m.filled # {} /\ Cardinality(Parts) > 1 THEN "READY" ELSE "EMPTY",
                  paused |-> m.paused, stopped |-> m.paused, insufficient |-> FALSE,
                  filled |-> m.filled, buffer |-> {}, good |-> {} ]]
    IN  IF IsComplete(r, f) THEN CompleteFile_Hash(r, f)
        ELSE IF s.disk[n].touched
        THEN AddTask([r EXCEPT !.file[f].status = "WAITINGFORHASH"], Task(r, "Hashing", f))
        ELSE r

\* Everything about the files D is deleted from the Temp directory.  Of those
\* that are completed, it is what stands in Incoming, and whatever .part file has
\* their old number.
Delete(s, D) ==
    LET ended      == {f \in D : s.file[f].life = "completed"}
        numbers(F) == {s.file[f].num : f \in F}
    IN  [s EXCEPT
            !.file = [f \in Files |->
                IF f \in D
                THEN [PauseFile(s, f, FALSE).file[f] EXCEPT !.life = "gone", !.stopped = TRUE]
                ELSE s.file[f]],
            !.disk = [n \in Numbers |->
                IF n \in numbers(D \ ended) THEN NoDisk
                ELSE IF n \in numbers(ended) THEN [s.disk[n] EXCEPT !.part = FALSE, !.good = {}]
                ELSE s.disk[n]],
            !.copy = [f \in Files |-> IF f \in ended THEN {} ELSE s.copy[f]]]

----------------------------------------------------------------------------
(* The peers, the core timer and the user                                  *)

Handler(states) == phase = "run" /\ app' \in states /\ UNCHANGED phase

\* The rest of the program may act now, and may give the scheduler work.
Quiet == "late" \in Env \/ (app.events = << >> /\ app.sched.place # "exited")

Busy(f) == Quiet /\ app.sched.age < MaxAge /\ app.file[f].life = "known"

\* Slip: a number whose part file is still empty is taken for a free one.
FreeNumbers_Empty == {n \in Numbers : app.disk[n].good = {}}

FreeNumbers == {n \in Numbers : app.disk[n].met = NoMet}

\* A download is started under the lowest free number, and stopped at once if
\* new files are to be.
CreatePartFile(f) ==
    LET made(n) ==
            [app EXCEPT
                !.file[f] = [ life |-> "known", num |-> n, status |-> "EMPTY",
                              paused |-> FALSE, stopped |-> FALSE, insufficient |-> FALSE,
                              filled |-> {}, buffer |-> {}, good |-> {} ],
                !.disk[n] = [NoDisk EXCEPT !.part = TRUE]]
    IN  /\ app.file[f].life = "absent"
        /\ \E n \in FreeNumbers :
              /\ \A m \in FreeNumbers : n <= m
              /\ Handler(UNION {IF "user" \in Env THEN {r} \union StopFile(r, f) ELSE {r} :
                                   r \in SavePartFile(made(n), f)})

\* A block arrives that was asked for.  It is buffered, and if it is the last,
\* the buffer is flushed.
WriteToBuffer(f, p, right) ==
    LET r == [app EXCEPT !.file[f].filled = @ \union {p}, !.file[f].buffer = @ \union {p},
                         !.file[f].good = IF right THEN @ \union {p} ELSE @]
    IN  /\ Busy(f) /\ (right \/ "corrupt" \in Env)
        /\ GetStatus(app, f) \in {"EMPTY", "READY"} /\ ~app.file[f].stopped
        /\ p \notin app.file[f].filled
        /\ Handler(IF IsComplete(r, f) THEN FlushBuffer(r, f) ELSE {r})

\* The buffer is full, or was not flushed for a minute.
Process(f) ==
    /\ Busy(f) /\ GetStatus(app, f) \in {"EMPTY", "READY"}
    /\ Handler(FlushBuffer(app, f))

Pause(f) == "user" \in Env /\ Busy(f) /\ Handler({PauseFile(app, f, FALSE)})

\* The user stops the file, or StopPausedFile does after an hour.
Stop(f) ==
    /\ Busy(f)
    /\ "user" \in Env \/ GetStatus(app, f) \in {"PAUSED", "INSUFFICIENT", "ERROR"}
    /\ Handler(StopFile(app, f))

\* CheckDiskspace: when the disk is full, every file is paused that is not yet.
NoSpace ==
    LET hit == {f \in Files : /\ app.file[f].life = "known"
                              /\ GetStatus(app, f) \in {"EMPTY", "READY", "WAITINGFORHASH"}}
    IN  /\ "space" \in Env /\ Quiet /\ app.sched.age < MaxAge /\ hit # {}
        /\ Handler({[app EXCEPT !.file = [f \in Files |->
                IF f \in hit THEN PauseFile(app, f, TRUE).file[f] ELSE @[f]]]})

\* When it is not, those are resumed that there is space for.
SpaceAgain ==
    \E D \in SUBSET {f \in Files : app.file[f].life = "known"
                                   /\ GetStatus(app, f) = "INSUFFICIENT"} :
        /\ Quiet /\ app.sched.age < MaxAge /\ D # {}
        /\ Handler({[app EXCEPT !.file = [f \in Files |->
                IF f \in D THEN Resumed(app, f).file[f] ELSE @[f]]]})

\* The user resumes the file, which saves it unless a whole category is resumed.
Resume(f) ==
    /\ "user" \in Env /\ Busy(f)
    /\ Handler(ResumeFile(app, f) \union UNION {SavePartFile(r, f) : r \in ResumeFile(app, f)})

\* The .met file is saved for another reason: a new priority, category or name.
Save(f) == "user" \in Env /\ Busy(f) /\ Handler(SavePartFile(app, f))

\* Slip: only files that are completed cannot be cancelled.
MayBeCancelled_TillEnd(f) == GetStatus(app, f) # "COMPLETE"

\* The download window does not let files be cancelled while they are hashed or
\* completed, ...
MayBeCancelled(f) ==
    GetStatus(app, f) \notin {"WAITINGFORHASH", "COMPLETING", "COMPLETE"}

\* ... when it asks the user, in a message box that lets all else go on.
AskToCancel(D) ==
    /\ "cancel" \in Env /\ Quiet
    /\ app.box = {} /\ D # {}
    /\ \A f \in D : app.file[f].life = "known" /\ MayBeCancelled(f)
    /\ Handler({[app EXCEPT !.box = D]})

\* If the answer is yes the files are deleted, whatever they are by now; a user
\* who is not blind sees it, and says no.  Of a file that was deleted meanwhile
\* freed memory is read, which is undefined and not modelled.
Answer ==
    LET closed == [app EXCEPT !.box = {}]
    IN  /\ app.box # {} /\ Quiet
        /\ \/ Handler({closed})
           \/ /\ \A f \in app.box :
                    \/ app.file[f].life = "known" /\ MayBeCancelled(f)
                    \/ app.file[f].life \in {"known", "completed"} /\ "blind" \in Env
              /\ Handler({Delete(closed, app.box)})

\* The remote control and the menu of a category ask for no status, it is up to
\* the user; the remote control has another file started first.
RemoteCancel(f) ==
    /\ "cancel" \in Env /\ Quiet /\ app.file[f].life = "known"
    /\ MayBeCancelled(f) \/ "remote" \in Env
    /\ Handler({Delete(r, {f}) :
           r \in IF GetStatus(app, f) = "PAUSED" THEN {app} ELSE StartNextFile(app)})

----------------------------------------------------------------------------
(* The tasks, one turn each                                                *)

Current == app.sched.current

Posted(s, e) == [s EXCEPT !.events = Append(@, e)]

Hashed(t)           == [type |-> "hashed", owner |-> t.owner, good |-> app.disk[t.num].good, error |-> FALSE]
Completed(t, error) == [type |-> "completed", owner |-> t.owner, good |-> {}, error |-> error]

\* A turn of the running task: its last, which OnExit follows, or one that
\* returns to be resumed.
TaskTurn(type) == phase = "run" /\ S!Turn("picked") /\ Current.type = type

\* Slip: the scheduler forgets the task before it takes it off its books.
LastTurn_Forgotten(s) ==
    app' = [s EXCEPT !.sched.place = "exited", !.sched.current = NoTask,
                     !.cloning = FALSE, !.source = {}]

LastTurn(s) == app' = [s EXCEPT !.sched.place = "exited", !.cloning = FALSE, !.source = {}]

\* CHashingTask reads the file part by part; if it cannot, it just ends.
HashingTask ==
    /\ TaskTurn("Hashing")
    /\ \/ app.disk[Current.num].part /\ LastTurn(Posted(app, Hashed(Current)))
       \/ (~app.disk[Current.num].part \/ "read" \in Env) /\ LastTurn(app)
    /\ UNCHANGED phase

\* The original and its .met files are removed when the parts C stand in the
\* Incoming directory.
Moved(s, t, C) == [s EXCEPT !.copy[t.owner] = C, !.disk[t.num] = NoDisk]

\* CCompletionTask: the part file is renamed ...
RenameFile ==
    /\ TaskTurn("Completing") /\ ~app.cloning
    /\ app.disk[Current.num].part
    /\ LastTurn(Posted(Moved(app, Current, app.disk[Current.num].good), Completed(Current, FALSE)))
    /\ UNCHANGED phase

\* ... or if that fails, opened to be copied, ...
CloneFile ==
    /\ TaskTurn("Completing") /\ ~app.cloning
    /\ "move" \in Env /\ app.disk[Current.num].part
    /\ app' = [app EXCEPT !.cloning = TRUE, !.source = app.disk[Current.num].good,
                          !.copy[Current.owner] = {}]
    /\ UNCHANGED phase

\* ... which may fail, ...
OpenFails ==
    /\ TaskTurn("Completing") /\ ~app.cloning
    /\ "move" \in Env \/ ~app.disk[Current.num].part
    /\ LastTurn(Posted(app, Completed(Current, TRUE)))
    /\ UNCHANGED phase

\* Slip: the original is removed before all is copied.
CloneEnds_Short(s, t) ==
    {Posted(Moved(s, t, C), Completed(t, FALSE)) : C \in SUBSET s.source}

\* ... and copied; an IO failure on the way does not count as an error.
CloneEnds(s, t) ==
    {Posted(Moved(s, t, C), Completed(t, FALSE)) :
        C \in IF "copy" \in Env THEN SUBSET s.source ELSE {s.source}}

CloneDone ==
    /\ TaskTurn("Completing") /\ app.cloning
    /\ \E s \in CloneEnds(app, Current) : LastTurn(s)
    /\ UNCHANGED phase

\* CAICHSyncTask, which has no business with part files.
SyncTask == TaskTurn("AICH Syncronizing") /\ LastTurn(app) /\ UNCHANGED phase

RunTask == HashingTask \/ RenameFile \/ CloneFile \/ OpenFails \/ CloneDone \/ SyncTask

Scheduled(states) == phase = "run" /\ \E x \in states : app' = [app EXCEPT !.sched = x]

Begin == S!Turn("begin") /\ Scheduled(S!Select(app.sched)) /\ UNCHANGED phase

Proceed == S!Turn("exited") /\ Scheduled(S!Select(S!Retire(app.sched))) /\ UNCHANGED phase

----------------------------------------------------------------------------
(* The events                                                              *)

Popped == [app EXCEPT !.events = Tail(@)]

\* The results for a file that was deleted in the mean time are dropped.
OnFinishedHashing ==
    /\ app.events # << >> /\ Head(app.events).type = "hashed"
    /\ LET e == Head(app.events)
       IN  Handler(IF app.file[e.owner].life = "known"
                   THEN PartFileHashFinished(Popped, e.owner, e.good) ELSE {Popped})

\* That the file still exists is only asserted; what happens to a deleted one
\* is undefined and not modelled.
OnFinishedCompletion ==
    /\ app.events # << >> /\ Head(app.events).type = "completed"
    /\ LET e == Head(app.events)
       IN  Handler(IF app.file[e.owner].life = "known"
                   THEN CompleteFileEnded(Popped, e.owner, e.error) ELSE {Popped})

----------------------------------------------------------------------------
(* The program dies and starts                                             *)

\* What a death leaves of a write: a buffer that is partly written.
TornWrites(s) ==
    UNION {{Written(s, f, W) : W \in SUBSET s.file[f].buffer} :
              f \in {g \in Files : s.file[g].life = "known" /\ s.file[g].buffer # {}}}

\* And of a completion: a file in Incoming whose original is still there, or
\* whose .met is.
TornMoves(s) ==
    IF phase = "run" /\ s.sched.place = "picked" /\ s.sched.current.type = "Completing"
    THEN LET t == s.sched.current
         IN  IF s.cloning THEN {[s EXCEPT !.copy[t.owner] = s.source]}
             ELSE IF s.disk[t.num].part
             THEN {[s EXCEPT !.copy[t.owner] = s.disk[t.num].good,
                             !.disk[t.num].part = FALSE, !.disk[t.num].good = {}]}
             ELSE {}
    ELSE {}

\* And of a save, which goes on at any time, at the latest when the program is
\* ended: a file without a .met.
TornSaves(s) ==
    IF phase = "run"
    THEN {Removed(s, f) : f \in {g \in Files : s.file[g].life = "known" /\ IsSaved(s, g)}}
    ELSE {}

Torn(s) == {s} \union TornWrites(s) \union TornMoves(s) \union TornSaves(s)

Forgotten(r) ==
    IF r.life \in {"known", "saved"}
    THEN [ life |-> "saved", num |-> r.num, status |-> "EMPTY", paused |-> FALSE,
           stopped |-> FALSE, insufficient |-> FALSE, filled |-> {}, buffer |-> {}, good |-> {} ]
    ELSE r

Restart ==
    /\ "restart" \in Env /\ phase # "dead"
    /\ \E s \in Torn(app) :
          app' = [s EXCEPT !.file = [f \in Files |-> Forgotten(@[f])],
                           !.events = << >>, !.cloning = FALSE, !.source = {}, !.box = {},
                           !.sched = S!NoScheduler(FALSE, FALSE, 0)]
    /\ phase' = "dead"

\* OnInit: the scheduler is started, the part files are loaded, and it runs.
Boot ==
    /\ phase = "dead" /\ phase' = "load"
    /\ app' = [app EXCEPT !.sched = S!Started(@)]

LoadMetFile(f) ==
    LET d == app.disk[app.file[f].num]
    IN  /\ phase = "load" /\ app.file[f].life = "saved"
        /\ app' = IF d.part /\ d.met # NoMet /\ d.met.owner = f THEN LoadPartFile(app, f)
                  ELSE [app EXCEPT !.file[f].life = "gone"]
        /\ UNCHANGED phase

Loaded ==
    /\ phase = "load" /\ \A f \in Files : app.file[f].life # "saved"
    /\ phase' = "run" /\ UNCHANGED app

Loading == Loaded \/ \E f \in Files : LoadMetFile(f)

----------------------------------------------------------------------------

Init ==
    /\ app = [ file   |-> [f \in Files |->
                   [ life |-> "absent", num |-> 0, status |-> "EMPTY", paused |-> FALSE,
                     stopped |-> FALSE, insufficient |-> FALSE,
                     filled |-> {}, buffer |-> {}, good |-> {} ]],
               disk   |-> [n \in Numbers |-> NoDisk],
               copy   |-> [f \in Files |-> {}],
               cloning |-> FALSE, source |-> {}, box |-> {}, events |-> << >>,
               sched  |-> S!NoScheduler(FALSE, FALSE, 0) ]
    /\ phase = "dead"

FileNext(f) ==
    \/ CreatePartFile(f) \/ Process(f) \/ Pause(f) \/ Stop(f) \/ Resume(f)
    \/ Save(f) \/ RemoteCancel(f)
    \/ \E p \in Parts, right \in BOOLEAN : WriteToBuffer(f, p, right)

Next ==
    \/ \E f \in Files : FileNext(f)
    \/ NoSpace \/ SpaceAgain
    \/ Answer \/ \E D \in SUBSET Files : AskToCancel(D)
    \/ Begin \/ RunTask \/ Proceed
    \/ OnFinishedHashing \/ OnFinishedCompletion
    \/ Restart \/ Boot \/ Loading

Spec == Init /\ [][Next]_vars

\* Events are handled, idle events keep coming, tasks end, and a start that has
\* begun to load files comes to its end.  Nothing is assumed of peers and users.
Fairness ==
    /\ WF_vars(Begin) /\ WF_vars(RunTask) /\ WF_vars(Proceed)
    /\ WF_vars(OnFinishedHashing) /\ WF_vars(OnFinishedCompletion)
    /\ WF_vars(Loading)

FairSpec == Spec /\ Fairness

----------------------------------------------------------------------------
(* What is claimed                                                         *)

\* The tasks that have not ended, and the events that are not handled.
TasksLeft(type) ==
    {t \in PartTasks : /\ t.type = type
                       /\ \/ S!Queued(t)
                          \/ app.sched.current = t /\ app.sched.place = "picked"}

EventsFor(type, f) ==
    {i \in DOMAIN app.events : app.events[i].type = type /\ app.events[i].owner = f}

\* Only a file that is right in all its parts is moved: whenever a completion
\* waits to be run, the whole file was hashed before, as the comment in
\* ResumeFile has it, and is still the same.
OnlyHashedIsMoved ==
    ~app.cloning => \A t \in TasksLeft("Completing") : app.disk[t.num].good = Parts

\* A download that is listed as completed is there, whole.
CompletedIsWhole ==
    \A f \in Files : app.file[f].life = "completed" => app.copy[f] = Parts

\* A download that was not cancelled stands in the Temp directory until a whole
\* copy is in Incoming, with a .met by which the next start finds it; only a death
\* in the middle of a save may leave a part file without it.
NothingIsLost ==
    \A f \in Files :
        app.file[f].life \in {"known", "saved"} /\ app.copy[f] # Parts =>
            LET d == app.disk[app.file[f].num]
            IN  d.part /\ (app.file[f].life = "known" => d.met # NoMet)

\* The end of whose completion is not known yet, or who is not being completed.
Holders == {f \in Files : app.file[f].life = "known" /\ EventsFor("completed", f) = {}}

\* A part file's number is its own until it is moved: no two files write to the
\* same names, and the .met under a file's number is that file's.
NumbersAreOwn ==
    \A f \in Holders :
        /\ \A g \in Holders \ {f} : app.file[g].num # app.file[f].num
        /\ LET m == app.disk[app.file[f].num].met IN m # NoMet => m.owner = f

\* The end of a completion is told to a file that is still known (as
\* OnFinishedCompletion asserts).
CompletionIsForKnown ==
    app.events # << >> /\ Head(app.events).type = "completed"
        => app.file[Head(app.events).owner].life = "known"

\* A file that is being completed is moved, or found to have gaps, or fails.
CompletingEnds ==
    \A f \in Files :
        (app.file[f].life = "known" /\ app.file[f].status = "COMPLETING")
            ~> ~(app.file[f].life = "known" /\ app.file[f].status = "COMPLETING")

\* The part files use the scheduler as its module describes it.
Scheduler == S!Spec
=============================================================================
