--------------------------- MODULE PartFileProofs ---------------------------
(***************************************************************************)
(* Proofs about part files, for any number of them, any parts and whatever *)
(* the environment does: they use the scheduler as its module describes    *)
(* it, and no file's data are lost.                                        *)
(***************************************************************************)
EXTENDS PartFile, SequenceTheorems, TLAPS

\* What is proved of the scheduler, of the one that runs the tasks of part files.
SP == INSTANCE ThreadSchedulerProofs WITH
        Tasks      <- PartTasks \union {Sync},
        TypeOf     <- [t \in PartTasks \union {Sync} |-> t.type],
        DescOf     <- [t \in PartTasks \union {Sync} |-> t.num],
        PriorityOf <- [t \in PartTasks \union {Sync} |-> IF t = Sync THEN 0 ELSE 2],
        FollowUp   <- [t \in PartTasks \union {Sync} |->
                          IF t.type = "Hashing" THEN Sync ELSE NoTask],
        Ages       <- Nat,
        sched      <- app.sched

\* The tasks of part files are as the scheduler assumes.
LEMMA TasksAreFit == SP!TasksAssumption
<1>1. ASSUME NEW t \in PartTasks \union {Sync}
      PROVE  t \in [type : {"Hashing", "Completing", "AICH Syncronizing"},
                    num : Nat, owner : Files \union {NoFile}]
  <2>1. CASE t = Sync
    BY <2>1 DEF Sync
  <2>2. CASE t \in PartTasks
    BY <2>2, FilesAssumption DEF FilesAssumption, PartTasks
  <2> QED
    BY <2>1, <2>2
<1>2. NoTask \notin PartTasks \union {Sync}
  BY <1>1, FilesAssumption DEF FilesAssumption
<1> QED
  BY <1>2 DEF SP!TasksAssumption

\* The two instances of the scheduler's module are the same.
LEMMA SameScheduler ==
    /\ S!SchedulerState = SP!SchedulerState
    /\ \A s, t : S!AddTask(s, t) = SP!AddTask(s, t)
    /\ \A s : S!Select(s) = SP!Select(s) /\ S!Retire(s) = SP!Retire(s) /\ S!Started(s) = SP!Started(s)
    /\ \A r, t, a : S!NoScheduler(r, t, a) = SP!NoScheduler(r, t, a)
<1>1. S!SchedulerState = SP!SchedulerState
  BY DEF S!SchedulerState, SP!SchedulerState, S!Entries, SP!Entries, S!Keys, SP!Keys, S!Key, SP!Key, S!Places, SP!Places
<1>2. \A s, t : S!AddTask(s, t) = SP!AddTask(s, t)
  BY Zenon DEF S!AddTask, SP!AddTask, S!DoAddTask, SP!DoAddTask, S!CreateSchedulerThread, SP!CreateSchedulerThread,
     S!IsAlive, SP!IsAlive, S!Key, SP!Key
<1>3. \A s : S!Select(s) = SP!Select(s)
  BY Zenon DEF S!Select, SP!Select, S!Sorted, SP!Sorted, S!Before, SP!Before, S!Pick, SP!Pick, S!Leave, SP!Leave,
     S!IsInjective, SP!IsInjective
<1>4. \A s : S!Retire(s) = SP!Retire(s)
  <2>1. \A s : S!Unregister(s) = SP!Unregister(s)
    BY DEF S!Unregister, SP!Unregister, S!Key, SP!Key
  <2>2. \A s : S!IsLastTask(s) <=> SP!IsLastTask(s)
    BY Zenon DEF S!IsLastTask, SP!IsLastTask, S!Key, SP!Key
  <2> QED
    BY <1>2, <2>1, <2>2 DEF S!Retire, SP!Retire
<1>5. \A s : S!Started(s) = SP!Started(s)
  BY DEF S!Started, SP!Started, S!CreateSchedulerThread, SP!CreateSchedulerThread, S!IsAlive, SP!IsAlive
<1>6. \A r, t, a : S!NoScheduler(r, t, a) = SP!NoScheduler(r, t, a)
  BY DEF S!NoScheduler, SP!NoScheduler
<1> QED
  BY <1>1, <1>2, <1>3, <1>4, <1>5, <1>6

----------------------------------------------------------------------------
(* The inductive invariant, of a state s of the program                    *)

Known(s, f) == s.file[f].life = "known"

Waiting(s) == SP!Waiting(s.sched)

\* What is awaited for a file: tasks that have not ended, and their events.
TasksOf(s, f) == {t \in Waiting(s) : t.owner = f}

EventsOf(s, f) == {i \in DOMAIN s.events : s.events[i].owner = f}

Free(s, f) == TasksOf(s, f) = {} /\ EventsOf(s, f) = {}

\* At any time at most one thing is awaited, under the file's number, and the
\* file has the status that goes with it.
AwaitsOne(s, f) ==
    /\ \A t, u \in TasksOf(s, f) : t = u
    /\ \A i, j \in EventsOf(s, f) : i = j
    /\ TasksOf(s, f) = {} \/ EventsOf(s, f) = {}
    /\ \A t \in TasksOf(s, f) :
          /\ t.num = s.file[f].num
          /\ \/ s.file[f].status = "COMPLETING"
             \/ s.file[f].status = "WAITINGFORHASH" /\ t.type = "Hashing"
    /\ \A i \in EventsOf(s, f) :
          \/ s.file[f].status = "COMPLETING"
          \/ s.file[f].status = "WAITINGFORHASH" /\ s.events[i].type = "hashed"

\* A file that takes no data has none in its buffer, and one that is being
\* completed has no gaps.
RecordOK(r) ==
    /\ r.num \in Numbers /\ r.status # "COMPLETE"
    /\ r.buffer # {} => r.status \in {"EMPTY", "READY"}
    /\ r.status = "COMPLETING" => r.filled = Parts

\* The file was moved, and is still to be told.
HasMoved(s, f) ==
    \E i \in EventsOf(s, f) : s.events[i].type = "completed" /\ s.events[i].error = FALSE

\* No other file uses its number, but for those that were moved.
Own(s, f) ==
    LET d == s.disk[s.file[f].num]
    IN  /\ d.part = TRUE /\ d.met # NoMet
        /\ \A g \in Files \ {f} :
              Known(s, g) /\ s.file[g].num = s.file[f].num => HasMoved(s, g)

\* The file is going to be moved without being hashed again.
ToMove(s, f) ==
    \/ \E t \in TasksOf(s, f) : t.type = "Completing"
    \/ \E i \in EventsOf(s, f) : s.events[i].type = "completed"
    \/ s.file[f].status = "ERROR" /\ s.file[f].filled = Parts

\* What the environment must not do for the claims to hold: no file is cancelled
\* that is being completed, by a remote control or by a user who had been asked
\* before; ...
Kept == "remote" \notin Env /\ "blind" \notin Env

\* ... no save of a .met file fails; ...
Sole == Kept /\ "met" \notin Env

\* ... no file is saved between its move and the event of it; ...
Signs == Sole /\ ("user" \notin Env \/ "late" \notin Env)

\* ... no write fails; ...
Hashes == Sole /\ "write" \notin Env

\* ... and no copy does.
Copies == Hashes /\ "copy" \notin Env

\* What is on disk is the file's, and what its hashing said of it is still true.
DiskOK(s, f) ==
    LET d == s.disk[s.file[f].num]
    IN  /\ Own(s, f)
        /\ Signs => d.met.owner = f
        /\ \A i \in EventsOf(s, f) : s.events[i].type = "hashed" => s.events[i].good = d.good
        /\ Hashes /\ ToMove(s, f) => d.good = Parts

KnownOK(s, f) ==
    /\ RecordOK(s.file[f])
    /\ AwaitsOne(s, f)
    /\ Sole /\ ~HasMoved(s, f) => DiskOK(s, f)
    /\ Copies /\ HasMoved(s, f) => s.copy[f] = Parts

FileOK(s, f) ==
    /\ Known(s, f) => KnownOK(s, f)
    /\ s.file[f].life \in {"absent", "saved"} => Free(s, f)
    /\ s.file[f].life = "saved" =>
          /\ s.file[f].num \in Numbers
          /\ Copies => s.disk[s.file[f].num].part = TRUE \/ s.copy[f] = Parts
    /\ s.file[f].life = "completed" => (Copies => s.copy[f] = Parts)

\* What is being completed is known.
CompletingIsKnown(s) ==
    Kept => /\ \A t \in Waiting(s) : t.type = "Completing" => Known(s, t.owner)
            /\ \A i \in DOMAIN s.events : s.events[i].type = "completed" => Known(s, s.events[i].owner)

CloneOK(s) ==
    s.cloning = TRUE =>
        /\ s.sched.place = "picked" /\ s.sched.current.type = "Completing"
        /\ Hashes => s.source = Parts

Fit(s) ==
    /\ s \in AppState
    /\ SP!Sound(s.sched) /\ SP!Placed(s.sched)
    /\ \A f \in Files : FileOK(s, f)
    /\ CompletingIsKnown(s)
    /\ CloneOK(s)

\* Nothing runs while part files are loaded, from the numbers that bear their
\* names.
PhaseOK(s) ==
    /\ phase \in {"dead", "load", "run"}
    /\ phase # "run" => s.sched.place = "begin" /\ s.events = << >>
    /\ phase = "dead" =>
          s.sched = SP!NoScheduler(FALSE, FALSE, 0) /\ \A f \in Files : ~Known(s, f)
    /\ phase = "load" => \A f \in Files : Known(s, f) => s.disk[s.file[f].num].met.owner = f
    /\ phase = "run" => \A f \in Files : s.file[f].life # "saved"

IInv == Fit(app) /\ PhaseOK(app)

----------------------------------------------------------------------------
(* States and their parts                                                  *)

\* The parts of a state.
LEMMA Parts1 ==
    ASSUME NEW s \in AppState
    PROVE  /\ \A f \in Files : s.file[f] \in PartFileState /\ s.copy[f] \in SUBSET Parts
           /\ \A n \in Numbers : s.disk[n] \in DiskState
           /\ s.events \in Seq(Events) /\ s.sched \in S!SchedulerState
           /\ s.file \in [Files -> PartFileState] /\ s.disk \in [Numbers -> DiskState]
           /\ s.copy \in [Files -> SUBSET Parts]
  BY DEF AppState

\* A state in which one file's record, or what is under one number, is another.
SetFile(s, f, k) == [s EXCEPT !.file[f] = k]

SetDisk(s, n, d) == [s EXCEPT !.disk[n] = d]

LEMMA FileSet ==
    ASSUME NEW s \in AppState, NEW f \in Files, NEW k \in PartFileState,
           NEW r, r = SetFile(s, f, k)
    PROVE  /\ r \in AppState
           /\ r.file[f] = k /\ \A g \in Files \ {f} : r.file[g] = s.file[g]
           /\ r.disk = s.disk /\ r.copy = s.copy /\ r.cloning = s.cloning
           /\ r.source = s.source /\ r.events = s.events /\ r.sched = s.sched
<1>1. [s.file EXCEPT ![f] = k] \in [Files -> PartFileState]
  BY DEF AppState, SetFile
<1>2. r \in AppState
  BY <1>1 DEF AppState, SetFile
<1>3. r.file[f] = k /\ \A g \in Files \ {f} : r.file[g] = s.file[g]
  BY DEF AppState, SetFile
<1>4. /\ r.disk = s.disk /\ r.copy = s.copy /\ r.cloning = s.cloning
      /\ r.source = s.source /\ r.events = s.events /\ r.sched = s.sched
  BY DEF AppState, SetFile
<1> QED
  BY <1>2, <1>3, <1>4

LEMMA DiskSet ==
    ASSUME NEW s \in AppState, NEW n \in Numbers, NEW d \in DiskState,
           NEW r, r = SetDisk(s, n, d)
    PROVE  /\ r \in AppState
           /\ r.disk[n] = d /\ \A m \in Numbers \ {n} : r.disk[m] = s.disk[m]
           /\ r.file = s.file /\ r.copy = s.copy /\ r.cloning = s.cloning
           /\ r.source = s.source /\ r.events = s.events /\ r.sched = s.sched
<1>1. [s.disk EXCEPT ![n] = d] \in [Numbers -> DiskState]
  BY DEF AppState, SetDisk
<1>2. r \in AppState
  BY <1>1 DEF AppState, SetDisk
<1>3. r.disk[n] = d /\ \A m \in Numbers \ {n} : r.disk[m] = s.disk[m]
  BY DEF AppState, SetDisk
<1>4. /\ r.file = s.file /\ r.copy = s.copy /\ r.cloning = s.cloning
      /\ r.source = s.source /\ r.events = s.events /\ r.sched = s.sched
  BY DEF AppState, SetDisk
<1> QED
  BY <1>2, <1>3, <1>4

\* A state with another scheduler.
LEMMA SchedSet ==
    ASSUME NEW s \in AppState, NEW x, SP!Sound(x), NEW r, r = [s EXCEPT !.sched = x]
    PROVE  /\ r \in AppState
           /\ r.file = s.file /\ r.disk = s.disk /\ r.copy = s.copy /\ r.cloning = s.cloning
           /\ r.source = s.source /\ r.events = s.events /\ r.sched = x
<1>1. x \in S!SchedulerState
  BY SameScheduler DEF SP!Sound
<1>2. r \in AppState
  BY <1>1 DEF AppState
<1> QED
  BY <1>2 DEF AppState

----------------------------------------------------------------------------
(* A change of one file                                                    *)

\* Of two files, only one that was moved can have the number of the other.
LEMMA OwnersDiffer ==
    ASSUME NEW s, Fit(s), Sole, NEW f \in Files, Known(s, f), ~HasMoved(s, f),
           NEW g \in Files \ {f}, Known(s, g), ~HasMoved(s, g)
    PROVE  s.file[f].num # s.file[g].num
<1>1. Own(s, f)
  BY DEF Fit, FileOK, KnownOK, DiskOK
<1> QED
  BY <1>1 DEF Own

\* A file that was moved awaits nothing but to be told so.
LEMMA MovedAwaitsNothing ==
    ASSUME NEW s, NEW f \in Files, AwaitsOne(s, f), HasMoved(s, f)
    PROVE  /\ TasksOf(s, f) = {}
           /\ \A i \in EventsOf(s, f) : s.events[i].type = "completed" /\ s.events[i].error = FALSE
           /\ s.file[f].status = "COMPLETING"
<1>1. PICK i \in EventsOf(s, f) : s.events[i].type = "completed" /\ s.events[i].error = FALSE
  BY DEF HasMoved
<1> QED
  BY <1>1 DEF AwaitsOne

\* The tasks that wait, and the events, are of part files.
LEMMA WaitingTasks ==
    ASSUME NEW s, s \in AppState, SP!Sound(s.sched), SP!Placed(s.sched)
    PROVE  /\ Waiting(s) \subseteq PartTasks \union {Sync}
           /\ \A t \in Waiting(s) : t.type # "AICH Syncronizing" => t \in PartTasks /\ t.owner \in Files
           /\ \A f \in Files : TasksOf(s, f) \subseteq PartTasks
           /\ \A i \in DOMAIN s.events : s.events[i] \in Events /\ s.events[i].owner \in Files
<1>1. Waiting(s) \subseteq PartTasks \union {Sync}
  <2>1. SP!Waiting(s.sched) \subseteq PartTasks \union {Sync}
    BY TasksAreFit, SP!WaitingOnce DEF SP!TasksAssumption
  <2> QED
    BY <2>1 DEF Waiting
<1>2. Sync.type = "AICH Syncronizing" /\ Sync.owner \notin Files
  BY FilesAssumption DEF Sync, FilesAssumption
<1>3. \A t \in PartTasks : t.owner \in Files
  BY DEF PartTasks
<1>4. ASSUME NEW i \in DOMAIN s.events PROVE s.events[i] \in Events /\ s.events[i].owner \in Files
  <2>1. s.events \in Seq(Events)
    BY Parts1
  <2>2. s.events[i] \in Events
    BY <2>1
  <2> QED
    BY <2>2 DEF Events
<1>5. \A f \in Files : TasksOf(s, f) \subseteq PartTasks
  BY <1>1, <1>2 DEF TasksOf
<1> QED
  BY <1>1, <1>2, <1>3, <1>4, <1>5

\* The events that wait for g in r did so in s.
SameEvents(s, r, g) ==
    \E h \in [EventsOf(r, g) -> EventsOf(s, g)] :
        /\ \A i \in EventsOf(r, g) : r.events[i] = s.events[h[i]]
        /\ \A i, j \in EventsOf(r, g) : h[i] = h[j] => i = j

\* What happens on the way from s to r has nothing to do with g.
Spares(s, r, g) ==
    /\ SameEvents(s, r, g)
    /\ HasMoved(s, g) => HasMoved(r, g)
    /\ TasksOf(r, g) \subseteq TasksOf(s, g)
    /\ r.file[g] = s.file[g] /\ r.copy[g] = s.copy[g]
    /\ Sole /\ Known(s, g) /\ ~HasMoved(s, g) =>
          /\ Own(r, g)
          /\ r.disk[s.file[g].num].good = s.disk[s.file[g].num].good
          /\ Signs => r.disk[s.file[g].num].met = s.disk[s.file[g].num].met
    /\ s.file[g].life = "saved" /\ s.disk[s.file[g].num].part = TRUE =>
          r.disk[s.file[g].num].part = TRUE

LEMMA EqualEvents ==
    ASSUME NEW s, NEW r, r.events = s.events, NEW g
    PROVE  /\ SameEvents(s, r, g) /\ EventsOf(r, g) = EventsOf(s, g)
           /\ HasMoved(s, g) <=> HasMoved(r, g)
<1> DEFINE h == [i \in EventsOf(r, g) |-> i]
<1>1. EventsOf(r, g) = EventsOf(s, g) /\ (HasMoved(s, g) <=> HasMoved(r, g))
  BY DEF EventsOf, HasMoved
<1>2. /\ h \in [EventsOf(r, g) -> EventsOf(s, g)]
      /\ \A i \in EventsOf(r, g) : r.events[i] = s.events[h[i]]
      /\ \A i, j \in EventsOf(r, g) : h[i] = h[j] => i = j
  BY <1>1
<1> HIDE DEF h
<1> QED
  BY <1>1, <1>2 DEF SameEvents

\* Such a file stays as it has to be.
LEMMA SparedKeeps ==
    ASSUME NEW s, NEW r, NEW g \in Files, FileOK(s, g), Spares(s, r, g)
    PROVE  FileOK(r, g)
<1> PICK h \in [EventsOf(r, g) -> EventsOf(s, g)] :
        /\ \A i \in EventsOf(r, g) : r.events[i] = s.events[h[i]]
        /\ \A i, j \in EventsOf(r, g) : h[i] = h[j] => i = j
  BY DEF Spares, SameEvents
<1>0. \A i \in EventsOf(r, g) : h[i] \in EventsOf(s, g)
  OBVIOUS
<1>1. /\ HasMoved(r, g) => HasMoved(s, g)
      /\ TasksOf(r, g) \subseteq TasksOf(s, g)
      /\ r.file[g] = s.file[g] /\ r.copy[g] = s.copy[g]
  BY <1>0 DEF HasMoved, Spares
<1>2. Free(s, g) => Free(r, g)
  BY <1>0, <1>1 DEF Free
<1>3. ASSUME Known(s, g) PROVE KnownOK(r, g)
  <2>1. KnownOK(s, g)
    BY <1>3 DEF FileOK
  <2>2. RecordOK(r.file[g])
    BY <1>1, <2>1 DEF KnownOK
  <2>3. AwaitsOne(r, g)
    <3>1. AwaitsOne(s, g)
      BY <2>1 DEF KnownOK
    <3>2. \A t, u \in TasksOf(r, g) : t = u
      BY <1>1, <3>1 DEF AwaitsOne
    <3>3. \A i, j \in EventsOf(r, g) : i = j
      BY <1>0, <1>1, <3>1 DEF AwaitsOne
    <3>4. TasksOf(r, g) = {} \/ EventsOf(r, g) = {}
      BY <1>0, <1>1, <3>1 DEF AwaitsOne
    <3>5. \A t \in TasksOf(r, g) :
              /\ t.num = r.file[g].num
              /\ \/ r.file[g].status = "COMPLETING"
                 \/ r.file[g].status = "WAITINGFORHASH" /\ t.type = "Hashing"
      BY <1>1, <3>1 DEF AwaitsOne
    <3>6. \A i \in EventsOf(r, g) :
              \/ r.file[g].status = "COMPLETING"
              \/ r.file[g].status = "WAITINGFORHASH" /\ r.events[i].type = "hashed"
      BY <1>0, <1>1, <3>1 DEF AwaitsOne
    <3> QED
      BY <3>2, <3>3, <3>4, <3>5, <3>6 DEF AwaitsOne
  <2>4. ASSUME Sole, ~HasMoved(r, g) PROVE DiskOK(r, g)
    <3>1. DiskOK(s, g) /\ Own(r, g) /\ ~HasMoved(s, g)
      BY <1>3, <2>1, <2>4 DEF KnownOK, Spares
    <3>2. /\ r.disk[r.file[g].num].good = s.disk[s.file[g].num].good
          /\ Signs => r.disk[r.file[g].num].met = s.disk[s.file[g].num].met
      BY <1>1, <1>3, <2>4, <3>1 DEF Spares
    <3>3. ToMove(r, g) => ToMove(s, g)
      BY <1>0, <1>1 DEF ToMove
    <3>4. \A i \in EventsOf(r, g) :
              r.events[i].type = "hashed" => r.events[i].good = r.disk[r.file[g].num].good
      BY <1>0, <3>1, <3>2 DEF DiskOK
    <3>5. Signs => r.disk[r.file[g].num].met.owner = g
      BY <3>1, <3>2 DEF DiskOK
    <3>6. Hashes /\ ToMove(r, g) => r.disk[r.file[g].num].good = Parts
      BY <3>1, <3>2, <3>3 DEF DiskOK
    <3> QED
      BY <3>1, <3>4, <3>5, <3>6 DEF DiskOK
  <2>5. Copies /\ HasMoved(r, g) => r.copy[g] = Parts
    BY <1>1, <2>1 DEF KnownOK
  <2> QED
    BY <2>2, <2>3, <2>4, <2>5 DEF KnownOK
<1>4. Known(r, g) => Known(s, g)
  BY <1>1 DEF Known
<1> QED
  BY <1>1, <1>2, <1>3, <1>4 DEF FileOK, Spares

----------------------------------------------------------------------------
(* A change of one file                                                    *)

\* Only f's record, and what is on disk under its number, may differ, and what
\* waits; its .part file stays.
Within(s, r, f) ==
    LET n == s.file[f].num
    IN  /\ r \in AppState
        /\ r.events = s.events /\ r.copy = s.copy /\ r.cloning = s.cloning /\ r.source = s.source
        /\ r.sched.place = s.sched.place /\ r.sched.current = s.sched.current
        /\ \A g \in Files \ {f} : r.file[g] = s.file[g]
        /\ Known(r, f) /\ r.file[f].num = n
        /\ \A m \in Numbers \ {n} : r.disk[m] = s.disk[m]
        /\ r.disk[n].part = s.disk[n].part
        /\ Sole /\ s.disk[n].met # NoMet => r.disk[n].met # NoMet

\* ... and what waits does not differ.
Calm(s, r, f) == Within(s, r, f) /\ r.sched = s.sched

\* The state stays as it has to be if f is.
LEMMA OneFileChanges ==
    ASSUME NEW s, Fit(s), NEW f \in Files, Known(s, f), NEW r, Within(s, r, f),
           SP!Sound(r.sched), SP!Placed(r.sched),
           \A t \in Waiting(r) : t \in Waiting(s) \/ t.owner = f,
           Sole /\ HasMoved(s, f) =>
              /\ r.disk[s.file[f].num].good = s.disk[s.file[f].num].good
              /\ Signs => r.disk[s.file[f].num].met = s.disk[s.file[f].num].met,
           RecordOK(r.file[f]), AwaitsOne(r, f),
           Sole /\ ~HasMoved(s, f) =>
              LET d == r.disk[r.file[f].num]
              IN  /\ Signs => d.met.owner = f
                  /\ \A i \in EventsOf(r, f) : r.events[i].type = "hashed" => r.events[i].good = d.good
                  /\ Hashes /\ ToMove(r, f) => d.good = Parts
    PROVE  Fit(r)
<1> DEFINE n == s.file[f].num
           d == r.disk[n]
<1>1. /\ s \in AppState /\ \A g \in Files : FileOK(s, g)
      /\ KnownOK(s, f) /\ n \in Numbers
  BY DEF Fit, FileOK, KnownOK, RecordOK
<1>2. \A g \in Files : EventsOf(r, g) = EventsOf(s, g) /\ (HasMoved(r, g) <=> HasMoved(s, g))
  BY DEF EventsOf, HasMoved, Within
<1>3. /\ \A g \in Files : (Known(r, g) <=> Known(s, g)) /\ r.file[g].num = s.file[g].num
      /\ \A g \in Files \ {f} : r.file[g] = s.file[g]
      /\ r \in AppState /\ r.copy = s.copy /\ r.events = s.events
  BY DEF Known, Within
<1>4. \A g \in Files \ {f} : TasksOf(r, g) \subseteq TasksOf(s, g)
  BY DEF TasksOf
<1>5. ASSUME Sole, NEW g \in Files, Known(s, g), ~HasMoved(s, g)
      PROVE  Own(r, g) /\ s.file[g].num \in Numbers
  <2>1. s.file[g].num \in Numbers /\ Own(s, g)
    BY <1>1, <1>5 DEF FileOK, KnownOK, RecordOK, DiskOK
  <2>2. /\ r.disk[s.file[g].num].part = s.disk[s.file[g].num].part
        /\ s.disk[s.file[g].num].met # NoMet => r.disk[s.file[g].num].met # NoMet
    BY <1>5, <2>1 DEF Within
  <2> QED
    BY <1>2, <1>3, <1>5, <2>1, <2>2 DEF Own
<1>6. FileOK(r, f)
  <2>1. Sole /\ ~HasMoved(r, f) => DiskOK(r, f)
    BY <1>2, <1>3, <1>5 DEF DiskOK
  <2>2. Copies /\ HasMoved(r, f) => r.copy[f] = Parts
    BY <1>1, <1>2, <1>3 DEF KnownOK
  <2>3. r.file[f].life = "known"
    BY DEF Within, Known
  <2> QED
    BY <2>1, <2>2, <2>3 DEF FileOK, KnownOK
<1>7. ASSUME NEW g \in Files \ {f} PROVE FileOK(r, g)
  <2>2. ASSUME Sole, Known(s, g), ~HasMoved(s, g)
        PROVE  /\ r.disk[s.file[g].num].good = s.disk[s.file[g].num].good
               /\ Signs => r.disk[s.file[g].num].met = s.disk[s.file[g].num].met
    <3>1. s.file[g].num \in Numbers
      BY <1>5, <2>2
    <3>2. CASE s.file[g].num # n
      BY <3>1, <3>2 DEF Within
    <3>3. CASE s.file[g].num = n
      <4>1. HasMoved(s, f)
        BY <2>2, <3>3, OwnersDiffer
      <4> QED
        BY <2>2, <3>3, <4>1
    <3> QED
      BY <3>2, <3>3
  <2>3. s.file[g].life = "saved" => r.disk[s.file[g].num].part = s.disk[s.file[g].num].part
    <3>1. s.file[g].life = "saved" => s.file[g].num \in Numbers
      BY <1>1 DEF FileOK
    <3> QED
      BY <3>1 DEF Within
  <2>4. Spares(s, r, g)
    BY <1>2, <1>3, <1>4, <1>5, <2>2, <2>3, EqualEvents DEF Spares
  <2> QED
    BY <1>1, <2>4, SparedKeeps
<1>8. CompletingIsKnown(r)
  <2>1. ASSUME Kept, NEW t \in Waiting(r), t.type = "Completing" PROVE Known(r, t.owner)
    <3>1. t \in Waiting(s) => Known(s, t.owner)
      BY <2>1 DEF Fit, CompletingIsKnown
    <3>2. t.owner \in Files
      BY <1>3, <2>1, WaitingTasks
    <3> QED
      BY <1>3, <3>1, <3>2
  <2>2. ASSUME Kept, NEW i \in DOMAIN r.events, r.events[i].type = "completed"
        PROVE  Known(r, r.events[i].owner)
    <3>1. r.events[i].owner \in Files
      BY <1>3, WaitingTasks
    <3> QED
      BY <1>3, <2>2, <3>1 DEF Fit, CompletingIsKnown
  <2> QED
    BY <2>1, <2>2 DEF CompletingIsKnown
<1>9. CloneOK(r)
  BY DEF Fit, CloneOK, Within
<1> QED
  BY <1>3, <1>6, <1>7, <1>8, <1>9 DEF Fit

\* What is awaited is not changed by a calm change.
LEMMA CalmAwaits ==
    ASSUME NEW s, NEW f \in Files, NEW r, Calm(s, r, f)
    PROVE  /\ r.events = s.events /\ TasksOf(r, f) = TasksOf(s, f) /\ EventsOf(r, f) = EventsOf(s, f)
           /\ HasMoved(r, f) <=> HasMoved(s, f)
           /\ Free(s, f) <=> Free(r, f)
  BY DEF Calm, Within, TasksOf, EventsOf, HasMoved, Waiting, Free

\* A file that only changes flags, and may be saved, unless it was moved.
LEMMA FlagsKeepFit ==
    ASSUME NEW s, Fit(s), NEW f \in Files, Known(s, f), NEW r, Calm(s, r, f),
           r.file[f].status = s.file[f].status, r.file[f].filled = s.file[f].filled,
           r.file[f].buffer = s.file[f].buffer,
           r.disk[s.file[f].num].good = s.disk[s.file[f].num].good,
           \/ r.disk[s.file[f].num].met = s.disk[s.file[f].num].met
           \/ r.disk[s.file[f].num].met.owner = f /\ ~(Signs /\ HasMoved(s, f))
           \/ "met" \in Env
    PROVE  Fit(r)
<1>1. /\ TasksOf(r, f) = TasksOf(s, f) /\ EventsOf(r, f) = EventsOf(s, f)
      /\ r.events = s.events /\ r.sched = s.sched /\ Waiting(r) = Waiting(s)
  BY CalmAwaits DEF Calm, Waiting
<1>2. Within(s, r, f) /\ r.file[f].num = s.file[f].num
  BY DEF Calm, Within
<1>3. KnownOK(s, f) /\ SP!Sound(r.sched) /\ SP!Placed(r.sched)
  BY <1>1 DEF Fit, FileOK
<1>4. RecordOK(r.file[f])
  BY <1>2, <1>3 DEF KnownOK, RecordOK
<1>5. AwaitsOne(r, f)
  BY <1>1, <1>2, <1>3 DEF KnownOK, AwaitsOne
<1>6. ToMove(r, f) => ToMove(s, f)
  BY <1>1 DEF ToMove
<1>7. Sole /\ ~HasMoved(s, f) =>
          /\ Signs => r.disk[r.file[f].num].met.owner = f
          /\ \A i \in EventsOf(r, f) :
                r.events[i].type = "hashed" => r.events[i].good = r.disk[r.file[f].num].good
          /\ Hashes /\ ToMove(r, f) => r.disk[r.file[f].num].good = Parts
  BY <1>1, <1>2, <1>3, <1>6 DEF KnownOK, DiskOK, Sole
<1>8. Sole /\ HasMoved(s, f) =>
          /\ r.disk[s.file[f].num].good = s.disk[s.file[f].num].good
          /\ Signs => r.disk[s.file[f].num].met = s.disk[s.file[f].num].met
  BY DEF Sole
<1> QED
  BY <1>1, <1>2, <1>3, <1>4, <1>5, <1>7, <1>8, OneFileChanges

\* A file of which nothing is awaited may change as it likes.
LEMMA FreeKeepsFit ==
    ASSUME NEW s, Fit(s), NEW f \in Files, Known(s, f), Free(s, f), NEW r, Calm(s, r, f),
           RecordOK(r.file[f]),
           \/ r.disk[s.file[f].num].met = s.disk[s.file[f].num].met
           \/ r.disk[s.file[f].num].met.owner = f
           \/ "met" \in Env,
           Hashes /\ r.file[f].status = "ERROR" /\ r.file[f].filled = Parts
              => r.disk[s.file[f].num].good = Parts
    PROVE  Fit(r) /\ Free(r, f)
<1>1. /\ TasksOf(r, f) = {} /\ EventsOf(r, f) = {} /\ EventsOf(s, f) = {} /\ Free(r, f)
      /\ r.sched = s.sched /\ Waiting(r) = Waiting(s)
  BY CalmAwaits DEF Calm, Waiting, Free
<1>2. Within(s, r, f) /\ r.file[f].num = s.file[f].num
  BY DEF Calm, Within
<1>3. KnownOK(s, f) /\ SP!Sound(r.sched) /\ SP!Placed(r.sched)
  BY <1>1 DEF Fit, FileOK
<1>4. AwaitsOne(r, f) /\ ~HasMoved(s, f)
  BY <1>1 DEF AwaitsOne, HasMoved
<1>5. Sole /\ ~HasMoved(s, f) =>
          /\ Signs => r.disk[r.file[f].num].met.owner = f
          /\ \A i \in EventsOf(r, f) :
                r.events[i].type = "hashed" => r.events[i].good = r.disk[r.file[f].num].good
          /\ Hashes /\ ToMove(r, f) => r.disk[r.file[f].num].good = Parts
  BY <1>1, <1>2, <1>3 DEF KnownOK, DiskOK, ToMove, Sole
<1> QED
  BY <1>1, <1>2, <1>3, <1>4, <1>5, OneFileChanges

\* A task is added for a file of which nothing is awaited.
LEMMA AddKeepsFit ==
    ASSUME NEW s, Fit(s), NEW f \in Files, Known(s, f), Free(s, f), NEW type \in {"Hashing", "Completing"},
           \/ s.file[f].status = "COMPLETING"
           \/ s.file[f].status = "WAITINGFORHASH" /\ type = "Hashing",
           type = "Completing" /\ Hashes => s.disk[s.file[f].num].good = Parts,
           NEW r, r = AddTask(s, Task(s, type, f))
    PROVE  /\ Fit(r) /\ Within(s, r, f) /\ r.file = s.file /\ r.disk = s.disk
           /\ \E t \in PartTasks : r.sched = S!AddTask(s.sched, t)
<1> DEFINE t == Task(s, type, f)
           x == SP!AddTask(s.sched, t)
<1>1. KnownOK(s, f) /\ SP!Sound(s.sched) /\ SP!Placed(s.sched) /\ s \in AppState
  BY DEF Fit, FileOK
<1>2. t \in PartTasks /\ t.owner = f /\ t.num = s.file[f].num /\ t.type = type
  BY <1>1 DEF KnownOK, RecordOK, Task, PartTasks
<1>3. r = [s EXCEPT !.sched = S!AddTask(s.sched, t)]
  BY <1>1 DEF AddTask, AppState
<1>4. S!AddTask(s.sched, t) = x
  BY SameScheduler
<1> HIDE DEF t
<1>5. SP!Sound(x) /\ x.current = s.sched.current /\ x.place = s.sched.place
  BY <1>1, <1>2, TasksAreFit, SP!AddTaskIsSound DEF SP!TasksAssumption
<1>6. SP!Waiting(x) \subseteq Waiting(s) \union {t}
  BY <1>1, <1>2, TasksAreFit, SP!AddTaskWaits DEF SP!TasksAssumption, Waiting
<1>7. SP!Placed(x)
  BY <1>1, <1>5 DEF SP!Placed
<1> HIDE DEF x
<1>8. /\ r \in AppState /\ r.sched = x
      /\ r.file = s.file /\ r.disk = s.disk /\ r.copy = s.copy /\ r.cloning = s.cloning
      /\ r.source = s.source /\ r.events = s.events
  BY <1>1, <1>3, <1>4, <1>5, SchedSet
<1>9. Within(s, r, f)
  BY <1>5, <1>8 DEF Within, Known
<1>10. /\ TasksOf(r, f) \subseteq {t} /\ EventsOf(r, f) = {} /\ EventsOf(s, f) = {} /\ ~HasMoved(s, f)
       /\ \A u \in Waiting(r) : u \in Waiting(s) \/ u.owner = f
  BY <1>2, <1>6, <1>8 DEF TasksOf, EventsOf, Free, Waiting, HasMoved
<1>11. RecordOK(r.file[f]) /\ AwaitsOne(r, f)
  BY <1>1, <1>2, <1>8, <1>10 DEF KnownOK, AwaitsOne
<1>12. Sole /\ ~HasMoved(s, f) =>
          /\ Signs => r.disk[r.file[f].num].met.owner = f
          /\ \A i \in EventsOf(r, f) :
                r.events[i].type = "hashed" => r.events[i].good = r.disk[r.file[f].num].good
          /\ Hashes /\ ToMove(r, f) => r.disk[r.file[f].num].good = Parts
  <2>1. ToMove(r, f) => type = "Completing" \/ ToMove(s, f)
    BY <1>2, <1>8, <1>10 DEF ToMove
  <2> QED
    BY <1>1, <1>8, <1>10, <2>1 DEF KnownOK, DiskOK
<1>13. Fit(r)
  BY <1>5, <1>7, <1>8, <1>9, <1>10, <1>11, <1>12, OneFileChanges
<1> QED
  BY <1>2, <1>3, <1>4, <1>8, <1>9, <1>13

----------------------------------------------------------------------------
(* What handlers do with a file                                            *)

LEMMA CalmSteps ==
    ASSUME NEW s, NEW f \in Files, NEW r, Calm(s, r, f), NEW q, Calm(r, q, f)
    PROVE  Calm(s, q, f)
<1>1. r.file[f].num = s.file[f].num
  BY DEF Calm, Within
<1> QED
  BY <1>1 DEF Calm, Within

LEMMA NothingIsCalm ==
    ASSUME NEW s \in AppState, NEW f \in Files, Known(s, f)
    PROVE  Calm(s, s, f)
  BY DEF Calm, Within

\* The record of f becomes k.
LEMMA FileChangeIsCalm ==
    ASSUME NEW s \in AppState, NEW f \in Files, Known(s, f), NEW k \in PartFileState,
           k.life = "known", k.num = s.file[f].num, NEW r, r = SetFile(s, f, k)
    PROVE  Calm(s, r, f) /\ r.file[f] = k /\ r.disk = s.disk
<1>1. /\ r \in AppState
      /\ r.file[f] = k /\ \A g \in Files \ {f} : r.file[g] = s.file[g]
      /\ r.disk = s.disk /\ r.copy = s.copy /\ r.cloning = s.cloning
      /\ r.source = s.source /\ r.events = s.events /\ r.sched = s.sched
  BY FileSet
<1> QED
  BY <1>1 DEF Calm, Within, Known

\* What is on disk of f becomes d.
LEMMA DiskChangeIsCalm ==
    ASSUME NEW s \in AppState, NEW f \in Files, Known(s, f), s.file[f].num \in Numbers,
           NEW d \in DiskState, d.part = s.disk[s.file[f].num].part,
           Sole /\ s.disk[s.file[f].num].met # NoMet => d.met # NoMet,
           NEW r, r = SetDisk(s, s.file[f].num, d)
    PROVE  Calm(s, r, f) /\ r.file = s.file /\ r.disk[s.file[f].num] = d
<1> DEFINE n == s.file[f].num
<1>1. /\ r \in AppState
      /\ r.disk[n] = d /\ \A m \in Numbers \ {n} : r.disk[m] = s.disk[m]
      /\ r.file = s.file /\ r.copy = s.copy /\ r.cloning = s.cloning
      /\ r.source = s.source /\ r.events = s.events /\ r.sched = s.sched
  BY DiskSet
<1> QED
  BY <1>1 DEF Calm, Within, Known

\* The parts of what holds of a known file.
LEMMA KnownParts ==
    ASSUME NEW s, Fit(s), NEW f \in Files, Known(s, f)
    PROVE  /\ s \in AppState /\ s.file[f] \in PartFileState /\ s.file[f].life = "known"
           /\ s.file[f].num \in Numbers /\ s.disk[s.file[f].num] \in DiskState
           /\ KnownOK(s, f) /\ RecordOK(s.file[f]) /\ AwaitsOne(s, f)
           /\ s.file[f].status \notin {"COMPLETING", "WAITINGFORHASH"} => Free(s, f)
           /\ Free(s, f) => ~HasMoved(s, f)
<1>1. s \in AppState /\ KnownOK(s, f)
  BY DEF Fit, FileOK
<1>2. RecordOK(s.file[f]) /\ AwaitsOne(s, f) /\ s.file[f].num \in Numbers
  BY <1>1 DEF KnownOK, RecordOK
<1>3. s.file[f] \in PartFileState /\ s.disk[s.file[f].num] \in DiskState
  BY <1>1, <1>2, Parts1
<1>4. s.file[f].status \notin {"COMPLETING", "WAITINGFORHASH"} => Free(s, f)
  BY <1>2 DEF AwaitsOne, Free
<1>5. Free(s, f) => ~HasMoved(s, f)
  BY DEF Free, HasMoved
<1> QED
  BY <1>1, <1>2, <1>3, <1>4, <1>5 DEF Known

\* Only flags of f change.
Flags(s, r, f) ==
    /\ Calm(s, r, f) /\ r.disk = s.disk
    /\ r.file[f].status = s.file[f].status /\ r.file[f].filled = s.file[f].filled
    /\ r.file[f].buffer = s.file[f].buffer /\ r.file[f].good = s.file[f].good

LEMMA FlagChange ==
    ASSUME NEW s, Fit(s), NEW f \in Files, Known(s, f), NEW k \in PartFileState,
           k.life = "known", k.num = s.file[f].num, k.status = s.file[f].status,
           k.filled = s.file[f].filled, k.buffer = s.file[f].buffer, k.good = s.file[f].good,
           NEW r, r = SetFile(s, f, k)
    PROVE  Flags(s, r, f) /\ Fit(r)
<1>1. s \in AppState
  BY KnownParts
<1>2. Calm(s, r, f) /\ r.file[f] = k /\ r.disk = s.disk
  BY <1>1, FileChangeIsCalm
<1>3. Flags(s, r, f)
  BY <1>2 DEF Flags
<1> QED
  BY <1>3, FlagsKeepFit DEF Flags

LEMMA PauseKeeps ==
    ASSUME NEW s, Fit(s), NEW f \in Files, Known(s, f), NEW insufficient \in BOOLEAN,
           NEW r, r = PauseFile(s, f, insufficient)
    PROVE  Flags(s, r, f) /\ Fit(r)
<1> DEFINE k == [s.file[f] EXCEPT !.paused = TRUE, !.insufficient = insufficient]
<1>1. s \in AppState /\ s.file[f] \in PartFileState /\ s.file[f].life = "known"
  BY KnownParts
<1>2. /\ k \in PartFileState /\ k.life = "known" /\ k.num = s.file[f].num
      /\ k.status = s.file[f].status /\ k.filled = s.file[f].filled
      /\ k.buffer = s.file[f].buffer /\ k.good = s.file[f].good
  BY <1>1 DEF PartFileState
<1>3. r = s \/ r = SetFile(s, f, k)
  BY <1>1 DEF PauseFile, AppState, SetFile
<1> HIDE DEF k
<1>4. CASE r = s
  BY <1>1, <1>4, NothingIsCalm DEF Flags
<1>5. CASE r = SetFile(s, f, k)
  BY <1>2, <1>5, FlagChange
<1> QED
  BY <1>3, <1>4, <1>5

LEMMA StoppedKeeps ==
    ASSUME NEW s, Fit(s), NEW f \in Files, Known(s, f), NEW r, r = [s EXCEPT !.file[f].stopped = TRUE]
    PROVE  Flags(s, r, f) /\ Fit(r)
<1> DEFINE k == [s.file[f] EXCEPT !.stopped = TRUE]
<1>1. s \in AppState /\ s.file[f] \in PartFileState /\ s.file[f].life = "known"
  BY KnownParts
<1>2. /\ k \in PartFileState /\ k.life = "known" /\ k.num = s.file[f].num
      /\ k.status = s.file[f].status /\ k.filled = s.file[f].filled
      /\ k.buffer = s.file[f].buffer /\ k.good = s.file[f].good
  BY <1>1 DEF PartFileState
<1>3. r = SetFile(s, f, k)
  BY <1>1 DEF AppState, SetFile
<1> HIDE DEF k
<1> QED
  BY <1>2, <1>3, FlagChange

LEMMA ResumedKeeps ==
    ASSUME NEW s, Fit(s), NEW f \in Files, Known(s, f), NEW r, r = Resumed(s, f)
    PROVE  Flags(s, r, f) /\ Fit(r)
<1> DEFINE k == [s.file[f] EXCEPT !.paused = FALSE, !.stopped = FALSE, !.insufficient = FALSE]
<1>1. s \in AppState /\ s.file[f] \in PartFileState /\ s.file[f].life = "known"
  BY KnownParts
<1>2. /\ k \in PartFileState /\ k.life = "known" /\ k.num = s.file[f].num
      /\ k.status = s.file[f].status /\ k.filled = s.file[f].filled
      /\ k.buffer = s.file[f].buffer /\ k.good = s.file[f].good
  BY <1>1 DEF PartFileState
<1>3. r = SetFile(s, f, k)
  BY <1>1 DEF AppState, SetFile, Resumed
<1> HIDE DEF k
<1> QED
  BY <1>2, <1>3, FlagChange

\* A file is saved that was not moved.
LEMMA SaveKeeps ==
    ASSUME NEW s, Fit(s), NEW f \in Files, Known(s, f), ~(Signs /\ HasMoved(s, f)),
           NEW r \in SavePartFile(s, f)
    PROVE  Fit(r) /\ Calm(s, r, f) /\ r.file = s.file
<1> DEFINE n == s.file[f].num
           m == [owner |-> f, filled |-> s.file[f].filled, paused |-> s.file[f].paused]
           d == [s.disk[n] EXCEPT !.touched = FALSE, !.met = m]
           e == [s.disk[n] EXCEPT !.met = NoMet]
<1>1. s \in AppState /\ s.file[f] \in PartFileState /\ n \in Numbers /\ s.disk[n] \in DiskState
  BY KnownParts
<1>2. m \in [owner : Files, filled : SUBSET Parts, paused : BOOLEAN] /\ m # NoMet /\ m.owner = f
  <2>1. s.file[f].filled \in SUBSET Parts /\ s.file[f].paused \in BOOLEAN
    BY <1>1 DEF PartFileState
  <2>2. m \in [owner : Files, filled : SUBSET Parts, paused : BOOLEAN]
    BY <2>1
  <2> QED
    BY <2>2, FilesAssumption DEF FilesAssumption
<1>3. r = s \/ r = SetDisk(s, n, d) \/ ("met" \in Env /\ r = SetDisk(s, n, e))
  <2>1. \/ r = s
        \/ r = [s EXCEPT !.disk[n].touched = FALSE, !.disk[n].met = m]
        \/ "met" \in Env /\ r = [s EXCEPT !.disk[n].met = NoMet]
    BY DEF SavePartFile, Removed
  <2> HIDE DEF m
  <2> QED
    BY <1>1, <2>1 DEF AppState, DiskState, SetDisk
<1> HIDE DEF m
<1>4. d \in DiskState /\ d.part = s.disk[n].part /\ d.met = m /\ d.good = s.disk[n].good
  BY <1>1, <1>2 DEF DiskState
<1> HIDE DEF d
<1>5. CASE r = s
  BY <1>1, <1>5, NothingIsCalm
<1>6. CASE r = SetDisk(s, n, d)
  <2>1. Calm(s, r, f) /\ r.file = s.file /\ r.disk[n] = d
    BY <1>1, <1>2, <1>4, <1>6, DiskChangeIsCalm
  <2> QED
    BY <1>2, <1>4, <2>1, FlagsKeepFit
<1>7. CASE "met" \in Env /\ r = SetDisk(s, n, e)
  <2>1. e \in DiskState /\ e.part = s.disk[n].part /\ e.good = s.disk[n].good
    BY <1>1 DEF DiskState
  <2> HIDE DEF e
  <2>2. Calm(s, r, f) /\ r.file = s.file /\ r.disk[n] = e
    BY <1>1, <1>7, <2>1, DiskChangeIsCalm DEF Sole
  <2> QED
    BY <1>7, <2>1, <2>2, FlagsKeepFit
<1> QED
  BY <1>3, <1>5, <1>6, <1>7

\* What a handler may add to the scheduler: at most one task of a part file.
Adds(s, r) == r.sched = s.sched \/ \E t \in PartTasks : r.sched = S!AddTask(s.sched, t)

\* A file that is not awaiting anything takes a new record, and its data on disk
\* change.
LEMMA FreeFileChange ==
    ASSUME NEW s, Fit(s), NEW f \in Files, Known(s, f), Free(s, f),
           NEW k \in PartFileState, k.life = "known", k.num = s.file[f].num, RecordOK(k),
           Hashes /\ k.status = "ERROR" /\ k.filled = Parts => s.disk[s.file[f].num].good = Parts,
           NEW r, r = SetFile(s, f, k)
    PROVE  Fit(r) /\ Free(r, f) /\ Calm(s, r, f) /\ r.file[f] = k /\ r.disk = s.disk
<1>1. s \in AppState
  BY KnownParts
<1>2. Calm(s, r, f) /\ r.file[f] = k /\ r.disk = s.disk
  BY <1>1, FileChangeIsCalm
<1> QED
  BY <1>2, FreeKeepsFit

\* CompleteFile(false).
LEMMA CompleteHashKeeps ==
    ASSUME NEW s, Fit(s), NEW f \in Files, Known(s, f), Free(s, f),
           IsComplete(s, f), s.file[f].buffer = {}, NEW r, r = CompleteFile_Hash(s, f)
    PROVE  Fit(r) /\ Within(s, r, f) /\ Adds(s, r) /\ r.disk = s.disk
<1> DEFINE k == [s.file[f] EXCEPT !.status = "COMPLETING"]
           q == SetFile(s, f, k)
<1>1. s \in AppState /\ s.file[f] \in PartFileState /\ s.file[f].life = "known" /\ RecordOK(s.file[f])
  BY KnownParts
<1>2. /\ k \in PartFileState /\ k.life = "known" /\ k.num = s.file[f].num /\ k.status = "COMPLETING"
      /\ k.filled = s.file[f].filled /\ k.buffer = s.file[f].buffer
  BY <1>1 DEF PartFileState, Statuses
<1>3. q = [s EXCEPT !.file[f].status = "COMPLETING"]
  BY <1>1 DEF AppState, SetFile
<1>4. RecordOK(k)
  BY <1>1, <1>2 DEF RecordOK, IsComplete
<1> HIDE DEF k
<1>5. Fit(q) /\ Free(q, f) /\ Calm(s, q, f) /\ q.file[f] = k /\ q.disk = s.disk
  BY <1>2, <1>4, FreeFileChange
<1>6. r = AddTask(q, Task(q, "Hashing", f))
  BY <1>2, <1>3, <1>5 DEF CompleteFile_Hash, Task
<1> HIDE DEF q
<1>7. Known(q, f) /\ q.sched = s.sched
  BY <1>5 DEF Calm, Within
<1>8. /\ Fit(r) /\ Within(q, r, f) /\ r.disk = q.disk
      /\ \E t \in PartTasks : r.sched = S!AddTask(q.sched, t)
  BY <1>2, <1>5, <1>6, <1>7, AddKeepsFit
<1>9. Within(s, r, f)
  BY <1>5, <1>8 DEF Calm, Within
<1> QED
  BY <1>5, <1>7, <1>8, <1>9 DEF Adds

\* The buffered parts reach the disk.
LEMMA WrittenKeeps ==
    ASSUME NEW s, Fit(s), NEW f \in Files, Known(s, f), Free(s, f), s.file[f].status # "ERROR",
           NEW W \in SUBSET Parts, NEW r, r = Written(s, f, W)
    PROVE  Fit(r) /\ Free(r, f) /\ Calm(s, r, f) /\ r.file = s.file
<1> DEFINE n == s.file[f].num
           d == [s.disk[n] EXCEPT !.good = (@ \ W) \union (W \intersect s.file[f].good), !.touched = TRUE]
<1>1. s \in AppState /\ s.file[f] \in PartFileState /\ n \in Numbers /\ s.disk[n] \in DiskState
      /\ RecordOK(s.file[f])
  BY KnownParts
<1>2. d \in DiskState /\ d.part = s.disk[n].part /\ d.met = s.disk[n].met
  BY <1>1 DEF DiskState, PartFileState
<1>3. r = SetDisk(s, n, d)
  BY <1>1 DEF Written, SetDisk, AppState, DiskState
<1> HIDE DEF d
<1>4. Calm(s, r, f) /\ r.file = s.file /\ r.disk[n] = d
  BY <1>1, <1>2, <1>3, DiskChangeIsCalm
<1> QED
  BY <1>1, <1>2, <1>4, FreeKeepsFit

LEMMA WriteErrorKeeps ==
    ASSUME NEW s, Fit(s), NEW f \in Files, Known(s, f), Free(s, f), s.file[f].status # "ERROR",
           "write" \in Env, NEW W \in SUBSET Parts, NEW r, r = WriteError(s, f, W)
    PROVE  Fit(r) /\ Calm(s, r, f)
<1> DEFINE q == Written(s, f, W)
           k == [q.file[f] EXCEPT !.status = "ERROR", !.buffer = {}, !.good = {}]
<1>1. Fit(q) /\ Free(q, f) /\ Calm(s, q, f) /\ Known(q, f)
  BY WrittenKeeps DEF Known
<1> HIDE DEF q
<1>2. q \in AppState /\ q.file[f] \in PartFileState /\ q.file[f].life = "known" /\ RecordOK(q.file[f])
  BY <1>1, KnownParts
<1>3. /\ k \in PartFileState /\ k.life = "known" /\ k.num = q.file[f].num
      /\ k.status = "ERROR" /\ k.buffer = {}
  BY <1>2 DEF PartFileState, Statuses
<1>4. r = SetFile(q, f, k)
  BY <1>2 DEF WriteError, q, SetFile, AppState, PartFileState
<1> HIDE DEF k
<1>5. RecordOK(k) /\ ~Hashes
  BY <1>2, <1>3 DEF RecordOK, Hashes, Sole
<1>6. Fit(r) /\ Calm(q, r, f)
  BY <1>1, <1>3, <1>4, <1>5, FreeFileChange
<1> QED
  BY <1>1, <1>6, CalmSteps

LEMMA PartsHashedKeeps ==
    ASSUME NEW s, Fit(s), NEW f \in Files, Known(s, f), Free(s, f),
           s.file[f].status \in {"EMPTY", "READY"},
           NEW unread \in SUBSET Parts, NEW r, r = PartsHashed(s, f, unread)
    PROVE  Fit(r) /\ Free(r, f) /\ Calm(s, r, f) /\ r.file[f].buffer = {}
<1> DEFINE lost == (s.file[f].buffer \ s.file[f].good) \union unread
           k == [s.file[f] EXCEPT !.filled = @ \ lost, !.buffer = {}, !.good = {},
                    !.status = IF unread # {} THEN "ERROR"
                               ELSE IF @ = "EMPTY" /\ s.file[f].buffer # lost THEN "READY" ELSE @]
<1>1. s \in AppState /\ s.file[f] \in PartFileState /\ s.file[f].life = "known" /\ RecordOK(s.file[f])
  BY KnownParts
<1>2. r = SetFile(s, f, k)
  BY DEF PartsHashed, SetFile
<1>3. /\ k \in PartFileState /\ k.life = "known" /\ k.num = s.file[f].num /\ k.buffer = {}
      /\ k.status \in {"EMPTY", "READY", "ERROR"} /\ (k.status = "ERROR" => unread # {})
      /\ k.filled = s.file[f].filled \ lost
  BY <1>1 DEF PartFileState, Statuses
<1>4. k.status = "ERROR" => k.filled # Parts
  BY <1>3
<1> HIDE DEF k
<1>5. RecordOK(k)
  BY <1>1, <1>3 DEF RecordOK
<1>6. Fit(r) /\ Free(r, f) /\ Calm(s, r, f) /\ r.file[f] = k
  BY <1>2, <1>3, <1>4, <1>5, FreeFileChange
<1> QED
  BY <1>3, <1>6

LEMMA WithinSteps ==
    ASSUME NEW s, NEW f \in Files, NEW r, Within(s, r, f), NEW q, Within(r, q, f)
    PROVE  Within(s, q, f)
<1>1. r.file[f].num = s.file[f].num
  BY DEF Within
<1> QED
  BY <1>1 DEF Within

\* The outcome of a handler for f.
Fine(s, r, f) == Fit(r) /\ Within(s, r, f) /\ Adds(s, r)

LEMMA CalmIsFine ==
    ASSUME NEW s, NEW f \in Files, NEW r, Calm(s, r, f), NEW q, Fine(r, q, f)
    PROVE  Fine(s, q, f)
<1>1. Within(s, q, f)
  BY WithinSteps DEF Calm, Fine
<1> QED
  BY <1>1 DEF Calm, Fine, Adds

LEMMA CalmAloneIsFine ==
    ASSUME NEW s, NEW f \in Files, NEW r, Calm(s, r, f), Fit(r)
    PROVE  Fine(s, r, f)
  BY DEF Calm, Fine, Adds

LEMMA FlushedKeeps ==
    ASSUME NEW s, Fit(s), NEW f \in Files, Known(s, f), Free(s, f),
           s.file[f].status \in {"EMPTY", "READY"},
           NEW unread \in SUBSET Parts, NEW r \in Flushed(s, f, unread)
    PROVE  Fine(s, r, f)
<1> DEFINE w == Written(s, f, s.file[f].buffer)
           h == PartsHashed(w, f, unread)
<1>1. s.file[f].buffer \in SUBSET Parts
  <2>1. s.file[f] \in PartFileState
    BY KnownParts
  <2> QED
    BY <2>1 DEF PartFileState
<1>2. Fit(w) /\ Free(w, f) /\ Calm(s, w, f) /\ w.file = s.file /\ Known(w, f)
  BY <1>1, WrittenKeeps DEF Known
<1>3. PICK v \in SavePartFile(h, f) : r = IF IsComplete(v, f) THEN CompleteFile_Hash(v, f) ELSE v
  BY DEF Flushed
<1> HIDE DEF w
<1>4. Fit(h) /\ Free(h, f) /\ Calm(w, h, f) /\ h.file[f].buffer = {}
  BY <1>2, PartsHashedKeeps
<1> HIDE DEF h
<1>5. Known(h, f) /\ ~HasMoved(h, f)
  BY <1>4 DEF Calm, Within, Free, HasMoved
<1>6. Fit(v) /\ Calm(h, v, f) /\ v.file = h.file
  BY <1>4, <1>5, SaveKeeps
<1>7. Free(v, f) /\ Known(v, f) /\ Calm(s, v, f)
  <2>1. Free(v, f) /\ Known(v, f)
    BY <1>4, <1>5, <1>6, CalmAwaits DEF Known
  <2>2. Calm(s, h, f)
    BY <1>2, <1>4, CalmSteps
  <2> QED
    BY <1>6, <2>1, <2>2, CalmSteps
<1>8. CASE r = v
  BY <1>6, <1>7, <1>8, CalmAloneIsFine
<1>9. CASE IsComplete(v, f) /\ r = CompleteFile_Hash(v, f)
  <2>1. Fine(v, r, f)
    BY <1>4, <1>6, <1>7, <1>9, CompleteHashKeeps DEF Fine
  <2> QED
    BY <1>7, <2>1, CalmIsFine
<1> QED
  BY <1>3, <1>8, <1>9

LEMMA FlushBufferKeeps ==
    ASSUME NEW s, Fit(s), NEW f \in Files, Known(s, f), NEW r \in FlushBuffer(s, f)
    PROVE  Fine(s, r, f) /\ (s.file[f].buffer = {} => r = s)
<1> DEFINE b == s.file[f].buffer
<1>1. s \in AppState /\ s.file[f] \in PartFileState /\ RecordOK(s.file[f])
  BY KnownParts
<1>2. b \in SUBSET Parts
  BY <1>1 DEF PartFileState
<1>3. CASE b = {}
  <2>1. r = s
    BY <1>3 DEF FlushBuffer
  <2> QED
    BY <1>1, <2>1, NothingIsCalm, CalmAloneIsFine
<1>4. CASE b # {}
  <2>1. s.file[f].status \in {"EMPTY", "READY"}
    BY <1>1, <1>4 DEF RecordOK
  <2>2. Free(s, f)
    BY <2>1, KnownParts
  <2>3. ASSUME NEW E \in SUBSET b, r \in Flushed(s, f, E) PROVE Fine(s, r, f)
    <3>1. E \in SUBSET Parts
      BY <1>2
    <3> QED
      BY <2>1, <2>2, <2>3, <3>1, FlushedKeeps
  <2>4. ASSUME r = PauseFile(s, f, TRUE) PROVE Fine(s, r, f)
    <3>1. Flags(s, r, f) /\ Fit(r)
      BY <2>4, PauseKeeps
    <3> QED
      BY <3>1, CalmAloneIsFine DEF Flags
  <2>5. ASSUME "write" \in Env, NEW W \in SUBSET b, r = WriteError(s, f, W) PROVE Fine(s, r, f)
    <3>1. W \in SUBSET Parts
      BY <1>2
    <3> QED
      BY <2>1, <2>2, <2>5, <3>1, WriteErrorKeeps, CalmAloneIsFine
  <2>6. \/ \E E \in SUBSET b : r \in Flushed(s, f, E)
        \/ r = PauseFile(s, f, TRUE)
        \/ "write" \in Env /\ \E W \in SUBSET b : r = WriteError(s, f, W)
    <3>1. \/ r \in UNION {Flushed(s, f, E) : E \in IF "read" \in Env THEN SUBSET b ELSE {{}}}
          \/ r \in IF "space" \in Env THEN {PauseFile(s, f, TRUE)} ELSE {}
          \/ r \in IF "write" \in Env THEN {WriteError(s, f, W) : W \in (SUBSET b) \ {b}} ELSE {}
      BY <1>4, Zenon DEF FlushBuffer
    <3>2. ASSUME r \in UNION {Flushed(s, f, E) : E \in IF "read" \in Env THEN SUBSET b ELSE {{}}}
          PROVE  \E E \in SUBSET b : r \in Flushed(s, f, E)
      <4>1. PICK E \in IF "read" \in Env THEN SUBSET b ELSE {{}} : r \in Flushed(s, f, E)
        BY <3>2
      <4>2. E \in SUBSET b
        OBVIOUS
      <4> QED
        BY <4>1, <4>2
    <3>3. ASSUME r \in IF "write" \in Env THEN {WriteError(s, f, W) : W \in (SUBSET b) \ {b}} ELSE {}
          PROVE  "write" \in Env /\ \E W \in SUBSET b : r = WriteError(s, f, W)
      BY <3>3
    <3> QED
      BY <3>1, <3>2, <3>3
  <2> QED
    BY <1>4, <2>3, <2>4, <2>5, <2>6
<1> QED
  BY <1>3, <1>4

LEMMA FlagsTwice ==
    ASSUME NEW s, NEW f \in Files, NEW r, Flags(s, r, f), NEW q, Flags(r, q, f)
    PROVE  Flags(s, q, f)
<1>1. Calm(s, q, f)
  BY CalmSteps DEF Flags
<1> QED
  BY <1>1 DEF Flags

LEMMA StopKeeps ==
    ASSUME NEW s, Fit(s), NEW f \in Files, Known(s, f), NEW r \in StopFile(s, f)
    PROVE  Fine(s, r, f) /\ (s.file[f].buffer = {} => Flags(s, r, f))
<1> DEFINE p == [s EXCEPT !.file[f].stopped = TRUE]
           q == PauseFile(p, f, FALSE)
<1>1. Flags(s, p, f) /\ Fit(p)
  BY StoppedKeeps
<1>2. r \in FlushBuffer(q, f)
  BY DEF StopFile
<1> HIDE DEF p
<1>3. Known(p, f)
  BY <1>1 DEF Flags, Calm, Within
<1>4. Flags(p, q, f) /\ Fit(q)
  BY <1>1, <1>3, PauseKeeps
<1> HIDE DEF q
<1>5. Known(q, f) /\ Flags(s, q, f)
  BY <1>1, <1>4, FlagsTwice DEF Flags, Calm, Within
<1>6. Fine(q, r, f) /\ (q.file[f].buffer = {} => r = q)
  BY <1>2, <1>4, <1>5, FlushBufferKeeps
<1>7. Fine(s, r, f)
  BY <1>5, <1>6, CalmIsFine DEF Flags
<1> QED
  BY <1>5, <1>6, <1>7 DEF Flags

\* CompleteFile(true).
LEMMA CompleteMoveKeeps ==
    ASSUME NEW s, Fit(s), NEW f \in Files, Known(s, f), Free(s, f), IsComplete(s, f),
           s.file[f].buffer = {}, Hashes => s.disk[s.file[f].num].good = Parts,
           NEW r \in CompleteFile_Move(s, f)
    PROVE  Fine(s, r, f)
<1>1. PICK x \in StopFile(s, f) :
          \E q \in FlushBuffer([x EXCEPT !.file[f].status = "COMPLETING"], f) :
              r = AddTask(q, Task(q, "Completing", f))
  BY Zenon DEF CompleteFile_Move
<1>2. Fit(x) /\ Flags(s, x, f)
  BY StopKeeps DEF Fine
<1>3. Known(x, f) /\ Free(x, f) /\ Calm(s, x, f) /\ x.disk = s.disk
  BY <1>2, CalmAwaits DEF Flags, Calm, Within
<1>4. x \in AppState /\ x.file[f] \in PartFileState /\ x.file[f].life = "known" /\ RecordOK(x.file[f])
  BY <1>2, <1>3, KnownParts
<1> DEFINE k == [x.file[f] EXCEPT !.status = "COMPLETING"]
           y == SetFile(x, f, k)
<1>5. /\ k \in PartFileState /\ k.life = "known" /\ k.num = x.file[f].num /\ k.status = "COMPLETING"
      /\ k.filled = x.file[f].filled /\ k.buffer = x.file[f].buffer
  BY <1>4 DEF PartFileState, Statuses
<1>6. y = [x EXCEPT !.file[f].status = "COMPLETING"]
  BY <1>4 DEF AppState, SetFile
<1>7. RecordOK(k) /\ k.buffer = {}
  BY <1>2, <1>4, <1>5 DEF RecordOK, IsComplete, Flags
<1> HIDE DEF k
<1>8. Fit(y) /\ Free(y, f) /\ Calm(x, y, f) /\ y.file[f] = k /\ y.disk = x.disk
  BY <1>2, <1>3, <1>5, <1>7, FreeFileChange
<1>9. PICK q \in FlushBuffer(y, f) : r = AddTask(q, Task(q, "Completing", f))
  BY <1>1, <1>6
<1> HIDE DEF y
<1>10. Known(y, f) /\ y.file[f].num = s.file[f].num
  BY <1>3, <1>8 DEF Calm, Within
<1>11. q = y
  BY <1>7, <1>8, <1>9, <1>10, FlushBufferKeeps
<1>12. /\ Fit(r) /\ Within(y, r, f)
       /\ \E t \in PartTasks : r.sched = S!AddTask(y.sched, t)
  <2>1. Hashes => y.disk[y.file[f].num].good = Parts
    BY <1>3, <1>8, <1>10
  <2>2. y.file[f].status = "COMPLETING"
    BY <1>5, <1>8
  <2>3. r = AddTask(y, Task(y, "Completing", f))
    BY <1>9, <1>11
  <2> QED
    BY <1>8, <1>10, <2>1, <2>2, <2>3, AddKeepsFit
<1>13. Calm(s, y, f)
  BY <1>3, <1>8, CalmSteps
<1>14. Fine(y, r, f)
  BY <1>12 DEF Fine, Adds
<1> QED
  BY <1>13, <1>14, CalmIsFine

LEMMA ResumeKeeps ==
    ASSUME NEW s, Fit(s), NEW f \in Files, Known(s, f), NEW r \in ResumeFile(s, f)
    PROVE  /\ Fine(s, r, f)
           /\ s.file[f].status # "ERROR" => r.sched = s.sched
<1> DEFINE q == Resumed(s, f)
<1>1. Flags(s, q, f) /\ Fit(q)
  BY ResumedKeeps
<1>2. \/ r = s \/ r = q
      \/ IsComplete(q, f) /\ q.file[f].status = "ERROR" /\ r \in CompleteFile_Move(q, f)
  BY Zenon DEF ResumeFile
<1> HIDE DEF q
<1>3. Known(q, f) /\ Calm(s, q, f) /\ q.sched = s.sched
  BY <1>1 DEF Flags, Calm, Within
<1>4. CASE r = s
  <2>1. s \in AppState
    BY KnownParts
  <2> QED
    BY <1>4, <2>1, NothingIsCalm, CalmAloneIsFine
<1>5. CASE r = q
  BY <1>1, <1>3, <1>5, CalmAloneIsFine
<1>6. CASE IsComplete(q, f) /\ q.file[f].status = "ERROR" /\ r \in CompleteFile_Move(q, f)
  <2>1. Free(q, f) /\ RecordOK(q.file[f]) /\ KnownOK(q, f) /\ ~HasMoved(q, f)
    BY <1>1, <1>3, <1>6, KnownParts
  <2>2. q.file[f].buffer = {}
    BY <1>6, <2>1 DEF RecordOK
  <2>3. Hashes => q.disk[q.file[f].num].good = Parts
    BY <1>6, <2>1 DEF KnownOK, DiskOK, ToMove, IsComplete, Hashes, Sole
  <2>4. Fine(q, r, f)
    BY <1>1, <1>3, <1>6, <2>1, <2>2, <2>3, CompleteMoveKeeps
  <2>5. s.file[f].status = "ERROR"
    BY <1>1, <1>6 DEF Flags
  <2> QED
    BY <1>3, <2>4, <2>5, CalmIsFine
<1> QED
  BY <1>2, <1>4, <1>5, <1>6

\* Files stay what they are, and events and tasks too.
Quietly(s, r) ==
    /\ Fit(r) /\ r.sched = s.sched /\ r.events = s.events
    /\ \A g \in Files : r.file[g].life = s.file[g].life

LEMMA StartNextKeeps ==
    ASSUME NEW s, Fit(s), NEW r \in StartNextFile(s)
    PROVE  Quietly(s, r)
<1>1. CASE r = s
  BY <1>1 DEF Quietly
<1>2. ASSUME NEW g \in Files, s.file[g].life = "known", GetStatus(s, g) = "PAUSED", r \in ResumeFile(s, g)
      PROVE  Quietly(s, r)
  <2>1. Known(s, g)
    BY <1>2 DEF Known
  <2>2. s.file[g] \in PartFileState
    BY <2>1, KnownParts
  <2>3. s.file[g].status # "ERROR"
    BY <1>2, <2>2 DEF GetStatus
  <2>4. Fine(s, r, g) /\ r.sched = s.sched
    BY <1>2, <2>1, <2>3, ResumeKeeps
  <2> QED
    BY <2>1, <2>4 DEF Fine, Within, Quietly, Known
<1>3. r = s \/ \E g \in Files : /\ s.file[g].life = "known" /\ GetStatus(s, g) = "PAUSED"
                                /\ r \in ResumeFile(s, g)
  BY Zenon DEF StartNextFile
<1> QED
  BY <1>1, <1>2, <1>3

\* ... and only a paused file changes.
LEMMA StartNextLeaves ==
    ASSUME NEW s, Fit(s), NEW r \in StartNextFile(s),
           NEW f \in Files, GetStatus(s, f) # "PAUSED"
    PROVE  r.file[f] = s.file[f]
<1>1. ASSUME NEW g \in Files, s.file[g].life = "known", GetStatus(s, g) = "PAUSED", r \in ResumeFile(s, g)
      PROVE  r.file[f] = s.file[f]
  <2>1. Known(s, g)
    BY <1>1 DEF Known
  <2>2. s.file[g] \in PartFileState
    BY <2>1, KnownParts
  <2>3. s.file[g].status # "ERROR"
    BY <1>1, <2>2 DEF GetStatus
  <2>4. Fine(s, r, g)
    BY <1>1, <2>1, <2>3, ResumeKeeps
  <2> QED
    BY <1>1, <2>4 DEF Fine, Within
<1>2. r = s \/ \E g \in Files : /\ s.file[g].life = "known" /\ GetStatus(s, g) = "PAUSED"
                                /\ r \in ResumeFile(s, g)
  BY Zenon DEF StartNextFile
<1> QED
  BY <1>1, <1>2

\* The hashes of a file are told, which was awaiting nothing else.
LEMMA HashFinishedKeeps ==
    ASSUME NEW s, Fit(s), NEW f \in Files, Known(s, f), Free(s, f),
           s.file[f].status \in {"COMPLETING", "WAITINGFORHASH"},
           NEW good \in SUBSET Parts, Sole => good = s.disk[s.file[f].num].good,
           NEW r \in PartFileHashFinished(s, f, good)
    PROVE  Fine(s, r, f)
<1> DEFINE wrong == s.file[f].filled \ good
           found == IF Cardinality(Parts) > 1 THEN good ELSE {}
           q == [s EXCEPT !.file[f].filled = (@ \ wrong) \union found]
           k == [s.file[f] EXCEPT !.filled = (@ \ wrong) \union found]
           j == [s.file[f] EXCEPT !.filled = (@ \ wrong) \union found, !.status = "READY"]
<1>1. /\ s \in AppState /\ s.file[f] \in PartFileState /\ s.file[f].life = "known"
      /\ RecordOK(s.file[f]) /\ ~HasMoved(s, f)
  BY KnownParts
<1>2. found \in SUBSET Parts /\ s.file[f].filled \in SUBSET Parts /\ s.file[f].buffer = {}
  BY <1>1 DEF PartFileState, RecordOK
<1>3. \/ wrong = {} /\ s.file[f].status = "COMPLETING" /\ r \in CompleteFile_Move(q, f)
      \/ r \in SavePartFile([q EXCEPT !.file[f].status = "READY"], f)
  BY Zenon DEF PartFileHashFinished
<1> HIDE DEF found
<1>4. /\ k \in PartFileState /\ k.life = "known" /\ k.num = s.file[f].num /\ k.status = s.file[f].status
      /\ k.filled = (s.file[f].filled \ wrong) \union found /\ k.buffer = {}
  BY <1>1, <1>2 DEF PartFileState
<1>5. q = SetFile(s, f, k)
  BY <1>1 DEF AppState, SetFile
<1>6. /\ j \in PartFileState /\ j.life = "known" /\ j.num = s.file[f].num /\ j.status = "READY"
      /\ j.buffer = {}
  BY <1>1, <1>2 DEF PartFileState, Statuses
<1>7. [q EXCEPT !.file[f].status = "READY"] = SetFile(s, f, j)
  BY <1>1 DEF AppState, PartFileState, SetFile
<1>8. CASE wrong = {} /\ s.file[f].status = "COMPLETING" /\ r \in CompleteFile_Move(q, f)
  <2>1. s.file[f].filled = Parts /\ k.filled = Parts /\ good = Parts
    BY <1>1, <1>2, <1>4, <1>8 DEF RecordOK
  <2>2. RecordOK(k) /\ k.status # "ERROR"
    BY <1>1, <1>4, <1>8, <2>1 DEF RecordOK
  <2> HIDE DEF k, q, wrong
  <2>3. Fit(q) /\ Free(q, f) /\ Calm(s, q, f) /\ q.file[f] = k /\ q.disk = s.disk
    BY <1>4, <1>5, <2>2, FreeFileChange
  <2>4. Known(q, f) /\ IsComplete(q, f) /\ q.file[f].buffer = {}
    BY <1>4, <2>1, <2>3 DEF Known, IsComplete
  <2>5. Hashes => q.disk[q.file[f].num].good = Parts
    BY <1>4, <2>1, <2>3 DEF Hashes, Sole
  <2>6. Fine(q, r, f)
    BY <1>8, <2>3, <2>4, <2>5, CompleteMoveKeeps
  <2> QED
    BY <2>3, <2>6, CalmIsFine
<1>9. CASE r \in SavePartFile([q EXCEPT !.file[f].status = "READY"], f)
  <2> DEFINE y == SetFile(s, f, j)
  <2>1. RecordOK(j)
    BY <1>1, <1>6 DEF RecordOK
  <2>2. r \in SavePartFile(y, f)
    BY <1>7, <1>9
  <2> HIDE DEF j, q, k
  <2>3. Fit(y) /\ Free(y, f) /\ Calm(s, y, f) /\ y.file[f] = j
    BY <1>6, <2>1, FreeFileChange
  <2> HIDE DEF y
  <2>4. Known(y, f) /\ ~HasMoved(y, f)
    BY <1>6, <2>3 DEF Known, Free, HasMoved
  <2>5. Fit(r) /\ Calm(y, r, f)
    BY <2>2, <2>3, <2>4, SaveKeeps
  <2> QED
    BY <2>3, <2>5, CalmSteps, CalmAloneIsFine
<1> QED
  BY <1>3, <1>8, <1>9

\* The completion of a file has failed, which was awaiting nothing else.
LEMMA CompletionFailedKeeps ==
    ASSUME NEW s, Fit(s), NEW f \in Files, Known(s, f), Free(s, f), s.file[f].status = "COMPLETING",
           Hashes => s.disk[s.file[f].num].good = Parts,
           NEW r \in CompleteFileEnded(s, f, TRUE)
    PROVE  Quietly(s, r)
<1> DEFINE q == [s EXCEPT !.file[f].paused = TRUE, !.file[f].status = "ERROR"]
           k == [s.file[f] EXCEPT !.paused = TRUE, !.status = "ERROR"]
<1>1. /\ s \in AppState /\ s.file[f] \in PartFileState /\ s.file[f].life = "known"
      /\ RecordOK(s.file[f])
  BY KnownParts
<1>2. /\ k \in PartFileState /\ k.life = "known" /\ k.num = s.file[f].num /\ k.status = "ERROR"
      /\ k.buffer = s.file[f].buffer
  BY <1>1 DEF PartFileState, Statuses
<1>3. q = SetFile(s, f, k)
  BY <1>1 DEF AppState, PartFileState, SetFile
<1>4. RecordOK(k)
  BY <1>1, <1>2 DEF RecordOK
<1>5. r \in StartNextFile(q)
  BY DEF CompleteFileEnded
<1> HIDE DEF k, q
<1>6. Fit(q) /\ Calm(s, q, f)
  BY <1>2, <1>3, <1>4, FreeFileChange
<1>7. Quietly(q, r)
  BY <1>5, <1>6, StartNextKeeps
<1> QED
  BY <1>1, <1>6, <1>7 DEF Quietly, Calm, Within, Known

----------------------------------------------------------------------------
(* Files come and go                                                       *)

\* A number stays a file's own while its .part and .met files stay, and no other
\* file takes it.
LEMMA OwnKeeps ==
    ASSUME NEW s, NEW r, NEW f \in Files, Own(s, f), r.file[f].num = s.file[f].num,
           r.disk[s.file[f].num] = s.disk[s.file[f].num],
           \A g \in Files \ {f} : Known(r, g) /\ r.file[g].num = s.file[f].num =>
              \/ HasMoved(r, g)
              \/ /\ Known(s, g) /\ s.file[g].num = r.file[g].num
                 /\ HasMoved(s, g) => HasMoved(r, g)
    PROVE  Own(r, f)
  BY DEF Own

\* What is asked of a state, once that of its files is known.
LEMMA RestOfFit ==
    ASSUME NEW s, Fit(s), NEW r \in AppState, SP!Sound(r.sched), SP!Placed(r.sched),
           Kept => \A t \in Waiting(r) : t.type = "Completing" =>
                       t \in Waiting(s) /\ (Known(s, t.owner) => Known(r, t.owner)),
           Kept => \A i \in DOMAIN r.events : r.events[i].type = "completed" =>
                       \/ Known(r, r.events[i].owner)
                       \/ \E j \in DOMAIN s.events :
                             /\ s.events[j] = r.events[i]
                             /\ Known(s, r.events[i].owner) => Known(r, r.events[i].owner),
           CloneOK(r), \A g \in Files : FileOK(r, g)
    PROVE  Fit(r)
<1>1. CompletingIsKnown(s)
  BY DEF Fit
<1>2. CompletingIsKnown(r)
  BY <1>1 DEF CompletingIsKnown
<1> QED
  BY <1>2 DEF Fit

\* The files to be deleted are known, and none is being completed; if only those
\* that ask are kept from it, some may also be completed already.
Deletable(s, D) ==
    /\ \A f \in D : s.file[f].life \in {"known", "completed"}
    /\ Kept => \A f \in D : Known(s, f) /\ s.file[f].status # "COMPLETING"

\* Files are deleted.
LEMMA DeleteKeeps ==
    ASSUME NEW s, Fit(s), NEW D \in SUBSET Files, Deletable(s, D),
           \A g \in Files : s.file[g].life # "saved", NEW r, r = Delete(s, D)
    PROVE  /\ Fit(r) /\ r.sched = s.sched /\ r.events = s.events
           /\ \A g \in Files : r.file[g].life # "saved"
<1> DEFINE E == {f \in D : s.file[f].life = "completed"}
           N == {s.file[f].num : f \in D \ E}
           F == [f \in Files |->
                    IF f \in D
                    THEN [PauseFile(s, f, FALSE).file[f] EXCEPT !.life = "gone", !.stopped = TRUE]
                    ELSE s.file[f]]
           K == [n \in Numbers |->
                    IF n \in N THEN NoDisk
                    ELSE IF n \in {s.file[f].num : f \in E}
                         THEN [s.disk[n] EXCEPT !.part = FALSE, !.good = {}]
                    ELSE s.disk[n]]
           C == [f \in Files |-> IF f \in E THEN {} ELSE s.copy[f]]
<1>1. s \in AppState /\ SP!Sound(s.sched) /\ SP!Placed(s.sched)
  BY DEF Fit
<1>2. r = [s EXCEPT !.file = F, !.disk = K, !.copy = C]
  BY Zenon DEF Delete
<1>3. F \in [Files -> PartFileState]
  <2>1. ASSUME NEW f \in Files PROVE PauseFile(s, f, FALSE).file[f] \in PartFileState
    <3>1. s.file[f] \in PartFileState
      BY <1>1, Parts1
    <3> QED
      BY <1>1, <3>1 DEF PauseFile, AppState, PartFileState
  <2>2. ASSUME NEW f \in Files
        PROVE  [PauseFile(s, f, FALSE).file[f] EXCEPT !.life = "gone", !.stopped = TRUE] \in PartFileState
    BY <2>1 DEF PartFileState
  <2>3. \A f \in Files : s.file[f] \in PartFileState
    BY <1>1, Parts1
  <2> QED
    BY <2>2, <2>3
<1>4. \A f \in D : F[f].life = "gone"
  <2>1. ASSUME NEW f \in Files PROVE PauseFile(s, f, FALSE).file[f] \in PartFileState
    <3>1. s.file[f] \in PartFileState
      BY <1>1, Parts1
    <3> QED
      BY <1>1, <3>1 DEF PauseFile, AppState, PartFileState
  <2> QED
    BY <2>1 DEF PartFileState
<1>5. \A f \in Files \ D : F[f] = s.file[f] /\ C[f] = s.copy[f]
  OBVIOUS
<1>6. K \in [Numbers -> DiskState]
  <2>1. NoDisk \in DiskState
    BY DEF NoDisk, DiskState
  <2>2. ASSUME NEW n \in Numbers
        PROVE  s.disk[n] \in DiskState /\ [s.disk[n] EXCEPT !.part = FALSE, !.good = {}] \in DiskState
    <3>1. s.disk[n] \in DiskState
      BY <1>1, Parts1
    <3> QED
      BY <3>1 DEF DiskState
  <2> QED
    BY <2>1, <2>2
<1>7. Kept => \A n \in Numbers \ N : K[n] = s.disk[n]
  BY DEF Deletable, Known
<1>8. C \in [Files -> SUBSET Parts]
  BY <1>1, Parts1
<1> HIDE DEF F, K, C
<1>9. /\ r \in AppState /\ r.file = F /\ r.disk = K /\ r.copy = C
      /\ r.cloning = s.cloning /\ r.source = s.source /\ r.events = s.events /\ r.sched = s.sched
  BY <1>1, <1>2, <1>3, <1>6, <1>8 DEF AppState
<1>10. /\ Waiting(r) = Waiting(s) /\ \A g \in Files : TasksOf(r, g) = TasksOf(s, g)
       /\ \A g \in Files : SameEvents(s, r, g) /\ (HasMoved(s, g) <=> HasMoved(r, g))
  BY <1>9, EqualEvents DEF Waiting, TasksOf
<1>11. \A g \in Files : Known(r, g) <=> Known(s, g) /\ g \notin D
  BY <1>4, <1>5, <1>9 DEF Known
<1>12. ASSUME Kept, NEW f \in D
       PROVE  /\ Known(s, f) /\ AwaitsOne(s, f) /\ ~HasMoved(s, f)
              /\ s.file[f].status # "COMPLETING"
  <2>1. Known(s, f) /\ s.file[f].status # "COMPLETING"
    BY <1>12 DEF Deletable
  <2>2. AwaitsOne(s, f)
    BY <2>1, KnownParts
  <2> QED
    BY <2>1, <2>2, MovedAwaitsNothing
<1>13. ASSUME NEW g \in Files \ D PROVE FileOK(r, g)
  <2>1. ASSUME Sole, Known(s, g), ~HasMoved(s, g)
        PROVE  Own(r, g) /\ r.disk[s.file[g].num] = s.disk[s.file[g].num]
    <3>1. ASSUME NEW f \in D PROVE s.file[f].num # s.file[g].num
      BY <1>12, <2>1, OwnersDiffer DEF Sole
    <3>2. s.file[g].num \notin N
      BY <3>1
    <3>3. s.file[g].num \in Numbers /\ KnownOK(s, g)
      BY <2>1, KnownParts
    <3>4. r.disk[s.file[g].num] = s.disk[s.file[g].num] /\ Own(s, g)
      BY <1>7, <1>9, <2>1, <3>2, <3>3 DEF KnownOK, DiskOK, Sole
    <3>5. \A l \in Files : Known(r, l) => Known(s, l) /\ r.file[l] = s.file[l]
      BY <1>5, <1>9, <1>11
    <3>6. r.file[g] = s.file[g]
      BY <1>5, <1>9
    <3> QED
      BY <1>10, <3>4, <3>5, <3>6, OwnKeeps
  <2>2. s.file[g].life # "saved" /\ r.file[g] = s.file[g] /\ r.copy[g] = s.copy[g]
    BY <1>5, <1>9
  <2>3. Spares(s, r, g)
    BY <1>10, <2>1, <2>2 DEF Spares
  <2> QED
    BY <2>3, SparedKeeps DEF Fit
<1>14. ASSUME NEW f \in D PROVE FileOK(r, f)
  BY <1>4, <1>9 DEF FileOK, Known
<1>15. Kept => \A t \in Waiting(r) : t.type = "Completing" =>
                  t \in Waiting(s) /\ (Known(s, t.owner) => Known(r, t.owner))
  <2> SUFFICES ASSUME Kept, NEW t \in Waiting(s), t.type = "Completing", Known(s, t.owner)
               PROVE  Known(r, t.owner)
    BY <1>10
  <2>1. t.owner \in Files
    BY <1>1, WaitingTasks
  <2>2. t.owner \notin D
    BY <1>12 DEF AwaitsOne, TasksOf
  <2> QED
    BY <1>11, <2>1, <2>2
<1>16. Kept => \A i \in DOMAIN r.events : r.events[i].type = "completed" =>
                  \/ Known(r, r.events[i].owner)
                  \/ \E j \in DOMAIN s.events :
                        /\ s.events[j] = r.events[i]
                        /\ Known(s, r.events[i].owner) => Known(r, r.events[i].owner)
  <2> SUFFICES ASSUME Kept, NEW i \in DOMAIN s.events, s.events[i].type = "completed"
               PROVE  Known(s, s.events[i].owner) => Known(r, s.events[i].owner)
    BY <1>9
  <2>1. s.events[i].owner \in Files
    BY <1>1, WaitingTasks
  <2>2. s.events[i].owner \notin D
    BY <1>12 DEF AwaitsOne, EventsOf
  <2> QED
    BY <1>11, <2>1, <2>2
<1>17. CloneOK(r)
  BY <1>9 DEF Fit, CloneOK
<1>18. Fit(r)
  BY <1>1, <1>9, <1>13, <1>14, <1>15, <1>16, <1>17, RestOfFit
<1> QED
  BY <1>4, <1>5, <1>9, <1>18

\* A message box is opened, or closed.
LEMMA BoxKeeps ==
    ASSUME NEW s, Fit(s), NEW B \in SUBSET Files, NEW r, r = [s EXCEPT !.box = B]
    PROVE  Fit(r) /\ r.sched = s.sched /\ r.file = s.file
<1>1. s \in AppState /\ SP!Sound(s.sched) /\ SP!Placed(s.sched)
  BY DEF Fit
<1>2. /\ r \in AppState /\ r.file = s.file /\ r.disk = s.disk /\ r.copy = s.copy
      /\ r.cloning = s.cloning /\ r.source = s.source /\ r.events = s.events /\ r.sched = s.sched
  BY <1>1 DEF AppState
<1>3. /\ Waiting(r) = Waiting(s) /\ \A g \in Files : TasksOf(r, g) = TasksOf(s, g)
      /\ \A g \in Files : SameEvents(s, r, g) /\ (HasMoved(s, g) <=> HasMoved(r, g))
      /\ \A g \in Files : Known(r, g) <=> Known(s, g)
  BY <1>2, EqualEvents DEF Waiting, TasksOf, Known
<1>4. ASSUME NEW g \in Files PROVE FileOK(r, g)
  <2>1. Sole /\ Known(s, g) /\ ~HasMoved(s, g) => Own(r, g)
    <3>1. Sole /\ Known(s, g) /\ ~HasMoved(s, g) => Own(s, g)
      BY KnownParts DEF KnownOK, DiskOK
    <3> QED
      BY <1>2, <1>3, <3>1 DEF Own
  <2>2. Spares(s, r, g)
    BY <1>2, <1>3, <2>1 DEF Spares
  <2> QED
    BY <2>2, SparedKeeps DEF Fit
<1>5. CompletingIsKnown(r)
  <2>1. CompletingIsKnown(s)
    BY DEF Fit
  <2>2. \A t \in Waiting(s) : t.type = "Completing" => t.owner \in Files
    BY <1>1, WaitingTasks
  <2>3. \A i \in DOMAIN s.events : s.events[i].owner \in Files
    BY <1>1, WaitingTasks
  <2> QED
    BY <1>2, <1>3, <2>1, <2>2, <2>3 DEF CompletingIsKnown
<1>6. CloneOK(r)
  BY <1>2 DEF Fit, CloneOK
<1> QED
  BY <1>1, <1>2, <1>4, <1>5, <1>6 DEF Fit

\* The number is used by no file that was not moved.
Available(s, n) == Sole => \A g \in Files : Known(s, g) /\ s.file[g].num = n => HasMoved(s, g)

\* On disk is a part file with its .met, which is f's.
Stored(d, f) == d.part = TRUE /\ d.met # NoMet /\ d.met.owner = f

\* ... or would be, had it not failed to be saved.
Stands(d, f) == d.part = TRUE /\ (Sole => Stored(d, f))

\* A file appears with such a number.
Appears(s, r, f, k, d) == r = SetDisk(SetFile(s, f, k), k.num, d)

LEMMA AppearKeeps ==
    ASSUME NEW s, Fit(s), NEW f \in Files, s.file[f].life \in {"absent", "saved"},
           NEW k \in PartFileState, k.life = "known", RecordOK(k), k.status # "ERROR",
           NEW d \in DiskState, Stands(d, f),
           Available(s, k.num),
           NEW r, Appears(s, r, f, k, d)
    PROVE  /\ Fit(r) /\ Free(r, f) /\ Known(r, f) /\ r.file[f] = k /\ r.disk[k.num] = d
           /\ r.sched = s.sched /\ r.events = s.events
           /\ \A g \in Files \ {f} : r.file[g] = s.file[g]
           /\ \A m \in Numbers \ {k.num} : r.disk[m] = s.disk[m]
<1> DEFINE n == k.num
           q == SetFile(s, f, k)
<1>1. s \in AppState /\ n \in Numbers
  BY DEF Fit, RecordOK
<1>2. /\ q \in AppState
      /\ q.file[f] = k /\ \A g \in Files \ {f} : q.file[g] = s.file[g]
      /\ q.disk = s.disk /\ q.copy = s.copy /\ q.cloning = s.cloning
      /\ q.source = s.source /\ q.events = s.events /\ q.sched = s.sched
  BY <1>1, FileSet
<1> HIDE DEF q
<1>3. /\ r \in AppState
      /\ r.disk[n] = d /\ \A m \in Numbers \ {n} : r.disk[m] = s.disk[m]
      /\ r.file = q.file /\ r.copy = s.copy /\ r.cloning = s.cloning
      /\ r.source = s.source /\ r.events = s.events /\ r.sched = s.sched
  BY <1>1, <1>2, DiskSet DEF q, Appears
<1>4. /\ Waiting(r) = Waiting(s) /\ \A g \in Files : TasksOf(r, g) = TasksOf(s, g)
      /\ \A g \in Files : /\ SameEvents(s, r, g) /\ (HasMoved(s, g) <=> HasMoved(r, g))
                          /\ EventsOf(r, g) = EventsOf(s, g)
  BY <1>3, EqualEvents DEF Waiting, TasksOf
<1>5. Known(r, f) /\ ~Known(s, f) /\ r.file[f] = k /\ \A g \in Files \ {f} : r.file[g] = s.file[g]
  BY <1>2, <1>3 DEF Known
<1>6. Free(r, f) /\ ~HasMoved(r, f) /\ EventsOf(r, f) = {} /\ TasksOf(r, f) = {}
  <2>1. Free(s, f)
    BY DEF Fit, FileOK
  <2> QED
    BY <1>4, <2>1 DEF Free, HasMoved
<1>7. ASSUME NEW g \in Files \ {f} PROVE FileOK(r, g)
  <2>1. ASSUME Sole, Known(s, g), ~HasMoved(s, g)
        PROVE  Own(r, g) /\ r.disk[s.file[g].num] = s.disk[s.file[g].num]
    <3>1. s.file[g].num # n
      BY <2>1 DEF Available, Stands
    <3>2. s.file[g].num \in Numbers /\ KnownOK(s, g)
      BY <2>1, KnownParts
    <3>3. r.disk[s.file[g].num] = s.disk[s.file[g].num] /\ Own(s, g)
      BY <1>3, <2>1, <3>1, <3>2 DEF KnownOK, DiskOK
    <3>4. \A l \in Files \ {g} : Known(r, l) /\ r.file[l].num = s.file[g].num =>
              Known(s, l) /\ s.file[l].num = r.file[l].num
      BY <1>5, <3>1 DEF Known
    <3> QED
      BY <1>4, <1>5, <3>3, <3>4, OwnKeeps
  <2>2. s.file[g].life = "saved" => s.file[g].num \in Numbers
    BY DEF Fit, FileOK
  <2>3. s.file[g].life = "saved" /\ s.disk[s.file[g].num].part = TRUE => r.disk[s.file[g].num].part = TRUE
    BY <1>3, <2>2 DEF Stands
  <2>4. Spares(s, r, g)
    BY <1>3, <1>4, <1>5, <2>1, <2>3 DEF Spares
  <2> QED
    BY <2>4, SparedKeeps DEF Fit
<1>8. FileOK(r, f)
  <2>1. AwaitsOne(r, f)
    BY <1>6 DEF AwaitsOne
  <2>2. Sole => Own(r, f)
    <3>1. \A g \in Files \ {f} : Known(r, g) => Known(s, g)
      BY <1>5 DEF Known
    <3> QED
      BY <1>3, <1>4, <1>5, <3>1 DEF Own, Available, Stands, Stored
  <2>3. Sole => DiskOK(r, f)
    <3>1. ~ToMove(r, f)
      BY <1>5, <1>6 DEF ToMove
    <3> QED
      BY <1>3, <1>5, <1>6, <2>2, <3>1 DEF DiskOK, Stands, Stored, Signs
  <2>4. KnownOK(r, f)
    BY <1>5, <1>6, <2>1, <2>3 DEF KnownOK
  <2> QED
    BY <1>5, <2>4 DEF FileOK, Known
<1>9. ASSUME NEW g \in Files, Known(s, g) PROVE Known(r, g)
  BY <1>5, <1>9 DEF Known
<1>10. Kept => \A t \in Waiting(r) : t.type = "Completing" =>
                  t \in Waiting(s) /\ (Known(s, t.owner) => Known(r, t.owner))
  <2> SUFFICES ASSUME NEW t \in Waiting(r), t.type = "Completing", Known(s, t.owner)
               PROVE  Known(r, t.owner)
    BY <1>4
  <2>1. t.owner \in Files
    BY <1>4, WaitingTasks DEF Fit
  <2> QED
    BY <1>9, <2>1
<1>11. Kept => \A i \in DOMAIN r.events : r.events[i].type = "completed" =>
                  \/ Known(r, r.events[i].owner)
                  \/ \E j \in DOMAIN s.events :
                        /\ s.events[j] = r.events[i]
                        /\ Known(s, r.events[i].owner) => Known(r, r.events[i].owner)
  <2> SUFFICES ASSUME NEW i \in DOMAIN s.events
               PROVE  Known(s, s.events[i].owner) => Known(r, s.events[i].owner)
    BY <1>3
  <2>1. s.events[i].owner \in Files
    BY WaitingTasks DEF Fit
  <2> QED
    BY <1>9, <2>1
<1>12. CloneOK(r) /\ SP!Sound(r.sched) /\ SP!Placed(r.sched)
  BY <1>3 DEF Fit, CloneOK
<1>13. Fit(r)
  BY <1>3, <1>7, <1>8, <1>10, <1>11, <1>12, RestOfFit
<1> QED
  BY <1>3, <1>5, <1>6, <1>13

\* What the loading of a part file leaves.
LEMMA LoadKeeps ==
    ASSUME NEW s, Fit(s), NEW f \in Files, s.file[f].life = "saved",
           Stored(s.disk[s.file[f].num], f),
           \A g \in Files : Known(s, g) => s.disk[s.file[g].num].met.owner = g,
           NEW r, r = LoadPartFile(s, f)
    PROVE  /\ Fit(r) /\ Adds(s, r) /\ r.events = s.events /\ r.sched.place = s.sched.place
           /\ r.disk = s.disk /\ Known(r, f) /\ r.file[f].num = s.file[f].num
           /\ \A g \in Files \ {f} : r.file[g] = s.file[g]
<1> DEFINE n == s.file[f].num
           m == s.disk[n].met
           k == [ life |-> "known", num |-> n,
                  status |-> IF m.filled # {} /\ Cardinality(Parts) > 1 THEN "READY" ELSE "EMPTY",
                  paused |-> m.paused, stopped |-> m.paused, insufficient |-> FALSE,
                  filled |-> m.filled, buffer |-> {}, good |-> {} ]
           q == SetFile(s, f, k)
<1>1. s \in AppState /\ n \in Numbers /\ s.disk[n] \in DiskState
  <2>1. s \in AppState /\ n \in Numbers
    BY DEF Fit, FileOK
  <2> QED
    BY <2>1, Parts1
<1>2. m \in [owner : Files, filled : SUBSET Parts, paused : BOOLEAN]
  BY <1>1 DEF DiskState, Stored
<1>3. m.filled \in SUBSET Parts /\ m.paused \in BOOLEAN
  BY <1>2
<1> HIDE DEF m
<1>4. /\ k \in PartFileState /\ k.life = "known" /\ k.num = n /\ k.buffer = {}
      /\ k.status \in {"READY", "EMPTY"} /\ k.filled = m.filled
  BY <1>1, <1>3 DEF PartFileState, Statuses
<1>5. r = IF IsComplete(q, f) THEN CompleteFile_Hash(q, f)
          ELSE IF s.disk[n].touched
          THEN AddTask([q EXCEPT !.file[f].status = "WAITINGFORHASH"], Task(q, "Hashing", f))
          ELSE q
  BY DEF LoadPartFile, SetFile, m
<1> HIDE DEF k
<1>6. RecordOK(k)
  BY <1>1, <1>4 DEF RecordOK
<1>7. q = SetDisk(q, n, s.disk[n]) /\ q \in AppState
  <2>1. q \in AppState /\ q.disk = s.disk
    BY <1>1, <1>4, FileSet
  <2> HIDE DEF q
  <2> QED
    BY <1>1, <2>1 DEF SetDisk, AppState
<1>8. Available(s, n)
  <2>1. \A g \in Files : Known(s, g) => g # f
    BY DEF Known
  <2> QED
    BY <2>1 DEF Available, Stored
<1>9. /\ Fit(q) /\ Free(q, f) /\ Known(q, f) /\ q.file[f] = k /\ q.disk[n] = s.disk[n]
      /\ q.sched = s.sched /\ q.events = s.events
      /\ \A g \in Files \ {f} : q.file[g] = s.file[g]
      /\ \A l \in Numbers \ {n} : q.disk[l] = s.disk[l]
  <2>1. q = SetDisk(SetFile(s, f, k), k.num, s.disk[n])
    BY <1>4, <1>7
  <2>2. Available(s, k.num)
    BY <1>4, <1>8
  <2>3. /\ s.disk[n] \in DiskState /\ Stands(s.disk[n], f) /\ k.status # "ERROR" /\ s.file[f].life \in {"absent", "saved"}
    BY <1>1, <1>4 DEF Stands, Stored
  <2> HIDE DEF q
  <2>4. Appears(s, q, f, k, s.disk[n])
    BY <2>1 DEF Appears
  <2>5. /\ Fit(q) /\ Free(q, f) /\ Known(q, f) /\ q.file[f] = k /\ q.disk[k.num] = s.disk[n]
        /\ q.sched = s.sched /\ q.events = s.events
        /\ \A g \in Files \ {f} : q.file[g] = s.file[g]
        /\ \A l \in Numbers \ {k.num} : q.disk[l] = s.disk[l]
    BY <1>4, <1>6, <2>2, <2>3, <2>4, AppearKeeps
  <2> QED
    BY <1>4, <2>5
<1>10. q.disk = s.disk
  BY <1>1, <1>4, FileSet
<1> HIDE DEF q
<1>11. CASE IsComplete(q, f) /\ r = CompleteFile_Hash(q, f)
  <2>1. Fit(r) /\ Within(q, r, f) /\ Adds(q, r) /\ r.disk = q.disk
    BY <1>4, <1>9, <1>11, CompleteHashKeeps
  <2> QED
    BY <1>4, <1>9, <1>10, <2>1 DEF Within, Adds
<1>12. CASE r = q
  BY <1>4, <1>9, <1>10, <1>12 DEF Adds
<1>13. CASE ~IsComplete(q, f) /\ r = AddTask([q EXCEPT !.file[f].status = "WAITINGFORHASH"], Task(q, "Hashing", f))
  <2> DEFINE j == [q.file[f] EXCEPT !.status = "WAITINGFORHASH"]
             y == SetFile(q, f, j)
  <2>1. q.file[f] \in PartFileState /\ q.file[f].life = "known"
    BY <1>4, <1>9
  <2>2. /\ j \in PartFileState /\ j.life = "known" /\ j.num = q.file[f].num /\ j.status = "WAITINGFORHASH"
        /\ j.buffer = q.file[f].buffer
    BY <2>1 DEF PartFileState, Statuses
  <2>3. RecordOK(j)
    BY <1>4, <1>6, <1>9, <2>2 DEF RecordOK
  <2>4. y = [q EXCEPT !.file[f].status = "WAITINGFORHASH"]
    BY <1>7 DEF AppState, SetFile
  <2> HIDE DEF j
  <2>5. Fit(y) /\ Free(y, f) /\ Calm(q, y, f) /\ y.file[f] = j /\ y.disk = q.disk
    BY <1>9, <2>2, <2>3, FreeFileChange
  <2>6. r = AddTask(y, Task(y, "Hashing", f))
    BY <1>13, <2>2, <2>4, <2>5 DEF Task
  <2> HIDE DEF y
  <2>7. Known(y, f) /\ y.sched = q.sched
    BY <2>5 DEF Calm, Within
  <2>8. /\ Fit(r) /\ Within(y, r, f) /\ r.disk = y.disk
        /\ \E t \in PartTasks : r.sched = S!AddTask(y.sched, t)
    BY <2>2, <2>5, <2>6, <2>7, AddKeepsFit
  <2>9. Within(q, r, f)
    BY <2>5, <2>8, WithinSteps DEF Calm
  <2> QED
    BY <1>4, <1>9, <1>10, <2>5, <2>7, <2>8, <2>9 DEF Within, Adds
<1> QED
  BY <1>5, <1>11, <1>12, <1>13

----------------------------------------------------------------------------
(* The turns of tasks                                                      *)

\* An event is posted for f.
LEMMA PostedEvents ==
    ASSUME NEW s \in AppState, NEW e \in Events, NEW r, r.events = Append(s.events, e)
    PROVE  LET n == Len(s.events) + 1
           IN  /\ r.events[n] = e /\ n \notin DOMAIN s.events
               /\ DOMAIN r.events = DOMAIN s.events \union {n}
               /\ \A i \in DOMAIN s.events : r.events[i] = s.events[i]
               /\ EventsOf(r, e.owner) = EventsOf(s, e.owner) \union {n}
               /\ \A g : g # e.owner =>
                     /\ EventsOf(r, g) = EventsOf(s, g) /\ SameEvents(s, r, g)
                     /\ HasMoved(s, g) <=> HasMoved(r, g)
<1> DEFINE n == Len(s.events) + 1
<1>1. s.events \in Seq(Events)
  BY DEF AppState
<1>2. /\ r.events[n] = e /\ n \notin DOMAIN s.events
      /\ DOMAIN r.events = DOMAIN s.events \union {n}
      /\ \A i \in DOMAIN s.events : r.events[i] = s.events[i]
  BY <1>1, AppendProperties
<1> HIDE DEF n
<1>3. EventsOf(r, e.owner) = EventsOf(s, e.owner) \union {n}
  BY <1>2 DEF EventsOf
<1>4. ASSUME NEW g, g # e.owner
      PROVE  /\ EventsOf(r, g) = EventsOf(s, g) /\ SameEvents(s, r, g)
             /\ HasMoved(s, g) <=> HasMoved(r, g)
  <2> DEFINE h == [i \in EventsOf(r, g) |-> i]
  <2>1. /\ EventsOf(r, g) = EventsOf(s, g)
        /\ \A i \in EventsOf(s, g) : r.events[i] = s.events[i]
    BY <1>2, <1>4 DEF EventsOf
  <2>2. HasMoved(s, g) <=> HasMoved(r, g)
    BY <2>1 DEF HasMoved
  <2>3. /\ h \in [EventsOf(r, g) -> EventsOf(s, g)]
        /\ \A i \in EventsOf(r, g) : r.events[i] = s.events[h[i]]
        /\ \A i, j \in EventsOf(r, g) : h[i] = h[j] => i = j
    BY <2>1
  <2> HIDE DEF h
  <2> QED
    BY <2>1, <2>2, <2>3 DEF SameEvents
<1> QED
  BY <1>2, <1>3, <1>4 DEF n

\* The current task has ended.
Exits(s, r) ==
    /\ r \in AppState /\ SP!Sound(r.sched) /\ SP!Placed(r.sched)
    /\ s.sched.place = "picked" /\ r.sched = [s.sched EXCEPT !.place = "exited"]
    /\ r.file = s.file /\ r.cloning = FALSE

LEMMA ExitWaits ==
    ASSUME NEW s, Fit(s), NEW r, Exits(s, r)
    PROVE  /\ s.sched.current \in Waiting(s) /\ Waiting(r) = Waiting(s) \ {s.sched.current}
           /\ CloneOK(r) /\ \A g \in Files : TasksOf(r, g) \subseteq TasksOf(s, g)
           /\ \A g \in Files : Known(r, g) <=> Known(s, g)
<1>1. SP!Sound(s.sched) /\ SP!Placed(s.sched) /\ s.sched \in SP!SchedulerState
  BY DEF Fit, SP!Sound
<1>2. s.sched.current \notin SP!QueuedTasks(s.sched)
  BY <1>1, TasksAreFit, SP!WaitingOnce DEF SP!TasksAssumption, Exits
<1>3. r.sched.tasks = s.sched.tasks /\ r.sched.place = "exited"
  BY <1>1 DEF Exits, SP!SchedulerState
<1>4. /\ Waiting(s) = SP!QueuedTasks(s.sched) \union {s.sched.current}
      /\ Waiting(r) = SP!QueuedTasks(s.sched)
  BY <1>3 DEF Waiting, SP!Waiting, SP!QueuedTasks, Exits
<1>5. CloneOK(r)
  BY DEF Exits, CloneOK
<1> QED
  BY <1>2, <1>4, <1>5 DEF TasksOf, Known, Exits

\* It tells nobody.
LEMMA SilentTurnKeeps ==
    ASSUME NEW s, Fit(s), NEW r, Exits(s, r), r.events = s.events, r.disk = s.disk, r.copy = s.copy
    PROVE  Fit(r)
<1>1. /\ Waiting(r) \subseteq Waiting(s) /\ CloneOK(r)
      /\ \A g \in Files : TasksOf(r, g) \subseteq TasksOf(s, g) /\ (Known(r, g) <=> Known(s, g))
  BY ExitWaits
<1>2. \A g \in Files : SameEvents(s, r, g) /\ (HasMoved(s, g) <=> HasMoved(r, g))
  BY EqualEvents
<1>3. ASSUME NEW g \in Files PROVE FileOK(r, g)
  <2>1. Sole /\ Known(s, g) /\ ~HasMoved(s, g) => Own(r, g)
    <3>1. Sole /\ Known(s, g) /\ ~HasMoved(s, g) => Own(s, g)
      BY KnownParts DEF KnownOK, DiskOK
    <3> QED
      BY <1>1, <1>2, <3>1 DEF Own, Exits
  <2>2. Spares(s, r, g)
    BY <1>1, <1>2, <2>1 DEF Spares, Exits
  <2> QED
    BY <2>2, SparedKeeps DEF Fit
<1>4. CompletingIsKnown(r)
  <2>1. ASSUME Kept, NEW t \in Waiting(r), t.type = "Completing" PROVE Known(r, t.owner)
    <3>1. Known(s, t.owner) /\ t.owner \in Files
      BY <1>1, <2>1, WaitingTasks DEF Fit, CompletingIsKnown
    <3> QED
      BY <1>1, <3>1
  <2>2. ASSUME Kept, NEW i \in DOMAIN r.events, r.events[i].type = "completed"
        PROVE  Known(r, r.events[i].owner)
    <3>1. Known(s, r.events[i].owner) /\ r.events[i].owner \in Files
      BY <2>2, WaitingTasks DEF Fit, CompletingIsKnown
    <3> QED
      BY <1>1, <3>1
  <2> QED
    BY <2>1, <2>2 DEF CompletingIsKnown
<1> QED
  BY <1>1, <1>3, <1>4 DEF Fit, Exits

\* What the event of the ended task t says: what a hashing has read, or how a
\* completion ended.
Tells(s, t, e) ==
    \/ e.type = "hashed" /\ t.type = "Hashing" /\ e.good = s.disk[t.num].good
    \/ e.type = "completed" /\ t.type = "Completing" /\ e.error = TRUE

TellsOfMove(t, e) == e.type = "completed" /\ t.type = "Completing" /\ e.error = FALSE

\* The task of a file has ended, and its event e is posted.
Posts(s, r, e) ==
    /\ Exits(s, r) /\ s.sched.current \in PartTasks
    /\ e \in Events /\ e.owner = s.sched.current.owner /\ r.events = Append(s.events, e)

LEMMA PostingTurn ==
    ASSUME NEW s, Fit(s), NEW r, NEW e, Posts(s, r, e),
           Tells(s, s.sched.current, e) \/ TellsOfMove(s.sched.current, e)
    PROVE  LET t == s.sched.current
               f == t.owner
           IN  /\ f \in Files /\ t \in TasksOf(s, f) /\ s.file[f].life \notin {"absent", "saved"}
               /\ Kept /\ t.type = "Completing" => Known(s, f)
               /\ CompletingIsKnown(r)
               /\ Known(s, f) =>
                     /\ KnownOK(s, f) /\ ~HasMoved(s, f) /\ t.num = s.file[f].num
                     /\ TasksOf(r, f) = {} /\ EventsOf(r, f) = {Len(s.events) + 1}
                     /\ r.events[Len(s.events) + 1] = e
                     /\ EventsOf(s, f) = {} /\ AwaitsOne(r, f)
               /\ \A g \in Files \ {f} : EventsOf(r, g) = EventsOf(s, g)
<1> DEFINE t == s.sched.current
           f == t.owner
           n == Len(s.events) + 1
<1>0. /\ Exits(s, r) /\ t \in PartTasks
      /\ e \in Events /\ e.owner = f /\ r.events = Append(s.events, e)
  BY DEF Posts
<1>1. /\ t \in Waiting(s) /\ Waiting(r) = Waiting(s) \ {t}
      /\ \A g \in Files : Known(r, g) <=> Known(s, g)
  BY <1>0, ExitWaits
<1>2. f \in Files /\ t \in TasksOf(s, f) /\ s \in AppState
  BY <1>0, <1>1 DEF PartTasks, TasksOf, Fit
<1>3. s.file[f].life \notin {"absent", "saved"}
  BY <1>2 DEF Fit, FileOK, Free
<1>4. Kept /\ t.type = "Completing" => Known(s, f)
  BY <1>1 DEF Fit, CompletingIsKnown
<1>5. /\ r.events[n] = e /\ n \notin DOMAIN s.events
      /\ DOMAIN r.events = DOMAIN s.events \union {n}
      /\ \A i \in DOMAIN s.events : r.events[i] = s.events[i]
      /\ EventsOf(r, f) = EventsOf(s, f) \union {n}
      /\ \A g \in Files \ {f} : EventsOf(r, g) = EventsOf(s, g)
  <2> HIDE DEF f, t
  <2>1. r.events = Append(s.events, e) /\ e \in Events /\ s \in AppState /\ e.owner = f
    BY <1>0, <1>2
  <2>2. /\ r.events[n] = e /\ n \notin DOMAIN s.events
        /\ DOMAIN r.events = DOMAIN s.events \union {n}
        /\ \A i \in DOMAIN s.events : r.events[i] = s.events[i]
        /\ EventsOf(r, e.owner) = EventsOf(s, e.owner) \union {n}
    BY <2>1, PostedEvents
  <2>3. \A g : g # e.owner => EventsOf(r, g) = EventsOf(s, g)
    BY <2>1, PostedEvents
  <2> QED
    BY <2>1, <2>2, <2>3
<1> HIDE DEF n
<1>6. CompletingIsKnown(r)
  <2>1. ASSUME Kept, NEW u \in Waiting(r), u.type = "Completing" PROVE Known(r, u.owner)
    <3>1. Known(s, u.owner) /\ u.owner \in Files
      BY <1>1, <2>1, WaitingTasks DEF Fit, CompletingIsKnown
    <3> QED
      BY <1>1, <3>1
  <2>2. ASSUME Kept, NEW i \in DOMAIN r.events, r.events[i].type = "completed"
        PROVE  Known(r, r.events[i].owner)
    <3>1. CASE i = n
      <4>1. t.type = "Completing"
        BY <1>5, <2>2, <3>1 DEF Tells, TellsOfMove
      <4> QED
        BY <1>0, <1>1, <1>2, <1>4, <1>5, <2>2, <3>1, <4>1
    <3>2. CASE i \in DOMAIN s.events
      <4>1. Known(s, r.events[i].owner) /\ r.events[i].owner \in Files
        BY <1>5, <2>2, <3>2, WaitingTasks DEF Fit, CompletingIsKnown
      <4> QED
        BY <1>1, <4>1
    <3> QED
      BY <1>5, <2>2, <3>1, <3>2
  <2> QED
    BY <2>1, <2>2 DEF CompletingIsKnown
<1>7. ASSUME Known(s, f)
      PROVE  /\ KnownOK(s, f) /\ ~HasMoved(s, f) /\ t.num = s.file[f].num
             /\ TasksOf(r, f) = {} /\ EventsOf(r, f) = {n} /\ EventsOf(s, f) = {} /\ AwaitsOne(r, f)
  <2>1. KnownOK(s, f) /\ AwaitsOne(s, f)
    BY <1>2, <1>7, KnownParts
  <2>2. \A u \in TasksOf(s, f) : u = t
    BY <1>2, <2>1 DEF AwaitsOne
  <2>3. TasksOf(s, f) = {t} /\ TasksOf(r, f) = {}
    BY <1>1, <1>2, <2>2 DEF TasksOf
  <2>4. EventsOf(s, f) = {} /\ EventsOf(r, f) = {n}
    BY <1>5, <2>1, <2>3 DEF AwaitsOne
  <2>5. /\ t.num = s.file[f].num
        /\ \/ s.file[f].status = "COMPLETING"
           \/ s.file[f].status = "WAITINGFORHASH" /\ t.type = "Hashing"
    BY <1>2, <2>1 DEF AwaitsOne
  <2>6. ~HasMoved(s, f)
    BY <2>4 DEF HasMoved
  <2>7. r.file = s.file
    BY <1>0 DEF Exits
  <2>8. AwaitsOne(r, f)
    BY <1>5, <2>3, <2>4, <2>5, <2>7 DEF AwaitsOne, Tells, TellsOfMove
  <2> QED
    BY <2>1, <2>3, <2>4, <2>5, <2>6, <2>8
<1> QED
  BY <1>2, <1>3, <1>4, <1>5, <1>6, <1>7 DEF n

\* A hashing, or a completion that failed, is told.
LEMMA PostTurnKeeps ==
    ASSUME NEW s, Fit(s), NEW r, NEW e, Posts(s, r, e),
           Tells(s, s.sched.current, e), r.disk = s.disk, r.copy = s.copy
    PROVE  Fit(r)
<1> DEFINE t == s.sched.current
           f == t.owner
           n == Len(s.events) + 1
<1>1. /\ f \in Files /\ t \in TasksOf(s, f) /\ s.file[f].life \notin {"absent", "saved"}
      /\ CompletingIsKnown(r)
      /\ Known(s, f) =>
            /\ KnownOK(s, f) /\ ~HasMoved(s, f) /\ t.num = s.file[f].num
            /\ TasksOf(r, f) = {} /\ EventsOf(r, f) = {n} /\ r.events[n] = e
            /\ EventsOf(s, f) = {} /\ AwaitsOne(r, f)
  BY PostingTurn
<1>0. Exits(s, r) /\ e \in Events /\ e.owner = f /\ r.events = Append(s.events, e)
  BY DEF Posts
<1>2. /\ CloneOK(r) /\ s \in AppState
      /\ \A g \in Files : TasksOf(r, g) \subseteq TasksOf(s, g) /\ (Known(r, g) <=> Known(s, g))
  BY <1>0, ExitWaits DEF Fit
<1>3. \A g \in Files \ {f} : SameEvents(s, r, g) /\ (HasMoved(s, g) <=> HasMoved(r, g))
  BY <1>0, <1>2, PostedEvents
<1>4. Known(s, f) => ~HasMoved(r, f)
  BY <1>1 DEF HasMoved, Tells
<1>5. ASSUME Sole, NEW g \in Files, Known(s, g), ~HasMoved(s, g) PROVE Own(r, g)
  <2>1. Own(s, g)
    BY <1>5, KnownParts DEF KnownOK, DiskOK
  <2>2. \A l \in Files : Known(r, l) => Known(s, l) /\ (HasMoved(s, l) => HasMoved(r, l))
    BY <1>1, <1>2, <1>3
  <2> QED
    BY <1>0, <2>1, <2>2, OwnKeeps DEF Exits
<1>6. ASSUME NEW g \in Files \ {f} PROVE FileOK(r, g)
  <2>1. Spares(s, r, g)
    BY <1>0, <1>2, <1>3, <1>5, <1>6 DEF Spares, Exits
  <2> QED
    BY <2>1, SparedKeeps DEF Fit
<1>7. FileOK(r, f)
  <2>1. CASE ~Known(s, f)
    <3>1. FileOK(s, f) /\ ~Known(r, f) /\ r.file[f] = s.file[f] /\ r.copy = s.copy
      BY <1>0, <1>1, <1>2, <2>1 DEF Fit, Exits
    <3> QED
      BY <1>1, <3>1 DEF FileOK
  <2>2. CASE Known(s, f)
    <3>1. r.file = s.file
      BY <1>0 DEF Exits
    <3>2. RecordOK(r.file[f])
      BY <1>1, <2>2, <3>1 DEF KnownOK
    <3>3. Sole => DiskOK(r, f)
      <4>1. Sole => DiskOK(s, f) /\ Own(r, f)
        BY <1>1, <1>5, <2>2 DEF KnownOK
      <4>2. ToMove(r, f) => ToMove(s, f)
        BY <1>1, <2>2, <3>1 DEF ToMove, Tells
      <4>3. r.events[n].type = "hashed" => r.events[n].good = s.disk[s.file[f].num].good
        BY <1>1, <2>2 DEF Tells
      <4> QED
        BY <1>1, <2>2, <3>1, <4>1, <4>2, <4>3 DEF DiskOK
    <3>4. KnownOK(r, f)
      BY <1>1, <1>4, <2>2, <3>2, <3>3 DEF KnownOK
    <3> QED
      BY <2>2, <3>1, <3>4 DEF FileOK, Known
  <2> QED
    BY <2>1, <2>2
<1> QED
  BY <1>0, <1>1, <1>2, <1>6, <1>7 DEF Fit, Exits

\* Only what was under the task's number, and the copy of its file, are others.
MovesOnly(s, r) ==
    /\ \A m \in Numbers \ {s.sched.current.num} : r.disk[m] = s.disk[m]
    /\ \A g \in Files \ {s.sched.current.owner} : r.copy[g] = s.copy[g]

\* A file was moved, and this is told.
LEMMA MoveTurnKeeps ==
    ASSUME NEW s, Fit(s), NEW r, NEW e, Posts(s, r, e),
           \A g \in Files : s.file[g].life # "saved",
           TellsOfMove(s.sched.current, e),
           MovesOnly(s, r),
           Copies => r.copy[s.sched.current.owner] = Parts
    PROVE  Fit(r)
<1> DEFINE t == s.sched.current
           f == t.owner
           n == Len(s.events) + 1
<1>1. /\ f \in Files /\ t \in TasksOf(s, f) /\ s.file[f].life \notin {"absent", "saved"}
      /\ CompletingIsKnown(r) /\ (Kept => Known(s, f))
      /\ Known(s, f) =>
            /\ KnownOK(s, f) /\ ~HasMoved(s, f) /\ t.num = s.file[f].num
            /\ TasksOf(r, f) = {} /\ EventsOf(r, f) = {n} /\ r.events[n] = e
            /\ EventsOf(s, f) = {} /\ AwaitsOne(r, f)
  <2>1. t.type = "Completing"
    BY DEF TellsOfMove
  <2>2. Kept /\ t.type = "Completing" => Known(s, f)
    BY PostingTurn
  <2>3. /\ f \in Files /\ t \in TasksOf(s, f) /\ s.file[f].life \notin {"absent", "saved"}
        /\ CompletingIsKnown(r)
    BY PostingTurn
  <2>4. Known(s, f) =>
              /\ KnownOK(s, f) /\ ~HasMoved(s, f) /\ t.num = s.file[f].num
              /\ TasksOf(r, f) = {} /\ EventsOf(s, f) = {} /\ AwaitsOne(r, f)
    BY PostingTurn
  <2>5. Known(s, f) => EventsOf(r, f) = {n} /\ r.events[n] = e
    BY PostingTurn
  <2> QED
    BY <2>1, <2>2, <2>3, <2>4, <2>5
<1>0. Exits(s, r) /\ e \in Events /\ e.owner = f /\ r.events = Append(s.events, e)
  BY DEF Posts
<1>2. /\ CloneOK(r) /\ s \in AppState
      /\ \A g \in Files : TasksOf(r, g) \subseteq TasksOf(s, g) /\ (Known(r, g) <=> Known(s, g))
  BY <1>0, ExitWaits DEF Fit
<1>3. \A g \in Files \ {f} : SameEvents(s, r, g) /\ (HasMoved(s, g) <=> HasMoved(r, g))
  BY <1>0, <1>2, PostedEvents
<1>4. Known(s, f) => HasMoved(r, f)
  BY <1>1 DEF HasMoved, TellsOfMove
<1>5. ASSUME Sole, NEW g \in Files \ {f}, Known(s, g), ~HasMoved(s, g)
      PROVE  Own(r, g) /\ r.disk[s.file[g].num] = s.disk[s.file[g].num]
  <2>1. Own(s, g) /\ s.file[g].num \in Numbers
    BY <1>5, KnownParts DEF KnownOK, DiskOK
  <2>2. s.file[g].num # t.num
    BY <1>1, <1>5, OwnersDiffer DEF Sole
  <2>3. \A l \in Files : Known(r, l) => Known(s, l) /\ (HasMoved(s, l) => HasMoved(r, l))
    BY <1>2, <1>3, <1>4
  <2>4. r.disk[s.file[g].num] = s.disk[s.file[g].num]
    BY <2>1, <2>2 DEF MovesOnly
  <2> QED
    BY <1>0, <2>1, <2>3, <2>4, OwnKeeps DEF Exits
<1>6. ASSUME NEW g \in Files \ {f} PROVE FileOK(r, g)
  <2>1. Spares(s, r, g)
    BY <1>0, <1>2, <1>3, <1>5, <1>6 DEF Spares, Exits, MovesOnly
  <2> QED
    BY <2>1, SparedKeeps DEF Fit
<1>7. FileOK(r, f)
  <2>1. CASE ~Known(s, f)
    <3>1. FileOK(s, f) /\ ~Known(r, f) /\ r.file[f] = s.file[f] /\ ~Copies
      BY <1>0, <1>1, <1>2, <2>1 DEF Fit, Exits, Copies, Hashes, Sole
    <3> QED
      BY <1>1, <3>1 DEF FileOK
  <2>2. CASE Known(s, f)
    <3>1. r.file = s.file
      BY <1>0 DEF Exits
    <3>2. RecordOK(r.file[f])
      BY <1>1, <2>2, <3>1 DEF KnownOK
    <3>3. KnownOK(r, f)
      BY <1>1, <1>4, <2>2, <3>2 DEF KnownOK
    <3> QED
      BY <2>2, <3>1, <3>3 DEF FileOK, Known
  <2> QED
    BY <2>1, <2>2
<1> QED
  BY <1>0, <1>1, <1>2, <1>6, <1>7 DEF Fit, Exits

\* What is moved, was hashed as a whole before.
LEMMA MovedIsWhole ==
    ASSUME NEW s, Fit(s), s.sched.place = "picked", s.sched.current \in PartTasks,
           s.sched.current.type = "Completing", Hashes
    PROVE  s.disk[s.sched.current.num].good = Parts /\ Known(s, s.sched.current.owner)
<1> DEFINE t == s.sched.current
           f == t.owner
<1>1. t \in Waiting(s)
  BY DEF Waiting, SP!Waiting
<1>2. f \in Files /\ t \in TasksOf(s, f) /\ t.type = "Completing"
  BY <1>1 DEF PartTasks, TasksOf
<1>3. Known(s, f) /\ Sole
  BY <1>1 DEF Fit, CompletingIsKnown, Hashes, Sole
<1> HIDE DEF t, f
<1>4. KnownOK(s, f) /\ AwaitsOne(s, f)
  BY <1>2, <1>3, KnownParts
<1>5. ~HasMoved(s, f) /\ t.num = s.file[f].num
  BY <1>2, <1>4, MovedAwaitsNothing DEF AwaitsOne
<1>6. s.disk[t.num].good = Parts
  BY <1>2, <1>3, <1>4, <1>5 DEF KnownOK, DiskOK, ToMove
<1> QED
  BY <1>3, <1>6 DEF t, f

\* A completion starts to copy.
Clones(s, r) ==
    r = [s EXCEPT !.cloning = TRUE, !.source = s.disk[s.sched.current.num].good,
                  !.copy[s.sched.current.owner] = {}]

LEMMA CloneKeeps ==
    ASSUME NEW s, Fit(s), s.sched.place = "picked", s.sched.current \in PartTasks,
           s.sched.current.type = "Completing", \A g \in Files : s.file[g].life # "saved",
           NEW r, Clones(s, r)
    PROVE  Fit(r)
<1> DEFINE t == s.sched.current
           f == t.owner
           d == s.disk[t.num].good
           c == [s.copy EXCEPT ![f] = {}]
<1>1. s \in AppState /\ t \in Waiting(s)
  BY DEF Fit, Waiting, SP!Waiting
<1>2. f \in Files /\ t.num \in Numbers /\ t \in TasksOf(s, f)
  BY <1>1 DEF PartTasks, TasksOf
<1>3. s.disk[t.num] \in DiskState
  BY <1>1, <1>2, Parts1
<1>4. d \in SUBSET Parts
  BY <1>3 DEF DiskState
<1>5. r = [s EXCEPT !.cloning = TRUE, !.source = d, !.copy = c]
  BY <1>1 DEF Clones, AppState
<1>6. Hashes => d = Parts
  BY MovedIsWhole
<1> HIDE DEF d
<1>7. c \in [Files -> SUBSET Parts] /\ \A g \in Files \ {f} : c[g] = s.copy[g]
  BY <1>1, <1>2 DEF AppState
<1> HIDE DEF c
<1>8. r \in AppState
  BY <1>1, <1>4, <1>5, <1>7 DEF AppState
<1>9. /\ r.file = s.file /\ r.disk = s.disk /\ r.events = s.events /\ r.sched = s.sched
      /\ r.source = d /\ \A g \in Files \ {f} : r.copy[g] = s.copy[g]
  BY <1>1, <1>5, <1>7 DEF AppState
<1>10. /\ Waiting(r) = Waiting(s) /\ \A g \in Files : TasksOf(r, g) = TasksOf(s, g)
       /\ \A g \in Files : /\ SameEvents(s, r, g) /\ (HasMoved(s, g) <=> HasMoved(r, g))
                           /\ EventsOf(r, g) = EventsOf(s, g)
       /\ \A g \in Files : Known(r, g) <=> Known(s, g)
  BY <1>9, EqualEvents DEF Waiting, TasksOf, Known
<1>11. \A g \in Files : Own(s, g) => Own(r, g)
  BY <1>9, <1>10 DEF Own
<1>12. ASSUME NEW g \in Files \ {f} PROVE FileOK(r, g)
  <2>1. Sole /\ Known(s, g) /\ ~HasMoved(s, g) => Own(s, g)
    BY KnownParts DEF KnownOK, DiskOK
  <2>2. Spares(s, r, g)
    BY <1>9, <1>10, <1>11, <2>1 DEF Spares
  <2> QED
    BY <2>2, SparedKeeps DEF Fit
<1>13. FileOK(r, f)
  <2>1. CASE ~Known(s, f)
    <3>1. s.file[f].life \notin {"absent", "saved"}
      BY <1>2 DEF Fit, FileOK, Free
    <3>2. ~Copies
      BY <1>1, <2>1 DEF Fit, CompletingIsKnown, Copies, Hashes, Sole
    <3>3. ~Known(r, f)
      BY <1>10, <1>2, <2>1
    <3> QED
      BY <1>9, <3>1, <3>2, <3>3 DEF FileOK
  <2>2. CASE Known(s, f)
    <3>1. KnownOK(s, f) /\ AwaitsOne(s, f)
      BY <1>2, <2>2, KnownParts
    <3>2. ~HasMoved(s, f) /\ ~HasMoved(r, f)
      BY <1>2, <1>10, <3>1, MovedAwaitsNothing
    <3>0. /\ r.file[f] = s.file[f] /\ r.events = s.events /\ r.disk = s.disk
          /\ TasksOf(r, f) = TasksOf(s, f) /\ EventsOf(r, f) = EventsOf(s, f)
      BY <1>2, <1>9, <1>10
    <3> HIDE DEF f, t
    <3>3. AwaitsOne(r, f)
      BY <3>0, <3>1 DEF AwaitsOne
    <3>4. Sole => DiskOK(r, f)
      <4>1. ToMove(r, f) => ToMove(s, f)
        BY <3>0 DEF ToMove
      <4>2. Sole => DiskOK(s, f)
        BY <3>1, <3>2 DEF KnownOK
      <4> QED
        <5>1. Sole => Own(r, f)
          BY <1>2, <1>11, <4>2 DEF DiskOK
        <5> QED
          BY <3>0, <4>1, <4>2, <5>1 DEF DiskOK
    <3>5. KnownOK(r, f)
      BY <1>9, <3>1, <3>2, <3>3, <3>4 DEF KnownOK
    <3> QED
      BY <2>2, <1>9, <3>5 DEF FileOK, Known
  <2> QED
    BY <2>1, <2>2
<1>14. CompletingIsKnown(r)
  <2>1. CompletingIsKnown(s)
    BY DEF Fit
  <2>2. ASSUME Kept, NEW u \in Waiting(r), u.type = "Completing" PROVE Known(r, u.owner)
    <3>1. u.owner \in Files
      BY <1>10, <2>2, WaitingTasks DEF Fit
    <3> QED
      BY <1>10, <2>1, <2>2, <3>1 DEF CompletingIsKnown
  <2>3. ASSUME Kept, NEW i \in DOMAIN r.events, r.events[i].type = "completed"
        PROVE  Known(r, r.events[i].owner)
    <3>1. r.events[i].owner \in Files
      BY <1>9, WaitingTasks DEF Fit
    <3> QED
      BY <1>9, <1>10, <2>1, <2>3, <3>1 DEF CompletingIsKnown
  <2> QED
    BY <2>2, <2>3 DEF CompletingIsKnown
<1>15. CloneOK(r)
  BY <1>6, <1>9 DEF CloneOK
<1> QED
  BY <1>8, <1>9, <1>12, <1>13, <1>14, <1>15 DEF Fit

\* The scheduler goes on, with at most a task waiting that is of no part file.
LEMMA SchedKeeps ==
    ASSUME NEW s, Fit(s), s.sched.place # "picked", NEW x, SP!Sound(x), SP!Placed(x),
           SP!Waiting(x) \subseteq Waiting(s) \union {Sync}, NEW r, r = [s EXCEPT !.sched = x]
    PROVE  Fit(r)
<1>1. /\ r \in AppState
      /\ r.file = s.file /\ r.disk = s.disk /\ r.copy = s.copy /\ r.cloning = s.cloning
      /\ r.source = s.source /\ r.events = s.events /\ r.sched = x
  BY SchedSet DEF Fit
<1>2. Sync.owner \notin Files /\ Sync.type # "Completing"
  BY FilesAssumption DEF Sync, FilesAssumption
<1>3. /\ \A g \in Files : TasksOf(r, g) \subseteq TasksOf(s, g) /\ (Known(r, g) <=> Known(s, g))
      /\ \A g \in Files : SameEvents(s, r, g) /\ (HasMoved(s, g) <=> HasMoved(r, g))
  BY <1>1, <1>2, EqualEvents DEF Waiting, TasksOf, Known
<1>4. ASSUME NEW g \in Files PROVE FileOK(r, g)
  <2>1. Sole /\ Known(s, g) /\ ~HasMoved(s, g) => Own(r, g)
    <3>1. Sole /\ Known(s, g) /\ ~HasMoved(s, g) => Own(s, g)
      BY KnownParts DEF KnownOK, DiskOK
    <3> QED
      BY <1>1, <1>3, <3>1 DEF Own
  <2>2. Spares(s, r, g)
    BY <1>1, <1>3, <2>1 DEF Spares
  <2> QED
    BY <2>2, SparedKeeps DEF Fit
<1>5. CompletingIsKnown(r)
  <2>1. CompletingIsKnown(s)
    BY DEF Fit
  <2>2. ASSUME Kept, NEW u \in Waiting(r), u.type = "Completing" PROVE Known(r, u.owner)
    <3>1. u \in Waiting(s)
      BY <1>1, <1>2, <2>2 DEF Waiting
    <3>2. u.owner \in Files
      BY <2>2, <3>1, WaitingTasks DEF Fit
    <3> QED
      BY <1>3, <2>1, <2>2, <3>1, <3>2 DEF CompletingIsKnown
  <2>3. ASSUME Kept, NEW i \in DOMAIN r.events, r.events[i].type = "completed"
        PROVE  Known(r, r.events[i].owner)
    <3>1. r.events[i].owner \in Files
      BY <1>1, WaitingTasks DEF Fit
    <3> QED
      BY <1>1, <1>3, <2>1, <2>3, <3>1 DEF CompletingIsKnown
  <2> QED
    BY <2>2, <2>3 DEF CompletingIsKnown
<1>6. CloneOK(r)
  BY <1>1 DEF Fit, CloneOK
<1> QED
  BY <1>1, <1>4, <1>5, <1>6 DEF Fit

----------------------------------------------------------------------------
(* The events                                                              *)

\* The first event is taken.
Pops(s, q) == s.events # << >> /\ q = [s EXCEPT !.events = Tail(@)]

\* It says that its file was moved.
SaysMoved(e) == e.type = "completed" /\ e.error = FALSE

LEMMA PoppedEvents ==
    ASSUME NEW s \in AppState, NEW q, Pops(s, q)
    PROVE  /\ q \in AppState /\ q.file = s.file /\ q.disk = s.disk /\ q.copy = s.copy
           /\ q.cloning = s.cloning /\ q.source = s.source /\ q.sched = s.sched
           /\ Head(s.events) = s.events[1] /\ s.events[1] \in Events /\ 1 \in DOMAIN s.events
           /\ \A i \in DOMAIN q.events : i + 1 \in DOMAIN s.events /\ q.events[i] = s.events[i + 1] /\ i + 1 # 1
           /\ \A i \in DOMAIN s.events : i # 1 => i - 1 \in DOMAIN q.events /\ q.events[i - 1] = s.events[i]
<1>1. s.events \in Seq(Events) /\ s.events # << >>
  BY DEF AppState, Pops
<1>2. Tail(s.events) \in Seq(Events)
  BY <1>1
<1>3. /\ q \in AppState /\ q.file = s.file /\ q.disk = s.disk /\ q.copy = s.copy
      /\ q.cloning = s.cloning /\ q.source = s.source /\ q.sched = s.sched /\ q.events = Tail(s.events)
  BY <1>2 DEF AppState, Pops
<1>4. Len(s.events) \in Nat /\ Len(s.events) > 0 /\ DOMAIN s.events = 1..Len(s.events)
  BY <1>1
<1>5. 1 \in DOMAIN s.events /\ s.events[1] \in Events /\ Head(s.events) = s.events[1]
  BY <1>1, <1>4
<1>6. /\ DOMAIN q.events = 1..(Len(s.events) - 1)
      /\ \A i \in 1..(Len(s.events) - 1) : q.events[i] = s.events[i + 1]
  BY <1>1, <1>3
<1> QED
  BY <1>3, <1>4, <1>5, <1>6

LEMMA PoppedOthers ==
    ASSUME NEW s \in AppState, NEW q, Pops(s, q), NEW g
    PROVE  /\ SameEvents(s, q, g)
           /\ \A i \in EventsOf(q, g) : i + 1 \in EventsOf(s, g) /\ i + 1 # 1
           /\ g # s.events[1].owner => (HasMoved(s, g) <=> HasMoved(q, g))
<1> DEFINE h == [i \in EventsOf(q, g) |-> i + 1]
<1>1. /\ \A i \in DOMAIN q.events : i + 1 \in DOMAIN s.events /\ q.events[i] = s.events[i + 1] /\ i + 1 # 1
      /\ \A i \in DOMAIN s.events : i # 1 => i - 1 \in DOMAIN q.events /\ q.events[i - 1] = s.events[i]
      /\ DOMAIN q.events \subseteq Int
  <2>1. q.events \in Seq(Events)
    BY PoppedEvents, Parts1
  <2>2. DOMAIN q.events \subseteq Int
    BY <2>1
  <2> QED
    BY <2>2, PoppedEvents
<1>2. \A i \in EventsOf(q, g) : i + 1 \in EventsOf(s, g) /\ i + 1 # 1 /\ q.events[i] = s.events[i + 1] /\ i \in Int
  BY <1>1 DEF EventsOf
<1>3. /\ h \in [EventsOf(q, g) -> EventsOf(s, g)]
      /\ \A i \in EventsOf(q, g) : q.events[i] = s.events[h[i]]
      /\ \A i, j \in EventsOf(q, g) : h[i] = h[j] => i = j
  BY <1>2
<1> HIDE DEF h
<1>4. SameEvents(s, q, g)
  BY <1>3 DEF SameEvents
<1>5. ASSUME g # s.events[1].owner PROVE HasMoved(s, g) <=> HasMoved(q, g)
  <2>1. ASSUME NEW i \in EventsOf(s, g) PROVE i - 1 \in EventsOf(q, g) /\ q.events[i - 1] = s.events[i]
    <3>1. i \in DOMAIN s.events /\ s.events[i].owner = g
      BY DEF EventsOf
    <3>2. i # 1
      BY <1>5, <3>1
    <3>3. i - 1 \in DOMAIN q.events /\ q.events[i - 1] = s.events[i]
      BY <1>1, <3>1, <3>2
    <3> QED
      BY <3>1, <3>3 DEF EventsOf
  <2> QED
    BY <1>2, <2>1 DEF HasMoved
<1> QED
  BY <1>2, <1>4, <1>5

\* The taken event said of no known file that it was moved.
LEMMA PopKeeps ==
    ASSUME NEW s, Fit(s), NEW q, Pops(s, q),
           ~(Known(s, Head(s.events).owner) /\ SaysMoved(Head(s.events)))
    PROVE  LET e == Head(s.events)
               f == e.owner
           IN  /\ Fit(q) /\ f \in Files /\ e \in Events
               /\ q.file = s.file /\ q.disk = s.disk /\ q.sched = s.sched
               /\ Known(s, f) =>
                     /\ Known(q, f) /\ Free(q, f)
                     /\ s.file[f].status \in {"COMPLETING", "WAITINGFORHASH"}
                     /\ e.type = "hashed" /\ Sole => e.good = s.disk[s.file[f].num].good
                     /\ e.type = "completed" =>
                           /\ s.file[f].status = "COMPLETING"
                           /\ Hashes => s.disk[s.file[f].num].good = Parts
<1> DEFINE e == s.events[1]
           f == e.owner
<1>1. /\ s \in AppState /\ SP!Sound(s.sched) /\ SP!Placed(s.sched)
  BY DEF Fit
<1>2. /\ q \in AppState /\ q.file = s.file /\ q.disk = s.disk /\ q.copy = s.copy
      /\ q.cloning = s.cloning /\ q.source = s.source /\ q.sched = s.sched
      /\ Head(s.events) = e /\ e \in Events /\ 1 \in DOMAIN s.events
      /\ \A i \in DOMAIN q.events : i + 1 \in DOMAIN s.events /\ q.events[i] = s.events[i + 1]
  BY <1>1, PoppedEvents
<1>3. f \in Files /\ 1 \in EventsOf(s, f) /\ ~(Known(s, f) /\ SaysMoved(e))
  BY <1>2 DEF Events, EventsOf
<1> HIDE DEF f
<1>4. /\ \A g \in Files : SameEvents(s, q, g)
      /\ \A i \in EventsOf(q, f) : i + 1 \in EventsOf(s, f) /\ i + 1 # 1
      /\ \A g \in Files \ {f} : HasMoved(s, g) <=> HasMoved(q, g)
  BY <1>1, PoppedOthers DEF f
<1>5. /\ Waiting(q) = Waiting(s) /\ \A g \in Files : TasksOf(q, g) = TasksOf(s, g)
      /\ \A g \in Files : Known(q, g) <=> Known(s, g)
  BY <1>2 DEF Waiting, TasksOf, Known
<1>6. ASSUME Known(s, f)
      PROVE  /\ KnownOK(s, f) /\ AwaitsOne(s, f) /\ RecordOK(s.file[f])
             /\ TasksOf(q, f) = {} /\ EventsOf(q, f) = {}
             /\ ~HasMoved(s, f) /\ ~HasMoved(q, f)
             /\ s.file[f].status \in {"COMPLETING", "WAITINGFORHASH"}
             /\ e.type = "completed" => s.file[f].status = "COMPLETING"
             /\ Sole => DiskOK(s, f)
  <2>1. KnownOK(s, f) /\ AwaitsOne(s, f) /\ RecordOK(s.file[f])
    BY <1>3, <1>6, KnownParts
  <2>2. \A i \in EventsOf(s, f) : i = 1
    BY <1>3, <2>1 DEF AwaitsOne
  <2>3. TasksOf(q, f) = {} /\ EventsOf(q, f) = {}
    BY <1>3, <1>4, <1>5, <2>1, <2>2 DEF AwaitsOne
  <2>4. ~HasMoved(s, f) /\ ~HasMoved(q, f)
    BY <1>3, <1>6, <2>2, <2>3 DEF HasMoved, SaysMoved
  <2>5. /\ s.file[f].status \in {"COMPLETING", "WAITINGFORHASH"}
        /\ e.type = "completed" => s.file[f].status = "COMPLETING"
    BY <1>3, <2>1 DEF AwaitsOne
  <2> QED
    BY <2>1, <2>3, <2>4, <2>5 DEF KnownOK
<1>7. ASSUME Sole, NEW g \in Files, Known(s, g), ~HasMoved(s, g) PROVE Own(q, g)
  <2>1. Own(s, g)
    BY <1>7, KnownParts DEF KnownOK, DiskOK
  <2>2. \A l \in Files : Known(q, l) => Known(s, l) /\ (HasMoved(s, l) => HasMoved(q, l))
    BY <1>4, <1>5, <1>6
  <2> QED
    BY <1>2, <2>1, <2>2, OwnKeeps
<1>8. ASSUME NEW g \in Files \ {f} PROVE FileOK(q, g)
  <2>1. Spares(s, q, g)
    BY <1>2, <1>4, <1>5, <1>7, <1>8 DEF Spares
  <2> QED
    BY <2>1, SparedKeeps DEF Fit
<1>9. FileOK(q, f)
  <2>1. CASE ~Known(s, f)
    <3>1. FileOK(s, f) /\ ~Known(q, f) /\ EventsOf(s, f) # {}
      BY <1>3, <1>5, <2>1 DEF Fit
    <3> QED
      BY <1>2, <3>1 DEF FileOK, Free
  <2>2. CASE Known(s, f)
    <3>1. AwaitsOne(q, f) /\ RecordOK(q.file[f])
      BY <1>2, <1>6, <2>2 DEF AwaitsOne
    <3>2. Sole => DiskOK(q, f)
      <4>1. ToMove(q, f) => ToMove(s, f)
        BY <1>2, <1>6, <2>2 DEF ToMove
      <4>2. Sole => Own(q, f)
        BY <1>3, <1>6, <1>7, <2>2
      <4> QED
        BY <1>2, <1>6, <2>2, <4>1, <4>2 DEF DiskOK
    <3>3. KnownOK(q, f)
      BY <1>6, <2>2, <3>1, <3>2 DEF KnownOK
    <3> QED
      BY <1>2, <2>2, <3>3 DEF FileOK, Known
  <2> QED
    BY <2>1, <2>2
<1>10. Fit(q)
  <2>1. CloneOK(q)
    BY <1>2 DEF Fit, CloneOK
  <2>2. Kept => \A t \in Waiting(q) : t.type = "Completing" =>
                  t \in Waiting(s) /\ (Known(s, t.owner) => Known(q, t.owner))
    BY <1>2, <1>5 DEF Known
  <2>3. Kept => \A i \in DOMAIN q.events : q.events[i].type = "completed" =>
                  \/ Known(q, q.events[i].owner)
                  \/ \E j \in DOMAIN s.events :
                        /\ s.events[j] = q.events[i]
                        /\ Known(s, q.events[i].owner) => Known(q, q.events[i].owner)
    BY <1>2 DEF Known
  <2>4. \A g \in Files : FileOK(q, g)
    BY <1>8, <1>9
  <2> QED
    BY <1>1, <1>2, <2>1, <2>2, <2>3, <2>4, RestOfFit
<1>11. ASSUME Known(s, f)
       PROVE  /\ Known(q, f) /\ Free(q, f)
              /\ s.file[f].status \in {"COMPLETING", "WAITINGFORHASH"}
              /\ e.type = "hashed" /\ Sole => e.good = s.disk[s.file[f].num].good
              /\ e.type = "completed" =>
                    /\ s.file[f].status = "COMPLETING"
                    /\ Hashes => s.disk[s.file[f].num].good = Parts
  <2>1. Known(q, f) /\ Free(q, f)
    BY <1>3, <1>5, <1>6, <1>11 DEF Free
  <2>2. e.type = "completed" => ToMove(s, f)
    BY <1>3 DEF ToMove
  <2>3. Sole /\ e.type = "hashed" => e.good = s.disk[s.file[f].num].good
    BY <1>3, <1>6, <1>11 DEF DiskOK
  <2>4. Hashes /\ e.type = "completed" => s.disk[s.file[f].num].good = Parts
    BY <1>6, <1>11, <2>2 DEF DiskOK, Hashes, Sole
  <2> QED
    BY <1>6, <1>11, <2>1, <2>3, <2>4
<1> QED
  BY <1>2, <1>3, <1>10, <1>11 DEF f

\* A file takes its place among those that are completed.
Completes(q, r, f) ==
    r = [q EXCEPT !.file[f].paused = FALSE, !.file[f].status = "COMPLETE",
                  !.file[f].life = "completed"]

LEMMA CompletedRecord ==
    ASSUME NEW q \in AppState, NEW f \in Files, NEW r, Completes(q, r, f)
    PROVE  r = SetFile(q, f, [q.file[f] EXCEPT !.paused = FALSE, !.status = "COMPLETE",
                                               !.life = "completed"])
<1> DEFINE k == [q.file[f] EXCEPT !.paused = FALSE, !.status = "COMPLETE", !.life = "completed"]
           F == [q.file EXCEPT ![f] = k]
<1>1. q.file \in [Files -> PartFileState] /\ q.file[f] \in PartFileState
  BY Parts1
<1>2. [q.file EXCEPT ![f].paused = FALSE, ![f].status = "COMPLETE", ![f].life = "completed"] = F
  BY <1>1 DEF PartFileState
<1>3. r = [q EXCEPT !.file = F]
  BY <1>2 DEF Completes, AppState
<1> HIDE DEF F
<1>4. SetFile(q, f, k) = [q EXCEPT !.file = F]
  BY DEF SetFile, F, AppState
<1> QED
  BY <1>3, <1>4

\* The taken event said of a known file that it was moved.
LEMMA PopMoved ==
    ASSUME NEW s, Fit(s), NEW q, Pops(s, q), Known(s, Head(s.events).owner),
           SaysMoved(Head(s.events)), NEW r, Completes(q, r, Head(s.events).owner),
           \A g \in Files : s.file[g].life # "saved"
    PROVE  /\ Fit(r) /\ r.sched = s.sched
           /\ \A g \in Files : r.file[g].life # "saved"
<1> DEFINE e == s.events[1]
           f == e.owner
           k == [q.file[f] EXCEPT !.paused = FALSE, !.status = "COMPLETE", !.life = "completed"]
<1>1. /\ s \in AppState /\ SP!Sound(s.sched) /\ SP!Placed(s.sched)
  BY DEF Fit
<1>2. /\ q \in AppState /\ q.file = s.file /\ q.disk = s.disk /\ q.copy = s.copy
      /\ q.cloning = s.cloning /\ q.source = s.source /\ q.sched = s.sched
      /\ Head(s.events) = e /\ e \in Events /\ 1 \in DOMAIN s.events
      /\ \A i \in DOMAIN q.events : i + 1 \in DOMAIN s.events /\ q.events[i] = s.events[i + 1] /\ i + 1 # 1
  BY <1>1, PoppedEvents
<1>3. f \in Files /\ 1 \in EventsOf(s, f) /\ Known(s, f) /\ SaysMoved(e) /\ Completes(q, r, f)
  BY <1>2 DEF Events, EventsOf
<1> HIDE DEF e, f
<1>4. q \in AppState /\ q.file[f] \in PartFileState
  BY <1>2, <1>3, Parts1
<1>5. k \in PartFileState /\ k.life = "completed"
  BY <1>4 DEF PartFileState, Statuses
<1>6. r = SetFile(q, f, k)
  <2>1. Completes(q, r, f)
    BY <1>3
  <2>2. q.file \in [Files -> PartFileState] /\ f \in Files
    BY <1>2, <1>3, Parts1
  <2> QED
    BY <1>3, <1>4, <2>1, CompletedRecord
<1> HIDE DEF k
<1>7. /\ r \in AppState
      /\ r.file[f] = k /\ \A g \in Files \ {f} : r.file[g] = s.file[g]
      /\ r.disk = s.disk /\ r.copy = s.copy /\ r.cloning = s.cloning
      /\ r.source = s.source /\ r.events = q.events /\ r.sched = s.sched
  <2>1. r.file[f] = k /\ \A g \in Files \ {f} : r.file[g] = q.file[g]
    BY <1>2, <1>3, <1>5, <1>6, FileSet
  <2>2. /\ r \in AppState
        /\ r.disk = q.disk /\ r.copy = q.copy /\ r.cloning = q.cloning
        /\ r.source = q.source /\ r.events = q.events /\ r.sched = q.sched
    BY <1>2, <1>3, <1>5, <1>6, FileSet
  <2> QED
    BY <1>2, <2>1, <2>2
<1>8. /\ Waiting(r) = Waiting(s) /\ \A g \in Files : TasksOf(r, g) = TasksOf(s, g)
      /\ \A g \in Files : Known(r, g) <=> Known(s, g) /\ g # f
  BY <1>5, <1>7 DEF Waiting, TasksOf, Known
<1>9. \A g \in Files \ {f} : SameEvents(s, r, g) /\ (HasMoved(s, g) <=> HasMoved(r, g))
  <2>1. \A g : EventsOf(r, g) = EventsOf(q, g)
    BY <1>7 DEF EventsOf
  <2>2. \A g \in Files \ {f} : SameEvents(s, q, g) /\ (HasMoved(s, g) <=> HasMoved(q, g))
    BY <1>1, PoppedOthers DEF e, f
  <2> QED
    BY <1>7, <2>1, <2>2 DEF SameEvents, HasMoved
<1>10. /\ KnownOK(s, f) /\ AwaitsOne(s, f) /\ HasMoved(s, f) /\ TasksOf(s, f) = {}
       /\ \A i \in EventsOf(s, f) : i = 1
  <2>1. KnownOK(s, f) /\ AwaitsOne(s, f)
    BY <1>3, KnownParts
  <2>2. HasMoved(s, f)
    BY <1>3 DEF HasMoved, SaysMoved, e
  <2>3. \A i \in EventsOf(s, f) : i = 1
    BY <1>3, <2>1 DEF AwaitsOne
  <2> QED
    BY <1>3, <2>1, <2>2, <2>3, MovedAwaitsNothing
<1>11. FileOK(r, f)
  <2>1. Copies => r.copy[f] = Parts
    BY <1>7, <1>10 DEF KnownOK
  <2> QED
    BY <1>5, <1>7, <2>1 DEF FileOK, Known
<1>12. ASSUME NEW g \in Files \ {f} PROVE FileOK(r, g)
  <2>1. Sole /\ Known(s, g) /\ ~HasMoved(s, g) => Own(r, g)
    <3>1. Sole /\ Known(s, g) /\ ~HasMoved(s, g) => Own(s, g)
      BY KnownParts DEF KnownOK, DiskOK
    <3>2. \A l \in Files : Known(r, l) => Known(s, l) /\ r.file[l] = s.file[l] /\ (HasMoved(s, l) => HasMoved(r, l))
      BY <1>7, <1>8, <1>9
    <3>3. r.file[g] = s.file[g]
      BY <1>7
    <3> QED
      BY <1>7, <3>1, <3>2, <3>3, OwnKeeps
  <2>2. Spares(s, r, g)
    BY <1>7, <1>8, <1>9, <2>1 DEF Spares
  <2> QED
    BY <2>2, SparedKeeps DEF Fit
<1>13. Fit(r)
  <2>1. CloneOK(r)
    BY <1>7 DEF Fit, CloneOK
  <2>2. Kept => \A t \in Waiting(r) : t.type = "Completing" =>
                  t \in Waiting(s) /\ (Known(s, t.owner) => Known(r, t.owner))
    <3> SUFFICES ASSUME NEW t \in Waiting(s), t.type = "Completing", Known(s, t.owner)
                 PROVE  Known(r, t.owner)
      BY <1>8
    <3>1. t.owner \in Files
      BY <1>1, WaitingTasks
    <3>2. t.owner # f
      BY <1>10 DEF TasksOf
    <3> QED
      BY <1>8, <3>1, <3>2
  <2>3. Kept => \A i \in DOMAIN r.events : r.events[i].type = "completed" =>
                  \/ Known(r, r.events[i].owner)
                  \/ \E j \in DOMAIN s.events :
                        /\ s.events[j] = r.events[i]
                        /\ Known(s, r.events[i].owner) => Known(r, r.events[i].owner)
    <3> SUFFICES ASSUME NEW i \in DOMAIN q.events
                 PROVE  \E j \in DOMAIN s.events :
                            /\ s.events[j] = r.events[i]
                            /\ Known(s, r.events[i].owner) => Known(r, r.events[i].owner)
      BY <1>7
    <3>1. i + 1 \in DOMAIN s.events /\ r.events[i] = s.events[i + 1] /\ i + 1 # 1
      BY <1>2, <1>7
    <3>2. s.events[i + 1].owner # f
      BY <1>10, <3>1 DEF EventsOf
    <3>3. s.events[i + 1].owner \in Files
      BY <1>1, <3>1, WaitingTasks
    <3>4. Known(s, r.events[i].owner) => Known(r, r.events[i].owner)
      BY <1>8, <3>1, <3>2, <3>3
    <3> QED
      BY <3>1, <3>4
  <2>4. \A g \in Files : FileOK(r, g)
    BY <1>11, <1>12
  <2> QED
    BY <1>1, <1>7, <2>1, <2>2, <2>3, <2>4, RestOfFit
<1>14. \A g \in Files : r.file[g].life # "saved"
  BY <1>5, <1>7
<1> QED
  BY <1>7, <1>13, <1>14

----------------------------------------------------------------------------
(* The peers, the core timer and the user                                  *)

\* The outcome r of a handler, while the program runs.
LEMMA RunKeeps ==
    ASSUME IInv, phase = "run", phase' = phase, NEW r, app' = r, Fit(r),
           \A f \in Files : r.file[f].life # "saved"
    PROVE  IInv'
<1>1. Fit(app')
  OBVIOUS
<1>2. PhaseOK(app)'
  BY DEF IInv, PhaseOK
<1> QED
  BY <1>1, <1>2 DEF IInv

LEMMA Running ==
    ASSUME IInv, phase = "run"
    PROVE  /\ Fit(app) /\ app \in AppState /\ \A f \in Files : app.file[f].life # "saved"
           /\ SP!Sound(app.sched) /\ SP!Placed(app.sched)
  BY DEF IInv, PhaseOK, Fit

LEMMA FineOutcome ==
    ASSUME IInv, phase = "run", phase' = phase, NEW f \in Files, NEW r, app' = r, Fine(app, r, f)
    PROVE  IInv' /\ Adds(app, app')
<1>1. \A g \in Files : r.file[g].life # "saved"
  BY Running DEF Fine, Within, Known
<1> QED
  BY <1>1, RunKeeps DEF Fine

LEMMA FineThenCalm ==
    ASSUME NEW s, NEW f \in Files, NEW q, Fine(s, q, f), NEW r, Fit(r), Calm(q, r, f)
    PROVE  Fine(s, r, f)
<1>1. Within(s, r, f)
  BY WithinSteps DEF Fine, Calm
<1> QED
  BY <1>1 DEF Fine, Calm, Adds

LEMMA FlagsAreFine ==
    ASSUME NEW s, NEW f \in Files, NEW r, Flags(s, r, f), Fit(r)
    PROVE  Fine(s, r, f)
  BY CalmAloneIsFine DEF Flags

\* What a status says of m_nStatus.
LEMMA StatusRead ==
    ASSUME NEW s, NEW f
    PROVE  /\ GetStatus(s, f) \in {"EMPTY", "READY"} => s.file[f].status \in {"EMPTY", "READY"}
           /\ s.file[f].status = "COMPLETING" => GetStatus(s, f) = "COMPLETING"
  BY DEF GetStatus

LEMMA ProcessKeeps ==
    ASSUME IInv, NEW f \in Files, Process(f) PROVE IInv' /\ Adds(app, app')
<1>1. phase = "run" /\ phase' = phase /\ Known(app, f)
  BY DEF Process, Busy, Handler, Known
<1>2. PICK r \in FlushBuffer(app, f) : app' = r
  BY DEF Process, Handler
<1>3. Fine(app, r, f)
  BY <1>1, Running, FlushBufferKeeps
<1> QED
  BY <1>1, <1>2, <1>3, FineOutcome

LEMMA PauseActionKeeps ==
    ASSUME IInv, NEW f \in Files, Pause(f) PROVE IInv' /\ Adds(app, app')
<1>1. phase = "run" /\ phase' = phase /\ Known(app, f) /\ app' = PauseFile(app, f, FALSE)
  BY DEF Pause, Busy, Handler, Known
<1>2. Flags(app, app', f) /\ Fit(app')
  BY <1>1, Running, PauseKeeps
<1> QED
  BY <1>1, <1>2, FlagsAreFine, FineOutcome

LEMMA StopActionKeeps ==
    ASSUME IInv, NEW f \in Files, Stop(f) PROVE IInv' /\ Adds(app, app')
<1>1. phase = "run" /\ phase' = phase /\ Known(app, f)
  BY DEF Stop, Busy, Handler, Known
<1>2. PICK r \in StopFile(app, f) : app' = r
  BY DEF Stop, Handler
<1>3. Fine(app, r, f)
  BY <1>1, Running, StopKeeps
<1> QED
  BY <1>1, <1>2, <1>3, FineOutcome

\* The user saves no file that was moved, unless things happen before its event.
LEMMA UserSaves ==
    ASSUME NEW f \in Files, "user" \in Env, Quiet, NEW r, r.events = app.events
    PROVE  ~(Signs /\ HasMoved(r, f))
  BY DEF Quiet, Signs, HasMoved, EventsOf, Sole

LEMMA ResumeActionKeeps ==
    ASSUME IInv, NEW f \in Files, Resume(f) PROVE IInv' /\ Adds(app, app')
<1>1. phase = "run" /\ phase' = phase /\ Known(app, f) /\ "user" \in Env /\ Quiet
  BY DEF Resume, Busy, Handler, Known
<1>2. PICK q \in ResumeFile(app, f) : app' = q \/ app' \in SavePartFile(q, f)
  BY DEF Resume, Handler
<1>3. Fine(app, q, f)
  BY <1>1, Running, ResumeKeeps
<1>4. ASSUME app' \in SavePartFile(q, f) PROVE Fine(app, app', f)
  <2>1. q.events = app.events /\ Known(q, f) /\ Fit(q)
    BY <1>3 DEF Fine, Within
  <2>2. ~(Signs /\ HasMoved(q, f))
    BY <1>1, <2>1, UserSaves
  <2>3. Fit(app') /\ Calm(q, app', f)
    BY <1>4, <2>1, <2>2, SaveKeeps
  <2> QED
    BY <1>3, <2>3, FineThenCalm
<1> QED
  BY <1>1, <1>2, <1>3, <1>4, FineOutcome

LEMMA SaveActionKeeps ==
    ASSUME IInv, NEW f \in Files, Save(f) PROVE IInv' /\ Adds(app, app')
<1>1. /\ phase = "run" /\ phase' = phase /\ Known(app, f) /\ "user" \in Env /\ Quiet
      /\ app' \in SavePartFile(app, f)
  BY DEF Save, Busy, Handler, Known
<1>2. ~(Signs /\ HasMoved(app, f))
  BY <1>1, UserSaves
<1>3. Fit(app') /\ Calm(app, app', f)
  BY <1>1, <1>2, Running, SaveKeeps
<1> QED
  BY <1>1, <1>3, CalmAloneIsFine, FineOutcome

LEMMA WriteToBufferKeeps ==
    ASSUME IInv, NEW f \in Files, NEW p \in Parts, NEW right \in BOOLEAN, WriteToBuffer(f, p, right)
    PROVE  IInv' /\ Adds(app, app')
<1> DEFINE k == [app.file[f] EXCEPT !.filled = @ \union {p}, !.buffer = @ \union {p},
                                    !.good = IF right THEN @ \union {p} ELSE @]
           r == [app EXCEPT !.file[f].filled = @ \union {p}, !.file[f].buffer = @ \union {p},
                            !.file[f].good = IF right THEN @ \union {p} ELSE @]
<1>1. /\ phase = "run" /\ phase' = phase /\ Known(app, f)
      /\ GetStatus(app, f) \in {"EMPTY", "READY"}
      /\ app' \in IF IsComplete(r, f) THEN FlushBuffer(r, f) ELSE {r}
  BY DEF WriteToBuffer, Busy, Handler, Known
<1>2. app.file[f].status \in {"EMPTY", "READY"}
  BY <1>1, StatusRead
<1>3. /\ Fit(app) /\ app \in AppState /\ app.file[f] \in PartFileState /\ app.file[f].life = "known"
      /\ RecordOK(app.file[f]) /\ Free(app, f)
  BY <1>1, <1>2, Running, KnownParts
<1>4. r = SetFile(app, f, k)
  BY <1>3 DEF SetFile, AppState
<1>5. /\ k \in PartFileState /\ k.life = "known" /\ k.num = app.file[f].num
      /\ k.status = app.file[f].status
  BY <1>3 DEF PartFileState
<1> HIDE DEF k, r
<1>6. RecordOK(k)
  BY <1>2, <1>3, <1>5 DEF RecordOK
<1>7. Fit(r) /\ Calm(app, r, f)
  BY <1>1, <1>2, <1>3, <1>4, <1>5, <1>6, FreeFileChange
<1>8. Known(r, f)
  BY <1>7 DEF Calm, Within
<1>9. CASE app' = r
  BY <1>1, <1>7, <1>9, CalmAloneIsFine, FineOutcome
<1>10. CASE app' \in FlushBuffer(r, f)
  <2>1. Fine(r, app', f)
    BY <1>7, <1>8, <1>10, FlushBufferKeeps
  <2>2. Fine(app, app', f)
    BY <1>7, <2>1, CalmIsFine
  <2> QED
    BY <1>1, <2>2, FineOutcome
<1> QED
  BY <1>1, <1>9, <1>10

\* Flags of several files change at a time.
OnlyFlags(s, r) ==
    /\ r \in AppState
    /\ r.disk = s.disk /\ r.copy = s.copy /\ r.cloning = s.cloning
    /\ r.source = s.source /\ r.events = s.events /\ r.sched = s.sched
    /\ \A g \in Files :
          /\ r.file[g].life = s.file[g].life /\ r.file[g].num = s.file[g].num
          /\ r.file[g].status = s.file[g].status /\ r.file[g].filled = s.file[g].filled
          /\ r.file[g].buffer = s.file[g].buffer

LEMMA OnlyFlagsKeep ==
    ASSUME NEW s, Fit(s), NEW r, OnlyFlags(s, r)
    PROVE  Fit(r)
<1>1. /\ Waiting(r) = Waiting(s)
      /\ \A g : /\ TasksOf(r, g) = TasksOf(s, g) /\ EventsOf(r, g) = EventsOf(s, g)
                /\ HasMoved(r, g) <=> HasMoved(s, g)
                /\ Free(r, g) <=> Free(s, g)
      /\ \A g \in Files : Known(r, g) <=> Known(s, g)
  BY EqualEvents DEF OnlyFlags, Waiting, TasksOf, Known, Free
<1>2. ASSUME NEW g \in Files PROVE FileOK(r, g)
  <2>1. FileOK(s, g)
    BY DEF Fit
  <2>2. /\ r.file[g].life = s.file[g].life /\ r.file[g].num = s.file[g].num
        /\ r.file[g].status = s.file[g].status /\ r.file[g].filled = s.file[g].filled
        /\ r.file[g].buffer = s.file[g].buffer
        /\ r.disk = s.disk /\ r.copy = s.copy /\ r.events = s.events
    BY DEF OnlyFlags
  <2>3. ASSUME KnownOK(s, g) PROVE KnownOK(r, g)
    <3>1. RecordOK(r.file[g])
      BY <2>2, <2>3 DEF KnownOK, RecordOK
    <3>2. AwaitsOne(r, g)
      BY <1>1, <2>2, <2>3 DEF KnownOK, AwaitsOne
    <3>3. DiskOK(s, g) => DiskOK(r, g)
      <4>1. Own(s, g) => Own(r, g)
        BY <1>1, <2>2 DEF Own, OnlyFlags
      <4>2. ToMove(r, g) => ToMove(s, g)
        BY <1>1, <2>2 DEF ToMove
      <4> QED
        BY <1>1, <2>2, <4>1, <4>2 DEF DiskOK
    <3> QED
      BY <1>1, <2>2, <2>3, <3>1, <3>2, <3>3 DEF KnownOK
  <2> QED
    BY <1>1, <2>1, <2>2, <2>3 DEF FileOK
<1>3. CompletingIsKnown(r)
  <2>1. ASSUME Kept, NEW t \in Waiting(r), t.type = "Completing" PROVE Known(r, t.owner)
    <3>1. Known(s, t.owner) /\ t.owner \in Files
      BY <1>1, <2>1, WaitingTasks DEF Fit, CompletingIsKnown
    <3> QED
      BY <1>1, <3>1
  <2>2. ASSUME Kept, NEW i \in DOMAIN r.events, r.events[i].type = "completed"
        PROVE  Known(r, r.events[i].owner)
    <3>1. Known(s, r.events[i].owner) /\ r.events[i].owner \in Files
      BY <2>2, WaitingTasks DEF Fit, CompletingIsKnown, OnlyFlags
    <3> QED
      BY <1>1, <3>1
  <2> QED
    BY <2>1, <2>2 DEF CompletingIsKnown
<1> QED
  BY <1>2, <1>3 DEF Fit, OnlyFlags, CloneOK

\* What is another file's record, is only so by its flags.
FlagsOf(j, k) ==
    /\ k \in PartFileState
    /\ k.life = j.life /\ k.num = j.num /\ k.status = j.status /\ k.filled = j.filled
    /\ k.buffer = j.buffer

LEMMA FilesChange ==
    ASSUME NEW s \in AppState, NEW F \in [Files -> PartFileState],
           \A g \in Files : FlagsOf(s.file[g], F[g]), NEW r, r = [s EXCEPT !.file = F]
    PROVE  OnlyFlags(s, r)
<1>1. /\ r \in AppState /\ r.file = F
      /\ r.disk = s.disk /\ r.copy = s.copy /\ r.cloning = s.cloning
      /\ r.source = s.source /\ r.events = s.events /\ r.sched = s.sched
  BY DEF AppState
<1> QED
  BY <1>1 DEF OnlyFlags, FlagsOf

LEMMA PausedFlags ==
    ASSUME NEW s \in AppState, NEW f \in Files
    PROVE  /\ FlagsOf(s.file[f], PauseFile(s, f, TRUE).file[f])
           /\ FlagsOf(s.file[f], Resumed(s, f).file[f])
           /\ FlagsOf(s.file[f], s.file[f])
<1> DEFINE k == [s.file[f] EXCEPT !.paused = TRUE, !.insufficient = TRUE]
           j == [s.file[f] EXCEPT !.paused = FALSE, !.stopped = FALSE, !.insufficient = FALSE]
<1>1. s.file[f] \in PartFileState
  BY Parts1
<1>2. FlagsOf(s.file[f], k) /\ FlagsOf(s.file[f], j) /\ FlagsOf(s.file[f], s.file[f])
  BY <1>1 DEF FlagsOf, PartFileState
<1>3. Resumed(s, f).file[f] = j
  BY DEF Resumed, AppState
<1>4. PauseFile(s, f, TRUE).file[f] = k \/ PauseFile(s, f, TRUE).file[f] = s.file[f]
  BY DEF PauseFile, AppState
<1> QED
  BY <1>2, <1>3, <1>4

LEMMA SpaceKeeps ==
    ASSUME IInv, NoSpace \/ SpaceAgain PROVE IInv' /\ Adds(app, app')
<1>1. /\ phase = "run" /\ phase' = phase
      /\ Fit(app) /\ app \in AppState /\ \A f \in Files : app.file[f].life # "saved"
  BY Running DEF NoSpace, SpaceAgain, Handler
<1>2. ASSUME NEW D, app' = [app EXCEPT !.file = [f \in Files |->
                IF f \in D THEN PauseFile(app, f, TRUE).file[f] ELSE @[f]]]
      PROVE  OnlyFlags(app, app')
  <2> DEFINE F == [f \in Files |-> IF f \in D THEN PauseFile(app, f, TRUE).file[f] ELSE app.file[f]]
  <2>1. \A g \in Files : FlagsOf(app.file[g], F[g])
    BY <1>1, PausedFlags
  <2>2. F \in [Files -> PartFileState]
    BY <2>1 DEF FlagsOf
  <2>3. app' = [app EXCEPT !.file = F]
    BY <1>1, <1>2 DEF AppState
  <2> HIDE DEF F
  <2> QED
    BY <1>1, <2>1, <2>2, <2>3, FilesChange
<1>3. ASSUME NEW D, app' = [app EXCEPT !.file = [f \in Files |->
                IF f \in D THEN Resumed(app, f).file[f] ELSE @[f]]]
      PROVE  OnlyFlags(app, app')
  <2> DEFINE F == [f \in Files |-> IF f \in D THEN Resumed(app, f).file[f] ELSE app.file[f]]
  <2>1. \A g \in Files : FlagsOf(app.file[g], F[g])
    BY <1>1, PausedFlags
  <2>2. F \in [Files -> PartFileState]
    BY <2>1 DEF FlagsOf
  <2>3. app' = [app EXCEPT !.file = F]
    BY <1>1, <1>3 DEF AppState
  <2> HIDE DEF F
  <2> QED
    BY <1>1, <2>1, <2>2, <2>3, FilesChange
<1>4. OnlyFlags(app, app')
  BY <1>2, <1>3, Zenon DEF NoSpace, SpaceAgain, Handler
<1>5. Fit(app') /\ \A f \in Files : app'.file[f].life # "saved"
  BY <1>1, <1>4, OnlyFlagsKeep DEF OnlyFlags
<1> QED
  BY <1>1, <1>4, <1>5, RunKeeps DEF OnlyFlags, Adds

LEMMA AskKeeps ==
    ASSUME IInv, NEW D \in SUBSET Files, AskToCancel(D) PROVE IInv' /\ Adds(app, app')
<1>1. /\ phase = "run" /\ phase' = phase /\ app' = [app EXCEPT !.box = D]
      /\ Fit(app) /\ \A g \in Files : app.file[g].life # "saved"
  BY Running DEF AskToCancel, Handler
<1>2. Fit(app') /\ app'.sched = app.sched /\ app'.file = app.file
  BY <1>1, BoxKeeps
<1> QED
  BY <1>1, <1>2, RunKeeps DEF Adds

LEMMA AnswerKeeps ==
    ASSUME IInv, Answer PROVE IInv' /\ Adds(app, app')
<1> DEFINE q == [app EXCEPT !.box = {}]
<1>1. /\ phase = "run" /\ phase' = phase
      /\ Fit(app) /\ app \in AppState /\ \A g \in Files : app.file[g].life # "saved"
  BY Running DEF Answer, Handler
<1>2. Fit(q) /\ q.sched = app.sched /\ q.file = app.file
  BY <1>1, BoxKeeps
<1>3. app.box \in SUBSET Files
  BY <1>1 DEF AppState
<1>4. \/ app' = q
      \/ /\ app' = Delete(q, app.box)
         /\ \A f \in app.box :
               \/ app.file[f].life = "known" /\ MayBeCancelled(f)
               \/ app.file[f].life \in {"known", "completed"} /\ "blind" \in Env
  BY DEF Answer, Handler
<1> HIDE DEF q
<1>5. CASE app' = q
  BY <1>1, <1>2, <1>5, RunKeeps DEF Adds
<1>6. CASE /\ app' = Delete(q, app.box)
           /\ \A f \in app.box :
                 \/ app.file[f].life = "known" /\ MayBeCancelled(f)
                 \/ app.file[f].life \in {"known", "completed"} /\ "blind" \in Env
  <2>1. \A f \in Files : MayBeCancelled(f) => app.file[f].status # "COMPLETING"
    BY StatusRead DEF MayBeCancelled
  <2>2. Deletable(q, app.box)
    BY <1>2, <1>3, <1>6, <2>1 DEF Deletable, Known, Kept
  <2>3. Fit(app') /\ app'.sched = q.sched /\ \A g \in Files : app'.file[g].life # "saved"
    BY <1>1, <1>2, <1>3, <1>6, <2>2, DeleteKeeps
  <2> QED
    BY <1>1, <1>2, <2>3, RunKeeps DEF Adds
<1> QED
  BY <1>4, <1>5, <1>6

LEMMA RemoteCancelKeeps ==
    ASSUME IInv, NEW f \in Files, RemoteCancel(f) PROVE IInv' /\ Adds(app, app')
<1>1. /\ phase = "run" /\ phase' = phase /\ Known(app, f)
      /\ MayBeCancelled(f) \/ "remote" \in Env
      /\ Fit(app) /\ \A g \in Files : app.file[g].life # "saved"
  BY Running DEF RemoteCancel, Handler, Known
<1>2. PICK r \in IF GetStatus(app, f) = "PAUSED" THEN {app} ELSE StartNextFile(app) :
              app' = Delete(r, {f})
  BY DEF RemoteCancel, Handler
<1>3. Fit(r) /\ r.sched = app.sched /\ Known(r, f) /\ \A g \in Files : r.file[g].life # "saved"
  BY <1>1, <1>2, StartNextKeeps DEF Quietly, Known
<1>4. r.file[f] = app.file[f]
  BY <1>1, <1>2, StartNextLeaves
<1>5. MayBeCancelled(f) => app.file[f].status # "COMPLETING"
  BY StatusRead DEF MayBeCancelled
<1>6. Deletable(r, {f})
  BY <1>1, <1>3, <1>4, <1>5 DEF Deletable, Known, Kept
<1>7. Fit(app') /\ app'.sched = r.sched /\ \A g \in Files : app'.file[g].life # "saved"
  <2>1. {f} \in SUBSET Files
    OBVIOUS
  <2> QED
    BY <1>2, <1>3, <1>6, <2>1, DeleteKeeps
<1> QED
  BY <1>1, <1>3, <1>7, RunKeeps DEF Adds

LEMMA DiskSetTwice ==
    ASSUME NEW s \in AppState, NEW n \in Numbers
    PROVE  /\ SetDisk(s, n, s.disk[n]) = s
           /\ \A b, d : SetDisk(SetDisk(s, n, b), n, d) = SetDisk(s, n, d)
<1>1. s.disk \in [Numbers -> DiskState]
  BY Parts1
<1>2. SetDisk(s, n, s.disk[n]) = s
  BY <1>1 DEF SetDisk, AppState
<1>3. ASSUME NEW b, NEW d PROVE SetDisk(SetDisk(s, n, b), n, d) = SetDisk(s, n, d)
  <2> DEFINE B == [s.disk EXCEPT ![n] = b]
             D == [s.disk EXCEPT ![n] = d]
  <2>1. [B EXCEPT ![n] = d] = D
    BY <1>1
  <2>2. SetDisk(s, n, b) = [s EXCEPT !.disk = B] /\ SetDisk(s, n, d) = [s EXCEPT !.disk = D]
    BY DEF SetDisk, AppState
  <2> HIDE DEF B
  <2> DEFINE q == [s EXCEPT !.disk = B]
  <2>3. q.disk = B
    BY DEF AppState
  <2>4. SetDisk(q, n, d) = [q EXCEPT !.disk = [q.disk EXCEPT ![n] = d]]
    BY DEF SetDisk, AppState
  <2>5. SetDisk(q, n, d) = [q EXCEPT !.disk = D]
    BY <2>1, <2>3, <2>4
  <2> HIDE DEF D
  <2>6. [q EXCEPT !.disk = D] = [s EXCEPT !.disk = D]
    BY DEF AppState
  <2> QED
    BY <2>2, <2>5, <2>6
<1> QED
  BY <1>2, <1>3

\* A new file, whose .met may have failed to be saved.
LEMMA CreatedAppears ==
    ASSUME Fit(app), NEW f \in Files, NEW n \in Numbers, app.disk[n].met = NoMet,
           NEW k \in PartFileState, k.num = n, k.status = "EMPTY", k.filled = {}, k.paused = FALSE,
           NEW q, q = SetDisk(SetFile(app, f, k), n, [NoDisk EXCEPT !.part = TRUE]),
           NEW r \in SavePartFile(q, f)
    PROVE  \E d \in DiskState : Stands(d, f) /\ Appears(app, r, f, k, d)
<1> DEFINE b == [NoDisk EXCEPT !.part = TRUE]
           m == [owner |-> f, filled |-> {}, paused |-> FALSE]
           d == [b EXCEPT !.touched = FALSE, !.met = m]
           w == SetFile(app, f, k)
<1>1. b.part = TRUE /\ b.met = NoMet /\ b \in DiskState
  <2>1. NoDisk \in DiskState /\ NoDisk.met = NoMet
    BY DEF NoDisk, DiskState
  <2> QED
    BY <2>1 DEF DiskState
<1>2. m \in [owner : Files, filled : SUBSET Parts, paused : BOOLEAN] /\ m # NoMet
  <2>1. m \in [owner : Files, filled : SUBSET Parts, paused : BOOLEAN]
    OBVIOUS
  <2> QED
    BY <2>1, FilesAssumption DEF FilesAssumption
<1>3. d \in DiskState /\ d.part = TRUE /\ d.met = m /\ m.owner = f
  BY <1>1, <1>2 DEF DiskState
<1>4. w \in AppState /\ w.file[f] = k
  BY FileSet DEF Fit
<1> HIDE DEF w
<1>5. q \in AppState /\ q.file[f] = k /\ q.disk[n] = b /\ q = SetDisk(w, n, b)
  <2>1. q = SetDisk(w, n, b)
    BY DEF w
  <2> HIDE DEF b
  <2> QED
    BY <1>1, <1>4, <2>1, DiskSet
<1>6. IsSaved(q, f)
  BY <1>1, <1>5 DEF IsSaved
<1> HIDE DEF b
<1>7. \/ r = [q EXCEPT !.disk[n].touched = FALSE,
                       !.disk[n].met = [owner |-> f, filled |-> k.filled, paused |-> k.paused]]
      \/ "met" \in Env /\ (r = q \/ r = [q EXCEPT !.disk[n].met = NoMet])
  BY <1>5, <1>6 DEF SavePartFile, Removed
<1>8. CASE r = [q EXCEPT !.disk[n].touched = FALSE,
                         !.disk[n].met = [owner |-> f, filled |-> k.filled, paused |-> k.paused]]
  <2>1. r = [q EXCEPT !.disk[n] = d]
    <3>1. m = [owner |-> f, filled |-> k.filled, paused |-> k.paused]
      OBVIOUS
    <3> HIDE DEF m
    <3>2. r = [q EXCEPT !.disk[n].touched = FALSE, !.disk[n].met = m]
      BY <1>8, <3>1
    <3> QED
      BY <1>5, <3>2 DEF AppState
  <2> HIDE DEF d
  <2>2. r = SetDisk(w, n, d)
    <3>1. r = SetDisk(q, n, d)
      BY <2>1 DEF SetDisk
    <3>2. SetDisk(SetDisk(w, n, b), n, d) = SetDisk(w, n, d)
      BY <1>4, DiskSetTwice
    <3> QED
      BY <1>5, <3>1, <3>2
  <2>3. Appears(app, r, f, k, d)
    BY <2>2 DEF Appears, w
  <2>4. Stands(d, f)
    BY <1>2, <1>3 DEF Stands, Stored
  <2> QED
    BY <1>3, <2>3, <2>4
<1>9. CASE "met" \in Env /\ (r = q \/ r = [q EXCEPT !.disk[n].met = NoMet])
  <2>1. [b EXCEPT !.met = NoMet] = b
    <3>1. [b EXCEPT !.met = b.met] = b
      BY <1>1 DEF DiskState
    <3> QED
      BY <1>1, <3>1
  <2>4. r = q
    <3>1. r = q \/ r = SetDisk(q, n, [b EXCEPT !.met = NoMet])
      BY <1>5, <1>9 DEF SetDisk, AppState
    <3>2. SetDisk(q, n, q.disk[n]) = q
      BY <1>5, DiskSetTwice
    <3> QED
      BY <1>5, <2>1, <3>1, <3>2
  <2>2. Appears(app, r, f, k, b)
    BY <1>5, <2>4 DEF Appears, w
  <2>3. Stands(b, f)
    BY <1>1, <1>9 DEF Stands, Sole
  <2> QED
    BY <1>1, <2>2, <2>3
<1> QED
  BY <1>7, <1>8, <1>9

LEMMA CreateKeeps ==
    ASSUME IInv, NEW f \in Files, CreatePartFile(f) PROVE IInv' /\ Adds(app, app')
<1>1. /\ phase = "run" /\ phase' = phase /\ app.file[f].life = "absent"
      /\ Fit(app) /\ app \in AppState /\ \A g \in Files : app.file[g].life # "saved"
  BY Running DEF CreatePartFile, Handler
<1> DEFINE k(n) == [ life |-> "known", num |-> n, status |-> "EMPTY",
                     paused |-> FALSE, stopped |-> FALSE, insufficient |-> FALSE,
                     filled |-> {}, buffer |-> {}, good |-> {} ]
           made(n) == [app EXCEPT !.file[f] = k(n), !.disk[n] = [NoDisk EXCEPT !.part = TRUE]]
<1>2. PICK n \in FreeNumbers :
         \E r \in SavePartFile(made(n), f) : app' = r \/ app' \in StopFile(r, f)
  BY DEF CreatePartFile, Handler
<1>3. PICK r \in SavePartFile(made(n), f) : app' = r \/ app' \in StopFile(r, f)
  BY <1>2
<1>4. n \in Numbers /\ app.disk[n].met = NoMet
  BY DEF FreeNumbers
<1>5. /\ k(n) \in PartFileState /\ k(n).life = "known" /\ RecordOK(k(n)) /\ k(n).status = "EMPTY"
      /\ k(n).num = n /\ k(n).filled = {} /\ k(n).paused = FALSE
  BY <1>4 DEF PartFileState, Statuses, RecordOK
<1> HIDE DEF k
<1>6. made(n) = SetDisk(SetFile(app, f, k(n)), n, [NoDisk EXCEPT !.part = TRUE])
  BY <1>1, <1>4 DEF SetFile, SetDisk, AppState
<1> HIDE DEF made
<1>7. Available(app, n)
  <2>1. ASSUME Sole, NEW g \in Files, Known(app, g), app.file[g].num = n, ~HasMoved(app, g) PROVE FALSE
    <3>1. Own(app, g)
      BY <1>1, <2>1, KnownParts DEF KnownOK, DiskOK
    <3> QED
      BY <1>4, <2>1, <3>1 DEF Own
  <2> QED
    BY <2>1 DEF Available
<1>8. PICK d \in DiskState : Stands(d, f) /\ Appears(app, r, f, k(n), d)
  BY <1>1, <1>3, <1>4, <1>5, <1>6, CreatedAppears
<1>9. /\ Fit(r) /\ Known(r, f) /\ r.sched = app.sched /\ r.file[f] = k(n)
      /\ \A g \in Files \ {f} : r.file[g] = app.file[g]
  BY <1>1, <1>5, <1>7, <1>8, AppearKeeps
<1>10. \A g \in Files : r.file[g].life # "saved"
  BY <1>1, <1>5, <1>9
<1>11. CASE app' = r
  BY <1>1, <1>9, <1>10, <1>11, RunKeeps DEF Adds
<1>12. CASE app' \in StopFile(r, f)
  <2>1. Fine(r, app', f)
    BY <1>9, <1>12, StopKeeps
  <2>2. \A g \in Files : app'.file[g].life # "saved"
    BY <1>10, <2>1 DEF Fine, Within, Known
  <2> QED
    BY <1>1, <1>9, <2>1, <2>2, RunKeeps DEF Fine, Adds
<1> QED
  BY <1>3, <1>11, <1>12

----------------------------------------------------------------------------
(* The tasks, the scheduler and the events                                 *)

\* A step of the scheduler.
SchedStep == [S!Next]_(app.sched)

LEMMA AddsIsStep == ASSUME IInv, Adds(app, app') PROVE SchedStep
<1>1. app.sched.age \in Nat
  BY Parts1 DEF IInv, Fit, S!SchedulerState
<1>2. ASSUME NEW t \in PartTasks, app'.sched = S!AddTask(app.sched, t) PROVE SchedStep
  <2>1. S!Add(t)
    BY <1>1, <1>2 DEF S!Add
  <2> QED
    BY <2>1 DEF SchedStep, S!Next
<1> QED
  BY <1>2 DEF Adds, SchedStep

LEMMA EventActionsKeep ==
    ASSUME IInv, OnFinishedHashing \/ OnFinishedCompletion PROVE IInv' /\ Adds(app, app')
<1> DEFINE e == Head(app.events)
           f == e.owner
           q == Popped
<1>1. /\ phase = "run" /\ phase' = phase /\ Pops(app, q)
      /\ Fit(app) /\ app \in AppState /\ \A g \in Files : app.file[g].life # "saved"
  BY Running DEF OnFinishedHashing, OnFinishedCompletion, Handler, Pops, Popped
<1>2. /\ \/ e.type = "hashed" /\ Known(app, f) /\ app' \in PartFileHashFinished(q, f, e.good)
         \/ e.type = "completed" /\ Known(app, f) /\ app' \in CompleteFileEnded(q, f, e.error)
         \/ ~Known(app, f) /\ app' = q
  BY DEF OnFinishedHashing, OnFinishedCompletion, Handler, Known
<1> HIDE DEF q
<1>3. ASSUME ~(Known(app, f) /\ SaysMoved(e))
      PROVE  /\ Fit(q) /\ f \in Files /\ e \in Events
             /\ q.file = app.file /\ q.disk = app.disk /\ q.sched = app.sched
             /\ Known(app, f) =>
                   /\ Known(q, f) /\ Free(q, f)
                   /\ app.file[f].status \in {"COMPLETING", "WAITINGFORHASH"}
                   /\ e.type = "hashed" /\ Sole => e.good = app.disk[app.file[f].num].good
                   /\ e.type = "completed" =>
                         /\ app.file[f].status = "COMPLETING"
                         /\ Hashes => app.disk[app.file[f].num].good = Parts
  BY <1>1, <1>3, PopKeeps
<1> HIDE DEF e, f
<1>4. CASE e.type = "hashed" /\ Known(app, f) /\ app' \in PartFileHashFinished(q, f, e.good)
  <2>1. ~SaysMoved(e)
    BY <1>4 DEF SaysMoved
  <2>2. /\ Fit(q) /\ f \in Files /\ e \in Events /\ Known(q, f) /\ Free(q, f)
        /\ q.file = app.file /\ q.sched = app.sched
        /\ q.file[f].status \in {"COMPLETING", "WAITINGFORHASH"}
        /\ Sole => e.good = q.disk[q.file[f].num].good
    BY <1>3, <1>4, <2>1
  <2>3. e.good \in SUBSET Parts
    BY <2>2 DEF Events
  <2>4. Fine(q, app', f)
    BY <1>4, <2>2, <2>3, HashFinishedKeeps
  <2>5. \A g \in Files : app'.file[g].life # "saved"
    BY <1>1, <2>2, <2>4 DEF Fine, Within, Known
  <2> QED
    BY <1>1, <2>2, <2>4, <2>5, RunKeeps DEF Fine, Adds
<1>5. CASE e.type = "completed" /\ Known(app, f) /\ app' \in CompleteFileEnded(q, f, e.error) /\ ~SaysMoved(e)
  <2>1. /\ Fit(q) /\ f \in Files /\ e \in Events /\ Known(q, f) /\ Free(q, f)
        /\ q.file = app.file /\ q.sched = app.sched
        /\ q.file[f].status = "COMPLETING"
        /\ Hashes => q.disk[q.file[f].num].good = Parts
    BY <1>3, <1>5
  <2>2. e.error = TRUE
    BY <1>5, <2>1 DEF Events, SaysMoved
  <2>3. app' \in CompleteFileEnded(q, f, TRUE)
    BY <1>5, <2>2
  <2>4. Quietly(q, app')
    BY <2>1, <2>3, CompletionFailedKeeps
  <2>5. \A g \in Files : app'.file[g].life # "saved"
    BY <1>1, <2>1, <2>4 DEF Quietly
  <2> QED
    BY <1>1, <2>1, <2>4, <2>5, RunKeeps DEF Quietly, Adds
<1>6. CASE e.type = "completed" /\ Known(app, f) /\ app' \in CompleteFileEnded(q, f, e.error) /\ SaysMoved(e)
  <2> DEFINE r == [q EXCEPT !.file[f].paused = FALSE, !.file[f].status = "COMPLETE",
                            !.file[f].life = "completed"]
  <2>1. app' \in StartNextFile(r)
    BY <1>6 DEF CompleteFileEnded, SaysMoved
  <2>2. Completes(q, r, f)
    BY DEF Completes
  <2> HIDE DEF r
  <2>3. Fit(r) /\ r.sched = app.sched /\ \A g \in Files : r.file[g].life # "saved"
    BY <1>1, <1>6, <2>2, PopMoved DEF e, f
  <2>4. Quietly(r, app')
    BY <2>1, <2>3, StartNextKeeps
  <2>5. \A g \in Files : app'.file[g].life # "saved"
    BY <2>3, <2>4 DEF Quietly
  <2> QED
    BY <1>1, <2>3, <2>4, <2>5, RunKeeps DEF Quietly, Adds
<1>7. CASE ~Known(app, f) /\ app' = q
  BY <1>1, <1>3, <1>7, RunKeeps DEF Adds
<1> QED
  BY <1>2, <1>4, <1>5, <1>6, <1>7

\* The last turn of a task ends it, with what s says besides.
LEMMA LastTurnExits ==
    ASSUME IInv, phase = "run", S!Turn("picked"), NEW s \in AppState, LastTurn(s),
           s.file = app.file, s.sched = app.sched
    PROVE  /\ Exits(app, app') /\ S!TaskEnds
           /\ app'.events = s.events /\ app'.disk = s.disk /\ app'.copy = s.copy
<1>1. SP!Sound(app.sched) /\ SP!Placed(app.sched) /\ app.sched.place = "picked" /\ app.sched.bound > 0
  BY Running DEF S!Turn
<1> DEFINE x == [app.sched EXCEPT !.place = "exited"]
<1>2. app' = [s EXCEPT !.sched = x, !.cloning = FALSE, !.source = {}]
  BY DEF LastTurn, AppState
<1>3. app.sched \in S!SchedulerState
  BY <1>1, SameScheduler DEF SP!Sound
<1>4. x \in S!SchedulerState
  BY <1>3 DEF S!SchedulerState, S!Places
<1> HIDE DEF x
<1>5. /\ app' \in AppState /\ app'.sched = x /\ app'.cloning = FALSE
      /\ app'.file = s.file /\ app'.events = s.events /\ app'.disk = s.disk /\ app'.copy = s.copy
  BY <1>2, <1>4 DEF AppState
<1>6. SP!TaskEnds
  BY <1>1, <1>5 DEF SP!TaskEnds, SP!Turn, x
<1>7. SP!Inv
  BY <1>1 DEF SP!Inv
<1>8. SP!Inv'
  BY <1>6, <1>7, TasksAreFit, SP!TaskEndsKeepsInv DEF SP!TasksAssumption
<1>9. SP!Sound(app'.sched) /\ SP!Placed(app'.sched)
  BY <1>8 DEF SP!Inv
<1>10. Exits(app, app')
  BY <1>1, <1>5, <1>9 DEF Exits, x
<1>11. S!TaskEnds
  BY <1>1, <1>5 DEF S!TaskEnds, S!Turn, x
<1> QED
  BY <1>5, <1>10, <1>11

\* The running task, of a part file.
LEMMA CurrentIsTask ==
    ASSUME IInv, phase = "run", S!Turn("picked"), Current.type # "AICH Syncronizing"
    PROVE  /\ app.sched.place = "picked" /\ Current \in PartTasks /\ Current.owner \in Files
           /\ Current.num \in Numbers /\ app.disk[Current.num].good \in SUBSET Parts
           /\ Fit(app) /\ app \in AppState /\ \A f \in Files : app.file[f].life # "saved"
<1>1. app.sched.place = "picked" /\ Fit(app) /\ app \in AppState
  BY Running DEF S!Turn
<1>2. Current \in Waiting(app)
  BY <1>1 DEF Waiting, SP!Waiting, Current
<1>3. Current \in PartTasks
  BY <1>1, <1>2, WaitingTasks DEF Fit
<1>4. Current.owner \in Files /\ Current.num \in Numbers
  BY <1>3 DEF PartTasks
<1>5. app.disk[Current.num] \in DiskState
  BY <1>1, <1>4, Parts1
<1> QED
  BY <1>1, <1>3, <1>4, <1>5, Running DEF DiskState

\* It ends without a word.
LEMMA SilentEnd ==
    ASSUME IInv, phase = "run", phase' = phase, S!Turn("picked"), LastTurn(app)
    PROVE  IInv' /\ S!TaskEnds
<1>1. /\ Exits(app, app') /\ S!TaskEnds
      /\ app'.events = app.events /\ app'.disk = app.disk /\ app'.copy = app.copy
  BY Running, LastTurnExits
<1>2. Fit(app')
  BY <1>1, Running, SilentTurnKeeps
<1>3. \A f \in Files : app'.file[f].life # "saved"
  BY <1>1, Running DEF Exits
<1> QED
  BY <1>1, <1>2, <1>3, RunKeeps

\* It ends, and posts an event.
LEMMA PostedState ==
    ASSUME NEW s \in AppState, NEW e \in Events, NEW r, r = Posted(s, e)
    PROVE  /\ r \in AppState /\ r.events = Append(s.events, e)
           /\ r.file = s.file /\ r.sched = s.sched /\ r.disk = s.disk /\ r.copy = s.copy
<1>1. Append(s.events, e) \in Seq(Events)
  BY Parts1, AppendProperties
<1> QED
  BY <1>1 DEF AppState, Posted

LEMMA EventMade ==
    ASSUME Current \in PartTasks, app.disk[Current.num].good \in SUBSET Parts
    PROVE  /\ Hashed(Current) \in Events
           /\ Completed(Current, TRUE) \in Events /\ Completed(Current, FALSE) \in Events
<1>1. Current.owner \in Files
  BY DEF PartTasks
<1> QED
  BY <1>1 DEF Hashed, Completed, Events

LEMMA TellingEnd ==
    ASSUME IInv, phase = "run", phase' = phase, S!Turn("picked"), Current.type # "AICH Syncronizing",
           NEW e \in Events, e.owner = Current.owner, Tells(app, Current, e), LastTurn(Posted(app, e))
    PROVE  IInv' /\ S!TaskEnds
<1> DEFINE s == Posted(app, e)
<1>1. /\ s \in AppState /\ s.events = Append(app.events, e)
      /\ s.file = app.file /\ s.sched = app.sched /\ s.disk = app.disk /\ s.copy = app.copy
  BY Running, PostedState
<1>2. LastTurn(s)
  OBVIOUS
<1> HIDE DEF s
<1>3. /\ Exits(app, app') /\ S!TaskEnds
      /\ app'.events = s.events /\ app'.disk = s.disk /\ app'.copy = s.copy
  BY <1>1, <1>2, LastTurnExits
<1>4. Current \in PartTasks /\ Fit(app) /\ \A f \in Files : app.file[f].life # "saved"
  BY CurrentIsTask
<1>5. Posts(app, app', e)
  BY <1>1, <1>3, <1>4 DEF Posts, Current
<1>6. Fit(app')
  BY <1>1, <1>3, <1>4, <1>5, PostTurnKeeps DEF Current
<1>7. \A f \in Files : app'.file[f].life # "saved"
  BY <1>3, <1>4 DEF Exits
<1> QED
  BY <1>3, <1>6, <1>7, RunKeeps

LEMMA MovedState ==
    ASSUME NEW s \in AppState, NEW t \in PartTasks, NEW C \in SUBSET Parts, NEW r, r = Moved(s, t, C)
    PROVE  /\ r \in AppState /\ r.copy[t.owner] = C
           /\ \A m \in Numbers \ {t.num} : r.disk[m] = s.disk[m]
           /\ \A g \in Files \ {t.owner} : r.copy[g] = s.copy[g]
           /\ r.events = s.events /\ r.file = s.file /\ r.sched = s.sched
<1> DEFINE c == [s.copy EXCEPT ![t.owner] = C]
           d == [s.disk EXCEPT ![t.num] = NoDisk]
<1>1. t.owner \in Files /\ t.num \in Numbers
  BY DEF PartTasks
<1>2. NoDisk \in DiskState
  BY DEF NoDisk, DiskState
<1>3. /\ c \in [Files -> SUBSET Parts] /\ c[t.owner] = C
      /\ \A g \in Files \ {t.owner} : c[g] = s.copy[g]
  BY <1>1 DEF AppState
<1>4. /\ d \in [Numbers -> DiskState]
      /\ \A m \in Numbers \ {t.num} : d[m] = s.disk[m]
  BY <1>1, <1>2 DEF AppState
<1>5. r = [s EXCEPT !.copy = c, !.disk = d]
  BY DEF Moved, AppState
<1> HIDE DEF c, d
<1> QED
  BY <1>3, <1>4, <1>5 DEF AppState

\* It ends, and has moved its file, C of which is in the Incoming directory.
LEMMA MovingEnd ==
    ASSUME IInv, phase = "run", phase' = phase, S!Turn("picked"), Current.type = "Completing",
           NEW C \in SUBSET Parts, Copies => C = Parts,
           LastTurn(Posted(Moved(app, Current, C), Completed(Current, FALSE)))
    PROVE  IInv' /\ S!TaskEnds
<1> DEFINE q == Moved(app, Current, C)
           e == Completed(Current, FALSE)
           s == Posted(q, e)
<1>1. /\ app.sched.place = "picked" /\ Current \in PartTasks
      /\ app.disk[Current.num].good \in SUBSET Parts
      /\ Fit(app) /\ app \in AppState /\ \A f \in Files : app.file[f].life # "saved"
  BY CurrentIsTask
<1>2. e \in Events /\ e.owner = Current.owner /\ TellsOfMove(Current, e)
  BY <1>1, EventMade DEF Completed, TellsOfMove
<1>3. /\ q \in AppState /\ q.copy[Current.owner] = C
      /\ \A m \in Numbers \ {Current.num} : q.disk[m] = app.disk[m]
      /\ \A g \in Files \ {Current.owner} : q.copy[g] = app.copy[g]
      /\ q.events = app.events /\ q.file = app.file /\ q.sched = app.sched
  BY <1>1, MovedState
<1> HIDE DEF q
<1>4. /\ s \in AppState /\ s.events = Append(q.events, e)
      /\ s.file = q.file /\ s.sched = q.sched /\ s.disk = q.disk /\ s.copy = q.copy
  BY <1>2, <1>3, PostedState
<1>5. LastTurn(s)
  BY DEF q
<1> HIDE DEF s, e
<1>6. /\ Exits(app, app') /\ S!TaskEnds
      /\ app'.events = s.events /\ app'.disk = s.disk /\ app'.copy = s.copy
  BY <1>3, <1>4, <1>5, LastTurnExits
<1>7. Posts(app, app', e) /\ MovesOnly(app, app')
  BY <1>1, <1>2, <1>3, <1>4, <1>6 DEF Posts, MovesOnly, Current
<1>8. Copies => app'.copy[app.sched.current.owner] = Parts
  BY <1>3, <1>4, <1>6 DEF Current
<1>9. Fit(app')
  BY <1>1, <1>2, <1>7, <1>8, MoveTurnKeeps DEF Current
<1>10. \A f \in Files : app'.file[f].life # "saved"
  BY <1>1, <1>6 DEF Exits
<1> QED
  BY <1>6, <1>9, <1>10, RunKeeps

LEMMA HashingTaskKeeps == ASSUME IInv, HashingTask PROVE IInv' /\ S!TaskEnds
<1>1. phase = "run" /\ phase' = phase /\ S!Turn("picked") /\ Current.type = "Hashing"
  BY DEF HashingTask, TaskTurn
<1>2. CASE LastTurn(app)
  BY <1>1, <1>2, SilentEnd
<1>3. CASE LastTurn(Posted(app, Hashed(Current)))
  <2>1. Current \in PartTasks /\ app.disk[Current.num].good \in SUBSET Parts
    BY <1>1, CurrentIsTask
  <2>2. /\ Hashed(Current) \in Events /\ Hashed(Current).owner = Current.owner
        /\ Tells(app, Current, Hashed(Current))
    BY <1>1, <2>1, EventMade DEF Hashed, Tells
  <2> QED
    BY <1>1, <1>3, <2>2, TellingEnd
<1> QED
  BY <1>2, <1>3 DEF HashingTask

LEMMA OpenFailsKeeps == ASSUME IInv, OpenFails PROVE IInv' /\ S!TaskEnds
<1>1. /\ phase = "run" /\ phase' = phase /\ S!Turn("picked") /\ Current.type = "Completing"
      /\ LastTurn(Posted(app, Completed(Current, TRUE)))
  BY DEF OpenFails, TaskTurn
<1>2. Current \in PartTasks /\ app.disk[Current.num].good \in SUBSET Parts
  BY <1>1, CurrentIsTask
<1>3. /\ Completed(Current, TRUE) \in Events /\ Completed(Current, TRUE).owner = Current.owner
      /\ Tells(app, Current, Completed(Current, TRUE))
  BY <1>1, <1>2, EventMade DEF Completed, Tells
<1> QED
  BY <1>1, <1>3, TellingEnd

LEMMA RenameFileKeeps == ASSUME IInv, RenameFile PROVE IInv' /\ S!TaskEnds
<1> DEFINE C == app.disk[Current.num].good
<1>1. /\ phase = "run" /\ phase' = phase /\ S!Turn("picked") /\ Current.type = "Completing"
      /\ LastTurn(Posted(Moved(app, Current, C), Completed(Current, FALSE)))
  BY DEF RenameFile, TaskTurn
<1>2. /\ C \in SUBSET Parts /\ Current \in PartTasks /\ app.sched.place = "picked" /\ Fit(app)
  BY <1>1, CurrentIsTask
<1>3. Copies => C = Parts
  BY <1>1, <1>2, MovedIsWhole DEF Copies, Current, Hashes, Sole
<1> HIDE DEF C
<1> QED
  BY <1>1, <1>2, <1>3, MovingEnd

LEMMA CloneDoneKeeps == ASSUME IInv, CloneDone PROVE IInv' /\ S!TaskEnds
<1>1. /\ phase = "run" /\ phase' = phase /\ S!Turn("picked") /\ Current.type = "Completing"
      /\ app.cloning /\ \E s \in CloneEnds(app, Current) : LastTurn(s)
  BY DEF CloneDone, TaskTurn
<1>2. PICK C \in SUBSET app.source :
          /\ "copy" \notin Env => C = app.source
          /\ LastTurn(Posted(Moved(app, Current, C), Completed(Current, FALSE)))
  <2>1. PICK s \in CloneEnds(app, Current) : LastTurn(s)
    BY <1>1
  <2>2. PICK C \in IF "copy" \in Env THEN SUBSET app.source ELSE {app.source} :
            s = Posted(Moved(app, Current, C), Completed(Current, FALSE))
    BY <2>1 DEF CloneEnds
  <2>3. C \in SUBSET app.source /\ ("copy" \notin Env => C = app.source)
    BY <2>2
  <2> QED
    BY <2>1, <2>2, <2>3
<1>3. app \in AppState /\ Fit(app)
  BY <1>1, Running
<1>4. C \in SUBSET Parts /\ app.cloning = TRUE
  BY <1>1, <1>2, <1>3 DEF AppState
<1>5. Copies => C = Parts
  BY <1>2, <1>3, <1>4 DEF Fit, CloneOK, Copies, Hashes, Sole
<1> QED
  BY <1>1, <1>2, <1>4, <1>5, MovingEnd

LEMMA CloneFileKeeps == ASSUME IInv, CloneFile PROVE IInv' /\ Adds(app, app')
<1>1. /\ phase = "run" /\ phase' = phase /\ S!Turn("picked") /\ Current.type = "Completing"
      /\ Clones(app, app')
  BY DEF CloneFile, TaskTurn, Clones, Current
<1>2. /\ app.sched.place = "picked" /\ Current \in PartTasks
      /\ Fit(app) /\ app \in AppState /\ \A f \in Files : app.file[f].life # "saved"
  BY <1>1, CurrentIsTask
<1>3. Fit(app')
  BY <1>1, <1>2, CloneKeeps DEF Current
<1>4. app'.file = app.file /\ app'.sched = app.sched
  BY <1>1, <1>2 DEF Clones, AppState
<1> QED
  BY <1>1, <1>2, <1>3, <1>4, RunKeeps DEF Adds

LEMMA SyncTaskKeeps == ASSUME IInv, SyncTask PROVE IInv' /\ S!TaskEnds
  BY SilentEnd DEF SyncTask, TaskTurn

\* The scheduler begins its loop, or goes on with it.
LEMMA SchedulerTurnsKeep ==
    ASSUME IInv, Begin \/ Proceed PROVE IInv' /\ (S!Begin \/ S!Proceed)
<1>1. /\ phase = "run" /\ phase' = phase /\ Fit(app) /\ app \in AppState
      /\ SP!Sound(app.sched) /\ SP!Placed(app.sched) /\ \A f \in Files : app.file[f].life # "saved"
  BY Running DEF Begin, Proceed, Scheduled
<1>2. ASSUME NEW x, SP!Sound(x), SP!Placed(x), app.sched.place # "picked",
             SP!Waiting(x) \subseteq Waiting(app) \union {Sync}, app' = [app EXCEPT !.sched = x]
      PROVE  IInv'
  <2>1. Fit(app')
    BY <1>1, <1>2, SchedKeeps
  <2>2. \A f \in Files : app'.file[f].life # "saved"
    BY <1>1, <1>2 DEF AppState
  <2> QED
    BY <1>1, <2>1, <2>2, RunKeeps
<1>3. CASE Begin
  <2>1. PICK x \in S!Select(app.sched) : app' = [app EXCEPT !.sched = x]
    BY <1>3 DEF Begin, Scheduled
  <2>2. app.sched.place = "begin" /\ app.sched.bound > 0 /\ app.sched.current = NoTask
    BY <1>1, <1>3 DEF Begin, S!Turn, SP!Placed
  <2>3. x \in SP!Select(app.sched)
    BY <2>1, SameScheduler
  <2>4. SP!Sound(x) /\ SP!Placed(x)
    BY <1>1, <2>2, <2>3, TasksAreFit, SP!SelectIsSound DEF SP!TasksAssumption
  <2>5. SP!Waiting(x) \subseteq SP!QueuedTasks(app.sched)
    BY <1>1, <2>2, <2>3, TasksAreFit, SP!SelectWaits DEF SP!TasksAssumption
  <2>6. SP!Waiting(x) \subseteq Waiting(app)
    BY <2>5 DEF Waiting, SP!Waiting
  <2>7. S!Begin
    <3>1. app'.sched = x
      BY <1>1, <2>1 DEF AppState
    <3> QED
      BY <1>3, <2>1, <3>1 DEF Begin, S!Begin
  <2> QED
    BY <1>2, <2>1, <2>2, <2>4, <2>6, <2>7
<1>4. CASE Proceed
  <2> DEFINE u == S!Retire(app.sched)
  <2>1. PICK x \in S!Select(u) : app' = [app EXCEPT !.sched = x]
    BY <1>4 DEF Proceed, Scheduled
  <2>2. app.sched.place = "exited" /\ app.sched.bound > 0 /\ app.sched.current # NoTask
    BY <1>1, <1>4 DEF Proceed, S!Turn, SP!Placed
  <2>3. x \in SP!Select(u) /\ u = SP!Retire(app.sched)
    BY <2>1, SameScheduler
  <2>4. SP!Sound(u) /\ u.current = NoTask /\ u.bound > 0
    BY <1>1, <2>2, <2>3, TasksAreFit, SP!RetireIsSound DEF SP!TasksAssumption
  <2>5. SP!QueuedTasks(u) \subseteq SP!QueuedTasks(app.sched) \union {Sync}
    <3>1. app.sched.current \in PartTasks \union {Sync}
      BY <1>1, <2>2, TasksAreFit, SP!WaitingOnce DEF SP!TasksAssumption
    <3>2. SP!QueuedTasks(u) \subseteq SP!QueuedTasks(app.sched) \union
              ({[t \in PartTasks \union {Sync} |-> IF t.type = "Hashing" THEN Sync ELSE NoTask][app.sched.current]}
                  \ {NoTask})
      BY <1>1, <2>2, <2>3, TasksAreFit, SP!RetireWaits DEF SP!TasksAssumption
    <3> HIDE DEF u
    <3> QED
      BY <3>1, <3>2
  <2> HIDE DEF u
  <2>6. SP!Sound(x) /\ SP!Placed(x)
    BY <2>3, <2>4, TasksAreFit, SP!SelectIsSound DEF SP!TasksAssumption
  <2>7. SP!Waiting(x) \subseteq SP!QueuedTasks(u)
    BY <2>3, <2>4, TasksAreFit, SP!SelectWaits DEF SP!TasksAssumption
  <2>8. SP!Waiting(x) \subseteq Waiting(app) \union {Sync}
    BY <2>5, <2>7 DEF Waiting, SP!Waiting
  <2>9. S!Proceed
    <3>1. app'.sched = x
      BY <1>1, <2>1 DEF AppState
    <3> QED
      BY <1>4, <2>1, <3>1 DEF Proceed, S!Proceed, u
  <2> QED
    BY <1>2, <2>1, <2>2, <2>6, <2>8, <2>9
<1> QED
  BY <1>3, <1>4

----------------------------------------------------------------------------
(* The program dies and starts                                             *)

\* What is there of a file that is known, or on disk: its part file, or a copy.
Held(s, f) == s.disk[s.file[f].num].part = TRUE \/ s.copy[f] = Parts

LEMMA FilesAreHeld ==
    ASSUME NEW s, Fit(s), Copies, NEW f \in Files, s.file[f].life \in {"known", "saved"}
    PROVE  Held(s, f)
<1>1. FileOK(s, f) /\ Sole
  BY DEF Fit, Copies, Hashes, Sole
<1>2. CASE Known(s, f) /\ HasMoved(s, f)
  BY <1>1, <1>2 DEF FileOK, KnownOK, Held
<1>3. CASE Known(s, f) /\ ~HasMoved(s, f)
  BY <1>1, <1>3 DEF FileOK, KnownOK, DiskOK, Own, Held
<1>4. CASE s.file[f].life = "saved"
  BY <1>1, <1>4 DEF FileOK, Held
<1> QED
  BY <1>2, <1>3, <1>4 DEF Known

\* What the restart may find of files and disk.
Remains(s) ==
    /\ s \in AppState /\ s.file = app.file
    /\ Copies => \A f \in Files :
          /\ s.file[f].life \in {"known", "saved"} => Held(s, f)
          /\ s.file[f].life = "completed" => s.copy[f] = Parts

\* A buffer is partly written.
LEMMA WrittenRemains ==
    ASSUME IInv, NEW f \in Files, app.file[f].life = "known", NEW W \in SUBSET Parts,
           NEW s, s = Written(app, f, W)
    PROVE  Remains(s)
<1>1. Fit(app) /\ app \in AppState /\ Known(app, f)
  BY DEF IInv, Fit, Known
<1> DEFINE n == app.file[f].num
           d == [app.disk[n] EXCEPT !.good = (@ \ W) \union (W \intersect app.file[f].good), !.touched = TRUE]
<1>2. n \in Numbers /\ app.disk[n] \in DiskState /\ app.file[f] \in PartFileState
  BY <1>1, KnownParts
<1>3. d \in DiskState /\ d.part = app.disk[n].part
  BY <1>2 DEF DiskState, PartFileState
<1>4. s = SetDisk(app, n, d)
  BY <1>1, <1>2 DEF Written, SetDisk, AppState
<1> HIDE DEF d, n
<1>5. /\ s \in AppState /\ s.file = app.file /\ s.copy = app.copy
      /\ s.disk[n] = d /\ \A m \in Numbers \ {n} : s.disk[m] = app.disk[m]
  BY <1>1, <1>2, <1>3, <1>4, DiskSet
<1>6. ASSUME Copies, NEW g \in Files, app.file[g].life \in {"known", "saved"} PROVE Held(s, g)
  <2>1. Held(app, g) /\ app.file[g].num \in Numbers
    BY <1>1, <1>6, FilesAreHeld DEF Fit, FileOK, KnownOK, RecordOK, Known
  <2> QED
    BY <1>3, <1>5, <2>1 DEF Held
<1>7. \A g \in Files : app.file[g].life = "completed" => (Copies => app.copy[g] = Parts)
  BY <1>1 DEF Fit, FileOK
<1> QED
  BY <1>5, <1>6, <1>7 DEF Remains

\* A file was copied, or moved but for its .met file.
LEMMA CopyRemains ==
    ASSUME IInv, phase = "run", app.sched.place = "picked", app.sched.current.type = "Completing",
           app.sched.current \in PartTasks, NEW C \in SUBSET Parts, Copies => C = Parts,
           NEW d \in DiskState,
           NEW s, s = [app EXCEPT !.copy[app.sched.current.owner] = C, !.disk[app.sched.current.num] = d]
    PROVE  Remains(s)
<1> DEFINE t == app.sched.current
           f == t.owner
           c == [app.copy EXCEPT ![f] = C]
           k == [app.disk EXCEPT ![t.num] = d]
<1>1. /\ Fit(app) /\ app \in AppState /\ \A g \in Files : app.file[g].life # "saved"
      /\ f \in Files /\ t.num \in Numbers /\ t \in TasksOf(app, f)
  BY Running DEF PartTasks, TasksOf, Waiting, SP!Waiting
<1>2. s = [app EXCEPT !.copy = c, !.disk = k]
  BY <1>1 DEF AppState
<1>3. /\ c \in [Files -> SUBSET Parts] /\ c[f] = C /\ \A g \in Files \ {f} : c[g] = app.copy[g]
      /\ k \in [Numbers -> DiskState] /\ \A m \in Numbers \ {t.num} : k[m] = app.disk[m]
  BY <1>1 DEF AppState
<1> HIDE DEF c, k
<1>4. /\ s \in AppState /\ s.file = app.file /\ s.copy = c /\ s.disk = k
  BY <1>1, <1>2, <1>3 DEF AppState
<1>5. Copies => Known(app, f)
  BY <1>1, MovedIsWhole DEF Copies, Hashes, Sole
<1> HIDE DEF f, t
<1>6. ASSUME Copies, NEW g \in Files, app.file[g].life = "known" PROVE Held(s, g)
  <2>1. Held(app, g) /\ app.file[g].num \in Numbers
    BY <1>1, <1>6, FilesAreHeld DEF Fit, FileOK, KnownOK, RecordOK, Known
  <2>2. CASE g = f
    BY <1>3, <1>4, <1>6, <2>2 DEF Held
  <2>3. CASE g # f /\ HasMoved(app, g)
    <3>1. app.copy[g] = Parts
      BY <1>1, <1>6, <2>3 DEF Fit, FileOK, KnownOK, Known
    <3> QED
      BY <1>3, <1>4, <2>3, <3>1 DEF Held
  <2>4. CASE g # f /\ ~HasMoved(app, g)
    <3>1. Known(app, f) /\ Known(app, g) /\ Sole
      BY <1>5, <1>6 DEF Known, Copies, Hashes, Sole
    <3>2. AwaitsOne(app, f)
      BY <1>1, <3>1, KnownParts
    <3>3. ~HasMoved(app, f) /\ t.num = app.file[f].num
      BY <1>1, <3>2, MovedAwaitsNothing DEF AwaitsOne
    <3>4. app.file[g].num # t.num
      BY <1>1, <2>4, <3>1, <3>3, OwnersDiffer
    <3> QED
      BY <1>3, <1>4, <2>1, <2>4, <3>4 DEF Held
  <2> QED
    BY <2>2, <2>3, <2>4
<1>7. ASSUME Copies, NEW g \in Files, app.file[g].life = "completed" PROVE s.copy[g] = Parts
  <2>1. g # f /\ app.copy[g] = Parts
    BY <1>1, <1>5, <1>7 DEF Known, Fit, FileOK
  <2> QED
    BY <1>3, <1>4, <2>1
<1> QED
  BY <1>1, <1>4, <1>6, <1>7 DEF Remains

\* A .met file was removed, and not written again.
LEMMA RemovedRemains ==
    ASSUME Fit(app), NEW f \in Files, Known(app, f), NEW s, s = Removed(app, f)
    PROVE  Remains(s)
<1> DEFINE n == app.file[f].num
           d == [app.disk[n] EXCEPT !.met = NoMet]
<1>1. app \in AppState /\ n \in Numbers /\ app.disk[n] \in DiskState
  <2>1. app \in AppState /\ n \in Numbers
    BY DEF Fit, FileOK, KnownOK, RecordOK
  <2> QED
    BY <2>1, Parts1
<1>2. d \in DiskState /\ d.part = app.disk[n].part
  BY <1>1 DEF DiskState
<1>3. s = SetDisk(app, n, d)
  BY <1>1 DEF Removed, SetDisk, AppState
<1> HIDE DEF d
<1>4. /\ s \in AppState /\ s.file = app.file /\ s.copy = app.copy
      /\ s.disk[n] = d /\ \A m \in Numbers \ {n} : s.disk[m] = app.disk[m]
  BY <1>1, <1>2, <1>3, DiskSet
<1>5. ASSUME Copies, NEW g \in Files, app.file[g].life \in {"known", "saved"} PROVE Held(s, g)
  <2>1. Held(app, g) /\ app.file[g].num \in Numbers
    BY <1>5, FilesAreHeld DEF Fit, FileOK, KnownOK, RecordOK, Known
  <2> QED
    BY <1>2, <1>4, <2>1 DEF Held
<1>6. ASSUME Copies, NEW g \in Files, app.file[g].life = "completed" PROVE s.copy[g] = Parts
  BY <1>4, <1>6 DEF Fit, FileOK
<1> QED
  BY <1>4, <1>5, <1>6 DEF Remains

LEMMA TornRemains ==
    ASSUME IInv, NEW s \in Torn(app) PROVE Remains(s)
<1>1. Fit(app) /\ app \in AppState
  BY DEF IInv, Fit
<1>2. CASE s = app
  <2>1. \A f \in Files : app.file[f].life = "completed" => (Copies => app.copy[f] = Parts)
    BY <1>1 DEF Fit, FileOK
  <2> QED
    BY <1>1, <1>2, <2>1, FilesAreHeld DEF Remains
<1>3. ASSUME NEW f \in Files, app.file[f].life = "known", NEW W \in SUBSET app.file[f].buffer,
             s = Written(app, f, W)
      PROVE  Remains(s)
  <2>1. app.file[f].buffer \in SUBSET Parts
    BY <1>1, Parts1 DEF PartFileState
  <2>2. W \in SUBSET Parts
    BY <2>1
  <2> QED
    BY <1>3, <2>2, WrittenRemains
<1> DEFINE t == app.sched.current
           d == [app.disk[t.num] EXCEPT !.part = FALSE, !.good = {}]
<1>4. ASSUME phase = "run", app.sched.place = "picked", t.type = "Completing",
             \/ app.cloning /\ s = [app EXCEPT !.copy[t.owner] = app.source]
             \/ ~app.cloning /\ s = [app EXCEPT !.copy[t.owner] = app.disk[t.num].good,
                                        !.disk[t.num].part = FALSE, !.disk[t.num].good = {}]
      PROVE  Remains(s)
  <2>1. t \in Waiting(app)
    BY <1>4 DEF Waiting, SP!Waiting
  <2>2. t \in PartTasks
    BY <1>1, <1>4, <2>1, WaitingTasks DEF Fit
  <2>3. t.owner \in Files /\ t.num \in Numbers
    BY <2>2 DEF PartTasks
  <2>4. app.disk[t.num] \in DiskState
    BY <1>1, <2>3, Parts1
  <2>5. d \in DiskState /\ app.disk[t.num].good \in SUBSET Parts
    BY <2>4 DEF DiskState
  <2>6. CASE app.cloning /\ s = [app EXCEPT !.copy[t.owner] = app.source]
    <3>1. app.source \in SUBSET Parts /\ app.cloning = TRUE
      BY <1>1, <2>6 DEF AppState
    <3>2. Copies => app.source = Parts
      BY <1>1, <3>1 DEF Fit, CloneOK, Copies, Hashes, Sole
    <3>3. s = [app EXCEPT !.copy[t.owner] = app.source, !.disk[t.num] = app.disk[t.num]]
      BY <1>1, <2>3, <2>6 DEF AppState
    <3> QED
      BY <1>4, <2>2, <2>4, <3>1, <3>2, <3>3, CopyRemains
  <2>7. CASE s = [app EXCEPT !.copy[t.owner] = app.disk[t.num].good,
                             !.disk[t.num].part = FALSE, !.disk[t.num].good = {}]
    <3>1. s = [app EXCEPT !.copy[t.owner] = app.disk[t.num].good, !.disk[t.num] = d]
      BY <1>1, <2>3, <2>7 DEF AppState
    <3>2. Copies => app.disk[t.num].good = Parts
      BY <1>1, <1>4, <2>2, MovedIsWhole DEF Copies, Hashes, Sole
    <3> HIDE DEF d
    <3> QED
      BY <1>4, <2>2, <2>5, <3>1, <3>2, CopyRemains
  <2> QED
    BY <1>4, <2>6, <2>7
<1>5. \/ s = app
      \/ \E f \in Files : /\ app.file[f].life = "known"
                          /\ \E W \in SUBSET app.file[f].buffer : s = Written(app, f, W)
      \/ /\ phase = "run" /\ app.sched.place = "picked" /\ t.type = "Completing"
         /\ \/ app.cloning /\ s = [app EXCEPT !.copy[t.owner] = app.source]
            \/ ~app.cloning /\ s = [app EXCEPT !.copy[t.owner] = app.disk[t.num].good,
                                       !.disk[t.num].part = FALSE, !.disk[t.num].good = {}]
      \/ \E f \in Files : app.file[f].life = "known" /\ s = Removed(app, f)
  <2>1. s = app \/ s \in TornWrites(app) \/ s \in TornMoves(app) \/ s \in TornSaves(app)
    BY DEF Torn
  <2>4. ASSUME s \in TornSaves(app)
        PROVE  \E f \in Files : app.file[f].life = "known" /\ s = Removed(app, f)
    BY <2>4 DEF TornSaves
  <2>2. ASSUME s \in TornWrites(app)
        PROVE  \E f \in Files : /\ app.file[f].life = "known"
                                /\ \E W \in SUBSET app.file[f].buffer : s = Written(app, f, W)
    BY <2>2 DEF TornWrites
  <2>3. ASSUME s \in TornMoves(app)
        PROVE  /\ phase = "run" /\ app.sched.place = "picked" /\ t.type = "Completing"
               /\ \/ app.cloning /\ s = [app EXCEPT !.copy[t.owner] = app.source]
                  \/ ~app.cloning /\ s = [app EXCEPT !.copy[t.owner] = app.disk[t.num].good,
                                             !.disk[t.num].part = FALSE, !.disk[t.num].good = {}]
    <3>1. phase = "run" /\ app.sched.place = "picked" /\ t.type = "Completing"
      BY <2>3, Zenon DEF TornMoves
    <3>2. s \in IF app.cloning THEN {[app EXCEPT !.copy[t.owner] = app.source]}
                ELSE IF app.disk[t.num].part
                THEN {[app EXCEPT !.copy[t.owner] = app.disk[t.num].good,
                                  !.disk[t.num].part = FALSE, !.disk[t.num].good = {}]}
                ELSE {}
      BY <2>3, <3>1, Zenon DEF TornMoves
    <3>3. \/ app.cloning /\ s = [app EXCEPT !.copy[t.owner] = app.source]
          \/ ~app.cloning /\ s = [app EXCEPT !.copy[t.owner] = app.disk[t.num].good,
                                     !.disk[t.num].part = FALSE, !.disk[t.num].good = {}]
      BY <3>2, Zenon
    <3> QED
      BY <3>1, <3>3
  <2> QED
    BY <2>1, <2>2, <2>3, <2>4
<1>6. ASSUME NEW f \in Files, app.file[f].life = "known", s = Removed(app, f) PROVE Remains(s)
  BY <1>1, <1>6, RemovedRemains DEF Known
<1> QED
  BY <1>2, <1>3, <1>4, <1>5, <1>6

\* Of a sound scheduler without tasks, none waits.
LEMMA NothingWaits ==
    ASSUME NEW running \in BOOLEAN
    PROVE  LET x == SP!NoScheduler(running, FALSE, 0)
           IN  /\ SP!Sound(x) /\ SP!Placed(x) /\ SP!Waiting(x) = {}
               /\ x.place = "begin" /\ x.running = running /\ x.terminated = FALSE /\ x.exists = FALSE
<1> DEFINE x == SP!NoScheduler(running, FALSE, 0)
<1>1. SP!Sound(x) /\ SP!Placed(x)
  BY TasksAreFit, SP!NoSchedulerIsSound DEF SP!TasksAssumption
<1>2. x.tasks = << >> /\ x.place = "begin" /\ x.running = running /\ x.terminated = FALSE /\ x.exists = FALSE
  BY DEF SP!NoScheduler
<1> HIDE DEF x
<1>3. SP!Waiting(x) = {}
  <2>1. DOMAIN x.tasks = {}
    BY <1>2, EmptySeq
  <2> QED
    BY <1>2, <2>1 DEF SP!Waiting, SP!QueuedTasks
<1> QED
  BY <1>1, <1>2, <1>3 DEF x

LEMMA RestartKeeps ==
    ASSUME IInv, Restart PROVE IInv' /\ S!Restart
<1>1. PICK s \in Torn(app) :
          app' = [s EXCEPT !.file = [f \in Files |-> Forgotten(@[f])],
                           !.events = << >>, !.cloning = FALSE, !.source = {}, !.box = {},
                           !.sched = S!NoScheduler(FALSE, FALSE, 0)]
  BY DEF Restart
<1>2. Remains(s) /\ s \in AppState /\ s.file = app.file
  BY <1>1, TornRemains DEF Remains
<1> DEFINE x == SP!NoScheduler(FALSE, FALSE, 0)
           F == [f \in Files |-> Forgotten(app.file[f])]
<1>3. x = S!NoScheduler(FALSE, FALSE, 0)
  BY SameScheduler
<1>4. SP!Sound(x) /\ SP!Placed(x) /\ SP!Waiting(x) = {} /\ x.place = "begin"
  BY NothingWaits
<1>5. x \in S!SchedulerState
  BY <1>4, SameScheduler DEF SP!Sound
<1>6. ASSUME NEW f \in Files
      PROVE  /\ F[f] \in PartFileState /\ F[f].life # "known"
             /\ F[f].life = "saved" => app.file[f].life \in {"known", "saved"} /\ F[f].num = app.file[f].num
             /\ F[f].life = "completed" => app.file[f].life = "completed"
  <2>1. app.file[f] \in PartFileState
    BY Parts1 DEF IInv, Fit
  <2>2. app.file[f].num \in Numbers \union {0}
    BY <2>1 DEF PartFileState
  <2> QED
    BY <2>1, <2>2 DEF Forgotten, PartFileState, Statuses
<1>7. F \in [Files -> PartFileState]
  BY <1>6
<1>8. app' = [s EXCEPT !.file = F, !.events = << >>, !.cloning = FALSE, !.source = {},
                       !.box = {}, !.sched = x]
  BY <1>1, <1>2, <1>3 DEF AppState
<1> HIDE DEF F, x
<1>9. /\ app' \in AppState /\ app'.file = F /\ app'.disk = s.disk /\ app'.copy = s.copy
      /\ app'.events = << >> /\ app'.cloning = FALSE /\ app'.sched = x
  <2>1. << >> \in Seq(Events) /\ {} \in SUBSET Parts
    OBVIOUS
  <2>2. /\ app'.file = F /\ app'.disk = s.disk /\ app'.copy = s.copy
        /\ app'.events = << >> /\ app'.cloning = FALSE /\ app'.source = {} /\ app'.sched = x
    BY <1>2, <1>8 DEF AppState
  <2>3. app' \in AppState
    BY <1>2, <1>5, <1>7, <1>8, <2>1 DEF AppState
  <2> QED
    BY <2>2, <2>3
<1>10. ASSUME NEW f \in Files PROVE FileOK(app', f)
  <2>1. Free(app', f)
    BY <1>4, <1>9 DEF Free, TasksOf, EventsOf, Waiting
  <2>2. app.file[f].life \in {"known", "saved"} => app.file[f].num \in Numbers
    BY DEF IInv, Fit, FileOK, KnownOK, RecordOK, Known
  <2>3. app'.file[f] = F[f] /\ app'.disk = s.disk /\ app'.copy = s.copy
    BY <1>9
  <2>4. F[f].life = "saved" =>
            /\ F[f].num \in Numbers
            /\ Copies => s.disk[F[f].num].part = TRUE \/ s.copy[f] = Parts
    BY <1>2, <1>6, <2>2 DEF Remains, Held
  <2>5. F[f].life = "completed" => (Copies => s.copy[f] = Parts)
    BY <1>2, <1>6 DEF Remains
  <2> QED
    BY <1>6, <2>1, <2>3, <2>4, <2>5 DEF FileOK, Known
<1>11. CompletingIsKnown(app') /\ CloneOK(app')
  BY <1>4, <1>9 DEF CompletingIsKnown, CloneOK, Waiting
<1>12. Fit(app')
  BY <1>4, <1>9, <1>10, <1>11 DEF Fit
<1>13. phase' = "dead" /\ \A f \in Files : ~Known(app', f)
  BY <1>6, <1>9 DEF Known, Restart
<1>14. PhaseOK(app)'
  BY <1>4, <1>9, <1>13 DEF PhaseOK, x
<1>15. S!Restart
  BY <1>3, <1>9 DEF S!Restart
<1> QED
  BY <1>12, <1>14, <1>15 DEF IInv

LEMMA BootKeeps ==
    ASSUME IInv, Boot PROVE IInv' /\ S!Start
<1> DEFINE o == SP!NoScheduler(FALSE, FALSE, 0)
           x == SP!NoScheduler(TRUE, FALSE, 0)
<1>1. /\ Fit(app) /\ app \in AppState /\ app.sched = o /\ app.events = << >>
      /\ phase' = "load" /\ \A f \in Files : ~Known(app, f)
  BY DEF Boot, IInv, PhaseOK, Fit
<1>2. /\ SP!Sound(x) /\ SP!Placed(x) /\ SP!Waiting(x) = {} /\ x.place = "begin"
      /\ o.place = "begin" /\ o.running = FALSE /\ o.terminated = FALSE /\ o.exists = FALSE
  BY NothingWaits
<1>3. SP!Started(o) = x
  BY DEF SP!Started, SP!NoScheduler
<1>4. app' = [app EXCEPT !.sched = x]
  BY <1>1, <1>3, SameScheduler DEF Boot, AppState
<1> HIDE DEF o, x
<1>5. Fit(app')
  BY <1>1, <1>2, <1>4, SchedKeeps
<1>6. app'.file = app.file /\ app'.events = app.events /\ app'.sched = x
  BY <1>1, <1>4 DEF AppState
<1>7. PhaseOK(app)'
  <2>1. \A f \in Files : ~Known(app', f)
    BY <1>1, <1>6 DEF Known
  <2> QED
    BY <1>1, <1>2, <1>6, <2>1 DEF PhaseOK
<1>8. S!Start
  BY <1>1, <1>2, <1>3, <1>6, SameScheduler DEF S!Start
<1> QED
  BY <1>5, <1>7, <1>8 DEF IInv

\* A file that is not found under its number is forgotten.
Forgets(s, r, f) == r = [s EXCEPT !.file[f].life = "gone"]

LEMMA GoneKeeps ==
    ASSUME NEW s, Fit(s), NEW f \in Files, s.file[f].life = "saved",
           NEW r, Forgets(s, r, f)
    PROVE  /\ Fit(r) /\ r.sched = s.sched /\ r.events = s.events /\ r.disk = s.disk
           /\ \A g \in Files \ {f} : r.file[g] = s.file[g]
           /\ ~Known(r, f)
<1> DEFINE k == [s.file[f] EXCEPT !.life = "gone"]
<1>1. s \in AppState /\ s.file[f] \in PartFileState
  BY Parts1 DEF Fit
<1>2. k \in PartFileState /\ k.life = "gone"
  BY <1>1 DEF PartFileState
<1>3. r = SetFile(s, f, k)
  BY <1>1 DEF Forgets, SetFile, AppState
<1> HIDE DEF k
<1>4. /\ r \in AppState
      /\ r.file[f] = k /\ \A g \in Files \ {f} : r.file[g] = s.file[g]
      /\ r.disk = s.disk /\ r.copy = s.copy /\ r.cloning = s.cloning
      /\ r.source = s.source /\ r.events = s.events /\ r.sched = s.sched
  <2> HIDE DEF k
  <2>1. s \in AppState /\ k \in PartFileState /\ r = SetFile(s, f, k)
    BY <1>1, <1>2, <1>3
  <2>2. r.file[f] = k /\ \A g \in Files \ {f} : r.file[g] = s.file[g]
    BY <2>1, FileSet
  <2>3. /\ r \in AppState
        /\ r.disk = s.disk /\ r.copy = s.copy /\ r.cloning = s.cloning
        /\ r.source = s.source /\ r.events = s.events /\ r.sched = s.sched
    BY <2>1, FileSet
  <2> QED
    BY <2>2, <2>3
<1>5. /\ Waiting(r) = Waiting(s) /\ \A g \in Files : TasksOf(r, g) = TasksOf(s, g)
      /\ \A g \in Files : SameEvents(s, r, g) /\ (HasMoved(s, g) <=> HasMoved(r, g))
      /\ \A g \in Files : Known(r, g) <=> Known(s, g)
      /\ \A g \in Files : Known(r, g) => r.file[g] = s.file[g]
  <2>1. \A g \in Files : SameEvents(s, r, g) /\ (HasMoved(s, g) <=> HasMoved(r, g))
    BY <1>4, EqualEvents
  <2> QED
    BY <1>2, <1>4, <2>1 DEF Waiting, TasksOf, Known
<1>6. ASSUME NEW g \in Files \ {f} PROVE FileOK(r, g)
  <2>1. Sole /\ Known(s, g) /\ ~HasMoved(s, g) => Own(r, g)
    <3>1. Sole /\ Known(s, g) /\ ~HasMoved(s, g) => Own(s, g)
      BY KnownParts DEF KnownOK, DiskOK
    <3> QED
      BY <1>4, <1>5, <3>1, OwnKeeps
  <2>2. Spares(s, r, g)
    BY <1>4, <1>5, <2>1 DEF Spares
  <2> QED
    BY <2>2, SparedKeeps DEF Fit
<1>7. FileOK(r, f)
  BY <1>2, <1>4 DEF FileOK, Known
<1>8. CompletingIsKnown(r)
  <2>1. ASSUME Kept, NEW t \in Waiting(r), t.type = "Completing" PROVE Known(r, t.owner)
    <3>1. Known(s, t.owner) /\ t.owner \in Files
      BY <1>5, <2>1, WaitingTasks DEF Fit, CompletingIsKnown
    <3> QED
      BY <1>5, <3>1
  <2>2. ASSUME Kept, NEW i \in DOMAIN r.events, r.events[i].type = "completed"
        PROVE  Known(r, r.events[i].owner)
    <3>1. Known(s, r.events[i].owner) /\ r.events[i].owner \in Files
      BY <1>4, <2>2, WaitingTasks DEF Fit, CompletingIsKnown
    <3> QED
      BY <1>5, <3>1
  <2> QED
    BY <2>1, <2>2 DEF CompletingIsKnown
<1>9. CloneOK(r) /\ SP!Sound(r.sched) /\ SP!Placed(r.sched)
  BY <1>4 DEF Fit, CloneOK
<1>10. ~Known(r, f)
  BY <1>2, <1>4 DEF Known
<1> QED
  BY <1>4, <1>6, <1>7, <1>8, <1>9, <1>10 DEF Fit

LEMMA LoadMetFileKeeps ==
    ASSUME IInv, NEW f \in Files, LoadMetFile(f) PROVE IInv' /\ Adds(app, app')
<1>1. /\ phase = "load" /\ phase' = phase /\ app.file[f].life = "saved" /\ Fit(app) /\ app \in AppState
      /\ app.sched.place = "begin" /\ app.events = << >>
      /\ \A g \in Files : Known(app, g) => app.disk[app.file[g].num].met.owner = g
  BY DEF LoadMetFile, IInv, PhaseOK, Fit
<1>2. CASE Stored(app.disk[app.file[f].num], f) /\ app' = LoadPartFile(app, f)
  <2>1. /\ Fit(app') /\ Adds(app, app') /\ app'.events = app.events /\ app'.sched.place = app.sched.place
        /\ app'.disk = app.disk /\ Known(app', f) /\ app'.file[f].num = app.file[f].num
        /\ \A g \in Files \ {f} : app'.file[g] = app.file[g]
    BY <1>1, <1>2, LoadKeeps
  <2>2. \A g \in Files : Known(app', g) => app'.disk[app'.file[g].num].met.owner = g
    BY <1>1, <1>2, <2>1 DEF Known, Stored
  <2>3. PhaseOK(app)'
    BY <1>1, <2>1, <2>2 DEF PhaseOK
  <2> QED
    BY <2>1, <2>3 DEF IInv
<1>3. CASE app' = [app EXCEPT !.file[f].life = "gone"]
  <2>1. /\ Fit(app') /\ app'.sched = app.sched /\ app'.events = app.events /\ app'.disk = app.disk
        /\ \A g \in Files \ {f} : app'.file[g] = app.file[g]
        /\ ~Known(app', f)
    BY <1>1, <1>3, GoneKeeps DEF Forgets
  <2>2. \A g \in Files : Known(app', g) => app'.disk[app'.file[g].num].met.owner = g
    BY <1>1, <2>1 DEF Known
  <2>3. PhaseOK(app)'
    BY <1>1, <2>1, <2>2 DEF PhaseOK
  <2> QED
    BY <2>1, <2>3 DEF IInv, Adds
<1>4. app.file[f].num \in Numbers
  BY <1>1 DEF Fit, FileOK
<1>5. app.disk[app.file[f].num].part \in BOOLEAN
  BY <1>1, <1>4, Parts1 DEF DiskState
<1> QED
  BY <1>2, <1>3, <1>5 DEF LoadMetFile, Stored

LEMMA LoadedKeeps ==
    ASSUME IInv, Loaded PROVE IInv' /\ Adds(app, app')
<1>1. app' = app /\ phase' = "run" /\ Fit(app) /\ \A f \in Files : app.file[f].life # "saved"
  BY DEF Loaded, IInv
<1>2. PhaseOK(app)'
  BY <1>1 DEF PhaseOK
<1> QED
  BY <1>1, <1>2 DEF IInv, Adds

----------------------------------------------------------------------------
(* The invariant, and the scheduler                                        *)

LEMMA InitHolds == Init => IInv /\ S!Init
<1> SUFFICES ASSUME Init PROVE IInv /\ S!Init
  OBVIOUS
<1> DEFINE x == SP!NoScheduler(FALSE, FALSE, 0)
           k == [ life |-> "absent", num |-> 0, status |-> "EMPTY", paused |-> FALSE,
                  stopped |-> FALSE, insufficient |-> FALSE,
                  filled |-> {}, buffer |-> {}, good |-> {} ]
<1>1. x = S!NoScheduler(FALSE, FALSE, 0)
  BY SameScheduler
<1>2. SP!Sound(x) /\ SP!Placed(x) /\ SP!Waiting(x) = {} /\ x.place = "begin"
  BY NothingWaits
<1>3. x \in S!SchedulerState
  BY <1>2, SameScheduler DEF SP!Sound
<1>4. k \in PartFileState /\ k.life = "absent"
  BY DEF PartFileState, Statuses
<1>5. NoDisk \in DiskState
  BY DEF NoDisk, DiskState
<1>6. app = [ file |-> [f \in Files |-> k], disk |-> [n \in Numbers |-> NoDisk],
              copy |-> [f \in Files |-> {}], cloning |-> FALSE, source |-> {},
              box |-> {}, events |-> << >>, sched |-> x ]
  BY <1>1 DEF Init
<1>7. << >> \in Seq(Events)
  OBVIOUS
<1> HIDE DEF k, x
<1>8. /\ app \in AppState /\ \A f \in Files : app.file[f] = k
      /\ app.events = << >> /\ app.cloning = FALSE /\ app.sched = x
  BY <1>3, <1>4, <1>5, <1>6, <1>7 DEF AppState
<1>9. ASSUME NEW f \in Files PROVE FileOK(app, f)
  <2>1. Free(app, f)
    BY <1>2, <1>8 DEF Free, TasksOf, EventsOf, Waiting
  <2> QED
    BY <1>4, <1>8, <2>1 DEF FileOK, Known
<1>10. CompletingIsKnown(app) /\ CloneOK(app)
  BY <1>2, <1>8 DEF CompletingIsKnown, CloneOK, Waiting
<1>11. PhaseOK(app)
  BY <1>2, <1>4, <1>8 DEF PhaseOK, Init, Known, x
<1>12. S!Init
  BY <1>1, <1>8 DEF S!Init
<1> QED
  BY <1>2, <1>8, <1>9, <1>10, <1>11, <1>12 DEF IInv, Fit

LEMMA StepKeeps == ASSUME IInv, [Next]_vars PROVE IInv' /\ SchedStep
<1>1. ASSUME NEW f \in Files, FileNext(f) PROVE IInv' /\ Adds(app, app')
  BY <1>1, CreateKeeps, ProcessKeeps, PauseActionKeeps, StopActionKeeps, ResumeActionKeeps,
     SaveActionKeeps, RemoteCancelKeeps, WriteToBufferKeeps DEF FileNext
<1>2. CASE Adds(app, app') /\ IInv'
  BY <1>2, AddsIsStep
<1>3. CASE (S!TaskEnds \/ S!Begin \/ S!Proceed \/ S!Restart \/ S!Start) /\ IInv'
  BY <1>3 DEF SchedStep, S!Next
<1>4. CASE \E f \in Files : FileNext(f)
  BY <1>1, <1>2, <1>4
<1>5. CASE NoSpace \/ SpaceAgain
  BY <1>2, <1>5, SpaceKeeps
<1>13. CASE Answer \/ \E D \in SUBSET Files : AskToCancel(D)
  BY <1>2, <1>13, AnswerKeeps, AskKeeps
<1>6. CASE Begin \/ Proceed
  BY <1>3, <1>6, SchedulerTurnsKeep
<1>7. CASE RunTask
  BY <1>2, <1>3, <1>7, HashingTaskKeeps, RenameFileKeeps, CloneFileKeeps, OpenFailsKeeps,
     CloneDoneKeeps, SyncTaskKeeps DEF RunTask
<1>8. CASE OnFinishedHashing \/ OnFinishedCompletion
  BY <1>2, <1>8, EventActionsKeep
<1>9. CASE Restart
  BY <1>3, <1>9, RestartKeeps
<1>10. CASE Boot
  BY <1>3, <1>10, BootKeeps
<1>11. CASE Loading
  BY <1>2, <1>11, LoadMetFileKeeps, LoadedKeeps DEF Loading
<1>12. CASE UNCHANGED vars
  <2>1. app' = app /\ phase' = phase
    BY <1>12 DEF vars
  <2>2. Fit(app') /\ PhaseOK(app)'
    BY <2>1 DEF IInv, PhaseOK
  <2>3. SchedStep
    BY <2>1 DEF SchedStep
  <2> QED
    BY <2>2, <2>3 DEF IInv
<1> QED
  BY <1>4, <1>5, <1>6, <1>7, <1>8, <1>9, <1>10, <1>11, <1>12, <1>13 DEF Next

\* The invariant, and the claims that hold whatever the environment does: that
\* the buffer, the status and what is awaited of every file fit together.
LEMMA Invariant == Spec => []IInv
<1>1. Init => IInv
  BY InitHolds
<1>2. IInv /\ [Next]_vars => IInv'
  BY StepKeeps
<1> QED
  BY <1>1, <1>2, PTL DEF Spec

\* Whatever the environment does, AddTask, Start and the turns of the scheduler
\* are used as its module describes it: the tasks of part files, the follow-ups
\* of CHashingTask and the deaths of the program are behaviours of
\* CThreadScheduler, and what is proved of it holds here.
THEOREM PartFilesSchedule == Spec => Scheduler
<1>1. Init => S!Init
  BY InitHolds
<1>2. IInv /\ [Next]_vars => [S!Next]_(app.sched)
  BY StepKeeps DEF SchedStep
<1> QED
  BY <1>1, <1>2, Invariant, PTL DEF Spec, Scheduler, S!Spec


----------------------------------------------------------------------------
(* What is claimed                                                         *)

\* The tasks and the events that the claims speak of are those of the invariant.
LEMMA TasksLeftWait ==
    ASSUME NEW type PROVE \A t \in TasksLeft(type) : t \in Waiting(app) /\ t.type = type
<1>1. ASSUME NEW t, S!Queued(t) PROVE t \in Waiting(app)
  BY <1>1 DEF S!Queued, Waiting, SP!Waiting, SP!QueuedTasks
<1> QED
  BY <1>1 DEF TasksLeft, Waiting, SP!Waiting

LEMMA HoldersAreOwners == \A f \in Holders : f \in Files /\ Known(app, f) /\ ~HasMoved(app, f)
  BY DEF Holders, EventsFor, HasMoved, EventsOf, Known

\* However pauses, deletions of other files, peers and deaths of the program come
\* between, the event of a completion finds its file still known.  So the assertion
\* of OnFinishedCompletion depends on nothing but that no remote control cancels
\* what is being completed, and no user confirms such a cancellation for which the
\* message box was opened before.
THEOREM CompletionIsTold == Kept => (Spec => []CompletionIsForKnown)
<1>1. ASSUME Kept, IInv PROVE CompletionIsForKnown
  <2>1. app.events \in Seq(Events) /\ CompletingIsKnown(app)
    BY <1>1 DEF IInv, Fit, AppState
  <2>2. ASSUME app.events # << >> PROVE 1 \in DOMAIN app.events /\ app.events[1] = Head(app.events)
    BY <2>1, <2>2
  <2> QED
    BY <1>1, <2>1, <2>2 DEF CompletionIsForKnown, CompletingIsKnown, Known
<1> SUFFICES ASSUME Kept PROVE Spec => []CompletionIsForKnown
  OBVIOUS
<1>2. IInv => CompletionIsForKnown
  BY <1>1
<1> QED
  BY <1>2, Invariant, PTL

\* Two files that are not moved yet never write to the same names, and the .met
\* file under a file's number is its own, if no file is saved between its move
\* and the event that tells of it, no save fails, and none is deleted while it is
\* being completed.
THEOREM NumbersStayOwn == Signs => (Spec => []NumbersAreOwn)
<1>1. ASSUME Signs, IInv PROVE NumbersAreOwn
  <2>1. Sole /\ Fit(app)
    BY <1>1 DEF Signs, IInv, Sole
  <2>2. ASSUME NEW f \in Holders
        PROVE  /\ \A g \in Holders \ {f} : app.file[g].num # app.file[f].num
               /\ app.disk[app.file[f].num].met # NoMet =>
                     app.disk[app.file[f].num].met.owner = f
    <3>1. f \in Files /\ Known(app, f) /\ ~HasMoved(app, f)
      BY HoldersAreOwners
    <3>2. app.disk[app.file[f].num].met.owner = f
      BY <1>1, <2>1, <3>1, KnownParts DEF KnownOK, DiskOK
    <3> QED
      BY <2>1, <3>1, <3>2, HoldersAreOwners, OwnersDiffer
  <2> QED
    BY <2>2 DEF NumbersAreOwn
<1> SUFFICES ASSUME Signs PROVE Spec => []NumbersAreOwn
  OBVIOUS
<1>2. IInv => NumbersAreOwn
  BY <1>1
<1> QED
  BY <1>2, Invariant, PTL

\* What CCompletionTask is going to move is right in all its parts: whenever a
\* completion waits, the file was hashed whole before, and no write, pause,
\* deletion of another file or restart has changed it since, if no write or save
\* fails, and the file itself is not deleted.
THEOREM HashedIsMoved == Hashes => (Spec => []OnlyHashedIsMoved)
<1>1. ASSUME Hashes, IInv, NEW t \in TasksLeft("Completing") PROVE app.disk[t.num].good = Parts
  <2>1. Sole /\ Fit(app) /\ CompletingIsKnown(app)
    BY <1>1 DEF Hashes, IInv, Fit, Sole
  <2>2. t \in Waiting(app) /\ t.type = "Completing"
    BY <1>1, TasksLeftWait
  <2>3. t \in PartTasks
    BY <1>1 DEF TasksLeft
  <2> DEFINE f == t.owner
  <2>4. f \in Files
    BY <2>1, <2>2, <2>3 DEF PartTasks
  <2>5. Known(app, f) /\ t \in TasksOf(app, f)
    BY <2>1, <2>2 DEF CompletingIsKnown, TasksOf, Sole
  <2> HIDE DEF f
  <2>6. KnownOK(app, f) /\ AwaitsOne(app, f)
    BY <2>1, <2>4, <2>5, KnownParts
  <2>7. ~HasMoved(app, f) /\ t.num = app.file[f].num
    BY <2>4, <2>5, <2>6, MovedAwaitsNothing DEF AwaitsOne
  <2>8. DiskOK(app, f)
    BY <2>1, <2>6, <2>7 DEF KnownOK
  <2> QED
    BY <1>1, <2>2, <2>5, <2>7, <2>8 DEF DiskOK, ToMove
<1> SUFFICES ASSUME Hashes PROVE Spec => []OnlyHashedIsMoved
  OBVIOUS
<1>2. IInv => OnlyHashedIsMoved
  BY <1>1 DEF OnlyHashedIsMoved
<1> QED
  BY <1>2, Invariant, PTL

\* A download that OnFinishedCompletion lists as completed is whole in the
\* Incoming directory, if no copy fails: CloneFile alone completes a file of
\* which a part is missing.
THEOREM CompletedStaysWhole == Copies => (Spec => []CompletedIsWhole)
<1>1. ASSUME Copies, IInv PROVE CompletedIsWhole
  BY <1>1 DEF IInv, Fit, FileOK, CompletedIsWhole
<1> SUFFICES ASSUME Copies PROVE Spec => []CompletedIsWhole
  OBVIOUS
<1>2. IInv => CompletedIsWhole
  BY <1>1
<1> QED
  BY <1>2, Invariant, PTL

\* The part file of a download that was not cancelled is only removed when a
\* whole copy is in the Incoming directory, wherever the program dies; and while
\* it runs, there is a .met with which the next start finds it.  A death in the
\* middle of a save leaves none, which is why no more is claimed of a file that
\* the program has not loaded.
THEOREM NoDataAreLost == Copies => (Spec => []NothingIsLost)
<1>1. ASSUME Copies, IInv PROVE NothingIsLost
  <2>1. Fit(app)
    BY <1>1 DEF IInv
  <2>2. ASSUME NEW f \in Files, app.file[f].life \in {"known", "saved"} PROVE Held(app, f)
    BY <1>1, <2>1, <2>2, FilesAreHeld
  <2>3. ASSUME NEW f \in Files, Known(app, f), app.copy[f] # Parts
        PROVE  app.disk[app.file[f].num].met # NoMet
    <3>1. KnownOK(app, f) /\ Sole
      BY <1>1, <2>1, <2>3, KnownParts DEF Copies, Hashes
    <3> QED
      BY <1>1, <2>3, <3>1 DEF KnownOK, DiskOK, Own
  <2>4. ASSUME NEW f \in Files, app.file[f].life \in {"known", "saved"} PROVE app.disk[app.file[f].num].part \in BOOLEAN
    <3>1. app \in AppState /\ app.file[f].num \in Numbers
      BY <2>1, <2>4 DEF Fit, FileOK, KnownOK, RecordOK, Known
    <3> QED
      BY <3>1, Parts1 DEF DiskState
  <2> QED
    BY <2>2, <2>3, <2>4 DEF Held, NothingIsLost, Known
<1> SUFFICES ASSUME Copies PROVE Spec => []NothingIsLost
  OBVIOUS
<1>2. IInv => NothingIsLost
  BY <1>1
<1> QED
  BY <1>2, Invariant, PTL
=============================================================================
