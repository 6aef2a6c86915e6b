-------------------------- MODULE ThreadScheduler --------------------------
(***************************************************************************)
(* CThreadScheduler, which runs the background tasks (hashing, completing, *)
(* allocating, IP filter, AICH synchronisation) one at a time, and the     *)
(* coroutine it is (ThreadScheduler.cpp, libs/common/coroutine.cpp).       *)
(*                                                                         *)
(* There are no threads: the scheduler is a coroutine resumed by the idle  *)
(* handler it binds to the application, so all of a turn, between two      *)
(* returns of Continue, is one action, and AddTask may be called by any    *)
(* handler between two turns, by OnLastTask in the middle of one too.      *)
(* A task's own turns change nothing here until its last.                  *)
(***************************************************************************)
EXTENDS Integers, Sequences, FiniteSets, Functions

CONSTANTS
    Tasks,        \* the task objects that may be added
    NoTask,       \* the null pointer
    TypeOf,       \* GetType() of each task
    DescOf,       \* GetDesc() of each task
    PriorityOf,   \* GetPriority() of each task
    FollowUp,     \* what each task's OnLastTask adds, or NoTask
    Ages          \* bound: the ages at which the rest of the program adds tasks

ASSUME TasksAssumption ==
    /\ NoTask \notin Tasks
    /\ DOMAIN TypeOf = Tasks /\ DOMAIN DescOf = Tasks
    /\ PriorityOf \in [Tasks -> Nat]
    /\ FollowUp \in [Tasks -> Tasks \union {NoTask}]
    /\ Ages \subseteq Nat

VARIABLE sched    \* the scheduler and its coroutine, see SchedulerState

Key(t) == <<TypeOf[t], DescOf[t]>>

Keys == {Key(t) : t \in Tasks}

Entries == [task : Tasks, age : Nat]     \* CEntryPair

\* Where Continue is resumed: at its begin, before the picked task has ended,
\* or after that.
Places == {"begin", "picked", "exited"}

SchedulerState ==
    [ exists     : BOOLEAN,                 \* s_scheduler is not null
      running    : BOOLEAN,                 \* s_running
      terminated : BOOLEAN,                 \* s_terminated
      tasks      : Seq(Entries),            \* m_tasks
      dirty      : BOOLEAN,                 \* m_tasksDirty
      descs      : SUBSET Keys,             \* m_taskDescs, by type and description
      current    : Tasks \union {NoTask},   \* m_currentTask
      place      : Places,                  \* __s
      ended      : BOOLEAN,                 \* m_end
      bound      : Nat,                     \* bindings of RunIdle to wxEVT_IDLE
      age        : Nat ]                    \* taskAge

\* A scheduler that was never used, or is deleted.
NoScheduler(running, terminated, age) ==
    [ exists |-> FALSE, running |-> running, terminated |-> terminated,
      tasks |-> << >>, dirty |-> FALSE, descs |-> {}, current |-> NoTask,
      place |-> "begin", ended |-> FALSE, bound |-> 0, age |-> age ]

----------------------------------------------------------------------------
(* Adding tasks                                                            *)

\* Slip: a coroutine that has not had its first turn counts as alive.
IsAlive_UntilEnd(s) == ~s.ended

IsAlive(s) == s.place # "begin" /\ ~s.ended

\* Binds the idle handler once more if the coroutine is not alive: tasks added
\* before its first turn each bind it again.
CreateSchedulerThread(s) ==
    IF IsAlive(s) \/ s.tasks = << >> THEN s
    ELSE [s EXCEPT !.ended = FALSE, !.bound = @ + 1]

\* Slip: the list is sorted only when the first task comes.
DoAddTask_DirtyOnce(s, t) ==
    LET added == [s EXCEPT !.descs = @ \union {Key(t)},
                           !.tasks = Append(@, [task |-> t, age |-> s.age]),
                           !.dirty = @ \/ s.tasks = << >>, !.age = @ + 1]
    IN  IF Key(t) \in s.descs THEN s
        ELSE IF s.running THEN CreateSchedulerThread(added) ELSE added

\* A task that is there already, by type and description, is discarded.
DoAddTask(s, t) ==
    LET added == [s EXCEPT !.descs = @ \union {Key(t)},
                           !.tasks = Append(@, [task |-> t, age |-> s.age]),
                           !.dirty = TRUE, !.age = @ + 1]
    IN  IF Key(t) \in s.descs THEN s
        ELSE IF s.running THEN CreateSchedulerThread(added) ELSE added

AddTask(s, t) ==
    IF s.terminated THEN s ELSE DoAddTask([s EXCEPT !.exists = TRUE], t)

----------------------------------------------------------------------------
(* The scheduling loop                                                     *)

Before(a, b) ==
    \/ PriorityOf[a.task] > PriorityOf[b.task]
    \/ PriorityOf[a.task] = PriorityOf[b.task] /\ a.age < b.age

\* The sorted orders of m_tasks (one, as no two tasks have the same age).
Sorted(l) ==
    {[i \in DOMAIN l |-> l[p[i]]] :
        p \in {r \in [DOMAIN l -> DOMAIN l] :
                  /\ IsInjective(r)
                  /\ \A i, j \in DOMAIN l : i < j => Before(l[r[i]], l[r[j]])}}

Pick(s, l) ==
    [s EXCEPT !.tasks = Tail(l), !.dirty = FALSE,
              !.current = Head(l).task, !.place = "picked"]

\* No more tasks: Continue returns false, and one binding is taken away.
Leave(s) == [s EXCEPT !.place = "begin", !.ended = TRUE, !.bound = @ - 1]

\* The head of the loop, up to the return with a task picked, or to the end.
Select(s) ==
    IF s.dirty THEN {Pick(s, l) : l \in Sorted(s.tasks)}
    ELSE IF s.tasks = << >> THEN {Leave(s)}
    ELSE {Pick(s, s.tasks)}

\* Slip: the entry of the ended task stays registered.
Unregister_Kept(s) == [s EXCEPT !.current = NoTask]

\* The current task is done with.
Unregister(s) == [s EXCEPT !.descs = @ \ {Key(s.current)}, !.current = NoTask]

\* Is the current task the last of its type?
IsLastTask(s) ==
    \A k \in s.descs : k[1] = TypeOf[s.current] => k = Key(s.current)

\* Slip: a follow-up is only added while there is nothing else to do.
Retire_WhenIdle(s) ==
    LET t == s.current
    IN  IF IsLastTask(s) /\ FollowUp[t] # NoTask /\ s.tasks = << >>
        THEN AddTask(Unregister(s), FollowUp[t])
        ELSE Unregister(s)

Retire(s) ==
    LET t == s.current
    IN  IF IsLastTask(s) /\ FollowUp[t] # NoTask THEN AddTask(Unregister(s), FollowUp[t])
        ELSE Unregister(s)

----------------------------------------------------------------------------

Init == sched = NoScheduler(FALSE, FALSE, 0)

Add(t) ==
    /\ sched.age \in Ages
    /\ sched' = AddTask(sched, t)

\* Slip: tasks that were added before are not looked at.
Started_Asleep(s) == [s EXCEPT !.running = TRUE, !.terminated = FALSE]

Started(s) ==
    LET r == [s EXCEPT !.running = TRUE, !.terminated = FALSE]
    IN  IF s.exists THEN CreateSchedulerThread(r) ELSE r

\* CThreadScheduler::Start, called once, before the part files are loaded.
Start ==
    /\ ~sched.running /\ ~sched.terminated
    /\ sched' = Started(sched)

\* CThreadScheduler::Terminate, in ShutDown.
Terminate ==
    /\ sched.running
    /\ sched' = NoScheduler(FALSE, TRUE, sched.age)

\* The program dies and is started anew.
Restart == sched' = NoScheduler(FALSE, FALSE, 0)

\* An idle event is there for the coroutine.
Turn(place) == sched.bound > 0 /\ sched.place = place

Begin == Turn("begin") /\ sched' \in Select(sched)

\* The task's Continue returns false, and its OnExit has run.
TaskEnds == Turn("picked") /\ sched' = [sched EXCEPT !.place = "exited"]

Proceed == Turn("exited") /\ sched' \in Select(Retire(sched))

Next ==
    \/ \E t \in Tasks : Add(t)
    \/ Start \/ Terminate \/ Restart
    \/ Begin \/ TaskEnds \/ Proceed

Spec == Init /\ [][Next]_sched

\* Idle events keep coming, as timers keep waking the event loop, and every
\* task ends, as each works through a file of finite length.
Fairness == WF_sched(Begin) /\ WF_sched(TaskEnds) /\ WF_sched(Proceed)

FairSpec == Spec /\ Fairness

----------------------------------------------------------------------------
(* What is claimed                                                         *)

\* Every variable holds what its declaration in the code allows.
TypeOK == sched \in SchedulerState

\* The tasks that are queued or being run are exactly the registered ones, and
\* no two of them have the same type and description: nothing is hashed or
\* completed twice at a time, and no registration is left behind that would
\* have later tasks of its name discarded.
TasksRegistered ==
    LET queued == {Key(sched.tasks[i].task) : i \in DOMAIN sched.tasks}
        active == IF sched.current = NoTask THEN {} ELSE {Key(sched.current)}
    IN  /\ sched.descs = queued \union active
        /\ queued \intersect active = {}
        /\ \A i, j \in DOMAIN sched.tasks :
               Key(sched.tasks[i].task) = Key(sched.tasks[j].task) => i = j

\* While the scheduler has work, and was started, an idle handler is bound
\* that will resume it: AddTask never takes a scheduler that has left its loop
\* for one that is alive.
WorkIsServed ==
    sched.running /\ (sched.tasks # << >> \/ sched.place # "begin") => sched.bound > 0

\* The loop takes the front of the list only if there is one: the list is never
\* marked for sorting while it is empty.
FrontExists == sched.dirty => sched.tasks # << >>

\* A task is picked only if none that waits has a higher priority, or the same
\* and was added before (the order told at ThreadScheduler.h:60).
BestFirst ==
    [][\A i \in DOMAIN sched.tasks :
          /\ sched'.place = "picked" /\ sched.place # "picked"
          /\ sched'.current = sched.tasks[i].task
          => \A j \in DOMAIN sched.tasks : ~Before(sched.tasks[j], sched.tasks[i])]_sched

Queued(t) == \E i \in DOMAIN sched.tasks : sched.tasks[i].task = t

\* Whatever is on the queue of a running scheduler is run some day.
QueuedIsRun ==
    \A t \in Tasks : (sched.running /\ Queued(t)) ~> (sched.current = t \/ ~sched.running)

\* Once the last task of a type has run, its follow-up runs: after hashing, the
\* AICH hashes are brought up to date.
FollowUpRuns ==
    \A t \in {u \in Tasks : FollowUp[u] # NoTask} :
        (sched.running /\ sched.current = t)
            ~> (sched.current = FollowUp[t] \/ ~sched.running)
=============================================================================
