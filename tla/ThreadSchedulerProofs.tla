----------------------- MODULE ThreadSchedulerProofs -----------------------
(***************************************************************************)
(* Proofs about the CThreadScheduler: its books are right, it never leaves *)
(* work unattended, never takes the front of an empty list, and picks the  *)
(* most urgent task first, for all tasks, types, names and priorities.     *)
(***************************************************************************)
EXTENDS ThreadScheduler, FiniteSetTheorems, SequenceTheorems, TLAPS

----------------------------------------------------------------------------
(* What is kept, of one state of the scheduler                             *)

QueuedKeys(s) == {Key(s.tasks[i].task) : i \in DOMAIN s.tasks}

ActiveKeys(s) == IF s.current = NoTask THEN {} ELSE {Key(s.current)}

\* TasksRegistered, of s.
Booked(s) ==
    /\ s.descs = QueuedKeys(s) \union ActiveKeys(s)
    /\ QueuedKeys(s) \intersect ActiveKeys(s) = {}
    /\ \A i, j \in DOMAIN s.tasks : Key(s.tasks[i].task) = Key(s.tasks[j].task) => i = j

InOrder(l) == \A i, j \in DOMAIN l : i < j => Before(l[i], l[j])

\* WorkIsServed, of s; and only a scheduler that was started is resumed, and one
\* in its loop has not ended.
Served(s) ==
    /\ s.running /\ (s.tasks # << >> \/ s.place # "begin") => s.bound > 0
    /\ s.bound > 0 \/ s.place # "begin" => s.running
    /\ s.place # "begin" \/ (s.running /\ s.tasks # << >>) => ~s.ended
    /\ s.tasks # << >> => s.exists

Sound(s) ==
    /\ s \in SchedulerState
    /\ Booked(s)
    /\ Served(s)
    /\ s.dirty => s.tasks # << >>
    /\ ~s.dirty => InOrder(s.tasks)

\* Between two turns, the coroutine is in its loop just when it has a task.
Placed(s) == s.place = "begin" <=> s.current = NoTask

Inv == Sound(sched) /\ Placed(sched)

\* The invariant holds what is claimed of a state.
LEMMA InvClaims == Inv => TypeOK /\ TasksRegistered /\ WorkIsServed /\ FrontExists
<1> SUFFICES ASSUME Inv PROVE TypeOK /\ TasksRegistered /\ WorkIsServed /\ FrontExists
  OBVIOUS
<1>1. TypeOK /\ WorkIsServed /\ FrontExists
  BY DEF Inv, Sound, Served, TypeOK, WorkIsServed, FrontExists
<1>2. TasksRegistered
  BY DEF Inv, Sound, Booked, QueuedKeys, ActiveKeys, TasksRegistered
<1> QED
  BY <1>1, <1>2

----------------------------------------------------------------------------
(* Adding                                                                  *)

\* A scheduler without tasks that was not resumed yet is sound.
LEMMA NoSchedulerIsSound ==
    ASSUME NEW running \in BOOLEAN, NEW terminated \in BOOLEAN, NEW age \in Nat
    PROVE  Sound(NoScheduler(running, terminated, age)) /\ Placed(NoScheduler(running, terminated, age))
<1> DEFINE s == NoScheduler(running, terminated, age)
<1>1. << >> \in Seq(Entries) /\ DOMAIN << >> = {}
  BY EmptySeq
<1>2. s \in SchedulerState
  BY <1>1 DEF NoScheduler, SchedulerState, Places
<1>3. /\ s.tasks = << >> /\ s.descs = {} /\ s.current = NoTask /\ s.place = "begin"
      /\ s.bound = 0 /\ s.dirty = FALSE
  BY DEF NoScheduler
<1> HIDE DEF s
<1>4. Booked(s)
  BY <1>1, <1>3 DEF Booked, QueuedKeys, ActiveKeys
<1>5. Served(s) /\ InOrder(s.tasks)
  BY <1>1, <1>3 DEF Served, InOrder
<1> QED
  BY <1>2, <1>3, <1>4, <1>5 DEF Sound, Placed, s

\* A list with one more entry at its end.
LEMMA AppendedIsBooked ==
    ASSUME NEW s \in SchedulerState, Booked(s), NEW t \in Tasks, Key(t) \notin s.descs,
           NEW e \in Entries, e.task = t,
           NEW r \in SchedulerState, r.tasks = Append(s.tasks, e),
           r.descs = s.descs \union {Key(t)}, r.current = s.current
    PROVE  Booked(r)
<1> DEFINE n == Len(s.tasks)
<1>1. s.tasks \in Seq(Entries) /\ n \in Nat /\ DOMAIN s.tasks = 1 .. n
  BY DEF SchedulerState
<1>2. /\ DOMAIN r.tasks = 1 .. n + 1 /\ r.tasks[n + 1] = e
      /\ \A i \in 1 .. n : r.tasks[i] = s.tasks[i]
  BY <1>1, AppendProperties
<1> HIDE DEF n
<1>3. QueuedKeys(r) = QueuedKeys(s) \union {Key(t)}
  <2>1. \A i \in 1 .. n : Key(r.tasks[i].task) = Key(s.tasks[i].task)
    BY <1>2
  <2>2. Key(r.tasks[n + 1].task) = Key(t)
    BY <1>2
  <2>3. 1 .. n + 1 = (1 .. n) \union {n + 1}
    BY <1>1
  <2> QED
    BY <1>1, <1>2, <2>1, <2>2, <2>3 DEF QueuedKeys
<1>4. Key(t) \notin QueuedKeys(s) /\ Key(t) \notin ActiveKeys(s)
  BY DEF Booked
<1>5. ActiveKeys(r) = ActiveKeys(s)
  BY DEF ActiveKeys
<1>6. ASSUME NEW i \in DOMAIN r.tasks, NEW j \in DOMAIN r.tasks,
             Key(r.tasks[i].task) = Key(r.tasks[j].task)
      PROVE  i = j
  <2>1. \A k \in 1 .. n : Key(r.tasks[k].task) \in QueuedKeys(s)
    BY <1>1, <1>2 DEF QueuedKeys
  <2>2. Key(r.tasks[n + 1].task) = Key(t)
    BY <1>2
  <2>3. CASE i \in 1 .. n /\ j \in 1 .. n
    BY <1>1, <1>2, <1>6, <2>3 DEF Booked
  <2>4. CASE i = n + 1 \/ j = n + 1
    BY <1>1, <1>2, <1>4, <1>6, <2>1, <2>2, <2>4
  <2> QED
    BY <1>1, <1>2, <2>3, <2>4
<1>7. r.descs = QueuedKeys(r) \union ActiveKeys(r)
  BY <1>3, <1>5 DEF Booked
<1>8. QueuedKeys(r) \intersect ActiveKeys(r) = {}
  BY <1>3, <1>4, <1>5 DEF Booked
<1> QED
  BY <1>6, <1>7, <1>8 DEF Booked

\* Binding the idle handler changes nothing else.
LEMMA BoundOnce ==
    ASSUME NEW s \in SchedulerState, NEW r, r = [s EXCEPT !.ended = FALSE, !.bound = @ + 1]
    PROVE  /\ r \in SchedulerState
           /\ r.tasks = s.tasks /\ r.descs = s.descs /\ r.current = s.current
           /\ r.place = s.place /\ r.dirty = s.dirty /\ r.running = s.running
           /\ r.exists = s.exists /\ ~r.ended /\ r.bound = s.bound + 1
<1>1. s.bound \in Nat /\ s.bound + 1 \in Nat
  BY DEF SchedulerState
<1>2. r.ended = FALSE /\ r.bound = s.bound + 1
  BY DEF SchedulerState
<1>3. r \in SchedulerState
  BY <1>1 DEF SchedulerState
<1>4. /\ r.tasks = s.tasks /\ r.descs = s.descs /\ r.current = s.current
      /\ r.place = s.place /\ r.running = s.running /\ r.exists = s.exists
  BY DEF SchedulerState
<1>5. r.dirty = s.dirty
  BY DEF SchedulerState
<1> QED
  BY <1>2, <1>3, <1>4, <1>5

\* A task is added to a sound scheduler, or discarded; what runs goes on.
LEMMA DoAddTaskIsSound ==
    ASSUME NEW s, Sound(s), s.exists, NEW t \in Tasks
    PROVE  /\ Sound(DoAddTask(s, t))
           /\ DoAddTask(s, t).current = s.current /\ DoAddTask(s, t).place = s.place
           /\ s.bound > 0 => DoAddTask(s, t).bound > 0
<1> DEFINE e == [task |-> t, age |-> s.age]
           added == [s EXCEPT !.descs = @ \union {Key(t)}, !.tasks = Append(@, e),
                              !.dirty = TRUE, !.age = @ + 1]
           r == DoAddTask(s, t)
<1>1. s \in SchedulerState /\ s.tasks \in Seq(Entries) /\ s.age \in Nat /\ s.bound \in Nat
  BY DEF Sound, SchedulerState
<1>2. e \in Entries /\ e.task = t /\ Key(t) \in Keys
  BY <1>1 DEF Entries, Keys
<1>3. Append(s.tasks, e) \in Seq(Entries) /\ Append(s.tasks, e) # << >>
  BY <1>1, <1>2, AppendProperties
<1> HIDE DEF e
<1>4. added \in SchedulerState
  <2>1. s.descs \union {Key(t)} \in SUBSET Keys /\ s.age + 1 \in Nat
    BY <1>1, <1>2 DEF SchedulerState
  <2> QED
    BY <1>1, <1>3, <2>1 DEF SchedulerState
<1>5. /\ added.tasks = Append(s.tasks, e) /\ added.descs = s.descs \union {Key(t)}
      /\ added.current = s.current /\ added.place = s.place /\ added.dirty = TRUE
      /\ added.running = s.running /\ added.bound = s.bound /\ added.exists = s.exists
      /\ added.ended = s.ended
  BY <1>1 DEF SchedulerState
<1>6. r = IF Key(t) \in s.descs THEN s
          ELSE IF s.running THEN CreateSchedulerThread(added) ELSE added
  BY DEF DoAddTask, e
<1> HIDE DEF added, r
<1>7. CASE Key(t) \in s.descs
  BY <1>6, <1>7 DEF r
<1>8. CASE Key(t) \notin s.descs
  <2>1. /\ r \in SchedulerState /\ r.tasks = added.tasks /\ r.descs = added.descs
        /\ r.current = s.current /\ r.place = s.place /\ r.dirty = TRUE
        /\ r.running = s.running /\ r.exists = s.exists
        /\ IF s.running /\ ~IsAlive(added) THEN ~r.ended /\ r.bound = s.bound + 1
           ELSE r.ended = s.ended /\ r.bound = s.bound
    <3>1. CASE s.running /\ ~IsAlive(added)
      <4>1. r = [added EXCEPT !.ended = FALSE, !.bound = @ + 1]
        BY <1>3, <1>5, <1>6, <1>8, <3>1 DEF CreateSchedulerThread
      <4>2. /\ r \in SchedulerState
            /\ r.tasks = added.tasks /\ r.descs = added.descs /\ r.current = added.current
            /\ r.place = added.place /\ r.dirty = added.dirty /\ r.running = added.running
            /\ r.exists = added.exists /\ ~r.ended /\ r.bound = added.bound + 1
        BY <1>4, <4>1, BoundOnce
      <4> QED
        BY <1>5, <3>1, <4>2, Zenon
    <3>2. CASE ~(s.running /\ ~IsAlive(added))
      <4>1. r = added
        BY <1>6, <1>8, <3>2 DEF CreateSchedulerThread
      <4> QED
        BY <1>4, <1>5, <3>2, <4>1
    <3> QED
      BY <3>1, <3>2
  <2>2. Booked(r)
    BY <1>1, <1>2, <1>5, <1>8, <2>1, AppendedIsBooked DEF Sound
  <2>3. Served(s) /\ r.tasks # << >>
    BY <1>3, <1>5, <2>1 DEF Sound
  <2>4. Served(r)
    BY <1>1, <1>5, <2>1, <2>3 DEF Served, IsAlive
  <2> QED
    BY <1>1, <2>1, <2>2, <2>3, <2>4 DEF Sound, r
<1> QED
  BY <1>7, <1>8

\* The same for AddTask, which makes the scheduler if there is none.
LEMMA AddTaskIsSound ==
    ASSUME NEW s, Sound(s), NEW t \in Tasks
    PROVE  /\ Sound(AddTask(s, t))
           /\ AddTask(s, t).current = s.current /\ AddTask(s, t).place = s.place
           /\ s.bound > 0 => AddTask(s, t).bound > 0
<1> DEFINE r == [s EXCEPT !.exists = TRUE]
<1>1. s \in SchedulerState
  BY DEF Sound
<1>2. /\ r \in SchedulerState /\ r.exists = TRUE /\ r.tasks = s.tasks /\ r.descs = s.descs
      /\ r.current = s.current /\ r.place = s.place /\ r.dirty = s.dirty
      /\ r.running = s.running /\ r.bound = s.bound /\ r.ended = s.ended
  BY <1>1 DEF SchedulerState
<1> HIDE DEF r
<1>3. Booked(r)
  BY <1>2 DEF Sound, Booked, QueuedKeys, ActiveKeys
<1>4. Sound(r)
  BY <1>2, <1>3 DEF Sound, Served
<1>5. AddTask(s, t) = IF s.terminated THEN s ELSE DoAddTask(r, t)
  BY DEF AddTask, r
<1> QED
  BY <1>2, <1>4, <1>5, DoAddTaskIsSound

\* The tasks that wait keep their places.
LEMMA AddTaskAppends ==
    ASSUME NEW s \in SchedulerState, NEW t \in Tasks
    PROVE  \A i \in DOMAIN s.tasks :
               i \in DOMAIN AddTask(s, t).tasks /\ AddTask(s, t).tasks[i] = s.tasks[i]
<1> DEFINE e == [task |-> t, age |-> s.age]
           r == AddTask(s, t)
<1>1. s.tasks \in Seq(Entries) /\ e \in Entries
  BY DEF SchedulerState, Entries
<1> HIDE DEF e
<1>2. r.tasks = s.tasks \/ r.tasks = Append(s.tasks, e)
  BY DEF AddTask, DoAddTask, CreateSchedulerThread, SchedulerState, e
<1> HIDE DEF r
<1>3. \A i \in DOMAIN s.tasks : i \in DOMAIN r.tasks /\ r.tasks[i] = s.tasks[i]
  BY <1>1, <1>2, AppendProperties
<1> QED
  BY <1>3 DEF r

----------------------------------------------------------------------------
(* Picking                                                                 *)

\* Sorting rearranges the list.
LEMMA SortedRearranges ==
    ASSUME NEW t \in Seq(Entries), NEW l \in Sorted(t)
    PROVE  /\ l \in Seq(Entries) /\ Len(l) = Len(t) /\ InOrder(l)
           /\ \E p \in [DOMAIN t -> DOMAIN t] :
                 /\ \A i, j \in DOMAIN t : p[i] = p[j] => i = j
                 /\ \A j \in DOMAIN t : \E i \in DOMAIN t : p[i] = j
                 /\ \A i \in DOMAIN t : l[i] = t[p[i]]
<1> DEFINE D == DOMAIN t
<1>1. D = 1 .. Len(t) /\ Len(t) \in Nat
  OBVIOUS
<1>2. PICK p \in [D -> D] :
         /\ IsInjective(p) /\ \A i, j \in D : i < j => Before(t[p[i]], t[p[j]])
         /\ l = [i \in D |-> t[p[i]]]
  BY DEF Sorted
<1>3. l \in Seq(Entries) /\ Len(l) = Len(t) /\ DOMAIN l = D
  <2>1. \A i \in D : t[p[i]] \in Entries
    BY <1>1, <1>2
  <2>2. l \in [1 .. Len(t) -> Entries]
    BY <1>1, <1>2, <2>1
  <2> QED
    BY <1>1, <2>2
<1>4. IsFiniteSet(D)
  BY <1>1, FS_Interval
<1>5. p \in Injection(D, D)
  BY <1>2 DEF Injection
<1>6. p \in Surjection(D, D)
  BY <1>4, <1>5, FS_Injection
<1>7. \A j \in D : \E i \in D : p[i] = j
  BY <1>6 DEF Surjection
<1>8. InOrder(l)
  BY <1>2, <1>3 DEF InOrder
<1> QED
  BY <1>2, <1>3, <1>7, <1>8 DEF IsInjective

\* The fields of a state in which a task was picked.
LEMMA PickFields ==
    ASSUME NEW s \in SchedulerState, NEW l \in Seq(Entries), l # << >>, NEW r, r = Pick(s, l)
    PROVE  /\ r \in SchedulerState
           /\ r.tasks = Tail(l) /\ r.current = l[1].task /\ r.current \in Tasks
           /\ r.place = "picked" /\ ~r.dirty
           /\ r.descs = s.descs /\ r.running = s.running /\ r.exists = s.exists
           /\ r.ended = s.ended /\ r.bound = s.bound
<1>1. Tail(l) \in Seq(Entries) /\ Head(l) = l[1] /\ l[1] \in Entries
  BY HeadTailProperties
<1>2. l[1].task \in Tasks
  BY <1>1 DEF Entries
<1>3. r = [s EXCEPT !.tasks = Tail(l), !.dirty = FALSE, !.current = l[1].task, !.place = "picked"]
  BY <1>1 DEF Pick
<1>4. r \in SchedulerState
  BY <1>1, <1>2, <1>3 DEF SchedulerState, Places
<1>5. r.tasks = Tail(l) /\ r.current = l[1].task /\ r.place = "picked" /\ r.dirty = FALSE
  BY <1>3 DEF SchedulerState
<1>6. /\ r.descs = s.descs /\ r.running = s.running /\ r.exists = s.exists
      /\ r.ended = s.ended /\ r.bound = s.bound
  BY <1>3 DEF SchedulerState
<1> QED
  BY <1>2, <1>4, <1>5, <1>6

\* Picking the first of a list that holds the tasks of s in their order.
LEMMA PickIsSound ==
    ASSUME NEW s, Sound(s), s.current = NoTask, s.bound > 0, s.tasks # << >>,
           NEW l \in Seq(Entries), l # << >>, InOrder(l),
           {Key(l[i].task) : i \in DOMAIN l} = QueuedKeys(s),
           \A i, j \in DOMAIN l : Key(l[i].task) = Key(l[j].task) => i = j
    PROVE  Sound(Pick(s, l)) /\ Placed(Pick(s, l))
<1> DEFINE n == Len(l)
           r == Pick(s, l)
<1>1. s \in SchedulerState /\ n \in Nat /\ n > 0 /\ DOMAIN l = 1 .. n
  BY DEF Sound
<1>2. /\ r \in SchedulerState
      /\ r.tasks = Tail(l) /\ r.current = l[1].task /\ r.current \in Tasks
      /\ r.place = "picked" /\ ~r.dirty
      /\ r.descs = s.descs /\ r.running = s.running /\ r.exists = s.exists
      /\ r.ended = s.ended /\ r.bound = s.bound
  BY <1>1, PickFields
<1>3. /\ DOMAIN r.tasks = 1 .. n - 1
      /\ \A i \in 1 .. n - 1 : i + 1 \in 1 .. n /\ r.tasks[i] = l[i + 1]
  BY <1>1, <1>2, HeadTailProperties
<1>4. r.current # NoTask
  BY <1>2, TasksAssumption DEF TasksAssumption
<1> HIDE DEF n, r
<1>5. ActiveKeys(r) = {Key(l[1].task)}
  BY <1>2, <1>4 DEF ActiveKeys
<1>6. QueuedKeys(r) = {Key(l[i].task) : i \in 2 .. n}
  <2>1. \A i \in 1 .. n - 1 : i + 1 \in 2 .. n /\ Key(r.tasks[i].task) = Key(l[i + 1].task)
    BY <1>1, <1>3
  <2>2. \A i \in 2 .. n : i - 1 \in 1 .. n - 1 /\ Key(r.tasks[i - 1].task) = Key(l[i].task)
    BY <1>1, <1>3
  <2> QED
    BY <1>3, <2>1, <2>2 DEF QueuedKeys
<1>7. 1 .. n = {1} \union (2 .. n)
  BY <1>1
<1>8. QueuedKeys(r) \union ActiveKeys(r) = QueuedKeys(s)
  BY <1>1, <1>5, <1>6, <1>7
<1>9. Key(l[1].task) \notin QueuedKeys(r)
  BY <1>1, <1>6
<1>10. s.descs = QueuedKeys(s)
  BY DEF Sound, Booked, ActiveKeys
<1>11. ASSUME NEW i \in DOMAIN r.tasks, NEW j \in DOMAIN r.tasks,
              Key(r.tasks[i].task) = Key(r.tasks[j].task)
       PROVE  i = j
  <2>1. i + 1 \in DOMAIN l /\ j + 1 \in DOMAIN l /\ Key(l[i + 1].task) = Key(l[j + 1].task)
    BY <1>1, <1>3, <1>11
  <2> QED
    BY <1>3, <2>1
<1>12. Booked(r)
  BY <1>2, <1>5, <1>8, <1>9, <1>10, <1>11 DEF Booked
<1>13. InOrder(r.tasks)
  <2>1. ASSUME NEW i \in DOMAIN r.tasks, NEW j \in DOMAIN r.tasks, i < j
        PROVE  Before(r.tasks[i], r.tasks[j])
    <3>1. /\ i + 1 \in DOMAIN l /\ j + 1 \in DOMAIN l /\ i + 1 < j + 1
          /\ r.tasks[i] = l[i + 1] /\ r.tasks[j] = l[j + 1]
      BY <1>1, <1>3, <2>1
    <3>2. Before(l[i + 1], l[j + 1])
      BY <3>1 DEF InOrder
    <3> QED
      BY <3>1, <3>2
  <2> QED
    BY <2>1 DEF InOrder
<1>14. Served(r)
  BY <1>2 DEF Sound, Served
<1> QED
  BY <1>2, <1>4, <1>12, <1>13, <1>14 DEF Sound, Placed, r

\* Leaving the loop takes one binding away.
LEMMA LeaveIsSound ==
    ASSUME NEW s, Sound(s), s.current = NoTask, s.bound > 0, s.tasks = << >>
    PROVE  Sound(Leave(s)) /\ Placed(Leave(s))
<1> DEFINE r == Leave(s)
<1>1. s \in SchedulerState /\ s.bound \in Nat /\ s.bound - 1 \in Nat
  BY DEF Sound, SchedulerState
<1>2. r \in SchedulerState
  BY <1>1 DEF Leave, SchedulerState, Places
<1>3. r.place = "begin" /\ r.bound = s.bound - 1
  BY <1>1 DEF Leave, SchedulerState
<1>4. /\ r.tasks = s.tasks /\ r.descs = s.descs /\ r.current = s.current /\ r.dirty = s.dirty
      /\ r.running = s.running /\ r.exists = s.exists
  BY <1>1 DEF Leave, SchedulerState
<1> HIDE DEF r
<1>5. Booked(r)
  BY <1>4 DEF Sound, Booked, QueuedKeys, ActiveKeys
<1>6. Served(r)
  BY <1>1, <1>3, <1>4 DEF Sound, Served
<1> QED
  BY <1>2, <1>3, <1>4, <1>5, <1>6 DEF Sound, Placed, r

\* What Select leaves is sound, and what it picks is the most urgent.
LEMMA SelectIsSound ==
    ASSUME NEW s, Sound(s), s.current = NoTask, s.bound > 0, NEW r \in Select(s)
    PROVE  /\ Sound(r) /\ Placed(r)
           /\ \A i, j \in DOMAIN s.tasks :
                 r.place = "picked" /\ r.current = s.tasks[i].task
                     => ~Before(s.tasks[j], s.tasks[i])
<1> DEFINE Best == \A i, j \in DOMAIN s.tasks :
                     r.place = "picked" /\ r.current = s.tasks[i].task
                         => ~Before(s.tasks[j], s.tasks[i])
<1>1. s \in SchedulerState /\ s.tasks \in Seq(Entries)
  BY DEF Sound, SchedulerState
<1>2. \A i, j \in DOMAIN s.tasks : Key(s.tasks[i].task) = Key(s.tasks[j].task) => i = j
  BY DEF Sound, Booked
<1>3. \A i \in DOMAIN s.tasks : s.tasks[i] \in Entries
  BY <1>1
<1>4. ASSUME NEW a \in Entries, NEW b \in Entries, Before(a, b)
      PROVE  ~Before(b, a)
  <2>1. PriorityOf[a.task] \in Nat /\ PriorityOf[b.task] \in Nat /\ a.age \in Nat /\ b.age \in Nat
    BY TasksAssumption DEF TasksAssumption, Entries
  <2> QED
    BY <1>4, <2>1 DEF Before
<1>5. ASSUME NEW a \in Entries PROVE ~Before(a, a)
  <2>1. PriorityOf[a.task] \in Nat /\ a.age \in Nat
    BY TasksAssumption DEF TasksAssumption, Entries
  <2> QED
    BY <2>1 DEF Before
<1>6. CASE s.tasks # << >> /\ \E l \in Sorted(s.tasks) : r = Pick(s, l)
  <2>1. PICK l \in Sorted(s.tasks) : r = Pick(s, l)
    BY <1>6
  <2>2. l \in Seq(Entries) /\ Len(l) = Len(s.tasks) /\ InOrder(l)
    BY <1>1, SortedRearranges
  <2>3. PICK p \in [DOMAIN s.tasks -> DOMAIN s.tasks] :
           /\ \A i, j \in DOMAIN s.tasks : p[i] = p[j] => i = j
           /\ \A j \in DOMAIN s.tasks : \E i \in DOMAIN s.tasks : p[i] = j
           /\ \A i \in DOMAIN s.tasks : l[i] = s.tasks[p[i]]
    BY <1>1, SortedRearranges
  <2>4. DOMAIN l = DOMAIN s.tasks /\ l # << >> /\ 1 \in DOMAIN l
    BY <1>1, <1>6, <2>2
  <2>5. {Key(l[i].task) : i \in DOMAIN l} = QueuedKeys(s)
    <3>1. \A i \in DOMAIN s.tasks : p[i] \in DOMAIN s.tasks /\ Key(l[i].task) = Key(s.tasks[p[i]].task)
      BY <2>3
    <3>2. \A j \in DOMAIN s.tasks : \E i \in DOMAIN s.tasks : Key(l[i].task) = Key(s.tasks[j].task)
      BY <2>3, <3>1
    <3>3. \A k \in QueuedKeys(s) : \E i \in DOMAIN s.tasks : k = Key(l[i].task)
      BY <3>2 DEF QueuedKeys
    <3>4. \A i \in DOMAIN s.tasks : Key(l[i].task) \in QueuedKeys(s)
      BY <3>1 DEF QueuedKeys
    <3> QED
      BY <2>4, <3>3, <3>4
  <2>6. \A i, j \in DOMAIN l : Key(l[i].task) = Key(l[j].task) => i = j
    BY <1>2, <2>3, <2>4
  <2>7. Sound(r) /\ Placed(r)
    BY <1>6, <2>1, <2>2, <2>4, <2>5, <2>6, PickIsSound
  <2>8. r.current = l[1].task
    BY <1>1, <2>1, <2>2, <2>4, PickFields
  <2>9. ASSUME NEW i \in DOMAIN s.tasks, NEW j \in DOMAIN s.tasks, r.current = s.tasks[i].task
        PROVE  ~Before(s.tasks[j], s.tasks[i])
    <3>1. p[1] = i
      <4>1. p[1] \in DOMAIN s.tasks /\ l[1] = s.tasks[p[1]]
        BY <2>3, <2>4
      <4>2. s.tasks[p[1]].task = s.tasks[i].task
        BY <2>8, <2>9, <4>1
      <4>3. Key(s.tasks[p[1]].task) = Key(s.tasks[i].task)
        BY <4>2
      <4> QED
        BY <1>2, <4>1, <4>3
    <3>2. l[1] = s.tasks[i]
      BY <2>3, <2>4, <3>1
    <3>3. PICK m \in DOMAIN s.tasks : p[m] = j
      BY <2>3
    <3>4. l[m] = s.tasks[j]
      BY <2>3, <3>3
    <3>5. CASE m = 1
      BY <1>3, <1>5, <3>2, <3>4, <3>5
    <3>6. CASE m # 1
      <4>1. 1 < m
        BY <1>1, <3>6
      <4>2. Before(l[1], l[m])
        BY <2>2, <2>4, <4>1 DEF InOrder
      <4> QED
        BY <1>3, <1>4, <3>2, <3>4, <4>2
    <3> QED
      BY <3>5, <3>6
  <2> QED
    BY <2>7, <2>9
<1>7. CASE s.tasks # << >> /\ InOrder(s.tasks) /\ r = Pick(s, s.tasks)
  <2>1. Sound(r) /\ Placed(r)
    BY <1>1, <1>2, <1>7, PickIsSound DEF QueuedKeys
  <2>2. r.current = s.tasks[1].task /\ 1 \in DOMAIN s.tasks
    BY <1>1, <1>7, PickFields
  <2>3. ASSUME NEW i \in DOMAIN s.tasks, NEW j \in DOMAIN s.tasks, r.current = s.tasks[i].task
        PROVE  ~Before(s.tasks[j], s.tasks[i])
    <3>1. i = 1
      BY <1>2, <2>2, <2>3
    <3>2. CASE j = 1
      BY <1>3, <1>5, <3>1, <3>2
    <3>3. CASE j # 1
      <4>1. 1 < j
        BY <1>1, <3>3
      <4>2. Before(s.tasks[1], s.tasks[j])
        BY <1>7, <2>2, <4>1 DEF InOrder
      <4> QED
        BY <1>3, <1>4, <2>2, <3>1, <4>2
    <3> QED
      BY <3>2, <3>3
  <2> QED
    BY <2>1, <2>3
<1>8. CASE s.tasks = << >> /\ r = Leave(s)
  <2>1. Sound(r) /\ Placed(r)
    BY <1>8, LeaveIsSound
  <2>2. DOMAIN s.tasks = {}
    BY <1>8
  <2> QED
    BY <2>1, <2>2
<1>9. \/ s.tasks # << >> /\ \E l \in Sorted(s.tasks) : r = Pick(s, l)
      \/ s.tasks = << >> /\ r = Leave(s)
      \/ s.tasks # << >> /\ InOrder(s.tasks) /\ r = Pick(s, s.tasks)
  BY DEF Select, Sound
<1> QED
  BY <1>6, <1>7, <1>8, <1>9

----------------------------------------------------------------------------
(* Retiring                                                                *)

\* The ended task is taken off the books; those that wait keep their places, and
\* the follow-up, if one is added, comes behind them.
LEMMA RetireIsSound ==
    ASSUME NEW s, Sound(s), s.current # NoTask, s.place # "begin"
    PROVE  LET r == Retire(s)
           IN  /\ Sound(r) /\ r.current = NoTask /\ r.bound > 0
               /\ \A i \in DOMAIN s.tasks : i \in DOMAIN r.tasks /\ r.tasks[i] = s.tasks[i]
<1> DEFINE u == Unregister(s)
           k == Key(s.current)
           r == Retire(s)
<1>1. /\ s \in SchedulerState /\ s.current \in Tasks /\ s.tasks \in Seq(Entries)
      /\ s.descs \ {k} \in SUBSET Keys
  BY DEF Sound, SchedulerState
<1>2. u = [s EXCEPT !.descs = s.descs \ {k}, !.current = NoTask]
  BY DEF Unregister
<1> HIDE DEF u, k
<1>3. /\ u \in SchedulerState
      /\ u.descs = s.descs \ {k} /\ u.current = NoTask
      /\ u.tasks = s.tasks /\ u.place = s.place /\ u.running = s.running
      /\ u.exists = s.exists /\ u.bound = s.bound
  BY <1>1, <1>2 DEF SchedulerState
<1>4. u.dirty = s.dirty /\ u.ended = s.ended
  BY <1>1, <1>2 DEF SchedulerState
<1>5. Booked(u)
  <2>1. QueuedKeys(u) = QueuedKeys(s) /\ ActiveKeys(u) = {} /\ ActiveKeys(s) = {k}
    BY <1>3 DEF QueuedKeys, ActiveKeys, k
  <2>2. u.descs = QueuedKeys(u)
    BY <1>3, <2>1 DEF Sound, Booked
  <2> QED
    BY <1>3, <2>1, <2>2 DEF Sound, Booked
<1>6. Sound(u) /\ u.bound > 0
  BY <1>3, <1>4, <1>5 DEF Sound, Served
<1>7. CASE r = u
  BY <1>3, <1>6, <1>7
<1>8. CASE FollowUp[s.current] \in Tasks /\ r = AddTask(u, FollowUp[s.current])
  <2>1. Sound(r) /\ r.current = u.current /\ r.bound > 0
    BY <1>6, <1>8, AddTaskIsSound
  <2>2. \A i \in DOMAIN u.tasks : i \in DOMAIN r.tasks /\ r.tasks[i] = u.tasks[i]
    BY <1>3, <1>8, AddTaskAppends
  <2> QED
    BY <1>3, <2>1, <2>2
<1>9. FollowUp[s.current] \in Tasks \union {NoTask}
  BY <1>1, TasksAssumption DEF TasksAssumption
<1>10. r = u \/ (FollowUp[s.current] \in Tasks /\ r = AddTask(u, FollowUp[s.current]))
  BY <1>9 DEF Retire, u
<1> QED
  BY <1>7, <1>8, <1>10

----------------------------------------------------------------------------
(* What waits                                                              *)

QueuedTasks(s) == {s.tasks[i].task : i \in DOMAIN s.tasks}

\* The tasks that have not ended yet.
Waiting(s) == QueuedTasks(s) \union (IF s.place = "picked" THEN {s.current} ELSE {})

\* Only tasks wait, and the one that is run does not wait a second time.
LEMMA WaitingOnce ==
    ASSUME NEW s, Sound(s), Placed(s)
    PROVE  /\ Waiting(s) \subseteq Tasks
           /\ s.place # "begin" => s.current \in Tasks /\ s.current \notin QueuedTasks(s)
<1>1. s.tasks \in Seq(Entries) /\ s.current \in Tasks \union {NoTask}
  BY DEF Sound, SchedulerState
<1>2. \A i \in DOMAIN s.tasks : s.tasks[i].task \in Tasks
  <2>1. \A i \in DOMAIN s.tasks : s.tasks[i] \in Entries
    BY <1>1
  <2> QED
    BY <2>1 DEF Entries
<1>3. s.place # "begin" => s.current \in Tasks
  BY <1>1 DEF Placed
<1>4. ASSUME s.place # "begin", NEW i \in DOMAIN s.tasks, s.tasks[i].task = s.current
      PROVE  FALSE
  <2>1. Key(s.current) \in ActiveKeys(s)
    BY <1>4 DEF Placed, ActiveKeys
  <2>2. Key(s.tasks[i].task) \in QueuedKeys(s)
    BY <1>4 DEF QueuedKeys
  <2> QED
    BY <1>4, <2>1, <2>2 DEF Sound, Booked
<1>5. QueuedTasks(s) \subseteq Tasks
  BY <1>2 DEF QueuedTasks
<1>6. s.place = "picked" => s.place # "begin"
  OBVIOUS
<1> QED
  BY <1>3, <1>4, <1>5, <1>6 DEF QueuedTasks, Waiting

\* Adding a task has it wait, and no other.
LEMMA AddTaskQueues ==
    ASSUME NEW s \in SchedulerState, NEW t \in Tasks
    PROVE  QueuedTasks(AddTask(s, t)) \subseteq QueuedTasks(s) \union {t}
<1> DEFINE e == [task |-> t, age |-> s.age]
           r == AddTask(s, t)
<1>1. s.tasks \in Seq(Entries) /\ e \in Entries /\ e.task = t
  BY DEF SchedulerState, Entries
<1> HIDE DEF e
<1>2. r.tasks = s.tasks \/ r.tasks = Append(s.tasks, e)
  BY DEF AddTask, DoAddTask, CreateSchedulerThread, SchedulerState, e
<1> HIDE DEF r
<1>3. \A i \in DOMAIN r.tasks : r.tasks[i] = e \/ (i \in DOMAIN s.tasks /\ r.tasks[i] = s.tasks[i])
  BY <1>1, <1>2, AppendProperties
<1> QED
  BY <1>1, <1>3 DEF QueuedTasks, r

LEMMA AddTaskWaits ==
    ASSUME NEW s, Sound(s), NEW t \in Tasks
    PROVE  Waiting(AddTask(s, t)) \subseteq Waiting(s) \union {t}
<1>1. QueuedTasks(AddTask(s, t)) \subseteq QueuedTasks(s) \union {t}
  BY AddTaskQueues DEF Sound
<1>2. AddTask(s, t).place = s.place /\ AddTask(s, t).current = s.current
  BY AddTaskIsSound
<1> QED
  BY <1>1, <1>2 DEF Waiting

\* Picking takes a task from the queue.
LEMMA SelectWaits ==
    ASSUME NEW s, Sound(s), s.current = NoTask, NEW r \in Select(s)
    PROVE  Waiting(r) \subseteq QueuedTasks(s)
<1>1. s \in SchedulerState /\ s.tasks \in Seq(Entries) /\ (s.dirty => s.tasks # << >>)
  BY DEF Sound, SchedulerState
<1>2. ASSUME s.tasks # << >>, NEW l \in Seq(Entries), l # << >>, r = Pick(s, l),
             \A i \in DOMAIN l : \E j \in DOMAIN s.tasks : l[i] = s.tasks[j]
      PROVE  Waiting(r) \subseteq QueuedTasks(s)
  <2>1. r.tasks = Tail(l) /\ r.current = l[1].task
    BY <1>1, <1>2, PickFields
  <2>2. /\ 1 \in DOMAIN l
        /\ \A i \in DOMAIN r.tasks : i + 1 \in DOMAIN l /\ r.tasks[i] = l[i + 1]
    BY <1>2, <2>1, HeadTailProperties
  <2>3. r.current \in QueuedTasks(s)
    BY <1>2, <2>1, <2>2 DEF QueuedTasks
  <2>4. \A i \in DOMAIN r.tasks : r.tasks[i].task \in QueuedTasks(s)
    BY <1>2, <2>2 DEF QueuedTasks
  <2>5. QueuedTasks(r) \subseteq QueuedTasks(s)
    BY <2>4 DEF QueuedTasks
  <2> QED
    BY <2>3, <2>5 DEF Waiting
<1>3. CASE s.dirty /\ \E l \in Sorted(s.tasks) : r = Pick(s, l)
  <2>1. PICK l \in Sorted(s.tasks) : r = Pick(s, l)
    BY <1>3
  <2>2. l \in Seq(Entries) /\ Len(l) = Len(s.tasks)
    BY <1>1, SortedRearranges
  <2>3. \A i \in DOMAIN s.tasks : \E j \in DOMAIN s.tasks : l[i] = s.tasks[j]
    BY <1>1, SortedRearranges
  <2>4. DOMAIN l = DOMAIN s.tasks /\ s.tasks # << >> /\ l # << >>
    BY <1>1, <1>3, <2>2
  <2> QED
    BY <1>2, <2>1, <2>2, <2>3, <2>4
<1>4. CASE s.tasks # << >> /\ r = Pick(s, s.tasks)
  BY <1>1, <1>2, <1>4
<1>5. CASE r = Leave(s)
  <2>1. r.tasks = s.tasks /\ r.place = "begin"
    BY <1>1, <1>5 DEF Leave, SchedulerState
  <2> QED
    BY <2>1 DEF Waiting, QueuedTasks
<1> QED
  BY <1>3, <1>4, <1>5 DEF Select

\* Retiring a task has at most its follow-up wait.
LEMMA RetireWaits ==
    ASSUME NEW s, Sound(s), s.current # NoTask
    PROVE  QueuedTasks(Retire(s)) \subseteq QueuedTasks(s) \union ({FollowUp[s.current]} \ {NoTask})
<1> DEFINE u == Unregister(s)
<1>1. s \in SchedulerState /\ s.current \in Tasks /\ FollowUp[s.current] \in Tasks \union {NoTask}
  BY TasksAssumption DEF Sound, SchedulerState, TasksAssumption
<1>2. u.tasks = s.tasks
  BY <1>1 DEF Unregister, SchedulerState
<1>3. QueuedTasks(u) = QueuedTasks(s)
  BY <1>2 DEF QueuedTasks
<1>4. u \in SchedulerState
  BY <1>1 DEF Unregister, SchedulerState
<1> HIDE DEF u
<1>6. Retire(s) = u \/ (FollowUp[s.current] \in Tasks /\ Retire(s) = AddTask(u, FollowUp[s.current]))
  BY <1>1 DEF Retire, u
<1> QED
  BY <1>3, <1>4, <1>6, AddTaskQueues, TasksAssumption DEF TasksAssumption

----------------------------------------------------------------------------
(* The actions                                                             *)

\* Starting: whatever waits is given an idle handler that will run it.
LEMMA StartKeepsInv == ASSUME Inv, Start PROVE Inv'
<1> DEFINE r == [sched EXCEPT !.running = TRUE, !.terminated = FALSE]
<1>1. /\ sched \in SchedulerState /\ Sound(sched) /\ Placed(sched) /\ ~sched.running
      /\ sched.bound \in Nat /\ sched.tasks \in Seq(Entries)
  BY DEF Inv, Sound, SchedulerState, Start
<1>2. sched.place = "begin" /\ sched.bound = 0
  BY <1>1 DEF Sound, Served
<1>3. /\ r \in SchedulerState /\ r.running = TRUE /\ r.tasks = sched.tasks
      /\ r.descs = sched.descs /\ r.current = sched.current /\ r.place = sched.place
      /\ r.exists = sched.exists /\ r.bound = sched.bound
  BY <1>1 DEF SchedulerState
<1>4. r.dirty = sched.dirty /\ r.ended = sched.ended
  BY <1>1 DEF SchedulerState
<1>5. sched' = IF sched.exists THEN CreateSchedulerThread(r) ELSE r
  BY DEF Start, Started
<1> HIDE DEF r
<1>6. Booked(r)
  BY <1>1, <1>3 DEF Sound, Booked, QueuedKeys, ActiveKeys
<1>7. CASE sched' = r /\ r.tasks = << >>
  <2>1. Served(r)
    BY <1>2, <1>3, <1>7 DEF Served
  <2>2. Sound(r) /\ Placed(r)
    BY <1>1, <1>3, <1>4, <1>6, <2>1 DEF Sound, Placed
  <2> QED
    BY <1>7, <2>2 DEF Inv
<1>8. CASE sched.exists /\ r.tasks # << >> /\ sched' = [r EXCEPT !.ended = FALSE, !.bound = @ + 1]
  <2>1. /\ sched' \in SchedulerState
        /\ sched'.tasks = r.tasks /\ sched'.descs = r.descs /\ sched'.current = r.current
        /\ sched'.place = r.place /\ sched'.dirty = r.dirty /\ sched'.running = r.running
        /\ sched'.exists = r.exists /\ ~sched'.ended /\ sched'.bound = r.bound + 1
    BY <1>3, <1>8, BoundOnce
  <2>2. Booked(sched')
    BY <1>6, <2>1 DEF Booked, QueuedKeys, ActiveKeys
  <2>3. Served(sched')
    <3>1. sched'.bound > 0 /\ sched'.place = "begin"
      BY <1>2, <1>3, <2>1
    <3>2. sched'.running /\ ~sched'.ended
      BY <1>3, <2>1
    <3>3. sched'.exists
      BY <1>3, <1>8, <2>1
    <3> QED
      BY <3>1, <3>2, <3>3 DEF Served
  <2>4. Sound(sched') /\ Placed(sched')
    BY <1>1, <1>3, <1>4, <2>1, <2>2, <2>3 DEF Sound, Placed
  <2> QED
    BY <2>4 DEF Inv
<1>9. ~IsAlive(r)
  BY <1>2, <1>3 DEF IsAlive
<1>10. sched.tasks # << >> => sched.exists
  BY <1>1 DEF Sound, Served
<1> QED
  BY <1>3, <1>5, <1>7, <1>8, <1>9, <1>10 DEF CreateSchedulerThread

\* The end of a task leaves it in its place.
LEMMA TaskEndsKeepsInv == ASSUME Inv, TaskEnds PROVE Inv'
<1>1. sched \in SchedulerState /\ Sound(sched) /\ sched.place = "picked" /\ sched.current # NoTask
  BY DEF Inv, Sound, Placed, TaskEnds, Turn
<1>2. sched' = [sched EXCEPT !.place = "exited"]
  BY DEF TaskEnds
<1>3. /\ sched' \in SchedulerState /\ sched'.place = "exited"
      /\ sched'.tasks = sched.tasks /\ sched'.descs = sched.descs
      /\ sched'.current = sched.current /\ sched'.running = sched.running
      /\ sched'.exists = sched.exists /\ sched'.bound = sched.bound
  BY <1>1, <1>2 DEF SchedulerState, Places
<1>4. sched'.dirty = sched.dirty /\ sched'.ended = sched.ended
  BY <1>1, <1>2 DEF SchedulerState
<1>5. Booked(sched')
  BY <1>1, <1>3 DEF Sound, Booked, QueuedKeys, ActiveKeys
<1>6. Sound(sched') /\ Placed(sched')
  BY <1>1, <1>3, <1>4, <1>5 DEF Sound, Served, Placed
<1> QED
  BY <1>6 DEF Inv

\* A turn that begins the loop, or goes on in it, ends with the most urgent task
\* picked, or with none left.
LEMMA BeginKeepsInv ==
    ASSUME Inv, Begin
    PROVE  /\ Inv'
           /\ \A i, j \in DOMAIN sched.tasks :
                 sched'.place = "picked" /\ sched'.current = sched.tasks[i].task
                     => ~Before(sched.tasks[j], sched.tasks[i])
<1>1. Sound(sched) /\ sched.current = NoTask /\ sched.bound > 0 /\ sched' \in Select(sched)
  BY DEF Inv, Placed, Begin, Turn
<1> QED
  BY <1>1, SelectIsSound DEF Inv

\* Going on, the ended task is retired first, and its follow-up may be added.
LEMMA ProceedKeepsInv ==
    ASSUME Inv, Proceed
    PROVE  /\ Inv'
           /\ \A i, j \in DOMAIN sched.tasks :
                 sched'.place = "picked" /\ sched'.current = sched.tasks[i].task
                     => ~Before(sched.tasks[j], sched.tasks[i])
<1> DEFINE x == Retire(sched)
<1>1. Sound(sched) /\ sched.current # NoTask /\ sched.place # "begin" /\ sched' \in Select(x)
  BY DEF Inv, Placed, Proceed, Turn
<1>2. /\ Sound(x) /\ x.current = NoTask /\ x.bound > 0
      /\ \A i \in DOMAIN sched.tasks : i \in DOMAIN x.tasks /\ x.tasks[i] = sched.tasks[i]
  BY <1>1, RetireIsSound
<1> HIDE DEF x
<1>3. /\ Sound(sched') /\ Placed(sched')
      /\ \A i, j \in DOMAIN x.tasks :
            sched'.place = "picked" /\ sched'.current = x.tasks[i].task
                => ~Before(x.tasks[j], x.tasks[i])
  BY <1>1, <1>2, SelectIsSound
<1> QED
  BY <1>2, <1>3 DEF Inv

\* Every step keeps the invariant.
LEMMA NextKeepsInv == ASSUME Inv, [Next]_sched PROVE Inv'
<1>1. CASE \E t \in Tasks : Add(t)
  <2>1. PICK t \in Tasks : Add(t)
    BY <1>1
  <2>2. Sound(sched') /\ sched'.current = sched.current /\ sched'.place = sched.place
    BY <2>1, AddTaskIsSound DEF Inv, Add
  <2> QED
    BY <2>2 DEF Inv, Placed
<1>2. CASE Terminate \/ Restart
  <2>1. sched.age \in Nat
    BY DEF Inv, Sound, SchedulerState
  <2> QED
    BY <1>2, <2>1, NoSchedulerIsSound DEF Inv, Terminate, Restart
<1>3. CASE UNCHANGED sched
  BY <1>3 DEF Inv
<1>4. CASE Start
  BY <1>4, StartKeepsInv
<1>5. CASE TaskEnds
  BY <1>5, TaskEndsKeepsInv
<1>6. CASE Begin
  BY <1>6, BeginKeepsInv
<1>7. CASE Proceed
  BY <1>7, ProceedKeepsInv
<1> QED
  BY <1>1, <1>2, <1>3, <1>4, <1>5, <1>6, <1>7 DEF Next

\* So it always holds.
LEMMA Invariant == Spec => []Inv
<1>1. Init => Inv
  BY NoSchedulerIsSound DEF Init, Inv
<1> QED
  BY <1>1, NextKeepsInv, PTL DEF Spec

----------------------------------------------------------------------------
(* The claims                                                              *)

\* The scheduler's fields hold what their declarations allow, the binding count
\* included, which OnExit takes down.
THEOREM TypeCorrect == Spec => []TypeOK
  BY Invariant, InvClaims, PTL

\* What is queued or running, and only that, is registered by type and
\* description, each name once: DoAddTask and Continue keep m_taskDescs so.
THEOREM BooksAreRight == Spec => []TasksRegistered
  BY Invariant, InvClaims, PTL

\* A started scheduler with work has an idle handler that will resume it, at
\* whatever moment between two turns AddTask is called.
THEOREM WorkIsAttended == Spec => []WorkIsServed
  BY Invariant, InvClaims, PTL

\* The front of the list is never taken when there is none.
THEOREM FrontIsThere == Spec => []FrontExists
  BY Invariant, InvClaims, PTL

\* Only the coroutine's turns pick a task.
LEMMA PickingSteps ==
    ASSUME Inv, Next, sched'.place = "picked", sched.place # "picked"
    PROVE  Begin \/ Proceed
<1>1. ASSUME NEW t \in Tasks, Add(t) PROVE FALSE
  BY <1>1, AddTaskIsSound DEF Inv, Add
<1>2. ~Start
  <2>1. Start => sched'.place = sched.place
    BY DEF Inv, Sound, Start, Started, CreateSchedulerThread, SchedulerState
  <2> QED
    BY <2>1
<1>3. ~Terminate /\ ~Restart
  BY DEF Terminate, Restart, NoScheduler
<1>4. ~TaskEnds
  BY DEF TaskEnds, Turn
<1> QED
  BY <1>1, <1>2, <1>3, <1>4 DEF Next

\* Whatever is added, and whenever, each pick is the most urgent task.
THEOREM PicksBest == Spec => BestFirst
<1>1. Inv /\ [Next]_sched =>
        [\A i \in DOMAIN sched.tasks :
            /\ sched'.place = "picked" /\ sched.place # "picked"
            /\ sched'.current = sched.tasks[i].task
            => \A j \in DOMAIN sched.tasks : ~Before(sched.tasks[j], sched.tasks[i])]_sched
  <2>1. CASE UNCHANGED sched
    BY <2>1
  <2>2. ASSUME Inv, Next, NEW i \in DOMAIN sched.tasks, NEW j \in DOMAIN sched.tasks,
               sched'.place = "picked", sched.place # "picked",
               sched'.current = sched.tasks[i].task
        PROVE  ~Before(sched.tasks[j], sched.tasks[i])
    <3>1. Begin \/ Proceed
      BY <2>2, PickingSteps
    <3>2. CASE Begin
      BY <2>2, <3>2, BeginKeepsInv
    <3>3. CASE Proceed
      BY <2>2, <3>3, ProceedKeepsInv
    <3> QED
      BY <3>1, <3>2, <3>3
  <2> QED
    BY <2>1, <2>2
<1> QED
  BY <1>1, Invariant, PTL DEF Spec, BestFirst
=============================================================================
