---------------------------- MODULE HdcTaskProofs ----------------------------
(***************************************************************************)
(* The tasks of a session are never used after they were deleted, for any  *)
(* number of channels and tasks.  IInv is proved in three parts: types,    *)
(* what each action does to the map and the tasks, and what each thread    *)
(* knows while it is in the middle of a callback.                          *)
(***************************************************************************)
EXTENDS HdcTask, TLAPS

USE DEF Tasks

\* The initial state satisfies every part of the invariant.
LEMMA InitInv == Init => IInv
<1> SUFFICES ASSUME Init PROVE IInv
    OBVIOUS
<1>1. TypeOK
    BY BoundsAssumption DEF Init, TypeOK, Task, Unused, Channel, Worker, Main, Idle, MainIdle
<1>2. \A c \in Channels : MapInv(c)
    BY DEF Init, MapInv, Erasing, Again
<1>3. \A t \in Tasks : TaskInv(t)
    BY DEF Init, TaskInv, Unused, Stopping, Lost, Again
<1>4. WorkerInv /\ MainInv
    BY DEF Init, WorkerInv, MainInv, Adding, Idle, MainIdle, Again
<1> QED
    BY <1>1, <1>2, <1>3, <1>4 DEF IInv

\* What BeginRemoveTask does to a task: nothing, or it is stopped and gets its timer.
LEMMA BeginRemove ==
    ASSUME TypeOK, NEW t \in Tasks
    PROVE  /\ BeginRemoveTask(task, t) \in [Tasks -> Task]
           /\ \A u \in Tasks : u # t => BeginRemoveTask(task, t)[u] = task[u]
           /\ BeginRemoveTask(task, t)[t] =
                  IF task[t].taskStop \/ task[t].taskFree THEN task[t]
                  ELSE [task[t] EXCEPT !.timer = TRUE, !.taskStop = TRUE]
<1> DEFINE x == [task[t] EXCEPT !.timer = TRUE, !.taskStop = TRUE]
<1>1. task \in [Tasks -> Task] /\ task[t] \in Task
    BY DEF TypeOK
<1>2. x \in Task
    BY <1>1 DEF Task
<1>3. BeginRemoveTask(task, t) =
          IF task[t].taskStop \/ task[t].taskFree THEN task ELSE [task EXCEPT ![t] = x]
    BY DEF BeginRemoveTask
<1> HIDE DEF x
<1>4. CASE task[t].taskStop \/ task[t].taskFree
    <2>1. BeginRemoveTask(task, t) = task
        BY <1>3, <1>4
    <2> QED
        BY <1>1, <1>4, <2>1
<1>5. CASE ~(task[t].taskStop \/ task[t].taskFree)
    <2>1. BeginRemoveTask(task, t) = [task EXCEPT ![t] = x]
        BY <1>3, <1>5
    <2>2. /\ BeginRemoveTask(task, t) \in [Tasks -> Task]
          /\ \A u \in Tasks : u # t => BeginRemoveTask(task, t)[u] = task[u]
          /\ BeginRemoveTask(task, t)[t] = x
        BY <1>1, <1>2, <2>1
    <2> QED
        BY <1>5, <2>2 DEF x
<1> QED
    BY <1>4, <1>5

\* ClearOwnTasks on the worker stops the tasks of the channels cs, and takes
\* them out of the map; what else a task is stays as it is.
Cleared(cs, t) == \E c \in cs : mapTask[c] = t

LEMMA ClearOwn ==
    ASSUME IInv, NEW cs \in SUBSET Channels, ClearOwnTasks(cs)
    PROVE  /\ mapTask' \in [Channels -> {0} \cup Tasks]
           /\ task' \in [Tasks -> Task]
           /\ \A c \in Channels : mapTask'[c] = IF c \in cs THEN 0 ELSE mapTask[c]
           /\ \A t \in Tasks :
                  /\ Cleared(cs, t) => task'[t].timer /\ task'[t].taskStop
                  /\ ~Cleared(cs, t) => task'[t] = task[t]
                  /\ task'[t].info = task[t].info
                  /\ task'[t].class = task[t].class
                  /\ task'[t].channel = task[t].channel
                  /\ task'[t].taskFree = task[t].taskFree
                  /\ task'[t].refCount = task[t].refCount
<1>1. /\ main.pc = "idle"
      /\ task' = [t \in Tasks |-> IF \E c \in Tasked(cs) : mapTask[c] = t
                                  THEN BeginRemoveTask(task, t)[t] ELSE task[t]]
      /\ mapTask' = [c \in Channels |-> IF c \in cs THEN 0 ELSE mapTask[c]]
    BY DEF ClearOwnTasks
<1>2. \A t \in Tasks : Cleared(cs, t) <=> \E c \in Tasked(cs) : mapTask[c] = t
    BY BoundsAssumption DEF Tasked, Cleared
<1>3. task' = [t \in Tasks |-> IF Cleared(cs, t) THEN BeginRemoveTask(task, t)[t] ELSE task[t]]
    BY <1>1, <1>2
<1>4. \A t \in Tasks : task[t] \in Task
    BY DEF IInv, TypeOK
<1>5. ASSUME NEW t \in Tasks, Cleared(cs, t)
      PROVE  /\ task'[t] = [task[t] EXCEPT !.timer = TRUE, !.taskStop = TRUE]
             /\ task'[t] \in Task
    <2>1. PICK c \in cs : mapTask[c] = t
        BY <1>5 DEF Cleared
    <2>2. mapTask[c] # 0
        BY <2>1, BoundsAssumption
    <2>3. ~task[t].taskStop /\ ~task[t].taskFree
        BY <1>1, <2>1, <2>2 DEF IInv, MapInv, TaskInv, Erasing, Stopping, Lost, Again
    <2>4. task'[t] = BeginRemoveTask(task, t)[t]
        BY <1>3, <1>5
    <2>5. BeginRemoveTask(task, t)[t] = [task[t] EXCEPT !.timer = TRUE, !.taskStop = TRUE]
        <3>1. TypeOK
            BY DEF IInv
        <3> QED
            BY <2>3, <3>1, BeginRemove
    <2>6. [task[t] EXCEPT !.timer = TRUE, !.taskStop = TRUE] \in Task
        BY <1>4 DEF Task
    <2> QED
        BY <2>4, <2>5, <2>6
<1>6. ASSUME NEW t \in Tasks, ~Cleared(cs, t)
      PROVE  task'[t] = task[t]
    BY <1>3, <1>6
<1>7. task' \in [Tasks -> Task]
    <2>1. DOMAIN task' = Tasks /\ task' = [t \in Tasks |-> task'[t]]
        BY <1>3
    <2>2. \A t \in Tasks : task'[t] \in Task
        BY <1>4, <1>5, <1>6
    <2> QED
        BY <2>1, <2>2
<1>8. mapTask' \in [Channels -> {0} \cup Tasks]
    BY <1>1 DEF IInv, TypeOK
<1>9. ASSUME NEW t \in Tasks
      PROVE  /\ Cleared(cs, t) => task'[t].timer /\ task'[t].taskStop
             /\ task'[t].info = task[t].info
             /\ task'[t].class = task[t].class
             /\ task'[t].channel = task[t].channel
             /\ task'[t].taskFree = task[t].taskFree
             /\ task'[t].refCount = task[t].refCount
    <2>1. CASE Cleared(cs, t)
        <3>1. task'[t] = [task[t] EXCEPT !.timer = TRUE, !.taskStop = TRUE]
            BY <1>5, <2>1
        <3>2. task[t] \in Task
            BY <1>4
        <3> QED
            BY <3>1, <3>2 DEF Task
    <2>2. CASE ~Cleared(cs, t)
        BY <1>6, <2>2
    <2> QED
        BY <2>1, <2>2
<1> QED
    BY <1>1, <1>6, <1>7, <1>8, <1>9

\* With the worker between two callbacks, ClearOwnTasks keeps every part of the
\* invariant it touches.
LEMMA ClearOwnKeeps ==
    ASSUME IInv, NEW cs \in SUBSET Channels, ClearOwnTasks(cs), worker.pc = "idle",
           UNCHANGED <<worker, main>>, channel' \in [Channels -> Channel],
           \A c \in Channels : /\ channel'[c].inits = channel[c].inits
                               /\ channel'[c].rule = channel[c].rule
                               /\ channel'[c].state = "gone" =>
                                      channel[c].state = "gone" \/ c \in cs
    PROVE  /\ mapTask' \in [Channels -> {0} \cup Tasks]
           /\ task' \in [Tasks -> Task]
           /\ \A c \in Channels : MapInv(c)'
           /\ \A t \in Tasks : TaskInv(t)'
           /\ WorkerInv'
           /\ MainInv'
<1>0. main.pc = "idle"
    BY DEF ClearOwnTasks
<1>1. /\ mapTask' \in [Channels -> {0} \cup Tasks]
      /\ task' \in [Tasks -> Task]
      /\ \A c \in Channels : mapTask'[c] = IF c \in cs THEN 0 ELSE mapTask[c]
      /\ \A t \in Tasks :
             /\ Cleared(cs, t) => task'[t].timer /\ task'[t].taskStop
             /\ ~Cleared(cs, t) => task'[t] = task[t]
             /\ task'[t].info = task[t].info
             /\ task'[t].class = task[t].class
             /\ task'[t].channel = task[t].channel
             /\ task'[t].taskFree = task[t].taskFree
             /\ task'[t].refCount = task[t].refCount
    BY ClearOwn
<1>2. /\ \A c \in Channels : mapTask[c] \in {0} \cup Tasks
      /\ \A c \in Channels : ~Erasing(c) /\ ~Erasing(c)'
      /\ \A t \in Tasks : ~Stopping(t) /\ ~Stopping(t)'
    BY <1>0 DEF IInv, TypeOK, Erasing, Stopping
<1>3. \A c \in Channels, t \in Tasks : mapTask[c] = t =>
          task[t].info = "there" /\ task[t].channel = c
    BY <1>2, BoundsAssumption DEF IInv, MapInv
<1>4. ASSUME NEW c \in Channels
      PROVE  MapInv(c)'
    <2>1. ASSUME c \notin cs, mapTask[c] # 0
          PROVE  task'[mapTask[c]] = task[mapTask[c]]
        <3>1. ~Cleared(cs, mapTask[c])
            <4>1. mapTask[c] \in Tasks
                BY <1>2, <2>1
            <4>2. \A d \in cs : mapTask[d] # mapTask[c]
                BY <1>3, <2>1, <4>1
            <4> QED
                BY <4>2 DEF Cleared
        <3> QED
            BY <1>1, <1>2, <2>1, <3>1
    <2>2. CASE c \in cs
        <3>1. mapTask'[c] = 0
            BY <1>1, <2>2
        <3> QED
            BY <3>1 DEF IInv, MapInv
    <2>3. CASE c \notin cs
        <3>1. mapTask'[c] = mapTask[c]
            BY <1>1, <2>3
        <3>2. mapTask[c] # 0 => /\ mapTask[c] \in Tasks
                                /\ task'[mapTask[c]] = task[mapTask[c]]
            BY <1>2, <2>1, <2>3
        <3>3. channel'[c].state = "gone" => channel[c].state = "gone"
            BY <2>3
        <3> QED
            BY <1>2, <3>1, <3>2, <3>3 DEF IInv, MapInv
    <2> QED
        BY <2>2, <2>3
<1>5. ASSUME NEW t \in Tasks
      PROVE  TaskInv(t)'
    <2>0. ASSUME task[t].channel \in Channels
          PROVE  /\ task'[t].channel = task[t].channel
                 /\ Again(task[t].channel)' <=> Again(task[t].channel)
                 /\ Lost(t)' <=> Lost(t)
        BY <1>1, <2>0 DEF Again, Lost
    <2>1. CASE Cleared(cs, t)
        <3>1. task[t].info = "there"
            BY <1>3, <2>1 DEF Cleared
        <3> QED
            BY <1>1, <2>1, <3>1 DEF IInv, TaskInv
    <2>2. CASE ~Cleared(cs, t) /\ task[t].channel \in Channels
        <3>1. task'[t] = task[t]
            BY <1>1, <2>2
        <3>2. ASSUME mapTask[task[t].channel] = t
              PROVE  mapTask'[task[t].channel] = t
            <4>1. task[t].channel \notin cs
                BY <2>2, <3>2 DEF Cleared
            <4> QED
                BY <1>1, <2>2, <3>2, <4>1
        <3> QED
            BY <1>2, <2>0, <2>2, <3>1, <3>2 DEF IInv, TaskInv
    <2>3. CASE ~Cleared(cs, t) /\ task[t].channel \notin Channels
        <3>1. task'[t] = task[t] /\ task[t].info = "unused"
            <4>1. task[t].info \in {"unused", "there", "deleted"}
                BY DEF IInv, TypeOK, Task
            <4> QED
                BY <1>1, <2>3, <4>1 DEF IInv, TaskInv
        <3> QED
            BY <3>1 DEF IInv, TaskInv
    <2> QED
        BY <2>1, <2>2, <2>3
<1>6. WorkerInv'
    BY <1>0 DEF IInv, WorkerInv, Adding, Again
<1>7. MainInv'
    BY <1>0 DEF MainInv
<1> QED
    BY <1>1, <1>4, <1>5, <1>6, <1>7

\* One task, or one channel, is changed: the rest stays.
LEMMA OneTask ==
    ASSUME IInv, NEW t \in Tasks, NEW x \in Task, task' = [task EXCEPT ![t] = x]
    PROVE  /\ task' \in [Tasks -> Task]
           /\ task'[t] = x
           /\ \A u \in Tasks : u # t => task'[u] = task[u]
BY DEF IInv, TypeOK

LEMMA OneChannel ==
    ASSUME IInv, NEW c \in Channels, NEW x \in Channel,
           channel' = [channel EXCEPT ![c] = x]
    PROVE  /\ channel' \in [Channels -> Channel]
           /\ channel'[c] = x
           /\ \A d \in Channels : d # c => channel'[d] = channel[d]
BY DEF IInv, TypeOK

-----------------------------------------------------------------------------
(* The steps *)

\* The retry timer fires: a task that has it is stopped, so the map does not have it.
LEMMA TaskClassDeleteRetryStep ==
    ASSUME IInv, NEW t \in Tasks, TaskClassDeleteRetry(t)
    PROVE  IInv'
<1> DEFINE x == [task[t] EXCEPT !.class = IF @ = "there" THEN "deleted" ELSE @,
                             !.taskFree = TRUE, !.info = "deleted", !.timer = FALSE]
<1>0. task[t] \in Task
    BY DEF IInv, TypeOK
<1>1. /\ x \in Task
      /\ x.info = "deleted" /\ x.taskStop = task[t].taskStop /\ ~x.timer
      /\ x.class # "there"
      /\ x.refCount = task[t].refCount
      /\ x.channel = task[t].channel
    <2> DEFINE k == IF task[t].class = "there" THEN "deleted" ELSE task[t].class
    <2>1. k \in {"none", "there", "deleted"} /\ k # "there"
        BY <1>0 DEF Task
    <2>2. x = [task[t] EXCEPT !.class = k, !.taskFree = TRUE, !.info = "deleted",
                              !.timer = FALSE]
        BY <1>0 DEF Task
    <2> HIDE DEF x, k
    <2> QED
        BY <1>0, <2>1, <2>2 DEF Task
<1>2. /\ task' = [task EXCEPT ![t] = x]
      /\ worker.pc = "idle"
      /\ task[t].timer /\ task[t].info = "there"
      /\ task[t].refCount = 0
      /\ UNCHANGED <<mapTask, channel, session, worker, main>>
    <2>1. task[t].timer /\ task[t].info = "there"
        BY DEF TaskClassDeleteRetry
    <2>2. ~task[t].taskFree /\ (task[t].class = "none" => task[t].refCount = 0)
        BY <2>1 DEF IInv, TaskInv
    <2>3. task[t].refCount = 0
        BY <2>2 DEF TaskClassDeleteRetry, TryRemoveTask, RemoveInstanceTask
    <2> QED
        BY <2>1, <2>3 DEF TaskClassDeleteRetry, Turns
<1> HIDE DEF x
<1>3. /\ task' \in [Tasks -> Task]
      /\ task'[t] = x
      /\ \A u \in Tasks : u # t => task'[u] = task[u]
    BY <1>1, <1>2, OneTask
<1>4. /\ \A c \in Channels : mapTask[c] \in {0} \cup Tasks
      /\ \A c \in Channels : mapTask[c] = t => Erasing(c)
      /\ main.task \in {0} \cup Tasks
    <2>1. /\ \A c \in Channels : mapTask[c] \in {0} \cup Tasks
          /\ main.task \in {0} \cup Tasks
        BY DEF IInv, TypeOK, Main
    <2>2. \A c \in Channels : mapTask[c] = t => Erasing(c)
        BY <1>2, BoundsAssumption DEF IInv, MapInv
    <2> QED
        BY <2>1, <2>2
<1>5. TypeOK'
    BY <1>1, <1>2, <1>3, <1>4 DEF IInv, TypeOK
<1>6. ASSUME NEW d \in Channels
      PROVE  MapInv(d)'
    <2>1. Erasing(d)' <=> Erasing(d)
        BY <1>2 DEF Erasing
    <2>2. CASE mapTask[d] = t
        BY <1>1, <1>2, <1>3, <1>4, <2>1, <2>2 DEF IInv, MapInv
    <2>3. CASE mapTask[d] # t
        BY <1>2, <1>3, <1>4, <2>1, <2>3 DEF IInv, MapInv
    <2> QED
        BY <2>2, <2>3
<1>7. ASSUME NEW u \in Tasks
      PROVE  TaskInv(u)'
    <2>1. CASE u = t
        BY <1>1, <1>2, <1>3, <2>1 DEF IInv, TaskInv
    <2>2. CASE u # t
        <3>1. task'[u] = task[u]
            BY <1>3, <2>2
        <3>2. /\ Stopping(u)' <=> Stopping(u)
              /\ Lost(u)' <=> Lost(u)
              /\ Again(task[u].channel)' <=> Again(task[u].channel)
            BY <1>2, <3>1 DEF Stopping, Lost, Again
        <3> QED
            BY <1>2, <3>1, <3>2 DEF IInv, TaskInv
    <2> QED
        BY <2>1, <2>2
<1>8. WorkerInv'
    BY <1>1, <1>2, <1>3 DEF IInv, WorkerInv, Adding, Again
<1>9. MainInv'
    <2>1. \A u \in Tasks : /\ task[u].info # "unused" => task'[u].info # "unused"
                           /\ task'[u].channel = task[u].channel
                           /\ task'[u].info = "there" =>
                                  task[u].info = "there" /\ task'[u] = task[u]
        BY <1>1, <1>2, <1>3
    <2>2. \A c : Again(c)' <=> Again(c)
        BY <1>2 DEF Again
    <2> QED
        BY <1>2, <1>4, <2>1, <2>2 DEF IInv, MainInv
<1> QED
    BY <1>5, <1>6, <1>7, <1>8, <1>9 DEF IInv

\* A pending operation ends: nothing but the count changes.
LEMMA OperationDoneStep ==
    ASSUME IInv, NEW t \in Tasks, OperationDone(t)
    PROVE  IInv'
<1> DEFINE x == [task[t] EXCEPT !.refCount = 0]
<1>1. /\ x \in Task
      /\ x.info = task[t].info /\ x.taskStop = task[t].taskStop /\ x.timer = task[t].timer
      /\ x.class = task[t].class /\ x.refCount = 0 /\ x.taskFree = task[t].taskFree
      /\ x.channel = task[t].channel
    BY DEF IInv, TypeOK, Task
<1>2. /\ task' = [task EXCEPT ![t] = x]
      /\ UNCHANGED <<mapTask, channel, session, worker, main>>
    BY DEF OperationDone
<1> HIDE DEF x
<1>3. /\ task' \in [Tasks -> Task]
      /\ task'[t] = x
      /\ \A u \in Tasks : u # t => task'[u] = task[u]
    BY <1>1, <1>2, OneTask
<1>4. \A c \in Channels : mapTask[c] \in {0} \cup Tasks
    BY DEF IInv, TypeOK
<1>5. TypeOK'
    BY <1>1, <1>2, <1>3, <1>4 DEF IInv, TypeOK
<1>6. \A d \in Channels : MapInv(d)'
    BY <1>1, <1>2, <1>3, <1>4 DEF IInv, MapInv, Erasing, Again
<1>7. \A u \in Tasks : TaskInv(u)'
    BY <1>1, <1>2, <1>3, <1>4 DEF IInv, TaskInv, Stopping, Lost, Again
<1>8. WorkerInv'
    BY <1>1, <1>2, <1>3, <1>4 DEF IInv, WorkerInv, Adding, Again
<1>9. MainInv'
    BY <1>1, <1>2, <1>3, <1>4 DEF IInv, MainInv, Again
<1> QED
    BY <1>5, <1>6, <1>7, <1>8, <1>9 DEF IInv

\* A command is fetched: an initial command is the first of its channel.
LEMMA FetchCommandStep ==
    ASSUME IInv, NEW c \in Channels, NEW command \in {"init", "wakeup", "data"}, FetchCommand(c, command)
    PROVE  IInv'
<1> DEFINE x == [channel[c] EXCEPT !.inits = IF command = "data" THEN @ ELSE @ + 1]
<1>1. /\ worker.pc = "idle" /\ channel[c].state = "alive"
      /\ worker' = [pc |-> "admin", channel |-> c, command |-> command, task |-> 0]
      /\ channel' = [channel EXCEPT ![c] = x]
      /\ UNCHANGED <<mapTask, task, session, main>>
    BY DEF FetchCommand, Turns, Idle
<1>2. /\ x \in Channel
      /\ x.state = "alive" /\ x.rule = channel[c].rule
      /\ x.inits \in Nat /\ channel[c].inits \in Nat
      /\ command # "data" => x.inits = channel[c].inits + 1
      /\ command = "data" => x.inits = channel[c].inits
    <2>1. /\ channel[c] \in Channel
          /\ command # "data" => channel[c].inits < MaxInits
        BY DEF FetchCommand, IInv, TypeOK
    <2>2. x.inits \in 0..MaxInits
        BY <2>1, BoundsAssumption DEF Channel
    <2>3. x \in Channel
        BY <2>1, <2>2 DEF Channel
    <2>4. x.state = "alive" /\ x.rule = channel[c].rule
        BY <1>1, <2>1 DEF Channel
    <2>5. /\ x.inits \in Nat /\ channel[c].inits \in Nat
          /\ command # "data" => x.inits = channel[c].inits + 1
        BY <2>1, <2>2, BoundsAssumption DEF Channel
    <2>6. command = "data" => x.inits = channel[c].inits
        BY <2>1 DEF Channel
    <2> QED
        BY <2>3, <2>4, <2>5, <2>6
<1> HIDE DEF x
<1>3. /\ channel' \in [Channels -> Channel]
      /\ channel'[c] = x
      /\ \A d \in Channels : d # c => channel'[d] = channel[d]
    BY <1>1, <1>2, OneChannel
<1>4. /\ \A d \in Channels : /\ Again(d) => Again(d)'
                             /\ channel[d].inits # 0 => channel'[d].inits # 0
                             /\ channel'[d].rule = channel[d].rule
                             /\ channel'[d].state = channel[d].state
      /\ \A d : Erasing(d)' <=> Erasing(d)
      /\ \A t : Stopping(t)' <=> Stopping(t)
      /\ worker' \in Worker
    <2>1. worker' \in Worker
        BY <1>1 DEF Worker
    <2>2. \A d \in Channels : Again(d) => Again(d)'
        BY <1>2, <1>3 DEF Again
    <2>3. \A d : Erasing(d)' <=> Erasing(d)
        BY <1>1 DEF Erasing
    <2>4. \A t : Stopping(t)' <=> Stopping(t)
        BY <1>1 DEF Stopping
    <2> QED
        BY <1>1, <1>2, <1>3, <2>1, <2>2, <2>3, <2>4
<1>5. TypeOK'
    BY <1>1, <1>3, <1>4 DEF IInv, TypeOK
<1>6. \A d \in Channels : MapInv(d)'
    BY <1>1, <1>4 DEF IInv, MapInv
<1>7. \A u \in Tasks : TaskInv(u)'
    BY <1>1, <1>4, BoundsAssumption DEF IInv, TaskInv, Lost
<1>8. WorkerInv'
    <2>1. command # "data" /\ ~Again(c)' =>
              mapTask[c] = 0 /\ ~channel[c].rule /\ (main.pc # "idle" => main.channel # c)
        BY <1>2, <1>3 DEF IInv, MapInv, MainInv, Again
    <2> QED
        BY <1>1, <1>2, <1>3, <1>4, <2>1 DEF WorkerInv, Adding
<1>9. MainInv'
    BY <1>1, <1>4, BoundsAssumption DEF IInv, MainInv
<1> QED
    BY <1>5, <1>6, <1>7, <1>8, <1>9 DEF IInv

\* A task is added: the channel had none, or a second initial command replaces it.
LEMMA AdminTaskAddStep ==
    ASSUME IInv, AdminTaskAdd
    PROVE  IInv'
<1> DEFINE c == worker.channel
           o == mapTask[c]
           x == [Unused EXCEPT !.channel = c, !.info = "there"]
<1>1. /\ c \in Channels /\ channel[c].inits # 0 /\ channel[c].state # "gone"
      /\ ~Again(c) => o = 0 /\ (main.pc # "idle" => main.channel # c)
      /\ worker.pc = "admin"
      /\ UNCHANGED <<channel, session, main>>
    BY DEF AdminTaskAdd, IInv, WorkerInv, Adding
<1>2. /\ x \in Task
      /\ x.info = "there" /\ x.class = "none" /\ x.channel = c /\ x.refCount = 0
      /\ ~x.taskStop /\ ~x.taskFree /\ ~x.timer
    <2> HIDE DEF c
    <2>1. x \in Task
        <3>1. Unused \in Task
            BY DEF Task, Unused
        <3>2. c \in Channels
            BY <1>1
        <3> QED
            BY <3>1, <3>2 DEF Task
    <2>2. x.info = "there" /\ x.class = "none" /\ x.channel = c /\ x.refCount = 0
        BY DEF Unused
    <2>3. ~x.taskStop /\ ~x.taskFree /\ ~x.timer
        BY DEF Unused
    <2> QED
        BY <2>1, <2>2, <2>3
<1>3. PICK t \in Tasks :
          /\ task[t].info = "unused"
          /\ task' = [u \in Tasks |->
                 IF u = t THEN x
                 ELSE IF u = o THEN [task[u] EXCEPT !.info = "deleted"]
                 ELSE task[u]]
          /\ mapTask' = [mapTask EXCEPT ![c] = t]
          /\ Dispatch(t, FALSE)
    BY DEF AdminTaskAdd, Fresh
<1>4. worker' = [worker EXCEPT !.pc = "redirect", !.task = t]
    BY <1>3, BoundsAssumption DEF Dispatch
<1> HIDE DEF x
<1>5. /\ \A u \in Tasks : task[u] \in Task
      /\ \A d \in Channels : mapTask[d] \in {0} \cup Tasks
      /\ main.task \in {0} \cup Tasks /\ t # 0
    BY BoundsAssumption DEF IInv, TypeOK, Main
<1>6. o # 0 => /\ o \in Tasks /\ Again(c)
               /\ task[o].info = "there" /\ task[o].channel = c
    BY <1>1, <1>5 DEF AdminTaskAdd, IInv, MapInv
<1>7. /\ task' \in [Tasks -> Task]
      /\ task'[t] = x
      /\ o # 0 => /\ task'[o].info = "deleted"
                  /\ task'[o].channel = c
                  /\ task'[o].class = task[o].class
                  /\ task'[o].refCount = task[o].refCount
      /\ \A u \in Tasks : u # t /\ u # o => task'[u] = task[u]
    <2>1. \A u \in Tasks : [task[u] EXCEPT !.info = "deleted"] \in Task
        BY <1>5 DEF Task
    <2>2. task' \in [Tasks -> Task]
        BY <1>2, <1>3, <1>5, <2>1
    <2>3. o # 0 => o # t
        BY <1>3, <1>6
    <2>4. o # 0 => task'[o] = [task[o] EXCEPT !.info = "deleted"]
        BY <1>3, <1>6, <2>3
    <2>5. o # 0 => task[o] \in Task
        BY <1>5, <1>6
    <2> QED
        BY <1>3, <1>6, <2>2, <2>3, <2>4, <2>5 DEF Task
<1>8. /\ mapTask' \in [Channels -> {0} \cup Tasks]
      /\ mapTask'[c] = t
      /\ \A d \in Channels : d # c => mapTask'[d] = mapTask[d]
      /\ worker' \in Worker
      /\ worker'.pc = "redirect" /\ worker'.channel = c /\ worker'.task = t
    BY <1>1, <1>3, <1>4 DEF IInv, TypeOK, Worker
<1>9. /\ \A d \in Channels : d # c => mapTask[d] # t /\ (mapTask[d] = 0 \/ mapTask[d] # o)
      /\ main.pc \in {"stop", "erase"} => main.task # t
    <2>1. ASSUME NEW d \in Channels, d # c
          PROVE  mapTask[d] # t /\ (mapTask[d] = 0 \/ mapTask[d] # o)
        <3>1. mapTask[d] # t
            <4>1. ASSUME mapTask[d] = t PROVE FALSE
                <5>1. t # 0 /\ task[t].info = "unused"
                    BY <1>3, <1>5
                <5> QED
                    BY <4>1, <5>1 DEF IInv, MapInv
            <4> QED
                BY <4>1
        <3>2. mapTask[d] = 0 \/ mapTask[d] # o
            BY <1>5, <1>6, <2>1 DEF IInv, MapInv
        <3> QED
            BY <3>1, <3>2
    <2>2. main.pc \in {"stop", "erase"} => main.task # t
        BY <1>3, <1>5 DEF IInv, MainInv
    <2> QED
        BY <2>1, <2>2
<1>10. /\ \A d : Again(d)' <=> Again(d)
       /\ \A d : Erasing(d)' <=> Erasing(d)
       /\ \A u : Stopping(u)' <=> Stopping(u)
    BY <1>1 DEF Again, Erasing, Stopping
<1> HIDE DEF c, o
<1>11. TypeOK'
    BY <1>1, <1>7, <1>8 DEF IInv, TypeOK
<1>12. ASSUME NEW d \in Channels
       PROVE  MapInv(d)'
    <2>1. CASE d = c
        BY <1>1, <1>2, <1>7, <1>8, <2>1 DEF IInv, MapInv
    <2>2. CASE d # c
        <3>1. mapTask'[d] = mapTask[d]
            BY <1>8, <2>2
        <3>2. mapTask[d] # 0 => task'[mapTask[d]] = task[mapTask[d]] /\ mapTask[d] \in Tasks
            BY <1>5, <1>7, <1>9, <2>2
        <3> QED
            BY <1>1, <1>10, <3>1, <3>2 DEF IInv, MapInv
    <2> QED
        BY <2>1, <2>2
<1>13. ASSUME NEW u \in Tasks
       PROVE  TaskInv(u)'
    <2>1. CASE u = t
        BY <1>1, <1>2, <1>7, <1>8, <2>1 DEF TaskInv
    <2>2. CASE u = o
        <3>1. o # 0
            BY <2>2, BoundsAssumption
        <3> QED
            BY <1>1, <1>6, <1>7, <1>10, <2>2, <3>1 DEF IInv, TaskInv
    <2>3. CASE u # t /\ u # o
        <3>1. task'[u] = task[u]
            BY <1>7, <2>3
        <3>2. task[u].channel \in Channels /\ mapTask[task[u].channel] = u =>
                  mapTask'[task[u].channel] = u
            BY <1>8, <2>3 DEF o
        <3>3. Lost(u)' <=> Lost(u)
            BY <1>10, <3>1 DEF Lost
        <3> QED
            BY <1>10, <3>1, <3>2, <3>3 DEF IInv, TaskInv
    <2> QED
        BY <2>1, <2>2, <2>3
<1>14. WorkerInv'
    BY <1>1, <1>2, <1>3, <1>7, <1>8 DEF WorkerInv, Adding
<1>15. MainInv'
    <2>1. main.channel = c /\ main.pc # "idle" => Again(c)
        BY <1>1
    <2>2. main.pc \in {"stop", "erase"} /\ main.task # 0 =>
              /\ main.task \in Tasks
              /\ task'[main.task].info # "unused"
              /\ task'[main.task].channel = task[main.task].channel
              /\ task'[main.task].info = "there" => task'[main.task] = task[main.task]
        BY <1>5, <1>6, <1>7, <1>9 DEF IInv, MainInv
    <2>3. main.pc # "idle" => main.channel \in Channels
        BY BoundsAssumption DEF IInv, MainInv
    <2>4. main.pc # "idle" => mapTask'[main.channel] = mapTask[main.channel] \/ Again(main.channel)
        BY <1>8, <2>1, <2>3
    <2> QED
        BY <1>1, <1>10, <2>2, <2>4 DEF IInv, MainInv
<1> QED
    BY <1>11, <1>12, <1>13, <1>14, <1>15 DEF IInv

\* The task of a later command is looked up: the map has it only while it is there.
LEMMA AdminTaskQueryStep ==
    ASSUME IInv, AdminTaskQuery
    PROVE  IInv'
<1> DEFINE t == mapTask[worker.channel]
<1>1. /\ worker.pc = "admin" /\ worker.command = "data" /\ worker.channel \in Channels
      /\ UNCHANGED <<mapTask, task, channel, session, main>>
    BY DEF AdminTaskQuery, IInv, WorkerInv, Again
<1>2. t \in {0} \cup Tasks
    BY <1>1 DEF IInv, TypeOK
<1>3. \/ worker' = [pc |-> "idle", channel |-> "none", command |-> "none", task |-> 0]
      \/ t \in Tasks /\ worker' = [worker EXCEPT !.pc = "redirect", !.task = t]
    BY <1>2, BoundsAssumption DEF AdminTaskQuery, Dispatch, Idle
<1>4. /\ worker' \in Worker
      /\ \/ worker'.pc = "idle"
         \/ /\ worker'.pc = "redirect" /\ worker'.channel = worker.channel
            /\ worker'.task = t /\ t \in Tasks /\ t # 0
    <2> HIDE DEF t
    <2>1. worker \in Worker
        BY DEF IInv, TypeOK
    <2>2. CASE worker' = [pc |-> "idle", channel |-> "none", command |-> "none", task |-> 0]
        BY <2>2 DEF Worker
    <2>3. CASE t \in Tasks /\ worker' = [worker EXCEPT !.pc = "redirect", !.task = t]
        <3>1. t # 0
            BY <2>3, BoundsAssumption
        <3> QED
            BY <2>1, <2>3, <3>1 DEF Worker
    <2> QED
        BY <1>3, <2>2, <2>3
<1> HIDE DEF t
<1>5. worker'.pc = "redirect" => /\ task[t].info = "there"
                                 /\ channel[worker.channel].inits # 0
    BY <1>1, <1>4 DEF AdminTaskQuery, IInv, MapInv, t
<1>6. TypeOK'
    BY <1>1, <1>2, <1>3, <1>4, <1>5 DEF IInv, TypeOK, t
<1>7. \A d \in Channels : MapInv(d)'
    BY <1>1, <1>2, <1>3, <1>4, <1>5 DEF IInv, MapInv, t, Erasing, Again
<1>8. \A u \in Tasks : TaskInv(u)'
    BY <1>1, <1>2, <1>3, <1>4, <1>5 DEF IInv, TaskInv, t, Stopping, Lost, Again
<1>9. WorkerInv'
    BY <1>1, <1>2, <1>3, <1>4, <1>5 DEF IInv, WorkerInv, Adding, t, Again
<1>10. MainInv'
    BY <1>1, <1>2, <1>3, <1>4, <1>5 DEF IInv, MainInv, t, Again
<1> QED
    BY <1>6, <1>7, <1>8, <1>9, <1>10 DEF IInv

\* The task gets its command: it may make its class, or start an operation.
LEMMA RedirectToTaskStep ==
    ASSUME IInv, NEW start \in BOOLEAN, NEW rule \in BOOLEAN, RedirectToTask(start, rule)
    PROVE  IInv'
<1> DEFINE t == worker.task
           c == worker.channel
           x == IF worker.command = "wakeup" THEN task[t]
                ELSE [task[t] EXCEPT !.class = IF @ = "none" THEN "there" ELSE @,
                                     !.refCount = IF start THEN 1 ELSE @]
           y == [channel[c] EXCEPT !.rule = @ \/ rule]
<1>1. /\ t \in Tasks /\ c \in Channels
      /\ task[t].info = "there" /\ channel[c].inits # 0
    BY DEF RedirectToTask, IInv, WorkerInv, Again
<1>2. /\ x \in Task
      /\ x.info = task[t].info /\ x.taskStop = task[t].taskStop /\ x.timer = task[t].timer
      /\ x.taskFree = task[t].taskFree /\ x.channel = task[t].channel
      /\ x.class = "deleted" => task[t].class = "deleted"
    <2>1. task[t] \in Task
        BY <1>1 DEF IInv, TypeOK
    <2> HIDE DEF t
    <2>2. CASE worker.command = "wakeup"
        BY <2>1, <2>2
    <2>3. CASE worker.command # "wakeup"
        <3> DEFINE k == IF task[t].class = "none" THEN "there" ELSE task[t].class
                   r == IF start THEN 1 ELSE task[t].refCount
        <3>1. /\ k \in {"none", "there", "deleted"} /\ r \in 0..1
              /\ k = "deleted" => task[t].class = "deleted"
            BY <2>1 DEF Task
        <3>2. x = [task[t] EXCEPT !.class = k, !.refCount = r]
            BY <2>1, <2>3 DEF Task
        <3> HIDE DEF x, k, r
        <3> QED
            BY <2>1, <3>1, <3>2 DEF Task
    <2> QED
        BY <2>2, <2>3
<1>3. /\ y \in Channel
      /\ y.state = channel[c].state /\ y.inits = channel[c].inits
    BY <1>1 DEF IInv, TypeOK, Channel
<1>4. task' = [task EXCEPT ![t] = x]
    <2>1. CASE worker.command = "wakeup"
        BY <1>1, <2>1 DEF RedirectToTask, IInv, TypeOK
    <2>2. CASE worker.command # "wakeup"
        BY <2>2 DEF RedirectToTask
    <2> QED
        BY <2>1, <2>2
<1>5. /\ channel' = [channel EXCEPT ![c] = y]
      /\ worker' = [pc |-> "idle", channel |-> "none", command |-> "none", task |-> 0]
      /\ UNCHANGED <<mapTask, session, main>>
    BY <1>1 DEF RedirectToTask, Idle, IInv, TypeOK, Channel
<1> HIDE DEF x, y
<1>6. /\ task' \in [Tasks -> Task]
      /\ task'[t] = x
      /\ \A u \in Tasks : u # t => task'[u] = task[u]
    BY <1>1, <1>2, <1>4, OneTask
<1>7. /\ channel' \in [Channels -> Channel]
      /\ channel'[c] = y
      /\ \A d \in Channels : d # c => channel'[d] = channel[d]
    BY <1>1, <1>3, <1>5, OneChannel
<1>8. worker' \in Worker /\ worker'.pc = "idle"
    BY <1>5 DEF Worker
<1>9. \A d \in Channels : mapTask[d] \in {0} \cup Tasks
    BY DEF IInv, TypeOK
<1> HIDE DEF t, c
<1>10. TypeOK'
    BY <1>1, <1>2, <1>3, <1>4, <1>5, <1>6, <1>7, <1>8, <1>9 DEF IInv, TypeOK, c, t
<1>16. /\ \A d \in Channels : /\ channel'[d].inits = channel[d].inits
                              /\ channel'[d].state = channel[d].state
                              /\ channel'[d].rule => channel[d].rule \/ (d = c /\ c \in Forwards)
       /\ \A d \in Channels : Again(d)' <=> Again(d)
       /\ \A d : Erasing(d)' <=> Erasing(d)
       /\ \A u : Stopping(u)' <=> Stopping(u)
    <2>1. y.rule => channel[c].rule \/ c \in Forwards
        <3>1. rule => c \in Forwards
            BY DEF RedirectToTask, c
        <3>2. channel[c] \in Channel
            BY <1>1 DEF IInv, TypeOK
        <3> QED
            BY <3>1, <3>2 DEF y, Channel
    <2>2. \A d \in Channels : /\ channel'[d].inits = channel[d].inits
                              /\ channel'[d].state = channel[d].state
                              /\ channel'[d].rule => channel[d].rule \/ (d = c /\ c \in Forwards)
        BY <1>3, <1>7, <2>1
    <2>3. \A d \in Channels : Again(d)' <=> Again(d)
        BY <2>2 DEF Again
    <2>4. \A d : Erasing(d)' <=> Erasing(d)
        BY <1>5 DEF Erasing
    <2>5. \A u : Stopping(u)' <=> Stopping(u)
        BY <1>5 DEF Stopping
    <2> QED
        BY <2>2, <2>3, <2>4, <2>5
<1>17. /\ x.refCount = 1 => x.info = "there"
       /\ x.class # "there" => x.refCount = 0
    <2>1. task[t] \in Task /\ TaskInv(t)
        BY <1>1 DEF IInv, TypeOK
    <2>2. CASE worker.command = "wakeup"
        BY <1>1, <2>1, <2>2 DEF x, TaskInv
    <2>3. CASE worker.command # "wakeup"
        <3> DEFINE k == IF task[t].class = "none" THEN "there" ELSE task[t].class
        <3>1. k = "there"
            BY <1>1, <2>1 DEF TaskInv, Task
        <3>2. x.class = k
            BY <2>1, <2>3 DEF x, Task
        <3> QED
            BY <1>1, <1>2, <3>1, <3>2
    <2> QED
        BY <2>2, <2>3
<1>11. ASSUME NEW d \in Channels
       PROVE  MapInv(d)'
    <2>0. mapTask[d] # 0 => mapTask[d] \in Tasks
        BY <1>9
    <2>1. mapTask[d] # 0 => /\ mapTask[d] \in Tasks
                            /\ task'[mapTask[d]].info = task[mapTask[d]].info
                            /\ task'[mapTask[d]].channel = task[mapTask[d]].channel
                            /\ task'[mapTask[d]].taskStop = task[mapTask[d]].taskStop
                            /\ task'[mapTask[d]].timer = task[mapTask[d]].timer
        <3>1. CASE mapTask[d] = t
            BY <1>2, <1>6, <2>0, <3>1
        <3>2. CASE mapTask[d] # t
            BY <1>6, <2>0, <3>2
        <3> QED
            BY <3>1, <3>2
    <2>2. MapInv(d) /\ mapTask' = mapTask
        BY <1>5 DEF IInv
    <2>3. channel'[d].inits = 0 => ~channel'[d].rule
        BY <1>1, <1>16, <2>2 DEF MapInv
    <2>4. channel'[d].rule => d \in Forwards
        BY <1>16, <2>2 DEF MapInv
    <2> QED
        BY <1>16, <2>1, <2>2, <2>3, <2>4 DEF MapInv
<1>12. ASSUME NEW u \in Tasks
       PROVE  TaskInv(u)'
    <2>1. /\ task'[u].channel = task[u].channel
          /\ Lost(u)' <=> Lost(u)
        BY <1>2, <1>6, <1>16, BoundsAssumption DEF Lost
    <2>2. CASE u = t
        <3>1. TaskInv(t)
            BY <1>1 DEF IInv
        <3> QED
            BY <1>1, <1>2, <1>5, <1>6, <1>16, <1>17, <2>1, <2>2, <3>1 DEF TaskInv
    <2>3. CASE u # t
        <3>1. TaskInv(u) /\ task'[u] = task[u]
            BY <1>6, <2>3 DEF IInv
        <3>2. CASE task[u].channel \in Channels
            BY <1>5, <1>16, <2>1, <3>1, <3>2 DEF TaskInv
        <3>3. CASE task[u].channel \notin Channels
            <4>1. task[u].info \in {"unused", "there", "deleted"}
                BY DEF IInv, TypeOK, Task
            <4> QED
                BY <3>1, <3>3, <4>1 DEF TaskInv
        <3> QED
            BY <3>2, <3>3
    <2> QED
        BY <2>2, <2>3
<1>13. WorkerInv'
    BY <1>1, <1>2, <1>3, <1>4, <1>5, <1>6, <1>7, <1>8, <1>9 DEF IInv, WorkerInv, Adding, c, t, Again
<1>14. MainInv'
    BY <1>1, <1>2, <1>3, <1>4, <1>5, <1>6, <1>7, <1>8, <1>9 DEF IInv, MainInv, c, t, Again
<1> QED
    BY <1>10, <1>11, <1>12, <1>13, <1>14 DEF IInv

\* A channel dies: it keeps its task until it is detached.
LEMMA FreeChannelStep ==
    ASSUME IInv, NEW c \in Channels, FreeChannel(c)
    PROVE  IInv'
<1> DEFINE x == [channel[c] EXCEPT !.state = "dead", !.pushed = FALSE]
<1>1. /\ channel' = [channel EXCEPT ![c] = x]
      /\ channel[c].state = "alive"
      /\ UNCHANGED <<mapTask, task, session, worker, main>>
    BY DEF FreeChannel
<1>2. /\ x \in Channel
      /\ x.state = "dead" /\ x.inits = channel[c].inits /\ x.rule = channel[c].rule
    BY DEF IInv, TypeOK, Channel
<1> HIDE DEF x
<1>3. /\ channel' \in [Channels -> Channel]
      /\ channel'[c] = x
      /\ \A d \in Channels : d # c => channel'[d] = channel[d]
    BY <1>1, <1>2, OneChannel
<1>4. TypeOK'
    BY <1>1, <1>2, <1>3 DEF IInv, TypeOK
<1>5. \A d \in Channels : MapInv(d)'
    BY <1>1, <1>2, <1>3 DEF IInv, MapInv, Erasing, Again
<1>6. \A u \in Tasks : TaskInv(u)'
    BY <1>1, <1>2, <1>3 DEF IInv, TaskInv, Stopping, Lost, Again
<1>7. WorkerInv'
    BY <1>1, <1>2, <1>3 DEF IInv, WorkerInv, Adding, Again
<1>8. MainInv'
    BY <1>1, <1>2, <1>3 DEF IInv, MainInv, Again
<1> QED
    BY <1>4, <1>5, <1>6, <1>7, <1>8 DEF IInv

\* The main thread takes a forward off: its channel has had its initial command.
LEMMA RemoveFportkeyStep ==
    ASSUME IInv, NEW c \in Channels, RemoveFportkey(c)
    PROVE  IInv'
<1> DEFINE x == [channel[c] EXCEPT !.rule = FALSE]
<1>1. /\ channel' = [channel EXCEPT ![c] = x]
      /\ channel[c].rule /\ main.pc = "idle"
      /\ main' = [pc |-> "clear", channel |-> c, task |-> 0]
      /\ UNCHANGED <<mapTask, task, session, worker>>
    BY DEF RemoveFportkey, MainIdle
<1>2. /\ x \in Channel
      /\ ~x.rule /\ x.inits = channel[c].inits /\ x.state = channel[c].state
    BY DEF IInv, TypeOK, Channel
<1> HIDE DEF x
<1>3. /\ channel' \in [Channels -> Channel]
      /\ channel'[c] = x
      /\ \A d \in Channels : d # c => channel'[d] = channel[d]
    BY <1>1, <1>2, OneChannel
<1>4. main'.pc = "clear" /\ main'.channel = c /\ main'.task = 0 /\ main' \in Main
    BY <1>1 DEF Main
<1>5. channel[c].inits # 0 /\ c \in Forwards /\ (Adding(c) => Again(c))
    BY <1>1 DEF IInv, MapInv, WorkerInv
<1>6. /\ \A d \in Channels : Again(d)' <=> Again(d)
      /\ \A d : ~Erasing(d) /\ ~Erasing(d)'
      /\ \A u : ~Stopping(u) /\ ~Stopping(u)'
    BY <1>1, <1>2, <1>3, <1>4 DEF Again, Erasing, Stopping
<1>7. \A d \in Channels : /\ channel'[d].inits = channel[d].inits
                          /\ channel'[d].state = channel[d].state
                          /\ channel'[d].rule => channel[d].rule
    BY <1>2, <1>3
<1>8. TypeOK'
    BY <1>1, <1>3, <1>4 DEF IInv, TypeOK
<1>9. \A d \in Channels : MapInv(d)'
    BY <1>1, <1>6, <1>7 DEF IInv, MapInv
<1>10. \A u \in Tasks : TaskInv(u)'
    BY <1>1, <1>6, BoundsAssumption DEF IInv, TaskInv, Lost
<1>11. WorkerInv'
    BY <1>1, <1>4, <1>5, <1>6, <1>7 DEF IInv, WorkerInv, Adding
<1>12. MainInv'
    BY <1>1, <1>4, <1>5, <1>7 DEF IInv, MainInv
<1> QED
    BY <1>8, <1>9, <1>10, <1>11, <1>12 DEF IInv

\* The main thread finds the task of the forward, and starts its timer.
LEMMA MainClearStep ==
    ASSUME IInv, MainClear
    PROVE  IInv'
<1> DEFINE c == main.channel
           t == mapTask[c]
           stopped == t = 0 \/ task[t].taskStop \/ task[t].taskFree
<1>1. /\ main.pc = "clear"
      /\ task' = IF stopped THEN task ELSE [task EXCEPT ![t].timer = TRUE]
      /\ main' = [main EXCEPT !.pc = IF stopped THEN "erase" ELSE "stop", !.task = t]
      /\ UNCHANGED <<mapTask, channel, session, worker>>
    BY DEF MainClear
<1>2. /\ c \in Channels /\ c \in Forwards /\ channel[c].inits # 0 /\ t \in {0} \cup Tasks
      /\ \A d \in Channels : mapTask[d] \in {0} \cup Tasks
    BY <1>1, BoundsAssumption DEF IInv, MainInv, TypeOK
<1>3. /\ \A d : ~Erasing(d)
      /\ \A u : ~Stopping(u)
    BY <1>1 DEF Erasing, Stopping
<1>4. t # 0 => /\ task[t].channel = c /\ task[t].info = "there"
               /\ ~task[t].taskStop /\ ~task[t].taskFree
               /\ channel[c].state # "gone"
    BY <1>2, <1>3 DEF IInv, MapInv, TaskInv
<1>5. stopped <=> t = 0
    BY <1>4
<1> HIDE DEF stopped
<1>6. /\ main' \in Main
      /\ main'.pc = IF t = 0 THEN "erase" ELSE "stop"
      /\ main'.channel = c
      /\ main'.task = t
    BY <1>1, <1>2, <1>5 DEF IInv, TypeOK, Main
<1>7. /\ task' \in [Tasks -> Task]
      /\ \A u \in Tasks : u # t => task'[u] = task[u]
      /\ t # 0 => task'[t] = [task[t] EXCEPT !.timer = TRUE]
    <2>1. \A u \in Tasks : [task[u] EXCEPT !.timer = TRUE] \in Task
        BY DEF IInv, TypeOK, Task
    <2> QED
        BY <1>1, <1>2, <1>5, <2>1 DEF IInv, TypeOK
<1>8. t # 0 => /\ task'[t].timer
               /\ task'[t].info = "there"
               /\ task'[t].class = task[t].class
               /\ task'[t].channel = c
               /\ task'[t].taskStop = task[t].taskStop
               /\ task'[t].taskFree = task[t].taskFree
               /\ task'[t].refCount = task[t].refCount
    <2>1. t # 0 => task[t] \in Task
        BY <1>2 DEF IInv, TypeOK
    <2> QED
        BY <1>4, <1>7, <2>1 DEF Task
<1>9. /\ t # 0 => Erasing(c)' /\ Stopping(t)'
      /\ \A d : Again(d)' <=> Again(d)
    BY <1>1, <1>6 DEF Erasing, Stopping, Again
<1> HIDE DEF c, t
<1>10. TypeOK'
    BY <1>1, <1>6, <1>7 DEF IInv, TypeOK
<1>11. ASSUME NEW d \in Channels
       PROVE  MapInv(d)'
    <2>1. CASE d = c
        BY <1>1, <1>2, <1>4, <1>6, <1>8, <2>1 DEF IInv, MapInv, Erasing, t
    <2>2. CASE d # c
        <3>1. mapTask[d] # 0 => mapTask[d] \in Tasks /\ task'[mapTask[d]] = task[mapTask[d]]
            BY <1>2, <1>3, <1>4, <1>7, <2>2 DEF IInv, MapInv
        <3> QED
            BY <1>1, <1>3, <3>1 DEF IInv, MapInv
    <2> QED
        BY <2>1, <2>2
<1>12. ASSUME NEW u \in Tasks
       PROVE  TaskInv(u)'
    <2>1. CASE u = t
        <3>1. t # 0
            BY <2>1, BoundsAssumption
        <3> QED
            BY <1>2, <1>4, <1>6, <1>8, <2>1, <3>1 DEF IInv, TaskInv, Stopping
    <2>2. CASE u # t
        <3>1. task'[u] = task[u] /\ (Lost(u)' <=> Lost(u))
            BY <1>7, <1>9, <2>2 DEF Lost
        <3> QED
            BY <1>1, <1>3, <1>9, <3>1 DEF IInv, TaskInv
    <2> QED
        BY <2>1, <2>2
<1>13. WorkerInv'
    <2>1. \A u \in Tasks : task'[u].info = task[u].info
        BY <1>2, <1>4, <1>7, <1>8
    <2> QED
        BY <1>1, <1>6, <1>9, <2>1 DEF IInv, WorkerInv, Adding, c
<1>14. MainInv'
    BY <1>1, <1>2, <1>4, <1>6, <1>8 DEF MainInv, t
<1> QED
    BY <1>10, <1>11, <1>12, <1>13, <1>14 DEF IInv

\* The main thread notes that the task stops, unless the timer was faster.
LEMMA MainStopStep ==
    ASSUME IInv, MainStop
    PROVE  IInv'
<1> DEFINE t == main.task
           c == main.channel
           x == [task[t] EXCEPT !.taskStop = TRUE]
<1>1. /\ main.pc = "stop"
      /\ task' = IF task[t].info = "there" THEN [task EXCEPT ![t] = x] ELSE task
      /\ main' = [main EXCEPT !.pc = "erase"]
      /\ UNCHANGED <<mapTask, channel, session, worker>>
    BY DEF MainStop
<1>2. /\ t \in Tasks /\ t # 0
      /\ task[t].channel = c /\ c \in Channels
      /\ task[t].info # "unused"
      /\ channel[c].state # "gone"
      /\ \A d \in Channels : mapTask[d] \in {0} \cup Tasks
    BY <1>1, BoundsAssumption DEF IInv, MainInv, TypeOK, Main
<1>3. task[t] \in Task /\ x \in Task
    <2>1. task[t] \in Task
        BY <1>2 DEF IInv, TypeOK
    <2> HIDE DEF t
    <2> QED
        BY <2>1 DEF Task
<1>4. /\ main' \in Main
      /\ main'.pc = "erase" /\ main'.channel = c /\ main'.task = t
    BY <1>1 DEF IInv, TypeOK, Main
<1>5. /\ task' \in [Tasks -> Task]
      /\ \A u \in Tasks : u # t => task'[u] = task[u]
      /\ task'[t] = IF task[t].info = "there" THEN x ELSE task[t]
    <2>1. task \in [Tasks -> Task]
        BY DEF IInv, TypeOK
    <2> HIDE DEF x
    <2> QED
        BY <1>1, <1>2, <1>3, <2>1
<1>6. /\ task'[t].info = task[t].info
      /\ task'[t].info = "there" => task'[t].taskStop
      /\ task'[t].class = task[t].class
      /\ task'[t].channel = task[t].channel
      /\ task'[t].timer = task[t].timer
      /\ task'[t].taskFree = task[t].taskFree
      /\ task'[t].refCount = task[t].refCount
    BY <1>3, <1>5 DEF Task
<1>7. /\ \A d : Erasing(d)' <=> Erasing(d)
      /\ Erasing(c)
      /\ \A u : Stopping(u) <=> u = t
      /\ \A d : Again(d)' <=> Again(d)
    BY <1>1, <1>2, <1>4 DEF Erasing, Stopping, Again
<1> HIDE DEF c, t, x
<1>8. TypeOK'
    BY <1>1, <1>4, <1>5 DEF IInv, TypeOK
<1>9. ASSUME NEW d \in Channels
      PROVE  MapInv(d)'
    <2>1. CASE mapTask[d] = t
        <3>1. d = c
            BY <1>2, <2>1 DEF IInv, MapInv
        <3> QED
            BY <1>1, <1>2, <1>6, <1>7, <2>1, <3>1 DEF IInv, MapInv
    <2>2. CASE mapTask[d] # t
        BY <1>1, <1>2, <1>5, <1>7, <2>2 DEF IInv, MapInv
    <2> QED
        BY <2>1, <2>2
<1>10. ASSUME NEW u \in Tasks
       PROVE  TaskInv(u)'
    <2>1. CASE u = t
        BY <1>1, <1>2, <1>6, <1>7, <2>1 DEF IInv, TaskInv
    <2>2. CASE u # t
        <3>1. task'[u] = task[u] /\ (Lost(u)' <=> Lost(u)) /\ ~Stopping(u)
            BY <1>5, <1>7, <2>2 DEF Lost
        <3> QED
            BY <1>1, <1>7, <3>1 DEF IInv, TaskInv
    <2> QED
        BY <2>1, <2>2
<1>11. WorkerInv'
    <2>1. \A u \in Tasks : task'[u].info = task[u].info
        BY <1>5, <1>6
    <2> QED
        BY <1>1, <1>4, <1>7, <2>1 DEF IInv, WorkerInv, Adding, c
<1>12. MainInv'
    BY <1>1, <1>2, <1>4, <1>6, <1>7 DEF IInv, MainInv, c, t
<1> QED
    BY <1>8, <1>9, <1>10, <1>11, <1>12 DEF IInv

\* The main thread erases what the map has for the channel: the task it found,
\* which is stopped or deleted, or one that replaced it.
LEMMA MainEraseStep ==
    ASSUME IInv, MainErase
    PROVE  IInv'
<1> DEFINE c == main.channel
           x == [channel[c] EXCEPT !.state = IF @ = "alive" THEN "dead" ELSE @,
                                   !.pushed = FALSE]
<1>1. /\ main.pc = "erase"
      /\ mapTask' = IF main.task = 0 THEN mapTask ELSE [mapTask EXCEPT ![c] = 0]
      /\ channel' = [channel EXCEPT ![c] = x]
      /\ main' = [pc |-> "idle", channel |-> "none", task |-> 0]
      /\ UNCHANGED <<task, session, worker>>
    BY DEF MainErase, MainIdle
<1>2. /\ c \in Channels /\ c \in Forwards /\ channel[c].inits # 0
      /\ channel[c] \in Channel
    BY <1>1, BoundsAssumption DEF IInv, MainInv, TypeOK
<1>3. /\ x \in Channel
      /\ x.inits = channel[c].inits /\ x.rule = channel[c].rule
      /\ x.state = "gone" <=> channel[c].state = "gone"
    <2> DEFINE k == IF channel[c].state = "alive" THEN "dead" ELSE channel[c].state
    <2>1. k \in {"alive", "dead", "gone"} /\ (k = "gone" <=> channel[c].state = "gone")
        BY <1>2 DEF Channel
    <2>2. x = [channel[c] EXCEPT !.state = k, !.pushed = FALSE]
        BY <1>2 DEF Channel
    <2> HIDE DEF x, k
    <2> QED
        BY <1>2, <2>1, <2>2 DEF Channel
<1> HIDE DEF x
<1>4. /\ channel' \in [Channels -> Channel]
      /\ \A d \in Channels : /\ channel'[d].inits = channel[d].inits
                             /\ channel'[d].rule = channel[d].rule
                             /\ channel'[d].state = "gone" <=> channel[d].state = "gone"
    BY <1>1, <1>2, <1>3, OneChannel
<1>5. /\ mapTask' \in [Channels -> {0} \cup Tasks]
      /\ \A d \in Channels : mapTask'[d] = 0 \/ mapTask'[d] = mapTask[d]
      /\ \A d \in Channels : d # c => mapTask'[d] = mapTask[d]
      /\ main.task # 0 => mapTask'[c] = 0
      /\ main.task = 0 => mapTask' = mapTask
      /\ main'.pc = "idle"
      /\ main' \in Main
      /\ main.task \in {0} \cup Tasks
      /\ \A d \in Channels : mapTask[d] \in {0} \cup Tasks
    BY <1>1, <1>2 DEF IInv, TypeOK, Main
<1>6. main.task # 0 => /\ mapTask[c] = main.task \/ Again(c)
                       /\ task[main.task].info = "there" => task[main.task].taskStop
    BY <1>1 DEF IInv, MainInv
<1>7. /\ \A d \in Channels : Again(d)' <=> Again(d)
      /\ \A d : ~Erasing(d)'
      /\ \A d \in Channels : Erasing(d) => d = c /\ main.task # 0
      /\ \A u : ~Stopping(u)' /\ ~Stopping(u)
    <2>1. ASSUME NEW d \in Channels
          PROVE  Again(d)' <=> Again(d)
        <3>1. channel'[d].inits = channel[d].inits
            BY <1>4
        <3> QED
            BY <3>1 DEF Again
    <2>2. (\A d : ~Erasing(d)') /\ (\A u : ~Stopping(u)')
        BY <1>5 DEF Erasing, Stopping
    <2>3. \A d \in Channels : Erasing(d) => d = c /\ main.task # 0
        BY DEF Erasing
    <2>4. \A u : ~Stopping(u)
        BY <1>1 DEF Stopping
    <2> QED
        BY <2>1, <2>2, <2>3, <2>4
<1> HIDE DEF c
<1>8. TypeOK'
    BY <1>1, <1>4, <1>5 DEF IInv, TypeOK
<1>9. ASSUME NEW d \in Channels
      PROVE  MapInv(d)'
    <2>1. /\ MapInv(d)
          /\ channel'[d].inits = channel[d].inits
          /\ channel'[d].rule = channel[d].rule
          /\ channel'[d].state = "gone" <=> channel[d].state = "gone"
          /\ task' = task
        BY <1>1, <1>4 DEF IInv
    <2>2. CASE mapTask'[d] = 0
        BY <2>1, <2>2 DEF MapInv
    <2>3. CASE mapTask'[d] # 0
        <3>1. mapTask'[d] = mapTask[d]
            BY <1>5, <2>3
        <3>2. ~Erasing(d)
            BY <1>5, <1>7, <2>3
        <3> QED
            BY <2>1, <2>3, <3>1, <3>2 DEF MapInv
    <2> QED
        BY <2>2, <2>3
<1>10. ASSUME NEW u \in Tasks
       PROVE  TaskInv(u)'
    <2>1. CASE task[u].channel \in Channels
        <3>1. Lost(u)' <=> Lost(u)
            BY <1>1, <1>7, <2>1 DEF Lost
        <3>2. mapTask[task[u].channel] = u /\ task[u].info = "there" =>
                  \/ mapTask'[task[u].channel] = u
                  \/ task[u].taskStop
                  \/ Lost(u)
            BY <1>2, <1>5, <1>6, <2>1 DEF Lost
        <3> QED
            BY <1>1, <1>7, <2>1, <3>1, <3>2 DEF IInv, TaskInv
    <2>2. CASE task[u].channel \notin Channels
        <3>1. task[u].info \in {"unused", "there", "deleted"}
            BY DEF IInv, TypeOK, Task
        <3> QED
            BY <1>1, <2>2, <3>1 DEF IInv, TaskInv
    <2> QED
        BY <2>1, <2>2
<1>11. WorkerInv'
    <2>1. \A d \in Channels : mapTask[d] = 0 => mapTask'[d] = 0
        BY <1>5
    <2>2. \A d \in Channels : Adding(d)' => Adding(d)
        BY <1>1 DEF Adding
    <2>3. \A d \in Channels : /\ channel'[d].inits = channel[d].inits
                              /\ channel'[d].rule = channel[d].rule
                              /\ channel'[d].state = "gone" <=> channel[d].state = "gone"
        BY <1>4
    <2>4. worker' = worker /\ task' = task /\ main'.pc = "idle"
        BY <1>1, <1>5
    <2>5. \A d \in Channels : Again(d)' <=> Again(d)
        BY <1>7
    <2>6. WorkerInv
        BY DEF IInv
    <2> QED
        BY <2>1, <2>2, <2>3, <2>4, <2>5, <2>6 DEF WorkerInv
<1>12. MainInv'
    BY <1>5 DEF MainInv
<1> QED
    BY <1>8, <1>9, <1>10, <1>11, <1>12 DEF IInv

\* The session dies: the tasks are not touched.
LEMMA FreeSessionStep ==
    ASSUME IInv, FreeSession
    PROVE  IInv'
<1>1. /\ session' \in [isDead : BOOLEAN, loop : {"work", "clear", "close", "closed"}]
      /\ UNCHANGED <<mapTask, task, channel, worker, main>>
    BY DEF FreeSession, IInv, TypeOK
<1>2. TypeOK'
    BY <1>1 DEF IInv, TypeOK
<1>3. \A d \in Channels : MapInv(d)'
    BY <1>1 DEF IInv, MapInv, Erasing, Again
<1>4. \A u \in Tasks : TaskInv(u)'
    BY <1>1 DEF IInv, TaskInv, Stopping, Lost, Again
<1>5. WorkerInv'
    BY <1>1 DEF IInv, WorkerInv, Adding, Again
<1>6. MainInv'
    BY <1>1 DEF IInv, MainInv, Again
<1> QED
    BY <1>2, <1>3, <1>4, <1>5, <1>6 DEF IInv

\* The loop is stopped: the tasks are not touched.
LEMMA ClearTaskForSessionFinishStep ==
    ASSUME IInv, ClearTaskForSessionFinish
    PROVE  IInv'
<1>1. /\ session' \in [isDead : BOOLEAN, loop : {"work", "clear", "close", "closed"}]
      /\ UNCHANGED <<mapTask, task, channel, worker, main>>
    BY DEF ClearTaskForSessionFinish, IInv, TypeOK
<1>2. TypeOK'
    BY <1>1 DEF IInv, TypeOK
<1>3. \A d \in Channels : MapInv(d)'
    BY <1>1 DEF IInv, MapInv, Erasing, Again
<1>4. \A u \in Tasks : TaskInv(u)'
    BY <1>1 DEF IInv, TaskInv, Stopping, Lost, Again
<1>5. WorkerInv'
    BY <1>1 DEF IInv, WorkerInv, Adding, Again
<1>6. MainInv'
    BY <1>1 DEF IInv, MainInv, Again
<1> QED
    BY <1>2, <1>3, <1>4, <1>5, <1>6 DEF IInv

\* The timers are closed with the loop.
LEMMA TryCloseChildLoopStep ==
    ASSUME IInv, TryCloseChildLoop
    PROVE  IInv'
<1>1. /\ worker.pc = "idle"
      /\ task' = [t \in Tasks |-> [task[t] EXCEPT !.timer = FALSE]]
      /\ session' \in [isDead : BOOLEAN, loop : {"work", "clear", "close", "closed"}]
      /\ UNCHANGED <<mapTask, channel, worker, main>>
    BY DEF TryCloseChildLoop, IInv, TypeOK
<1>2. \A t \in Tasks : /\ task[t] \in Task
                       /\ task'[t] = [task[t] EXCEPT !.timer = FALSE]
    BY <1>1 DEF IInv, TypeOK
<1>3. \A t \in Tasks : /\ task'[t] \in Task
                       /\ ~task'[t].timer
                       /\ task'[t].info = task[t].info
                       /\ task'[t].class = task[t].class
                       /\ task'[t].channel = task[t].channel
                       /\ task'[t].taskStop = task[t].taskStop
                       /\ task'[t].taskFree = task[t].taskFree
                       /\ task'[t].refCount = task[t].refCount
    BY <1>2 DEF Task
<1>4. task' \in [Tasks -> Task]
    BY <1>1, <1>3
<1>5. \A c \in Channels : mapTask[c] \in {0} \cup Tasks
    BY DEF IInv, TypeOK
<1>6. TypeOK'
    BY <1>1, <1>2, <1>3, <1>4, <1>5 DEF IInv, TypeOK
<1>7. \A d \in Channels : MapInv(d)'
    BY <1>1, <1>2, <1>3, <1>4, <1>5 DEF IInv, MapInv, Erasing, Again
<1>8. \A u \in Tasks : TaskInv(u)'
    BY <1>1, <1>2, <1>3, <1>4, <1>5 DEF IInv, TaskInv, Stopping, Lost, Again
<1>9. WorkerInv'
    BY <1>1, <1>2, <1>3, <1>4, <1>5 DEF IInv, WorkerInv, Adding, Again
<1>10. MainInv'
    <2>1. main.task \in {0} \cup Tasks
        BY DEF IInv, TypeOK, Main
    <2>2. \A d : Again(d)' <=> Again(d)
        BY <1>1 DEF Again
    <2> QED
        BY <1>1, <1>3, <2>1, <2>2 DEF IInv, MainInv
<1> QED
    BY <1>6, <1>7, <1>8, <1>9, <1>10 DEF IInv

\* The worker clears the task of a channel that is still alive.
LEMMA FetchChannelCloseStep ==
    ASSUME IInv, NEW c \in Channels, FetchChannelClose(c)
    PROVE  IInv'
<1>1. /\ ClearOwnTasks({c}) /\ {c} \in SUBSET Channels
      /\ worker.pc = "idle" /\ UNCHANGED <<worker, main>>
      /\ channel' \in [Channels -> Channel]
      /\ session' \in [isDead : BOOLEAN, loop : {"work", "clear", "close", "closed"}]
      /\ \A d \in Channels : /\ channel'[d].inits = channel[d].inits
                             /\ channel'[d].rule = channel[d].rule
                             /\ channel'[d].state = channel[d].state
    BY DEF FetchChannelClose, Turns, IInv, TypeOK, Channel
<1>2. /\ mapTask' \in [Channels -> {0} \cup Tasks]
      /\ task' \in [Tasks -> Task]
      /\ \A d \in Channels : MapInv(d)'
      /\ \A t \in Tasks : TaskInv(t)'
      /\ WorkerInv'
      /\ MainInv'
    BY <1>1, ClearOwnKeeps
<1>3. TypeOK'
    BY <1>1, <1>2 DEF IInv, TypeOK
<1> QED
    BY <1>2, <1>3 DEF IInv

\* The worker detaches a channel: its task has been stopped.
LEMMA DeatchChannelStep ==
    ASSUME IInv, NEW c \in Channels, DeatchChannel(c)
    PROVE  IInv'
<1>1. /\ ClearOwnTasks({c}) /\ {c} \in SUBSET Channels
      /\ worker.pc = "idle" /\ UNCHANGED <<worker, main>>
      /\ channel' \in [Channels -> Channel]
      /\ session' \in [isDead : BOOLEAN, loop : {"work", "clear", "close", "closed"}]
      /\ \A d \in Channels : /\ channel'[d].inits = channel[d].inits
                             /\ channel'[d].rule = channel[d].rule
                             /\ channel'[d].state = IF d = c THEN "gone" ELSE channel[d].state
    BY DEF DeatchChannel, Turns, IInv, TypeOK, Channel
<1>2. /\ mapTask' \in [Channels -> {0} \cup Tasks]
      /\ task' \in [Tasks -> Task]
      /\ \A d \in Channels : MapInv(d)'
      /\ \A t \in Tasks : TaskInv(t)'
      /\ WorkerInv'
      /\ MainInv'
    BY <1>1, ClearOwnKeeps
<1>3. TypeOK'
    BY <1>1, <1>2 DEF IInv, TypeOK
<1> QED
    BY <1>2, <1>3 DEF IInv

\* The worker clears the tasks of all channels.
LEMMA ReChildLoopForSessionClearStep ==
    ASSUME IInv, ReChildLoopForSessionClear
    PROVE  IInv'
<1>1. /\ ClearOwnTasks(Channels) /\ Channels \in SUBSET Channels
      /\ worker.pc = "idle" /\ UNCHANGED <<worker, main>>
      /\ channel' \in [Channels -> Channel]
      /\ session' \in [isDead : BOOLEAN, loop : {"work", "clear", "close", "closed"}]
      /\ \A d \in Channels : /\ channel'[d].inits = channel[d].inits
                             /\ channel'[d].rule = channel[d].rule
                             /\ channel'[d].state = channel[d].state
    BY DEF ReChildLoopForSessionClear, Turns, IInv, TypeOK, Channel
<1>2. /\ mapTask' \in [Channels -> {0} \cup Tasks]
      /\ task' \in [Tasks -> Task]
      /\ \A d \in Channels : MapInv(d)'
      /\ \A t \in Tasks : TaskInv(t)'
      /\ WorkerInv'
      /\ MainInv'
    BY <1>1, ClearOwnKeeps
<1>3. TypeOK'
    BY <1>1, <1>2 DEF IInv, TypeOK
<1> QED
    BY <1>2, <1>3 DEF IInv

-----------------------------------------------------------------------------
(* The theorems *)

\* Every step keeps the invariant.
LEMMA StepInv == IInv /\ [Next]_vars => IInv'
<1> SUFFICES ASSUME IInv, [Next]_vars PROVE IInv'
    OBVIOUS
<1>1. CASE WorkerStep
    BY <1>1, AdminTaskAddStep, AdminTaskQueryStep, RedirectToTaskStep DEF WorkerStep
<1>2. CASE MainStep
    BY <1>2, MainClearStep, MainStopStep, MainEraseStep DEF MainStep
<1>3. CASE Callback
    <2>1. ASSUME NEW t \in Tasks, TaskClassDeleteRetry(t) \/ OperationDone(t) PROVE IInv'
        BY <2>1, TaskClassDeleteRetryStep, OperationDoneStep
    <2>2. ASSUME NEW c \in Channels, DeatchChannel(c) PROVE IInv'
        BY <2>2, DeatchChannelStep
    <2> QED
        BY <1>3, <2>1, <2>2, ReChildLoopForSessionClearStep,
           ClearTaskForSessionFinishStep, TryCloseChildLoopStep DEF Callback
<1>4. ASSUME NEW c \in Channels, NEW command \in {"init", "wakeup", "data"},
             FetchCommand(c, command)
      PROVE  IInv'
    BY <1>4, FetchCommandStep
<1>5. ASSUME NEW c \in Channels, FetchChannelClose(c) \/ FreeChannel(c) \/ RemoveFportkey(c)
      PROVE  IInv'
    BY <1>5, FetchChannelCloseStep, FreeChannelStep, RemoveFportkeyStep
<1>6. CASE FreeSession
    BY <1>6, FreeSessionStep
<1>7. CASE UNCHANGED vars
    BY <1>7 DEF vars, IInv, TypeOK, MapInv, TaskInv, WorkerInv, MainInv, Adding, Erasing,
                Stopping, Lost, Again
<1> QED
    BY <1>1, <1>2, <1>3, <1>4, <1>5, <1>6, <1>7 DEF Next

\* The invariant holds in every state the threads can reach.
THEOREM TaskInvariantHolds == Spec => []IInv
BY InitInv, StepInv, PTL DEF Spec

\* Neither the map, nor the retry timer, nor the command the worker dispatches
\* leads to a task that was deleted.
THEOREM TasksAreThereHolds == Spec => []TasksAreThere
<1>1. IInv => TasksAreThere
    <2> SUFFICES ASSUME IInv PROVE TasksAreThere
        OBVIOUS
    <2>1. worker.pc = "redirect" =>
              task[worker.task].info = "there" /\ task[worker.task].class # "deleted"
        BY DEF IInv, WorkerInv, TaskInv, Stopping, Lost, Again
    <2>2. \A c \in Channels : mapTask[c] # 0 =>
              task[mapTask[c]].info = "there" \/ Erasing(c)
        BY DEF IInv, MapInv
    <2>3. \A t \in Tasks : task[t].timer \/ task[t].refCount = 1 =>
              task[t].info = "there" \/ Again(task[t].channel)
        BY DEF IInv, TaskInv
    <2> QED
        BY <2>1, <2>2, <2>3 DEF TasksAreThere
<1> QED
    BY <1>1, TaskInvariantHolds, PTL

\* A class is deleted when no operation is left that would call it back.
THEOREM DeletedIsIdleHolds == Spec => []DeletedIsIdle
<1>1. IInv => DeletedIsIdle
    BY DEF IInv, TaskInv, DeletedIsIdle, Stopping, Lost, Again
<1> QED
    BY <1>1, TaskInvariantHolds, PTL

\* A channel that was detached leaves no task behind that was not told to stop.
THEOREM GoneHasNoTaskHolds == Spec => []GoneHasNoTask
<1>1. IInv => GoneHasNoTask
    <2> SUFFICES ASSUME IInv, NEW c \in Channels, channel[c].state = "gone",
                        NEW t \in Tasks, task[t].channel = c, task[t].info = "there",
                        ~task[t].taskStop
                 PROVE  c \in Forwards /\ Again(c)
        BY DEF GoneHasNoTask, IInv, MapInv
    <2>1. Stopping(t) \/ mapTask[c] = t \/ Lost(t)
        BY DEF IInv, TaskInv
    <2>2. mapTask[c] # t
        BY BoundsAssumption DEF IInv, MapInv
    <2>3. ~Stopping(t)
        BY BoundsAssumption DEF IInv, MainInv, Stopping
    <2> QED
        BY <2>1, <2>2, <2>3 DEF Lost
<1> QED
    BY <1>1, TaskInvariantHolds, PTL

=============================================================================
