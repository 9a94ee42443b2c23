------------------------------- MODULE HdcTask -------------------------------
(***************************************************************************)
(* The tasks of a session of the server: DispatchTaskData, AdminTask,       *)
(* ClearOwnTasks and the two steps of the removal of a task in              *)
(* common/session.cpp, TaskCommandDispatch and DoTaskRemove in              *)
(* common/session.h, and what host/server.cpp and host/server_for_client.cpp *)
(* do with them.                                                           *)
(*                                                                         *)
(* The worker of the session runs the callbacks of the child loop.  The     *)
(* main thread frees channels and the session; for "fport rm" it also       *)
(* clears the tasks of a channel, under mapTaskMutex, which neither AdminTask *)
(* nor the retry timer takes.  What a task does is one pending operation of  *)
(* its class; which class it is does not matter here.  A step that would     *)
(* follow a pointer to a task that was deleted is not modelled beyond it:    *)
(* its guard asks for the task to be there.                                 *)
(***************************************************************************)
EXTENDS Integers, FiniteSets

CONSTANTS
    Channels,   \* the channels attached to the session
    Forwards,   \* those whose task sets up a forward
    MaxTasks,   \* bound: tasks ever made
    MaxInits    \* bound: initial commands of a channel; hdc gives one

ASSUME BoundsAssumption ==
    MaxTasks \in Nat /\ MaxInits \in Nat /\ Forwards \subseteq Channels

Tasks == 1..MaxTasks

VARIABLES
    mapTask,    \* per channel: the task, or 0
    task,       \* per task: TaskInformation and the class
    channel,    \* per channel: HdcChannel
    session,    \* the session and where its child loop is
    worker,     \* the callback the worker is in
    main        \* the channel whose task the main thread clears, the task, and the step

vars == <<mapTask, task, channel, session, worker, main>>

\* info is TaskInformation, class the object it owns; refCount a pending
\* operation; timer the timer that retries the removal.
Task == [channel : Channels \cup {"none"}, info : {"unused", "there", "deleted"},
         class : {"none", "there", "deleted"}, taskStop : BOOLEAN,
         taskFree : BOOLEAN, refCount : 0..1, timer : BOOLEAN]

Unused == [channel |-> "none", info |-> "unused", class |-> "none",
           taskStop |-> FALSE, taskFree |-> FALSE, refCount |-> 0, timer |-> FALSE]

\* isDead; gone when the worker has detached it; pushed: a message to the main
\* thread to free it; rule: a rule in mapForward.
Channel == [state : {"alive", "dead", "gone"}, inits : 0..MaxInits,
            pushed : BOOLEAN, rule : BOOLEAN]

Worker == [pc : {"idle", "admin", "redirect"}, channel : Channels \cup {"none"},
           command : {"none", "init", "wakeup", "data"}, task : {0} \cup Tasks]

Main == [pc : {"idle", "clear", "stop", "erase"}, channel : Channels \cup {"none"},
         task : {0} \cup Tasks]

TypeOK ==
    /\ mapTask \in [Channels -> {0} \cup Tasks]
    /\ task \in [Tasks -> Task]
    /\ channel \in [Channels -> Channel]
    /\ session \in [isDead : BOOLEAN, loop : {"work", "clear", "close", "closed"}]
    /\ worker \in Worker
    /\ main \in Main

Idle == [pc |-> "idle", channel |-> "none", command |-> "none", task |-> 0]
MainIdle == [pc |-> "idle", channel |-> "none", task |-> 0]

Init ==
    /\ mapTask = [c \in Channels |-> 0]
    /\ task = [t \in Tasks |-> Unused]
    /\ channel = [c \in Channels |-> [state |-> "alive", inits |-> 0,
                                      pushed |-> FALSE, rule |-> FALSE]]
    /\ session = [isDead |-> FALSE, loop |-> "work"]
    /\ worker = Idle
    /\ main = MainIdle

-----------------------------------------------------------------------------
(* Removal *)

\* BeginRemoveTask: the class is stopped, and the retry timer started, once.
BeginRemoveTask(f, t) ==
    IF f[t].taskStop \/ f[t].taskFree THEN f
    ELSE [f EXCEPT ![t] = [@ EXCEPT !.timer = TRUE, !.taskStop = TRUE]]

Tasked(cs) == {c \in cs : mapTask[c] # 0}

\* Fault: the task stays in the map.
ClearOwnTasksKeep(cs) ==
    /\ main.pc = "idle"
    /\ task' = [t \in Tasks |-> IF \E c \in Tasked(cs) : mapTask[c] = t
                                THEN BeginRemoveTask(task, t)[t] ELSE task[t]]
    /\ UNCHANGED mapTask

\* ClearOwnTasks on the worker, for one channel or for all, under mapTaskMutex.
ClearOwnTasks(cs) ==
    /\ main.pc = "idle"
    /\ task' = [t \in Tasks |-> IF \E c \in Tasked(cs) : mapTask[c] = t
                                THEN BeginRemoveTask(task, t)[t] ELSE task[t]]
    /\ mapTask' = [c \in Channels |-> IF c \in cs THEN 0 ELSE mapTask[c]]

\* Fault: a class is deleted although it waits for an operation.
RemoveInstanceTaskBusy(t) == TRUE

\* RemoveInstanceTask with OP_REMOVE: there is no class, or it is ready.
RemoveInstanceTask(t) == task[t].class = "none" \/ task[t].refCount = 0

\* TryRemoveTask.
TryRemoveTask(t) == task[t].taskFree \/ RemoveInstanceTask(t)

\* The worker is between two callbacks of the child loop.
Turns == worker.pc = "idle" /\ session.loop \in {"work", "clear"}

\* Fault: the timer is closed after the first try.
TaskClassDeleteRetryOnce(t) ==
    /\ Turns
    /\ task[t].timer
    /\ task[t].info = "there"
    /\ task' = [task EXCEPT ![t] = IF TryRemoveTask(t)
           THEN [task[t] EXCEPT !.class = IF @ = "there" THEN "deleted" ELSE @,
                                !.taskFree = TRUE, !.info = "deleted", !.timer = FALSE]
           ELSE [@ EXCEPT !.timer = FALSE]]
    /\ UNCHANGED <<mapTask, channel, session, worker, main>>

\* taskClassDeleteRetry: the first try comes in the next iteration of the child
\* loop, when the main thread, had it started the timer, may not have gone on.
TaskClassDeleteRetry(t) ==
    /\ Turns
    /\ task[t].timer
    /\ task[t].info = "there"
    /\ TryRemoveTask(t)
    /\ task' = [task EXCEPT ![t] =
           [task[t] EXCEPT !.class = IF @ = "there" THEN "deleted" ELSE @,
                           !.taskFree = TRUE, !.info = "deleted", !.timer = FALSE]]
    /\ UNCHANGED <<mapTask, channel, session, worker, main>>

\* The callback of the pending operation.
OperationDone(t) ==
    /\ worker.pc = "idle"
    /\ session.loop # "closed"
    /\ task[t].refCount = 1
    /\ task' = [task EXCEPT ![t].refCount = 0]
    /\ UNCHANGED <<mapTask, channel, session, worker, main>>

-----------------------------------------------------------------------------
(* Commands *)

\* The tasks that are yet to be made.
Fresh == {t \in Tasks : task[t].info = "unused"}

\* Fault: whether the channel is dead is not looked at.
FetchCommandDead(c, command) ==
    /\ Turns
    /\ session.loop = "work"
    /\ command # "data" => channel[c].inits < MaxInits /\ Fresh # {}
    /\ worker' = [Idle EXCEPT !.pc = "admin", !.channel = c, !.command = command]
    /\ channel' = [channel EXCEPT ![c].inits = IF command = "data" THEN @ ELSE @ + 1]
    /\ UNCHANGED <<mapTask, task, session, main>>

\* FetchCommand, ReadChannel: a command for the tasks of a channel that is alive;
\* the channel may die before the next step.
FetchCommand(c, command) ==
    /\ Turns
    /\ session.loop = "work"
    /\ channel[c].state = "alive"
    /\ command # "data" => channel[c].inits < MaxInits /\ Fresh # {}
    /\ worker' = [Idle EXCEPT !.pc = "admin", !.channel = c, !.command = command]
    /\ channel' = [channel EXCEPT ![c].inits = IF command = "data" THEN @ ELSE @ + 1]
    /\ UNCHANGED <<mapTask, task, session, main>>

\* CMD_KERNEL_CHANNEL_CLOSE: the main thread is asked to free the channel.
FetchChannelClose(c) ==
    /\ Turns
    /\ session.loop = "work"
    /\ channel[c].state = "alive"
    /\ ClearOwnTasks({c})
    /\ channel' = [channel EXCEPT ![c].pushed = TRUE]
    /\ UNCHANGED <<session, worker, main>>

\* DispatchTaskData goes on with t, or with none.
Dispatch(t, stopped) ==
    worker' = IF t = 0 \/ stopped THEN Idle
              ELSE [worker EXCEPT !.pc = "redirect", !.task = t]

\* AdminTask OP_ADD: what the map had for the channel is deleted.
AdminTaskAdd ==
    LET c == worker.channel IN
    /\ worker.pc = "admin"
    /\ worker.command # "data"
    /\ mapTask[c] # 0 => task[mapTask[c]].info = "there"
    /\ \E t \in Fresh :
           /\ \A u \in Fresh : t <= u
           /\ task' = [u \in Tasks |->
                  IF u = t THEN [Unused EXCEPT !.channel = c, !.info = "there"]
                  ELSE IF u = mapTask[c] THEN [task[u] EXCEPT !.info = "deleted"]
                  ELSE task[u]]
           /\ mapTask' = [mapTask EXCEPT ![c] = t]
           /\ Dispatch(t, FALSE)
    /\ UNCHANGED <<channel, session, main>>

\* AdminTask OP_QUERY.
AdminTaskQuery ==
    LET t == mapTask[worker.channel] IN
    /\ worker.pc = "admin"
    /\ worker.command = "data"
    /\ t # 0 => task[t].info = "there"
    /\ Dispatch(t, t # 0 /\ (task[t].taskStop \/ task[t].taskFree))
    /\ UNCHANGED <<mapTask, task, channel, session, main>>

\* RedirectToTask, TaskCommandDispatch: the class is made with the first command
\* it knows, which CMD_KERNEL_WAKEUP_SLAVETASK is not; the command may start an
\* operation, or set up a forward.
RedirectToTask(start, rule) ==
    LET t == worker.task IN
    /\ worker.pc = "redirect"
    /\ worker.command = "wakeup" => ~start /\ ~rule
    /\ task' = IF worker.command = "wakeup" THEN task
               ELSE [task EXCEPT ![t] =
                        [task[t] EXCEPT !.class = IF @ = "none" THEN "there" ELSE @,
                                        !.refCount = IF start THEN 1 ELSE @]]
    /\ rule => worker.channel \in Forwards
    /\ channel' = [channel EXCEPT ![worker.channel].rule = @ \/ rule]
    /\ worker' = Idle
    /\ UNCHANGED <<mapTask, session, main>>

-----------------------------------------------------------------------------
(* The main thread *)

\* FreeChannel: the client went, or the worker asked; the worker will detach it.
FreeChannel(c) ==
    /\ main.pc = "idle"
    /\ channel[c].state = "alive"
    /\ channel' = [channel EXCEPT ![c] = [@ EXCEPT !.state = "dead", !.pushed = FALSE]]
    /\ UNCHANGED <<mapTask, task, session, worker, main>>

\* DeatchChannel on the worker.
DeatchChannel(c) ==
    /\ Turns
    /\ session.loop = "work"
    /\ channel[c].state = "dead"
    /\ ClearOwnTasks({c})
    /\ channel' = [channel EXCEPT ![c].state = "gone"]
    /\ UNCHANGED <<session, worker, main>>

\* RemoveFportkey, for a session that is still in the map: ClearOwnTasks on the
\* main thread takes the lock, ...
RemoveFportkey(c) ==
    /\ main.pc = "idle"
    /\ channel[c].rule
    /\ session.loop # "closed"
    /\ channel' = [channel EXCEPT ![c].rule = FALSE]
    /\ main' = [MainIdle EXCEPT !.pc = "clear", !.channel = c]
    /\ UNCHANGED <<mapTask, task, session, worker>>

\* ... finds the task, and stops its class and starts the timer unless that has
\* been done, ...
MainClear ==
    LET t == mapTask[main.channel]
        stopped == t = 0 \/ task[t].taskStop \/ task[t].taskFree
    IN
    /\ main.pc = "clear"
    /\ task' = IF stopped THEN task ELSE [task EXCEPT ![t].timer = TRUE]
    /\ main' = [main EXCEPT !.pc = IF stopped THEN "erase" ELSE "stop", !.task = t]
    /\ UNCHANGED <<mapTask, channel, session, worker>>

\* ... notes that it is stopped, in freed memory if the timer was faster, ...
MainStop ==
    /\ main.pc = "stop"
    /\ task' = IF task[main.task].info = "there"
               THEN [task EXCEPT ![main.task].taskStop = TRUE] ELSE task
    /\ main' = [main EXCEPT !.pc = "erase"]
    /\ UNCHANGED <<mapTask, channel, session, worker>>

\* ... and erases what the map has for the channel; FreeChannel follows.
MainErase ==
    LET c == main.channel IN
    /\ main.pc = "erase"
    /\ mapTask' = IF main.task = 0 THEN mapTask ELSE [mapTask EXCEPT ![c] = 0]
    /\ channel' = [channel EXCEPT ![c] =
           [channel[c] EXCEPT !.state = IF @ = "alive" THEN "dead" ELSE @,
                              !.pushed = FALSE]]
    /\ main' = MainIdle
    /\ UNCHANGED <<task, session, worker>>

\* FreeSession.
FreeSession ==
    /\ main.pc = "idle"
    /\ ~session.isDead
    /\ session' = [session EXCEPT !.isDead = TRUE]
    /\ UNCHANGED <<mapTask, task, channel, worker, main>>

\* The child loop is left and ReChildLoopForSessionClear runs it again.
ReChildLoopForSessionClear ==
    /\ Turns
    /\ session.isDead
    /\ session.loop = "work"
    /\ ClearOwnTasks(Channels)
    /\ session' = [session EXCEPT !.loop = "clear"]
    /\ UNCHANGED <<channel, worker, main>>

\* clearTaskForSessionFinish stops the loop when all tasks of the map are free;
\* the timer of a task that was stopped earlier may be due later.
ClearTaskForSessionFinish ==
    /\ Turns
    /\ session.loop = "clear"
    /\ \A c \in Channels : mapTask[c] # 0 => task[mapTask[c]].taskFree
    /\ session' = [session EXCEPT !.loop = "close"]
    /\ UNCHANGED <<mapTask, task, channel, worker, main>>

\* TryCloseChildLoop: the timers that are left are closed.
TryCloseChildLoop ==
    /\ worker.pc = "idle"
    /\ session.loop = "close"
    /\ task' = [t \in Tasks |-> [task[t] EXCEPT !.timer = FALSE]]
    /\ session' = [session EXCEPT !.loop = "closed"]
    /\ UNCHANGED <<mapTask, channel, worker, main>>

-----------------------------------------------------------------------------
WorkerStep ==
    \/ AdminTaskAdd
    \/ AdminTaskQuery
    \/ \E start \in BOOLEAN, rule \in BOOLEAN : RedirectToTask(start, rule)

MainStep == MainClear \/ MainStop \/ MainErase

Callback ==
    \/ \E t \in Tasks : TaskClassDeleteRetry(t) \/ OperationDone(t)
    \/ \E c \in Channels : DeatchChannel(c)
    \/ ReChildLoopForSessionClear
    \/ ClearTaskForSessionFinish
    \/ TryCloseChildLoop

Next ==
    \/ WorkerStep
    \/ MainStep
    \/ Callback
    \/ \E c \in Channels, command \in {"init", "wakeup", "data"} :
          FetchCommand(c, command)
    \/ \E c \in Channels : FetchChannelClose(c) \/ FreeChannel(c) \/ RemoveFportkey(c)
    \/ FreeSession

Spec == Init /\ [][Next]_vars

\* The threads run; libuv calls the callbacks of a task that are due again and
\* again, although others come in between, and the thread pool finishes requests.
FairSpec ==
    /\ Spec
    /\ WF_vars(WorkerStep)
    /\ WF_vars(MainStep)
    /\ \A t \in Tasks : SF_vars(TaskClassDeleteRetry(t) \/ OperationDone(t))

-----------------------------------------------------------------------------
\* The main thread has found a task of c and not yet erased it from the map.
Erasing(c) == main.pc \in {"stop", "erase"} /\ main.task # 0 /\ main.channel = c

\* Channel c was given more than one initial command.
Again(c) == channel[c].inits > 1

\* No pointer leads to a task that was deleted, whichever thread removed it: not
\* from the map, but while the main thread clears the channel; not from the retry
\* timer or a pending operation, but when a second initial command of the channel
\* replaced the task; and not from the command the worker is about to dispatch.
TasksAreThere ==
    /\ \A c \in Channels : mapTask[c] # 0 =>
           task[mapTask[c]].info = "there" \/ Erasing(c)
    /\ \A t \in Tasks : task[t].timer \/ task[t].refCount = 1 =>
           task[t].info = "there" \/ Again(task[t].channel)
    /\ worker.pc = "redirect" =>
           task[worker.task].info = "there" /\ task[worker.task].class # "deleted"

\* A class is deleted only when no operation would still call it back.
DeletedIsIdle == \A t \in Tasks : task[t].class = "deleted" => task[t].refCount = 0

\* When a channel has been detached, no task of it is left that was not told to
\* stop, although a command may have been on its way when the channel died, or
\* "fport rm" cleared the channel: a second initial command apart, whose task the
\* main thread may erase in place of the one it found.
GoneHasNoTask ==
    \A c \in Channels : channel[c].state = "gone" =>
        /\ mapTask[c] = 0
        /\ \A t \in Tasks : task[t].channel = c /\ task[t].info = "there" =>
               task[t].taskStop \/ (c \in Forwards /\ Again(c))

\* A task that was told to stop is freed, or its session ends before.
StoppedIsFreed ==
    \A t \in Tasks : task[t].taskStop ~> (task[t].info = "deleted" \/ session.isDead)

-----------------------------------------------------------------------------
(* The inductive invariant behind the first three *)

\* The worker is about to add a task for c.
Adding(c) ==
    worker.pc = "admin" /\ worker.command # "data" /\ worker.channel = c

\* A task in the map is the channel's own, and runs unless the main thread is
\* about to erase it; a channel that was detached has none.
MapInv(c) ==
    /\ mapTask[c] # 0 =>
           /\ task[mapTask[c]].channel = c
           /\ task[mapTask[c]].info # "unused"
           /\ Erasing(c) \/ /\ task[mapTask[c]].info = "there"
                            /\ ~task[mapTask[c]].taskStop
                            /\ ~task[mapTask[c]].timer
    /\ channel[c].inits = 0 => mapTask[c] = 0 /\ ~channel[c].rule
    /\ channel[c].state = "gone" => mapTask[c] = 0
    /\ channel[c].rule => c \in Forwards

\* The main thread has started the timer of t and not yet noted that it stops.
Stopping(t) == main.pc = "stop" /\ main.task = t

\* The map has lost t to the main thread, which erased it unstopped.
Lost(t) == task[t].channel \in Forwards /\ Again(task[t].channel)

\* A task that was not told to stop is in the map; what leads to a task that was
\* deleted is left over from a replacement.
TaskInv(t) ==
    /\ task[t].info # "unused" => task[t].channel \in Channels
    /\ task[t].timer \/ task[t].refCount = 1 =>
           \/ task[t].info = "there"
           \/ (task[t].info = "deleted" /\ Again(task[t].channel))
    /\ task[t].info = "there" =>
           /\ task[t].class # "deleted" /\ ~task[t].taskFree
           /\ \/ task[t].taskStop
              \/ Stopping(t)
              \/ mapTask[task[t].channel] = t
              \/ Lost(t)
           /\ task[t].timer => task[t].taskStop \/ Stopping(t)
    /\ task[t].class # "there" => task[t].refCount = 0

\* When a task is added for a channel for the first time, there is no rule for it
\* yet, so the main thread cannot have come to clear it.
WorkerInv ==
    /\ worker.pc # "idle" =>
           /\ worker.channel \in Channels
           /\ channel[worker.channel].state # "gone"
    /\ worker.pc = "redirect" =>
           /\ worker.task \in Tasks
           /\ task[worker.task].info = "there"
           /\ channel[worker.channel].inits # 0
    /\ \A c \in Channels : Adding(c) =>
           /\ channel[c].inits # 0
           /\ ~Again(c) => /\ mapTask[c] = 0
                           /\ ~channel[c].rule
                           /\ main.pc # "idle" => main.channel # c

\* What the main thread is about to erase is the task it found, which has been
\* told to stop or deleted, or one that replaced it.
MainInv ==
    /\ main.pc # "idle" =>
           /\ main.channel \in Forwards
           /\ channel[main.channel].inits # 0
    /\ main.pc = "stop" => main.task # 0
    /\ main.pc \in {"stop", "erase"} /\ main.task # 0 =>
           /\ task[main.task].info # "unused"
           /\ task[main.task].channel = main.channel
           /\ channel[main.channel].state # "gone"
           /\ mapTask[main.channel] = main.task \/ Again(main.channel)
    /\ main.pc = "erase" /\ main.task # 0 /\ task[main.task].info = "there" =>
           task[main.task].taskStop

\* All of it together.
IInv ==
    /\ TypeOK
    /\ \A c \in Channels : MapInv(c)
    /\ \A t \in Tasks : TaskInv(t)
    /\ WorkerInv
    /\ MainInv

(* What comments promise and the code does not keep *)

\* When the loop of a session is closed all task has been free.
AllTasksFree ==
    session.loop = "close" => \A t \in Tasks : task[t].info # "there"

\* All in the corresponding sub-thread, no need locks.
OneThread == ~(main.pc = "erase" /\ worker.pc = "admin")
=============================================================================
