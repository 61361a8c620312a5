---------------------------- MODULE HdcTaskClear ----------------------------
(***************************************************************************)
(* The tasks of the sessions of one HdcSessionBase: how a command creates  *)
(* one (DispatchTaskData, AdminTask), how it is taken apart                *)
(*   ClearOwnTasks -> BeginRemoveTask -> TaskClassDeleteRetry              *)
(* and how a session's worker, at its end, waits in                        *)
(* ReChildLoopForSessionClear for its tasks to be gone, by the counter     *)
(* taskCount that all sessions share.                                      *)
(***************************************************************************)
EXTENDS Naturals, FiniteSets

CONSTANTS
    Session, Channel,
    Task,         \* the TaskInformation objects
    NoTask, NoSession,
    TimerFails,   \* tasks whose removal timer may fail to start (TimerUvTask)
    ClearTimes,   \* ticks after which the clearing loop gives up (50)
    CountMod      \* taskCount is modulo this (2^32)

ASSUME TaskAssumption == /\ IsFiniteSet(Task)
                         /\ NoTask \notin Task
                         /\ NoSession \notin Session
                         /\ TimerFails \subseteq Task
                         /\ ClearTimes \in Nat \ {0}
                         /\ CountMod \in Nat
                         /\ Cardinality(Task) < CountMod

VARIABLES
    mapTask,        \* session -> channel -> task
    info,           \* TaskInformation: none, live, freed
    obj,            \* the task object (taskClass): none, live, orphan, freed
    owner,          \* task -> session that created it
    busy,           \* task -> refCount > 0: operations outstanding
    isCleared,      \* task -> StopTask was called (OP_CLEAR)
    timer,          \* task -> its TaskClassDeleteRetry timer runs
    taskCount,      \* HdcSessionBase::taskCount
    loop,           \* session worker: run, clear, closed
    clearTaskTimes,
    disturbed       \* history: s did not have taskCount for itself

vars == <<mapTask, info, obj, owner, busy, isCleared, timer, taskCount, loop,
          clearTaskTimes, disturbed>>

TypeOK ==
    /\ mapTask \in [Session -> [Channel -> Task \cup {NoTask}]]
    /\ info \in [Task -> {"none", "live", "freed"}]
    /\ obj \in [Task -> {"none", "live", "orphan", "freed"}]
    /\ owner \in [Task -> Session \cup {NoSession}]
    /\ busy \in [Task -> BOOLEAN]
    /\ isCleared \in [Task -> BOOLEAN]
    /\ timer \in [Task -> BOOLEAN]
    /\ taskCount \in 0 .. CountMod - 1
    /\ loop \in [Session -> {"run", "clear", "closed"}]
    /\ clearTaskTimes \in [Session -> 0 .. ClearTimes]
    /\ disturbed \in [Session -> BOOLEAN]

Init ==
    /\ mapTask = [s \in Session |-> [c \in Channel |-> NoTask]]
    /\ info = [t \in Task |-> "none"]
    /\ obj = [t \in Task |-> "none"]
    /\ owner = [t \in Task |-> NoSession]
    /\ busy = [t \in Task |-> FALSE]
    /\ isCleared = [t \in Task |-> FALSE]
    /\ timer = [t \in Task |-> FALSE]
    /\ taskCount = 0
    /\ loop = [s \in Session |-> "run"]
    /\ clearTaskTimes = [s \in Session |-> 0]
    /\ disturbed = [s \in Session |-> FALSE]

-----------------------------------------------------------------------------
(* Tasks at work *)

\* DispatchTaskData with a command that needs a new task: AdminTask(OP_ADD)
\* puts it under the channel id, deleting the TaskInformation it finds there
\* (not its task object); RedirectToTask makes the task object, unless it does
\* not know the command (o = "none").
DispatchNewTask(s, c, t, o) ==
    /\ loop[s] = "run"
    /\ info[t] = "none"
    /\ LET old == mapTask[s][c]
       IN  /\ info' = [u \in Task |-> IF u = t THEN "live"
                                      ELSE IF u = old THEN "freed" ELSE info[u]]
           /\ obj' = [u \in Task |-> IF u = t THEN o
                                     ELSE IF u = old /\ obj[u] = "live" THEN "orphan"
                                     ELSE obj[u]]
    /\ mapTask' = [mapTask EXCEPT ![s][c] = t]
    /\ owner' = [owner EXCEPT ![t] = s]
    /\ UNCHANGED <<busy, isCleared, timer, taskCount, loop, clearTaskTimes,
                   disturbed>>

\* A task begins an asynchronous operation (++refCount), in a command or in a
\* callback of its own, unless StopTask has been called.
BeginOperation(t) ==
    /\ obj[t] = "live"
    /\ loop[owner[t]] # "closed"
    /\ ~isCleared[t]
    /\ ~busy[t]
    /\ busy' = [busy EXCEPT ![t] = TRUE]
    /\ UNCHANGED <<mapTask, info, obj, owner, isCleared, timer, taskCount, loop,
                   clearTaskTimes, disturbed>>

\* The last outstanding operation of a task calls back (--refCount).
EndOperation(t) ==
    /\ busy[t]
    /\ busy' = [busy EXCEPT ![t] = FALSE]
    /\ UNCHANGED <<mapTask, info, obj, owner, isCleared, timer, taskCount, loop,
                   clearTaskTimes, disturbed>>

-----------------------------------------------------------------------------
(* Removal *)

Tasks(s) == {t \in Task : \E c \in Channel : mapTask[s][c] = t}

\* What ClearOwnTasks leaves in the map.
Erased(s, cs) == [mapTask EXCEPT ![s] = [c \in Channel |->
                                           IF c \in cs THEN NoTask ELSE @[c]]]

\* taskCount = mapTask->size(), and a count that is one too small.
CountedLess(s) == IF Tasks(s) = {} THEN 0 ELSE (Cardinality(Tasks(s)) - 1) % CountMod
Counted(s) == Cardinality(Tasks(s)) % CountMod

\* Others that are clearing lose their count when s sets it.
Disturb(s) == [q \in Session |-> disturbed[q] \/ (q # s /\ loop[q] = "clear")]

\* ClearOwnTasks for the channels cs: count all tasks of the session, begin to
\* remove those of cs (BeginRemoveTask starts the timer, or fails to), and
\* take them out of the map.
ClearOwnTasks(s, cs) ==
    LET out == {t \in Task : \E c \in cs : mapTask[s][c] = t}
    IN  /\ taskCount' = Counted(s)
        /\ \E lost \in SUBSET (out \cap TimerFails) :
             timer' = [t \in Task |-> timer[t] \/ t \in out \ lost]
        /\ mapTask' = Erased(s, cs)

\* A single channel: the peer closed it (worker), or fport rm (main thread,
\* also while the worker is clearing).
ClearChannel(s, c) ==
    /\ loop[s] # "closed"
    /\ ClearOwnTasks(s, {c})
    /\ disturbed' = [Disturb(s) EXCEPT ![s] = @ \/ loop[s] = "clear"]
    /\ UNCHANGED <<info, obj, owner, busy, isCleared, loop, clearTaskTimes>>

\* taskCount--, with the wrap of uint32_t.
Decremented(n) == (n + CountMod - 1) % CountMod

\* OP_CLEAR calls StopTask once.
StopTask(t) == isCleared' = [isCleared EXCEPT ![t] = TRUE]

\* TaskClassDeleteRetry while the task is not ReadyForRelease: StopTask the
\* first time, then only wait for the next tick.
RetryLater(t) ==
    /\ timer[t]
    /\ loop[owner[t]] # "closed"
    /\ busy[t]
    /\ obj[t] # "none"
    /\ ~isCleared[t]
    /\ StopTask(t)
    /\ UNCHANGED <<mapTask, info, obj, owner, busy, timer, taskCount, loop,
                   clearTaskTimes, disturbed>>

\* TaskClassDeleteRetry on a task that is ready: StopTask, delete the task
\* object and the TaskInformation, count down, close the timer.
TaskClassDelete(t) ==
    /\ timer[t]
    /\ loop[owner[t]] # "closed"
    /\ ~busy[t]
    /\ StopTask(t)
    /\ obj' = [obj EXCEPT ![t] = IF @ = "none" THEN @ ELSE "freed"]
    /\ info' = [info EXCEPT ![t] = "freed"]
    /\ timer' = [timer EXCEPT ![t] = FALSE]
    /\ taskCount' = Decremented(taskCount)
    /\ disturbed' = Disturb(owner[t])
    /\ UNCHANGED <<mapTask, owner, busy, loop, clearTaskTimes>>

\* Removals of tasks of s that are under way, or were given up.
Outstanding(s) ==
    \E t \in Task : owner[t] = s /\ info[t] = "live" /\ t \notin Tasks(s)

\* ReChildLoopForSessionClear begins: the socket is closed, no command comes.
BeginClear(s) ==
    /\ loop[s] = "run"
    /\ loop' = [loop EXCEPT ![s] = "clear"]
    /\ ClearOwnTasks(s, Channel)
    /\ disturbed' = [Disturb(s) EXCEPT ![s] = Outstanding(s)]
    /\ UNCHANGED <<info, obj, owner, busy, isCleared, clearTaskTimes>>

\* When clearTaskForSessionFinish lets go, at its tick n; and a version
\* without the time limit.
NeverGivesUp(n) == taskCount = 0
LetsGo(n) == taskCount = 0 \/ n >= ClearTimes

\* clearTaskForSessionFinish, one tick.  When it lets go, TryCloseChildLoop
\* closes every handle that is left on the loop, the removal timers included.
ClearTick(s) ==
    /\ loop[s] = "clear"
    /\ clearTaskTimes[s] < ClearTimes
    /\ clearTaskTimes' = [clearTaskTimes EXCEPT ![s] = @ + 1]
    /\ IF LetsGo(clearTaskTimes[s] + 1)
       THEN /\ loop' = [loop EXCEPT ![s] = "closed"]
            /\ timer' = [t \in Task |-> timer[t] /\ owner[t] # s]
       ELSE UNCHANGED <<loop, timer>>
    /\ UNCHANGED <<mapTask, info, obj, owner, busy, isCleared, taskCount,
                   disturbed>>

-----------------------------------------------------------------------------
TaskStep(t) == \/ \E s \in Session, c \in Channel, o \in {"none", "live"} :
                    DispatchNewTask(s, c, t, o)
               \/ BeginOperation(t)
               \/ EndOperation(t)
               \/ RetryLater(t)
               \/ TaskClassDelete(t)

SessionStep(s) == \/ \E c \in Channel : ClearChannel(s, c)
                  \/ BeginClear(s)
                  \/ ClearTick(s)

Next == \/ \E t \in Task : TaskStep(t)
        \/ \E s \in Session : SessionStep(s)

Spec == Init /\ [][Next]_vars

\* The timers of a running loop fire; a task may keep an operation for ever.
FairSpec == Spec /\ \A s \in Session : WF_vars(ClearTick(s))

-----------------------------------------------------------------------------
(* Properties *)

\* Whom the map and the timers point at.
MapOwned == \A s \in Session, c \in Channel :
    LET t == mapTask[s][c]
    IN  t # NoTask => info[t] = "live" /\ owner[t] = s /\ ~timer[t]
TimerOwned == \A t \in Task : timer[t] => info[t] = "live"
OneChannel == \A s \in Session, c, d \in Channel :
    mapTask[s][c] # NoTask /\ mapTask[s][c] = mapTask[s][d] => c = d
\* A TaskInformation is deleted once and never used afterwards: it is in the
\* map, or its removal timer runs, or neither, and whatever has a pointer to it
\* (map, timer: session.cpp:110, 1689) finds it alive.
OneOwner == MapOwned /\ TimerOwned /\ OneChannel

\* No task object is deleted that was not stopped before, however the removal
\* came about (DoTaskRemove: OP_CLEAR before OP_REMOVE).
StopBeforeRelease == \A t \in Task : obj[t] = "freed" => isCleared[t]

\* What taskCount is good for: when the worker had the counter for itself and
\* no earlier removal was under way, a clearing loop that ends before its time
\* limit leaves no task behind.
LoneClearComplete ==
    \A s \in Session :
        loop[s] = "closed" /\ ~disturbed[s] /\ clearTaskTimes[s] < ClearTimes
            => \A t \in Task : owner[t] = s => info[t] = "freed"

\* The worker gets out of ReChildLoopForSessionClear, whatever the tasks and
\* the other sessions do (6 s limit, session.cpp:1520).
ClearTerminates == \A s \in Session : []<>(loop[s] # "clear")

\* A task is deleted by one removal only, after it was stopped, and a session
\* that clears its tasks undisturbed leaves none (ClearOwnTasks).
TasksSafe == TypeOK /\ OneOwner /\ StopBeforeRelease /\ LoneClearComplete

\* "all task has been free" (session.cpp:1526): a clearing loop that ends
\* before its time limit leaves no task behind.
AllTaskFreed ==
    \A s \in Session :
        loop[s] = "closed" /\ clearTaskTimes[s] < ClearTimes
            => \A t \in Task : owner[t] = s => info[t] = "freed"

-----------------------------------------------------------------------------
(* The inductive invariant behind the invariants above. *)

Created == \A t \in Task : info[t] = "none" <=> owner[t] = NoSession

\* The tasks of s that are still to be deleted.
Left(s) == {t \in Task : owner[t] = s /\ info[t] = "live"}

LoneOf(s) ==
    /\ loop[s] = "clear" /\ ~disturbed[s] => taskCount = Cardinality(Left(s))
    /\ loop[s] # "run" => Tasks(s) = {}
    /\ loop[s] = "closed" /\ ~disturbed[s] /\ clearTaskTimes[s] < ClearTimes
         => Left(s) = {}
LoneInv == \A s \in Session : LoneOf(s)

TaskInv == /\ TypeOK
           /\ OneOwner
           /\ Created
           /\ StopBeforeRelease
           /\ LoneInv
=============================================================================
