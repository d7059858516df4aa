---------------------------- MODULE FailureWatch ----------------------------
(***************************************************************************)
(* Armed failures: core/failure_scheduler.py (what is armed, since when),  *)
(* the watcher task and the routes of server/failure_routes.py, and the    *)
(* simulator's failure datarefs as adapters/xplane writes them, one HTTP   *)
(* request after another.                                                  *)
(*                                                                         *)
(* The server is one asyncio loop: an action is what runs between two      *)
(* awaits.  A cancelled task is a separate thing from a finished one, and  *)
(* the request it was awaiting may still reach the simulator.              *)
(***************************************************************************)
EXTENDS Integers, FiniteSets, Sequences

CONSTANTS
    MaxArmed,    \* how many arm requests are considered
    Dataref,     \* the simulator's failure datarefs
    Ref,         \* failure references: a failure and its engine index
    DatarefsOf,  \* the datarefs each reference resolves to (_failure_ids)
    Request,     \* the arm requests considered: a reference and a trigger
    Level,       \* the altitudes and speeds a telemetry frame may carry
    MaxDelay,    \* the longest delay, in clock ticks
    Client       \* the inject, clear and clear-all requests served at once

ArmedId == 1 .. MaxArmed   \* the n-th arm gets id n: ids are in arming order
NoTask  == 0

LevelTrigger ==
    [type : {"altitude_above", "altitude_below", "speed_above", "speed_below"},
     at : Level]
DelayTrigger == [type : {"delay"}, at : 1 .. MaxDelay]
Trigger == LevelTrigger \cup DelayTrigger
Frame   == [altitude : Level, speed : Level]

ASSUME BoundsAssumption ==
    /\ MaxArmed \in Nat
    /\ MaxDelay \in Nat
    /\ Level \subseteq Int
ASSUME RefAssumption ==
    /\ DatarefsOf \in [Ref -> SUBSET Dataref]
    /\ \A r \in Ref : DatarefsOf[r] # {}
    /\ Dataref # {}
    /\ Request \subseteq [ref : Ref, trigger : Trigger]

VARIABLES
    entries,      \* every arm request accepted so far, in order
    armed,        \* scheduler._armed: the ids still waiting for their trigger
    timed,        \* the ids scheduler._armed_monotonic has an arming time for
    elapsed,      \* now_monotonic - armed_monotonic, saturating at MaxDelay
    lastError,    \* the ids whose entry carries a last_error
    watcherTask,  \* _watcher_task: the id whose arming created it, or NoTask
    task,         \* what each watcher task awaits; "done" also before its birth
    cancelled,    \* the tasks whose cancellation has not been delivered yet
    batch,        \* the entries a task has fired and not injected yet
    todo,         \* the datarefs left to write for the first of its batch
    sim,          \* the datarefs reading "failed" in the simulator
    stray,        \* writes of a cancelled task that are still under way
    call,         \* what each client request is doing
    injected,     \* history: the ids whose injection returned
    withdrawn     \* history: the ids the instructor disarmed or cleared

schedVars == <<armed, timed, elapsed, lastError>>
taskVars  == <<watcherTask, task, cancelled, batch, todo, stray>>
history   == <<injected, withdrawn>>
vars      == <<entries, schedVars, taskVars, sim, call, history>>

IdleCall == [op |-> "idle", left |-> {}]
Ops == {"idle", "inject", "clear", "fix_all", "clear_all"}

Issued   == 1 .. Len(entries)
InFlight == UNION {batch[t] : t \in ArmedId}
First(S) == CHOOSE i \in S : \A j \in S : i <= j
RefOf(i) == entries[i].ref
Targets(i) == DatarefsOf[RefOf(i)]

-----------------------------------------------------------------------------
(* The scheduler: pure, synchronous, one frame at a time.                  *)

\* Whether entry i's trigger is satisfied by this frame: levels, inclusive.
IsSatisfied(i, frame) ==
    LET tr == entries[i].trigger IN
    \/ tr.type = "altitude_above" /\ frame.altitude >= tr.at
    \/ tr.type = "altitude_below" /\ frame.altitude <= tr.at
    \/ tr.type = "speed_above"    /\ frame.speed >= tr.at
    \/ tr.type = "speed_below"    /\ frame.speed <= tr.at
    \/ tr.type = "delay"          /\ elapsed[i] >= tr.at

Evaluate(frame) == {i \in armed : IsSatisfied(i, frame)}

\* Mutant: the retry counts its delay from the failed injection.
RestoreRearming(i) ==
    /\ armed' = armed \cup {i}
    /\ lastError' = lastError \cup {i}
    /\ elapsed' = [elapsed EXCEPT ![i] = 0]
    /\ UNCHANGED timed

\* Mutant: a failed injection is logged and forgotten.
RestoreNothing(i) == lastError' = lastError \cup {i} /\ UNCHANGED <<armed, timed, elapsed>>

\* Put a fired entry back; its arming time is the one it always had.
Restore(i) ==
    /\ armed' = armed \cup {i}
    /\ lastError' = lastError \cup {i}
    /\ UNCHANGED <<timed, elapsed>>

\* DisarmAll leaves the arming times: an injection under way may need one.
DisarmAll ==
    /\ armed' = {}
    /\ UNCHANGED <<timed, elapsed, lastError>>

-----------------------------------------------------------------------------
(* The watcher's life.                                                     *)

\* Mutant: every arming starts a watcher.
EnsureAnotherWatcher(n) ==
    /\ watcherTask' = n
    /\ task' = [task EXCEPT ![n] = "start"]
    /\ UNCHANGED <<cancelled, batch, todo, stray>>

\* _ensure_watcher_running, called by the arming that got id n.
EnsureWatcherRunning(n) ==
    IF watcherTask # NoTask
    THEN UNCHANGED taskVars
    ELSE /\ watcherTask' = n
         /\ task' = [task EXCEPT ![n] = "start"]
         /\ UNCHANGED <<cancelled, batch, todo, stray>>

\* Mutant: the task is forgotten but not cancelled.
ForgetWatcherIfIdle ==
    /\ watcherTask' = IF armed' = {} THEN NoTask ELSE watcherTask
    /\ UNCHANGED <<task, cancelled, batch, todo, stray>>

\* _stop_watcher_if_idle.  What the task had fired goes with its frame, and
\* the write it was awaiting may still arrive.
StopWatcherIfIdle ==
    IF armed' # {} \/ watcherTask = NoTask
    THEN UNCHANGED taskVars
    ELSE /\ watcherTask' = NoTask
         /\ cancelled' = cancelled \cup {watcherTask}
         /\ \E sent \in {{}} \cup {{d} : d \in todo[watcherTask]} :
                stray' = stray \cup sent
         /\ batch' = [batch EXCEPT ![watcherTask] = {}]
         /\ todo' = [todo EXCEPT ![watcherTask] = {}]
         /\ UNCHANGED task

\* Mutant: the finally clause does not look whose task it forgets.
ExitForgettingAny(t) ==
    /\ task' = [task EXCEPT ![t] = "done"]
    /\ watcherTask' = NoTask

\* The task returns: its finally forgets it if it is still the current one.
Exit(t) ==
    /\ task' = [task EXCEPT ![t] = "done"]
    /\ watcherTask' = IF watcherTask = t THEN NoTask ELSE watcherTask

Running(t, where) == task[t] = where /\ t \notin cancelled

\* Mutant: no look at what is armed once the batch is done.
NextOfBatchForever(t, rest, nowArmed) ==
    /\ batch' = [batch EXCEPT ![t] = rest]
    /\ todo' = [todo EXCEPT ![t] = IF rest = {} THEN {} ELSE Targets(First(rest))]
    /\ task' = [task EXCEPT ![t] = IF rest = {} THEN "stream" ELSE "inject"]
    /\ UNCHANGED watcherTask

\* Leave the batch for the entries `rest`, or go back to the stream when none
\* is left; `nowArmed` is what is armed then.
NextOfBatch(t, rest, nowArmed) ==
    /\ batch' = [batch EXCEPT ![t] = rest]
    /\ todo' = [todo EXCEPT ![t] = IF rest = {} THEN {} ELSE Targets(First(rest))]
    /\ IF rest # {} THEN UNCHANGED <<task, watcherTask>>
       ELSE IF nowArmed = {} THEN Exit(t)
       ELSE task' = [task EXCEPT ![t] = "stream"] /\ UNCHANGED watcherTask

\* `while _scheduler.armed`: on the first run, and after a back-off.
WatchLoop(t) ==
    /\ Running(t, "start")
    /\ IF armed = {} THEN Exit(t)
       ELSE task' = [task EXCEPT ![t] = "stream"] /\ UNCHANGED watcherTask
    /\ UNCHANGED <<entries, schedVars, cancelled, batch, todo, stray, sim, call, history>>

\* A telemetry frame arrives: evaluate it, and start on the first that fires.
FrameArrives(t, frame) ==
    /\ Running(t, "stream")
    /\ LET fired == Evaluate(frame) IN
       IF armed = {} THEN Exit(t) /\ UNCHANGED <<armed, batch, todo>>
       ELSE /\ armed' = armed \ fired
            /\ batch' = [batch EXCEPT ![t] = fired]
            /\ todo' = [todo EXCEPT ![t] =
                            IF fired = {} THEN {} ELSE Targets(First(fired))]
            /\ task' = [task EXCEPT ![t] = IF fired = {} THEN "stream" ELSE "inject"]
            /\ UNCHANGED watcherTask
    /\ UNCHANGED <<entries, timed, elapsed, lastError, cancelled, stray, sim, call, history>>

\* adapter.inject_failure: one write answered; after the last one it returns.
InjectWrite(t, d) ==
    /\ Running(t, "inject")
    /\ d \in todo[t]
    /\ sim' = sim \cup {d}
    /\ IF todo[t] # {d}
       THEN /\ todo' = [todo EXCEPT ![t] = @ \ {d}]
            /\ UNCHANGED <<batch, task, watcherTask, injected>>
       ELSE LET i == First(batch[t]) IN
            /\ injected' = injected \cup {i}
            /\ NextOfBatch(t, batch[t] \ {i}, armed)
    /\ UNCHANGED <<entries, schedVars, cancelled, stray, call, withdrawn>>

\* adapter.inject_failure raises, the write `sent` having landed or not.
InjectFails(t) ==
    /\ Running(t, "inject")
    /\ \E sent \in {{}} \cup {{d} : d \in todo[t]} : sim' = sim \cup sent
    /\ LET i == First(batch[t]) IN
       /\ Restore(i)
       /\ NextOfBatch(t, batch[t] \ {i}, armed \cup {i})
    /\ UNCHANGED <<entries, cancelled, stray, call, history>>

\* Mutant: a dead stream ends the watcher.
StreamFailsForGood(t) ==
    /\ Running(t, "stream")
    /\ Exit(t)
    /\ UNCHANGED <<entries, schedVars, cancelled, batch, todo, stray, sim, call, history>>

\* stream_state raises: return when nothing is armed, else back off.
StreamFails(t) ==
    /\ Running(t, "stream")
    /\ IF armed = {} THEN Exit(t)
       ELSE task' = [task EXCEPT ![t] = "backoff"] /\ UNCHANGED watcherTask
    /\ UNCHANGED <<entries, schedVars, cancelled, batch, todo, stray, sim, call, history>>

BackoffEnds(t) ==
    /\ Running(t, "backoff")
    /\ task' = [task EXCEPT ![t] = "start"]
    /\ UNCHANGED <<entries, schedVars, watcherTask, cancelled, batch, todo,
                   stray, sim, call, history>>

\* CancelledError is delivered: only the finally clause runs.
Unwind(t) ==
    /\ t \in cancelled
    /\ cancelled' = cancelled \ {t}
    /\ Exit(t)
    /\ UNCHANGED <<entries, schedVars, batch, todo, stray, sim, call, history>>

-----------------------------------------------------------------------------
(* The routes.                                                             *)

\* POST /arm, past the capability check.
Arm(request) ==
    /\ Len(entries) < MaxArmed
    /\ LET n == Len(entries) + 1 IN
       /\ entries' = Append(entries, request)
       /\ armed' = armed \cup {n}
       /\ timed' = timed \cup {n}
       /\ EnsureWatcherRunning(n)
    /\ UNCHANGED <<elapsed, lastError, sim, call, history>>

\* Mutant: the arming time goes also when the entry is already being injected.
DisarmForgettingTime(i) ==
    /\ i \in armed \cup InFlight
    /\ armed' = armed \ {i}
    /\ timed' = timed \ {i}
    /\ withdrawn' = IF i \in armed THEN withdrawn \cup {i} ELSE withdrawn
    /\ IF i \in armed THEN StopWatcherIfIdle ELSE UNCHANGED taskVars
    /\ UNCHANGED <<entries, elapsed, lastError, sim, call, injected>>

\* DELETE /armed/{id}; a 404 when the id is not armed changes nothing.
Disarm(i) ==
    /\ i \in armed
    /\ armed' = armed \ {i}
    /\ timed' = timed \ {i}
    /\ withdrawn' = withdrawn \cup {i}
    /\ StopWatcherIfIdle
    /\ UNCHANGED <<entries, elapsed, lastError, sim, call, injected>>

\* A client request reaches the adapter: /inject, /clear or /clear-all.
Ask(c, op, left) ==
    /\ call[c] = IdleCall
    /\ call' = [call EXCEPT ![c] = [op |-> op, left |-> left]]
    /\ UNCHANGED <<entries, schedVars, taskVars, sim, history>>

AskInject(c, r) == Ask(c, "inject", DatarefsOf[r])
AskClear(c, r)  == Ask(c, "clear", DatarefsOf[r])
AskClearAll(c)  == Ask(c, "fix_all", Dataref)

\* clear_all_failures first fires fix_all_systems, then writes every zero.
FixAllSystems(c) ==
    /\ call[c].op = "fix_all"
    /\ sim' = {}
    /\ call' = [call EXCEPT ![c].op = "clear_all"]
    /\ UNCHANGED <<entries, schedVars, taskVars, history>>

\* One write of a client request is answered.  The handler of /clear-all goes
\* on after its last write: it disarms everything and stops the watcher.
ClientWrite(c, d) ==
    /\ call[c].op \in {"inject", "clear", "clear_all"}
    /\ d \in call[c].left
    /\ sim' = IF call[c].op = "inject" THEN sim \cup {d} ELSE sim \ {d}
    /\ call' = [call EXCEPT ![c] =
                    IF @.left = {d} THEN IdleCall
                    ELSE [op |-> @.op, left |-> @.left \ {d}]]
    /\ IF call[c].op = "clear_all" /\ call[c].left = {d}
       THEN /\ DisarmAll
            /\ StopWatcherIfIdle
            /\ withdrawn' = withdrawn \cup armed \cup InFlight
       ELSE UNCHANGED <<schedVars, taskVars, withdrawn>>
    /\ UNCHANGED <<entries, injected>>

\* The adapter raises, the write it was on having landed or not: the request
\* is answered 5xx, and /clear-all goes no further.
ClientFails(c) ==
    /\ call[c] # IdleCall
    /\ \E sent \in {{}} \cup {{d} : d \in call[c].left} :
           sim' = CASE call[c].op = "inject"  -> sim \cup sent
                    [] call[c].op = "fix_all" -> IF sent = {} THEN sim ELSE {}
                    [] OTHER                  -> sim \ sent
    /\ call' = [call EXCEPT ![c] = IdleCall]
    /\ UNCHANGED <<entries, schedVars, taskVars, history>>

-----------------------------------------------------------------------------
(* The simulator and the clock.                                            *)

StrayLands(d) ==
    /\ d \in stray
    /\ stray' = stray \ {d}
    /\ sim' \in {sim, sim \cup {d}}
    /\ UNCHANGED <<entries, schedVars, watcherTask, task, cancelled, batch, todo,
                   call, history>>

\* A reposition ends with fix_all_systems, which repairs every failure.
Teleport ==
    /\ sim # {}
    /\ sim' = {}
    /\ UNCHANGED <<entries, schedVars, taskVars, call, history>>

\* Mutant: the civil clock instead of the monotonic one may go backwards.
TickOfCivilClock ==
    /\ \E i \in timed : elapsed[i] < MaxDelay
    /\ \E step \in {-1, 1} : elapsed' = [i \in ArmedId |->
           IF i \in timed /\ elapsed[i] < MaxDelay THEN elapsed[i] + step ELSE elapsed[i]]
    /\ UNCHANGED <<entries, armed, timed, lastError, taskVars, sim, call, history>>

Tick ==
    /\ \E i \in timed : elapsed[i] < MaxDelay
    /\ elapsed' = [i \in ArmedId |->
           IF i \in timed /\ elapsed[i] < MaxDelay THEN elapsed[i] + 1 ELSE elapsed[i]]
    /\ UNCHANGED <<entries, armed, timed, lastError, taskVars, sim, call, history>>

-----------------------------------------------------------------------------
Init ==
    /\ entries = <<>>
    /\ armed = {} /\ timed = {} /\ lastError = {}
    /\ elapsed = [i \in ArmedId |-> 0]
    /\ watcherTask = NoTask
    /\ task = [t \in ArmedId |-> "done"]
    /\ cancelled = {} /\ stray = {}
    /\ batch = [t \in ArmedId |-> {}]
    /\ todo = [t \in ArmedId |-> {}]
    /\ sim = {}
    /\ call = [c \in Client |-> IdleCall]
    /\ injected = {} /\ withdrawn = {}

Watch(t) ==
    \/ WatchLoop(t)
    \/ \E frame \in Frame : FrameArrives(t, frame)
    \/ \E d \in Dataref : InjectWrite(t, d)
    \/ BackoffEnds(t)
    \/ Unwind(t)

Faults(t) == InjectFails(t) \/ StreamFails(t)

Serve(c) ==
    \/ \E r \in Ref : AskInject(c, r) \/ AskClear(c, r)
    \/ AskClearAll(c)
    \/ FixAllSystems(c)
    \/ \E d \in Dataref : ClientWrite(c, d)
    \/ ClientFails(c)

Next ==
    \/ \E request \in Request : Arm(request)
    \/ \E i \in ArmedId : Disarm(i)
    \/ \E t \in ArmedId : Watch(t) \/ Faults(t)
    \/ \E c \in Client : Serve(c)
    \/ \E d \in Dataref : StrayLands(d)
    \/ Teleport
    \/ Tick

Spec == Init /\ [][Next]_vars

-----------------------------------------------------------------------------
(* What the arming machinery promises.                                     *)

SchedulerTypeOK ==
    /\ entries \in Seq(Request) /\ Len(entries) <= MaxArmed
    /\ armed \subseteq Issued /\ timed \subseteq Issued /\ lastError \subseteq Issued
    /\ elapsed \in [ArmedId -> 0 .. MaxDelay]
    /\ injected \subseteq Issued /\ withdrawn \subseteq Issued
TaskTypeOK ==
    /\ watcherTask \in ArmedId \cup {NoTask}
    /\ task \in [ArmedId -> {"done", "start", "stream", "inject", "backoff"}]
    /\ cancelled \subseteq ArmedId
    /\ batch \in [ArmedId -> SUBSET Issued]
    /\ todo \in [ArmedId -> SUBSET Dataref]
    /\ stray \subseteq Dataref
SimTypeOK ==
    /\ sim \subseteq Dataref
    /\ call \in [Client -> [op : Ops, left : SUBSET Dataref]]
TypeOK == SchedulerTypeOK /\ TaskTypeOK /\ SimTypeOK

Alive(t) == task[t] # "done" /\ t \notin cancelled

\* evaluate looks up the arming time of every armed entry: it is there, also
\* for an entry restored after a failed injection, whatever was disarmed or
\* cleared while the injection was under way.
ArmedHasArmingTime == armed \cup InFlight \subseteq timed

\* Whatever is armed is being watched: _watcher_task is a live task, whatever
\* order cancellations, exits and new armings came in.
ArmedIsWatched == armed # {} => watcherTask # NoTask /\ Alive(watcherTask)

\* There is never a second live watcher beside _watcher_task, so no frame is
\* evaluated twice and no fired entry is injected by two tasks.
OneWatcher == \A t \in ArmedId : Alive(t) => t = watcherTask

\* No armed failures, no background traffic: with nothing armed and nothing
\* being injected there is no watcher task left polling the simulator.
IdleIsQuiet == armed = {} /\ InFlight = {} => watcherTask = NoTask

\* A failed injection does not push a delay back: an entry that was put back
\* with a last_error is already due.
RetryKeepsDeadline ==
    \A i \in armed \cap lastError :
        entries[i].trigger.type = "delay" => elapsed[i] >= entries[i].trigger.at

\* An entry is in one place: an injected or withdrawn one is neither armed nor
\* about to be injected, so no failure fires twice or after it was disarmed.
SettledStaysSettled ==
    /\ (injected \cup withdrawn) \cap (armed \cup InFlight) = {}
    /\ injected \cap withdrawn = {}
    /\ armed \cap InFlight = {}

\* Whatever is armed is watched by exactly one live task, which ends when nothing is armed
\* (server/failure_routes.py, the watcher).
WatchedByExactlyOne == ArmedIsWatched /\ OneWatcher /\ IdleIsQuiet

\* evaluate finds an arming time for whatever is armed, and an entry put back after a
\* failed injection is still due (core/failure_scheduler.py, evaluate and restore).
TimesAreKept == ArmedHasArmingTime /\ RetryKeepsDeadline

\* The invariant behind the ones above, inductive.  Tasks are named after
\* arrivals; a cancelled task has not returned; only a task that is injecting
\* holds a batch, and it always has a write of its first entry to wait for;
\* whatever fired was due.
TaskShape ==
    /\ \A t \in ArmedId : task[t] # "done" => t \in Issued
    /\ \A t \in cancelled : task[t] # "done"
    /\ watcherTask # NoTask => Alive(watcherTask)
BatchShape ==
    \A t \in ArmedId :
        IF Running(t, "inject")
        THEN batch[t] # {} /\ todo[t] # {}
        ELSE batch[t] = {} /\ todo[t] = {}
FiredIsDue ==
    \A i \in InFlight :
        entries[i].trigger.type = "delay" => elapsed[i] >= entries[i].trigger.at
Inv ==
    /\ TypeOK
    /\ TaskShape
    /\ BatchShape
    /\ OneWatcher
    /\ ArmedIsWatched
    /\ IdleIsQuiet
    /\ ArmedHasArmingTime
    /\ SettledStaysSettled
    /\ FiredIsDue
    /\ RetryKeepsDeadline

-----------------------------------------------------------------------------
(* The promise this implements.                                            *)

fate == [i \in ArmedId |->
    IF i \notin Issued THEN "unknown"
    ELSE IF i \in armed THEN "armed"
    ELSE IF i \in InFlight THEN "firing"
    ELSE IF i \in injected THEN "injected"
    ELSE IF i \in withdrawn THEN "withdrawn"
    ELSE "dropped"]

Promise == INSTANCE ArmingPromise WITH ArmedId <- ArmedId, fate <- fate

\* Every step of scheduler, watcher and routes is one step of the promise or
\* leaves it alone: entries fire a frame at a time, settle in arming order,
\* and are dropped only by the DELETE of the last armed entry.
KeepsPromise == Promise!Spec

-----------------------------------------------------------------------------
(* Liveness.  The loop runs every task that can run, the clock advances, an *)
(* HTTP request is answered or times out; and from some point on the        *)
(* simulator stays reachable.                                              *)

LiveSpec ==
    /\ Spec
    /\ \A t \in ArmedId : WF_vars(Watch(t))
    /\ WF_vars(Tick)
    /\ <>[][~ \E t \in ArmedId : Faults(t)]_vars

\* A delay fires late rather than never: once the simulator is back, an entry
\* armed with a delay ends up injected, unless it was withdrawn or dropped.
DelayedFires ==
    \A i \in ArmedId :
        (i \in armed /\ entries[i].trigger.type = "delay")
            ~> fate[i] \in {"injected", "withdrawn", "dropped"}

=============================================================================
