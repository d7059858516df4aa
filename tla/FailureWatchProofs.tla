------------------------- MODULE FailureWatchProofs -------------------------
(***************************************************************************)
(* Inv of FailureWatch is inductive.  The three parts: what is typed; the  *)
(* watcher tasks and their batches; the bookkeeping of the entries, which   *)
(* rests on there being one task with a batch.                              *)
(***************************************************************************)
EXTENDS FailureWatch, TLAPS, WellFoundedInduction

\* A set of naturals that is not empty has a first element.
LEMMA FirstIsMember ==
    ASSUME NEW S \in SUBSET Nat, S # {}
    PROVE  First(S) \in S
<1> DEFINE Less == {p \in Nat \X Nat : p[1] < p[2]}
<1>1. OpToRel(<, Nat) = Less
  BY DEF OpToRel
<1>2. \A y, x \in Nat : y < x => <<y, x>> \in Less
  OBVIOUS
<1> HIDE DEF Less
<1>3. PICK x \in S : \A y \in S : ~ (<<y, x>> \in Less)
  BY <1>1, NatLessThanWellFounded, WFMin
<1>4. \A y \in S : ~ (y < x)
  BY <1>2, <1>3
<1>5. \A y \in S : x <= y
  BY <1>4
<1>6. QED
  BY <1>5 DEF First

\* An arming appends: the new id is fresh, the old entries stay what they are.
LEMMA ArmAppends ==
    ASSUME Inv, NEW request \in Request, Arm(request)
    PROVE  LET n == Len(entries) + 1 IN
           /\ n \in ArmedId /\ n \notin Issued /\ n # NoTask
           /\ Issued' = Issued \cup {n}
           /\ entries' \in Seq(Request) /\ Len(entries') <= MaxArmed
           /\ \A i \in Issued : entries'[i] = entries[i]
BY BoundsAssumption DEF Inv, TypeOK, SchedulerTypeOK, Arm, Issued, ArmedId, NoTask

\* The first of a set of issued entries is one of them, and has somewhere to
\* be written.
LEMMA FirstHasTargets ==
    ASSUME SchedulerTypeOK, NEW S \in SUBSET Issued, S # {}
    PROVE  /\ First(S) \in S
           /\ Targets(First(S)) \in (SUBSET Dataref) \ {{}}
<1>1. First(S) \in S
  BY FirstIsMember DEF SchedulerTypeOK, Issued
<1>2. entries[First(S)] \in Request
  <2>1. \A i \in 1 .. Len(entries) : entries[i] \in Request
    BY DEF SchedulerTypeOK
  <2> QED
    BY <1>1, <2>1 DEF Issued
<1>3. entries[First(S)].ref \in Ref
  BY <1>2, RefAssumption
<1>4. QED
  BY <1>1, <1>3, RefAssumption DEF Targets, RefOf

LEMMA StopWatcherTypes ==
    ASSUME TypeOK, StopWatcherIfIdle, UNCHANGED entries
    PROVE  TaskTypeOK'
BY DEF TypeOK, TaskTypeOK, StopWatcherIfIdle, taskVars, Issued

LEMMA NextOfBatchTypes ==
    ASSUME TypeOK, NEW t \in ArmedId, NEW rest \in SUBSET batch[t], NEW left,
           NextOfBatch(t, rest, left), UNCHANGED <<entries, cancelled, stray>>
    PROVE  TaskTypeOK'
<1>1. rest \in SUBSET Issued
  BY DEF TypeOK, TaskTypeOK
<1>2. rest # {} => Targets(First(rest)) \in SUBSET Dataref
  BY <1>1, FirstHasTargets DEF TypeOK
<1>3. todo' \in [ArmedId -> SUBSET Dataref] /\ batch' \in [ArmedId -> SUBSET Issued]
  BY <1>1, <1>2 DEF TypeOK, TaskTypeOK, NextOfBatch
<1>4. /\ task' \in [ArmedId -> {"done", "start", "stream", "inject", "backoff"}]
      /\ watcherTask' \in ArmedId \cup {NoTask}
  BY DEF TypeOK, TaskTypeOK, NextOfBatch, Exit
<1>5. QED
  BY <1>3, <1>4 DEF TypeOK, TaskTypeOK, Issued

LEMMA TypeStep == Inv /\ [Next]_vars => TypeOK'
<1> SUFFICES ASSUME Inv, [Next]_vars PROVE TypeOK'
  OBVIOUS
<1> TypeOK
  BY DEF Inv
<1> USE BoundsAssumption DEF TypeOK, Issued, ArmedId, NoTask, vars, schedVars, taskVars, history
<1>1. ASSUME NEW request \in Request, Arm(request) PROVE TypeOK'
  <2>1. SchedulerTypeOK'
    BY <1>1, ArmAppends DEF Arm, SchedulerTypeOK
  <2>2. TaskTypeOK'
    BY <1>1, ArmAppends, ZenonT(40) DEF Arm, EnsureWatcherRunning, TaskTypeOK
  <2>3. SimTypeOK'
    BY <1>1 DEF Arm, SimTypeOK
  <2> QED
    BY <2>1, <2>2, <2>3
<1>2. ASSUME NEW i \in ArmedId, Disarm(i) PROVE TypeOK'
  <2>1. SchedulerTypeOK' /\ SimTypeOK'
    BY <1>2 DEF Disarm, SchedulerTypeOK, SimTypeOK
  <2>2. TaskTypeOK'
    BY <1>2, StopWatcherTypes DEF Disarm
  <2> QED
    BY <2>1, <2>2
<1>3. ASSUME NEW t \in ArmedId, WatchLoop(t) PROVE TypeOK'
  BY <1>3 DEF WatchLoop, Exit, SchedulerTypeOK, TaskTypeOK, SimTypeOK
<1>4. ASSUME NEW t \in ArmedId, NEW frame \in Frame, FrameArrives(t, frame) PROVE TypeOK'
  <2>1. SchedulerTypeOK' /\ SimTypeOK'
    BY <1>4 DEF FrameArrives, SchedulerTypeOK, SimTypeOK
  <2>2. Evaluate(frame) \in SUBSET Issued
    BY DEF Evaluate, SchedulerTypeOK
  <2>3. Evaluate(frame) # {} => Targets(First(Evaluate(frame))) \in SUBSET Dataref
    BY <2>2, FirstHasTargets
  <2> HIDE DEF Issued, ArmedId
  <2>4. todo' \in [ArmedId -> SUBSET Dataref]
    BY <1>4, <2>3 DEF FrameArrives, TaskTypeOK
  <2>5. batch' \in [ArmedId -> SUBSET Issued]
    BY <1>4, <2>2 DEF FrameArrives, TaskTypeOK
  <2>6. task' \in [ArmedId -> {"done", "start", "stream", "inject", "backoff"}]
    BY <1>4 DEF FrameArrives, Exit, TaskTypeOK
  <2> QED
    BY <1>4, <2>1, <2>4, <2>5, <2>6 DEF FrameArrives, Exit, TaskTypeOK, Issued
<1>5. ASSUME NEW t \in ArmedId, NEW d \in Dataref, InjectWrite(t, d) PROVE TypeOK'
  <2>1. SimTypeOK'
    BY <1>5 DEF InjectWrite, SimTypeOK
  <2>2. CASE todo[t] # {d}
    BY <1>5, <2>1, <2>2 DEF InjectWrite, SchedulerTypeOK, TaskTypeOK
  <2>3. CASE todo[t] = {d}
    <3>1. First(batch[t]) \in Issued
      BY <1>5, <2>3, FirstHasTargets DEF InjectWrite, Inv, BatchShape, TaskTypeOK
    <3>2. TaskTypeOK'
      BY <1>5, <2>3, NextOfBatchTypes DEF InjectWrite
    <3>3. SchedulerTypeOK'
      BY <1>5, <2>3, <3>1 DEF InjectWrite, SchedulerTypeOK
    <3> QED
      BY <2>1, <3>2, <3>3
  <2> QED
    BY <2>2, <2>3
<1>6. ASSUME NEW t \in ArmedId, InjectFails(t) PROVE TypeOK'
  <2>1. SimTypeOK'
    BY <1>6 DEF InjectFails, SimTypeOK, TaskTypeOK
  <2>2. First(batch[t]) \in Issued
    BY <1>6, FirstHasTargets DEF InjectFails, Inv, BatchShape, TaskTypeOK
  <2>3. TaskTypeOK'
    BY <1>6, NextOfBatchTypes DEF InjectFails
  <2>4. SchedulerTypeOK'
    BY <1>6, <2>2 DEF InjectFails, Restore, SchedulerTypeOK
  <2> QED
    BY <2>1, <2>3, <2>4
<1>7. ASSUME NEW t \in ArmedId, StreamFails(t) PROVE TypeOK'
  BY <1>7 DEF StreamFails, Exit, SchedulerTypeOK, TaskTypeOK, SimTypeOK
<1>8. ASSUME NEW t \in ArmedId, BackoffEnds(t) PROVE TypeOK'
  BY <1>8 DEF BackoffEnds, SchedulerTypeOK, TaskTypeOK, SimTypeOK
<1>9. ASSUME NEW t \in ArmedId, Unwind(t) PROVE TypeOK'
  BY <1>9 DEF Unwind, Exit, SchedulerTypeOK, TaskTypeOK, SimTypeOK
<1>10. ASSUME NEW c \in Client, NEW op \in Ops, NEW left \in SUBSET Dataref, Ask(c, op, left)
       PROVE TypeOK'
  BY <1>10 DEF Ask, SchedulerTypeOK, TaskTypeOK, SimTypeOK
<1>11. ASSUME NEW c \in Client, FixAllSystems(c) PROVE TypeOK'
  BY <1>11 DEF FixAllSystems, Ops, SchedulerTypeOK, TaskTypeOK, SimTypeOK
<1>12. ASSUME NEW c \in Client, NEW d \in Dataref, ClientWrite(c, d) PROVE TypeOK'
  <2>1. SimTypeOK'
    <3>1. IdleCall \in [op : Ops, left : SUBSET Dataref]
      BY DEF IdleCall, Ops
    <3>2. [op |-> call[c].op, left |-> call[c].left \ {d}] \in [op : Ops, left : SUBSET Dataref]
      BY DEF SimTypeOK
    <3>3. call' \in [Client -> [op : Ops, left : SUBSET Dataref]]
      BY <1>12, <3>1, <3>2 DEF ClientWrite, SimTypeOK
    <3>4. sim' \subseteq Dataref
      BY <1>12 DEF ClientWrite, SimTypeOK
    <3> QED
      BY <3>3, <3>4 DEF SimTypeOK
  <2>2. SchedulerTypeOK'
    <3>1. InFlight \subseteq Issued
      BY DEF InFlight, TaskTypeOK
    <3>2. withdrawn' \subseteq Issued
      BY <1>12, <3>1 DEF ClientWrite, SchedulerTypeOK
    <3> QED
      BY <1>12, <3>2 DEF ClientWrite, DisarmAll, SchedulerTypeOK
  <2>3. TaskTypeOK'
    <3>1. CASE call[c].op = "clear_all" /\ call[c].left = {d}
      BY <1>12, <3>1, StopWatcherTypes DEF ClientWrite
    <3>2. CASE ~ (call[c].op = "clear_all" /\ call[c].left = {d})
      BY <1>12, <3>2 DEF ClientWrite, TaskTypeOK
    <3> QED
      BY <3>1, <3>2
  <2> QED
    BY <2>1, <2>2, <2>3
<1>13. ASSUME NEW c \in Client, ClientFails(c) PROVE TypeOK'
  BY <1>13 DEF ClientFails, IdleCall, Ops, SchedulerTypeOK, TaskTypeOK, SimTypeOK
<1>14. ASSUME NEW d \in Dataref, StrayLands(d) PROVE TypeOK'
  BY <1>14 DEF StrayLands, SchedulerTypeOK, TaskTypeOK, SimTypeOK
<1>15. ASSUME Teleport PROVE TypeOK'
  BY <1>15 DEF Teleport, SchedulerTypeOK, TaskTypeOK, SimTypeOK
<1>16. ASSUME Tick PROVE TypeOK'
  <2>1. elapsed' \in [ArmedId -> 0 .. MaxDelay]
    BY <1>16 DEF Tick, SchedulerTypeOK
  <2> QED
    BY <1>16, <2>1 DEF Tick, SchedulerTypeOK, TaskTypeOK, SimTypeOK
<1>17. CASE UNCHANGED vars
  BY <1>17 DEF SchedulerTypeOK, TaskTypeOK, SimTypeOK
<1> QED
  BY <1>1, <1>2, <1>3, <1>4, <1>5, <1>6, <1>7, <1>8, <1>9, <1>10, <1>11, <1>12, <1>13, <1>14,
     <1>15, <1>16, <1>17, RefAssumption
     DEF Next, Watch, Faults, Serve, AskInject, AskClear, AskClearAll, Ops

-----------------------------------------------------------------------------
(* What each step does to the entries in flight.  Only a live watcher holds *)
(* a batch, and there is one.                                               *)

LEMMA InFlightIsBatch ==
    ASSUME Inv, NEW t \in ArmedId, Alive(t)
    PROVE  InFlight = batch[t] /\ \A u \in ArmedId \ {t} : batch[u] = {}
<1>1. \A u \in ArmedId \ {t} : ~ Alive(u)
  BY DEF Inv, OneWatcher
<1>2. \A u \in ArmedId \ {t} : batch[u] = {}
  BY <1>1 DEF Inv, BatchShape, Running, Alive
<1>3. QED
  BY <1>2 DEF InFlight

LEMMA NoWatcherNoInFlight ==
    ASSUME Inv, watcherTask = NoTask
    PROVE  InFlight = {} /\ \A u \in ArmedId : batch[u] = {}
<1>1. \A u \in ArmedId : ~ Alive(u)
  BY DEF Inv, OneWatcher, ArmedId, NoTask
<1>2. \A u \in ArmedId : batch[u] = {}
  BY <1>1 DEF Inv, BatchShape, Running, Alive
<1>3. QED
  BY <1>2 DEF InFlight

LEMMA BatchReplaced ==
    ASSUME Inv, NEW t \in ArmedId, Alive(t), NEW S, batch' = [batch EXCEPT ![t] = S]
    PROVE  InFlight' = S
<1>1. batch'[t] = S /\ \A u \in ArmedId \ {t} : batch'[u] = {}
  BY InFlightIsBatch DEF Inv, TypeOK, TaskTypeOK
<1>2. QED
  BY <1>1 DEF InFlight

LEMMA BatchUnchanged ==
    ASSUME UNCHANGED batch
    PROVE  InFlight' = InFlight
BY DEF InFlight

LEMMA StopEmptiesInFlight ==
    ASSUME Inv, StopWatcherIfIdle
    PROVE  InFlight' = IF armed' = {} THEN {} ELSE InFlight
<1>1. CASE armed' # {}
  BY <1>1, BatchUnchanged DEF StopWatcherIfIdle, taskVars
<1>2. CASE armed' = {} /\ watcherTask = NoTask
  BY <1>2, BatchUnchanged, NoWatcherNoInFlight DEF StopWatcherIfIdle, taskVars
<1>3. CASE armed' = {} /\ watcherTask # NoTask
  <2>1. watcherTask \in ArmedId /\ Alive(watcherTask)
    BY <1>3 DEF Inv, TypeOK, TaskTypeOK, TaskShape
  <2> QED
    BY <1>3, <2>1, BatchReplaced DEF StopWatcherIfIdle
<1>4. QED
  BY <1>1, <1>2, <1>3

LEMMA FrameFires ==
    ASSUME Inv, NEW t \in ArmedId, NEW frame \in Frame, FrameArrives(t, frame)
    PROVE  /\ InFlight = {} /\ armed # {}
           /\ InFlight' = Evaluate(frame)
           /\ armed' = armed \ Evaluate(frame)
<1>1. Alive(t)
  BY DEF FrameArrives, Running, Alive
<1>2. InFlight = {}
  <2>1. batch[t] = {}
    BY DEF FrameArrives, Running, Inv, BatchShape
  <2> QED
    BY <1>1, <2>1, InFlightIsBatch
<1>3. armed # {}
  BY <1>1, <1>2 DEF Inv, IdleIsQuiet, OneWatcher, ArmedId, NoTask
<1>4. armed' = armed \ Evaluate(frame) /\ batch' = [batch EXCEPT ![t] = Evaluate(frame)]
  BY <1>3 DEF FrameArrives
<1>5. QED
  BY <1>1, <1>2, <1>3, <1>4, BatchReplaced

LEMMA InjectingHasFirst ==
    ASSUME Inv, NEW t \in ArmedId, Running(t, "inject")
    PROVE  /\ Alive(t) /\ InFlight = batch[t] /\ batch[t] \in SUBSET Issued
           /\ First(batch[t]) \in batch[t]
<1>1. Alive(t)
  BY DEF Running, Alive
<1>2. batch[t] # {} /\ batch[t] \in SUBSET Issued
  BY DEF Inv, BatchShape, TypeOK, TaskTypeOK
<1>3. QED
  BY <1>1, <1>2, InFlightIsBatch, FirstHasTargets DEF Inv, TypeOK

LEMMA WriteSettles ==
    ASSUME Inv, NEW t \in ArmedId, NEW d \in Dataref, InjectWrite(t, d)
    PROVE  \/ InFlight' = InFlight /\ injected' = injected
           \/ \E i \in InFlight : InFlight' = InFlight \ {i} /\ injected' = injected \cup {i}
<1>1. Running(t, "inject")
  BY DEF InjectWrite
<1>2. CASE todo[t] # {d}
  BY <1>2, BatchUnchanged DEF InjectWrite
<1>3. CASE todo[t] = {d}
  BY <1>1, <1>3, InjectingHasFirst, BatchReplaced DEF InjectWrite, NextOfBatch
<1>4. QED
  BY <1>2, <1>3

LEMMA FailurePutsBack ==
    ASSUME Inv, NEW t \in ArmedId, InjectFails(t)
    PROVE  \E i \in InFlight :
               /\ InFlight' = InFlight \ {i}
               /\ armed' = armed \cup {i}
               /\ lastError' = lastError \cup {i}
<1>1. Running(t, "inject")
  BY DEF InjectFails
<1>2. QED
  BY <1>1, InjectingHasFirst, BatchReplaced DEF InjectFails, Restore, NextOfBatch

LEMMA StopKeepsTaskShape ==
    ASSUME TypeOK, TaskShape, StopWatcherIfIdle, UNCHANGED entries
    PROVE  TaskShape'
<1>1. CASE armed' # {} \/ watcherTask = NoTask
  BY <1>1 DEF StopWatcherIfIdle, taskVars, TaskShape, Alive, Issued
<1>2. CASE armed' = {} /\ watcherTask # NoTask
  <2>1. watcherTask' = NoTask /\ task' = task /\ cancelled' = cancelled \cup {watcherTask}
    BY <1>2 DEF StopWatcherIfIdle
  <2>2. task[watcherTask] # "done"
    BY <1>2 DEF TaskShape, Alive
  <2> QED
    BY <2>1, <2>2 DEF TaskShape, Issued
<1>3. QED
  BY <1>1, <1>2

LEMMA NextOfBatchShape ==
    ASSUME TypeOK, BatchShape, NEW t \in ArmedId, NEW rest, NEW left, Running(t, "inject"),
           NextOfBatch(t, rest, left), UNCHANGED cancelled,
           rest # {} => Targets(First(rest)) # {}
    PROVE  BatchShape'
<1> USE DEF TypeOK, TaskTypeOK
<1>1. \A u \in ArmedId \ {t} : batch'[u] = batch[u] /\ todo'[u] = todo[u] /\ task'[u] = task[u]
  BY DEF NextOfBatch, Exit
<1>2. CASE rest # {}
  <2>1. batch'[t] = rest /\ todo'[t] # {} /\ task' = task
    BY <1>2 DEF NextOfBatch
  <2> QED
    BY <1>1, <1>2, <2>1 DEF BatchShape, Running
<1>3. CASE rest = {}
  <2>1. batch'[t] = {} /\ todo'[t] = {} /\ task'[t] # "inject"
    BY <1>3 DEF NextOfBatch, Exit
  <2> QED
    BY <1>1, <2>1 DEF BatchShape, Running
<1>4. QED
  BY <1>2, <1>3

LEMMA TaskShapeStep == Inv /\ [Next]_vars => TaskShape'
<1> SUFFICES ASSUME Inv, [Next]_vars PROVE TaskShape'
  OBVIOUS
<1> USE DEF Inv, TypeOK, SchedulerTypeOK, TaskTypeOK, schedVars, taskVars, history,
            ArmedId, NoTask, TaskShape, OneWatcher, Alive
<1>1. ASSUME NEW request \in Request, Arm(request) PROVE TaskShape'
  <2> DEFINE n == Len(entries) + 1
  <2>1. n \in ArmedId /\ n # NoTask /\ n \notin cancelled /\ Issued' = Issued \cup {n}
    BY <1>1, ArmAppends
  <2>2. cancelled' = cancelled
    BY <1>1 DEF Arm, EnsureWatcherRunning
  <2> HIDE DEF n
  <2>3. CASE watcherTask # NoTask
    <3>1. UNCHANGED <<watcherTask, task>>
      BY <1>1, <2>3 DEF Arm, EnsureWatcherRunning
    <3> QED
      BY <2>1, <2>2, <3>1
  <2>4. CASE watcherTask = NoTask
    <3>1. watcherTask' = n /\ task' = [task EXCEPT ![n] = "start"]
      BY <1>1, <2>4 DEF Arm, EnsureWatcherRunning, n
    <3> QED
      BY <2>1, <2>2, <3>1
  <2> QED
    BY <2>3, <2>4
<1>2. ASSUME NEW i \in ArmedId, Disarm(i) PROVE TaskShape'
  BY <1>2, StopKeepsTaskShape DEF Disarm
<1>3. ASSUME NEW t \in ArmedId, WatchLoop(t) PROVE TaskShape'
  BY <1>3 DEF WatchLoop, Exit, Running, Issued
<1>4. ASSUME NEW t \in ArmedId, NEW frame \in Frame, FrameArrives(t, frame) PROVE TaskShape'
  BY <1>4 DEF FrameArrives, Exit, Running, Issued
<1>5. ASSUME NEW t \in ArmedId, NEW d \in Dataref, InjectWrite(t, d) PROVE TaskShape'
  <2>1. CASE todo[t] # {d}
    BY <1>5, <2>1 DEF InjectWrite, Issued
  <2>2. CASE todo[t] = {d}
    BY <1>5, <2>2 DEF InjectWrite, NextOfBatch, Exit, Running, Issued
  <2> QED
    BY <2>1, <2>2
<1>6. ASSUME NEW t \in ArmedId, InjectFails(t) PROVE TaskShape'
  BY <1>6 DEF InjectFails, Restore, NextOfBatch, Exit, Running, Issued
<1>7. ASSUME NEW t \in ArmedId, StreamFails(t) PROVE TaskShape'
  BY <1>7 DEF StreamFails, Exit, Running, Issued
<1>8. ASSUME NEW t \in ArmedId, BackoffEnds(t) PROVE TaskShape'
  BY <1>8 DEF BackoffEnds, Running, Issued
<1>9. ASSUME NEW t \in ArmedId, Unwind(t) PROVE TaskShape'
  BY <1>9 DEF Unwind, Exit, Issued
<1>10. ASSUME NEW c \in Client, NEW op \in Ops, NEW left \in SUBSET Dataref, Ask(c, op, left)
       PROVE TaskShape'
  BY <1>10 DEF Ask, Issued
<1>11. ASSUME NEW c \in Client, FixAllSystems(c) PROVE TaskShape'
  BY <1>11 DEF FixAllSystems, Issued
<1>12. ASSUME NEW c \in Client, NEW d \in Dataref, ClientWrite(c, d) PROVE TaskShape'
  <2>1. CASE call[c].op = "clear_all" /\ call[c].left = {d}
    BY <1>12, <2>1, StopKeepsTaskShape DEF ClientWrite
  <2>2. CASE ~ (call[c].op = "clear_all" /\ call[c].left = {d})
    <3>1. UNCHANGED <<entries, watcherTask, task, cancelled>>
      BY <1>12, <2>2 DEF ClientWrite
    <3> QED
      BY <3>1 DEF Issued
  <2> QED
    BY <2>1, <2>2
<1>13. ASSUME NEW c \in Client, ClientFails(c) PROVE TaskShape'
  BY <1>13 DEF ClientFails, Issued
<1>14. ASSUME NEW d \in Dataref, StrayLands(d) PROVE TaskShape'
  BY <1>14 DEF StrayLands, Issued
<1>15. ASSUME Teleport PROVE TaskShape'
  BY <1>15 DEF Teleport, Issued
<1>16. ASSUME Tick PROVE TaskShape'
  BY <1>16 DEF Tick, Issued
<1>17. CASE UNCHANGED vars
  BY <1>17 DEF vars, Issued
<1> QED
  BY <1>1, <1>2, <1>3, <1>4, <1>5, <1>6, <1>7, <1>8, <1>9,
     <1>10, <1>11, <1>12, <1>13, <1>14, <1>15, <1>16, <1>17, RefAssumption
     DEF Next, Watch, Faults, Serve, AskInject, AskClear, AskClearAll, Ops

LEMMA OneWatcherStep == Inv /\ [Next]_vars => OneWatcher'
<1> SUFFICES ASSUME Inv, [Next]_vars PROVE OneWatcher'
  OBVIOUS
<1> USE DEF Inv, TypeOK, SchedulerTypeOK, TaskTypeOK, schedVars, taskVars, history,
            ArmedId, NoTask, TaskShape, OneWatcher, Alive
<1>1. ASSUME NEW request \in Request, Arm(request) PROVE OneWatcher'
  <2>1. CASE watcherTask # NoTask
    BY <1>1, <2>1 DEF Arm, EnsureWatcherRunning
  <2>2. CASE watcherTask = NoTask
    <3> DEFINE n == Len(entries) + 1
    <3>1. n \in ArmedId
      BY <1>1, ArmAppends
    <3>2. watcherTask' = n /\ task' = [task EXCEPT ![n] = "start"] /\ cancelled' = cancelled
      BY <1>1, <2>2 DEF Arm, EnsureWatcherRunning
    <3> HIDE DEF n
    <3> QED
      BY <2>2, <3>1, <3>2
  <2> QED
    BY <2>1, <2>2
<1>2. ASSUME NEW i \in ArmedId, Disarm(i) PROVE OneWatcher'
  BY <1>2 DEF Disarm, StopWatcherIfIdle
<1>3. ASSUME NEW t \in ArmedId, WatchLoop(t) PROVE OneWatcher'
  BY <1>3 DEF WatchLoop, Exit, Running
<1>4. ASSUME NEW t \in ArmedId, NEW frame \in Frame, FrameArrives(t, frame) PROVE OneWatcher'
  BY <1>4 DEF FrameArrives, Exit, Running
<1>5. ASSUME NEW t \in ArmedId, NEW d \in Dataref, InjectWrite(t, d) PROVE OneWatcher'
  BY <1>5, ZenonT(40) DEF InjectWrite, NextOfBatch, Exit, Running
<1>6. ASSUME NEW t \in ArmedId, InjectFails(t) PROVE OneWatcher'
  <2> DEFINE rest == batch[t] \ {First(batch[t])}
  <2>1. NextOfBatch(t, rest, armed \cup {First(batch[t])}) /\ cancelled' = cancelled
    BY <1>6 DEF InjectFails
  <2> HIDE DEF rest
  <2>2. task' = task \/ task' = [task EXCEPT ![t] = "stream"]
    BY <2>1 DEF NextOfBatch
  <2>3. watcherTask' = watcherTask
    BY <2>1 DEF NextOfBatch
  <2> QED
    BY <1>6, <2>1, <2>2, <2>3 DEF InjectFails, Running
<1>7. ASSUME NEW t \in ArmedId, StreamFails(t) PROVE OneWatcher'
  BY <1>7 DEF StreamFails, Exit, Running
<1>8. ASSUME NEW t \in ArmedId, BackoffEnds(t) PROVE OneWatcher'
  BY <1>8 DEF BackoffEnds, Running
<1>9. ASSUME NEW t \in ArmedId, Unwind(t) PROVE OneWatcher'
  BY <1>9 DEF Unwind, Exit
<1>10. ASSUME NEW c \in Client, NEW op \in Ops, NEW left \in SUBSET Dataref, Ask(c, op, left)
       PROVE OneWatcher'
  BY <1>10 DEF Ask
<1>11. ASSUME NEW c \in Client, FixAllSystems(c) PROVE OneWatcher'
  BY <1>11 DEF FixAllSystems
<1>12. ASSUME NEW c \in Client, NEW d \in Dataref, ClientWrite(c, d) PROVE OneWatcher'
  BY <1>12 DEF ClientWrite, DisarmAll, StopWatcherIfIdle
<1>13. ASSUME NEW c \in Client, ClientFails(c) PROVE OneWatcher'
  BY <1>13 DEF ClientFails
<1>14. ASSUME NEW d \in Dataref, StrayLands(d) PROVE OneWatcher'
  BY <1>14 DEF StrayLands
<1>15. ASSUME Teleport PROVE OneWatcher'
  BY <1>15 DEF Teleport
<1>16. ASSUME Tick PROVE OneWatcher'
  BY <1>16 DEF Tick
<1>17. CASE UNCHANGED vars
  BY <1>17 DEF vars
<1> QED
  BY <1>1, <1>2, <1>3, <1>4, <1>5, <1>6, <1>7, <1>8, <1>9,
     <1>10, <1>11, <1>12, <1>13, <1>14, <1>15, <1>16, <1>17, RefAssumption
     DEF Next, Watch, Faults, Serve, AskInject, AskClear, AskClearAll, Ops

LEMMA ArmedIsWatchedStep == Inv /\ [Next]_vars => ArmedIsWatched'
<1> SUFFICES ASSUME Inv, [Next]_vars PROVE ArmedIsWatched'
  OBVIOUS
<1> USE DEF Inv, TypeOK, SchedulerTypeOK, TaskTypeOK, schedVars, taskVars, history,
            ArmedId, NoTask, TaskShape, OneWatcher, ArmedIsWatched, Alive
<1>1. ASSUME NEW request \in Request, Arm(request) PROVE ArmedIsWatched'
  <2>1. CASE watcherTask # NoTask
    BY <1>1, <2>1 DEF Arm, EnsureWatcherRunning
  <2>2. CASE watcherTask = NoTask
    <3> DEFINE n == Len(entries) + 1
    <3>1. n \in ArmedId /\ n # NoTask /\ n \notin cancelled
      BY <1>1, ArmAppends
    <3>2. watcherTask' = n /\ task' = [task EXCEPT ![n] = "start"] /\ cancelled' = cancelled
      BY <1>1, <2>2 DEF Arm, EnsureWatcherRunning
    <3> HIDE DEF n
    <3> QED
      BY <2>2, <3>1, <3>2
  <2> QED
    BY <2>1, <2>2
<1>2. ASSUME NEW i \in ArmedId, Disarm(i) PROVE ArmedIsWatched'
  BY <1>2 DEF Disarm, StopWatcherIfIdle
<1>3. ASSUME NEW t \in ArmedId, WatchLoop(t) PROVE ArmedIsWatched'
  BY <1>3 DEF WatchLoop, Exit, Running
<1>4. ASSUME NEW t \in ArmedId, NEW frame \in Frame, FrameArrives(t, frame)
       PROVE ArmedIsWatched'
  BY <1>4 DEF FrameArrives, Exit, Running
<1>5. ASSUME NEW t \in ArmedId, NEW d \in Dataref, InjectWrite(t, d) PROVE ArmedIsWatched'
  BY <1>5 DEF InjectWrite, NextOfBatch, Exit, Running
<1>6. ASSUME NEW t \in ArmedId, InjectFails(t) PROVE ArmedIsWatched'
  <2> DEFINE rest == batch[t] \ {First(batch[t])}
  <2>1. NextOfBatch(t, rest, armed \cup {First(batch[t])}) /\ cancelled' = cancelled
    BY <1>6 DEF InjectFails
  <2> HIDE DEF rest
  <2>2. task' = task \/ task' = [task EXCEPT ![t] = "stream"]
    BY <2>1 DEF NextOfBatch
  <2>3. watcherTask' = watcherTask
    BY <2>1 DEF NextOfBatch
  <2>4. watcherTask = t /\ task[t] = "inject" /\ t \notin cancelled
    BY <1>6 DEF InjectFails, Running
  <2>5. task'[t] # "done"
    BY <2>2, <2>4
  <2>6. t # NoTask /\ t \notin cancelled'
    BY <2>1, <2>4
  <2> QED
    BY <2>3, <2>4, <2>5, <2>6
<1>7. ASSUME NEW t \in ArmedId, StreamFails(t) PROVE ArmedIsWatched'
  BY <1>7 DEF StreamFails, Exit, Running
<1>8. ASSUME NEW t \in ArmedId, BackoffEnds(t) PROVE ArmedIsWatched'
  BY <1>8 DEF BackoffEnds, Running
<1>9. ASSUME NEW t \in ArmedId, Unwind(t) PROVE ArmedIsWatched'
  BY <1>9 DEF Unwind, Exit
<1>10. ASSUME NEW c \in Client, NEW op \in Ops, NEW left \in SUBSET Dataref, Ask(c, op, left)
       PROVE ArmedIsWatched'
  BY <1>10 DEF Ask
<1>11. ASSUME NEW c \in Client, FixAllSystems(c) PROVE ArmedIsWatched'
  BY <1>11 DEF FixAllSystems
<1>12. ASSUME NEW c \in Client, NEW d \in Dataref, ClientWrite(c, d) PROVE ArmedIsWatched'
  <2>1. CASE armed' = {}
    BY <2>1
  <2>2. CASE armed' # {}
    <3>1. armed' = armed /\ UNCHANGED taskVars
      BY <1>12, <2>2 DEF ClientWrite, DisarmAll
    <3> QED
      BY <3>1
  <2> QED
    BY <2>1, <2>2
<1>13. ASSUME NEW c \in Client, ClientFails(c) PROVE ArmedIsWatched'
  BY <1>13 DEF ClientFails
<1>14. ASSUME NEW d \in Dataref, StrayLands(d) PROVE ArmedIsWatched'
  BY <1>14 DEF StrayLands
<1>15. ASSUME Teleport PROVE ArmedIsWatched'
  BY <1>15 DEF Teleport
<1>16. ASSUME Tick PROVE ArmedIsWatched'
  BY <1>16 DEF Tick
<1>17. CASE UNCHANGED vars
  BY <1>17 DEF vars
<1> QED
  BY <1>1, <1>2, <1>3, <1>4, <1>5, <1>6, <1>7, <1>8, <1>9,
     <1>10, <1>11, <1>12, <1>13, <1>14, <1>15, <1>16, <1>17, RefAssumption
     DEF Next, Watch, Faults, Serve, AskInject, AskClear, AskClearAll, Ops

LEMMA BatchShapeStep == Inv /\ [Next]_vars => BatchShape'
<1> SUFFICES ASSUME Inv, [Next]_vars PROVE BatchShape'
  OBVIOUS
<1> USE DEF Inv, TypeOK, SchedulerTypeOK, TaskTypeOK, schedVars, taskVars, history,
            ArmedId, NoTask, TaskShape, BatchShape, Running, OneWatcher, Alive
<1>1. ASSUME NEW request \in Request, Arm(request) PROVE BatchShape'
  BY <1>1, ArmAppends, ZenonT(40) DEF Arm, EnsureWatcherRunning
<1>2. ASSUME NEW i \in ArmedId, Disarm(i) PROVE BatchShape'
  BY <1>2 DEF Disarm, StopWatcherIfIdle
<1>3. ASSUME NEW t \in ArmedId, WatchLoop(t) PROVE BatchShape'
  BY <1>3 DEF WatchLoop, Exit, Running
<1>4. ASSUME NEW t \in ArmedId, NEW frame \in Frame, FrameArrives(t, frame) PROVE BatchShape'
  <2>1. Evaluate(frame) \in SUBSET Issued
    BY DEF Evaluate
  <2>2. Evaluate(frame) # {} => Targets(First(Evaluate(frame))) # {}
    BY <2>1, FirstHasTargets
  <2>3. armed # {}
    BY <1>4, FrameFires
  <2> QED
    BY <1>4, <2>2, <2>3 DEF FrameArrives
<1>5. ASSUME NEW t \in ArmedId, NEW d \in Dataref, InjectWrite(t, d) PROVE BatchShape'
  <2>1. CASE todo[t] # {d}
    <3>1. todo' = [todo EXCEPT ![t] = todo[t] \ {d}] /\ UNCHANGED <<batch, task, cancelled>>
      BY <1>5, <2>1 DEF InjectWrite
    <3>2. todo[t] \ {d} # {}
      BY <1>5, <2>1 DEF InjectWrite
    <3>3. Running(t, "inject")
      BY <1>5 DEF InjectWrite
    <3> QED
      BY <3>1, <3>2, <3>3
  <2>2. CASE todo[t] = {d}
    <3> DEFINE rest == batch[t] \ {First(batch[t])}
    <3>1. rest \in SUBSET Issued
      OBVIOUS
    <3>2. rest # {} => Targets(First(rest)) # {}
      BY <3>1, FirstHasTargets
    <3>3. NextOfBatch(t, rest, armed) /\ cancelled' = cancelled
      BY <1>5, <2>2 DEF InjectWrite
    <3> HIDE DEF rest
    <3> QED
      BY <1>5, <3>2, <3>3, NextOfBatchShape DEF InjectWrite
  <2> QED
    BY <2>1, <2>2
<1>6. ASSUME NEW t \in ArmedId, InjectFails(t) PROVE BatchShape'
  <2> DEFINE rest == batch[t] \ {First(batch[t])}
  <2>1. rest \in SUBSET Issued
    OBVIOUS
  <2>2. rest # {} => Targets(First(rest)) # {}
    BY <2>1, FirstHasTargets
  <2>3. NextOfBatch(t, rest, armed \cup {First(batch[t])}) /\ cancelled' = cancelled
    BY <1>6 DEF InjectFails
  <2> HIDE DEF rest
  <2> QED
    BY <1>6, <2>2, <2>3, NextOfBatchShape DEF InjectFails
<1>7. ASSUME NEW t \in ArmedId, StreamFails(t) PROVE BatchShape'
  BY <1>7 DEF StreamFails, Exit, Running
<1>8. ASSUME NEW t \in ArmedId, BackoffEnds(t) PROVE BatchShape'
  BY <1>8 DEF BackoffEnds, Running
<1>9. ASSUME NEW t \in ArmedId, Unwind(t) PROVE BatchShape'
  BY <1>9 DEF Unwind, Exit
<1>10. ASSUME NEW c \in Client, NEW op \in Ops, NEW left \in SUBSET Dataref, Ask(c, op, left)
       PROVE BatchShape'
  BY <1>10 DEF Ask
<1>11. ASSUME NEW c \in Client, FixAllSystems(c) PROVE BatchShape'
  BY <1>11 DEF FixAllSystems
<1>12. ASSUME NEW c \in Client, NEW d \in Dataref, ClientWrite(c, d) PROVE BatchShape'
  BY <1>12 DEF ClientWrite, DisarmAll, StopWatcherIfIdle
<1>13. ASSUME NEW c \in Client, ClientFails(c) PROVE BatchShape'
  BY <1>13 DEF ClientFails
<1>14. ASSUME NEW d \in Dataref, StrayLands(d) PROVE BatchShape'
  BY <1>14 DEF StrayLands
<1>15. ASSUME Teleport PROVE BatchShape'
  BY <1>15 DEF Teleport
<1>16. ASSUME Tick PROVE BatchShape'
  BY <1>16 DEF Tick
<1>17. CASE UNCHANGED vars
  BY <1>17 DEF vars
<1> QED
  BY <1>1, <1>2, <1>3, <1>4, <1>5, <1>6, <1>7, <1>8, <1>9,
     <1>10, <1>11, <1>12, <1>13, <1>14, <1>15, <1>16, <1>17, RefAssumption
     DEF Next, Watch, Faults, Serve, AskInject, AskClear, AskClearAll, Ops


-----------------------------------------------------------------------------
(* The bookkeeping of the entries, in terms of what is in flight.           *)

LEMMA InFlightIssued == Inv => InFlight \subseteq Issued
BY DEF Inv, TypeOK, TaskTypeOK, InFlight

\* Steps that fire nothing keep whatever is due due.
LEMMA DueKept ==
    ASSUME Inv,
           \A i \in Issued : entries'[i] = entries[i],
           \A i \in Issued : elapsed'[i] >= elapsed[i] /\ elapsed'[i] \in Nat,
           InFlight' \subseteq InFlight,
           armed' \cap lastError' \subseteq (armed \cap lastError) \cup InFlight
    PROVE  FiredIsDue' /\ RetryKeepsDeadline'
<1> DEFINE Due(i) == entries[i].trigger.type = "delay" => elapsed[i] >= entries[i].trigger.at
<1>1. \A i \in Issued : entries[i].trigger \in Trigger /\ elapsed[i] \in Nat
  <2>1. \A i \in 1 .. Len(entries) : entries[i] \in Request
    BY DEF Inv, TypeOK, SchedulerTypeOK
  <2>2. \A i \in Issued : i \in ArmedId
    BY BoundsAssumption DEF Inv, TypeOK, SchedulerTypeOK, Issued, ArmedId
  <2>3. \A r \in Request : r.trigger \in Trigger
    BY RefAssumption
  <2>4. \A i \in Issued : elapsed[i] \in Nat
    BY <2>2, BoundsAssumption DEF Inv, TypeOK, SchedulerTypeOK
  <2> QED
    BY <2>1, <2>3, <2>4 DEF Issued
<1>2. \A tr \in Trigger : tr.type = "delay" => tr.at \in Nat
  BY DEF Trigger, LevelTrigger, DelayTrigger
<1>3. \A i \in (armed \cap lastError) \cup InFlight : i \in Issued /\ Due(i)
  BY InFlightIssued DEF Inv, FiredIsDue, RetryKeepsDeadline, TypeOK, SchedulerTypeOK
<1>4. ASSUME NEW i \in (armed \cap lastError) \cup InFlight
      PROVE  entries'[i].trigger.type = "delay" => elapsed'[i] >= entries'[i].trigger.at
  <2>1. i \in Issued /\ Due(i)
    BY <1>3, <1>4
  <2>2. entries'[i] = entries[i] /\ elapsed'[i] >= elapsed[i] /\ elapsed'[i] \in Nat
    BY <2>1
  <2>3. SUFFICES ASSUME entries[i].trigger.type = "delay"
                 PROVE  elapsed'[i] >= entries[i].trigger.at
    BY <2>2
  <2>4. entries[i].trigger.at \in Nat /\ elapsed[i] \in Nat
    BY <1>1, <1>2, <2>1, <2>3
  <2> QED
    BY <2>1, <2>2, <2>3, <2>4
<1>5. QED
  BY <1>4 DEF FiredIsDue, RetryKeepsDeadline

\* A step that leaves every entry where it is keeps the bookkeeping.
Bookkeeping ==
    ArmedHasArmingTime /\ SettledStaysSettled /\ FiredIsDue /\ RetryKeepsDeadline

LEMMA ElapsedIsNat ==
    ASSUME Inv
    PROVE  \A i \in Issued : i \in ArmedId /\ elapsed[i] \in Nat
<1>1. \A i \in Issued : i \in ArmedId
  BY BoundsAssumption DEF Inv, TypeOK, SchedulerTypeOK, Issued, ArmedId
<1>2. QED
  BY <1>1, BoundsAssumption DEF Inv, TypeOK, SchedulerTypeOK

LEMMA BookkeepingKept ==
    ASSUME Inv, UNCHANGED <<entries, schedVars, batch, history>>
    PROVE  Bookkeeping'
<1>1. InFlight' = InFlight
  BY BatchUnchanged
<1>2. FiredIsDue' /\ RetryKeepsDeadline'
  BY <1>1, DueKept, ElapsedIsNat DEF schedVars
<1>3. QED
  BY <1>1, <1>2
     DEF Bookkeeping, Inv, ArmedHasArmingTime, SettledStaysSettled, schedVars, history

\* Taking entries out of `armed`, and stopping the watcher if none is left.
LEMMA BookkeepingWithdrawn ==
    ASSUME Inv, StopWatcherIfIdle, NEW gone \in SUBSET armed, armed' = armed \ gone,
           timed \ gone \subseteq timed',
           \/ withdrawn' = withdrawn \cup gone
           \/ armed' = {} /\ withdrawn' = withdrawn \cup gone \cup InFlight,
           UNCHANGED <<entries, elapsed, lastError, injected>>
    PROVE  Bookkeeping'
<1>1. InFlight' = IF armed' = {} THEN {} ELSE InFlight
  BY StopEmptiesInFlight
<1>2. FiredIsDue' /\ RetryKeepsDeadline'
  BY <1>1, DueKept, ElapsedIsNat
<1>3. ArmedHasArmingTime'
  BY <1>1 DEF Inv, ArmedHasArmingTime, SettledStaysSettled
<1>4. SettledStaysSettled'
  BY <1>1 DEF Inv, SettledStaysSettled
<1>5. QED
  BY <1>2, <1>3, <1>4 DEF Bookkeeping

LEMMA BookkeepingStep == Inv /\ [Next]_vars => Bookkeeping'
<1> SUFFICES ASSUME Inv, [Next]_vars PROVE Bookkeeping'
  OBVIOUS
<1>1. ASSUME NEW request \in Request, Arm(request) PROVE Bookkeeping'
  <2> DEFINE n == Len(entries) + 1
  <2>1. n \notin Issued /\ \A i \in Issued : entries'[i] = entries[i]
    BY <1>1, ArmAppends
  <2>2. /\ armed' = armed \cup {n} /\ timed' = timed \cup {n}
        /\ UNCHANGED <<batch, elapsed, lastError, injected, withdrawn>>
    BY <1>1 DEF Arm, EnsureWatcherRunning, taskVars, history
  <2> HIDE DEF n
  <2>3. InFlight' = InFlight /\ InFlight \subseteq Issued
    BY <2>2, BatchUnchanged, InFlightIssued
  <2>4. /\ armed \subseteq Issued /\ lastError \subseteq Issued
        /\ injected \subseteq Issued /\ withdrawn \subseteq Issued
    BY DEF Inv, TypeOK, SchedulerTypeOK
  <2>5. armed' \cap lastError' = armed \cap lastError
    BY <2>1, <2>2, <2>4
  <2>6. FiredIsDue' /\ RetryKeepsDeadline'
    BY <2>1, <2>2, <2>3, <2>5, DueKept, ElapsedIsNat
  <2>7. ArmedHasArmingTime' /\ SettledStaysSettled'
    BY <2>1, <2>2, <2>3, <2>4 DEF Inv, ArmedHasArmingTime, SettledStaysSettled
  <2> QED
    BY <2>6, <2>7 DEF Bookkeeping
<1>2. ASSUME NEW i \in ArmedId, Disarm(i) PROVE Bookkeeping'
  <2>1. {i} \in SUBSET armed /\ armed' = armed \ {i}
    BY <1>2 DEF Disarm
  <2>2. /\ timed \ {i} \subseteq timed' /\ withdrawn' = withdrawn \cup {i}
        /\ UNCHANGED <<entries, elapsed, lastError, injected>>
        /\ StopWatcherIfIdle
    BY <1>2 DEF Disarm
  <2> QED
    BY <2>1, <2>2, BookkeepingWithdrawn
<1>3. ASSUME NEW t \in ArmedId, WatchLoop(t) PROVE Bookkeeping'
  BY <1>3, BookkeepingKept DEF WatchLoop, Exit, taskVars, schedVars, history
<1>4. ASSUME NEW t \in ArmedId, NEW frame \in Frame, FrameArrives(t, frame) PROVE Bookkeeping'
  <2>1. /\ InFlight = {} /\ InFlight' = Evaluate(frame) /\ armed' = armed \ Evaluate(frame)
        /\ Evaluate(frame) \subseteq armed
    BY <1>4, FrameFires DEF Evaluate
  <2>2. UNCHANGED <<entries, timed, elapsed, lastError, injected, withdrawn>>
    BY <1>4 DEF FrameArrives, history
  <2>3. ArmedHasArmingTime' /\ SettledStaysSettled'
    BY <2>1, <2>2 DEF Inv, ArmedHasArmingTime, SettledStaysSettled
  <2>4. FiredIsDue'
    BY <2>1, <2>2 DEF FiredIsDue, Evaluate, IsSatisfied
  <2>5. RetryKeepsDeadline'
    BY <2>1, <2>2 DEF Inv, RetryKeepsDeadline
  <2> QED
    BY <2>3, <2>4, <2>5 DEF Bookkeeping
<1>5. ASSUME NEW t \in ArmedId, NEW d \in Dataref, InjectWrite(t, d) PROVE Bookkeeping'
  <2>1. /\ UNCHANGED <<entries, schedVars, withdrawn>>
        /\ InFlight' \subseteq InFlight
        /\ injected' \ injected \subseteq InFlight \ InFlight'
    BY <1>5, WriteSettles DEF InjectWrite
  <2>2. FiredIsDue' /\ RetryKeepsDeadline'
    BY <2>1, DueKept, ElapsedIsNat DEF schedVars
  <2>3. ArmedHasArmingTime' /\ SettledStaysSettled'
    BY <2>1 DEF Inv, ArmedHasArmingTime, SettledStaysSettled, schedVars
  <2> QED
    BY <2>2, <2>3 DEF Bookkeeping
<1>6. ASSUME NEW t \in ArmedId, InjectFails(t) PROVE Bookkeeping'
  <2>1. PICK i \in InFlight : /\ InFlight' = InFlight \ {i}
                              /\ armed' = armed \cup {i}
                              /\ lastError' = lastError \cup {i}
    BY <1>6, FailurePutsBack
  <2>2. UNCHANGED <<entries, timed, elapsed, injected, withdrawn>>
    BY <1>6 DEF InjectFails, Restore, history
  <2>3. FiredIsDue' /\ RetryKeepsDeadline'
    BY <2>1, <2>2, DueKept, ElapsedIsNat
  <2>4. ArmedHasArmingTime' /\ SettledStaysSettled'
    BY <2>1, <2>2 DEF Inv, ArmedHasArmingTime, SettledStaysSettled
  <2> QED
    BY <2>3, <2>4 DEF Bookkeeping
<1>7. ASSUME NEW t \in ArmedId, StreamFails(t) PROVE Bookkeeping'
  BY <1>7, BookkeepingKept DEF StreamFails, Exit, taskVars, schedVars, history
<1>8. ASSUME NEW t \in ArmedId, BackoffEnds(t) PROVE Bookkeeping'
  BY <1>8, BookkeepingKept DEF BackoffEnds, taskVars, schedVars, history
<1>9. ASSUME NEW t \in ArmedId, Unwind(t) PROVE Bookkeeping'
  BY <1>9, BookkeepingKept DEF Unwind, Exit, taskVars, schedVars, history
<1>10. ASSUME NEW c \in Client, NEW op \in Ops, NEW left \in SUBSET Dataref, Ask(c, op, left)
       PROVE Bookkeeping'
  BY <1>10, BookkeepingKept DEF Ask, taskVars, schedVars, history
<1>11. ASSUME NEW c \in Client, FixAllSystems(c) PROVE Bookkeeping'
  BY <1>11, BookkeepingKept DEF FixAllSystems, taskVars, schedVars, history
<1>12. ASSUME NEW c \in Client, NEW d \in Dataref, ClientWrite(c, d) PROVE Bookkeeping'
  <2>1. CASE call[c].op = "clear_all" /\ call[c].left = {d}
    <3>1. armed' = armed \ armed /\ timed \ armed \subseteq timed'
      BY <1>12, <2>1 DEF ClientWrite, DisarmAll
    <3> QED
      BY <1>12, <2>1, <3>1, BookkeepingWithdrawn DEF ClientWrite, DisarmAll
  <2>2. CASE ~ (call[c].op = "clear_all" /\ call[c].left = {d})
    BY <1>12, <2>2, BookkeepingKept DEF ClientWrite, taskVars, history
  <2> QED
    BY <2>1, <2>2
<1>13. ASSUME NEW c \in Client, ClientFails(c) PROVE Bookkeeping'
  BY <1>13, BookkeepingKept DEF ClientFails, taskVars, schedVars, history
<1>14. ASSUME NEW d \in Dataref, StrayLands(d) PROVE Bookkeeping'
  BY <1>14, BookkeepingKept DEF StrayLands, taskVars, schedVars, history
<1>15. ASSUME Teleport PROVE Bookkeeping'
  BY <1>15, BookkeepingKept DEF Teleport, taskVars, schedVars, history
<1>16. ASSUME Tick PROVE Bookkeeping'
  <2>1. UNCHANGED <<entries, armed, timed, lastError, batch, injected, withdrawn>>
    BY <1>16 DEF Tick, taskVars, history
  <2>2. InFlight' = InFlight
    BY <2>1, BatchUnchanged
  <2>3. \A i \in Issued : elapsed'[i] >= elapsed[i] /\ elapsed'[i] \in Nat
    BY <1>16, ElapsedIsNat DEF Tick
  <2>4. FiredIsDue' /\ RetryKeepsDeadline'
    BY <2>1, <2>2, <2>3, DueKept
  <2>5. ArmedHasArmingTime' /\ SettledStaysSettled'
    BY <2>1, <2>2 DEF Inv, ArmedHasArmingTime, SettledStaysSettled
  <2> QED
    BY <2>4, <2>5 DEF Bookkeeping
<1>17. CASE UNCHANGED vars
  BY <1>17, BookkeepingKept DEF vars, taskVars
<1> QED
  BY <1>1, <1>2, <1>3, <1>4, <1>5, <1>6, <1>7, <1>8, <1>9,
     <1>10, <1>11, <1>12, <1>13, <1>14, <1>15, <1>16, <1>17, RefAssumption
     DEF Next, Watch, Faults, Serve, AskInject, AskClear, AskClearAll, Ops

LEMMA IdleIsQuietStep == Inv /\ [Next]_vars => IdleIsQuiet'
<1> SUFFICES ASSUME Inv, [Next]_vars PROVE IdleIsQuiet'
  OBVIOUS
<1>1. ASSUME NEW request \in Request, Arm(request) PROVE IdleIsQuiet'
  BY <1>1 DEF Arm, IdleIsQuiet
<1>2. ASSUME NEW i \in ArmedId, Disarm(i) PROVE IdleIsQuiet'
  BY <1>2, StopEmptiesInFlight, NoWatcherNoInFlight
     DEF Disarm, StopWatcherIfIdle, taskVars, Inv, IdleIsQuiet
<1>3. ASSUME NEW t \in ArmedId, WatchLoop(t) PROVE IdleIsQuiet'
  <2>1. Alive(t) /\ t = watcherTask
    BY <1>3 DEF WatchLoop, Running, Alive, Inv, OneWatcher
  <2>2. InFlight' = InFlight
    BY <1>3, BatchUnchanged DEF WatchLoop
  <2> QED
    BY <1>3, <2>1, <2>2 DEF WatchLoop, Exit, schedVars, Inv, IdleIsQuiet
<1>4. ASSUME NEW t \in ArmedId, NEW frame \in Frame, FrameArrives(t, frame) PROVE IdleIsQuiet'
  BY <1>4, FrameFires DEF IdleIsQuiet
<1>5. ASSUME NEW t \in ArmedId, NEW d \in Dataref, InjectWrite(t, d) PROVE IdleIsQuiet'
  <2>1. Alive(t) /\ t = watcherTask
    BY <1>5 DEF InjectWrite, Running, Alive, Inv, OneWatcher
  <2>2. CASE todo[t] # {d}
    BY <1>5, <2>2, BatchUnchanged DEF InjectWrite, schedVars, Inv, IdleIsQuiet
  <2>3. CASE todo[t] = {d}
    <3> DEFINE rest == batch[t] \ {First(batch[t])}
    <3>1. NextOfBatch(t, rest, armed) /\ armed' = armed
      BY <1>5, <2>3 DEF InjectWrite, schedVars
    <3>2. InFlight' = rest
      BY <2>1, <3>1, BatchReplaced DEF NextOfBatch
    <3> HIDE DEF rest
    <3> QED
      BY <2>1, <3>1, <3>2 DEF NextOfBatch, Exit, IdleIsQuiet
  <2> QED
    BY <2>2, <2>3
<1>6. ASSUME NEW t \in ArmedId, InjectFails(t) PROVE IdleIsQuiet'
  BY <1>6, FailurePutsBack DEF IdleIsQuiet
<1>7. ASSUME NEW t \in ArmedId, StreamFails(t) PROVE IdleIsQuiet'
  <2>1. Alive(t) /\ t = watcherTask
    BY <1>7 DEF StreamFails, Running, Alive, Inv, OneWatcher
  <2>2. InFlight' = InFlight
    BY <1>7, BatchUnchanged DEF StreamFails
  <2> QED
    BY <1>7, <2>1, <2>2 DEF StreamFails, Exit, schedVars, Inv, IdleIsQuiet
<1>8. ASSUME NEW t \in ArmedId, BackoffEnds(t) PROVE IdleIsQuiet'
  BY <1>8, BatchUnchanged DEF BackoffEnds, taskVars, schedVars, Inv, IdleIsQuiet
<1>9. ASSUME NEW t \in ArmedId, Unwind(t) PROVE IdleIsQuiet'
  <2>1. InFlight' = InFlight /\ armed' = armed
    BY <1>9, BatchUnchanged DEF Unwind, schedVars
  <2> QED
    BY <1>9, <2>1 DEF Unwind, Exit, Inv, IdleIsQuiet
<1>10. ASSUME NEW c \in Client, NEW op \in Ops, NEW left \in SUBSET Dataref, Ask(c, op, left)
       PROVE IdleIsQuiet'
  BY <1>10, BatchUnchanged DEF Ask, taskVars, schedVars, Inv, IdleIsQuiet
<1>11. ASSUME NEW c \in Client, FixAllSystems(c) PROVE IdleIsQuiet'
  BY <1>11, BatchUnchanged DEF FixAllSystems, taskVars, schedVars, Inv, IdleIsQuiet
<1>12. ASSUME NEW c \in Client, NEW d \in Dataref, ClientWrite(c, d) PROVE IdleIsQuiet'
  <2>1. CASE call[c].op = "clear_all" /\ call[c].left = {d}
    BY <1>12, <2>1 DEF ClientWrite, DisarmAll, StopWatcherIfIdle, taskVars, IdleIsQuiet
  <2>2. CASE ~ (call[c].op = "clear_all" /\ call[c].left = {d})
    BY <1>12, <2>2, BatchUnchanged DEF ClientWrite, taskVars, schedVars, Inv, IdleIsQuiet
  <2> QED
    BY <2>1, <2>2
<1>13. ASSUME NEW c \in Client, ClientFails(c) PROVE IdleIsQuiet'
  BY <1>13, BatchUnchanged DEF ClientFails, taskVars, schedVars, Inv, IdleIsQuiet
<1>14. ASSUME NEW d \in Dataref, StrayLands(d) PROVE IdleIsQuiet'
  BY <1>14, BatchUnchanged DEF StrayLands, taskVars, schedVars, Inv, IdleIsQuiet
<1>15. ASSUME Teleport PROVE IdleIsQuiet'
  BY <1>15, BatchUnchanged DEF Teleport, taskVars, schedVars, Inv, IdleIsQuiet
<1>16. ASSUME Tick PROVE IdleIsQuiet'
  BY <1>16, BatchUnchanged DEF Tick, taskVars, schedVars, Inv, IdleIsQuiet
<1>17. CASE UNCHANGED vars
  BY <1>17, BatchUnchanged DEF vars, taskVars, schedVars, Inv, IdleIsQuiet
<1> QED
  BY <1>1, <1>2, <1>3, <1>4, <1>5, <1>6, <1>7, <1>8, <1>9,
     <1>10, <1>11, <1>12, <1>13, <1>14, <1>15, <1>16, <1>17, RefAssumption
     DEF Next, Watch, Faults, Serve, AskInject, AskClear, AskClearAll, Ops


-----------------------------------------------------------------------------
(* The theorems.                                                            *)

LEMMA InitEstablishesInv == Init => Inv
<1> SUFFICES ASSUME Init PROVE Inv
  OBVIOUS
<1>1. InFlight = {}
  BY DEF Init, InFlight
<1>2. TypeOK
  BY BoundsAssumption DEF Init, TypeOK, SchedulerTypeOK, TaskTypeOK, SimTypeOK, Issued,
     ArmedId, NoTask, IdleCall, Ops
<1>3. TaskShape /\ BatchShape /\ OneWatcher
  BY DEF Init, TaskShape, BatchShape, OneWatcher, Running, Alive, NoTask
<1>4. ArmedIsWatched /\ IdleIsQuiet
  BY DEF Init, ArmedIsWatched, IdleIsQuiet
<1>5. ArmedHasArmingTime /\ SettledStaysSettled /\ FiredIsDue /\ RetryKeepsDeadline
  BY <1>1 DEF Init, ArmedHasArmingTime, SettledStaysSettled, FiredIsDue, RetryKeepsDeadline
<1>6. QED
  BY <1>2, <1>3, <1>4, <1>5 DEF Inv

LEMMA InvInductive == Inv /\ [Next]_vars => Inv'
BY TypeStep, TaskShapeStep, BatchShapeStep, OneWatcherStep, ArmedIsWatchedStep,
   IdleIsQuietStep, BookkeepingStep DEF Inv, Bookkeeping

\* Inv holds in every reachable state, for every number of armings, failures,
\* datarefs and clients.
THEOREM InvHolds == Spec => []Inv
BY InitEstablishesInv, InvInductive, PTL DEF Spec

\* The types are what they should be.
THEOREM TypeCorrect == Spec => []TypeOK
BY InvHolds, PTL DEF Inv

\* Whatever is armed is watched by exactly one live task, and a station with
\* nothing armed polls nothing (server/failure_routes.py, the watcher).
THEOREM WatchedByOne == Spec => []WatchedByExactlyOne
BY InvHolds, PTL DEF Inv, WatchedByExactlyOne

\* evaluate never misses an arming time, and a retry keeps its deadline
\* (core/failure_scheduler.py: disarm, disarm_all, restore).
THEOREM ArmingTimesKept == Spec => []TimesAreKept
BY InvHolds, PTL DEF Inv, TimesAreKept

\* An injected or withdrawn entry never comes back.
THEOREM SettledForGood == Spec => []SettledStaysSettled
BY InvHolds, PTL DEF Inv

-----------------------------------------------------------------------------
(* FailureWatch implements ArmingPromise: under the inductive invariant    *)
(* every step of the detailed module is one step of the promise or leaves  *)
(* every fate alone.                                                       *)


\* The first of a set of ids precedes the others.
LEMMA FirstIsLeast ==
    ASSUME NEW S \in SUBSET Nat, S # {}
    PROVE  \A j \in S : First(S) <= j
<1> DEFINE Less == {p \in Nat \X Nat : p[1] < p[2]}
<1>1. OpToRel(<, Nat) = Less
  BY DEF OpToRel
<1>2. \A y, x \in Nat : y < x => <<y, x>> \in Less
  OBVIOUS
<1> HIDE DEF Less
<1>3. PICK x \in S : \A y \in S : ~ (<<y, x>> \in Less)
  BY <1>1, NatLessThanWellFounded, WFMin
<1>4. \A y \in S : ~ (y < x)
  BY <1>2, <1>3
<1>5. \A y \in S : x <= y
  BY <1>4
<1>6. QED
  BY <1>5 DEF First

\* In a reachable state every id has the fate that the sets give it.
LEMMA FateSets ==
    ASSUME Inv
    PROVE  /\ Promise!In("armed") = armed
           /\ Promise!In("firing") = InFlight
           /\ Promise!In("unknown") = ArmedId \ Issued
<1>1. armed \subseteq Issued /\ InFlight \subseteq Issued /\ Issued \subseteq ArmedId
  BY InFlightIssued, BoundsAssumption DEF Inv, TypeOK, SchedulerTypeOK, Issued, ArmedId
<1>2. armed \cap InFlight = {}
  BY DEF Inv, SettledStaysSettled
<1>3. QED
  BY <1>1, <1>2 DEF Promise!In, fate

\* A step that moves no entry changes no fate.
LEMMA FateKept ==
    ASSUME UNCHANGED <<entries, armed, batch, injected, withdrawn>>
    PROVE  UNCHANGED fate
<1>1. InFlight' = InFlight /\ Issued' = Issued
  BY BatchUnchanged DEF Issued
<1>2. QED
  BY <1>1 DEF fate

\* Accepting a request hands out the next id.
LEMMA ArmIsPromised ==
    ASSUME Inv, NEW request \in Request, Arm(request)
    PROVE  Promise!Next
<1> DEFINE n == Len(entries) + 1
<1>1. n \in ArmedId /\ n \notin Issued /\ Issued' = Issued \cup {n}
  BY ArmAppends
<1>2. armed' = armed \cup {n} /\ InFlight' = InFlight /\ UNCHANGED <<injected, withdrawn>>
  BY BatchUnchanged DEF Arm, EnsureWatcherRunning, taskVars, history
<1>3. \A j \in ArmedId \ Issued : n <= j
  BY BoundsAssumption DEF Issued, ArmedId, Inv, TypeOK, SchedulerTypeOK
<1>4. InFlight \subseteq Issued /\ armed \subseteq Issued
  BY InFlightIssued DEF Inv, TypeOK, SchedulerTypeOK
<1> HIDE DEF n
<1>5. fate[n] = "unknown"
  BY <1>1 DEF fate
<1>6. fate' = Promise!Become({n}, "armed")
  BY <1>1, <1>2, <1>4 DEF fate, Promise!Become
<1>7. Promise!Arm(n)
  BY <1>3, <1>5, <1>6, FateSets DEF Promise!Arm
<1>8. QED
  BY <1>1, <1>7 DEF Promise!Next

\* Disarming withdraws the entry; with the last one goes what was firing.
LEMMA DisarmIsPromised ==
    ASSUME Inv, NEW i \in ArmedId, Disarm(i)
    PROVE  Promise!Next
<1>1. /\ i \in armed /\ armed' = armed \ {i}
      /\ withdrawn' = withdrawn \cup {i} /\ UNCHANGED <<entries, injected>>
  BY DEF Disarm
<1>2. InFlight' = IF armed = {i} THEN {} ELSE InFlight
  BY <1>1, StopEmptiesInFlight DEF Disarm
<1>3. /\ (injected \cup withdrawn) \cap (armed \cup InFlight) = {}
      /\ armed \cap InFlight = {} /\ armed \subseteq Issued /\ InFlight \subseteq Issued
  BY InFlightIssued DEF Inv, SettledStaysSettled, TypeOK, SchedulerTypeOK
<1>4. Issued' = Issued
  BY <1>1 DEF Issued
<1>5. fate' = [j \in ArmedId |->
                 IF j = i THEN "withdrawn"
                 ELSE IF armed = {i} /\ fate[j] = "firing" THEN "dropped"
                 ELSE fate[j]]
  BY <1>1, <1>2, <1>3, <1>4 DEF fate
<1>6. Promise!Disarm(i)
  BY <1>1, <1>5, FateSets DEF Promise!Disarm
<1>7. QED
  BY <1>6 DEF Promise!Next

\* A frame fires what it satisfies, when nothing else is firing.
LEMMA FrameIsPromised ==
    ASSUME Inv, NEW t \in ArmedId, NEW frame \in Frame, FrameArrives(t, frame)
    PROVE  Promise!Next \/ UNCHANGED fate
<1> DEFINE S == Evaluate(frame)
<1>1. S \subseteq armed
  BY DEF Evaluate
<1>2. InFlight = {} /\ InFlight' = S /\ armed' = armed \ S
  BY FrameFires
<1>3. UNCHANGED <<entries, injected, withdrawn>> /\ Issued' = Issued
  BY DEF FrameArrives, history, Issued
<1>4. armed \subseteq Issued /\ S \subseteq ArmedId
  <2>1. armed \subseteq Issued
    BY DEF Inv, TypeOK, SchedulerTypeOK
  <2>2. Issued \subseteq ArmedId
    BY BoundsAssumption DEF Issued, ArmedId, Inv, TypeOK, SchedulerTypeOK
  <2> QED
    BY <1>1, <2>1, <2>2
<1> HIDE DEF S
<1>5. CASE S = {}
  BY <1>2, <1>3, <1>5 DEF fate
<1>6. CASE S # {}
  <2>1. fate' = Promise!Become(S, "firing")
    BY <1>1, <1>2, <1>3, <1>4 DEF fate, Promise!Become
  <2>2. Promise!Fire(S)
    BY <1>1, <1>2, <1>6, <2>1, FateSets DEF Promise!Fire
  <2> QED
    BY <1>4, <2>2 DEF Promise!Next
<1>7. QED
  BY <1>5, <1>6

\* The first entry of the batch is injected, or a write of it is answered.
LEMMA WriteIsPromised ==
    ASSUME Inv, NEW t \in ArmedId, NEW d \in Dataref, InjectWrite(t, d)
    PROVE  Promise!Next \/ UNCHANGED fate
<1>1. UNCHANGED <<entries, armed, withdrawn>> /\ Issued' = Issued
  BY DEF InjectWrite, schedVars, Issued
<1>2. CASE todo[t] # {d}
  BY <1>1, <1>2, FateKept DEF InjectWrite
<1>3. CASE todo[t] = {d}
  <2> DEFINE i == First(batch[t])
  <2>1. i \in InFlight /\ InFlight = batch[t] /\ InFlight \in SUBSET Issued /\ Alive(t)
    BY InjectingHasFirst DEF InjectWrite
  <2>2. injected' = injected \cup {i} /\ InFlight' = InFlight \ {i}
    BY <1>3, <2>1, BatchReplaced DEF InjectWrite, NextOfBatch
  <2>3. \A j \in InFlight : i <= j
    <3>1. batch[t] \in SUBSET Nat /\ batch[t] # {}
      BY <2>1 DEF Issued
    <3> QED
      BY <2>1, <3>1, FirstIsLeast
  <2>4. armed \cap InFlight = {} /\ i \in ArmedId
    BY <2>1, BoundsAssumption DEF Inv, SettledStaysSettled, TypeOK, SchedulerTypeOK, Issued, ArmedId
  <2> HIDE DEF i
  <2>5. fate' = Promise!Become({i}, "injected")
    BY <1>1, <2>1, <2>2, <2>4 DEF fate, Promise!Become
  <2>6. Promise!Inject(i)
    BY <2>1, <2>3, <2>5, FateSets DEF Promise!Inject
  <2> QED
    BY <2>4, <2>6 DEF Promise!Next
<1>4. QED
  BY <1>2, <1>3

\* The first entry of the batch goes back to waiting.
LEMMA FailureIsPromised ==
    ASSUME Inv, NEW t \in ArmedId, InjectFails(t)
    PROVE  Promise!Next
<1> DEFINE i == First(batch[t])
<1>1. i \in InFlight /\ InFlight = batch[t] /\ InFlight \in SUBSET Issued /\ Alive(t)
  BY InjectingHasFirst DEF InjectFails
<1>2. armed' = armed \cup {i} /\ InFlight' = InFlight \ {i}
  BY <1>1, BatchReplaced DEF InjectFails, Restore, NextOfBatch
<1>3. UNCHANGED <<entries, injected, withdrawn>> /\ Issued' = Issued
  BY DEF InjectFails, history, Issued
<1>4. \A j \in InFlight : i <= j
  <2>1. batch[t] \in SUBSET Nat /\ batch[t] # {}
    BY <1>1 DEF Issued
  <2> QED
    BY <1>1, <2>1, FirstIsLeast
<1>5. armed \cap InFlight = {} /\ i \in ArmedId
  BY <1>1, BoundsAssumption DEF Inv, SettledStaysSettled, TypeOK, SchedulerTypeOK, Issued, ArmedId
<1> HIDE DEF i
<1>6. fate' = Promise!Become({i}, "armed")
  BY <1>1, <1>2, <1>3, <1>5 DEF fate, Promise!Become
<1>7. Promise!PutBack(i)
  BY <1>1, <1>4, <1>6, FateSets DEF Promise!PutBack
<1>8. QED
  BY <1>5, <1>7 DEF Promise!Next

\* The last write of CLEAR ALL withdraws whatever has not been injected.
LEMMA ClearIsPromised ==
    ASSUME Inv, NEW c \in Client, NEW d \in Dataref, ClientWrite(c, d)
    PROVE  Promise!Next \/ UNCHANGED fate
<1>1. UNCHANGED <<entries, injected>> /\ Issued' = Issued
  BY DEF ClientWrite, Issued
<1>2. CASE call[c].op = "clear_all" /\ call[c].left = {d}
  <2>1. /\ DisarmAll /\ StopWatcherIfIdle
        /\ withdrawn' = withdrawn \cup armed \cup InFlight
    BY <1>2 DEF ClientWrite
  <2>2. armed' = {} /\ InFlight' = {}
    BY <2>1, StopEmptiesInFlight DEF DisarmAll
  <2>3. /\ (injected \cup withdrawn) \cap (armed \cup InFlight) = {}
        /\ armed \subseteq Issued /\ InFlight \subseteq Issued
    BY InFlightIssued DEF Inv, SettledStaysSettled, TypeOK, SchedulerTypeOK
  <2>4. fate' = Promise!Become(armed \cup InFlight, "withdrawn")
    BY <1>1, <2>1, <2>2, <2>3 DEF fate, Promise!Become
  <2> QED
    BY <2>4, FateSets DEF Promise!ClearAll, Promise!Next
<1>3. CASE ~ (call[c].op = "clear_all" /\ call[c].left = {d})
  BY <1>1, <1>3, FateKept DEF ClientWrite, schedVars, taskVars
<1>4. QED
  BY <1>2, <1>3

LEMMA StepIsPromised == Inv /\ [Next]_vars => [Promise!Next]_fate
<1> SUFFICES ASSUME Inv, [Next]_vars PROVE Promise!Next \/ UNCHANGED fate
  OBVIOUS
<1>1. ASSUME NEW t \in ArmedId,
             WatchLoop(t) \/ BackoffEnds(t) \/ Unwind(t) \/ StreamFails(t)
      PROVE  UNCHANGED fate
  BY <1>1, FateKept DEF WatchLoop, BackoffEnds, Unwind, StreamFails, schedVars, history
<1>2. ASSUME NEW c \in Client, FixAllSystems(c) \/ ClientFails(c) PROVE UNCHANGED fate
  BY <1>2, FateKept DEF FixAllSystems, ClientFails, schedVars, taskVars, history
<1>3. ASSUME NEW c \in Client, NEW op, NEW left, Ask(c, op, left) PROVE UNCHANGED fate
  BY <1>3, FateKept DEF Ask, schedVars, taskVars, history
<1>4. ASSUME Teleport \/ Tick \/ (\E d \in Dataref : StrayLands(d)) PROVE UNCHANGED fate
  BY <1>4, FateKept DEF Teleport, Tick, StrayLands, schedVars, taskVars, history
<1>5. CASE UNCHANGED vars
  BY <1>5, FateKept DEF vars, schedVars, taskVars, history
<1>6. QED
  BY <1>1, <1>2, <1>3, <1>4, <1>5, ArmIsPromised, DisarmIsPromised, FrameIsPromised,
     WriteIsPromised, FailureIsPromised, ClearIsPromised
     DEF Next, Watch, Faults, Serve, AskInject, AskClear, AskClearAll

\* Scheduler, watcher and routes (core/failure_scheduler.py, server/failure_routes.py)
\* keep the promise of ArmingPromise, for any number of armings, failures and clients.
THEOREM PromiseKept == Spec => KeepsPromise
<1>1. Init => Promise!Init
  BY DEF Init, Promise!Init, fate, Issued
<1>2. QED
  BY <1>1, StepIsPromised, InvHolds, PTL DEF Spec, KeepsPromise, Promise!Spec
=============================================================================
