--------------------------- MODULE RepositionProofs ---------------------------
(***************************************************************************)
(* Proofs about Reposition, for any number of concurrent requests, places, *)
(* attempts, samples, frame shifts and failing requests.  The invariant    *)
(* Inv of Reposition rests on two facts: _freeze_depth counts the requests *)
(* inside the block (so whoever leaves last releases), and a request that  *)
(* runs alone aims in the frame that is current as it aims.                *)
(***************************************************************************)
EXTENDS Reposition, TLAPS, FiniteSetTheorems

-----------------------------------------------------------------------------
(* What the shared parts of the actions do to a task.                       *)

\* What a raise leaves of the task: a release to be awaited, or nothing.
LEMMA RaiseTask ==
    ASSUME TypeOK, NEW c \in Client, Raise(c)
    PROVE  /\ task' = [task EXCEPT ![c] =
                  IF InBlock(c) /\ freezeDepth = 1
                  THEN [task[c] EXCEPT !.pc = "release", !.raising = TRUE] ELSE NoTask]
           /\ freezeDepth' = IF InBlock(c) THEN freezeDepth - 1 ELSE freezeDepth
<1> DEFINE t == [task[c] EXCEPT !.raising = TRUE]
<1>1. task[c] \in Task
  BY DEF TypeOK
<1>2. t.raising /\ [t EXCEPT !.pc = "release"] = [task[c] EXCEPT !.pc = "release", !.raising = TRUE]
  BY <1>1 DEF Task
<1>3. CASE InBlock(c)
  <2>1. LeaveBlock(c, t)
    BY <1>3 DEF Raise
  <2>2. AfterBlock(t) = NoTask
    BY <1>2 DEF AfterBlock
  <2> QED
    BY <1>2, <1>3, <2>1, <2>2 DEF LeaveBlock
<1> QED
  BY <1>3 DEF Raise

\* Whoever is inside is counted, and nobody else.
LEMMA DepthIsPositive ==
    ASSUME DepthCountsBlocks
    PROVE  /\ freezeDepth \in Nat
           /\ \A c \in Client : InBlock(c) => freezeDepth >= 1
           /\ freezeDepth = 0 => Blocked = {}
<1>1. freezeDepth \in Nat /\ (freezeDepth = 0 <=> Blocked = {})
  BY FS_CardinalityType, FS_EmptySet DEF DepthCountsBlocks
<1> QED
  BY <1>1 DEF Blocked

\* Nothing is a bound that can be reached at once.
LEMMA Zeroes == 0 \in Frame /\ 0 \in 0 .. MaxWrites /\ 0 \in 0 .. StableSamples
BY BoundsAssumption DEF Frame

\* The tasks the actions make are tasks.
LEMMA TaskMade ==
    ASSUME NEW t \in Task
    PROVE  /\ NoTask \in Task
           /\ \A pc \in {"idle"} \cup Outside \cup Inside : [t EXCEPT !.pc = pc] \in Task
           /\ AfterBlock(t) \in Task
           /\ Entering(t) \in Task
<1> USE DEF Task, Stage, Inside, Outside
<1>1. NoTask \in Task
  BY HomeAssumption, Zeroes DEF NoTask
<1>2. \A pc \in {"idle"} \cup Outside \cup Inside : [t EXCEPT !.pc = pc] \in Task
  OBVIOUS
<1>3. /\ [t EXCEPT !.pc = "origin", !.stage = "position"] \in Task
      /\ [t EXCEPT !.pc = "repair", !.stage = "position"] \in Task
  OBVIOUS
<1>5. AfterBlock(t) \in Task
  <2> HIDE DEF Task
  <2> QED
    BY <1>1, <1>3 DEF AfterBlock
<1>4. Entering(t) \in Task
  BY <1>2 DEF Entering, FirstInside
<1> QED
  BY <1>1, <1>2, <1>4, <1>5

\* When somebody else begins, a task loses its history and nothing else.
LEMMA JoinedTask ==
    ASSUME NEW t \in Task
    PROVE  /\ Joined(t).pc = t.pc /\ Joined(t).stage = t.stage
           /\ Joined(t).attempts = t.attempts /\ Joined(t).agreements = t.agreements
           /\ Joined(t).arrived = t.arrived /\ Joined(t).raising = t.raising
           /\ ~Joined(t).alone /\ Joined(t).untaken = 0
BY DEF Joined, Task

\* What the request that begins carries, and what the others keep.
LEMMA BeginMakes ==
    ASSUME TypeOK, NEW c \in Client, Begin(c)
    PROVE  \E p \in Place, stage \in Stage :
             /\ \A d \in Client : d # c => task'[d] = Joined(task[d])
             /\ task'[c] = LET t == [NoTask EXCEPT !.stage = stage, !.place = p,
                                       !.alone = Quiet, !.since = IF Quiet THEN frame ELSE 0]
                           IN IF stage = "setup" THEN Entering(t) ELSE [t EXCEPT !.pc = "origin"]
             /\ freezeDepth' = IF stage = "setup" THEN DepthEntering ELSE freezeDepth
             /\ ~InFlight(c)
             /\ UNCHANGED <<simVars, stray, astray>>
BY DEF Begin

\* Leaving the block with a task leaves a task, and a depth.
LEMMA LeaveType ==
    ASSUME TypeOK, DepthCountsBlocks, NEW c \in Client, InBlock(c), NEW t \in Task,
           LeaveBlock(c, t)
    PROVE  task' \in [Client -> Task] /\ freezeDepth' \in Nat
<1>1. [t EXCEPT !.pc = "release"] \in Task /\ AfterBlock(t) \in Task
  BY TaskMade DEF Outside
<1>2. freezeDepth >= 1
  BY DepthIsPositive
<1> QED
  BY <1>1, <1>2 DEF LeaveBlock, TypeOK

\* Every step keeps the types of the tasks and of the depth ...
LEMMA TaskStep ==
    TypeOK /\ TaskShape /\ DepthCountsBlocks /\ [Next]_vars =>
        task' \in [Client -> Task] /\ freezeDepth' \in Nat
<1> DEFINE Goal == task' \in [Client -> Task] /\ freezeDepth' \in Nat
<1> SUFFICES ASSUME TypeOK, TaskShape, DepthCountsBlocks, [Next]_vars PROVE Goal
  OBVIOUS
<1> USE DEF simVars
<1>a. task \in [Client -> Task] /\ freezeDepth \in Nat
  BY DEF TypeOK
<1>b. \A c \in Client : task[c] \in Task
  BY <1>a
<1>c. {"idle", "setup", "origin", "engage", "coords", "velocity", "poll", "settle", "repair",
       "release"} \subseteq {"idle"} \cup Outside \cup Inside
  BY DEF Outside, Inside
<1>d. DepthEntering \in Nat
  BY <1>a DEF DepthEntering
<1>e. Measured \in Frame \cup {Wrong}
  BY DEF Measured, TypeOK
<1>1. ASSUME Publish PROVE Goal
  BY <1>1, <1>a DEF Publish
<1>2. ASSUME ReloadScenery PROVE Goal
  BY <1>2, <1>a DEF ReloadScenery
<1>3. ASSUME Fly PROVE Goal
  BY <1>3, <1>a DEF Fly
<1>4. ASSUME StrayLands PROVE Goal
  BY <1>4, <1>a DEF StrayLands
<1>5. ASSUME NEW c \in Client, Begin(c) PROVE Goal
  <2>1. PICK p \in Place, stage \in Stage :
           LET t == [NoTask EXCEPT !.stage = stage, !.place = p, !.alone = Quiet,
                                    !.since = IF Quiet THEN frame ELSE 0] IN
           task' = [d \in Client |->
                     IF d # c THEN Joined(task[d])
                     ELSE IF stage = "setup" THEN Entering(t) ELSE [t EXCEPT !.pc = "origin"]]
    BY <1>5 DEF Begin
  <2> DEFINE since == IF Quiet THEN frame ELSE 0
             t == [NoTask EXCEPT !.stage = stage, !.place = p, !.alone = Quiet, !.since = since]
  <2>2. Quiet \in BOOLEAN /\ since \in Frame
    BY Zeroes DEF Quiet, TypeOK
  <2> HIDE DEF since
  <2>3. t \in Task
    BY <1>b, <2>2, TaskMade DEF Task
  <2>4. Entering(t) \in Task /\ [t EXCEPT !.pc = "origin"] \in Task
    BY <1>c, <2>3, TaskMade
  <2>5. \A d \in Client : Joined(task[d]) \in Task
    BY <1>b, Zeroes DEF Task, Joined
  <2> HIDE DEF t
  <2>6. task' \in [Client -> Task]
    BY <2>1, <2>4, <2>5 DEF t, since
  <2> QED
    BY <1>5, <1>a, <1>d, <2>6 DEF Begin
<1>6. ASSUME NEW c \in Client, Engaged(c) PROVE Goal
  <2>1. [task[c] EXCEPT !.pc = FirstInside(task[c].stage)] \in Task
    BY <1>b, <1>c, <1>e, TaskMade DEF Task, FirstInside
  <2> QED
    BY <1>6, <1>a, <1>d, <2>1 DEF Engaged
<1>7. ASSUME NEW c \in Client, Released(c) PROVE Goal
  <2> DEFINE t == [task[c] EXCEPT !.resumed = IF task[c].alone THEN velocity ELSE Decayed]
  <2>1. t \in Task
    BY <1>b DEF TypeOK, Task
  <2>2. AfterBlock(t) \in Task
    BY <2>1, TaskMade
  <2> QED
    BY <1>7, <1>a, <2>2 DEF Released
<1>8. ASSUME NEW c \in Client, WriteSetup(c) PROVE Goal
  <2>1. InBlock(c) /\ task[c] \in Task
    BY <1>8, <1>b DEF WriteSetup, InBlock, Inside, Task
  <2> QED
    BY <1>8, <2>1, LeaveType DEF WriteSetup
<1>9. ASSUME NEW c \in Client, MeasureOrigin(c) PROVE Goal
  <2>1. [task[c] EXCEPT !.origin = Measured] \in Task
    BY <1>b, <1>e DEF Task
  <2>2. Entering([task[c] EXCEPT !.origin = Measured]) \in Task
    BY <2>1, TaskMade
  <2> QED
    BY <1>9, <1>a, <1>d, <2>2 DEF MeasureOrigin
<1>10. ASSUME NEW c \in Client, WriteCoords(c) PROVE Goal
  <2>1. task[c].attempts + 1 \in 0 .. MaxWrites
    BY <1>10, <1>b, BoundsAssumption DEF WriteCoords, TaskShape, Task
  <2>2. [task[c] EXCEPT !.pc = "velocity", !.origin = 0, !.attempts = task[c].attempts + 1] \in Task
    BY <1>b, <1>c, <2>1, Zeroes, ZenonT(40) DEF Task, Inside, Outside
  <2>3. task' = [task EXCEPT ![c] = [task[c] EXCEPT !.pc = "velocity", !.origin = 0,
                                                  !.attempts = task[c].attempts + 1]]
    BY <1>10, <1>a, <1>b DEF WriteCoords, Task
  <2> QED
    BY <1>10, <1>a, <2>2, <2>3 DEF WriteCoords
<1>10b. ASSUME NEW c \in Client, CoordsSwallowed(c) PROVE Goal
  <2> DEFINE untaken == IF task[c].alone THEN task[c].untaken + 1 ELSE 0
             next == [task[c] EXCEPT !.pc = "velocity", !.origin = 0,
                                     !.attempts = task[c].attempts + 1, !.untaken = untaken]
  <2>1. task[c].attempts + 1 \in 0 .. MaxWrites /\ untaken \in 0 .. MaxWrites
    BY <1>10b, <1>b, Zeroes, BoundsAssumption DEF CoordsSwallowed, TaskShape, Task
  <2>2. task' = [task EXCEPT ![c] = next]
    BY <1>10b, <1>a, <1>b DEF CoordsSwallowed, Task
  <2> HIDE DEF untaken
  <2>3. next \in Task
    BY <1>b, <1>c, <2>1, Zeroes, ZenonT(40) DEF Task, Inside, Outside
  <2>4. freezeDepth' = freezeDepth
    BY <1>10b DEF CoordsSwallowed
  <2> HIDE DEF next
  <2> QED
    BY <1>a, <2>2, <2>3, <2>4
<1>11. ASSUME NEW c \in Client, WriteVelocity(c) PROVE Goal
  <2>1. [task[c] EXCEPT !.pc = "poll"] \in Task
    BY <1>b, <1>c, <1>e, TaskMade DEF Task
  <2> QED
    BY <1>11, <1>a, <1>d, <2>1 DEF WriteVelocity
<1>12. ASSUME NEW c \in Client, Arrive(c) PROVE Goal
  <2>1. InBlock(c) /\ [task[c] EXCEPT !.arrived = TRUE] \in Task
    BY <1>12, <1>b, ZenonT(40) DEF Arrive, InBlock, Inside, Task
  <2> QED
    BY <1>12, <2>1, LeaveType DEF Arrive
<1>13. ASSUME NEW c \in Client, AimAgain(c) PROVE Goal
  <2>1. [task[c] EXCEPT !.pc = "settle", !.agreements = 0, !.origin = Measured] \in Task
    BY <1>b, <1>c, <1>e, Zeroes, ZenonT(40) DEF Task, Inside, Outside
  <2>2. task' = [task EXCEPT ![c] = [task[c] EXCEPT !.pc = "settle", !.agreements = 0,
                                                  !.origin = Measured]]
    BY <1>13, <1>a, <1>b DEF AimAgain, Task
  <2> QED
    BY <1>13, <1>a, <2>1, <2>2 DEF AimAgain
<1>14. ASSUME NEW c \in Client, GiveUp(c) PROVE Goal
  <2>1. InBlock(c) /\ task[c] \in Task
    BY <1>14, <1>b DEF GiveUp, InBlock, Inside, Task, SliceExpired
  <2> QED
    BY <1>14, <2>1, LeaveType DEF GiveUp
<1>15. ASSUME NEW c \in Client, Sample(c) PROVE Goal
  <2> DEFINE agree == IF Measured = task[c].origin THEN task[c].agreements + 1 ELSE 0
  <2>1. agree \in 0 .. StableSamples
    BY <1>b, BoundsAssumption DEF TaskShape, Task
  <2> HIDE DEF agree
  <2> DEFINE next == [task[c] EXCEPT !.pc = IF agree = StableSamples THEN "coords" ELSE "settle",
                                     !.agreements = IF agree = StableSamples THEN 0 ELSE agree,
                                     !.origin = Measured]
  <2>2. next \in Task
    BY <1>b, <1>c, <1>e, <2>1, Zeroes, ZenonT(40) DEF Task, Inside, Outside
  <2>3. task' = [task EXCEPT ![c] = next]
    BY <1>15, <1>a, <1>b DEF Sample, Task, agree
  <2>4. freezeDepth' = freezeDepth
    BY <1>15 DEF Sample
  <2> HIDE DEF next
  <2> QED
    BY <1>a, <2>2, <2>3, <2>4
<1>16. ASSUME NEW c \in Client, Repaired(c) PROVE Goal
  <2>1. NoTask \in Task
    BY <1>b, <1>c, <1>e, TaskMade DEF Task
  <2> QED
    BY <1>16, <1>a, <1>d, <2>1 DEF Repaired
<1>17. ASSUME NEW c \in Client, OutOfTime(c) PROVE Goal
  <2> DEFINE next == [task[c] EXCEPT !.late = TRUE, !.agreements = 0,
                                     !.pc = IF task[c].pc = "settle" THEN "coords" ELSE "poll"]
  <2>1. next \in Task
    BY <1>b, <1>c, Zeroes, ZenonT(40) DEF Task, Inside, Outside
  <2>2. task' = [task EXCEPT ![c] = next]
    BY <1>17, <1>a, <1>b DEF OutOfTime, Task
  <2> HIDE DEF next
  <2> QED
    BY <1>17, <1>a, <2>1, <2>2, ZenonT(40) DEF OutOfTime
<1>18. ASSUME NEW c \in Client, OverrideFails(c) PROVE Goal
  <2>1. NoTask \in Task
    BY <1>b, TaskMade
  <2>4. [task[c] EXCEPT !.pc = "release", !.raising = TRUE] \in Task
    BY <1>b DEF Task, Outside, Inside
  <2>2. Raise(c)
    BY <1>18 DEF OverrideFails
  <2>3. InBlock(c) => freezeDepth - 1 \in Nat
    BY <1>a, DepthIsPositive
  <2> QED
    BY <1>a, <2>1, <2>2, <2>3, <2>4, RaiseTask
<1>19. ASSUME NEW c \in Client, RequestFails(c) PROVE Goal
  <2>1. NoTask \in Task
    BY <1>b, TaskMade
  <2>4. [task[c] EXCEPT !.pc = "release", !.raising = TRUE] \in Task
    BY <1>b DEF Task, Outside, Inside
  <2>2. Raise(c)
    BY <1>19 DEF RequestFails
  <2>3. InBlock(c) => freezeDepth - 1 \in Nat
    BY <1>a, DepthIsPositive
  <2> QED
    BY <1>a, <2>1, <2>2, <2>3, <2>4, RaiseTask
<1>20. CASE UNCHANGED vars
  BY <1>20, <1>a DEF vars
<1> QED
  BY <1>1, <1>2, <1>3, <1>4, <1>5, <1>6, <1>7, <1>8, <1>9, <1>10, <1>10b, <1>11, <1>12,
     <1>13, <1>14, <1>15, <1>16, <1>17, <1>18, <1>19, <1>20 DEF Next, Serve

\* Only a publication makes the world position current, and only for what is written.
LEMMA PublishedStep ==
    TypeOK /\ PublishedIsDenoted /\ [Next]_vars => PublishedIsDenoted'
<1> SUFFICES ASSUME TypeOK /\ PublishedIsDenoted, [Next]_vars PROVE PublishedIsDenoted'
  OBVIOUS
<1> USE BoundsAssumption DEF TypeOK, PublishedIsDenoted, WorldOf, simVars, Frame
<1>1. ASSUME Publish PROVE PublishedIsDenoted'
  BY <1>1 DEF Publish
<1>2. ASSUME ReloadScenery PROVE PublishedIsDenoted'
  BY <1>2 DEF ReloadScenery
<1>3. ASSUME Fly PROVE PublishedIsDenoted'
  BY <1>3 DEF Fly
<1>4. ASSUME StrayLands PROVE PublishedIsDenoted'
  BY <1>4 DEF StrayLands
<1>5. ASSUME NEW c \in Client, Begin(c) PROVE PublishedIsDenoted'
  BY <1>5 DEF Begin, Entering, DepthEntering, FirstInside, NoTask
<1>6. ASSUME NEW c \in Client, Engaged(c) PROVE PublishedIsDenoted'
  BY <1>6 DEF Engaged, FirstInside
<1>7. ASSUME NEW c \in Client, Released(c) PROVE PublishedIsDenoted'
  BY <1>7 DEF Released, AfterBlock, NoTask
<1>8. ASSUME NEW c \in Client, WriteSetup(c) PROVE PublishedIsDenoted'
  BY <1>8 DEF WriteSetup, LeaveBlock, AfterBlock, NoTask
<1>9. ASSUME NEW c \in Client, MeasureOrigin(c) PROVE PublishedIsDenoted'
  BY <1>9 DEF MeasureOrigin, Entering, DepthEntering, FirstInside, Measured
<1>10. ASSUME NEW c \in Client, WriteCoords(c) PROVE PublishedIsDenoted'
  BY <1>10 DEF WriteCoords
<1>10b. ASSUME NEW c \in Client, CoordsSwallowed(c) PROVE PublishedIsDenoted'
  BY <1>10b DEF CoordsSwallowed
<1>11. ASSUME NEW c \in Client, WriteVelocity(c) PROVE PublishedIsDenoted'
  BY <1>11 DEF WriteVelocity
<1>12. ASSUME NEW c \in Client, Arrive(c) PROVE PublishedIsDenoted'
  BY <1>12 DEF Arrive, LeaveBlock, AfterBlock, NoTask
<1>13. ASSUME NEW c \in Client, AimAgain(c) PROVE PublishedIsDenoted'
  BY <1>13 DEF AimAgain, SliceExpired, Measured
<1>14. ASSUME NEW c \in Client, GiveUp(c) PROVE PublishedIsDenoted'
  BY <1>14 DEF GiveUp, SliceExpired, LeaveBlock, AfterBlock, NoTask
<1>15. ASSUME NEW c \in Client, Sample(c) PROVE PublishedIsDenoted'
  BY <1>15 DEF Sample, Measured
<1>16. ASSUME NEW c \in Client, Repaired(c) PROVE PublishedIsDenoted'
  BY <1>16 DEF Repaired, NoTask
<1>17. ASSUME NEW c \in Client, OutOfTime(c) PROVE PublishedIsDenoted'
  BY <1>17 DEF OutOfTime
<1>18. ASSUME NEW c \in Client, OverrideFails(c) PROVE PublishedIsDenoted'
  BY <1>18 DEF OverrideFails, Raise, InBlock, LeaveBlock, AfterBlock, NoTask, Inside
<1>19. ASSUME NEW c \in Client, RequestFails(c) PROVE PublishedIsDenoted'
  BY <1>19 DEF RequestFails, Raise, InBlock, LeaveBlock, AfterBlock, NoTask, Inside
<1>20. CASE UNCHANGED vars
  BY <1>20 DEF vars
<1> QED
  BY <1>1, <1>2, <1>3, <1>4, <1>5, <1>6, <1>7, <1>8, <1>9, <1>10, <1>10b, <1>11, <1>12,
     <1>13, <1>14, <1>15, <1>16, <1>17, <1>18, <1>19, <1>20 DEF Next, Serve

\* What a task carries fits the await it is at.
LEMMA ShapeStep == TypeOK /\ TaskShape /\ [Next]_vars => TaskShape'
<1> SUFFICES ASSUME TypeOK /\ TaskShape, [Next]_vars PROVE TaskShape'
  OBVIOUS
<1> USE BoundsAssumption DEF TypeOK, TaskShape, Task, simVars, InFlight, Stage, Inside,
      Outside
<1>1. ASSUME Publish PROVE TaskShape'
  BY <1>1 DEF Publish
<1>2. ASSUME ReloadScenery PROVE TaskShape'
  BY <1>2 DEF ReloadScenery
<1>3. ASSUME Fly PROVE TaskShape'
  BY <1>3 DEF Fly
<1>4. ASSUME StrayLands PROVE TaskShape'
  BY <1>4 DEF StrayLands
<1>5. ASSUME NEW c \in Client, Begin(c) PROVE TaskShape'
  <2> DEFINE t == task'[c]
  <2> HIDE DEF TypeOK, TaskShape, Task, Inside, Outside, InFlight, Stage, simVars
  <2>1. \A d \in Client : d # c => task'[d] = Joined(task[d]) /\ task[d] \in Task
    BY <1>5, BeginMakes DEF TypeOK
  <2>2. /\ t.pc = "setup" => t.stage = "setup"
        /\ t.pc \in {"setup", "engage", "origin", "coords"}
        /\ t.pc \in {"origin", "coords"} => t.stage = "position"
        /\ t.attempts = 0 /\ t.agreements = 0 /\ t.untaken = 0 /\ ~t.arrived /\ ~t.raising
    <3>1. PICK p \in Place, stage \in Stage :
           /\ task'[c] = LET u == [NoTask EXCEPT !.stage = stage, !.place = p,
                                     !.alone = Quiet, !.since = IF Quiet THEN frame ELSE 0]
                         IN IF stage = "setup" THEN Entering(u) ELSE [u EXCEPT !.pc = "origin"]
           /\ freezeDepth' = IF stage = "setup" THEN DepthEntering ELSE freezeDepth
      BY <1>5, BeginMakes
    <3> QED
      BY <3>1 DEF Entering, FirstInside, NoTask, Stage
  <2> HIDE DEF t
  <2>3. \A d \in Client : d # c => task'[d].pc = task[d].pc /\ task'[d].stage = task[d].stage
          /\ task'[d].attempts = task[d].attempts /\ task'[d].agreements = task[d].agreements
          /\ task'[d].arrived = task[d].arrived /\ task'[d].raising = task[d].raising
          /\ ~task'[d].alone /\ task'[d].untaken = 0 /\ task[d].attempts \in Nat
    BY <2>1, JoinedTask DEF Task
  <2> QED
    BY <2>2, <2>3 DEF TaskShape, t
<1>6. ASSUME NEW c \in Client, Engaged(c) PROVE TaskShape'
  BY <1>6 DEF Engaged, FirstInside
<1>7. ASSUME NEW c \in Client, Released(c) PROVE TaskShape'
  BY <1>7 DEF Released, AfterBlock, NoTask
<1>8. ASSUME NEW c \in Client, WriteSetup(c) PROVE TaskShape'
  BY <1>8 DEF WriteSetup, LeaveBlock, AfterBlock, NoTask
<1>9. ASSUME NEW c \in Client, MeasureOrigin(c) PROVE TaskShape'
  BY <1>9 DEF MeasureOrigin, Entering, DepthEntering, FirstInside, Measured
<1>10. ASSUME NEW c \in Client, WriteCoords(c) PROVE TaskShape'
  BY <1>10 DEF WriteCoords
<1>10b. ASSUME NEW c \in Client, CoordsSwallowed(c) PROVE TaskShape'
  BY <1>10b DEF CoordsSwallowed
<1>11. ASSUME NEW c \in Client, WriteVelocity(c) PROVE TaskShape'
  BY <1>11 DEF WriteVelocity
<1>12. ASSUME NEW c \in Client, Arrive(c) PROVE TaskShape'
  BY <1>12 DEF Arrive, LeaveBlock, AfterBlock, NoTask
<1>13. ASSUME NEW c \in Client, AimAgain(c) PROVE TaskShape'
  BY <1>13 DEF AimAgain, SliceExpired, Measured
<1>14. ASSUME NEW c \in Client, GiveUp(c) PROVE TaskShape'
  BY <1>14 DEF GiveUp, SliceExpired, LeaveBlock, AfterBlock, NoTask
<1>15. ASSUME NEW c \in Client, Sample(c) PROVE TaskShape'
  <2> DEFINE t == task'[c]
  <2> HIDE DEF TypeOK, TaskShape, Task, Inside, Outside, InFlight, Stage, simVars
  <2>1. \A d \in Client : d # c => task'[d] = task[d]
    BY <1>15 DEF Sample, TypeOK
  <2>2. /\ t.pc \in {"settle", "coords"} /\ task[c].pc = "settle"
        /\ t.stage = task[c].stage /\ t.alone = task[c].alone /\ t.arrived = task[c].arrived
        /\ t.raising = task[c].raising /\ t.attempts = task[c].attempts
        /\ t.untaken = task[c].untaken
    BY <1>15 DEF Sample, TypeOK, Task
  <2>3. t.agreements < StableSamples
    <3>1. task[c].agreements \in Nat /\ task[c].agreements < StableSamples
      BY DEF TypeOK, Task, TaskShape
    <3> QED
      BY <1>15, <3>1, BoundsAssumption DEF Sample, TypeOK, Task
  <2> HIDE DEF t
  <2> QED
    BY <2>1, <2>2, <2>3 DEF TaskShape, t
<1>16. ASSUME NEW c \in Client, Repaired(c) PROVE TaskShape'
  BY <1>16 DEF Repaired, NoTask
<1>17. ASSUME NEW c \in Client, OutOfTime(c) PROVE TaskShape'
  BY <1>17 DEF OutOfTime
<1>18. ASSUME NEW c \in Client, OverrideFails(c) PROVE TaskShape'
  <2>1. Raise(c)
    BY <1>18 DEF OverrideFails
  <2>2. task' = [task EXCEPT ![c] = IF InBlock(c) /\ freezeDepth = 1
                  THEN [task[c] EXCEPT !.pc = "release", !.raising = TRUE] ELSE NoTask]
    BY <2>1, RaiseTask DEF TypeOK
  <2> QED
    BY <1>18, <2>2 DEF OverrideFails, InBlock, Inside, NoTask
<1>19. ASSUME NEW c \in Client, RequestFails(c) PROVE TaskShape'
  <2>1. Raise(c)
    BY <1>19 DEF RequestFails
  <2>2. task' = [task EXCEPT ![c] = IF InBlock(c) /\ freezeDepth = 1
                  THEN [task[c] EXCEPT !.pc = "release", !.raising = TRUE] ELSE NoTask]
    BY <2>1, RaiseTask DEF TypeOK
  <2> QED
    BY <1>19, <2>2 DEF RequestFails, InBlock, Inside, NoTask
<1>20. CASE UNCHANGED vars
  BY <1>20 DEF vars
<1> QED
  BY <1>1, <1>2, <1>3, <1>4, <1>5, <1>6, <1>7, <1>8, <1>9, <1>10, <1>10b, <1>11, <1>12,
     <1>13, <1>14, <1>15, <1>16, <1>17, <1>18, <1>19, <1>20 DEF Next, Serve

\* What TypeOK says of the variables other than the tasks and the depth.
SimTypes ==
  /\ override \in BOOLEAN /\ stale \in BOOLEAN /\ reload \in BOOLEAN
  /\ frame \in Frame
  /\ coords \in [place : Place \cup {Elsewhere}, frame : Frame \cup {Wrong}]
  /\ world \in Place \cup {Elsewhere}
  /\ velocity \in Client \cup {Decayed}
  /\ stray \subseteq BOOLEAN
  /\ astray \subseteq {"engage", "release", "other"}

\* ... and the types of what X-Plane holds.
LEMMA SimStep == TypeOK /\ PublishedIsDenoted /\ [Next]_vars => SimTypes'
<1> SUFFICES ASSUME TypeOK /\ PublishedIsDenoted, [Next]_vars PROVE SimTypes'
  OBVIOUS
<1> USE BoundsAssumption DEF TypeOK, SimTypes, PublishedIsDenoted, WorldOf, Task, simVars,
      Frame
<1>1. ASSUME Publish PROVE SimTypes'
  BY <1>1 DEF Publish
<1>2. ASSUME ReloadScenery PROVE SimTypes'
  <2>1. frame' \in Frame
    BY <1>2 DEF ReloadScenery
  <2> QED
    BY <1>2, <2>1 DEF ReloadScenery
<1>3. ASSUME Fly PROVE SimTypes'
  BY <1>3 DEF Fly
<1>4. ASSUME StrayLands PROVE SimTypes'
  BY <1>4 DEF StrayLands
<1>5. ASSUME NEW c \in Client, Begin(c) PROVE SimTypes'
  BY <1>5 DEF Begin
<1>6. ASSUME NEW c \in Client, Engaged(c) PROVE SimTypes'
  BY <1>6 DEF Engaged
<1>7. ASSUME NEW c \in Client, Released(c) PROVE SimTypes'
  BY <1>7 DEF Released
<1>8. ASSUME NEW c \in Client, WriteSetup(c) PROVE SimTypes'
  BY <1>8 DEF WriteSetup
<1>9. ASSUME NEW c \in Client, MeasureOrigin(c) PROVE SimTypes'
  BY <1>9 DEF MeasureOrigin
<1>10. ASSUME NEW c \in Client, WriteCoords(c) PROVE SimTypes'
  BY <1>10 DEF WriteCoords
<1>10b. ASSUME NEW c \in Client, CoordsSwallowed(c) PROVE SimTypes'
  BY <1>10b DEF CoordsSwallowed
<1>11. ASSUME NEW c \in Client, WriteVelocity(c) PROVE SimTypes'
  BY <1>11 DEF WriteVelocity
<1>12. ASSUME NEW c \in Client, Arrive(c) PROVE SimTypes'
  BY <1>12 DEF Arrive
<1>13. ASSUME NEW c \in Client, AimAgain(c) PROVE SimTypes'
  BY <1>13 DEF AimAgain
<1>14. ASSUME NEW c \in Client, GiveUp(c) PROVE SimTypes'
  BY <1>14 DEF GiveUp
<1>15. ASSUME NEW c \in Client, Sample(c) PROVE SimTypes'
  BY <1>15 DEF Sample
<1>16. ASSUME NEW c \in Client, Repaired(c) PROVE SimTypes'
  BY <1>16 DEF Repaired
<1>17. ASSUME NEW c \in Client, OutOfTime(c) PROVE SimTypes'
  BY <1>17 DEF OutOfTime
<1>18. ASSUME NEW c \in Client, OverrideFails(c) PROVE SimTypes'
  BY <1>18 DEF OverrideFails
<1>19. ASSUME NEW c \in Client, RequestFails(c) PROVE SimTypes'
  <2>1. task[c].origin \in Frame \cup {Wrong} /\ task[c].place \in Place
    OBVIOUS
  <2>2. coords' \in [place : Place \cup {Elsewhere}, frame : Frame \cup {Wrong}]
    BY <1>19, <2>1 DEF RequestFails
  <2>3. stale' \in BOOLEAN /\ astray' \subseteq {"engage", "release", "other"}
    BY <1>19 DEF RequestFails
  <2> QED
    BY <1>19, <2>2, <2>3 DEF RequestFails
<1>20. CASE UNCHANGED vars
  BY <1>20 DEF vars
<1> QED
  BY <1>1, <1>2, <1>3, <1>4, <1>5, <1>6, <1>7, <1>8, <1>9, <1>10, <1>10b, <1>11, <1>12,
     <1>13, <1>14, <1>15, <1>16, <1>17, <1>18, <1>19, <1>20 DEF Next, Serve

\* The depth follows one request into the block, or out of it.
LEMMA DepthMoves ==
    ASSUME DepthCountsBlocks,
           \/ freezeDepth' = freezeDepth /\ \A d \in Client : InBlock(d)' <=> InBlock(d)
           \/ \E c \in Client : /\ ~InBlock(c) /\ freezeDepth' = freezeDepth + 1
                                /\ \A d \in Client : InBlock(d)' <=> d = c \/ InBlock(d)
           \/ \E c \in Client : /\ InBlock(c) /\ freezeDepth' = freezeDepth - 1
                                /\ \A d \in Client : InBlock(d)' <=> d # c /\ InBlock(d)
    PROVE  DepthCountsBlocks'
<1>1. CASE freezeDepth' = freezeDepth /\ \A d \in Client : InBlock(d)' <=> InBlock(d)
  <2>1. Blocked' = Blocked
    BY <1>1 DEF Blocked
  <2> QED
    BY <1>1, <2>1 DEF DepthCountsBlocks
<1>2. ASSUME NEW c \in Client, ~InBlock(c), freezeDepth' = freezeDepth + 1,
             \A d \in Client : InBlock(d)' <=> d = c \/ InBlock(d)
      PROVE  DepthCountsBlocks'
  <2>1. Blocked' = Blocked \cup {c} /\ c \notin Blocked
    BY <1>2 DEF Blocked
  <2> QED
    BY <1>2, <2>1, FS_AddElement DEF DepthCountsBlocks
<1>3. ASSUME NEW c \in Client, InBlock(c), freezeDepth' = freezeDepth - 1,
             \A d \in Client : InBlock(d)' <=> d # c /\ InBlock(d)
      PROVE  DepthCountsBlocks'
  <2>1. Blocked' = Blocked \ {c} /\ c \in Blocked
    BY <1>3 DEF Blocked
  <2> QED
    BY <1>3, <2>1, FS_RemoveElement DEF DepthCountsBlocks
<1> QED
  BY <1>1, <1>2, <1>3

\* A block that is not the outermost one has company.
LEMMA BlockHasCompany ==
    ASSUME DepthCountsBlocks, NEW c \in Client, InBlock(c), freezeDepth # 1
    PROVE  \E d \in Client \ {c} : InBlock(d)
<1> SUFFICES ASSUME \A d \in Client \ {c} : ~InBlock(d) PROVE FALSE
  OBVIOUS
<1>1. Blocked = {c}
  BY DEF Blocked
<1> QED
  BY <1>1, FS_Singleton DEF DepthCountsBlocks

\* A lone request is the only one that can be inside.
LEMMA LoneDepth ==
    ASSUME DepthCountsBlocks, LoneIsAlone, NEW c \in Client, task[c].alone
    PROVE  freezeDepth = IF InBlock(c) THEN 1 ELSE 0
<1>1. \A d \in Client \ {c} : ~InBlock(d)
  BY DEF LoneIsAlone, InFlight, InBlock, Inside
<1>2. CASE InBlock(c)
  BY <1>1, <1>2, BlockHasCompany
<1>3. CASE ~InBlock(c)
  <2>1. Blocked = {}
    BY <1>1, <1>3 DEF Blocked
  <2> QED
    BY <1>3, <2>1, FS_EmptySet DEF DepthCountsBlocks
<1> QED
  BY <1>2, <1>3

\* When nothing is under way nobody is inside.
LEMMA QuietDepth == ASSUME DepthCountsBlocks, Quiet PROVE freezeDepth = 0
<1>1. Blocked = {}
  BY DEF Quiet, Blocked, InFlight, InBlock, Inside
<1> QED
  BY <1>1, FS_EmptySet DEF DepthCountsBlocks

\* A request that begins is alone only if all is quiet, and then nothing is frozen.
LEMMA BeginTask ==
    ASSUME TypeOK, DepthCountsBlocks, NEW c \in Client, Begin(c)
    PROVE  /\ \A d \in Client : d # c => task'[d].pc = task[d].pc /\ ~task'[d].alone
           /\ task'[c].alone => Quiet /\ task'[c].pc \in {"engage", "origin"}
                                /\ task'[c].since = frame
           /\ task'[c].pc = "engage" => task'[c].stage = "setup"
           /\ ~task'[c].arrived
<1>1. PICK p \in Place, stage \in Stage :
         LET t == [NoTask EXCEPT !.stage = stage, !.place = p, !.alone = Quiet,
                                  !.since = IF Quiet THEN frame ELSE 0] IN
         task' = [d \in Client |->
                   IF d # c THEN Joined(task[d])
                   ELSE IF stage = "setup" THEN Entering(t) ELSE [t EXCEPT !.pc = "origin"]]
  BY DEF Begin
<1>2. Quiet => freezeDepth = 0
  BY QuietDepth
<1>3. \A d \in Client : d # c => task'[d].pc = task[d].pc /\ ~task'[d].alone
  <2>1. \A d \in Client : d # c => task'[d] = Joined(task[d])
    BY <1>1
  <2> QED
    BY <2>1, JoinedTask DEF TypeOK
<1>4. task'[c].alone => Quiet
  BY <1>1 DEF Entering, FirstInside, NoTask
<1>5. Quiet => task'[c].pc \in {"engage", "origin"}
  BY <1>1, <1>2 DEF Entering, FirstInside, NoTask
<1>6. (task'[c].pc = "engage" => task'[c].stage = "setup") /\ ~task'[c].arrived
  BY <1>1, <1>2 DEF Entering, FirstInside, NoTask
<1>7. Quiet => task'[c].since = frame
  BY <1>1 DEF Entering, FirstInside, NoTask
<1> QED
  BY <1>3, <1>4, <1>5, <1>6, <1>7

\* Every step keeps _freeze_depth the number of requests inside frozen_flight_model's
\* block, also a step that raises.
LEMMA DepthStep == TypeOK /\ DepthCountsBlocks /\ [Next]_vars => DepthCountsBlocks'
<1> SUFFICES ASSUME TypeOK /\ DepthCountsBlocks, [Next]_vars PROVE DepthCountsBlocks'
  OBVIOUS
<1> DEFINE Goal ==
      \/ freezeDepth' = freezeDepth /\ \A d \in Client : InBlock(d)' <=> InBlock(d)
      \/ \E c \in Client : /\ ~InBlock(c) /\ freezeDepth' = freezeDepth + 1
                           /\ \A d \in Client : InBlock(d)' <=> d = c \/ InBlock(d)
      \/ \E c \in Client : /\ InBlock(c) /\ freezeDepth' = freezeDepth - 1
                           /\ \A d \in Client : InBlock(d)' <=> d # c /\ InBlock(d)
<1> USE TRUE DEF TypeOK, simVars, InFlight, InBlock, Inside, Task
<1>1. ASSUME Publish PROVE Goal
  BY <1>1 DEF Publish
<1>2. ASSUME ReloadScenery PROVE Goal
  BY <1>2 DEF ReloadScenery
<1>3. ASSUME Fly PROVE Goal
  BY <1>3 DEF Fly
<1>4. ASSUME StrayLands PROVE Goal
  BY <1>4 DEF StrayLands
<1>5. ASSUME NEW c \in Client, Begin(c) PROVE Goal
  <2> HIDE DEF TypeOK, Task
  <2>1. \A d \in Client : d # c => InBlock(d)' <=> InBlock(d)
    BY <1>5, BeginTask
  <2>2. ~InBlock(c)
    BY <1>5 DEF Begin
  <2>3. \/ freezeDepth' = freezeDepth /\ ~InBlock(c)'
        \/ freezeDepth' = freezeDepth + 1 /\ InBlock(c)'
    <3>1. PICK p \in Place, stage \in Stage :
           /\ task'[c] = LET u == [NoTask EXCEPT !.stage = stage, !.place = p,
                                     !.alone = Quiet, !.since = IF Quiet THEN frame ELSE 0]
                         IN IF stage = "setup" THEN Entering(u) ELSE [u EXCEPT !.pc = "origin"]
           /\ freezeDepth' = IF stage = "setup" THEN DepthEntering ELSE freezeDepth
      BY <1>5, BeginMakes
    <3> QED
      BY <3>1 DEF Entering, DepthEntering, FirstInside, NoTask
  <2> QED
    BY <2>1, <2>2, <2>3
<1>6. ASSUME NEW c \in Client, Engaged(c) PROVE Goal
  BY <1>6 DEF Engaged, FirstInside
<1>7. ASSUME NEW c \in Client, Released(c) PROVE Goal
  BY <1>7 DEF Released, AfterBlock, NoTask
<1>8. ASSUME NEW c \in Client, WriteSetup(c) PROVE Goal
  BY <1>8 DEF WriteSetup, LeaveBlock, AfterBlock, NoTask
<1>9. ASSUME NEW c \in Client, MeasureOrigin(c) PROVE Goal
  BY <1>9 DEF MeasureOrigin, Entering, DepthEntering, FirstInside, Measured
<1>10. ASSUME NEW c \in Client, WriteCoords(c) PROVE Goal
  BY <1>10 DEF WriteCoords
<1>10b. ASSUME NEW c \in Client, CoordsSwallowed(c) PROVE Goal
  BY <1>10b DEF CoordsSwallowed
<1>11. ASSUME NEW c \in Client, WriteVelocity(c) PROVE Goal
  BY <1>11 DEF WriteVelocity
<1>12. ASSUME NEW c \in Client, Arrive(c) PROVE Goal
  BY <1>12 DEF Arrive, LeaveBlock, AfterBlock, NoTask
<1>13. ASSUME NEW c \in Client, AimAgain(c) PROVE Goal
  BY <1>13 DEF AimAgain, SliceExpired, Measured
<1>14. ASSUME NEW c \in Client, GiveUp(c) PROVE Goal
  BY <1>14 DEF GiveUp, SliceExpired, LeaveBlock, AfterBlock, NoTask
<1>15. ASSUME NEW c \in Client, Sample(c) PROVE Goal
  BY <1>15, SMTT(40) DEF Sample, Measured
<1>16. ASSUME NEW c \in Client, Repaired(c) PROVE Goal
  BY <1>16 DEF Repaired, NoTask
<1>17. ASSUME NEW c \in Client, OutOfTime(c) PROVE Goal
  BY <1>17 DEF OutOfTime
<1>18. ASSUME NEW c \in Client, OverrideFails(c) PROVE Goal
  <2>1. Raise(c)
    BY <1>18 DEF OverrideFails
  <2>2. /\ task' = [task EXCEPT ![c] = IF InBlock(c) /\ freezeDepth = 1
                       THEN [task[c] EXCEPT !.pc = "release", !.raising = TRUE] ELSE NoTask]
        /\ freezeDepth' = IF InBlock(c) THEN freezeDepth - 1 ELSE freezeDepth
    BY <2>1, RaiseTask DEF TypeOK
  <2> QED
    BY <1>18, <2>2 DEF NoTask
<1>19. ASSUME NEW c \in Client, RequestFails(c) PROVE Goal
  <2>1. Raise(c)
    BY <1>19 DEF RequestFails
  <2>2. /\ task' = [task EXCEPT ![c] = IF InBlock(c) /\ freezeDepth = 1
                       THEN [task[c] EXCEPT !.pc = "release", !.raising = TRUE] ELSE NoTask]
        /\ freezeDepth' = IF InBlock(c) THEN freezeDepth - 1 ELSE freezeDepth
    BY <2>1, RaiseTask DEF TypeOK
  <2> QED
    BY <1>19, <2>2 DEF NoTask
<1>20. ASSUME UNCHANGED vars PROVE Goal
  <2>1. freezeDepth' = freezeDepth /\ task' = task
    BY <1>20 DEF vars
  <2> QED
    BY <2>1
<1> HIDE DEF Goal, TypeOK, simVars, InFlight, InBlock, Inside, Task
<1>21. Goal
  BY <1>1, <1>2, <1>3, <1>4, <1>5, <1>6, <1>7, <1>8, <1>9, <1>10, <1>10b, <1>11, <1>12,
     <1>13, <1>14, <1>15, <1>16, <1>17, <1>18, <1>19, <1>20 DEF Next, Serve
<1> QED
  BY <1>21, DepthMoves DEF Goal

\* While override writes are answered, whoever leaves the block of a frozen aircraft
\* releases it or leaves somebody behind.
LEMMA ThawsStep ==
    TypeOK /\ DepthCountsBlocks /\ SomebodyThaws /\ [Next]_vars => SomebodyThaws'
<1> SUFFICES ASSUME TypeOK, DepthCountsBlocks, SomebodyThaws, [Next]_vars
             PROVE  SomebodyThaws'
  OBVIOUS
<1> DEFINE Goal == SomebodyThaws'
<1> USE DEF TypeOK, simVars, InFlight, InBlock, Inside, Task, SomebodyThaws
<1>1. ASSUME Publish PROVE Goal
  BY <1>1 DEF Publish
<1>2. ASSUME ReloadScenery PROVE Goal
  BY <1>2 DEF ReloadScenery
<1>3. ASSUME Fly PROVE Goal
  BY <1>3 DEF Fly
<1>4. ASSUME StrayLands PROVE Goal
  BY <1>4 DEF StrayLands
<1>5. ASSUME NEW c \in Client, Begin(c) PROVE Goal
  <2> HIDE DEF TypeOK, InFlight, InBlock, Inside, Task, SomebodyThaws
  <2>1. /\ \A d \in Client : d # c => (InBlock(d)' <=> InBlock(d))
        /\ \A d \in Client : d # c => task'[d].pc = task[d].pc
    BY <1>5, BeginTask DEF InBlock
  <2>2. ~InBlock(c) /\ task[c].pc # "release"
    BY <1>5 DEF Begin, InFlight, InBlock, Inside
  <2>3. override' = override /\ stray' = stray /\ astray' = astray
    BY <1>5 DEF Begin, simVars
  <2> QED
    BY <2>1, <2>2, <2>3 DEF SomebodyThaws
<1>6. ASSUME NEW c \in Client, Engaged(c) PROVE Goal
  BY <1>6 DEF Engaged, FirstInside
<1>7. ASSUME NEW c \in Client, Released(c) PROVE Goal
  BY <1>7 DEF Released, AfterBlock, NoTask
<1>8. ASSUME NEW c \in Client, WriteSetup(c) PROVE Goal
  <2>1. freezeDepth # 1 => \E d \in Client \ {c} : InBlock(d)
    BY <1>8, BlockHasCompany DEF WriteSetup
  <2> QED
    BY <1>8, <2>1 DEF WriteSetup, LeaveBlock, AfterBlock, NoTask
<1>9. ASSUME NEW c \in Client, MeasureOrigin(c) PROVE Goal
  BY <1>9 DEF MeasureOrigin, Entering, DepthEntering, FirstInside, Measured
<1>10. ASSUME NEW c \in Client, WriteCoords(c) PROVE Goal
  BY <1>10 DEF WriteCoords
<1>10b. ASSUME NEW c \in Client, CoordsSwallowed(c) PROVE Goal
  BY <1>10b DEF CoordsSwallowed
<1>11. ASSUME NEW c \in Client, WriteVelocity(c) PROVE Goal
  BY <1>11 DEF WriteVelocity
<1>12. ASSUME NEW c \in Client, Arrive(c) PROVE Goal
  <2>1. freezeDepth # 1 => \E d \in Client \ {c} : InBlock(d)
    BY <1>12, BlockHasCompany DEF Arrive
  <2> QED
    BY <1>12, <2>1 DEF Arrive, LeaveBlock, AfterBlock, NoTask
<1>13. ASSUME NEW c \in Client, AimAgain(c) PROVE Goal
  BY <1>13 DEF AimAgain, SliceExpired, Measured
<1>14. ASSUME NEW c \in Client, GiveUp(c) PROVE Goal
  <2>1. freezeDepth # 1 => \E d \in Client \ {c} : InBlock(d)
    BY <1>14, BlockHasCompany DEF GiveUp, SliceExpired
  <2> QED
    BY <1>14, <2>1 DEF GiveUp, SliceExpired, LeaveBlock, AfterBlock, NoTask
<1>15. ASSUME NEW c \in Client, Sample(c) PROVE Goal
  BY <1>15 DEF Sample, Measured
<1>16. ASSUME NEW c \in Client, Repaired(c) PROVE Goal
  BY <1>16 DEF Repaired, NoTask
<1>17. ASSUME NEW c \in Client, OutOfTime(c) PROVE Goal
  BY <1>17 DEF OutOfTime
<1>18. ASSUME NEW c \in Client, OverrideFails(c) PROVE Goal
  <2>1. Raise(c)
    BY <1>18 DEF OverrideFails
  <2>2. /\ task' = [task EXCEPT ![c] = IF InBlock(c) /\ freezeDepth = 1
                       THEN [task[c] EXCEPT !.pc = "release", !.raising = TRUE] ELSE NoTask]
        /\ freezeDepth' = IF InBlock(c) THEN freezeDepth - 1 ELSE freezeDepth
    BY <2>1, RaiseTask DEF TypeOK
  <2>3. InBlock(c) /\ freezeDepth # 1 => \E d \in Client \ {c} : InBlock(d)
    BY BlockHasCompany
  <2> QED
    BY <1>18, <2>2, <2>3 DEF OverrideFails, NoTask
<1>19. ASSUME NEW c \in Client, RequestFails(c) PROVE Goal
  <2>1. Raise(c)
    BY <1>19 DEF RequestFails
  <2>2. /\ task' = [task EXCEPT ![c] = IF InBlock(c) /\ freezeDepth = 1
                       THEN [task[c] EXCEPT !.pc = "release", !.raising = TRUE] ELSE NoTask]
        /\ freezeDepth' = IF InBlock(c) THEN freezeDepth - 1 ELSE freezeDepth
    BY <2>1, RaiseTask DEF TypeOK
  <2>3. InBlock(c) /\ freezeDepth # 1 => \E d \in Client \ {c} : InBlock(d)
    BY BlockHasCompany
  <2> QED
    BY <1>19, <2>2, <2>3 DEF RequestFails, NoTask
<1>20. ASSUME UNCHANGED vars PROVE Goal
  BY <1>20 DEF vars
<1> HIDE DEF Goal, TypeOK, simVars, InFlight, InBlock, Inside, Task, SomebodyThaws
<1>21. Goal
  BY <1>1, <1>2, <1>3, <1>4, <1>5, <1>6, <1>7, <1>8, <1>9, <1>10, <1>10b, <1>11, <1>12,
     <1>13, <1>14, <1>15, <1>16, <1>17, <1>18, <1>19, <1>20 DEF Next, Serve
<1> QED
  BY <1>21 DEF Goal

\* A request stays alone until another one begins, and enters its block frozen.
LEMMA AloneStep ==
    TypeOK /\ DepthCountsBlocks /\ LoneIsAlone /\ [Next]_vars => LoneIsAlone'
<1> SUFFICES ASSUME TypeOK, DepthCountsBlocks, LoneIsAlone, [Next]_vars
             PROVE  LoneIsAlone'
  OBVIOUS
<1> DEFINE Goal == LoneIsAlone'
<1> USE DEF TypeOK, simVars, InFlight, InBlock, Inside, Task, LoneIsAlone
<1>1. ASSUME Publish PROVE Goal
  BY <1>1 DEF Publish
<1>2. ASSUME ReloadScenery PROVE Goal
  BY <1>2 DEF ReloadScenery
<1>3. ASSUME Fly PROVE Goal
  BY <1>3 DEF Fly
<1>4. ASSUME StrayLands PROVE Goal
  BY <1>4 DEF StrayLands
<1>5. ASSUME NEW c \in Client, Begin(c) PROVE Goal
  <2> HIDE DEF TypeOK, simVars, InFlight, InBlock, Inside, Task, LoneIsAlone
  <2>1. stray' = stray /\ (Quiet => stray = {} /\ \A d \in Client : task[d].pc = "idle")
    BY <1>5 DEF Begin, Quiet, InFlight
  <2> QED
    BY <1>5, <2>1, BeginTask DEF LoneIsAlone, InFlight, InBlock, Inside
<1>6. ASSUME NEW c \in Client, Engaged(c) PROVE Goal
  <2>1. \A e \in Client : task[e].alone => freezeDepth = IF InBlock(e) THEN 1 ELSE 0
    BY LoneDepth
  <2> QED
    BY <1>6, <2>1 DEF Engaged, FirstInside
<1>7. ASSUME NEW c \in Client, Released(c) PROVE Goal
  <2>1. \A e \in Client : task[e].alone => freezeDepth = IF InBlock(e) THEN 1 ELSE 0
    BY LoneDepth
  <2> QED
    BY <1>7, <2>1 DEF Released, AfterBlock, NoTask
<1>8. ASSUME NEW c \in Client, WriteSetup(c) PROVE Goal
  <2>1. \A e \in Client : task[e].alone => freezeDepth = IF InBlock(e) THEN 1 ELSE 0
    BY LoneDepth
  <2> QED
    BY <1>8, <2>1 DEF WriteSetup, LeaveBlock, AfterBlock, NoTask
<1>9. ASSUME NEW c \in Client, MeasureOrigin(c) PROVE Goal
  <2>1. \A e \in Client : task[e].alone => freezeDepth = IF InBlock(e) THEN 1 ELSE 0
    BY LoneDepth
  <2> QED
    BY <1>9, <2>1 DEF MeasureOrigin, Entering, DepthEntering, FirstInside, Measured
<1>10. ASSUME NEW c \in Client, WriteCoords(c) PROVE Goal
  <2>1. \A e \in Client : task[e].alone => freezeDepth = IF InBlock(e) THEN 1 ELSE 0
    BY LoneDepth
  <2> QED
    BY <1>10, <2>1 DEF WriteCoords
<1>10b. ASSUME NEW c \in Client, CoordsSwallowed(c) PROVE Goal
  <2>1. \A e \in Client : task[e].alone => freezeDepth = IF InBlock(e) THEN 1 ELSE 0
    BY LoneDepth
  <2> QED
    BY <1>10b, <2>1 DEF CoordsSwallowed
<1>11. ASSUME NEW c \in Client, WriteVelocity(c) PROVE Goal
  <2>1. \A e \in Client : task[e].alone => freezeDepth = IF InBlock(e) THEN 1 ELSE 0
    BY LoneDepth
  <2> QED
    BY <1>11, <2>1 DEF WriteVelocity
<1>12. ASSUME NEW c \in Client, Arrive(c) PROVE Goal
  <2>1. \A e \in Client : task[e].alone => freezeDepth = IF InBlock(e) THEN 1 ELSE 0
    BY LoneDepth
  <2> QED
    BY <1>12, <2>1 DEF Arrive, LeaveBlock, AfterBlock, NoTask
<1>13. ASSUME NEW c \in Client, AimAgain(c) PROVE Goal
  <2>1. \A e \in Client : task[e].alone => freezeDepth = IF InBlock(e) THEN 1 ELSE 0
    BY LoneDepth
  <2> QED
    BY <1>13, <2>1 DEF AimAgain, SliceExpired, Measured
<1>14. ASSUME NEW c \in Client, GiveUp(c) PROVE Goal
  <2>1. \A e \in Client : task[e].alone => freezeDepth = IF InBlock(e) THEN 1 ELSE 0
    BY LoneDepth
  <2> QED
    BY <1>14, <2>1 DEF GiveUp, SliceExpired, LeaveBlock, AfterBlock, NoTask
<1>15. ASSUME NEW c \in Client, Sample(c) PROVE Goal
  <2>1. \A e \in Client : task[e].alone => freezeDepth = IF InBlock(e) THEN 1 ELSE 0
    BY LoneDepth
  <2> QED
    BY <1>15, <2>1 DEF Sample, Measured
<1>16. ASSUME NEW c \in Client, Repaired(c) PROVE Goal
  <2>1. \A e \in Client : task[e].alone => freezeDepth = IF InBlock(e) THEN 1 ELSE 0
    BY LoneDepth
  <2> QED
    BY <1>16, <2>1 DEF Repaired, NoTask
<1>17. ASSUME NEW c \in Client, OutOfTime(c) PROVE Goal
  <2>1. \A e \in Client : task[e].alone => freezeDepth = IF InBlock(e) THEN 1 ELSE 0
    BY LoneDepth
  <2> QED
    BY <1>17, <2>1 DEF OutOfTime
<1>18. ASSUME NEW c \in Client, OverrideFails(c) PROVE Goal
  <2>1. Raise(c)
    BY <1>18 DEF OverrideFails
  <2>2. /\ task' = [task EXCEPT ![c] = IF InBlock(c) /\ freezeDepth = 1
                       THEN [task[c] EXCEPT !.pc = "release", !.raising = TRUE] ELSE NoTask]
        /\ freezeDepth' = IF InBlock(c) THEN freezeDepth - 1 ELSE freezeDepth
    BY <2>1, RaiseTask DEF TypeOK
  <2> QED
    BY <1>18, <2>2 DEF OverrideFails, NoTask
<1>19. ASSUME NEW c \in Client, RequestFails(c) PROVE Goal
  <2>1. Raise(c)
    BY <1>19 DEF RequestFails
  <2>2. /\ task' = [task EXCEPT ![c] = IF InBlock(c) /\ freezeDepth = 1
                       THEN [task[c] EXCEPT !.pc = "release", !.raising = TRUE] ELSE NoTask]
        /\ freezeDepth' = IF InBlock(c) THEN freezeDepth - 1 ELSE freezeDepth
    BY <2>1, RaiseTask DEF TypeOK
  <2> QED
    BY <1>19, <2>2 DEF RequestFails, NoTask
<1>20. ASSUME UNCHANGED vars PROVE Goal
  BY <1>20 DEF vars
<1> HIDE DEF Goal, TypeOK, simVars, InFlight, InBlock, Inside, Task, LoneIsAlone
<1>21. Goal
  BY <1>1, <1>2, <1>3, <1>4, <1>5, <1>6, <1>7, <1>8, <1>9, <1>10, <1>10b, <1>11, <1>12,
     <1>13, <1>14, <1>15, <1>16, <1>17, <1>18, <1>19, <1>20 DEF Next, Serve
<1> QED
  BY <1>21 DEF Goal

\* A lone request aims in the current frame, and each aim but the last costs a reload or
\* is swallowed.
LEMMA AimsStep ==
    TypeOK /\ DepthCountsBlocks /\ PublishedIsDenoted /\ TaskShape /\ LoneIsAlone /\
    LoneAims /\ [Next]_vars => LoneAims'
<1> SUFFICES ASSUME TypeOK,
                    DepthCountsBlocks,
                    PublishedIsDenoted,
                    TaskShape,
                    LoneIsAlone,
                    LoneAims,
                    [Next]_vars
             PROVE  LoneAims'
  OBVIOUS
<1> DEFINE Goal == LoneAims'
<1> USE BoundsAssumption, ValuesAssumption DEF TypeOK, simVars, InFlight, InBlock, Inside,
      Task, WorldOf, Frame, Stage, LoneAims, PublishedIsDenoted, TaskShape, Spent
<1>1. ASSUME Publish PROVE Goal
  BY <1>1 DEF Publish
<1>2. ASSUME ReloadScenery PROVE Goal
  BY <1>2 DEF ReloadScenery
<1>3. ASSUME Fly PROVE Goal
  BY <1>3 DEF Fly
<1>4. ASSUME StrayLands PROVE Goal
  BY <1>4 DEF StrayLands
<1>5. ASSUME NEW c \in Client, Begin(c) PROVE Goal
  <2> HIDE DEF TypeOK, InFlight, InBlock, Inside, Task, LoneAims, Spent
  <2>1. (Quiet => ~stale /\ ~reload) /\ stale' = stale /\ reload' = reload
        /\ frame' = frame
    BY <1>5 DEF Begin, Quiet
  <2>2. frame \in Nat
    BY DEF TypeOK
  <2> QED
    BY <1>5, <2>1, <2>2, BeginTask DEF LoneAims
<1>6. ASSUME NEW c \in Client, Engaged(c) PROVE Goal
  <2> HIDE DEF LoneAims
  <2>1. \A e \in Client : task'[e].alone => task[e].alone /\ e = c
    BY <1>6 DEF Engaged, FirstInside, LoneIsAlone
  <2>2. task[c].alone => freezeDepth = IF InBlock(c) THEN 1 ELSE 0
    BY LoneDepth
  <2> QED
    BY <1>6, <2>1, <2>2 DEF Engaged, FirstInside, LoneAims, LoneIsAlone
<1>7. ASSUME NEW c \in Client, Released(c) PROVE Goal
  <2> HIDE DEF LoneAims
  <2>1. \A e \in Client : task'[e].alone => task[e].alone /\ e = c
    BY <1>7 DEF Released, AfterBlock, NoTask, LoneIsAlone
  <2>2. task[c].alone => freezeDepth = IF InBlock(c) THEN 1 ELSE 0
    BY LoneDepth
  <2> QED
    BY <1>7, <2>1, <2>2 DEF Released, AfterBlock, NoTask, LoneAims, LoneIsAlone
<1>8. ASSUME NEW c \in Client, WriteSetup(c) PROVE Goal
  <2> HIDE DEF LoneAims
  <2>1. \A e \in Client : task'[e].alone => task[e].alone /\ e = c
    BY <1>8 DEF WriteSetup, LeaveBlock, AfterBlock, NoTask, LoneIsAlone
  <2>2. task[c].alone => freezeDepth = IF InBlock(c) THEN 1 ELSE 0
    BY LoneDepth
  <2> QED
    BY <1>8, <2>1, <2>2 DEF WriteSetup, LeaveBlock, AfterBlock, NoTask, LoneAims,
       LoneIsAlone
<1>9. ASSUME NEW c \in Client, MeasureOrigin(c) PROVE Goal
  <2> HIDE DEF LoneAims
  <2>1. \A e \in Client : task'[e].alone => task[e].alone /\ e = c
    BY <1>9 DEF MeasureOrigin, Entering, DepthEntering, FirstInside, Measured, LoneIsAlone
  <2>2. task[c].alone => freezeDepth = IF InBlock(c) THEN 1 ELSE 0
    BY LoneDepth
  <2> QED
    BY <1>9, <2>1, <2>2 DEF MeasureOrigin, Entering, DepthEntering, FirstInside, Measured,
       LoneAims, LoneIsAlone
<1>10. ASSUME NEW c \in Client, WriteCoords(c) PROVE Goal
  <2> HIDE DEF LoneAims
  <2>1. \A e \in Client : task'[e].alone => task[e].alone /\ e = c
    BY <1>10 DEF WriteCoords, LoneIsAlone
  <2>2. task[c].alone => freezeDepth = IF InBlock(c) THEN 1 ELSE 0
    BY LoneDepth
  <2> QED
    BY <1>10, <2>1, <2>2 DEF WriteCoords, LoneAims, LoneIsAlone
<1>10b. ASSUME NEW c \in Client, CoordsSwallowed(c) PROVE Goal
  <2> HIDE DEF LoneAims
  <2>1. \A e \in Client : task'[e].alone => task[e].alone /\ e = c
    BY <1>10b DEF CoordsSwallowed, LoneIsAlone
  <2>2. task[c].alone => freezeDepth = IF InBlock(c) THEN 1 ELSE 0
    BY LoneDepth
  <2> QED
    BY <1>10b, <2>1, <2>2 DEF CoordsSwallowed, LoneAims, LoneIsAlone
<1>11. ASSUME NEW c \in Client, WriteVelocity(c) PROVE Goal
  <2> HIDE DEF LoneAims
  <2>1. \A e \in Client : task'[e].alone => task[e].alone /\ e = c
    BY <1>11 DEF WriteVelocity, LoneIsAlone
  <2>2. task[c].alone => freezeDepth = IF InBlock(c) THEN 1 ELSE 0
    BY LoneDepth
  <2> QED
    BY <1>11, <2>1, <2>2 DEF WriteVelocity, LoneAims, LoneIsAlone
<1>12. ASSUME NEW c \in Client, Arrive(c) PROVE Goal
  <2> HIDE DEF LoneAims
  <2>1. \A e \in Client : task'[e].alone => task[e].alone /\ e = c
    BY <1>12 DEF Arrive, LeaveBlock, AfterBlock, NoTask, LoneIsAlone
  <2>2. task[c].alone => freezeDepth = IF InBlock(c) THEN 1 ELSE 0
    BY LoneDepth
  <2> QED
    BY <1>12, <2>1, <2>2 DEF Arrive, LeaveBlock, AfterBlock, NoTask, LoneAims, LoneIsAlone
<1>13. ASSUME NEW c \in Client, AimAgain(c) PROVE Goal
  <2> HIDE DEF LoneAims
  <2>1. \A e \in Client : task'[e].alone => task[e].alone /\ e = c
    BY <1>13 DEF AimAgain, SliceExpired, Measured, LoneIsAlone
  <2>2. task[c].alone => freezeDepth = IF InBlock(c) THEN 1 ELSE 0
    BY LoneDepth
  <2> QED
    BY <1>13, <2>1, <2>2 DEF AimAgain, SliceExpired, Measured, LoneAims, LoneIsAlone
<1>14. ASSUME NEW c \in Client, GiveUp(c) PROVE Goal
  <2> HIDE DEF LoneAims
  <2>1. \A e \in Client : task'[e].alone => task[e].alone /\ e = c
    BY <1>14 DEF GiveUp, SliceExpired, LeaveBlock, AfterBlock, NoTask, LoneIsAlone
  <2>2. task[c].alone => freezeDepth = IF InBlock(c) THEN 1 ELSE 0
    BY LoneDepth
  <2> QED
    BY <1>14, <2>1, <2>2 DEF GiveUp, SliceExpired, LeaveBlock, AfterBlock, NoTask, LoneAims,
       LoneIsAlone
<1>15. ASSUME NEW c \in Client, Sample(c) PROVE Goal
  <2> HIDE DEF LoneAims, PublishedIsDenoted, TaskShape
  <2>1. \A e \in Client : task'[e].alone => task[e].alone /\ e = c
    BY <1>15 DEF Sample, LoneIsAlone
  <2>2. /\ task'[c].pc \in {"coords", "settle"} /\ task'[c].origin = Measured
        /\ task'[c].attempts = task[c].attempts /\ task'[c].since = task[c].since
        /\ task'[c].untaken = task[c].untaken
    BY <1>15 DEF Sample
  <2>3. task[c].pc = "settle" /\ UNCHANGED <<frame, stale, reload>>
    BY <1>15 DEF Sample
  <2>4. task[c].alone => /\ ~stale /\ ~reload /\ task[c].attempts <= Spent(c)
                         /\ task[c].since <= frame /\ Measured = frame
    BY <2>3 DEF LoneAims, Measured
  <2> QED
    BY <2>1, <2>2, <2>3, <2>4 DEF LoneAims
<1>16. ASSUME NEW c \in Client, Repaired(c) PROVE Goal
  <2> HIDE DEF LoneAims
  <2>1. \A e \in Client : task'[e].alone => task[e].alone /\ e = c
    BY <1>16 DEF Repaired, NoTask, LoneIsAlone
  <2>2. task[c].alone => freezeDepth = IF InBlock(c) THEN 1 ELSE 0
    BY LoneDepth
  <2> QED
    BY <1>16, <2>1, <2>2 DEF Repaired, NoTask, LoneAims, LoneIsAlone
<1>17. ASSUME NEW c \in Client, OutOfTime(c) PROVE Goal
  <2> HIDE DEF LoneAims
  <2>1. \A e \in Client : task'[e].alone => task[e].alone /\ e = c
    BY <1>17 DEF OutOfTime, LoneIsAlone
  <2>2. task[c].alone => freezeDepth = IF InBlock(c) THEN 1 ELSE 0
    BY LoneDepth
  <2> QED
    BY <1>17, <2>1, <2>2 DEF OutOfTime, LoneAims, LoneIsAlone
<1>18. ASSUME NEW c \in Client, OverrideFails(c) PROVE Goal
  <2> HIDE DEF LoneAims
  <2>1. Raise(c)
    BY <1>18 DEF OverrideFails
  <2>2. task' = [task EXCEPT ![c] = IF InBlock(c) /\ freezeDepth = 1
                  THEN [task[c] EXCEPT !.pc = "release", !.raising = TRUE] ELSE NoTask]
    BY <2>1, RaiseTask DEF TypeOK
  <2>3. \A e \in Client : task'[e].alone => e = c /\ task[e].alone /\ InBlock(c) /\ freezeDepth = 1
    BY <1>18, <2>2 DEF OverrideFails, NoTask, LoneIsAlone
  <2>4. \A e \in Client : task'[e].alone =>
          task'[e].pc = "release" /\ task'[e].raising /\ ~task'[e].arrived
          /\ task'[e].since = task[e].since
    BY <2>2, <2>3
  <2>5. frame' = frame
    BY <1>18 DEF OverrideFails
  <2> QED
    BY <2>3, <2>4, <2>5 DEF LoneAims
<1>19. ASSUME NEW c \in Client, RequestFails(c) PROVE Goal
  <2> HIDE DEF LoneAims
  <2>1. Raise(c)
    BY <1>19 DEF RequestFails
  <2>2. task' = [task EXCEPT ![c] = IF InBlock(c) /\ freezeDepth = 1
                  THEN [task[c] EXCEPT !.pc = "release", !.raising = TRUE] ELSE NoTask]
    BY <2>1, RaiseTask DEF TypeOK
  <2>3. \A e \in Client : task'[e].alone => e = c /\ task[e].alone /\ InBlock(c) /\ freezeDepth = 1
    BY <1>19, <2>2 DEF RequestFails, NoTask, LoneIsAlone
  <2>4. \A e \in Client : task'[e].alone =>
          task'[e].pc = "release" /\ task'[e].raising /\ ~task'[e].arrived
          /\ task'[e].since = task[e].since
    BY <2>2, <2>3
  <2>5. frame' = frame
    BY <1>19 DEF RequestFails
  <2> QED
    BY <2>3, <2>4, <2>5 DEF LoneAims
<1>20. ASSUME UNCHANGED vars PROVE Goal
  BY <1>20 DEF vars
<1> HIDE DEF Goal, TypeOK, simVars, InFlight, InBlock, Inside, Task, WorldOf, Frame, Stage,
      LoneAims, PublishedIsDenoted, TaskShape, Spent
<1>21. Goal
  BY <1>1, <1>2, <1>3, <1>4, <1>5, <1>6, <1>7, <1>8, <1>9, <1>10, <1>10b, <1>11, <1>12,
     <1>13, <1>14, <1>15, <1>16, <1>17, <1>18, <1>19, <1>20 DEF Next, Serve
<1> QED
  BY <1>21 DEF Goal

\* What a lone request found as it left the block still holds when it is answered.
LEMMA LandsStep ==
    TypeOK /\ DepthCountsBlocks /\ PublishedIsDenoted /\ TaskShape /\ LoneIsAlone /\
    LoneAims /\ LoneLands /\ [Next]_vars => LoneLands'
<1> SUFFICES ASSUME TypeOK,
                    DepthCountsBlocks,
                    PublishedIsDenoted,
                    TaskShape,
                    LoneIsAlone,
                    LoneAims,
                    LoneLands,
                    [Next]_vars
             PROVE  LoneLands'
  OBVIOUS
<1> DEFINE Goal == LoneLands'
<1> USE BoundsAssumption, ValuesAssumption DEF TypeOK, simVars, InFlight, InBlock, Inside,
      Task, WorldOf, Frame, Stage, LoneAims, LoneLands, PublishedIsDenoted, TaskShape, Spent
<1>1. ASSUME Publish PROVE Goal
  BY <1>1 DEF Publish
<1>2. ASSUME ReloadScenery PROVE Goal
  BY <1>2 DEF ReloadScenery
<1>3. ASSUME Fly PROVE Goal
  BY <1>3 DEF Fly, LoneIsAlone
<1>4. ASSUME StrayLands PROVE Goal
  BY <1>4 DEF StrayLands
<1>5. ASSUME NEW c \in Client, Begin(c) PROVE Goal
  <2> HIDE DEF TypeOK, InFlight, InBlock, Inside, Task, LoneLands
  <2>1. (Quiet => ~stale /\ ~reload) /\ stale' = stale /\ reload' = reload
    BY <1>5 DEF Begin, Quiet
  <2> QED
    BY <1>5, <2>1, BeginTask DEF LoneLands
<1>6. ASSUME NEW c \in Client, Engaged(c) PROVE Goal
  <2> HIDE DEF LoneLands
  <2>1. \A e \in Client : task'[e].alone => task[e].alone /\ e = c
    BY <1>6 DEF Engaged, FirstInside, LoneIsAlone
  <2>2. task[c].alone => freezeDepth = IF InBlock(c) THEN 1 ELSE 0
    BY LoneDepth
  <2> QED
    BY <1>6, <2>1, <2>2 DEF Engaged, FirstInside, LoneLands, LoneIsAlone
<1>7. ASSUME NEW c \in Client, Released(c) PROVE Goal
  <2> HIDE DEF LoneLands
  <2>1. \A e \in Client : task'[e].alone => task[e].alone /\ e = c
    BY <1>7 DEF Released, AfterBlock, NoTask, LoneIsAlone
  <2>2. task[c].alone => freezeDepth = IF InBlock(c) THEN 1 ELSE 0
    BY LoneDepth
  <2> QED
    BY <1>7, <2>1, <2>2 DEF Released, AfterBlock, NoTask, LoneLands, LoneIsAlone
<1>8. ASSUME NEW c \in Client, WriteSetup(c) PROVE Goal
  <2> HIDE DEF LoneLands
  <2>1. \A e \in Client : task'[e].alone => task[e].alone /\ e = c
    BY <1>8 DEF WriteSetup, LeaveBlock, AfterBlock, NoTask, LoneIsAlone
  <2>2. task[c].alone => freezeDepth = IF InBlock(c) THEN 1 ELSE 0
    BY LoneDepth
  <2> QED
    BY <1>8, <2>1, <2>2 DEF WriteSetup, LeaveBlock, AfterBlock, NoTask, LoneLands,
       LoneIsAlone
<1>9. ASSUME NEW c \in Client, MeasureOrigin(c) PROVE Goal
  <2> HIDE DEF LoneLands
  <2>1. \A e \in Client : task'[e].alone => task[e].alone /\ e = c
    BY <1>9 DEF MeasureOrigin, Entering, DepthEntering, FirstInside, Measured, LoneIsAlone
  <2>2. task[c].alone => freezeDepth = IF InBlock(c) THEN 1 ELSE 0
    BY LoneDepth
  <2> QED
    BY <1>9, <2>1, <2>2 DEF MeasureOrigin, Entering, DepthEntering, FirstInside, Measured,
       LoneLands, LoneIsAlone
<1>10. ASSUME NEW c \in Client, WriteCoords(c) PROVE Goal
  <2> HIDE DEF LoneLands
  <2>1. \A e \in Client : task'[e].alone => task[e].alone /\ e = c
    BY <1>10 DEF WriteCoords, LoneIsAlone
  <2>2. task[c].alone => freezeDepth = IF InBlock(c) THEN 1 ELSE 0
    BY LoneDepth
  <2> QED
    BY <1>10, <2>1, <2>2 DEF WriteCoords, LoneLands, LoneIsAlone
<1>10b. ASSUME NEW c \in Client, CoordsSwallowed(c) PROVE Goal
  <2> HIDE DEF LoneLands
  <2>1. \A e \in Client : task'[e].alone => task[e].alone /\ e = c
    BY <1>10b DEF CoordsSwallowed, LoneIsAlone
  <2>2. task[c].alone => freezeDepth = IF InBlock(c) THEN 1 ELSE 0
    BY LoneDepth
  <2> QED
    BY <1>10b, <2>1, <2>2 DEF CoordsSwallowed, LoneLands, LoneIsAlone
<1>11. ASSUME NEW c \in Client, WriteVelocity(c) PROVE Goal
  <2> HIDE DEF LoneLands
  <2>1. \A e \in Client : task'[e].alone => task[e].alone /\ e = c
    BY <1>11 DEF WriteVelocity, LoneIsAlone
  <2>2. task[c].alone => freezeDepth = IF InBlock(c) THEN 1 ELSE 0
    BY LoneDepth
  <2> QED
    BY <1>11, <2>1, <2>2 DEF WriteVelocity, LoneLands, LoneIsAlone
<1>12. ASSUME NEW c \in Client, Arrive(c) PROVE Goal
  <2> HIDE DEF LoneLands
  <2>1. \A e \in Client : task'[e].alone => task[e].alone /\ e = c
    BY <1>12 DEF Arrive, LeaveBlock, AfterBlock, NoTask, LoneIsAlone
  <2>2. task[c].alone => freezeDepth = IF InBlock(c) THEN 1 ELSE 0
    BY LoneDepth
  <2> QED
    BY <1>12, <2>1, <2>2 DEF Arrive, LeaveBlock, AfterBlock, NoTask, LoneLands, LoneIsAlone
<1>13. ASSUME NEW c \in Client, AimAgain(c) PROVE Goal
  <2> HIDE DEF LoneLands
  <2>1. \A e \in Client : task'[e].alone => task[e].alone /\ e = c
    BY <1>13 DEF AimAgain, SliceExpired, Measured, LoneIsAlone
  <2>2. task[c].alone => freezeDepth = IF InBlock(c) THEN 1 ELSE 0
    BY LoneDepth
  <2> QED
    BY <1>13, <2>1, <2>2 DEF AimAgain, SliceExpired, Measured, LoneLands, LoneIsAlone
<1>14. ASSUME NEW c \in Client, GiveUp(c) PROVE Goal
  <2> HIDE DEF LoneLands
  <2>1. \A e \in Client : task'[e].alone => task[e].alone /\ e = c
    BY <1>14 DEF GiveUp, SliceExpired, LeaveBlock, AfterBlock, NoTask, LoneIsAlone
  <2>2. task[c].alone => freezeDepth = IF InBlock(c) THEN 1 ELSE 0
    BY LoneDepth
  <2> QED
    BY <1>14, <2>1, <2>2 DEF GiveUp, SliceExpired, LeaveBlock, AfterBlock, NoTask,
       LoneLands, LoneIsAlone
<1>15. ASSUME NEW c \in Client, Sample(c) PROVE Goal
  <2> HIDE DEF LoneAims, LoneLands, PublishedIsDenoted, TaskShape
  <2>1. \A e \in Client : task'[e].alone => task[e].alone /\ e = c
    BY <1>15 DEF Sample, LoneIsAlone
  <2>2. /\ task'[c].pc \in {"coords", "settle"} /\ task'[c].origin = Measured
        /\ task'[c].attempts = task[c].attempts /\ task'[c].since = task[c].since
        /\ task'[c].untaken = task[c].untaken
    BY <1>15 DEF Sample
  <2>3. task[c].pc = "settle" /\ UNCHANGED <<frame, stale, reload>>
    BY <1>15 DEF Sample
  <2>4. task[c].alone => /\ ~stale /\ ~reload /\ task[c].attempts <= Spent(c)
                         /\ task[c].since <= frame /\ Measured = frame
    BY <2>3 DEF LoneAims, Measured
  <2> QED
    BY <2>1, <2>2, <2>3, <2>4 DEF LoneLands
<1>16. ASSUME NEW c \in Client, Repaired(c) PROVE Goal
  <2> HIDE DEF LoneLands
  <2>1. \A e \in Client : task'[e].alone => task[e].alone /\ e = c
    BY <1>16 DEF Repaired, NoTask, LoneIsAlone
  <2>2. task[c].alone => freezeDepth = IF InBlock(c) THEN 1 ELSE 0
    BY LoneDepth
  <2> QED
    BY <1>16, <2>1, <2>2 DEF Repaired, NoTask, LoneLands, LoneIsAlone
<1>17. ASSUME NEW c \in Client, OutOfTime(c) PROVE Goal
  <2> HIDE DEF LoneLands
  <2>1. \A e \in Client : task'[e].alone => task[e].alone /\ e = c
    BY <1>17 DEF OutOfTime, LoneIsAlone
  <2>2. task[c].alone => freezeDepth = IF InBlock(c) THEN 1 ELSE 0
    BY LoneDepth
  <2> QED
    BY <1>17, <2>1, <2>2 DEF OutOfTime, LoneLands, LoneIsAlone
<1>18. ASSUME NEW c \in Client, OverrideFails(c) PROVE Goal
  <2> HIDE DEF LoneLands
  <2>1. Raise(c)
    BY <1>18 DEF OverrideFails
  <2>2. task' = [task EXCEPT ![c] = IF InBlock(c) /\ freezeDepth = 1
                  THEN [task[c] EXCEPT !.pc = "release", !.raising = TRUE] ELSE NoTask]
    BY <2>1, RaiseTask DEF TypeOK
  <2>3. \A e \in Client : task'[e].alone => e = c /\ task[e].alone /\ InBlock(c) /\ freezeDepth = 1
    BY <1>18, <2>2 DEF OverrideFails, NoTask, LoneIsAlone
  <2>4. \A e \in Client : task'[e].alone =>
          task'[e].pc = "release" /\ task'[e].raising /\ ~task'[e].arrived
    BY <2>2, <2>3
  <2> QED
    BY <2>4 DEF LoneLands
<1>19. ASSUME NEW c \in Client, RequestFails(c) PROVE Goal
  <2> HIDE DEF LoneLands
  <2>1. Raise(c)
    BY <1>19 DEF RequestFails
  <2>2. task' = [task EXCEPT ![c] = IF InBlock(c) /\ freezeDepth = 1
                  THEN [task[c] EXCEPT !.pc = "release", !.raising = TRUE] ELSE NoTask]
    BY <2>1, RaiseTask DEF TypeOK
  <2>3. \A e \in Client : task'[e].alone => e = c /\ task[e].alone /\ InBlock(c) /\ freezeDepth = 1
    BY <1>19, <2>2 DEF RequestFails, NoTask, LoneIsAlone
  <2>4. \A e \in Client : task'[e].alone =>
          task'[e].pc = "release" /\ task'[e].raising /\ ~task'[e].arrived
    BY <2>2, <2>3
  <2> QED
    BY <2>4 DEF LoneLands
<1>20. ASSUME UNCHANGED vars PROVE Goal
  BY <1>20 DEF vars
<1> HIDE DEF Goal, TypeOK, simVars, InFlight, InBlock, Inside, Task, WorldOf, Frame, Stage,
      LoneAims, LoneLands, PublishedIsDenoted, TaskShape, Spent
<1>21. Goal
  BY <1>1, <1>2, <1>3, <1>4, <1>5, <1>6, <1>7, <1>8, <1>9, <1>10, <1>10b, <1>11, <1>12,
     <1>13, <1>14, <1>15, <1>16, <1>17, <1>18, <1>19, <1>20 DEF Next, Serve
<1> QED
  BY <1>21 DEF Goal

-----------------------------------------------------------------------------
(* The invariant, and what it implies.                                      *)

\* The invariant holds at first ...
LEMMA InvInit == Init => Inv
<1> SUFFICES ASSUME Init PROVE Inv
  OBVIOUS
<1> USE DEF Init
<1>1. task = [c \in Client |-> NoTask] /\ \A c \in Client : task[c] = NoTask
  OBVIOUS
<1>2. TypeOK
  <2>1. NoTask \in Task
    BY HomeAssumption, Zeroes DEF Task, Stage, NoTask
  <2> HIDE DEF NoTask
  <2> QED
    BY <1>1, <2>1, HomeAssumption, Zeroes DEF TypeOK
<1>3. DepthCountsBlocks
  <2>1. Blocked = {}
    BY <1>1 DEF Blocked, InBlock, Inside, NoTask
  <2> QED
    BY <2>1, FS_EmptySet DEF DepthCountsBlocks
<1>4. SomebodyThaws /\ PublishedIsDenoted
  BY DEF SomebodyThaws, PublishedIsDenoted, WorldOf
<1>5. TaskShape
  BY <1>1, BoundsAssumption DEF TaskShape, NoTask
<1>6. LoneIsAlone /\ LoneAims /\ LoneLands
  BY <1>1 DEF LoneIsAlone, LoneAims, LoneLands, NoTask
<1> QED
  BY <1>2, <1>3, <1>4, <1>5, <1>6 DEF Inv

\* ... every step keeps it ...
LEMMA InvStep == Inv /\ [Next]_vars => Inv'
<1> SUFFICES ASSUME Inv, [Next]_vars PROVE Inv'
  OBVIOUS
<1>1. /\ TypeOK /\ DepthCountsBlocks /\ SomebodyThaws /\ PublishedIsDenoted /\ TaskShape
      /\ LoneIsAlone /\ LoneAims /\ LoneLands
  BY DEF Inv
<1>2. TypeOK'
  BY <1>1, TaskStep, SimStep DEF TypeOK, SimTypes
<1>3. DepthCountsBlocks' /\ SomebodyThaws' /\ PublishedIsDenoted' /\ TaskShape'
  BY <1>1, DepthStep, ThawsStep, PublishedStep, ShapeStep
<1>4. LoneIsAlone' /\ LoneAims' /\ LoneLands'
  BY <1>1, AloneStep, AimsStep, LandsStep
<1> QED
  BY <1>2, <1>3, <1>4 DEF Inv

\* ... and so it holds throughout.
LEMMA InvHolds == Spec => []Inv
BY InvInit, InvStep, PTL DEF Spec

\* Every variable has its type: the depth never goes below zero, a task never writes
\* more often than _MAX_REPOSITION_WRITES, its samples never exceed what it waits for.
THEOREM TypeCorrect == Spec => []TypeOK
<1>1. Inv => TypeOK
  BY DEF Inv
<1> QED
  BY <1>1, InvHolds, PTL

\* Whatever number of requests overlap, however their blocks nest, wherever each of
\* them raises: once all are answered the override is off and _freeze_depth is 0, unless
\* an override write itself failed (frozen_flight_model).
THEOREM NobodyFrozen == Spec => []NobodyLeavesItFrozen
<1>1. Inv => NobodyLeavesItFrozen
  <2> SUFFICES ASSUME Inv, \A c \in Client : ~InFlight(c), astray \subseteq {"other"}
               PROVE  ~override /\ freezeDepth = 0
    BY DEF NobodyLeavesItFrozen
  <2>1. \A c \in Client : ~InBlock(c) /\ task[c].pc # "release"
    BY DEF InFlight, InBlock, Inside
  <2>2. Blocked = {}
    BY <2>1 DEF Blocked
  <2>3. freezeDepth = 0
    BY <2>2, FS_EmptySet DEF Inv, DepthCountsBlocks
  <2> QED
    BY <2>1, <2>3 DEF Inv, SomebodyThaws, TypeOK
<1> QED
  BY <1>1, InvHolds, PTL

\* A request that runs alone writes only a frozen flight model; it gives its place up
\* only when out of time, or when reloads and swallowed writes have cost it every one of
\* its attempts: whatever the numbers of attempts, samples and reloads
\* (set_position, _settled_local_frame_origin).
THEOREM LonePlacement == Spec => []LonePlacementHolds
<1>1. Inv => LonePlacementHolds
  <2> SUFFICES ASSUME Inv PROVE LonePlacementHolds
    OBVIOUS
  <2>1. WritesAreFrozen
    BY DEF Inv, LoneIsAlone, WritesAreFrozen
  <2>2. MissesAreAccounted
    BY BoundsAssumption DEF Inv, LoneLands, TaskShape, MissesAreAccounted
  <2> QED
    BY <2>1, <2>2 DEF LonePlacementHolds
<1> QED
  BY <1>1, InvHolds, PTL

\* A lone placement answered with success has left the aircraft where it was asked to
\* be, with the velocity it was asked to have, for any number of reloads (set_position).
THEOREM Placed == Spec => PlacedAsAsked
<1>1. Inv => [\A c \in Client :
                Repaired(c) /\ task[c].arrived /\ task[c].alone
                  => /\ WorldOf(coords) = task[c].place /\ ~reload
                     /\ task[c].resumed = c]_vars
  BY DEF Inv, LoneLands, Repaired
<1> QED
  BY <1>1, InvHolds, PTL DEF PlacedAsAsked

=============================================================================
