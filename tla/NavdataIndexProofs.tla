-------------------------- MODULE NavdataIndexProofs --------------------------
(***************************************************************************)
(* Inv of NavdataIndex is inductive, for any number of stations, readers,  *)
(* requests, generations and sets of navigation data: what is typed; who   *)
(* holds the lock; how the file numbers grow; which index a status         *)
(* describes; and that nobody builds what could be adopted.                *)
(***************************************************************************)
EXTENDS NavdataIndex, TLAPS, WellFoundedInduction

\* The newest of some generations is one of them.
LEMMA NewestIsGreatest ==
    ASSUME NEW S \in SUBSET Gen, S # {}
    PROVE  Newest(S) \in S /\ \A h \in S : h <= Newest(S)
<1> DEFINE Below == {MaxGen - g : g \in S}
<1> DEFINE Less == {p \in Nat \X Nat : p[1] < p[2]}
<1>1. OpToRel(<, Nat) = Less
  BY DEF OpToRel
<1>2. \A y, x \in Nat : y < x => <<y, x>> \in Less
  OBVIOUS
<1>3. Below \subseteq Nat /\ Below # {}
  <2>1. \A g \in S : MaxGen - g \in Nat
    BY IndexAssumption DEF Gen
  <2>2. PICK g \in S : TRUE
    OBVIOUS
  <2>3. MaxGen - g \in Below
    OBVIOUS
  <2> QED
    BY <2>1, <2>3
<1> HIDE DEF Less
<1>4. PICK b \in Below : \A y \in Below : ~ (<<y, b>> \in Less)
  <2> HIDE DEF Below
  <2> QED
    BY <1>1, <1>3, NatLessThanWellFounded, WFMin
<1>5. PICK x \in S : b = MaxGen - x
  BY <1>4
<1>6. \A h \in S : h <= x
  <2> TAKE h \in S
  <2>1. MaxGen - h \in Below /\ MaxGen - h \in Nat /\ b \in Nat
    BY <1>3, <1>4
  <2>2. ~ (MaxGen - h < b)
    BY <1>2, <1>4, <2>1
  <2> QED
    BY <1>5, <2>2, IndexAssumption DEF Gen
<1>7. QED
  BY <1>6 DEF Newest

\* Every step keeps the types; a sweep keeps a file, since its target is one.
LEMMA TypeStep == Inv /\ [Next]_vars => TypeOK'
<1> SUFFICES ASSUME TypeOK, PublishedIsPath, [Next]_vars PROVE TypeOK'
  BY DEF Inv
<1> USE IndexAssumption
<1>a. /\ {"idle", "resolve", "adopt", "start", "wait", "readopt"} \subseteq BuildPc
      /\ {"build", "building", "publish", "epoch", "ready", "sweep"} \subseteq BuildPc
  BY DEF BuildPc
<1>b. NoStatus \in Status /\ IdleWork \in Work
  BY <1>a DEF NoStatus, IdleWork, Status, Work, None
<1>c. \A s \in Station : work[s] \in Work /\ status[s] \in Status
  BY DEF TypeOK
<1>d. \A s \in Station : [work EXCEPT ![s] = IdleWork] \in [Station -> Work]
  BY <1>b DEF TypeOK
<1>e. \A s \in Station, pc \in BuildPc : [work EXCEPT ![s].pc = pc] \in [Station -> Work]
  BY <1>c DEF TypeOK, Work
<1>f. \A s \in Station, st \in {"unavailable", "building", "ready", "error"},
        g \in Gen \cup {None} :
        [status EXCEPT ![s] = [state |-> st, gen |-> g]] \in [Station -> Status]
  BY DEF TypeOK, Status
<1>g. ASSUME NEW s \in Station, Leave(s) PROVE work' \in [Station -> Work]
  BY <1>d, <1>g DEF Leave
<1>h. ASSUME NEW s \in Station, NEW pc \in BuildPc, Go(s, pc) PROVE work' \in [Station -> Work]
  BY <1>e, <1>h DEF Go
<1>i. ASSUME NEW s \in Station, NEW st \in {"unavailable", "building", "ready", "error"},
             Report(s, st)
      PROVE  status' \in [Station -> Status]
  BY <1>f, <1>i DEF Report
<1>j. ASSUME NEW s \in Station, Release(s) PROVE lock' \in Station \cup {Nobody}
  BY <1>j DEF Release, TypeOK
<1> USE DEF diskVars, stationVars
<1>1. ASSUME NEW s \in Station, NEW force \in BOOLEAN, Ask(s, force) PROVE TypeOK'
  <2>1. [IdleWork EXCEPT !.pc = "resolve", !.force = force] \in Work
    BY <1>a, <1>b DEF Work
  <2>2. work' \in [Station -> Work]
    BY <1>1, <2>1 DEF Ask, TypeOK
  <2> QED
    BY <1>1, <2>2 DEF Ask, TypeOK
<1>2. ASSUME NEW s \in Station, CancelIndexBuild(s) PROVE TypeOK'
  BY <1>2 DEF CancelIndexBuild, TypeOK
<1>3. ASSUME NEW s \in Station, ResolveNothing(s) PROVE TypeOK'
  BY <1>3, <1>g, <1>i DEF ResolveNothing, TypeOK
<1>4. ASSUME NEW s \in Station, Resolve(s) PROVE TypeOK'
  <2> DEFINE pc == IF work[s].force THEN "start" ELSE "adopt"
  <2>1. [work[s] EXCEPT !.pc = pc, !.key = source, !.previous = status[s]] \in Work
    BY <1>a, <1>c DEF TypeOK, Work
  <2>2. work' = [work EXCEPT ![s] = [work[s] EXCEPT !.pc = pc, !.key = source,
                                                    !.previous = status[s]]]
    BY <1>4, <1>c DEF Resolve, Work
  <2>3. work' \in [Station -> Work]
    BY <2>1, <2>2 DEF TypeOK
  <2> QED
    BY <1>4, <2>3 DEF Resolve, TypeOK
<1>5. ASSUME NEW s \in Station, Adopt(s) PROVE TypeOK'
  <2>1. CASE Matching(s) # {}
    <3>1. Matching(s) \in SUBSET Gen
      BY DEF Matching, TypeOK
    <3>2. Newest(Matching(s)) \in Gen
      BY <2>1, <3>1, NewestIsGreatest
    <3>3. [work[s] EXCEPT !.pc = "publish", !.target = Newest(Matching(s))] \in Work
      BY <1>a, <1>c, <3>2 DEF Work
    <3>4. work' = [work EXCEPT ![s] = [work[s] EXCEPT !.pc = "publish",
                                                      !.target = Newest(Matching(s))]]
      BY <1>5, <1>c, <2>1 DEF Adopt, Work
    <3>5. work' \in [Station -> Work]
      BY <3>3, <3>4 DEF TypeOK
    <3> QED
      BY <1>5, <3>5 DEF Adopt, TypeOK
  <2>2. CASE Matching(s) = {}
    <3>1. work' \in [Station -> Work]
      BY <1>5, <1>a, <1>h, <2>2 DEF Adopt
    <3> QED
      BY <1>5, <3>1 DEF Adopt, TypeOK
  <2> QED
    BY <2>1, <2>2
<1>6. ASSUME NEW s \in Station, StartOrCancel(s) PROVE TypeOK'
  <2>1. work' \in [Station -> Work]
    BY <1>6, <1>a, <1>g, <1>h DEF StartOrCancel
  <2>2. status' \in [Station -> Status]
    BY <1>6, <1>c DEF StartOrCancel, TypeOK, Work
  <2> QED
    BY <1>6, <2>1, <2>2 DEF StartOrCancel, TypeOK
<1>7. ASSUME NEW s \in Station, TakeLock(s) PROVE TypeOK'
  <2>1. work' \in [Station -> Work]
    BY <1>7, <1>a, <1>h DEF TakeLock
  <2> QED
    BY <1>7, <2>1 DEF TakeLock, TypeOK
<1>8. ASSUME NEW s \in Station, LockTimeout(s) PROVE TypeOK'
  BY <1>8, <1>g, <1>i DEF LockTimeout, TypeOK
<1>9. ASSUME NEW s \in Station, StartBuild(s) PROVE TypeOK'
  BY <1>9, <1>a, <1>h, <1>i DEF StartBuild, TypeOK
<1>10. ASSUME NEW s \in Station, AbandonBuild(s) PROVE TypeOK'
  <2>1. status' \in [Station -> Status]
    BY <1>10, <1>c, <1>i DEF AbandonBuild, TypeOK, Work
  <2> QED
    BY <1>10, <1>g, <1>j, <2>1 DEF AbandonBuild, TypeOK
<1>11. ASSUME NEW s \in Station, FinishBuild(s) PROVE TypeOK'
  <2>1. work' \in [Station -> Work]
    BY <1>11, <1>a, <1>c, ZenonT(40) DEF FinishBuild, TypeOK, Work
  <2>2. dir' \subseteq Gen
    BY <1>11 DEF FinishBuild, TypeOK
  <2>3. keyOf' \in [Gen -> Key \cup {None}]
    BY <1>11, <1>c DEF FinishBuild, TypeOK, Work
  <2> QED
    BY <1>11, <2>1, <2>2, <2>3 DEF FinishBuild, TypeOK
<1>12. ASSUME NEW s \in Station, PublishPath(s) PROVE TypeOK'
  <2>1. path' \in [Station -> Gen \cup {None}]
    BY <1>12, <1>c DEF PublishPath, TypeOK, Work
  <2> QED
    BY <1>12, <1>a, <1>h, <2>1 DEF PublishPath, TypeOK
<1>13. ASSUME NEW s \in Station, PublishEpoch(s) PROVE TypeOK'
  BY <1>13, <1>a, <1>h DEF PublishEpoch, TypeOK
<1>14. ASSUME NEW s \in Station, PublishStatus(s) PROVE TypeOK'
  <2>1. status' \in [Station -> Status]
    BY <1>14, <1>c, <1>f DEF PublishStatus, Work
  <2>2. work' \in [Station -> Work] /\ lock' \in Station \cup {Nobody}
    BY <1>14, <1>a, <1>g, <1>h, <1>j DEF PublishStatus, TypeOK
  <2> QED
    BY <1>14, <2>1, <2>2 DEF PublishStatus, TypeOK
<1>15. ASSUME NEW s \in Station, Sweep(s) PROVE TypeOK'
  <2>1. work[s].target \in Gen
    BY <1>15, <1>c DEF Sweep, At, PublishedIsPath, Work
  <2>2. dir' \subseteq Gen
    BY <1>15, <2>1 DEF Sweep, TypeOK
  <2> QED
    BY <1>15, <1>g, <1>j, <2>2 DEF Sweep, TypeOK
<1>16. ASSUME NEW s \in Station, Crash(s) PROVE TypeOK'
  <2>1. reader' \in [Reader -> ReaderState]
    BY <1>16 DEF Crash, TypeOK, NewReader, ReaderState, None
  <2>2. status' \in [Station -> Status]
    BY <1>16, <1>b DEF Crash, TypeOK
  <2> QED
    BY <1>16, <1>g, <1>j, <2>1, <2>2 DEF Crash, TypeOK
<1>17. ASSUME NEW r \in Reader, Query(r) PROVE TypeOK'
  <2>1. path[Home[r]] \in Gen \cup {None} /\ epoch[Home[r]] \in Nat
    BY DEF TypeOK
  <2>2. UNCHANGED <<diskVars, stationVars>> /\ \E x : reader' = [reader EXCEPT ![r] = x]
    BY <1>17 DEF Query, ReadPath, ReadEpoch, Open
  <2>3. reader'[r] \in ReaderState
    <3>1. reader[r] \in ReaderState
      BY DEF TypeOK
    <3>2. CASE ReadPath(r)
      BY <2>1, <3>1, <3>2 DEF ReadPath, TypeOK, ReaderState
    <3>3. CASE ReadEpoch(r)
      BY <2>1, <3>1, <3>3 DEF ReadEpoch, TypeOK, ReaderState
    <3>4. CASE Open(r)
      BY <3>1, <3>4 DEF Open, TypeOK, ReaderState
    <3> QED
      BY <1>17, <3>2, <3>3, <3>4 DEF Query
  <2>4. reader' \in [Reader -> ReaderState]
    BY <2>2, <2>3 DEF TypeOK
  <2> QED
    BY <2>2, <2>4 DEF TypeOK
<1>18. ASSUME UpdateSource PROVE TypeOK'
  BY <1>18 DEF UpdateSource, TypeOK, Key
<1>19. CASE UNCHANGED vars
  BY <1>19 DEF vars, TypeOK
<1> QED
  BY <1>1, <1>2, <1>3, <1>4, <1>5, <1>6, <1>7, <1>8, <1>9, <1>10, <1>11, <1>12, <1>13,
     <1>14, <1>15, <1>16, <1>17, <1>18, <1>19 DEF Next, Build

-----------------------------------------------------------------------------
(* What the steps with a choice in them do to the build thread that takes   *)
(* them; the other stations' threads and statuses stay as they are.         *)

OthersStay(s) ==
    \A t \in Station \ {s} : work'[t] = work[t] /\ status'[t] = status[t] /\ path'[t] = path[t]
SameRequest(s) ==
    /\ work'[s].force = work[s].force /\ work'[s].key = work[s].key
    /\ work'[s].previous = work[s].previous

\* _adopt takes the newest match, or goes on towards a build.
LEMMA AdoptEffect ==
    ASSUME TypeOK, NEW s \in Station, Adopt(s)
    PROVE  /\ work[s].pc \in {"adopt", "readopt"}
           /\ UNCHANGED <<diskVars, path, status>>
           /\ OthersStay(s) /\ SameRequest(s)
           /\ \/ /\ work'[s].pc = "publish" /\ work'[s].target \in Gen
              \/ /\ Matching(s) = {} /\ work'[s].target = work[s].target
                 /\ work[s].pc = "adopt" => work'[s].pc = "start"
                 /\ work[s].pc = "readopt" => work'[s].pc = "build"
<1>1. work[s] \in Work
  BY DEF TypeOK
<1>2. OthersStay(s) /\ UNCHANGED <<diskVars, path, status>>
  BY DEF Adopt, Go, OthersStay, TypeOK
<1>3. CASE Matching(s) # {}
  <2>1. Matching(s) \in SUBSET Gen
    BY DEF Matching, TypeOK
  <2>2. Newest(Matching(s)) \in Gen
    BY <1>3, <2>1, NewestIsGreatest
  <2>3. work'[s] = [work[s] EXCEPT !.pc = "publish", !.target = Newest(Matching(s))]
    BY <1>1, <1>3 DEF Adopt, TypeOK, Work
  <2> QED
    BY <1>1, <1>2, <2>2, <2>3 DEF Adopt, At, SameRequest, Work
<1>4. CASE Matching(s) = {}
  <2>1. work'[s] = [work[s] EXCEPT !.pc = IF At(s, "adopt") THEN "start" ELSE "build"]
    BY <1>4 DEF Adopt, Go, TypeOK
  <2> QED
    BY <1>1, <1>2, <1>4, <2>1 DEF Adopt, At, SameRequest, Work
<1> QED
  BY <1>3, <1>4

\* A cancelled request restores the status it found; any other asks for the lock.
LEMMA StartOrCancelEffect ==
    ASSUME TypeOK, NEW s \in Station, StartOrCancel(s)
    PROVE  /\ work[s].pc = "start"
           /\ UNCHANGED <<diskVars, path>>
           /\ OthersStay(s)
           /\ \/ work'[s] = IdleWork /\ status'[s] = work[s].previous
              \/ /\ work'[s].pc = "wait" /\ SameRequest(s) /\ work'[s].target = work[s].target
                 /\ status'[s] = status[s]
<1>1. work[s] \in Work
  BY DEF TypeOK
<1>2. OthersStay(s)
  BY DEF StartOrCancel, Go, Leave, OthersStay, TypeOK
<1>3. CASE cancel[s]
  BY <1>2, <1>3 DEF StartOrCancel, At, Leave, TypeOK
<1>4. CASE ~ cancel[s]
  <2>1. work'[s] = [work[s] EXCEPT !.pc = "wait"]
    BY <1>4 DEF StartOrCancel, Go, TypeOK
  <2> QED
    BY <1>1, <1>2, <1>4, <2>1 DEF StartOrCancel, At, SameRequest, Work
<1> QED
  BY <1>3, <1>4

\* The built file gets its number, and its builder goes on to publish it.
LEMMA FinishBuildEffect ==
    ASSUME TypeOK, NEW s \in Station, FinishBuild(s)
    PROVE  /\ work[s].pc = "building"
           /\ UNCHANGED <<lock, path, status>>
           /\ OthersStay(s) /\ SameRequest(s)
           /\ work'[s].pc = "publish" /\ work'[s].target = NextGeneration
           /\ NextGeneration \in Gen
           /\ dir' = dir \cup {NextGeneration}
           /\ keyOf'[NextGeneration] = work[s].key
           /\ \A g \in Gen \ {NextGeneration} : keyOf'[g] = keyOf[g]
<1>1. work[s] \in Work
  BY DEF TypeOK
<1>2. work'[s] = [work[s] EXCEPT !.pc = "publish", !.target = NextGeneration]
  BY <1>1 DEF FinishBuild, TypeOK, Work
<1> QED
  BY <1>1, <1>2 DEF FinishBuild, At, OthersStay, SameRequest, TypeOK, Work

\* The status is published; whoever built goes on to sweep, the others are done.
LEMMA PublishStatusEffect ==
    ASSUME TypeOK, NEW s \in Station, PublishStatus(s)
    PROVE  /\ work[s].pc = "ready"
           /\ UNCHANGED <<dir, keyOf, path>>
           /\ OthersStay(s)
           /\ status'[s].state = "ready" /\ status'[s].gen = work[s].target
           /\ \/ /\ status[s].state = "building" /\ UNCHANGED lock
                 /\ work'[s].pc = "sweep" /\ SameRequest(s)
                 /\ work'[s].target = work[s].target
              \/ /\ status[s].state # "building"
                 /\ work'[s].pc = "idle" /\ work'[s].previous = NoStatus
                 /\ lock' # s /\ (lock # s => lock' = lock) /\ (lock = s => lock' = Nobody)
<1>1. work[s] \in Work
  BY DEF TypeOK
<1>2. OthersStay(s) /\ status'[s] = [state |-> "ready", gen |-> work[s].target]
  BY DEF PublishStatus, Go, Leave, OthersStay, TypeOK
<1>3. CASE status[s].state = "building"
  <2>1. work'[s] = [work[s] EXCEPT !.pc = "sweep"]
    BY <1>3 DEF PublishStatus, Go, TypeOK
  <2> QED
    BY <1>1, <1>2, <1>3, <2>1 DEF PublishStatus, At, SameRequest, Work
<1>4. CASE status[s].state # "building"
  <2>1. work'[s] = IdleWork /\ Release(s)
    BY <1>4 DEF PublishStatus, Leave, TypeOK
  <2> QED
    BY <1>2, <1>4, <2>1, IndexAssumption DEF PublishStatus, At, IdleWork, Release
<1> QED
  BY <1>3, <1>4

\* The next number is above every number ever used: nothing is written over.
LEMMA NextIsNew ==
    ASSUME TypeOK, NumbersGrow
    PROVE  /\ NextGeneration \in Nat
           /\ \A h \in dir : h < NextGeneration
           /\ \A g \in Gen : keyOf[g] # None => g < NextGeneration
<1>1. dir \in SUBSET Gen /\ \A g \in Gen : g \in Nat
  BY DEF TypeOK, Gen
<1>2. CASE dir = {}
  BY <1>2 DEF NextGeneration, NumbersGrow
<1>3. CASE dir # {}
  <2>1. Newest(dir) \in dir /\ \A h \in dir : h <= Newest(dir)
    BY <1>1, <1>3, NewestIsGreatest
  <2>2. NextGeneration = Newest(dir) + 1
    BY <1>3 DEF NextGeneration
  <2>3. \A h \in dir : h < NextGeneration
    <3> TAKE h \in dir
    <3>1. h \in Nat /\ Newest(dir) \in Nat /\ h <= Newest(dir)
      BY <1>1, <2>1
    <3> QED
      BY <2>2, <3>1
  <2>4. \A g \in Gen : keyOf[g] # None => g < NextGeneration
    <3> SUFFICES ASSUME NEW g \in Gen, keyOf[g] # None PROVE g < NextGeneration
      OBVIOUS
    <3>1. PICK h \in dir : g <= h
      BY DEF NumbersGrow
    <3>2. h \in Nat /\ g \in Nat /\ Newest(dir) \in Nat /\ h <= Newest(dir)
      BY <1>1, <2>1
    <3> QED
      BY <2>2, <3>1, <3>2
  <2> QED
    BY <1>1, <2>1, <2>2, <2>3, <2>4
<1> QED
  BY <1>2, <1>3

-----------------------------------------------------------------------------
(* Each part of Inv is kept by every step.                                  *)

\* The lock belongs to the one thread that looks again, builds or sweeps.
LEMMA LockStep == Inv /\ [Next]_vars => (LockHolderBuilds /\ BuildingIsLocked)'
<1> SUFFICES ASSUME Inv, [Next]_vars PROVE (LockHolderBuilds /\ BuildingIsLocked)'
  OBVIOUS
<1>a. TypeOK /\ lock \in Station \cup {Nobody}
  BY DEF Inv, TypeOK
<1> USE IndexAssumption DEF LockHolderBuilds, BuildingIsLocked, vars, diskVars, stationVars
<1>1. ASSUME NEW s \in Station, NEW force \in BOOLEAN, Ask(s, force) PROVE (LockHolderBuilds /\ BuildingIsLocked)'
  BY <1>1 DEF Inv, TypeOK, Status, Work, Ask, At, IdleWork, NoStatus
<1>2. ASSUME NEW s \in Station, CancelIndexBuild(s) PROVE (LockHolderBuilds /\ BuildingIsLocked)'
  BY <1>2 DEF Inv, TypeOK, Status, Work, CancelIndexBuild
<1>3. ASSUME NEW s \in Station, ResolveNothing(s) PROVE (LockHolderBuilds /\ BuildingIsLocked)'
  BY <1>3 DEF Inv, TypeOK, Status, Work, ResolveNothing, At, Report, Leave, IdleWork,
     NoStatus
<1>4. ASSUME NEW s \in Station, Resolve(s) PROVE (LockHolderBuilds /\ BuildingIsLocked)'
  BY <1>4 DEF Inv, TypeOK, Status, Work, Resolve, At
<1>5. ASSUME NEW s \in Station, Adopt(s) PROVE (LockHolderBuilds /\ BuildingIsLocked)'
  BY <1>5, <1>a, AdoptEffect DEF Inv, OthersStay, SameRequest, IdleWork, NoStatus, Release
<1>6. ASSUME NEW s \in Station, StartOrCancel(s) PROVE (LockHolderBuilds /\ BuildingIsLocked)'
  BY <1>6, <1>a, StartOrCancelEffect DEF Inv, OthersStay, SameRequest, IdleWork, NoStatus,
     Release
<1>7. ASSUME NEW s \in Station, TakeLock(s) PROVE (LockHolderBuilds /\ BuildingIsLocked)'
  BY <1>7 DEF Inv, TypeOK, Status, Work, TakeLock, At, Go
<1>8. ASSUME NEW s \in Station, LockTimeout(s) PROVE (LockHolderBuilds /\ BuildingIsLocked)'
  BY <1>8 DEF Inv, TypeOK, Status, Work, LockTimeout, At, Report, Leave, IdleWork, NoStatus
<1>9. ASSUME NEW s \in Station, StartBuild(s) PROVE (LockHolderBuilds /\ BuildingIsLocked)'
  BY <1>9 DEF Inv, TypeOK, Status, Work, StartBuild, At, Go, Report
<1>10. ASSUME NEW s \in Station, AbandonBuild(s) PROVE (LockHolderBuilds /\ BuildingIsLocked)'
  BY <1>10 DEF Inv, TypeOK, Status, Work, AbandonBuild, At, Report, Release, Leave,
     IdleWork, NoStatus
<1>11. ASSUME NEW s \in Station, FinishBuild(s) PROVE (LockHolderBuilds /\ BuildingIsLocked)'
  BY <1>11, <1>a, FinishBuildEffect DEF Inv, OthersStay, SameRequest, IdleWork, NoStatus,
     Release
<1>12. ASSUME NEW s \in Station, PublishPath(s) PROVE (LockHolderBuilds /\ BuildingIsLocked)'
  BY <1>12 DEF Inv, TypeOK, Status, Work, PublishPath, At, Go
<1>13. ASSUME NEW s \in Station, PublishEpoch(s) PROVE (LockHolderBuilds /\ BuildingIsLocked)'
  BY <1>13 DEF Inv, TypeOK, Status, Work, PublishEpoch, At, Go
<1>14. ASSUME NEW s \in Station, PublishStatus(s) PROVE (LockHolderBuilds /\ BuildingIsLocked)'
  BY <1>14, <1>a, PublishStatusEffect DEF Inv, OthersStay, SameRequest, IdleWork,
     NoStatus, Release
<1>15. ASSUME NEW s \in Station, Sweep(s) PROVE (LockHolderBuilds /\ BuildingIsLocked)'
  BY <1>15 DEF Inv, TypeOK, Status, Work, Sweep, At, Release, Leave, IdleWork, NoStatus
<1>16. ASSUME NEW s \in Station, Crash(s) PROVE (LockHolderBuilds /\ BuildingIsLocked)'
  BY <1>16 DEF Inv, TypeOK, Status, Work, Crash, At, Release, Leave, IdleWork, NoStatus
<1>17. ASSUME NEW r \in Reader, Query(r) PROVE (LockHolderBuilds /\ BuildingIsLocked)'
  BY <1>17 DEF Inv, TypeOK, Status, Work, Query, ReadPath, ReadEpoch, Open
<1>18. ASSUME UpdateSource PROVE (LockHolderBuilds /\ BuildingIsLocked)'
  BY <1>18 DEF Inv, TypeOK, Status, Work, UpdateSource
<1>19. CASE UNCHANGED vars
  BY <1>19 DEF Inv, TypeOK, Status, Work
<1> QED
  BY <1>1, <1>2, <1>3, <1>4, <1>5, <1>6, <1>7, <1>8, <1>9, <1>10, <1>11, <1>12, <1>13,
     <1>14, <1>15, <1>16, <1>17, <1>18, <1>19 DEF Next, Build

\* Numbers only grow: the builder's own file is the newest until it has swept.
LEMMA NumbersStep == Inv /\ [Next]_vars => NumbersGrow'
<1> SUFFICES ASSUME Inv, [Next]_vars PROVE NumbersGrow'
  OBVIOUS
<1>a. TypeOK /\ lock \in Station \cup {Nobody}
  BY DEF Inv, TypeOK
<1> USE IndexAssumption DEF LockHolderBuilds, BuildingIsLocked, NumbersGrow, BuiltByHolder, vars, diskVars, stationVars
<1>1. ASSUME NEW s \in Station, NEW force \in BOOLEAN, Ask(s, force) PROVE NumbersGrow'
  BY <1>1 DEF Inv, TypeOK, Status, Work, Ask, At, IdleWork, NoStatus
<1>2. ASSUME NEW s \in Station, CancelIndexBuild(s) PROVE NumbersGrow'
  BY <1>2 DEF Inv, TypeOK, Status, Work, CancelIndexBuild
<1>3. ASSUME NEW s \in Station, ResolveNothing(s) PROVE NumbersGrow'
  BY <1>3 DEF Inv, TypeOK, Status, Work, ResolveNothing, At, Report, Leave, IdleWork,
     NoStatus
<1>4. ASSUME NEW s \in Station, Resolve(s) PROVE NumbersGrow'
  BY <1>4, SMTT(40) DEF Inv, TypeOK, Status, Work, Resolve, At
<1>5. ASSUME NEW s \in Station, Adopt(s) PROVE NumbersGrow'
  BY <1>5, <1>a, AdoptEffect DEF Inv, OthersStay, SameRequest, IdleWork, NoStatus, Release
<1>6. ASSUME NEW s \in Station, StartOrCancel(s) PROVE NumbersGrow'
  BY <1>6, <1>a, StartOrCancelEffect DEF Inv, OthersStay, SameRequest, IdleWork, NoStatus,
     Release
<1>7. ASSUME NEW s \in Station, TakeLock(s) PROVE NumbersGrow'
  BY <1>7 DEF Inv, TypeOK, Status, Work, TakeLock, At, Go
<1>8. ASSUME NEW s \in Station, LockTimeout(s) PROVE NumbersGrow'
  BY <1>8 DEF Inv, TypeOK, Status, Work, LockTimeout, At, Report, Leave, IdleWork, NoStatus
<1>9. ASSUME NEW s \in Station, StartBuild(s) PROVE NumbersGrow'
  BY <1>9 DEF Inv, TypeOK, Status, Work, StartBuild, At, Go, Report
<1>10. ASSUME NEW s \in Station, AbandonBuild(s) PROVE NumbersGrow'
  BY <1>10 DEF Inv, TypeOK, Status, Work, AbandonBuild, At, Report, Release, Leave,
     IdleWork, NoStatus
<1>11. ASSUME NEW s \in Station, FinishBuild(s) PROVE NumbersGrow'
  <2>1. lock = s /\ \A t \in Station \ {s} : ~ BuiltByHolder(t)
    BY <1>11, <1>a, FinishBuildEffect DEF Inv
  <2>2. \A t \in Station \ {s} : ~ BuiltByHolder(t)'
    BY <1>11, <1>a, <2>1, FinishBuildEffect DEF OthersStay
  <2>3. \A g \in Gen : keyOf'[g] # None => g <= NextGeneration
    <3>1. \A g \in Gen : g \in Nat
      BY DEF Gen
    <3>2. \A g \in Gen : keyOf[g] # None => g < NextGeneration
      BY <1>a, NextIsNew DEF Inv
    <3> QED
      BY <1>11, <1>a, <3>1, <3>2, FinishBuildEffect
  <2>4. NextGeneration \in dir' /\ work'[s].target = NextGeneration
    BY <1>11, <1>a, FinishBuildEffect
  <2> HIDE DEF NextGeneration
  <2> QED
    BY <2>2, <2>3, <2>4
<1>12. ASSUME NEW s \in Station, PublishPath(s) PROVE NumbersGrow'
  BY <1>12 DEF Inv, TypeOK, Status, Work, PublishPath, At, Go
<1>13. ASSUME NEW s \in Station, PublishEpoch(s) PROVE NumbersGrow'
  BY <1>13 DEF Inv, TypeOK, Status, Work, PublishEpoch, At, Go
<1>14. ASSUME NEW s \in Station, PublishStatus(s) PROVE NumbersGrow'
  <2>1. UNCHANGED <<dir, keyOf>>
    BY <1>14, <1>a, PublishStatusEffect
  <2>2. \A t \in Station : BuiltByHolder(t)' => BuiltByHolder(t) /\ work'[t].target = work[t].target
    BY <1>14, <1>a, PublishStatusEffect DEF OthersStay, IdleWork
  <2> QED
    BY <2>1, <2>2 DEF Inv
<1>15. ASSUME NEW s \in Station, Sweep(s) PROVE NumbersGrow'
  BY <1>15 DEF Inv, TypeOK, Status, Work, Sweep, At, Release, Leave, IdleWork, NoStatus
<1>16. ASSUME NEW s \in Station, Crash(s) PROVE NumbersGrow'
  BY <1>16 DEF Inv, TypeOK, Status, Work, Crash, At, Release, Leave, IdleWork, NoStatus
<1>17. ASSUME NEW r \in Reader, Query(r) PROVE NumbersGrow'
  BY <1>17 DEF Inv, TypeOK, Status, Work, Query, ReadPath, ReadEpoch, Open
<1>18. ASSUME UpdateSource PROVE NumbersGrow'
  BY <1>18 DEF Inv, TypeOK, Status, Work, UpdateSource
<1>19. CASE UNCHANGED vars
  BY <1>19 DEF Inv, TypeOK, Status, Work
<1> QED
  BY <1>1, <1>2, <1>3, <1>4, <1>5, <1>6, <1>7, <1>8, <1>9, <1>10, <1>11, <1>12, <1>13,
     <1>14, <1>15, <1>16, <1>17, <1>18, <1>19 DEF Next, Build

\* The status is about the path that was published with it.
LEMMA PathStep == Inv /\ [Next]_vars => (PublishedIsPath /\ PreviousDescribesIndex /\ ReadyDescribesIndex)'
<1> SUFFICES ASSUME Inv, [Next]_vars PROVE (PublishedIsPath /\ PreviousDescribesIndex /\ ReadyDescribesIndex)'
  OBVIOUS
<1>a. TypeOK /\ lock \in Station \cup {Nobody}
  BY DEF Inv, TypeOK
<1> USE IndexAssumption DEF PublishedIsPath, PreviousDescribesIndex, ReadyDescribesIndex, vars, diskVars, stationVars
<1>1. ASSUME NEW s \in Station, NEW force \in BOOLEAN, Ask(s, force) PROVE (PublishedIsPath /\ PreviousDescribesIndex /\ ReadyDescribesIndex)'
  BY <1>1 DEF Inv, TypeOK, Status, Work, Ask, At, IdleWork, NoStatus
<1>2. ASSUME NEW s \in Station, CancelIndexBuild(s) PROVE (PublishedIsPath /\ PreviousDescribesIndex /\ ReadyDescribesIndex)'
  BY <1>2 DEF Inv, TypeOK, Status, Work, CancelIndexBuild
<1>3. ASSUME NEW s \in Station, ResolveNothing(s) PROVE (PublishedIsPath /\ PreviousDescribesIndex /\ ReadyDescribesIndex)'
  BY <1>3 DEF Inv, TypeOK, Status, Work, ResolveNothing, At, Report, Leave, IdleWork,
     NoStatus
<1>4. ASSUME NEW s \in Station, Resolve(s) PROVE (PublishedIsPath /\ PreviousDescribesIndex /\ ReadyDescribesIndex)'
  BY <1>4, SMTT(40) DEF Inv, TypeOK, Status, Work, Resolve, At
<1>5. ASSUME NEW s \in Station, Adopt(s) PROVE (PublishedIsPath /\ PreviousDescribesIndex /\ ReadyDescribesIndex)'
  BY <1>5, <1>a, AdoptEffect DEF Inv, Gen, None, OthersStay, SameRequest, IdleWork,
     NoStatus, Release
<1>6. ASSUME NEW s \in Station, StartOrCancel(s) PROVE (PublishedIsPath /\ PreviousDescribesIndex /\ ReadyDescribesIndex)'
  BY <1>6, <1>a, StartOrCancelEffect DEF Inv, Gen, None, OthersStay, SameRequest,
     IdleWork, NoStatus, Release
<1>7. ASSUME NEW s \in Station, TakeLock(s) PROVE (PublishedIsPath /\ PreviousDescribesIndex /\ ReadyDescribesIndex)'
  BY <1>7 DEF Inv, TypeOK, Status, Work, TakeLock, At, Go
<1>8. ASSUME NEW s \in Station, LockTimeout(s) PROVE (PublishedIsPath /\ PreviousDescribesIndex /\ ReadyDescribesIndex)'
  BY <1>8 DEF Inv, TypeOK, Status, Work, LockTimeout, At, Report, Leave, IdleWork, NoStatus
<1>9. ASSUME NEW s \in Station, StartBuild(s) PROVE (PublishedIsPath /\ PreviousDescribesIndex /\ ReadyDescribesIndex)'
  BY <1>9 DEF Inv, TypeOK, Status, Work, StartBuild, At, Go, Report
<1>10. ASSUME NEW s \in Station, AbandonBuild(s) PROVE (PublishedIsPath /\ PreviousDescribesIndex /\ ReadyDescribesIndex)'
  BY <1>10 DEF Inv, TypeOK, Status, Work, AbandonBuild, At, Report, Release, Leave,
     IdleWork, NoStatus
<1>11. ASSUME NEW s \in Station, FinishBuild(s) PROVE (PublishedIsPath /\ PreviousDescribesIndex /\ ReadyDescribesIndex)'
  BY <1>11, <1>a, FinishBuildEffect DEF Inv, Gen, None, OthersStay, SameRequest, IdleWork,
     NoStatus, Release
<1>12. ASSUME NEW s \in Station, PublishPath(s) PROVE (PublishedIsPath /\ PreviousDescribesIndex /\ ReadyDescribesIndex)'
  BY <1>12 DEF Inv, TypeOK, Status, Work, PublishPath, At, Go
<1>13. ASSUME NEW s \in Station, PublishEpoch(s) PROVE (PublishedIsPath /\ PreviousDescribesIndex /\ ReadyDescribesIndex)'
  BY <1>13 DEF Inv, TypeOK, Status, Work, PublishEpoch, At, Go
<1>14. ASSUME NEW s \in Station, PublishStatus(s) PROVE (PublishedIsPath /\ PreviousDescribesIndex /\ ReadyDescribesIndex)'
  BY <1>14, <1>a, PublishStatusEffect DEF Inv, Gen, None, OthersStay, SameRequest,
     IdleWork, NoStatus, Release
<1>15. ASSUME NEW s \in Station, Sweep(s) PROVE (PublishedIsPath /\ PreviousDescribesIndex /\ ReadyDescribesIndex)'
  BY <1>15 DEF Inv, TypeOK, Status, Work, Sweep, At, Release, Leave, IdleWork, NoStatus
<1>16. ASSUME NEW s \in Station, Crash(s) PROVE (PublishedIsPath /\ PreviousDescribesIndex /\ ReadyDescribesIndex)'
  BY <1>16 DEF Inv, TypeOK, Status, Work, Crash, At, Release, Leave, IdleWork, NoStatus
<1>17. ASSUME NEW r \in Reader, Query(r) PROVE (PublishedIsPath /\ PreviousDescribesIndex /\ ReadyDescribesIndex)'
  BY <1>17 DEF Inv, TypeOK, Status, Work, Query, ReadPath, ReadEpoch, Open
<1>18. ASSUME UpdateSource PROVE (PublishedIsPath /\ PreviousDescribesIndex /\ ReadyDescribesIndex)'
  BY <1>18 DEF Inv, TypeOK, Status, Work, UpdateSource
<1>19. CASE UNCHANGED vars
  BY <1>19 DEF Inv, TypeOK, Status, Work
<1> QED
  BY <1>1, <1>2, <1>3, <1>4, <1>5, <1>6, <1>7, <1>8, <1>9, <1>10, <1>11, <1>12, <1>13,
     <1>14, <1>15, <1>16, <1>17, <1>18, <1>19 DEF Next, Build

\* Behind the lock nothing appears that could have been adopted.
LEMMA AdoptStep == Inv /\ [Next]_vars => NothingToAdopt'
<1> SUFFICES ASSUME Inv, [Next]_vars PROVE NothingToAdopt'
  OBVIOUS
<1>a. TypeOK /\ lock \in Station \cup {Nobody}
  BY DEF Inv, TypeOK
<1> USE IndexAssumption DEF LockHolderBuilds, NumbersGrow, BuiltByHolder, NothingToAdopt, Matching, vars, diskVars, stationVars
<1>1. ASSUME NEW s \in Station, NEW force \in BOOLEAN, Ask(s, force) PROVE NothingToAdopt'
  BY <1>1 DEF Inv, TypeOK, Status, Work, Ask, At, IdleWork, NoStatus
<1>2. ASSUME NEW s \in Station, CancelIndexBuild(s) PROVE NothingToAdopt'
  BY <1>2 DEF Inv, TypeOK, Status, Work, CancelIndexBuild
<1>3. ASSUME NEW s \in Station, ResolveNothing(s) PROVE NothingToAdopt'
  BY <1>3 DEF Inv, TypeOK, Status, Work, ResolveNothing, At, Report, Leave, IdleWork,
     NoStatus
<1>4. ASSUME NEW s \in Station, Resolve(s) PROVE NothingToAdopt'
  BY <1>4 DEF Inv, TypeOK, Status, Work, Resolve, At
<1>5. ASSUME NEW s \in Station, Adopt(s) PROVE NothingToAdopt'
  BY <1>5, <1>a, AdoptEffect DEF Inv, OthersStay, SameRequest, IdleWork, NoStatus, Release
<1>6. ASSUME NEW s \in Station, StartOrCancel(s) PROVE NothingToAdopt'
  BY <1>6, <1>a, StartOrCancelEffect DEF Inv, OthersStay, SameRequest, IdleWork, NoStatus,
     Release
<1>7. ASSUME NEW s \in Station, TakeLock(s) PROVE NothingToAdopt'
  BY <1>7 DEF Inv, TypeOK, Status, Work, TakeLock, At, Go
<1>8. ASSUME NEW s \in Station, LockTimeout(s) PROVE NothingToAdopt'
  BY <1>8 DEF Inv, TypeOK, Status, Work, LockTimeout, At, Report, Leave, IdleWork, NoStatus
<1>9. ASSUME NEW s \in Station, StartBuild(s) PROVE NothingToAdopt'
  BY <1>9 DEF Inv, TypeOK, Status, Work, StartBuild, At, Go, Report
<1>10. ASSUME NEW s \in Station, AbandonBuild(s) PROVE NothingToAdopt'
  BY <1>10 DEF Inv, TypeOK, Status, Work, AbandonBuild, At, Report, Release, Leave,
     IdleWork, NoStatus
<1>11. ASSUME NEW s \in Station, FinishBuild(s) PROVE NothingToAdopt'
  BY <1>11, <1>a, FinishBuildEffect DEF Inv, OthersStay, SameRequest, IdleWork, NoStatus,
     Release
<1>12. ASSUME NEW s \in Station, PublishPath(s) PROVE NothingToAdopt'
  BY <1>12 DEF Inv, TypeOK, Status, Work, PublishPath, At, Go
<1>13. ASSUME NEW s \in Station, PublishEpoch(s) PROVE NothingToAdopt'
  BY <1>13 DEF Inv, TypeOK, Status, Work, PublishEpoch, At, Go
<1>14. ASSUME NEW s \in Station, PublishStatus(s) PROVE NothingToAdopt'
  BY <1>14, <1>a, PublishStatusEffect DEF Inv, OthersStay, SameRequest, IdleWork,
     NoStatus, Release
<1>15. ASSUME NEW s \in Station, Sweep(s) PROVE NothingToAdopt'
  BY <1>15 DEF Inv, TypeOK, Status, Work, Sweep, At, Release, Leave, IdleWork, NoStatus
<1>16. ASSUME NEW s \in Station, Crash(s) PROVE NothingToAdopt'
  BY <1>16 DEF Inv, TypeOK, Status, Work, Crash, At, Release, Leave, IdleWork, NoStatus
<1>17. ASSUME NEW r \in Reader, Query(r) PROVE NothingToAdopt'
  BY <1>17 DEF Inv, TypeOK, Status, Work, Query, ReadPath, ReadEpoch, Open
<1>18. ASSUME UpdateSource PROVE NothingToAdopt'
  BY <1>18 DEF Inv, TypeOK, Status, Work, UpdateSource
<1>19. CASE UNCHANGED vars
  BY <1>19 DEF Inv, TypeOK, Status, Work
<1> QED
  BY <1>1, <1>2, <1>3, <1>4, <1>5, <1>6, <1>7, <1>8, <1>9, <1>10, <1>11, <1>12, <1>13,
     <1>14, <1>15, <1>16, <1>17, <1>18, <1>19 DEF Next, Build

-----------------------------------------------------------------------------
(* The theorems.                                                            *)

LEMMA InitEstablishesInv == Init => Inv
<1> SUFFICES ASSUME Init PROVE Inv
  OBVIOUS
<1>1. TypeOK
  BY IndexAssumption DEF Init, TypeOK, Gen, Key, None, Status, Work, BuildPc, NoStatus,
     IdleWork,
     NewReader, ReaderState
<1>2. LockHolderBuilds /\ BuildingIsLocked /\ NumbersGrow
  BY IndexAssumption DEF Init, LockHolderBuilds, BuildingIsLocked, NumbersGrow,
     BuiltByHolder, NoStatus,
     IdleWork
<1>3. PublishedIsPath /\ PreviousDescribesIndex /\ ReadyDescribesIndex /\ NothingToAdopt
  BY DEF Init, PublishedIsPath, PreviousDescribesIndex, ReadyDescribesIndex, NothingToAdopt,
     NoStatus, IdleWork
<1>4. QED
  BY <1>1, <1>2, <1>3 DEF Inv

LEMMA InvInductive == Inv /\ [Next]_vars => Inv'
BY TypeStep, LockStep, NumbersStep, PathStep, AdoptStep DEF Inv

\* Inv holds in every reachable state.
THEOREM InvHolds == Spec => []Inv
BY InitEstablishesInv, InvInductive, PTL DEF Spec

\* The types are what they should be, for any number of stations and readers.
THEOREM TypeCorrect == Spec => []TypeOK
BY InvHolds, PTL DEF Inv

\* Two stations never build or sweep at once, and the lock dies with its holder
\* (core/navdata/xplane_native/build.py, advisory_lock).
THEOREM LockedByBuilder == Spec => []LockHolderBuilds
BY InvHolds, PTL DEF Inv

\* A ready status describes the served index, and a thread that has ended has left no
\* "building" behind (provider.py, _ensure_index, _build and _publish).
THEOREM StatusIsTrue == Spec => []StatusIsHonest
<1>1. Inv => IdleIsSettled
  BY DEF Inv, BuildingIsLocked, IdleIsSettled, At
<1>2. QED
  BY <1>1, InvHolds, PTL DEF Inv, StatusIsHonest

\* A published file is never written again: its number is never drawn twice, whatever was
\* swept meanwhile (build.py, next_generation_path and sweep_generations).
THEOREM FilesAreImmutable == Spec => NeverOverwritten
<1>1. Inv /\ [Next]_vars => [\A g \in Gen : keyOf[g] # None => keyOf'[g] = keyOf[g]]_vars
  <2> SUFFICES ASSUME Inv, Next, NEW g \in Gen, keyOf[g] # None PROVE keyOf'[g] = keyOf[g]
    OBVIOUS
  <2>1. CASE \E s \in Station : FinishBuild(s)
    <3>1. PICK s \in Station : FinishBuild(s)
      BY <2>1
    <3>2. g \in Nat /\ NextGeneration \in Nat /\ g < NextGeneration
      BY NextIsNew DEF Inv, Gen
    <3> QED
      BY <3>1, <3>2, FinishBuildEffect DEF Inv
  <2>2. CASE ~ \E s \in Station : FinishBuild(s)
    <3>1. UNCHANGED keyOf
      BY <2>2 DEF Next, Build, Query, diskVars, Ask, CancelIndexBuild, ResolveNothing,
         Resolve, Adopt,
         StartOrCancel, TakeLock, LockTimeout, StartBuild, AbandonBuild, PublishPath, PublishEpoch,
         PublishStatus, Sweep, Crash, ReadPath, ReadEpoch, Open, UpdateSource
    <3> QED
      BY <3>1
  <2> QED
    BY <2>1, <2>2
<1>2. QED
  BY <1>1, InvHolds, PTL DEF Spec, NeverOverwritten

\* The loser of the lock adopts and builds nothing: no unforced build ends while a file of
\* its key is there (provider.py, _ensure_index).
THEOREM BuiltOnce == Spec => NoRepeatedBuild
<1>1. Inv => \A s \in Station : At(s, "building") /\ ~work[s].force => Matching(s) = {}
  BY DEF Inv, NothingToAdopt, At
<1>2. Inv /\ [Next]_vars =>
        [\A s \in Station : At(s, "building") /\ work'[s].pc = "publish" /\ ~work[s].force
                               => Matching(s) = {}]_vars
  BY <1>1
<1>3. QED
  BY <1>2, InvHolds, PTL DEF Spec, NoRepeatedBuild

\* Only another station's sweep takes away the file a station serves (build.py,
\* sweep_generations).
THEOREM OwnFileIsKept == Spec => SweptByOthersOnly
<1>1. Inv /\ [Next]_vars =>
        [\A s \in Station :
           path[s] \in dir \ dir' => \E t \in Station \ {s} : At(t, "sweep")]_vars
  <2> SUFFICES ASSUME Inv, Next, NEW s \in Station, path[s] \in dir \ dir'
               PROVE  \E t \in Station \ {s} : At(t, "sweep")
    OBVIOUS
  <2>1. PICK t \in Station : Sweep(t)
    BY DEF Next, Build, Query, diskVars, Ask, CancelIndexBuild, ResolveNothing, Resolve,
       Adopt,
       StartOrCancel, TakeLock, LockTimeout, StartBuild, AbandonBuild, FinishBuild, PublishPath,
       PublishEpoch, PublishStatus, Crash, ReadPath, ReadEpoch, Open, UpdateSource
  <2>2. At(t, "sweep") /\ work[t].target \in dir'
    BY <2>1 DEF Sweep
  <2>3. path[t] = work[t].target
    BY <2>2 DEF Inv, PublishedIsPath, At
  <2> QED
    BY <2>2, <2>3
<1>2. QED
  BY <1>1, InvHolds, PTL DEF Spec, SweptByOthersOnly

\* The file a reader has open stays what it was: both of the above (build.py,
\* next_generation_path and sweep_generations).
THEOREM FilesKept == Spec => FilesAreKept
BY FilesAreImmutable, OwnFileIsKept, PTL DEF FilesAreKept
=============================================================================
