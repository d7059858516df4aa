---------------------------- MODULE NavdataIndex ----------------------------
(***************************************************************************)
(* The navigation index: core/navdata/xplane_native builds it into numbered*)
(* files of one cache directory (generations), publishes one to the        *)
(* readers of its process and sweeps the others; server/navdata_routes.py  *)
(* starts the builds.                                                      *)
(*                                                                         *)
(* Two stations may share the directory, serialised by an advisory lock.   *)
(* A station has one build thread and several threadpool readers, each     *)
(* with its own SQLite connection; an action is one access to what they    *)
(* share.                                                                  *)
(***************************************************************************)
EXTENDS Integers, FiniteSets

CONSTANTS
    Station,  \* processes that share the cache directory
    Nobody,   \* the holder of a free lock
    Reader,   \* threadpool threads that answer queries
    Home,     \* the station of each reader
    MaxKey,   \* how often the navdata of the simulator changes, plus one
    MaxGen,   \* how many generations are built
    MaxAsk    \* how many index requests are served in all

ASSUME IndexAssumption ==
    /\ Nobody \notin Station
    /\ Home \in [Reader -> Station]
    /\ MaxKey \in Nat \ {0} /\ MaxGen \in Nat /\ MaxAsk \in Nat

None == 0
Gen  == 1 .. MaxGen
Key  == 1 .. MaxKey

VARIABLES
    source,  \* the cache key of the simulator's navdata as it is now
    dir,     \* the generations in the cache directory
    keyOf,   \* the key stamped into each generation, None before it is built
    lock,    \* the station whose build.lock handle holds the kernel lock
    path,    \* the provider's _path
    epoch,   \* the provider's _epoch
    status,  \* the provider's _status: its state and the generation it reports
    work,    \* what the build thread of each station is doing
    cancel,  \* _build_cancel
    asks,    \* history: index requests so far
    reader   \* what each reader thread is doing, and its connection

diskVars    == <<source, dir, keyOf, lock>>
stationVars == <<path, epoch, status, work, cancel, asks>>
vars        == <<diskVars, stationVars, reader>>

NoStatus  == [state |-> "unavailable", gen |-> None]
IdleWork  == [pc |-> "idle", force |-> FALSE, key |-> None, target |-> None, previous |-> NoStatus]
NewReader == [pc |-> "idle", path |-> None, epoch |-> 0, connection |-> None, tag |-> -1]

Init ==
    /\ source = 1
    /\ dir = {}
    /\ keyOf = [g \in Gen |-> None]
    /\ lock = Nobody
    /\ path = [s \in Station |-> None]
    /\ epoch = [s \in Station |-> 0]
    /\ status = [s \in Station |-> NoStatus]
    /\ work = [s \in Station |-> IdleWork]
    /\ cancel = [s \in Station |-> FALSE]
    /\ asks = 0
    /\ reader = [r \in Reader |-> NewReader]

-----------------------------------------------------------------------------
(* The build thread: _ensure_index, _build and _publish.                   *)

At(s, pc)   == work[s].pc = pc
Go(s, pc)   == work' = [work EXCEPT ![s].pc = pc]
Leave(s)    == work' = [work EXCEPT ![s] = IdleWork]
Release(s)  == lock' = IF lock = s THEN Nobody ELSE lock
Report(s, state) == status' = [status EXCEPT ![s] = [state |-> state, gen |-> None]]

\* POST /index: one build thread per station; a running one is left alone.
Ask(s, force) ==
    /\ At(s, "idle") /\ asks < MaxAsk
    /\ asks' = asks + 1
    /\ cancel' = [cancel EXCEPT ![s] = FALSE]
    /\ work' = [work EXCEPT ![s] = [IdleWork EXCEPT !.pc = "resolve", !.force = force]]
    /\ UNCHANGED <<diskVars, path, epoch, status, reader>>

CancelIndexBuild(s) ==
    /\ cancel' = [cancel EXCEPT ![s] = TRUE]
    /\ UNCHANGED <<diskVars, path, epoch, status, work, asks, reader>>

\* The simulator's data are missing or incomplete: reported, nothing else.
ResolveNothing(s) ==
    /\ At(s, "resolve")
    /\ Report(s, "unavailable")
    /\ Leave(s)
    /\ UNCHANGED <<diskVars, path, epoch, cancel, asks, reader>>

\* The sources are resolved, once: their key is the one of this moment.
Resolve(s) ==
    /\ At(s, "resolve")
    /\ work' = [work EXCEPT ![s].pc = IF work[s].force THEN "start" ELSE "adopt",
                            ![s].key = source, ![s].previous = status[s]]
    /\ UNCHANGED <<diskVars, path, epoch, status, cancel, asks, reader>>

Matching(s) == {g \in dir : keyOf[g] = work[s].key}
Newest(S)   == CHOOSE g \in S : \A h \in S : h <= g

\* _adopt: the newest generation of this key; a first look without the lock
\* and, having waited for it, a second one.
Adopt(s) ==
    /\ At(s, "adopt") \/ At(s, "readopt")
    /\ IF Matching(s) # {}
       THEN work' = [work EXCEPT ![s].pc = "publish", ![s].target = Newest(Matching(s))]
       ELSE Go(s, IF At(s, "adopt") THEN "start" ELSE "build")
    /\ UNCHANGED <<diskVars, path, epoch, status, cancel, asks, reader>>

\* A request cancelled before the lock is asked for leaves the old status.
StartOrCancel(s) ==
    /\ At(s, "start")
    /\ IF cancel[s]
       THEN status' = [status EXCEPT ![s] = work[s].previous] /\ Leave(s)
       ELSE Go(s, "wait") /\ UNCHANGED status
    /\ UNCHANGED <<diskVars, path, epoch, cancel, asks, reader>>

\* Mutant: having waited for the lock, build without looking again.
TakeLockAndBuild(s) ==
    /\ At(s, "wait") /\ lock = Nobody
    /\ lock' = s
    /\ Go(s, "build")
    /\ UNCHANGED <<source, dir, keyOf, path, epoch, status, cancel, asks, reader>>

TakeLock(s) ==
    /\ At(s, "wait") /\ lock = Nobody
    /\ lock' = s
    /\ Go(s, IF work[s].force THEN "build" ELSE "readopt")
    /\ UNCHANGED <<source, dir, keyOf, path, epoch, status, cancel, asks, reader>>

\* BuildLockTimeout: another station held the lock for LOCK_TIMEOUT_S.
LockTimeout(s) ==
    /\ At(s, "wait") /\ lock # Nobody
    /\ Report(s, "error")
    /\ Leave(s)
    /\ UNCHANGED <<diskVars, path, epoch, cancel, asks, reader>>

StartBuild(s) ==
    /\ At(s, "build")
    /\ Report(s, "building")
    /\ Go(s, "building")
    /\ UNCHANGED <<diskVars, path, epoch, cancel, asks, reader>>

\* Mutant: a build that raises leaves "building" behind.
AbandonSilently(s) ==
    /\ At(s, "building")
    /\ UNCHANGED status
    /\ Release(s)
    /\ Leave(s)
    /\ UNCHANGED <<source, dir, keyOf, path, epoch, cancel, asks, reader>>

\* Mutant: a cancelled build reports a state the status model does not have.
AbandonAsCancelled(s) ==
    /\ At(s, "building")
    /\ Report(s, "cancelled")
    /\ Release(s)
    /\ Leave(s)
    /\ UNCHANGED <<source, dir, keyOf, path, epoch, cancel, asks, reader>>

\* The build was cancelled or raised: the temporary file is unlinked.
AbandonBuild(s) ==
    /\ At(s, "building")
    /\ \/ cancel[s] /\ status' = [status EXCEPT ![s] = work[s].previous]
       \/ Report(s, "error")
    /\ Release(s)
    /\ Leave(s)
    /\ UNCHANGED <<source, dir, keyOf, path, epoch, cancel, asks, reader>>

\* Mutant: the files are counted, which forgets the swept ones.
NextGenerationByCount == Cardinality(dir) + 1

\* next_generation_path: the highest number in the directory, plus one.
NextGeneration == IF dir = {} THEN 1 ELSE Newest(dir) + 1

\* The finished file is renamed onto a number of its own.
FinishBuild(s) ==
    /\ At(s, "building") /\ NextGeneration \in Gen
    /\ dir' = dir \cup {NextGeneration}
    /\ keyOf' = [keyOf EXCEPT ![NextGeneration] = work[s].key]
    /\ work' = [work EXCEPT ![s].pc = "publish", ![s].target = NextGeneration]
    /\ UNCHANGED <<source, lock, path, epoch, status, cancel, asks, reader>>

\* Mutant: a provider that already serves an index keeps its path.
PublishFirstPath(s) ==
    /\ At(s, "publish")
    /\ path' = [path EXCEPT ![s] = IF @ = None THEN work[s].target ELSE @]
    /\ Go(s, "epoch")
    /\ UNCHANGED <<diskVars, epoch, status, cancel, asks, reader>>

\* _publish, in its order: the path, the epoch, the status.
PublishPath(s) ==
    /\ At(s, "publish")
    /\ path' = [path EXCEPT ![s] = work[s].target]
    /\ Go(s, "epoch")
    /\ UNCHANGED <<diskVars, epoch, status, cancel, asks, reader>>

PublishEpoch(s) ==
    /\ At(s, "epoch")
    /\ epoch' = [epoch EXCEPT ![s] = @ + 1]
    /\ Go(s, "ready")
    /\ UNCHANGED <<diskVars, path, status, cancel, asks, reader>>

\* An adoption ends here; the station that built goes on to sweep.
PublishStatus(s) ==
    /\ At(s, "ready")
    /\ status' = [status EXCEPT ![s] = [state |-> "ready", gen |-> work[s].target]]
    /\ IF status[s].state = "building"
       THEN Go(s, "sweep") /\ UNCHANGED lock
       ELSE Leave(s) /\ Release(s)
    /\ UNCHANGED <<source, dir, keyOf, path, epoch, cancel, asks, reader>>

\* Mutant: the sweep is told to keep nothing.
SweepAll(s) ==
    /\ At(s, "sweep")
    /\ \E refused \in SUBSET dir : dir' = refused
    /\ Release(s)
    /\ Leave(s)
    /\ UNCHANGED <<source, keyOf, path, epoch, status, cancel, asks, reader>>

\* sweep_generations: every other file is unlinked, wherever the system does
\* not refuse it because of an open handle.
Sweep(s) ==
    /\ At(s, "sweep")
    /\ \E refused \in SUBSET dir : dir' = {work[s].target} \cup refused
    /\ Release(s)
    /\ Leave(s)
    /\ UNCHANGED <<source, keyOf, path, epoch, status, cancel, asks, reader>>

-----------------------------------------------------------------------------
(* A reader: _connection, run by every query.                              *)

ReadPath(r) ==
    /\ reader[r].pc = "idle"
    /\ path[Home[r]] # None
    /\ reader' = [reader EXCEPT ![r].pc = "path", ![r].path = path[Home[r]]]
    /\ UNCHANGED <<diskVars, stationVars>>

\* A connection of this epoch is used again, any other is closed.
ReadEpoch(r) ==
    LET now     == epoch[Home[r]]
        current == reader[r].connection # None /\ reader[r].tag = now IN
    /\ reader[r].pc = "path"
    /\ reader' = [reader EXCEPT ![r].pc = IF current THEN "idle" ELSE "open",
                                ![r].epoch = now,
                                ![r].connection = IF current THEN @ ELSE None]
    /\ UNCHANGED <<diskVars, stationVars>>

\* Opening a file that is gone raises; the query answers 500.
Open(r) ==
    /\ reader[r].pc = "open"
    /\ LET seen == reader[r] IN
       reader' = [reader EXCEPT ![r] =
           IF seen.path \in dir
           THEN [seen EXCEPT !.pc = "idle", !.connection = seen.path, !.tag = seen.epoch]
           ELSE [seen EXCEPT !.pc = "idle"]]
    /\ UNCHANGED <<diskVars, stationVars>>

-----------------------------------------------------------------------------
(* What happens around them.                                               *)

\* An AIRAC update replaces the simulator's files.
UpdateSource ==
    /\ source < MaxKey
    /\ source' = source + 1
    /\ UNCHANGED <<dir, keyOf, lock, stationVars, reader>>

\* Mutant: a lock that is a file, which outlives its holder.
CrashLeavingLock(s) ==
    /\ ~At(s, "idle")
    /\ path' = [path EXCEPT ![s] = None]
    /\ epoch' = [epoch EXCEPT ![s] = 0]
    /\ status' = [status EXCEPT ![s] = NoStatus]
    /\ Leave(s)
    /\ reader' = [r \in Reader |-> IF Home[r] = s THEN NewReader ELSE reader[r]]
    /\ UNCHANGED <<diskVars, cancel, asks>>

\* The process dies and is started again; the kernel frees its lock, and a
\* temporary file it was writing is no generation.
Crash(s) ==
    /\ ~At(s, "idle")
    /\ path' = [path EXCEPT ![s] = None]
    /\ epoch' = [epoch EXCEPT ![s] = 0]
    /\ status' = [status EXCEPT ![s] = NoStatus]
    /\ Leave(s)
    /\ Release(s)
    /\ reader' = [r \in Reader |-> IF Home[r] = s THEN NewReader ELSE reader[r]]
    /\ UNCHANGED <<source, dir, keyOf, cancel, asks>>

Build(s) ==
    \/ ResolveNothing(s) \/ Resolve(s)
    \/ Adopt(s) \/ StartOrCancel(s)
    \/ TakeLock(s) \/ LockTimeout(s)
    \/ StartBuild(s) \/ AbandonBuild(s) \/ FinishBuild(s)
    \/ PublishPath(s) \/ PublishEpoch(s) \/ PublishStatus(s)
    \/ Sweep(s)

Query(r) == ReadPath(r) \/ ReadEpoch(r) \/ Open(r)

Next ==
    \/ \E s \in Station, force \in BOOLEAN : Ask(s, force)
    \/ \E s \in Station : CancelIndexBuild(s) \/ Build(s) \/ Crash(s)
    \/ \E r \in Reader : Query(r)
    \/ UpdateSource

Spec == Init /\ [][Next]_vars

-----------------------------------------------------------------------------
(* Properties.                                                             *)

Status == [state : {"unavailable", "building", "ready", "error"}, gen : Gen \cup {None}]
BuildPc == {"idle", "resolve", "adopt", "start", "wait", "readopt", "build", "building",
            "publish", "epoch", "ready", "sweep"}
Work == [pc : BuildPc, force : BOOLEAN, key : Key \cup {None}, target : Gen \cup {None},
         previous : Status]
ReaderState == [pc : {"idle", "path", "open"}, path : Gen \cup {None}, epoch : Nat,
                connection : Gen \cup {None}, tag : Nat \cup {-1}]

TypeOK ==
    /\ source \in Key /\ asks \in 0 .. MaxAsk
    /\ dir \subseteq Gen /\ keyOf \in [Gen -> Key \cup {None}]
    /\ lock \in Station \cup {Nobody}
    /\ path \in [Station -> Gen \cup {None}] /\ epoch \in [Station -> Nat]
    /\ status \in [Station -> Status] /\ work \in [Station -> Work]
    /\ cancel \in [Station -> BOOLEAN]
    /\ reader \in [Reader -> ReaderState]

\* "A published cache file is never overwritten" (D15): connections opened with
\* immutable=1 never see the bytes of their file change, whoever builds.
NeverOverwritten == [][\A g \in Gen : keyOf[g] # None => keyOf'[g] = keyOf[g]]_vars

\* "The loser adopts that generation and builds nothing": without force, no
\* build finishes while a generation of its key is in the directory.
NoRepeatedBuild ==
    [][\A s \in Station :
         At(s, "building") /\ work'[s].pc = "publish" /\ ~work[s].force => Matching(s) = {}]_vars

\* The lock is held by a live build and by nothing else: it dies with its
\* holder, and two stations never write or sweep the directory at once.
LockHolderBuilds ==
    /\ lock # Nobody =>
         work[lock].pc \in {"readopt", "build", "building", "publish", "epoch", "ready", "sweep"}
    /\ \A s \in Station : work[s].pc \in {"readopt", "build", "building", "sweep"} => lock = s

\* A status of "ready" describes the index that is served, also after builds
\* that failed, were cancelled or timed out behind it.
ReadyDescribesIndex ==
    \A s \in Station :
        status[s].state = "ready" /\ work[s].pc \notin {"epoch", "ready"}
            => status[s].gen = path[s] /\ path[s] # None

\* With no build thread at work the status is settled: the panel is not left
\* waiting for a build that ended in an exception.
IdleIsSettled == \A s \in Station : At(s, "idle") => status[s].state # "building"

\* The status tells the truth: the index it calls ready is served, and what it calls
\* building is being built (provider.py, _ensure_index, _build and _publish).
StatusIsHonest == ReadyDescribesIndex /\ IdleIsSettled

\* A file that a station serves leaves the directory by the sweep of another
\* station only: no build, adoption or retry of its own takes it away.
SweptByOthersOnly ==
    [][\A s \in Station :
         path[s] \in dir \ dir' => \E t \in Station \ {s} : At(t, "sweep")]_vars

\* The invariant behind the ones above, inductive.  Only the lock's holder reports
\* "building", and a status put aside never does; a file number in use is below the
\* newest file, which is the one a lock holder has built until it has swept; what was
\* published is the path; and behind the lock no generation of the key turns up.
BuildingIsLocked ==
    \A s \in Station :
        /\ work[s].previous.state # "building"
        /\ status[s].state = "building" =>
             work[s].pc \in {"building", "publish", "epoch", "ready"} /\ lock = s
BuiltByHolder(s) ==
    \/ work[s].pc \in {"publish", "epoch", "ready"} /\ status[s].state = "building"
    \/ work[s].pc = "sweep"
NumbersGrow ==
    /\ \A g \in Gen : keyOf[g] # None => \E h \in dir : g <= h
    /\ \A s \in Station : BuiltByHolder(s) =>
         /\ work[s].target \in dir
         /\ \A g \in Gen : keyOf[g] # None => g <= work[s].target
PublishedIsPath ==
    \A s \in Station :
        /\ work[s].pc \in {"publish", "epoch", "ready", "sweep"} => work[s].target # None
        /\ work[s].pc \in {"epoch", "ready", "sweep"} => path[s] = work[s].target
PreviousDescribesIndex ==
    \A s \in Station :
        work[s].previous.state = "ready" /\ work[s].pc \notin {"publish", "epoch", "ready", "sweep"}
            => work[s].previous.gen = path[s] /\ path[s] # None
NothingToAdopt ==
    \A s \in Station : work[s].pc \in {"build", "building"} /\ ~work[s].force => Matching(s) = {}
Inv ==
    /\ TypeOK
    /\ LockHolderBuilds
    /\ BuildingIsLocked
    /\ NumbersGrow
    /\ PublishedIsPath
    /\ PreviousDescribesIndex
    /\ ReadyDescribesIndex
    /\ NothingToAdopt

\* The file a reader has open stays what it was: published files are never written again,
\* and a station's own builds never take away the one it serves (build.py,
\* next_generation_path and sweep_generations).
FilesAreKept == NeverOverwritten /\ SweptByOthersOnly
=============================================================================
