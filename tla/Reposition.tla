------------------------------ MODULE Reposition ------------------------------
(***************************************************************************)
(* Placing the aircraft (server/position_routes.py, pushback_routes.py and *)
(* XPlaneSimAdapter.apply_setup, set_position, frozen_flight_model): the   *)
(* setup inside one freeze of the flight model, then the teleport inside a *)
(* second one, aimed again when a scenery reload moves the local frame.    *)
(*                                                                         *)
(* Every HTTP request to X-Plane is one step of its task: until the step   *)
(* the task is suspended in an await and other tasks run.  Writes of one   *)
(* group (three coordinates; velocity and heading) are one step, which may *)
(* fail halfway, or be answered and not take.  The frame, the reload and   *)
(* the published world position are X-Plane's, as                          *)
(* tests/adapters/test_xplane_scenery_reload.py has them.                  *)
(***************************************************************************)
EXTENDS Integers, FiniteSets

CONSTANTS Client,       \* concurrent requests
          Place,        \* where they ask to go
          Home,         \* where the aircraft stands at first, a Place
          Elsewhere,    \* a world position nobody asked for
          Decayed,      \* the velocity the flight model makes of any other
          Wrong,        \* a frame origin measured across a reload
          MaxWrites,    \* _MAX_REPOSITION_WRITES
          StableSamples,\* _ORIGIN_STABLE_SAMPLES
          MaxShift,     \* bound: frame shifts in a behaviour
          MaxFaults,    \* bound: kinds of requests that fail in a behaviour
          Faults        \* of "refused", "unanswered", "untaken", "deadline"

ASSUME HomeAssumption == Home \in Place
ASSUME ValuesAssumption == Elsewhere \notin Place /\ Decayed \notin Client /\ Wrong \notin Nat
ASSUME BoundsAssumption ==
  MaxWrites \in Nat \ {0} /\ StableSamples \in Nat \ {0} /\ MaxShift \in Nat
  /\ MaxFaults \in Nat
ASSUME FaultsAssumption == Faults \subseteq {"refused", "unanswered", "untaken", "deadline"}

VARIABLES override,     \* sim/operation/override/override_planepath[0]
          frame,        \* which local frame is current
          coords,       \* local_x/y/z: the place they denote in which frame
          world,        \* published latitude and longitude
          stale,        \* world has not been derived from coords yet
          reload,       \* a scenery reload is due
          velocity,     \* whose velocity vector the aircraft has
          freezeDepth,  \* XPlaneSimAdapter._freeze_depth
          task,         \* per client, the coroutine that serves its request
          stray,        \* override writes given up, still on their way
          astray        \* history: kinds of requests to X-Plane that ever failed

simVars == <<override, frame, coords, world, stale, reload, velocity>>
vars == <<simVars, freezeDepth, task, stray, astray>>

Frame == 0 .. MaxShift
Stage == {"setup", "position"}
Outside == {"engage", "origin", "release", "repair"}   \* awaits out of the block
Inside == {"setup", "coords", "velocity", "poll", "settle"}

\* alone, since, untaken and resumed are history, for the properties only: nobody else
\* has run since this request began; and as long as that is so, the frame it began in,
\* how many of its placements X-Plane swallowed, whose velocity its release handed over.
Task == [pc : {"idle"} \cup Outside \cup Inside, stage : Stage, place : Place,
         origin : Frame \cup {Wrong}, attempts : 0 .. MaxWrites,
         agreements : 0 .. StableSamples, late : BOOLEAN, arrived : BOOLEAN,
         raising : BOOLEAN, alone : BOOLEAN, since : Frame, untaken : 0 .. MaxWrites,
         resumed : Client \cup {Decayed}]

NoTask == [pc |-> "idle", stage |-> "setup", place |-> Home, origin |-> 0,
           attempts |-> 0, agreements |-> 0, late |-> FALSE, arrived |-> FALSE,
           raising |-> FALSE, alone |-> FALSE, since |-> 0, untaken |-> 0,
           resumed |-> Decayed]

\* Somebody else has begun.
Joined(t) == [t EXCEPT !.alone = FALSE, !.since = 0, !.untaken = 0, !.resumed = Decayed]

InFlight(c) == task[c].pc # "idle"
InBlock(c) == task[c].pc \in Inside

Init ==
  /\ override = FALSE /\ frame = 0 /\ coords = [place |-> Home, frame |-> 0]
  /\ world = Home /\ stale = FALSE /\ reload = FALSE
  /\ velocity = Decayed
  /\ freezeDepth = 0
  /\ task = [c \in Client |-> NoTask]
  /\ stray = {} /\ astray = {}
-----------------------------------------------------------------------------
(* The simulator. *)

\* Where local coordinates put the aircraft in the current frame.
WorldOf(aim) == IF aim.frame = frame THEN aim.place ELSE Elsewhere

Publish ==
  /\ stale /\ ~reload
  /\ world' = WorldOf(coords) /\ stale' = FALSE
  /\ UNCHANGED <<override, frame, coords, reload, velocity,
                 freezeDepth, task, stray, astray>>

\* The frame is anchored anew, the aircraft's local coordinates stay.
ReloadScenery ==
  /\ reload
  /\ frame' = frame + 1 /\ reload' = FALSE /\ stale' = TRUE
  /\ UNCHANGED <<override, coords, world, velocity,
                 freezeDepth, task, stray, astray>>

\* A running flight model makes its own of whatever velocity was written.
Fly ==
  /\ ~override /\ velocity # Decayed
  /\ velocity' = Decayed
  /\ UNCHANGED <<override, frame, coords, world, stale, reload,
                 freezeDepth, task, stray, astray>>

\* A write its sender has given up reaches X-Plane after all.
StrayLands ==
  /\ \E value \in stray : override' = value /\ stray' = stray \ {value}
  /\ UNCHANGED <<frame, coords, world, stale, reload, velocity,
                 freezeDepth, task, astray>>
-----------------------------------------------------------------------------
(* frozen_flight_model.                                                     *)

FirstInside(stage) == IF stage = "setup" THEN "setup" ELSE "coords"

\* Mutant: no write of the override.
EnteringUnfrozen(t) == [t EXCEPT !.pc = FirstInside(t.stage)]

\* Only the outermost block writes the override; the depth is read before that
\* write is awaited and incremented after it.
Entering(t) == [t EXCEPT !.pc = IF freezeDepth = 0 THEN "engage" ELSE FirstInside(t.stage)]
DepthEntering == IF freezeDepth = 0 THEN 0 ELSE freezeDepth + 1

\* After the block: the setup is followed by the teleport, the teleport by the
\* repair, and an exception by neither.
AfterBlock(t) ==
  IF t.raising THEN NoTask
  ELSE [t EXCEPT !.pc = IF t.stage = "setup" THEN "origin" ELSE "repair",
                 !.stage = "position"]

\* The finally clause: the last one out releases.
LeaveBlock(c, t) ==
  /\ freezeDepth' = freezeDepth - 1
  /\ task' = [task EXCEPT ![c] = IF freezeDepth = 1 THEN [t EXCEPT !.pc = "release"]
                                                    ELSE AfterBlock(t)]

Engaged(c) ==
  /\ task[c].pc = "engage"
  /\ override' = TRUE
  /\ freezeDepth' = freezeDepth + 1
  /\ task' = [task EXCEPT ![c].pc = FirstInside(task[c].stage)]
  /\ UNCHANGED <<frame, coords, world, stale, reload, velocity, stray, astray>>

Released(c) ==
  /\ task[c].pc = "release"
  /\ override' = FALSE
  /\ task' = [task EXCEPT ![c] = AfterBlock(
                  [task[c] EXCEPT !.resumed = IF task[c].alone THEN velocity ELSE Decayed])]
  /\ UNCHANGED <<frame, coords, world, stale, reload, velocity, freezeDepth,
                 stray, astray>>
-----------------------------------------------------------------------------
(* The requests. *)

\* Nothing is under way, in the server or in the simulator.
Quiet == ~stale /\ ~reload /\ stray = {} /\ \A c \in Client : ~InFlight(c)

\* POST /api/position/apply writes a setup and then teleports; a pushback only
\* teleports.
Begin(c) ==
  /\ ~InFlight(c)
  /\ \E p \in Place, stage \in Stage :
       LET t == [NoTask EXCEPT !.stage = stage, !.place = p, !.alone = Quiet,
                                !.since = IF Quiet THEN frame ELSE 0] IN
       /\ task' = [d \in Client |->
                     IF d # c THEN Joined(task[d])
                     ELSE IF stage = "setup" THEN Entering(t) ELSE [t EXCEPT !.pc = "origin"]]
       /\ freezeDepth' = IF stage = "setup" THEN DepthEntering ELSE freezeDepth
  /\ UNCHANGED <<simVars, stray, astray>>

\* _write_flight_model_state: attitude and velocity of the setup.
WriteSetup(c) ==
  /\ task[c].pc = "setup"
  /\ velocity' = c
  /\ LeaveBlock(c, task[c])
  /\ UNCHANGED <<override, frame, coords, world, stale, reload, stray, astray>>

\* An origin is measured from the aircraft's world and local position; between
\* a write and its publication the pair is fabricated.
Measured == IF stale \/ reload THEN Wrong ELSE frame

MeasureOrigin(c) ==
  /\ task[c].pc = "origin"
  /\ task' = [task EXCEPT ![c] = Entering([task[c] EXCEPT !.origin = Measured])]
  /\ freezeDepth' = DepthEntering
  /\ UNCHANGED <<simVars, stray, astray>>

\* The writes take. A jump out of the loaded scenery makes a reload due.
WriteCoords(c) ==
  /\ task[c].pc = "coords"
  /\ coords' = [place |-> task[c].place, frame |-> task[c].origin]
  /\ stale' = TRUE
  /\ \/ UNCHANGED reload
     \/ world # task[c].place /\ frame < MaxShift /\ reload' = TRUE
  /\ task' = [task EXCEPT ![c].pc = "velocity", ![c].origin = 0,
                          ![c].attempts = task[c].attempts + 1]
  /\ UNCHANGED <<override, frame, world, velocity, freezeDepth, stray, astray>>

\* The writes are accepted and do not take: the aircraft stays where it was.
CoordsSwallowed(c) ==
  /\ "untaken" \in Faults
  /\ task[c].pc = "coords"
  /\ task' = [task EXCEPT ![c].pc = "velocity", ![c].origin = 0,
                          ![c].attempts = task[c].attempts + 1,
                          ![c].untaken = IF task[c].alone THEN task[c].untaken + 1 ELSE 0]
  /\ UNCHANGED <<simVars, freezeDepth, stray, astray>>

\* Mutant: the speed is read back from the aircraft.
WriteVelocityReadBack(c) ==
  /\ task[c].pc = "velocity"
  /\ task' = [task EXCEPT ![c].pc = "poll"]
  /\ UNCHANGED <<override, frame, coords, world, stale, reload, velocity, freezeDepth,
                 stray, astray>>

\* The speed is the request's, never the one the aircraft has by now.
WriteVelocity(c) ==
  /\ task[c].pc = "velocity"
  /\ velocity' = c
  /\ task' = [task EXCEPT ![c].pc = "poll"]
  /\ UNCHANGED <<override, frame, coords, world, stale, reload, freezeDepth,
                 stray, astray>>

Arrive(c) ==
  /\ task[c].pc = "poll"
  /\ world = task[c].place
  /\ LeaveBlock(c, [task[c] EXCEPT !.arrived = TRUE])
  /\ UNCHANGED <<simVars, stray, astray>>

\* A slice lasts two orders of magnitude longer than a publication, unless the
\* deadline cuts it short.
SliceExpired(c) ==
  /\ task[c].pc = "poll" /\ world # task[c].place
  /\ task[c].late \/ (~stale /\ ~reload)

\* Mutants: no limit to the attempts; the frame of the first aim used again.
AimAgainForever(c) ==
  /\ SliceExpired(c) /\ ~task[c].late
  /\ task' = [task EXCEPT ![c].pc = "settle", ![c].agreements = 0, ![c].origin = Measured]
  /\ UNCHANGED <<simVars, freezeDepth, stray, astray>>
AimAgainUnmeasured(c) ==
  /\ SliceExpired(c) /\ task[c].attempts < MaxWrites /\ ~task[c].late
  /\ task' = [task EXCEPT ![c].pc = "coords", ![c].origin = coords.frame]
  /\ UNCHANGED <<simVars, freezeDepth, stray, astray>>

\* Aim again, in a frame measured anew ...
AimAgain(c) ==
  /\ SliceExpired(c) /\ task[c].attempts < MaxWrites /\ ~task[c].late
  /\ task' = [task EXCEPT ![c].pc = "settle", ![c].agreements = 0, ![c].origin = Measured]
  /\ UNCHANGED <<simVars, freezeDepth, stray, astray>>

\* ... until the attempts or the time are used up.
GiveUp(c) ==
  /\ SliceExpired(c) /\ (task[c].attempts = MaxWrites \/ task[c].late)
  /\ LeaveBlock(c, task[c])
  /\ UNCHANGED <<simVars, stray, astray>>

\* _settled_local_frame_origin: one more sample.
Sample(c) ==
  LET t == task[c]
      agree == IF Measured = t.origin THEN t.agreements + 1 ELSE 0 IN
  /\ t.pc = "settle"
  /\ task' = [task EXCEPT ![c].pc = IF agree = StableSamples THEN "coords" ELSE "settle",
                          ![c].agreements = IF agree = StableSamples THEN 0 ELSE agree,
                          ![c].origin = Measured]
  /\ UNCHANGED <<simVars, freezeDepth, stray, astray>>

\* Mutant: measuring the frame has no deadline.
OutOfTimePolling(c) ==
  /\ "deadline" \in Faults
  /\ task[c].pc = "poll" /\ ~task[c].late
  /\ task' = [task EXCEPT ![c].late = TRUE]
  /\ UNCHANGED <<simVars, freezeDepth, stray, astray>>

\* The deadline of the whole teleport: no more samples, no more attempts.
OutOfTime(c) ==
  /\ "deadline" \in Faults
  /\ task[c].pc \in {"poll", "settle"} /\ ~task[c].late
  /\ task' = [task EXCEPT ![c].late = TRUE, ![c].agreements = 0,
                          ![c].pc = IF task[c].pc = "settle" THEN "coords" ELSE "poll"]
  /\ UNCHANGED <<simVars, freezeDepth, stray, astray>>

\* clear_crash_state, whatever became of the teleport; then the answer: the result
\* if the aircraft arrived, XPlaneRepositionFailed if not.
Repaired(c) ==
  /\ task[c].pc = "repair"
  /\ task' = [task EXCEPT ![c] = NoTask]
  /\ UNCHANGED <<override, frame, coords, world, stale, reload, velocity, freezeDepth,
                 stray, astray>>
-----------------------------------------------------------------------------
(* A request to X-Plane that raises: not carried out, or carried out all    *)
(* the same, now or later.                                                  *)

MayFail == Cardinality(astray) < MaxFaults

\* Mutant: the release is not in a finally.
RaiseThrough(c) == task' = [task EXCEPT ![c] = NoTask] /\ UNCHANGED freezeDepth

\* Awaited outside the block, it ends the request; inside, the block is left first.
Raise(c) ==
  IF InBlock(c)
  THEN LeaveBlock(c, [task[c] EXCEPT !.raising = TRUE])
  ELSE task' = [task EXCEPT ![c] = NoTask] /\ UNCHANGED freezeDepth

\* The write of 1 is awaited before the try, the write of 0 after the count went
\* down: neither is tried again.
OverrideFails(c) ==
  /\ task[c].pc \in {"engage", "release"} /\ MayFail
  /\ LET value == task[c].pc = "engage" IN
     \/ "refused" \in Faults /\ UNCHANGED <<override, stray>>
     \/ "unanswered" \in Faults /\ override' = value /\ UNCHANGED stray
     \/ "unanswered" \in Faults /\ stray' = stray \cup {value} /\ UNCHANGED override
  /\ astray' = astray \cup {task[c].pc}
  /\ Raise(c)
  /\ UNCHANGED <<frame, coords, world, stale, reload, velocity>>

\* Any other request; the three coordinates may have been written, or some of them.
RequestFails(c) ==
  /\ "refused" \in Faults /\ MayFail
  /\ InFlight(c) /\ task[c].pc \notin {"engage", "release"}
  /\ astray' = astray \cup {"other"}
  /\ \/ UNCHANGED <<coords, stale>>
     \/ /\ task[c].pc = "coords"
        /\ \E p \in {Elsewhere, task[c].place} :
             coords' = [place |-> p, frame |-> task[c].origin]
        /\ stale' = TRUE
  /\ Raise(c)
  /\ UNCHANGED <<override, frame, world, reload, velocity, stray>>
-----------------------------------------------------------------------------
Serve(c) ==
  \/ Engaged(c) \/ Released(c) \/ WriteSetup(c) \/ MeasureOrigin(c) \/ WriteCoords(c)
  \/ CoordsSwallowed(c) \/ WriteVelocity(c) \/ Arrive(c) \/ AimAgain(c) \/ GiveUp(c)
  \/ Sample(c) \/ Repaired(c)

Next ==
  \/ Publish \/ ReloadScenery \/ Fly \/ StrayLands
  \/ \E c \in Client : \/ Begin(c) \/ Serve(c) \/ OutOfTime(c)
                       \/ OverrideFails(c) \/ RequestFails(c)

Spec == Init /\ [][Next]_vars

\* X-Plane answers or the HTTP client times out, and asyncio resumes the task; X-Plane
\* publishes and finishes loading; the clock advances.
FairSpec == /\ Spec
            /\ WF_vars(Publish) /\ WF_vars(ReloadScenery)
            /\ \A c \in Client : WF_vars(Serve(c)) /\ WF_vars(OutOfTime(c))
-----------------------------------------------------------------------------
\* The type of every variable.
TypeOK ==
  /\ override \in BOOLEAN /\ stale \in BOOLEAN /\ reload \in BOOLEAN
  /\ frame \in Frame
  /\ coords \in [place : Place \cup {Elsewhere}, frame : Frame \cup {Wrong}]
  /\ world \in Place \cup {Elsewhere}
  /\ velocity \in Client \cup {Decayed}
  /\ freezeDepth \in Nat
  /\ task \in [Client -> Task]
  /\ stray \subseteq BOOLEAN
  /\ astray \subseteq {"engage", "release", "other"}

\* Once nobody is placing the aircraft, the flight model runs again, however the
\* blocks of several requests overlapped and wherever they raised; only an
\* override write that itself failed can leave the aircraft frozen.
NobodyLeavesItFrozen ==
  (\A c \in Client : ~InFlight(c)) /\ astray \subseteq {"other"} => ~override /\ freezeDepth = 0

\* A request that runs alone writes the flight model only while it is frozen.
WritesAreFrozen ==
  \A c \in Client : task[c].alone /\ InBlock(c) => override

\* A placement that ran alone and is answered with success has left the aircraft at
\* the place it was asked for, with the velocity it was asked for,
\* scenery reloads notwithstanding.
PlacedAsAsked ==
  [][\A c \in Client :
       Repaired(c) /\ task[c].arrived /\ task[c].alone
         => /\ WorldOf(coords) = task[c].place /\ ~reload
            /\ task[c].resumed = c]_vars

\* The attempts of a lone request that a reload or a swallowed write has cost.
Spent(c) == (frame - task[c].since) + task[c].untaken

\* A lone placement gives up when it is out of time, or has used every attempt up: and
\* then each one went to a reload of the scenery or to writes X-Plane swallowed.
MissesAreAccounted ==
  \A c \in Client :
    LET t == task[c] IN
    t.pc = "repair" /\ t.alone /\ ~t.arrived
      => \/ t.late
         \/ t.attempts = MaxWrites /\ MaxWrites <= Spent(c)

\* Every request is answered, also while another one keeps moving the aircraft and
\* with it the pair of positions a frame is measured from.
EveryRequestReturns == \A c \in Client : InFlight(c) ~> ~InFlight(c)

\* A lone placement keeps the aircraft frozen while it writes, and does not give up
\* an attempt that could have arrived (xplane_adapter.py, set_position).
LonePlacementHolds == WritesAreFrozen /\ MissesAreAccounted
-----------------------------------------------------------------------------
(* The inductive invariant (RepositionProofs): what a task carries at each  *)
(* of its awaits, and what a lone one may rely on.                          *)

Blocked == {c \in Client : InBlock(c)}

\* The depth is the number of requests inside the block.
DepthCountsBlocks == IsFiniteSet(Blocked) /\ freezeDepth = Cardinality(Blocked)

\* With the override writes answered, somebody is inside, or about to release,
\* whenever the aircraft is frozen.
SomebodyThaws ==
  astray \subseteq {"other"} =>
    /\ stray = {}
    /\ override => \E c \in Client : InBlock(c) \/ task[c].pc = "release"

\* A published position is the one the coordinates denote; a reload has a frame to go to.
PublishedIsDenoted ==
  /\ ~stale => world = WorldOf(coords)
  /\ reload => frame < MaxShift

TaskShape ==
  \A c \in Client :
    LET t == task[c] IN
    /\ t.pc = "idle" => ~t.alone
    /\ t.pc = "setup" => t.stage = "setup"
    /\ t.pc \in {"origin", "coords", "velocity", "poll", "settle", "repair"} => t.stage = "position"
    /\ t.stage = "setup" \/ t.pc \in {"engage", "origin"} => t.attempts = 0
    /\ t.pc \in {"coords", "settle"} => t.attempts < MaxWrites
    /\ t.agreements < StableSamples /\ t.untaken <= t.attempts
    /\ t.arrived => t.pc \in {"release", "repair"} /\ t.stage = "position"
    /\ t.raising => t.pc = "release"

\* A lone request has the simulator to itself, and freezes it before it writes.
LoneIsAlone ==
  \A c \in Client : task[c].alone =>
    /\ \A d \in Client \ {c} : ~InFlight(d)
    /\ stray = {}
    /\ InBlock(c) \/ task[c].pc = "release" => override

\* It aims from a frame that stands still, and every aim but the last has cost a reload
\* or was swallowed; after one that was, the aircraft stands where it stood.
LoneAims ==
  \A c \in Client :
    LET t == task[c] IN
    t.alone =>
      /\ t.since <= frame
      /\ t.pc \in {"engage", "origin", "setup", "settle", "coords"} => ~stale /\ ~reload
      /\ t.pc = "release" /\ t.stage = "setup" /\ ~t.raising => ~stale /\ ~reload
      /\ t.pc \in {"settle", "coords"} \/ (t.pc = "engage" /\ t.stage = "position") =>
           t.origin = frame /\ t.attempts <= Spent(c)
      /\ t.pc \in {"velocity", "poll"} =>
           \/ ~stale /\ ~reload /\ t.attempts <= Spent(c)
           \/ /\ coords.place = t.place
              /\ t.attempts <= Spent(c) + 1
              /\ coords.frame # frame => t.attempts <= Spent(c)
              /\ reload \/ (stale /\ coords.frame # frame) => world # t.place

\* What it found when it left the block still holds as it answers.
LoneLands ==
  \A c \in Client :
    LET t == task[c] IN
    t.alone =>
      /\ t.pc = "poll" => velocity = c
      /\ t.pc \in {"release", "repair"} /\ t.arrived =>
           WorldOf(coords) = t.place /\ ~reload
      /\ t.pc = "release" /\ t.arrived => velocity = c
      /\ t.pc = "repair" /\ t.arrived => t.resumed = c
      /\ t.pc \in {"release", "repair"} /\ t.stage = "position" /\ ~t.raising =>
           t.arrived \/ t.late \/ (t.attempts = MaxWrites /\ MaxWrites <= Spent(c))

Inv ==
  /\ TypeOK
  /\ DepthCountsBlocks
  /\ SomebodyThaws
  /\ PublishedIsDenoted
  /\ TaskShape
  /\ LoneIsAlone
  /\ LoneAims
  /\ LoneLands
=============================================================================
