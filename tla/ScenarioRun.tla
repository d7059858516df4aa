----------------------------- MODULE ScenarioRun -----------------------------
(***************************************************************************)
(* Scenario runs (server/scenario_engine.py, server/scenario_routes.py,    *)
(* core/scenarios/preflight.py) and applied training profiles              *)
(* (server/profile_routes.py), which share one simulator and one failure   *)
(* scheduler.                                                              *)
(*                                                                         *)
(* A document is carried out as a plan: the sequence of awaited calls its  *)
(* blocks become.  A call first takes effect, then returns, and other      *)
(* tasks run in between; it may be refused before its effect, with one of  *)
(* the three exceptions the engine expects, or break before or after it,   *)
(* with any other.  What a call does inside is Reposition's, FailureWatch's*)
(* and NavdataIndex's subject.                                             *)
(***************************************************************************)
EXTENDS Naturals, Sequences, SequencesExt

CONSTANTS Document,     \* names of scenario documents
          Body,         \* what each declares
          Failure,      \* failure catalogue entries
          Supported,    \* the entries this simulator install resolves
          Flags,        \* capability flags the adapter declares
          Client,       \* clients that apply profiles
          None,         \* no document
          MaxStarts,    \* bound: runs and applications in a behaviour
          MaxMeddling   \* bound: disturbances and restarts in a behaviour

SetupField == {"plain", "autopilot", "fuel", "loadout"}
Declared == [weather : BOOLEAN, position : BOOLEAN, setup : SUBSET SetupField,
             immediate : Seq(Failure), armed : Seq(Failure), traffic : BOOLEAN]

ASSUME BodyAssumption == Body \in [Document -> Declared]
ASSUME NamesAssumption == None \notin Document /\ "run" \notin Client
ASSUME SupportAssumption == Supported \subseteq Failure
ASSUME BoundsAssumption == MaxStarts \in Nat /\ MaxMeddling \in Nat

VARIABLES sim,          \* what the simulator shows
          armed,        \* failures in the shared scheduler
          run,          \* _current_run
          job,          \* per executor, the task's place in its plan
          report,       \* per client, its ProfileApplyResult in the making
          alone,        \* history: nobody else has touched the simulator since
          starts, meddling

vars == <<sim, armed, run, job, report, alone, starts, meddling>>

Executor == {"run"} \cup Client
Step == {"weather", "aircraft_state", "position", "failures", "traffic"}
StepStatus == {"pending", "running", "done", "failed"}

NoJob == [doc |-> None, at |-> 0, landed |-> FALSE]
NoRun == [doc |-> None, status |-> "none", steps |-> [s \in {} |-> "pending"], errors |-> {}]
NoReport == [doc |-> None, applied |-> {}, refused |-> {}, complete |-> FALSE]

Init ==
  /\ sim = [weather |-> None, setup |-> None, place |-> None, failed |-> {}]
  /\ armed = {}
  /\ run = NoRun
  /\ job = [a \in Executor |-> NoJob]
  /\ report = [c \in Client |-> NoReport]
  /\ alone = [a \in Executor |-> FALSE]
  /\ starts = 0 /\ meddling = 0
-----------------------------------------------------------------------------
(* Documents and their plans. *)

Call(op, steps, ref) == [op |-> op, steps |-> steps, ref |-> ref]
Calls(ops, steps) == [i \in DOMAIN ops |-> Call(ops[i], steps, None)]
CallsOn(op, refs) == [i \in DOMAIN refs |-> Call(op, {"failures"}, refs[i])]

WeatherCalls(d, ops) == IF Body[d].weather THEN Calls(ops, {"weather"}) ELSE <<>>

\* The position block, with the setup; the setup on its own without one.
PlacementCalls(d) ==
  CASE Body[d].position ->
         Calls(<<"resolve_placement", "apply_setup", "set_position", "fix_all_systems",
                 "get_aircraft_state">>, {"aircraft_state", "position"})
    [] ~Body[d].position /\ Body[d].setup # {} ->
         Calls(<<"apply_setup">>, {"aircraft_state"})
    [] OTHER -> <<>>

FailureCalls(d) ==
  CallsOn("inject_failure", Body[d].immediate) \o CallsOn("arm_failure", Body[d].armed)

\* Mutant: the failures before the placement that repairs them.
ScenarioPlanFailuresFirst(d) ==
  WeatherCalls(d, <<"resolve_weather", "set_weather">>) \o FailureCalls(d)
    \o PlacementCalls(d)

ScenarioPlan(d) ==
  WeatherCalls(d, <<"resolve_weather", "set_weather">>) \o PlacementCalls(d)
    \o FailureCalls(d)

\* Mutant: the placement last.
ProfilePlanPlacementLast(d) ==
  WeatherCalls(d, <<"resolve_weather", "set_weather", "get_weather">>)
    \o FailureCalls(d) \o PlacementCalls(d)

ProfilePlan(d) ==
  PlacementCalls(d) \o WeatherCalls(d, <<"resolve_weather", "set_weather", "get_weather">>)
    \o FailureCalls(d)

\* A constant: the plans of every document, by the kind of executor.
PlanOf == [scenario |-> [d \in Document |-> ScenarioPlan(d)],
           profile |-> [d \in Document |-> ProfilePlan(d)]]
Plan(a) == IF a = "run" THEN PlanOf.scenario[job[a].doc] ELSE PlanOf.profile[job[a].doc]
Current(a) == Plan(a)[job[a].at]
InCall(a) == job[a].doc # None /\ job[a].at > 0

DeclaredSteps(d) ==
  (UNION {call.steps : call \in ToSet(ScenarioPlan(d))})
    \cup IF Body[d].traffic THEN {"traffic"} ELSE {}

\* The last call of its step, or of its failure.
ClosesStep(a) ==
  \/ job[a].at = Len(Plan(a))
  \/ Plan(a)[job[a].at + 1].steps # Current(a).steps

SetupRequirements(fields) ==
  {"can_set_aircraft_state"}
    \cup (IF "autopilot" \in fields THEN {"can_control_autopilot"} ELSE {})
    \cup (IF "fuel" \in fields THEN {"can_set_fuel_payload"} ELSE {})

MissingCapabilities(d) ==
  ((IF Body[d].weather THEN {"can_set_weather"} ELSE {})
     \cup (IF Body[d].setup # {} THEN SetupRequirements(Body[d].setup) ELSE {})
     \cup (IF Body[d].position THEN {"can_set_position", "can_set_aircraft_state"} ELSE {})
     \cup (IF FailureCalls(d) # <<>> THEN {"can_inject_failures"} ELSE {})
     \cup (IF Body[d].traffic THEN {"can_spawn_traffic"} ELSE {}))
  \ Flags
-----------------------------------------------------------------------------
(* One awaited call. *)

\* A capability refusal: CapabilityNotSupported or an HTTPException, before any effect.
Unsupported(call, d) ==
  CASE call.op = "resolve_placement" -> "can_set_position" \notin Flags
    [] call.op = "set_weather" -> "can_set_weather" \notin Flags
    [] call.op = "apply_setup" ->
         \/ Body[d].setup \cap {"fuel", "loadout"} # {} /\ "can_set_fuel_payload" \notin Flags
         \/ "position" \in call.steps /\ "can_set_aircraft_state" \notin Flags
    [] call.op \in {"inject_failure", "arm_failure"} ->
         "can_inject_failures" \notin Flags \/ call.ref \notin Supported
    [] OTHER -> FALSE

\* Navdata may lack what the document names: ValueError or an HTTPException.
MayNotResolve(call) == call.op \in {"resolve_placement", "resolve_weather"}

\* Nothing in arming reaches the simulator, so nothing in it breaks.
MayBreak(call) == call.op # "arm_failure"

SimAfter(call, d) ==
  CASE call.op = "set_weather" -> [sim EXCEPT !.weather = d]
    [] call.op = "apply_setup" -> [sim EXCEPT !.setup = d]
    [] call.op = "set_position" -> [sim EXCEPT !.place = d]
    [] call.op = "fix_all_systems" -> [sim EXCEPT !.failed = {}]
    [] call.op = "inject_failure" -> [sim EXCEPT !.failed = @ \cup {call.ref}]
    [] OTHER -> sim

CallLands(a) ==
  /\ InCall(a) /\ ~job[a].landed /\ ~Unsupported(Current(a), job[a].doc)
  /\ sim' = SimAfter(Current(a), job[a].doc)
  /\ armed' = IF Current(a).op = "arm_failure" THEN armed \cup {Current(a).ref} ELSE armed
  /\ job' = [job EXCEPT ![a].landed = TRUE]
  /\ alone' = IF <<sim', armed'>> = <<sim, armed>> THEN alone
              ELSE [b \in Executor |-> alone[b] /\ b = a]
  /\ UNCHANGED <<run, report, starts, meddling>>

Refused(a) ==
  /\ InCall(a) /\ ~job[a].landed
  /\ Unsupported(Current(a), job[a].doc) \/ MayNotResolve(Current(a))

Broken(a) == InCall(a) /\ MayBreak(Current(a))

NextCall(a, i) == [job EXCEPT ![a] = [doc |-> job[a].doc, at |-> i, landed |-> FALSE]]
-----------------------------------------------------------------------------
(* The scenario engine: POST /run and its background task _execute. *)

Marked(steps, those, status) ==
  [s \in DOMAIN steps |-> IF s \in those THEN status ELSE steps[s]]

\* Mutant: a second run takes the place of the one in progress.
StartRunAnyway(d) ==
  /\ starts < MaxStarts
  /\ MissingCapabilities(d) = {}
  /\ run' = [doc |-> d, status |-> "running", errors |-> {},
             steps |-> [s \in DeclaredSteps(d) |-> "pending"]]
  /\ job' = [job EXCEPT !["run"] = [doc |-> d, at |-> 0, landed |-> FALSE]]
  /\ alone' = [alone EXCEPT !["run"] = TRUE]
  /\ starts' = starts + 1
  /\ UNCHANGED <<sim, armed, report, meddling>>

StartRun(d) ==
  /\ starts < MaxStarts
  /\ MissingCapabilities(d) = {}
  /\ run.status # "running"
  /\ run' = [doc |-> d, status |-> "running", errors |-> {},
             steps |-> [s \in DeclaredSteps(d) |-> "pending"]]
  /\ job' = [job EXCEPT !["run"] = [doc |-> d, at |-> 0, landed |-> FALSE]]
  /\ alone' = [alone EXCEPT !["run"] = TRUE]
  /\ starts' = starts + 1
  /\ UNCHANGED <<sim, armed, report, meddling>>

\* Mutant: completed as soon as the last call has begun.
RunGoesOnEarly(steps, i) ==
  IF i > Len(Plan("run"))
  THEN /\ run' = [run EXCEPT !.status = "completed",
                             !.steps = Marked(steps, {"traffic"}, "done")]
       /\ job' = [job EXCEPT !["run"] = NoJob]
  ELSE /\ run' = [run EXCEPT !.steps = Marked(steps, Plan("run")[i].steps, "running"),
                             !.status = IF i = Len(Plan("run")) THEN "completed" ELSE @]
       /\ job' = NextCall("run", i)

\* On to the call at i; past the last one the traffic step, a no-op, completes the run.
RunGoesOn(steps, i) ==
  IF i > Len(Plan("run"))
  THEN /\ run' = [run EXCEPT !.status = "completed",
                             !.steps = Marked(steps, {"traffic"}, "done")]
       /\ job' = [job EXCEPT !["run"] = NoJob]
  ELSE /\ run' = [run EXCEPT !.steps = Marked(steps, Plan("run")[i].steps, "running")]
       /\ job' = NextCall("run", i)

RunBegins ==
  /\ job["run"].doc # None /\ job["run"].at = 0
  /\ RunGoesOn(run.steps, 1)
  /\ UNCHANGED <<sim, armed, report, alone, starts, meddling>>

RunCallReturns ==
  /\ InCall("run") /\ job["run"].landed
  /\ RunGoesOn(IF ClosesStep("run") THEN Marked(run.steps, Current("run").steps, "done")
               ELSE run.steps,
               job["run"].at + 1)
  /\ UNCHANGED <<sim, armed, report, alone, starts, meddling>>

\* Mutant: a setup without a position fails the position step too.
RunCallRefusedBoth ==
  /\ Refused("run")
  /\ run' = [run EXCEPT !.status = "failed",
                        !.steps = Marked(@, Current("run").steps, "failed"),
                        !.errors = IF "aircraft_state" \in Current("run").steps
                                   THEN {"aircraft_state", "position"}
                                   ELSE Current("run").steps]
  /\ job' = [job EXCEPT !["run"] = NoJob]
  /\ UNCHANGED <<sim, armed, report, alone, starts, meddling>>

\* Mutant: a refused call is noted and the plan goes on.
RunCallRefusedGoesOn ==
  /\ Refused("run")
  /\ RunGoesOn(Marked(run.steps, Current("run").steps, "failed"), job["run"].at + 1)
  /\ UNCHANGED <<sim, armed, report, alone, starts, meddling>>

\* CapabilityNotSupported, HTTPException, ValueError: _fail_step, then _StepFailure.
RunCallRefused ==
  /\ Refused("run")
  /\ run' = [run EXCEPT !.status = "failed",
                        !.steps = Marked(@, Current("run").steps, "failed"),
                        !.errors = Current("run").steps]
  /\ job' = [job EXCEPT !["run"] = NoJob]
  /\ UNCHANGED <<sim, armed, report, alone, starts, meddling>>

\* Mutant: only the expected exceptions are caught.
RunCallBreaksUncaught ==
  /\ Broken("run")
  /\ job' = [job EXCEPT !["run"] = NoJob]
  /\ UNCHANGED <<sim, armed, run, report, alone, starts, meddling>>

\* Any other exception reaches _execute itself.
RunCallBreaks ==
  /\ Broken("run")
  /\ run' = [run EXCEPT !.status = "failed"]
  /\ job' = [job EXCEPT !["run"] = NoJob]
  /\ UNCHANGED <<sim, armed, report, alone, starts, meddling>>
-----------------------------------------------------------------------------
(* apply_profile: each component is attempted, whatever became of the others. *)

\* A component: the position, the weather, or one failure.
Item(plan, i) == IF plan[i].steps = {"failures"} THEN <<"failures", i>>
                 ELSE IF plan[i].steps = {"weather"} THEN <<"weather", 0>>
                 ELSE <<"position", 0>>
Items(d) == {Item(PlanOf.profile[d], i) : i \in DOMAIN PlanOf.profile[d]}
ItemOf(c) == Item(Plan(c), job[c].at)
NextItem(c) ==
  CHOOSE i \in job[c].at + 1 .. Len(Plan(c)) + 1 :
    /\ i > Len(Plan(c)) \/ Item(Plan(c), i) # ItemOf(c)
    /\ \A j \in job[c].at + 1 .. i - 1 : Item(Plan(c), j) = ItemOf(c)

ApplyProfile(c, d) ==
  /\ starts < MaxStarts
  /\ job[c].doc = None /\ PlanOf.profile[d] # <<>>
  /\ job' = [job EXCEPT ![c] = [doc |-> d, at |-> 1, landed |-> FALSE]]
  /\ report' = [report EXCEPT ![c] = [NoReport EXCEPT !.doc = d]]
  /\ alone' = [alone EXCEPT ![c] = TRUE]
  /\ starts' = starts + 1
  /\ UNCHANGED <<sim, armed, run, meddling>>

\* The next call of the plan, or the answer to the client.
ProfileGoesOn(c, i, r) ==
  IF i > Len(Plan(c))
  THEN /\ report' = [report EXCEPT ![c] = [r EXCEPT !.complete = TRUE]]
       /\ job' = [job EXCEPT ![c] = NoJob]
  ELSE /\ report' = [report EXCEPT ![c] = r]
       /\ job' = NextCall(c, i)

ProfileCallReturns(c) ==
  /\ InCall(c) /\ job[c].landed
  /\ ProfileGoesOn(c, job[c].at + 1,
       IF NextItem(c) = job[c].at + 1
       THEN [report[c] EXCEPT !.applied = @ \cup {ItemOf(c)}] ELSE report[c])
  /\ UNCHANGED <<sim, armed, run, alone, starts, meddling>>

\* Mutant: the first component that fails ends the application.
ProfileCallFailsAtOnce(c) ==
  /\ Refused(c) \/ Broken(c)
  /\ ProfileGoesOn(c, Len(Plan(c)) + 1, [report[c] EXCEPT !.refused = @ \cup {ItemOf(c)}])
  /\ UNCHANGED <<sim, armed, run, alone, starts, meddling>>

\* Whatever was raised becomes the component's outcome.
ProfileCallFails(c) ==
  /\ Refused(c) \/ Broken(c)
  /\ ProfileGoesOn(c, NextItem(c), [report[c] EXCEPT !.refused = @ \cup {ItemOf(c)}])
  /\ UNCHANGED <<sim, armed, run, alone, starts, meddling>>
-----------------------------------------------------------------------------
(* The others. *)

\* The watcher fires an armed failure (FailureWatch).
Fire ==
  /\ \E f \in armed : armed' = armed \ {f} /\ sim' = [sim EXCEPT !.failed = @ \cup {f}]
  /\ UNCHANGED <<run, job, report, alone, starts, meddling>>

\* Another request of an instructor: a placement, a weather change, or clear-all.
Meddle ==
  /\ meddling < MaxMeddling /\ meddling' = meddling + 1
  /\ \/ sim' = [sim EXCEPT !.setup = None, !.place = None, !.failed = {}] /\ UNCHANGED armed
     \/ sim' = [sim EXCEPT !.weather = None] /\ UNCHANGED armed
     \/ sim' = [sim EXCEPT !.failed = {}] /\ armed' = {}
  /\ alone' = [a \in Executor |-> FALSE]
  /\ UNCHANGED <<run, job, report, starts>>

\* The server is restarted: its tasks and module state are gone, the simulator is not.
Restart ==
  /\ meddling < MaxMeddling /\ meddling' = meddling + 1
  /\ armed' = {} /\ run' = NoRun
  /\ job' = [a \in Executor |-> NoJob]
  /\ report' = [c \in Client |-> NoReport]
  /\ alone' = [a \in Executor |-> FALSE]
  /\ UNCHANGED <<sim, starts>>

RunMoves == RunBegins \/ CallLands("run") \/ RunCallReturns \/ RunCallRefused \/ RunCallBreaks
ProfileMoves(c) == CallLands(c) \/ ProfileCallReturns(c) \/ ProfileCallFails(c)

Next ==
  \/ \E d \in Document : StartRun(d)
  \/ RunBegins
  \/ RunCallReturns
  \/ RunCallRefused
  \/ RunCallBreaks
  \/ \E a \in Executor : CallLands(a)
  \/ \E c \in Client, d \in Document : ApplyProfile(c, d)
  \/ \E c \in Client : ProfileCallReturns(c)
  \/ \E c \in Client : ProfileCallFails(c)
  \/ Fire
  \/ Meddle
  \/ Restart

\* asyncio resumes every task whose call has been answered, and every call to the
\* simulator is answered or times out.
Fairness == WF_vars(RunMoves) /\ \A c \in Client : WF_vars(ProfileMoves(c))

Spec == Init /\ [][Next]_vars /\ Fairness
-----------------------------------------------------------------------------
TypeOK ==
  /\ sim \in [weather : Document \cup {None}, setup : Document \cup {None},
              place : Document \cup {None}, failed : SUBSET Failure]
  /\ armed \subseteq Failure
  /\ run.doc \in Document \cup {None}
  /\ run.status \in {"none", "running", "completed", "failed"}
  /\ DOMAIN run.steps \subseteq Step /\ ToSet(run.steps) \subseteq StepStatus
  /\ run.errors \subseteq DOMAIN run.steps
  /\ \A a \in Executor : job[a].doc # None => job[a].at \in 0 .. Len(Plan(a))

\* The simulator shows every block of document d.
Shown(d) ==
  /\ Body[d].weather => sim.weather = d
  /\ Body[d].position => sim.place = d
  /\ Body[d].position \/ Body[d].setup # {} => sim.setup = d
  /\ ToSet(Body[d].immediate) \subseteq sim.failed
  /\ ToSet(Body[d].armed) \subseteq armed \cup sim.failed

\* A run is reported completed only once the simulator shows everything its document
\* declares, unless somebody else has acted since it began: in particular the placement,
\* which repairs every failure, never undoes what the run itself injected.
CompletedMeansShown == run.status = "completed" /\ alone["run"] => Shown(run.doc)

\* What a profile's report calls applied is what the simulator shows, unless somebody
\* else has acted since: the components do not undo each other.
AppliedIsShown ==
  \A c \in Client : report[c].complete /\ alone[c] =>
    LET d == report[c].doc
        plan == PlanOf.profile[d] IN
    /\ <<"weather", 0>> \in report[c].applied => sim.weather = d
    /\ <<"position", 0>> \in report[c].applied =>
         sim.setup = d /\ (Body[d].position => sim.place = d)
    /\ \A i \in DOMAIN plan :
         <<"failures", i>> \in report[c].applied => plan[i].ref \in sim.failed \cup armed

\* An answered application has attempted every component of the profile and calls each
\* of them applied or not applied, never both (D8).
EverythingAttempted ==
  \A c \in Client : report[c].complete =>
    /\ report[c].applied \cup report[c].refused = Items(report[c].doc)
    /\ report[c].applied \cap report[c].refused = {}

\* The polled status never shows a step begun before the ones ahead of it are done: the
\* first step that fails, however it fails, leaves the later ones pending.
StopsAtFirstFailure ==
  LET plan == PlanOf.scenario[run.doc] IN
  run.doc # None =>
    \A i, j \in DOMAIN plan :
      i < j /\ plan[i].steps # plan[j].steps =>
        \A s \in plan[i].steps, t \in plan[j].steps :
          run.steps[t] # "pending" => run.steps[s] = "done"

\* The status says running exactly while a task is carrying the run out; with a task gone
\* and the status left, every further start would answer 409.
RunningIffTask == run.status = "running" <=> job["run"].doc # None

\* What is reported as done is what the simulator shows: the components a profile's report
\* calls applied, all of them attempted, and every step of a completed run
\* (server/profile_routes.py, D8; core/scenario_engine.py, the run's steps).
ReportIsTrue == AppliedIsShown /\ EverythingAttempted /\ CompletedMeansShown

\* What a poll shows of a run is how far its task has come (server/scenario_engine.py).
StatusFollowsTask == StopsAtFirstFailure /\ RunningIffTask

\* A run in progress is never replaced by another one, and what it has done stays done;
\* only a restart of the server forgets it.
RunIsNotReplaced ==
  [][run.status = "running" /\ run'.doc # None =>
       /\ run'.doc = run.doc
       /\ \A s \in DOMAIN run.steps : run.steps[s] = "done" => run'.steps[s] = "done"]_vars

\* Every run ends, whatever its calls do, and the next one can be started.
EveryRunFinishes == run.status = "running" ~> run.status # "running"
-----------------------------------------------------------------------------
(* The inductive invariant (ScenarioRunProofs). *)

ItemName == {"position", "weather", "failures"} \X Nat
Progress == UNION {[steps -> StepStatus] : steps \in SUBSET Step}

Job == [doc : Document \cup {None}, at : Nat, landed : BOOLEAN]
Run == [doc : Document \cup {None}, status : {"none", "running", "completed", "failed"},
        steps : Progress, errors : SUBSET Step]
Report == [doc : Document \cup {None}, applied : SUBSET ItemName, refused : SUBSET ItemName,
           complete : BOOLEAN]

Fields == /\ job \in [Executor -> Job] /\ alone \in [Executor -> BOOLEAN]
          /\ run \in Run /\ report \in [Client -> Report]

\* How far the step of call i has come when the task is at a call.
StatusAt(plan, i, at) ==
  IF at > 0 /\ plan[i].steps = plan[at].steps THEN "running"
  ELSE IF i < at THEN "done" ELSE "pending"

\* The status of a run is that of its task, step by step.
RunFollows ==
  /\ RunningIffTask
  /\ run.status = "none" <=> run.doc = None
  /\ run.doc # None => DOMAIN run.steps = DeclaredSteps(run.doc)
  /\ job["run"].doc # None =>
       /\ run.doc = job["run"].doc
       /\ \A i \in DOMAIN Plan("run") : \A s \in Plan("run")[i].steps :
            run.steps[s] = StatusAt(Plan("run"), i, job["run"].at)

\* A report under way is about the components before the one being attempted.
ReportFollows ==
  \A c \in Client :
    /\ job[c].doc # None =>
         /\ job[c].at > 0 /\ report[c].doc = job[c].doc /\ ~report[c].complete
         /\ report[c].applied \cup report[c].refused =
              {Item(Plan(c), i) : i \in 1 .. job[c].at - 1} \ {ItemOf(c)}
         /\ report[c].applied \cap report[c].refused = {}
    /\ report[c].complete => report[c].doc # None

\* What a call that took effect leaves in the simulator or with the scheduler.
Effect(call, d) ==
  /\ call.op = "set_weather" => sim.weather = d
  /\ call.op = "apply_setup" => sim.setup = d
  /\ call.op = "set_position" => sim.place = d
  /\ call.op = "inject_failure" => call.ref \in sim.failed
  /\ call.op = "arm_failure" => call.ref \in armed \cup sim.failed

\* Call i has been made: all before the present one by a run; by a profile those of
\* applied components, and those of the present component.
Took(a, i) ==
  \/ i = job[a].at /\ job[a].landed
  \/ /\ i < job[a].at
     /\ a # "run" => Item(Plan(a), i) \in report[a].applied \cup {ItemOf(a)}

EffectsStay ==
  /\ \A a \in Executor : job[a].doc # None /\ alone[a] =>
       \A i \in DOMAIN Plan(a) : Took(a, i) => Effect(Plan(a)[i], job[a].doc)
  /\ \A c \in Client : report[c].complete /\ alone[c] =>
       LET d == report[c].doc
           plan == PlanOf.profile[d] IN
       \A i \in DOMAIN plan : Item(plan, i) \in report[c].applied => Effect(plan[i], d)
  /\ CompletedMeansShown

Inv == /\ TypeOK /\ Fields /\ RunFollows /\ StopsAtFirstFailure
       /\ ReportFollows /\ EverythingAttempted /\ EffectsStay
=============================================================================
