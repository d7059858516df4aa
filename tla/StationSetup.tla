------------------------------ MODULE StationSetup ------------------------------
(***************************************************************************)
(* The instructor's requests about the aircraft and its weather: the       *)
(* previews, which only answer, and the requests that write to the         *)
(* simulator, one dataref at a time, interleaved with each other           *)
(* (position_routes, weather_routes, fuel_payload_routes, system_routes    *)
(* over the X-Plane adapter).                                              *)
(***************************************************************************)
EXTENDS SimWrites, ProcedureLayout

CONSTANTS
    Clients,    \* whoever posts requests that write
    Setups,     \* the requests they post
    Previews,   \* the questions that only want an answer
    Starts,     \* the installations: the simulator and what the station knows of it
    FirstSim,   \* the datarefs' values as the station starts
    MaxAsk,     \* bound on the requests posted
    MaxFaults   \* bound on the requests to the simulator that fail

\* The datarefs the adapter uses exist, and hold values of their kind.
ASSUME SimAssumption ==
    /\ Datarefs \subseteq DOMAIN FirstSim
    /\ FirstSim[<<"mode", 0>>] \in {Off, Director, Servos}
    /\ \A i \in 1 .. WindLevels : FirstSim[<<"wind", i>>].altitude \in Int
    /\ 1 .. FirstSim[<<"tanks", 0>>] \subseteq Slots
    /\ MaxAsk \in Nat /\ MaxFaults \in Nat

\* What the types of the requests' fields admit (core/models.py, and the models
\* of the routes).
SetupTyped(stated) ==
    /\ \A flag \in {"director", "master", "approach_mode"} \cap DOMAIN stated : stated[flag] \in BOOLEAN
    /\ States(stated, "heading") => stated.heading \in Int
    /\ States(stated, "lights") => DOMAIN stated.lights \subseteq Switches
PlacementTyped(request) ==
    \/ request.type \in {"runway_threshold", "parking", "procedure_leg", "hold"}
    \/ request.type = "runway" /\ request.placement \in RunwayPlacements
    \/ request.type \in {"coordinate", "waypoint"} /\ request.heading \subseteq Int
WeatherTyped(request) ==
    /\ request.preset = {} => request.setup # {}
    /\ request.preset \subseteq DOMAIN WeatherPresets
    /\ \A a, b \in request.airport : a = b
    /\ \A stated \in request.setup :
          /\ DOMAIN stated \subseteq WeatherFields /\ ValidWeather(stated)
          /\ States(stated, "wind") =>
                stated.wind \in Seq([altitude : Int, direction : Int, speed : Int, gust : Int,
                                     turbulence : Int])
          /\ States(stated, "cloud") =>
                stated.cloud \in Seq([base : Int, tops : Int, coverage : Int, kind : STRING])
          /\ \A f \in {"temperature", "dewpoint"} : States(stated, f) => stated[f] \in Int
          /\ States(stated, "contamination") => stated.contamination \in DOMAIN Frictions
ASSUME SetupsAssumption ==
    \A s \in Setups :
        \/ s.op = "place" /\ PlacementTyped(s.request.placement) /\ SetupTyped(s.request.edits)
        \/ s.op = "weather" /\ WeatherTyped(s.request)
        \/ s.op = "fuel"
        \/ s.op = "setup" /\ SetupTyped(s.request)
ASSUME PreviewsAssumption == \A q \in Previews : q.op = "weather" => WeatherTyped(q.request)

VARIABLES
    station,    \* navdata, airframe, exposed, obeys: fixed while it runs
    sim,        \* the datarefs
    todo,       \* todo[c]: the steps left of c's request
    ask,        \* ask[c]: its request, {} when it has posted none
    reply,      \* reply[c]: its answer, {} while it waits
    setup,      \* setup[c]: what its answer says was applied
    wrote,      \* wrote[c]: the datarefs its request has written
    alone,      \* alone[c]: no other request has run since it was posted
    late,       \* late[c]: it stopped waiting for its clouds
    asked, faults,
    answer      \* the preview on the screen, {} when there is none

vars == <<station, sim, todo, ask, reply, setup, wrote, alone, late, asked, faults, answer>>

Busy(c) == ask[c] # {} /\ reply[c] = {}

Init ==
    /\ station \in Starts
    /\ sim = [FirstSim EXCEPT ![<<"source", 0>>] = station.source]
    /\ todo = [c \in Clients |-> <<>>]
    /\ ask = [c \in Clients |-> {}]
    /\ reply = [c \in Clients |-> {}]
    /\ setup = [c \in Clients |-> <<>>]
    /\ wrote = [c \in Clients |-> {}]
    /\ alone = [c \in Clients |-> FALSE]
    /\ late = [c \in Clients |-> FALSE]
    /\ asked = 0 /\ faults = 0
    /\ answer = {}

-----------------------------------------------------------------------------
(* Previews                                                                *)

AnswerTo(q) ==
    CASE q.op = "place"   -> Resolve(q.request, station.navdata, station.airframe.stalling)
      [] q.op = "file"    -> ParseFile(q.file)
      [] q.op = "layout"  -> Layout(q.procedure, q.airport, q.runway)
      [] q.op = "weather" -> ResolveWeather(q.request, station.navdata)
      [] q.op = "fuel"    -> ResolveFuel(q.request, ReadLoadout(sim), station.airframe)

\* Nothing of the simulator changes.
Preview(q) ==
    /\ asked = 0 /\ answer = {}
    /\ answer' = {[question |-> q, answer |-> AnswerTo(q)]}
    /\ UNCHANGED <<station, sim, todo, ask, reply, setup, wrote, alone, late, asked, faults>>

Forget ==
    /\ answer # {}
    /\ answer' = {}
    /\ UNCHANGED <<station, sim, todo, ask, reply, setup, wrote, alone, late, asked, faults>>

-----------------------------------------------------------------------------
(* A request that writes: resolved as it arrives, then step by step        *)

\* A 502, or an error nobody handles, and where it came from.
Rejected(status, why) == [status |-> status, why |-> why]

Plan(applied, steps) == [status |-> 200, applied |-> applied, steps |-> steps]

\* The setup of the placement with the edits over it, and the placement moved to
\* where they say.
PlanPlaced(placement, edits) ==
    With(MergeSetup(ToSetup(placement), edits), LAMBDA merged :
        Plan(merged, SetupSteps(merged) \o TeleportSteps(PlacedAsEdited(placement, merged), merged)))

PlanPlacement(request) ==
    With(Resolve(request.placement, station.navdata, station.airframe.stalling), LAMBDA resolved :
        IF Refused(resolved) THEN resolved ELSE PlanPlaced(resolved.placement, request.edits))

PlanWeather(request) ==
    LET resolved == ResolveWeather(request, station.navdata) IN
    CASE Refused(resolved) -> resolved
      [] ~Refused(resolved) /\ ~Exposed(station.exposed, resolved.setup) -> Rejected(502, "not_exposed")
      [] OTHER -> Plan(resolved.setup, WeatherSteps(resolved.setup))

PlanFuel(request) ==
    LET resolved == ResolveFuel(request, ReadLoadout(sim), station.airframe) IN
    CASE Refused(resolved) -> resolved
      [] OutsideRefused(request, resolved) -> Refusal(422)
      [] OTHER -> Plan([loadout |-> resolved.loadout], SetupSteps([loadout |-> resolved.loadout]))

PlanOf(s) ==
    CASE s.op = "place"   -> PlanPlacement(s.request)
      [] s.op = "weather" -> PlanWeather(s.request)
      [] s.op = "fuel"    -> PlanFuel(s.request)
      [] s.op = "setup"   -> Plan(s.request, SetupSteps(s.request))

Posted(c, s, plan) ==
    /\ ask' = [ask EXCEPT ![c] = {s}]
    /\ asked' = asked + 1
    /\ todo' = [todo EXCEPT ![c] = IF Refused(plan) THEN <<>> ELSE plan.steps]
    /\ reply' = [reply EXCEPT ![c] = IF Refused(plan) THEN {plan} ELSE {}]
    /\ setup' = [setup EXCEPT ![c] = IF Refused(plan) THEN <<>> ELSE plan.applied]
    /\ wrote' = [wrote EXCEPT ![c] = {}]
    /\ alone' = [other \in Clients |-> other = c /\ \A b \in Clients : ~Busy(b)]
    /\ late' = [late EXCEPT ![c] = FALSE]
    /\ UNCHANGED <<station, sim, faults, answer>>

Ask(c, s) ==
    /\ answer = {} /\ ~Busy(c) /\ asked < MaxAsk
    /\ \E plan \in {PlanOf(s)} : Posted(c, s, plan)

\* What a step that reads becomes.
Expand(step) ==
    CASE step.do = "masses" ->
           MassWrites(step, IF step.name = "tank" THEN sim[<<"tanks", 0>>] ELSE Cardinality(Slots))
      [] step.do = "mode" ->
           << Write("mode", AutopilotMode(sim[<<"mode", 0>>], step.director, step.master)) >>
      [] step.do = "fly"      -> FlightModelWrites(sim, step.setup)
      [] step.do = "teleport" -> TeleportWrites(sim, step)
      [] step.do = "velocity" -> VelocityWrites(sim, step)
      [] step.do = "manual"   ->
           IF sim[<<"source", 0>>] = 0 THEN <<>>
           ELSE << Write("update", 1), Write("change", 3), [do |-> "check"] >>
      [] step.do = "ladder"   -> LadderWrites(WindAltitudes(sim), step.temperature)
      [] step.do = "dewpoints" ->
           << [do |-> "below", altitudes |-> WindAltitudes(sim), dewpoint |-> step.dewpoint] >>
      [] step.do = "below"    ->
           DewpointWrites(step.altitudes, step.dewpoint, sim[<<"temperature", 0>>])

Waiting(c, do) == todo[c] # <<>> /\ Head(todo[c]).do = do

\* Turning to static weather makes the simulator give up its own, if it obeys.
SimAfter(step) ==
    LET written == [sim EXCEPT ![step.ref] = step.value] IN
    IF step.ref = <<"change", 0>> /\ step.value = 3 /\ station.obeys
    THEN [written EXCEPT ![<<"source", 0>>] = 0] ELSE written

WriteOne(c) ==
    /\ Waiting(c, "write")
    /\ sim' = SimAfter(Head(todo[c]))
    /\ todo' = [todo EXCEPT ![c] = Tail(@)]
    /\ wrote' = [wrote EXCEPT ![c] = @ \cup {Head(todo[c]).ref}]
    /\ UNCHANGED <<station, ask, reply, setup, alone, late, asked, faults, answer>>

ReadSome(c) ==
    /\ todo[c] # <<>> /\ Head(todo[c]).do \notin {"write", "settle", "check"}
    /\ todo' = [todo EXCEPT ![c] = Expand(Head(@)) \o Tail(@)]
    /\ UNCHANGED <<station, sim, ask, reply, setup, wrote, alone, late, asked, faults, answer>>

\* The simulator shows the clouds it was given when it next turns to them.
ShowClouds ==
    /\ \E i \in 1 .. CloudSlots : sim[<<"sky", i>>] # sim[<<"cloud", i>>]
    /\ sim' = [ref \in DOMAIN sim |-> IF ref[1] = "sky" THEN sim[<<"cloud", ref[2]>>] ELSE sim[ref]]
    /\ UNCHANGED <<station, todo, ask, reply, setup, wrote, alone, late, asked, faults, answer>>

\* Waited for until they show, or for as long as it waits at all.
Settle(c) ==
    /\ Waiting(c, "settle")
    /\ late' = [late EXCEPT ![c] = @ \/ ~Settled(sim, Head(todo[c]).layers)]
    /\ todo' = [todo EXCEPT ![c] = Tail(@)]
    /\ UNCHANGED <<station, sim, ask, reply, setup, wrote, alone, asked, faults, answer>>

Conclude(c, answered) ==
    /\ reply' = [reply EXCEPT ![c] = {answered}]
    /\ todo' = [todo EXCEPT ![c] = <<>>]

Check(c) ==
    /\ Waiting(c, "check")
    /\ IF sim[<<"source", 0>>] = 0 THEN todo' = [todo EXCEPT ![c] = Tail(@)] /\ UNCHANGED reply
       ELSE Conclude(c, Rejected(502, "not_manual"))
    /\ UNCHANGED <<station, sim, ask, setup, wrote, alone, late, asked, faults, answer>>

\* Any request to the simulator may fail, and what was written stays written.
Fail(c) ==
    /\ todo[c] # <<>> /\ faults < MaxFaults
    /\ faults' = faults + 1
    /\ Conclude(c, Rejected(500, "failed"))
    /\ UNCHANGED <<station, sim, ask, setup, wrote, alone, late, asked, answer>>

\* The answer reports what it reads back; a reading that is no valid weather, or
\* a slot without an arm, is an error of its own.
ReadBack(s) ==
    LET loadout == ReadLoadout(sim)
        limits  == ResolveMassLimits(station.airframe)
    IN CASE s.op = "weather" ->
              IF ~(WeatherFields \subseteq station.exposed) THEN Rejected(502, "not_readable")
              ELSE IF ~ValidWeather(ReadWeather(sim)) THEN Rejected(500, "failed")
              ELSE [status |-> 200, state |-> ReadWeather(sim)]
         [] s.op = "fuel" ->
              IF limits # {} /\ ~HasArms(loadout, The(limits).of) THEN Rejected(500, "failed")
              ELSE [status |-> 200, state |-> loadout,
                    balance |-> ComputeMassAndBalance(loadout, limits)]
         [] OTHER -> [status |-> 200]

Finish(c) ==
    /\ Busy(c) /\ todo[c] = <<>>
    /\ Conclude(c, ReadBack(The(ask[c])))
    /\ UNCHANGED <<station, sim, ask, setup, wrote, alone, late, asked, faults, answer>>

Next ==
    \/ \E q \in Previews : Preview(q)
    \/ Forget
    \/ \E c \in Clients, s \in Setups : Ask(c, s)
    \/ \E c \in Clients : \/ WriteOne(c) \/ ReadSome(c) \/ Settle(c) \/ Check(c)
                          \/ Fail(c) \/ Finish(c)
    \/ ShowClouds

Spec == Init /\ [][Next]_vars

-----------------------------------------------------------------------------
(* Properties of the answers                                               *)

Answered(op) == {a \in answer : a.question.op = op}

NextLeg == [upwind |-> "crosswind", crosswind |-> "downwind", downwind |-> "base"]
SideOf(placement) == IF PatternPlacements[placement][2] = "left" THEN -1 ELSE 1

\* Ahead of each leg is the next one, a right angle towards the circuit's side,
\* and after the base leg the runway; the other circuit is its mirror image.
CircuitCloses(runway, request, placed) ==
    LET leg  == PatternPlacements[request.placement][1]
        side == SideOf(request.placement)
        To(name) == CHOOSE p \in DOMAIN PatternPlacements :
                        PatternPlacements[p] = <<name, PatternPlacements[request.placement][2]>>
        mirror == CHOOSE p \in DOMAIN PatternPlacements :
                      PatternPlacements[p][1] = leg /\ p # request.placement
        other == RunwayPlacement(runway, [request EXCEPT !.placement = mirror], "B")
        next  == IF leg = "base" THEN [position |-> runway.threshold, heading |-> Fold(runway.axis)]
                 ELSE RunwayPlacement(runway, [request EXCEPT !.placement = To(NextLeg[leg])], "B")
        axis == runway.axis
    IN /\ next.heading = Fold(placed.heading + 90 * side)
       /\ Along(placed.position, placed.heading, next.position) >= 0
       /\ Along(runway.threshold, axis, other.position) = Along(runway.threshold, axis, placed.position)
       /\ Across(runway.threshold, axis, other.position) = -Across(runway.threshold, axis, placed.position)
       /\ side * Across(runway.threshold, axis, placed.position) >= 0

\* On the extended centreline, and the descent it is set up for, held at its
\* speed, meets the threshold's elevation at the threshold.
FinalMeetsThreshold(runway, placed) ==
    LET out  == -Along(runway.threshold, runway.axis, placed.position)
        down == ToSetup(placed).vertical
        above == placed.position.altitude - runway.elevation
    IN /\ out > 0 /\ Across(runway.threshold, runway.axis, placed.position) = 0
       /\ Along(placed.position, placed.heading, runway.threshold) = out
       /\ placed.ias > 0 => Abs(30 * out * down + above * placed.ias) <= 30 * out * placed.ias

\* The four points of a hold: inbound leads to the fix, outbound runs beside it
\* on the side of the turns, as far back as the inbound leg.
RacetrackCloses(hold, altitude, ias) ==
    LET At(p) == HoldPlacementAt(hold, p, Else(HoldVariation(hold), 0), altitude, {ias}, "B")
        inbound == At("hold_inbound")  outbound == At("hold_outbound")  end == At("hold_outbound_end")
        axis == inbound.heading
        side == IF hold.turn = "R" THEN 1 ELSE -1
    IN /\ At("hold_fix").position = AtAltitude(hold.at, altitude)
       /\ Along(inbound.position, axis, hold.at) >= 0 /\ Across(inbound.position, axis, hold.at) = 0
       /\ outbound.heading = Fold(axis + 180) /\ end.heading = outbound.heading
       /\ Along(outbound.position, outbound.heading, end.position)
            = Along(inbound.position, axis, hold.at)
       /\ side * Across(hold.at, axis, outbound.position) > 0
       /\ Across(hold.at, axis, end.position) = Across(hold.at, axis, outbound.position)

\* Every number is credited to what decided it.
CreditIsTrue(request, given) ==
    LET ias == given.placement.ias  note == given.speed IN
    /\ request.ias # {} /\ ias # 0 => ias \in request.ias /\ note.how = "requested"
    /\ note.how = "falls" => ias = 0
    /\ given.placement.profile # "ground" /\ ias = 0 => note.how = "falls"
    /\ note.how \in {"restriction", "minimum"} => note.bound = {ias}
    /\ note.how = "unattributed" => request.type = "coordinate"

LinesOf(file, key) ==
    SelectSeq(file, LAMBDA line : line.type \in DOMAIN RecordKinds /\ ReadableLeg(line)
                                  /\ KeyOf(line) = key)

\* Where a line's fix is, from the file and the index.
PlaceOf(file, line) ==
    LET own == {i \in DOMAIN file : file[i].type = "RWY" /\ file[i].located
                                    /\ \E ref \in line.ref : ref.own /\ ref.runway = file[i].ident}
    IN IF own # {} THEN {file[CHOOSE i \in own : \A j \in own : j <= i].at}
       ELSE {Index[ref.name] : ref \in {ref \in line.ref : ref.name \in DOMAIN Index}}

\* The leg's own fix, facing the next line of the procedure that has one, or as
\* it is reached from the one before.
LegIsWhereItsFixIs(request, placed) ==
    LET file == request.file
        key(t) == [kind |-> request.kind, ident |-> request.ident, transition |-> t]
        lines == SelectSeq(LinesOf(file, key(Else(request.transition, AllRunways))),
                           LAMBDA l : l.terminator \in PositionableTerminators /\ PlaceOf(file, l) # {})
        i == SelectInSeq(lines, LAMBDA l : l.sequence = request.sequence)
        Place(j) == The(PlaceOf(file, lines[j]))
    IN /\ i # 0
       /\ placed.position.x = Place(i).x /\ placed.position.y = Place(i).y
       /\ i < Len(lines) => placed.heading = BearingOf(Place(i), Place(i + 1))
       /\ i = Len(lines) /\ i > 1 => placed.heading = BearingOf(Place(i - 1), Place(i))

\* A placement is where its request says: a circuit can be flown round, a final
\* ends on the threshold, a racetrack closes, a leg is at its fix; and the reason
\* given for its speed is the one that decided it (core/geodesy.py,
\* position_routes.py).
PlacementsAreSound ==
    \A a \in Answered("place") :
        LET request == a.question.request  placed == a.answer.placement IN
        ~Refused(a.answer) =>
          /\ request.type = "runway" /\ request.placement \in DOMAIN PatternPlacements =>
               CircuitCloses(The(GetRunway(request.runway)), request, placed)
          /\ request.type = "runway" /\ request.placement \in DOMAIN FinalDistances =>
               FinalMeetsThreshold(The(GetRunway(request.runway)), placed)
          /\ request.type = "hold" /\ placed.ias > 0 =>
               RacetrackCloses(The(GetHold(request.ident)), placed.position.altitude, placed.ias)
          /\ request.type = "procedure_leg" => LegIsWhereItsFixIs(request, placed)
          /\ "ias" \in DOMAIN request => CreditIsTrue(request, a.answer)

KeysIn(file) == {KeyOf(file[i]) : i \in {i \in DOMAIN file : file[i].type \in DOMAIN RecordKinds
                                                             /\ ReadableLeg(file[i])}}

\* One procedure for each name, kind and transition the lines use, and its legs
\* are those lines, in their order, whatever lies between them.
LegsAreTheLines(file, read) ==
    LET LegsOf(key) == LinesOf(file, key)
        SameLegs(p, key) ==
            /\ p.kind = key.kind /\ p.ident = key.ident /\ p.transition = TransitionOf(key.transition)
            /\ Len(p.legs) = Len(LegsOf(key))
            /\ \A i \in DOMAIN p.legs : /\ p.legs[i].sequence = LegsOf(key)[i].sequence
                                       /\ p.legs[i].terminator = LegsOf(key)[i].terminator
                                       /\ p.legs[i].ref = LegsOf(key)[i].ref
    IN /\ Len(read.procedures) = Cardinality(KeysIn(file))
       /\ \A key \in KeysIn(file) : \E i \in DOMAIN read.procedures : SameLegs(read.procedures[i], key)

\* No line is dropped without being counted.
NothingIsLost(file, read) ==
    read.skipped + Len(read.runways)
      + FoldFunction(+, 0, [i \in DOMAIN read.procedures |-> Len(read.procedures[i].legs)])
    = Len(SelectSeq(file, LAMBDA line : line.type = "RWY" \/ line.type \in DOMAIN RecordKinds))

\* A leg that names its airport's runway finds it wherever in the file it is
\* described, and a leg can be placed at exactly when it has a fix to fly to.
FixesAreFound(file, read) ==
    \A i \in DOMAIN read.procedures : \A j \in DOMAIN read.procedures[i].legs :
        LET leg == read.procedures[i].legs[j] IN
        /\ \A ref \in leg.ref :
              ref.own /\ (\E k \in DOMAIN file : file[k].type = "RWY" /\ file[k].located
                                                 /\ file[k].ident = ref.runway)
                => IsRunwayLeg(leg)
        /\ leg.positionable <=> leg.fix # {} /\ leg.terminator \in PositionableTerminators
        /\ leg.positionable <=> leg.reason = {}

\* The runways a route serves are runways of the file, of its number and side.
RunwaysAreServed(read) ==
    \A i \in DOMAIN read.procedures :
        LET p == read.procedures[i]  served == ToSet(p.runways)  all == IdentsOf(read.runways) IN
        /\ served \subseteq all
        /\ p.kind # "approach" /\ p.transition = {} => served = all
        /\ p.kind # "approach" => \A t \in p.transition : t.kind = "runway" =>
              /\ \A r \in served : r[1] = t.number
              /\ <<t.number, t.side>> \in all => served = {<<t.number, t.side>>}
              /\ t.side = "B" => served = {r \in all : r[1] = t.number}

\* A diagram is never longer than the ground, keeps its anchor at the origin, and
\* where nothing is shortened its nodes lie as the fixes do; an altitude that is
\* not published is between those that are.
DrawingIsFaithful(q, drawn) ==
    LET nodes == drawn.nodes
        legs  == BySequence(q.procedure.legs)
        whole == /\ \A i \in DOMAIN legs : legs[i].fix # {}
                 /\ \A i \in DOMAIN drawn.segments : ~drawn.segments[i].compressed
        own   == {i \in DOMAIN nodes : nodes[i].runway}
        Known == {The(nodes[i].known) : i \in {i \in DOMAIN nodes : nodes[i].known # {}}}
    IN /\ \A i \in DOMAIN drawn.segments : drawn.segments[i].drawn <= drawn.segments[i].length
       /\ own # {} => \E i \in own : nodes[i].at = Origin
       /\ whole => \A i, j \in DOMAIN nodes :
              /\ nodes[j].at.x - nodes[i].at.x = The(nodes[j].fix).x - The(nodes[i].fix).x
              /\ nodes[j].at.y - nodes[i].at.y = The(nodes[j].fix).y - The(nodes[i].fix).y
       /\ whole /\ q.runway # {} /\ own = {} =>
              nodes[1].at = Minus(AtAltitude(The(nodes[1].fix), 0),
                                  AtAltitude(The(q.runway).threshold, 0))
       /\ Known # {} => \A i \in DOMAIN nodes :
              \E low, high \in Known : low <= nodes[i].altitude /\ nodes[i].altitude <= high

\* A procedure file read into procedures, and a procedure into a diagram, lose
\* nothing and move nothing (cifp.py, procedure_layout.py).
ProceduresAreTheRecords ==
    /\ \A a \in Answered("file") :
          /\ LegsAreTheLines(a.question.file, a.answer)
          /\ NothingIsLost(a.question.file, a.answer)
          /\ FixesAreFound(a.question.file, a.answer)
          /\ RunwaysAreServed(a.answer)
    /\ \A a \in Answered("layout") : DrawingIsFaithful(a.question, a.answer)

-----------------------------------------------------------------------------
(* Properties of the writes                                                *)

\* Answered with success, and nothing else has run since it was posted.
Done(c) == reply[c] # {} /\ The(reply[c]).status = 200 /\ alone[c]

Reads(name) == sim[<<name, 0>>]

ConfigurationShows(stated) ==
    /\ \A f \in {"flaps", "speedbrake", "trim", "throttle", "autobrake", "obs1", "obs2",
                  "target_altitude", "target_ias", "target_vertical", "vertical"} \cap DOMAIN stated :
          Reads(f) = stated[f]
    /\ States(stated, "gear") => Reads("gear") = Number(stated.gear)
    /\ States(stated, "nav1") => Reads("nav1") = stated.nav1 \div 10
    /\ States(stated, "ils") /\ ~States(stated, "nav1") => Reads("nav1") = stated.ils \div 10
    /\ States(stated, "nav2") => Reads("nav2") = stated.nav2 \div 10
    /\ States(stated, "lights") =>
          \A switch \in DOMAIN stated.lights : Reads(switch) = Number(stated.lights[switch])
    /\ States(stated, "master") => (Reads("mode") = Servos <=> stated.master)
    /\ States(stated, "director") /\ stated.director => Reads("mode") >= Director
    /\ States(stated, "approach_mode") /\ stated.approach_mode => Reads("lateral") = 3
    /\ States(stated, "target_heading") => Reads("target_heading") = Fold(stated.target_heading)

\* Through the air along the heading at the speed, and up or down as stated.
FlightShows(stated) ==
    /\ States(stated, "pitch") => Reads("theta") = stated.pitch
    /\ States(stated, "roll")  => Reads("phi") = stated.roll
    /\ States(stated, "altitude") => Reads("altitude") = stated.altitude
    /\ States(stated, "heading")  => Reads("psi") = Fold(stated.heading)
    /\ States(stated, "ias") /\ States(stated, "altitude") =>
          LET wind == WindAt(sim, stated.altitude)
              tas  == AirspeedAt(sim, stated.ias, stated.altitude)
          IN /\ Reads("vx") = tas * East(Reads("psi")) - wind.speed * East(wind.direction)
             /\ Reads("vz") = wind.speed * North(wind.direction) - tas * North(Reads("psi"))
             /\ Reads("vy") = Else(Stated(stated, "vertical"), 0)

\* Every slot of a half the loadout states, the ones it does not list included;
\* no slot of a half it does not state, whatever else was stated of the mass.
MassesShow(stated, written) ==
    LET Mass(masses, i) == IF i \in DOMAIN masses THEN masses[i] ELSE 0 IN
    /\ Loads(stated, "tank") =>
          \A i \in 1 .. Reads("tanks") : sim[<<"tank", i>>] = Mass(stated.loadout.tanks, i)
    /\ Loads(stated, "station") =>
          \A i \in Slots : sim[<<"station", i>>] = Mass(stated.loadout.stations, i)
    /\ \A name \in {"tank", "station"} :
          ~Loads(stated, name) => written \cap ({name} \X Slots) = {}

\* What a request's answer says was applied is what the simulator has when nothing
\* else ran, but for two fields: a gross weight and a fuel are answered as applied
\* and no mass is written for them, with a loadout or without one, where
\* core/sim_adapter.py has them applied when there is no loadout
\* (xplane_adapter.py apply_setup, set_position; system_routes.py).
AppliedIsWritten ==
    \A c \in Clients : \A s \in ask[c] : Done(c) =>
        /\ s.op \in {"place", "setup", "fuel"} =>
              /\ ConfigurationShows(setup[c]) /\ FlightShows(setup[c])
              /\ MassesShow(setup[c], wrote[c])
        /\ s.op = "place" =>
              \E resolved \in {Resolve(s.request.placement, station.navdata, station.airframe.stalling)} :
                  /\ Reads("x") = resolved.placement.position.x
                  /\ Reads("y") = resolved.placement.position.y

\* The layers a list says, less what cannot be told apart.
Distinct(layers) == Pick(layers, Changes(layers))
Covered(layers)  == Pick(layers, Overcast(layers))

\* The levels ascend, the temperature falls with them from the one stated, and the
\* dewpoint is nowhere above it.
AirIsConsistent(stated) ==
    /\ States(stated, "wind") =>
          \A i \in 2 .. WindLevels : sim[<<"wind", i>>].altitude > sim[<<"wind", i - 1>>].altitude
    /\ States(stated, "temperature") =>
          \A i \in 1 .. WindLevels :
              sim[<<"aloft", i>>] = stated.temperature - 15 + IsaTemperature(sim[<<"wind", i>>].altitude)
    /\ States(stated, "temperature") /\ States(stated, "dewpoint") =>
          \A i \in 2 .. WindLevels : sim[<<"dewpoint", i>>] <= sim[<<"aloft", i>>]

\* Clouds that were waited for lie where they were asked to, as dense; their tops
\* and their kind are not waited for.
CloudsAgree(stated, seen) ==
    /\ DOMAIN seen = DOMAIN stated
    /\ \A i \in DOMAIN seen : seen[i].base = stated[i].base /\ seen[i].coverage = stated[i].coverage

\* What the read-back reports of a stated field is the field.
ReadBackAgrees(stated, state, waited) ==
    /\ States(stated, "wind") => state.wind = (IF stated.wind = <<>> THEN <<Calm>>
                                               ELSE Distinct(stated.wind))
    /\ States(stated, "cloud") /\ waited => CloudsAgree(Covered(stated.cloud), state.cloud)
    /\ \A f \in {"visibility", "qnh", "temperature", "precipitation", "contamination"}
               \cap DOMAIN stated : state[f] = stated[f]
    /\ States(stated, "dewpoint") => state.dewpoint = Smaller(stated.dewpoint, state.temperature)

\* A preset with an overlay: the overlay's fields, and every other field as the
\* preset has it, over the field and across the runway.
PresetIsOverlaid(request, resolved) ==
    LET overlay == Else(request.setup, <<>>)
        preset  == WeatherPresets[The(request.preset)]
        ground  == (CHOOSE a \in Airfields : a.icao \in request.airport).elevation
        axis    == The({r \in RunwayEnds : <<r.ident>> = request.runway}).axis
        Kept(f) == States(preset, f) /\ ~States(overlay, f)
    IN /\ \A f \in DOMAIN overlay : resolved[f] = overlay[f]
       /\ DOMAIN resolved = DOMAIN overlay \cup DOMAIN preset.setup \cup (DOMAIN preset \ {"setup"})
       /\ Kept("cloud") => \A i \in DOMAIN resolved.cloud :
              resolved.cloud[i].base - ground = preset.cloud[i].base
       /\ Kept("wind") => \A i \in DOMAIN resolved.wind :
              /\ resolved.wind[i].altitude >= ground
              /\ RequiresRunway(preset) => Fold(resolved.wind[i].direction - axis) = 90

\* Weather is what was asked for, one air from the ground up, and is reported as
\* it is (core/weather, xplane_adapter.py set_weather and get_weather).
WeatherIsConsistent ==
    /\ \A a \in Answered("weather") :
          ~Refused(a.answer) =>
            /\ ValidWeather(a.answer.setup)
            /\ a.question.request.preset # {} => PresetIsOverlaid(a.question.request, a.answer.setup)
    /\ \A c \in Clients : \A s \in ask[c] : Done(c) /\ s.op = "weather" =>
          /\ AirIsConsistent(setup[c])
          /\ ReadBackAgrees(setup[c], The(reply[c]).state, ~late[c])

\* A refusal leaves the simulator as it was: found out before the first write,
\* or, when the simulator does not give up its own weather, right after asking it
\* to (the routes' 404, 422, 503 and 502).
RefusedWritesNothing ==
    \A c \in Clients : \A r \in reply[c] :
        /\ r.status \in {404, 422, 503} => wrote[c] = {}
        /\ r.status = 502 /\ r.why = "not_exposed" => wrote[c] = {}
        /\ r.status = 502 /\ r.why = "not_manual" => wrote[c] \subseteq {<<"update", 0>>, <<"change", 0>>}

\* Every dataref has a value of its kind, and a waiting request has steps left or
\* an answer to give.
SetupTypeOK ==
    /\ station \in Starts
    /\ DOMAIN sim = DOMAIN FirstSim
    /\ Reads("mode") \in {Off, Director, Servos}
    /\ \A i \in 1 .. WindLevels : sim[<<"wind", i>>].altitude \in Int
    /\ \A c \in Clients : /\ Cardinality(ask[c]) <= 1 /\ Cardinality(reply[c]) <= 1
                          /\ ~Busy(c) => todo[c] = <<>>
                          /\ wrote[c] \subseteq DOMAIN sim
                          /\ alone[c] \in BOOLEAN /\ late[c] \in BOOLEAN
    /\ asked \in 0 .. MaxAsk /\ faults \in 0 .. MaxFaults
    /\ Cardinality(answer) <= 1
=============================================================================
