------------------------------- MODULE SimWrites -------------------------------
(***************************************************************************)
(* What the X-Plane adapter does with a setup (xplane_adapter.py): the     *)
(* requests it makes of the simulator, in order.  A dataref is a name and  *)
(* an index (0 for a scalar); sim is the function from datarefs to values. *)
(* A step writes one dataref, or reads some and becomes the steps that     *)
(* follow from what it read.  The six datarefs of one wind level and the   *)
(* four of one cloud slot are written as one.                              *)
(***************************************************************************)
EXTENDS WeatherRequests, FuelPayload

CONSTANTS
    WindLevels,     \* the simulator's atmosphere levels (13)
    CloudSlots,     \* its cloud slots (3)
    Slots           \* the tanks, and the stations, its arrays have room for

\* The simulator has room for every layer a request may state.
ASSUME ArraysAssumption ==
    /\ WindLevels \in Nat /\ WindLevels >= MaxWindLayers
    /\ CloudSlots \in Nat /\ CloudSlots >= MaxCloudLayers
    /\ IsFiniteSet(Slots) /\ Slots = 1 .. Cardinality(Slots)

Scalars == {"flaps", "speedbrake", "trim", "throttle", "gear", "autobrake", "nav1", "nav2", "obs1",
            "obs2", "landing", "taxi", "nav", "beacon", "strobe", "mode", "lateral",
            "target_altitude", "is_mach", "target_ias", "target_heading", "target_vertical", "psi",
            "theta", "phi", "vertical", "x", "y", "altitude", "vx", "vy", "vz", "visibility", "qnh",
            "temperature", "rain", "friction", "source", "change", "update", "tanks"}
Datarefs == (Scalars \X {0}) \cup ({"tank", "station"} \X Slots)
            \cup ({"wind", "aloft", "dewpoint"} \X (1 .. WindLevels))
            \cup ({"cloud", "sky"} \X (1 .. CloudSlots))

WriteAt(name, index, value) ==
    [do |-> "write", ref |-> <<name, index>>, value |-> value]
Write(name, value) == WriteAt(name, 0, value)

Number(value) == IF value \in BOOLEAN THEN (IF value THEN 1 ELSE 0) ELSE value

\* A write that only a setup which states the field makes; and one under the name
\* of the field.
WriteIf(stated, name, value) == IF stated THEN << Write(name, value) >> ELSE <<>>
WriteOf(setup, field) == WriteIf(States(setup, field), field, setup[field])

-----------------------------------------------------------------------------
(* Configuration, autopilot and flight model state                         *)

Switches == {"landing", "taxi", "nav", "beacon", "strobe"}

SwitchWrites(lights) ==
    LET Switch(name) == WriteIf(States(lights, name), name, Number(lights[name]))
    IN Switch("landing") \o Switch("taxi") \o Switch("nav") \o Switch("beacon") \o Switch("strobe")

\* A loadout states the tanks, the stations or both: a half it leaves out is left
\* alone, neither read nor written.
Half == [tank |-> "tanks", station |-> "stations"]
Loads(setup, name) == States(setup, "loadout") /\ States(setup.loadout, Half[name])
MassSteps(setup, name) ==
    IF Loads(setup, name)
    THEN << [do |-> "masses", name |-> name, masses |-> setup.loadout[Half[name]]] >> ELSE <<>>
LoadoutSteps(setup) == MassSteps(setup, "tank") \o MassSteps(setup, "station")

\* NAV1 has its own frequency before the ILS's.  A setup's gross weight and its
\* fuel are fields no step is made for, with a loadout or without.
ConfigurationSteps(setup) ==
    WriteOf(setup, "flaps") \o WriteOf(setup, "speedbrake") \o WriteOf(setup, "trim")
    \o WriteOf(setup, "throttle")
    \o WriteIf(States(setup, "gear"), "gear", Number(setup.gear))
    \o WriteOf(setup, "autobrake")
    \o (IF States(setup, "nav1") THEN << Write("nav1", setup.nav1 \div 10) >>
        ELSE WriteIf(States(setup, "ils"), "nav1", setup.ils \div 10))
    \o WriteIf(States(setup, "nav2"), "nav2", setup.nav2 \div 10)
    \o WriteOf(setup, "obs1") \o WriteOf(setup, "obs2")
    \o (IF States(setup, "lights") THEN SwitchWrites(setup.lights) ELSE <<>>)
    \o LoadoutSteps(setup)

InOrder(numbers) ==
    CHOOSE f \in Surjection(1 .. Cardinality(numbers), numbers) :
        \A i, j \in DOMAIN f : i < j => f[i] < f[j]

\* Only the slots the loadout lists are written (a mutant of MassWrites).
MassWritesListed(step, known) ==
    LET slots == InOrder(DOMAIN step.masses \cap Slots)
    IN [i \in DOMAIN slots |-> WriteAt(step.name, slots[i], step.masses[slots[i]])]

\* Every known slot is written, one the loadout does not list with nothing.
MassWrites(step, known) ==
    LET slots == InOrder((1 .. known \cup DOMAIN step.masses) \cap Slots)
    IN [i \in DOMAIN slots |->
           WriteAt(step.name, slots[i],
                   IF slots[i] \in DOMAIN step.masses THEN step.masses[slots[i]] ELSE 0)]

Off == 0
Director == 1
Servos == 2

\* The flight director as one more mode (a mutant of AutopilotMode).
AutopilotModeAbove(current, director, master) ==
    IF director = {TRUE} THEN current + Director ELSE IF master = {TRUE} THEN Servos ELSE current

AutopilotMode(current, director, master) ==
    LET mode == CASE director = {}      -> current
                  [] director = {TRUE}  -> Larger(current, Director)
                  [] director = {FALSE} -> Off
    IN CASE master = {}      -> mode
         [] master = {TRUE}  -> Servos
         [] master = {FALSE} -> Smaller(mode, Director)

Stated(setup, field) == IF States(setup, field) THEN {setup[field]} ELSE {}

\* Heading, navigation, approach: the last one selected wins; wings level when
\* one is only deselected.
LateralModes == <<"heading_mode", "nav_mode", "approach_mode">>
LateralSteps(setup) ==
    LET Mode(m) == Stated(setup, LateralModes[m])
        Select(m) == WriteIf(Mode(m) = {TRUE}, "lateral", m)
        levelled == (\A m \in 1 .. 3 : Mode(m) # {TRUE}) /\ (\E m \in 1 .. 3 : Mode(m) = {FALSE})
    IN Select(1) \o Select(2) \o Select(3) \o WriteIf(levelled, "lateral", 0)

AutopilotSteps(setup) ==
    (IF States(setup, "master") \/ States(setup, "director")
     THEN << [do |-> "mode", director |-> Stated(setup, "director"),
              master |-> Stated(setup, "master")] >> ELSE <<>>)
    \o LateralSteps(setup)
    \o WriteOf(setup, "target_altitude")
    \o (IF States(setup, "target_ias")
        THEN << Write("is_mach", 0), Write("target_ias", setup.target_ias) >> ELSE <<>>)
    \o WriteIf(States(setup, "target_heading"), "target_heading", Fold(setup.target_heading))
    \o WriteOf(setup, "target_vertical")

\* The air between the aircraft and its speed: thirty feet to a hectopascal.
AirspeedAt(sim, ias, altitude) ==
    TrueAirspeed(ias, altitude + 30 * (1013 - sim[<<"qnh", 0>>]))

AngularDifference(from, to) == Fold(to - from + 180) - 180

WindLevelsOf(sim) == [i \in 1 .. WindLevels |-> sim[<<"wind", i>>]]

\* Below the lowest level and above the highest, theirs; between two, both in
\* proportion, the direction along the shorter arc.
WindIn(region, altitude) ==
    LET levels == SortSeq(region, LAMBDA a, b : a.altitude < b.altitude)
        i == SelectInSeq(levels, LAMBDA l : altitude <= l.altitude)
        lower == levels[i - 1]
        upper == levels[i]
        Between(a, b) == (b * (altitude - lower.altitude)) \div (upper.altitude - lower.altitude) + a
    IN CASE i = 0 -> [direction |-> levels[WindLevels].direction, speed |-> levels[WindLevels].speed]
         [] i = 1 -> [direction |-> levels[1].direction, speed |-> levels[1].speed]
         [] i > 1 -> [direction |-> Fold(Between(lower.direction, AngularDifference(lower.direction, upper.direction))),
                      speed |-> Between(lower.speed, upper.speed - lower.speed)]
WindAt(sim, altitude) == WindIn(WindLevelsOf(sim), altitude)

\* Through the air along the heading, carried by the wind.
VelocityWrites(sim, step) ==
    LET wind == IF step.altitude = {} THEN [direction |-> 0, speed |-> 0]
                ELSE WindAt(sim, The(step.altitude))
        heading == Else(step.heading, sim[<<"psi", 0>>])
    IN << Write("vx", step.tas * East(heading) - wind.speed * East(wind.direction)),
          Write("vy", Else(step.vertical, 0)),
          Write("vz", wind.speed * North(wind.direction) - step.tas * North(heading)) >>

Velocity(tas, heading, vertical, altitude) ==
    [do |-> "velocity", tas |-> tas, heading |-> heading, vertical |-> vertical,
     altitude |-> altitude]

DirectWrites(setup) ==
    WriteIf(States(setup, "heading"), "psi", Fold(setup.heading))
    \o WriteIf(States(setup, "pitch"), "theta", setup.pitch)
    \o WriteIf(States(setup, "roll"), "phi", setup.roll)
    \o WriteOf(setup, "vertical")

\* The airspeed is computed before the flight model is frozen.
FlightModelSteps(setup) == << [do |-> "fly", setup |-> setup] >>

FlightModelWrites(sim, setup) ==
    LET altitude == Stated(setup, "altitude") IN
    DirectWrites(setup)
    \o WriteOf(setup, "altitude")
    \o (IF States(setup, "ias")
        THEN << Velocity(AirspeedAt(sim, setup.ias, Else(altitude, sim[<<"altitude", 0>>])),
                         Stated(setup, "heading"), Stated(setup, "vertical"), altitude) >>
        ELSE <<>>)

SetupSteps(setup) == ConfigurationSteps(setup) \o AutopilotSteps(setup) \o FlightModelSteps(setup)

\* The teleport, its arrival and its attempts apart: where, how fast, which way.
TeleportSteps(placement, setup) ==
    << [do |-> "teleport", position |-> placement.position, heading |-> placement.heading,
        ias |-> setup.ias, vertical |-> Stated(setup, "vertical")] >>
TeleportWrites(sim, step) ==
    LET at == step.position IN
    << Write("x", at.x), Write("altitude", at.altitude), Write("y", at.y),
       Velocity(AirspeedAt(sim, step.ias, at.altitude), {step.heading}, step.vertical, {at.altitude}),
       Write("psi", Fold(step.heading)) >>

-----------------------------------------------------------------------------
(* Weather                                                                 *)

\* What the simulator has to expose for each field of a setup.
NeededFor(field) ==
    CASE field = "temperature" -> {"temperature", "wind"}
      [] field = "dewpoint"    -> {"dewpoint", "temperature", "wind"}
      [] OTHER -> {field}
WeatherFields == {"wind", "cloud", "visibility", "qnh", "temperature", "dewpoint",
                  "precipitation", "contamination"}
Exposed(exposed, setup) == UNION {NeededFor(f) : f \in DOMAIN setup} \subseteq exposed

PaddingStep == 1000
Calm == Wind(0, 0, 0, 0, 0)

\* Every level above the highest layer at its height (a mutant of LevelOf).
LevelOfRepeated(layers, level) ==
    CASE layers = <<>> -> [Calm EXCEPT !.altitude = PaddingStep * (level - 1)]
      [] layers # <<>> -> layers[Smaller(level, Len(layers))]

\* Above the highest layer the levels repeat it, a thousand feet apart.
LevelOf(layers, level) ==
    CASE layers = <<>> -> [Calm EXCEPT !.altitude = PaddingStep * (level - 1)]
      [] layers # <<>> /\ level <= Len(layers) -> layers[level]
      [] OTHER -> [Last(layers) EXCEPT !.altitude = @ + PaddingStep * (level - Len(layers))]

NoCloud == Cloud(0, 0, 0, "cumulus")
SlotOf(layers, slot) == IF slot <= Len(layers) THEN layers[slot] ELSE NoCloud

WindWrites(layers) ==
    [level \in 1 .. WindLevels |-> WriteAt("wind", level, LevelOf(layers, level))]
CloudSteps(layers) ==
    [slot \in 1 .. CloudSlots |-> WriteAt("cloud", slot, SlotOf(layers, slot))]
    \o << [do |-> "settle", layers |-> layers] >>

\* The clouds that show are the ones that were asked for.
Settled(sim, layers) ==
    \A slot \in 1 .. CloudSlots :
        /\ sim[<<"sky", slot>>].base = SlotOf(layers, slot).base
        /\ sim[<<"sky", slot>>].coverage = SlotOf(layers, slot).coverage

Tropopause == 36000
IsaTemperature(altitude) ==
    IF altitude >= Tropopause THEN -57 ELSE 15 - (2 * altitude) \div 1000
IsaDeviation(temperature, altitude) == temperature - IsaTemperature(altitude)
TemperatureAt(altitude, deviation) == IsaTemperature(altitude) + deviation

WindAltitudes(sim) == [i \in 1 .. WindLevels |-> sim[<<"wind", i>>].altitude]

LadderWrites(altitudes, temperature) ==
    [i \in DOMAIN altitudes |->
        WriteAt("aloft", i, TemperatureAt(altitudes[i], IsaDeviation(temperature, 0)))]

\* Nowhere above the air's own temperature; the first level is written as stated.
DewpointWrites(altitudes, dewpoint, temperature) ==
    [i \in 1 .. Len(altitudes) - 1 |->
        WriteAt("dewpoint", i + 1,
                Smaller(dewpoint, TemperatureAt(altitudes[i + 1], IsaDeviation(temperature, 0))))]

Frictions == [dry |-> 0, wet |-> 2, puddles |-> 5, snow |-> 8, ice |-> 11]
ContaminationOf(friction) ==
    CASE friction >= 10 -> "ice"
      [] friction \in 7 .. 9 -> "snow"
      [] friction \in 4 .. 6 -> "puddles"
      [] friction \in 1 .. 3 -> "wet"
      [] OTHER -> "dry"

WeatherFieldSteps(setup) ==
    (IF States(setup, "wind") THEN WindWrites(setup.wind) ELSE <<>>)
    \o (IF States(setup, "cloud") THEN CloudSteps(setup.cloud) ELSE <<>>)
    \o WriteOf(setup, "visibility") \o WriteOf(setup, "qnh")
    \o (IF States(setup, "temperature")
        THEN << Write("temperature", setup.temperature),
                [do |-> "ladder", temperature |-> setup.temperature] >> ELSE <<>>)
    \o (IF States(setup, "dewpoint")
        THEN << WriteAt("dewpoint", 1, setup.dewpoint),
                [do |-> "dewpoints", dewpoint |-> setup.dewpoint] >> ELSE <<>>)
    \o WriteIf(States(setup, "precipitation"), "rain", setup.precipitation)
    \o WriteIf(States(setup, "contamination"), "friction", Frictions[setup.contamination])

\* Manual control taken last (a mutant of WeatherSteps).
WeatherStepsFirst(setup) == WeatherFieldSteps(setup) \o << [do |-> "manual"] >>

WeatherSteps(setup) == << [do |-> "manual"] >> \o WeatherFieldSteps(setup)

\* Read back: a level that repeats the one below is padding, an uncovered slot
\* is empty, and at most three layers are reported.
Signature(level) == [level EXCEPT !.altitude = 0]
Changes(levels) == {i \in DOMAIN levels : i > 1 => Signature(levels[i]) # Signature(levels[i - 1])}
Overcast(layers) == {i \in DOMAIN layers : layers[i].coverage > 0}
Pick(list, places) == LET at == InOrder(places) IN [i \in DOMAIN at |-> list[at[i]]]

ReadWind(sim) ==
    LET levels == WindLevelsOf(sim)
        layers == Pick(levels, Changes(levels))
    IN SubSeq(layers, 1, Smaller(Len(layers), MaxWindLayers))
WithTops(cloud) == Cloud(cloud.base, IF cloud.tops <= cloud.base THEN cloud.base + 1 ELSE cloud.tops,
                         cloud.coverage, cloud.kind)
ReadCloud(sim) ==
    LET sky     == [i \in 1 .. CloudSlots |-> sim[<<"sky", i>>]]
        covered == Pick(sky, Overcast(sky))
    IN [i \in DOMAIN covered |-> WithTops(covered[i])]

\* A dewpoint above the temperature is reported as the temperature.
ReadWeather(sim) ==
    [wind |-> ReadWind(sim), cloud |-> ReadCloud(sim), visibility |-> sim[<<"visibility", 0>>],
     qnh |-> sim[<<"qnh", 0>>], temperature |-> sim[<<"temperature", 0>>],
     dewpoint |-> Smaller(sim[<<"dewpoint", 1>>], sim[<<"temperature", 0>>]),
     precipitation |-> sim[<<"rain", 0>>], contamination |-> ContaminationOf(sim[<<"friction", 0>>])]

\* The masses of the slots the simulator says the aircraft has.
ReadLoadout(sim) ==
    Loadout([i \in 1 .. sim[<<"tanks", 0>>] |-> sim[<<"tank", i>>]],
            [i \in Slots |-> sim[<<"station", i>>]])
=============================================================================
