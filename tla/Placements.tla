------------------------------ MODULE Placements ------------------------------
(***************************************************************************)
(* Where a placement request puts the aircraft and in what configuration   *)
(* (position_routes.py over core/geodesy.py).  A request and a setup hold  *)
(* their optional numbers as sets: {} is "not stated".  A setup is the     *)
(* function from the fields it states to their values.  Distances are in   *)
(* half nautical miles (Plane); a glidepath of g degrees rises 53 g feet   *)
(* over one of them.                                                       *)
(***************************************************************************)
EXTENDS ProcedureRecords, FiniteSets, Functions

CONSTANTS
    RunwayEnds,     \* the published runway ends: a set of records
    Stands,         \* the parking stands, in the order of their names
    FixTable,       \* the fixes, in the order a lookup returns them
    HoldTable,      \* the published holds, in the order a lookup returns them
    Airfields       \* the airports: where, elevation and magnetic variation

\* Directions and elevations are numbers, a table's rows are in an order, and
\* airports and runway ends have names of their own.
ASSUME TablesAssumption ==
    /\ \A r \in RunwayEnds : r.axis \in Int
    /\ \A r, s \in RunwayEnds : r.ident = s.ident => r = s
    /\ \A a, b \in Airfields : a.icao = b.icao => a = b
    /\ DOMAIN Stands \subseteq Nat /\ \A i \in DOMAIN Stands : Stands[i].heading \in Int
    /\ DOMAIN HoldTable \subseteq Nat /\ \A i \in DOMAIN HoldTable : HoldTable[i].inbound \in Int
    /\ \A a \in Airfields : a.elevation \in Int /\ a.variation \subseteq Int

The(set) == CHOOSE v \in set : TRUE
Else(set, default) == IF set = {} THEN default ELSE The(set)

\* The fields of a setup, and those of another where it states none.
Over(setup, other) ==
    [f \in DOMAIN setup \cup DOMAIN other |-> IF f \in DOMAIN setup THEN setup[f] ELSE other[f]]

\* Of a value that is worked out once.
With(value, Of(_)) == The({Of(v) : v \in {value}})

\* The replies: a resolved placement, or the status that refuses it.
Refusal(status) == [status |-> status]
Refused(reply)  == reply.status # 200

-----------------------------------------------------------------------------
(* Speeds                                                                  *)

ThresholdSpeed == [A |-> 90, B |-> 120, C |-> 140, D |-> 165, E |-> 210]
CirclingSpeed  == [A |-> 100, B |-> 135, C |-> 180, D |-> 205, E |-> 240]
DefaultCategory == "B"

\* The bands of the landing speed, here in tenths of a knot.
CategoryForVat(vat) ==
    CASE vat < 910  -> "A"
      [] vat \in 910 .. 1209  -> "B"
      [] vat \in 1210 .. 1409 -> "C"
      [] vat \in 1410 .. 1659 -> "D"
      [] OTHER -> "E"

\* Stated, or 1.3 times the loaded airframe's stalling speed, or the default.
RequestCategory(stated, stalling) ==
    IF stated # {} THEN The(stated)
    ELSE IF stalling # {} THEN CategoryForVat(13 * The(stalling)) ELSE DefaultCategory

\* A category's speed folded into a published band, never below its landing speed.
ConstrainedSpeed(stated, category, min, max) ==
    LET capped == Smaller(CirclingSpeed[category], Else(max, CirclingSpeed[category]))
        raised == Larger(capped, Else(min, capped))
    IN Else(stated, Larger(raised, ThresholdSpeed[category]))

\* Which bound decided, worked out again beside the number it explains.
SpeedProvenance(speed, category, min, max) ==
    LET circling == [speed |-> CirclingSpeed[category], how |-> "circling", bound |-> {}]
        Take(s, v, how) == [speed |-> v, how |-> how, bound |-> {v}]
        capped == IF max # {} /\ The(max) < circling.speed
                  THEN Take(circling, The(max), "restriction") ELSE circling
        raised == IF min # {} /\ The(min) > capped.speed
                  THEN Take(capped, The(min), "minimum") ELSE capped
        floored == IF ThresholdSpeed[category] > raised.speed
                   THEN [speed |-> ThresholdSpeed[category], how |-> "floor", bound |-> {}]
                   ELSE raised
    IN IF floored.speed # speed THEN [how |-> "unattributed", bound |-> {}]
       ELSE [how |-> floored.how, bound |-> floored.bound]

\* What the preview says of its speed: zero first, then the request, then why.
SpeedNote(stated, speed, why, onGround) ==
    CASE speed = 0 /\ ~onGround -> [how |-> "falls", bound |-> {}]
      [] speed = 0 /\ onGround  -> [how |-> IF stated # {} THEN "requested" ELSE "stationary",
                                    bound |-> {}]
      [] OTHER -> IF stated # {} THEN [how |-> "requested", bound |-> {}] ELSE why

-----------------------------------------------------------------------------
(* Runway-relative points: the finals and the circuit                      *)

DefaultGlideslope == 3
FeetPerUnit(glideslope) == 53 * glideslope
PatternHeight == 1000
PatternWidth  == 2
LegDistance   == 3

FinalDistances == [final_20nm |-> 40, final_15nm |-> 30, final_10nm |-> 20, final_8nm |-> 16,
                   final_5nm |-> 10, final_3nm |-> 6, short_final |-> 2]
PatternPlacements ==
    [left_upwind |-> <<"upwind", "left">>, left_crosswind |-> <<"crosswind", "left">>,
     left_downwind |-> <<"downwind", "left">>, left_base |-> <<"base", "left">>,
     right_upwind |-> <<"upwind", "right">>, right_crosswind |-> <<"crosswind", "right">>,
     right_downwind |-> <<"downwind", "right">>, right_base |-> <<"base", "right">>]
RunwayPlacements == DOMAIN FinalDistances \cup DOMAIN PatternPlacements

\* The angle requested, the published one, or three degrees.
Glideslope(runway, requested) ==
    IF requested # {} THEN The(requested)
    ELSE IF runway.ils # {} THEN Else(The(runway.ils).glideslope, DefaultGlideslope)
    ELSE DefaultGlideslope

GlideslopeAltitude(elevation, distance, glideslope) ==
    elevation + FeetPerUnit(glideslope) * distance

FinalApproachPoint(runway, distance, glideslope) ==
    [Direct(runway.threshold, distance, runway.axis + 180) EXCEPT
        !.altitude = GlideslopeAltitude(runway.elevation, distance, glideslope)]

FinalPlacement(runway, request, category) ==
    LET glideslope == Glideslope(runway, request.glideslope) IN
    [position |-> FinalApproachPoint(runway, FinalDistances[request.placement], glideslope),
     heading |-> Fold(runway.axis),
     ias |-> Else(request.ias, ThresholdSpeed[category]),
     profile |-> "final", ils |-> runway.ils, glideslope |-> {glideslope}, leg |-> {}]

\* A base leg flown away from the runway (a mutant of PatternPoint).
PatternPointAway(leg, length, width, distance, left) ==
    LET side == IF left THEN -1 ELSE 1
        turn == IF left THEN -90 ELSE 90
    IN CASE leg = "upwind"    -> [along |-> length + distance, across |-> 0, heading |-> 0]
         [] leg = "crosswind" -> [along |-> length + distance, across |-> side * (width \div 2),
                                  heading |-> turn]
         [] leg = "downwind"  -> [along |-> length \div 2, across |-> side * width,
                                  heading |-> 180]
         [] leg = "base"      -> [along |-> -distance, across |-> side * width,
                                  heading |-> turn]

\* Along the axis from the threshold, across it, and the heading flown there.
PatternPoint(leg, length, width, distance, left) ==
    LET side == IF left THEN -1 ELSE 1
        turn == IF left THEN -90 ELSE 90
    IN CASE leg = "upwind"    -> [along |-> length + distance, across |-> 0, heading |-> 0]
         [] leg = "crosswind" -> [along |-> length + distance, across |-> side * (width \div 2),
                                  heading |-> turn]
         [] leg = "downwind"  -> [along |-> length \div 2, across |-> side * width,
                                  heading |-> 180]
         [] leg = "base"      -> [along |-> -distance, across |-> side * width,
                                  heading |-> -turn]

PatternPlacement(runway, request, category) ==
    LET leg  == PatternPlacements[request.placement][1]
        left == PatternPlacements[request.placement][2] = "left"
        p == PatternPoint(leg, runway.length, Else(request.width, PatternWidth),
                          Else(request.legDistance, LegDistance), left)
    IN [position |-> Offset(runway.threshold, p.along, p.across, runway.axis,
                            Else(request.patternAltitude, runway.elevation + PatternHeight)),
        heading |-> Fold(runway.axis + p.heading),
        ias |-> Else(request.ias, CirclingSpeed[category]),
        profile |-> "circuit", ils |-> {}, glideslope |-> {}, leg |-> {leg}]

RunwayPlacement(runway, request, category) ==
    IF request.placement \in DOMAIN FinalDistances
    THEN FinalPlacement(runway, request, category)
    ELSE PatternPlacement(runway, request, category)

-----------------------------------------------------------------------------
(* Points over a fix                                                       *)

Airborne(position, heading, ias) ==
    [position |-> position, heading |-> Fold(heading), ias |-> ias,
     profile |-> "airborne", ils |-> {}, glideslope |-> {}, leg |-> {}]

CoordinatePlacement(position, heading, ias) ==
    [Airborne(position, heading, ias) EXCEPT !.profile = IF ias = 0 THEN "ground" ELSE "airborne"]

AtAltitude(point, altitude) == [point EXCEPT !.altitude = altitude]

\* Stated, towards the next fix, as the leg from the previous one arrives, north.
ContextualHeading(point, stated, next, previous) ==
    CASE stated # {} -> Fold(The(stated))
      [] stated = {} /\ next # {} -> BearingOf(point, The(next))
      [] stated = {} /\ next = {} /\ previous # {} -> BearingOf(The(previous), point)
      [] OTHER -> 0

\* Only the legs that can be placed at are neighbours.
PositionableLegs(procedure) == SelectSeq(procedure.legs, LAMBDA leg : leg.positionable)

FixOfLeg(legs, i) == IF i \in DOMAIN legs THEN {The(legs[i].fix).at} ELSE {}

NeighbouringFixes(procedure, leg) ==
    LET legs == PositionableLegs(procedure)
        at   == SelectInSeq(legs, LAMBDA l : l.sequence = leg.sequence)
    IN IF at = 0 THEN [previous |-> {}, next |-> {}]
       ELSE [previous |-> FixOfLeg(legs, at - 1), next |-> FixOfLeg(legs, at + 1)]

Bound(speed, end) == UNION {s[end] : s \in speed}

ProcedureLegPlacement(procedure, leg, altitude, ias, category) ==
    LET near == NeighbouringFixes(procedure, leg)
        at   == The(leg.fix).at
    IN Airborne(AtAltitude(at, altitude), ContextualHeading(at, {}, near.next, near.previous),
                ConstrainedSpeed(ias, category, Bound(leg.speed, "min"), Bound(leg.speed, "max")))

-----------------------------------------------------------------------------
(* Holds: the racetrack is built back from the fix on the inbound course   *)

\* True airspeed grows with altitude; a turn is rate one or 25 degrees of bank,
\* whichever is wider.
TrueAirspeed(ias, altitude) == ias + (ias * altitude) \div 50000
TurnRadius(tas) == Larger(tas \div 94, (tas * tas) \div 16000)

TrueFromMagnetic(course, variation) == Fold(course + variation)

HoldAltitude(hold, stated) ==
    IF stated # {} THEN stated ELSE IF hold.min # {} THEN hold.min ELSE hold.max

HighHold == 14000

\* A published length, or the published time flown at the true airspeed, or one
\* minute (one and a half above 14000 ft); times in half minutes.
HoldLegLength(hold, tas, altitude) ==
    IF hold.length # {} THEN The(hold.length)
    ELSE (tas * Else(hold.time, IF altitude > HighHold THEN 3 ELSE 2)) \div 60

HoldPoint(placement, leg, width, turn) ==
    LET side == IF turn = "R" THEN 1 ELSE -1 IN
    CASE placement = "hold_fix"          -> [along |-> 0, across |-> 0, heading |-> 0]
      [] placement = "hold_outbound"     -> [along |-> 0, across |-> side * width, heading |-> 180]
      [] placement = "hold_outbound_end" -> [along |-> -leg, across |-> side * width,
                                             heading |-> 180]
      [] placement = "hold_inbound"      -> [along |-> -leg, across |-> 0, heading |-> 0]

HoldPlacementAt(hold, placement, variation, altitude, ias, category) ==
    LET axis == TrueFromMagnetic(hold.inbound, variation)
        Racetrack(tas) == HoldPoint(placement, HoldLegLength(hold, tas, altitude),
                                    2 * TurnRadius(tas), hold.turn)
        At(p, speed) == Airborne(Offset(hold.at, p.along, p.across, axis, altitude),
                                 axis + p.heading, speed)
    IN With(ConstrainedSpeed(ias, category, {}, hold.speed), LAMBDA speed :
           With(TrueAirspeed(speed, altitude), LAMBDA tas :
               With(Racetrack(tas), LAMBDA p : At(p, speed))))

-----------------------------------------------------------------------------
(* What the index answers                                                  *)

GetRunway(ident) == {r \in RunwayEnds : r.ident = ident}

\* The first row of a table that fits, if one does.
FirstRow(rows, Fits(_)) ==
    LET places == {i \in DOMAIN rows : Fits(rows[i])}
    IN IF places = {} THEN {} ELSE {rows[Min(places)]}

GetStand(airport, name) ==
    FirstRow(Stands, LAMBDA s : s.airport = airport /\ s.name = name)

GetFixes(ident, region, terminal) ==
    SelectSeq(FixTable, LAMBDA f : f.ident = ident /\ region \subseteq {f.region}
                                   /\ terminal \subseteq f.terminal)

GetHold(ident) == FirstRow(HoldTable, LAMBDA h : h.ident = ident)

\* The airport's published variation, or none: then the course is used as it is.
HoldVariation(hold) ==
    UNION {a.variation : a \in {a \in Airfields : a.icao \in hold.airport}}

\* The elevation of the nearest airport within 50 NM, else sea level.
GroundTolerance == 100
GroundRadius == 100
LocalGround(navdata, position) ==
    LET near == {a \in Airfields : DistanceOf(a.at, position) <= GroundRadius} IN
    IF ~navdata \/ near = {} THEN 0
    ELSE (CHOOSE a \in near : \A b \in near :
              DistanceOf(a.at, position) <= DistanceOf(b.at, position)).elevation

-----------------------------------------------------------------------------
(* One request, resolved.  navdata: whether the index can be read;         *)
(* stalling: the loaded airframe's stalling speed, where it is known       *)

Resolved(placement, speed, notes, schematic) ==
    [status |-> 200, placement |-> placement, speed |-> speed, notes |-> notes,
     schematic |-> schematic]

\* The threshold, the far end and the aircraft, along and across the centreline.
RunwaySchematic(runway, placement) ==
    << [role |-> "threshold",  along |-> 0, across |-> 0],
       [role |-> "runway_end", along |-> runway.length, across |-> 0],
       [role |-> "placement",  along |-> Along(runway.threshold, runway.axis, placement.position),
                               across |-> Across(runway.threshold, runway.axis, placement.position)] >>

CategoryDefault(how) == [how |-> how, bound |-> {}]

\* What the preview credits its altitude to.
AltitudeNote(stated, published, note) == IF stated = {} /\ published # {} THEN {note} ELSE {}

ResolveRunway(request, category) ==
    LET found == GetRunway(request.runway) IN
    IF found = {} THEN Refusal(404)
    ELSE LET final == request.placement \in DOMAIN FinalDistances
             why   == CategoryDefault(IF final THEN "threshold" ELSE "circling")
         IN With(The(found), LAMBDA runway :
                With(RunwayPlacement(runway, request, category), LAMBDA placed :
                    Resolved(placed, SpeedNote(request.ias, placed.ias, why, FALSE),
                             IF final THEN {"glidepath"}
                             ELSE AltitudeNote(request.patternAltitude, {0}, "circuit_height"),
                             RunwaySchematic(runway, placed))))

ResolveThreshold(request) ==
    LET found == GetRunway(request.runway) IN
    IF found = {} THEN Refusal(404)
    ELSE LET runway == The(found) IN
         Resolved(CoordinatePlacement(runway.threshold, runway.axis, 0),
                  CategoryDefault("lined_up"), {}, <<>>)

ResolveParking(request) ==
    LET stands == GetStand(request.airport, request.stand) IN
    IF stands = {} THEN Refusal(404)
    ELSE LET stand == The(stands) IN
         Resolved(CoordinatePlacement(stand.at, stand.heading, 0),
                  CategoryDefault("parked"), {}, <<>>)

ResolveCoordinate(request, navdata) ==
    LET placed == CoordinatePlacement(request.at, Else(request.heading, 0), Else(request.ias, 0))
        onGround == request.at.altitude <= LocalGround(navdata, request.at) + GroundTolerance
    IN Resolved(placed, SpeedNote(request.ias, placed.ias, CategoryDefault("unattributed"), onGround),
                {}, <<>>)

ResolveWaypoint(request, category) ==
    LET fixes == GetFixes(request.ident, request.region, request.terminal) IN
    IF fixes = <<>> THEN Refusal(404)
    ELSE LET placed == Airborne(AtAltitude(fixes[1].at, request.altitude),
                                Else(request.heading, 0),
                                Else(request.ias, CirclingSpeed[category]))
         IN Resolved(placed, SpeedNote(request.ias, placed.ias, CategoryDefault("circling"), FALSE),
                     (IF Len(fixes) > 1 THEN {"several_fixes"} ELSE {})
                         \cup (IF request.heading = {} THEN {"no_course"} ELSE {}),
                     <<>>)

LegsNumbered(procedure, sequence) == SelectSeq(procedure.legs, LAMBDA l : l.sequence = sequence)
ProceduresOf(request) ==
    {p \in GetProcedure(ParseFile(request.file), request.kind, request.ident, request.transition) :
        LegsNumbered(p, request.sequence) # <<>>}

\* At a leg: one without a coordinate is refused.
PlacedAtLeg(request, procedure, leg, category) ==
    LET altitude == IF request.altitude # {} THEN request.altitude
                    ELSE UNION {SuggestedAltitude(a) : a \in leg.altitude}
    IN IF ~leg.positionable \/ altitude = {} THEN Refusal(422)
       ELSE With(ProcedureLegPlacement(procedure, leg, The(altitude), request.ias, category),
                 LAMBDA placed :
                Resolved(placed,
                         SpeedNote(request.ias, placed.ias,
                                   SpeedProvenance(placed.ias, category, Bound(leg.speed, "min"),
                                                   Bound(leg.speed, "max")), FALSE),
                         AltitudeNote(request.altitude, leg.altitude, "published_altitude"), <<>>))

\* The first leg with the sequence number.
ResolveProcedureLeg(request, category) ==
    LET found == ProceduresOf(request) IN
    IF found = {} THEN Refusal(404)
    ELSE With(The(found), LAMBDA procedure :
             With(Head(LegsNumbered(procedure, request.sequence)), LAMBDA leg :
                 PlacedAtLeg(request, procedure, leg, category)))

\* Always at the fix: the request names no other point of the racetrack.
ResolveHold(request, category) ==
    LET holds == GetHold(request.ident) IN
    IF holds = {} THEN Refusal(404)
    ELSE LET hold == The(holds)
             altitude == HoldAltitude(hold, request.altitude)
         IN IF altitude = {} THEN Refusal(422)
            ELSE With(HoldPlacementAt(hold, "hold_fix", Else(HoldVariation(hold), 0),
                                      The(altitude), request.ias, category), LAMBDA placed :
                     Resolved(placed,
                              SpeedNote(request.ias, placed.ias,
                                        SpeedProvenance(placed.ias, category, {}, hold.speed), FALSE),
                              AltitudeNote(request.altitude, hold.min, "published_minimum"), <<>>))

Resolve(request, navdata, stalling) ==
    LET stated == IF "category" \in DOMAIN request THEN request.category ELSE {} IN
    With(RequestCategory(stated, stalling), LAMBDA category :
        CASE request.type = "coordinate" -> ResolveCoordinate(request, navdata)
          [] request.type # "coordinate" /\ ~navdata -> Refusal(503)
          [] request.type = "runway"           /\ navdata -> ResolveRunway(request, category)
          [] request.type = "runway_threshold" /\ navdata -> ResolveThreshold(request)
          [] request.type = "parking"          /\ navdata -> ResolveParking(request)
          [] request.type = "waypoint"         /\ navdata -> ResolveWaypoint(request, category)
          [] request.type = "procedure_leg"    /\ navdata -> ResolveProcedureLeg(request, category)
          [] request.type = "hold"             /\ navdata -> ResolveHold(request, category))

-----------------------------------------------------------------------------
(* The configuration a placement asks for, and the instructor's edits      *)

\* Ratios in hundredths.
ProfileSetup(placement) ==
    CASE placement.profile = "final" ->
           Over(Over([gear |-> TRUE, flaps |-> 50, throttle |-> 30, trim |-> 10, roll |-> 0,
                      lights |-> [landing |-> TRUE]],
                     IF placement.glideslope = {} THEN <<>>
                     ELSE [vertical |-> -((placement.ias * FeetPerUnit(The(placement.glideslope))) \div 30)]),
                IF placement.ils = {} THEN <<>>
                ELSE [nav1 |-> The(placement.ils).khz, obs1 |-> The(placement.ils).course])
      [] placement.profile = "circuit" ->
           [gear |-> placement.leg \subseteq {"downwind", "base"},
            flaps |-> IF placement.leg = {"base"} THEN 25 ELSE 0,
            throttle |-> 50, trim |-> 0, roll |-> 0, vertical |-> 0]
      [] placement.profile = "airborne" ->
           [gear |-> FALSE, flaps |-> 0, throttle |-> 60, trim |-> 0, roll |-> 0, vertical |-> 0]
      [] placement.profile = "ground" ->
           [gear |-> TRUE, flaps |-> 0, throttle |-> 0, trim |-> 0]

ToSetup(placement) ==
    Over([altitude |-> placement.position.altitude, heading |-> placement.heading,
          ias |-> placement.ias], ProfileSetup(placement))

\* Field by field at the top; the lights are one field.
MergeSetup(base, edits) == Over(edits, base)

\* Where the adapter is told to go is edited too: altitude and heading.
PlacedAsEdited(placement, setup) ==
    [position |-> Point(placement.position.x, placement.position.y, setup.altitude),
     heading  |-> Fold(setup.heading)]
=============================================================================
