----------------------------- MODULE FuelPayload -----------------------------
(***************************************************************************)
(* Fuel, payload and the mass and balance they make (core/fuel_payload,    *)
(* fuel_payload_routes.py).  A loadout is a pair of functions from slots to*)
(* masses in kilograms: slot i of the code is i + 1 here.  Moments are in  *)
(* kilogram tenths of an inch, and a centre of gravity is never divided:   *)
(* an arm is compared with it after multiplying by the weight.             *)
(***************************************************************************)
EXTENDS Placements

CONSTANT LimitsTable    \* what the station's own table publishes: airframe -> limits

FuelPresets ==
    [empty    |-> [fuel |-> 0,   stations |-> 0],
     training |-> [fuel |-> 50,  stations |-> 10],
     ferry    |-> [fuel |-> 100, stations |-> 0],
     full     |-> [fuel |-> 100, stations |-> 100]]

Loadout(tanks, stations) == [tanks |-> tanks, stations |-> stations]

\* The simulator's own facts, else the table's entry for its type, else unknown.
ResolveMassLimits(airframe) ==
    IF airframe.limits # {} THEN {[of |-> The(airframe.limits), source |-> "adapter"]}
    ELSE {[of |-> LimitsTable[t], source |-> "table"] : t \in airframe.type \cap DOMAIN LimitsTable}

\* Every known slot filled to the same share of its capacity, in percent.
ResolveFuelPreset(preset, limits) ==
    Loadout([i \in DOMAIN limits.tanks |-> (preset.fuel * limits.tanks[i]) \div 100],
            [i \in DOMAIN limits.stations |-> (preset.stations * limits.stations[i]) \div 100])

SumOf(masses) == FoldFunction(+, 0, masses)
MomentOf(masses, arms) == FoldFunction(+, 0, [i \in DOMAIN masses |-> masses[i] * arms[i]])

-----------------------------------------------------------------------------
(* The envelope: the limits at a weight are on the line between two points *)

OutsideRange(points, weight) == weight < points[1].weight \/ weight > points[Len(points)].weight

\* moment / weight against the limit at that weight, both sides multiplied by
\* the weight and by the segment's span.
Segment(points, weight) ==
    CHOOSE i \in 1 .. Len(points) - 1 :
        /\ points[i].weight <= weight /\ weight <= points[i + 1].weight
        /\ \A j \in 1 .. i - 1 : ~(points[j].weight <= weight /\ weight <= points[j + 1].weight)
LimitTimesSpan(points, i, weight, side) ==
    LET span == points[i + 1].weight - points[i].weight IN
    IF span = 0 THEN [limit |-> points[i][side], span |-> 1]
    ELSE [limit |-> points[i][side] * span
                    + (weight - points[i].weight) * (points[i + 1][side] - points[i][side]),
          span |-> span]

\* An arm is in inches; the moment in tenths of one.
Forward(points, weight, moment) ==
    LET at == LimitTimesSpan(points, Segment(points, weight), weight, "forward")
    IN moment * at.span < at.limit * weight
Aft(points, weight, moment) ==
    LET at == LimitTimesSpan(points, Segment(points, weight), weight, "aft")
    IN moment * at.span > at.limit * weight

Violations(limits, weight, moment) ==
    {v \in {"too_heavy", "outside_range", "forward", "aft"} :
        CASE v = "too_heavy"     -> weight > limits.takeoff
          [] v = "outside_range" -> OutsideRange(limits.envelope, weight)
          [] v = "forward" -> ~OutsideRange(limits.envelope, weight)
                              /\ Forward(limits.envelope, weight, moment)
          [] v = "aft"     -> ~OutsideRange(limits.envelope, weight)
                              /\ Aft(limits.envelope, weight, moment)}

\* A slot the limits give no arm is an error, not a result.
HasArms(loadout, limits) ==
    /\ DOMAIN loadout.tanks \subseteq DOMAIN limits.tankArms
    /\ DOMAIN loadout.stations \subseteq DOMAIN limits.stationArms

ComputeMassAndBalance(loadout, limits) ==
    LET fuel == SumOf(loadout.tanks)  payload == SumOf(loadout.stations) IN
    IF limits = {} THEN [gross |-> fuel + payload, within |-> "unknown", violations |-> {}]
    ELSE LET l == The(limits).of
             gross  == l.empty + fuel + payload
             moment == l.empty * l.emptyArm + MomentOf(loadout.tanks, l.tankArms)
                       + MomentOf(loadout.stations, l.stationArms)
             wrong  == Violations(l, gross, moment)
         IN [gross |-> gross, violations |-> wrong,
             within |-> IF wrong = {} THEN "inside" ELSE "outside"]

-----------------------------------------------------------------------------
(* A request: a preset, an overlay of slots, or both.  The overlay names   *)
(* its slots: a function from slot to mass                                 *)

FuelReply(loadout, balance) == [status |-> 200, loadout |-> loadout, balance |-> balance]

\* The overlay replaces the whole list, and only slots the simulator reports.
Overlaid(masses, overlay) == IF overlay = {} THEN masses ELSE The(overlay)

ResolveFuel(request, current, airframe) ==
    LET limits == ResolveMassLimits(airframe)
        base == IF request.preset = {} \/ limits = {} THEN current
                ELSE ResolveFuelPreset(FuelPresets[The(request.preset)], The(limits).of)
        loadout == Loadout(Overlaid(base.tanks, request.tanks),
                           Overlaid(base.stations, request.stations))
    IN CASE \/ request.preset # {} /\ limits = {}
            \/ \E t \in request.tanks : ~(DOMAIN t \subseteq DOMAIN current.tanks)
            \/ \E s \in request.stations : ~(DOMAIN s \subseteq DOMAIN current.stations)
            \/ limits # {} /\ ~HasArms(loadout, The(limits).of) -> Refusal(422)
         [] OTHER -> FuelReply(loadout, ComputeMassAndBalance(loadout, limits))

\* Outside the envelope only by the instructor's own word.
OutsideRefused(request, reply) ==
    ~Refused(reply) /\ reply.balance.within = "outside" /\ ~request.override
=============================================================================
