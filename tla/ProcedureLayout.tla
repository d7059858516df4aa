--------------------------- MODULE ProcedureLayout ---------------------------
(***************************************************************************)
(* A procedure drawn as a diagram (core/procedure_layout.py): a long       *)
(* segment is shortened, a leg without a fix advances a nominal length, and*)
(* the runway or the last fix sits at the origin.  An airport is a record  *)
(* of its place, elevation and magnetic variation; runway is {} or {end}.  *)
(***************************************************************************)
EXTENDS Placements

NominalLeg == 4
LongFactor == 3
MinSegmentsForCompression == 3

BySequence(legs) == SortSeq(legs, LAMBDA a, b : a.sequence < b.sequence)

FixAt(leg) == {fix.at : fix \in leg.fix}
IsRunwayLeg(leg) == \E fix \in leg.fix : fix.kind = "runway"

\* Without two fixes: the published course made true, the previous bearing, the
\* runway's, north.
CourseBearing(leg, airport, previous, runway) ==
    CASE leg.course # {} /\ airport.variation # {} ->
             TrueFromMagnetic(The(leg.course), The(airport.variation))
      [] OTHER -> Else(previous, Else({r.axis : r \in runway}, 0))

\* The edge from leg i to leg i + 1, given the bearings of the edges before it.
Edge(legs, i, airport, runway, previous) ==
    LET a == FixAt(legs[i])  b == FixAt(legs[i + 1]) IN
    IF a # {} /\ b # {}
    THEN LET length == DistanceOf(The(a), The(b)) IN
         [length |-> length, geodesic |-> TRUE,
          bearing |-> IF length # 0 THEN BearingOf(The(a), The(b))
                      ELSE Else(previous, CourseBearing(legs[i + 1], airport, {}, runway))]
    ELSE [length |-> Else(legs[i + 1].distance, NominalLeg), geodesic |-> FALSE,
          bearing |-> CourseBearing(legs[i + 1], airport, previous, runway)]

Edges(legs, airport, runway) ==
    LET edge[i \in 1 .. Len(legs) - 1] ==
            Edge(legs, i, airport, runway, IF i = 1 THEN {} ELSE {edge[i - 1].bearing})
    IN [i \in 1 .. Len(legs) - 1 |-> edge[i]]

\* Of a sequence of numbers that is not empty.
Median(lengths) ==
    LET sorted == SortSeq(lengths, <)
        half == Len(lengths) \div 2
    IN IF Len(lengths) % 2 = 1 THEN sorted[half + 1] ELSE (sorted[half] + sorted[half + 1]) \div 2

\* The length past which a segment is shortened to it; none for a short procedure.
Cap(edges) ==
    LET measured == SelectSeq(edges, LAMBDA e : e.geodesic /\ e.length > 0)
        lengths  == [i \in DOMAIN measured |-> measured[i].length]
    IN IF Len(lengths) < MinSegmentsForCompression THEN {} ELSE {LongFactor * Median(lengths)}

DrawnLength(length, geodesic, cap) ==
    Smaller(length, IF geodesic THEN Else(cap, length) ELSE NominalLeg)

Segments(legs, airport, runway) ==
    LET edges == Edges(legs, airport, runway)
        cap   == Cap(edges)
        drawn(e) == DrawnLength(e.length, e.geodesic, cap)
    IN [i \in DOMAIN edges |->
           [from |-> legs[i].sequence, to |-> legs[i + 1].sequence,
            length |-> edges[i].length, drawn |-> drawn(edges[i]), bearing |-> edges[i].bearing,
            compressed |-> edges[i].length > drawn(edges[i])]]

Origin == Point(0, 0, 0)

\* The nodes of a chain of segments, the first of which is at start.
Chain(segments, start) ==
    LET node[i \in 1 .. Len(segments) + 1] ==
            IF i = 1 THEN start
            ELSE Direct(node[i - 1], segments[i - 1].drawn, segments[i - 1].bearing)
    IN node

Minus(point, other) == [point EXCEPT !.x = @ - other.x, !.y = @ - other.y]

\* Which node sits at the origin: the runway's own leg, the one before the first
\* leg (0) when a runway is given, else the last leg with a fix.
AnchorOf(legs, runway) ==
    LET own   == SelectInSeq(legs, IsRunwayLeg)
        fixed == SelectLastInSeq(legs, LAMBDA l : l.fix # {})
    IN IF own # 0 THEN own ELSE IF runway # {} THEN 0 ELSE IF fixed # 0 THEN fixed ELSE Len(legs)

\* From a runway that is no leg of the procedure, to its first leg.
FirstNode(legs, airport, runway, cap) ==
    LET at == FixAt(legs[1])  threshold == {r.threshold : r \in runway}
        length  == IF at # {} THEN DistanceOf(The(threshold), The(at))
                   ELSE Else(legs[1].distance, NominalLeg)
        bearing == IF at # {} THEN BearingOf(The(threshold), The(at))
                   ELSE CourseBearing(legs[1], airport, {}, runway)
    IN Direct(Origin, DrawnLength(length, at # {}, cap), bearing)

NodesAt(legs, airport, runway) ==
    LET segments == Segments(legs, airport, runway)
        cap      == Cap(Edges(legs, airport, runway))
        anchor   == AnchorOf(legs, runway)
        chain    == Chain(segments, IF anchor = 0 THEN FirstNode(legs, airport, runway, cap)
                                    ELSE Origin)
    IN [i \in DOMAIN legs |-> IF anchor = 0 THEN chain[i] ELSE Minus(chain[i], chain[anchor])]

\* The airport: measured from the runway, or one more capped segment after the
\* node at the origin.
AirportAt(legs, airport, runway) ==
    LET anchor == AnchorOf(legs, runway)
        from   == IF anchor = 0 THEN {r.threshold : r \in runway} ELSE FixAt(legs[anchor])
        true   == IF from = {} THEN 0 ELSE DistanceOf(The(from), airport.at)
        bearing == IF from = {} THEN CourseBearing(legs[anchor], airport, {}, runway)
                   ELSE BearingOf(The(from), airport.at)
        byRunway == anchor = 0 \/ IsRunwayLeg(legs[anchor])
    IN Direct(Origin, IF byRunway THEN true
                      ELSE Smaller(true, Else(Cap(Edges(legs, airport, runway)), true)), bearing)

\* The published altitude, the runway's own, or not known.
KnownAltitude(leg) ==
    LET published == UNION {SuggestedAltitude(a) : a \in leg.altitude} IN
    IF published # {} THEN published
    ELSE IF IsRunwayLeg(leg) THEN {The(leg.fix).at.altitude} ELSE {}

\* Between two known altitudes in proportion to the true length, else the nearer
\* known one, else the airport's elevation.
Altitude(known, along, i, elevation) ==
    LET before == {j \in DOMAIN known : j < i /\ known[j] # {}}
        after  == {j \in DOMAIN known : j > i /\ known[j] # {}}
        b == CHOOSE j \in before : \A k \in before : k <= j
        a == CHOOSE j \in after : \A k \in after : j <= k
    IN CASE known[i] # {} -> The(known[i])
         [] known[i] = {} /\ before # {} /\ after # {} ->
              The(known[b]) + (IF along[a] = along[b] THEN 0
                               ELSE ((The(known[a]) - The(known[b])) * (along[i] - along[b]))
                                    \div (along[a] - along[b]))
         [] known[i] = {} /\ before # {} /\ after = {} -> The(known[b])
         [] known[i] = {} /\ before = {} /\ after # {} -> The(known[a])
         [] OTHER -> elevation

Layout(procedure, airport, runway) ==
    LET legs == BySequence(procedure.legs)
        segments == Segments(legs, airport, runway)
        known    == [i \in DOMAIN legs |-> KnownAltitude(legs[i])]
        along[i \in DOMAIN legs] == IF i = 1 THEN 0 ELSE along[i - 1] + segments[i - 1].length
        at == NodesAt(legs, airport, runway)
    IN [segments |-> segments,
        nodes |-> [i \in DOMAIN legs |->
                      [sequence |-> legs[i].sequence, at |-> at[i], fix |-> FixAt(legs[i]),
                       runway |-> IsRunwayLeg(legs[i]),
                       known |-> known[i],
                       altitude |-> Altitude(known, along, i, airport.elevation)]],
        airport |-> AirportAt(legs, airport, runway)]
=============================================================================
