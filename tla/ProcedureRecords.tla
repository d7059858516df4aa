--------------------------- MODULE ProcedureRecords ---------------------------
(***************************************************************************)
(* One airport's procedure file (cifp.py): its lines, the runways and the  *)
(* procedures they say.  A file is the sequence of its lines; a line is a  *)
(* record of the fields a procedure is built from.  A runway is the pair of*)
(* its number and its side.  Absent values are empty sets.                 *)
(***************************************************************************)
EXTENDS Plane, Sequences, SequencesExt

CONSTANT Index      \* what the navigation index resolves: fix name -> point

RecordKinds == [SID |-> "sid", STAR |-> "star", APPCH |-> "approach"]

PositionableTerminators == {"IF", "TF", "CF", "DF", "AF", "RF"}
TrajectoryTerminators   == {"CA", "VA", "FM", "VM", "CD", "CI", "CR", "VD", "VI", "VR",
                            "FA", "FC", "FD"}
ManoeuvreTerminators    == {"HA", "HF", "HM", "PI"}
Terminators == PositionableTerminators \cup TrajectoryTerminators \cup ManoeuvreTerminators

-----------------------------------------------------------------------------
(* Runways, and the names procedures have for them                         *)

Sides == <<"", "C", "L", "R">>
SideRank(side) == CHOOSE i \in DOMAIN Sides : Sides[i] = side
Precedes(a, b) == a[1] < b[1] \/ (a[1] = b[1] /\ SideRank(a[2]) < SideRank(b[2]))
Sorted(runways) == SetToSortSeq(runways, Precedes)

\* A name is a runway (kind "runway": number, side), a parallel group (side
\* "B"), "all" (ALL or blank) or anything else ("named").
ExpandRunwayTransition(name, runways) ==
    LET numbered == Sorted({r \in runways : r[1] = name.number}) IN
    CASE name.kind = "all"   -> Sorted(runways)
      [] name.kind = "named" -> <<>>
      [] name.kind = "runway" ->
           IF <<name.number, name.side>> \in runways THEN <<<<name.number, name.side>>>>
           ELSE IF name.side \in {"", "B"} THEN numbered ELSE <<>>

AllRunways == [kind |-> "all", number |-> 0, side |-> ""]
Named      == [kind |-> "named", number |-> 0, side |-> ""]
ForRunway(number, side) == [kind |-> "runway", number |-> number, side |-> side]

\* The runway an approach is named for: D14, I32L; none for a circling one.
ApproachRunways(ident, runways) ==
    IF ident.runway = {} THEN <<>>
    ELSE LET r == CHOOSE r \in ident.runway : TRUE
         IN ExpandRunwayTransition(ForRunway(r[1], r[2]), runways)

-----------------------------------------------------------------------------
(* The lines: split first, so that every runway is known before any leg    *)

ReadableRunway(line) == line.type = "RWY" /\ line.located
\* Only the runways described before the first leg (a mutant of Runways).
RunwaysAbove(file) ==
    LET leg == SelectInSeq(file, LAMBDA line : line.type \in DOMAIN RecordKinds) IN
    SelectSeq(IF leg = 0 THEN file ELSE SubSeq(file, 1, leg), ReadableRunway)

Runways(file)  == SelectSeq(file, ReadableRunway)
Deferred(file) == SelectSeq(file, LAMBDA line : line.type \in DOMAIN RecordKinds)
BadRunways(file) == Len(SelectSeq(file, LAMBDA line : line.type = "RWY" /\ ~line.located))
IdentsOf(runways) == {runways[i].ident : i \in DOMAIN runways}

\* A leg names its fix by the four-part key; section PG is an airport's own
\* runway.  The last record of a runway is the one the table keeps.
ResolveFix(ref, runways) ==
    IF ref.own /\ ref.runway \in IdentsOf(runways)
    THEN LET last == SelectLastInSeq(runways, LAMBDA r : r.ident = ref.runway)
         IN {[name |-> ref.name, kind |-> "runway", at |-> runways[last].at]}
    ELSE IF ref.name \in DOMAIN Index
         THEN {[name |-> ref.name, kind |-> "fix", at |-> Index[ref.name]]} ELSE {}

UnpositionableReason(line) ==
    CASE line.terminator \notin PositionableTerminators -> "no coordinate without the flown path"
      [] line.terminator \in PositionableTerminators /\ line.ref = {} -> "names no fix"
      [] OTHER -> "not found in the index"

-----------------------------------------------------------------------------
(* The restrictions a leg publishes                                        *)

FeetOf(altitude) == {IF a.level THEN a.value * 100 ELSE a.value : a \in altitude}

\* line.altitude: the descriptor and the two published altitudes.
AltitudeConstraint(field) ==
    LET first == FeetOf(field.first)  second == FeetOf(field.second)
        bounds == CASE field.descriptor = "B"         -> [min |-> second, max |-> first]
                    [] field.descriptor \in {"+", "V"} -> [min |-> first, max |-> {}]
                    [] field.descriptor = "-"         -> [min |-> {}, max |-> first]
                    [] field.descriptor = "C"         -> [min |-> second, max |-> {}]
                    [] OTHER                          -> [min |-> first, max |-> first]
    IN IF bounds.min = {} /\ bounds.max = {} THEN {} ELSE {bounds}

SuggestedAltitude(bounds) == IF bounds.min # {} THEN bounds.min ELSE bounds.max

SpeedConstraint(field) ==
    LET limit == {v \in field.limit : v >= 0} IN
    IF limit = {} THEN {}
    ELSE {IF field.descriptor = "+" THEN [min |-> limit, max |-> {}]
          ELSE [min |-> {}, max |-> limit]}

-----------------------------------------------------------------------------
(* Legs, and the procedures they make up                                   *)

ReadableLeg(line) == ~line.short /\ line.terminator \in Terminators

LegOf(line, runways) ==
    LET fix == UNION {ResolveFix(ref, runways) : ref \in line.ref}
        positionable == line.terminator \in PositionableTerminators /\ fix # {}
    IN [sequence |-> line.sequence, terminator |-> line.terminator,
        positionable |-> positionable,
        reason |-> IF positionable THEN {} ELSE {UnpositionableReason(line)},
        ref |-> line.ref, fix |-> fix,
        altitude |-> AltitudeConstraint(line.altitude), speed |-> SpeedConstraint(line.speed),
        course |-> line.course, distance |-> line.distance]

KeyOf(line) == [kind |-> RecordKinds[line.type], ident |-> line.ident,
                transition |-> line.transition]

\* Under its key, in the order of the file; the first record's route type stays.
AddLeg(builders, line, runways) ==
    LET at == SelectInSeq(builders, LAMBDA b : b.key = KeyOf(line)) IN
    IF at = 0
    THEN Append(builders, [key |-> KeyOf(line), route |-> line.route,
                           legs |-> <<LegOf(line, runways)>>])
    ELSE [builders EXCEPT ![at].legs = Append(@, LegOf(line, runways))]

BuildProcedures(lines, runways) ==
    FoldLeft(LAMBDA builders, line : AddLeg(builders, line, runways), <<>>, lines)

ApproachTypes ==
    [B |-> "loc", D |-> "vor_dme", F |-> "rnav", G |-> "igs", H |-> "rnav", I |-> "ils",
     J |-> "gls", L |-> "loc", M |-> "mls", N |-> "ndb", P |-> "gps", Q |-> "ndb_dme",
     R |-> "rnav", S |-> "vor", U |-> "sdf", V |-> "vor", W |-> "mls", X |-> "lda", Y |-> "mls"]
ApproachType(route) == IF route \in DOMAIN ApproachTypes THEN ApproachTypes[route] ELSE "unknown"

\* ALL and a blank transition are both the common route.
TransitionOf(name) == IF name.kind = "all" THEN {} ELSE {name}

ProcedureOf(builder, runways) ==
    LET approach == builder.key.kind = "approach" IN
    [kind |-> builder.key.kind, ident |-> builder.key.ident,
     transition |-> TransitionOf(builder.key.transition),
     runways |-> IF approach THEN ApproachRunways(builder.key.ident, IdentsOf(runways))
                 ELSE ExpandRunwayTransition(builder.key.transition, IdentsOf(runways)),
     approach |-> IF approach THEN {ApproachType(builder.route)} ELSE {},
     legs |-> builder.legs]

ParseFile(file) ==
    LET runways  == Runways(file)
        readable == SelectSeq(Deferred(file), ReadableLeg)
        built    == BuildProcedures(readable, runways)
    IN [runways |-> runways,
        procedures |-> [i \in DOMAIN built |-> ProcedureOf(built[i], runways)],
        skipped |-> BadRunways(file) + Len(Deferred(file)) - Len(readable)]

\* The first that matches: two common routes (ALL and blank) can share a name.
GetProcedure(airport, kind, ident, transition) ==
    LET matches(p) == p.kind = kind /\ p.ident = ident /\ p.transition = transition
        at == SelectInSeq(airport.procedures, matches)
    IN IF at = 0 THEN {} ELSE {airport.procedures[at]}
=============================================================================
