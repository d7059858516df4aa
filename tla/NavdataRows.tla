------------------------------ MODULE NavdataRows ------------------------------
(***************************************************************************)
(* What one line of the simulator's data files says to the index: apt.dat  *)
(* (apt.py) and the earth_*.dat files (earth.py).  A row is a record of the*)
(* fields a property tells apart; ok is FALSE where a field is missing or  *)
(* does not parse.  Coordinates are points of a line, packed numbers are   *)
(* numbers.                                                                *)
(***************************************************************************)
EXTENDS Integers, Sequences, SequencesExt

None == "none"

Nothing(skips) == [skips |-> skips, found |-> <<>>]
Found(record)  == [skips |-> 0, found |-> <<record>>]

-----------------------------------------------------------------------------
(* apt.dat                                                                 *)

Distance(a, b) == IF a < b THEN b - a ELSE a - b

\* The threshold is the pavement end walked forward by the displacement.
BuildEnd(end, other) ==
    [ident |-> end.ident, opposite |-> other.ident, pavement |-> end.at,
     threshold |-> IF end.at < other.at THEN end.at + end.displaced ELSE end.at - end.displaced,
     length |-> Distance(end.at, other.at)]

\* A short row, each bad end, or two ends in one place: nothing is kept of it.
ParseRunway(row) ==
    LET bad == {k \in 1 .. 2 : ~row.ends[k].ok} IN
    CASE ~row.ok -> Nothing(1)
      [] row.ok /\ bad # {} -> Nothing(IF bad = {1, 2} THEN 2 ELSE 1)
      [] OTHER ->
           IF row.ends[1].at = row.ends[2].at THEN Nothing(1)
           ELSE [skips |-> 0, found |-> <<BuildEnd(row.ends[1], row.ends[2]),
                                          BuildEnd(row.ends[2], row.ends[1])>>]

ParkingKinds == {"gate", "hangar", "tie_down", "misc"}
Operations   == {"none", "general_aviation", "airline", "cargo", "military"}

ParseParking(row) ==
    IF row.ok THEN Found([name |-> row.name, at |-> row.at, operation |-> None,
                          kind |-> IF row.kind \in ParkingKinds THEN row.kind ELSE "misc"])
    ELSE Nothing(1)

-----------------------------------------------------------------------------
(* earth_nav.dat                                                           *)

\* Row code, and the kind it stands for before the name is looked at.
NavaidKinds == (2 :> "ndb") @@ (3 :> "vor") @@ (4 :> "localizer") @@ (5 :> "localizer")
               @@ (6 :> "glideslope") @@ (12 :> "dme") @@ (13 :> "dme") @@ (14 :> "gls")
TerminalRows == {4, 5, 6, 7, 8, 9, 12, 14, 15, 16}

RefineKind(kind, word) ==
    CASE kind = "vor" /\ word = "VORTAC" -> "vortac"
      [] kind = "vor" /\ word = "VOR/DME" -> "vor_dme"
      [] kind = "dme" /\ word = "TACAN" -> "tacan"
      [] OTHER -> kind

\* Two courses in one number: magnetic * 360 + true.
DecodeLocalizer(packed) ==
    LET magnetic == packed \div 360 IN
    IF magnetic >= 360 THEN <<>>
    ELSE <<[true |-> packed % 360, magnetic |-> magnetic, angle |-> 0]>>

\* The glidepath in hundredths of a degree, and the bearing: angle * 1000 + true.
DecodeGlideslope(packed) ==
    LET angle == packed \div 1000  true == packed % 1000 IN
    IF angle = 0 \/ true >= 360 THEN <<>>
    ELSE <<[true |-> true, magnetic |-> 0, angle |-> angle]>>

NoCourse == [true |-> 0, magnetic |-> 0, angle |-> 0]
Courses(kind, packed) ==
    CASE kind = "localizer"  -> DecodeLocalizer(packed)
      [] kind = "glideslope" -> DecodeGlideslope(packed)
      [] OTHER               -> <<NoCourse>>

\* In kHz; 0 where there is none.  A GLS channel is not a frequency.
Frequency(kind, raw) ==
    CASE kind = "gls" \/ raw <= 0 -> 0
      [] kind = "ndb"             -> raw
      [] OTHER                    -> raw * 10

Scope(terminal) == IF terminal = "ENRT" THEN None ELSE terminal

\* row.word is the field after the region: a runway for a terminal row whose
\* word looks like one, otherwise the name.
RunwayOf(row) ==
    IF row.code \in TerminalRows /\ row.terminal # "ENRT" /\ row.isRunway THEN row.word ELSE None

ParseNavaid(row) ==
    CASE row.code = 0                       -> Nothing(1)     \* no row code
      [] row.code # 0 /\ row.code \notin DOMAIN NavaidKinds -> Nothing(0)     \* a marker
      [] OTHER ->
           LET kind == RefineKind(NavaidKinds[row.code], row.name)
               courses == Courses(kind, row.packed)
           IN IF ~row.ok \/ courses = <<>> THEN Nothing(1)
              ELSE Found([ident |-> row.ident, kind |-> kind, at |-> row.at,
                          region |-> row.region, airport |-> Scope(row.terminal),
                          runway |-> RunwayOf(row), khz |-> Frequency(kind, row.raw),
                          course |-> courses[1]])

-----------------------------------------------------------------------------
(* earth_fix.dat, earth_hold.dat                                           *)

ParseFix(row) ==
    IF row.ok THEN Found([ident |-> row.ident, at |-> row.at, region |-> row.region,
                          airport |-> Scope(row.terminal)])
    ELSE Nothing(1)

\* Time wins over length; 0 is "not published", and with neither it is no hold.
ParseHold(row) ==
    IF row.ok /\ (row.time > 0 \/ row.length > 0)
    THEN Found([fix |-> row.fix, region |-> row.region, airport |-> Scope(row.terminal),
                type |-> row.type, time |-> row.time,
                length |-> IF row.time > 0 THEN 0 ELSE row.length])
    ELSE Nothing(1)
=============================================================================
