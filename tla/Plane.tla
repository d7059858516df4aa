--------------------------------- MODULE Plane ---------------------------------
(***************************************************************************)
(* The ground the placements are computed on.  The code walks geodesics of *)
(* the WGS84 ellipsoid (geographiclib); here the ground is a plane, x east *)
(* and y north, whose unit is half a nautical mile.  Bearings are the eight*)
(* points of the compass and a distance is the larger of the two offsets,  *)
(* so that walking a bearing and measuring it back agree exactly.          *)
(***************************************************************************)
EXTENDS Integers

Larger(a, b)  == IF a < b THEN b ELSE a
Smaller(a, b) == IF a < b THEN a ELSE b
Abs(n)  == IF n < 0 THEN -n ELSE n
Sign(n) == IF n = 0 THEN 0 ELSE n \div Abs(n)

Point(x, y, altitude) == [x |-> x, y |-> y, altitude |-> altitude]

Fold(bearing) == bearing % 360

\* The nearest of the eight points.
Compass(bearing) == Fold(45 * ((Fold(bearing) + 22) \div 45))

East(bearing)  == CASE Compass(bearing) \in {45, 90, 135} -> 1
                    [] Compass(bearing) \in {225, 270, 315} -> -1
                    [] OTHER -> 0
North(bearing) == CASE Compass(bearing) \in {315, 0, 45} -> 1
                    [] Compass(bearing) \in {135, 180, 225} -> -1
                    [] OTHER -> 0

\* The point a distance away on a bearing, at the origin's altitude.
Direct(origin, distance, bearing) ==
    [origin EXCEPT !.x = @ + distance * East(bearing), !.y = @ + distance * North(bearing)]

DistanceOf(a, b) == Larger(Abs(b.x - a.x), Abs(b.y - a.y))

\* The bearing from a to b, to the nearest compass point; 0 between equal points.
BearingOf(a, b) ==
    LET towards == <<Sign(b.x - a.x), Sign(b.y - a.y)>> IN
    CASE towards = <<1, 1>>  -> 45  [] towards = <<1, 0>>   -> 90  [] towards = <<1, -1>> -> 135
      [] towards = <<0, -1>> -> 180 [] towards = <<-1, -1>> -> 225 [] towards = <<-1, 0>> -> 270
      [] towards = <<-1, 1>> -> 315 [] OTHER -> 0

\* Along the axis from the origin, then across it: to the right when positive.
Offset(origin, along, across, axis, altitude) ==
    LET turned == Direct(origin, along, axis)
        moved  == IF across = 0 THEN turned
                  ELSE Direct(turned, Abs(across), axis + 90 * Sign(across))
    IN [moved EXCEPT !.altitude = altitude]

\* The same, measured: how far a point lies along an axis, and to its right.
Along(origin, axis, point) ==
    ((point.x - origin.x) * East(axis) + (point.y - origin.y) * North(axis))
        \div (East(axis) * East(axis) + North(axis) * North(axis))
Across(origin, axis, point) == Along(origin, axis + 90, point)
=============================================================================
