---------------------------- MODULE MCStationSetup ----------------------------
(* One airport, two runway ends and four fixes on a plane; files of up to three *)
(* lines, and a few longer ones; nine requests that write.                      *)
EXTENDS StationSetup, TLC

CONSTANTS c1, c2

MCClients == {c1, c2}
Symmetry == Permutations(MCClients)

MCIndex == [A |-> Point(0, 0, 0), B |-> Point(4, 0, 0), C |-> Point(4, 4, 0), D |-> Point(8, 0, 0)]

Ils(glideslope) == [khz |-> 110300, course |-> 2, glideslope |-> glideslope]
MCRunwayEnds ==
    {[ident |-> <<36, "">>, threshold |-> Point(4, -4, 1000), axis |-> 0, length |-> 4,
      elevation |-> 1000, ils |-> {Ils({3})}],
     [ident |-> <<18, "L">>, threshold |-> Point(4, 0, 1000), axis |-> 225, length |-> 3,
      elevation |-> 1000, ils |-> {Ils({})}]}
End36 == CHOOSE r \in MCRunwayEnds : r.ident = <<36, "">>

MCStands == << [airport |-> "LE", name |-> "T1", at |-> Point(4, -5, 1000), heading |-> 90] >>

Fix(ident, region, at) == [ident |-> ident, region |-> region, terminal |-> {}, at |-> at]
MCFixTable == << Fix("A", "LE", MCIndex.A), Fix("A", "LF", MCIndex.D), Fix("B", "LE", MCIndex.B) >>

Hold(turn, length, time, min, speed) ==
    [ident |-> turn, at |-> MCIndex.B, inbound |-> 90, turn |-> turn, length |-> length,
     time |-> time, min |-> min, max |-> {}, speed |-> speed, airport |-> {"LE"}]
MCHoldTable == << Hold("L", {}, {}, {15000}, {210}), Hold("R", {5}, {}, {}, {}) >>

MCAirfields == {[icao |-> "LE", at |-> Point(4, -4, 0), elevation |-> 1000, variation |-> {45}]}

C172 == [empty |-> 743, emptyArm |-> 390, takeoff |-> 1157, tanks |-> <<76, 76>>,
         tankArms |-> <<480, 480>>, stations |-> <<85, 85, 45>>, stationArms |-> <<370, 730, 950>>,
         envelope |-> << [weight |-> 700, forward |-> 340, aft |-> 410],
                         [weight |-> 1000, forward |-> 350, aft |-> 405],
                         [weight |-> 1157, forward |-> 355, aft |-> 400] >>]
\* A type with an arm for two of the three stations the simulator reports.
Short == [C172 EXCEPT !.stations = <<85, 85>>, !.stationArms = <<370, 730>>]
MCLimitsTable == [C172 |-> C172, SHRT |-> Short]

-----------------------------------------------------------------------------
(* The files                                                               *)

Ref(name) == {[name |-> name, own |-> FALSE, runway |-> <<0, "">>]}
Own(number, side) == {[name |-> "RW", own |-> TRUE, runway |-> <<number, side>>]}
At(descriptor, first, second) ==
    [descriptor |-> descriptor,
     first |-> {[value |-> v, level |-> FALSE] : v \in first},
     second |-> {[value |-> v, level |-> FALSE] : v \in second}]
Free == At("", {}, {})
NoLimit == [descriptor |-> "", limit |-> {}]
Strip(number, side, located, x) ==
    [type |-> "RWY", ident |-> <<number, side>>, located |-> located, at |-> Point(x, -4, 900)]
Leg(type, transition, sequence, terminator, ref) ==
    [type |-> type, short |-> FALSE, sequence |-> sequence, route |-> "I",
     ident |-> [name |-> "P1", runway |-> {<<36, "B">>}], transition |-> transition, ref |-> ref,
     terminator |-> terminator, altitude |-> Free, speed |-> NoLimit, course |-> {},
     distance |-> {}]

Lines ==
    {Strip(36, "L", TRUE, 4), Strip(36, "R", TRUE, 5), Strip(36, "L", FALSE, 0), Strip(18, "", TRUE, 4),
     Leg("SID", ForRunway(36, "B"), 10, "TF", Ref("A")),
     Leg("SID", AllRunways, 10, "TF", Own(36, "L")),
     Leg("SID", AllRunways, 20, "CA", {}),
     Leg("STAR", ForRunway(36, "L"), 10, "IF", Ref("Z")),
     Leg("APPCH", Named, 30, "XX", Ref("A")),
     [Leg("APPCH", Named, 30, "CF", Ref("B")) EXCEPT !.short = TRUE],
     Leg("APPCH", Named, 30, "CF", Own(36, "R"))}
MCFiles == UNION {[1 .. n -> Lines] : n \in 1 .. 3}

\* Longer procedures: a departure with every kind of leg, and restrictions.
Restricted(leg, altitude, speed) == [leg EXCEPT !.altitude = altitude, !.speed = speed]
Limited(descriptor, limit) == [descriptor |-> descriptor, limit |-> {limit}]
Departure ==
    << Strip(36, "", TRUE, 4),
       Restricted(Leg("SID", AllRunways, 10, "IF", Own(36, "")), At("+", {1500}, {}), NoLimit),
       Leg("SID", AllRunways, 20, "CA", {}),
       Restricted(Leg("SID", AllRunways, 30, "TF", Ref("B")), At("B", {9000}, {4000}), Limited("-", 100)),
       Restricted(Leg("SID", AllRunways, 40, "TF", Ref("C")), At("-", {7000}, {}), Limited("+", 300)),
       Restricted(Leg("SID", AllRunways, 50, "HM", Ref("A")), Free, NoLimit),
       Restricted(Leg("SID", AllRunways, 60, "DF", Ref("A")), Free, Limited("-", 80)) >>
Approach ==
    << Leg("APPCH", AllRunways, 10, "IF", Ref("A")), Leg("APPCH", AllRunways, 20, "TF", Ref("B")),
       Leg("APPCH", AllRunways, 30, "TF", Ref("D")), Leg("APPCH", AllRunways, 40, "TF", Ref("B")),
       Leg("APPCH", AllRunways, 50, "TF", Ref("A")) >>
Shuffled == << Approach[3], Approach[1], Approach[2] >>
\* Three short segments and a long one, which is drawn shorter.
Stretched ==
    << Leg("STAR", AllRunways, 10, "IF", Ref("E")), Leg("STAR", AllRunways, 20, "TF", Ref("A")),
       Leg("STAR", AllRunways, 30, "TF", Ref("B")), Leg("STAR", AllRunways, 40, "TF", Ref("C")),
       Leg("STAR", AllRunways, 50, "FM", {}) >>

Field == CHOOSE a \in MCAirfields : TRUE
Drawings ==
    {[op |-> "layout", procedure |-> ParseFile(f).procedures[1], airport |-> [Field EXCEPT !.variation = v],
      runway |-> r] : f \in {Departure, Approach, Shuffled, Stretched, SubSeq(Departure, 1, 3),
                             SubSeq(Departure, 4, 7), <<Departure[3], Departure[4]>>},
                      v \in {{}, {45}}, r \in {{}, {End36}}}

-----------------------------------------------------------------------------
(* The questions                                                           *)

Opt(values) == {{}} \cup {{v} : v \in values}

Place(request) == [op |-> "place", request |-> request]
OnRunway(placement, glideslope, width, ias, category) ==
    [type |-> "runway", runway |-> <<36, "">>, placement |-> placement, glideslope |-> glideslope,
     patternAltitude |-> {}, width |-> width, legDistance |-> {}, ias |-> ias, category |-> category]
RunwayQuestions ==
    {Place([OnRunway(p, g, w, i, c) EXCEPT !.runway = r]) :
        p \in RunwayPlacements, g \in Opt({5}), w \in Opt({4}), i \in Opt({0, 100}),
        c \in {{}, {"E"}}, r \in {<<36, "">>, <<18, "L">>, <<9, "">>}}
LegQuestions ==
    {Place([type |-> "procedure_leg", file |-> Departure, kind |-> "sid",
            ident |-> Departure[2].ident, transition |-> {}, sequence |-> n, altitude |-> a,
            ias |-> i, category |-> c]) :
        n \in {10, 20, 30, 40, 50, 60, 70}, a \in Opt({6000}), i \in Opt({0, 250}),
        c \in {{}, {"A"}, {"D"}}}
HoldQuestions ==
    {Place([type |-> "hold", ident |-> h, altitude |-> a, ias |-> i, category |-> c]) :
        h \in {"L", "R", "X"}, a \in Opt({5000}), i \in Opt({0, 240}), c \in {{}, {"E"}}}
OtherQuestions ==
    {Place([type |-> "runway_threshold", runway |-> r]) : r \in {<<36, "">>, <<9, "">>}}
    \cup {Place([type |-> "parking", airport |-> "LE", stand |-> n]) : n \in {"T1", "T2"}}
    \cup {Place([type |-> "coordinate", at |-> Point(x, 0, h), heading |-> d, ias |-> i]) :
             x \in {4, 400}, h \in {0, 1050, 5000}, d \in Opt({360}), i \in Opt({0, 120})}
    \cup {Place([type |-> "waypoint", ident |-> f, region |-> r, terminal |-> {}, altitude |-> 5000,
                 heading |-> d, ias |-> i, category |-> {}]) :
             f \in {"A", "B", "X"}, r \in Opt({"LF"}), d \in Opt({90}), i \in Opt({0})}

Overlays == {[dewpoint |-> 20], [visibility |-> 500, qnh |-> 990], [cloud |-> <<>>],
             [wind |-> << Wind(1500, 90, 10, 0, 0), Wind(1600, 90, 10, 0, 0) >>]}
WeatherRequest(preset, airport, runway, overlay) ==
    [preset |-> preset, airport |-> airport, runway |-> runway, setup |-> overlay]
WeatherQuestions ==
    {[op |-> "weather", request |-> WeatherRequest({p}, a, r, o)] :
        p \in DOMAIN WeatherPresets, a \in {{}, {"LE"}, {"XX"}},
        r \in {<<>>, << <<18, "L">> >>, << <<9, "">> >>}, o \in {{}} \cup {{o} : o \in Overlays}}

FuelRequest(preset, tanks, stations, override) ==
    [preset |-> preset, tanks |-> tanks, stations |-> stations, override |-> override]
FuelQuestions ==
    {[op |-> "fuel", request |-> FuelRequest(p, t, {}, FALSE)] :
        p \in Opt(DOMAIN FuelPresets), t \in {{}, {2 :> 40}, {3 :> 40}}}

MCPreviews ==
    RunwayQuestions \cup LegQuestions \cup HoldQuestions \cup OtherQuestions
    \cup {[op |-> "file", file |-> f] : f \in MCFiles} \cup Drawings
    \cup WeatherQuestions \cup FuelQuestions

-----------------------------------------------------------------------------
(* The requests that write                                                 *)

MCSetups ==
    { [op |-> "place", request |-> [placement |-> OnRunway("final_5nm", {}, {}, {}, {}),
                                    edits |-> [heading |-> 45, director |-> TRUE, fuel |-> 40]]],
      [op |-> "setup", request |-> [master |-> TRUE, nav_mode |-> TRUE, approach_mode |-> TRUE,
                                    ils |-> 109900, lights |-> [taxi |-> TRUE, landing |-> FALSE],
                                    nav2 |-> 113450, target_heading |-> 270, pitch |-> 2,
                                    gross_weight |-> 900, loadout |-> [tanks |-> 2 :> 35]]],
      [op |-> "weather", request |-> WeatherRequest({"mountain_wave"}, {"LE"}, <<>>, {})],
      [op |-> "weather", request |-> WeatherRequest({}, {}, <<>>,
                         {[visibility |-> 3000, qnh |-> 998, precipitation |-> 100,
                           contamination |-> "puddles"]})],
      [op |-> "weather", request |-> WeatherRequest({"crosswind"}, {"LE"}, << <<18, "L">> >>,
                         {[cloud |-> << Cloud(1250, 3500, 100, "stratus") >>]})],
      [op |-> "weather", request |-> WeatherRequest({}, {}, <<>>, {[temperature |-> 18, dewpoint |-> 12]})],
      [op |-> "weather", request |-> WeatherRequest({"cat_i"}, {"LE"}, <<>>, {[dewpoint |-> 20]})],
      [op |-> "fuel", request |-> FuelRequest({"training"}, {2 :> 60}, {}, FALSE)],
      [op |-> "fuel", request |-> FuelRequest({"full"}, {}, {}, TRUE)] }

\* A known and an unknown airframe, one whose table is short; a simulator that
\* keeps its own weather, one without wind levels, one already in manual weather.
Start(navdata, type, stalling, exposed, obeys, source) ==
    [navdata |-> navdata, airframe |-> [type |-> type, stalling |-> stalling, limits |-> {}],
     exposed |-> exposed, obeys |-> obeys, source |-> source]
MCStarts ==
    {Start(TRUE, {"C172"}, {47}, WeatherFields, TRUE, 1), Start(FALSE, {}, {}, WeatherFields, FALSE, 1),
     Start(TRUE, {}, {}, {"cloud", "visibility", "qnh"}, TRUE, 1),
     Start(TRUE, {"SHRT"}, {}, WeatherFields, TRUE, 0)}

MCFirstSim ==
    [ref \in Scalars \X {0} |->
        CASE ref[1] = "qnh" -> 1013 [] ref[1] = "temperature" -> 9 [] ref[1] = "visibility" -> 9000
          [] ref[1] = "altitude" -> 1000 [] ref[1] = "tanks" -> 2 [] OTHER -> 0]
    @@ [ref \in {"tank", "station"} \X Slots |-> 20]
    @@ [ref \in {"wind"} \X (1 .. WindLevels) |-> Wind(2000 * ref[2], 90 * ref[2], 10, 0, 0)]
    @@ [ref \in {"cloud", "sky"} \X (1 .. CloudSlots) |->
           CASE ref[2] = 1 -> Cloud(1250, 2000, 100, "stratus")
             [] ref[2] = 2 -> Cloud(5000, 6000, 50, "cumulus") [] OTHER -> NoCloud]
    @@ [ref \in {"aloft", "dewpoint"} \X (1 .. WindLevels) |-> 5]
=============================================================================
