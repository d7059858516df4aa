-------------------------- MODULE StationSetupProofs --------------------------
(***************************************************************************)
(* Proofs about StationSetup, for any number of clients, any requests of   *)
(* the routes' types and any simulator that has the adapter's datarefs.    *)
(* The invariant has four parts.  Orderly is about every request, however   *)
(* they interleave: the values and the steps are of their kinds, and       *)
(* nothing is written before the simulator has been checked to let go of   *)
(* its weather.  Underway is about a request that runs alone: from what    *)
(* the simulator has and the steps that are left, what was planned comes   *)
(* about, because each dataref already has the value that is wanted, or a  *)
(* step is left that writes it, and every step left writes what is wanted. *)
(* Aloft says the same of a weather request that runs alone, whose steps   *)
(* compute what they write from what was written before them: they are     *)
(* left in their order, and a step that was computed from the winds has    *)
(* the winds that are there.  Forecast is about the previews of weather.   *)
(*                                                                         *)
(* The lemmas follow the code: the lists of steps the adapter makes, what  *)
(* they hold and what a reading turns them into; the placements, profiles  *)
(* and weather the routes resolve; the plans; then the actions, for each   *)
(* part of the invariant.                                                  *)
(***************************************************************************)
EXTENDS StationSetup, SequenceTheorems, FiniteSetTheorems, WellFoundedInduction, TLAPS

-----------------------------------------------------------------------------
(* The inductive invariant.  Its first part is about every request: the    *)
(* kinds of the values, of the steps, and that the simulator is asked for  *)
(* manual weather before anything else is written                          *)

Modes == {Off, Director, Servos}

\* A flag that may be left out.
Flags == {{}, {TRUE}, {FALSE}}

AtMostOne(set) == \A a, b \in set : a = b

\* A sequence, of whatever it holds.
IsList(steps) == steps \in Seq(ToSet(steps))

Kinds == {"write", "masses", "mode", "fly", "teleport", "velocity", "manual", "check", "ladder",
          "dewpoints", "below", "settle"}

\* A step the adapter makes: what it writes, or will, is of the dataref's kind.
Proper(step) ==
    /\ step.do \in Kinds
    /\ step.do = "write" =>
          /\ step.ref \in Datarefs \ {<<"tanks", 0>>}
          /\ step.ref = <<"mode", 0>> => step.value \in Modes
          /\ step.ref[1] = "wind" => step.value.altitude \in Int
    /\ step.do = "masses" => step.name \in {"tank", "station"}
    /\ step.do = "mode" => step.director \in Flags /\ step.master \in Flags
    /\ step.do = "below" => step.altitudes \in Seq(Int) /\ Len(step.altitudes) = WindLevels

\* Only a weather request asks for manual weather.
Plain(steps) ==
    /\ IsList(steps)
    /\ \A step \in ToSet(steps) : Proper(step) /\ step.do \notin {"manual", "check"}

ManualRefs == {<<"update", 0>>, <<"change", 0>>}

\* Until manual weather is checked, nothing but the asking for it.
AsksFirst(steps, written) ==
    \A k \in DOMAIN steps : steps[k].do \in {"manual", "check"} =>
        /\ written \subseteq ManualRefs
        /\ \A j \in 1 .. k - 1 : steps[j].do = "write" /\ steps[j].ref \in ManualRefs

SimOK ==
    /\ DOMAIN sim = DOMAIN FirstSim
    /\ Reads("mode") \in Modes
    /\ Reads("tanks") = FirstSim[<<"tanks", 0>>]
    /\ \A i \in 1 .. WindLevels : sim[<<"wind", i>>].altitude \in Int

ClientOK(c) ==
    /\ ask[c] \subseteq Setups /\ AtMostOne(ask[c]) /\ AtMostOne(reply[c])
    /\ ~Busy(c) => todo[c] = <<>>
    /\ IsList(todo[c]) /\ \A step \in ToSet(todo[c]) : Proper(step)
    /\ AsksFirst(todo[c], wrote[c])
    /\ wrote[c] \subseteq Datarefs
    /\ alone[c] \in BOOLEAN /\ late[c] \in BOOLEAN
    /\ alone[c] => \A b \in Clients \ {c} : ~Busy(b)

Domains ==
    /\ DOMAIN todo = Clients /\ DOMAIN ask = Clients /\ DOMAIN reply = Clients
    /\ DOMAIN setup = Clients /\ DOMAIN wrote = Clients /\ DOMAIN alone = Clients
    /\ DOMAIN late = Clients

Bounds ==
    /\ station \in Starts /\ asked \in 0 .. MaxAsk /\ faults \in 0 .. MaxFaults
    /\ AtMostOne(answer)

Orderly == Bounds /\ Domains /\ SimOK /\ (\A c \in Clients : ClientOK(c)) /\ RefusedWritesNothing

-----------------------------------------------------------------------------
(* Its second part is about a request nobody disturbs: what is left to do  *)
(* still brings the simulator to what was planned                          *)

OwnName == {"flaps", "speedbrake", "trim", "throttle", "autobrake", "obs1", "obs2", "target_altitude",
          "target_ias", "target_vertical", "vertical", "altitude"}

MassIn(masses, i) == IF i \in DOMAIN masses THEN masses[i] ELSE 0

\* What a request is after, in a simulator whose air and tanks stay as they are.
Moving(stated) == States(stated, "ias") /\ States(stated, "altitude")
Aim(s, stated, mem) ==
    [setup  |-> stated,
     at     |-> IF s.op = "place"
                THEN Resolve(s.request.placement, station.navdata,
                             station.airframe.stalling).placement.position
                ELSE Point(0, 0, 0),
     placed |-> s.op = "place",
     facing |-> IF States(stated, "heading") THEN Fold(stated.heading) ELSE mem[<<"psi", 0>>],
     tas    |-> IF Moving(stated) THEN AirspeedAt(mem, stated.ias, stated.altitude) ELSE 0,
     wind   |-> IF Moving(stated) THEN WindAt(mem, stated.altitude) ELSE 0,
     tanks  |-> mem[<<"tanks", 0>>]]

\* The arrays of masses, and the half of a loadout that one of them takes.
Arrays == {"tank", "station"}
Loaded(stated, name) == stated.loadout[Half[name]]

\* Datarefs of fields that have another name or unit, and nothing else to them.
Others == {"nav2", "target_heading", "theta", "phi"}
WantsOther(stated, ref, value) ==
    /\ States(stated, "nav2") /\ ref = <<"nav2", 0>> => value = stated.nav2 \div 10
    /\ States(stated, "target_heading") /\ ref = <<"target_heading", 0>> =>
          value = Fold(stated.target_heading)
    /\ States(stated, "pitch") /\ ref = <<"theta", 0>> => value = stated.pitch
    /\ States(stated, "roll") /\ ref = <<"phi", 0>> => value = stated.roll

\* The value is the one the aim wants in that dataref, if it wants any.
Wants(aim, ref, value) ==
    LET stated == aim.setup IN
    /\ \A f \in OwnName \cap DOMAIN stated : ref = <<f, 0>> => value = stated[f]
    /\ States(stated, "gear") /\ ref = <<"gear", 0>> => value = Number(stated.gear)
    /\ States(stated, "nav1") /\ ref = <<"nav1", 0>> => value = stated.nav1 \div 10
    /\ States(stated, "ils") /\ ~States(stated, "nav1") /\ ref = <<"nav1", 0>> =>
          value = stated.ils \div 10
    /\ States(stated, "lights") => \A switch \in DOMAIN stated.lights :
          ref = <<switch, 0>> => value = Number(stated.lights[switch])
    /\ ref = <<"mode", 0>> /\ States(stated, "master") => (value = Servos <=> stated.master)
    /\ ref = <<"mode", 0>> /\ States(stated, "director") =>
          (stated.director => value \in {Director, Servos})
    /\ States(stated, "heading") /\ ref = <<"psi", 0>> => value = aim.facing
    /\ Moving(stated) =>
          /\ ref = <<"vx", 0>> =>
                value = aim.tas * East(aim.facing) - aim.wind.speed * East(aim.wind.direction)
          /\ ref = <<"vy", 0>> => value = Else(Stated(stated, "vertical"), 0)
          /\ ref = <<"vz", 0>> =>
                value = aim.wind.speed * North(aim.wind.direction) - aim.tas * North(aim.facing)
    /\ Loads(stated, "tank") =>
          \A i \in Slots : ref = <<"tank", i>> => value = MassIn(Loaded(stated, "tank"), i)
    /\ Loads(stated, "station") =>
          \A i \in Slots : ref = <<"station", i>> => value = MassIn(Loaded(stated, "station"), i)
    /\ WantsOther(stated, ref, value)
    /\ aim.placed => /\ ref = <<"x", 0>> => value = aim.at.x
                     /\ ref = <<"y", 0>> => value = aim.at.y

\* A mass is written for a half of the loadout that is stated, and for nothing else.
MassStated(stated, ref) == ref[1] \in Arrays => Loads(stated, ref[1])

\* What the aim was taken from is not written by the request itself.
Spares(aim, ref) ==
    /\ MassStated(aim.setup, ref)
    /\ ref[1] \notin {"qnh", "wind", "tanks", "change"}
    /\ ref = <<"psi", 0>> => States(aim.setup, "heading")

\* A step that leaves nothing but what is wanted.
Fits(aim, step) ==
    LET stated == aim.setup IN
    /\ step.do \in {"write", "masses", "mode", "fly", "teleport", "velocity"}
    /\ step.do = "write" => Wants(aim, step.ref, step.value) /\ Spares(aim, step.ref)
    /\ step.do = "masses" =>
          /\ step.name \in Arrays /\ Loads(stated, step.name)
          /\ step.masses = Loaded(stated, step.name)
    /\ step.do = "mode" =>
          step.director = Stated(stated, "director") /\ step.master = Stated(stated, "master")
    /\ step.do = "fly" => step.setup = stated
    /\ step.do = "teleport" =>
          /\ aim.placed /\ Moving(stated) /\ States(stated, "heading")
          /\ step.position = Point(aim.at.x, aim.at.y, stated.altitude)
          /\ step.heading = Fold(stated.heading) /\ step.ias = stated.ias
          /\ step.vertical = Stated(stated, "vertical")
    /\ step.do = "velocity" /\ Moving(stated) =>
          /\ step.tas = aim.tas /\ step.altitude = {stated.altitude}
          /\ step.vertical = Stated(stated, "vertical")
          /\ \/ step.heading = Stated(stated, "heading")
             \/ States(stated, "heading") /\ step.heading = {Fold(stated.heading)}

\* A dataref the step is sure to write.
Touches(aim, step, ref) ==
    \/ step.do = "write" /\ ref = step.ref
    \/ step.do = "masses" /\ step.name = "tank" /\ ref \in {"tank"} \X (1 .. aim.tanks)
    \/ step.do = "masses" /\ step.name = "station" /\ ref \in {"station"} \X Slots
    \/ step.do = "mode" /\ ref = <<"mode", 0>>
    \/ step.do = "fly" /\ \/ States(step.setup, "heading") /\ ref = <<"psi", 0>>
                          \/ States(step.setup, "vertical") /\ ref = <<"vertical", 0>>
                          \/ States(step.setup, "altitude") /\ ref = <<"altitude", 0>>
                          \/ States(step.setup, "ias") /\ ref \in {"vx", "vy", "vz"} \X {0}
                          \/ States(step.setup, "pitch") /\ ref = <<"theta", 0>>
                          \/ States(step.setup, "roll") /\ ref = <<"phi", 0>>
    \/ step.do = "teleport" /\ ref \in {"x", "y"} \X {0}
    \/ step.do = "velocity" /\ ref \in {"vx", "vy", "vz"} \X {0}

\* The datarefs a setup's demands are about.
Aimed(aim) == {ref \in Datarefs : ref[1] = "tank" => ref[2] \in 1 .. aim.tanks}

Selects(step) == step.do = "write" /\ step.ref = <<"lateral", 0>>

\* The last selection left is the approach, or it is selected.
ApproachIsLast(mem, steps) ==
    \/ mem[<<"lateral", 0>>] = 3 /\ \A k \in DOMAIN steps : ~Selects(steps[k])
    \/ \E k \in DOMAIN steps : /\ Selects(steps[k]) /\ steps[k].value = 3
                               /\ \A j \in DOMAIN steps : j > k => ~Selects(steps[j])

OnCourse(aim, mem, steps) ==
    /\ SetupTyped(aim.setup)
    /\ \A step \in ToSet(steps) : Fits(aim, step)
    /\ \A ref \in Aimed(aim) : \/ Wants(aim, ref, mem[ref])
                               \/ \E step \in ToSet(steps) : Touches(aim, step, ref)
    /\ States(aim.setup, "approach_mode") =>
          (aim.setup.approach_mode => ApproachIsLast(mem, steps))

Writing == {"place", "setup", "fuel"}

\* A request that runs alone and has not failed.
Lone(c) == alone[c] /\ \A r \in reply[c] : r.status = 200

Underway ==
    \A c \in Clients : \A s \in ask[c] : Lone(c) /\ s.op \in Writing =>
        OnCourse(Aim(s, setup[c], sim), sim, todo[c])

\* What it has written of the masses, it stated.
Sparing ==
    \A c \in Clients : \A s \in ask[c] : alone[c] /\ s.op \in Writing =>
        \A ref \in wrote[c] : MassStated(setup[c], ref)

-----------------------------------------------------------------------------
(* Its third part is about a weather request that runs alone.  Its writes  *)
(* go from the wind up: what is computed from the wind levels as they are  *)
(* read is computed once they are written                                  *)

\* When a dataref is written, and when a step that reads is reached.
Turn == [manual |-> 0, check |-> 0, update |-> 0, change |-> 0, wind |-> 1, cloud |-> 2, settle |-> 3,
         visibility |-> 4, qnh |-> 4, temperature |-> 5, aloft |-> 6, ladder |-> 6, dewpoint |-> 7,
         dewpoints |-> 7, below |-> 7, rain |-> 8, friction |-> 8]
TurnOf(step) == IF step.do = "write" THEN Turn[step.ref[1]] ELSE Turn[step.do]

InTurn(steps) ==
    \A j, k \in DOMAIN steps : j <= k => TurnOf(steps[j]) <= TurnOf(steps[k])

\* No step left has an earlier turn.
NoneBefore(steps, turn) == \A step \in ToSet(steps) : TurnOf(step) >= turn

\* The temperature at a level, over the winds that are written.
AirAt(S, mem, i) == S.temperature - 15 + IsaTemperature(mem[<<"wind", i>>].altitude)

\* The value is the one the weather wants in that dataref, if it wants any.
WantsAir(S, mem, ref, value) ==
    /\ States(S, "wind") => \A i \in 1 .. WindLevels : ref = <<"wind", i>> => value = LevelOf(S.wind, i)
    /\ States(S, "cloud") => \A i \in 1 .. CloudSlots : ref = <<"cloud", i>> => value = SlotOf(S.cloud, i)
    /\ \A f \in {"visibility", "qnh", "temperature"} \cap DOMAIN S : ref = <<f, 0>> => value = S[f]
    /\ States(S, "precipitation") /\ ref = <<"rain", 0>> => value = S.precipitation
    /\ States(S, "contamination") /\ ref = <<"friction", 0>> => value = Frictions[S.contamination]
    /\ States(S, "dewpoint") /\ ref = <<"dewpoint", 1>> => value = S.dewpoint
    /\ States(S, "temperature") => \A i \in 1 .. WindLevels :
          ref = <<"aloft", i>> => value = AirAt(S, mem, i)
    /\ States(S, "temperature") /\ States(S, "dewpoint") => \A i \in 2 .. WindLevels :
          ref = <<"dewpoint", i>> => value <= AirAt(S, mem, i)

\* The datarefs it wants something in.
AirAims(S) ==
    {ref \in Datarefs :
        \/ States(S, "wind") /\ ref[1] = "wind"
        \/ States(S, "cloud") /\ ref[1] = "cloud"
        \/ ref[1] \in {"visibility", "qnh", "temperature"} \cap DOMAIN S
        \/ States(S, "precipitation") /\ ref[1] = "rain"
        \/ States(S, "contamination") /\ ref[1] = "friction"
        \/ States(S, "dewpoint") /\ ref = <<"dewpoint", 1>>
        \/ States(S, "temperature") /\ ref[1] = "aloft"
        \/ States(S, "temperature") /\ States(S, "dewpoint") /\ ref[1] = "dewpoint"}

AirNames == {"update", "change", "wind", "cloud", "visibility", "qnh", "temperature", "aloft",
             "dewpoint", "rain", "friction"}

\* A step left writes what is wanted, or will: what it was computed from is there.
FitsAir(S, mem, steps, step) ==
    /\ step.do \in {"write", "manual", "check", "settle", "ladder", "dewpoints", "below"}
    /\ step.do = "write" =>
          /\ step.ref[1] \in AirNames
          /\ WantsAir(S, mem, step.ref, step.value)
          /\ step.ref[1] \in {"aloft", "dewpoint"} /\ step.ref # <<"dewpoint", 1>> =>
                NoneBefore(steps, Turn[step.ref[1]])
    /\ step.do = "settle" => States(S, "cloud") /\ step.layers = S.cloud
    /\ step.do = "ladder" => States(S, "temperature") /\ step.temperature = S.temperature
    /\ step.do \in {"dewpoints", "below"} => States(S, "dewpoint") /\ step.dewpoint = S.dewpoint
    /\ step.do = "below" => step.altitudes = WindAltitudes(mem) /\ NoneBefore(steps, Turn["below"])

\* A dataref the step is sure to write.
Reaches(step, ref) ==
    \/ step.do = "write" /\ step.ref = ref
    \/ step.do = "ladder" /\ ref[1] = "aloft"
    \/ step.do \in {"dewpoints", "below"} /\ ref[1] = "dewpoint" /\ ref # <<"dewpoint", 1>>

\* The clouds are still to be waited for, or they show, or the wait is over.
CloudsComing(S, mem, steps, waited) ==
    \/ \E step \in ToSet(steps) : step.do = "settle"
    \/ NoneBefore(steps, Turn["settle"]) /\ (waited => Settled(mem, S.cloud))

\* Layers whose altitudes are numbers.
Layered(layers) ==
    IsList(layers) /\ \A l \in ToSet(layers) : "altitude" \in DOMAIN l /\ l.altitude \in Int

\* The values of the fields a weather states are of their kinds.
FieldsTyped(S) ==
    /\ States(S, "wind") => Layered(S.wind)
    /\ States(S, "cloud") => IsList(S.cloud)
    /\ \A f \in {"temperature", "dewpoint"} \cap DOMAIN S : S[f] \in Int
    /\ States(S, "contamination") => S.contamination \in DOMAIN Frictions

AirTyped(S) == ValidWeather(S) /\ FieldsTyped(S)

OnTheAir(S, mem, steps, waited) ==
    /\ AirTyped(S)
    /\ InTurn(steps)
    /\ \A step \in ToSet(steps) : FitsAir(S, mem, steps, step)
    /\ \A ref \in AirAims(S) :
          \/ \E step \in ToSet(steps) : Reaches(step, ref)
          \/ NoneBefore(steps, Turn[ref[1]]) /\ WantsAir(S, mem, ref, mem[ref])
    /\ States(S, "cloud") => CloudsComing(S, mem, steps, waited)

\* Such a request on its way, and what it answered with when it is through.
Aloft ==
    \A c \in Clients : \A s \in ask[c] : Lone(c) /\ s.op = "weather" =>
        /\ OnTheAir(setup[c], sim, todo[c], ~late[c])
        /\ \A r \in reply[c] : ReadBackAgrees(setup[c], r.state, ~late[c])

\* The fourth part: what a preview says of the weather is what was asked for.
Forecast ==
    \A a \in Answered("weather") :
        ~Refused(a.answer) =>
            /\ ValidWeather(a.answer.setup)
            /\ a.question.request.preset # {} => PresetIsOverlaid(a.question.request, a.answer.setup)

IInv == Orderly /\ Underway /\ Sparing /\ Aloft /\ Forecast

-----------------------------------------------------------------------------
(* Sequences and the set of what they hold                                 *)

\* The empty sequence, one step, and one sequence after another.
LEMMA ListEmpty == IsList(<<>>) /\ ToSet(<<>>) = {} /\ Len(<<>>) = 0 /\ DOMAIN <<>> = {}
<1>1. <<>> \in Seq({})
  OBVIOUS
<1>2. Len(<<>>) = 0 /\ DOMAIN <<>> = 1 .. 0
  OBVIOUS
<1> QED
  BY <1>1, <1>2 DEF IsList, ToSet

LEMMA ListOne == ASSUME NEW x PROVE IsList(<<x>>) /\ ToSet(<<x>>) = {x}
<1>1. <<x>> \in Seq({x}) /\ Len(<<x>>) = 1 /\ <<x>>[1] = x /\ DOMAIN <<x>> = {1}
  OBVIOUS
<1> QED
  BY <1>1 DEF IsList, ToSet

LEMMA ListTwo == ASSUME NEW x, NEW y PROVE IsList(<<x, y>>) /\ ToSet(<<x, y>>) = {x, y}
<1>1. <<x, y>> \in Seq({x, y}) /\ Len(<<x, y>>) = 2 /\ <<x, y>>[1] = x /\ <<x, y>>[2] = y
      /\ DOMAIN <<x, y>> = {1, 2}
  OBVIOUS
<1> QED
  BY <1>1 DEF IsList, ToSet

LEMMA ListThree ==
    ASSUME NEW x, NEW y, NEW z PROVE IsList(<<x, y, z>>) /\ ToSet(<<x, y, z>>) = {x, y, z}
<1>1. <<x, y, z>> \in Seq({x, y, z}) /\ Len(<<x, y, z>>) = 3 /\ <<x, y, z>>[1] = x
      /\ <<x, y, z>>[2] = y /\ <<x, y, z>>[3] = z /\ DOMAIN <<x, y, z>> = {1, 2, 3}
  OBVIOUS
<1> QED
  BY <1>1 DEF IsList, ToSet

LEMMA ListFive ==
    ASSUME NEW x, NEW y, NEW z, NEW u, NEW v
    PROVE  /\ IsList(<<x, y, z, u, v>>)
           /\ ToSet(<<x, y, z, u, v>>) = {x, y, z, u, v}
<1> DEFINE s == <<x, y, z, u, v>>
<1>1. s \in Seq({x, y, z, u, v}) /\ Len(s) = 5 /\ s[1] = x
      /\ s[2] = y /\ s[3] = z /\ s[4] = u /\ s[5] = v /\ DOMAIN s = {1, 2, 3, 4, 5}
  OBVIOUS
<1> HIDE DEF s
<1>2. ToSet(s) = {x, y, z, u, v}
  BY <1>1 DEF ToSet
<1> QED
  BY <1>1, <1>2 DEF IsList, s

LEMMA ListFacts ==
    ASSUME NEW s, IsList(s)
    PROVE  /\ Len(s) \in Nat /\ DOMAIN s = 1 .. Len(s)
           /\ \A i \in 1 .. Len(s) : s[i] \in ToSet(s)
           /\ \A x \in ToSet(s) : \E i \in 1 .. Len(s) : s[i] = x
           /\ s = <<>> <=> Len(s) = 0
           /\ s = <<>> <=> ToSet(s) = {}
<1> DEFINE S == ToSet(s)
<1>1. s \in Seq(S)
  BY DEF IsList
<1>2. Len(s) \in Nat /\ DOMAIN s = 1 .. Len(s)
  BY <1>1, LenProperties
<1>3. s = <<>> <=> Len(s) = 0
  BY <1>1, EmptySeq
<1> QED
  BY <1>2, <1>3 DEF ToSet

LEMMA ListBy ==
    ASSUME NEW n \in Nat, NEW s, NEW S, s \in [1 .. n -> S]
    PROVE  IsList(s) /\ Len(s) = n /\ ToSet(s) = {s[i] : i \in 1 .. n} /\ ToSet(s) \subseteq S
<1>1. s \in Seq(S)
  BY SeqDef
<1>2. DOMAIN s = 1 .. n /\ Len(s) = n
  BY <1>1
<1>3. ToSet(s) = {s[i] : i \in 1 .. n}
  BY <1>2 DEF ToSet
<1>4. s \in [1 .. n -> ToSet(s)]
  BY <1>2, <1>3
<1>5. s \in Seq(ToSet(s))
  BY <1>4, SeqDef
<1> QED
  BY <1>2, <1>3, <1>5 DEF IsList

LEMMA ListJoin ==
    ASSUME NEW s, NEW t, IsList(s), IsList(t)
    PROVE  /\ IsList(s \o t) /\ ToSet(s \o t) = ToSet(s) \cup ToSet(t)
           /\ Len(s \o t) = Len(s) + Len(t)
           /\ \A i \in 1 .. Len(s) : (s \o t)[i] = s[i]
           /\ \A i \in 1 .. Len(t) : (s \o t)[Len(s) + i] = t[i]
           /\ \A i \in 1 .. Len(s) + Len(t) : i > Len(s) =>
                 i - Len(s) \in 1 .. Len(t) /\ (s \o t)[i] = t[i - Len(s)]
<1> DEFINE U == ToSet(s) \cup ToSet(t)
<1>1. s \in Seq(U) /\ t \in Seq(U)
  BY SeqMonotonic DEF IsList
<1>2. /\ s \o t \in Seq(U) /\ Len(s \o t) = Len(s) + Len(t)
      /\ \A i \in 1 .. Len(s) + Len(t) : (s \o t)[i] = IF i <= Len(s) THEN s[i] ELSE t[i - Len(s)]
  BY <1>1, ConcatProperties
<1>3. /\ Len(s) \in Nat /\ Len(t) \in Nat
      /\ \A i \in 1 .. Len(s) : s[i] \in ToSet(s)
      /\ \A x \in ToSet(s) : \E i \in 1 .. Len(s) : s[i] = x
      /\ \A i \in 1 .. Len(t) : t[i] \in ToSet(t)
      /\ \A x \in ToSet(t) : \E i \in 1 .. Len(t) : t[i] = x
  BY ListFacts
<1> DEFINE n == Len(s) + Len(t)
           st == s \o t
<1>4. \A i \in 1 .. Len(s) : st[i] = s[i]
  BY <1>2, <1>3
<1>5. \A i \in 1 .. n : i > Len(s) => i - Len(s) \in 1 .. Len(t) /\ st[i] = t[i - Len(s)]
  BY <1>2, <1>3
<1>6. \A i \in 1 .. Len(t) : st[Len(s) + i] = t[i]
  <2> TAKE i \in 1 .. Len(t)
  <2>1. Len(s) + i \in 1 .. n /\ Len(s) + i > Len(s) /\ (Len(s) + i) - Len(s) = i
    BY <1>3
  <2> QED
    BY <2>1, <1>5
<1>7. n \in Nat /\ st \in [1 .. n -> U]
  BY <1>2, <1>3, SeqDef, LenProperties
<1>8. IsList(st) /\ ToSet(st) = {st[i] : i \in 1 .. n}
  <2> HIDE DEF st, n, U
  <2> QED
    BY <1>7, ListBy
<1>9. \A x \in U : \E i \in 1 .. n : st[i] = x
  <2> SUFFICES ASSUME NEW x \in U PROVE \E i \in 1 .. n : st[i] = x
    OBVIOUS
  <2>1. ASSUME x \in ToSet(s) PROVE \E i \in 1 .. n : st[i] = x
    BY <2>1, <1>3, <1>4
  <2>2. ASSUME x \in ToSet(t) PROVE \E i \in 1 .. n : st[i] = x
    <3>1. PICK i \in 1 .. Len(t) : t[i] = x
      BY <2>2, <1>3
    <3>2. Len(s) + i \in 1 .. n
      BY <1>3
    <3> QED
      BY <3>1, <3>2, <1>6
  <2> QED
    BY <2>1, <2>2
<1>10. ToSet(st) = U
  BY <1>7, <1>8, <1>9
<1> QED
  BY <1>2, <1>4, <1>5, <1>6, <1>8, <1>10

LEMMA ListHead ==
    ASSUME NEW s, IsList(s), s # <<>>
    PROVE  /\ Head(s) = s[1] /\ Head(s) \in ToSet(s) /\ Len(s) >= 1
           /\ IsList(Tail(s)) /\ Len(Tail(s)) = Len(s) - 1
           /\ \A i \in 1 .. Len(s) - 1 : Tail(s)[i] = s[i + 1]
           /\ ToSet(Tail(s)) \subseteq ToSet(s)
           /\ ToSet(s) \subseteq {Head(s)} \cup ToSet(Tail(s))
<1> DEFINE S == ToSet(s)
<1>1. s \in Seq(S)
  BY DEF IsList
<1>2. Len(s) \in Nat /\ Len(s) >= 1
  BY ListFacts
<1>3. /\ Head(s) = s[1] /\ Tail(s) \in Seq(S) /\ Len(Tail(s)) = Len(s) - 1
      /\ \A i \in 1 .. Len(s) - 1 : Tail(s)[i] = s[i + 1]
  BY <1>1, <1>2, HeadTailProperties
<1>4. Head(s) \in S
  BY <1>2, <1>3, ListFacts
<1> DEFINE n == Len(s) - 1
           t == Tail(s)
<1>5. n \in Nat /\ t \in [1 .. n -> S]
  BY <1>2, <1>3, SeqDef, LenProperties
<1>6. IsList(t) /\ ToSet(t) = {t[i] : i \in 1 .. n} /\ ToSet(t) \subseteq S
  <2> HIDE DEF t, n, S
  <2> QED
    BY <1>5, ListBy
<1>7. \A x \in S : x = Head(s) \/ x \in ToSet(t)
  <2> SUFFICES ASSUME NEW x \in S, x # Head(s) PROVE x \in ToSet(t)
    OBVIOUS
  <2>1. PICK i \in 1 .. Len(s) : s[i] = x
    BY ListFacts
  <2>2. i - 1 \in 1 .. n /\ t[i - 1] = s[i]
    <3>1. i # 1
      BY <2>1, <1>3
    <3>2. i - 1 \in 1 .. Len(s) - 1 /\ (i - 1) + 1 = i
      BY <3>1, <1>2
    <3> QED
      BY <3>2, <1>3
  <2> QED
    BY <2>1, <2>2, <1>6
<1> QED
  BY <1>2, <1>3, <1>4, <1>6, <1>7

-----------------------------------------------------------------------------
(* A finite set of numbers in order                                        *)

Ordered(numbers, f) ==
    /\ f \in Surjection(1 .. Cardinality(numbers), numbers)
    /\ \A i, j \in DOMAIN f : i < j => f[i] < f[j]

\* Every set of numbers below a bound can be put in order: the least bound of one
\* that could not would have its own number last.
LEMMA CanOrder == \A n \in Nat : \A S \in SUBSET (1 .. n) : \E f : Ordered(S, f)
<1> DEFINE Bad == {n \in Nat : \E S \in SUBSET (1 .. n) : \A f : ~Ordered(S, f)}
<1>1. SUFFICES ASSUME Bad # {} PROVE FALSE
  OBVIOUS
<1>2. PICK n \in Bad : \A m \in Bad : ~(<<m, n>> \in OpToRel(<, Nat))
  <2>1. IsWellFoundedOn(OpToRel(<, Nat), Nat)
    BY NatLessThanWellFounded
  <2> QED
    BY <1>1, <2>1, WFMin
<1>3. \A m \in Bad : ~(m < n)
  BY <1>2 DEF OpToRel
<1>4. PICK S \in SUBSET (1 .. n) : \A f : ~Ordered(S, f)
  OBVIOUS
<1>5. n # 0
  <2> SUFFICES ASSUME n = 0 PROVE FALSE
    OBVIOUS
  <2>1. S = {}
    OBVIOUS
  <2>0. Cardinality(S) = 0
    BY <2>1, FS_EmptySet
  <2>2. Ordered(S, [i \in {} |-> i])
    <3>1. 1 .. 0 = {}
      OBVIOUS
    <3> QED
      BY <2>1, <2>0, <3>1 DEF Ordered, Surjection
  <2> QED
    BY <2>2, <1>4
<1>6. n - 1 \in Nat /\ n \in Nat /\ n - 1 < n
  BY <1>5
<1>7. \A T \in SUBSET (1 .. n - 1) : \E f : Ordered(T, f)
  BY <1>3, <1>6
<1>8. n \in S
  <2> SUFFICES ASSUME n \notin S PROVE FALSE
    OBVIOUS
  <2>1. S \in SUBSET (1 .. n - 1)
    BY <1>6
  <2> QED
    BY <2>1, <1>7, <1>4
<1> DEFINE T == S \ {n}
<1>9. T \in SUBSET (1 .. n - 1)
  BY <1>6
<1>10. PICK f : Ordered(T, f)
  BY <1>7, <1>9
<1>11. IsFiniteSet(S)
  <2>1. IsFiniteSet(1 .. n)
    BY FS_Interval, <1>6
  <2> QED
    BY <2>1, FS_Subset
<1> DEFINE m == Cardinality(T)
<1>12. IsFiniteSet(T) /\ m \in Nat /\ Cardinality(S) = m + 1
  <2>1. IsFiniteSet(T) /\ Cardinality(T) = Cardinality(S) - 1
    BY <1>8, <1>11, FS_RemoveElement
  <2>2. Cardinality(S) \in Nat /\ Cardinality(T) \in Nat
    BY <1>11, <2>1, FS_CardinalityType
  <2> QED
    BY <2>1, <2>2
<1> DEFINE g == [i \in 1 .. m + 1 |-> IF i = m + 1 THEN n ELSE f[i]]
<1>13. /\ DOMAIN f = 1 .. m /\ \A i \in 1 .. m : f[i] \in T
       /\ \A t \in T : \E i \in 1 .. m : f[i] = t
       /\ \A i, j \in 1 .. m : i < j => f[i] < f[j]
  BY <1>10 DEF Ordered, Surjection
<1> HIDE DEF m
<1>14. g \in [1 .. m + 1 -> S]
  <2> SUFFICES ASSUME NEW i \in 1 .. m + 1 PROVE g[i] \in S
    OBVIOUS
  <2>1. CASE i = m + 1
    BY <2>1, <1>8
  <2>2. CASE i # m + 1
    BY <2>2, <1>12, <1>13
  <2> QED
    BY <2>1, <2>2
<1>15. \A s \in S : \E i \in 1 .. m + 1 : g[i] = s
  <2> TAKE s \in S
  <2>1. CASE s = n
    BY <2>1, <1>12
  <2>2. ASSUME s # n PROVE \E i \in 1 .. m + 1 : g[i] = s
    <3>1. PICK i \in 1 .. m : f[i] = s
      BY <2>2, <1>13
    <3>2. i \in 1 .. m + 1 /\ i # m + 1
      BY <1>12
    <3> QED
      BY <3>1, <3>2
  <2> QED
    BY <2>1, <2>2
<1>16. \A i, j \in 1 .. m + 1 : i < j => g[i] < g[j]
  <2> SUFFICES ASSUME NEW i \in 1 .. m + 1, NEW j \in 1 .. m + 1, i < j PROVE g[i] < g[j]
    OBVIOUS
  <2>1. i \in 1 .. m /\ i # m + 1
    BY <1>12
  <2>2. f[i] \in T /\ f[i] \in 1 .. n - 1
    BY <2>1, <1>9, <1>13
  <2>3. CASE j = m + 1
    BY <2>1, <2>2, <2>3, <1>6
  <2>4. ASSUME j # m + 1 PROVE g[i] < g[j]
    <3>1. j \in 1 .. m
      BY <2>4, <1>12
    <3> QED
      BY <3>1, <2>1, <1>13, <2>4
  <2> QED
    BY <2>3, <2>4
<1>17. Ordered(S, g)
  <2>1. DOMAIN g = 1 .. m + 1
    OBVIOUS
  <2> HIDE DEF g
  <2> QED
    BY <2>1, <1>12, <1>14, <1>15, <1>16 DEF Ordered, Surjection
<1> HIDE DEF g
<1> QED
  BY <1>17, <1>4

LEMMA InOrderIs ==
    ASSUME NEW n \in Nat, NEW S \in SUBSET (1 .. n)
    PROVE  /\ Cardinality(S) \in Nat
           /\ InOrder(S) \in [1 .. Cardinality(S) -> S]
           /\ \A s \in S : \E i \in 1 .. Cardinality(S) : InOrder(S)[i] = s
<1>1. PICK f : Ordered(S, f)
  BY CanOrder
<1>2. InOrder(S) \in Surjection(1 .. Cardinality(S), S)
  <2>1. \E g \in Surjection(1 .. Cardinality(S), S) : \A i, j \in DOMAIN g : i < j => g[i] < g[j]
    BY <1>1 DEF Ordered
  <2> QED
    BY <2>1 DEF InOrder
<1>3. Cardinality(S) \in Nat
  <2>1. IsFiniteSet(1 .. n)
    BY FS_Interval
  <2>2. IsFiniteSet(S)
    BY <2>1, FS_Subset
  <2> QED
    BY <2>2, FS_CardinalityType
<1> QED
  BY <1>2, <1>3 DEF Surjection

-----------------------------------------------------------------------------
(* What the adapter's lists of steps hold                                  *)

LEMMA ListJoin4 ==
    ASSUME NEW s1, NEW s2, NEW s3, NEW s4, IsList(s1), IsList(s2), IsList(s3), IsList(s4)
    PROVE  /\ IsList(s1 \o s2 \o s3 \o s4)
           /\ ToSet(s1 \o s2 \o s3 \o s4) = ToSet(s1) \cup ToSet(s2) \cup ToSet(s3) \cup ToSet(s4)
<1>1. IsList(s1 \o s2) /\ ToSet(s1 \o s2) = ToSet(s1) \cup ToSet(s2)
  BY ListJoin
<1> DEFINE a == s1 \o s2
<1>2. IsList(a \o s3) /\ ToSet(a \o s3) = ToSet(a) \cup ToSet(s3)
  <2> HIDE DEF a
  <2> QED
    BY <1>1, ListJoin DEF a
<1> DEFINE b == a \o s3
<1>3. IsList(b \o s4) /\ ToSet(b \o s4) = ToSet(b) \cup ToSet(s4)
  <2> HIDE DEF b
  <2> QED
    BY <1>2, ListJoin DEF b
<1> QED
  BY <1>1, <1>2, <1>3

LEMMA ListIf ==
    ASSUME NEW b, NEW name, NEW v
    PROVE  /\ IsList(WriteIf(b, name, v))
           /\ b => ToSet(WriteIf(b, name, v)) = {Write(name, v)}
           /\ ~b => ToSet(WriteIf(b, name, v)) = {}
<1> DEFINE w == Write(name, v)
<1> HIDE DEF w
<1>1. IsList(<<w>>) /\ ToSet(<<w>>) = {w}
  BY ListOne
<1>2. IsList(<<>>) /\ ToSet(<<>>) = {}
  BY ListEmpty
<1>3. CASE b
  BY <1>3, <1>1 DEF WriteIf, w
<1>4. CASE ~b
  BY <1>4, <1>2 DEF WriteIf
<1> QED
  BY <1>3, <1>4

LEMMA ListOfField ==
    ASSUME NEW S, NEW f
    PROVE  /\ IsList(WriteOf(S, f))
           /\ States(S, f) => ToSet(WriteOf(S, f)) = {Write(f, S[f])}
           /\ ~States(S, f) => ToSet(WriteOf(S, f)) = {}
BY ListIf DEF WriteOf

\* The parts of a configuration that are not one field under its own name.
Nav1Of(S) == IF States(S, "nav1") THEN << Write("nav1", S.nav1 \div 10) >>
             ELSE WriteIf(States(S, "ils"), "nav1", S.ils \div 10)
LightsOf(S) == IF States(S, "lights") THEN SwitchWrites(S.lights) ELSE <<>>
Masses(name, masses) == [do |-> "masses", name |-> name, masses |-> masses]
MassesOf(S) == LoadoutSteps(S)
ModeOf(S) ==
    IF States(S, "master") \/ States(S, "director")
    THEN << [do |-> "mode", director |-> Stated(S, "director"), master |-> Stated(S, "master")] >>
    ELSE <<>>
TargetIasOf(S) ==
    IF States(S, "target_ias")
    THEN << Write("is_mach", 0), Write("target_ias", S.target_ias) >> ELSE <<>>
GearOf(S) == WriteIf(States(S, "gear"), "gear", Number(S.gear))
Nav2Of(S) == WriteIf(States(S, "nav2"), "nav2", S.nav2 \div 10)
HeadingOf(S) == WriteIf(States(S, "target_heading"), "target_heading", Fold(S.target_heading))

LEMMA Nav1Is ==
    ASSUME NEW S
    PROVE  /\ IsList(Nav1Of(S))
           /\ States(S, "nav1") => ToSet(Nav1Of(S)) = {Write("nav1", S.nav1 \div 10)}
           /\ ~States(S, "nav1") /\ States(S, "ils") =>
                 ToSet(Nav1Of(S)) = {Write("nav1", S.ils \div 10)}
           /\ ~States(S, "nav1") /\ ~States(S, "ils") => ToSet(Nav1Of(S)) = {}
<1> DEFINE w == Write("nav1", S.nav1 \div 10)
           i == WriteIf(States(S, "ils"), "nav1", S.ils \div 10)
<1>1. /\ IsList(i)
      /\ States(S, "ils") => ToSet(i) = {Write("nav1", S.ils \div 10)}
      /\ ~States(S, "ils") => ToSet(i) = {}
  BY ListIf
<1> HIDE DEF w, i
<1>2. IsList(<<w>>) /\ ToSet(<<w>>) = {w}
  BY ListOne
<1>3. Nav1Of(S) = IF States(S, "nav1") THEN <<w>> ELSE i
  BY DEF Nav1Of, w, i
<1>4. CASE States(S, "nav1")
  BY <1>4, <1>2, <1>3 DEF w
<1>5. CASE ~States(S, "nav1")
  BY <1>5, <1>1, <1>3
<1> QED
  BY <1>4, <1>5

SwitchOf(lights, name) == WriteIf(States(lights, name), name, Number(lights[name]))

LEMMA SwitchesAre ==
    ASSUME NEW lights
    PROVE  /\ IsList(SwitchWrites(lights))
           /\ ToSet(SwitchWrites(lights)) =
                 ToSet(SwitchOf(lights, "landing")) \cup ToSet(SwitchOf(lights, "taxi"))
                 \cup ToSet(SwitchOf(lights, "nav")) \cup ToSet(SwitchOf(lights, "beacon"))
                 \cup ToSet(SwitchOf(lights, "strobe"))
           /\ \A name \in Switches :
                 /\ States(lights, name) =>
                       ToSet(SwitchOf(lights, name)) = {Write(name, Number(lights[name]))}
                 /\ ~States(lights, name) => ToSet(SwitchOf(lights, name)) = {}
<1> DEFINE s1 == SwitchOf(lights, "landing")
           s2 == SwitchOf(lights, "taxi")
           s3 == SwitchOf(lights, "nav")
           s4 == SwitchOf(lights, "beacon")
           s5 == SwitchOf(lights, "strobe")
<1>1. SwitchWrites(lights) = s1 \o s2 \o s3 \o s4 \o s5
  BY DEF SwitchWrites, SwitchOf
<1>2. \A name : /\ IsList(SwitchOf(lights, name))
                /\ States(lights, name) =>
                      ToSet(SwitchOf(lights, name)) = {Write(name, Number(lights[name]))}
                /\ ~States(lights, name) => ToSet(SwitchOf(lights, name)) = {}
  BY ListIf DEF SwitchOf
<1>3. IsList(s1) /\ IsList(s2) /\ IsList(s3) /\ IsList(s4) /\ IsList(s5)
  BY <1>2
<1> DEFINE a == s1 \o s2 \o s3 \o s4
<1> HIDE DEF s1, s2, s3, s4, s5
<1>4. IsList(a) /\ ToSet(a) = ToSet(s1) \cup ToSet(s2) \cup ToSet(s3) \cup ToSet(s4)
  BY <1>3, ListJoin4
<1>5. IsList(a \o s5) /\ ToSet(a \o s5) = ToSet(a) \cup ToSet(s5)
  <2> HIDE DEF a
  <2> QED
    BY <1>3, <1>4, ListJoin
<1>6. /\ IsList(SwitchWrites(lights))
      /\ ToSet(SwitchWrites(lights)) =
            ToSet(s1) \cup ToSet(s2) \cup ToSet(s3) \cup ToSet(s4) \cup ToSet(s5)
  BY <1>1, <1>4, <1>5
<1> QED
  BY <1>2, <1>6 DEF s1, s2, s3, s4, s5

LEMMA LightsAre ==
    ASSUME NEW S
    PROVE  /\ IsList(LightsOf(S))
           /\ States(S, "lights") => ToSet(LightsOf(S)) = ToSet(SwitchWrites(S.lights))
           /\ ~States(S, "lights") => ToSet(LightsOf(S)) = {}
BY ListEmpty, SwitchesAre DEF LightsOf

LEMMA MassesAre ==
    ASSUME NEW S
    PROVE  /\ IsList(MassesOf(S))
           /\ \A x \in ToSet(MassesOf(S)) :
                 \E name \in Arrays : Loads(S, name) /\ x = Masses(name, Loaded(S, name))
           /\ \A name \in Arrays :
                 Loads(S, name) => Masses(name, Loaded(S, name)) \in ToSet(MassesOf(S))
<1>1. ASSUME NEW name \in Arrays
      PROVE  /\ IsList(MassSteps(S, name))
             /\ Loads(S, name) => ToSet(MassSteps(S, name)) = {Masses(name, Loaded(S, name))}
             /\ ~Loads(S, name) => ToSet(MassSteps(S, name)) = {}
  <2> DEFINE w == Masses(name, Loaded(S, name))
  <2>1. MassSteps(S, name) = IF Loads(S, name) THEN <<w>> ELSE <<>>
    BY DEF MassSteps, Masses, Loaded
  <2> HIDE DEF w
  <2>2. IsList(<<w>>) /\ ToSet(<<w>>) = {w}
    BY ListOne
  <2> QED
    BY <2>1, <2>2, ListEmpty DEF w
<1> DEFINE t == MassSteps(S, "tank")
           u == MassSteps(S, "station")
<1>2. MassesOf(S) = t \o u
  BY DEF MassesOf, LoadoutSteps
<1>3. IsList(t) /\ IsList(u)
  BY <1>1 DEF Arrays
<1>4. IsList(t \o u) /\ ToSet(t \o u) = ToSet(t) \cup ToSet(u)
  <2> HIDE DEF t, u
  <2> QED
    BY <1>3, ListJoin
<1> QED
  BY <1>1, <1>2, <1>4 DEF Arrays

LEMMA ModeIs ==
    ASSUME NEW S
    PROVE  /\ IsList(ModeOf(S))
           /\ States(S, "master") \/ States(S, "director") =>
                 ToSet(ModeOf(S)) = {[do |-> "mode", director |-> Stated(S, "director"),
                                      master |-> Stated(S, "master")]}
           /\ ~States(S, "master") /\ ~States(S, "director") => ToSet(ModeOf(S)) = {}
<1> DEFINE w == [do |-> "mode", director |-> Stated(S, "director"), master |-> Stated(S, "master")]
<1> HIDE DEF w
<1>1. IsList(<<w>>) /\ ToSet(<<w>>) = {w}
  BY ListOne
<1>2. ModeOf(S) = IF States(S, "master") \/ States(S, "director") THEN <<w>> ELSE <<>>
  BY DEF ModeOf, w
<1> QED
  BY <1>1, <1>2, ListEmpty DEF w

LEMMA TargetIasIs ==
    ASSUME NEW S
    PROVE  /\ IsList(TargetIasOf(S))
           /\ States(S, "target_ias") =>
                 ToSet(TargetIasOf(S)) = {Write("is_mach", 0), Write("target_ias", S.target_ias)}
           /\ ~States(S, "target_ias") => ToSet(TargetIasOf(S)) = {}
<1> DEFINE t == Write("is_mach", 0)
           u == Write("target_ias", S.target_ias)
<1> HIDE DEF t, u
<1>1. IsList(<<t, u>>) /\ ToSet(<<t, u>>) = {t, u}
  BY ListTwo
<1>2. TargetIasOf(S) = IF States(S, "target_ias") THEN <<t, u>> ELSE <<>>
  BY DEF TargetIasOf, t, u
<1> QED
  BY <1>1, <1>2, ListEmpty DEF t, u

\* The configuration of a setup, part by part.
LEMMA ConfigurationIs ==
    ASSUME NEW S
    PROVE  /\ IsList(ConfigurationSteps(S))
           /\ ToSet(ConfigurationSteps(S)) =
                 ToSet(WriteOf(S, "flaps")) \cup ToSet(WriteOf(S, "speedbrake"))
                 \cup ToSet(WriteOf(S, "trim")) \cup ToSet(WriteOf(S, "throttle"))
                 \cup ToSet(GearOf(S)) \cup ToSet(WriteOf(S, "autobrake")) \cup ToSet(Nav1Of(S))
                 \cup ToSet(Nav2Of(S)) \cup ToSet(WriteOf(S, "obs1")) \cup ToSet(WriteOf(S, "obs2"))
                 \cup ToSet(LightsOf(S)) \cup ToSet(MassesOf(S))
<1> DEFINE s1 == WriteOf(S, "flaps")
           s2 == WriteOf(S, "speedbrake")
           s3 == WriteOf(S, "trim")
           s4 == WriteOf(S, "throttle")
           s5 == GearOf(S)
           s6 == WriteOf(S, "autobrake")
           s7 == Nav1Of(S)
           s8 == Nav2Of(S)
           s9 == WriteOf(S, "obs1")
           s10 == WriteOf(S, "obs2")
           s11 == LightsOf(S)
           s12 == MassesOf(S)
<1>1. ConfigurationSteps(S) =
         s1 \o s2 \o s3 \o s4 \o s5 \o s6 \o s7 \o s8 \o s9 \o s10 \o s11 \o s12
  BY DEF ConfigurationSteps, GearOf, Nav1Of, Nav2Of, LightsOf, MassesOf
<1>2. IsList(s1) /\ IsList(s2) /\ IsList(s3) /\ IsList(s4)
  BY ListOfField
<1>3. IsList(s5) /\ IsList(s8)
  BY ListIf DEF GearOf, Nav2Of
<1>4. IsList(s6) /\ IsList(s9) /\ IsList(s10)
  BY ListOfField
<1>5. IsList(s7) /\ IsList(s11) /\ IsList(s12)
  BY Nav1Is, LightsAre, MassesAre
<1> HIDE DEF s1, s2, s3, s4, s5, s6, s7, s8, s9, s10, s11, s12
<1> DEFINE a == s1 \o s2 \o s3 \o s4
           b == a \o s5 \o s6 \o s7
           d == b \o s8 \o s9 \o s10
<1>6. IsList(a) /\ ToSet(a) = ToSet(s1) \cup ToSet(s2) \cup ToSet(s3) \cup ToSet(s4)
  BY <1>2, ListJoin4
<1>7. IsList(b) /\ ToSet(b) = ToSet(a) \cup ToSet(s5) \cup ToSet(s6) \cup ToSet(s7)
  <2> HIDE DEF a
  <2> QED
    BY <1>3, <1>4, <1>5, <1>6, ListJoin4
<1>8. IsList(d) /\ ToSet(d) = ToSet(b) \cup ToSet(s8) \cup ToSet(s9) \cup ToSet(s10)
  <2> HIDE DEF b
  <2> QED
    BY <1>3, <1>4, <1>7, ListJoin4
<1>9. IsList(d \o s11) /\ ToSet(d \o s11) = ToSet(d) \cup ToSet(s11)
  <2> HIDE DEF d
  <2> QED
    BY <1>5, <1>8, ListJoin
<1> DEFINE e == d \o s11
<1>10. IsList(e \o s12) /\ ToSet(e \o s12) = ToSet(e) \cup ToSet(s12)
  <2> HIDE DEF e
  <2> QED
    BY <1>5, <1>9, ListJoin DEF e
<1>11. ConfigurationSteps(S) = e \o s12
  BY <1>1
<1>12. ToSet(e \o s12) =
          ToSet(s1) \cup ToSet(s2) \cup ToSet(s3) \cup ToSet(s4) \cup ToSet(s5) \cup ToSet(s6)
          \cup ToSet(s7) \cup ToSet(s8) \cup ToSet(s9) \cup ToSet(s10) \cup ToSet(s11)
          \cup ToSet(s12)
  <2>1. ToSet(e) = ToSet(d) \cup ToSet(s11)
    BY <1>9
  <2> HIDE DEF a, b, d, e
  <2> QED
    BY <1>6, <1>7, <1>8, <1>10, <2>1
<1> HIDE DEF a, b, d, e
<1> QED
  BY <1>10, <1>11, <1>12 DEF s1, s2, s3, s4, s5, s6, s7, s8, s9, s10, s11, s12

\* Which of the lateral modes are selected.
SelectedMode(S, m) == WriteIf(Stated(S, LateralModes[m]) = {TRUE}, "lateral", m)
Levelled(S) ==
    /\ \A m \in 1 .. 3 : Stated(S, LateralModes[m]) # {TRUE}
    /\ \E m \in 1 .. 3 : Stated(S, LateralModes[m]) = {FALSE}
WingsLevel(S) == WriteIf(Levelled(S), "lateral", 0)

LEMMA LateralIs ==
    ASSUME NEW S
    PROVE  /\ LateralSteps(S) = SelectedMode(S, 1) \o SelectedMode(S, 2) \o SelectedMode(S, 3)
                                \o WingsLevel(S)
           /\ \A m : /\ IsList(SelectedMode(S, m))
                     /\ ToSet(SelectedMode(S, m)) \subseteq {Write("lateral", m)}
                     /\ Stated(S, LateralModes[m]) = {TRUE} =>
                           ToSet(SelectedMode(S, m)) = {Write("lateral", m)}
           /\ IsList(WingsLevel(S)) /\ ToSet(WingsLevel(S)) \subseteq {Write("lateral", 0)}
           /\ ~Levelled(S) => ToSet(WingsLevel(S)) = {}
           /\ IsList(LateralSteps(S))
           /\ ToSet(LateralSteps(S)) =
                 ToSet(SelectedMode(S, 1)) \cup ToSet(SelectedMode(S, 2))
                 \cup ToSet(SelectedMode(S, 3)) \cup ToSet(WingsLevel(S))
<1>1. LateralSteps(S) = SelectedMode(S, 1) \o SelectedMode(S, 2) \o SelectedMode(S, 3)
                        \o WingsLevel(S)
  BY DEF LateralSteps, SelectedMode, WingsLevel, Levelled
<1>2. \A m : /\ IsList(SelectedMode(S, m))
             /\ ToSet(SelectedMode(S, m)) \subseteq {Write("lateral", m)}
             /\ Stated(S, LateralModes[m]) = {TRUE} =>
                   ToSet(SelectedMode(S, m)) = {Write("lateral", m)}
  <2> TAKE m
  <2> DEFINE b == Stated(S, LateralModes[m]) = {TRUE}
  <2> HIDE DEF b
  <2>1. SelectedMode(S, m) = WriteIf(b, "lateral", m)
    BY DEF SelectedMode, b
  <2>2. /\ IsList(WriteIf(b, "lateral", m))
        /\ b => ToSet(WriteIf(b, "lateral", m)) = {Write("lateral", m)}
        /\ ~b => ToSet(WriteIf(b, "lateral", m)) = {}
    BY ListIf
  <2>3. b <=> Stated(S, LateralModes[m]) = {TRUE}
    BY DEF b
  <2> QED
    BY <2>1, <2>2, <2>3
<1>3. /\ IsList(WingsLevel(S)) /\ ToSet(WingsLevel(S)) \subseteq {Write("lateral", 0)}
      /\ ~Levelled(S) => ToSet(WingsLevel(S)) = {}
  BY ListIf DEF WingsLevel
<1> DEFINE s1 == SelectedMode(S, 1)
           s2 == SelectedMode(S, 2)
           s3 == SelectedMode(S, 3)
           s4 == WingsLevel(S)
<1>4. IsList(s1) /\ IsList(s2) /\ IsList(s3) /\ IsList(s4)
  BY <1>2, <1>3
<1>5. /\ IsList(s1 \o s2 \o s3 \o s4)
      /\ ToSet(s1 \o s2 \o s3 \o s4) = ToSet(s1) \cup ToSet(s2) \cup ToSet(s3) \cup ToSet(s4)
  <2> HIDE DEF s1, s2, s3, s4
  <2> QED
    BY <1>4, ListJoin4
<1> QED
  BY <1>1, <1>2, <1>3, <1>5

LEMMA AutopilotIs ==
    ASSUME NEW S
    PROVE  /\ IsList(AutopilotSteps(S))
           /\ ToSet(AutopilotSteps(S)) =
                 ToSet(ModeOf(S)) \cup ToSet(LateralSteps(S)) \cup ToSet(WriteOf(S, "target_altitude"))
                 \cup ToSet(TargetIasOf(S)) \cup ToSet(HeadingOf(S))
                 \cup ToSet(WriteOf(S, "target_vertical"))
<1> DEFINE s1 == ModeOf(S)
           s2 == LateralSteps(S)
           s3 == WriteOf(S, "target_altitude")
           s4 == TargetIasOf(S)
           s5 == HeadingOf(S)
           s6 == WriteOf(S, "target_vertical")
<1>1. AutopilotSteps(S) = s1 \o s2 \o s3 \o s4 \o s5 \o s6
  BY DEF AutopilotSteps, ModeOf, TargetIasOf, HeadingOf
<1>2. IsList(s1) /\ IsList(s2) /\ IsList(s3) /\ IsList(s4) /\ IsList(s5) /\ IsList(s6)
  BY ModeIs, LateralIs, ListOfField, TargetIasIs, ListIf DEF HeadingOf
<1> HIDE DEF s1, s2, s3, s4, s5, s6
<1> DEFINE a == s1 \o s2 \o s3 \o s4
<1>3. IsList(a) /\ ToSet(a) = ToSet(s1) \cup ToSet(s2) \cup ToSet(s3) \cup ToSet(s4)
  BY <1>2, ListJoin4
<1>4. IsList(a \o s5) /\ ToSet(a \o s5) = ToSet(a) \cup ToSet(s5)
  <2> HIDE DEF a
  <2> QED
    BY <1>2, <1>3, ListJoin
<1> DEFINE b == a \o s5
<1>5. IsList(b \o s6) /\ ToSet(b \o s6) = ToSet(b) \cup ToSet(s6)
  <2> HIDE DEF b
  <2> QED
    BY <1>2, <1>4, ListJoin DEF b
<1>6. /\ IsList(AutopilotSteps(S))
      /\ ToSet(AutopilotSteps(S)) = ToSet(s1) \cup ToSet(s2) \cup ToSet(s3) \cup ToSet(s4)
                                    \cup ToSet(s5) \cup ToSet(s6)
  BY <1>1, <1>3, <1>4, <1>5
<1> QED
  BY <1>6 DEF s1, s2, s3, s4, s5, s6

FlyStep(S) == [do |-> "fly", setup |-> S]

LEMMA SetupIs ==
    ASSUME NEW S
    PROVE  /\ IsList(SetupSteps(S))
           /\ IsList(ConfigurationSteps(S)) /\ IsList(AutopilotSteps(S)) /\ IsList(FlightModelSteps(S))
           /\ ToSet(FlightModelSteps(S)) = {FlyStep(S)}
           /\ ToSet(SetupSteps(S)) = ToSet(ConfigurationSteps(S)) \cup ToSet(AutopilotSteps(S))
                                     \cup {FlyStep(S)}
<1> DEFINE s1 == ConfigurationSteps(S)
           s2 == AutopilotSteps(S)
           f == FlyStep(S)
<1>1. SetupSteps(S) = (s1 \o s2) \o <<f>> /\ FlightModelSteps(S) = <<f>>
  BY DEF SetupSteps, FlightModelSteps, FlyStep
<1>2. IsList(s1) /\ IsList(s2)
  BY ConfigurationIs, AutopilotIs
<1> HIDE DEF s1, s2, f
<1>3. IsList(<<f>>) /\ ToSet(<<f>>) = {f}
  BY ListOne
<1> DEFINE a == s1 \o s2
<1>4. IsList(a) /\ ToSet(a) = ToSet(s1) \cup ToSet(s2)
  BY <1>2, ListJoin
<1>5. IsList(a \o <<f>>) /\ ToSet(a \o <<f>>) = ToSet(a) \cup {f}
  <2> HIDE DEF a
  <2> QED
    BY <1>3, <1>4, ListJoin
<1> QED
  BY <1>1, <1>2, <1>3, <1>4, <1>5 DEF s1, s2, f

-----------------------------------------------------------------------------
(* Every step the adapter makes is proper, and only a weather request asks *)
(* for manual weather                                                      *)

FreeScalars == Scalars \ {"mode", "tanks"}

LEMMA ProperWrite ==
    ASSUME NEW name \in FreeScalars, NEW v
    PROVE  Proper(Write(name, v)) /\ Write(name, v).do = "write"
<1>1. <<name, 0>> \in Datarefs /\ name # "mode" /\ name # "tanks" /\ name # "wind"
  BY DEF Datarefs, FreeScalars, Scalars
<1> QED
  BY <1>1 DEF Proper, Write, WriteAt, Kinds

LEMMA ProperWriteAt ==
    ASSUME NEW name \in {"tank", "station", "aloft", "dewpoint", "cloud", "wind"}, NEW i, NEW v,
           <<name, i>> \in Datarefs, name = "wind" => v.altitude \in Int
    PROVE  Proper(WriteAt(name, i, v)) /\ WriteAt(name, i, v).do = "write"
BY DEF Proper, WriteAt, Kinds

LEMMA PlainOne ==
    ASSUME NEW x, Proper(x), x.do \notin {"manual", "check"} PROVE Plain(<<x>>)
BY ListOne DEF Plain

LEMMA PlainJoin ==
    ASSUME NEW s, NEW t, Plain(s), Plain(t) PROVE Plain(s \o t)
BY ListJoin DEF Plain

LEMMA PlainEmpty == Plain(<<>>)
BY ListEmpty DEF Plain

LEMMA PlainIf ==
    ASSUME NEW b, NEW name \in FreeScalars, NEW v PROVE Plain(WriteIf(b, name, v))
<1>1. Proper(Write(name, v)) /\ Write(name, v).do \notin {"manual", "check"}
  BY ProperWrite
<1> QED
  BY <1>1, PlainOne, PlainEmpty DEF WriteIf

LEMMA PlainField ==
    ASSUME NEW S, NEW f \in FreeScalars PROVE Plain(WriteOf(S, f))
BY PlainIf DEF WriteOf

LEMMA FreeNames ==
    /\ {"flaps", "speedbrake", "trim", "throttle", "gear", "autobrake", "nav1", "nav2", "obs1",
        "obs2", "landing", "taxi", "nav", "beacon", "strobe", "lateral", "target_altitude",
        "is_mach", "target_ias", "target_heading", "target_vertical"} \subseteq FreeScalars
    /\ {"psi", "theta", "phi", "vertical", "x", "y", "altitude", "vx", "vy", "vz", "visibility",
        "qnh", "temperature", "rain", "friction", "change", "update"} \subseteq FreeScalars
BY DEF FreeScalars, Scalars

LEMMA PlainConfiguration ==
    ASSUME NEW S PROVE Plain(ConfigurationSteps(S))
<1> DEFINE Good(s) == \A step \in ToSet(s) : Proper(step) /\ step.do \notin {"manual", "check"}
<1>1. \A f \in FreeScalars : Good(WriteOf(S, f))
  BY PlainField DEF Plain
<1>2. Good(GearOf(S)) /\ Good(Nav2Of(S))
  BY PlainIf, FreeNames DEF Plain, GearOf, Nav2Of
<1>3. Good(Nav1Of(S))
  <2>1. \A v : Proper(Write("nav1", v)) /\ Write("nav1", v).do = "write"
    BY ProperWrite, FreeNames
  <2> QED
    BY <2>1, Nav1Is
<1>4. \A lights : Good(SwitchWrites(lights))
  <2> TAKE lights
  <2>1. \A name \in Switches : Good(SwitchOf(lights, name))
    BY PlainIf, FreeNames DEF Plain, SwitchOf, Switches
  <2> QED
    BY <2>1, SwitchesAre DEF Switches
<1>5. Good(LightsOf(S))
  BY <1>4, LightsAre
<1>6. Good(MassesOf(S))
  <2>1. \A name \in {"tank", "station"} : \A masses :
           Proper(Masses(name, masses)) /\ Masses(name, masses).do = "masses"
    BY DEF Proper, Masses, Kinds
  <2> QED
    BY <2>1, MassesAre DEF Arrays
<1> HIDE DEF Good
<1>7. Good(WriteOf(S, "flaps")) /\ Good(WriteOf(S, "speedbrake")) /\ Good(WriteOf(S, "trim"))
      /\ Good(WriteOf(S, "throttle")) /\ Good(WriteOf(S, "autobrake")) /\ Good(WriteOf(S, "obs1"))
      /\ Good(WriteOf(S, "obs2"))
  BY <1>1, FreeNames
<1>8. Good(ConfigurationSteps(S))
  BY <1>2, <1>3, <1>5, <1>6, <1>7, ConfigurationIs DEF Good
<1> QED
  BY <1>8, ConfigurationIs DEF Plain, Good

LEMMA PlainAutopilot ==
    ASSUME NEW S, SetupTyped(S) PROVE Plain(AutopilotSteps(S))
<1> DEFINE Good(s) == \A step \in ToSet(s) : Proper(step) /\ step.do \notin {"manual", "check"}
<1>1. \A f \in FreeScalars : Good(WriteOf(S, f))
  BY PlainField DEF Plain
<1>2. Good(HeadingOf(S))
  BY PlainIf, FreeNames DEF Plain, HeadingOf
<1>3. Good(TargetIasOf(S)) /\ Good(LateralSteps(S))
  <2>1. \A name \in {"is_mach", "target_ias", "lateral"} : \A v :
           Proper(Write(name, v)) /\ Write(name, v).do = "write"
    BY ProperWrite, FreeNames
  <2>2. Good(TargetIasOf(S))
    BY <2>1, TargetIasIs
  <2>3. ToSet(LateralSteps(S)) \subseteq {Write("lateral", m) : m \in {0, 1, 2, 3}}
    BY LateralIs
  <2> QED
    BY <2>1, <2>2, <2>3
<1>4. Good(ModeOf(S))
  <2>1. Stated(S, "director") \in Flags /\ Stated(S, "master") \in Flags
    <3>1. \A f \in {"director", "master"} : States(S, f) => S[f] \in BOOLEAN
      BY DEF SetupTyped, States
    <3> QED
      BY <3>1 DEF Stated, Flags
  <2> DEFINE d == Stated(S, "director")
             m == Stated(S, "master")
             w == [do |-> "mode", director |-> d, master |-> m]
  <2>2. ToSet(ModeOf(S)) \subseteq {w}
    BY ModeIs
  <2>3. Proper(w) /\ w.do = "mode"
    <3> HIDE DEF d, m
    <3>1. w.do = "mode" /\ w.director = d /\ w.master = m
      OBVIOUS
    <3> HIDE DEF w
    <3> QED
      BY <3>1, <2>1 DEF Proper, Kinds, d, m
  <2> HIDE DEF w
  <2> QED
    BY <2>2, <2>3
<1> HIDE DEF Good
<1>5. Good(WriteOf(S, "target_altitude")) /\ Good(WriteOf(S, "target_vertical"))
  BY <1>1, FreeNames
<1>6. Good(AutopilotSteps(S))
  BY <1>2, <1>3, <1>4, <1>5, AutopilotIs DEF Good
<1> QED
  BY <1>6, AutopilotIs DEF Plain, Good

LEMMA PlainSetup ==
    ASSUME NEW S, SetupTyped(S) PROVE Plain(SetupSteps(S))
<1>1. Proper(FlyStep(S)) /\ FlyStep(S).do = "fly"
  BY DEF Proper, FlyStep, Kinds
<1> QED
  BY <1>1, PlainConfiguration, PlainAutopilot, SetupIs DEF Plain

LEMMA PlainTeleport ==
    ASSUME NEW placement, NEW S PROVE Plain(TeleportSteps(placement, S))
<1> DEFINE w == [do |-> "teleport", position |-> placement.position, heading |-> placement.heading,
                 ias |-> S.ias, vertical |-> Stated(S, "vertical")]
<1>1. Proper(w) /\ w.do = "teleport"
  BY DEF Proper, Kinds
<1>2. TeleportSteps(placement, S) = <<w>>
  BY DEF TeleportSteps
<1> HIDE DEF w
<1> QED
  BY <1>1, <1>2, PlainOne

LEMMA PlainMasses ==
    ASSUME NEW step, step.name \in {"tank", "station"}, NEW known
    PROVE  /\ Plain(MassWrites(step, known))
           /\ \A w \in ToSet(MassWrites(step, known)) : \E i \in (1 .. known \cup DOMAIN step.masses) \cap Slots :
                 w = WriteAt(step.name, i, MassIn(step.masses, i))
           /\ \A i \in (1 .. known \cup DOMAIN step.masses) \cap Slots :
                 \E w \in ToSet(MassWrites(step, known)) :
                    w = WriteAt(step.name, i, MassIn(step.masses, i))
<1> DEFINE numbers == (1 .. known \cup DOMAIN step.masses) \cap Slots
           n == Cardinality(numbers)
           slots == InOrder(numbers)
           Of(i) == WriteAt(step.name, i, MassIn(step.masses, i))
           s == MassWrites(step, known)
<1>1. /\ n \in Nat /\ slots \in [1 .. n -> numbers]
      /\ \A i \in numbers : \E j \in 1 .. n : slots[j] = i
  <2>1. Slots = 1 .. Cardinality(Slots) /\ Cardinality(Slots) \in Nat
    BY ArraysAssumption, FS_CardinalityType
  <2>2. numbers \in SUBSET (1 .. Cardinality(Slots))
    BY <2>1
  <2> HIDE DEF numbers
  <2> QED
    BY <2>1, <2>2, InOrderIs
<1>2. s = [j \in 1 .. n |-> Of(slots[j])]
  <2>1. DOMAIN slots = 1 .. n
    BY <1>1
  <2>2. s = [j \in DOMAIN slots |-> Of(slots[j])]
    BY DEF MassWrites, MassIn
  <2> HIDE DEF slots, n, s
  <2> QED
    BY <2>1, <2>2
<1>3. \A i \in numbers : Proper(Of(i)) /\ Of(i).do = "write"
  <2> TAKE i \in numbers
  <2>1. <<step.name, i>> \in Datarefs
    BY DEF Datarefs
  <2> QED
    BY <2>1, ProperWriteAt
<1> DEFINE S == {Of(i) : i \in numbers}
<1> HIDE DEF slots, n, numbers, s, Of
<1>4. s \in [1 .. n -> S]
  BY <1>1, <1>2 
<1>5. IsList(s) /\ ToSet(s) = {s[j] : j \in 1 .. n} /\ ToSet(s) \subseteq S
  <2> HIDE DEF S
  <2> QED
    BY <1>1, <1>4, ListBy
<1>6. S \subseteq ToSet(s)
  BY <1>1, <1>2, <1>5
<1>7. Plain(s)
  BY <1>3, <1>5 DEF Plain
<1> QED
  BY <1>5, <1>6, <1>7 DEF s, S, numbers, Of

LEMMA PlainVelocity ==
    ASSUME NEW mem, NEW step
    PROVE  Plain(VelocityWrites(mem, step))
<1> DEFINE wind == IF step.altitude = {} THEN [direction |-> 0, speed |-> 0]
                   ELSE WindAt(mem, The(step.altitude))
           heading == Else(step.heading, mem[<<"psi", 0>>])
           a == step.tas * East(heading) - wind.speed * East(wind.direction)
           b == Else(step.vertical, 0)
           d == wind.speed * North(wind.direction) - step.tas * North(heading)
<1>1. VelocityWrites(mem, step) = <<Write("vx", a), Write("vy", b), Write("vz", d)>>
  BY DEF VelocityWrites
<1> HIDE DEF a, b, d
<1> DEFINE u == Write("vx", a)
           v == Write("vy", b)
           w == Write("vz", d)
<1>2. \A x \in {u, v, w} : Proper(x) /\ x.do = "write"
  BY ProperWrite, FreeNames
<1> HIDE DEF u, v, w
<1>3. IsList(<<u, v, w>>) /\ ToSet(<<u, v, w>>) = {u, v, w}
  BY ListThree
<1> QED
  BY <1>1, <1>2, <1>3 DEF Plain, u, v, w

LEMMA PlainDirect ==
    ASSUME NEW S PROVE Plain(DirectWrites(S))
<1> DEFINE s1 == WriteIf(States(S, "heading"), "psi", Fold(S.heading))
           s2 == WriteIf(States(S, "pitch"), "theta", S.pitch)
           s3 == WriteIf(States(S, "roll"), "phi", S.roll)
           s4 == WriteOf(S, "vertical")
<1>1. Plain(s1) /\ Plain(s2) /\ Plain(s3) /\ Plain(s4)
  BY PlainIf, PlainField, FreeNames
<1>2. DirectWrites(S) = s1 \o s2 \o s3 \o s4
  BY DEF DirectWrites
<1> HIDE DEF s1, s2, s3, s4
<1> QED
  BY <1>1, <1>2, ListJoin4 DEF Plain

SpeedOf(mem, S) ==
    IF States(S, "ias")
    THEN << Velocity(AirspeedAt(mem, S.ias, Else(Stated(S, "altitude"), mem[<<"altitude", 0>>])),
                     Stated(S, "heading"), Stated(S, "vertical"), Stated(S, "altitude")) >>
    ELSE <<>>

LEMMA FlightIs ==
    ASSUME NEW mem, NEW S
    PROVE  /\ FlightModelWrites(mem, S) = DirectWrites(S) \o WriteOf(S, "altitude") \o SpeedOf(mem, S)
           /\ Plain(FlightModelWrites(mem, S))
           /\ ToSet(FlightModelWrites(mem, S)) =
                 ToSet(DirectWrites(S)) \cup ToSet(WriteOf(S, "altitude")) \cup ToSet(SpeedOf(mem, S))
           /\ Plain(SpeedOf(mem, S))
<1> DEFINE v == Velocity(AirspeedAt(mem, S.ias, Else(Stated(S, "altitude"), mem[<<"altitude", 0>>])),
                         Stated(S, "heading"), Stated(S, "vertical"), Stated(S, "altitude"))
           s1 == DirectWrites(S)
           s2 == WriteOf(S, "altitude")
           s3 == SpeedOf(mem, S)
<1>1. FlightModelWrites(mem, S) = s1 \o s2 \o s3
  BY DEF FlightModelWrites, SpeedOf
<1>2. Proper(v) /\ v.do = "velocity"
  BY DEF Velocity, Proper, Kinds
<1>3. Plain(s3)
  <2>1. s3 = IF States(S, "ias") THEN <<v>> ELSE <<>>
    BY DEF SpeedOf
  <2> HIDE DEF v, s3
  <2> QED
    BY <2>1, <1>2, PlainOne, PlainEmpty
<1>4. Plain(s1) /\ Plain(s2)
  BY PlainDirect, PlainField, FreeNames
<1> HIDE DEF s1, s2, s3
<1> DEFINE a == s1 \o s2
<1>5. Plain(a) /\ ToSet(a) = ToSet(s1) \cup ToSet(s2)
  BY <1>4, PlainJoin, ListJoin DEF Plain
<1>6. Plain(a \o s3) /\ ToSet(a \o s3) = ToSet(a) \cup ToSet(s3)
  <2> HIDE DEF a
  <2> QED
    BY <1>3, <1>5, PlainJoin, ListJoin DEF Plain
<1> QED
  BY <1>1, <1>3, <1>5, <1>6 DEF s1, s2, s3

\* The five steps of an arrival.
LEMMA ArrivalIs ==
    ASSUME NEW mem, NEW step
    PROVE  /\ Plain(TeleportWrites(mem, step))
           /\ ToSet(TeleportWrites(mem, step)) =
                 {Write("x", step.position.x), Write("altitude", step.position.altitude),
                  Write("y", step.position.y),
                  Velocity(AirspeedAt(mem, step.ias, step.position.altitude), {step.heading},
                           step.vertical, {step.position.altitude}),
                  Write("psi", Fold(step.heading))}
<1> DEFINE x == Write("x", step.position.x)
           y == Write("altitude", step.position.altitude)
           z == Write("y", step.position.y)
           u == Velocity(AirspeedAt(mem, step.ias, step.position.altitude), {step.heading},
                         step.vertical, {step.position.altitude})
           v == Write("psi", Fold(step.heading))
<1>1. TeleportWrites(mem, step) = <<x, y, z, u, v>>
  BY DEF TeleportWrites
<1>2. Proper(u) /\ u.do = "velocity"
  BY DEF Velocity, Proper, Kinds
<1>3. \A w \in {x, y, z, v} : Proper(w) /\ w.do = "write"
  BY ProperWrite, FreeNames
<1> HIDE DEF x, y, z, u, v
<1>4. IsList(<<x, y, z, u, v>>) /\ ToSet(<<x, y, z, u, v>>) = {x, y, z, u, v}
  BY ListFive
<1>5. Plain(<<x, y, z, u, v>>)
  BY <1>2, <1>3, <1>4 DEF Plain
<1> QED
  BY <1>1, <1>4, <1>5 DEF x, y, z, u, v

-----------------------------------------------------------------------------
(* The weather's steps                                                     *)

LEMMA RaisedLayer ==
    ASSUME NEW w, "altitude" \in DOMAIN w, NEW v
    PROVE  [w EXCEPT !.altitude = v].altitude = v
OBVIOUS

LEMMA LevelAltitude ==
    ASSUME NEW layers, Layered(layers), NEW level \in Nat \ {0}
    PROVE  LevelOf(layers, level).altitude \in Int
<1>1. CASE layers = <<>>
  <2>1. "altitude" \in DOMAIN Calm
    BY DEF Calm, Wind
  <2>2. PaddingStep * (level - 1) \in Int
    BY DEF PaddingStep
  <2>3. LevelOf(layers, level) = [Calm EXCEPT !.altitude = PaddingStep * (level - 1)]
    BY <1>1 DEF LevelOf
  <2> QED
    BY <2>1, <2>2, <2>3, RaisedLayer
<1>2. CASE layers # <<>>
  <2>1. Len(layers) \in Nat /\ Len(layers) # 0 /\ \A i \in 1 .. Len(layers) : layers[i] \in ToSet(layers)
    BY <1>2, ListFacts DEF Layered
  <2>2. CASE level <= Len(layers)
    <3>1. LevelOf(layers, level) = layers[level]
      BY <1>2, <2>2 DEF LevelOf
    <3> QED
      BY <3>1, <2>1, <2>2 DEF Layered
  <2>3. CASE ~(level <= Len(layers))
    <3> DEFINE w == Last(layers)
               k == PaddingStep * (level - Len(layers))
    <3>1. w \in ToSet(layers)
      BY <2>1 DEF Last
    <3>2. LevelOf(layers, level) = [w EXCEPT !.altitude = @ + k]
      BY <1>2, <2>3 DEF LevelOf
    <3>3. k \in Int
      BY <2>1 DEF PaddingStep
    <3>4. "altitude" \in DOMAIN w /\ w.altitude + k \in Int
      BY <3>1, <3>3 DEF Layered
    <3> HIDE DEF w, k
    <3> QED
      BY <3>2, <3>4, RaisedLayer
  <2> QED
    BY <2>2, <2>3
<1> QED
  BY <1>1, <1>2

\* One write for each index, of one name.
LEMMA PlainRow ==
    ASSUME NEW n \in Nat, NEW s, DOMAIN s = 1 .. n, s = [i \in 1 .. n |-> s[i]],
           \A i \in 1 .. n : Proper(s[i]) /\ s[i].do \notin {"manual", "check"}
    PROVE  Plain(s)
<1> DEFINE S == {s[i] : i \in 1 .. n}
<1>1. s \in [1 .. n -> S]
  OBVIOUS
<1>2. IsList(s) /\ ToSet(s) = {s[i] : i \in 1 .. n}
  <2> HIDE DEF S
  <2> QED
    BY <1>1, ListBy
<1> QED
  BY <1>2 DEF Plain

LEMMA PlainWind ==
    ASSUME NEW layers, Layered(layers) PROVE Plain(WindWrites(layers))
<1> DEFINE s == WindWrites(layers)
<1>1. s = [i \in 1 .. WindLevels |-> WriteAt("wind", i, LevelOf(layers, i))]
  BY DEF WindWrites
<1>2. WindLevels \in Nat
  BY ArraysAssumption
<1>3. ASSUME NEW i \in 1 .. WindLevels PROVE Proper(s[i]) /\ s[i].do = "write"
  <2>1. LevelOf(layers, i).altitude \in Int
    BY <1>2, LevelAltitude
  <2>2. <<"wind", i>> \in Datarefs
    BY DEF Datarefs
  <2>3. s[i] = WriteAt("wind", i, LevelOf(layers, i))
    BY <1>1
  <2> HIDE DEF s
  <2> QED
    BY <2>1, <2>2, <2>3, ProperWriteAt
<1>4. DOMAIN s = 1 .. WindLevels /\ s = [i \in 1 .. WindLevels |-> s[i]]
  BY <1>1
<1> HIDE DEF s
<1>5. Plain(s)
  BY <1>2, <1>3, <1>4, PlainRow
<1> QED
  BY <1>5 DEF s

LEMMA PlainClouds ==
    ASSUME NEW layers PROVE Plain(CloudSteps(layers))
<1> DEFINE s == [slot \in 1 .. CloudSlots |-> WriteAt("cloud", slot, SlotOf(layers, slot))]
           w == [do |-> "settle", layers |-> layers]
<1>1. CloudSteps(layers) = s \o <<w>>
  BY DEF CloudSteps
<1>2. CloudSlots \in Nat
  BY ArraysAssumption
<1>3. ASSUME NEW i \in 1 .. CloudSlots PROVE Proper(s[i]) /\ s[i].do = "write"
  <2>1. <<"cloud", i>> \in Datarefs
    BY DEF Datarefs
  <2>2. s[i] = WriteAt("cloud", i, SlotOf(layers, i))
    OBVIOUS
  <2> HIDE DEF s
  <2> QED
    BY <2>1, <2>2, ProperWriteAt
<1>4. DOMAIN s = 1 .. CloudSlots /\ s = [i \in 1 .. CloudSlots |-> s[i]]
  OBVIOUS
<1>5. Proper(w) /\ w.do = "settle"
  BY DEF Proper, Kinds
<1> HIDE DEF s, w
<1>6. Plain(s) /\ Plain(<<w>>)
  BY <1>2, <1>3, <1>4, <1>5, PlainRow, PlainOne
<1> QED
  BY <1>1, <1>6, PlainJoin

\* A part of the weather: the steps, if the setup states the field.
LEMMA PlainPair ==
    ASSUME NEW x, NEW y, Proper(x), Proper(y), x.do \notin {"manual", "check"},
           y.do \notin {"manual", "check"}
    PROVE  Plain(<<x, y>>)
BY ListTwo DEF Plain

LEMMA PlainWeather ==
    ASSUME NEW S, States(S, "wind") => Layered(S.wind)
    PROVE  Plain(WeatherFieldSteps(S))
<1> DEFINE s1 == IF States(S, "wind") THEN WindWrites(S.wind) ELSE <<>>
           s2 == IF States(S, "cloud") THEN CloudSteps(S.cloud) ELSE <<>>
           s3 == WriteOf(S, "visibility")
           s4 == WriteOf(S, "qnh")
           t1 == Write("temperature", S.temperature)
           t2 == [do |-> "ladder", temperature |-> S.temperature]
           s5 == IF States(S, "temperature") THEN <<t1, t2>> ELSE <<>>
           d1 == WriteAt("dewpoint", 1, S.dewpoint)
           d2 == [do |-> "dewpoints", dewpoint |-> S.dewpoint]
           s6 == IF States(S, "dewpoint") THEN <<d1, d2>> ELSE <<>>
           s7 == WriteIf(States(S, "precipitation"), "rain", S.precipitation)
           s8 == WriteIf(States(S, "contamination"), "friction", Frictions[S.contamination])
<1>1. WeatherFieldSteps(S) = s1 \o s2 \o s3 \o s4 \o s5 \o s6 \o s7 \o s8
  BY DEF WeatherFieldSteps
<1>2. Plain(s1) /\ Plain(s2)
  BY PlainWind, PlainClouds, PlainEmpty
<1>3. Plain(s3) /\ Plain(s4) /\ Plain(s7) /\ Plain(s8)
  BY PlainField, PlainIf, FreeNames
<1>4. Plain(s5)
  <2>1. Proper(t1) /\ t1.do = "write"
    BY ProperWrite, FreeNames
  <2>2. Proper(t2) /\ t2.do = "ladder"
    BY DEF Proper, Kinds
  <2> HIDE DEF t1, t2
  <2> QED
    BY <2>1, <2>2, PlainPair, PlainEmpty
<1>5. Plain(s6)
  <2>1. <<"dewpoint", 1>> \in Datarefs
    BY ArraysAssumption DEF Datarefs, MaxWindLayers
  <2>2. Proper(d1) /\ d1.do = "write"
    BY <2>1, ProperWriteAt
  <2>3. Proper(d2) /\ d2.do = "dewpoints"
    BY DEF Proper, Kinds
  <2> HIDE DEF d1, d2
  <2> QED
    BY <2>2, <2>3, PlainPair, PlainEmpty
<1> HIDE DEF s1, s2, s3, s4, s5, s6, s7, s8
<1> DEFINE a == s1 \o s2 \o s3 \o s4
           b == a \o s5 \o s6 \o s7
<1>6. Plain(a)
  BY <1>2, <1>3, ListJoin4 DEF Plain
<1>7. Plain(b)
  <2> HIDE DEF a
  <2> QED
    BY <1>3, <1>4, <1>5, <1>6, ListJoin4 DEF Plain
<1>8. Plain(b \o s8)
  <2> HIDE DEF b
  <2> QED
    BY <1>3, <1>7, PlainJoin
<1> QED
  BY <1>1, <1>8

LEMMA PlainLadder ==
    ASSUME NEW altitudes, DOMAIN altitudes = 1 .. WindLevels, NEW t
    PROVE  Plain(LadderWrites(altitudes, t))
<1> DEFINE Of(i) == WriteAt("aloft", i, TemperatureAt(altitudes[i], IsaDeviation(t, 0)))
           s == LadderWrites(altitudes, t)
<1>1. s = [i \in 1 .. WindLevels |-> Of(i)]
  BY DEF LadderWrites
<1>2. WindLevels \in Nat
  BY ArraysAssumption
<1>3. ASSUME NEW i \in 1 .. WindLevels PROVE Proper(s[i]) /\ s[i].do = "write"
  <2>1. <<"aloft", i>> \in Datarefs
    BY DEF Datarefs
  <2>2. s[i] = Of(i)
    BY <1>1
  <2> HIDE DEF s
  <2> QED
    BY <2>1, <2>2, ProperWriteAt
<1>4. DOMAIN s = 1 .. WindLevels /\ s = [i \in 1 .. WindLevels |-> s[i]]
  BY <1>1
<1> HIDE DEF s
<1>5. Plain(s)
  BY <1>2, <1>3, <1>4, PlainRow
<1> QED
  BY <1>5 DEF s

LEMMA PlainDewpoints ==
    ASSUME NEW altitudes \in Seq(Int), Len(altitudes) = WindLevels, NEW d, NEW t
    PROVE  Plain(DewpointWrites(altitudes, d, t))
<1> DEFINE Of(i) == WriteAt("dewpoint", i + 1,
                            Smaller(d, TemperatureAt(altitudes[i + 1], IsaDeviation(t, 0))))
           n == WindLevels - 1
           s == DewpointWrites(altitudes, d, t)
<1>1. s = [i \in 1 .. n |-> Of(i)]
  BY DEF DewpointWrites
<1>2. n \in Nat
  BY ArraysAssumption DEF MaxWindLayers
<1>3. ASSUME NEW i \in 1 .. n PROVE Proper(s[i]) /\ s[i].do = "write"
  <2>1. i + 1 \in 1 .. WindLevels
    BY ArraysAssumption
  <2>2. <<"dewpoint", i + 1>> \in Datarefs
    BY <2>1 DEF Datarefs
  <2>3. s[i] = Of(i)
    BY <1>1
  <2> HIDE DEF s
  <2> QED
    BY <2>2, <2>3, ProperWriteAt
<1>4. DOMAIN s = 1 .. n /\ s = [i \in 1 .. n |-> s[i]]
  BY <1>1
<1> HIDE DEF s, n
<1>5. Plain(s)
  BY <1>2, <1>3, <1>4, PlainRow
<1> QED
  BY <1>5 DEF s

-----------------------------------------------------------------------------
(* What a step that reads becomes                                          *)

LEMMA ModeStaysAMode ==
    ASSUME NEW m \in Modes, NEW d \in Flags, NEW s \in Flags
    PROVE  /\ AutopilotMode(m, d, s) \in Modes
           /\ d = {TRUE} => AutopilotMode(m, d, s) \in {Director, Servos}
           /\ s = {TRUE} => AutopilotMode(m, d, s) = Servos
           /\ s = {FALSE} => AutopilotMode(m, d, s) # Servos
<1> DEFINE k == CASE d = {} -> m [] d = {TRUE} -> Larger(m, Director) [] d = {FALSE} -> Off
<1>1. k \in Modes /\ (d = {TRUE} => k \in {Director, Servos})
  <2>1. Larger(m, Director) \in {Director, Servos}
    BY DEF Modes, Larger, Off, Director, Servos
  <2>2. d = {} \/ d = {TRUE} \/ d = {FALSE}
    BY DEF Flags
  <2>3. {TRUE} # {} /\ {FALSE} # {} /\ {TRUE} # {FALSE}
    OBVIOUS
  <2>4. CASE d = {}
    BY <2>3, <2>4 DEF Modes
  <2>5. CASE d = {TRUE}
    BY <2>1, <2>3, <2>5 DEF Modes
  <2>6. CASE d = {FALSE}
    BY <2>3, <2>6 DEF Modes
  <2> QED
    BY <2>2, <2>4, <2>5, <2>6
<1>2. Smaller(k, Director) \in {Off, Director} /\ (k \in {Director, Servos} => Smaller(k, Director) = Director)
  <2> HIDE DEF k
  <2> QED
    BY <1>1 DEF Modes, Smaller, Off, Director, Servos
<1>3. AutopilotMode(m, d, s) = CASE s = {} -> k [] s = {TRUE} -> Servos [] s = {FALSE} -> Smaller(k, Director)
  BY DEF AutopilotMode
<1> HIDE DEF k
<1>4. s = {} \/ s = {TRUE} \/ s = {FALSE}
  BY DEF Flags
<1>5. {TRUE} # {} /\ {FALSE} # {} /\ {TRUE} # {FALSE}
  OBVIOUS
<1>6. Off # Servos /\ Director # Servos /\ Servos \in Modes /\ Off \in Modes /\ Director \in Modes
  BY DEF Off, Director, Servos, Modes
<1>7. CASE s = {}
  <2>1. AutopilotMode(m, d, s) = k
    BY <1>3, <1>5, <1>7
  <2> QED
    BY <2>1, <1>1, <1>5, <1>7
<1>8. CASE s = {TRUE}
  <2>1. AutopilotMode(m, d, s) = Servos
    BY <1>3, <1>5, <1>8
  <2> QED
    BY <2>1, <1>5, <1>6, <1>8
<1>9. CASE s = {FALSE}
  <2>1. AutopilotMode(m, d, s) = Smaller(k, Director)
    BY <1>3, <1>5, <1>9
  <2> QED
    BY <2>1, <1>1, <1>2, <1>5, <1>6, <1>9
<1> QED
  BY <1>4, <1>7, <1>8, <1>9

LEMMA AltitudesRead ==
    ASSUME SimOK
    PROVE  /\ WindAltitudes(sim) \in Seq(Int) /\ Len(WindAltitudes(sim)) = WindLevels
           /\ DOMAIN WindAltitudes(sim) = 1 .. WindLevels
<1>1. WindLevels \in Nat
  BY ArraysAssumption
<1>2. WindAltitudes(sim) \in [1 .. WindLevels -> Int]
  BY DEF WindAltitudes, SimOK
<1> HIDE DEF WindAltitudes
<1>3. WindAltitudes(sim) \in Seq(Int) /\ DOMAIN WindAltitudes(sim) = 1 .. WindLevels
  BY <1>1, <1>2, SeqDef
<1>4. Len(WindAltitudes(sim)) = WindLevels
  BY <1>1, <1>3, LenProperties
<1> QED
  BY <1>3, <1>4

LEMMA ExpandPlain ==
    ASSUME SimOK, NEW step, Proper(step), step.do \notin {"write", "settle", "check", "manual"}
    PROVE  Plain(Expand(step))
<1>1. CASE step.do = "masses"
  <2> DEFINE known == IF step.name = "tank" THEN sim[<<"tanks", 0>>] ELSE Cardinality(Slots)
  <2>1. Expand(step) = MassWrites(step, known)
    BY <1>1 DEF Expand
  <2> HIDE DEF known
  <2>2. step.name \in {"tank", "station"}
    BY <1>1 DEF Proper
  <2> QED
    BY <2>1, <2>2, PlainMasses
<1>2. CASE step.do = "mode"
  <2> DEFINE m == AutopilotMode(sim[<<"mode", 0>>], step.director, step.master)
             w == Write("mode", m)
  <2>1. Expand(step) = <<w>>
    BY <1>2 DEF Expand
  <2>2. m \in Modes
    BY <1>2, ModeStaysAMode DEF Proper, SimOK, Reads
  <2> HIDE DEF m
  <2>3. <<"mode", 0>> \in Datarefs /\ <<"mode", 0>> # <<"tanks", 0>>
    BY DEF Datarefs, Scalars
  <2>4. Proper(w) /\ w.do = "write"
    BY <2>2, <2>3 DEF Proper, Write, WriteAt, Kinds
  <2> HIDE DEF w
  <2> QED
    BY <2>1, <2>4, PlainOne
<1>3. CASE step.do = "fly"
  <2>1. Expand(step) = FlightModelWrites(sim, step.setup)
    BY <1>3 DEF Expand
  <2> QED
    BY <2>1, FlightIs
<1>4. CASE step.do = "teleport"
  <2>1. Expand(step) = TeleportWrites(sim, step)
    BY <1>4 DEF Expand
  <2> QED
    BY <2>1, ArrivalIs
<1>5. CASE step.do = "velocity"
  <2>1. Expand(step) = VelocityWrites(sim, step)
    BY <1>5 DEF Expand
  <2> QED
    BY <2>1, PlainVelocity
<1>6. CASE step.do = "ladder"
  <2>1. Expand(step) = LadderWrites(WindAltitudes(sim), step.temperature)
    BY <1>6 DEF Expand
  <2> QED
    BY <2>1, AltitudesRead, PlainLadder
<1>7. CASE step.do = "dewpoints"
  <2> DEFINE w == [do |-> "below", altitudes |-> WindAltitudes(sim), dewpoint |-> step.dewpoint]
  <2>1. Expand(step) = <<w>>
    BY <1>7 DEF Expand
  <2>2. w.do = "below" /\ w.altitudes = WindAltitudes(sim)
    OBVIOUS
  <2> HIDE DEF w
  <2>3. Proper(w)
    BY <2>2, AltitudesRead DEF Proper, Kinds
  <2> QED
    BY <2>1, <2>2, <2>3, PlainOne
<1>8. CASE step.do = "below"
  <2>1. Expand(step) = DewpointWrites(step.altitudes, step.dewpoint, sim[<<"temperature", 0>>])
    BY <1>8 DEF Expand
  <2>2. step.altitudes \in Seq(Int) /\ Len(step.altitudes) = WindLevels
    BY <1>8 DEF Proper
  <2> QED
    BY <2>1, <2>2, PlainDewpoints
<1> QED
  BY <1>1, <1>2, <1>3, <1>4, <1>5, <1>6, <1>7, <1>8 DEF Proper, Kinds

\* Asking for manual weather: two writes and a look, or nothing when it is on.
LEMMA ExpandManual ==
    ASSUME NEW step, step.do = "manual"
    PROVE  /\ IsList(Expand(step)) /\ \A x \in ToSet(Expand(step)) : Proper(x)
           /\ \A k \in 1 .. Len(Expand(step)) : Expand(step)[k].do \in {"manual", "check"} =>
                 \A j \in 1 .. k - 1 : /\ Expand(step)[j].do = "write"
                                       /\ Expand(step)[j].ref \in ManualRefs
<1> DEFINE u == Write("update", 1)
           v == Write("change", 3)
           w == [do |-> "check"]
<1>1. Expand(step) = IF sim[<<"source", 0>>] = 0 THEN <<>> ELSE <<u, v, w>>
  BY DEF Expand
<1>2. Proper(u) /\ Proper(v) /\ u.do = "write" /\ v.do = "write"
  BY ProperWrite, FreeNames
<1>3. Proper(w)
  BY DEF Proper, Kinds
<1>4. u.ref \in ManualRefs /\ v.ref \in ManualRefs
  BY DEF Write, WriteAt, ManualRefs
<1> HIDE DEF u, v, w
<1>5. CASE sim[<<"source", 0>>] = 0
  BY <1>1, <1>5, ListEmpty
<1>6. CASE sim[<<"source", 0>>] # 0
  <2> DEFINE s == <<u, v, w>>
  <2>1. IsList(s) /\ ToSet(s) = {u, v, w}
    BY ListThree
  <2>2. s[1] = u /\ s[2] = v /\ s[3] = w /\ Len(s) = 3
    OBVIOUS
  <2>3. Expand(step) = s
    BY <1>1, <1>6
  <2> HIDE DEF s
  <2>4. ASSUME NEW k \in 1 .. 3, s[k].do \in {"manual", "check"}, NEW j \in 1 .. k - 1
        PROVE  s[j].do = "write" /\ s[j].ref \in ManualRefs
    <3>1. k = 3
      BY <2>2, <2>4, <1>2
    <3>2. j = 1 \/ j = 2
      BY <3>1
    <3> QED
      BY <3>2, <2>2, <1>2, <1>4
  <2>5. \A k \in 1 .. 3 : s[k].do \in {"manual", "check"} =>
           \A j \in 1 .. k - 1 : s[j].do = "write" /\ s[j].ref \in ManualRefs
    BY <2>4
  <2> QED
    BY <2>1, <2>2, <2>3, <2>5, <1>2, <1>3
<1> QED
  BY <1>5, <1>6

-----------------------------------------------------------------------------
(* What a weather request resolves to                                      *)

LEMMA RaisedLayers ==
    ASSUME NEW layers, Layered(layers), NEW bearing, NEW elevation \in Int
    PROVE  Layered(ResolveWindLayers(layers, bearing, elevation))
<1> DEFINE n == Len(layers)
           Dir(d) == IF d.absolute THEN d.degrees ELSE Fold(bearing + d.degrees)
           s == ResolveWindLayers(layers, bearing, elevation)
<1>1. n \in Nat /\ DOMAIN layers = 1 .. n /\ \A i \in 1 .. n : layers[i] \in ToSet(layers)
  BY ListFacts DEF Layered
<1>2. s = [i \in 1 .. n |-> [layers[i] EXCEPT !.altitude = elevation + @, !.direction = Dir(@)]]
  BY <1>1 DEF ResolveWindLayers
<1>3. ASSUME NEW i \in 1 .. n PROVE "altitude" \in DOMAIN s[i] /\ s[i].altitude \in Int
  <2> DEFINE w == layers[i]
  <2>1. "altitude" \in DOMAIN w /\ w.altitude \in Int
    BY <1>1 DEF Layered
  <2>2. s[i] = [w EXCEPT !.altitude = elevation + @, !.direction = Dir(@)]
    BY <1>2
  <2> HIDE DEF w, s, Dir
  <2>3. DOMAIN s[i] = DOMAIN w /\ s[i].altitude = elevation + w.altitude
    BY <2>1, <2>2
  <2> QED
    BY <2>1, <2>3
<1> DEFINE S == {s[i] : i \in 1 .. n}
<1>4. s \in [1 .. n -> S]
  <2>1. DOMAIN s = 1 .. n /\ s = [i \in 1 .. n |-> s[i]]
    BY <1>2
  <2> HIDE DEF s, n
  <2> QED
    BY <2>1
<1>5. IsList(s) /\ ToSet(s) = {s[i] : i \in 1 .. n}
  <2> HIDE DEF s, n, S
  <2> QED
    BY <1>1, <1>4, ListBy
<1> HIDE DEF s, n
<1>6. Layered(s)
  BY <1>3, <1>5 DEF Layered
<1> QED
  BY <1>6 DEF s

LEMMA TheIsIn == ASSUME NEW S, S # {} PROVE The(S) \in S
BY DEF The

LEMMA OverIs ==
    ASSUME NEW a, NEW b, NEW f
    PROVE  /\ States(Over(a, b), f) <=> States(a, f) \/ States(b, f)
           /\ States(a, f) => Over(a, b)[f] = a[f]
           /\ ~States(a, f) /\ States(b, f) => Over(a, b)[f] = b[f]
BY DEF Over, States

LEMMA StatedWindIsLayered ==
    ASSUME NEW request, WeatherTyped(request), NEW stated \in request.setup, States(stated, "wind")
    PROVE  Layered(stated.wind)
<1> DEFINE R == [altitude : Int, direction : Int, speed : Int, gust : Int, turbulence : Int]
           w == stated.wind
<1>1. w \in Seq(R)
  BY DEF WeatherTyped
<1>2. \A l \in R : "altitude" \in DOMAIN l /\ l.altitude \in Int
  OBVIOUS
<1> HIDE DEF w, R
<1>3. Len(w) \in Nat /\ w \in [1 .. Len(w) -> R]
  BY <1>1, LenProperties
<1>4. IsList(w) /\ ToSet(w) \subseteq R
  BY <1>3, ListBy
<1> QED
  BY <1>2, <1>4 DEF Layered, w

\* A layer of a preset: above the field, across the runway or from a direction.
Blows(l) ==
    /\ {"altitude", "direction"} \subseteq DOMAIN l /\ l.altitude \in Nat
    /\ ~l.direction.absolute => l.direction.degrees = 90
Hangs(l) == "base" \in DOMAIN l /\ l.base \in Int

PresetOK(preset) ==
    /\ DOMAIN preset \ {"setup"} = {"wind", "cloud"} \cap DOMAIN preset
    /\ ~States(preset.setup, "wind") /\ ~States(preset.setup, "cloud")
    /\ FieldsTyped(preset.setup)
    /\ States(preset, "wind") => IsList(preset.wind) /\ \A l \in ToSet(preset.wind) : Blows(l)
    /\ States(preset, "cloud") => IsList(preset.cloud) /\ \A l \in ToSet(preset.cloud) : Hangs(l)
    \* one layer measured from the runway, and they all are
    /\ RequiresRunway(preset) => \A l \in ToSet(preset.wind) : ~l.direction.absolute

LEMMA NothingTyped == FieldsTyped(<<>>)
<1>1. DOMAIN <<>> = {}
  OBVIOUS
<1> QED
  BY <1>1 DEF FieldsTyped, States

LEMMA OverTyped ==
    ASSUME NEW a, NEW b, FieldsTyped(a), FieldsTyped(b) PROVE FieldsTyped(Over(a, b))
<1> DEFINE S == Over(a, b)
<1>1. \A f : /\ States(S, f) => States(a, f) \/ States(b, f)
             /\ States(a, f) => S[f] = a[f]
             /\ ~States(a, f) /\ States(b, f) => S[f] = b[f]
  BY OverIs
<1> HIDE DEF S
<1>2. States(S, "wind") => Layered(S.wind)
  BY <1>1 DEF FieldsTyped
<1>3. States(S, "cloud") => IsList(S.cloud)
  BY <1>1 DEF FieldsTyped
<1>4. \A f \in {"temperature", "dewpoint"} \cap DOMAIN S : S[f] \in Int
  <2> SUFFICES ASSUME NEW f \in {"temperature", "dewpoint"}, States(S, f) PROVE S[f] \in Int
    BY DEF States
  <2>1. CASE States(a, f)
    BY <1>1, <2>1 DEF FieldsTyped, States
  <2>2. CASE ~States(a, f)
    BY <1>1, <2>2 DEF FieldsTyped, States
  <2> QED
    BY <2>1, <2>2
<1>5. States(S, "contamination") => S.contamination \in DOMAIN Frictions
  BY <1>1 DEF FieldsTyped
<1> QED
  BY <1>2, <1>3, <1>4, <1>5 DEF FieldsTyped, S

LEMMA CloudHangs ==
    ASSUME NEW b \in Int, NEW t, NEW c, NEW k PROVE Hangs(Cloud(b, t, c, k))
BY DEF Hangs, Cloud

LEMMA WindBlows ==
    ASSUME NEW a \in Nat, NEW d, NEW s, NEW g, NEW t, d = OffRunway(90) \/ d.absolute
    PROVE  Blows(Wind(a, d, s, g, t)) /\ Wind(a, d, s, g, t).direction = d
<1> DEFINE w == Wind(a, d, s, g, t)
<1>1. {"altitude", "direction"} \subseteq DOMAIN w /\ w.altitude = a /\ w.direction = d
  BY DEF Wind
<1>2. ~d.absolute => d.degrees = 90
  BY DEF OffRunway
<1> HIDE DEF w
<1>3. Blows(w) /\ w.direction = d
  BY <1>1, <1>2 DEF Blows
<1> QED
  BY <1>3 DEF w

LEMMA FromIs == \A d : From(d).absolute = TRUE
BY DEF From

\* The layers of a preset that states one of a kind, or none.
LEMMA OneHangs ==
    ASSUME NEW b \in Int, NEW t, NEW c, NEW k, NEW s, s = <<Cloud(b, t, c, k)>>
    PROVE  IsList(s) /\ \A l \in ToSet(s) : Hangs(l)
<1> DEFINE l == Cloud(b, t, c, k)
<1>1. Hangs(l)
  BY CloudHangs
<1> HIDE DEF l
<1> QED
  BY <1>1, ListOne DEF l

LEMMA OneBlows ==
    ASSUME NEW d, NEW n, NEW g, NEW t, NEW s, s = <<Wind(0, d, n, g, t)>>,
           d = OffRunway(90) \/ d.absolute
    PROVE  IsList(s) /\ \A l \in ToSet(s) : Blows(l) /\ l.direction = d
<1> DEFINE l == Wind(0, d, n, g, t)
<1>1. Blows(l) /\ l.direction = d
  BY WindBlows
<1> HIDE DEF l
<1> QED
  BY <1>1, ListOne DEF l

LEMMA NoWind ==
    ASSUME NEW preset, ~States(preset, "wind") PROVE ~RequiresRunway(preset)
BY DEF RequiresRunway, LayersOf

\* Every preset is one such.
LEMMA PresetsAre ==
    ASSUME NEW p \in DOMAIN WeatherPresets PROVE PresetOK(WeatherPresets[p])
<1> DEFINE P == WeatherPresets[p]
<1>1. p \in {"cavok", "cat_i", "cat_ii", "cat_iii", "storm", "crosswind", "mountain_wave"}
  BY DEF WeatherPresets
<1>2. CASE p = "cavok"
  <2>1. DOMAIN P = {"cloud", "setup"}
    BY <1>2 DEF WeatherPresets
  <2>2. FieldsTyped(P.setup) /\ ~States(P.setup, "wind") /\ ~States(P.setup, "cloud")
    BY <1>2 DEF WeatherPresets, FieldsTyped, States, Frictions
  <2>3. IsList(P.cloud) /\ \A l \in ToSet(P.cloud) : Hangs(l)
    <3>1. P.cloud = <<>>
      BY <1>2 DEF WeatherPresets
    <3> HIDE DEF P
    <3> QED
      BY <3>1, ListEmpty
  <2>4. ~RequiresRunway(P)
    BY <2>1, NoWind DEF States
  <2> HIDE DEF P
  <2>9. PresetOK(P)
    BY <2>1, <2>2, <2>3, <2>4 DEF PresetOK, States
  <2> QED
    BY <2>9 DEF P
<1>3. CASE p = "cat_i"
  <2>1. DOMAIN P = {"cloud", "setup"}
    BY <1>3 DEF WeatherPresets
  <2>2. FieldsTyped(P.setup) /\ ~States(P.setup, "wind") /\ ~States(P.setup, "cloud")
    BY <1>3 DEF WeatherPresets, FieldsTyped, States, Frictions
  <2>3. IsList(P.cloud) /\ \A l \in ToSet(P.cloud) : Hangs(l)
    <3>1. P.cloud = <<Cloud(250, 2500, 100, "stratus")>>
      BY <1>3 DEF WeatherPresets, Stratus
    <3> HIDE DEF P
    <3> QED
      BY <3>1, OneHangs
  <2>4. ~RequiresRunway(P)
    BY <2>1, NoWind DEF States
  <2> HIDE DEF P
  <2>9. PresetOK(P)
    BY <2>1, <2>2, <2>3, <2>4 DEF PresetOK, States
  <2> QED
    BY <2>9 DEF P
<1>4. CASE p = "cat_ii"
  <2>1. DOMAIN P = {"cloud", "setup"}
    BY <1>4 DEF WeatherPresets
  <2>2. FieldsTyped(P.setup) /\ ~States(P.setup, "wind") /\ ~States(P.setup, "cloud")
    BY <1>4 DEF WeatherPresets, FieldsTyped, States, Frictions
  <2>3. IsList(P.cloud) /\ \A l \in ToSet(P.cloud) : Hangs(l)
    <3>1. P.cloud = <<Cloud(120, 2000, 100, "stratus")>>
      BY <1>4 DEF WeatherPresets, Stratus
    <3> HIDE DEF P
    <3> QED
      BY <3>1, OneHangs
  <2>4. ~RequiresRunway(P)
    BY <2>1, NoWind DEF States
  <2> HIDE DEF P
  <2>9. PresetOK(P)
    BY <2>1, <2>2, <2>3, <2>4 DEF PresetOK, States
  <2> QED
    BY <2>9 DEF P
<1>5. CASE p = "cat_iii"
  <2>1. DOMAIN P = {"wind", "cloud", "setup"}
    BY <1>5 DEF WeatherPresets
  <2>2. FieldsTyped(P.setup) /\ ~States(P.setup, "wind") /\ ~States(P.setup, "cloud")
    BY <1>5 DEF WeatherPresets, FieldsTyped, States, Frictions
  <2>3. IsList(P.cloud) /\ \A l \in ToSet(P.cloud) : Hangs(l)
    <3>1. P.cloud = <<Cloud(50, 1500, 100, "stratus")>>
      BY <1>5 DEF WeatherPresets, Stratus
    <3> HIDE DEF P
    <3> QED
      BY <3>1, OneHangs
  <2>4. IsList(P.wind) /\ \A l \in ToSet(P.wind) : Blows(l) /\ l.direction = From(360)
    <3>1. P.wind = <<Wind(0, From(360), 3, 0, 0)>>
      BY <1>5 DEF WeatherPresets
    <3> HIDE DEF P
    <3> QED
      BY <3>1, OneBlows, FromIs
  <2>5. ~RequiresRunway(P)
    <3>1. \A i \in DOMAIN P.wind : P.wind[i] \in ToSet(P.wind)
      BY <2>4, ListFacts
    <3> HIDE DEF P
    <3> QED
      BY <2>1, <2>4, <3>1, FromIs DEF RequiresRunway, LayersOf, States
  <2> HIDE DEF P
  <2>9. PresetOK(P)
    BY <2>1, <2>2, <2>3, <2>4, <2>5 DEF PresetOK, States
  <2> QED
    BY <2>9 DEF P
<1>6. CASE p = "storm"
  <2>1. DOMAIN P = {"wind", "cloud", "setup"}
    BY <1>6 DEF WeatherPresets
  <2>2. FieldsTyped(P.setup) /\ ~States(P.setup, "wind") /\ ~States(P.setup, "cloud")
    BY <1>6 DEF WeatherPresets, FieldsTyped, States, Frictions
  <2>3. IsList(P.cloud) /\ \A l \in ToSet(P.cloud) : Hangs(l)
    <3>1. P.cloud = <<Cloud(4000, 35000, 75, "cumulonimbus")>>
      BY <1>6 DEF WeatherPresets, Stratus
    <3> HIDE DEF P
    <3> QED
      BY <3>1, OneHangs
  <2>4. IsList(P.wind) /\ \A l \in ToSet(P.wind) : Blows(l) /\ l.direction = From(240)
    <3>1. P.wind = <<Wind(0, From(240), 25, 15, 70)>>
      BY <1>6 DEF WeatherPresets
    <3> HIDE DEF P
    <3> QED
      BY <3>1, OneBlows, FromIs
  <2>5. ~RequiresRunway(P)
    <3>1. \A i \in DOMAIN P.wind : P.wind[i] \in ToSet(P.wind)
      BY <2>4, ListFacts
    <3> HIDE DEF P
    <3> QED
      BY <2>1, <2>4, <3>1, FromIs DEF RequiresRunway, LayersOf, States
  <2> HIDE DEF P
  <2>9. PresetOK(P)
    BY <2>1, <2>2, <2>3, <2>4, <2>5 DEF PresetOK, States
  <2> QED
    BY <2>9 DEF P
<1>7. CASE p = "crosswind"
  <2>1. DOMAIN P = {"wind", "setup"}
    BY <1>7 DEF WeatherPresets
  <2>2. FieldsTyped(P.setup) /\ ~States(P.setup, "wind") /\ ~States(P.setup, "cloud")
    <3>1. P.setup = <<>>
      BY <1>7 DEF WeatherPresets
    <3> HIDE DEF P
    <3> QED
      BY <3>1, NothingTyped DEF States
  <2>3. IsList(P.wind) /\ \A l \in ToSet(P.wind) : Blows(l) /\ l.direction = OffRunway(90)
    <3>1. P.wind = <<Wind(0, OffRunway(90), 20, 5, 20)>>
      BY <1>7 DEF WeatherPresets
    <3> HIDE DEF P
    <3> QED
      BY <3>1, OneBlows, FromIs
  <2>4. \A l \in ToSet(P.wind) : ~l.direction.absolute
    <3>1. ~OffRunway(90).absolute
      BY DEF OffRunway
    <3> HIDE DEF P
    <3> QED
      BY <2>3, <3>1
  <2> HIDE DEF P
  <2>9. PresetOK(P)
    BY <2>1, <2>2, <2>3, <2>4 DEF PresetOK, States
  <2> QED
    BY <2>9 DEF P
<1>8. CASE p = "mountain_wave"
  <2>1. DOMAIN P = {"wind", "setup"}
    BY <1>8 DEF WeatherPresets
  <2>2. FieldsTyped(P.setup) /\ ~States(P.setup, "wind") /\ ~States(P.setup, "cloud")
    <3>1. P.setup = <<>>
      BY <1>8 DEF WeatherPresets
    <3> HIDE DEF P
    <3> QED
      BY <3>1, NothingTyped DEF States
  <2>3. IsList(P.wind) /\ \A l \in ToSet(P.wind) : Blows(l) /\ l.direction = From(270)
    <3> DEFINE x == Wind(0, From(270), 15, 0, 0)
               y == Wind(8000, From(270), 35, 0, 30)
               z == Wind(24000, From(270), 65, 0, 60)
    <3>1. P.wind = <<x, y, z>>
      BY <1>8 DEF WeatherPresets
    <3>2. \A l \in {x, y, z} : Blows(l) /\ l.direction = From(270)
      BY WindBlows, FromIs
    <3> HIDE DEF P, x, y, z
    <3> QED
      BY <3>1, <3>2, ListThree
  <2>4. ~RequiresRunway(P)
    <3>1. \A i \in DOMAIN P.wind : P.wind[i] \in ToSet(P.wind)
      BY <2>3, ListFacts
    <3> HIDE DEF P
    <3> QED
      BY <2>1, <2>3, <3>1, FromIs DEF RequiresRunway, LayersOf, States
  <2> HIDE DEF P
  <2>9. PresetOK(P)
    BY <2>1, <2>2, <2>3, <2>4 DEF PresetOK, States
  <2> QED
    BY <2>9 DEF P
<1> QED
  BY <1>1, <1>2, <1>3, <1>4, <1>5, <1>6, <1>7, <1>8

LEMMA StatedTyped ==
    ASSUME NEW request, WeatherTyped(request), NEW S \in request.setup PROVE FieldsTyped(S)
<1>1. States(S, "wind") => Layered(S.wind)
  BY StatedWindIsLayered
<1>2. States(S, "cloud") => IsList(S.cloud)
  <2> SUFFICES ASSUME States(S, "cloud") PROVE IsList(S.cloud)
    OBVIOUS
  <2> DEFINE R == [base : Int, tops : Int, coverage : Int, kind : STRING]
             w == S.cloud
  <2>1. w \in Seq(R)
    BY DEF WeatherTyped
  <2> HIDE DEF w, R
  <2>2. Len(w) \in Nat /\ w \in [1 .. Len(w) -> R]
    BY <2>1, LenProperties
  <2>3. IsList(w)
    BY <2>2, ListBy
  <2> QED
    BY <2>3 DEF w
<1>3. \A f \in {"temperature", "dewpoint"} \cap DOMAIN S : S[f] \in Int
  BY DEF WeatherTyped, States
<1>4. States(S, "contamination") => S.contamination \in DOMAIN Frictions
  BY DEF WeatherTyped
<1> QED
  BY <1>1, <1>2, <1>3, <1>4 DEF FieldsTyped

Overlay(request)  == Else(request.setup, <<>>)
PresetOf(request) == WeatherPresets[The(request.preset)]
BaseOf(request)   == ResolvePreset(PresetOf(request), WeatherContext(request))

\* What an answer that is no refusal comes to.
LEMMA ResolvedIs ==
    ASSUME NEW request, WeatherTyped(request), NEW navdata, NEW S,
           ~Refused(ResolveWeather(request, navdata)),
           S = ResolveWeather(request, navdata).setup
    PROVE  /\ request.preset = {} => S \in request.setup
           /\ request.preset # {} =>
                /\ PresetOK(PresetOf(request))
                /\ S = Over(Overlay(request), BaseOf(request)) /\ ValidWeather(S)
                /\ RequiresRunway(PresetOf(request)) => WeatherContext(request).bearing # {}
                /\ RequiresAirport(PresetOf(request)) => WeatherContext(request).elevation # {}
<1> DEFINE r == ResolveWeather(request, navdata)
<1>1. CASE request.preset = {}
  <2>1. r \in {Refusal(503), Refusal(404), WeatherReply(The(request.setup), {})}
    BY <1>1 DEF ResolveWeather
  <2>2. r = WeatherReply(The(request.setup), {})
    BY <2>1 DEF Refused, Refusal
  <2>3. r.setup = The(request.setup)
    BY <2>2 DEF WeatherReply
  <2>4. The(request.setup) \in request.setup
    BY <1>1, TheIsIn DEF WeatherTyped
  <2> QED
    BY <1>1, <2>3, <2>4
<1>2. CASE request.preset # {}
  <2> DEFINE preset == PresetOf(request)
             context == WeatherContext(request)
             base == BaseOf(request)
             overlay == Overlay(request)
             merged == Over(overlay, base)
             unfit == \/ RequiresRunway(preset) /\ context.bearing = {}
                      \/ RequiresAirport(preset) /\ context.elevation = {}
                      \/ ~ValidWeather(base) \/ ~ValidWeather(merged)
             given == WeatherReply(merged, OverrideNotes(base, overlay))
  <2>1. The(request.preset) \in DOMAIN WeatherPresets
    BY <1>2, TheIsIn DEF WeatherTyped
  <2>2. PresetOK(preset)
    BY <2>1, PresetsAre DEF PresetOf
  <2>3. ResolveWithPreset(request, preset) = IF unfit THEN Refusal(422) ELSE given
    BY DEF ResolveWithPreset, MergeWeather, BaseOf, Overlay
  <2>4. r \in {Refusal(503), Refusal(404), ResolveWithPreset(request, preset)}
    BY <1>2 DEF ResolveWeather, PresetOf
  <2> HIDE DEF preset, context, base, overlay, merged, unfit, given, r
  <2>5. ~unfit /\ r = given
    BY <2>3, <2>4 DEF Refused, Refusal, r
  <2>6. r.setup = merged
    BY <2>5 DEF WeatherReply, given
  <2> QED
    BY <1>2, <2>2, <2>5, <2>6 DEF preset, context, base, overlay, merged, unfit, r
<1> QED
  BY <1>1, <1>2

LEMMA OverlayTyped ==
    ASSUME NEW request, WeatherTyped(request) PROVE FieldsTyped(Overlay(request))
<1>1. CASE request.setup = {}
  BY <1>1, NothingTyped DEF Else, Overlay
<1>2. CASE request.setup # {}
  <2>1. Overlay(request) \in request.setup
    BY <1>2, TheIsIn DEF Else, Overlay
  <2> QED
    BY <2>1, StatedTyped
<1> QED
  BY <1>1, <1>2

LEMMA ElevationIs ==
    ASSUME NEW request PROVE Else(WeatherContext(request).elevation, 0) \in Int
<1> DEFINE E == WeatherContext(request).elevation
<1>1. E = {a.elevation : a \in {a \in Airfields : a.icao \in request.airport}}
  BY DEF WeatherContext, Context
<1>2. \A e \in E : e \in Int
  BY <1>1, TablesAssumption
<1> HIDE DEF E
<1>3. Else(E, 0) \in Int
  BY <1>2, TheIsIn DEF Else
<1> QED
  BY <1>3 DEF E

\* The layers of a preset over the field: where there were any before.
LEMMA RaisedWind ==
    ASSUME NEW layers, IsList(layers), \A l \in ToSet(layers) : Blows(l),
           NEW bearing, NEW elevation \in Int
    PROVE  /\ Layered(ResolveWindLayers(layers, bearing, elevation))
           /\ DOMAIN ResolveWindLayers(layers, bearing, elevation) = DOMAIN layers
           /\ \A i \in DOMAIN layers :
                /\ layers[i] \in ToSet(layers)
                /\ ResolveWindLayers(layers, bearing, elevation)[i].altitude
                     = elevation + layers[i].altitude
                /\ ~layers[i].direction.absolute =>
                     ResolveWindLayers(layers, bearing, elevation)[i].direction = Fold(bearing + 90)
<1> DEFINE s == ResolveWindLayers(layers, bearing, elevation)
           Dir(d) == IF d.absolute THEN d.degrees ELSE Fold(bearing + d.degrees)
<1>1. Layered(layers)
  BY DEF Layered, Blows
<1>2. Layered(s)
  BY <1>1, RaisedLayers
<1>3. \A i \in DOMAIN layers : layers[i] \in ToSet(layers)
  BY ListFacts
<1>4. s = [i \in DOMAIN layers |-> [layers[i] EXCEPT !.altitude = elevation + @, !.direction = Dir(@)]]
  BY DEF ResolveWindLayers
<1>5. ASSUME NEW i \in DOMAIN layers
      PROVE  /\ s[i].altitude = elevation + layers[i].altitude
             /\ ~layers[i].direction.absolute => s[i].direction = Fold(bearing + 90)
  <2> DEFINE w == layers[i]
  <2>1. Blows(w)
    BY <1>3
  <2>2. s[i] = [w EXCEPT !.altitude = elevation + @, !.direction = Dir(@)]
    BY <1>4
  <2>3. ~w.direction.absolute => Dir(w.direction) = Fold(bearing + 90)
    BY <2>1 DEF Blows
  <2> HIDE DEF w, s, Dir
  <2>4. s[i].altitude = elevation + w.altitude /\ s[i].direction = Dir(w.direction)
    BY <2>1, <2>2 DEF Blows
  <2> QED
    BY <2>3, <2>4 DEF w
<1>6. DOMAIN s = DOMAIN layers
  BY <1>4
<1> HIDE DEF s
<1> QED
  BY <1>2, <1>3, <1>5, <1>6 DEF s

LEMMA RaisedCloud ==
    ASSUME NEW layers, IsList(layers), \A l \in ToSet(layers) : Hangs(l), NEW elevation \in Int
    PROVE  /\ IsList(ResolveCloudLayers(layers, elevation))
           /\ DOMAIN ResolveCloudLayers(layers, elevation) = DOMAIN layers
           /\ \A i \in DOMAIN layers :
                ResolveCloudLayers(layers, elevation)[i].base - elevation = layers[i].base
<1> DEFINE n == Len(layers)
           s == ResolveCloudLayers(layers, elevation)
           S == {s[i] : i \in 1 .. n}
<1>1. n \in Nat /\ DOMAIN layers = 1 .. n /\ \A i \in 1 .. n : layers[i] \in ToSet(layers)
  BY ListFacts
<1>2. s = [i \in 1 .. n |-> [layers[i] EXCEPT !.base = elevation + @, !.tops = elevation + @]]
  BY <1>1 DEF ResolveCloudLayers
<1>3. DOMAIN s = 1 .. n /\ s = [i \in 1 .. n |-> s[i]]
  BY <1>2
<1>4. ASSUME NEW i \in 1 .. n PROVE s[i].base - elevation = layers[i].base
  <2> DEFINE w == layers[i]
  <2>1. Hangs(w)
    BY <1>1
  <2>2. s[i] = [w EXCEPT !.base = elevation + @, !.tops = elevation + @]
    BY <1>2
  <2> HIDE DEF w, s
  <2>3. s[i].base = elevation + w.base
    BY <2>1, <2>2 DEF Hangs
  <2>4. w.base \in Int
    BY <2>1 DEF Hangs
  <2>5. s[i].base - elevation = w.base
    BY <2>3, <2>4
  <2> QED
    BY <2>5 DEF w
<1> HIDE DEF s, n
<1>5. s \in [1 .. n -> S]
  BY <1>3
<1>6. IsList(s)
  BY <1>1, <1>5, ListBy
<1> QED
  BY <1>1, <1>3, <1>4, <1>6 DEF s

LEMMA PresetResolved ==
    ASSUME NEW preset, PresetOK(preset), NEW context, Else(context.elevation, 0) \in Int
    PROVE  /\ FieldsTyped(ResolvePreset(preset, context))
           /\ DOMAIN ResolvePreset(preset, context)
                = DOMAIN preset.setup \cup (DOMAIN preset \ {"setup"})
           /\ States(preset, "wind") =>
                /\ States(ResolvePreset(preset, context), "wind")
                /\ ResolvePreset(preset, context).wind
                     = ResolveWindLayers(preset.wind, Else(context.bearing, 0),
                                         Else(context.elevation, 0))
           /\ States(preset, "cloud") =>
                /\ States(ResolvePreset(preset, context), "cloud")
                /\ ResolvePreset(preset, context).cloud
                     = ResolveCloudLayers(preset.cloud, Else(context.elevation, 0))
<1> DEFINE e == Else(context.elevation, 0)
           b == Else(context.bearing, 0)
           lw == ResolveWindLayers(preset.wind, b, e)
           lc == ResolveCloudLayers(preset.cloud, e)
           W == IF States(preset, "wind") THEN [wind |-> lw] ELSE <<>>
           C == IF States(preset, "cloud") THEN [cloud |-> lc] ELSE <<>>
           rest == Over(C, preset.setup)
           base == ResolvePreset(preset, context)
<1>1. base = Over(W, rest)
  BY DEF ResolvePreset
<1>2. States(preset, "wind") => Layered(lw)
  BY RaisedWind DEF PresetOK
<1>3. States(preset, "cloud") => IsList(lc)
  BY RaisedCloud DEF PresetOK
<1> HIDE DEF lw, lc
<1>4. /\ FieldsTyped([wind |-> lw]) <=> Layered(lw)
      /\ DOMAIN [wind |-> lw] = {"wind"} /\ [wind |-> lw].wind = lw
  BY DEF FieldsTyped, States
<1>5. /\ FieldsTyped([cloud |-> lc]) <=> IsList(lc)
      /\ DOMAIN [cloud |-> lc] = {"cloud"} /\ [cloud |-> lc].cloud = lc
  BY DEF FieldsTyped, States
<1>6. DOMAIN <<>> = {}
  OBVIOUS
<1>7. FieldsTyped(W) /\ FieldsTyped(C)
  BY <1>2, <1>3, <1>4, <1>5, NothingTyped
<1>8. /\ DOMAIN W = (IF States(preset, "wind") THEN {"wind"} ELSE {})
      /\ DOMAIN C = (IF States(preset, "cloud") THEN {"cloud"} ELSE {})
      /\ States(preset, "wind") => W.wind = lw
      /\ States(preset, "cloud") => C.cloud = lc
  BY <1>4, <1>5, <1>6
<1> HIDE DEF W, C
<1>9. FieldsTyped(rest) /\ FieldsTyped(Over(W, rest))
  <2>1. FieldsTyped(preset.setup)
    BY DEF PresetOK
  <2>2. FieldsTyped(rest)
    BY <1>7, <2>1, OverTyped
  <2> HIDE DEF rest
  <2>3. FieldsTyped(Over(W, rest))
    BY <1>7, <2>2, OverTyped
  <2> QED
    BY <2>2, <2>3 DEF rest
<1>10. DOMAIN Over(W, rest) = DOMAIN W \cup (DOMAIN C \cup DOMAIN preset.setup)
  BY DEF Over
<1>11. DOMAIN W \cup DOMAIN C = DOMAIN preset \ {"setup"}
  BY <1>8 DEF PresetOK, States
<1>12. DOMAIN base = DOMAIN preset.setup \cup (DOMAIN preset \ {"setup"})
  BY <1>1, <1>10, <1>11
<1>13. States(preset, "wind") => States(base, "wind") /\ base.wind = lw
  <2>1. States(preset, "wind") => States(W, "wind")
    BY <1>8 DEF States
  <2> HIDE DEF rest, base
  <2> QED
    BY <1>1, <1>8, <2>1, OverIs
<1>14. States(preset, "cloud") => States(base, "cloud") /\ base.cloud = lc
  <2>1. States(preset, "cloud") => States(C, "cloud") /\ ~States(W, "cloud")
    BY <1>8 DEF States
  <2>2. States(preset, "cloud") => States(rest, "cloud") /\ rest.cloud = lc
    BY <1>8, <2>1, OverIs
  <2> HIDE DEF rest, base
  <2> QED
    BY <1>1, <2>1, <2>2, OverIs
<1> HIDE DEF base, rest
<1> QED
  BY <1>1, <1>9, <1>12, <1>13, <1>14 DEF base, lw, lc, b, e

LEMMA ResolvedTyped ==
    ASSUME NEW request, WeatherTyped(request), NEW navdata,
           ~Refused(ResolveWeather(request, navdata))
    PROVE  AirTyped(ResolveWeather(request, navdata).setup)
<1> DEFINE S == ResolveWeather(request, navdata).setup
<1>1. FieldsTyped(S) /\ ValidWeather(S)
  <2>1. CASE request.preset = {}
    <3> HIDE DEF S
    <3>1. S \in request.setup
      BY <2>1, ResolvedIs DEF S
    <3> QED
      BY <3>1, StatedTyped DEF WeatherTyped
  <2>2. CASE request.preset # {}
    <3> HIDE DEF S
    <3>1. /\ PresetOK(PresetOf(request)) /\ ValidWeather(S)
          /\ S = Over(Overlay(request), BaseOf(request))
      BY <2>2, ResolvedIs DEF S
    <3>2. FieldsTyped(BaseOf(request))
      BY <3>1, ElevationIs, PresetResolved DEF BaseOf
    <3> QED
      BY <3>1, <3>2, OverlayTyped, OverTyped
  <2> QED
    BY <2>1, <2>2
<1> HIDE DEF S
<1>2. AirTyped(S)
  BY <1>1 DEF AirTyped, FieldsTyped
<1> QED
  BY <1>2 DEF S

\* A wind across the runway it was measured from.
LEMMA AcrossIs == ASSUME NEW axis \in Int PROVE Fold(Fold(axis + 90) - axis) = 90
<1>1. \A a \in Int : (((a + 90) % 360) - a) % 360 = 90
  OBVIOUS
<1> QED
  BY <1>1 DEF Fold

\* The field and the runway of a request, where it has them.
LEMMA GroundIs ==
    ASSUME NEW request, WeatherTyped(request), WeatherContext(request).elevation # {}
    PROVE  Else(WeatherContext(request).elevation, 0)
             = (CHOOSE a \in Airfields : a.icao \in request.airport).elevation
<1> DEFINE E == WeatherContext(request).elevation
           g == CHOOSE a \in Airfields : a.icao \in request.airport
<1>1. E = {a.elevation : a \in {a \in Airfields : a.icao \in request.airport}}
  BY DEF WeatherContext, Context
<1>2. E # {}
  OBVIOUS
<1>3. \E a \in Airfields : a.icao \in request.airport
  BY <1>1, <1>2
<1>4. g \in Airfields /\ g.icao \in request.airport
  BY <1>3
<1>5. \A a \in Airfields : a.icao \in request.airport => a = g
  BY <1>4, TablesAssumption DEF WeatherTyped
<1>6. E = {g.elevation}
  BY <1>1, <1>4, <1>5
<1> HIDE DEF g, E
<1>7. Else(E, 0) = g.elevation
  BY <1>6 DEF Else, The
<1> QED
  BY <1>7 DEF E, g

LEMMA AxisIs ==
    ASSUME NEW request, WeatherContext(request).bearing # {}
    PROVE  /\ Else(WeatherContext(request).bearing, 0)
                = The({r \in RunwayEnds : <<r.ident>> = request.runway}).axis
           /\ Else(WeatherContext(request).bearing, 0) \in Int
<1> DEFINE B == WeatherContext(request).bearing
           R == {r \in RunwayEnds : <<r.ident>> = request.runway}
           g == The(R)
<1>1. B = {r.axis : r \in {r \in RunwayEnds : <<r.ident>> = request.runway /\ request.airport # {}}}
  BY DEF WeatherContext, Context
<1>2. B # {}
  OBVIOUS
<1>3. R # {} /\ request.airport # {}
  BY <1>1, <1>2
<1>4. g \in R
  BY <1>3, TheIsIn
<1>5. \A r \in R : r = g
  <2> SUFFICES ASSUME NEW r \in R PROVE r = g
    OBVIOUS
  <2>1. <<r.ident>> = <<g.ident>>
    BY <1>4
  <2>2. r.ident = g.ident
    BY <2>1
  <2> QED
    BY <1>4, <2>2, TablesAssumption
<1>6. B = {g.axis} /\ g.axis \in Int
  BY <1>1, <1>3, <1>4, <1>5, TablesAssumption
<1> HIDE DEF g, B
<1>7. Else(B, 0) = g.axis
  BY <1>6 DEF Else, The
<1> QED
  BY <1>6, <1>7 DEF B, g

LEMMA ResolvedOverlaid ==
    ASSUME NEW request, WeatherTyped(request), request.preset # {}, NEW navdata,
           ~Refused(ResolveWeather(request, navdata))
    PROVE  PresetIsOverlaid(request, ResolveWeather(request, navdata).setup)
<1> DEFINE S == ResolveWeather(request, navdata).setup
           overlay == Overlay(request)
           preset == PresetOf(request)
           base == BaseOf(request)
           context == WeatherContext(request)
           e == Else(context.elevation, 0)
           b == Else(context.bearing, 0)
           ground == (CHOOSE a \in Airfields : a.icao \in request.airport).elevation
           axis == The({r \in RunwayEnds : <<r.ident>> = request.runway}).axis
           Kept(f) == States(preset, f) /\ ~States(overlay, f)
<1>1. /\ PresetOK(preset) /\ S = Over(overlay, base)
      /\ RequiresRunway(preset) => context.bearing # {}
      /\ RequiresAirport(preset) => context.elevation # {}
  BY ResolvedIs
<1>2. e \in Int
  BY ElevationIs
<1>3. /\ DOMAIN base = DOMAIN preset.setup \cup (DOMAIN preset \ {"setup"})
      /\ States(preset, "wind") =>
            States(base, "wind") /\ base.wind = ResolveWindLayers(preset.wind, b, e)
      /\ States(preset, "cloud") =>
            States(base, "cloud") /\ base.cloud = ResolveCloudLayers(preset.cloud, e)
  BY <1>1, <1>2, PresetResolved DEF BaseOf
<1>4. RequiresAirport(preset) => e = ground
  BY <1>1, GroundIs
<1>5. RequiresRunway(preset) => b = axis /\ b \in Int
  BY <1>1, AxisIs
<1> HIDE DEF S, overlay, preset, base, context, e, b, ground, axis
<1>6. \A f \in DOMAIN overlay : S[f] = overlay[f]
  <2>1. \A f : States(overlay, f) => S[f] = overlay[f]
    BY <1>1, OverIs
  <2> QED
    BY <2>1 DEF States
<1>7. DOMAIN S = DOMAIN overlay \cup DOMAIN preset.setup \cup (DOMAIN preset \ {"setup"})
  <2>1. DOMAIN Over(overlay, base) = DOMAIN overlay \cup DOMAIN base
    BY DEF Over
  <2> QED
    BY <1>1, <1>3, <2>1
<1>8. ASSUME Kept("cloud"), NEW i \in DOMAIN S.cloud
      PROVE  S.cloud[i].base - ground = preset.cloud[i].base
  <2>1. S.cloud = ResolveCloudLayers(preset.cloud, e)
    BY <1>1, <1>3, <1>8, OverIs
  <2>2. IsList(preset.cloud) /\ \A l \in ToSet(preset.cloud) : Hangs(l)
    BY <1>1, <1>8 DEF PresetOK
  <2>3. i \in DOMAIN preset.cloud /\ S.cloud[i].base - e = preset.cloud[i].base
    BY <1>2, <1>8, <2>1, <2>2, RaisedCloud
  <2>4. preset.cloud # <<>>
    BY <2>3, ListEmpty
  <2>5. RequiresAirport(preset)
    BY <1>8, <2>4 DEF RequiresAirport, LayersOf
  <2> QED
    BY <1>4, <2>3, <2>5
<1>9. ASSUME Kept("wind"), NEW i \in DOMAIN S.wind
      PROVE  /\ S.wind[i].altitude >= ground
             /\ RequiresRunway(preset) => Fold(S.wind[i].direction - axis) = 90
  <2> DEFINE w == preset.wind
  <2>1. S.wind = ResolveWindLayers(w, b, e)
    BY <1>1, <1>3, <1>9, OverIs
  <2>2. IsList(w) /\ \A l \in ToSet(w) : Blows(l)
    BY <1>1, <1>9 DEF PresetOK
  <2>3. /\ i \in DOMAIN w /\ w[i] \in ToSet(w)
        /\ S.wind[i].altitude = e + w[i].altitude
        /\ ~w[i].direction.absolute => S.wind[i].direction = Fold(b + 90)
    BY <1>2, <1>9, <2>1, <2>2, RaisedWind
  <2>4. w # <<>>
    BY <2>3, ListEmpty
  <2>5. RequiresAirport(preset)
    BY <1>9, <2>4 DEF RequiresAirport, LayersOf
  <2>6. w[i].altitude \in Nat
    BY <2>2, <2>3 DEF Blows
  <2>7. RequiresRunway(preset) => ~w[i].direction.absolute
    BY <1>1, <2>3 DEF PresetOK
  <2> HIDE DEF w
  <2>8. RequiresRunway(preset) => Fold(S.wind[i].direction - axis) = 90
    BY <1>5, <2>3, <2>7, AcrossIs
  <2> QED
    BY <1>2, <1>4, <2>3, <2>5, <2>6, <2>8
<1>10. PresetIsOverlaid(request, S)
  BY <1>6, <1>7, <1>8, <1>9
     DEF PresetIsOverlaid, overlay, preset, ground, axis, Overlay, PresetOf
<1> QED
  BY <1>10 DEF S

-----------------------------------------------------------------------------
(* What a resolved placement holds                                         *)

Profiles == {"final", "circuit", "airborne", "ground"}
Shaped(placed) == placed.heading \in Int /\ placed.profile \in Profiles

LEMMA FoldIs ==
    ASSUME NEW b \in Int PROVE Fold(b) \in Int /\ Fold(Fold(b)) = Fold(b)
BY DEF Fold

LEMMA WithIs == ASSUME NEW v, NEW S, S = {v} PROVE The(S) = v
BY DEF The

LEMMA BearingIsInt == ASSUME NEW a, NEW b PROVE BearingOf(a, b) \in Int
BY DEF BearingOf

LEMMA AirborneShaped ==
    ASSUME NEW position, NEW heading \in Int, NEW ias PROVE Shaped(Airborne(position, heading, ias))
BY FoldIs DEF Shaped, Airborne, Profiles

LEMMA CoordinateShaped ==
    ASSUME NEW position, NEW heading \in Int, NEW ias
    PROVE  Shaped(CoordinatePlacement(position, heading, ias))
<1> DEFINE h == Fold(heading)
           w == [position |-> position, heading |-> h, ias |-> ias,
                 profile |-> "airborne", ils |-> {}, glideslope |-> {}, leg |-> {}]
           p == IF ias = 0 THEN "ground" ELSE "airborne"
<1>1. CoordinatePlacement(position, heading, ias) = [w EXCEPT !.profile = p]
  BY DEF CoordinatePlacement, Airborne
<1>2. h \in Int
  BY FoldIs
<1>3. p \in Profiles
  BY DEF Profiles
<1>4. [w EXCEPT !.profile = p].heading = h /\ [w EXCEPT !.profile = p].profile = p
  <2> HIDE DEF h, p
  <2> QED
    OBVIOUS
<1> HIDE DEF h, w, p
<1> QED
  BY <1>1, <1>2, <1>3, <1>4 DEF Shaped

LEMMA RunwayShaped ==
    ASSUME NEW runway \in RunwayEnds, NEW request, request.placement \in RunwayPlacements, NEW category
    PROVE  Shaped(RunwayPlacement(runway, request, category))
<1>1. runway.axis \in Int
  BY TablesAssumption
<1>2. CASE request.placement \in DOMAIN FinalDistances
  <2>1. RunwayPlacement(runway, request, category) = FinalPlacement(runway, request, category)
    BY <1>2 DEF RunwayPlacement
  <2>2. /\ FinalPlacement(runway, request, category).heading = Fold(runway.axis)
        /\ FinalPlacement(runway, request, category).profile = "final"
    BY DEF FinalPlacement
  <2> QED
    BY <1>1, <2>1, <2>2, FoldIs DEF Shaped, Profiles
<1>3. CASE request.placement \notin DOMAIN FinalDistances
  <2> DEFINE leg == PatternPlacements[request.placement][1]
             left == PatternPlacements[request.placement][2] = "left"
             p == PatternPoint(leg, runway.length, Else(request.width, PatternWidth),
                               Else(request.legDistance, LegDistance), left)
  <2>1. RunwayPlacement(runway, request, category) = PatternPlacement(runway, request, category)
    BY <1>3 DEF RunwayPlacement
  <2>2. leg \in {"upwind", "crosswind", "downwind", "base"}
    <3>1. request.placement \in DOMAIN PatternPlacements
      BY <1>3 DEF RunwayPlacements
    <3> QED
      BY <3>1 DEF PatternPlacements
  <2>3. p.heading \in Int
    <3> HIDE DEF leg, left
    <3> QED
      BY <2>2 DEF PatternPoint
  <2>4. /\ PatternPlacement(runway, request, category).heading = Fold(runway.axis + p.heading)
        /\ PatternPlacement(runway, request, category).profile = "circuit"
    BY DEF PatternPlacement
  <2>5. runway.axis + p.heading \in Int
    BY <1>1, <2>3
  <2> HIDE DEF p
  <2> QED
    BY <2>1, <2>4, <2>5, FoldIs DEF Shaped, Profiles
<1> QED
  BY <1>2, <1>3

LEMMA LegShaped ==
    ASSUME NEW procedure, NEW leg, NEW altitude, NEW ias, NEW category
    PROVE  Shaped(ProcedureLegPlacement(procedure, leg, altitude, ias, category))
<1> DEFINE near == NeighbouringFixes(procedure, leg)
           at == The(leg.fix).at
           h == ContextualHeading(at, {}, near.next, near.previous)
           speed == ConstrainedSpeed(ias, category, Bound(leg.speed, "min"), Bound(leg.speed, "max"))
<1>1. ProcedureLegPlacement(procedure, leg, altitude, ias, category) =
         Airborne(AtAltitude(at, altitude), h, speed)
  BY DEF ProcedureLegPlacement
<1>2. h \in Int
  <2> HIDE DEF near, at
  <2> QED
    BY BearingIsInt DEF ContextualHeading
<1> HIDE DEF near, at, h, speed
<1> QED
  BY <1>1, <1>2, AirborneShaped

LEMMA HoldShaped ==
    ASSUME NEW hold, hold.inbound \in Int, NEW variation \in Int, NEW altitude, NEW ias, NEW category
    PROVE  Shaped(HoldPlacementAt(hold, "hold_fix", variation, altitude, ias, category))
<1> DEFINE axis == TrueFromMagnetic(hold.inbound, variation)
           speed == ConstrainedSpeed(ias, category, {}, hold.speed)
           tas == TrueAirspeed(speed, altitude)
           p == HoldPoint("hold_fix", HoldLegLength(hold, tas, altitude), 2 * TurnRadius(tas), hold.turn)
           placed == Airborne(Offset(hold.at, p.along, p.across, axis, altitude),
                              axis + p.heading, speed)
<1>1. HoldPlacementAt(hold, "hold_fix", variation, altitude, ias, category) = placed
  BY DEF HoldPlacementAt, With, The
<1>2. p.heading = 0
  BY DEF HoldPoint
<1>3. axis \in Int
  BY FoldIs DEF TrueFromMagnetic
<1>4. axis + p.heading \in Int
  BY <1>2, <1>3
<1> DEFINE at == Offset(hold.at, p.along, p.across, axis, altitude)
           h == axis + p.heading
<1>5. placed = Airborne(at, h, speed)
  OBVIOUS
<1> HIDE DEF axis, speed, tas, p, placed, at
<1> QED
  BY <1>1, <1>4, <1>5, AirborneShaped

\* A reply that is refused, or whose placement has a heading and a profile.
Settles(r) == Refused(r) \/ Shaped(r.placement)

LEMMA RefusalSettles == \A n \in {404, 422, 503} : Settles(Refusal(n))
BY DEF Settles, Refused, Refusal

LEMMA ResolvedSettles ==
    ASSUME NEW placed, Shaped(placed), NEW a, NEW b, NEW d PROVE Settles(Resolved(placed, a, b, d))
BY DEF Settles, Resolved

LEMMA RunwaySettles ==
    ASSUME NEW request, request.placement \in RunwayPlacements, NEW category
    PROVE  Settles(ResolveRunway(request, category))
<1> DEFINE found == GetRunway(request.runway)
<1>1. CASE found = {}
  BY <1>1, RefusalSettles DEF ResolveRunway
<1>2. CASE found # {}
  <2> DEFINE runway == The(found)
             placed == RunwayPlacement(runway, request, category)
             final == request.placement \in DOMAIN FinalDistances
             why == CategoryDefault(IF final THEN "threshold" ELSE "circling")
             a == SpeedNote(request.ias, placed.ias, why, FALSE)
             b == IF final THEN {"glidepath"}
                  ELSE AltitudeNote(request.patternAltitude, {0}, "circuit_height")
             d == RunwaySchematic(runway, placed)
  <2>1. ResolveRunway(request, category) = Resolved(placed, a, b, d)
    BY <1>2 DEF ResolveRunway, With, The
  <2>2. runway \in RunwayEnds
    BY <1>2, TheIsIn DEF GetRunway
  <2>3. Shaped(placed)
    BY <2>2, RunwayShaped
  <2> HIDE DEF placed, a, b, d
  <2> QED
    BY <2>1, <2>3, ResolvedSettles
<1> QED
  BY <1>1, <1>2

LEMMA FirstRowIs ==
    ASSUME NEW rows, DOMAIN rows \subseteq Nat, NEW places, places \subseteq DOMAIN rows, places # {}
    PROVE  Min(places) \in DOMAIN rows
<1>1. places \subseteq Nat
  OBVIOUS
<1>2. PICK n \in places : \A m \in places : ~(<<m, n>> \in OpToRel(<, Nat))
  <2>1. IsWellFoundedOn(OpToRel(<, Nat), Nat)
    BY NatLessThanWellFounded
  <2> QED
    BY <1>1, <2>1, WFMin
<1>3. \A m \in places : ~(m < n)
  BY <1>1, <1>2 DEF OpToRel
<1>4. \A m \in places : n <= m
  BY <1>1, <1>3
<1> QED
  BY <1>4 DEF Min

LEMMA StandIs ==
    ASSUME NEW airport, NEW name, GetStand(airport, name) # {}
    PROVE  The(GetStand(airport, name)).heading \in Int
<1> DEFINE places == {i \in DOMAIN Stands : Stands[i].airport = airport /\ Stands[i].name = name}
<1>1. GetStand(airport, name) = IF places = {} THEN {} ELSE {Stands[Min(places)]}
  BY DEF GetStand, FirstRow
<1>2. places # {} /\ The(GetStand(airport, name)) = Stands[Min(places)]
  <2> HIDE DEF places
  <2> QED
    BY <1>1, WithIs
<1>3. Min(places) \in DOMAIN Stands
  BY <1>2, FirstRowIs, TablesAssumption
<1> QED
  BY <1>2, <1>3, TablesAssumption

LEMMA HoldIs ==
    ASSUME NEW ident, GetHold(ident) # {}
    PROVE  The(GetHold(ident)).inbound \in Int
<1> DEFINE places == {i \in DOMAIN HoldTable : HoldTable[i].ident = ident}
<1>1. GetHold(ident) = IF places = {} THEN {} ELSE {HoldTable[Min(places)]}
  BY DEF GetHold, FirstRow
<1>2. places # {} /\ The(GetHold(ident)) = HoldTable[Min(places)]
  <2> HIDE DEF places
  <2> QED
    BY <1>1, WithIs
<1>3. Min(places) \in DOMAIN HoldTable
  BY <1>2, FirstRowIs, TablesAssumption
<1> QED
  BY <1>2, <1>3, TablesAssumption

LEMMA ThresholdSettles ==
    ASSUME NEW request PROVE Settles(ResolveThreshold(request))
<1> DEFINE found == GetRunway(request.runway)
           runway == The(found)
           placed == CoordinatePlacement(runway.threshold, runway.axis, 0)
<1>1. CASE found = {}
  BY <1>1, RefusalSettles DEF ResolveThreshold
<1>2. CASE found # {}
  <2>1. ResolveThreshold(request) = Resolved(placed, CategoryDefault("lined_up"), {}, <<>>)
    BY <1>2 DEF ResolveThreshold
  <2>2. runway \in RunwayEnds
    BY <1>2, TheIsIn DEF GetRunway
  <2>3. runway.axis \in Int
    BY <2>2, TablesAssumption
  <2>4. Shaped(placed)
    <3> HIDE DEF runway
    <3> QED
      BY <2>3, CoordinateShaped
  <2> HIDE DEF placed
  <2> QED
    BY <2>1, <2>4, ResolvedSettles
<1> QED
  BY <1>1, <1>2

LEMMA ParkingSettles ==
    ASSUME NEW request PROVE Settles(ResolveParking(request))
<1> DEFINE stands == GetStand(request.airport, request.stand)
           stand == The(stands)
           placed == CoordinatePlacement(stand.at, stand.heading, 0)
<1>1. CASE stands = {}
  BY <1>1, RefusalSettles DEF ResolveParking
<1>2. CASE stands # {}
  <2>1. ResolveParking(request) = Resolved(placed, CategoryDefault("parked"), {}, <<>>)
    BY <1>2 DEF ResolveParking
  <2>2. stand.heading \in Int
    BY <1>2, StandIs
  <2>3. Shaped(placed)
    <3> HIDE DEF stand
    <3> QED
      BY <2>2, CoordinateShaped
  <2> HIDE DEF placed
  <2> QED
    BY <2>1, <2>3, ResolvedSettles
<1> QED
  BY <1>1, <1>2

LEMMA CoordinateSettles ==
    ASSUME NEW request, request.heading \subseteq Int, NEW navdata
    PROVE  Settles(ResolveCoordinate(request, navdata))
<1> DEFINE h == Else(request.heading, 0)
           i == Else(request.ias, 0)
           placed == CoordinatePlacement(request.at, h, i)
           onGround == request.at.altitude <= LocalGround(navdata, request.at) + GroundTolerance
           a == SpeedNote(request.ias, placed.ias, CategoryDefault("unattributed"), onGround)
<1>1. ResolveCoordinate(request, navdata) = Resolved(placed, a, {}, <<>>)
  BY DEF ResolveCoordinate
<1>2. h \in Int
  BY TheIsIn DEF Else
<1>3. Shaped(placed)
  <2> HIDE DEF h, i
  <2> QED
    BY <1>2, CoordinateShaped
<1> HIDE DEF placed, a
<1> QED
  BY <1>1, <1>3, ResolvedSettles

LEMMA WaypointSettles ==
    ASSUME NEW request, request.heading \subseteq Int, NEW category
    PROVE  Settles(ResolveWaypoint(request, category))
<1> DEFINE fixes == GetFixes(request.ident, request.region, request.terminal)
           h == Else(request.heading, 0)
           placed == Airborne(AtAltitude(fixes[1].at, request.altitude), h,
                              Else(request.ias, CirclingSpeed[category]))
           a == SpeedNote(request.ias, placed.ias, CategoryDefault("circling"), FALSE)
           b == (IF Len(fixes) > 1 THEN {"several_fixes"} ELSE {})
                \cup (IF request.heading = {} THEN {"no_course"} ELSE {})
<1>1. ResolveWaypoint(request, category) = IF fixes = <<>> THEN Refusal(404)
                                           ELSE Resolved(placed, a, b, <<>>)
  BY DEF ResolveWaypoint
<1>2. h \in Int
  BY TheIsIn DEF Else
<1>3. Shaped(placed)
  <2> HIDE DEF h, fixes
  <2> QED
    BY <1>2, AirborneShaped
<1> HIDE DEF placed, a, b, fixes
<1> QED
  BY <1>1, <1>3, ResolvedSettles, RefusalSettles

LEMMA AtLegSettles ==
    ASSUME NEW request, NEW procedure, NEW leg, NEW category
    PROVE  Settles(PlacedAtLeg(request, procedure, leg, category))
<1> DEFINE altitude == IF request.altitude # {} THEN request.altitude
                       ELSE UNION {SuggestedAltitude(x) : x \in leg.altitude}
           placed == ProcedureLegPlacement(procedure, leg, The(altitude), request.ias, category)
           a == SpeedNote(request.ias, placed.ias,
                          SpeedProvenance(placed.ias, category, Bound(leg.speed, "min"),
                                          Bound(leg.speed, "max")), FALSE)
           b == AltitudeNote(request.altitude, leg.altitude, "published_altitude")
<1>1. PlacedAtLeg(request, procedure, leg, category) =
         IF ~leg.positionable \/ altitude = {} THEN Refusal(422)
         ELSE Resolved(placed, a, b, <<>>)
  <2> HIDE DEF altitude
  <2> QED
    BY DEF PlacedAtLeg, With, The, altitude
<1>2. Shaped(placed)
  <2> HIDE DEF altitude
  <2> QED
    BY LegShaped
<1> HIDE DEF altitude, placed, a, b
<1> QED
  BY <1>1, <1>2, ResolvedSettles, RefusalSettles

LEMMA LegSettles ==
    ASSUME NEW request, NEW category PROVE Settles(ResolveProcedureLeg(request, category))
<1> DEFINE found == ProceduresOf(request)
           procedure == The(found)
           leg == Head(LegsNumbered(procedure, request.sequence))
<1>1. ResolveProcedureLeg(request, category) =
         IF found = {} THEN Refusal(404) ELSE PlacedAtLeg(request, procedure, leg, category)
  BY DEF ResolveProcedureLeg, With, The
<1> HIDE DEF found, procedure, leg
<1> QED
  BY <1>1, AtLegSettles, RefusalSettles

LEMMA HoldSettles ==
    ASSUME NEW request, NEW category PROVE Settles(ResolveHold(request, category))
<1> DEFINE holds == GetHold(request.ident)
           hold == The(holds)
           altitude == HoldAltitude(hold, request.altitude)
           variation == Else(HoldVariation(hold), 0)
           placed == HoldPlacementAt(hold, "hold_fix", variation, The(altitude), request.ias, category)
           a == SpeedNote(request.ias, placed.ias,
                          SpeedProvenance(placed.ias, category, {}, hold.speed), FALSE)
           b == AltitudeNote(request.altitude, hold.min, "published_minimum")
<1>1. ResolveHold(request, category) =
         IF holds = {} THEN Refusal(404)
         ELSE IF altitude = {} THEN Refusal(422) ELSE Resolved(placed, a, b, <<>>)
  <2> HIDE DEF altitude, variation
  <2> QED
    BY ZenonT(60) DEF ResolveHold, With, The, altitude, variation
<1>2. variation \in Int
  <2>1. \A v \in HoldVariation(hold) : v \in Int
    BY TablesAssumption DEF HoldVariation
  <2> QED
    BY <2>1, TheIsIn DEF Else
<1>3. ASSUME holds # {} PROVE Shaped(placed)
  <2>1. hold.inbound \in Int
    BY <1>3, HoldIs
  <2> HIDE DEF hold, variation, altitude
  <2> QED
    BY <2>1, <1>2, HoldShaped
<1> HIDE DEF holds, altitude, placed, a, b
<1> QED
  BY <1>1, <1>3, ResolvedSettles, RefusalSettles

LEMMA PlacementSettles ==
    ASSUME NEW request, PlacementTyped(request), NEW navdata, NEW stalling
    PROVE  Settles(Resolve(request, navdata, stalling))
<1> DEFINE stated == IF "category" \in DOMAIN request THEN request.category ELSE {}
           category == RequestCategory(stated, stalling)
           Answer ==
               CASE request.type = "coordinate" -> ResolveCoordinate(request, navdata)
                 [] request.type # "coordinate" /\ ~navdata -> Refusal(503)
                 [] request.type = "runway"           /\ navdata -> ResolveRunway(request, category)
                 [] request.type = "runway_threshold" /\ navdata -> ResolveThreshold(request)
                 [] request.type = "parking"          /\ navdata -> ResolveParking(request)
                 [] request.type = "waypoint"         /\ navdata -> ResolveWaypoint(request, category)
                 [] request.type = "procedure_leg"    /\ navdata -> ResolveProcedureLeg(request, category)
                 [] request.type = "hold"             /\ navdata -> ResolveHold(request, category)
<1>1. Resolve(request, navdata, stalling) = Answer
  <2> HIDE DEF stated
  <2> QED
    BY DEF Resolve, With, The, stated
<1> HIDE DEF stated, category
<1>2. CASE request.type = "coordinate"
  <2>1. Answer = ResolveCoordinate(request, navdata)
    BY <1>2
  <2>2. request.heading \subseteq Int
    BY <1>2 DEF PlacementTyped
  <2> HIDE DEF Answer
  <2> QED
    BY <1>1, <2>1, <2>2, CoordinateSettles
<1>3. CASE request.type # "coordinate" /\ ~navdata
  BY <1>1, <1>3, RefusalSettles
<1>4. CASE request.type # "coordinate" /\ navdata
  <2>1. CASE request.type = "runway"
    <3>1. Answer = ResolveRunway(request, category)
      BY <1>4, <2>1
    <3>2. request.placement \in RunwayPlacements
      BY <2>1 DEF PlacementTyped
    <3> HIDE DEF Answer
    <3> QED
      BY <1>1, <3>1, <3>2, RunwaySettles
  <2>2. CASE request.type = "runway_threshold"
    <3>1. Answer = ResolveThreshold(request)
      BY <1>4, <2>2
    <3> HIDE DEF Answer
    <3> QED
      BY <1>1, <3>1, ThresholdSettles
  <2>3. CASE request.type = "parking"
    <3>1. Answer = ResolveParking(request)
      BY <1>4, <2>3
    <3> HIDE DEF Answer
    <3> QED
      BY <1>1, <3>1, ParkingSettles
  <2>4. CASE request.type = "waypoint"
    <3>1. Answer = ResolveWaypoint(request, category)
      BY <1>4, <2>4
    <3>2. request.heading \subseteq Int
      BY <2>4 DEF PlacementTyped
    <3> HIDE DEF Answer
    <3> QED
      BY <1>1, <3>1, <3>2, WaypointSettles
  <2>5. CASE request.type = "procedure_leg"
    <3>1. Answer = ResolveProcedureLeg(request, category)
      BY <1>4, <2>5
    <3> HIDE DEF Answer
    <3> QED
      BY <1>1, <3>1, LegSettles
  <2>6. CASE request.type = "hold"
    <3>1. Answer = ResolveHold(request, category)
      BY <1>4, <2>6
    <3> HIDE DEF Answer
    <3> QED
      BY <1>1, <3>1, HoldSettles
  <2> QED
    BY <1>4, <2>1, <2>2, <2>3, <2>4, <2>5, <2>6 DEF PlacementTyped
<1> QED
  BY <1>2, <1>3, <1>4

-----------------------------------------------------------------------------
(* What a request plans                                                    *)

\* No profile touches the autopilot or turns the aircraft, and its lights are
\* switches.
LEMMA ProfileIs ==
    ASSUME NEW placed, placed.profile \in Profiles
    PROVE  /\ \A f \in {"director", "master", "approach_mode", "heading"} :
                 ~States(ProfileSetup(placed), f)
           /\ States(ProfileSetup(placed), "lights") =>
                 DOMAIN ProfileSetup(placed).lights \subseteq Switches
<1> DEFINE p == ProfileSetup(placed)
<1>1. CASE placed.profile = "final"
  <2> DEFINE a == [gear |-> TRUE, flaps |-> 50, throttle |-> 30, trim |-> 10, roll |-> 0,
                   lights |-> [landing |-> TRUE]]
             v == -((placed.ias * FeetPerUnit(The(placed.glideslope))) \div 30)
             b == IF placed.glideslope = {} THEN <<>> ELSE [vertical |-> v]
             k == The(placed.ils).khz
             o == The(placed.ils).course
             n == IF placed.ils = {} THEN <<>> ELSE [nav1 |-> k, obs1 |-> o]
  <2>1. p = Over(Over(a, b), n)
    BY <1>1 DEF ProfileSetup
  <2>2. DOMAIN b \subseteq {"vertical"}
    <3> HIDE DEF v
    <3> QED
      BY ListEmpty
  <2>3. DOMAIN n \subseteq {"nav1", "obs1"}
    <3> HIDE DEF k, o
    <3> QED
      BY ListEmpty
  <2>4. DOMAIN a = {"gear", "flaps", "throttle", "trim", "roll", "lights"}
        /\ a.lights = [landing |-> TRUE]
    OBVIOUS
  <2> HIDE DEF a, b, n
  <2>5. \A f : States(p, f) <=> States(a, f) \/ States(b, f) \/ States(n, f)
    BY <2>1, OverIs
  <2>6. States(p, "lights") /\ p.lights = [landing |-> TRUE]
    <3>0. States(a, "lights")
      BY <2>4 DEF States
    <3>1. States(Over(a, b), "lights") /\ Over(a, b)["lights"] = a["lights"]
      BY <3>0, OverIs
    <3>2. ~States(n, "lights")
      BY <2>3 DEF States
    <3>3. Over(Over(a, b), n)["lights"] = Over(a, b)["lights"]
      BY <3>1, OverIs
    <3> QED
      BY <3>1, <3>3, <2>1, <2>4, <2>5 DEF States
  <2>7. DOMAIN p.lights = {"landing"}
    BY <2>6
  <2>8. \A f \in {"director", "master", "approach_mode", "heading"} : ~States(p, f)
    BY <2>2, <2>3, <2>4, <2>5 DEF States
  <2> QED
    BY <2>7, <2>8 DEF Switches
<1>2. CASE placed.profile = "circuit"
  <2> DEFINE g == placed.leg \subseteq {"downwind", "base"}
             h == IF placed.leg = {"base"} THEN 25 ELSE 0
  <2>1. p = [gear |-> g, flaps |-> h, throttle |-> 50, trim |-> 0, roll |-> 0, vertical |-> 0]
    BY <1>2 DEF ProfileSetup
  <2> HIDE DEF g, h
  <2>2. DOMAIN p = {"gear", "flaps", "throttle", "trim", "roll", "vertical"}
    BY <2>1
  <2> QED
    BY <2>2 DEF States
<1>3. CASE placed.profile = "airborne"
  <2>1. p = [gear |-> FALSE, flaps |-> 0, throttle |-> 60, trim |-> 0, roll |-> 0, vertical |-> 0]
    BY <1>3 DEF ProfileSetup
  <2>2. DOMAIN p = {"gear", "flaps", "throttle", "trim", "roll", "vertical"}
    BY <2>1
  <2> QED
    BY <2>2 DEF States
<1>4. CASE placed.profile = "ground"
  <2>1. p = [gear |-> TRUE, flaps |-> 0, throttle |-> 0, trim |-> 0]
    BY <1>4 DEF ProfileSetup
  <2>2. DOMAIN p = {"gear", "flaps", "throttle", "trim"}
    BY <2>1
  <2> QED
    BY <2>2 DEF States
<1> QED
  BY <1>1, <1>2, <1>3, <1>4 DEF Profiles

\* The placement's own setup states where, which way and how fast.
LEMMA PlacedSetupIs ==
    ASSUME NEW placed, Shaped(placed)
    PROVE  /\ \A f \in {"altitude", "heading", "ias"} : States(ToSetup(placed), f)
           /\ SetupTyped(ToSetup(placed))
<1> DEFINE a == placed.position.altitude
           h == placed.heading
           i == placed.ias
           w == [altitude |-> a, heading |-> h, ias |-> i]
           p == ProfileSetup(placed)
           s == ToSetup(placed)
<1>1. s = Over(w, p)
  BY DEF ToSetup
<1>2. DOMAIN w = {"altitude", "heading", "ias"} /\ w.heading = h
  <2> HIDE DEF a, h, i
  <2> QED
    OBVIOUS
<1>3. h \in Int
  BY DEF Shaped
<1>4. /\ \A f \in {"director", "master", "approach_mode", "heading"} : ~States(p, f)
      /\ States(p, "lights") => DOMAIN p.lights \subseteq Switches
  BY ProfileIs DEF Shaped
<1> HIDE DEF w, p, h
<1>5. \A f : /\ States(s, f) <=> States(w, f) \/ States(p, f)
             /\ States(w, f) => s[f] = w[f]
             /\ ~States(w, f) /\ States(p, f) => s[f] = p[f]
  BY <1>1, OverIs
<1>6. \A f \in {"altitude", "heading", "ias"} : States(s, f)
  BY <1>2, <1>5 DEF States
<1>7. s.heading \in Int
  BY <1>2, <1>3, <1>5 DEF States
<1>8. \A f \in {"director", "master", "approach_mode"} : ~States(s, f)
  BY <1>2, <1>4, <1>5 DEF States
<1>9. States(s, "lights") => DOMAIN s.lights \subseteq Switches
  BY <1>2, <1>4, <1>5 DEF States
<1> HIDE DEF s
<1>10. \A flag \in {"director", "master", "approach_mode"} \cap DOMAIN s : s[flag] \in BOOLEAN
  <2>1. {"director", "master", "approach_mode"} \cap DOMAIN s = {}
    BY <1>8 DEF States
  <2> QED
    BY <2>1
<1>11. SetupTyped(s)
  BY <1>7, <1>9, <1>10 DEF SetupTyped
<1> QED
  BY <1>6, <1>11 DEF s

\* The instructor's edits over it keep it so.
LEMMA MergedIs ==
    ASSUME NEW base, NEW edits, SetupTyped(base), SetupTyped(edits)
    PROVE  /\ SetupTyped(MergeSetup(base, edits))
           /\ \A f : States(base, f) => States(MergeSetup(base, edits), f)
<1> DEFINE s == MergeSetup(base, edits)
<1>1. \A f : /\ States(s, f) <=> States(edits, f) \/ States(base, f)
             /\ States(edits, f) => s[f] = edits[f]
             /\ ~States(edits, f) /\ States(base, f) => s[f] = base[f]
  BY OverIs DEF MergeSetup
<1> HIDE DEF s
<1>2. \A flag \in {"director", "master", "approach_mode"} \cap DOMAIN s : s[flag] \in BOOLEAN
  <2> TAKE flag \in {"director", "master", "approach_mode"} \cap DOMAIN s
  <2>1. CASE States(edits, flag)
    <3>1. edits[flag] \in BOOLEAN
      BY <2>1 DEF SetupTyped, States
    <3> QED
      BY <3>1, <2>1, <1>1
  <2>2. CASE ~States(edits, flag)
    <3>1. States(base, flag)
      BY <2>2, <1>1 DEF States
    <3>2. base[flag] \in BOOLEAN
      BY <3>1 DEF SetupTyped, States
    <3> QED
      BY <3>1, <3>2, <2>2, <1>1
  <2> QED
    BY <2>1, <2>2
<1>3. States(s, "heading") => s.heading \in Int
  BY <1>1 DEF SetupTyped
<1>4. States(s, "lights") => DOMAIN s.lights \subseteq Switches
  BY <1>1 DEF SetupTyped
<1> QED
  BY <1>1, <1>2, <1>3, <1>4 DEF SetupTyped, s

\* A plan that is carried out.
Accepted(plan, applied, steps) ==
    /\ ~Refused(plan) /\ plan.applied = applied /\ plan.steps = steps

\* A placement's plan: its setup and then the teleport, or a refusal.
LEMMA PlacementPlanIs ==
    ASSUME NEW request, PlacementTyped(request.placement), SetupTyped(request.edits)
    PROVE  LET placed == Resolve(request.placement, station.navdata,
                                 station.airframe.stalling).placement
               merged == MergeSetup(ToSetup(placed), request.edits)
           IN \/ Refused(PlanPlacement(request))
              \/ /\ Shaped(placed)
                 /\ Accepted(PlanPlacement(request), merged,
                             SetupSteps(merged) \o TeleportSteps(PlacedAsEdited(placed, merged), merged))
<1> DEFINE resolved == Resolve(request.placement, station.navdata, station.airframe.stalling)
           placed == resolved.placement
           merged == MergeSetup(ToSetup(placed), request.edits)
           steps == SetupSteps(merged) \o TeleportSteps(PlacedAsEdited(placed, merged), merged)
<1>1. Settles(resolved)
  BY PlacementSettles
<1>2. PlanPlacement(request) = IF Refused(resolved) THEN resolved
                               ELSE PlanPlaced(placed, request.edits)
  <2> HIDE DEF resolved
  <2> QED
    BY DEF PlanPlacement, With, The, resolved
<1> HIDE DEF resolved
<1>3. PlanPlaced(placed, request.edits) = Plan(merged, steps)
  BY DEF PlanPlaced, With, The
<1> HIDE DEF merged, steps
<1>4. Accepted(Plan(merged, steps), merged, steps)
  BY DEF Accepted, Plan, Refused
<1>5. CASE Refused(resolved)
  BY <1>2, <1>5 DEF resolved, placed
<1>6. CASE ~Refused(resolved)
  BY <1>1, <1>2, <1>3, <1>4, <1>6 DEF resolved, merged, steps, Settles
<1> QED
  BY <1>5, <1>6

LEMMA FuelPlanIs ==
    ASSUME NEW request
    PROVE  \/ Refused(PlanFuel(request))
           \/ \E loadout : Accepted(PlanFuel(request), [loadout |-> loadout],
                                    SetupSteps([loadout |-> loadout]))
<1> DEFINE resolved == ResolveFuel(request, ReadLoadout(sim), station.airframe)
           l == resolved.loadout
           steps == SetupSteps([loadout |-> l])
<1>1. PlanFuel(request) = CASE Refused(resolved) -> resolved
                            [] OutsideRefused(request, resolved) -> Refusal(422)
                            [] OTHER -> Plan([loadout |-> l], steps)
  BY DEF PlanFuel
<1>2. OutsideRefused(request, resolved) => ~Refused(resolved)
  BY DEF OutsideRefused
<1>3. Accepted(Plan([loadout |-> l], steps), [loadout |-> l], steps)
  <2> HIDE DEF steps
  <2> QED
    BY DEF Accepted, Plan, Refused
<1>4. Refused(Refusal(422))
  BY DEF Refused, Refusal
<1> HIDE DEF resolved
<1>5. CASE Refused(resolved)
  BY <1>1, <1>2, <1>5
<1>6. CASE OutsideRefused(request, resolved)
  BY <1>1, <1>2, <1>4, <1>6
<1>7. CASE ~Refused(resolved) /\ ~OutsideRefused(request, resolved)
  BY <1>1, <1>3, <1>7
<1> QED
  BY <1>5, <1>6, <1>7

LEMMA WeatherPlanIs ==
    ASSUME NEW request, WeatherTyped(request)
    PROVE  \/ Refused(PlanWeather(request))
           \/ \E applied : /\ States(applied, "wind") => Layered(applied.wind)
                           /\ Accepted(PlanWeather(request), applied, WeatherSteps(applied))
<1> DEFINE resolved == ResolveWeather(request, station.navdata)
           applied == resolved.setup
           shown == Exposed(station.exposed, applied)
<1>1. PlanWeather(request) = CASE Refused(resolved) -> resolved
                               [] ~Refused(resolved) /\ ~shown -> Rejected(502, "not_exposed")
                               [] OTHER -> Plan(applied, WeatherSteps(applied))
  BY DEF PlanWeather
<1>2. Refused(Rejected(502, "not_exposed"))
  BY DEF Refused, Rejected
<1>3. Accepted(Plan(applied, WeatherSteps(applied)), applied, WeatherSteps(applied))
  <2> HIDE DEF applied
  <2> QED
    BY DEF Accepted, Plan, Refused
<1>4. ~Refused(resolved) => (States(applied, "wind") => Layered(applied.wind))
  BY ResolvedTyped DEF AirTyped, FieldsTyped
<1> HIDE DEF resolved, shown
<1>5. CASE Refused(resolved)
  BY <1>1, <1>5
<1>6. CASE ~Refused(resolved) /\ ~shown
  BY <1>1, <1>2, <1>6
<1>7. CASE ~Refused(resolved) /\ shown
  BY <1>1, <1>3, <1>4, <1>7
<1> QED
  BY <1>5, <1>6, <1>7

\* What is planned is proper, and asks for manual weather before it writes.
LEMMA PlansAsk ==
    ASSUME NEW s \in Setups, ~Refused(PlanOf(s))
    PROVE  /\ IsList(PlanOf(s).steps) /\ \A step \in ToSet(PlanOf(s).steps) : Proper(step)
           /\ AsksFirst(PlanOf(s).steps, {})
           /\ s.op \in Writing => Plain(PlanOf(s).steps)
<1> DEFINE plan == PlanOf(s)
<1>1. ASSUME Plain(plan.steps)
      PROVE  /\ IsList(plan.steps) /\ \A step \in ToSet(plan.steps) : Proper(step)
             /\ AsksFirst(plan.steps, {}) /\ Plain(plan.steps)
  <2> DEFINE steps == plan.steps
  <2>1. IsList(steps) /\ \A step \in ToSet(steps) : Proper(step) /\ step.do \notin {"manual", "check"}
    BY <1>1 DEF Plain
  <2> HIDE DEF steps
  <2>2. \A k \in DOMAIN steps : steps[k] \in ToSet(steps)
    BY <2>1, ListFacts
  <2> QED
    BY <1>1, <2>1, <2>2 DEF AsksFirst, steps
<1>2. CASE s.op = "place" /\ PlacementTyped(s.request.placement) /\ SetupTyped(s.request.edits)
  <2> DEFINE placed == Resolve(s.request.placement, station.navdata,
                               station.airframe.stalling).placement
             merged == MergeSetup(ToSetup(placed), s.request.edits)
             t == TeleportSteps(PlacedAsEdited(placed, merged), merged)
  <2>1. plan = PlanPlacement(s.request)
    BY <1>2 DEF PlanOf
  <2>2. Shaped(placed) /\ plan.steps = SetupSteps(merged) \o t
    BY <1>2, <2>1, PlacementPlanIs DEF Accepted
  <2>3. SetupTyped(merged)
    <3>1. SetupTyped(ToSetup(placed))
      BY <2>2, PlacedSetupIs
    <3> QED
      BY <1>2, <3>1, MergedIs
  <2>4. Plain(SetupSteps(merged)) /\ Plain(t)
    BY <2>3, PlainSetup, PlainTeleport
  <2>5. Plain(plan.steps)
    <3> HIDE DEF t, merged
    <3> QED
      BY <2>2, <2>4, PlainJoin
  <2> QED
    BY <1>1, <2>5
<1>3. CASE s.op = "fuel"
  <2>1. plan = PlanFuel(s.request)
    BY <1>3 DEF PlanOf
  <2>2. PICK l : plan.steps = SetupSteps([loadout |-> l])
    BY <2>1, FuelPlanIs DEF Accepted
  <2>3. SetupTyped([loadout |-> l])
    BY DEF SetupTyped, States
  <2>4. Plain(plan.steps)
    BY <2>2, <2>3, PlainSetup
  <2> QED
    BY <1>1, <2>4
<1>4. CASE s.op = "setup" /\ SetupTyped(s.request)
  <2>1. plan = Plan(s.request, SetupSteps(s.request))
    BY <1>4 DEF PlanOf
  <2>2. plan.steps = SetupSteps(s.request)
    BY <2>1 DEF Plan
  <2>3. Plain(plan.steps)
    BY <1>4, <2>2, PlainSetup
  <2> QED
    BY <1>1, <2>3
<1>5. CASE s.op = "weather" /\ WeatherTyped(s.request)
  <2>1. plan = PlanWeather(s.request)
    BY <1>5 DEF PlanOf
  <2>2. PICK applied : /\ States(applied, "wind") => Layered(applied.wind)
                       /\ plan.steps = WeatherSteps(applied)
    BY <1>5, <2>1, WeatherPlanIs DEF Accepted
  <2> DEFINE m == [do |-> "manual"]
             f == WeatherFieldSteps(applied)
  <2>3. plan.steps = <<m>> \o f
    BY <2>2 DEF WeatherSteps
  <2>4. Plain(f)
    BY <2>2, PlainWeather
  <2>5. Proper(m)
    BY DEF Proper, Kinds
  <2> HIDE DEF m, f
  <2>6. IsList(<<m>>) /\ ToSet(<<m>>) = {m} /\ Len(<<m>>) = 1
    BY ListOne
  <2>7. IsList(plan.steps) /\ ToSet(plan.steps) = {m} \cup ToSet(f)
        /\ \A k \in DOMAIN plan.steps : k > 1 => plan.steps[k] \in ToSet(f)
    <3>1. /\ IsList(<<m>> \o f) /\ ToSet(<<m>> \o f) = ToSet(<<m>>) \cup ToSet(f)
          /\ Len(<<m>> \o f) = 1 + Len(f)
          /\ \A i \in 1 .. 1 + Len(f) : i > 1 =>
                i - 1 \in 1 .. Len(f) /\ (<<m>> \o f)[i] = f[i - 1]
      BY <2>4, <2>6, ListJoin DEF Plain
    <3>2. DOMAIN (<<m>> \o f) = 1 .. 1 + Len(f)
      BY <3>1, ListFacts
    <3>3. \A i \in 1 .. Len(f) : f[i] \in ToSet(f)
      BY <2>4, ListFacts DEF Plain
    <3> QED
      BY <2>3, <2>6, <3>1, <3>2, <3>3
  <2>8. AsksFirst(plan.steps, {})
    <3>1. DOMAIN plan.steps = 1 .. Len(plan.steps) /\ Len(plan.steps) \in Nat
      BY <2>7, ListFacts
    <3>2. \A k \in DOMAIN plan.steps : plan.steps[k].do \in {"manual", "check"} => k = 1
      BY <2>4, <2>7, <3>1 DEF Plain
    <3> QED
      BY <3>1, <3>2 DEF AsksFirst
  <2> QED
    BY <1>5, <2>4, <2>5, <2>7, <2>8 DEF Plain, Writing
<1> QED
  BY <1>2, <1>3, <1>4, <1>5, SetupsAssumption

-----------------------------------------------------------------------------
(* The first part of the invariant                                         *)

\* What RefusedWritesNothing says of one client.
Honest(c) ==
    \A r \in reply[c] :
        /\ r.status \in {404, 422, 503} => wrote[c] = {}
        /\ r.status = 502 /\ r.why = "not_exposed" => wrote[c] = {}
        /\ r.status = 502 /\ r.why = "not_manual" => wrote[c] \subseteq ManualRefs

LEMMA HonestAll == RefusedWritesNothing <=> \A c \in Clients : Honest(c)
BY DEF RefusedWritesNothing, Honest, ManualRefs

LEMMA InitOrderly == ASSUME Init PROVE Orderly
<1>1. Bounds
  BY SimAssumption DEF Init, Bounds, AtMostOne
<1>2. Domains
  BY DEF Init, Domains
<1>3. SimOK
  <2>1. sim = [FirstSim EXCEPT ![<<"source", 0>>] = station.source]
    BY DEF Init
  <2> DEFINE v == station.source
  <2> HIDE DEF v
  <2>2. DOMAIN sim = DOMAIN FirstSim
        /\ \A ref \in DOMAIN FirstSim : ref # <<"source", 0>> => sim[ref] = FirstSim[ref]
    BY <2>1 DEF v
  <2>3. <<"mode", 0>> \in DOMAIN FirstSim /\ <<"tanks", 0>> \in DOMAIN FirstSim
        /\ \A i \in 1 .. WindLevels : <<"wind", i>> \in DOMAIN FirstSim
    BY SimAssumption DEF Datarefs, Scalars
  <2>4. <<"mode", 0>> # <<"source", 0>> /\ <<"tanks", 0>> # <<"source", 0>>
        /\ \A i : <<"wind", i>> # <<"source", 0>>
    OBVIOUS
  <2> QED
    BY <2>2, <2>3, <2>4, SimAssumption DEF SimOK, Reads, Modes
<1>4. \A c \in Clients : ClientOK(c)
  <2> SUFFICES ASSUME NEW c \in Clients PROVE ClientOK(c)
    OBVIOUS
  <2>1. /\ todo[c] = <<>> /\ ask[c] = {} /\ reply[c] = {} /\ wrote[c] = {}
        /\ alone[c] = FALSE /\ late[c] = FALSE
    BY DEF Init
  <2>2. AsksFirst(<<>>, {})
    BY ListEmpty DEF AsksFirst
  <2> QED
    BY <2>1, <2>2, ListEmpty DEF ClientOK, AtMostOne
<1>5. RefusedWritesNothing
  BY HonestAll DEF Init, Honest
<1> QED
  BY <1>1, <1>2, <1>3, <1>4, <1>5 DEF Orderly

\* What the first step being written, read or passed leaves to be asked for.
LEMMA AsksTail ==
    ASSUME NEW steps, IsList(steps), steps # <<>>, NEW w, AsksFirst(steps, w),
           Head(steps).do = "write"
    PROVE  AsksFirst(Tail(steps), w \cup {Head(steps).ref})
<1> DEFINE t == Tail(steps)
<1>1. /\ Head(steps) = steps[1] /\ Len(steps) \in Nat /\ Len(steps) >= 1 /\ Len(t) = Len(steps) - 1
      /\ \A i \in 1 .. Len(steps) - 1 : t[i] = steps[i + 1]
      /\ DOMAIN steps = 1 .. Len(steps) /\ DOMAIN t = 1 .. Len(t)
  BY ListHead, ListFacts
<1> HIDE DEF t
<1> SUFFICES ASSUME NEW k \in DOMAIN t, t[k].do \in {"manual", "check"}
             PROVE  /\ w \cup {Head(steps).ref} \subseteq ManualRefs
                    /\ \A j \in 1 .. k - 1 : t[j].do = "write" /\ t[j].ref \in ManualRefs
  BY DEF AsksFirst, t
<1>2. k + 1 \in DOMAIN steps /\ steps[k + 1] = t[k]
  BY <1>1
<1>3. w \subseteq ManualRefs /\ \A j \in 1 .. (k + 1) - 1 : steps[j].do = "write" /\ steps[j].ref \in ManualRefs
  BY <1>2 DEF AsksFirst
<1>4. k \in Nat /\ k >= 1 /\ k <= Len(steps) - 1
  BY <1>1
<1>5. steps[1].ref \in ManualRefs
  BY <1>3, <1>4
<1>6. ASSUME NEW j \in 1 .. k - 1 PROVE t[j].do = "write" /\ t[j].ref \in ManualRefs
  <2>1. j + 1 \in 1 .. (k + 1) - 1 /\ t[j] = steps[j + 1]
    BY <1>1, <1>4
  <2> QED
    BY <2>1, <1>3
<1> QED
  BY <1>1, <1>3, <1>5, <1>6

LEMMA AsksOnce ==
    ASSUME NEW steps, IsList(steps), steps # <<>>, NEW w, AsksFirst(steps, w),
           Head(steps).do # "write"
    PROVE  \A x \in ToSet(Tail(steps)) : x.do \notin {"manual", "check"}
<1> DEFINE t == Tail(steps)
<1>1. /\ Head(steps) = steps[1] /\ Len(steps) \in Nat /\ Len(steps) >= 1 /\ Len(t) = Len(steps) - 1
      /\ \A i \in 1 .. Len(steps) - 1 : t[i] = steps[i + 1]
      /\ DOMAIN steps = 1 .. Len(steps) /\ IsList(t)
  BY ListHead, ListFacts
<1> HIDE DEF t
<1> SUFFICES ASSUME NEW x \in ToSet(t), x.do \in {"manual", "check"} PROVE FALSE
  BY DEF t
<1>2. PICK k \in 1 .. Len(t) : t[k] = x
  BY <1>1, ListFacts
<1>3. k + 1 \in DOMAIN steps /\ steps[k + 1] = x /\ 1 \in 1 .. (k + 1) - 1
  BY <1>1, <1>2
<1>4. steps[1].do = "write"
  BY <1>3 DEF AsksFirst
<1> QED
  BY <1>1, <1>4

LEMMA AsksNothing ==
    ASSUME NEW steps, IsList(steps), NEW w, \A x \in ToSet(steps) : x.do \notin {"manual", "check"}
    PROVE  AsksFirst(steps, w)
BY ListFacts DEF AsksFirst

LEMMA AsksJoin ==
    ASSUME NEW e, NEW t, NEW w, IsList(e), IsList(t), AsksFirst(e, w),
           \A x \in ToSet(t) : x.do \notin {"manual", "check"}
    PROVE  AsksFirst(e \o t, w)
<1> DEFINE s == e \o t
<1>1. /\ IsList(s) /\ Len(s) = Len(e) + Len(t) /\ DOMAIN s = 1 .. Len(s)
      /\ Len(e) \in Nat /\ Len(t) \in Nat /\ DOMAIN e = 1 .. Len(e)
      /\ \A i \in 1 .. Len(e) : s[i] = e[i]
      /\ \A i \in 1 .. Len(e) + Len(t) : i > Len(e) =>
            i - Len(e) \in 1 .. Len(t) /\ s[i] = t[i - Len(e)]
      /\ \A i \in 1 .. Len(t) : t[i] \in ToSet(t)
  BY ListJoin, ListFacts
<1> HIDE DEF s
<1> SUFFICES ASSUME NEW k \in DOMAIN s, s[k].do \in {"manual", "check"}
             PROVE  /\ w \subseteq ManualRefs
                    /\ \A j \in 1 .. k - 1 : s[j].do = "write" /\ s[j].ref \in ManualRefs
  BY DEF AsksFirst, s
<1>2. k \in 1 .. Len(e)
  BY <1>1
<1>3. /\ w \subseteq ManualRefs
      /\ \A j \in 1 .. k - 1 : e[j].do = "write" /\ e[j].ref \in ManualRefs
  BY <1>1, <1>2 DEF AsksFirst
<1>4. \A j \in 1 .. k - 1 : s[j] = e[j]
  BY <1>1, <1>2
<1> QED
  BY <1>3, <1>4

\* A client nothing happens to, while no other becomes busy.
LEMMA OthersOK ==
    ASSUME NEW d \in Clients, ClientOK(d), todo'[d] = todo[d], ask'[d] = ask[d], reply'[d] = reply[d],
           wrote'[d] = wrote[d], alone'[d] = alone[d], late'[d] = late[d],
           \A b \in Clients : Busy(b)' => Busy(b)
    PROVE  ClientOK(d)'
<1>1. Busy(d)' <=> Busy(d)
  BY DEF Busy
<1>2. AsksFirst(todo'[d], wrote'[d])
  BY DEF ClientOK
<1>3. /\ ask'[d] \subseteq Setups /\ AtMostOne(ask'[d]) /\ AtMostOne(reply'[d])
      /\ (~Busy(d))' => todo'[d] = <<>>
      /\ IsList(todo'[d]) /\ \A step \in ToSet(todo'[d]) : Proper(step)
      /\ wrote'[d] \subseteq Datarefs
      /\ alone'[d] \in BOOLEAN /\ late'[d] \in BOOLEAN
  BY <1>1 DEF ClientOK
<1>4. alone'[d] => \A b \in Clients \ {d} : ~Busy(b)'
  BY DEF ClientOK
<1> QED
  BY <1>2, <1>3, <1>4 DEF ClientOK

\* One client's step: the others' part is as it was.
LEMMA StepAt ==
    ASSUME Orderly, NEW c \in Clients, Bounds', Domains', SimOK', ClientOK(c)', Honest(c)',
           \A b \in Clients : Busy(b)' => Busy(b),
           \A d \in Clients \ {c} :
               /\ todo'[d] = todo[d] /\ ask'[d] = ask[d] /\ reply'[d] = reply[d]
               /\ wrote'[d] = wrote[d] /\ alone'[d] = alone[d] /\ late'[d] = late[d]
    PROVE  Orderly'
<1>1. ASSUME NEW d \in Clients PROVE ClientOK(d)'
  <2>1. CASE d = c
    BY <2>1
  <2>2. CASE d # c
    <3>1. ClientOK(d)
      BY DEF Orderly
    <3> QED
      BY <2>2, <3>1, OthersOK
  <2> QED
    BY <2>1, <2>2
<1>2. ASSUME NEW d \in Clients PROVE Honest(d)'
  <2>1. CASE d = c
    BY <2>1
  <2>2. CASE d # c
    <3>1. Honest(d)
      BY HonestAll DEF Orderly
    <3> QED
      BY <2>2, <3>1 DEF Honest
  <2> QED
    BY <2>1, <2>2
<1>3. RefusedWritesNothing'
  BY <1>2 DEF RefusedWritesNothing, Honest, ManualRefs
<1> QED
  BY <1>1, <1>3 DEF Orderly

\* The simulator after a write.
LEMMA SimAfterIs ==
    ASSUME SimOK, NEW step, step.ref \in Datarefs
    PROVE  /\ DOMAIN SimAfter(step) = DOMAIN sim /\ step.ref \in DOMAIN sim
           /\ step.ref # <<"source", 0>> => SimAfter(step)[step.ref] = step.value
           /\ \A ref \in DOMAIN sim : ref # step.ref /\ ref # <<"source", 0>> =>
                 SimAfter(step)[ref] = sim[ref]
           /\ step.ref # <<"change", 0>> =>
                 /\ SimAfter(step)[step.ref] = step.value
                 /\ \A ref \in DOMAIN sim : ref # step.ref => SimAfter(step)[ref] = sim[ref]
<1> DEFINE r == step.ref
           v == step.value
           b == r = <<"change", 0>> /\ v = 3 /\ station.obeys
           m == [sim EXCEPT ![r] = v]
           o == <<"source", 0>>
<1>1. r \in DOMAIN sim
  BY SimAssumption DEF SimOK
<1>2. SimAfter(step) = IF b THEN [m EXCEPT ![o] = 0] ELSE m
  BY DEF SimAfter
<1>3. DOMAIN m = DOMAIN sim /\ m[r] = v /\ \A ref \in DOMAIN sim : ref # r => m[ref] = sim[ref]
  BY <1>1
<1>4. r # <<"change", 0>> => ~b
  OBVIOUS
<1> HIDE DEF m, b, r, v, o
<1> DEFINE q == SimAfter(step)
<1>5. DOMAIN q = DOMAIN m /\ \A ref \in DOMAIN m : ref # o => q[ref] = m[ref]
  BY <1>2
<1>6. ~b => q = m
  BY <1>2
<1> HIDE DEF q
<1> QED
  BY <1>1, <1>3, <1>4, <1>5, <1>6 DEF q, r, v, o

LEMMA SimStaysOK ==
    ASSUME SimOK, NEW step, Proper(step), step.do = "write", sim' = SimAfter(step)
    PROVE  SimOK'
<1> DEFINE q == SimAfter(step)
<1>1. step.ref \in Datarefs /\ step.ref # <<"tanks", 0>>
  BY DEF Proper
<1>2. /\ DOMAIN q = DOMAIN sim
      /\ step.ref # <<"source", 0>> => q[step.ref] = step.value
      /\ \A ref \in DOMAIN sim : ref # step.ref /\ ref # <<"source", 0>> => q[ref] = sim[ref]
  BY <1>1, SimAfterIs
<1>3. <<"mode", 0>> \in DOMAIN sim /\ <<"tanks", 0>> \in DOMAIN sim
      /\ \A i \in 1 .. WindLevels : <<"wind", i>> \in DOMAIN sim
  BY SimAssumption DEF SimOK, Datarefs, Scalars
<1>4. <<"mode", 0>> # <<"source", 0>> /\ <<"tanks", 0>> # <<"source", 0>>
      /\ \A i : <<"wind", i>> # <<"source", 0>> /\ <<"wind", i>>[1] = "wind"
  OBVIOUS
<1> HIDE DEF q
<1>5. q[<<"mode", 0>>] \in Modes
  BY <1>2, <1>3, <1>4 DEF Proper, SimOK, Reads
<1>6. q[<<"tanks", 0>>] = FirstSim[<<"tanks", 0>>]
  BY <1>1, <1>2, <1>3, <1>4 DEF SimOK, Reads
<1>7. ASSUME NEW i \in 1 .. WindLevels PROVE q[<<"wind", i>>].altitude \in Int
  <2>1. CASE step.ref = <<"wind", i>>
    <3>1. step.ref[1] = "wind" /\ step.ref # <<"source", 0>>
      BY <2>1, <1>4
    <3>2. step.value.altitude \in Int
      BY <3>1 DEF Proper
    <3> QED
      BY <1>2, <2>1, <3>1, <3>2
  <2>2. CASE step.ref # <<"wind", i>>
    <3>1. q[<<"wind", i>>] = sim[<<"wind", i>>]
      BY <1>2, <1>3, <1>4, <2>2
    <3> QED
      BY <3>1 DEF SimOK
  <2> QED
    BY <2>1, <2>2
<1> QED
  BY <1>2, <1>5, <1>6, <1>7 DEF SimOK, Reads, q

-----------------------------------------------------------------------------
(* Every step keeps the first part                                         *)

LEMMA PreviewOrderly ==
    ASSUME Orderly, NEW q \in Previews, Preview(q) PROVE Orderly'
<1>1. /\ station' = station /\ sim' = sim /\ todo' = todo /\ ask' = ask /\ reply' = reply
      /\ wrote' = wrote /\ alone' = alone /\ late' = late /\ asked' = asked /\ faults' = faults
      /\ setup' = setup
  BY DEF Preview
<1>2. AtMostOne(answer')
  <2> DEFINE a == [question |-> q, answer |-> AnswerTo(q)]
  <2>1. answer' = {a}
    BY DEF Preview
  <2> HIDE DEF a
  <2> QED
    BY <2>1 DEF AtMostOne
<1>3. Bounds' /\ Domains' /\ SimOK'
  BY <1>1, <1>2 DEF Orderly, Bounds, Domains, SimOK, Reads
<1>4. \A c \in Clients : Busy(c)' <=> Busy(c)
  BY <1>1 DEF Busy
<1>5. ASSUME NEW c \in Clients PROVE ClientOK(c)'
  BY <1>1, <1>4, OthersOK DEF Orderly
<1>6. RefusedWritesNothing'
  BY <1>1 DEF Orderly, RefusedWritesNothing
<1> QED
  BY <1>3, <1>5, <1>6 DEF Orderly

LEMMA ForgetOrderly == ASSUME Orderly, Forget PROVE Orderly'
<1>1. /\ station' = station /\ sim' = sim /\ todo' = todo /\ ask' = ask /\ reply' = reply
      /\ wrote' = wrote /\ alone' = alone /\ late' = late /\ asked' = asked /\ faults' = faults
      /\ setup' = setup /\ answer' = {}
  BY DEF Forget
<1>2. Bounds' /\ Domains' /\ SimOK'
  BY <1>1 DEF Orderly, Bounds, Domains, SimOK, Reads, AtMostOne
<1>3. \A c \in Clients : Busy(c)' <=> Busy(c)
  BY <1>1 DEF Busy
<1>4. ASSUME NEW c \in Clients PROVE ClientOK(c)'
  BY <1>1, <1>3, OthersOK DEF Orderly
<1>5. RefusedWritesNothing'
  BY <1>1 DEF Orderly, RefusedWritesNothing
<1> QED
  BY <1>2, <1>4, <1>5 DEF Orderly

LEMMA ShowOrderly == ASSUME Orderly, ShowClouds PROVE Orderly'
<1>1. /\ station' = station /\ todo' = todo /\ ask' = ask /\ reply' = reply
      /\ wrote' = wrote /\ alone' = alone /\ late' = late /\ asked' = asked /\ faults' = faults
      /\ setup' = setup /\ answer' = answer
  BY DEF ShowClouds
<1>2. DOMAIN sim' = DOMAIN sim /\ \A ref \in DOMAIN sim : ref[1] # "sky" => sim'[ref] = sim[ref]
  BY DEF ShowClouds
<1>3. <<"mode", 0>> \in DOMAIN sim /\ <<"tanks", 0>> \in DOMAIN sim
      /\ \A i \in 1 .. WindLevels : <<"wind", i>> \in DOMAIN sim
  BY SimAssumption DEF Orderly, SimOK, Datarefs, Scalars
<1>4. <<"mode", 0>>[1] # "sky" /\ <<"tanks", 0>>[1] # "sky" /\ \A i : <<"wind", i>>[1] # "sky"
  OBVIOUS
<1>5. SimOK'
  BY <1>2, <1>3, <1>4 DEF Orderly, SimOK, Reads
<1>6. Bounds' /\ Domains'
  BY <1>1 DEF Orderly, Bounds, Domains
<1>7. \A c \in Clients : Busy(c)' <=> Busy(c)
  BY <1>1 DEF Busy
<1>8. ASSUME NEW c \in Clients PROVE ClientOK(c)'
  BY <1>1, <1>7, OthersOK DEF Orderly
<1>9. RefusedWritesNothing'
  BY <1>1 DEF Orderly, RefusedWritesNothing
<1> QED
  BY <1>5, <1>6, <1>8, <1>9 DEF Orderly

LEMMA AskOrderly ==
    ASSUME Orderly, NEW c \in Clients, NEW s \in Setups, Ask(c, s) PROVE Orderly'
<1> DEFINE plan == PlanOf(s)
           refused == Refused(plan)
<1>1. Posted(c, s, plan) /\ asked < MaxAsk
  BY DEF Ask
<1>2. IsList(<<>>) /\ AsksFirst(<<>>, {}) /\ ToSet(<<>>) = {}
  BY ListEmpty DEF AsksFirst
<1>3. ~refused => /\ IsList(plan.steps) /\ \A step \in ToSet(plan.steps) : Proper(step)
                  /\ AsksFirst(plan.steps, {})
  BY PlansAsk
<1> HIDE DEF plan, refused
<1>4. Domains
  BY DEF Orderly
<1> DEFINE steps == IF refused THEN <<>> ELSE plan.steps
           told == IF refused THEN {plan} ELSE {}
<1>5. todo' = [todo EXCEPT ![c] = steps] /\ reply' = [reply EXCEPT ![c] = told]
  BY <1>1 DEF Posted, plan, refused
<1>6. IsList(steps) /\ (\A step \in ToSet(steps) : Proper(step)) /\ AsksFirst(steps, {})
  BY <1>2, <1>3
<1>7. AtMostOne(told) /\ (told # {} => steps = <<>>)
  BY DEF AtMostOne
<1> HIDE DEF steps, told
<1>8. /\ todo'[c] = steps /\ ask'[c] = {s} /\ reply'[c] = told /\ wrote'[c] = {} /\ late'[c] = FALSE
      /\ alone'[c] \in BOOLEAN /\ (alone'[c] => \A b \in Clients : ~Busy(b))
      /\ \A d \in Clients \ {c} :
            /\ todo'[d] = todo[d] /\ ask'[d] = ask[d] /\ reply'[d] = reply[d]
            /\ wrote'[d] = wrote[d] /\ late'[d] = late[d]
  BY <1>1, <1>4, <1>5 DEF Posted, Domains
<1>9. \A d \in Clients \ {c} : alone'[d] = FALSE
  BY <1>1 DEF Posted
<1>10. \A d \in Clients \ {c} : Busy(d)' <=> Busy(d)
  BY <1>8 DEF Busy
<1>11. ClientOK(c)'
  <2>1. AtMostOne({s})
    BY DEF AtMostOne
  <2>2. (~Busy(c))' => told # {}
    BY <1>8 DEF Busy
  <2>3. /\ ask'[c] \subseteq Setups /\ AtMostOne(ask'[c]) /\ AtMostOne(reply'[c])
        /\ wrote'[c] \subseteq Datarefs
    BY <1>7, <1>8, <2>1
  <2>4. (~Busy(c))' => todo'[c] = <<>>
    BY <1>7, <1>8, <2>2
  <2>5. /\ IsList(todo'[c]) /\ (\A step \in ToSet(todo'[c]) : Proper(step))
        /\ AsksFirst(todo'[c], wrote'[c])
    BY <1>6, <1>8
  <2>6. alone'[c] => \A b \in Clients \ {c} : ~Busy(b)'
    BY <1>8, <1>10
  <2>7. alone'[c] \in BOOLEAN /\ late'[c] \in BOOLEAN
    BY <1>8
  <2> QED
    BY <2>3, <2>4, <2>5, <2>6, <2>7 DEF ClientOK
<1>12. ASSUME NEW d \in Clients, d # c PROVE ClientOK(d)'
  <2>1. ClientOK(d)
    BY DEF Orderly
  <2>2. /\ todo'[d] = todo[d] /\ ask'[d] = ask[d] /\ reply'[d] = reply[d] /\ wrote'[d] = wrote[d]
        /\ late'[d] = late[d] /\ alone'[d] = FALSE /\ (Busy(d)' <=> Busy(d))
    BY <1>8, <1>9, <1>10, <1>12
  <2>3. AsksFirst(todo'[d], wrote'[d])
    BY <2>1, <2>2 DEF ClientOK
  <2> QED
    BY <2>1, <2>2, <2>3 DEF ClientOK
<1>13. Bounds'
  BY <1>1, SimAssumption DEF Orderly, Bounds, Posted
<1>14. Domains'
  BY <1>1, <1>4, <1>5 DEF Domains, Posted
<1>15. SimOK'
  BY <1>1 DEF Orderly, SimOK, Reads, Posted
<1>16. RefusedWritesNothing'
  <2>1. Honest(c)'
    BY <1>8 DEF Honest
  <2>2. ASSUME NEW d \in Clients, d # c PROVE Honest(d)'
    <3>1. Honest(d)
      BY HonestAll DEF Orderly
    <3> QED
      BY <1>8, <2>2, <3>1 DEF Honest
  <2> QED
    BY <2>1, <2>2 DEF RefusedWritesNothing, Honest, ManualRefs
<1> QED
  BY <1>11, <1>12, <1>13, <1>14, <1>15, <1>16 DEF Orderly

\* A client with a step left has asked, and has no answer.
LEMMA StepsMeanBusy ==
    ASSUME Orderly, NEW c \in Clients, todo[c] # <<>> PROVE Busy(c) /\ ask[c] # {} /\ reply[c] = {}
BY DEF Orderly, ClientOK, Busy

LEMMA WriteOrderly ==
    ASSUME Orderly, NEW c \in Clients, WriteOne(c) PROVE Orderly'
<1> DEFINE h == Head(todo[c])
<1>1. /\ todo[c] # <<>> /\ h.do = "write" /\ sim' = SimAfter(h)
      /\ todo' = [todo EXCEPT ![c] = Tail(todo[c])]
      /\ wrote' = [wrote EXCEPT ![c] = wrote[c] \cup {h.ref}]
      /\ station' = station /\ ask' = ask /\ reply' = reply /\ setup' = setup /\ alone' = alone
      /\ late' = late /\ asked' = asked /\ faults' = faults /\ answer' = answer
  BY DEF WriteOne, Waiting
<1>2. Domains /\ ClientOK(c) /\ SimOK
  BY DEF Orderly
<1>3. /\ todo'[c] = Tail(todo[c]) /\ wrote'[c] = wrote[c] \cup {h.ref}
      /\ \A d \in Clients \ {c} : todo'[d] = todo[d] /\ wrote'[d] = wrote[d]
  BY <1>1, <1>2 DEF Domains
<1>4. /\ IsList(todo[c]) /\ \A step \in ToSet(todo[c]) : Proper(step)
      /\ AsksFirst(todo[c], wrote[c]) /\ Busy(c) /\ reply[c] = {}
  BY <1>1, <1>2, StepsMeanBusy DEF ClientOK
<1>5. h \in ToSet(todo[c]) /\ IsList(Tail(todo[c])) /\ ToSet(Tail(todo[c])) \subseteq ToSet(todo[c])
  BY <1>1, <1>4, ListHead
<1>6. AsksFirst(Tail(todo[c]), wrote[c] \cup {h.ref})
  BY <1>1, <1>4, AsksTail
<1>7. Proper(h) /\ h.ref \in Datarefs
  BY <1>1, <1>4, <1>5 DEF Proper
<1> HIDE DEF h
<1>8. \A b \in Clients : Busy(b)' <=> Busy(b)
  BY <1>1 DEF Busy
<1>9. ClientOK(c)'
  <2>1. /\ IsList(todo'[c]) /\ (\A step \in ToSet(todo'[c]) : Proper(step))
        /\ AsksFirst(todo'[c], wrote'[c]) /\ wrote'[c] \subseteq Datarefs
    BY <1>2, <1>3, <1>4, <1>5, <1>6, <1>7 DEF ClientOK
  <2>2. /\ ask'[c] \subseteq Setups /\ AtMostOne(ask'[c]) /\ AtMostOne(reply'[c])
        /\ alone'[c] \in BOOLEAN /\ late'[c] \in BOOLEAN
    BY <1>1, <1>2 DEF ClientOK
  <2>3. alone'[c] => \A b \in Clients \ {c} : ~Busy(b)'
    BY <1>1, <1>2, <1>8 DEF ClientOK
  <2> QED
    BY <1>4, <1>8, <2>1, <2>2, <2>3 DEF ClientOK
<1>10. SimOK'
  BY <1>1, <1>2, <1>7, SimStaysOK
<1>11. Bounds' /\ Domains'
  BY <1>1, <1>2 DEF Orderly, Bounds, Domains
<1>12. Honest(c)'
  BY <1>1, <1>4 DEF Honest
<1>13. \A d \in Clients \ {c} :
         /\ todo'[d] = todo[d] /\ ask'[d] = ask[d] /\ reply'[d] = reply[d]
         /\ wrote'[d] = wrote[d] /\ alone'[d] = alone[d] /\ late'[d] = late[d]
  BY <1>1, <1>3
<1> QED
  BY <1>8, <1>9, <1>10, <1>11, <1>12, <1>13, StepAt

LEMMA ReadOrderly ==
    ASSUME Orderly, NEW c \in Clients, ReadSome(c) PROVE Orderly'
<1> DEFINE h == Head(todo[c])
           e == Expand(h)
           t == Tail(todo[c])
<1>1. /\ todo[c] # <<>> /\ h.do \notin {"write", "settle", "check"}
      /\ todo' = [todo EXCEPT ![c] = e \o t]
      /\ station' = station /\ sim' = sim /\ ask' = ask /\ reply' = reply /\ setup' = setup
      /\ wrote' = wrote /\ alone' = alone
      /\ late' = late /\ asked' = asked /\ faults' = faults /\ answer' = answer
  BY DEF ReadSome
<1>2. Domains /\ ClientOK(c) /\ SimOK
  BY DEF Orderly
<1>3. todo'[c] = e \o t /\ \A d \in Clients \ {c} : todo'[d] = todo[d]
  BY <1>1, <1>2 DEF Domains
<1>4. /\ IsList(todo[c]) /\ \A step \in ToSet(todo[c]) : Proper(step)
      /\ AsksFirst(todo[c], wrote[c]) /\ Busy(c) /\ reply[c] = {}
  BY <1>1, <1>2, StepsMeanBusy DEF ClientOK
<1>5. /\ h \in ToSet(todo[c]) /\ IsList(t) /\ ToSet(t) \subseteq ToSet(todo[c])
      /\ h = todo[c][1] /\ 1 \in DOMAIN todo[c]
  BY <1>1, <1>4, ListHead, ListFacts
<1>6. \A x \in ToSet(t) : x.do \notin {"manual", "check"}
  BY <1>1, <1>4, AsksOnce
<1>7. IsList(e) /\ (\A x \in ToSet(e) : Proper(x)) /\ AsksFirst(e, wrote[c])
  <2>1. CASE h.do = "manual"
    <3>1. /\ IsList(e) /\ \A x \in ToSet(e) : Proper(x)
          /\ \A k \in 1 .. Len(e) : e[k].do \in {"manual", "check"} =>
                \A j \in 1 .. k - 1 : e[j].do = "write" /\ e[j].ref \in ManualRefs
      BY <2>1, ExpandManual
    <3>2. wrote[c] \subseteq ManualRefs
      BY <1>4, <1>5, <2>1 DEF AsksFirst
    <3>3. DOMAIN e = 1 .. Len(e)
      BY <3>1, ListFacts
    <3> HIDE DEF e
    <3> QED
      BY <3>1, <3>2, <3>3 DEF AsksFirst
  <2>2. CASE h.do # "manual"
    <3>1. Proper(h)
      BY <1>4, <1>5
    <3>2. Plain(e)
      BY <1>1, <1>2, <2>2, <3>1, ExpandPlain
    <3> HIDE DEF e
    <3> QED
      BY <3>2, AsksNothing DEF Plain
  <2> QED
    BY <2>1, <2>2
<1> HIDE DEF h, e, t
<1>8. IsList(e \o t) /\ ToSet(e \o t) = ToSet(e) \cup ToSet(t) /\ AsksFirst(e \o t, wrote[c])
  BY <1>5, <1>6, <1>7, ListJoin, AsksJoin
<1>9. \A b \in Clients : Busy(b)' <=> Busy(b)
  BY <1>1 DEF Busy
<1>10. ClientOK(c)'
  <2>1. /\ IsList(todo'[c]) /\ (\A step \in ToSet(todo'[c]) : Proper(step))
        /\ AsksFirst(todo'[c], wrote'[c])
    BY <1>1, <1>3, <1>4, <1>5, <1>7, <1>8
  <2>2. /\ ask'[c] \subseteq Setups /\ AtMostOne(ask'[c]) /\ AtMostOne(reply'[c])
        /\ wrote'[c] \subseteq Datarefs /\ alone'[c] \in BOOLEAN /\ late'[c] \in BOOLEAN
    BY <1>1, <1>2 DEF ClientOK
  <2>3. alone'[c] => \A b \in Clients \ {c} : ~Busy(b)'
    BY <1>1, <1>2, <1>9 DEF ClientOK
  <2> QED
    BY <1>4, <1>9, <2>1, <2>2, <2>3 DEF ClientOK
<1>11. Bounds' /\ Domains' /\ SimOK'
  BY <1>1, <1>2 DEF Orderly, Bounds, Domains, SimOK, Reads
<1>12. Honest(c)'
  BY <1>1, <1>4 DEF Honest
<1>13. \A d \in Clients \ {c} :
         /\ todo'[d] = todo[d] /\ ask'[d] = ask[d] /\ reply'[d] = reply[d]
         /\ wrote'[d] = wrote[d] /\ alone'[d] = alone[d] /\ late'[d] = late[d]
  BY <1>1, <1>3
<1> QED
  BY <1>9, <1>10, <1>11, <1>12, <1>13, StepAt

\* A step that is waited for and passed, whatever is noted of it.
LEMMA PassOrderly ==
    ASSUME Orderly, NEW c \in Clients, todo[c] # <<>>, Head(todo[c]).do # "write",
           todo' = [todo EXCEPT ![c] = Tail(todo[c])], DOMAIN late' = Clients, late'[c] \in BOOLEAN,
           \A d \in Clients \ {c} : late'[d] = late[d],
           UNCHANGED <<station, sim, ask, reply, setup, wrote, alone, asked, faults, answer>>
    PROVE  Orderly'
<1>1. Domains /\ ClientOK(c) /\ SimOK
  BY DEF Orderly
<1>2. todo'[c] = Tail(todo[c]) /\ \A d \in Clients \ {c} : todo'[d] = todo[d]
  BY <1>1 DEF Domains
<1>3. /\ IsList(todo[c]) /\ \A step \in ToSet(todo[c]) : Proper(step)
      /\ AsksFirst(todo[c], wrote[c]) /\ Busy(c) /\ reply[c] = {}
  BY <1>1, StepsMeanBusy DEF ClientOK
<1>4. IsList(Tail(todo[c])) /\ ToSet(Tail(todo[c])) \subseteq ToSet(todo[c])
  BY <1>3, ListHead
<1>5. AsksFirst(Tail(todo[c]), wrote[c])
  BY <1>3, <1>4, AsksOnce, AsksNothing
<1>6. \A b \in Clients : Busy(b)' <=> Busy(b)
  BY DEF Busy
<1>7. ClientOK(c)'
  <2>1. /\ IsList(todo'[c]) /\ (\A step \in ToSet(todo'[c]) : Proper(step))
        /\ AsksFirst(todo'[c], wrote'[c])
    BY <1>2, <1>3, <1>4, <1>5
  <2>2. /\ ask'[c] \subseteq Setups /\ AtMostOne(ask'[c]) /\ AtMostOne(reply'[c])
        /\ wrote'[c] \subseteq Datarefs /\ alone'[c] \in BOOLEAN /\ late'[c] \in BOOLEAN
    BY <1>1 DEF ClientOK
  <2>3. alone'[c] => \A b \in Clients \ {c} : ~Busy(b)'
    BY <1>1, <1>6 DEF ClientOK
  <2> QED
    BY <1>3, <1>6, <2>1, <2>2, <2>3 DEF ClientOK
<1>8. Bounds' /\ Domains' /\ SimOK'
  BY <1>1 DEF Orderly, Bounds, Domains, SimOK, Reads
<1>9. Honest(c)'
  BY <1>3 DEF Honest
<1>10. \A d \in Clients \ {c} :
         /\ todo'[d] = todo[d] /\ ask'[d] = ask[d] /\ reply'[d] = reply[d]
         /\ wrote'[d] = wrote[d] /\ alone'[d] = alone[d] /\ late'[d] = late[d]
  BY <1>2
<1> QED
  BY <1>6, <1>7, <1>8, <1>9, <1>10, StepAt

LEMMA SettleOrderly ==
    ASSUME Orderly, NEW c \in Clients, Settle(c) PROVE Orderly'
<1> DEFINE s == Settled(sim, Head(todo[c]).layers)
<1>1. /\ todo[c] # <<>> /\ Head(todo[c]).do = "settle"
      /\ late' = [late EXCEPT ![c] = late[c] \/ ~s]
      /\ todo' = [todo EXCEPT ![c] = Tail(todo[c])]
      /\ UNCHANGED <<station, sim, ask, reply, setup, wrote, alone, asked, faults, answer>>
  BY DEF Settle, Waiting
<1>2. Domains
  BY DEF Orderly
<1>3. PICK b \in BOOLEAN : b = (late[c] \/ ~s)
  OBVIOUS
<1> HIDE DEF s
<1>4. DOMAIN late' = Clients /\ late'[c] \in BOOLEAN /\ \A d \in Clients \ {c} : late'[d] = late[d]
  BY <1>1, <1>2, <1>3 DEF Domains
<1> QED
  BY <1>1, <1>4, PassOrderly

\* The answer of a client that is waiting for one: its steps are over.
LEMMA ConcludeOrderly ==
    ASSUME Orderly, NEW c \in Clients, Busy(c), NEW x, Conclude(c, x),
           x.status \notin {404, 422, 503}, x.status = 502 => x.why # "not_exposed",
           x.status = 502 /\ x.why = "not_manual" => wrote[c] \subseteq ManualRefs,
           faults' \in 0 .. MaxFaults,
           UNCHANGED <<station, sim, ask, setup, wrote, alone, late, asked, answer>>
    PROVE  Orderly'
<1>1. Domains /\ ClientOK(c) /\ SimOK
  BY DEF Orderly
<1>2. /\ todo'[c] = <<>> /\ reply'[c] = {x}
      /\ \A d \in Clients \ {c} : todo'[d] = todo[d] /\ reply'[d] = reply[d]
      /\ DOMAIN todo' = Clients /\ DOMAIN reply' = Clients
  BY <1>1 DEF Domains, Conclude
<1>3. ~Busy(c)' /\ \A b \in Clients : Busy(b)' => Busy(b)
  BY <1>2 DEF Busy
<1>4. ClientOK(c)'
  <2>1. AtMostOne({x})
    BY DEF AtMostOne
  <2>2. IsList(<<>>) /\ ToSet(<<>>) = {} /\ AsksFirst(<<>>, wrote[c])
    BY ListEmpty DEF AsksFirst
  <2>3. /\ IsList(todo'[c]) /\ (\A step \in ToSet(todo'[c]) : Proper(step))
        /\ AsksFirst(todo'[c], wrote'[c])
    BY <1>2, <2>2
  <2>4. /\ ask'[c] \subseteq Setups /\ AtMostOne(ask'[c]) /\ AtMostOne(reply'[c])
        /\ wrote'[c] \subseteq Datarefs /\ alone'[c] \in BOOLEAN /\ late'[c] \in BOOLEAN
    BY <1>1, <1>2, <2>1 DEF ClientOK
  <2>5. alone'[c] => \A b \in Clients \ {c} : ~Busy(b)'
    BY <1>1, <1>3 DEF ClientOK
  <2> QED
    BY <1>2, <2>3, <2>4, <2>5 DEF ClientOK
<1>5. Bounds' /\ Domains' /\ SimOK'
  BY <1>1, <1>2 DEF Orderly, Bounds, Domains, SimOK, Reads
<1>6. Honest(c)'
  BY <1>2 DEF Honest
<1>7. \A d \in Clients \ {c} :
         /\ todo'[d] = todo[d] /\ ask'[d] = ask[d] /\ reply'[d] = reply[d]
         /\ wrote'[d] = wrote[d] /\ alone'[d] = alone[d] /\ late'[d] = late[d]
  BY <1>2
<1> QED
  BY <1>3, <1>4, <1>5, <1>6, <1>7, StepAt

LEMMA CheckOrderly ==
    ASSUME Orderly, NEW c \in Clients, Check(c) PROVE Orderly'
<1>1. /\ todo[c] # <<>> /\ Head(todo[c]).do = "check"
      /\ UNCHANGED <<station, sim, ask, setup, wrote, alone, late, asked, faults, answer>>
  BY DEF Check, Waiting
<1>2. Domains /\ ClientOK(c) /\ faults \in 0 .. MaxFaults
  BY DEF Orderly, Bounds
<1>3. CASE sim[<<"source", 0>>] = 0
  <2>1. todo' = [todo EXCEPT ![c] = Tail(todo[c])] /\ reply' = reply
    BY <1>3 DEF Check
  <2>2. DOMAIN late' = Clients /\ late'[c] \in BOOLEAN
    BY <1>1, <1>2 DEF Domains, ClientOK
  <2> QED
    BY <1>1, <2>1, <2>2, PassOrderly
<1>4. CASE sim[<<"source", 0>>] # 0
  <2> DEFINE x == Rejected(502, "not_manual")
  <2>1. Conclude(c, x)
    BY <1>4 DEF Check
  <2>2. x.status = 502 /\ x.why = "not_manual"
    BY DEF Rejected
  <2>3. wrote[c] \subseteq ManualRefs
    <3>1. IsList(todo[c]) /\ AsksFirst(todo[c], wrote[c])
      BY <1>2 DEF ClientOK
    <3>2. todo[c][1] = Head(todo[c]) /\ 1 \in DOMAIN todo[c]
      BY <1>1, <3>1, ListHead, ListFacts
    <3> QED
      BY <1>1, <3>1, <3>2 DEF AsksFirst
  <2>4. Busy(c)
    BY <1>1, StepsMeanBusy
  <2> HIDE DEF x
  <2> QED
    BY <1>1, <1>2, <2>1, <2>2, <2>3, <2>4, ConcludeOrderly
<1> QED
  BY <1>3, <1>4

LEMMA FailOrderly ==
    ASSUME Orderly, NEW c \in Clients, Fail(c) PROVE Orderly'
<1> DEFINE x == Rejected(500, "failed")
<1>1. /\ todo[c] # <<>> /\ faults < MaxFaults /\ faults' = faults + 1 /\ Conclude(c, x)
      /\ UNCHANGED <<station, sim, ask, setup, wrote, alone, late, asked, answer>>
  BY DEF Fail
<1>2. faults' \in 0 .. MaxFaults
  BY <1>1, SimAssumption DEF Orderly, Bounds
<1>3. x.status = 500
  BY DEF Rejected
<1>4. Busy(c)
  BY <1>1, StepsMeanBusy
<1> HIDE DEF x
<1> QED
  BY <1>1, <1>2, <1>3, <1>4, ConcludeOrderly

\* What a request that ran to its end is answered.
LEMMA ReadBackIs ==
    ASSUME NEW s
    PROVE  /\ ReadBack(s).status \in {200, 500, 502}
           /\ ReadBack(s).status = 502 => ReadBack(s).why = "not_readable"
           /\ s.op \in Writing \ {"fuel"} => ReadBack(s).status = 200
<1> DEFINE loadout == ReadLoadout(sim)
           limits == ResolveMassLimits(station.airframe)
           readable == WeatherFields \subseteq station.exposed
           valid == ValidWeather(ReadWeather(sim))
           unarmed == limits # {} /\ ~HasArms(loadout, The(limits).of)
           w == [status |-> 200, state |-> ReadWeather(sim)]
           f == [status |-> 200, state |-> loadout, balance |-> ComputeMassAndBalance(loadout, limits)]
<1>1. ReadBack(s) =
         CASE s.op = "weather" -> IF ~readable THEN Rejected(502, "not_readable")
                                  ELSE IF ~valid THEN Rejected(500, "failed") ELSE w
           [] s.op = "fuel" -> IF unarmed THEN Rejected(500, "failed") ELSE f
           [] OTHER -> [status |-> 200]
  BY DEF ReadBack
<1>2. w.status = 200 /\ f.status = 200 /\ [status |-> 200].status = 200
  OBVIOUS
<1>3. /\ Rejected(502, "not_readable").status = 502
      /\ Rejected(502, "not_readable").why = "not_readable" /\ Rejected(500, "failed").status = 500
  BY DEF Rejected
<1> HIDE DEF readable, valid, unarmed, w, f
<1>4. CASE s.op = "weather"
  BY <1>1, <1>2, <1>3, <1>4 DEF Writing
<1>5. CASE s.op = "fuel"
  BY <1>1, <1>2, <1>3, <1>5 DEF Writing
<1>6. CASE s.op \notin {"weather", "fuel"}
  BY <1>1, <1>2, <1>6
<1> QED
  BY <1>4, <1>5, <1>6

LEMMA FinishOrderly ==
    ASSUME Orderly, NEW c \in Clients, Finish(c) PROVE Orderly'
<1> DEFINE x == ReadBack(The(ask[c]))
<1>1. /\ Busy(c) /\ Conclude(c, x)
      /\ UNCHANGED <<station, sim, ask, setup, wrote, alone, late, asked, faults, answer>>
  BY DEF Finish
<1>2. x.status \in {200, 500, 502} /\ (x.status = 502 => x.why = "not_readable")
  BY ReadBackIs
<1>3. faults' \in 0 .. MaxFaults
  BY <1>1 DEF Orderly, Bounds
<1> HIDE DEF x
<1> QED
  BY <1>1, <1>2, <1>3, ConcludeOrderly

LEMMA StepOrderly == ASSUME Orderly, [Next]_vars PROVE Orderly'
<1>1. CASE UNCHANGED vars
  BY <1>1 DEF vars, Orderly, Bounds, Domains, SimOK, Reads, ClientOK, AsksFirst, Busy,
              RefusedWritesNothing
<1>2. ASSUME NEW q \in Previews, Preview(q) PROVE Orderly'
  BY <1>2, PreviewOrderly
<1>3. ASSUME NEW c \in Clients, NEW s \in Setups, Ask(c, s) PROVE Orderly'
  BY <1>3, AskOrderly
<1>4. ASSUME NEW c \in Clients,
             WriteOne(c) \/ ReadSome(c) \/ Settle(c) \/ Check(c) \/ Fail(c) \/ Finish(c)
      PROVE  Orderly'
  BY <1>4, WriteOrderly, ReadOrderly, SettleOrderly, CheckOrderly, FailOrderly, FinishOrderly
<1> QED
  BY <1>1, <1>2, <1>3, <1>4, ForgetOrderly, ShowOrderly DEF Next

-----------------------------------------------------------------------------
(* The second part: what an undisturbed request does to the simulator      *)

\* Of the aim, what its demands are stated in.
Steady(aim, stated, mem) ==
    /\ aim.setup = stated /\ SetupTyped(stated)
    /\ aim.facing = IF States(stated, "heading") THEN Fold(stated.heading) ELSE mem[<<"psi", 0>>]
    /\ Moving(stated) => /\ aim.tas = AirspeedAt(mem, stated.ias, stated.altitude)
                         /\ aim.wind = WindAt(mem, stated.altitude)
    /\ aim.tanks = mem[<<"tanks", 0>>]

LEMMA AimIs ==
    ASSUME NEW s, NEW stated, SetupTyped(stated), NEW mem
    PROVE  /\ Steady(Aim(s, stated, mem), stated, mem)
           /\ Aim(s, stated, mem).placed <=> s.op = "place"
           /\ s.op = "place" =>
                 Aim(s, stated, mem).at = Resolve(s.request.placement, station.navdata,
                                                  station.airframe.stalling).placement.position
<1> DEFINE where == IF s.op = "place"
                    THEN Resolve(s.request.placement, station.navdata,
                                 station.airframe.stalling).placement.position
                    ELSE Point(0, 0, 0)
           facing == IF States(stated, "heading") THEN Fold(stated.heading) ELSE mem[<<"psi", 0>>]
           tas == IF Moving(stated) THEN AirspeedAt(mem, stated.ias, stated.altitude) ELSE 0
           wind == IF Moving(stated) THEN WindAt(mem, stated.altitude) ELSE 0
           tanks == mem[<<"tanks", 0>>]
<1>1. PICK placed \in BOOLEAN : placed = (s.op = "place")
  OBVIOUS
<1>2. Aim(s, stated, mem) = [setup |-> stated, at |-> where, placed |-> placed, facing |-> facing,
                             tas |-> tas, wind |-> wind, tanks |-> tanks]
  <2> HIDE DEF where, facing, tas, wind, tanks
  <2> QED
    BY <1>1 DEF Aim, where, facing, tas, wind, tanks
<1> HIDE DEF where, facing, tas, wind, tanks
<1>3. LET a == Aim(s, stated, mem) IN
      /\ a.setup = stated /\ a.at = where /\ a.placed = placed /\ a.facing = facing
      /\ a.tas = tas /\ a.wind = wind /\ a.tanks = tanks
  BY <1>2
<1> QED
  BY <1>1, <1>3 DEF Steady, where, facing, tas, wind, tanks

\* Only what the aim reads can change it.
LEMMA AimStays ==
    ASSUME NEW s, NEW stated, NEW mem, NEW new,
           new[<<"tanks", 0>>] = mem[<<"tanks", 0>>], new[<<"qnh", 0>>] = mem[<<"qnh", 0>>],
           \A i \in 1 .. WindLevels : new[<<"wind", i>>] = mem[<<"wind", i>>],
           ~States(stated, "heading") => new[<<"psi", 0>>] = mem[<<"psi", 0>>]
    PROVE  Aim(s, stated, new) = Aim(s, stated, mem)
<1>1. WindLevelsOf(new) = WindLevelsOf(mem)
  BY DEF WindLevelsOf
<1>2. WindAt(new, stated.altitude) = WindAt(mem, stated.altitude)
  BY <1>1 DEF WindAt
<1>3. AirspeedAt(new, stated.ias, stated.altitude) = AirspeedAt(mem, stated.ias, stated.altitude)
  BY DEF AirspeedAt
<1> DEFINE Facing(m) == IF States(stated, "heading") THEN Fold(stated.heading) ELSE m[<<"psi", 0>>]
<1>4. Facing(new) = Facing(mem)
  OBVIOUS
<1> QED
  BY <1>2, <1>3, <1>4 DEF Aim

\* Names the aim wants nothing of, and names of fields with nothing else to them.
LEMMA WantsOnly ==
    ASSUME NEW aim, SetupTyped(aim.setup), NEW value, NEW ref, WantsOther(aim.setup, ref, value),
           \/ ref \in {"nav2", "is_mach", "lateral", "target_heading", "theta", "phi", "psi"} \X {0}
              /\ (ref = <<"psi", 0>> => ~States(aim.setup, "heading"))
           \/ \E i : ref = <<"sky", i>>
    PROVE  Wants(aim, ref, value)
<1> DEFINE S == aim.setup
<1>1. /\ \A f \in OwnName : ref # <<f, 0>>
      /\ ref \notin {"gear", "nav1", "mode", "vx", "vy", "vz", "x", "y"} \X {0}
      /\ \A f \in Switches : ref # <<f, 0>>
      /\ \A i : ref # <<"tank", i>> /\ ref # <<"station", i>>
  BY DEF OwnName, Switches
<1>2. States(S, "lights") => DOMAIN S.lights \subseteq Switches
  BY DEF SetupTyped
<1>3. ref = <<"psi", 0>> => ~States(S, "heading")
  OBVIOUS
<1>4. WantsOther(S, ref, value)
  OBVIOUS
<1> HIDE DEF S
<1> QED
  BY <1>1, <1>2, <1>3, <1>4 DEF Wants, S

LEMMA OtherIs ==
    ASSUME NEW S, NEW ref, NEW value, ref \notin Others \X {0} PROVE WantsOther(S, ref, value)
BY DEF WantsOther, Others

LEMMA WantsFree ==
    ASSUME NEW aim, SetupTyped(aim.setup), NEW value, NEW ref,
           \/ ref \in {"is_mach", "lateral", "psi"} \X {0}
              /\ (ref = <<"psi", 0>> => ~States(aim.setup, "heading"))
           \/ \E i : ref = <<"sky", i>>
    PROVE  Wants(aim, ref, value)
<1>1. ref \notin Others \X {0}
  BY DEF Others
<1>2. WantsOther(aim.setup, ref, value)
  BY <1>1, OtherIs
<1> QED
  BY <1>2, WantsOnly

\* A field under its own name.
LEMMA WantsOwn ==
    ASSUME NEW aim, SetupTyped(aim.setup), NEW f \in OwnName, States(aim.setup, f)
    PROVE  Wants(aim, <<f, 0>>, aim.setup[f])
<1> DEFINE S == aim.setup
           ref == <<f, 0>>
<1>1. /\ \A g \in OwnName : ref = <<g, 0>> => g = f
      /\ ref \notin {"gear", "nav1", "mode", "psi", "vx", "vy", "vz", "x", "y"} \X {0}
      /\ \A g \in Switches : ref # <<g, 0>>
      /\ \A i : ref # <<"tank", i>> /\ ref # <<"station", i>>
  BY DEF OwnName, Switches
<1>2. States(S, "lights") => DOMAIN S.lights \subseteq Switches
  BY DEF SetupTyped
<1>3. WantsOther(S, ref, S[f])
  BY OtherIs DEF Others, OwnName
<1> HIDE DEF S, ref
<1>4. \A g \in OwnName \cap DOMAIN S : ref = <<g, 0>> => S[f] = S[g]
  BY <1>1
<1> QED
  BY <1>1, <1>2, <1>3, <1>4 DEF Wants, S, ref

\* The datarefs no wish concerns but one.
LEMMA WantsElse ==
    ASSUME NEW aim, SetupTyped(aim.setup), NEW ref, NEW value,
           \/ ref \in {"gear", "nav1", "mode", "psi", "vx", "vy", "vz", "x", "y"} \X {0}
           \/ \E i \in Nat \ {0} : ref = <<"tank", i>> \/ ref = <<"station", i>>
           \/ ref \in Switches \X {0},
           States(aim.setup, "gear") /\ ref = <<"gear", 0>> => value = Number(aim.setup.gear),
           States(aim.setup, "nav1") /\ ref = <<"nav1", 0>> => value = aim.setup.nav1 \div 10,
           States(aim.setup, "ils") /\ ~States(aim.setup, "nav1") /\ ref = <<"nav1", 0>> =>
              value = aim.setup.ils \div 10,
           States(aim.setup, "lights") => \A switch \in DOMAIN aim.setup.lights :
              ref = <<switch, 0>> => value = Number(aim.setup.lights[switch]),
           ref = <<"mode", 0>> /\ States(aim.setup, "master") =>
              (value = Servos <=> aim.setup.master),
           ref = <<"mode", 0>> /\ States(aim.setup, "director") =>
              (aim.setup.director => value \in {Director, Servos}),
           States(aim.setup, "heading") /\ ref = <<"psi", 0>> => value = aim.facing,
           Moving(aim.setup) =>
              /\ ref = <<"vx", 0>> =>
                    value = aim.tas * East(aim.facing) - aim.wind.speed * East(aim.wind.direction)
              /\ ref = <<"vy", 0>> => value = Else(Stated(aim.setup, "vertical"), 0)
              /\ ref = <<"vz", 0>> =>
                    value = aim.wind.speed * North(aim.wind.direction) - aim.tas * North(aim.facing),
           Loads(aim.setup, "tank") =>
              \A i \in Slots : ref = <<"tank", i>> => value = MassIn(Loaded(aim.setup, "tank"), i),
           Loads(aim.setup, "station") =>
              \A i \in Slots : ref = <<"station", i>> =>
                 value = MassIn(Loaded(aim.setup, "station"), i),
           aim.placed => (ref = <<"x", 0>> => value = aim.at.x) /\ (ref = <<"y", 0>> => value = aim.at.y)
    PROVE  Wants(aim, ref, value)
<1>1. \A f \in OwnName : ref # <<f, 0>>
  BY DEF OwnName, Switches
<1>2. WantsOther(aim.setup, ref, value)
  BY OtherIs DEF Others, Switches
<1> QED
  BY <1>1, <1>2 DEF Wants

\* The writes that leave what is wanted.
LEMMA FitsAt ==
    ASSUME NEW aim, NEW name, NEW i, NEW value, Wants(aim, <<name, i>>, value),
           Spares(aim, <<name, i>>)
    PROVE  Fits(aim, WriteAt(name, i, value))
<1> DEFINE w == WriteAt(name, i, value)
<1>1. w.do = "write" /\ w.ref = <<name, i>> /\ w.value = value
  BY DEF WriteAt
<1> HIDE DEF w
<1> QED
  BY <1>1 DEF Fits, w

LEMMA SparesIs ==
    ASSUME NEW aim, NEW name, name \notin {"qnh", "wind", "tanks", "change", "psi"}, NEW i,
           name \in Arrays => Loads(aim.setup, name)
    PROVE  Spares(aim, <<name, i>>)
BY DEF Spares, MassStated

LEMMA FitsOwn ==
    ASSUME NEW aim, SetupTyped(aim.setup), NEW f \in OwnName
    PROVE  \A x \in ToSet(WriteOf(aim.setup, f)) : Fits(aim, x)
<1>1. CASE States(aim.setup, f)
  <2>1. Wants(aim, <<f, 0>>, aim.setup[f])
    BY <1>1, WantsOwn
  <2>2. Spares(aim, <<f, 0>>)
    BY SparesIs DEF OwnName, Arrays
  <2>3. Fits(aim, Write(f, aim.setup[f]))
    BY <2>1, <2>2, FitsAt DEF Write
  <2> QED
    BY <1>1, <2>3, ListOfField
<1>2. CASE ~States(aim.setup, f)
  BY <1>2, ListOfField
<1> QED
  BY <1>1, <1>2

LEMMA FitsFree ==
    ASSUME NEW aim, SetupTyped(aim.setup), NEW value, NEW name \in {"is_mach", "lateral"}
    PROVE  Fits(aim, Write(name, value))
<1>1. Wants(aim, <<name, 0>>, value)
  BY WantsFree
<1>2. Spares(aim, <<name, 0>>)
  BY SparesIs DEF Arrays
<1> QED
  BY <1>1, <1>2, FitsAt DEF Write

LEMMA FitsOther ==
    ASSUME NEW aim, SetupTyped(aim.setup), NEW name \in Others, NEW value,
           WantsOther(aim.setup, <<name, 0>>, value)
    PROVE  Fits(aim, Write(name, value))
<1>1. Wants(aim, <<name, 0>>, value)
  BY WantsOnly DEF Others
<1>2. Spares(aim, <<name, 0>>)
  BY SparesIs DEF Others, Arrays
<1> QED
  BY <1>1, <1>2, FitsAt DEF Write

\* What the fields of other names write.
LEMMA FitsOthers ==
    ASSUME NEW aim, SetupTyped(aim.setup)
    PROVE  LET S == aim.setup IN
           /\ States(S, "nav2") => Fits(aim, Write("nav2", S.nav2 \div 10))
           /\ States(S, "target_heading") => Fits(aim, Write("target_heading", Fold(S.target_heading)))
           /\ States(S, "pitch") => Fits(aim, Write("theta", S.pitch))
           /\ States(S, "roll") => Fits(aim, Write("phi", S.roll))
<1> DEFINE S == aim.setup
<1>1. "nav2" \in Others /\ "target_heading" \in Others /\ "theta" \in Others /\ "phi" \in Others
  BY DEF Others
<1>2. /\ WantsOther(S, <<"nav2", 0>>, S.nav2 \div 10)
      /\ WantsOther(S, <<"target_heading", 0>>, Fold(S.target_heading))
      /\ WantsOther(S, <<"theta", 0>>, S.pitch)
      /\ WantsOther(S, <<"phi", 0>>, S.roll)
  BY DEF WantsOther
<1> QED
  BY <1>1, <1>2, FitsOther

LEMMA FitsGear ==
    ASSUME NEW aim, SetupTyped(aim.setup), States(aim.setup, "gear")
    PROVE  Fits(aim, Write("gear", Number(aim.setup.gear)))
<1> DEFINE ref == <<"gear", 0>>
<1>1. /\ ref \notin {"nav1", "mode", "psi", "vx", "vy", "vz", "x", "y"} \X {0}
      /\ \A f \in Switches : ref # <<f, 0>>
      /\ \A i : ref # <<"tank", i>> /\ ref # <<"station", i>>
  BY DEF Switches
<1>2. Wants(aim, ref, Number(aim.setup.gear))
  <2>1. States(aim.setup, "lights") => \A switch \in DOMAIN aim.setup.lights : ref # <<switch, 0>>
    BY <1>1 DEF SetupTyped
  <2>2. ref = <<"gear", 0>>
    OBVIOUS
  <2> HIDE DEF ref
  <2> QED
    BY <1>1, <2>1, <2>2, WantsElse
<1> QED
  BY <1>2, SparesIs, FitsAt DEF Write, Arrays

LEMMA FitsNav1 ==
    ASSUME NEW aim, SetupTyped(aim.setup) PROVE \A x \in ToSet(Nav1Of(aim.setup)) : Fits(aim, x)
<1> DEFINE ref == <<"nav1", 0>>
           S == aim.setup
<1>1. /\ ref \notin {"gear", "mode", "psi", "vx", "vy", "vz", "x", "y"} \X {0}
      /\ \A f \in Switches : ref # <<f, 0>>
      /\ \A i : ref # <<"tank", i>> /\ ref # <<"station", i>>
  BY DEF Switches
<1>2. ASSUME NEW v, States(S, "nav1") => v = S.nav1 \div 10,
             States(S, "ils") /\ ~States(S, "nav1") => v = S.ils \div 10
      PROVE  Fits(aim, Write("nav1", v))
  <2>1. States(S, "lights") => \A switch \in DOMAIN S.lights : ref # <<switch, 0>>
    BY <1>1 DEF SetupTyped
  <2>2. ref \in {"nav1"} \X {0}
    OBVIOUS
  <2>3. Wants(aim, ref, v)
    <3> HIDE DEF ref
    <3> QED
      BY <1>1, <1>2, <2>1, <2>2, WantsElse
  <2> QED
    BY <2>3, SparesIs, FitsAt DEF Write, Arrays
<1>3. CASE States(S, "nav1")
  <2>1. Fits(aim, Write("nav1", S.nav1 \div 10))
    BY <1>2, <1>3
  <2> QED
    BY <1>3, <2>1, Nav1Is
<1>4. CASE ~States(S, "nav1") /\ States(S, "ils")
  <2>1. Fits(aim, Write("nav1", S.ils \div 10))
    BY <1>2, <1>4
  <2> QED
    BY <1>4, <2>1, Nav1Is
<1>5. CASE ~States(S, "nav1") /\ ~States(S, "ils")
  BY <1>5, Nav1Is
<1> QED
  BY <1>3, <1>4, <1>5

LEMMA FitsSwitch ==
    ASSUME NEW aim, SetupTyped(aim.setup), States(aim.setup, "lights"), NEW name \in Switches,
           States(aim.setup.lights, name)
    PROVE  Fits(aim, Write(name, Number(aim.setup.lights[name])))
<1> DEFINE ref == <<name, 0>>
<1>1. /\ ref \notin {"gear", "nav1", "mode", "psi", "vx", "vy", "vz", "x", "y"} \X {0}
      /\ \A f : ref = <<f, 0>> => f = name
      /\ \A i : ref # <<"tank", i>> /\ ref # <<"station", i>>
      /\ ref \in Switches \X {0}
  BY DEF Switches
<1>2. Wants(aim, ref, Number(aim.setup.lights[name]))
  <2> HIDE DEF ref
  <2> QED
    BY <1>1, WantsElse
<1>3. Spares(aim, ref)
  BY SparesIs DEF Switches, Arrays
<1> QED
  BY <1>2, <1>3, FitsAt DEF Write

LEMMA FitsLights ==
    ASSUME NEW aim, SetupTyped(aim.setup) PROVE \A x \in ToSet(LightsOf(aim.setup)) : Fits(aim, x)
<1>1. CASE ~States(aim.setup, "lights")
  BY <1>1, LightsAre
<1>2. CASE States(aim.setup, "lights")
  <2> DEFINE l == aim.setup.lights
  <2>1. ASSUME NEW name \in Switches PROVE \A x \in ToSet(SwitchOf(l, name)) : Fits(aim, x)
    <3>1. CASE States(l, name)
      <4>1. ToSet(SwitchOf(l, name)) = {Write(name, Number(l[name]))}
        BY <3>1, SwitchesAre
      <4>2. Fits(aim, Write(name, Number(l[name])))
        BY <1>2, <3>1, FitsSwitch
      <4> QED
        BY <4>1, <4>2
    <3>2. CASE ~States(l, name)
      BY <3>2, SwitchesAre
    <3> QED
      BY <3>1, <3>2
  <2>2. {"landing", "taxi", "nav", "beacon", "strobe"} \subseteq Switches
    BY DEF Switches
  <2>3. ToSet(LightsOf(aim.setup)) =
           ToSet(SwitchOf(l, "landing")) \cup ToSet(SwitchOf(l, "taxi"))
           \cup ToSet(SwitchOf(l, "nav")) \cup ToSet(SwitchOf(l, "beacon"))
           \cup ToSet(SwitchOf(l, "strobe"))
    BY <1>2, LightsAre, SwitchesAre
  <2> HIDE DEF l
  <2> QED
    BY <2>1, <2>2, <2>3
<1> QED
  BY <1>1, <1>2

LEMMA FitsMasses ==
    ASSUME NEW aim PROVE \A x \in ToSet(MassesOf(aim.setup)) : Fits(aim, x)
<1> SUFFICES ASSUME NEW x \in ToSet(MassesOf(aim.setup)) PROVE Fits(aim, x)
  OBVIOUS
<1>1. PICK name \in Arrays : Loads(aim.setup, name) /\ x = Masses(name, Loaded(aim.setup, name))
  BY MassesAre
<1>2. x.do = "masses" /\ x.name = name /\ x.masses = Loaded(aim.setup, name)
  BY <1>1 DEF Masses
<1> QED
  BY <1>1, <1>2 DEF Fits

LEMMA FitsMode ==
    ASSUME NEW aim PROVE \A x \in ToSet(ModeOf(aim.setup)) : Fits(aim, x)
<1> DEFINE w == [do |-> "mode", director |-> Stated(aim.setup, "director"),
                 master |-> Stated(aim.setup, "master")]
<1>1. ToSet(ModeOf(aim.setup)) \subseteq {w}
  BY ModeIs
<1>2. /\ w.do = "mode" /\ w.director = Stated(aim.setup, "director")
      /\ w.master = Stated(aim.setup, "master")
  OBVIOUS
<1> HIDE DEF w
<1>3. Fits(aim, w)
  BY <1>2 DEF Fits
<1> QED
  BY <1>1, <1>3

LEMMA FitsFly == ASSUME NEW aim PROVE Fits(aim, FlyStep(aim.setup))
<1> DEFINE w == FlyStep(aim.setup)
<1>1. w.do = "fly" /\ w.setup = aim.setup
  BY DEF FlyStep
<1> HIDE DEF w
<1> QED
  BY <1>1 DEF Fits, w

\* A setup's steps fit an aim that is the setup's.
LEMMA SetupFits ==
    ASSUME NEW aim, SetupTyped(aim.setup)
    PROVE  \A x \in ToSet(SetupSteps(aim.setup)) : Fits(aim, x)
<1> DEFINE S == aim.setup
           Good(s) == \A x \in ToSet(s) : Fits(aim, x)
<1>1. \A f \in OwnName : Good(WriteOf(S, f))
  BY FitsOwn
<1>2. {"flaps", "speedbrake", "trim", "throttle", "autobrake", "obs1", "obs2", "target_altitude",
       "target_vertical"} \subseteq OwnName
  BY DEF OwnName
<1>3. Good(GearOf(S))
  BY FitsGear, ListIf DEF GearOf
<1>4. Good(Nav2Of(S)) /\ Good(HeadingOf(S))
  BY FitsOthers, ListIf DEF Nav2Of, HeadingOf
<1>5. Good(LateralSteps(S))
  <2>1. \A v : Fits(aim, Write("lateral", v))
    BY FitsFree
  <2>2. /\ ToSet(SelectedMode(S, 1)) \subseteq {Write("lateral", 1)}
        /\ ToSet(SelectedMode(S, 2)) \subseteq {Write("lateral", 2)}
        /\ ToSet(SelectedMode(S, 3)) \subseteq {Write("lateral", 3)}
        /\ ToSet(WingsLevel(S)) \subseteq {Write("lateral", 0)}
    BY LateralIs
  <2>3. ToSet(LateralSteps(S)) = ToSet(SelectedMode(S, 1)) \cup ToSet(SelectedMode(S, 2))
                                 \cup ToSet(SelectedMode(S, 3)) \cup ToSet(WingsLevel(S))
    BY LateralIs
  <2> HIDE DEF S
  <2> QED
    BY <2>1, <2>2, <2>3
<1>6. Good(TargetIasOf(S))
  <2>1. Fits(aim, Write("is_mach", 0))
    BY FitsFree
  <2>2. States(S, "target_ias") => Fits(aim, Write("target_ias", S.target_ias))
    <3>1. "target_ias" \in OwnName
      BY DEF OwnName
    <3>2. States(S, "target_ias") => Write("target_ias", S["target_ias"]) \in ToSet(WriteOf(S, "target_ias"))
      BY ListOfField
    <3> QED
      BY <1>1, <3>1, <3>2
  <2> QED
    BY <2>1, <2>2, TargetIasIs
<1>7. Good(Nav1Of(S)) /\ Good(LightsOf(S)) /\ Good(MassesOf(S)) /\ Good(ModeOf(S)) /\ Fits(aim, FlyStep(S))
  BY FitsNav1, FitsLights, FitsMasses, FitsMode, FitsFly
<1> HIDE DEF S
<1>8. Good(ConfigurationSteps(S))
  BY <1>1, <1>2, <1>3, <1>4, <1>7, ConfigurationIs
<1>9. Good(AutopilotSteps(S))
  BY <1>1, <1>2, <1>4, <1>5, <1>6, <1>7, AutopilotIs
<1> QED
  BY <1>7, <1>8, <1>9, SetupIs DEF S

\* A write of the adapter's touches its dataref, and no other step selects.
LEMMA WriteTouches ==
    ASSUME NEW aim, NEW name, NEW i, NEW value
    PROVE  /\ Touches(aim, WriteAt(name, i, value), <<name, i>>)
           /\ name # "lateral" => ~Selects(WriteAt(name, i, value))
BY DEF Touches, Selects, WriteAt

LEMMA SlotsAre == \A i \in Slots : i \in Nat \ {0}
<1>1. Cardinality(Slots) \in Nat
  BY ArraysAssumption, FS_CardinalityType
<1> QED
  BY <1>1, ArraysAssumption

\* What a step that reads the arrays of masses becomes.
LEMMA MassesExpand ==
    ASSUME SimOK, NEW aim, SetupTyped(aim.setup), aim.tanks = sim[<<"tanks", 0>>], NEW h,
           Fits(aim, h), h.do = "masses"
    PROVE  /\ \A x \in ToSet(Expand(h)) : Fits(aim, x) /\ ~Selects(x)
           /\ \A ref : Touches(aim, h, ref) => \E x \in ToSet(Expand(h)) : Touches(aim, x, ref)
<1> DEFINE known == IF h.name = "tank" THEN sim[<<"tanks", 0>>] ELSE Cardinality(Slots)
           places == (1 .. known \cup DOMAIN h.masses) \cap Slots
           e == Expand(h)
<1>1. /\ h.name \in {"tank", "station"} /\ Loads(aim.setup, h.name)
      /\ h.masses = Loaded(aim.setup, h.name)
  BY DEF Fits, Arrays
<1>2. e = MassWrites(h, known)
  BY DEF Expand
<1>3. /\ \A x \in ToSet(e) : \E i \in places : x = WriteAt(h.name, i, MassIn(h.masses, i))
      /\ \A i \in places : \E x \in ToSet(e) : x = WriteAt(h.name, i, MassIn(h.masses, i))
  <2>1. h.name \in {"tank", "station"}
    BY <1>1
  <2> HIDE DEF known, e
  <2> DEFINE m == MassWrites(h, known)
  <2>2. \A x \in ToSet(m) : \E i \in (1 .. known \cup DOMAIN h.masses) \cap Slots :
           x = WriteAt(h.name, i, MassIn(h.masses, i))
    BY <2>1, PlainMasses
  <2>3. \A i \in (1 .. known \cup DOMAIN h.masses) \cap Slots :
           \E x \in ToSet(m) : x = WriteAt(h.name, i, MassIn(h.masses, i))
    BY <2>1, PlainMasses
  <2> HIDE DEF m
  <2> QED
    BY <1>2, <2>2, <2>3 DEF m
<1>4. ASSUME NEW i \in places
      PROVE  LET x == WriteAt(h.name, i, MassIn(h.masses, i)) IN Fits(aim, x) /\ ~Selects(x)
  <2> DEFINE ref == <<h.name, i>>
             v == MassIn(h.masses, i)
  <2>1. i \in Slots /\ i \in Nat \ {0}
    BY SlotsAre
  <2>2. /\ ref \notin {"gear", "nav1", "mode", "psi", "vx", "vy", "vz", "x", "y"} \X {0}
        /\ \A f : ref # <<f, 0>>
        /\ ref = <<"tank", i>> \/ ref = <<"station", i>>
        /\ \A j : ref = <<"tank", j>> => j = i /\ h.name = "tank"
        /\ \A j : ref = <<"station", j>> => j = i /\ h.name # "tank"
    BY <1>1, <2>1
  <2>3. /\ \A j \in Slots : ref = <<"tank", j>> => v = MassIn(Loaded(aim.setup, "tank"), j)
        /\ \A j \in Slots : ref = <<"station", j>> => v = MassIn(Loaded(aim.setup, "station"), j)
    BY <1>1, <2>2
  <2>4. Spares(aim, ref)
    BY <1>1, SparesIs
  <2>5. Wants(aim, ref, v)
    <3> HIDE DEF ref, v
    <3> QED
      BY <2>1, <2>2, <2>3, WantsElse
  <2>6. h.name # "lateral"
    BY <1>1
  <2> QED
    BY <2>4, <2>5, <2>6, FitsAt, WriteTouches
<1>5. ASSUME NEW ref, Touches(aim, h, ref) PROVE \E i \in places : ref = <<h.name, i>>
  <2>1. CASE h.name = "tank"
    <3>1. ref \in {"tank"} \X (1 .. aim.tanks)
      BY <1>5, <2>1 DEF Touches
    <3>2. PICK i \in 1 .. aim.tanks : ref = <<"tank", i>>
      BY <3>1
    <3>3. i \in 1 .. known /\ i \in Slots
      BY <2>1, SimAssumption DEF SimOK, Reads
    <3> QED
      BY <2>1, <3>2, <3>3
  <2>2. CASE h.name = "station"
    <3>1. PICK i \in Slots : ref = <<"station", i>>
      BY <1>5, <2>2 DEF Touches
    <3>2. i \in 1 .. known
      BY <2>2, <3>1, ArraysAssumption
    <3> QED
      BY <2>2, <3>1, <3>2
  <2> QED
    BY <1>1, <2>1, <2>2
<1>6. \A i \in places : Touches(aim, WriteAt(h.name, i, MassIn(h.masses, i)), <<h.name, i>>)
  BY WriteTouches
<1> HIDE DEF places, e
<1> QED
  BY <1>3, <1>4, <1>5, <1>6 DEF e

LEMMA ModeExpand ==
    ASSUME SimOK, NEW aim, SetupTyped(aim.setup), NEW h, Proper(h), Fits(aim, h), h.do = "mode"
    PROVE  /\ \A x \in ToSet(Expand(h)) : Fits(aim, x) /\ ~Selects(x)
           /\ \A ref : Touches(aim, h, ref) => \E x \in ToSet(Expand(h)) : Touches(aim, x, ref)
<1> DEFINE v == AutopilotMode(sim[<<"mode", 0>>], h.director, h.master)
           x == Write("mode", v)
           S == aim.setup
           ref == <<"mode", 0>>
<1>1. Expand(h) = <<x>>
  BY DEF Expand
<1>2. ToSet(Expand(h)) = {x}
  <2> HIDE DEF x
  <2> QED
    BY <1>1, ListOne
<1>3. h.director = Stated(S, "director") /\ h.master = Stated(S, "master")
  BY DEF Fits
<1>4. h.director \in Flags /\ h.master \in Flags
  BY DEF Proper
<1>5. sim[<<"mode", 0>>] \in Modes
  BY DEF SimOK, Reads
<1>6. /\ h.director = {TRUE} => v \in {Director, Servos}
      /\ h.master = {TRUE} => v = Servos
      /\ h.master = {FALSE} => v # Servos
  BY <1>4, <1>5, ModeStaysAMode
<1> HIDE DEF v
<1>7. States(S, "master") => (v = Servos <=> S.master)
  <2> SUFFICES ASSUME States(S, "master") PROVE v = Servos <=> S.master
    OBVIOUS
  <2>1. S.master \in BOOLEAN
    BY DEF SetupTyped, States
  <2>2. h.master = {S.master}
    BY <1>3 DEF Stated
  <2> HIDE DEF S
  <2>3. CASE S.master = TRUE
    BY <1>6, <2>2, <2>3
  <2>4. CASE S.master = FALSE
    BY <1>6, <2>2, <2>4
  <2> QED
    BY <2>1, <2>3, <2>4
<1>8. States(S, "director") => (S.director => v \in {Director, Servos})
  <2> SUFFICES ASSUME States(S, "director"), S.director PROVE v \in {Director, Servos}
    OBVIOUS
  <2>1. S.director \in BOOLEAN
    BY DEF SetupTyped, States
  <2>2. h.director = {S.director}
    BY <1>3 DEF Stated
  <2>3. S.director = TRUE
    BY <2>1
  <2> HIDE DEF S
  <2> QED
    BY <1>6, <2>2, <2>3
<1>9. Wants(aim, ref, v)
  <2>1. /\ ref \notin {"gear", "nav1", "psi", "vx", "vy", "vz", "x", "y"} \X {0}
        /\ \A f \in Switches : ref # <<f, 0>>
        /\ \A i : ref # <<"tank", i>> /\ ref # <<"station", i>>
        /\ ref \in {"mode"} \X {0}
    BY DEF Switches
  <2>2. States(S, "lights") => \A switch \in DOMAIN S.lights : ref # <<switch, 0>>
    BY <2>1 DEF SetupTyped
  <2> HIDE DEF ref
  <2> QED
    BY <1>7, <1>8, <2>1, <2>2, WantsElse
<1>10. Fits(aim, x) /\ ~Selects(x) /\ Touches(aim, x, ref)
  BY <1>9, SparesIs, FitsAt, WriteTouches DEF Write, Arrays
<1>11. \A r : Touches(aim, h, r) => r = ref
  BY DEF Touches
<1> HIDE DEF x, ref
<1> QED
  BY <1>2, <1>10, <1>11

\* The compass sees the folded bearing.
LEMMA FoldedCompass ==
    ASSUME NEW b \in Int PROVE East(Fold(b)) = East(b) /\ North(Fold(b)) = North(b)
<1>1. Compass(Fold(b)) = Compass(b)
  BY FoldIs DEF Compass
<1> QED
  BY <1>1 DEF East, North

LEMMA VelocityExpand ==
    ASSUME NEW aim, NEW stated, Steady(aim, stated, sim), NEW h, Fits(aim, h), h.do = "velocity"
    PROVE  /\ \A x \in ToSet(Expand(h)) : Fits(aim, x) /\ ~Selects(x)
           /\ \A ref : Touches(aim, h, ref) => \E x \in ToSet(Expand(h)) : Touches(aim, x, ref)
<1> DEFINE wind == IF h.altitude = {} THEN [direction |-> 0, speed |-> 0]
                   ELSE WindAt(sim, The(h.altitude))
           heading == Else(h.heading, sim[<<"psi", 0>>])
           vx == h.tas * East(heading) - wind.speed * East(wind.direction)
           vy == Else(h.vertical, 0)
           vz == wind.speed * North(wind.direction) - h.tas * North(heading)
           x == Write("vx", vx)
           y == Write("vy", vy)
           z == Write("vz", vz)
<1>1. Expand(h) = <<x, y, z>>
  BY DEF Expand, VelocityWrites
<1>2. ToSet(Expand(h)) = {x, y, z}
  <2> HIDE DEF x, y, z
  <2> QED
    BY <1>1, ListThree
<1>3. aim.setup = stated /\ SetupTyped(stated)
  BY DEF Steady
<1>4. ASSUME Moving(stated)
      PROVE  /\ vx = aim.tas * East(aim.facing) - aim.wind.speed * East(aim.wind.direction)
             /\ vy = Else(Stated(stated, "vertical"), 0)
             /\ vz = aim.wind.speed * North(aim.wind.direction) - aim.tas * North(aim.facing)
  <2>1. /\ h.tas = aim.tas /\ h.altitude = {stated.altitude} /\ h.vertical = Stated(stated, "vertical")
        /\ \/ h.heading = Stated(stated, "heading")
           \/ States(stated, "heading") /\ h.heading = {Fold(stated.heading)}
    BY <1>3, <1>4 DEF Fits
  <2>2. wind = aim.wind
    <3>1. The(h.altitude) = stated.altitude /\ h.altitude # {}
      BY <2>1 DEF The
    <3>2. aim.wind = WindAt(sim, stated.altitude)
      BY <1>4 DEF Steady
    <3> QED
      BY <3>1, <3>2
  <2>3. East(heading) = East(aim.facing) /\ North(heading) = North(aim.facing)
    <3>1. CASE States(stated, "heading")
      <4>1. stated.heading \in Int /\ aim.facing = Fold(stated.heading)
        BY <1>3, <3>1 DEF Steady, SetupTyped
      <4>2. heading = stated.heading \/ heading = Fold(stated.heading)
        BY <2>1, <3>1 DEF Stated, Else, The
      <4> QED
        BY <4>1, <4>2, FoldedCompass
    <3>2. CASE ~States(stated, "heading")
      <4>1. h.heading = {}
        BY <2>1, <3>2 DEF Stated
      <4>2. heading = sim[<<"psi", 0>>] /\ aim.facing = sim[<<"psi", 0>>]
        BY <4>1, <3>2 DEF Else, Steady
      <4> QED
        BY <4>2
    <3> QED
      BY <3>1, <3>2
  <2> HIDE DEF wind, heading
  <2> QED
    BY <2>1, <2>2, <2>3
<1> HIDE DEF vx, vy, vz
<1>5. States(stated, "lights") => \A switch \in DOMAIN stated.lights : switch \in Switches
  BY <1>3 DEF SetupTyped
<1>6. ASSUME NEW name \in {"vx", "vy", "vz"}, NEW v, name = "vx" => v = vx, name = "vy" => v = vy,
             name = "vz" => v = vz
      PROVE  Wants(aim, <<name, 0>>, v)
  <2> DEFINE ref == <<name, 0>>
  <2>1. /\ ref \notin {"gear", "nav1", "mode", "psi", "x", "y"} \X {0}
        /\ \A f \in Switches : ref # <<f, 0>>
        /\ \A i : ref # <<"tank", i>> /\ ref # <<"station", i>>
        /\ ref \in {"vx", "vy", "vz"} \X {0}
        /\ ref = <<"vx", 0>> => name = "vx"
        /\ ref = <<"vy", 0>> => name = "vy"
        /\ ref = <<"vz", 0>> => name = "vz"
    BY DEF Switches
  <2>2. Moving(stated) =>
           /\ ref = <<"vx", 0>> =>
                 v = aim.tas * East(aim.facing) - aim.wind.speed * East(aim.wind.direction)
           /\ ref = <<"vy", 0>> => v = Else(Stated(stated, "vertical"), 0)
           /\ ref = <<"vz", 0>> =>
                 v = aim.wind.speed * North(aim.wind.direction) - aim.tas * North(aim.facing)
    BY <1>4, <1>6, <2>1
  <2> HIDE DEF ref
  <2>3. Wants(aim, ref, v)
    BY <1>3, <1>5, <2>1, <2>2, WantsElse
  <2> QED
    BY <2>3 DEF ref
<1>7. Wants(aim, <<"vx", 0>>, vx) /\ Wants(aim, <<"vy", 0>>, vy) /\ Wants(aim, <<"vz", 0>>, vz)
  BY <1>6
<1>8. Spares(aim, <<"vx", 0>>) /\ Spares(aim, <<"vy", 0>>) /\ Spares(aim, <<"vz", 0>>)
  BY SparesIs DEF Arrays
<1>9. /\ Fits(aim, x) /\ ~Selects(x) /\ Touches(aim, x, <<"vx", 0>>)
      /\ Fits(aim, y) /\ ~Selects(y) /\ Touches(aim, y, <<"vy", 0>>)
      /\ Fits(aim, z) /\ ~Selects(z) /\ Touches(aim, z, <<"vz", 0>>)
  BY <1>7, <1>8, FitsAt, WriteTouches DEF Write
<1>10. \A ref : Touches(aim, h, ref) => ref \in {<<"vx", 0>>, <<"vy", 0>>, <<"vz", 0>>}
  BY DEF Touches
<1> HIDE DEF x, y, z
<1> QED
  BY <1>2, <1>9, <1>10

\* The one speed a setup asks for.
SpeedStep(mem, S) ==
    Velocity(AirspeedAt(mem, S.ias, Else(Stated(S, "altitude"), mem[<<"altitude", 0>>])),
             Stated(S, "heading"), Stated(S, "vertical"), Stated(S, "altitude"))

LEMMA SpeedIs ==
    ASSUME NEW mem, NEW S
    PROVE  /\ States(S, "ias") => ToSet(SpeedOf(mem, S)) = {SpeedStep(mem, S)}
           /\ ~States(S, "ias") => ToSet(SpeedOf(mem, S)) = {}
<1> DEFINE v == SpeedStep(mem, S)
<1>1. SpeedOf(mem, S) = IF States(S, "ias") THEN <<v>> ELSE <<>>
  BY DEF SpeedOf, SpeedStep
<1> HIDE DEF v
<1> QED
  BY <1>1, ListOne, ListEmpty DEF v

LEMMA FitsSpeed ==
    ASSUME NEW aim, NEW stated, Steady(aim, stated, sim), States(stated, "ias")
    PROVE  LET x == SpeedStep(sim, stated) IN
           /\ Fits(aim, x) /\ ~Selects(x)
           /\ \A ref \in {"vx", "vy", "vz"} \X {0} : Touches(aim, x, ref)
<1> DEFINE x == SpeedStep(sim, stated)
           k == AirspeedAt(sim, stated.ias, Else(Stated(stated, "altitude"), sim[<<"altitude", 0>>]))
<1>1. /\ x.do = "velocity" /\ x.tas = k /\ x.heading = Stated(stated, "heading")
      /\ x.vertical = Stated(stated, "vertical") /\ x.altitude = Stated(stated, "altitude")
  <2> HIDE DEF k
  <2> QED
    BY DEF SpeedStep, Velocity, k
<1>2. aim.setup = stated
  BY DEF Steady
<1>3. Moving(stated) => x.tas = aim.tas /\ x.altitude = {stated.altitude}
  <2> SUFFICES ASSUME Moving(stated) PROVE x.tas = aim.tas /\ x.altitude = {stated.altitude}
    OBVIOUS
  <2>1. States(stated, "altitude") /\ Stated(stated, "altitude") = {stated.altitude}
    BY DEF Moving, Stated
  <2>2. Else(Stated(stated, "altitude"), sim[<<"altitude", 0>>]) = stated.altitude
    BY <2>1 DEF Else, The
  <2>3. aim.tas = AirspeedAt(sim, stated.ias, stated.altitude)
    BY DEF Steady
  <2> QED
    BY <1>1, <2>1, <2>2, <2>3
<1> HIDE DEF x, k
<1>4. Fits(aim, x)
  BY <1>1, <1>2, <1>3 DEF Fits
<1> QED
  BY <1>1, <1>4 DEF Selects, Touches, x

LEMMA FitsHeading ==
    ASSUME NEW aim, SetupTyped(aim.setup), States(aim.setup, "heading"),
           aim.facing = Fold(aim.setup.heading)
    PROVE  Fits(aim, Write("psi", Fold(aim.setup.heading)))
<1> DEFINE ref == <<"psi", 0>>
           v == Fold(aim.setup.heading)
<1>1. /\ ref \notin {"gear", "nav1", "mode", "vx", "vy", "vz", "x", "y"} \X {0}
      /\ \A f \in Switches : ref # <<f, 0>>
      /\ \A i : ref # <<"tank", i>> /\ ref # <<"station", i>>
      /\ ref \in {"psi"} \X {0}
  BY DEF Switches
<1>2. States(aim.setup, "lights") => \A switch \in DOMAIN aim.setup.lights : ref # <<switch, 0>>
  BY <1>1 DEF SetupTyped
<1>3. Spares(aim, ref)
  BY DEF Spares, MassStated, Arrays
<1>4. v = aim.facing
  OBVIOUS
<1> HIDE DEF ref, v
<1>5. Wants(aim, ref, v)
  BY <1>1, <1>2, <1>4, WantsElse
<1> QED
  BY <1>3, <1>5, FitsAt DEF Write, ref, v

\* The parts of the flight model's state that are written at once.
LEMMA DirectIs ==
    ASSUME NEW S
    PROVE  /\ ToSet(DirectWrites(S)) =
                 ToSet(WriteIf(States(S, "heading"), "psi", Fold(S.heading)))
                 \cup ToSet(WriteIf(States(S, "pitch"), "theta", S.pitch))
                 \cup ToSet(WriteIf(States(S, "roll"), "phi", S.roll)) \cup ToSet(WriteOf(S, "vertical"))
<1> DEFINE s1 == WriteIf(States(S, "heading"), "psi", Fold(S.heading))
           s2 == WriteIf(States(S, "pitch"), "theta", S.pitch)
           s3 == WriteIf(States(S, "roll"), "phi", S.roll)
           s4 == WriteOf(S, "vertical")
<1>1. IsList(s1) /\ IsList(s2) /\ IsList(s3) /\ IsList(s4)
  BY ListIf, ListOfField
<1>2. DirectWrites(S) = s1 \o s2 \o s3 \o s4
  BY DEF DirectWrites
<1> HIDE DEF s1, s2, s3, s4
<1> QED
  BY <1>1, <1>2, ListJoin4 DEF s1, s2, s3, s4

LEMMA FlyExpand ==
    ASSUME NEW aim, NEW stated, Steady(aim, stated, sim), NEW h, Fits(aim, h), h.do = "fly"
    PROVE  /\ \A x \in ToSet(Expand(h)) : Fits(aim, x) /\ ~Selects(x)
           /\ \A ref : Touches(aim, h, ref) => \E x \in ToSet(Expand(h)) : Touches(aim, x, ref)
<1> DEFINE e == Expand(h)
           psi == WriteIf(States(stated, "heading"), "psi", Fold(stated.heading))
           theta == WriteIf(States(stated, "pitch"), "theta", stated.pitch)
           phi == WriteIf(States(stated, "roll"), "phi", stated.roll)
           v == WriteOf(stated, "vertical")
           a == WriteOf(stated, "altitude")
           s == SpeedOf(sim, stated)
           Good(set) == \A x \in set : Fits(aim, x) /\ ~Selects(x)
<1>1. aim.setup = stated /\ SetupTyped(stated) /\ h.setup = stated
  BY DEF Steady, Fits
<1>2. e = FlightModelWrites(sim, stated)
  BY <1>1 DEF Expand
<1>3. ToSet(e) = ToSet(psi) \cup ToSet(theta) \cup ToSet(phi) \cup ToSet(v) \cup ToSet(a) \cup ToSet(s)
  <2>1. ToSet(e) = ToSet(DirectWrites(stated)) \cup ToSet(a) \cup ToSet(s)
    BY <1>2, FlightIs
  <2>2. ToSet(DirectWrites(stated)) = ToSet(psi) \cup ToSet(theta) \cup ToSet(phi) \cup ToSet(v)
    BY DirectIs
  <2> HIDE DEF e, psi, theta, phi, v, a, s
  <2> QED
    BY <2>1, <2>2
<1>4. States(stated, "heading") =>
         LET x == Write("psi", Fold(stated.heading)) IN
         ToSet(psi) = {x} /\ Fits(aim, x) /\ ~Selects(x) /\ Touches(aim, x, <<"psi", 0>>)
  <2> SUFFICES ASSUME States(stated, "heading")
               PROVE  LET x == Write("psi", Fold(stated.heading)) IN
                      ToSet(psi) = {x} /\ Fits(aim, x) /\ ~Selects(x) /\ Touches(aim, x, <<"psi", 0>>)
    OBVIOUS
  <2>1. aim.facing = Fold(stated.heading)
    BY DEF Steady
  <2>2. Fits(aim, Write("psi", Fold(stated.heading)))
    BY <1>1, <2>1, FitsHeading
  <2> QED
    BY <2>2, ListIf, WriteTouches DEF Write
<1>5. ~States(stated, "heading") => ToSet(psi) = {}
  BY ListIf
<1>6. /\ Good(ToSet(theta)) /\ Good(ToSet(phi))
      /\ States(stated, "pitch") => \E x \in ToSet(theta) : Touches(aim, x, <<"theta", 0>>)
      /\ States(stated, "roll") => \E x \in ToSet(phi) : Touches(aim, x, <<"phi", 0>>)
  <2>1. \A w : /\ ~Selects(Write("theta", w)) /\ Touches(aim, Write("theta", w), <<"theta", 0>>)
               /\ ~Selects(Write("phi", w)) /\ Touches(aim, Write("phi", w), <<"phi", 0>>)
    BY WriteTouches DEF Write
  <2>2. /\ States(stated, "pitch") => Fits(aim, Write("theta", stated.pitch))
        /\ States(stated, "roll") => Fits(aim, Write("phi", stated.roll))
    BY <1>1, FitsOthers
  <2> QED
    BY <2>1, <2>2, ListIf
<1>7. ASSUME NEW f \in {"vertical", "altitude"}
      PROVE  /\ Good(ToSet(WriteOf(stated, f)))
             /\ States(stated, f) => \E x \in ToSet(WriteOf(stated, f)) : Touches(aim, x, <<f, 0>>)
  <2>1. f \in OwnName
    BY DEF OwnName
  <2>2. \A x \in ToSet(WriteOf(stated, f)) : Fits(aim, x)
    BY <1>1, <2>1, FitsOwn
  <2>3. ToSet(WriteOf(stated, f)) \subseteq {Write(f, stated[f])}
        /\ (States(stated, f) => Write(f, stated[f]) \in ToSet(WriteOf(stated, f)))
    BY ListOfField
  <2>4. ~Selects(Write(f, stated[f])) /\ Touches(aim, Write(f, stated[f]), <<f, 0>>)
    BY WriteTouches DEF Write
  <2> QED
    BY <2>2, <2>3, <2>4
<1>8. States(stated, "ias") =>
         /\ Good(ToSet(s))
         /\ \A ref \in {"vx", "vy", "vz"} \X {0} : \E x \in ToSet(s) : Touches(aim, x, ref)
  BY SpeedIs, FitsSpeed
<1>9. ~States(stated, "ias") => ToSet(s) = {}
  BY SpeedIs
<1>10. \A ref : Touches(aim, h, ref) =>
          \/ States(stated, "heading") /\ ref = <<"psi", 0>>
          \/ States(stated, "vertical") /\ ref = <<"vertical", 0>>
          \/ States(stated, "altitude") /\ ref = <<"altitude", 0>>
          \/ States(stated, "ias") /\ ref \in {"vx", "vy", "vz"} \X {0}
          \/ States(stated, "pitch") /\ ref = <<"theta", 0>>
          \/ States(stated, "roll") /\ ref = <<"phi", 0>>
  BY <1>1 DEF Touches
<1>11. Good(ToSet(v)) /\ Good(ToSet(a)) /\ Good(ToSet(psi)) /\ Good(ToSet(s))
  <2> HIDE DEF v, a, psi, s
  <2>1. Good(ToSet(v)) /\ Good(ToSet(a))
    BY <1>7 DEF v, a
  <2>2. Good(ToSet(psi))
    BY <1>4, <1>5
  <2>3. Good(ToSet(s))
    BY <1>8, <1>9
  <2> QED
    BY <2>1, <2>2, <2>3
<1>12. ASSUME NEW ref, Touches(aim, h, ref) PROVE \E x \in ToSet(e) : Touches(aim, x, ref)
  <2>1. CASE States(stated, "heading") /\ ref = <<"psi", 0>>
    BY <1>3, <1>4, <2>1
  <2>2. CASE States(stated, "vertical") /\ ref = <<"vertical", 0>>
    <3>1. \E x \in ToSet(v) : Touches(aim, x, <<"vertical", 0>>)
      BY <1>7, <2>2
    <3> HIDE DEF v, e
    <3> QED
      BY <1>3, <2>2, <3>1
  <2>3. CASE States(stated, "altitude") /\ ref = <<"altitude", 0>>
    <3>1. \E x \in ToSet(a) : Touches(aim, x, <<"altitude", 0>>)
      BY <1>7, <2>3
    <3> HIDE DEF a, e
    <3> QED
      BY <1>3, <2>3, <3>1
  <2>4. CASE States(stated, "ias") /\ ref \in {"vx", "vy", "vz"} \X {0}
    <3> HIDE DEF s, e
    <3> QED
      BY <1>3, <1>8, <2>4
  <2>5. CASE \/ States(stated, "pitch") /\ ref = <<"theta", 0>>
             \/ States(stated, "roll") /\ ref = <<"phi", 0>>
    <3> HIDE DEF theta, phi, e
    <3> QED
      BY <1>3, <1>6, <2>5
  <2> QED
    BY <1>10, <1>12, <2>1, <2>2, <2>3, <2>4, <2>5
<1> HIDE DEF e, psi, theta, phi, v, a, s
<1> QED
  BY <1>3, <1>6, <1>11, <1>12 DEF e

LEMMA FitsPlace ==
    ASSUME NEW aim, SetupTyped(aim.setup), NEW name \in {"x", "y"}, NEW v,
           name = "x" => v = aim.at.x, name = "y" => v = aim.at.y
    PROVE  Fits(aim, Write(name, v))
<1> DEFINE ref == <<name, 0>>
<1>1. /\ ref \notin {"gear", "nav1", "mode", "psi", "vx", "vy", "vz"} \X {0}
      /\ \A f \in Switches : ref # <<f, 0>>
      /\ \A i : ref # <<"tank", i>> /\ ref # <<"station", i>>
      /\ ref \in {"x", "y"} \X {0}
      /\ ref = <<"x", 0>> => name = "x"
      /\ ref = <<"y", 0>> => name = "y"
  BY DEF Switches
<1>2. States(aim.setup, "lights") => \A switch \in DOMAIN aim.setup.lights : ref # <<switch, 0>>
  BY <1>1 DEF SetupTyped
<1>3. Spares(aim, ref)
  BY SparesIs DEF Arrays
<1> HIDE DEF ref
<1>4. Wants(aim, ref, v)
  BY <1>1, <1>2, WantsElse
<1> QED
  BY <1>3, <1>4, FitsAt DEF Write, ref

LEMMA TeleportExpand ==
    ASSUME NEW aim, NEW stated, Steady(aim, stated, sim), NEW h, Fits(aim, h), h.do = "teleport"
    PROVE  /\ \A x \in ToSet(Expand(h)) : Fits(aim, x) /\ ~Selects(x)
           /\ \A ref : Touches(aim, h, ref) => \E x \in ToSet(Expand(h)) : Touches(aim, x, ref)
<1> DEFINE p == Point(aim.at.x, aim.at.y, stated.altitude)
           k == AirspeedAt(sim, stated.ias, stated.altitude)
           g == Fold(stated.heading)
           x == Write("x", aim.at.x)
           y == Write("y", aim.at.y)
           a == Write("altitude", stated["altitude"])
           v == Velocity(k, {g}, Stated(stated, "vertical"), {stated.altitude})
           z == Write("psi", g)
<1>1. aim.setup = stated /\ SetupTyped(stated)
  BY DEF Steady
<1>2. /\ aim.placed /\ Moving(stated) /\ States(stated, "heading")
      /\ h.position = p /\ h.heading = g /\ h.ias = stated.ias
      /\ h.vertical = Stated(stated, "vertical")
  BY <1>1 DEF Fits
<1>3. p.x = aim.at.x /\ p.y = aim.at.y /\ p.altitude = stated.altitude
  BY DEF Point
<1>4. Fold(h.heading) = g
  BY <1>1, <1>2, FoldIs DEF SetupTyped
<1>5. ToSet(Expand(h)) = {x, a, y, v, z}
  <2>1. Expand(h) = TeleportWrites(sim, h)
    BY DEF Expand
  <2>2. ToSet(TeleportWrites(sim, h)) =
           {Write("x", h.position.x), Write("altitude", h.position.altitude), Write("y", h.position.y),
            Velocity(AirspeedAt(sim, h.ias, h.position.altitude), {h.heading}, h.vertical,
                     {h.position.altitude}),
            Write("psi", Fold(h.heading))}
    BY ArrivalIs
  <2> HIDE DEF p, g
  <2> QED
    BY <2>1, <2>2, <1>2, <1>3, <1>4
<1>6. Fits(aim, x) /\ Fits(aim, y)
  BY <1>1, FitsPlace
<1>7. Fits(aim, a)
  <2>1. "altitude" \in OwnName
    BY DEF OwnName
  <2>2. a \in ToSet(WriteOf(stated, "altitude"))
    BY <1>2, ListOfField DEF Moving
  <2> QED
    BY <1>1, <2>1, <2>2, FitsOwn
<1>8. Fits(aim, z)
  <2>1. aim.facing = g
    BY <1>2 DEF Steady
  <2> QED
    BY <1>1, <1>2, <2>1, FitsHeading
<1>9. Fits(aim, v) /\ ~Selects(v)
  <2>1. /\ v.do = "velocity" /\ v.tas = k /\ v.heading = {g}
        /\ v.vertical = Stated(stated, "vertical") /\ v.altitude = {stated.altitude}
    <3> HIDE DEF k, g
    <3> QED
      BY DEF Velocity
  <2>2. aim.tas = k
    BY <1>2 DEF Steady
  <2> HIDE DEF v, k
  <2> QED
    BY <1>1, <1>2, <2>1, <2>2 DEF Fits, Selects
<1>10. /\ ~Selects(x) /\ ~Selects(y) /\ ~Selects(a) /\ ~Selects(z)
       /\ Touches(aim, x, <<"x", 0>>) /\ Touches(aim, y, <<"y", 0>>)
  BY WriteTouches DEF Write
<1>11. \A ref : Touches(aim, h, ref) => ref \in {<<"x", 0>>, <<"y", 0>>}
  BY DEF Touches
<1> HIDE DEF x, y, a, v, z
<1> QED
  BY <1>5, <1>6, <1>7, <1>8, <1>9, <1>10, <1>11

\* A step that reads becomes steps that fit, which do what it was to do.
LEMMA ExpandFits ==
    ASSUME SimOK, NEW aim, NEW stated, Steady(aim, stated, sim), NEW h, Proper(h), Fits(aim, h),
           h.do # "write"
    PROVE  /\ IsList(Expand(h))
           /\ \A x \in ToSet(Expand(h)) : Fits(aim, x) /\ ~Selects(x)
           /\ \A ref : Touches(aim, h, ref) => \E x \in ToSet(Expand(h)) : Touches(aim, x, ref)
<1>1. h.do \in {"masses", "mode", "fly", "teleport", "velocity"}
  BY DEF Fits
<1>2. IsList(Expand(h))
  BY <1>1, ExpandPlain DEF Plain
<1>3. aim.setup = stated /\ SetupTyped(aim.setup) /\ aim.tanks = sim[<<"tanks", 0>>]
  BY DEF Steady
<1> QED
  BY <1>1, <1>2, <1>3, MassesExpand, ModeExpand, FlyExpand, TeleportExpand, VelocityExpand

-----------------------------------------------------------------------------
(* The order of the lateral selections                                     *)

ChoosesApproach(steps) ==
    \E k \in DOMAIN steps : /\ Selects(steps[k]) /\ steps[k].value = 3
                            /\ \A j \in DOMAIN steps : j > k => ~Selects(steps[j])

\* What comes before a choice does not matter; what follows may not select.
LEMMA ChosenLast ==
    ASSUME NEW a, NEW t, IsList(a), IsList(t), ChoosesApproach(t)
    PROVE  ChoosesApproach(a \o t)
<1> DEFINE s == a \o t
<1>1. /\ IsList(s) /\ Len(s) = Len(a) + Len(t) /\ DOMAIN s = 1 .. Len(s)
      /\ Len(a) \in Nat /\ Len(t) \in Nat /\ DOMAIN t = 1 .. Len(t)
      /\ \A i \in 1 .. Len(t) : s[Len(a) + i] = t[i]
      /\ \A i \in 1 .. Len(a) + Len(t) : i > Len(a) =>
            i - Len(a) \in 1 .. Len(t) /\ s[i] = t[i - Len(a)]
  BY ListJoin, ListFacts
<1>2. PICK k \in DOMAIN t : /\ Selects(t[k]) /\ t[k].value = 3
                            /\ \A j \in DOMAIN t : j > k => ~Selects(t[j])
  BY DEF ChoosesApproach
<1> HIDE DEF s
<1>3. Len(a) + k \in DOMAIN s /\ s[Len(a) + k] = t[k]
  BY <1>1, <1>2
<1>4. ASSUME NEW j \in DOMAIN s, j > Len(a) + k PROVE ~Selects(s[j])
  <2>1. j \in 1 .. Len(a) + Len(t) /\ j > Len(a)
    BY <1>1, <1>2, <1>4
  <2>2. j - Len(a) \in 1 .. Len(t) /\ s[j] = t[j - Len(a)] /\ j - Len(a) > k
    BY <1>1, <1>2, <1>4, <2>1
  <2> QED
    BY <1>1, <1>2, <2>2
<1> QED
  BY <1>2, <1>3, <1>4 DEF ChoosesApproach, s

LEMMA ChosenFirst ==
    ASSUME NEW a, NEW t, IsList(a), IsList(t), ChoosesApproach(a), \A x \in ToSet(t) : ~Selects(x)
    PROVE  ChoosesApproach(a \o t)
<1> DEFINE s == a \o t
<1>1. /\ IsList(s) /\ Len(s) = Len(a) + Len(t) /\ DOMAIN s = 1 .. Len(s)
      /\ Len(a) \in Nat /\ Len(t) \in Nat /\ DOMAIN a = 1 .. Len(a)
      /\ \A i \in 1 .. Len(a) : s[i] = a[i]
      /\ \A i \in 1 .. Len(a) + Len(t) : i > Len(a) =>
            i - Len(a) \in 1 .. Len(t) /\ s[i] = t[i - Len(a)]
      /\ \A i \in 1 .. Len(t) : t[i] \in ToSet(t)
  BY ListJoin, ListFacts
<1>2. PICK k \in DOMAIN a : /\ Selects(a[k]) /\ a[k].value = 3
                            /\ \A j \in DOMAIN a : j > k => ~Selects(a[j])
  BY DEF ChoosesApproach
<1> HIDE DEF s
<1>3. k \in DOMAIN s /\ s[k] = a[k]
  BY <1>1, <1>2
<1>4. ASSUME NEW j \in DOMAIN s, j > k PROVE ~Selects(s[j])
  <2>1. CASE j <= Len(a)
    BY <1>1, <1>2, <1>4, <2>1
  <2>2. CASE j > Len(a)
    <3>1. s[j] \in ToSet(t)
      BY <1>1, <2>2
    <3> QED
      BY <3>1
  <2> QED
    BY <1>1, <2>1, <2>2
<1> QED
  BY <1>2, <1>3, <1>4 DEF ChoosesApproach, s

LEMMA SelectedTwice == \A m : Selects(Write("lateral", m)) /\ Write("lateral", m).value = m
BY DEF Selects, Write, WriteAt

LEMMA LateralChooses ==
    ASSUME NEW S, States(S, "approach_mode"), S.approach_mode = TRUE
    PROVE  ChoosesApproach(LateralSteps(S))
<1> DEFINE a == SelectedMode(S, 1) \o SelectedMode(S, 2)
           m == SelectedMode(S, 3)
           l == WingsLevel(S)
           w == Write("lateral", 3)
<1>1. Stated(S, LateralModes[3]) = {TRUE}
  BY DEF LateralModes, Stated, States
<1>2. m = <<w>>
  BY <1>1 DEF SelectedMode, WriteIf
<1>3. ~Levelled(S)
  <2> SUFFICES ASSUME Levelled(S) PROVE FALSE
    OBVIOUS
  <2>1. \A k \in 1 .. 3 : Stated(S, LateralModes[k]) # {TRUE}
    BY DEF Levelled
  <2>2. 3 \in 1 .. 3
    OBVIOUS
  <2> QED
    BY <1>1, <2>1, <2>2
<1>4. /\ LateralSteps(S) = a \o m \o l
      /\ IsList(SelectedMode(S, 1)) /\ IsList(SelectedMode(S, 2)) /\ IsList(l) /\ ToSet(l) = {}
  BY <1>3, LateralIs
<1>5. IsList(a)
  BY <1>4, ListJoin
<1>6. Selects(w) /\ w.value = 3
  BY SelectedTwice
<1> HIDE DEF a, l, w
<1>7. IsList(<<w>>) /\ DOMAIN <<w>> = {1} /\ <<w>>[1] = w
  BY ListOne
<1>8. ChoosesApproach(<<w>>)
  BY <1>6, <1>7 DEF ChoosesApproach
<1>9. IsList(a \o m) /\ ChoosesApproach(a \o m)
  BY <1>2, <1>5, <1>7, <1>8, ChosenLast, ListJoin
<1> QED
  BY <1>4, <1>9, ChosenFirst

\* Steps that write no lateral mode.
LEMMA NoSelection ==
    ASSUME NEW name, name # "lateral", NEW i, NEW v PROVE ~Selects(WriteAt(name, i, v))
BY DEF Selects, WriteAt

LEMMA SetupChooses ==
    ASSUME NEW S, States(S, "approach_mode"), S.approach_mode = TRUE
    PROVE  ChoosesApproach(SetupSteps(S))
<1> DEFINE s1 == ModeOf(S)
           s2 == LateralSteps(S)
           s3 == WriteOf(S, "target_altitude")
           s4 == TargetIasOf(S)
           s5 == HeadingOf(S)
           s6 == WriteOf(S, "target_vertical")
           Free(s) == \A x \in ToSet(s) : ~Selects(x)
<1>1. AutopilotSteps(S) = s1 \o s2 \o s3 \o s4 \o s5 \o s6
  BY DEF AutopilotSteps, ModeOf, TargetIasOf, HeadingOf
<1>2. IsList(s1) /\ IsList(s2) /\ IsList(s3) /\ IsList(s4) /\ IsList(s5) /\ IsList(s6)
  BY ModeIs, LateralIs, ListOfField, TargetIasIs, ListIf DEF HeadingOf
<1>3. \A name, v : name # "lateral" => ~Selects(Write(name, v))
  BY NoSelection DEF Write
<1>4. Free(s3) /\ Free(s5) /\ Free(s6)
  BY <1>3, ListOfField, ListIf DEF HeadingOf
<1>5. Free(s4)
  BY <1>3, TargetIasIs
<1>6. ChoosesApproach(s2)
  BY LateralChooses
<1> HIDE DEF s1, s2, s3, s4, s5, s6
<1> DEFINE a == s1 \o s2
           b == a \o s3
           d == b \o s4
           e == d \o s5
           f == e \o s6
<1>7. IsList(a) /\ ChoosesApproach(a)
  BY <1>2, <1>6, ListJoin, ChosenLast
<1> HIDE DEF a
<1>8. IsList(b) /\ ChoosesApproach(b)
  BY <1>2, <1>4, <1>7, ListJoin, ChosenFirst
<1> HIDE DEF b
<1>9. IsList(d) /\ ChoosesApproach(d)
  BY <1>2, <1>5, <1>8, ListJoin, ChosenFirst
<1> HIDE DEF d
<1>10. IsList(e) /\ ChoosesApproach(e)
  BY <1>2, <1>4, <1>9, ListJoin, ChosenFirst
<1> HIDE DEF e
<1>11. IsList(f) /\ ChoosesApproach(f)
  BY <1>2, <1>4, <1>10, ListJoin, ChosenFirst
<1>12. AutopilotSteps(S) = f
  BY <1>1 DEF a, b, d, e
<1> HIDE DEF f
<1>13. IsList(ConfigurationSteps(S)) /\ IsList(FlightModelSteps(S))
       /\ ToSet(FlightModelSteps(S)) = {FlyStep(S)}
  BY SetupIs
<1>14. ~Selects(FlyStep(S))
  BY DEF Selects, FlyStep
<1> DEFINE g == ConfigurationSteps(S) \o AutopilotSteps(S)
<1>15. IsList(g) /\ ChoosesApproach(g)
  BY <1>11, <1>12, <1>13, ListJoin, ChosenLast
<1>16. SetupSteps(S) = g \o FlightModelSteps(S)
  BY DEF SetupSteps
<1> HIDE DEF g
<1> QED
  BY <1>13, <1>14, <1>15, <1>16, ChosenFirst

\* A step that is over: if it was no selection, the order is as it was, and if it
\* was one, what it selected is the last selection so far.
LEMMA ApproachTail ==
    ASSUME NEW mem, NEW new, NEW steps, IsList(steps), steps # <<>>, ApproachIsLast(mem, steps),
           Selects(Head(steps)) => new[<<"lateral", 0>>] = Head(steps).value,
           ~Selects(Head(steps)) => new[<<"lateral", 0>>] = mem[<<"lateral", 0>>]
    PROVE  ApproachIsLast(new, Tail(steps))
<1> DEFINE t == Tail(steps)
           h == Head(steps)
<1>1. /\ h = steps[1] /\ Len(steps) \in Nat /\ Len(steps) >= 1 /\ Len(t) = Len(steps) - 1
      /\ \A i \in 1 .. Len(steps) - 1 : t[i] = steps[i + 1]
      /\ DOMAIN steps = 1 .. Len(steps) /\ DOMAIN t = 1 .. Len(t)
  BY ListHead, ListFacts
<1>2. Selects(h) => new[<<"lateral", 0>>] = h.value
  OBVIOUS
<1>3. ~Selects(h) => new[<<"lateral", 0>>] = mem[<<"lateral", 0>>]
  OBVIOUS
<1> HIDE DEF t, h
<1>4. \A i \in DOMAIN t : i + 1 \in DOMAIN steps /\ t[i] = steps[i + 1]
  BY <1>1
<1>5. ASSUME mem[<<"lateral", 0>>] = 3, \A k \in DOMAIN steps : ~Selects(steps[k])
      PROVE  ApproachIsLast(new, t)
  <2>1. ~Selects(h)
    BY <1>1, <1>5
  <2>2. \A i \in DOMAIN t : ~Selects(t[i])
    BY <1>4, <1>5
  <2> QED
    BY <1>3, <1>5, <2>1, <2>2 DEF ApproachIsLast
<1>6. ASSUME NEW k \in DOMAIN steps, Selects(steps[k]), steps[k].value = 3,
             \A j \in DOMAIN steps : j > k => ~Selects(steps[j])
      PROVE  ApproachIsLast(new, t)
  <2>1. CASE k = 1
    <3>1. \A i \in DOMAIN t : ~Selects(t[i])
      <4> SUFFICES ASSUME NEW i \in DOMAIN t PROVE ~Selects(t[i])
        OBVIOUS
      <4>1. i + 1 > k
        BY <1>1, <2>1
      <4> QED
        BY <4>1, <1>4, <1>6
    <3>2. new[<<"lateral", 0>>] = 3
      BY <1>1, <1>2, <1>6, <2>1
    <3> QED
      BY <3>1, <3>2 DEF ApproachIsLast
  <2>2. CASE k # 1
    <3>1. k - 1 \in DOMAIN t /\ t[k - 1] = steps[k]
      <4>1. k - 1 \in 1 .. Len(steps) - 1 /\ (k - 1) + 1 = k
        BY <1>1, <2>2
      <4> QED
        BY <4>1, <1>1
    <3>2. ASSUME NEW i \in DOMAIN t, i > k - 1 PROVE ~Selects(t[i])
      <4>1. i + 1 > k
        BY <1>1, <3>2
      <4> QED
        BY <4>1, <1>4, <1>6
    <3> QED
      BY <1>6, <3>1, <3>2 DEF ApproachIsLast
  <2> QED
    BY <2>1, <2>2
<1>7. ApproachIsLast(new, t)
  BY <1>5, <1>6 DEF ApproachIsLast
<1> QED
  BY <1>7 DEF t

LEMMA ApproachBefore ==
    ASSUME NEW mem, NEW a, NEW t, IsList(a), IsList(t), ApproachIsLast(mem, t),
           \A x \in ToSet(a) : ~Selects(x)
    PROVE  ApproachIsLast(mem, a \o t)
<1> DEFINE s == a \o t
<1>1. ASSUME ChoosesApproach(t) PROVE ApproachIsLast(mem, s)
  <2>1. ChoosesApproach(s)
    BY <1>1, ChosenLast
  <2> HIDE DEF s
  <2> QED
    BY <2>1 DEF ChoosesApproach, ApproachIsLast
<1>2. ASSUME mem[<<"lateral", 0>>] = 3, \A k \in DOMAIN t : ~Selects(t[k])
      PROVE  ApproachIsLast(mem, s)
  <2>1. /\ IsList(s) /\ ToSet(s) = ToSet(a) \cup ToSet(t)
        /\ \A k \in DOMAIN s : s[k] \in ToSet(s)
        /\ \A x \in ToSet(t) : \E k \in DOMAIN t : t[k] = x
    BY ListJoin, ListFacts
  <2> HIDE DEF s
  <2>2. \A k \in DOMAIN s : ~Selects(s[k])
    BY <1>2, <2>1
  <2> QED
    BY <1>2, <2>2 DEF ApproachIsLast
<1> QED
  BY <1>1, <1>2 DEF ApproachIsLast, ChoosesApproach

-----------------------------------------------------------------------------
(* An undisturbed request stays on its course                              *)

\* A write leaves what it wrote as the aim wants it, and the aim as it was.
LEMMA WriteOnCourse ==
    ASSUME SimOK, NEW aim, NEW steps, IsList(steps), steps # <<>>, OnCourse(aim, sim, steps),
           Proper(Head(steps)), Head(steps).do = "write"
    PROVE  OnCourse(aim, SimAfter(Head(steps)), Tail(steps))
<1> DEFINE h == Head(steps)
           t == Tail(steps)
           new == SimAfter(h)
<1>1. /\ h \in ToSet(steps) /\ ToSet(t) \subseteq ToSet(steps) /\ IsList(t)
      /\ ToSet(steps) \subseteq {h} \cup ToSet(t)
  BY ListHead
<1>2. h.ref \in Datarefs
  BY DEF Proper
<1>3. Fits(aim, h) /\ SetupTyped(aim.setup)
  BY <1>1 DEF OnCourse
<1>4. Wants(aim, h.ref, h.value) /\ h.ref # <<"change", 0>>
  BY <1>3 DEF Fits, Spares
<1>5. /\ new[h.ref] = h.value /\ h.ref \in DOMAIN sim
      /\ \A ref \in DOMAIN sim : ref # h.ref => new[ref] = sim[ref]
  BY <1>2, <1>4, SimAfterIs
<1>6. h.do = "write"
  OBVIOUS
<1> HIDE DEF h, t, new
<1>7. \A ref \in Aimed(aim) : ref \in DOMAIN sim
  BY SimAssumption DEF Aimed, SimOK
<1>8. ASSUME NEW ref \in Aimed(aim)
      PROVE  Wants(aim, ref, new[ref]) \/ \E step \in ToSet(t) : Touches(aim, step, ref)
  <2>1. CASE ref = h.ref
    BY <1>4, <1>5, <2>1
  <2>2. CASE ref # h.ref
    <3>1. new[ref] = sim[ref]
      BY <1>5, <1>7, <2>2
    <3>2. ~Touches(aim, h, ref)
      BY <1>6, <2>2 DEF Touches
    <3> QED
      BY <1>1, <3>1, <3>2 DEF OnCourse
  <2> QED
    BY <2>1, <2>2
<1>9. ApproachIsLast(sim, steps) => ApproachIsLast(new, t)
  <2>1. Selects(h) => new[<<"lateral", 0>>] = h.value
    BY <1>5 DEF Selects
  <2>2. <<"lateral", 0>> \in DOMAIN sim
    BY SimAssumption DEF SimOK, Datarefs, Scalars
  <2>3. ~Selects(h) => new[<<"lateral", 0>>] = sim[<<"lateral", 0>>]
    BY <1>5, <1>6, <2>2 DEF Selects
  <2> QED
    BY <2>1, <2>3, ApproachTail DEF h, t
<1>10. \A step \in ToSet(t) : Fits(aim, step)
  BY <1>1 DEF OnCourse
<1>11. States(aim.setup, "approach_mode") => (aim.setup.approach_mode => ApproachIsLast(new, t))
  BY <1>9 DEF OnCourse
<1>12. OnCourse(aim, new, t)
  BY <1>3, <1>8, <1>10, <1>11 DEF OnCourse
<1> QED
  BY <1>12 DEF h, t, new

\* A reading becomes steps that do what it was to do.
LEMMA ReadOnCourse ==
    ASSUME SimOK, NEW aim, NEW stated, Steady(aim, stated, sim), NEW steps, IsList(steps),
           steps # <<>>, OnCourse(aim, sim, steps), Proper(Head(steps)), Head(steps).do # "write"
    PROVE  OnCourse(aim, sim, Expand(Head(steps)) \o Tail(steps))
<1> DEFINE h == Head(steps)
           t == Tail(steps)
           e == Expand(h)
<1>1. /\ h \in ToSet(steps) /\ ToSet(t) \subseteq ToSet(steps) /\ IsList(t)
      /\ ToSet(steps) \subseteq {h} \cup ToSet(t)
  BY ListHead
<1>2. Fits(aim, h) /\ SetupTyped(aim.setup)
  BY <1>1 DEF OnCourse
<1>3. /\ IsList(e) /\ \A x \in ToSet(e) : Fits(aim, x) /\ ~Selects(x)
      /\ \A ref : Touches(aim, h, ref) => \E x \in ToSet(e) : Touches(aim, x, ref)
  <2>1. Proper(h) /\ h.do # "write"
    OBVIOUS
  <2> HIDE DEF h
  <2> QED
    BY <1>2, <2>1, ExpandFits
<1>4. ~Selects(h)
  BY DEF Selects
<1> HIDE DEF h, t, e
<1>5. IsList(e \o t) /\ ToSet(e \o t) = ToSet(e) \cup ToSet(t)
  BY <1>1, <1>3, ListJoin
<1>6. ApproachIsLast(sim, steps) => ApproachIsLast(sim, e \o t)
  <2> SUFFICES ASSUME ApproachIsLast(sim, steps) PROVE ApproachIsLast(sim, e \o t)
    OBVIOUS
  <2>1. ApproachIsLast(sim, t)
    BY <1>4, ApproachTail DEF h, t
  <2> QED
    BY <1>1, <1>3, <2>1, ApproachBefore
<1>7. \A x \in ToSet(e \o t) : Fits(aim, x)
  BY <1>1, <1>3, <1>5 DEF OnCourse
<1>8. ASSUME NEW ref \in Aimed(aim)
      PROVE  Wants(aim, ref, sim[ref]) \/ \E step \in ToSet(e \o t) : Touches(aim, step, ref)
  BY <1>1, <1>3, <1>5 DEF OnCourse
<1>9. OnCourse(aim, sim, e \o t)
  BY <1>2, <1>6, <1>7, <1>8 DEF OnCourse
<1> QED
  BY <1>9 DEF h, t, e

-----------------------------------------------------------------------------
(* What a request that writes sets out to do is its course                 *)

\* What a setup's steps hold, field by field.
LEMMA SetupHolds ==
    ASSUME NEW S, SetupTyped(S)
    PROVE  LET T == ToSet(SetupSteps(S)) IN
           /\ \A f \in OwnName \ {"vertical", "altitude"} : States(S, f) => Write(f, S[f]) \in T
           /\ States(S, "gear") => Write("gear", Number(S.gear)) \in T
           /\ States(S, "nav1") \/ States(S, "ils") => \E v : Write("nav1", v) \in T
           /\ States(S, "lights") => \A name \in DOMAIN S.lights : \E v : Write(name, v) \in T
           /\ \A name \in Arrays : Loads(S, name) => Masses(name, Loaded(S, name)) \in T
           /\ States(S, "nav2") => \E v : Write("nav2", v) \in T
           /\ States(S, "target_heading") => \E v : Write("target_heading", v) \in T
           /\ States(S, "master") \/ States(S, "director") => \E x \in T : x.do = "mode"
           /\ FlyStep(S) \in T
<1> DEFINE T == ToSet(SetupSteps(S))
<1>1. /\ FlyStep(S) \in T
      /\ ToSet(ConfigurationSteps(S)) \subseteq T /\ ToSet(AutopilotSteps(S)) \subseteq T
  BY SetupIs
<1>2. /\ ToSet(WriteOf(S, "flaps")) \subseteq T /\ ToSet(WriteOf(S, "speedbrake")) \subseteq T
      /\ ToSet(WriteOf(S, "trim")) \subseteq T /\ ToSet(WriteOf(S, "throttle")) \subseteq T
      /\ ToSet(WriteOf(S, "autobrake")) \subseteq T
      /\ ToSet(WriteOf(S, "obs1")) \subseteq T /\ ToSet(WriteOf(S, "obs2")) \subseteq T
  BY <1>1, ConfigurationIs
<1>3. /\ ToSet(GearOf(S)) \subseteq T /\ ToSet(Nav1Of(S)) \subseteq T
      /\ ToSet(LightsOf(S)) \subseteq T /\ ToSet(MassesOf(S)) \subseteq T
      /\ ToSet(Nav2Of(S)) \subseteq T
  BY <1>1, ConfigurationIs
<1>4. /\ ToSet(ModeOf(S)) \subseteq T /\ ToSet(TargetIasOf(S)) \subseteq T
      /\ ToSet(WriteOf(S, "target_altitude")) \subseteq T
      /\ ToSet(WriteOf(S, "target_vertical")) \subseteq T /\ ToSet(HeadingOf(S)) \subseteq T
  BY <1>1, AutopilotIs
<1> HIDE DEF T
<1>5. States(S, "target_ias") => Write("target_ias", S["target_ias"]) \in T
  BY <1>4, TargetIasIs
<1>6. \A f \in OwnName \ {"vertical", "altitude"} : States(S, f) => Write(f, S[f]) \in T
  <2> SUFFICES ASSUME NEW f \in OwnName \ {"vertical", "altitude"}, States(S, f)
               PROVE  Write(f, S[f]) \in T
    OBVIOUS
  <2>1. CASE f = "target_ias"
    BY <1>5, <2>1
  <2>2. CASE f # "target_ias"
    <3>1. ToSet(WriteOf(S, f)) \subseteq T
      BY <1>2, <1>4, <2>2 DEF OwnName
    <3> QED
      BY <3>1, ListOfField
  <2> QED
    BY <2>1, <2>2
<1>7. States(S, "gear") => Write("gear", Number(S.gear)) \in T
  BY <1>3, ListIf DEF GearOf
<1>8. States(S, "nav1") \/ States(S, "ils") => \E v : Write("nav1", v) \in T
  BY <1>3, Nav1Is
<1>9. States(S, "lights") => \A name \in DOMAIN S.lights : \E v : Write(name, v) \in T
  <2> SUFFICES ASSUME States(S, "lights"), NEW name \in DOMAIN S.lights
               PROVE  \E v : Write(name, v) \in T
    OBVIOUS
  <2>1. name \in Switches /\ States(S.lights, name)
    BY DEF SetupTyped, States
  <2>2. ToSet(SwitchOf(S.lights, name)) = {Write(name, Number(S.lights[name]))}
    BY <2>1, SwitchesAre
  <2>3. ToSet(SwitchOf(S.lights, name)) \subseteq ToSet(SwitchWrites(S.lights))
    BY <2>1, SwitchesAre DEF Switches
  <2>4. ToSet(SwitchWrites(S.lights)) \subseteq T
    BY <1>3, LightsAre
  <2> QED
    BY <2>2, <2>3, <2>4
<1>10. /\ \A name \in Arrays : Loads(S, name) => Masses(name, Loaded(S, name)) \in T
       /\ States(S, "nav2") => \E v : Write("nav2", v) \in T
       /\ States(S, "target_heading") => \E v : Write("target_heading", v) \in T
  <2>1. \A name \in Arrays : Loads(S, name) => Masses(name, Loaded(S, name)) \in T
    BY <1>3, MassesAre
  <2>2. /\ States(S, "nav2") => Write("nav2", S.nav2 \div 10) \in T
        /\ States(S, "target_heading") => Write("target_heading", Fold(S.target_heading)) \in T
    BY <1>3, <1>4, ListIf DEF Nav2Of, HeadingOf
  <2> QED
    BY <2>1, <2>2
<1>11. States(S, "master") \/ States(S, "director") => \E x \in T : x.do = "mode"
  <2> DEFINE w == [do |-> "mode", director |-> Stated(S, "director"), master |-> Stated(S, "master")]
  <2>1. w.do = "mode"
    OBVIOUS
  <2>2. States(S, "master") \/ States(S, "director") => w \in T
    BY <1>4, ModeIs
  <2> QED
    BY <2>1, <2>2
<1> QED
  BY <1>1, <1>6, <1>7, <1>8, <1>9, <1>10, <1>11 DEF T

\* A dataref no step touches is one nothing is wanted of.
LEMMA UntouchedIsFree ==
    ASSUME NEW aim, SetupTyped(aim.setup), NEW T, ToSet(SetupSteps(aim.setup)) \subseteq T,
           aim.placed => \E x \in T : x.do = "teleport",
           NEW ref \in Aimed(aim), \A x \in T : ~Touches(aim, x, ref), NEW value
    PROVE  Wants(aim, ref, value)
<1> DEFINE S == aim.setup
           H == ToSet(SetupSteps(S))
<1>1. /\ \A f \in OwnName \ {"vertical", "altitude"} : States(S, f) => Write(f, S[f]) \in H
      /\ States(S, "gear") => Write("gear", Number(S.gear)) \in H
      /\ States(S, "nav1") \/ States(S, "ils") => \E v : Write("nav1", v) \in H
      /\ States(S, "lights") => \A name \in DOMAIN S.lights : \E v : Write(name, v) \in H
      /\ \A name \in Arrays : Loads(S, name) => Masses(name, Loaded(S, name)) \in H
      /\ States(S, "nav2") => \E v : Write("nav2", v) \in H
      /\ States(S, "target_heading") => \E v : Write("target_heading", v) \in H
      /\ States(S, "master") \/ States(S, "director") => \E x \in H : x.do = "mode"
      /\ FlyStep(S) \in H
  BY SetupHolds
<1>2. H \subseteq T
  OBVIOUS
<1>3. SetupTyped(S)
  OBVIOUS
<1>4. \A name, v : Write(name, v) \in T => ref # <<name, 0>>
  BY WriteTouches DEF Write
<1>5. aim.placed => ref \notin {"x", "y"} \X {0}
  BY DEF Touches
<1>6. (\E x \in T : x.do = "mode") => ref # <<"mode", 0>>
  BY DEF Touches
<1>7. \A x \in T : x.do = "fly" /\ x.setup = S =>
         /\ States(S, "heading") => ref # <<"psi", 0>>
         /\ States(S, "vertical") => ref # <<"vertical", 0>>
         /\ States(S, "altitude") => ref # <<"altitude", 0>>
         /\ States(S, "ias") => ref \notin {"vx", "vy", "vz"} \X {0}
         /\ States(S, "pitch") => ref # <<"theta", 0>>
         /\ States(S, "roll") => ref # <<"phi", 0>>
  BY DEF Touches
<1>8. \A x \in T : x.do = "masses" =>
         /\ x.name = "tank" => ref \notin {"tank"} \X (1 .. aim.tanks)
         /\ x.name = "station" => ref \notin {"station"} \X Slots
  BY DEF Touches
<1>9. ref[1] = "tank" => ref[2] \in 1 .. aim.tanks
  BY DEF Aimed
<1> HIDE DEF S, H
<1>10. FlyStep(S) \in T /\ FlyStep(S).do = "fly" /\ FlyStep(S).setup = S
  BY <1>1, <1>2 DEF FlyStep
<1>11. \A f \in OwnName \cap DOMAIN S : ref # <<f, 0>>
  <2> SUFFICES ASSUME NEW f \in OwnName \cap DOMAIN S PROVE ref # <<f, 0>>
    OBVIOUS
  <2>1. States(S, f)
    BY DEF States
  <2>2. CASE f \in {"vertical", "altitude"}
    BY <1>7, <1>10, <2>1, <2>2
  <2>3. CASE f \notin {"vertical", "altitude"}
    BY <1>1, <1>2, <1>4, <2>1, <2>3
  <2> QED
    BY <2>2, <2>3
<1>12. /\ States(S, "gear") => ref # <<"gear", 0>>
       /\ States(S, "nav1") \/ States(S, "ils") => ref # <<"nav1", 0>>
       /\ States(S, "lights") => \A name \in DOMAIN S.lights : ref # <<name, 0>>
  BY <1>1, <1>2, <1>4
<1>13. States(S, "master") \/ States(S, "director") => ref # <<"mode", 0>>
  BY <1>1, <1>2, <1>6
<1>14. /\ States(S, "heading") => ref # <<"psi", 0>>
       /\ Moving(S) => ref \notin {<<"vx", 0>>, <<"vy", 0>>, <<"vz", 0>>}
  BY <1>7, <1>10 DEF Moving
<1>15. ASSUME NEW name \in Arrays, Loads(S, name), NEW i \in Slots PROVE ref # <<name, i>>
  <2> DEFINE a == Masses(name, Loaded(S, name))
  <2>1. a \in T
    BY <1>1, <1>2, <1>15
  <2>2. a.do = "masses" /\ a.name = name
    BY DEF Masses
  <2> HIDE DEF a
  <2>3. CASE name = "station"
    BY <1>8, <2>1, <2>2, <2>3
  <2>4. CASE name = "tank"
    <3> SUFFICES ASSUME ref = <<"tank", i>> PROVE FALSE
      BY <2>4
    <3>1. i \in 1 .. aim.tanks
      BY <1>9
    <3> QED
      BY <1>8, <2>1, <2>2, <2>4, <3>1
  <2> QED
    BY <2>3, <2>4 DEF Arrays
<1>16. aim.placed => ref # <<"x", 0>> /\ ref # <<"y", 0>>
  BY <1>5
<1>17. WantsOther(S, ref, value)
  <2>1. /\ States(S, "nav2") => ref # <<"nav2", 0>>
        /\ States(S, "target_heading") => ref # <<"target_heading", 0>>
    BY <1>1, <1>2, <1>4
  <2>2. /\ States(S, "pitch") => ref # <<"theta", 0>>
        /\ States(S, "roll") => ref # <<"phi", 0>>
    BY <1>7, <1>10
  <2> QED
    BY <2>1, <2>2 DEF WantsOther
<1>18. /\ Loads(S, "tank") => \A i \in Slots : ref # <<"tank", i>>
       /\ Loads(S, "station") => \A i \in Slots : ref # <<"station", i>>
  BY <1>15 DEF Arrays
<1> QED
  BY <1>11, <1>12, <1>13, <1>14, <1>16, <1>17, <1>18 DEF Wants, S

\* A setup's steps, with a teleport after them where there is one.
LEMMA SetsOut ==
    ASSUME NEW aim, SetupTyped(aim.setup), NEW mem, NEW arrival, IsList(arrival),
           \A x \in ToSet(arrival) : Fits(aim, x) /\ x.do = "teleport",
           aim.placed => ToSet(arrival) # {}
    PROVE  OnCourse(aim, mem, SetupSteps(aim.setup) \o arrival)
<1> DEFINE S == aim.setup
           a == SetupSteps(S)
           s == a \o arrival
<1>1. IsList(a)
  BY SetupIs
<1>2. \A x \in ToSet(a) : Fits(aim, x)
  BY SetupFits
<1>3. States(S, "approach_mode") => (S.approach_mode => ChoosesApproach(a))
  <2>1. States(S, "approach_mode") => S.approach_mode \in BOOLEAN
    BY DEF SetupTyped, States
  <2> QED
    BY <2>1, SetupChooses
<1>4. \A ref \in Aimed(aim) : \A T, value :
         /\ ToSet(a) \subseteq T
         /\ aim.placed => \E x \in T : x.do = "teleport"
         /\ \A x \in T : ~Touches(aim, x, ref)
         => Wants(aim, ref, value)
  BY UntouchedIsFree
<1> HIDE DEF a
<1>5. IsList(s) /\ ToSet(s) = ToSet(a) \cup ToSet(arrival)
  BY <1>1, ListJoin
<1>6. \A x \in ToSet(arrival) : ~Selects(x)
  BY DEF Selects
<1>7. ChoosesApproach(a) => ApproachIsLast(mem, s)
  BY <1>1, <1>6, ChosenFirst DEF ChoosesApproach, ApproachIsLast
<1> HIDE DEF s
<1>8. ASSUME NEW ref \in Aimed(aim)
      PROVE  Wants(aim, ref, mem[ref]) \/ \E x \in ToSet(s) : Touches(aim, x, ref)
  BY <1>4, <1>5
<1>9. \A x \in ToSet(s) : Fits(aim, x)
  BY <1>2, <1>5
<1>10. OnCourse(aim, mem, s)
  BY <1>3, <1>7, <1>8, <1>9 DEF OnCourse
<1> QED
  BY <1>10 DEF s, a

\* What is planned for a request that writes, in whatever simulator.
LEMMA PlansOut ==
    ASSUME NEW s \in Setups, s.op \in Writing, ~Refused(PlanOf(s)), NEW mem
    PROVE  OnCourse(Aim(s, PlanOf(s).applied, mem), mem, PlanOf(s).steps)
<1>1. ASSUME NEW S, SetupTyped(S), s.op # "place", Accepted(PlanOf(s), S, SetupSteps(S))
      PROVE  OnCourse(Aim(s, PlanOf(s).applied, mem), mem, PlanOf(s).steps)
  <2> DEFINE aim == Aim(s, S, mem)
             a == SetupSteps(S)
  <2>1. aim.setup = S /\ ~aim.placed
    <3>1. Steady(aim, S, mem) /\ (aim.placed <=> s.op = "place")
      BY <1>1, AimIs
    <3> HIDE DEF aim
    <3> QED
      BY <1>1, <3>1 DEF Steady
  <2>2. IsList(<<>>) /\ ToSet(<<>>) = {}
    BY ListEmpty
  <2>3. IsList(a)
    BY SetupIs
  <2> HIDE DEF aim
  <2>4. OnCourse(aim, mem, SetupSteps(aim.setup) \o <<>>)
    BY <1>1, <2>1, <2>2, SetsOut
  <2>5. SetupSteps(aim.setup) = a
    BY <2>1
  <2> HIDE DEF a
  <2>6. a \o <<>> = a
    BY <2>3, ConcatEmptySeq DEF IsList
  <2>7. OnCourse(aim, mem, a)
    BY <2>4, <2>5, <2>6
  <2> QED
    BY <1>1, <2>7 DEF Accepted, aim, a
<1>2. CASE s.op = "place" /\ PlacementTyped(s.request.placement) /\ SetupTyped(s.request.edits)
  <2> DEFINE placed == Resolve(s.request.placement, station.navdata,
                               station.airframe.stalling).placement
             merged == MergeSetup(ToSetup(placed), s.request.edits)
             moved == PlacedAsEdited(placed, merged)
             t == TeleportSteps(moved, merged)
             aim == Aim(s, merged, mem)
             p == Point(placed.position.x, placed.position.y, merged.altitude)
             w == [do |-> "teleport", position |-> moved.position, heading |-> moved.heading,
                   ias |-> merged.ias, vertical |-> Stated(merged, "vertical")]
  <2>1. PlanOf(s) = PlanPlacement(s.request)
    BY <1>2 DEF PlanOf
  <2>2. Shaped(placed) /\ Accepted(PlanOf(s), merged, SetupSteps(merged) \o t)
    BY <1>2, <2>1, PlacementPlanIs
  <2>3. SetupTyped(merged) /\ States(merged, "altitude") /\ States(merged, "heading")
        /\ States(merged, "ias")
    <3>1. /\ \A f \in {"altitude", "heading", "ias"} : States(ToSetup(placed), f)
          /\ SetupTyped(ToSetup(placed))
      BY <2>2, PlacedSetupIs
    <3> QED
      BY <1>2, <3>1, MergedIs
  <2>4. aim.setup = merged /\ aim.placed /\ aim.at = placed.position
    <3> HIDE DEF merged
    <3>1. /\ Steady(aim, merged, mem) /\ (aim.placed <=> s.op = "place")
          /\ s.op = "place" => aim.at = placed.position
      BY <2>3, AimIs
    <3> HIDE DEF aim, placed
    <3> QED
      BY <1>2, <3>1 DEF Steady
  <2>5. t = <<w>>
    BY DEF TeleportSteps
  <2>6. moved.position = p /\ moved.heading = Fold(merged.heading)
    <3> HIDE DEF placed, merged
    <3> QED
      BY DEF PlacedAsEdited, moved, p
  <2>7. /\ w.do = "teleport" /\ w.position = moved.position /\ w.heading = moved.heading
        /\ w.ias = merged.ias /\ w.vertical = Stated(merged, "vertical")
    <3> HIDE DEF moved, merged
    <3> QED
      BY DEF w
  <2> HIDE DEF w
  <2>8. IsList(t) /\ ToSet(t) = {w}
    BY <2>5, ListOne
  <2>9. p = Point(aim.at.x, aim.at.y, merged.altitude)
    BY <2>4
  <2> HIDE DEF t, aim, moved, p, placed, merged
  <2>10. Fits(aim, w)
    BY <2>3, <2>4, <2>6, <2>7, <2>9 DEF Fits, Moving
  <2>11. OnCourse(aim, mem, SetupSteps(aim.setup) \o t)
    BY <2>3, <2>4, <2>7, <2>8, <2>10, SetsOut
  <2>12. SetupSteps(aim.setup) = SetupSteps(merged)
    BY <2>4
  <2> DEFINE q == SetupSteps(merged) \o t
  <2>13. OnCourse(aim, mem, q)
    BY <2>11, <2>12
  <2>14. PlanOf(s).applied = merged /\ PlanOf(s).steps = q
    BY <2>2 DEF Accepted
  <2> HIDE DEF q
  <2>15. OnCourse(Aim(s, merged, mem), mem, q)
    BY <2>13 DEF aim
  <2> QED
    BY <2>14, <2>15
<1>3. CASE s.op = "fuel"
  <2>1. PlanOf(s) = PlanFuel(s.request)
    BY <1>3 DEF PlanOf
  <2>2. PICK l : Accepted(PlanOf(s), [loadout |-> l], SetupSteps([loadout |-> l]))
    BY <2>1, FuelPlanIs
  <2> DEFINE S == [loadout |-> l]
  <2>3. DOMAIN S = {"loadout"}
    OBVIOUS
  <2> HIDE DEF S
  <2>4. SetupTyped(S)
    BY <2>3 DEF SetupTyped, States
  <2>5. Accepted(PlanOf(s), S, SetupSteps(S))
    BY <2>2 DEF S
  <2> QED
    BY <1>1, <1>3, <2>4, <2>5
<1>4. CASE s.op = "setup" /\ SetupTyped(s.request)
  <2>1. PlanOf(s) = Plan(s.request, SetupSteps(s.request))
    BY <1>4 DEF PlanOf
  <2> DEFINE a == SetupSteps(s.request)
  <2>2. Accepted(Plan(s.request, a), s.request, a)
    <3> HIDE DEF a
    <3> QED
      BY DEF Accepted, Plan, Refused
  <2> QED
    BY <1>1, <1>4, <2>1, <2>2
<1> QED
  BY <1>2, <1>3, <1>4, SetupsAssumption DEF Writing

-----------------------------------------------------------------------------
(* Every step keeps the second part                                        *)

\* What is still wanted of a request, and whether it is.
Held(c, s) == Lone(c) /\ s.op \in Writing => OnCourse(Aim(s, setup[c], sim), sim, todo[c])

\* Nothing the aim or its wants are about has changed.
LEMMA CourseStays ==
    ASSUME SimOK, DOMAIN sim' = DOMAIN sim,
           \A ref \in DOMAIN sim : ref[1] # "sky" => sim'[ref] = sim[ref],
           station' = station, NEW s, NEW stated, NEW steps,
           OnCourse(Aim(s, stated, sim), sim, steps)
    PROVE  OnCourse(Aim(s, stated, sim'), sim', steps)
<1> DEFINE aim == Aim(s, stated, sim)
<1>1. /\ \A name \in Scalars : <<name, 0>> \in DOMAIN sim
      /\ \A i \in 1 .. WindLevels : <<"wind", i>> \in DOMAIN sim
      /\ \A ref \in Aimed(aim) : ref \in DOMAIN sim
  BY SimAssumption DEF SimOK, Datarefs, Aimed
<1>2. \A name \in Scalars : <<name, 0>>[1] # "sky"
  BY DEF Scalars
<1>3. \A name \in Scalars : sim'[<<name, 0>>] = sim[<<name, 0>>]
  BY <1>1, <1>2
<1>4. \A i \in 1 .. WindLevels : sim'[<<"wind", i>>] = sim[<<"wind", i>>]
  <2>1. \A i : <<"wind", i>>[1] # "sky"
    OBVIOUS
  <2> QED
    BY <1>1, <2>1
<1>5. {"tanks", "qnh", "psi", "lateral"} \subseteq Scalars
  BY DEF Scalars
<1>6. Aim(s, stated, sim') = aim
  BY <1>3, <1>4, <1>5, AimStays
<1>7. SetupTyped(aim.setup)
  BY DEF OnCourse
<1> HIDE DEF aim
<1>8. ASSUME NEW ref \in Aimed(aim)
      PROVE  Wants(aim, ref, sim'[ref]) \/ \E x \in ToSet(steps) : Touches(aim, x, ref)
  <2>1. CASE ref[1] # "sky"
    <3>1. sim'[ref] = sim[ref]
      BY <1>1, <2>1
    <3> QED
      BY <3>1 DEF OnCourse, aim
  <2>2. CASE ref[1] = "sky"
    <3>1. \E i : ref = <<"sky", i>>
      BY <2>2 DEF Aimed, Datarefs
    <3> QED
      BY <1>7, <3>1, WantsFree
  <2> QED
    BY <2>1, <2>2
<1>9. sim'[<<"lateral", 0>>] = sim[<<"lateral", 0>>]
  BY <1>3, <1>5
<1>10. ApproachIsLast(sim, steps) => ApproachIsLast(sim', steps)
  BY <1>9 DEF ApproachIsLast
<1>11. OnCourse(aim, sim, steps)
  BY DEF aim
<1>12. OnCourse(aim, sim', steps)
  BY <1>8, <1>10, <1>11 DEF OnCourse
<1> QED
  BY <1>6, <1>12

\* An aim is a value: it is the same in the next state, of the same values.
LEMMA AimNext ==
    ASSUME station' = station, NEW s, NEW c PROVE Aim(s, setup[c], sim)' = Aim(s, setup'[c], sim')
BY DEF Aim

\* While a request runs, no other is alone.
LEMMA BusyIsAlone ==
    ASSUME Orderly, NEW c \in Clients, Busy(c), NEW d \in Clients, alone[d] PROVE d = c
BY DEF Orderly, ClientOK

\* One client's step: no other is alone.
LEMMA UnderwayAt ==
    ASSUME Orderly, NEW c \in Clients, Busy(c),
           station' = station, ask' = ask, setup' = setup, alone' = alone,
           \A s \in ask[c] : alone[c] /\ (\A r \in reply'[c] : r.status = 200) /\ s.op \in Writing =>
               OnCourse(Aim(s, setup[c], sim'), sim', todo'[c])
    PROVE  Underway'
<1> SUFFICES ASSUME NEW d \in Clients, NEW s \in ask'[d], Lone(d)', s.op \in Writing
             PROVE  OnCourse(Aim(s, setup[d], sim), sim, todo[d])'
  BY DEF Underway
<1>1. alone'[d] /\ \A r \in reply'[d] : r.status = 200
  BY DEF Lone
<1>2. d = c
  BY <1>1, BusyIsAlone
<1>3. OnCourse(Aim(s, setup'[d], sim'), sim', todo'[d])
  BY <1>1, <1>2
<1> QED
  BY <1>3, AimNext

LEMMA AskUnderway ==
    ASSUME Orderly, NEW c \in Clients, NEW s \in Setups, Ask(c, s) PROVE Underway'
<1> DEFINE plan == PlanOf(s)
           steps == IF Refused(plan) THEN <<>> ELSE plan.steps
           told == IF Refused(plan) THEN {plan} ELSE {}
           shown == IF Refused(plan) THEN <<>> ELSE plan.applied
<1>1. /\ ask' = [ask EXCEPT ![c] = {s}] /\ todo' = [todo EXCEPT ![c] = steps]
      /\ reply' = [reply EXCEPT ![c] = told] /\ setup' = [setup EXCEPT ![c] = shown]
      /\ alone' = [other \in Clients |-> other = c /\ \A b \in Clients : ~Busy(b)]
      /\ station' = station /\ sim' = sim
  BY DEF Ask, Posted
<1>2. Domains
  BY DEF Orderly
<1>3. s.op \in Writing /\ ~Refused(plan) => OnCourse(Aim(s, plan.applied, sim), sim, plan.steps)
  BY PlansOut
<1>4. Refused(plan) => told = {plan} /\ plan.status # 200
  BY DEF Refused
<1>5. ~Refused(plan) => steps = plan.steps /\ shown = plan.applied
  OBVIOUS
<1> HIDE DEF plan, steps, told, shown
<1>6. ask'[c] = {s} /\ todo'[c] = steps /\ reply'[c] = told /\ setup'[c] = shown
  BY <1>1, <1>2 DEF Domains
<1> SUFFICES ASSUME NEW d \in Clients, NEW q \in ask'[d], Lone(d)', q.op \in Writing
             PROVE  OnCourse(Aim(q, setup[d], sim), sim, todo[d])'
  BY DEF Underway
<1>7. alone'[d] /\ \A r \in reply'[d] : r.status = 200
  BY DEF Lone
<1>8. d = c
  BY <1>1, <1>7
<1>9. q = s /\ ~Refused(plan)
  BY <1>4, <1>6, <1>7, <1>8
<1>10. OnCourse(Aim(q, setup'[d], sim'), sim', todo'[d])
  BY <1>1, <1>3, <1>5, <1>6, <1>8, <1>9
<1> QED
  BY <1>1, <1>10, AimNext

LEMMA WriteUnderway ==
    ASSUME Orderly, Underway, NEW c \in Clients, WriteOne(c) PROVE Underway'
<1> DEFINE h == Head(todo[c])
           new == SimAfter(h)
<1>1. /\ todo[c] # <<>> /\ h.do = "write" /\ sim' = new
      /\ todo' = [todo EXCEPT ![c] = Tail(todo[c])]
      /\ station' = station /\ ask' = ask /\ reply' = reply /\ setup' = setup /\ alone' = alone
  BY DEF WriteOne, Waiting
<1>2. Domains /\ ClientOK(c) /\ SimOK
  BY DEF Orderly
<1>3. Busy(c) /\ IsList(todo[c]) /\ (\A step \in ToSet(todo[c]) : Proper(step)) /\ reply[c] = {}
  BY <1>1, <1>2, StepsMeanBusy DEF ClientOK
<1>4. h \in ToSet(todo[c]) /\ Proper(h) /\ h.ref \in Datarefs
  <2>1. h \in ToSet(todo[c])
    BY <1>1, <1>3, ListHead
  <2> QED
    BY <1>1, <1>3, <2>1 DEF Proper
<1>5. todo'[c] = Tail(todo[c])
  BY <1>1, <1>2 DEF Domains
<1>6. ASSUME NEW s \in ask[c], alone[c], s.op \in Writing
      PROVE  OnCourse(Aim(s, setup[c], new), new, Tail(todo[c]))
  <2> DEFINE stated == setup[c]
             aim == Aim(s, stated, sim)
  <2>1. OnCourse(aim, sim, todo[c])
    BY <1>3, <1>6 DEF Underway, Lone
  <2> HIDE DEF stated
  <2>2. aim.setup = stated
    BY DEF Aim
  <2> HIDE DEF aim
  <2>3. OnCourse(aim, new, Tail(todo[c]))
    BY <1>1, <1>2, <1>3, <1>4, <2>1, WriteOnCourse
  <2>4. Spares(aim, h.ref)
    BY <1>1, <1>4, <2>1 DEF OnCourse, Fits
  <2>5. /\ h.ref # <<"change", 0>> /\ h.ref # <<"tanks", 0>> /\ h.ref # <<"qnh", 0>>
        /\ \A i : h.ref # <<"wind", i>>
        /\ ~States(stated, "heading") => h.ref # <<"psi", 0>>
    BY <2>2, <2>4 DEF Spares
  <2>6. \A ref \in DOMAIN sim : ref # h.ref => new[ref] = sim[ref]
    BY <1>2, <1>4, <2>5, SimAfterIs
  <2>7. /\ <<"tanks", 0>> \in DOMAIN sim /\ <<"qnh", 0>> \in DOMAIN sim /\ <<"psi", 0>> \in DOMAIN sim
        /\ \A i \in 1 .. WindLevels : <<"wind", i>> \in DOMAIN sim
    BY <1>2, SimAssumption DEF SimOK, Datarefs, Scalars
  <2> HIDE DEF new, h
  <2>8. Aim(s, stated, new) = Aim(s, stated, sim)
    BY <2>5, <2>6, <2>7, AimStays
  <2> QED
    BY <2>3, <2>8 DEF aim, stated
<1> HIDE DEF new, h
<1> QED
  BY <1>1, <1>3, <1>5, <1>6, UnderwayAt

LEMMA ReadUnderway ==
    ASSUME Orderly, Underway, NEW c \in Clients, ReadSome(c) PROVE Underway'
<1> DEFINE h == Head(todo[c])
           e == Expand(h) \o Tail(todo[c])
<1>1. /\ todo[c] # <<>> /\ h.do # "write" /\ sim' = sim
      /\ todo' = [todo EXCEPT ![c] = e]
      /\ station' = station /\ ask' = ask /\ reply' = reply /\ setup' = setup /\ alone' = alone
  BY DEF ReadSome
<1>2. Domains /\ ClientOK(c) /\ SimOK
  BY DEF Orderly
<1>3. Busy(c) /\ IsList(todo[c]) /\ (\A step \in ToSet(todo[c]) : Proper(step)) /\ reply[c] = {}
  BY <1>1, <1>2, StepsMeanBusy DEF ClientOK
<1>4. Proper(h)
  <2>1. h \in ToSet(todo[c])
    BY <1>1, <1>3, ListHead
  <2> QED
    BY <1>3, <2>1
<1>5. todo'[c] = e
  BY <1>1, <1>2 DEF Domains
<1>6. ASSUME NEW s \in ask[c], alone[c], s.op \in Writing
      PROVE  OnCourse(Aim(s, setup[c], sim), sim, e)
  <2> DEFINE stated == setup[c]
             aim == Aim(s, stated, sim)
  <2>1. OnCourse(aim, sim, todo[c])
    BY <1>3, <1>6 DEF Underway, Lone
  <2> HIDE DEF stated
  <2>2. aim.setup = stated
    BY DEF Aim
  <2>3. SetupTyped(stated)
    <3> HIDE DEF aim
    <3> QED
      BY <2>1, <2>2 DEF OnCourse
  <2>4. Steady(aim, stated, sim)
    BY <2>3, AimIs
  <2> HIDE DEF aim
  <2>5. OnCourse(aim, sim, e)
    BY <1>1, <1>2, <1>3, <1>4, <2>1, <2>4, ReadOnCourse
  <2> QED
    BY <2>5 DEF aim, stated
<1> HIDE DEF e, h
<1> QED
  BY <1>1, <1>3, <1>5, <1>6, UnderwayAt

\* A weather request's steps are none of a setup's.
LEMMA PassUnderway ==
    ASSUME Orderly, Underway, NEW c \in Clients, todo[c] # <<>>,
           Head(todo[c]).do \in {"settle", "check"},
           UNCHANGED <<station, ask, setup, alone>>
    PROVE  Underway'
<1> DEFINE h == Head(todo[c])
<1>1. Busy(c) /\ reply[c] = {} /\ IsList(todo[c])
  BY StepsMeanBusy DEF Orderly, ClientOK
<1>2. h \in ToSet(todo[c])
  BY <1>1, ListHead
<1>3. ASSUME NEW s \in ask[c], alone[c], s.op \in Writing PROVE FALSE
  <2> DEFINE aim == Aim(s, setup[c], sim)
  <2>1. OnCourse(aim, sim, todo[c])
    BY <1>1, <1>3 DEF Underway, Lone
  <2> HIDE DEF aim
  <2>2. Fits(aim, h)
    BY <1>2, <2>1 DEF OnCourse
  <2> QED
    BY <2>2 DEF Fits
<1> QED
  BY <1>1, <1>3, UnderwayAt

LEMMA FailUnderway ==
    ASSUME Orderly, NEW c \in Clients, Fail(c) PROVE Underway'
<1>1. todo[c] # <<>> /\ UNCHANGED <<station, ask, setup, alone>>
  BY DEF Fail
<1>2. Busy(c)
  BY <1>1, StepsMeanBusy
<1>3. \E r \in reply'[c] : r.status # 200
  <2> DEFINE x == Rejected(500, "failed")
  <2>1. x.status # 200
    BY DEF Rejected
  <2>2. reply' = [reply EXCEPT ![c] = {x}]
    BY DEF Fail, Conclude
  <2> HIDE DEF x
  <2> QED
    BY <2>1, <2>2 DEF Orderly, Domains
<1> QED
  BY <1>1, <1>2, <1>3, UnderwayAt

LEMMA FinishUnderway ==
    ASSUME Orderly, Underway, NEW c \in Clients, Finish(c) PROVE Underway'
<1>1. /\ Busy(c) /\ todo[c] = <<>> /\ todo'= [todo EXCEPT ![c] = <<>>]
      /\ UNCHANGED <<station, sim, ask, setup, alone>>
  BY DEF Finish, Conclude
<1>2. todo'[c] = todo[c]
  BY <1>1 DEF Orderly, Domains
<1>3. ASSUME NEW s \in ask[c], alone[c], s.op \in Writing
      PROVE  OnCourse(Aim(s, setup[c], sim'), sim', todo'[c])
  <2>1. OnCourse(Aim(s, setup[c], sim), sim, todo[c])
    BY <1>1, <1>3 DEF Underway, Lone, Busy
  <2> QED
    BY <1>1, <1>2, <2>1
<1> QED
  BY <1>1, <1>3, UnderwayAt

LEMMA ShowUnderway ==
    ASSUME Orderly, Underway, ShowClouds PROVE Underway'
<1>1. /\ DOMAIN sim' = DOMAIN sim /\ \A ref \in DOMAIN sim : ref[1] # "sky" => sim'[ref] = sim[ref]
      /\ UNCHANGED <<station, todo, ask, reply, setup, alone>>
  BY DEF ShowClouds
<1>2. SimOK
  BY DEF Orderly
<1> SUFFICES ASSUME NEW d \in Clients, NEW s \in ask'[d], Lone(d)', s.op \in Writing
             PROVE  OnCourse(Aim(s, setup[d], sim), sim, todo[d])'
  BY DEF Underway
<1>3. OnCourse(Aim(s, setup[d], sim), sim, todo[d])
  BY <1>1 DEF Underway, Lone
<1>4. OnCourse(Aim(s, setup[d], sim'), sim', todo[d])
  BY <1>1, <1>2, <1>3, CourseStays
<1>5. OnCourse(Aim(s, setup'[d], sim'), sim', todo'[d])
  BY <1>1, <1>4
<1> QED
  BY <1>1, <1>5, AimNext

LEMMA StillUnderway ==
    ASSUME Underway, UNCHANGED <<station, sim, todo, ask, reply, setup, alone>> PROVE Underway'
<1> SUFFICES ASSUME NEW d \in Clients, NEW s \in ask'[d], Lone(d)', s.op \in Writing
             PROVE  OnCourse(Aim(s, setup[d], sim), sim, todo[d])'
  BY DEF Underway
<1>1. OnCourse(Aim(s, setup'[d], sim'), sim', todo'[d])
  BY DEF Underway, Lone
<1> QED
  BY <1>1, AimNext

LEMMA StepUnderway == ASSUME Orderly, Underway, [Next]_vars PROVE Underway'
<1>1. CASE UNCHANGED vars
  BY <1>1, StillUnderway DEF vars
<1>2. ASSUME NEW q \in Previews, Preview(q) PROVE Underway'
  BY <1>2, StillUnderway DEF Preview
<1>3. CASE Forget
  BY <1>3, StillUnderway DEF Forget
<1>4. ASSUME NEW c \in Clients, NEW s \in Setups, Ask(c, s) PROVE Underway'
  BY <1>4, AskUnderway
<1>5. ASSUME NEW c \in Clients, Settle(c) PROVE Underway'
  BY <1>5, PassUnderway DEF Settle, Waiting
<1>6. ASSUME NEW c \in Clients, Check(c) PROVE Underway'
  BY <1>6, PassUnderway DEF Check, Waiting
<1>7. ASSUME NEW c \in Clients, WriteOne(c) \/ ReadSome(c) \/ Fail(c) \/ Finish(c) PROVE Underway'
  BY <1>7, WriteUnderway, ReadUnderway, FailUnderway, FinishUnderway
<1>8. CASE ShowClouds
  BY <1>8, ShowUnderway
<1> QED
  BY <1>1, <1>2, <1>3, <1>4, <1>5, <1>6, <1>7, <1>8 DEF Next

LEMMA InitUnderway == ASSUME Init PROVE Underway /\ Sparing
BY DEF Init, Underway, Sparing

\* The write that comes next is one the aim has room for.
LEMMA WriteSparing ==
    ASSUME Orderly, Underway, Sparing, NEW c \in Clients, WriteOne(c) PROVE Sparing'
<1> DEFINE h == Head(todo[c])
<1>1. /\ todo[c] # <<>> /\ h.do = "write" /\ wrote' = [wrote EXCEPT ![c] = @ \cup {h.ref}]
      /\ ask' = ask /\ setup' = setup /\ alone' = alone
  BY DEF WriteOne, Waiting
<1>2. /\ Domains /\ IsList(todo[c]) /\ reply[c] = {}
  BY <1>1, StepsMeanBusy DEF Orderly, ClientOK
<1>3. h \in ToSet(todo[c])
  BY <1>1, <1>2, ListHead
<1> HIDE DEF h
<1>4. ASSUME NEW s \in ask[c], alone[c], s.op \in Writing PROVE MassStated(setup[c], h.ref)
  <2> DEFINE aim == Aim(s, setup[c], sim)
  <2>1. OnCourse(aim, sim, todo[c])
    BY <1>2, <1>4 DEF Underway, Lone
  <2>2. aim.setup = setup[c]
    BY DEF Aim
  <2> HIDE DEF aim
  <2>3. Spares(aim, h.ref)
    BY <1>1, <1>3, <2>1 DEF OnCourse, Fits
  <2> QED
    BY <2>2, <2>3 DEF Spares
<1> SUFFICES ASSUME NEW d \in Clients, NEW s \in ask[d], alone[d], s.op \in Writing,
                    NEW ref \in wrote'[d]
             PROVE  MassStated(setup[d], ref)
  BY <1>1 DEF Sparing, MassStated
<1>5. CASE ref \in wrote[d]
  BY <1>5 DEF Sparing
<1>6. CASE ref \notin wrote[d]
  <2>1. d = c /\ ref = h.ref
    BY <1>1, <1>2, <1>6 DEF Domains
  <2> QED
    BY <1>4, <2>1
<1> QED
  BY <1>5, <1>6

LEMMA AskSparing ==
    ASSUME Orderly, NEW c \in Clients, NEW s \in Setups, Ask(c, s) PROVE Sparing'
<1>1. /\ wrote' = [wrote EXCEPT ![c] = {}]
      /\ alone' = [other \in Clients |-> other = c /\ \A b \in Clients : ~Busy(b)]
  BY DEF Ask, Posted
<1>2. wrote'[c] = {} /\ \A d \in Clients : alone'[d] => d = c
  BY <1>1 DEF Orderly, Domains
<1> QED
  BY <1>2 DEF Sparing

LEMMA StillSparing == ASSUME Sparing, UNCHANGED <<ask, setup, wrote, alone>> PROVE Sparing'
BY DEF Sparing, MassStated

LEMMA StepSparing == ASSUME Orderly, Underway, Sparing, [Next]_vars PROVE Sparing'
<1>1. CASE UNCHANGED vars
  BY <1>1, StillSparing DEF vars
<1>2. ASSUME NEW q \in Previews, Preview(q) PROVE Sparing'
  BY <1>2, StillSparing DEF Preview
<1>3. CASE Forget
  BY <1>3, StillSparing DEF Forget
<1>4. ASSUME NEW c \in Clients, NEW s \in Setups, Ask(c, s) PROVE Sparing'
  BY <1>4, AskSparing
<1>5. ASSUME NEW c \in Clients, WriteOne(c) PROVE Sparing'
  BY <1>5, WriteSparing
<1>6. ASSUME NEW c \in Clients, ReadSome(c) \/ Settle(c) \/ Check(c) \/ Fail(c) \/ Finish(c)
      PROVE  Sparing'
  BY <1>6, StillSparing DEF ReadSome, Settle, Check, Fail, Finish
<1>7. CASE ShowClouds
  BY <1>7, StillSparing DEF ShowClouds
<1> QED
  BY <1>1, <1>2, <1>3, <1>4, <1>5, <1>6, <1>7 DEF Next

-----------------------------------------------------------------------------
(* A weather request: the turns of its steps                               *)

LEMMA TurnIs ==
    /\ Turn["manual"] = 0 /\ Turn["check"] = 0 /\ Turn["update"] = 0 /\ Turn["change"] = 0
    /\ Turn["wind"] = 1 /\ Turn["cloud"] = 2 /\ Turn["settle"] = 3
    /\ Turn["visibility"] = 4 /\ Turn["qnh"] = 4 /\ Turn["temperature"] = 5
    /\ Turn["aloft"] = 6 /\ Turn["ladder"] = 6
    /\ Turn["dewpoint"] = 7 /\ Turn["dewpoints"] = 7 /\ Turn["below"] = 7
    /\ Turn["rain"] = 8 /\ Turn["friction"] = 8
BY DEF Turn

LEMMA TurnIsNat ==
    ASSUME NEW S, NEW mem, NEW steps, NEW step, FitsAir(S, mem, steps, step)
    PROVE  TurnOf(step) \in Nat
<1>1. CASE step.do = "write"
  <2>1. step.ref[1] \in AirNames
    BY <1>1 DEF FitsAir
  <2>2. Turn[step.ref[1]] \in Nat
    BY <2>1, TurnIs DEF AirNames
  <2> QED
    BY <1>1, <2>2 DEF TurnOf
<1>2. CASE step.do # "write"
  <2>1. step.do \in {"manual", "check", "settle", "ladder", "dewpoints", "below"}
    BY <1>2 DEF FitsAir
  <2> QED
    BY <1>2, <2>1, TurnIs DEF TurnOf
<1> QED
  BY <1>1, <1>2

\* The first step left and the others.
LEMMA AirHead ==
    ASSUME NEW steps, IsList(steps), steps # <<>>, InTurn(steps)
    PROVE  /\ NoneBefore(steps, TurnOf(Head(steps)))
           /\ IsList(Tail(steps)) /\ InTurn(Tail(steps))
           /\ ToSet(steps) = {Head(steps)} \cup ToSet(Tail(steps))
<1> DEFINE h == Head(steps)
           t == Tail(steps)
<1>1. /\ h = steps[1] /\ h \in ToSet(steps) /\ Len(steps) >= 1 /\ IsList(t)
      /\ Len(t) = Len(steps) - 1 /\ \A i \in 1 .. Len(steps) - 1 : t[i] = steps[i + 1]
  BY ListHead
<1>2. /\ Len(steps) \in Nat /\ DOMAIN steps = 1 .. Len(steps)
      /\ \A i \in 1 .. Len(steps) : steps[i] \in ToSet(steps)
      /\ \A x \in ToSet(steps) : \E i \in 1 .. Len(steps) : steps[i] = x
  BY ListFacts
<1>3. /\ Len(t) \in Nat /\ DOMAIN t = 1 .. Len(t)
      /\ \A i \in 1 .. Len(t) : t[i] \in ToSet(t)
      /\ \A x \in ToSet(t) : \E i \in 1 .. Len(t) : t[i] = x
  BY <1>1, ListFacts
<1> HIDE DEF h, t
<1>4. NoneBefore(steps, TurnOf(h))
  <2> SUFFICES ASSUME NEW x \in ToSet(steps) PROVE TurnOf(h) <= TurnOf(x)
    BY DEF NoneBefore
  <2>1. PICK k \in 1 .. Len(steps) : steps[k] = x
    BY <1>2
  <2>2. 1 \in DOMAIN steps /\ k \in DOMAIN steps /\ 1 <= k
    BY <1>1, <1>2, <2>1
  <2> QED
    BY <1>1, <2>1, <2>2 DEF InTurn
<1>5. InTurn(t)
  <2> SUFFICES ASSUME NEW j \in DOMAIN t, NEW k \in DOMAIN t, j <= k
               PROVE  TurnOf(t[j]) <= TurnOf(t[k])
    BY DEF InTurn
  <2>1. /\ j + 1 \in DOMAIN steps /\ k + 1 \in DOMAIN steps /\ j + 1 <= k + 1
        /\ t[j] = steps[j + 1] /\ t[k] = steps[k + 1]
    BY <1>1, <1>2, <1>3
  <2> QED
    BY <2>1 DEF InTurn
<1>6. ASSUME NEW x \in ToSet(steps) PROVE x = h \/ x \in ToSet(t)
  <2>1. PICK k \in 1 .. Len(steps) : steps[k] = x
    BY <1>2
  <2>2. CASE k = 1
    BY <1>1, <2>1, <2>2
  <2>3. CASE k # 1
    <3>1. k - 1 \in 1 .. Len(t) /\ t[k - 1] = steps[(k - 1) + 1] /\ (k - 1) + 1 = k
      BY <1>1, <1>2, <2>1, <2>3
    <3> QED
      BY <1>3, <2>1, <3>1
  <2> QED
    BY <2>2, <2>3
<1>7. ASSUME NEW x \in ToSet(t) PROVE x \in ToSet(steps)
  <2>1. PICK k \in 1 .. Len(t) : t[k] = x
    BY <1>3
  <2>2. k + 1 \in 1 .. Len(steps) /\ t[k] = steps[k + 1]
    BY <1>1, <1>2, <2>1
  <2> QED
    BY <1>2, <2>1, <2>2
<1> QED
  BY <1>1, <1>4, <1>5, <1>6, <1>7 DEF h, t

LEMMA FewerBefore ==
    ASSUME NEW s, NEW t, ToSet(t) \subseteq ToSet(s), NEW n, NoneBefore(s, n) PROVE NoneBefore(t, n)
BY DEF NoneBefore

\* What a dataref is wanted to be does not change, unless it follows from the
\* wind and the wind does.
LEMMA WantStays ==
    ASSUME NEW S, NEW mem, NEW new, NEW ref, NEW value, WantsAir(S, mem, ref, value),
           ref[1] \in {"aloft", "dewpoint"} /\ ref # <<"dewpoint", 1>> =>
               \A i \in 1 .. WindLevels : new[<<"wind", i>>] = mem[<<"wind", i>>]
    PROVE  WantsAir(S, new, ref, value)
<1>1. ASSUME NEW i \in 1 .. WindLevels, ref = <<"aloft", i>> \/ (i # 1 /\ ref = <<"dewpoint", i>>)
      PROVE  AirAt(S, new, i) = AirAt(S, mem, i)
  <2>1. ref[1] \in {"aloft", "dewpoint"} /\ ref # <<"dewpoint", 1>>
    BY <1>1
  <2> QED
    BY <2>1 DEF AirAt
<1>2. States(S, "temperature") => \A i \in 1 .. WindLevels :
          ref = <<"aloft", i>> => value = AirAt(S, new, i)
  BY <1>1 DEF WantsAir
<1>3. States(S, "temperature") /\ States(S, "dewpoint") => \A i \in 2 .. WindLevels :
          ref = <<"dewpoint", i>> => value <= AirAt(S, new, i)
  <2> SUFFICES ASSUME States(S, "temperature"), States(S, "dewpoint"), NEW i \in 2 .. WindLevels,
                      ref = <<"dewpoint", i>>
               PROVE  value <= AirAt(S, new, i)
    OBVIOUS
  <2>1. i \in 1 .. WindLevels /\ i # 1
    OBVIOUS
  <2>2. value <= AirAt(S, mem, i)
    BY DEF WantsAir
  <2> QED
    BY <1>1, <2>1, <2>2
<1> HIDE DEF Turn
<1> QED
  BY <1>2, <1>3 DEF WantsAir

LEMMA WriteOnAir ==
    ASSUME NEW S, NEW mem, NEW new, NEW steps, NEW waited, IsList(steps), steps # <<>>,
           OnTheAir(S, mem, steps, waited), Head(steps).do = "write",
           new[Head(steps).ref] = Head(steps).value,
           \A ref \in Datarefs : ref # Head(steps).ref /\ ref # <<"source", 0>> => new[ref] = mem[ref]
    PROVE  OnTheAir(S, new, Tail(steps), waited)
<1> DEFINE h == Head(steps)
           t == Tail(steps)
<1>1. /\ NoneBefore(steps, TurnOf(h)) /\ IsList(t) /\ InTurn(t)
      /\ ToSet(steps) = {h} \cup ToSet(t)
  BY AirHead DEF OnTheAir
<1>2. h.do = "write" /\ FitsAir(S, mem, steps, h) /\ TurnOf(h) = Turn[h.ref[1]]
  BY <1>1 DEF OnTheAir, TurnOf
<1>3. h.ref[1] \in AirNames /\ WantsAir(S, mem, h.ref, h.value)
  BY <1>2 DEF FitsAir
<1>4. \A n : NoneBefore(steps, n) => NoneBefore(t, n)
  BY <1>1, FewerBefore
<1> HIDE DEF h, t
<1>5. /\ \A i \in 1 .. WindLevels : <<"wind", i>> \in Datarefs /\ <<"wind", i>> # <<"source", 0>>
      /\ \A i \in 1 .. CloudSlots : <<"sky", i>> \in Datarefs /\ <<"sky", i>> # <<"source", 0>>
  BY DEF Datarefs
<1>6. ASSUME NEW n \in Nat, NoneBefore(steps, n), n > 1
      PROVE  \A i \in 1 .. WindLevels : new[<<"wind", i>>] = mem[<<"wind", i>>]
  <2>1. Turn[h.ref[1]] >= n
    BY <1>1, <1>2, <1>6 DEF NoneBefore
  <2>2. h.ref[1] # "wind"
    BY <1>6, <2>1, TurnIs
  <2>3. \A i : <<"wind", i>>[1] = "wind"
    OBVIOUS
  <2>4. \A i : h.ref # <<"wind", i>>
    BY <2>2, <2>3
  <2> QED
    BY <1>5, <2>4 DEF h
<1>7. ASSUME NEW x \in ToSet(t) PROVE FitsAir(S, new, t, x)
  <2>1. FitsAir(S, mem, steps, x)
    BY <1>1 DEF OnTheAir
  <2>2. x.do = "write" => WantsAir(S, new, x.ref, x.value)
    <3> SUFFICES ASSUME x.do = "write" PROVE WantsAir(S, new, x.ref, x.value)
      OBVIOUS
    <3>1. WantsAir(S, mem, x.ref, x.value)
      BY <2>1 DEF FitsAir
    <3>2. CASE x.ref[1] \in {"aloft", "dewpoint"} /\ x.ref # <<"dewpoint", 1>>
      <4>1. NoneBefore(steps, Turn[x.ref[1]]) /\ Turn[x.ref[1]] \in Nat /\ Turn[x.ref[1]] > 1
        BY <2>1, <3>2, TurnIs DEF FitsAir
      <4>2. \A i \in 1 .. WindLevels : new[<<"wind", i>>] = mem[<<"wind", i>>]
        BY <1>6, <4>1
      <4> QED
        BY <3>1, <4>2, WantStays
    <3>3. CASE ~(x.ref[1] \in {"aloft", "dewpoint"} /\ x.ref # <<"dewpoint", 1>>)
      BY <3>1, <3>3, WantStays
    <3> QED
      BY <3>2, <3>3
  <2>3. x.do = "below" => x.altitudes = WindAltitudes(new)
    <3> SUFFICES ASSUME x.do = "below" PROVE x.altitudes = WindAltitudes(new)
      OBVIOUS
    <3>1. x.altitudes = WindAltitudes(mem) /\ NoneBefore(steps, Turn["below"])
      BY <2>1 DEF FitsAir
    <3>2. Turn["below"] \in Nat /\ Turn["below"] > 1
      BY TurnIs
    <3>3. \A i \in 1 .. WindLevels : new[<<"wind", i>>] = mem[<<"wind", i>>]
      BY <1>6, <3>1, <3>2
    <3> QED
      BY <3>1, <3>3 DEF WindAltitudes
  <2> QED
    BY <1>4, <2>1, <2>2, <2>3 DEF FitsAir
<1>8. ASSUME NEW ref \in AirAims(S)
      PROVE  \/ \E x \in ToSet(t) : Reaches(x, ref)
             \/ NoneBefore(t, Turn[ref[1]]) /\ WantsAir(S, new, ref, new[ref])
  <2>0. ref \in Datarefs /\ ref # <<"source", 0>> /\ ref[1] \in AirNames
    BY DEF AirAims, AirNames
  <2>1. CASE \E x \in ToSet(t) : Reaches(x, ref)
    BY <2>1
  <2>2. CASE Reaches(h, ref)
    <3>1. h.ref = ref
      BY <1>2, <2>2 DEF Reaches
    <3>2. NoneBefore(t, Turn[ref[1]])
      BY <1>1, <1>2, <1>4, <3>1
    <3>3. WantsAir(S, new, ref, new[ref])
      <4>1. WantsAir(S, mem, ref, new[ref])
        BY <1>3, <3>1 DEF h
      <4>2. CASE ref[1] \in {"aloft", "dewpoint"} /\ ref # <<"dewpoint", 1>>
        <5>1. NoneBefore(steps, Turn[ref[1]]) /\ Turn[ref[1]] \in Nat /\ Turn[ref[1]] > 1
          BY <1>2, <3>1, <4>2, TurnIs DEF FitsAir
        <5>2. \A i \in 1 .. WindLevels : new[<<"wind", i>>] = mem[<<"wind", i>>]
          BY <1>6, <5>1
        <5> QED
          BY <4>1, <5>2, WantStays
      <4>3. CASE ~(ref[1] \in {"aloft", "dewpoint"} /\ ref # <<"dewpoint", 1>>)
        BY <4>1, <4>3, WantStays
      <4> QED
        BY <4>2, <4>3
    <3> QED
      BY <3>2, <3>3
  <2>3. CASE ~(\E x \in ToSet(steps) : Reaches(x, ref))
    <3>1. NoneBefore(steps, Turn[ref[1]]) /\ WantsAir(S, mem, ref, mem[ref])
      BY <2>3 DEF OnTheAir
    <3>2. h.ref # ref
      BY <1>1, <1>2, <2>3 DEF Reaches
    <3>3. new[ref] = mem[ref]
      BY <2>0, <3>2 DEF h
    <3>4. WantsAir(S, new, ref, mem[ref])
      <4>2. CASE ref[1] \in {"aloft", "dewpoint"} /\ ref # <<"dewpoint", 1>>
        <5>1. Turn[ref[1]] \in Nat /\ Turn[ref[1]] > 1
          BY <4>2, TurnIs
        <5>2. \A i \in 1 .. WindLevels : new[<<"wind", i>>] = mem[<<"wind", i>>]
          BY <1>6, <3>1, <5>1
        <5> QED
          BY <3>1, <5>2, WantStays
      <4>3. CASE ~(ref[1] \in {"aloft", "dewpoint"} /\ ref # <<"dewpoint", 1>>)
        BY <3>1, <4>3, WantStays
      <4> QED
        BY <4>2, <4>3
    <3> QED
      BY <1>4, <3>1, <3>3, <3>4
  <2> QED
    BY <1>1, <2>1, <2>2, <2>3
<1>9. States(S, "cloud") => CloudsComing(S, new, t, waited)
  <2> SUFFICES ASSUME States(S, "cloud") PROVE CloudsComing(S, new, t, waited)
    OBVIOUS
  <2>1. CloudsComing(S, mem, steps, waited)
    BY DEF OnTheAir
  <2>2. ASSUME NEW x \in ToSet(steps), x.do = "settle" PROVE x \in ToSet(t)
    BY <1>1, <1>2, <2>2
  <2>3. \A i \in 1 .. CloudSlots : new[<<"sky", i>>] = mem[<<"sky", i>>]
    <3>1. \A i : <<"sky", i>>[1] = "sky"
      OBVIOUS
    <3>2. \A i : h.ref # <<"sky", i>>
      BY <1>3, <3>1 DEF AirNames
    <3> QED
      BY <1>5, <3>2 DEF h
  <2>4. Settled(mem, S.cloud) => Settled(new, S.cloud)
    BY <2>3 DEF Settled
  <2> QED
    BY <1>4, <2>1, <2>2, <2>4 DEF CloudsComing
<1> QED
  BY <1>1, <1>7, <1>8, <1>9 DEF OnTheAir, t

\* The clouds that show are the ones written, when none is left to write.
LEMMA ShowOnAir ==
    ASSUME NEW S, NEW mem, NEW new, NEW steps, NEW waited, OnTheAir(S, mem, steps, waited),
           \A ref \in Datarefs : ref[1] # "sky" => new[ref] = mem[ref],
           \A i \in 1 .. CloudSlots : new[<<"sky", i>>] = mem[<<"cloud", i>>]
    PROVE  OnTheAir(S, new, steps, waited)
<1>1. \A i \in 1 .. WindLevels : new[<<"wind", i>>] = mem[<<"wind", i>>]
  <2>1. \A i \in 1 .. WindLevels : <<"wind", i>> \in Datarefs /\ <<"wind", i>>[1] # "sky"
    BY DEF Datarefs
  <2> QED
    BY <2>1
<1>2. \A ref, value : WantsAir(S, mem, ref, value) => WantsAir(S, new, ref, value)
  BY <1>1, WantStays
<1>3. WindAltitudes(new) = WindAltitudes(mem)
  BY <1>1 DEF WindAltitudes
<1>4. ASSUME NEW x \in ToSet(steps) PROVE FitsAir(S, new, steps, x)
  <2>1. FitsAir(S, mem, steps, x)
    BY DEF OnTheAir
  <2> QED
    BY <1>2, <1>3, <2>1 DEF FitsAir
<1>5. ASSUME NEW ref \in AirAims(S)
      PROVE  \/ \E x \in ToSet(steps) : Reaches(x, ref)
             \/ NoneBefore(steps, Turn[ref[1]]) /\ WantsAir(S, new, ref, new[ref])
  <2>1. ref \in Datarefs /\ ref[1] # "sky"
    BY DEF AirAims
  <2>2. new[ref] = mem[ref]
    BY <2>1
  <2> QED
    BY <1>2, <2>2 DEF OnTheAir
<1>6. States(S, "cloud") => CloudsComing(S, new, steps, waited)
  <2> SUFFICES ASSUME States(S, "cloud"), ~(\E x \in ToSet(steps) : x.do = "settle"),
                      NoneBefore(steps, Turn["settle"])
               PROVE  Settled(new, S.cloud)
    BY DEF OnTheAir, CloudsComing
  <2> SUFFICES ASSUME NEW i \in 1 .. CloudSlots PROVE new[<<"sky", i>>] = SlotOf(S.cloud, i)
    BY DEF Settled
  <2> DEFINE ref == <<"cloud", i>>
  <2>1. ref \in AirAims(S) /\ ref[1] = "cloud"
    BY DEF AirAims, Datarefs
  <2>2. ASSUME NEW x \in ToSet(steps), Reaches(x, ref) PROVE FALSE
    <3>1. x.do = "write" /\ x.ref = ref
      BY <2>1, <2>2 DEF Reaches
    <3>2. TurnOf(x) >= 3 /\ TurnOf(x) = Turn["cloud"]
      BY <2>1, <3>1, TurnIs DEF NoneBefore, TurnOf
    <3> QED
      BY <3>2, TurnIs
  <2>3. WantsAir(S, mem, ref, mem[ref])
    <3> HIDE DEF ref
    <3> QED
      BY <2>1, <2>2 DEF OnTheAir
  <2>4. mem[ref] = SlotOf(S.cloud, i)
    BY <2>3 DEF WantsAir
  <2> QED
    BY <2>4
<1> QED
  BY <1>4, <1>5, <1>6 DEF OnTheAir

\* A step that only waits or checks.
LEMMA WaitOnAir ==
    ASSUME NEW S, NEW mem, NEW steps, NEW waited, NEW still, IsList(steps), steps # <<>>,
           OnTheAir(S, mem, steps, waited), Head(steps).do \in {"settle", "check"},
           still => waited,
           Head(steps).do = "settle" /\ still => Settled(mem, Head(steps).layers)
    PROVE  OnTheAir(S, mem, Tail(steps), still)
<1> DEFINE h == Head(steps)
           t == Tail(steps)
<1>1. /\ NoneBefore(steps, TurnOf(h)) /\ IsList(t) /\ InTurn(t)
      /\ ToSet(steps) = {h} \cup ToSet(t)
  BY AirHead DEF OnTheAir
<1>2. FitsAir(S, mem, steps, h) /\ h.do \in {"settle", "check"}
  BY <1>1 DEF OnTheAir
<1>3. \A n : NoneBefore(steps, n) => NoneBefore(t, n)
  BY <1>1, FewerBefore
<1>4. h.do = "settle" /\ still => Settled(mem, h.layers)
  OBVIOUS
<1> HIDE DEF h
<1>5. ASSUME NEW x \in ToSet(t) PROVE FitsAir(S, mem, t, x)
  <2>1. FitsAir(S, mem, steps, x)
    BY <1>1 DEF OnTheAir
  <2> QED
    BY <1>3, <2>1 DEF FitsAir
<1>6. ASSUME NEW ref \in AirAims(S)
      PROVE  \/ \E x \in ToSet(t) : Reaches(x, ref)
             \/ NoneBefore(t, Turn[ref[1]]) /\ WantsAir(S, mem, ref, mem[ref])
  <2>1. ~Reaches(h, ref)
    BY <1>2 DEF Reaches
  <2> QED
    BY <1>1, <1>3, <2>1 DEF OnTheAir
<1>7. States(S, "cloud") => CloudsComing(S, mem, t, still)
  <2> SUFFICES ASSUME States(S, "cloud") PROVE CloudsComing(S, mem, t, still)
    OBVIOUS
  <2>1. CloudsComing(S, mem, steps, waited)
    BY DEF OnTheAir
  <2>2. CASE h.do = "settle"
    <3>1. NoneBefore(t, Turn["settle"])
      BY <1>1, <1>3, <2>2 DEF TurnOf
    <3>2. h.layers = S.cloud
      BY <1>2, <2>2 DEF FitsAir
    <3> QED
      BY <1>4, <2>2, <3>1, <3>2 DEF CloudsComing
  <2>3. CASE h.do # "settle"
    BY <1>1, <1>3, <2>1, <2>3 DEF CloudsComing
  <2> QED
    BY <2>2, <2>3
<1> HIDE DEF t
<1> QED
  BY <1>1, <1>5, <1>6, <1>7 DEF OnTheAir, t

\* Steps that come in turn, one list after another.
LEMMA TurnJoin ==
    ASSUME NEW s, NEW t, IsList(s), IsList(t), InTurn(s), InTurn(t),
           \A x \in ToSet(s), y \in ToSet(t) : TurnOf(x) <= TurnOf(y)
    PROVE  InTurn(s \o t)
<1>1. /\ IsList(s \o t) /\ Len(s \o t) = Len(s) + Len(t)
      /\ \A i \in 1 .. Len(s) : (s \o t)[i] = s[i]
      /\ \A i \in 1 .. Len(t) : (s \o t)[Len(s) + i] = t[i]
  BY ListJoin
<1> DEFINE q == s \o t
<1>2. DOMAIN q = 1 .. Len(s) + Len(t)
  BY <1>1, ListFacts
<1>3. /\ Len(s) \in Nat /\ DOMAIN s = 1 .. Len(s) /\ \A i \in 1 .. Len(s) : s[i] \in ToSet(s)
      /\ Len(t) \in Nat /\ DOMAIN t = 1 .. Len(t) /\ \A i \in 1 .. Len(t) : t[i] \in ToSet(t)
  BY ListFacts
<1> HIDE DEF q
<1>4. ASSUME NEW i \in DOMAIN q PROVE \/ i \in 1 .. Len(s) /\ q[i] = s[i]
                                      \/ i - Len(s) \in 1 .. Len(t) /\ q[i] = t[i - Len(s)]
  <2>1. CASE i \in 1 .. Len(s)
    BY <1>1, <2>1 DEF q
  <2>2. CASE i \notin 1 .. Len(s)
    <3>1. i - Len(s) \in 1 .. Len(t) /\ Len(s) + (i - Len(s)) = i
      BY <1>2, <1>3, <2>2
    <3> QED
      BY <1>1, <3>1 DEF q
  <2> QED
    BY <2>1, <2>2
<1>5. ASSUME NEW j \in DOMAIN q, NEW k \in DOMAIN q, j <= k PROVE TurnOf(q[j]) <= TurnOf(q[k])
  <2>1. CASE k \in 1 .. Len(s)
    <3>1. j \in 1 .. Len(s)
      BY <1>2, <1>3, <1>5, <2>1
    <3>2. q[j] = s[j] /\ q[k] = s[k]
      BY <1>1, <2>1, <3>1 DEF q
    <3> QED
      BY <1>3, <1>5, <2>1, <3>1, <3>2 DEF InTurn
  <2>2. CASE k \notin 1 .. Len(s)
    <3>1. k - Len(s) \in 1 .. Len(t) /\ q[k] = t[k - Len(s)]
      BY <1>4, <2>2
    <3>2. CASE j \in 1 .. Len(s)
      <4>1. q[j] = s[j]
        BY <1>1, <3>2 DEF q
      <4> QED
        BY <1>3, <3>1, <3>2, <4>1
    <3>3. CASE j \notin 1 .. Len(s)
      <4>1. j - Len(s) \in 1 .. Len(t) /\ q[j] = t[j - Len(s)]
        BY <1>4, <3>3
      <4>2. j - Len(s) <= k - Len(s)
        BY <1>2, <1>3, <1>5
      <4> QED
        BY <1>3, <3>1, <4>1, <4>2 DEF InTurn
    <3> QED
      BY <3>2, <3>3
  <2> QED
    BY <2>1, <2>2
<1> QED
  BY <1>5 DEF InTurn, q

\* The first step gives way to steps of its turn that reach what it reached.
LEMMA JoinOnAir ==
    ASSUME NEW S, NEW mem, NEW steps, NEW waited, NEW X, IsList(steps), steps # <<>>,
           OnTheAir(S, mem, steps, waited), Head(steps).do # "settle", IsList(X),
           \A x \in ToSet(X) : TurnOf(x) = TurnOf(Head(steps)),
           NoneBefore(X \o Tail(steps), TurnOf(Head(steps))) =>
               \A x \in ToSet(X) : FitsAir(S, mem, X \o Tail(steps), x),
           \A ref \in AirAims(S) : Reaches(Head(steps), ref) => \E x \in ToSet(X) : Reaches(x, ref)
    PROVE  OnTheAir(S, mem, X \o Tail(steps), waited)
<1> DEFINE h == Head(steps)
           t == Tail(steps)
           e == X \o t
<1>1. /\ NoneBefore(steps, TurnOf(h)) /\ IsList(t) /\ InTurn(t)
      /\ ToSet(steps) = {h} \cup ToSet(t)
  BY AirHead DEF OnTheAir
<1>2. ToSet(e) = ToSet(X) \cup ToSet(t)
  <2> HIDE DEF t
  <2> QED
    BY <1>1, ListJoin
<1>3. TurnOf(h) \in Nat
  <2>1. FitsAir(S, mem, steps, h)
    BY <1>1 DEF OnTheAir
  <2> HIDE DEF h
  <2> QED
    BY <2>1, TurnIsNat
<1> HIDE DEF h, t
<1>4. \A x \in ToSet(X) : TurnOf(x) = TurnOf(h)
  BY DEF h
<1>5. InTurn(e)
  <2>1. InTurn(X)
    <3> SUFFICES ASSUME NEW j \in DOMAIN X, NEW k \in DOMAIN X PROVE TurnOf(X[j]) <= TurnOf(X[k])
      BY DEF InTurn
    <3>1. X[j] \in ToSet(X) /\ X[k] \in ToSet(X)
      BY ListFacts
    <3> QED
      BY <1>3, <1>4, <3>1
  <2>2. ASSUME NEW x \in ToSet(X), NEW y \in ToSet(t) PROVE TurnOf(x) <= TurnOf(y)
    <3>1. TurnOf(y) >= TurnOf(h) /\ TurnOf(x) = TurnOf(h)
      BY <1>1, <1>4 DEF NoneBefore
    <3> QED
      BY <3>1
  <2> QED
    BY <1>1, <2>1, <2>2, TurnJoin
<1>6. ASSUME NEW n, NoneBefore(steps, n) PROVE NoneBefore(e, n)
  BY <1>1, <1>2, <1>4, <1>6 DEF NoneBefore
<1>7. NoneBefore(e, TurnOf(h))
  BY <1>1, <1>6
<1>8. ASSUME NEW x \in ToSet(e) PROVE FitsAir(S, mem, e, x)
  <2>1. CASE x \in ToSet(X)
    BY <1>7, <2>1 DEF h, t
  <2>2. CASE x \in ToSet(t)
    <3>1. FitsAir(S, mem, steps, x)
      BY <1>1, <2>2 DEF OnTheAir
    <3> HIDE DEF e
    <3> QED
      BY <1>6, <3>1 DEF FitsAir
  <2> QED
    BY <1>2, <2>1, <2>2
<1>9. ASSUME NEW ref \in AirAims(S)
      PROVE  \/ \E x \in ToSet(e) : Reaches(x, ref)
             \/ NoneBefore(e, Turn[ref[1]]) /\ WantsAir(S, mem, ref, mem[ref])
  <2>1. Reaches(h, ref) => \E x \in ToSet(X) : Reaches(x, ref)
    BY DEF h
  <2> HIDE DEF e
  <2> QED
    BY <1>1, <1>2, <1>6, <2>1 DEF OnTheAir
<1>10. States(S, "cloud") => CloudsComing(S, mem, e, waited)
  <2>1. h.do # "settle"
    BY DEF h
  <2> HIDE DEF e
  <2> QED
    BY <1>1, <1>2, <1>6, <2>1 DEF OnTheAir, CloudsComing
<1>11. OnTheAir(S, mem, e, waited)
  <2> HIDE DEF e
  <2> QED
    BY <1>5, <1>8, <1>9, <1>10 DEF OnTheAir
<1> QED
  BY <1>11 DEF t

\* Asking for manual weather, or not.
LEMMA ManualOnAir ==
    ASSUME NEW S, NEW steps, NEW waited, IsList(steps), steps # <<>>,
           OnTheAir(S, sim, steps, waited), Head(steps).do = "manual"
    PROVE  OnTheAir(S, sim, Expand(Head(steps)) \o Tail(steps), waited)
<1> DEFINE h == Head(steps)
           u == Write("update", 1)
           v == Write("change", 3)
           w == [do |-> "check"]
           X == Expand(h)
           e == X \o Tail(steps)
<1>1. X = IF sim[<<"source", 0>>] = 0 THEN <<>> ELSE <<u, v, w>>
  BY DEF Expand
<1>2. /\ u.do = "write" /\ u.ref = <<"update", 0>> /\ v.do = "write" /\ v.ref = <<"change", 0>>
      /\ w.do = "check"
  BY DEF Write, WriteAt
<1>3. TurnOf(h) = 0 /\ TurnOf(u) = 0 /\ TurnOf(v) = 0 /\ TurnOf(w) = 0
  BY <1>2, TurnIs DEF TurnOf
<1> HIDE DEF u, v, w, h
<1>4. FitsAir(S, sim, e, u) /\ FitsAir(S, sim, e, v)
  <2>1. WantsAir(S, sim, <<"update", 0>>, u.value) /\ WantsAir(S, sim, <<"change", 0>>, v.value)
    BY DEF WantsAir
  <2> HIDE DEF e
  <2> QED
    BY <1>2, <2>1 DEF FitsAir, AirNames
<1>5. FitsAir(S, sim, e, w)
  <2> HIDE DEF e
  <2> QED
    BY <1>2 DEF FitsAir
<1>6. IsList(X) /\ ToSet(X) \subseteq {u, v, w}
  BY <1>1, ListThree, ListEmpty
<1> HIDE DEF X
<1>7. h.do = "manual" /\ \A ref : ~Reaches(h, ref)
  BY DEF Reaches, h
<1> QED
  BY <1>3, <1>4, <1>5, <1>6, <1>7, JoinOnAir DEF h, X

\* The temperature at sea level is the one the ladder starts from.
LEMMA LadderIs ==
    ASSUME NEW t \in Int, NEW a \in Int
    PROVE  /\ TemperatureAt(a, IsaDeviation(t, 0)) = t - 15 + IsaTemperature(a)
           /\ TemperatureAt(a, IsaDeviation(t, 0)) \in Int
<1>1. IsaTemperature(a) \in Int
  BY DEF IsaTemperature, Tropopause
<1>2. IsaTemperature(0) = 15
  BY DEF IsaTemperature, Tropopause
<1> QED
  BY <1>1, <1>2 DEF TemperatureAt, IsaDeviation

LEMMA AltitudeAt ==
    ASSUME SimOK, NEW i \in 1 .. WindLevels
    PROVE  WindAltitudes(sim)[i] = sim[<<"wind", i>>].altitude /\ sim[<<"wind", i>>].altitude \in Int
BY DEF WindAltitudes, SimOK

LEMMA LadderOnAir ==
    ASSUME SimOK, NEW S, NEW steps, NEW waited, IsList(steps), steps # <<>>,
           OnTheAir(S, sim, steps, waited), Head(steps).do = "ladder"
    PROVE  OnTheAir(S, sim, Expand(Head(steps)) \o Tail(steps), waited)
<1> DEFINE h == Head(steps)
           altitudes == WindAltitudes(sim)
           Of(i) == WriteAt("aloft", i, TemperatureAt(altitudes[i], IsaDeviation(S.temperature, 0)))
           X == Expand(h)
           e == X \o Tail(steps)
<1>1. /\ NoneBefore(steps, TurnOf(h)) /\ ToSet(steps) = {h} \cup ToSet(Tail(steps))
  BY AirHead DEF OnTheAir
<1>2. h.do = "ladder" /\ States(S, "temperature") /\ h.temperature = S.temperature
  BY <1>1 DEF OnTheAir, FitsAir
<1>3. S.temperature \in Int
  BY <1>2 DEF OnTheAir, AirTyped, FieldsTyped, States
<1> HIDE DEF h
<1>4. X = LadderWrites(altitudes, S.temperature)
  BY <1>2 DEF Expand
<1>5. DOMAIN altitudes = 1 .. WindLevels /\ WindLevels \in Nat
  BY AltitudesRead, ArraysAssumption
<1>6. X = [i \in 1 .. WindLevels |-> Of(i)]
  BY <1>4, <1>5 DEF LadderWrites
<1>7. IsList(X) /\ ToSet(X) = {X[i] : i \in 1 .. WindLevels} /\ \A i \in 1 .. WindLevels : X[i] = Of(i)
  <2>1. \A i \in 1 .. WindLevels : X[i] = Of(i)
    BY <1>6
  <2>2. X \in [1 .. WindLevels -> {Of(i) : i \in 1 .. WindLevels}]
    BY <1>6
  <2> HIDE DEF X, Of
  <2> QED
    BY <1>5, <2>1, <2>2, ListBy
<1>8. ASSUME NEW i \in 1 .. WindLevels
      PROVE  Of(i).do = "write" /\ Of(i).ref = <<"aloft", i>> /\ Of(i).value = AirAt(S, sim, i)
  <2>1. Of(i).do = "write" /\ Of(i).ref = <<"aloft", i>>
        /\ Of(i).value = TemperatureAt(altitudes[i], IsaDeviation(S.temperature, 0))
    BY DEF WriteAt
  <2>2. altitudes[i] = sim[<<"wind", i>>].altitude /\ altitudes[i] \in Int
    BY AltitudeAt
  <2> HIDE DEF altitudes
  <2> QED
    BY <1>3, <2>1, <2>2, LadderIs DEF AirAt
<1> HIDE DEF X, Of, altitudes
<1>9. TurnOf(h) = 6 /\ Turn["aloft"] = 6
  BY <1>2, TurnIs DEF TurnOf
<1>10. ASSUME NEW x \in ToSet(X) PROVE x.do = "write" /\ TurnOf(x) = 6 /\ (NoneBefore(e, 6) => FitsAir(S, sim, e, x))
  <2>1. PICK i \in 1 .. WindLevels : x = Of(i)
    BY <1>7
  <2>2. x.do = "write" /\ x.ref = <<"aloft", i>> /\ x.value = AirAt(S, sim, i)
    BY <1>8, <2>1
  <2>3. x.ref[1] = "aloft"
    BY <2>2
  <2>4. TurnOf(x) = 6
    BY <1>9, <2>2, <2>3 DEF TurnOf
  <2>5. WantsAir(S, sim, x.ref, x.value)
    BY <2>2 DEF WantsAir
  <2> HIDE DEF e
  <2> QED
    BY <1>9, <2>2, <2>3, <2>4, <2>5 DEF FitsAir, AirNames
<1>11. ASSUME NEW ref \in AirAims(S), Reaches(h, ref) PROVE \E x \in ToSet(X) : Reaches(x, ref)
  <2>1. ref \in Datarefs /\ ref[1] = "aloft"
    BY <1>2, <1>11 DEF AirAims, Reaches
  <2>2. PICK i \in 1 .. WindLevels : ref = <<"aloft", i>>
    BY <2>1 DEF Datarefs, Scalars
  <2>3. X[i] \in ToSet(X) /\ Reaches(X[i], ref)
    BY <1>7, <1>8, <2>2 DEF Reaches
  <2> QED
    BY <2>3
<1> QED
  BY <1>2, <1>7, <1>9, <1>10, <1>11, JoinOnAir DEF h, X

\* The altitudes are read first, the temperature then.
LEMMA DewpointsOnAir ==
    ASSUME SimOK, NEW S, NEW steps, NEW waited, IsList(steps), steps # <<>>,
           OnTheAir(S, sim, steps, waited), Head(steps).do = "dewpoints"
    PROVE  OnTheAir(S, sim, Expand(Head(steps)) \o Tail(steps), waited)
<1> DEFINE h == Head(steps)
           w == [do |-> "below", altitudes |-> WindAltitudes(sim), dewpoint |-> h.dewpoint]
           X == Expand(h)
           e == X \o Tail(steps)
<1>1. /\ NoneBefore(steps, TurnOf(h)) /\ ToSet(steps) = {h} \cup ToSet(Tail(steps))
  BY AirHead DEF OnTheAir
<1>2. h.do = "dewpoints" /\ States(S, "dewpoint") /\ h.dewpoint = S.dewpoint
  BY <1>1 DEF OnTheAir, FitsAir
<1> HIDE DEF h
<1>3. X = <<w>>
  BY <1>2 DEF Expand
<1>4. w.do = "below" /\ w.altitudes = WindAltitudes(sim) /\ w.dewpoint = S.dewpoint
  BY <1>2
<1> HIDE DEF w
<1>5. IsList(X) /\ ToSet(X) = {w}
  BY <1>3, ListOne
<1>6. TurnOf(h) = 7 /\ TurnOf(w) = 7 /\ Turn["below"] = 7
  BY <1>2, <1>4, TurnIs DEF TurnOf
<1> HIDE DEF X
<1>7. NoneBefore(e, 7) => FitsAir(S, sim, e, w)
  <2> HIDE DEF e
  <2> QED
    BY <1>2, <1>4, <1>6 DEF FitsAir
<1>8. \A ref : Reaches(h, ref) => Reaches(w, ref)
  BY <1>2, <1>4 DEF Reaches
<1> QED
  BY <1>2, <1>5, <1>6, <1>7, <1>8, JoinOnAir DEF h, X

LEMMA BelowOnAir ==
    ASSUME SimOK, NEW S, NEW steps, NEW waited, IsList(steps), steps # <<>>,
           OnTheAir(S, sim, steps, waited), Head(steps).do = "below"
    PROVE  OnTheAir(S, sim, Expand(Head(steps)) \o Tail(steps), waited)
<1> DEFINE h == Head(steps)
           altitudes == WindAltitudes(sim)
           now == sim[<<"temperature", 0>>]
           Value(i) == Smaller(S.dewpoint, TemperatureAt(altitudes[i], IsaDeviation(now, 0)))
           Of(i) == WriteAt("dewpoint", i + 1, Value(i + 1))
           n == WindLevels - 1
           X == Expand(h)
           e == X \o Tail(steps)
<1>1. /\ NoneBefore(steps, TurnOf(h)) /\ ToSet(steps) = {h} \cup ToSet(Tail(steps))
  BY AirHead DEF OnTheAir
<1>2. /\ h.do = "below" /\ States(S, "dewpoint") /\ h.dewpoint = S.dewpoint
      /\ h.altitudes = altitudes
  BY <1>1 DEF OnTheAir, FitsAir
<1>3. S.dewpoint \in Int
  BY <1>2 DEF OnTheAir, AirTyped, FieldsTyped, States
<1> HIDE DEF h
<1>4. X = DewpointWrites(altitudes, S.dewpoint, now)
  BY <1>2 DEF Expand
<1>5. Len(altitudes) = WindLevels /\ WindLevels \in Nat /\ n \in Nat
  BY AltitudesRead, ArraysAssumption DEF MaxWindLayers
<1>6. X = [i \in 1 .. n |-> Of(i)]
  BY <1>4, <1>5 DEF DewpointWrites
<1>7. IsList(X) /\ ToSet(X) = {X[i] : i \in 1 .. n} /\ \A i \in 1 .. n : X[i] = Of(i)
  <2>1. \A i \in 1 .. n : X[i] = Of(i)
    BY <1>6
  <2>2. X \in [1 .. n -> {Of(i) : i \in 1 .. n}]
    BY <1>6
  <2> HIDE DEF X, Of, n
  <2> QED
    BY <1>5, <2>1, <2>2, ListBy
<1>8. TurnOf(h) = 7 /\ Turn["dewpoint"] = 7
  BY <1>2, TurnIs DEF TurnOf
<1>9. States(S, "temperature") => now = S.temperature /\ now \in Int
  <2> SUFFICES ASSUME States(S, "temperature") PROVE now = S.temperature /\ now \in Int
    OBVIOUS
  <2> DEFINE ref == <<"temperature", 0>>
  <2>1. ref \in AirAims(S) /\ ref[1] = "temperature"
    BY DEF AirAims, Datarefs, Scalars, States
  <2>2. ASSUME NEW x \in ToSet(steps), Reaches(x, ref) PROVE FALSE
    <3>1. x.do = "write" /\ x.ref = ref
      BY <2>1, <2>2 DEF Reaches
    <3>2. TurnOf(x) >= 7 /\ TurnOf(x) = Turn["temperature"]
      BY <1>1, <1>8, <2>1, <3>1 DEF NoneBefore, TurnOf
    <3> QED
      BY <3>2, TurnIs
  <2>3. WantsAir(S, sim, ref, sim[ref])
    <3> HIDE DEF ref
    <3> QED
      BY <2>1, <2>2 DEF OnTheAir
  <2>4. now = S.temperature
    BY <2>3 DEF WantsAir, States
  <2> QED
    BY <2>4 DEF OnTheAir, AirTyped, FieldsTyped, States
<1>10. ASSUME NEW i \in 1 .. WindLevels, States(S, "temperature") PROVE Value(i) <= AirAt(S, sim, i)
  <2>1. altitudes[i] = sim[<<"wind", i>>].altitude /\ altitudes[i] \in Int
    BY AltitudeAt
  <2> HIDE DEF altitudes, now
  <2>2. /\ TemperatureAt(altitudes[i], IsaDeviation(now, 0)) = AirAt(S, sim, i)
        /\ TemperatureAt(altitudes[i], IsaDeviation(now, 0)) \in Int
    BY <1>9, <1>10, <2>1, LadderIs DEF AirAt
  <2> QED
    BY <1>3, <2>2 DEF Smaller
<1>11. ASSUME NEW i \in 1 .. n
       PROVE  /\ Of(i).do = "write" /\ Of(i).ref = <<"dewpoint", i + 1>> /\ Of(i).value = Value(i + 1)
              /\ i + 1 \in 2 .. WindLevels
  BY <1>5 DEF WriteAt
<1> HIDE DEF X, Of, altitudes, now, Value
<1>12. ASSUME NEW x \in ToSet(X)
       PROVE  TurnOf(x) = 7 /\ (NoneBefore(e, 7) => FitsAir(S, sim, e, x))
  <2>1. PICK i \in 1 .. n : x = Of(i)
    BY <1>7
  <2> DEFINE k == i + 1
  <2>2. x.do = "write" /\ x.ref = <<"dewpoint", k>> /\ x.value = Value(k) /\ k \in 2 .. WindLevels
    BY <1>11, <2>1
  <2> HIDE DEF k, n
  <2>3. x.ref[1] = "dewpoint" /\ x.ref # <<"dewpoint", 1>>
    BY <2>2
  <2>4. TurnOf(x) = 7
    BY <1>8, <2>2, <2>3 DEF TurnOf
  <2>5. WantsAir(S, sim, x.ref, x.value)
    <3>1. k \in 1 .. WindLevels
      BY <2>2
    <3>2. States(S, "temperature") => Value(k) <= AirAt(S, sim, k)
      BY <1>10, <3>1
    <3> QED
      BY <2>2, <2>3, <3>2 DEF WantsAir
  <2> HIDE DEF e
  <2> QED
    BY <1>8, <2>2, <2>3, <2>4, <2>5 DEF FitsAir, AirNames
<1>13. ASSUME NEW ref \in AirAims(S), Reaches(h, ref) PROVE \E x \in ToSet(X) : Reaches(x, ref)
  <2>1. ref \in Datarefs /\ ref[1] = "dewpoint" /\ ref # <<"dewpoint", 1>>
    BY <1>2, <1>13 DEF AirAims, Reaches
  <2>2. PICK k \in 1 .. WindLevels : ref = <<"dewpoint", k>>
    BY <2>1 DEF Datarefs, Scalars
  <2>3. k - 1 \in 1 .. n /\ (k - 1) + 1 = k
    BY <1>5, <2>1, <2>2
  <2> HIDE DEF n
  <2>4. X[k - 1] \in ToSet(X) /\ X[k - 1] = Of(k - 1)
    BY <1>7, <2>3
  <2>5. Reaches(X[k - 1], ref)
    BY <1>11, <2>2, <2>3, <2>4 DEF Reaches
  <2> QED
    BY <2>4, <2>5
<1> QED
  BY <1>2, <1>7, <1>8, <1>12, <1>13, JoinOnAir DEF h, X

\* A step that reads becomes steps that still bring the air about.
LEMMA ExpandOnAir ==
    ASSUME SimOK, NEW S, NEW steps, NEW waited, IsList(steps), steps # <<>>,
           OnTheAir(S, sim, steps, waited), Head(steps).do \notin {"write", "settle", "check"}
    PROVE  OnTheAir(S, sim, Expand(Head(steps)) \o Tail(steps), waited)
<1>1. Head(steps) \in ToSet(steps)
  BY AirHead DEF OnTheAir
<1>2. Head(steps).do \in {"manual", "ladder", "dewpoints", "below"}
  BY <1>1 DEF OnTheAir, FitsAir
<1> QED
  BY <1>2, ManualOnAir, LadderOnAir, DewpointsOnAir, BelowOnAir

\* A part of a weather plan: its steps fit wherever they stand, and their turns
\* are among the given ones.
Part(S, mem, steps, turns) ==
    /\ IsList(steps) /\ InTurn(steps)
    /\ \A x \in ToSet(steps) : TurnOf(x) \in turns /\ \A any : FitsAir(S, mem, any, x)

LEMMA PartEmpty == ASSUME NEW S, NEW mem, NEW turns PROVE Part(S, mem, <<>>, turns)
<1>1. InTurn(<<>>)
  BY ListEmpty DEF InTurn
<1> QED
  BY <1>1, ListEmpty DEF Part

LEMMA PartOne ==
    ASSUME NEW S, NEW mem, NEW x, TurnOf(x) \in Nat, \A any : FitsAir(S, mem, any, x)
    PROVE  Part(S, mem, <<x>>, {TurnOf(x)}) /\ ToSet(<<x>>) = {x}
<1>1. IsList(<<x>>) /\ ToSet(<<x>>) = {x}
  BY ListOne
<1>2. InTurn(<<x>>)
  <2>1. \A k \in DOMAIN <<x>> : <<x>>[k] = x
    OBVIOUS
  <2> QED
    BY <2>1 DEF InTurn
<1> QED
  BY <1>1, <1>2 DEF Part

LEMMA PartJoin ==
    ASSUME NEW S, NEW mem, NEW s, NEW t, NEW T, NEW U, Part(S, mem, s, T), Part(S, mem, t, U),
           \A a \in T : \A b \in U : a <= b
    PROVE  Part(S, mem, s \o t, T \cup U)
<1> DEFINE q == s \o t
<1>1. IsList(q) /\ ToSet(q) = ToSet(s) \cup ToSet(t)
  BY ListJoin DEF Part
<1>2. ASSUME NEW x \in ToSet(s), NEW y \in ToSet(t) PROVE TurnOf(x) <= TurnOf(y)
  BY DEF Part
<1>3. InTurn(q)
  BY <1>2, TurnJoin DEF Part
<1> HIDE DEF q
<1>4. \A x \in ToSet(q) : TurnOf(x) \in T \cup U /\ \A any : FitsAir(S, mem, any, x)
  BY <1>1 DEF Part
<1> QED
  BY <1>1, <1>3, <1>4 DEF Part, q

\* A write that is wanted, whose value follows from nothing.
LEMMA PartWrite ==
    ASSUME NEW S, NEW mem, NEW name \in AirNames \ {"aloft"}, NEW i, NEW value,
           WantsAir(S, mem, <<name, i>>, value), name = "dewpoint" => i = 1
    PROVE  /\ \A any : FitsAir(S, mem, any, WriteAt(name, i, value))
           /\ TurnOf(WriteAt(name, i, value)) = Turn[name]
           /\ Reaches(WriteAt(name, i, value), <<name, i>>)
<1> DEFINE x == WriteAt(name, i, value)
<1>1. x.do = "write" /\ x.ref = <<name, i>> /\ x.value = value
  BY DEF WriteAt
<1>2. x.ref[1] = name /\ (name = "dewpoint" => x.ref = <<"dewpoint", 1>>)
  BY <1>1
<1> HIDE DEF x
<1>3. WantsAir(S, mem, x.ref, x.value)
  BY <1>1
<1>4. ASSUME NEW any PROVE FitsAir(S, mem, any, x)
  BY <1>1, <1>2, <1>3 DEF FitsAir
<1>5. TurnOf(x) = Turn[name] /\ Reaches(x, <<name, i>>)
  BY <1>1, <1>2 DEF TurnOf, Reaches
<1> QED
  BY <1>4, <1>5 DEF x

\* One write for each index, of one name.
LEMMA PartRow ==
    ASSUME NEW S, NEW mem, NEW n \in Nat, NEW name \in {"wind", "cloud"}, NEW s, NEW V,
           DOMAIN s = 1 .. n, s = [i \in 1 .. n |-> s[i]],
           \A i \in 1 .. n : s[i] = WriteAt(name, i, V[i]) /\ WantsAir(S, mem, <<name, i>>, V[i])
    PROVE  /\ Part(S, mem, s, {Turn[name]})
           /\ \A i \in 1 .. n : \E x \in ToSet(s) : Reaches(x, <<name, i>>)
<1> DEFINE X == {s[i] : i \in 1 .. n}
<1>1. IsList(s) /\ ToSet(s) = X
  <2>1. s \in [1 .. n -> X]
    OBVIOUS
  <2> HIDE DEF X
  <2> QED
    BY <2>1, ListBy DEF X
<1>2. name \in AirNames \ {"aloft"} /\ name # "dewpoint" /\ Turn[name] \in Nat
  BY TurnIs DEF AirNames
<1>3. ASSUME NEW i \in 1 .. n
      PROVE  /\ \A any : FitsAir(S, mem, any, s[i])
             /\ TurnOf(s[i]) = Turn[name] /\ Reaches(s[i], <<name, i>>)
  BY <1>2, PartWrite
<1>4. InTurn(s)
  <2>1. \A i \in DOMAIN s : TurnOf(s[i]) = Turn[name]
    BY <1>3
  <2> QED
    BY <1>2, <2>1 DEF InTurn
<1>5. ASSUME NEW x \in ToSet(s)
      PROVE  TurnOf(x) \in {Turn[name]} /\ \A any : FitsAir(S, mem, any, x)
  <2>1. PICK i \in 1 .. n : x = s[i]
    BY <1>1
  <2>2. TurnOf(x) = Turn[name] /\ \A any : FitsAir(S, mem, any, x)
    BY <1>3, <2>1
  <2> QED
    BY <1>2, <2>2
<1> QED
  BY <1>1, <1>3, <1>4, <1>5 DEF Part

LEMMA PartWind ==
    ASSUME NEW S, NEW mem, States(S, "wind")
    PROVE  /\ Part(S, mem, WindWrites(S.wind), {1})
           /\ \A i \in 1 .. WindLevels : \E x \in ToSet(WindWrites(S.wind)) : Reaches(x, <<"wind", i>>)
<1> DEFINE s == WindWrites(S.wind)
           V == [i \in 1 .. WindLevels |-> LevelOf(S.wind, i)]
<1>1. WindLevels \in Nat /\ Turn["wind"] = 1
  BY ArraysAssumption, TurnIs
<1>2. s = [i \in 1 .. WindLevels |-> WriteAt("wind", i, LevelOf(S.wind, i))]
  BY DEF WindWrites
<1>3. \A i \in 1 .. WindLevels : V[i] = LevelOf(S.wind, i) /\ s[i] = WriteAt("wind", i, V[i])
  BY <1>2
<1>4. ASSUME NEW i \in 1 .. WindLevels PROVE WantsAir(S, mem, <<"wind", i>>, V[i])
  <2> HIDE DEF V, s
  <2> QED
    BY <1>3 DEF WantsAir
<1>5. DOMAIN s = 1 .. WindLevels /\ s = [i \in 1 .. WindLevels |-> s[i]]
  BY <1>2
<1> HIDE DEF s, V
<1>6. /\ Part(S, mem, s, {Turn["wind"]})
      /\ \A i \in 1 .. WindLevels : \E x \in ToSet(s) : Reaches(x, <<"wind", i>>)
  BY <1>1, <1>3, <1>4, <1>5, PartRow
<1> QED
  BY <1>1, <1>6 DEF s

LEMMA PartClouds ==
    ASSUME NEW S, NEW mem, States(S, "cloud")
    PROVE  /\ Part(S, mem, CloudSteps(S.cloud), {2, 3})
           /\ \A i \in 1 .. CloudSlots : \E x \in ToSet(CloudSteps(S.cloud)) : Reaches(x, <<"cloud", i>>)
           /\ \E x \in ToSet(CloudSteps(S.cloud)) : x.do = "settle"
<1> DEFINE s == [slot \in 1 .. CloudSlots |-> WriteAt("cloud", slot, SlotOf(S.cloud, slot))]
           V == [i \in 1 .. CloudSlots |-> SlotOf(S.cloud, i)]
           w == [do |-> "settle", layers |-> S.cloud]
<1>1. CloudSlots \in Nat /\ Turn["cloud"] = 2 /\ Turn["settle"] = 3
  BY ArraysAssumption, TurnIs
<1>2. CloudSteps(S.cloud) = s \o <<w>>
  BY DEF CloudSteps
<1>3. \A i \in 1 .. CloudSlots : V[i] = SlotOf(S.cloud, i) /\ s[i] = WriteAt("cloud", i, V[i])
  OBVIOUS
<1>4. ASSUME NEW i \in 1 .. CloudSlots PROVE WantsAir(S, mem, <<"cloud", i>>, V[i])
  <2> HIDE DEF V, s
  <2> QED
    BY <1>3 DEF WantsAir
<1>5. DOMAIN s = 1 .. CloudSlots /\ s = [i \in 1 .. CloudSlots |-> s[i]]
  OBVIOUS
<1>6. w.do = "settle" /\ w.layers = S.cloud
  OBVIOUS
<1> HIDE DEF s, V, w
<1>7. /\ Part(S, mem, s, {2})
      /\ \A i \in 1 .. CloudSlots : \E x \in ToSet(s) : Reaches(x, <<"cloud", i>>)
  <2>1. /\ Part(S, mem, s, {Turn["cloud"]})
        /\ \A i \in 1 .. CloudSlots : \E x \in ToSet(s) : Reaches(x, <<"cloud", i>>)
    BY <1>1, <1>3, <1>4, <1>5, PartRow
  <2> QED
    BY <1>1, <2>1
<1>8. Part(S, mem, <<w>>, {3}) /\ ToSet(<<w>>) = {w}
  <2>1. TurnOf(w) = 3
    BY <1>1, <1>6 DEF TurnOf
  <2>2. ASSUME NEW any PROVE FitsAir(S, mem, any, w)
    BY <1>6 DEF FitsAir
  <2> QED
    BY <2>1, <2>2, PartOne
<1> DEFINE c == <<w>>
<1> HIDE DEF c
<1>9. Part(S, mem, s \o c, {2, 3}) /\ ToSet(s \o c) = ToSet(s) \cup ToSet(c)
  <2>1. Part(S, mem, s, {2}) /\ Part(S, mem, c, {3})
    BY <1>7, <1>8 DEF c
  <2>2. Part(S, mem, s \o c, {2} \cup {3})
    BY <2>1, PartJoin
  <2>3. {2} \cup {3} = {2, 3}
    OBVIOUS
  <2>4. ToSet(s \o c) = ToSet(s) \cup ToSet(c)
    BY <2>1, ListJoin DEF Part
  <2> QED
    BY <2>2, <2>3, <2>4
<1> QED
  BY <1>2, <1>6, <1>7, <1>8, <1>9 DEF c

\* A field that is one write.
LEMMA PartField ==
    ASSUME NEW S, NEW mem, NEW stated \in BOOLEAN, NEW name \in {"visibility", "qnh", "rain", "friction"}, NEW value,
           stated => WantsAir(S, mem, <<name, 0>>, value)
    PROVE  /\ Part(S, mem, WriteIf(stated, name, value), {Turn[name]})
           /\ stated => \E x \in ToSet(WriteIf(stated, name, value)) : Reaches(x, <<name, 0>>)
<1>1. name \in AirNames \ {"aloft"} /\ name # "dewpoint" /\ Turn[name] \in Nat
  BY TurnIs DEF AirNames
<1> DEFINE w == WriteAt(name, 0, value)
<1>2. CASE stated
  <2>1. WriteIf(stated, name, value) = <<w>>
    BY <1>2 DEF WriteIf, Write
  <2>2. /\ \A any : FitsAir(S, mem, any, w)
        /\ TurnOf(w) = Turn[name] /\ Reaches(w, <<name, 0>>)
    BY <1>1, <1>2, PartWrite
  <2> HIDE DEF w
  <2>3. Part(S, mem, <<w>>, {Turn[name]}) /\ ToSet(<<w>>) = {w}
    BY <1>1, <2>2, PartOne
  <2> QED
    BY <2>1, <2>2, <2>3
<1>3. CASE ~stated
  BY <1>3, PartEmpty DEF WriteIf
<1> QED
  BY <1>2, <1>3

\* A field that is one write, and what is read for another.
LEMMA PartPair ==
    ASSUME NEW S, NEW mem, NEW x, NEW y, TurnOf(x) \in Nat, TurnOf(y) \in Nat, TurnOf(x) <= TurnOf(y),
           \A any : FitsAir(S, mem, any, x) /\ FitsAir(S, mem, any, y)
    PROVE  Part(S, mem, <<x, y>>, {TurnOf(x), TurnOf(y)}) /\ ToSet(<<x, y>>) = {x, y}
<1> DEFINE s == <<x, y>>
<1>1. IsList(s) /\ ToSet(s) = {x, y}
  BY ListTwo
<1>2. s[1] = x /\ s[2] = y /\ DOMAIN s = {1, 2}
  OBVIOUS
<1> HIDE DEF s
<1>3. InTurn(s)
  <2> SUFFICES ASSUME NEW j \in {1, 2}, NEW k \in {1, 2}, j <= k PROVE TurnOf(s[j]) <= TurnOf(s[k])
    BY <1>2 DEF InTurn
  <2> QED
    BY <1>2
<1>4. \A z \in ToSet(s) : TurnOf(z) \in {TurnOf(x), TurnOf(y)} /\ \A any : FitsAir(S, mem, any, z)
  BY <1>1
<1> QED
  BY <1>1, <1>3, <1>4 DEF Part, s

LEMMA PartTemperature ==
    ASSUME NEW S, NEW mem, States(S, "temperature")
    PROVE  LET s == << Write("temperature", S.temperature),
                       [do |-> "ladder", temperature |-> S.temperature] >>
           IN /\ Part(S, mem, s, {5, 6})
              /\ \E x \in ToSet(s) : Reaches(x, <<"temperature", 0>>)
              /\ \E x \in ToSet(s) : \A i : Reaches(x, <<"aloft", i>>)
<1> DEFINE x == WriteAt("temperature", 0, S.temperature)
           y == [do |-> "ladder", temperature |-> S.temperature]
<1>1. /\ \A any : FitsAir(S, mem, any, x)
      /\ TurnOf(x) = Turn["temperature"] /\ Reaches(x, <<"temperature", 0>>)
  <2>1. WantsAir(S, mem, <<"temperature", 0>>, S.temperature)
    BY DEF WantsAir
  <2>2. "temperature" \in AirNames \ {"aloft"}
    BY DEF AirNames
  <2> QED
    BY <2>1, <2>2, PartWrite
<1>2. y.do = "ladder" /\ y.temperature = S.temperature
  OBVIOUS
<1>3. Write("temperature", S.temperature) = x
  BY DEF Write
<1> HIDE DEF x, y
<1>4. TurnOf(x) = 5 /\ TurnOf(y) = 6
  BY <1>1, <1>2, TurnIs DEF TurnOf
<1>5. ASSUME NEW any PROVE FitsAir(S, mem, any, y)
  BY <1>2 DEF FitsAir
<1>6. Part(S, mem, <<x, y>>, {5, 6}) /\ ToSet(<<x, y>>) = {x, y}
  BY <1>1, <1>4, <1>5, PartPair
<1>7. \A i : Reaches(y, <<"aloft", i>>)
  BY <1>2 DEF Reaches
<1> DEFINE s == <<x, y>>
<1> HIDE DEF s
<1>8. /\ Part(S, mem, s, {5, 6})
      /\ \E z \in ToSet(s) : Reaches(z, <<"temperature", 0>>)
      /\ \E z \in ToSet(s) : \A i : Reaches(z, <<"aloft", i>>)
  BY <1>1, <1>6, <1>7 DEF s
<1> QED
  BY <1>3, <1>8 DEF s, y

LEMMA PartDewpoint ==
    ASSUME NEW S, NEW mem, States(S, "dewpoint")
    PROVE  LET s == << WriteAt("dewpoint", 1, S.dewpoint),
                       [do |-> "dewpoints", dewpoint |-> S.dewpoint] >>
           IN /\ Part(S, mem, s, {7})
              /\ \A i : \E x \in ToSet(s) : Reaches(x, <<"dewpoint", i>>)
<1> DEFINE x == WriteAt("dewpoint", 1, S.dewpoint)
           y == [do |-> "dewpoints", dewpoint |-> S.dewpoint]
<1>1. /\ \A any : FitsAir(S, mem, any, x)
      /\ TurnOf(x) = Turn["dewpoint"] /\ Reaches(x, <<"dewpoint", 1>>)
  <2>1. WantsAir(S, mem, <<"dewpoint", 1>>, S.dewpoint)
    BY DEF WantsAir
  <2>2. "dewpoint" \in AirNames \ {"aloft"}
    BY DEF AirNames
  <2> QED
    BY <2>1, <2>2, PartWrite
<1>2. y.do = "dewpoints" /\ y.dewpoint = S.dewpoint
  OBVIOUS
<1> DEFINE s == <<x, y>>
<1> HIDE DEF x, y
<1>4. TurnOf(x) = 7 /\ TurnOf(y) = 7
  BY <1>1, <1>2, TurnIs DEF TurnOf
<1>5. ASSUME NEW any PROVE FitsAir(S, mem, any, y)
  BY <1>2 DEF FitsAir
<1>6. Part(S, mem, s, {7}) /\ ToSet(s) = {x, y}
  BY <1>1, <1>4, <1>5, PartPair
<1> HIDE DEF s
<1>7. ASSUME NEW i PROVE \E z \in ToSet(s) : Reaches(z, <<"dewpoint", i>>)
  <2>1. CASE i = 1
    BY <1>1, <1>6, <2>1
  <2>2. CASE i # 1
    <3>1. <<"dewpoint", i>> # <<"dewpoint", 1>>
      BY <2>2
    <3>2. Reaches(y, <<"dewpoint", i>>)
      BY <1>2, <3>1 DEF Reaches
    <3> QED
      BY <1>6, <3>2
  <2> QED
    BY <2>1, <2>2
<1>8. /\ Part(S, mem, s, {7})
      /\ \A i : \E z \in ToSet(s) : Reaches(z, <<"dewpoint", i>>)
  BY <1>6, <1>7
<1> QED
  BY <1>8 DEF s, x, y

\* Each dataref a weather wants something in is the one of its field.
LEMMA AimsAre ==
    ASSUME NEW S, NEW ref \in AirAims(S)
    PROVE  \/ States(S, "wind") /\ \E i \in 1 .. WindLevels : ref = <<"wind", i>>
           \/ States(S, "cloud") /\ \E i \in 1 .. CloudSlots : ref = <<"cloud", i>>
           \/ \E f \in {"visibility", "qnh", "temperature"} : States(S, f) /\ ref = <<f, 0>>
           \/ States(S, "precipitation") /\ ref = <<"rain", 0>>
           \/ States(S, "contamination") /\ ref = <<"friction", 0>>
           \/ States(S, "temperature") /\ \E i \in 1 .. WindLevels : ref = <<"aloft", i>>
           \/ States(S, "dewpoint") /\ \E i \in 1 .. WindLevels : ref = <<"dewpoint", i>>
<1>1. \A name, i : <<name, i>>[1] = name
  OBVIOUS
<1>2. ref \in Datarefs
  BY DEF AirAims
<1>3. ref[1] = "wind" => \E i \in 1 .. WindLevels : ref = <<"wind", i>>
  BY <1>1, <1>2 DEF Datarefs, Scalars
<1>4. ref[1] = "cloud" => \E i \in 1 .. CloudSlots : ref = <<"cloud", i>>
  BY <1>1, <1>2 DEF Datarefs, Scalars
<1>5. ref[1] = "aloft" => \E i \in 1 .. WindLevels : ref = <<"aloft", i>>
  BY <1>1, <1>2 DEF Datarefs, Scalars
<1>6. ref[1] = "dewpoint" => \E i \in 1 .. WindLevels : ref = <<"dewpoint", i>>
  BY <1>1, <1>2 DEF Datarefs, Scalars
<1>7. \A f \in {"visibility", "qnh", "temperature", "rain", "friction"} : ref[1] = f => ref = <<f, 0>>
  BY <1>1, <1>2 DEF Datarefs, Scalars
<1>8. ref = <<"dewpoint", 1>> => ref[1] = "dewpoint"
  BY <1>1
<1> QED
  BY <1>3, <1>4, <1>5, <1>6, <1>7, <1>8 DEF AirAims, States

\* A weather's plan brings its air about.
LEMMA PlanOnAir ==
    ASSUME NEW S, NEW mem, NEW waited, AirTyped(S)
    PROVE  OnTheAir(S, mem, WeatherSteps(S), waited)
<1> DEFINE m == [do |-> "manual"]
           s0 == <<m>>
           s1 == IF States(S, "wind") THEN WindWrites(S.wind) ELSE <<>>
           s2 == IF States(S, "cloud") THEN CloudSteps(S.cloud) ELSE <<>>
           s3 == WriteOf(S, "visibility")
           s4 == WriteOf(S, "qnh")
           t == << Write("temperature", S.temperature),
                   [do |-> "ladder", temperature |-> S.temperature] >>
           s5 == IF States(S, "temperature") THEN t ELSE <<>>
           d == << WriteAt("dewpoint", 1, S.dewpoint), [do |-> "dewpoints", dewpoint |-> S.dewpoint] >>
           s6 == IF States(S, "dewpoint") THEN d ELSE <<>>
           s7 == WriteIf(States(S, "precipitation"), "rain", S.precipitation)
           s8 == WriteIf(States(S, "contamination"), "friction", Frictions[S.contamination])
<1>0. WeatherSteps(S) = s0 \o (s1 \o s2 \o s3 \o s4 \o s5 \o s6 \o s7 \o s8)
  BY DEF WeatherSteps, WeatherFieldSteps
<1>1. Part(S, mem, s0, {0})
  <2>1. m.do = "manual"
    OBVIOUS
  <2> HIDE DEF m
  <2>2. TurnOf(m) = 0
    BY <2>1, TurnIs DEF TurnOf
  <2>3. \A any : FitsAir(S, mem, any, m)
    BY <2>1 DEF FitsAir
  <2> QED
    BY <2>2, <2>3, PartOne
<1>2. /\ Part(S, mem, s1, {1})
      /\ States(S, "wind") =>
            \A i \in 1 .. WindLevels : \E x \in ToSet(s1) : Reaches(x, <<"wind", i>>)
  <2>1. CASE States(S, "wind")
    BY <2>1, PartWind
  <2>2. CASE ~States(S, "wind")
    BY <2>2, PartEmpty
  <2> QED
    BY <2>1, <2>2
<1>3. /\ Part(S, mem, s2, {2, 3})
      /\ States(S, "cloud") =>
            /\ \A i \in 1 .. CloudSlots : \E x \in ToSet(s2) : Reaches(x, <<"cloud", i>>)
            /\ \E x \in ToSet(s2) : x.do = "settle"
  <2>1. CASE States(S, "cloud")
    BY <2>1, PartClouds
  <2>2. CASE ~States(S, "cloud")
    BY <2>2, PartEmpty
  <2> QED
    BY <2>1, <2>2
<1>4. /\ Part(S, mem, s3, {4})
      /\ States(S, "visibility") => \E x \in ToSet(s3) : Reaches(x, <<"visibility", 0>>)
  <2>1. States(S, "visibility") => WantsAir(S, mem, <<"visibility", 0>>, S.visibility)
    BY DEF WantsAir
  <2>2. States(S, "visibility") \in BOOLEAN
    BY DEF States
  <2> QED
    BY <2>1, <2>2, PartField, TurnIs DEF WriteOf
<1>5. /\ Part(S, mem, s4, {4})
      /\ States(S, "qnh") => \E x \in ToSet(s4) : Reaches(x, <<"qnh", 0>>)
  <2>1. States(S, "qnh") => WantsAir(S, mem, <<"qnh", 0>>, S.qnh)
    BY DEF WantsAir
  <2>2. States(S, "qnh") \in BOOLEAN
    BY DEF States
  <2> QED
    BY <2>1, <2>2, PartField, TurnIs DEF WriteOf
<1>6. /\ Part(S, mem, s5, {5, 6})
      /\ States(S, "temperature") =>
            /\ \E x \in ToSet(s5) : Reaches(x, <<"temperature", 0>>)
            /\ \A i : \E x \in ToSet(s5) : Reaches(x, <<"aloft", i>>)
  <2>1. CASE States(S, "temperature")
    <3>1. s5 = t
      BY <2>1
    <3>2. /\ Part(S, mem, t, {5, 6})
          /\ \E x \in ToSet(t) : Reaches(x, <<"temperature", 0>>)
          /\ \E x \in ToSet(t) : \A i : Reaches(x, <<"aloft", i>>)
      BY <2>1, PartTemperature
    <3> HIDE DEF t, s5
    <3> QED
      BY <3>1, <3>2
  <2>2. CASE ~States(S, "temperature")
    BY <2>2, PartEmpty
  <2> QED
    BY <2>1, <2>2
<1>7. /\ Part(S, mem, s6, {7})
      /\ States(S, "dewpoint") => \A i : \E x \in ToSet(s6) : Reaches(x, <<"dewpoint", i>>)
  <2>1. CASE States(S, "dewpoint")
    <3>1. s6 = d
      BY <2>1
    <3>2. /\ Part(S, mem, d, {7})
          /\ \A i : \E x \in ToSet(d) : Reaches(x, <<"dewpoint", i>>)
      BY <2>1, PartDewpoint
    <3> HIDE DEF d, s6
    <3> QED
      BY <3>1, <3>2
  <2>2. CASE ~States(S, "dewpoint")
    BY <2>2, PartEmpty
  <2> QED
    BY <2>1, <2>2
<1>8. /\ Part(S, mem, s7, {8})
      /\ States(S, "precipitation") => \E x \in ToSet(s7) : Reaches(x, <<"rain", 0>>)
  <2>1. States(S, "precipitation") => WantsAir(S, mem, <<"rain", 0>>, S.precipitation)
    BY DEF WantsAir
  <2>2. States(S, "precipitation") \in BOOLEAN
    BY DEF States
  <2> QED
    BY <2>1, <2>2, PartField, TurnIs
<1>9. /\ Part(S, mem, s8, {8})
      /\ States(S, "contamination") => \E x \in ToSet(s8) : Reaches(x, <<"friction", 0>>)
  <2> DEFINE v == Frictions[S.contamination]
  <2>1. States(S, "contamination") => WantsAir(S, mem, <<"friction", 0>>, v)
    BY DEF WantsAir
  <2>2. States(S, "contamination") \in BOOLEAN
    BY DEF States
  <2> HIDE DEF v
  <2> QED
    BY <2>1, <2>2, PartField, TurnIs DEF v
<1> HIDE DEF s0, s1, s2, s3, s4, s5, s6, s7, s8, m, t, d
<1> DEFINE j2 == s1 \o s2
<1>10. Part(S, mem, j2, {1, 2, 3}) /\ ToSet(j2) = ToSet(s1) \cup ToSet(s2)
  <2>1. Part(S, mem, s1, {1}) /\ Part(S, mem, s2, {2, 3})
    BY <1>2, <1>3
  <2>2. \A x \in {1} : \A y \in {2, 3} : x <= y
    OBVIOUS
  <2>3. Part(S, mem, j2, {1} \cup {2, 3})
    BY <2>1, <2>2, PartJoin
  <2>4. {1} \cup {2, 3} = {1, 2, 3}
    OBVIOUS
  <2>5. ToSet(j2) = ToSet(s1) \cup ToSet(s2)
    BY <2>1, ListJoin DEF Part
  <2> QED
    BY <2>3, <2>4, <2>5
<1> HIDE DEF j2
<1> DEFINE j3 == j2 \o s3
<1>11. Part(S, mem, j3, 1 .. 4) /\ ToSet(j3) = ToSet(j2) \cup ToSet(s3)
  <2>1. Part(S, mem, j2, {1, 2, 3}) /\ Part(S, mem, s3, {4})
    BY <1>10, <1>4
  <2>2. \A x \in {1, 2, 3} : \A y \in {4} : x <= y
    OBVIOUS
  <2>3. Part(S, mem, j3, {1, 2, 3} \cup {4})
    BY <2>1, <2>2, PartJoin
  <2>4. {1, 2, 3} \cup {4} = 1 .. 4
    OBVIOUS
  <2>5. ToSet(j3) = ToSet(j2) \cup ToSet(s3)
    BY <2>1, ListJoin DEF Part
  <2> QED
    BY <2>3, <2>4, <2>5
<1> HIDE DEF j3
<1> DEFINE j4 == j3 \o s4
<1>12. Part(S, mem, j4, 1 .. 4) /\ ToSet(j4) = ToSet(j3) \cup ToSet(s4)
  <2>1. Part(S, mem, j3, 1 .. 4) /\ Part(S, mem, s4, {4})
    BY <1>11, <1>5
  <2>2. \A x \in 1 .. 4 : \A y \in {4} : x <= y
    OBVIOUS
  <2>3. Part(S, mem, j4, 1 .. 4 \cup {4})
    BY <2>1, <2>2, PartJoin
  <2>4. 1 .. 4 \cup {4} = 1 .. 4
    OBVIOUS
  <2>5. ToSet(j4) = ToSet(j3) \cup ToSet(s4)
    BY <2>1, ListJoin DEF Part
  <2> QED
    BY <2>3, <2>4, <2>5
<1> HIDE DEF j4
<1> DEFINE j5 == j4 \o s5
<1>13. Part(S, mem, j5, 1 .. 6) /\ ToSet(j5) = ToSet(j4) \cup ToSet(s5)
  <2>1. Part(S, mem, j4, 1 .. 4) /\ Part(S, mem, s5, {5, 6})
    BY <1>12, <1>6
  <2>2. \A x \in 1 .. 4 : \A y \in {5, 6} : x <= y
    OBVIOUS
  <2>3. Part(S, mem, j5, 1 .. 4 \cup {5, 6})
    BY <2>1, <2>2, PartJoin
  <2>4. 1 .. 4 \cup {5, 6} = 1 .. 6
    OBVIOUS
  <2>5. ToSet(j5) = ToSet(j4) \cup ToSet(s5)
    BY <2>1, ListJoin DEF Part
  <2> QED
    BY <2>3, <2>4, <2>5
<1> HIDE DEF j5
<1> DEFINE j6 == j5 \o s6
<1>14. Part(S, mem, j6, 1 .. 7) /\ ToSet(j6) = ToSet(j5) \cup ToSet(s6)
  <2>1. Part(S, mem, j5, 1 .. 6) /\ Part(S, mem, s6, {7})
    BY <1>13, <1>7
  <2>2. \A x \in 1 .. 6 : \A y \in {7} : x <= y
    OBVIOUS
  <2>3. Part(S, mem, j6, 1 .. 6 \cup {7})
    BY <2>1, <2>2, PartJoin
  <2>4. 1 .. 6 \cup {7} = 1 .. 7
    OBVIOUS
  <2>5. ToSet(j6) = ToSet(j5) \cup ToSet(s6)
    BY <2>1, ListJoin DEF Part
  <2> QED
    BY <2>3, <2>4, <2>5
<1> HIDE DEF j6
<1> DEFINE j7 == j6 \o s7
<1>15. Part(S, mem, j7, 1 .. 8) /\ ToSet(j7) = ToSet(j6) \cup ToSet(s7)
  <2>1. Part(S, mem, j6, 1 .. 7) /\ Part(S, mem, s7, {8})
    BY <1>14, <1>8
  <2>2. \A x \in 1 .. 7 : \A y \in {8} : x <= y
    OBVIOUS
  <2>3. Part(S, mem, j7, 1 .. 7 \cup {8})
    BY <2>1, <2>2, PartJoin
  <2>4. 1 .. 7 \cup {8} = 1 .. 8
    OBVIOUS
  <2>5. ToSet(j7) = ToSet(j6) \cup ToSet(s7)
    BY <2>1, ListJoin DEF Part
  <2> QED
    BY <2>3, <2>4, <2>5
<1> HIDE DEF j7
<1> DEFINE j8 == j7 \o s8
<1>16. Part(S, mem, j8, 1 .. 8) /\ ToSet(j8) = ToSet(j7) \cup ToSet(s8)
  <2>1. Part(S, mem, j7, 1 .. 8) /\ Part(S, mem, s8, {8})
    BY <1>15, <1>9
  <2>2. \A x \in 1 .. 8 : \A y \in {8} : x <= y
    OBVIOUS
  <2>3. Part(S, mem, j8, 1 .. 8 \cup {8})
    BY <2>1, <2>2, PartJoin
  <2>4. 1 .. 8 \cup {8} = 1 .. 8
    OBVIOUS
  <2>5. ToSet(j8) = ToSet(j7) \cup ToSet(s8)
    BY <2>1, ListJoin DEF Part
  <2> QED
    BY <2>3, <2>4, <2>5
<1> HIDE DEF j8
<1> DEFINE all == s0 \o j8
<1>17. Part(S, mem, all, 0 .. 8) /\ ToSet(all) = ToSet(s0) \cup ToSet(j8)
  <2>1. Part(S, mem, s0, {0}) /\ Part(S, mem, j8, 1 .. 8)
    BY <1>1, <1>16
  <2>2. \A x \in {0} : \A y \in 1 .. 8 : x <= y
    OBVIOUS
  <2>3. Part(S, mem, all, {0} \cup 1 .. 8)
    BY <2>1, <2>2, PartJoin
  <2>4. {0} \cup 1 .. 8 = 0 .. 8
    OBVIOUS
  <2>5. ToSet(all) = ToSet(s0) \cup ToSet(j8)
    BY <2>1, ListJoin DEF Part
  <2> QED
    BY <2>3, <2>4, <2>5
<1> HIDE DEF all
<1>18. WeatherSteps(S) = all
  BY <1>0 DEF j2, j3, j4, j5, j6, j7, j8, all
<1>19. /\ ToSet(s1) \subseteq ToSet(all) /\ ToSet(s2) \subseteq ToSet(all)
       /\ ToSet(s3) \subseteq ToSet(all) /\ ToSet(s4) \subseteq ToSet(all)
       /\ ToSet(s5) \subseteq ToSet(all) /\ ToSet(s6) \subseteq ToSet(all)
       /\ ToSet(s7) \subseteq ToSet(all) /\ ToSet(s8) \subseteq ToSet(all)
  BY <1>10, <1>11, <1>12, <1>13, <1>14, <1>15, <1>16, <1>17
<1>20. ASSUME NEW ref \in AirAims(S) PROVE \E x \in ToSet(all) : Reaches(x, ref)
  <2>1. CASE States(S, "wind") /\ \E i \in 1 .. WindLevels : ref = <<"wind", i>>
    BY <1>2, <1>19, <2>1
  <2>2. CASE States(S, "cloud") /\ \E i \in 1 .. CloudSlots : ref = <<"cloud", i>>
    BY <1>3, <1>19, <2>2
  <2>3. CASE \E f \in {"visibility", "qnh", "temperature"} : States(S, f) /\ ref = <<f, 0>>
    BY <1>4, <1>5, <1>6, <1>19, <2>3
  <2>4. CASE States(S, "precipitation") /\ ref = <<"rain", 0>>
    BY <1>8, <1>19, <2>4
  <2>5. CASE States(S, "contamination") /\ ref = <<"friction", 0>>
    BY <1>9, <1>19, <2>5
  <2>6. CASE States(S, "temperature") /\ \E i \in 1 .. WindLevels : ref = <<"aloft", i>>
    BY <1>6, <1>19, <2>6
  <2>7. CASE States(S, "dewpoint") /\ \E i \in 1 .. WindLevels : ref = <<"dewpoint", i>>
    BY <1>7, <1>19, <2>7
  <2> QED
    BY <2>1, <2>2, <2>3, <2>4, <2>5, <2>6, <2>7, AimsAre
<1>21. States(S, "cloud") => CloudsComing(S, mem, all, waited)
  BY <1>3, <1>19 DEF CloudsComing
<1>22. OnTheAir(S, mem, all, waited)
  BY <1>17, <1>20, <1>21 DEF OnTheAir, Part
<1> QED
  BY <1>18, <1>22

\* The wind levels ascend from the layers up.
LEMMA LevelsAscend ==
    ASSUME NEW layers, Layered(layers), ValidWind(layers), NEW i \in Nat, i >= 2
    PROVE  LevelOf(layers, i).altitude > LevelOf(layers, i - 1).altitude
<1>1. i - 1 \in Nat /\ i - 1 >= 1 /\ ~(i <= 1)
  OBVIOUS
<1>2. CASE layers = <<>>
  <2>1. "altitude" \in DOMAIN Calm
    BY DEF Calm, Wind
  <2>2. /\ LevelOf(layers, i).altitude = PaddingStep * (i - 1)
        /\ LevelOf(layers, i - 1).altitude = PaddingStep * ((i - 1) - 1)
    BY <1>2, <2>1, RaisedLayer DEF LevelOf
  <2> QED
    BY <1>1, <2>2 DEF PaddingStep
<1>3. CASE layers # <<>>
  <2> DEFINE n == Len(layers)
             w == Last(layers)
  <2>1. n \in Nat /\ n # 0 /\ DOMAIN layers = 1 .. n /\ \A k \in 1 .. n : layers[k] \in ToSet(layers)
    BY <1>3, ListFacts DEF Layered
  <2>2. \A k \in 1 .. n : "altitude" \in DOMAIN layers[k] /\ layers[k].altitude \in Int
    BY <2>1 DEF Layered
  <2>3. w = layers[n]
    BY DEF Last
  <2> HIDE DEF n, w
  <2>4. ASSUME NEW k \in Nat, k > n
        PROVE  LevelOf(layers, k).altitude = layers[n].altitude + PaddingStep * (k - n)
    <3>1. LevelOf(layers, k) = [w EXCEPT !.altitude = @ + PaddingStep * (k - n)]
      <4>1. ~(k <= Len(layers))
        BY <2>1, <2>4 DEF n
      <4> QED
        BY <1>3, <4>1 DEF LevelOf, n, w
    <3>2. "altitude" \in DOMAIN w
      BY <2>1, <2>2, <2>3
    <3> QED
      BY <2>3, <3>1, <3>2, RaisedLayer
  <2>5. ASSUME NEW k \in 1 .. n PROVE LevelOf(layers, k) = layers[k]
    <3>1. k <= Len(layers)
      BY <2>1, <2>5 DEF n
    <3> QED
      BY <1>3, <3>1 DEF LevelOf
  <2>6. CASE i <= n
    <3> DEFINE heights == [k \in DOMAIN layers |-> layers[k].altitude]
    <3>1. Spaced(heights)
      BY DEF ValidWind
    <3>2. i \in DOMAIN layers /\ i - 1 \in DOMAIN layers /\ i - 1 < i /\ i \in 1 .. n /\ i - 1 \in 1 .. n
      BY <1>1, <2>1, <2>6
    <3>3. DOMAIN heights = DOMAIN layers /\ heights[i] = layers[i].altitude
          /\ heights[i - 1] = layers[i - 1].altitude
      BY <3>2
    <3> HIDE DEF heights
    <3>4. heights[i] - heights[i - 1] >= LayerSpacing * (i - (i - 1))
      BY <3>1, <3>2, <3>3 DEF Spaced
    <3>5. LevelOf(layers, i) = layers[i] /\ LevelOf(layers, i - 1) = layers[i - 1]
      BY <2>5, <3>2
    <3>6. layers[i].altitude \in Int /\ layers[i - 1].altitude \in Int
      BY <2>2, <3>2
    <3> QED
      BY <3>3, <3>4, <3>5, <3>6 DEF LayerSpacing
  <2>7. CASE i = n + 1
    <3>1. i - 1 = n /\ n \in 1 .. n /\ i > n
      BY <2>1, <2>7
    <3>2. /\ LevelOf(layers, i).altitude = layers[n].altitude + PaddingStep * (i - n)
          /\ LevelOf(layers, i - 1) = layers[n]
      BY <2>4, <2>5, <3>1
    <3>3. layers[n].altitude \in Int
      BY <2>2, <3>1
    <3> QED
      BY <2>1, <2>7, <3>2, <3>3 DEF PaddingStep
  <2>8. CASE i > n + 1
    <3>1. i - 1 > n /\ i > n /\ n \in 1 .. n
      BY <2>1, <2>8
    <3>2. /\ LevelOf(layers, i).altitude = layers[n].altitude + PaddingStep * (i - n)
          /\ LevelOf(layers, i - 1).altitude = layers[n].altitude + PaddingStep * ((i - 1) - n)
      BY <1>1, <2>4, <3>1
    <3>3. layers[n].altitude \in Int
      BY <2>2, <3>1
    <3> QED
      BY <2>1, <3>2, <3>3 DEF PaddingStep
  <2> QED
    BY <2>1, <2>6, <2>7, <2>8
<1> QED
  BY <1>2, <1>3

\* When nothing is left to do, every dataref has what is wanted.
LEMMA AirDone ==
    ASSUME NEW S, NEW mem, NEW waited, OnTheAir(S, mem, <<>>, waited), NEW ref \in AirAims(S)
    PROVE  WantsAir(S, mem, ref, mem[ref])
BY ListEmpty DEF OnTheAir

LEMMA ConsistentEnds ==
    ASSUME NEW S, NEW waited, OnTheAir(S, sim, <<>>, waited) PROVE AirIsConsistent(S)
<1>1. \A name, i : <<name, i>>[1] = name
  OBVIOUS
<1>2. AirTyped(S) /\ WindLevels \in Nat
  BY ArraysAssumption DEF OnTheAir
<1>3. ASSUME States(S, "wind"), NEW i \in 1 .. WindLevels PROVE sim[<<"wind", i>>] = LevelOf(S.wind, i)
  <2> DEFINE ref == <<"wind", i>>
  <2>1. ref \in AirAims(S)
    BY <1>3 DEF AirAims, Datarefs
  <2>2. WantsAir(S, sim, ref, sim[ref])
    <3> HIDE DEF ref
    <3> QED
      BY <2>1, AirDone
  <2> QED
    BY <1>3, <2>2 DEF WantsAir
<1>4. States(S, "wind") => \A i \in 2 .. WindLevels :
          sim[<<"wind", i>>].altitude > sim[<<"wind", i - 1>>].altitude
  <2> SUFFICES ASSUME States(S, "wind"), NEW i \in 2 .. WindLevels
               PROVE  sim[<<"wind", i>>].altitude > sim[<<"wind", i - 1>>].altitude
    OBVIOUS
  <2>1. i \in 1 .. WindLevels /\ i - 1 \in 1 .. WindLevels /\ i \in Nat /\ i >= 2
    BY <1>2
  <2>2. sim[<<"wind", i>>] = LevelOf(S.wind, i) /\ sim[<<"wind", i - 1>>] = LevelOf(S.wind, i - 1)
    BY <1>3, <2>1
  <2>3. Layered(S.wind) /\ ValidWind(S.wind)
    BY <1>2 DEF AirTyped, FieldsTyped, ValidWeather
  <2> QED
    BY <2>1, <2>2, <2>3, LevelsAscend
<1>5. ASSUME States(S, "temperature"), NEW i \in 1 .. WindLevels PROVE sim[<<"aloft", i>>] = AirAt(S, sim, i)
  <2> DEFINE ref == <<"aloft", i>>
  <2>1. ref \in AirAims(S)
    BY <1>5 DEF AirAims, Datarefs
  <2>2. WantsAir(S, sim, ref, sim[ref])
    <3> HIDE DEF ref
    <3> QED
      BY <2>1, AirDone
  <2> QED
    BY <1>5, <2>2 DEF WantsAir
<1>6. ASSUME States(S, "temperature"), States(S, "dewpoint"), NEW i \in 2 .. WindLevels
      PROVE  sim[<<"dewpoint", i>>] <= sim[<<"aloft", i>>]
  <2> DEFINE ref == <<"dewpoint", i>>
  <2>0. i \in 1 .. WindLevels
    BY <1>2
  <2>1. ref \in AirAims(S)
    BY <1>6, <2>0 DEF AirAims, Datarefs
  <2>2. WantsAir(S, sim, ref, sim[ref])
    <3> HIDE DEF ref
    <3> QED
      BY <2>1, AirDone
  <2>3. sim[<<"dewpoint", i>>] <= AirAt(S, sim, i)
    BY <1>6, <2>2 DEF WantsAir
  <2>4. sim[<<"aloft", i>>] = AirAt(S, sim, i)
    BY <1>5, <1>6, <2>0
  <2> QED
    BY <2>3, <2>4
<1> QED
  BY <1>4, <1>5, <1>6 DEF AirIsConsistent, AirAt

\* A list of at most three is reported whole.
LEMMA WholeIs ==
    ASSUME NEW n \in Nat, n <= MaxWindLayers, NEW s, DOMAIN s = 1 .. n, s = [i \in 1 .. n |-> s[i]]
    PROVE  SubSeq(s, 1, Smaller(Len(s), MaxWindLayers)) = s
<1>1. IsList(s) /\ Len(s) = n
  <2>1. s \in [1 .. n -> {s[i] : i \in 1 .. n}]
    OBVIOUS
  <2> QED
    BY <2>1, ListBy
<1>2. Smaller(Len(s), MaxWindLayers) = n
  BY <1>1 DEF Smaller, MaxWindLayers
<1>3. SubSeq(s, 1, n) = [i \in 1 .. n |-> s[i]]
  OBVIOUS
<1> QED
  BY <1>2, <1>3

\* How high a level is does not tell it from the one below.
LEMMA RaisedSignature == ASSUME NEW w, NEW v PROVE Signature([w EXCEPT !.altitude = v]) = Signature(w)
BY DEF Signature

\* The places of a list, in order.
LEMMA PickIs ==
    ASSUME NEW n \in Nat, NEW list, NEW places \in SUBSET (1 .. n)
    PROVE  LET at == InOrder(places) IN
           /\ Cardinality(places) \in Nat /\ DOMAIN at = 1 .. Cardinality(places)
           /\ \A i \in DOMAIN at : at[i] \in places
           /\ Pick(list, places) = [i \in 1 .. Cardinality(places) |-> list[at[i]]]
           /\ Cardinality(places) <= n
<1>1. Cardinality(places) \in Nat /\ InOrder(places) \in [1 .. Cardinality(places) -> places]
  BY InOrderIs
<1>2. Cardinality(places) <= n
  <2>1. IsFiniteSet(1 .. n) /\ Cardinality(1 .. n) = n
    BY FS_Interval
  <2> QED
    BY <2>1, FS_Subset
<1> QED
  BY <1>1, <1>2 DEF Pick

LEMMA WindReadBack ==
    ASSUME NEW layers, Layered(layers), ValidWind(layers),
           \A i \in 1 .. WindLevels : sim[<<"wind", i>>] = LevelOf(layers, i)
    PROVE  ReadWind(sim) = IF layers = <<>> THEN <<Calm>> ELSE Distinct(layers)
<1> DEFINE levels == WindLevelsOf(sim)
           n == Len(layers)
<1>1. WindLevels \in Nat /\ WindLevels >= MaxWindLayers /\ WindLevels >= 1
  BY ArraysAssumption DEF MaxWindLayers
<1>2. DOMAIN levels = 1 .. WindLevels /\ \A i \in 1 .. WindLevels : levels[i] = LevelOf(layers, i)
  BY DEF WindLevelsOf
<1>3. /\ n \in Nat /\ n <= MaxWindLayers /\ DOMAIN layers = 1 .. n
      /\ \A i \in 1 .. n : layers[i] \in ToSet(layers)
  BY ListFacts DEF Layered, ValidWind
<1>4. ReadWind(sim) = LET p == Pick(levels, Changes(levels))
                      IN SubSeq(p, 1, Smaller(Len(p), MaxWindLayers))
  BY DEF ReadWind
<1> HIDE DEF levels, n
<1>5. CASE layers = <<>>
  <2>1. \A i \in 1 .. WindLevels : levels[i] = [Calm EXCEPT !.altitude = PaddingStep * (i - 1)]
    BY <1>2, <1>5 DEF LevelOf
  <2>2. \A i \in 1 .. WindLevels : Signature(levels[i]) = Signature(Calm)
    BY <2>1, RaisedSignature
  <2>3. Changes(levels) = {1}
    <3>1. ASSUME NEW i \in 1 .. WindLevels, i > 1
          PROVE  Signature(levels[i]) = Signature(levels[i - 1])
      <4>1. i - 1 \in 1 .. WindLevels
        BY <1>1, <3>1
      <4> QED
        BY <2>2, <4>1
    <3> QED
      BY <1>1, <1>2, <3>1 DEF Changes
  <2>4. levels[1] = Calm
    <3>1. levels[1] = [Calm EXCEPT !.altitude = PaddingStep * (1 - 1)]
      BY <1>1, <2>1
    <3>2. PaddingStep * (1 - 1) = 0
      BY DEF PaddingStep
    <3> QED
      BY <3>1, <3>2 DEF Calm, Wind
  <2> DEFINE at == InOrder({1})
             p == Pick(levels, {1})
  <2>5. Cardinality({1}) = 1
    BY FS_Singleton
  <2>6. /\ DOMAIN at = 1 .. 1 /\ \A i \in DOMAIN at : at[i] \in {1}
        /\ p = [i \in 1 .. 1 |-> levels[at[i]]]
    <3>1. 1 \in Nat /\ {1} \in SUBSET (1 .. 1)
      OBVIOUS
    <3> QED
      BY <2>5, <3>1, PickIs
  <2>7. p = [i \in 1 .. 1 |-> Calm]
    <3>1. \A i \in 1 .. 1 : levels[at[i]] = Calm
      BY <2>4, <2>6
    <3> HIDE DEF p, at
    <3> QED
      BY <2>6, <3>1
  <2> HIDE DEF p
  <2>8. SubSeq(p, 1, Smaller(Len(p), MaxWindLayers)) = p
    <3>1. 1 \in Nat /\ 1 <= MaxWindLayers /\ DOMAIN p = 1 .. 1 /\ p = [i \in 1 .. 1 |-> p[i]]
      BY <2>7 DEF MaxWindLayers
    <3> QED
      BY <3>1, WholeIs
  <2>9. p = <<Calm>>
    <3> DEFINE c == Calm
    <3> HIDE DEF c
    <3>1. [i \in 1 .. 1 |-> c] = <<c>>
      OBVIOUS
    <3> QED
      BY <2>7, <3>1 DEF c
  <2> QED
    BY <1>4, <1>5, <2>3, <2>8, <2>9 DEF p
<1>6. CASE layers # <<>>
  <2>1. n >= 1
    BY <1>3, <1>6, ListFacts DEF Layered, n
  <2>2. \A i \in 1 .. n : i \in 1 .. WindLevels /\ levels[i] = layers[i]
    <3> SUFFICES ASSUME NEW i \in 1 .. n PROVE i \in 1 .. WindLevels /\ levels[i] = layers[i]
      OBVIOUS
    <3>1. i \in 1 .. WindLevels /\ i <= Len(layers)
      BY <1>1, <1>3 DEF MaxWindLayers, n
    <3>2. LevelOf(layers, i) = layers[i]
      BY <1>6, <3>1 DEF LevelOf
    <3> QED
      BY <1>2, <3>1, <3>2
  <2>3. ASSUME NEW i \in 1 .. WindLevels, i >= n PROVE Signature(levels[i]) = Signature(layers[n])
    <3>1. CASE i = n
      BY <2>1, <2>2, <3>1
    <3>2. CASE i > n
      <4>1. ~(i <= Len(layers))
        BY <1>3, <3>2 DEF n
      <4>2. levels[i] = [layers[n] EXCEPT !.altitude = layers[n].altitude + PaddingStep * (i - n)]
        BY <1>2, <1>6, <4>1 DEF LevelOf, Last, n
      <4> QED
        BY <4>2, RaisedSignature
    <3>3. n \in Nat /\ (i = n \/ i > n)
      BY <1>3, <2>3
    <3> QED
      BY <3>1, <3>2, <3>3
  <2>4. Changes(levels) = Changes(layers)
    <3>1. ASSUME NEW i \in 1 .. WindLevels, i > n
          PROVE  i > 1 /\ Signature(levels[i]) = Signature(levels[i - 1])
      <4>1. i - 1 \in 1 .. WindLevels /\ i - 1 >= n /\ i >= n /\ i > 1
        BY <1>1, <1>3, <2>1, <3>1
      <4> QED
        BY <2>3, <4>1
    <3>2. ASSUME NEW i \in 1 .. n, i > 1
          PROVE  levels[i] = layers[i] /\ levels[i - 1] = layers[i - 1]
      <4>1. i - 1 \in 1 .. n
        BY <1>3, <3>2
      <4> QED
        BY <2>2, <4>1
    <3>3. ASSUME NEW i \in 1 .. WindLevels, i > 1 => Signature(levels[i]) # Signature(levels[i - 1])
          PROVE  i \in 1 .. n
      <4>1. ~(i > n)
        BY <3>1, <3>3
      <4> QED
        BY <1>3, <4>1
    <3>4. ASSUME NEW i \in Changes(levels) PROVE i \in Changes(layers)
      <4>1. i \in 1 .. WindLevels /\ (i > 1 => Signature(levels[i]) # Signature(levels[i - 1]))
        BY <1>2, <3>4 DEF Changes
      <4>2. i \in 1 .. n
        BY <3>3, <4>1
      <4> QED
        BY <1>3, <3>2, <4>1, <4>2 DEF Changes
    <3>5. ASSUME NEW i \in Changes(layers) PROVE i \in Changes(levels)
      <4>1. i \in 1 .. n /\ (i > 1 => Signature(layers[i]) # Signature(layers[i - 1]))
        BY <1>3, <3>5 DEF Changes
      <4>2. i \in 1 .. WindLevels
        BY <2>2, <4>1
      <4> QED
        BY <1>2, <3>2, <4>1, <4>2 DEF Changes
    <3> QED
      BY <3>4, <3>5
  <2> DEFINE C == Changes(layers)
             at == InOrder(C)
             k == Cardinality(C)
             p == Pick(levels, C)
  <2>5. C \in SUBSET (1 .. n)
    BY <1>3 DEF Changes
  <2>6. /\ k \in Nat /\ k <= n /\ DOMAIN at = 1 .. k /\ \A i \in DOMAIN at : at[i] \in C
        /\ p = [i \in 1 .. k |-> levels[at[i]]]
        /\ Pick(layers, C) = [i \in 1 .. k |-> layers[at[i]]]
    <3> HIDE DEF C
    <3> QED
      BY <1>3, <2>5, PickIs
  <2> HIDE DEF p, at, k, C
  <2>7. p = Pick(layers, C)
    <3>1. \A i \in 1 .. k : levels[at[i]] = layers[at[i]]
      BY <2>2, <2>5, <2>6
    <3> QED
      BY <2>6, <3>1
  <2>8. SubSeq(p, 1, Smaller(Len(p), MaxWindLayers)) = p
    <3>1. k <= MaxWindLayers
      BY <1>3, <2>6 DEF MaxWindLayers
    <3>2. DOMAIN p = 1 .. k /\ p = [i \in 1 .. k |-> p[i]]
      BY <2>6
    <3> QED
      BY <2>6, <3>1, <3>2, WholeIs
  <2>9. ReadWind(sim) = Pick(layers, C)
    BY <1>4, <2>4, <2>7, <2>8 DEF C, p
  <2> QED
    BY <1>6, <2>9 DEF Distinct, C
<1> QED
  BY <1>5, <1>6

\* The slots that are covered are the layers that are.
LEMMA CloudReadBack ==
    ASSUME NEW layers, IsList(layers), ValidCloud(layers), Settled(sim, layers)
    PROVE  CloudsAgree(Covered(layers), ReadCloud(sim))
<1> DEFINE sky == [i \in 1 .. CloudSlots |-> sim[<<"sky", i>>]]
           n == Len(layers)
           O == Overcast(layers)
           at == InOrder(O)
           k == Cardinality(O)
<1>1. CloudSlots \in Nat /\ CloudSlots >= MaxCloudLayers
  BY ArraysAssumption
<1>2. n \in Nat /\ n <= MaxCloudLayers /\ DOMAIN layers = 1 .. n
  BY ListFacts DEF ValidCloud
<1>3. ASSUME NEW i \in 1 .. CloudSlots
      PROVE  /\ i <= n => sky[i].base = layers[i].base /\ sky[i].coverage = layers[i].coverage
             /\ ~(i <= n) => sky[i].coverage = 0
  <2>1. sky[i].base = SlotOf(layers, i).base /\ sky[i].coverage = SlotOf(layers, i).coverage
    BY DEF Settled
  <2>2. NoCloud.coverage = 0
    BY DEF NoCloud, Cloud
  <2> HIDE DEF sky
  <2> QED
    BY <2>1, <2>2 DEF SlotOf
<1>4. DOMAIN sky = 1 .. CloudSlots
  OBVIOUS
<1>5. ReadCloud(sim) = LET p == Pick(sky, Overcast(sky)) IN [i \in DOMAIN p |-> WithTops(p[i])]
  BY DEF ReadCloud
<1> HIDE DEF sky, n
<1>6. Overcast(sky) = O
  <2>1. ASSUME NEW i \in 1 .. CloudSlots, sky[i].coverage > 0 PROVE i <= n /\ layers[i].coverage > 0
    <3>1. i <= n
      BY <1>3, <2>1
    <3> QED
      BY <1>3, <2>1, <3>1
  <2>2. ASSUME NEW i \in 1 .. n PROVE i \in 1 .. CloudSlots /\ sky[i].coverage = layers[i].coverage
    <3>1. i \in 1 .. CloudSlots /\ i <= n
      BY <1>1, <1>2 DEF MaxCloudLayers
    <3> QED
      BY <1>3, <3>1
  <2>3. \A i \in 1 .. CloudSlots : i <= n => i \in 1 .. n
    BY <1>2
  <2> QED
    BY <1>2, <1>4, <2>1, <2>2, <2>3 DEF Overcast
<1>7. O \in SUBSET (1 .. n)
  BY <1>2 DEF Overcast
<1>8. /\ k \in Nat /\ k <= n /\ DOMAIN at = 1 .. k /\ \A i \in DOMAIN at : at[i] \in O
      /\ Pick(sky, O) = [i \in 1 .. k |-> sky[at[i]]]
      /\ Pick(layers, O) = [i \in 1 .. k |-> layers[at[i]]]
  <2> HIDE DEF O
  <2> QED
    BY <1>2, <1>7, PickIs
<1> HIDE DEF O, at, k
<1> DEFINE seen == ReadCloud(sim)
           p == Pick(sky, O)
<1>9. DOMAIN p = 1 .. k /\ \A i \in 1 .. k : p[i] = sky[at[i]]
  BY <1>8
<1> HIDE DEF p
<1>10. DOMAIN seen = 1 .. k /\ \A i \in 1 .. k : seen[i] = WithTops(p[i])
  BY <1>5, <1>6, <1>9 DEF p
<1> HIDE DEF seen
<1> DEFINE said == Covered(layers)
<1>11. DOMAIN said = 1 .. k /\ \A i \in 1 .. k : said[i] = layers[at[i]]
  BY <1>8 DEF Covered, O
<1> HIDE DEF said
<1>12. ASSUME NEW i \in 1 .. k PROVE seen[i].base = said[i].base /\ seen[i].coverage = said[i].coverage
  <2>1. at[i] \in 1 .. n
    BY <1>7, <1>8
  <2>2. at[i] \in 1 .. CloudSlots /\ at[i] <= n
    BY <1>1, <1>2, <2>1 DEF MaxCloudLayers
  <2>3. p[i].base = said[i].base /\ p[i].coverage = said[i].coverage
    BY <1>3, <1>9, <1>11, <2>2
  <2>4. \A c : WithTops(c).base = c.base /\ WithTops(c).coverage = c.coverage
    BY DEF WithTops, Cloud
  <2> QED
    BY <1>10, <2>3, <2>4
<1> QED
  BY <1>10, <1>11, <1>12 DEF CloudsAgree, seen, said

LEMMA FrictionIsRead ==
    ASSUME NEW c \in DOMAIN Frictions PROVE ContaminationOf(Frictions[c]) = c
<1>1. c \in {"dry", "wet", "puddles", "snow", "ice"}
  BY DEF Frictions
<1>2. CASE c = "dry"
  <2>1. Frictions[c] = 0
    BY <1>2 DEF Frictions
  <2> QED
    BY <1>2, <2>1 DEF ContaminationOf
<1>3. CASE c = "wet"
  <2>1. Frictions[c] = 2
    BY <1>3 DEF Frictions
  <2> QED
    BY <1>3, <2>1 DEF ContaminationOf
<1>4. CASE c = "puddles"
  <2>1. Frictions[c] = 5
    BY <1>4 DEF Frictions
  <2> QED
    BY <1>4, <2>1 DEF ContaminationOf
<1>5. CASE c = "snow"
  <2>1. Frictions[c] = 8
    BY <1>5 DEF Frictions
  <2> QED
    BY <1>5, <2>1 DEF ContaminationOf
<1>6. CASE c = "ice"
  <2>1. Frictions[c] = 11
    BY <1>6 DEF Frictions
  <2> QED
    BY <1>6, <2>1 DEF ContaminationOf
<1> QED
  BY <1>1, <1>2, <1>3, <1>4, <1>5, <1>6

LEMMA ReadBackEnds ==
    ASSUME NEW S, NEW waited, OnTheAir(S, sim, <<>>, waited)
    PROVE  ReadBackAgrees(S, ReadWeather(sim), waited)
<1> DEFINE R == ReadWeather(sim)
<1>1. AirTyped(S)
  BY DEF OnTheAir
<1>2. /\ R.wind = ReadWind(sim) /\ R.cloud = ReadCloud(sim)
      /\ R.visibility = sim[<<"visibility", 0>>] /\ R.qnh = sim[<<"qnh", 0>>]
      /\ R.temperature = sim[<<"temperature", 0>>] /\ R.precipitation = sim[<<"rain", 0>>]
      /\ R.dewpoint = Smaller(sim[<<"dewpoint", 1>>], sim[<<"temperature", 0>>])
      /\ R.contamination = ContaminationOf(sim[<<"friction", 0>>])
  BY DEF ReadWeather
<1> HIDE DEF R
<1>3. States(S, "wind") => R.wind = (IF S.wind = <<>> THEN <<Calm>> ELSE Distinct(S.wind))
  <2> SUFFICES ASSUME States(S, "wind")
               PROVE  R.wind = (IF S.wind = <<>> THEN <<Calm>> ELSE Distinct(S.wind))
    OBVIOUS
  <2>1. ASSUME NEW i \in 1 .. WindLevels PROVE sim[<<"wind", i>>] = LevelOf(S.wind, i)
    <3> DEFINE ref == <<"wind", i>>
    <3>1. ref \in AirAims(S)
      BY DEF AirAims, Datarefs
    <3>2. WantsAir(S, sim, ref, sim[ref])
      <4> HIDE DEF ref
      <4> QED
        BY <3>1, AirDone
    <3> QED
      BY <3>2 DEF WantsAir
  <2>2. Layered(S.wind) /\ ValidWind(S.wind)
    BY <1>1 DEF AirTyped, FieldsTyped, ValidWeather
  <2>3. ReadWind(sim) = IF S.wind = <<>> THEN <<Calm>> ELSE Distinct(S.wind)
    BY <2>1, <2>2, WindReadBack
  <2> QED
    BY <1>2, <2>3
<1>4. States(S, "cloud") /\ waited => CloudsAgree(Covered(S.cloud), R.cloud)
  <2> SUFFICES ASSUME States(S, "cloud"), waited PROVE CloudsAgree(Covered(S.cloud), R.cloud)
    OBVIOUS
  <2>1. Settled(sim, S.cloud)
    BY ListEmpty DEF OnTheAir, CloudsComing
  <2>2. IsList(S.cloud) /\ ValidCloud(S.cloud)
    BY <1>1 DEF AirTyped, FieldsTyped, ValidWeather
  <2>3. CloudsAgree(Covered(S.cloud), ReadCloud(sim))
    BY <2>1, <2>2, CloudReadBack
  <2> QED
    BY <1>2, <2>3
<1>5. ASSUME NEW f \in {"visibility", "qnh", "temperature"}, States(S, f) PROVE R[f] = S[f]
  <2> DEFINE ref == <<f, 0>>
  <2>1. ref \in AirAims(S)
    BY <1>5 DEF AirAims, Datarefs, Scalars, States
  <2>2. WantsAir(S, sim, ref, sim[ref])
    <3> HIDE DEF ref
    <3> QED
      BY <2>1, AirDone
  <2>3. sim[<<f, 0>>] = S[f]
    BY <1>5, <2>2 DEF WantsAir, States
  <2>4. R[f] = sim[<<f, 0>>]
    BY <1>2
  <2> QED
    BY <2>3, <2>4
<1>6. States(S, "precipitation") => R.precipitation = S.precipitation
  <2> SUFFICES ASSUME States(S, "precipitation") PROVE R.precipitation = S.precipitation
    OBVIOUS
  <2> DEFINE ref == <<"rain", 0>>
  <2>1. ref \in AirAims(S)
    BY DEF AirAims, Datarefs, Scalars
  <2>2. WantsAir(S, sim, ref, sim[ref])
    <3> HIDE DEF ref
    <3> QED
      BY <2>1, AirDone
  <2> QED
    BY <1>2, <2>2 DEF WantsAir
<1>7. States(S, "contamination") => R.contamination = S.contamination
  <2> SUFFICES ASSUME States(S, "contamination") PROVE R.contamination = S.contamination
    OBVIOUS
  <2> DEFINE ref == <<"friction", 0>>
  <2>1. ref \in AirAims(S)
    BY DEF AirAims, Datarefs, Scalars
  <2>2. WantsAir(S, sim, ref, sim[ref])
    <3> HIDE DEF ref
    <3> QED
      BY <2>1, AirDone
  <2>3. sim[<<"friction", 0>>] = Frictions[S.contamination]
    BY <2>2 DEF WantsAir
  <2>4. ContaminationOf(Frictions[S.contamination]) = S.contamination
    BY <1>1, FrictionIsRead DEF AirTyped, FieldsTyped
  <2> QED
    BY <1>2, <2>3, <2>4
<1>8. States(S, "dewpoint") => R.dewpoint = Smaller(S.dewpoint, R.temperature)
  <2> SUFFICES ASSUME States(S, "dewpoint") PROVE R.dewpoint = Smaller(S.dewpoint, R.temperature)
    OBVIOUS
  <2> DEFINE ref == <<"dewpoint", 1>>
  <2>1. ref \in AirAims(S)
    <3>1. 1 \in 1 .. WindLevels
      BY ArraysAssumption DEF MaxWindLayers
    <3> QED
      BY <3>1 DEF AirAims, Datarefs
  <2>2. WantsAir(S, sim, ref, sim[ref])
    <3> HIDE DEF ref
    <3> QED
      BY <2>1, AirDone
  <2>3. sim[<<"dewpoint", 1>>] = S.dewpoint
    BY <2>2 DEF WantsAir
  <2> QED
    BY <1>2, <2>3
<1>9. \A f \in {"visibility", "qnh", "temperature", "precipitation", "contamination"} \cap DOMAIN S :
          R[f] = S[f]
  <2> SUFFICES ASSUME NEW f \in {"visibility", "qnh", "temperature", "precipitation", "contamination"},
                      States(S, f)
               PROVE  R[f] = S[f]
    BY DEF States
  <2>1. CASE f \in {"visibility", "qnh", "temperature"}
    BY <1>5, <2>1
  <2>2. CASE f = "precipitation"
    BY <1>6, <2>2
  <2>3. CASE f = "contamination"
    BY <1>7, <2>3
  <2> QED
    BY <2>1, <2>2, <2>3
<1> QED
  BY <1>3, <1>4, <1>8, <1>9 DEF ReadBackAgrees, R

-----------------------------------------------------------------------------
(* Every step keeps the third part                                         *)

\* What a weather request comes to, when it is not refused.
LEMMA WeatherTakesOff ==
    ASSUME NEW s \in Setups, s.op = "weather", ~Refused(PlanOf(s)), NEW mem, NEW waited
    PROVE  OnTheAir(PlanOf(s).applied, mem, PlanOf(s).steps, waited)
<1> DEFINE request == s.request
           resolved == ResolveWeather(request, station.navdata)
           applied == resolved.setup
           shown == Exposed(station.exposed, applied)
           given == Plan(applied, WeatherSteps(applied))
<1>1. PlanOf(s) = CASE Refused(resolved) -> resolved
                    [] ~Refused(resolved) /\ ~shown -> Rejected(502, "not_exposed")
                    [] OTHER -> given
  BY DEF PlanOf, PlanWeather
<1>2. Refused(Rejected(502, "not_exposed"))
  BY DEF Refused, Rejected
<1>3. WeatherTyped(request)
  BY SetupsAssumption
<1>4. ~Refused(resolved) => AirTyped(applied)
  BY <1>3, ResolvedTyped
<1>5. given.applied = applied /\ given.steps = WeatherSteps(applied)
  BY DEF Plan
<1> HIDE DEF resolved, shown, applied, given
<1>6. ~Refused(resolved) /\ PlanOf(s) = given
  BY <1>1, <1>2
<1> QED
  BY <1>4, <1>5, <1>6, PlanOnAir

\* One client's step: no other is alone.
LEMMA AloftAt ==
    ASSUME Orderly, NEW c \in Clients, Busy(c), UNCHANGED <<ask, setup, alone>>,
           \A s \in ask[c] : alone[c] /\ (\A r \in reply'[c] : r.status = 200) /\ s.op = "weather" =>
               /\ OnTheAir(setup[c], sim', todo'[c], ~late'[c])
               /\ \A r \in reply'[c] : ReadBackAgrees(setup[c], r.state, ~late'[c])
    PROVE  Aloft'
<1> SUFFICES ASSUME NEW d \in Clients, NEW s \in ask'[d], Lone(d)', s.op = "weather"
             PROVE  /\ OnTheAir(setup'[d], sim', todo'[d], ~late'[d])
                    /\ \A r \in reply'[d] : ReadBackAgrees(setup'[d], r.state, ~late'[d])
  BY DEF Aloft
<1>1. alone'[d] /\ \A r \in reply'[d] : r.status = 200
  BY DEF Lone
<1>2. d = c
  BY <1>1, BusyIsAlone
<1> QED
  BY <1>1, <1>2

\* What is known of it before the step.
LEMMA AloftSo ==
    ASSUME Aloft, NEW c \in Clients, reply[c] = {}, NEW s \in ask[c], alone[c], s.op = "weather"
    PROVE  OnTheAir(setup[c], sim, todo[c], ~late[c])
BY DEF Aloft, Lone

LEMMA AskAloft ==
    ASSUME Orderly, NEW c \in Clients, NEW s \in Setups, Ask(c, s) PROVE Aloft'
<1> DEFINE plan == PlanOf(s)
           steps == IF Refused(plan) THEN <<>> ELSE plan.steps
           told == IF Refused(plan) THEN {plan} ELSE {}
           shown == IF Refused(plan) THEN <<>> ELSE plan.applied
<1>1. /\ ask' = [ask EXCEPT ![c] = {s}] /\ todo' = [todo EXCEPT ![c] = steps]
      /\ reply' = [reply EXCEPT ![c] = told] /\ setup' = [setup EXCEPT ![c] = shown]
      /\ alone' = [other \in Clients |-> other = c /\ \A b \in Clients : ~Busy(b)]
  BY DEF Ask, Posted
<1>2. Domains
  BY DEF Orderly
<1>3. s.op = "weather" /\ ~Refused(plan) =>
          \A mem, waited : OnTheAir(plan.applied, mem, plan.steps, waited)
  BY WeatherTakesOff
<1>4. /\ Refused(plan) => told = {plan} /\ plan.status # 200
      /\ ~Refused(plan) => told = {} /\ steps = plan.steps /\ shown = plan.applied
  BY DEF Refused
<1> HIDE DEF plan, steps, told, shown
<1>5. ask'[c] = {s} /\ todo'[c] = steps /\ reply'[c] = told /\ setup'[c] = shown
  BY <1>1, <1>2 DEF Domains
<1> SUFFICES ASSUME NEW d \in Clients, NEW q \in ask'[d], Lone(d)', q.op = "weather"
             PROVE  /\ OnTheAir(setup'[d], sim', todo'[d], ~late'[d])
                    /\ \A r \in reply'[d] : ReadBackAgrees(setup'[d], r.state, ~late'[d])
  BY DEF Aloft
<1>6. alone'[d] /\ \A r \in reply'[d] : r.status = 200
  BY DEF Lone
<1>7. d = c
  BY <1>1, <1>6
<1>8. q = s /\ ~Refused(plan)
  BY <1>4, <1>5, <1>6, <1>7
<1> QED
  BY <1>3, <1>4, <1>5, <1>7, <1>8

LEMMA WriteAloft ==
    ASSUME Orderly, Aloft, NEW c \in Clients, WriteOne(c) PROVE Aloft'
<1> DEFINE h == Head(todo[c])
           new == SimAfter(h)
<1>1. /\ todo[c] # <<>> /\ h.do = "write" /\ sim' = new
      /\ todo' = [todo EXCEPT ![c] = Tail(todo[c])]
      /\ UNCHANGED <<ask, reply, setup, alone, late>>
  BY DEF WriteOne, Waiting
<1>2. Domains /\ ClientOK(c) /\ SimOK
  BY DEF Orderly
<1>3. Busy(c) /\ IsList(todo[c]) /\ (\A step \in ToSet(todo[c]) : Proper(step)) /\ reply[c] = {}
  BY <1>1, <1>2, StepsMeanBusy DEF ClientOK
<1>4. h \in ToSet(todo[c]) /\ h.ref \in Datarefs
  <2>1. h \in ToSet(todo[c])
    BY <1>1, <1>3, ListHead
  <2> QED
    BY <1>1, <1>3, <2>1 DEF Proper
<1>5. todo'[c] = Tail(todo[c])
  BY <1>1, <1>2 DEF Domains
<1>6. ASSUME NEW s \in ask[c], alone[c], s.op = "weather"
      PROVE  OnTheAir(setup[c], new, Tail(todo[c]), ~late[c])
  <2>1. OnTheAir(setup[c], sim, todo[c], ~late[c])
    BY <1>3, <1>6, AloftSo
  <2>2. h.ref # <<"source", 0>>
    <3>1. FitsAir(setup[c], sim, todo[c], h)
      BY <1>4, <2>1 DEF OnTheAir
    <3> HIDE DEF h
    <3>2. h.ref[1] \in AirNames
      BY <1>1, <3>1 DEF FitsAir
    <3> QED
      BY <3>2 DEF AirNames
  <2>3. /\ new[h.ref] = h.value
        /\ \A ref \in Datarefs : ref # h.ref /\ ref # <<"source", 0>> => new[ref] = sim[ref]
    <3>1. Datarefs \subseteq DOMAIN sim
      BY <1>2, SimAssumption DEF SimOK
    <3> QED
      BY <1>2, <1>4, <2>2, <3>1, SimAfterIs
  <2> HIDE DEF new
  <2> QED
    BY <1>1, <1>3, <2>1, <2>3, WriteOnAir
<1> HIDE DEF new, h
<1>7. reply'[c] = {}
  BY <1>1, <1>3
<1> QED
  BY <1>1, <1>3, <1>5, <1>6, <1>7, AloftAt

LEMMA ReadAloft ==
    ASSUME Orderly, Aloft, NEW c \in Clients, ReadSome(c) PROVE Aloft'
<1> DEFINE e == Expand(Head(todo[c])) \o Tail(todo[c])
<1>1. /\ todo[c] # <<>> /\ Head(todo[c]).do \notin {"write", "settle", "check"}
      /\ todo' = [todo EXCEPT ![c] = e]
      /\ UNCHANGED <<sim, ask, reply, setup, alone, late>>
  BY DEF ReadSome
<1>2. Domains /\ ClientOK(c) /\ SimOK
  BY DEF Orderly
<1>3. Busy(c) /\ IsList(todo[c]) /\ reply[c] = {}
  BY <1>1, <1>2, StepsMeanBusy DEF ClientOK
<1>4. todo'[c] = e
  BY <1>1, <1>2 DEF Domains
<1>5. ASSUME NEW s \in ask[c], alone[c], s.op = "weather"
      PROVE  OnTheAir(setup[c], sim, e, ~late[c])
  <2>1. OnTheAir(setup[c], sim, todo[c], ~late[c])
    BY <1>3, <1>5, AloftSo
  <2> QED
    BY <1>1, <1>2, <1>3, <2>1, ExpandOnAir
<1> HIDE DEF e
<1>6. reply'[c] = {}
  BY <1>1, <1>3
<1> QED
  BY <1>1, <1>3, <1>4, <1>5, <1>6, AloftAt

\* The wait for the clouds, and the check: whether they show, or it went on too long.
LEMMA SettleAloft ==
    ASSUME Orderly, Aloft, NEW c \in Clients, Settle(c) PROVE Aloft'
<1> DEFINE h == Head(todo[c])
           over == late[c] \/ ~Settled(sim, h.layers)
<1>1. /\ todo[c] # <<>> /\ h.do = "settle"
      /\ late' = [late EXCEPT ![c] = over] /\ todo' = [todo EXCEPT ![c] = Tail(todo[c])]
      /\ UNCHANGED <<sim, ask, reply, setup, alone>>
  BY DEF Settle, Waiting
<1>2. Domains /\ ClientOK(c)
  BY DEF Orderly
<1>3. Busy(c) /\ IsList(todo[c]) /\ reply[c] = {}
  BY <1>1, <1>2, StepsMeanBusy DEF ClientOK
<1>4. todo'[c] = Tail(todo[c]) /\ late'[c] = over
  BY <1>1, <1>2 DEF Domains
<1>5. ASSUME NEW s \in ask[c], alone[c], s.op = "weather"
      PROVE  OnTheAir(setup[c], sim, Tail(todo[c]), ~over)
  <2>1. OnTheAir(setup[c], sim, todo[c], ~late[c])
    BY <1>3, <1>5, AloftSo
  <2>2. (~over => ~late[c]) /\ (~over => Settled(sim, h.layers))
    OBVIOUS
  <2> HIDE DEF over
  <2> QED
    BY <1>1, <1>3, <2>1, <2>2, WaitOnAir
<1> HIDE DEF h, over
<1>6. reply'[c] = {}
  BY <1>1, <1>3
<1> QED
  BY <1>1, <1>3, <1>4, <1>5, <1>6, AloftAt

\* A request that ends in an error.
LEMMA FailedAloft ==
    ASSUME Orderly, NEW c \in Clients, Busy(c), UNCHANGED <<ask, setup, alone>>,
           NEW x, x.status # 200, Conclude(c, x)
    PROVE  Aloft'
<1>1. reply'[c] = {x}
  BY DEF Conclude, Orderly, Domains
<1> QED
  BY <1>1, AloftAt

LEMMA CheckAloft ==
    ASSUME Orderly, Aloft, NEW c \in Clients, Check(c) PROVE Aloft'
<1> DEFINE h == Head(todo[c])
           x == Rejected(502, "not_manual")
<1>1. /\ todo[c] # <<>> /\ h.do = "check" /\ UNCHANGED <<sim, ask, setup, alone, late>>
      /\ \/ todo' = [todo EXCEPT ![c] = Tail(todo[c])] /\ reply' = reply
         \/ Conclude(c, x)
  BY DEF Check, Waiting
<1>2. Domains /\ ClientOK(c)
  BY DEF Orderly
<1>3. Busy(c) /\ IsList(todo[c]) /\ reply[c] = {}
  BY <1>1, <1>2, StepsMeanBusy DEF ClientOK
<1>4. x.status # 200
  BY DEF Rejected
<1> HIDE DEF x
<1>5. CASE todo' = [todo EXCEPT ![c] = Tail(todo[c])] /\ reply' = reply
  <2>1. todo'[c] = Tail(todo[c]) /\ reply'[c] = {}
    BY <1>2, <1>3, <1>5 DEF Domains
  <2>2. ASSUME NEW s \in ask[c], alone[c], s.op = "weather"
        PROVE  OnTheAir(setup[c], sim, Tail(todo[c]), ~late[c])
    <3>1. OnTheAir(setup[c], sim, todo[c], ~late[c])
      BY <1>3, <2>2, AloftSo
    <3>2. h.do \in {"settle", "check"} /\ h.do # "settle"
      BY <1>1
    <3> QED
      BY <1>1, <1>3, <3>1, <3>2, WaitOnAir
  <2> HIDE DEF h
  <2> QED
    BY <1>1, <1>3, <2>1, <2>2, AloftAt
<1>6. CASE Conclude(c, x)
  BY <1>1, <1>3, <1>4, <1>6, FailedAloft
<1> QED
  BY <1>1, <1>5, <1>6

LEMMA FailAloft == ASSUME Orderly, NEW c \in Clients, Fail(c) PROVE Aloft'
<1> DEFINE x == Rejected(500, "failed")
<1>1. todo[c] # <<>> /\ UNCHANGED <<ask, setup, alone>> /\ Conclude(c, x)
  BY DEF Fail
<1>2. Busy(c)
  BY <1>1, StepsMeanBusy DEF Orderly
<1>3. x.status # 200
  BY DEF Rejected
<1> HIDE DEF x
<1> QED
  BY <1>1, <1>2, <1>3, FailedAloft

\* A successful answer reports what it read.
LEMMA WeatherReadBack ==
    ASSUME NEW s, s.op = "weather", ReadBack(s).status = 200
    PROVE  ReadBack(s).state = ReadWeather(sim)
<1> DEFINE readable == WeatherFields \subseteq station.exposed
           valid == ValidWeather(ReadWeather(sim))
           w == [status |-> 200, state |-> ReadWeather(sim)]
<1>1. ReadBack(s) = IF ~readable THEN Rejected(502, "not_readable")
                    ELSE IF ~valid THEN Rejected(500, "failed") ELSE w
  BY DEF ReadBack
<1>2. Rejected(502, "not_readable").status # 200 /\ Rejected(500, "failed").status # 200
  BY DEF Rejected
<1>3. w.state = ReadWeather(sim)
  OBVIOUS
<1> HIDE DEF readable, valid, w
<1> QED
  BY <1>1, <1>2, <1>3

LEMMA FinishAloft ==
    ASSUME Orderly, Aloft, NEW c \in Clients, Finish(c) PROVE Aloft'
<1> DEFINE x == ReadBack(The(ask[c]))
<1>1. /\ Busy(c) /\ todo[c] = <<>> /\ reply' = [reply EXCEPT ![c] = {x}]
      /\ todo' = [todo EXCEPT ![c] = <<>>]
      /\ UNCHANGED <<sim, ask, setup, alone, late>>
  BY DEF Finish, Conclude
<1>2. Domains /\ ClientOK(c)
  BY DEF Orderly
<1>3. reply'[c] = {x} /\ todo'[c] = <<>> /\ reply[c] = {}
  BY <1>1, <1>2 DEF Domains, Busy
<1>4. ASSUME NEW s \in ask[c], alone[c], s.op = "weather", x.status = 200
      PROVE  /\ OnTheAir(setup[c], sim, <<>>, ~late[c])
             /\ ReadBackAgrees(setup[c], x.state, ~late[c])
  <2>1. OnTheAir(setup[c], sim, <<>>, ~late[c])
    BY <1>1, <1>3, <1>4, AloftSo
  <2>2. ReadBackAgrees(setup[c], ReadWeather(sim), ~late[c])
    BY <2>1, ReadBackEnds
  <2>3. The(ask[c]) = s
    <3>1. ask[c] = {s}
      BY <1>2 DEF ClientOK, AtMostOne
    <3> QED
      BY <3>1 DEF The
  <2>4. x.state = ReadWeather(sim)
    BY <1>4, <2>3, WeatherReadBack
  <2> QED
    BY <2>1, <2>2, <2>4
<1> HIDE DEF x
<1> QED
  BY <1>1, <1>3, <1>4, AloftAt

LEMMA ShowAloft == ASSUME Orderly, Aloft, ShowClouds PROVE Aloft'
<1>1. /\ sim' = [ref \in DOMAIN sim |-> IF ref[1] = "sky" THEN sim[<<"cloud", ref[2]>>] ELSE sim[ref]]
      /\ UNCHANGED <<todo, ask, reply, setup, alone, late>>
  BY DEF ShowClouds
<1>2. Datarefs \subseteq DOMAIN sim
  BY SimAssumption DEF Orderly, SimOK
<1>3. \A ref \in Datarefs : ref[1] # "sky" => sim'[ref] = sim[ref]
  BY <1>1, <1>2
<1>4. ASSUME NEW i \in 1 .. CloudSlots PROVE sim'[<<"sky", i>>] = sim[<<"cloud", i>>]
  <2>1. <<"sky", i>> \in DOMAIN sim
    BY <1>2 DEF Datarefs
  <2> DEFINE ref == <<"sky", i>>
  <2>2. ref[1] = "sky" /\ ref[2] = i
    OBVIOUS
  <2> HIDE DEF ref
  <2>3. sim'[ref] = sim[<<"cloud", i>>]
    BY <1>1, <2>1, <2>2 DEF ref
  <2> QED
    BY <2>3 DEF ref
<1> SUFFICES ASSUME NEW d \in Clients, NEW s \in ask'[d], Lone(d)', s.op = "weather"
             PROVE  /\ OnTheAir(setup'[d], sim', todo'[d], ~late'[d])
                    /\ \A r \in reply'[d] : ReadBackAgrees(setup'[d], r.state, ~late'[d])
  BY DEF Aloft
<1>5. /\ OnTheAir(setup[d], sim, todo[d], ~late[d])
      /\ \A r \in reply[d] : ReadBackAgrees(setup[d], r.state, ~late[d])
  BY <1>1 DEF Aloft, Lone
<1>6. OnTheAir(setup[d], sim', todo[d], ~late[d])
  <2> DEFINE new == sim'
  <2>1. /\ \A ref \in Datarefs : ref[1] # "sky" => new[ref] = sim[ref]
        /\ \A i \in 1 .. CloudSlots : new[<<"sky", i>>] = sim[<<"cloud", i>>]
    BY <1>3, <1>4
  <2> HIDE DEF new
  <2>2. OnTheAir(setup[d], new, todo[d], ~late[d])
    BY <1>5, <2>1, ShowOnAir
  <2> QED
    BY <2>2 DEF new
<1> QED
  BY <1>1, <1>5, <1>6

LEMMA StillAloft ==
    ASSUME Aloft, UNCHANGED <<sim, todo, ask, reply, setup, alone, late>> PROVE Aloft'
BY DEF Aloft, Lone

LEMMA StepAloft == ASSUME Orderly, Aloft, [Next]_vars PROVE Aloft'
<1>1. CASE UNCHANGED vars
  BY <1>1, StillAloft DEF vars
<1>2. ASSUME NEW q \in Previews, Preview(q) PROVE Aloft'
  BY <1>2, StillAloft DEF Preview
<1>3. CASE Forget
  BY <1>3, StillAloft DEF Forget
<1>4. ASSUME NEW c \in Clients, NEW s \in Setups, Ask(c, s) PROVE Aloft'
  BY <1>4, AskAloft
<1>5. ASSUME NEW c \in Clients, WriteOne(c) \/ ReadSome(c) \/ Settle(c) PROVE Aloft'
  BY <1>5, WriteAloft, ReadAloft, SettleAloft
<1>6. ASSUME NEW c \in Clients, Check(c) \/ Fail(c) \/ Finish(c) PROVE Aloft'
  BY <1>6, CheckAloft, FailAloft, FinishAloft
<1>7. CASE ShowClouds
  BY <1>7, ShowAloft
<1> QED
  BY <1>1, <1>2, <1>3, <1>4, <1>5, <1>6, <1>7 DEF Next

LEMMA InitAloft == ASSUME Init PROVE Aloft
BY DEF Init, Aloft

-----------------------------------------------------------------------------
(* A preview is what its question asks for                                 *)

LEMMA PreviewForecast ==
    ASSUME NEW q \in Previews, Preview(q) PROVE Forecast'
<1> DEFINE a == [question |-> q, answer |-> AnswerTo(q)]
<1>1. answer' = {a} /\ a.question = q /\ a.answer = AnswerTo(q)
  BY DEF Preview
<1>2. ASSUME q.op = "weather", NEW r, r = AnswerTo(q), ~Refused(r)
      PROVE  /\ ValidWeather(r.setup)
             /\ q.request.preset # {} => PresetIsOverlaid(q.request, r.setup)
  <2>1. r = ResolveWeather(q.request, station.navdata)
    BY <1>2 DEF AnswerTo
  <2>2. WeatherTyped(q.request)
    BY <1>2, PreviewsAssumption
  <2>3. AirTyped(r.setup)
    BY <1>2, <2>1, <2>2, ResolvedTyped
  <2>4. q.request.preset # {} => PresetIsOverlaid(q.request, r.setup)
    BY <1>2, <2>1, <2>2, ResolvedOverlaid
  <2> QED
    BY <2>3, <2>4 DEF AirTyped, FieldsTyped
<1> HIDE DEF a
<1>3. ASSUME NEW b \in answer', b.question.op = "weather"
      PROVE  ~Refused(b.answer) =>
                /\ ValidWeather(b.answer.setup)
                /\ b.question.request.preset # {} =>
                      PresetIsOverlaid(b.question.request, b.answer.setup)
  BY <1>1, <1>2, <1>3
<1> QED
  BY <1>3 DEF Forecast, Answered

LEMMA StepForecast == ASSUME Forecast, [Next]_vars PROVE Forecast'
<1>1. ASSUME answer' = answer PROVE Forecast'
  BY <1>1 DEF Forecast, Answered
<1>2. ASSUME NEW q \in Previews, Preview(q) PROVE Forecast'
  BY <1>2, PreviewForecast
<1>3. CASE Forget
  BY <1>3 DEF Forget, Forecast, Answered
<1>4. ASSUME NEW c \in Clients, NEW s \in Setups, Ask(c, s) PROVE answer' = answer
  BY <1>4 DEF Ask, Posted
<1>5. ASSUME NEW c \in Clients, WriteOne(c) \/ ReadSome(c) \/ Settle(c) PROVE answer' = answer
  BY <1>5 DEF WriteOne, ReadSome, Settle
<1>6. ASSUME NEW c \in Clients, Check(c) \/ Fail(c) \/ Finish(c) PROVE answer' = answer
  BY <1>6 DEF Check, Fail, Finish
<1>7. CASE ShowClouds \/ UNCHANGED vars
  BY <1>1, <1>7 DEF ShowClouds, vars
<1> QED
  BY <1>1, <1>2, <1>3, <1>4, <1>5, <1>6, <1>7 DEF Next

-----------------------------------------------------------------------------
(* What holds at the end of a request nobody disturbed                     *)

LEMMA ScalarsAimed == ASSUME NEW aim, NEW name \in Scalars PROVE <<name, 0>> \in Aimed(aim)
<1>1. <<name, 0>> \in Datarefs
  BY DEF Datarefs
<1>2. <<name, 0>>[1] # "tank"
  BY DEF Scalars
<1> QED
  BY <1>1, <1>2 DEF Aimed

LEMMA CourseEnds ==
    ASSUME NEW aim, OnCourse(aim, sim, <<>>)
    PROVE  /\ \A ref \in Aimed(aim) : Wants(aim, ref, sim[ref])
           /\ \A name \in Scalars : Wants(aim, <<name, 0>>, sim[<<name, 0>>])
           /\ States(aim.setup, "approach_mode") /\ aim.setup.approach_mode => Reads("lateral") = 3
<1>1. ToSet(<<>>) = {} /\ DOMAIN <<>> = {}
  BY ListEmpty
<1>2. \A ref \in Aimed(aim) : Wants(aim, ref, sim[ref])
  BY <1>1 DEF OnCourse
<1>3. \A name \in Scalars : Wants(aim, <<name, 0>>, sim[<<name, 0>>])
  BY <1>2, ScalarsAimed
<1>4. States(aim.setup, "approach_mode") /\ aim.setup.approach_mode => Reads("lateral") = 3
  BY <1>1 DEF OnCourse, ApproachIsLast, Reads
<1> QED
  BY <1>2, <1>3, <1>4

LEMMA OthersEnd ==
    ASSUME NEW aim, \A name \in Scalars : Wants(aim, <<name, 0>>, Reads(name))
    PROVE  LET S == aim.setup IN
           /\ States(S, "nav2") => Reads("nav2") = S.nav2 \div 10
           /\ States(S, "target_heading") => Reads("target_heading") = Fold(S.target_heading)
           /\ States(S, "pitch") => Reads("theta") = S.pitch
           /\ States(S, "roll") => Reads("phi") = S.roll
<1>1. Others \subseteq Scalars
  BY DEF Others, Scalars
<1>2. \A name \in Others : WantsOther(aim.setup, <<name, 0>>, Reads(name))
  BY <1>1 DEF Wants
<1> QED
  BY <1>2 DEF WantsOther, Others

LEMMA ConfigurationEnds ==
    ASSUME NEW aim, NEW stated, aim.setup = stated, SetupTyped(stated), OnCourse(aim, sim, <<>>)
    PROVE  ConfigurationShows(stated)
<1>1. /\ \A name \in Scalars : Wants(aim, <<name, 0>>, Reads(name))
      /\ States(stated, "approach_mode") /\ stated.approach_mode => Reads("lateral") = 3
  BY CourseEnds DEF Reads
<1>2. OwnName \cup Switches \cup {"gear", "nav1", "mode"} \subseteq Scalars
  BY DEF OwnName, Switches, Scalars
<1>3. \A f \in OwnName \cap DOMAIN stated : Reads(f) = stated[f]
  BY <1>1, <1>2 DEF Wants
<1>4. \A f \in {"flaps", "speedbrake", "trim", "throttle", "autobrake", "obs1", "obs2",
                "target_altitude", "target_ias", "target_vertical", "vertical"} \cap DOMAIN stated :
         Reads(f) = stated[f]
  BY <1>3 DEF OwnName
<1>5. States(stated, "gear") => Reads("gear") = Number(stated.gear)
  BY <1>1, <1>2 DEF Wants
<1>6. /\ States(stated, "nav1") => Reads("nav1") = stated.nav1 \div 10
      /\ States(stated, "ils") /\ ~States(stated, "nav1") => Reads("nav1") = stated.ils \div 10
  BY <1>1, <1>2 DEF Wants
<1>10. /\ States(stated, "nav2") => Reads("nav2") = stated.nav2 \div 10
       /\ States(stated, "target_heading") => Reads("target_heading") = Fold(stated.target_heading)
  BY <1>1, OthersEnd
<1>7. States(stated, "lights") =>
         \A switch \in DOMAIN stated.lights : Reads(switch) = Number(stated.lights[switch])
  <2>1. States(stated, "lights") => DOMAIN stated.lights \subseteq Scalars
    BY <1>2 DEF SetupTyped
  <2> QED
    BY <1>1, <2>1 DEF Wants
<1>8. States(stated, "master") => (Reads("mode") = Servos <=> stated.master)
  BY <1>1, <1>2 DEF Wants
<1>9. States(stated, "director") /\ stated.director => Reads("mode") >= Director
  <2>1. States(stated, "director") /\ stated.director => Reads("mode") \in {Director, Servos}
    BY <1>1, <1>2 DEF Wants
  <2> QED
    BY <2>1 DEF Director, Servos
<1> QED
  BY <1>1, <1>4, <1>5, <1>6, <1>7, <1>8, <1>9, <1>10 DEF ConfigurationShows

LEMMA FlightEnds ==
    ASSUME NEW aim, NEW stated, Steady(aim, stated, sim), OnCourse(aim, sim, <<>>)
    PROVE  FlightShows(stated)
<1>1. /\ aim.setup = stated
      /\ \A name \in Scalars : Wants(aim, <<name, 0>>, Reads(name))
  BY CourseEnds DEF Reads, Steady
<1>2. {"altitude", "psi", "vx", "vy", "vz"} \subseteq Scalars
  BY DEF Scalars
<1>3. States(stated, "altitude") => Reads("altitude") = stated.altitude
  <2>1. "altitude" \in OwnName
    BY DEF OwnName
  <2>2. States(stated, "altitude") => Reads("altitude") = stated["altitude"]
    BY <1>1, <1>2, <2>1 DEF Wants, States
  <2> QED
    BY <2>2
<1>4. Reads("psi") = aim.facing
  <2>1. CASE States(stated, "heading")
    BY <1>1, <1>2, <2>1 DEF Wants
  <2>2. CASE ~States(stated, "heading")
    BY <2>2 DEF Steady, Reads
  <2> QED
    BY <2>1, <2>2
<1>5. States(stated, "heading") => Reads("psi") = Fold(stated.heading)
  BY <1>4 DEF Steady
<1>6. Moving(stated) =>
         /\ Reads("vx") = aim.tas * East(aim.facing) - aim.wind.speed * East(aim.wind.direction)
         /\ Reads("vy") = Else(Stated(stated, "vertical"), 0)
         /\ Reads("vz") = aim.wind.speed * North(aim.wind.direction) - aim.tas * North(aim.facing)
  BY <1>1, <1>2 DEF Wants
<1>7. Moving(stated) => /\ aim.tas = AirspeedAt(sim, stated.ias, stated.altitude)
                        /\ aim.wind = WindAt(sim, stated.altitude)
  BY DEF Steady
<1>8. /\ States(stated, "pitch") => Reads("theta") = stated.pitch
      /\ States(stated, "roll") => Reads("phi") = stated.roll
  BY <1>1, OthersEnd
<1> QED
  BY <1>3, <1>4, <1>5, <1>6, <1>7, <1>8 DEF FlightShows, Moving

LEMMA MassesEnd ==
    ASSUME SimOK, NEW aim, NEW stated, Steady(aim, stated, sim), OnCourse(aim, sim, <<>>),
           NEW written, \A ref \in written : MassStated(stated, ref)
    PROVE  MassesShow(stated, written)
<1>1. aim.setup = stated /\ aim.tanks = Reads("tanks")
      /\ \A ref \in Aimed(aim) : Wants(aim, ref, sim[ref])
  BY CourseEnds DEF Reads, Steady
<1>2. 1 .. Reads("tanks") \subseteq Slots
  BY SimAssumption DEF SimOK
<1>3. ASSUME Loads(stated, "tank"), NEW i \in 1 .. Reads("tanks")
      PROVE  sim[<<"tank", i>>] = MassIn(Loaded(stated, "tank"), i)
  <2>1. <<"tank", i>> \in Aimed(aim)
    BY <1>1, <1>2 DEF Aimed, Datarefs
  <2> QED
    BY <1>1, <1>2, <1>3, <2>1 DEF Wants
<1>4. ASSUME Loads(stated, "station"), NEW i \in Slots
      PROVE  sim[<<"station", i>>] = MassIn(Loaded(stated, "station"), i)
  <2>1. <<"station", i>> \in Aimed(aim)
    BY DEF Aimed, Datarefs
  <2> QED
    BY <1>1, <1>4, <2>1 DEF Wants
<1>5. ASSUME NEW name \in Arrays, ~Loads(stated, name) PROVE written \cap ({name} \X Slots) = {}
  <2>1. ASSUME NEW ref \in written, ref \in {name} \X Slots PROVE FALSE
    <3>1. ref[1] = name
      BY <2>1
    <3> QED
      BY <1>5, <3>1 DEF MassStated
  <2> QED
    BY <2>1
<1>6. Loaded(stated, "tank") = stated.loadout.tanks /\ Loaded(stated, "station") = stated.loadout.stations
  BY DEF Loaded, Half
<1> QED
  BY <1>3, <1>4, <1>5, <1>6 DEF MassesShow, MassIn, Arrays

LEMMA PlaceEnds ==
    ASSUME NEW aim, aim.placed = TRUE, OnCourse(aim, sim, <<>>)
    PROVE  Reads("x") = aim.at.x /\ Reads("y") = aim.at.y
<1>1. \A name \in Scalars : Wants(aim, <<name, 0>>, Reads(name))
  BY CourseEnds DEF Reads
<1>2. {"x", "y"} \subseteq Scalars
  BY DEF Scalars
<1> QED
  BY <1>1, <1>2 DEF Wants

LEMMA DoneIs ==
    ASSUME NEW c, ClientOK(c), Done(c)
    PROVE  Lone(c) /\ todo[c] = <<>> /\ The(reply[c]) \in reply[c]
<1>1. PICK r \in reply[c] : TRUE
  BY DEF Done
<1>2. The(reply[c]) \in reply[c]
  BY <1>1, TheIsIn
<1>3. \A x \in reply[c] : x = The(reply[c])
  BY <1>2 DEF ClientOK, AtMostOne
<1>4. todo[c] = <<>>
  BY <1>1 DEF ClientOK, Busy
<1> QED
  BY <1>2, <1>3, <1>4 DEF Lone, Done

LEMMA IInvApplied == IInv => AppliedIsWritten
<1> SUFFICES ASSUME IInv, NEW c \in Clients, NEW s \in ask[c], Done(c), s.op \in Writing
             PROVE  /\ ConfigurationShows(setup[c]) /\ FlightShows(setup[c])
                    /\ MassesShow(setup[c], wrote[c])
                    /\ s.op = "place" =>
                          \E resolved \in {Resolve(s.request.placement, station.navdata,
                                                   station.airframe.stalling)} :
                              /\ Reads("x") = resolved.placement.position.x
                              /\ Reads("y") = resolved.placement.position.y
  BY DEF AppliedIsWritten, Writing
<1>1. Orderly /\ Underway /\ SimOK /\ ClientOK(c)
  BY DEF IInv, Orderly
<1>2. Lone(c) /\ todo[c] = <<>>
  BY <1>1, DoneIs
<1> DEFINE stated == setup[c]
           aim == Aim(s, stated, sim)
           where == Resolve(s.request.placement, station.navdata, station.airframe.stalling)
<1>3. OnCourse(aim, sim, <<>>)
  BY <1>1, <1>2 DEF Underway
<1> HIDE DEF stated
<1>4. aim.setup = stated
  BY DEF Aim
<1>5. SetupTyped(stated)
  <2> HIDE DEF aim
  <2> QED
    BY <1>3, <1>4 DEF OnCourse
<1>6. /\ Steady(aim, stated, sim) /\ (aim.placed <=> s.op = "place")
      /\ s.op = "place" => aim.at = where.placement.position
  BY <1>5, AimIs
<1>7. s.op = "place" => aim.placed = TRUE
  BY DEF Aim
<1> HIDE DEF aim, where
<1>8. ConfigurationShows(stated) /\ FlightShows(stated)
  BY <1>3, <1>4, <1>5, <1>6, ConfigurationEnds, FlightEnds
<1>9. MassesShow(stated, wrote[c])
  <2>1. \A ref \in wrote[c] : MassStated(stated, ref)
    BY <1>2 DEF IInv, Sparing, Lone, stated
  <2> QED
    BY <1>1, <1>3, <1>6, <2>1, MassesEnd
<1>10. s.op = "place" => /\ Reads("x") = where.placement.position.x
                         /\ Reads("y") = where.placement.position.y
  BY <1>3, <1>6, <1>7, PlaceEnds
<1> QED
  BY <1>8, <1>9, <1>10 DEF stated, where

LEMMA IInvWeather == IInv => WeatherIsConsistent
<1> SUFFICES ASSUME IInv PROVE WeatherIsConsistent
  OBVIOUS
<1>1. ASSUME NEW c \in Clients, NEW s \in ask[c], Done(c), s.op = "weather"
      PROVE  /\ AirIsConsistent(setup[c])
             /\ ReadBackAgrees(setup[c], The(reply[c]).state, ~late[c])
  <2>1. Aloft /\ ClientOK(c)
    BY DEF IInv, Orderly
  <2>2. Lone(c) /\ todo[c] = <<>> /\ The(reply[c]) \in reply[c]
    BY <1>1, <2>1, DoneIs
  <2>3. OnTheAir(setup[c], sim, <<>>, ~late[c])
    BY <1>1, <2>1, <2>2 DEF Aloft
  <2>4. AirIsConsistent(setup[c])
    BY <2>3, ConsistentEnds
  <2> QED
    BY <1>1, <2>1, <2>2, <2>4 DEF Aloft
<1>2. Forecast
  BY DEF IInv
<1> QED
  BY <1>1, <1>2 DEF WeatherIsConsistent, Forecast

LEMMA AtMostOneIs == ASSUME NEW S, AtMostOne(S) PROVE Cardinality(S) <= 1
<1>1. CASE S = {}
  BY <1>1, FS_EmptySet
<1>2. CASE S # {}
  <2>1. PICK x : x \in S
    BY <1>2
  <2>2. S = {x}
    BY <2>1 DEF AtMostOne
  <2>3. Cardinality(S) = 1
    BY <2>2, FS_Singleton
  <2> QED
    BY <2>3
<1> QED
  BY <1>1, <1>2

LEMMA IInvTyped == IInv => SetupTypeOK
<1> SUFFICES ASSUME IInv PROVE SetupTypeOK
  OBVIOUS
<1>1. Bounds /\ SimOK /\ \A c \in Clients : ClientOK(c)
  BY DEF IInv, Orderly
<1>2. Cardinality(answer) <= 1
  BY <1>1, AtMostOneIs DEF Bounds
<1>3. ASSUME NEW c \in Clients
      PROVE  /\ Cardinality(ask[c]) <= 1 /\ Cardinality(reply[c]) <= 1
             /\ ~Busy(c) => todo[c] = <<>>
             /\ wrote[c] \subseteq DOMAIN sim
             /\ alone[c] \in BOOLEAN /\ late[c] \in BOOLEAN
  <2>1. Cardinality(ask[c]) <= 1 /\ Cardinality(reply[c]) <= 1
    BY <1>1, AtMostOneIs DEF ClientOK
  <2>2. wrote[c] \subseteq DOMAIN sim
    BY <1>1, SimAssumption DEF ClientOK, SimOK
  <2> QED
    BY <1>1, <2>1, <2>2 DEF ClientOK
<1>4. /\ station \in Starts /\ DOMAIN sim = DOMAIN FirstSim
      /\ Reads("mode") \in {Off, Director, Servos}
      /\ \A i \in 1 .. WindLevels : sim[<<"wind", i>>].altitude \in Int
      /\ asked \in 0 .. MaxAsk /\ faults \in 0 .. MaxFaults
  BY <1>1 DEF Bounds, SimOK, Modes
<1> QED
  BY <1>2, <1>3, <1>4 DEF SetupTypeOK

-----------------------------------------------------------------------------
(* The theorems                                                            *)

LEMMA Invariant == Spec => []IInv
<1>1. Init => IInv
  <2>1. Init => Forecast
    BY DEF Init, Forecast, Answered
  <2> QED
    BY <2>1, InitOrderly, InitUnderway, InitAloft DEF IInv
<1>2. IInv /\ [Next]_vars => IInv'
  BY StepOrderly, StepUnderway, StepSparing, StepAloft, StepForecast DEF IInv
<1> QED
  BY <1>1, <1>2, PTL DEF Spec

\* Every dataref keeps a value of its kind, whatever is written and in whatever
\* order the requests' steps interleave, and a request with steps left is one
\* that waits for its answer (xplane_adapter.py set_position to set_weather).
THEOREM SetupTypes == Spec => []SetupTypeOK
BY Invariant, IInvTyped, PTL

\* A request that is refused has written nothing, and one refused because the
\* simulator keeps its own weather has written only the asking for it: for every
\* set of requests, clients and installations (the routes' 404, 422, 503 and 502).
THEOREM RefusalsWriteNothing == Spec => []RefusedWritesNothing
<1>1. IInv => RefusedWritesNothing
  BY DEF IInv, Orderly
<1> QED
  BY <1>1, Invariant, PTL

\* When a placement, a setup or a loadout ran alone to a successful answer, the
\* simulator has what the answer says was applied: the configuration, the master
\* switch, the approach mode and the autopilot's targets, the place, the attitude,
\* the motion through the wind, and every mass of the halves of a loadout that were
\* stated.  The answer says it of a gross weight and a fuel too, and nothing is
\* written for them: a half that no loadout states is not touched
\* (xplane_adapter.py apply_setup, set_position; system_routes.py).
THEOREM AppliedWritten == Spec => []AppliedIsWritten
BY Invariant, IInvApplied, PTL

\* The weather an answer announces is valid, and a preset's layers lie over the
\* field and across the runway as it has them; a weather request that ran alone to
\* a successful answer leaves one air from the ground up, its levels ascending, the
\* temperature following them and no dewpoint above it, and reports what was asked
\* for (core/weather, xplane_adapter.py set_weather and get_weather).
THEOREM WeatherConsistent == Spec => []WeatherIsConsistent
BY Invariant, IInvWeather, PTL
=============================================================================
