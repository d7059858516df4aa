---------------------------- MODULE WeatherRequests ----------------------------
(***************************************************************************)
(* What a weather request asks the simulator for (core/weather and         *)
(* weather_routes.py).  A setup is the function from the fields it states  *)
(* to their values: a field it does not state is left as the simulator has *)
(* it.  Ratios are in hundredths, visibility in metres, heights in feet.   *)
(***************************************************************************)
EXTENDS Placements

MaxWindLayers  == 3
MaxCloudLayers == 3
LayerSpacing   == 100

Wind(altitude, direction, speed, gust, turbulence) ==
    [altitude |-> altitude, direction |-> direction, speed |-> speed, gust |-> gust,
     turbulence |-> turbulence]
Cloud(base, tops, coverage, kind) ==
    [base |-> base, tops |-> tops, coverage |-> coverage, kind |-> kind]

\* Sorted, and no two within a hundred feet.
Spaced(heights) ==
    \A i, j \in DOMAIN heights : i < j => heights[j] - heights[i] >= LayerSpacing * (j - i)

ValidWind(layers) ==
    /\ Len(layers) <= MaxWindLayers
    /\ \A i \in DOMAIN layers : layers[i].altitude >= 0
    /\ Spaced([i \in DOMAIN layers |-> layers[i].altitude])

ValidCloud(layers) ==
    /\ Len(layers) <= MaxCloudLayers
    /\ \A i \in DOMAIN layers : layers[i].tops > layers[i].base
    /\ Spaced([i \in DOMAIN layers |-> layers[i].base])

States(setup, field) == field \in DOMAIN setup

ValidWeather(setup) ==
    /\ States(setup, "wind") => ValidWind(setup.wind)
    /\ States(setup, "cloud") => ValidCloud(setup.cloud)
    /\ States(setup, "dewpoint") /\ States(setup, "temperature")
         => setup.dewpoint <= setup.temperature

-----------------------------------------------------------------------------
(* The presets.  Heights are above the field; a wind's direction is stated *)
(* (from) or measured from the runway's bearing (offset).                  *)

From(direction) == [absolute |-> TRUE, degrees |-> direction]
OffRunway(offset) == [absolute |-> FALSE, degrees |-> offset]

Stratus(base, tops) == << Cloud(base, tops, 100, "stratus") >>

WeatherPresets ==
    [cavok |-> [cloud |-> <<>>,
                setup |-> [visibility |-> 20000, qnh |-> 1013, temperature |-> 15, dewpoint |-> 5,
                           precipitation |-> 0, contamination |-> "dry"]],
     cat_i |-> [cloud |-> Stratus(250, 2500),
                setup |-> [visibility |-> 800, temperature |-> 12, dewpoint |-> 12,
                           precipitation |-> 20, contamination |-> "wet"]],
     cat_ii |-> [cloud |-> Stratus(120, 2000),
                 setup |-> [visibility |-> 350, temperature |-> 10, dewpoint |-> 10,
                            precipitation |-> 10, contamination |-> "wet"]],
     cat_iii |-> [wind |-> << Wind(0, From(360), 3, 0, 0) >>, cloud |-> Stratus(50, 1500),
                  setup |-> [visibility |-> 125, temperature |-> 8, dewpoint |-> 8,
                             precipitation |-> 0, contamination |-> "wet"]],
     storm |-> [wind |-> << Wind(0, From(240), 25, 15, 70) >>,
                cloud |-> << Cloud(4000, 35000, 75, "cumulonimbus") >>,
                setup |-> [visibility |-> 3000, qnh |-> 998, temperature |-> 22, dewpoint |-> 20,
                           precipitation |-> 100, contamination |-> "puddles"]],
     crosswind |-> [wind |-> << Wind(0, OffRunway(90), 20, 5, 20) >>, setup |-> <<>>],
     mountain_wave |-> [wind |-> << Wind(0, From(270), 15, 0, 0), Wind(8000, From(270), 35, 0, 30),
                                    Wind(24000, From(270), 65, 0, 60) >>,
                        setup |-> <<>>]]

LayersOf(preset, kind) == IF States(preset, kind) THEN preset[kind] ELSE <<>>

RequiresRunway(preset)  == \E i \in DOMAIN LayersOf(preset, "wind") :
                               ~preset.wind[i].direction.absolute
RequiresAirport(preset) == LayersOf(preset, "wind") # <<>> \/ LayersOf(preset, "cloud") # <<>>

\* Over the field's elevation, and off the runway's true bearing.
ResolveWindLayers(layers, bearing, elevation) ==
    [i \in DOMAIN layers |->
        [layers[i] EXCEPT !.altitude = elevation + @,
                          !.direction = IF @.absolute THEN @.degrees
                                        ELSE Fold(bearing + @.degrees)]]
ResolveCloudLayers(layers, elevation) ==
    [i \in DOMAIN layers |-> [layers[i] EXCEPT !.base = elevation + @, !.tops = elevation + @]]

\* context: the runway's bearing and the field's elevation, each absent or known.
ResolvePreset(preset, context) ==
    Over(IF States(preset, "wind")
         THEN [wind |-> ResolveWindLayers(preset.wind, Else(context.bearing, 0),
                                          Else(context.elevation, 0))] ELSE <<>>,
         Over(IF States(preset, "cloud")
              THEN [cloud |-> ResolveCloudLayers(preset.cloud, Else(context.elevation, 0))] ELSE <<>>,
              preset.setup))

\* The overlay, validated again with what the preset states.
MergeWeather(base, overlay) == Over(overlay, base)

\* One note per overridden field: whether the preset stated it.
OverrideNotes(base, overlay) ==
    {[field |-> f, displaced |-> States(base, f)] : f \in DOMAIN overlay}

-----------------------------------------------------------------------------
(* Resolving a request: preset, airport and runway are optional            *)

Context(bearing, elevation) == [bearing |-> bearing, elevation |-> elevation]

\* A runway without its airport is not looked at.
WeatherContext(request) ==
    Context({r.axis : r \in {r \in RunwayEnds : <<r.ident>> = request.runway /\ request.airport # {}}},
            {a.elevation : a \in {a \in Airfields : a.icao \in request.airport}})

ContextIsUnknown(request) ==
    /\ request.airport # {}
    /\ \/ \A a \in Airfields : a.icao \notin request.airport
       \/ request.runway # <<>> /\ \A r \in RunwayEnds : <<r.ident>> # request.runway

WeatherReply(setup, notes) == [status |-> 200, setup |-> setup, notes |-> notes]

ResolveWithPreset(request, preset) ==
    LET context == WeatherContext(request)
        base    == ResolvePreset(preset, context)
        setup   == MergeWeather(base, Else(request.setup, <<>>))
    IN CASE \/ RequiresRunway(preset) /\ context.bearing = {}
            \/ RequiresAirport(preset) /\ context.elevation = {}
            \/ ~ValidWeather(base) \/ ~ValidWeather(setup) -> Refusal(422)
         [] OTHER -> WeatherReply(setup, OverrideNotes(base, Else(request.setup, <<>>)))

\* The request itself was validated when it was parsed; only one that names an
\* airport needs the index.
ResolveWeather(request, navdata) ==
    IF request.airport # {} /\ ~navdata THEN Refusal(503)
    ELSE IF ContextIsUnknown(request) THEN Refusal(404)
    ELSE IF request.preset = {} THEN WeatherReply(The(request.setup), {})
    ELSE ResolveWithPreset(request, WeatherPresets[The(request.preset)])
=============================================================================
