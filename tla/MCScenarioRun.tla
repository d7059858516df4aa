----------------------------- MODULE MCScenarioRun -----------------------------
EXTENDS ScenarioRun

CONSTANTS full, parked, trafficOnly, f1, f2, f3

Declares(weather, position, setup, immediate, arms, traffic) ==
  [weather |-> weather, position |-> position, setup |-> setup,
   immediate |-> immediate, armed |-> arms, traffic |-> traffic]

\* A document with every block, a setup of its own with an unsupported failure, and
\* nothing but traffic.
MCBody == (full :> Declares(TRUE, TRUE, {"plain"}, <<f1>>, <<f2>>, TRUE))
       @@ (parked :> Declares(FALSE, FALSE, {"loadout"}, <<f1, f3>>, <<>>, FALSE))
       @@ (trafficOnly :> Declares(FALSE, FALSE, {}, <<>>, <<>>, TRUE))

AllFlags == {"can_set_weather", "can_set_position", "can_set_aircraft_state",
             "can_control_autopilot", "can_inject_failures", "can_spawn_traffic"}
================================================================================
