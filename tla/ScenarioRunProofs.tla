-------------------------- MODULE ScenarioRunProofs --------------------------
(***************************************************************************)
(* Proofs about ScenarioRun, for any documents, any number of clients and  *)
(* failures, and whatever the calls do.  The invariant Inv rests on the    *)
(* shape of a plan: its calls come in stretches, one per component, with   *)
(* the failures last.  So the place of a task in its plan tells what the   *)
(* polled status and the report under way must say; and the calls already  *)
(* made are not undone by the later ones, because the one call that undoes *)
(* something, the repair, comes before every failure.                      *)
(*                                                                         *)
(* First the plans, then what each action does to the records (the Effect  *)
(* lemmas), then one part of Inv after the other.                          *)
(***************************************************************************)
EXTENDS ScenarioRun, TLAPS

-----------------------------------------------------------------------------
(* Plans.                                                                   *)

Op == {"resolve_weather", "set_weather", "get_weather", "resolve_placement", "apply_setup",
       "set_position", "fix_all_systems", "get_aircraft_state",
       "inject_failure", "arm_failure"}
CallSet == [op : Op, steps : SUBSET Step, ref : Failure \cup {None}]

\* The steps a placement, or a setup on its own, is reported under.
Placed(d) == IF Body[d].position THEN {"aircraft_state", "position"} ELSE {"aircraft_state"}

\* A call is a record of its parts.
LEMMA CallIs ==
    ASSUME NEW op, NEW steps, NEW ref
    PROVE  /\ Call(op, steps, ref).op = op /\ Call(op, steps, ref).steps = steps
           /\ Call(op, steps, ref).ref = ref
           /\ op \in Op /\ steps \in SUBSET Step /\ ref \in Failure \cup {None}
                => Call(op, steps, ref) \in CallSet
BY DEF Call, CallSet

\* Calls makes one call per operation, in order, all for the same steps.
LEMMA CallsRow ==
    ASSUME NEW ops \in Seq(Op), NEW steps \in SUBSET Step
    PROVE  /\ Calls(ops, steps) \in Seq(CallSet) /\ Len(Calls(ops, steps)) = Len(ops)
           /\ \A i \in 1 .. Len(ops) : /\ Calls(ops, steps)[i].op = ops[i]
                                       /\ Calls(ops, steps)[i].steps = steps
<1>1. \A i \in 1 .. Len(ops) : Call(ops[i], steps, None) \in CallSet
  BY CallIs
<1>2. Calls(ops, steps) = [i \in 1 .. Len(ops) |-> Call(ops[i], steps, None)]
  BY DEF Calls
<1>3. Len(ops) \in Nat
  OBVIOUS
<1>4. Calls(ops, steps) \in [1 .. Len(ops) -> CallSet]
  BY <1>1, <1>2
<1>5. Calls(ops, steps) \in Seq(CallSet) /\ Len(Calls(ops, steps)) = Len(ops)
  BY <1>3, <1>4
<1> QED
  BY <1>2, <1>5, CallIs

\* CallsOn makes one call per failure, in order.
LEMMA CallsOnRow ==
    ASSUME NEW refs \in Seq(Failure), NEW op \in Op
    PROVE  /\ CallsOn(op, refs) \in Seq(CallSet) /\ Len(CallsOn(op, refs)) = Len(refs)
           /\ \A i \in 1 .. Len(refs) : /\ CallsOn(op, refs)[i].op = op
                                        /\ CallsOn(op, refs)[i].steps = {"failures"}
                                        /\ CallsOn(op, refs)[i].ref = refs[i]
<1>0. {"failures"} \in SUBSET Step
  BY DEF Step
<1>1. \A i \in 1 .. Len(refs) : Call(op, {"failures"}, refs[i]) \in CallSet
  BY <1>0, CallIs
<1>2. CallsOn(op, refs) = [i \in 1 .. Len(refs) |-> Call(op, {"failures"}, refs[i])]
  BY DEF CallsOn
<1>3. Len(refs) \in Nat
  OBVIOUS
<1>4. CallsOn(op, refs) \in [1 .. Len(refs) -> CallSet]
  BY <1>1, <1>2
<1>5. CallsOn(op, refs) \in Seq(CallSet) /\ Len(CallsOn(op, refs)) = Len(refs)
  BY <1>3, <1>4
<1> QED
  BY <1>2, <1>5, CallIs

\* Two rows, or three, one after the other.
LEMMA TwoRows ==
    ASSUME NEW q1 \in Seq(CallSet), NEW q2 \in Seq(CallSet), NEW p, p = q1 \o q2
    PROVE  /\ p \in Seq(CallSet) /\ Len(p) = Len(q1) + Len(q2)
           /\ \A i \in 1 .. Len(p) : p[i] = IF i <= Len(q1) THEN q1[i] ELSE q2[i - Len(q1)]
           /\ \A i \in 1 .. Len(q1) : p[i] = q1[i]
           /\ \A i \in 1 .. Len(q2) : p[Len(q1) + i] = q2[i]
OBVIOUS

LEMMA ThreeRows ==
    ASSUME NEW q1 \in Seq(CallSet), NEW q2 \in Seq(CallSet), NEW q3 \in Seq(CallSet),
           NEW p, p = q1 \o q2 \o q3
    PROVE  /\ p \in Seq(CallSet) /\ Len(p) = Len(q1) + Len(q2) + Len(q3)
           /\ \A i \in 1 .. Len(p) :
                p[i] = IF i <= Len(q1) THEN q1[i]
                       ELSE IF i <= Len(q1) + Len(q2) THEN q2[i - Len(q1)]
                       ELSE q3[i - (Len(q1) + Len(q2))]
           /\ \A i \in 1 .. Len(q1) : p[i] = q1[i]
           /\ \A i \in 1 .. Len(q2) : p[Len(q1) + i] = q2[i]
           /\ \A i \in 1 .. Len(q3) : p[Len(q1) + Len(q2) + i] = q3[i]
OBVIOUS

\* What every plan is like: its steps come one after the other, the failures last,
\* and it has the calls that each block of its document asks for.
InTurn(p, m, n, A, B) ==
    /\ A # B /\ A # {"failures"} /\ B # {"failures"}
    /\ \A i \in 1 .. Len(p) :
         p[i].steps = IF i <= m THEN A ELSE IF i <= n THEN B ELSE {"failures"}

Covers(p, d) ==
    /\ \A i \in 1 .. Len(p) :
         /\ p[i].steps \in {{"weather"}, Placed(d), {"failures"}}
         /\ p[i].steps = {"failures"} <=> p[i].op \in {"inject_failure", "arm_failure"}
         /\ p[i].steps = {"weather"} => Body[d].weather
    /\ Body[d].weather =>
         \E i \in 1 .. Len(p) : p[i].op = "set_weather" /\ p[i].steps = {"weather"}
    /\ Body[d].position \/ Body[d].setup # {} \/ (\E i \in 1 .. Len(p) : p[i].steps = Placed(d))
         => \E i \in 1 .. Len(p) : p[i].op = "apply_setup" /\ p[i].steps = Placed(d)
    /\ Body[d].position =>
         \E i \in 1 .. Len(p) : p[i].op = "set_position" /\ p[i].steps = Placed(d)
    /\ \A f \in ToSet(Body[d].immediate) :
         \E i \in 1 .. Len(p) : p[i].op = "inject_failure" /\ p[i].ref = f
    /\ \A f \in ToSet(Body[d].armed) :
         \E i \in 1 .. Len(p) : p[i].op = "arm_failure" /\ p[i].ref = f

PlanOK(p, d) == /\ p \in Seq(CallSet) /\ Covers(p, d)
                /\ \E m, n \in Nat : \E A, B : InTurn(p, m, n, A, B)

\* The blocks a document may have, and the steps they are reported under.
LEMMA Blocks ==
    ASSUME NEW d \in Document
    PROVE  /\ Body[d].weather \in BOOLEAN /\ Body[d].position \in BOOLEAN
           /\ Body[d].setup \in SUBSET SetupField
           /\ Body[d].immediate \in Seq(Failure) /\ Body[d].armed \in Seq(Failure)
           /\ Body[d].traffic \in BOOLEAN
           /\ Placed(d) \in SUBSET Step /\ Placed(d) # {"weather"} /\ Placed(d) # {"failures"}
           /\ Placed(d) # {}
<1>1. Body[d] \in Declared
  BY BodyAssumption
<1>2. /\ Placed(d) \in SUBSET Step /\ Placed(d) # {"weather"} /\ Placed(d) # {"failures"}
      /\ "aircraft_state" \in Placed(d)
  BY DEF Placed, Step
<1> QED
  BY <1>1, <1>2 DEF Declared

WeatherRow(q, d) ==
    /\ q \in Seq(CallSet)
    /\ \A i \in 1 .. Len(q) : /\ q[i].steps = {"weather"}
                              /\ q[i].op \in {"resolve_weather", "set_weather", "get_weather"}
    /\ IF Body[d].weather THEN 2 \in 1 .. Len(q) /\ q[2].op = "set_weather" ELSE Len(q) = 0

PlacementRow(q, d) ==
    /\ q \in Seq(CallSet)
    /\ \A i \in 1 .. Len(q) : /\ q[i].steps = Placed(d)
                              /\ q[i].op \notin {"inject_failure", "arm_failure"}
    /\ Body[d].position =>
         3 \in 1 .. Len(q) /\ q[2].op = "apply_setup" /\ q[3].op = "set_position"
    /\ ~Body[d].position /\ Body[d].setup # {} => 1 \in 1 .. Len(q) /\ q[1].op = "apply_setup"
    /\ ~Body[d].position /\ Body[d].setup = {} => Len(q) = 0

FailureRow(q, d) ==
    /\ q \in Seq(CallSet)
    /\ \A i \in 1 .. Len(q) : /\ q[i].steps = {"failures"}
                              /\ q[i].op \in {"inject_failure", "arm_failure"}
    /\ \A f \in ToSet(Body[d].immediate) :
         \E i \in 1 .. Len(q) : q[i].op = "inject_failure" /\ q[i].ref = f
    /\ \A f \in ToSet(Body[d].armed) :
         \E i \in 1 .. Len(q) : q[i].op = "arm_failure" /\ q[i].ref = f

\* The calls of the weather block, for a run and for a profile.
LEMMA WeatherRows ==
    ASSUME NEW d \in Document
    PROVE  /\ WeatherRow(WeatherCalls(d, <<"resolve_weather", "set_weather">>), d)
           /\ WeatherRow(WeatherCalls(d, <<"resolve_weather", "set_weather", "get_weather">>), d)
<1> DEFINE two == <<"resolve_weather", "set_weather">>
           three == <<"resolve_weather", "set_weather", "get_weather">>
<1>1. {"weather"} \in SUBSET Step /\ two \in Seq(Op) /\ three \in Seq(Op)
  BY DEF Step, Op
<1>2. /\ Len(two) = 2 /\ two[1] = "resolve_weather" /\ two[2] = "set_weather"
      /\ Len(three) = 3 /\ three[1] = "resolve_weather" /\ three[2] = "set_weather"
      /\ three[3] = "get_weather"
  OBVIOUS
<1> HIDE DEF two, three
<1>3. CASE Body[d].weather
  <2>1. /\ WeatherCalls(d, two) = Calls(two, {"weather"})
        /\ WeatherCalls(d, three) = Calls(three, {"weather"})
    BY <1>3 DEF WeatherCalls
  <2>2. WeatherRow(Calls(two, {"weather"}), d)
    BY <1>1, <1>2, <1>3, CallsRow DEF WeatherRow
  <2>3. WeatherRow(Calls(three, {"weather"}), d)
    BY <1>1, <1>2, <1>3, CallsRow DEF WeatherRow
  <2> QED
    BY <2>1, <2>2, <2>3 DEF two, three
<1>4. CASE ~Body[d].weather
  <2>1. WeatherCalls(d, two) = <<>> /\ WeatherCalls(d, three) = <<>>
    BY <1>4 DEF WeatherCalls
  <2>2. WeatherRow(<<>>, d)
    BY <1>4 DEF WeatherRow
  <2> QED
    BY <2>1, <2>2 DEF two, three
<1> QED
  BY <1>3, <1>4

\* The calls of the position block, or of a setup on its own.
LEMMA PlacementRows ==
    ASSUME NEW d \in Document
    PROVE  PlacementRow(PlacementCalls(d), d)
<1> DEFINE five == <<"resolve_placement", "apply_setup", "set_position", "fix_all_systems",
                     "get_aircraft_state">>
           one == <<"apply_setup">>
<1>1. five \in Seq(Op) /\ one \in Seq(Op) /\ Placed(d) \in SUBSET Step
  BY Blocks DEF Op
<1>2. /\ Len(five) = 5 /\ five[2] = "apply_setup" /\ five[3] = "set_position"
      /\ \A i \in 1 .. 5 : five[i] \notin {"inject_failure", "arm_failure"}
      /\ Len(one) = 1 /\ one[1] = "apply_setup"
  OBVIOUS
<1> HIDE DEF five, one
<1>3. CASE Body[d].position
  <2>1. PlacementCalls(d) = Calls(five, Placed(d))
    BY <1>3 DEF PlacementCalls, Placed, five
  <2> DEFINE q == Calls(five, Placed(d))
  <2>3. /\ q \in Seq(CallSet) /\ Len(q) = 5
        /\ \A i \in 1 .. 5 : q[i].op = five[i] /\ q[i].steps = Placed(d)
    BY <1>1, <1>2, CallsRow
  <2> HIDE DEF q
  <2>4. \A i \in 1 .. Len(q) : /\ q[i].steps = Placed(d)
                               /\ q[i].op \notin {"inject_failure", "arm_failure"}
    BY <1>2, <2>3
  <2>5. 3 \in 1 .. Len(q) /\ q[2].op = "apply_setup" /\ q[3].op = "set_position"
    BY <1>2, <2>3
  <2>2. PlacementRow(q, d)
    BY <1>3, <2>3, <2>4, <2>5 DEF PlacementRow
  <2> QED
    BY <2>1, <2>2 DEF q
<1>4. CASE ~Body[d].position /\ Body[d].setup # {}
  <2>1. PlacementCalls(d) = Calls(one, Placed(d))
    BY <1>4 DEF PlacementCalls, Placed, one
  <2>2. PlacementRow(Calls(one, Placed(d)), d)
    BY <1>1, <1>2, <1>4, CallsRow DEF PlacementRow
  <2> QED
    BY <2>1, <2>2
<1>5. CASE ~Body[d].position /\ Body[d].setup = {}
  <2>1. PlacementCalls(d) = <<>>
    BY <1>5 DEF PlacementCalls
  <2>2. PlacementRow(<<>>, d)
    BY <1>5 DEF PlacementRow
  <2> QED
    BY <2>1, <2>2
<1> QED
  BY <1>3, <1>4, <1>5

\* Every failure of the document has its call.
LEMMA FailureRows ==
    ASSUME NEW d \in Document
    PROVE  FailureRow(FailureCalls(d), d)
<1> DEFINE now == Body[d].immediate
           later == Body[d].armed
           q1 == CallsOn("inject_failure", now)
           q2 == CallsOn("arm_failure", later)
<1>1. now \in Seq(Failure) /\ later \in Seq(Failure)
  BY Blocks
<1>2. FailureCalls(d) = q1 \o q2
  BY DEF FailureCalls
<1>3. /\ q1 \in Seq(CallSet) /\ Len(q1) = Len(now)
      /\ \A i \in 1 .. Len(now) : /\ q1[i].op = "inject_failure" /\ q1[i].steps = {"failures"}
                                  /\ q1[i].ref = now[i]
  BY <1>1, CallsOnRow DEF Op
<1>4. /\ q2 \in Seq(CallSet) /\ Len(q2) = Len(later)
      /\ \A i \in 1 .. Len(later) : /\ q2[i].op = "arm_failure" /\ q2[i].steps = {"failures"}
                                    /\ q2[i].ref = later[i]
  BY <1>1, CallsOnRow DEF Op
<1>5. \A f \in ToSet(now) : \E i \in 1 .. Len(now) : f = now[i]
  BY <1>1 DEF ToSet
<1>6. \A f \in ToSet(later) : \E i \in 1 .. Len(later) : f = later[i]
  BY <1>1 DEF ToSet
<1>7. Len(now) \in Nat /\ Len(later) \in Nat
  BY <1>1
<1> HIDE DEF q1, q2, now, later
<1> DEFINE q == q1 \o q2
<1>q. q = q1 \o q2
  OBVIOUS
<1> HIDE DEF q
<1>p. q1 \in Seq(CallSet) /\ q2 \in Seq(CallSet)
  BY <1>3, <1>4
<1>r. /\ q \in Seq(CallSet) /\ Len(q) = Len(q1) + Len(q2)
      /\ \A i \in 1 .. Len(q) : q[i] = IF i <= Len(q1) THEN q1[i] ELSE q2[i - Len(q1)]
      /\ \A i \in 1 .. Len(q1) : q[i] = q1[i]
      /\ \A i \in 1 .. Len(q2) : q[Len(q1) + i] = q2[i]
  BY <1>p, <1>q, TwoRows
<1>8. /\ q \in Seq(CallSet) /\ Len(q) = Len(now) + Len(later)
      /\ \A i \in 1 .. Len(q) : q[i] = IF i <= Len(now) THEN q1[i] ELSE q2[i - Len(now)]
      /\ \A i \in 1 .. Len(now) : q[i] = q1[i]
      /\ \A i \in 1 .. Len(later) : q[Len(now) + i] = q2[i]
  BY <1>3, <1>4, <1>r
<1>9. \A i \in 1 .. Len(now) : i \in 1 .. Len(q) /\ q[i] = q1[i]
  BY <1>7, <1>8
<1>10. \A i \in 1 .. Len(later) : Len(now) + i \in 1 .. Len(q) /\ q[Len(now) + i] = q2[i]
  BY <1>7, <1>8
<1>11. \A i \in 1 .. Len(q) : q[i] = IF i <= Len(now) THEN q1[i] ELSE q2[i - Len(now)]
  BY <1>8
<1>12. \A i \in 1 .. Len(q) : /\ q[i].steps = {"failures"}
                              /\ q[i].op \in {"inject_failure", "arm_failure"}
  <2> TAKE i \in 1 .. Len(q)
  <2>1. CASE i <= Len(now)
    BY <1>3, <1>7, <1>8, <1>11, <2>1
  <2>2. CASE i > Len(now)
    <3>1. i - Len(now) \in 1 .. Len(later) /\ q[i] = q2[i - Len(now)]
      BY <1>7, <1>8, <1>11, <2>2
    <3> QED
      BY <1>4, <3>1
  <2> QED
    BY <1>7, <2>1, <2>2
<1>13. \A f \in ToSet(now) : \E i \in 1 .. Len(q) : q[i].op = "inject_failure" /\ q[i].ref = f
  BY <1>3, <1>5, <1>9
<1>14. \A f \in ToSet(later) : \E i \in 1 .. Len(q) : q[i].op = "arm_failure" /\ q[i].ref = f
  BY <1>4, <1>6, <1>10
<1>15. FailureRow(q, d)
  BY <1>8, <1>12, <1>13, <1>14 DEF FailureRow, now, later
<1> QED
  BY <1>2, <1>15 DEF q

\* Weather, placement and failures, in either order that ends with the failures.
LEMMA PlanOfRows ==
    ASSUME NEW d \in Document, NEW w, NEW s, NEW f,
           WeatherRow(w, d), PlacementRow(s, d), FailureRow(f, d)
    PROVE  PlanOK(w \o s \o f, d) /\ PlanOK(s \o w \o f, d)
<1>1. /\ w \in Seq(CallSet) /\ s \in Seq(CallSet) /\ f \in Seq(CallSet)
      /\ Len(w) \in Nat /\ Len(s) \in Nat /\ Len(f) \in Nat
  BY DEF WeatherRow, PlacementRow, FailureRow
<1>2. Placed(d) # {"weather"} /\ Placed(d) # {"failures"} /\ {"weather"} # {"failures"}
  BY Blocks
<1>3. ASSUME NEW p, NEW a, NEW b, NEW c, p \in Seq(CallSet), Len(p) = Len(w) + Len(s) + Len(f),
             \A i \in 1 .. Len(p) :
               p[i] \in {w[k] : k \in 1 .. Len(w)} \cup {s[k] : k \in 1 .. Len(s)}
                                           \cup {f[k] : k \in 1 .. Len(f)},
             \A i \in 1 .. Len(w) : \E k \in 1 .. Len(p) : p[k] = w[i],
             \A i \in 1 .. Len(s) : \E k \in 1 .. Len(p) : p[k] = s[i],
             \A i \in 1 .. Len(f) : \E k \in 1 .. Len(p) : p[k] = f[i]
      PROVE  Covers(p, d)
  <2>1. \A i \in 1 .. Len(p) :
         /\ p[i].steps \in {{"weather"}, Placed(d), {"failures"}}
         /\ p[i].steps = {"failures"} <=> p[i].op \in {"inject_failure", "arm_failure"}
         /\ p[i].steps = {"weather"} => Body[d].weather
    <3> TAKE i \in 1 .. Len(p)
    <3>1. CASE \E k \in 1 .. Len(w) : p[i] = w[k]
      BY <1>2, <3>1, SMTT(40) DEF WeatherRow
    <3>2. CASE \E k \in 1 .. Len(s) : p[i] = s[k]
      BY <1>2, <3>2 DEF PlacementRow
    <3>3. CASE \E k \in 1 .. Len(f) : p[i] = f[k]
      BY <1>2, <3>3 DEF FailureRow
    <3> QED
      BY <1>3, <3>1, <3>2, <3>3
  <2>2. Body[d].weather =>
          \E i \in 1 .. Len(p) : p[i].op = "set_weather" /\ p[i].steps = {"weather"}
    BY <1>3, SMTT(40) DEF WeatherRow
  <2>3. Body[d].position \/ Body[d].setup # {} =>
          \E i \in 1 .. Len(p) : p[i].op = "apply_setup" /\ p[i].steps = Placed(d)
    <3>1. Body[d].position => 2 \in 1 .. Len(s) /\ s[2].op = "apply_setup"
      BY <1>1 DEF PlacementRow
    <3>2. ~Body[d].position /\ Body[d].setup # {} =>
            1 \in 1 .. Len(s) /\ s[1].op = "apply_setup"
      BY DEF PlacementRow
    <3>3. Body[d].position \/ Body[d].setup # {} =>
            \E k \in 1 .. Len(s) : s[k].op = "apply_setup" /\ s[k].steps = Placed(d)
      BY <3>1, <3>2 DEF PlacementRow
    <3> QED
      BY <1>3, <3>3
  <2>4. (\E i \in 1 .. Len(p) : p[i].steps = Placed(d)) => Body[d].position \/ Body[d].setup # {}
    <3> SUFFICES ASSUME NEW i \in 1 .. Len(p), p[i].steps = Placed(d), ~Body[d].position,
                        Body[d].setup = {}
                 PROVE  FALSE
      OBVIOUS
    <3>1. Len(s) = 0
      BY DEF PlacementRow
    <3>2. (\E k \in 1 .. Len(w) : p[i] = w[k]) \/ (\E k \in 1 .. Len(f) : p[i] = f[k])
      BY <1>3, <3>1
    <3> QED
      BY <1>2, <3>2 DEF WeatherRow, FailureRow
  <2>5. Body[d].position =>
         \E i \in 1 .. Len(p) : p[i].op = "set_position" /\ p[i].steps = Placed(d)
    <3>1. Body[d].position =>
            \E k \in 1 .. Len(s) : s[k].op = "set_position" /\ s[k].steps = Placed(d)
      BY DEF PlacementRow
    <3> QED
      BY <1>3, <3>1
  <2>6. \A x \in ToSet(Body[d].immediate) :
         \E i \in 1 .. Len(p) : p[i].op = "inject_failure" /\ p[i].ref = x
    BY <1>3 DEF FailureRow
  <2>7. \A x \in ToSet(Body[d].armed) :
         \E i \in 1 .. Len(p) : p[i].op = "arm_failure" /\ p[i].ref = x
    BY <1>3 DEF FailureRow
  <2> QED
    BY <2>1, <2>2, <2>3, <2>4, <2>5, <2>6, <2>7 DEF Covers
<1>4. ASSUME NEW x \in Seq(CallSet), NEW y \in Seq(CallSet), NEW A, NEW B, A # B,
             A # {"failures"},
             B # {"failures"},
             \A i \in 1 .. Len(x) : x[i].steps = A, \A i \in 1 .. Len(y) : y[i].steps = B,
             Len(x) + Len(y) = Len(w) + Len(s),
             {x[k] : k \in 1 .. Len(x)} \cup {y[k] : k \in 1 .. Len(y)}
               = {w[k] : k \in 1 .. Len(w)} \cup {s[k] : k \in 1 .. Len(s)}
      PROVE  PlanOK(x \o y \o f, d)
  <2> DEFINE p == x \o y \o f
  <2>1. /\ p \in Seq(CallSet) /\ Len(p) = Len(x) + Len(y) + Len(f)
        /\ \A i \in 1 .. Len(p) :
                p[i] = IF i <= Len(x) THEN x[i]
                       ELSE IF i <= Len(x) + Len(y) THEN y[i - Len(x)]
                       ELSE f[i - (Len(x) + Len(y))]
        /\ \A i \in 1 .. Len(x) : p[i] = x[i]
        /\ \A i \in 1 .. Len(y) : p[Len(x) + i] = y[i]
        /\ \A i \in 1 .. Len(f) : p[Len(x) + Len(y) + i] = f[i]
    BY <1>1, ThreeRows
  <2>2. Len(x) \in Nat /\ Len(y) \in Nat
    OBVIOUS
  <2> HIDE DEF p
  <2>3. \A i \in 1 .. Len(p) :
          \/ i <= Len(x) /\ i \in 1 .. Len(x) /\ p[i] = x[i]
          \/ /\ i > Len(x) /\ i <= Len(x) + Len(y) /\ i - Len(x) \in 1 .. Len(y)
             /\ p[i] = y[i - Len(x)]
          \/ /\ i > Len(x) + Len(y) /\ i - (Len(x) + Len(y)) \in 1 .. Len(f)
             /\ p[i] = f[i - (Len(x) + Len(y))]
    BY <1>1, <2>1, <2>2
  <2>4. \A i \in 1 .. Len(f) : f[i].steps = {"failures"}
    BY DEF FailureRow
  <2>5. InTurn(p, Len(x), Len(x) + Len(y), A, B)
    <3>1. ASSUME NEW i \in 1 .. Len(p)
          PROVE  p[i].steps = IF i <= Len(x) THEN A ELSE IF i <= Len(x) + Len(y) THEN B ELSE {"failures"}
      <4>1. i \in Int
        BY <1>1, <2>1, <2>2
      <4>2. CASE i <= Len(x) /\ i \in 1 .. Len(x) /\ p[i] = x[i]
        BY <1>4, <4>2
      <4>3. CASE /\ i > Len(x) /\ i <= Len(x) + Len(y) /\ i - Len(x) \in 1 .. Len(y)
                 /\ p[i] = y[i - Len(x)]
        <5>1. y[i - Len(x)].steps = B
          BY <1>4, <4>3
        <5> QED
          BY <2>2, <4>1, <4>3, <5>1
      <4>4. CASE /\ i > Len(x) + Len(y) /\ i - (Len(x) + Len(y)) \in 1 .. Len(f)
                 /\ p[i] = f[i - (Len(x) + Len(y))]
        <5>1. f[i - (Len(x) + Len(y))].steps = {"failures"}
          BY <2>4, <4>4
        <5>2. ~(i <= Len(x)) /\ ~(i <= Len(x) + Len(y))
          BY <2>2, <4>1, <4>4
        <5> QED
          BY <4>4, <5>1, <5>2
      <4> QED
        BY <2>3, <4>2, <4>3, <4>4
    <3> QED
      BY <1>4, <3>1 DEF InTurn
  <2>6. \A i \in 1 .. Len(p) :
          p[i] \in {x[k] : k \in 1 .. Len(x)} \cup {y[k] : k \in 1 .. Len(y)}
                                          \cup {f[k] : k \in 1 .. Len(f)}
    BY <2>3
  <2>7. \A e \in {x[k] : k \in 1 .. Len(x)} \cup {y[k] : k \in 1 .. Len(y)} :
          \E k \in 1 .. Len(p) : p[k] = e
    <3>1. \A i \in 1 .. Len(x) : i \in 1 .. Len(p) /\ p[i] = x[i]
      BY <1>1, <2>1, <2>2
    <3>2. \A i \in 1 .. Len(y) : Len(x) + i \in 1 .. Len(p) /\ p[Len(x) + i] = y[i]
      BY <1>1, <2>1, <2>2
    <3> QED
      BY <3>1, <3>2
  <2>8. \A i \in 1 .. Len(f) : \E k \in 1 .. Len(p) : p[k] = f[i]
    <3>1. \A i \in 1 .. Len(f) :
            Len(x) + Len(y) + i \in 1 .. Len(p) /\ p[Len(x) + Len(y) + i] = f[i]
      BY <1>1, <2>1, <2>2
    <3> QED
      BY <3>1
  <2>9. Len(p) = Len(w) + Len(s) + Len(f)
    BY <1>1, <1>4, <2>1, <2>2
  <2>10. Covers(p, d)
    <3>1. \A i \in 1 .. Len(p) :
            p[i] \in {w[k] : k \in 1 .. Len(w)} \cup {s[k] : k \in 1 .. Len(s)}
                                           \cup {f[k] : k \in 1 .. Len(f)}
      BY <1>4, <2>6
    <3>2. \A i \in 1 .. Len(w) : \E k \in 1 .. Len(p) : p[k] = w[i]
      BY <1>4, <2>7
    <3>3. \A i \in 1 .. Len(s) : \E k \in 1 .. Len(p) : p[k] = s[i]
      BY <1>4, <2>7
    <3> QED
      BY <1>3, <2>1, <2>8, <2>9, <3>1, <3>2, <3>3
  <2> QED
    BY <2>1, <2>2, <2>5, <2>10 DEF PlanOK, p
<1>5. /\ \A i \in 1 .. Len(w) : w[i].steps = {"weather"}
      /\ \A i \in 1 .. Len(s) : s[i].steps = Placed(d)
  BY DEF WeatherRow, PlacementRow
<1>6. PlanOK(w \o s \o f, d)
  BY <1>1, <1>2, <1>4, <1>5
<1>7. PlanOK(s \o w \o f, d)
  <2>1. {s[k] : k \in 1 .. Len(s)} \cup {w[k] : k \in 1 .. Len(w)}
          = {w[k] : k \in 1 .. Len(w)} \cup {s[k] : k \in 1 .. Len(s)}
    OBVIOUS
  <2>2. Len(s) + Len(w) = Len(w) + Len(s)
    BY <1>1
  <2> QED
    BY <1>1, <1>2, <1>4, <1>5, <2>1, <2>2
<1> QED
  BY <1>6, <1>7

\* Both plans of a document are of this kind.
LEMMA Plans ==
    ASSUME NEW d \in Document
    PROVE  /\ PlanOf.scenario[d] = ScenarioPlan(d) /\ PlanOf.profile[d] = ProfilePlan(d)
           /\ PlanOK(PlanOf.scenario[d], d) /\ PlanOK(PlanOf.profile[d], d)
<1>1. PlanOf.scenario[d] = ScenarioPlan(d) /\ PlanOf.profile[d] = ProfilePlan(d)
  BY DEF PlanOf
<1>2. PlanOK(ScenarioPlan(d), d) /\ PlanOK(ProfilePlan(d), d)
  BY WeatherRows, PlacementRows, FailureRows, PlanOfRows DEF ScenarioPlan, ProfilePlan
<1> QED
  BY <1>1, <1>2

\* What a plan's order gives: calls for the same steps, or the same component, are
\* next to each other.
LEMMA InOrder ==
    ASSUME NEW d \in Document, NEW p, PlanOK(p, d)
    PROVE  /\ Len(p) \in Nat /\ DOMAIN p = 1 .. Len(p)
           /\ \A i, j, k \in 1 .. Len(p) :
                i <= k /\ k <= j /\ p[i].steps = p[j].steps => p[k].steps = p[i].steps
           /\ \A i, j, k \in 1 .. Len(p) :
                i <= k /\ k <= j /\ p[i].steps = {"failures"} => p[k].steps = {"failures"}
<1>1. p \in Seq(CallSet)
  BY DEF PlanOK
<1>2. PICK m \in Nat, n \in Nat : \E A, B : InTurn(p, m, n, A, B)
  BY DEF PlanOK
<1>3. PICK A, B : InTurn(p, m, n, A, B)
  BY <1>2
<1>4. \A i, j, k \in 1 .. Len(p) :
        i <= k /\ k <= j /\ p[i].steps = p[j].steps => p[k].steps = p[i].steps
  BY <1>1, <1>3 DEF InTurn
<1>5. \A i, j, k \in 1 .. Len(p) :
        i <= k /\ k <= j /\ p[i].steps = {"failures"} => p[k].steps = {"failures"}
  BY <1>1, <1>3 DEF InTurn
<1> QED
  BY <1>1, <1>4, <1>5

\* Two calls are for the same steps or have none in common.
LEMMA StepsApart ==
    ASSUME NEW d \in Document, NEW p, PlanOK(p, d)
    PROVE  \A i, j \in 1 .. Len(p) :
             /\ p[i].steps \subseteq Step /\ p[i].steps # {} /\ "traffic" \notin p[i].steps
             /\ p[i].steps = p[j].steps \/ p[i].steps \cap p[j].steps = {}
<1>1. \A i \in 1 .. Len(p) : p[i].steps \in {{"weather"}, Placed(d), {"failures"}}
  BY DEF PlanOK, Covers
<1>2. Placed(d) \in {{"aircraft_state"}, {"aircraft_state", "position"}}
  BY DEF Placed
<1> DEFINE Steps == {{"weather"}, {"aircraft_state"}, {"aircraft_state", "position"}, {"failures"}}
<1>3. \A i \in 1 .. Len(p) :
        p[i].steps \in {{"weather"}, Placed(d), {"failures"}} /\ p[i].steps \in Steps
  BY <1>1, <1>2
<1>4. \A x \in Steps : x \subseteq Step /\ x # {} /\ "traffic" \notin x
  BY DEF Step
<1>5. \A x, y \in {{"weather"}, Placed(d), {"failures"}} : x = y \/ x \cap y = {}
  <2>1. Placed(d) \cap {"weather"} = {} /\ Placed(d) \cap {"failures"} = {}
    BY <1>2
  <2>2. {"weather"} \cap {"failures"} = {}
    OBVIOUS
  <2> QED
    BY <2>1, <2>2
<1> QED
  BY <1>3, <1>4, <1>5

\* Two calls belong to the same component when they are for the same steps, a failure
\* being a component of its own.
LEMMA ItemIs ==
    ASSUME NEW d \in Document, NEW p, PlanOK(p, d)
    PROVE  /\ \A i \in 1 .. Len(p) : Item(p, i) \in ItemName
           /\ \A i, j \in 1 .. Len(p) : Item(p, i) = Item(p, j) <=>
                p[i].steps = p[j].steps /\ (p[i].steps = {"failures"} => i = j)
<1>1. \A i \in 1 .. Len(p) : p[i].steps \in {{"weather"}, Placed(d), {"failures"}}
  BY DEF PlanOK, Covers
<1>2. /\ Placed(d) # {"weather"} /\ Placed(d) # {"failures"} /\ {"weather"} # {"failures"}
  BY Blocks
<1>3. \A i \in 1 .. Len(p) : i \in Nat
  BY InOrder
<1>4. \A i \in 1 .. Len(p) : Item(p, i) \in ItemName
  BY <1>1, <1>2, <1>3 DEF Item, ItemName
<1>5. ASSUME NEW i \in 1 .. Len(p), NEW j \in 1 .. Len(p)
      PROVE  Item(p, i) = Item(p, j) <=>
                p[i].steps = p[j].steps /\ (p[i].steps = {"failures"} => i = j)
  <2>1. \A k \in 1 .. Len(p) : /\ p[k].steps = {"failures"} => Item(p, k) = <<"failures", k>>
                               /\ p[k].steps = {"weather"} => Item(p, k) = <<"weather", 0>>
                               /\ p[k].steps = Placed(d) => Item(p, k) = <<"position", 0>>
    BY <1>2 DEF Item
  <2>2. <<"failures", i>> = <<"failures", j>> => i = j
    OBVIOUS
  <2>3. /\ <<"failures", i>> # <<"weather", 0>> /\ <<"failures", i>> # <<"position", 0>>
        /\ <<"failures", j>> # <<"weather", 0>> /\ <<"failures", j>> # <<"position", 0>>
        /\ <<"weather", 0>> # <<"position", 0>>
    OBVIOUS
  <2>4. CASE p[i].steps = {"failures"}
    BY <1>1, <1>2, <2>1, <2>2, <2>3, <2>4
  <2>5. CASE p[i].steps = {"weather"}
    BY <1>1, <1>2, <2>1, <2>3, <2>5
  <2>6. CASE p[i].steps = Placed(d)
    BY <1>1, <1>2, <2>1, <2>3, <2>6
  <2> QED
    BY <1>1, <2>4, <2>5, <2>6
<1> QED
  BY <1>4, <1>5

\* The calls of a component are next to each other.
LEMMA ItemsInOrder ==
    ASSUME NEW d \in Document, NEW p, PlanOK(p, d)
    PROVE  \A i, j, k \in 1 .. Len(p) :
             i <= k /\ k <= j /\ Item(p, i) = Item(p, j) => Item(p, k) = Item(p, i)
<1> SUFFICES ASSUME NEW i \in 1 .. Len(p), NEW j \in 1 .. Len(p), NEW k \in 1 .. Len(p),
                    i <= k, k <= j, Item(p, i) = Item(p, j)
             PROVE  Item(p, k) = Item(p, i)
  OBVIOUS
<1>1. p[i].steps = p[j].steps /\ (p[i].steps = {"failures"} => i = j)
  BY ItemIs
<1>2. p[k].steps = p[i].steps
  BY <1>1, InOrder
<1>3. p[i].steps = {"failures"} => i = k
  BY <1>1, InOrder
<1> QED
  BY <1>2, <1>3, ItemIs

\* The status of a run lists the steps of its plan, and the traffic.
LEMMA StepsDeclared ==
    ASSUME NEW d \in Document
    PROVE  LET p == PlanOf.scenario[d] IN
           /\ DeclaredSteps(d) \subseteq Step
           /\ \A i \in 1 .. Len(p) : p[i].steps \subseteq DeclaredSteps(d)
           /\ \A s \in DeclaredSteps(d) : s = "traffic" \/ \E i \in 1 .. Len(p) :
                s \in p[i].steps
<1> DEFINE p == PlanOf.scenario[d]
<1>1. p = ScenarioPlan(d) /\ PlanOK(p, d)
  BY Plans
<1> HIDE DEF p
<1>2. DOMAIN p = 1 .. Len(p)
  BY <1>1, InOrder
<1>3. \A i \in 1 .. Len(p) : p[i].steps \subseteq Step
  BY <1>1, StepsApart
<1>4. ToSet(p) = {p[i] : i \in 1 .. Len(p)}
  BY <1>2 DEF ToSet
<1> DEFINE U == UNION {call.steps : call \in ToSet(ScenarioPlan(d))}
<1>5. DeclaredSteps(d) = U \cup IF Body[d].traffic THEN {"traffic"} ELSE {}
  BY DEF DeclaredSteps
<1>6. \A s : s \in U <=> \E i \in 1 .. Len(p) : s \in p[i].steps
  BY <1>1, <1>4
<1> HIDE DEF U
<1>7. DeclaredSteps(d) \subseteq Step
  BY <1>3, <1>5, <1>6 DEF Step
<1>8. \A i \in 1 .. Len(p) : p[i].steps \subseteq DeclaredSteps(d)
  BY <1>5, <1>6
<1>9. \A s \in DeclaredSteps(d) : s = "traffic" \/ \E i \in 1 .. Len(p) : s \in p[i].steps
  BY <1>5, <1>6
<1> QED
  BY <1>7, <1>8, <1>9 DEF p

-----------------------------------------------------------------------------
(* What a step does to the records.                                         *)

\* The executor at work: its document, its plan, its place in it.
LEMMA AtWork ==
    ASSUME Fields, TypeOK, NEW a \in Executor, job[a].doc # None
    PROVE  /\ job[a].doc \in Document /\ PlanOK(Plan(a), job[a].doc)
           /\ Len(Plan(a)) \in Nat /\ DOMAIN Plan(a) = 1 .. Len(Plan(a))
           /\ job[a].at \in 0 .. Len(Plan(a)) /\ job[a].at \in Nat
           /\ Plan(a) = IF a = "run" THEN PlanOf.scenario[job[a].doc] ELSE PlanOf.profile[job[a].doc]
           /\ job[a].at > 0 => job[a].at \in 1 .. Len(Plan(a))
<1>1. job[a].doc \in Document /\ job[a].at \in Nat
  BY DEF Fields, Job
<1>2. Plan(a) = IF a = "run" THEN PlanOf.scenario[job[a].doc] ELSE PlanOf.profile[job[a].doc]
  BY DEF Plan
<1>3. PlanOK(Plan(a), job[a].doc)
  BY <1>1, <1>2, Plans
<1>4. job[a].at \in 0 .. Len(Plan(a))
  BY DEF TypeOK
<1>5. Len(Plan(a)) \in Nat /\ DOMAIN Plan(a) = 1 .. Len(Plan(a))
  BY <1>1, <1>3, InOrder
<1> QED
  BY <1>1, <1>2, <1>3, <1>4, <1>5

\* The run is not a client.
LEMMA ExecutorIs == Client \subseteq Executor /\ "run" \in Executor /\ "run" \notin Client
                    /\ \A a \in Executor : a # "run" => a \in Client
BY NamesAssumption DEF Executor

\* The other executors wait.
Rest(a) == \A b \in Executor : b # a => job'[b] = job[b]

\* A task that ends.
LEMMA Ends ==
    ASSUME Fields, NEW a \in Executor, job' = [job EXCEPT ![a] = NoJob]
    PROVE  Rest(a) /\ job'[a].doc = None /\ job' \in [Executor -> Job]
<1>1. NoJob \in Job /\ NoJob.doc = None
  BY DEF NoJob, Job
<1> QED
  BY <1>1 DEF Fields, Rest

\* A task that goes on to the call at i.
LEMMA Advances ==
    ASSUME Fields, NEW a \in Executor, NEW i \in Nat, job' = NextCall(a, i)
    PROVE  /\ Rest(a) /\ job'[a].doc = job[a].doc /\ job'[a].at = i /\ job'[a].landed = FALSE
           /\ job' \in [Executor -> Job]
<1> DEFINE w == [doc |-> job[a].doc, at |-> i, landed |-> FALSE]
<1>1. job[a].doc \in Document \cup {None}
  BY DEF Fields, Job
<1>2. w \in Job /\ w.doc = job[a].doc /\ w.at = i /\ w.landed = FALSE
  BY <1>1 DEF Job
<1>3. job' = [job EXCEPT ![a] = w]
  BY DEF NextCall
<1> HIDE DEF w
<1> QED
  BY <1>2, <1>3 DEF Fields, Rest

\* A task whose call takes effect.
LEMMA Lands ==
    ASSUME Fields, NEW a \in Executor, job' = [job EXCEPT ![a].landed = TRUE]
    PROVE  /\ Rest(a) /\ job'[a].doc = job[a].doc /\ job'[a].at = job[a].at
           /\ job'[a].landed = TRUE
           /\ job' \in [Executor -> Job]
<1>1. PICK u \in Job : u = job[a]
  BY DEF Fields
<1> DEFINE w == [u EXCEPT !.landed = TRUE]
<1>2. w \in Job /\ w.doc = u.doc /\ w.at = u.at /\ w.landed = TRUE
  BY DEF Job
<1>3. job' = [job EXCEPT ![a] = w]
  BY <1>1
<1> HIDE DEF w
<1> QED
  BY <1>1, <1>2, <1>3 DEF Fields, Rest

\* Marked changes the steps it names and no other.
LEMMA MarkedIs ==
    ASSUME NEW f \in Progress, NEW those, NEW status \in StepStatus
    PROVE  /\ Marked(f, those, status) \in Progress
           /\ DOMAIN Marked(f, those, status) = DOMAIN f
           /\ \A s \in DOMAIN f :
                /\ Marked(f, those, status)[s] = IF s \in those THEN status ELSE f[s]
                /\ f[s] \in StepStatus
           /\ DOMAIN f \subseteq Step
<1>1. PICK S \in SUBSET Step : f \in [S -> StepStatus]
  BY DEF Progress
<1>2. Marked(f, those, status) \in [S -> StepStatus]
  BY <1>1 DEF Marked
<1> QED
  BY <1>1, <1>2 DEF Marked, Progress

\* The run goes on with its next call, or is completed.
LEMMA GoesOn ==
    ASSUME Fields, TypeOK, job["run"].doc # None, NEW f \in Progress, NEW i \in Nat,
           RunGoesOn(f, i)
    PROVE  LET p == Plan("run") IN
           /\ Rest("run") /\ job' \in [Executor -> Job] /\ run' \in Run
           /\ run'.doc = run.doc /\ run'.errors = run.errors
           /\ \/ /\ i > Len(p) /\ job'["run"].doc = None /\ run'.status = "completed"
                 /\ run'.steps = Marked(f, {"traffic"}, "done")
              \/ /\ i <= Len(p) /\ job'["run"].doc = job["run"].doc
                 /\ job'["run"].at = i /\ job'["run"].landed = FALSE
                 /\ run'.status = run.status
                 /\ run'.steps = Marked(f, p[i].steps, "running")
<1> DEFINE p == Plan("run")
<1>0. Len(p) \in Nat /\ run \in Run /\ "run" \in Executor
  BY AtWork, ExecutorIs DEF Fields
<1> HIDE DEF p
<1>1. CASE i > Len(p)
  <2> DEFINE g == Marked(f, {"traffic"}, "done")
             w == [run EXCEPT !.status = "completed", !.steps = g]
  <2>1. g \in Progress
    BY MarkedIs DEF StepStatus
  <2> HIDE DEF g
  <2>2. run' = w /\ job' = [job EXCEPT !["run"] = NoJob]
    BY <1>1 DEF RunGoesOn, p, g
  <2>3. /\ w \in Run /\ w.doc = run.doc /\ w.errors = run.errors /\ w.status = "completed"
        /\ w.steps = g
    BY <1>0, <2>1 DEF Run
  <2> HIDE DEF w
  <2> QED
    BY <1>0, <1>1, <2>2, <2>3, Ends DEF p, g
<1>2. CASE ~(i > Len(p))
  <2> DEFINE g == Marked(f, p[i].steps, "running")
             w == [run EXCEPT !.steps = g]
  <2>1. g \in Progress
    BY MarkedIs DEF StepStatus
  <2> HIDE DEF g
  <2>2. run' = w /\ job' = NextCall("run", i)
    BY <1>2 DEF RunGoesOn, p, g
  <2>3. /\ w \in Run /\ w.doc = run.doc /\ w.errors = run.errors /\ w.status = run.status
        /\ w.steps = g
    BY <1>0, <2>1 DEF Run
  <2> HIDE DEF w
  <2>4. i <= Len(p)
    BY <1>0, <1>2
  <2> QED
    BY <1>0, <2>2, <2>3, <2>4, Advances DEF p, g
<1> QED
  BY <1>1, <1>2


\* The steps of the specification.
LEMMA Acts ==
    ASSUME [Next]_vars
    PROVE  \/ \E d \in Document : StartRun(d)
           \/ RunBegins \/ RunCallReturns \/ RunCallRefused \/ RunCallBreaks
           \/ \E a \in Executor : CallLands(a)
           \/ \E c \in Client, d \in Document : ApplyProfile(c, d)
           \/ \E c \in Client : ProfileCallReturns(c) \/ ProfileCallFails(c)
           \/ Fire \/ Meddle \/ Restart \/ UNCHANGED vars
BY DEF Next


-----------------------------------------------------------------------------
(* Types.                                                                   *)

SimRec == [weather : Document \cup {None}, setup : Document \cup {None},
           place : Document \cup {None}, failed : SUBSET Failure]

\* A call that lands changes one thing, or repairs everything.
LEMMA SimEffect ==
    ASSUME sim \in SimRec, NEW d \in Document, NEW call,
           call.op = "inject_failure" => call.ref \in Failure
    PROVE  LET x == SimAfter(call, d) IN
           /\ x \in SimRec
           /\ x.weather = IF call.op = "set_weather" THEN d ELSE sim.weather
           /\ x.setup = IF call.op = "apply_setup" THEN d ELSE sim.setup
           /\ x.place = IF call.op = "set_position" THEN d ELSE sim.place
           /\ x.failed = IF call.op = "fix_all_systems" THEN {}
                         ELSE IF call.op = "inject_failure" THEN sim.failed \cup {call.ref}
                         ELSE sim.failed
<1> DEFINE x == SimAfter(call, d)
<1>1. CASE call.op = "set_weather"
  <2>1. x = [sim EXCEPT !.weather = d]
    BY <1>1 DEF SimAfter
  <2> HIDE DEF x
  <2>2. /\ x \in SimRec /\ x.weather = d /\ x.setup = sim.setup /\ x.place = sim.place
        /\ x.failed = sim.failed
    BY <2>1 DEF SimRec
  <2> QED
    BY <1>1, <2>2 DEF x
<1>2. CASE call.op = "apply_setup"
  <2>1. x = [sim EXCEPT !.setup = d]
    BY <1>2 DEF SimAfter
  <2> HIDE DEF x
  <2>2. /\ x \in SimRec /\ x.weather = sim.weather /\ x.setup = d /\ x.place = sim.place
        /\ x.failed = sim.failed
    BY <2>1 DEF SimRec
  <2> QED
    BY <1>2, <2>2 DEF x
<1>3. CASE call.op = "set_position"
  <2>1. x = [sim EXCEPT !.place = d]
    BY <1>3 DEF SimAfter
  <2> HIDE DEF x
  <2>2. /\ x \in SimRec /\ x.weather = sim.weather /\ x.setup = sim.setup /\ x.place = d
        /\ x.failed = sim.failed
    BY <2>1 DEF SimRec
  <2> QED
    BY <1>3, <2>2 DEF x
<1>4. CASE call.op = "fix_all_systems"
  <2>1. x = [sim EXCEPT !.failed = {}]
    BY <1>4 DEF SimAfter
  <2> HIDE DEF x
  <2>2. /\ x \in SimRec /\ x.weather = sim.weather /\ x.setup = sim.setup /\ x.place = sim.place
        /\ x.failed = {}
    BY <2>1 DEF SimRec
  <2> QED
    BY <1>4, <2>2 DEF x
<1>5. CASE call.op = "inject_failure"
  <2> DEFINE more == sim.failed \cup {call.ref}
  <2>1. x = [sim EXCEPT !.failed = more]
    BY <1>5 DEF SimAfter
  <2>2. more \in SUBSET Failure
    BY <1>5 DEF SimRec
  <2> HIDE DEF x, more
  <2>3. /\ x \in SimRec /\ x.weather = sim.weather /\ x.setup = sim.setup /\ x.place = sim.place
        /\ x.failed = more
    BY <2>1, <2>2 DEF SimRec
  <2> QED
    BY <1>5, <2>3 DEF x, more
<1>6. CASE call.op \notin {"set_weather", "apply_setup", "set_position", "fix_all_systems", "inject_failure"}
  <2>1. x = sim
    BY <1>6 DEF SimAfter
  <2> QED
    BY <1>6, <2>1
<1> QED
  BY <1>1, <1>2, <1>3, <1>4, <1>5, <1>6

\* What a call that lands does.
LEMMA LandsEffect ==
    ASSUME Fields, TypeOK, NEW a \in Executor, CallLands(a)
    PROVE  /\ job[a].doc # None /\ job[a].at > 0 /\ ~job[a].landed
           /\ Rest(a) /\ job'[a].doc = job[a].doc /\ job'[a].at = job[a].at
           /\ job'[a].landed = TRUE
           /\ job' \in [Executor -> Job]
           /\ sim' = SimAfter(Current(a), job[a].doc)
           /\ sim \in SimRec /\ sim' \in SimRec
           /\ Current(a).op \in {"inject_failure", "arm_failure"} => Current(a).ref \in Failure
           /\ armed' = IF Current(a).op = "arm_failure" THEN armed \cup {Current(a).ref} ELSE armed
           /\ alone' \in [Executor -> BOOLEAN] /\ \A b \in Executor : alone'[b] => alone[b]
           /\ (\A b \in Executor : b # a => ~alone'[b]) \/ (sim' = sim /\ armed' = armed)
           /\ UNCHANGED <<run, report>>
<1>1. /\ InCall(a) /\ ~job[a].landed /\ ~Unsupported(Current(a), job[a].doc)
      /\ sim' = SimAfter(Current(a), job[a].doc)
      /\ armed' = IF Current(a).op = "arm_failure" THEN armed \cup {Current(a).ref} ELSE armed
      /\ job' = [job EXCEPT ![a].landed = TRUE]
      /\ alone' = IF <<sim', armed'>> = <<sim, armed>> THEN alone
                  ELSE [b \in Executor |-> alone[b] /\ b = a]
      /\ UNCHANGED <<run, report>>
  BY DEF CallLands
<1>2. job[a].doc \in Document /\ job[a].doc # None /\ job[a].at > 0
  BY <1>1, AtWork DEF InCall
<1>3. Current(a).op \in {"inject_failure", "arm_failure"} => Current(a).ref \in Failure
  <2>1. Current(a).op \in {"inject_failure", "arm_failure"} => Current(a).ref \in Supported
    BY <1>1 DEF Unsupported
  <2> QED
    BY <2>1, SupportAssumption
<1>4. sim \in SimRec
  BY DEF TypeOK, SimRec
<1>5. sim' \in SimRec
  BY <1>1, <1>2, <1>3, <1>4, SimEffect
<1>6. /\ alone' \in [Executor -> BOOLEAN] /\ \A b \in Executor : alone'[b] => alone[b]
      /\ (\A b \in Executor : b # a => ~alone'[b]) \/ (sim' = sim /\ armed' = armed)
  <2>1. alone \in [Executor -> BOOLEAN]
    BY DEF Fields
  <2>2. CASE <<sim', armed'>> = <<sim, armed>>
    BY <1>1, <2>1, <2>2
  <2>3. CASE <<sim', armed'>> # <<sim, armed>>
    BY <1>1, <2>1, <2>3
  <2> QED
    BY <2>2, <2>3
<1>7. /\ Rest(a) /\ job'[a].doc = job[a].doc /\ job'[a].at = job[a].at /\ job'[a].landed = TRUE
      /\ job' \in [Executor -> Job]
  BY <1>1, Lands
<1> QED
  BY <1>1, <1>2, <1>3, <1>4, <1>5, <1>6, <1>7

\* TypeOK from its parts.
LEMMA TypeHolds ==
    ASSUME Fields', sim' \in SimRec, armed' \subseteq Failure,
           run'.errors \subseteq DOMAIN run'.steps,
           \A a \in Executor : job'[a].doc # None => job'[a].at \in 0 .. Len(Plan(a)')
    PROVE  TypeOK'
<1>1. run' \in Run
  BY DEF Fields
<1>2. PICK f \in Progress : f = run'.steps
  BY <1>1 DEF Run
<1>3. DOMAIN f \subseteq Step /\ \A s \in DOMAIN f : f[s] \in StepStatus
  BY MarkedIs DEF StepStatus
<1>4. ToSet(f) \subseteq StepStatus
  BY <1>3 DEF ToSet
<1>5. /\ run'.doc \in Document \cup {None}
      /\ run'.status \in {"none", "running", "completed", "failed"}
  BY <1>1 DEF Run
<1> QED
  BY <1>2, <1>3, <1>4, <1>5 DEF TypeOK, SimRec


-----------------------------------------------------------------------------
(* What the executors' steps do to the records.                              *)

\* A task that keeps its document keeps its plan.
LEMMA SamePlan ==
    ASSUME NEW a \in Executor, job'[a].doc = job[a].doc
    PROVE  Plan(a)' = Plan(a)
BY DEF Plan

\* What the start of a run does.
LEMMA StartRunEffect ==
    ASSUME Fields, NEW d \in Document, StartRun(d)
    PROVE  /\ Rest("run") /\ job' \in [Executor -> Job]
           /\ job'["run"].doc = d /\ job'["run"].at = 0 /\ job'["run"].landed = FALSE
           /\ run' \in Run /\ run'.doc = d /\ run'.status = "running" /\ run'.errors = {}
           /\ run'.steps = [s \in DeclaredSteps(d) |-> "pending"]
           /\ alone' \in [Executor -> BOOLEAN] /\ \A b \in Executor :
                b # "run" => alone'[b] = alone[b]
           /\ run.status # "running"
           /\ UNCHANGED <<sim, armed, report>>
<1> DEFINE w == [doc |-> d, at |-> 0, landed |-> FALSE]
           f == [s \in DeclaredSteps(d) |-> "pending"]
           r == [doc |-> d, status |-> "running", errors |-> {}, steps |-> f]
<1>1. w \in Job /\ w.doc = d /\ w.at = 0 /\ w.landed = FALSE
  BY DEF Job
<1>2. f \in Progress
  BY StepsDeclared DEF Progress, StepStatus
<1>3. r.steps = f
  OBVIOUS
<1> HIDE DEF f
<1>4. r \in Run /\ r.doc = d /\ r.status = "running" /\ r.errors = {} /\ r.steps = f
  BY <1>2 DEF Run
<1>5. /\ job' = [job EXCEPT !["run"] = w] /\ run' = r
      /\ alone' = [alone EXCEPT !["run"] = TRUE]
      /\ run.status # "running" /\ UNCHANGED <<sim, armed, report>>
  BY DEF StartRun, f
<1> HIDE DEF w, r
<1>6. Rest("run") /\ job' \in [Executor -> Job] /\ job'["run"] = w
  BY <1>1, <1>5, ExecutorIs DEF Fields, Rest
<1>7. alone' \in [Executor -> BOOLEAN] /\ \A b \in Executor : b # "run" => alone'[b] = alone[b]
  BY <1>5 DEF Fields
<1> QED
  BY <1>1, <1>4, <1>5, <1>6, <1>7 DEF f

\* The run stops at a call that is refused or breaks.
LEMMA StopsEffect ==
    ASSUME Fields, TypeOK, RunCallRefused \/ RunCallBreaks
    PROVE  /\ job["run"].doc # None /\ job["run"].at > 0
           /\ Rest("run") /\ job' \in [Executor -> Job] /\ job'["run"].doc = None
           /\ run' \in Run /\ run'.doc = run.doc /\ run'.status = "failed"
           /\ \/ run'.steps = run.steps /\ run'.errors = run.errors
              \/ /\ run'.steps = Marked(run.steps, Current("run").steps, "failed")
                 /\ run'.errors = Current("run").steps
           /\ UNCHANGED <<sim, armed, report, alone>>
<1>0. run \in Run /\ "run" \in Executor /\ run.steps \in Progress
  BY ExecutorIs DEF Fields, Run
<1>1. CASE RunCallRefused
  <2> DEFINE g == Marked(run.steps, Current("run").steps, "failed")
             e == Current("run").steps
             w == [run EXCEPT !.status = "failed", !.steps = g, !.errors = e]
  <2>1. /\ job["run"].doc # None /\ job["run"].at > 0
        /\ job' = [job EXCEPT !["run"] = NoJob] /\ UNCHANGED <<sim, armed, report, alone>>
    BY <1>1 DEF RunCallRefused, Refused, InCall
  <2>2. run' = w
    BY <1>1 DEF RunCallRefused
  <2>3. g \in Progress
    BY <1>0, MarkedIs DEF StepStatus
  <2>4. e \in SUBSET Step
    <3>1. /\ job["run"].at \in 1 .. Len(Plan("run")) /\ PlanOK(Plan("run"), job["run"].doc)
          /\ job["run"].doc \in Document
      BY <1>0, <2>1, AtWork
    <3> QED
      BY <3>1, StepsApart DEF Current
  <2> HIDE DEF g, e
  <2>5. w \in Run /\ w.doc = run.doc /\ w.status = "failed" /\ w.steps = g /\ w.errors = e
    BY <1>0, <2>3, <2>4 DEF Run
  <2> HIDE DEF w
  <2> QED
    BY <1>0, <2>1, <2>2, <2>5, Ends DEF g, e
<1>2. CASE RunCallBreaks
  <2> DEFINE w == [run EXCEPT !.status = "failed"]
  <2>1. /\ job["run"].doc # None /\ job["run"].at > 0
        /\ job' = [job EXCEPT !["run"] = NoJob] /\ UNCHANGED <<sim, armed, report, alone>>
        /\ run' = w
    BY <1>2 DEF RunCallBreaks, Broken, InCall
  <2>2. /\ w \in Run /\ w.doc = run.doc /\ w.status = "failed" /\ w.steps = run.steps
        /\ w.errors = run.errors
    BY <1>0 DEF Run
  <2> HIDE DEF w
  <2> QED
    BY <1>0, <2>1, <2>2, Ends
<1> QED
  BY <1>1, <1>2

\* The progress of the run, the step at work closed with its last call.
Closed == IF job["run"].at > 0 /\ ClosesStep("run")
          THEN Marked(run.steps, Current("run").steps, "done") ELSE run.steps

\* The run is at its next call, or completed.
Moved ==
    LET p == Plan("run")
        n == job["run"].at + 1 IN
    /\ job["run"].at > 0 => job["run"].landed
    /\ Rest("run") /\ job' \in [Executor -> Job] /\ run' \in Run
    /\ run'.doc = run.doc /\ run'.errors = run.errors
    /\ \/ /\ n > Len(p) /\ job'["run"].doc = None /\ run'.status = "completed"
          /\ run'.steps = Marked(Closed, {"traffic"}, "done")
       \/ /\ n <= Len(p) /\ job'["run"].doc = job["run"].doc
          /\ job'["run"].at = n /\ job'["run"].landed = FALSE /\ run'.status = run.status
          /\ run'.steps = Marked(Closed, p[n].steps, "running")
    /\ UNCHANGED <<sim, armed, report, alone>>

\* The run goes on: to its first call, or to the one after a call that landed.
LEMMA MovesEffect ==
    ASSUME Fields, TypeOK, RunBegins \/ RunCallReturns
    PROVE  Moved /\ job["run"].doc # None /\ Closed \in Progress
<1>1. run.steps \in Progress /\ job["run"].at \in Nat
  BY ExecutorIs DEF Fields, Run, Job
<1>2. Closed \in Progress
  BY <1>1, MarkedIs DEF StepStatus, Closed
<1> DEFINE n == job["run"].at + 1
<1>3. CASE RunBegins
  <2>1. /\ job["run"].doc # None /\ job["run"].at = 0 /\ RunGoesOn(run.steps, 1)
        /\ UNCHANGED <<sim, armed, report, alone>>
    BY <1>3 DEF RunBegins
  <2>2. Closed = run.steps /\ n = 1
    BY <2>1 DEF Closed
  <2>3. RunGoesOn(Closed, n) /\ n \in Nat /\ ~(job["run"].at > 0)
    BY <2>1, <2>2
  <2> HIDE DEF n
  <2> QED
    BY <1>2, <2>1, <2>3, GoesOn DEF Moved, n
<1>4. CASE RunCallReturns
  <2>1. /\ job["run"].doc # None /\ job["run"].at > 0 /\ job["run"].landed
        /\ UNCHANGED <<sim, armed, report, alone>>
    BY <1>4 DEF RunCallReturns, InCall
  <2>2. RunGoesOn(Closed, n)
    BY <1>4, <2>1 DEF RunCallReturns, Closed
  <2>3. n \in Nat
    BY <1>1
  <2> HIDE DEF n
  <2> QED
    BY <1>2, <2>1, <2>2, <2>3, GoesOn DEF Moved, n
<1> QED
  BY <1>3, <1>4


\* The place where the next component starts.
LEMMA NextStarts ==
    ASSUME NEW d \in Document, NEW p, PlanOK(p, d), NEW at \in 1 .. Len(p)
    PROVE  \E i \in at + 1 .. Len(p) + 1 :
             /\ i > Len(p) \/ Item(p, i) # Item(p, at)
             /\ \A j \in at + 1 .. i - 1 : Item(p, j) = Item(p, at)
<1>1. p \in Seq(CallSet) /\ Len(p) \in Nat
  BY DEF PlanOK
<1>2. PICK m \in Nat, n \in Nat : \E A, B : InTurn(p, m, n, A, B)
  BY DEF PlanOK
<1>3. PICK A, B : InTurn(p, m, n, A, B)
  BY <1>2
<1>4. /\ A # B /\ A # {"failures"} /\ B # {"failures"}
      /\ \A i \in 1 .. Len(p) :
           p[i].steps = IF i <= m THEN A ELSE IF i <= n THEN B ELSE {"failures"}
  BY <1>3 DEF InTurn
<1>5. ASSUME NEW k \in Nat, at <= k, p[at].steps # {"failures"},
             \A i \in 1 .. Len(p) : at <= i /\ i <= k => p[i].steps = p[at].steps,
             \A i \in 1 .. Len(p) : i = k + 1 => p[i].steps # p[at].steps
      PROVE  \E i \in at + 1 .. Len(p) + 1 :
               /\ i > Len(p) \/ Item(p, i) # Item(p, at)
               /\ \A j \in at + 1 .. i - 1 : Item(p, j) = Item(p, at)
  <2> DEFINE e == IF k >= Len(p) THEN Len(p) + 1 ELSE k + 1
  <2>1. /\ e \in at + 1 .. Len(p) + 1 /\ e - 1 <= k /\ e - 1 <= Len(p)
        /\ (e > Len(p) \/ e = k + 1)
    BY <1>1, <1>5
  <2> HIDE DEF e
  <2>2. \A j \in at + 1 .. e - 1 : j \in 1 .. Len(p) /\ at <= j /\ j <= k
    BY <1>1, <2>1
  <2>3. \A j \in at + 1 .. e - 1 : Item(p, j) = Item(p, at)
    BY <1>5, <2>2, ItemIs
  <2>4. e > Len(p) \/ Item(p, e) # Item(p, at)
    <3>1. e > Len(p) \/ e \in 1 .. Len(p)
      BY <1>1, <2>1
    <3> QED
      BY <1>5, <2>1, <3>1, ItemIs
  <2> QED
    BY <2>1, <2>3, <2>4
<1>6. CASE p[at].steps = {"failures"}
  <2>1. at + 1 \in at + 1 .. Len(p) + 1 /\ ~(\E j \in at + 1 .. (at + 1) - 1 : TRUE)
    BY <1>1
  <2>2. at + 1 > Len(p) \/ at + 1 \in 1 .. Len(p)
    BY <1>1
  <2>3. at + 1 > Len(p) \/ Item(p, at + 1) # Item(p, at)
    BY <1>1, <1>6, <2>2, ItemIs
  <2> QED
    BY <2>1, <2>3
<1>7. CASE at <= m
  <2>1. p[at].steps = A
    BY <1>4, <1>7
  <2>2. \A i \in 1 .. Len(p) : at <= i /\ i <= m => p[i].steps = A
    BY <1>4
  <2>3. \A i \in 1 .. Len(p) : i = m + 1 => p[i].steps # A
    BY <1>1, <1>4
  <2> QED
    BY <1>4, <1>5, <1>7, <2>1, <2>2, <2>3
<1>8. CASE ~(at <= m) /\ at <= n
  <2>1. p[at].steps = B
    BY <1>4, <1>8
  <2>2. \A i \in 1 .. Len(p) : at <= i /\ i <= n => p[i].steps = B
    BY <1>1, <1>4, <1>8
  <2>3. \A i \in 1 .. Len(p) : i = n + 1 => p[i].steps # B
    BY <1>1, <1>4, <1>8
  <2> QED
    BY <1>4, <1>5, <1>8, <2>1, <2>2, <2>3
<1>9. CASE ~(at <= m) /\ ~(at <= n)
  BY <1>4, <1>6, <1>9
<1> QED
  BY <1>7, <1>8, <1>9

\* NextItem is that place.
LEMMA NextItemIs ==
    ASSUME Fields, TypeOK, NEW c \in Client, job[c].doc # None, job[c].at > 0
    PROVE  LET p == Plan(c) IN
           /\ NextItem(c) \in job[c].at + 1 .. Len(p) + 1
           /\ NextItem(c) > Len(p) \/ Item(p, NextItem(c)) # ItemOf(c)
           /\ \A j \in job[c].at + 1 .. NextItem(c) - 1 : Item(p, j) = ItemOf(c)
<1> DEFINE p == Plan(c)
           at == job[c].at
<1>1. PlanOK(p, job[c].doc) /\ job[c].doc \in Document /\ at \in 1 .. Len(p)
  BY AtWork, ExecutorIs
<1> HIDE DEF p, at
<1>2. \E i \in at + 1 .. Len(p) + 1 :
             /\ i > Len(p) \/ Item(p, i) # Item(p, at)
             /\ \A j \in at + 1 .. i - 1 : Item(p, j) = Item(p, at)
  BY <1>1, NextStarts
<1>3. NextItem(c) = CHOOSE i \in at + 1 .. Len(p) + 1 :
             /\ i > Len(p) \/ Item(p, i) # Item(p, at)
             /\ \A j \in at + 1 .. i - 1 : Item(p, j) = Item(p, at)
  BY DEF NextItem, ItemOf, p, at
<1>4. ItemOf(c) = Item(p, at)
  BY DEF ItemOf, p, at
<1> QED
  BY <1>2, <1>3, <1>4 DEF p, at

\* What the start of an application does.
LEMMA ApplyEffect ==
    ASSUME Fields, NEW c \in Client, NEW d \in Document, ApplyProfile(c, d)
    PROVE  /\ Rest(c) /\ job' \in [Executor -> Job]
           /\ job'[c].doc = d /\ job'[c].at = 1 /\ job'[c].landed = FALSE
           /\ Len(PlanOf.profile[d]) > 0
           /\ report' \in [Client -> Report] /\ \A b \in Client :
                b # c => report'[b] = report[b]
           /\ report'[c].doc = d /\ report'[c].applied = {} /\ report'[c].refused = {}
           /\ report'[c].complete = FALSE
           /\ alone' \in [Executor -> BOOLEAN] /\ \A b \in Executor :
                b # c => alone'[b] = alone[b]
           /\ UNCHANGED <<sim, armed, run>>
<1> DEFINE w == [doc |-> d, at |-> 1, landed |-> FALSE]
           r == [NoReport EXCEPT !.doc = d]
<1>1. w \in Job /\ w.doc = d /\ w.at = 1 /\ w.landed = FALSE
  BY DEF Job
<1>2. r \in Report /\ r.doc = d /\ r.applied = {} /\ r.refused = {} /\ r.complete = FALSE
  BY DEF Report, NoReport
<1>3. /\ job' = [job EXCEPT ![c] = w] /\ report' = [report EXCEPT ![c] = r]
      /\ alone' = [alone EXCEPT ![c] = TRUE] /\ PlanOf.profile[d] # <<>>
      /\ UNCHANGED <<sim, armed, run>>
  BY DEF ApplyProfile
<1> HIDE DEF w, r
<1>4. Rest(c) /\ job' \in [Executor -> Job] /\ job'[c] = w
  BY <1>1, <1>3, ExecutorIs DEF Fields, Rest
<1>5. report' \in [Client -> Report] /\ report'[c] = r /\ \A b \in Client :
        b # c => report'[b] = report[b]
  BY <1>2, <1>3 DEF Fields
<1>6. alone' \in [Executor -> BOOLEAN] /\ \A b \in Executor : b # c => alone'[b] = alone[b]
  BY <1>3, ExecutorIs DEF Fields
<1>7. Len(PlanOf.profile[d]) > 0
  <2>1. PlanOf.profile[d] \in Seq(CallSet)
    BY Plans DEF PlanOK
  <2> QED
    BY <1>3, <2>1
<1> QED
  BY <1>1, <1>2, <1>3, <1>4, <1>5, <1>6, <1>7

\* A profile goes on to the call at i, or is answered; r is its report so far.
LEMMA ProfileEffect ==
    ASSUME Fields, TypeOK, NEW c \in Client, job[c].doc # None, NEW i \in Nat,
           NEW r \in Report,
           ProfileGoesOn(c, i, r)
    PROVE  LET p == Plan(c) IN
           /\ Rest(c) /\ job' \in [Executor -> Job]
           /\ report' \in [Client -> Report] /\ \A b \in Client :
                b # c => report'[b] = report[b]
           /\ report'[c].doc = r.doc /\ report'[c].applied = r.applied
           /\ report'[c].refused = r.refused
           /\ \/ i > Len(p) /\ job'[c].doc = None /\ report'[c].complete = TRUE
              \/ /\ i <= Len(p) /\ job'[c].doc = job[c].doc /\ job'[c].at = i
                 /\ job'[c].landed = FALSE /\ report'[c].complete = r.complete
<1>0. Len(Plan(c)) \in Nat /\ c \in Executor
  BY AtWork, ExecutorIs
<1>1. CASE i > Len(Plan(c))
  <2> DEFINE w == [r EXCEPT !.complete = TRUE]
  <2>1. /\ w \in Report /\ w.doc = r.doc /\ w.applied = r.applied /\ w.refused = r.refused
        /\ w.complete = TRUE
    BY DEF Report
  <2>2. report' = [report EXCEPT ![c] = w] /\ job' = [job EXCEPT ![c] = NoJob]
    BY <1>1 DEF ProfileGoesOn
  <2> HIDE DEF w
  <2>3. report' \in [Client -> Report] /\ report'[c] = w /\ \A b \in Client :
          b # c => report'[b] = report[b]
    BY <2>1, <2>2 DEF Fields
  <2> QED
    BY <1>0, <1>1, <2>1, <2>2, <2>3, Ends
<1>2. CASE ~(i > Len(Plan(c)))
  <2>2. report' = [report EXCEPT ![c] = r] /\ job' = NextCall(c, i)
    BY <1>2 DEF ProfileGoesOn
  <2>3. report' \in [Client -> Report] /\ report'[c] = r /\ \A b \in Client :
          b # c => report'[b] = report[b]
    BY <2>2 DEF Fields
  <2>4. i <= Len(Plan(c))
    BY <1>0, <1>2
  <2> QED
    BY <1>0, <2>2, <2>3, <2>4, Advances
<1> QED
  BY <1>1, <1>2

\* The component at work ends at i, or the same one goes on there: what is applied or
\* refused grows by it in the first case only.
Attempts(c, i) ==
    LET p == Plan(c)
        item == ItemOf(c)
        ends == i > Len(p) \/ Item(p, i) # item IN
    /\ i \in job[c].at + 1 .. Len(p) + 1
    /\ \A j \in job[c].at + 1 .. i - 1 : Item(p, j) = item
    /\ Rest(c) /\ job' \in [Executor -> Job]
    /\ report' \in [Client -> Report] /\ \A b \in Client : b # c => report'[b] = report[b]
    /\ report'[c].doc = report[c].doc
    /\ \/ i > Len(p) /\ job'[c].doc = None /\ report'[c].complete = TRUE
       \/ /\ i <= Len(p) /\ job'[c].doc = job[c].doc /\ job'[c].at = i
          /\ job'[c].landed = FALSE /\ report'[c].complete = report[c].complete
    /\ \/ /\ job[c].landed /\ i = job[c].at + 1
          /\ report'[c].applied = report[c].applied \cup (IF ends THEN {item} ELSE {})
          /\ report'[c].refused = report[c].refused
       \/ /\ ends
          /\ report'[c].applied = report[c].applied
          /\ report'[c].refused = report[c].refused \cup {item}

\* An answer, or a failure, is such an attempt.
LEMMA AttemptsEffect ==
    ASSUME Fields, TypeOK, NEW c \in Client, ProfileCallReturns(c) \/ ProfileCallFails(c)
    PROVE  /\ job[c].doc # None /\ job[c].at > 0 /\ UNCHANGED <<sim, armed, run, alone>>
           /\ \E i \in Nat : Attempts(c, i)
<1>1. job[c].doc # None /\ job[c].at > 0 /\ UNCHANGED <<sim, armed, run, alone>>
  BY DEF ProfileCallReturns, ProfileCallFails, Refused, Broken, InCall
<1>2. PICK u \in Report : u = report[c]
  BY DEF Fields
<1>3. /\ PlanOK(Plan(c), job[c].doc) /\ job[c].doc \in Document /\ Len(Plan(c)) \in Nat
      /\ job[c].at \in 1 .. Len(Plan(c))
  BY <1>1, AtWork, ExecutorIs
<1> DEFINE p == Plan(c)
           at == job[c].at
           item == ItemOf(c)
           next == NextItem(c)
<1>4. item \in ItemName
  BY <1>3, ItemIs DEF ItemOf
<1>5. /\ next \in at + 1 .. Len(p) + 1 /\ next \in Nat
      /\ next > Len(p) \/ Item(p, next) # item
      /\ \A j \in at + 1 .. next - 1 : Item(p, j) = item
  <2>1. /\ next \in at + 1 .. Len(p) + 1
        /\ next > Len(p) \/ Item(p, next) # item
        /\ \A j \in at + 1 .. next - 1 : Item(p, j) = item
    BY <1>1, NextItemIs
  <2> QED
    BY <1>3, <2>1
<1>6. CASE ProfileCallFails(c)
  <2> DEFINE more == report[c].refused \cup {item}
             r == [u EXCEPT !.refused = more]
  <2>1. more \in SUBSET ItemName
    BY <1>2, <1>4 DEF Report
  <2>2. r = [report[c] EXCEPT !.refused = @ \cup {item}]
    BY <1>2
  <2> HIDE DEF more
  <2>3. /\ r \in Report /\ r.doc = u.doc /\ r.applied = u.applied /\ r.refused = more
        /\ r.complete = u.complete
    BY <2>1 DEF Report
  <2>4. ProfileGoesOn(c, next, r)
    BY <1>6, <2>2 DEF ProfileCallFails
  <2> HIDE DEF r, next, item
  <2>5. /\ Rest(c) /\ job' \in [Executor -> Job]
        /\ report' \in [Client -> Report] /\ \A b \in Client : b # c => report'[b] = report[b]
        /\ report'[c].doc = r.doc /\ report'[c].applied = r.applied
        /\ report'[c].refused = r.refused
        /\ \/ next > Len(Plan(c)) /\ job'[c].doc = None /\ report'[c].complete = TRUE
           \/ /\ next <= Len(Plan(c)) /\ job'[c].doc = job[c].doc /\ job'[c].at = next
              /\ job'[c].landed = FALSE /\ report'[c].complete = r.complete
    <3>1. next \in Nat /\ r \in Report /\ job[c].doc # None
      BY <1>1, <1>5, <2>3
    <3> HIDE DEF p, at
    <3> QED
      BY <2>4, <3>1, ProfileEffect
  <2>6. Attempts(c, next)
    BY <1>2, <1>5, <2>3, <2>5 DEF Attempts, more, item
  <2> QED
    BY <1>1, <1>5, <2>6
<1>7. CASE ProfileCallReturns(c)
  <2> DEFINE ends == at + 1 > Len(p) \/ Item(p, at + 1) # item
             more == report[c].applied \cup (IF ends THEN {item} ELSE {})
             r == [u EXCEPT !.applied = more]
  <2>0. next = at + 1 <=> ends
    <3>1. CASE ends
      <4>1. ~(next > at + 1)
        <5> SUFFICES ASSUME next > at + 1 PROVE FALSE
          OBVIOUS
        <5>1. at + 1 \in at + 1 .. next - 1 /\ ~(at + 1 > Len(p))
          BY <1>3, <1>5
        <5> QED
          BY <1>5, <3>1, <5>1
      <4> QED
        BY <1>3, <1>5, <3>1, <4>1
    <3>2. CASE ~ends
      BY <1>5, <3>2
    <3> QED
      BY <3>1, <3>2
  <2>1. more \in SUBSET ItemName
    BY <1>2, <1>4 DEF Report
  <2>2. (IF next = at + 1 THEN [report[c] EXCEPT !.applied = @ \cup {item}] ELSE report[c]) = r
    <3> HIDE DEF next, item, ends
    <3>1. CASE ends
      <4>1. more = report[c].applied \cup {item}
        BY <3>1
      <4> QED
        BY <1>2, <2>0, <3>1, <4>1
    <3>2. CASE ~ends
      <4>1. more = u.applied
        BY <1>2, <3>2
      <4>2. [u EXCEPT !.applied = u.applied] = u
        BY DEF Report
      <4> QED
        BY <1>2, <2>0, <3>2, <4>1, <4>2
    <3> QED
      BY <3>1, <3>2
  <2> HIDE DEF more
  <2>3. /\ r \in Report /\ r.doc = u.doc /\ r.applied = more /\ r.refused = u.refused
        /\ r.complete = u.complete
    BY <2>1 DEF Report
  <2>4. job[c].landed /\ ProfileGoesOn(c, at + 1, r) /\ at + 1 \in Nat
    BY <1>3, <1>7, <2>2 DEF ProfileCallReturns
  <2> HIDE DEF r, next, item
  <2>5. /\ Rest(c) /\ job' \in [Executor -> Job]
        /\ report' \in [Client -> Report] /\ \A b \in Client : b # c => report'[b] = report[b]
        /\ report'[c].doc = r.doc /\ report'[c].applied = r.applied
        /\ report'[c].refused = r.refused
        /\ \/ at + 1 > Len(Plan(c)) /\ job'[c].doc = None /\ report'[c].complete = TRUE
           \/ /\ at + 1 <= Len(Plan(c)) /\ job'[c].doc = job[c].doc /\ job'[c].at = at + 1
              /\ job'[c].landed = FALSE /\ report'[c].complete = r.complete
    <3>1. at + 1 \in Nat /\ r \in Report /\ job[c].doc # None /\ ProfileGoesOn(c, at + 1, r)
      BY <1>1, <2>3, <2>4
    <3> HIDE DEF p, at
    <3> DEFINE n == at + 1
    <3>2. n \in Nat /\ r \in Report /\ job[c].doc # None /\ ProfileGoesOn(c, n, r)
      BY <3>1
    <3> HIDE DEF n
    <3>3. /\ Rest(c) /\ job' \in [Executor -> Job]
          /\ report' \in [Client -> Report] /\ \A b \in Client :
               b # c => report'[b] = report[b]
          /\ report'[c].doc = r.doc /\ report'[c].applied = r.applied
          /\ report'[c].refused = r.refused
          /\ \/ n > Len(Plan(c)) /\ job'[c].doc = None /\ report'[c].complete = TRUE
             \/ /\ n <= Len(Plan(c)) /\ job'[c].doc = job[c].doc /\ job'[c].at = n
                /\ job'[c].landed = FALSE /\ report'[c].complete = r.complete
      BY <3>2, ProfileEffect
    <3> QED
      BY <3>3 DEF n
  <2>6. at + 1 \in at + 1 .. Len(p) + 1 /\ ~(\E j \in at + 1 .. (at + 1) - 1 : TRUE)
    BY <1>3
  <2>7. Attempts(c, at + 1)
    BY <1>2, <2>3, <2>4, <2>5, <2>6 DEF Attempts, more, item
  <2> QED
    BY <1>1, <2>4, <2>7
<1> QED
  BY <1>6, <1>7


\* A task stays within its plan.
LEMMA PlacesHold ==
    ASSUME TypeOK, NEW a \in Executor, Rest(a),
           job'[a].doc # None => job'[a].at \in 0 .. Len(Plan(a)')
    PROVE  \A b \in Executor : job'[b].doc # None => job'[b].at \in 0 .. Len(Plan(b)')
<1> SUFFICES ASSUME NEW b \in Executor, job'[b].doc # None
             PROVE  job'[b].at \in 0 .. Len(Plan(b)')
  OBVIOUS
<1>1. CASE b = a
  BY <1>1
<1>2. CASE b # a
  <2>1. job'[b] = job[b] /\ job[b].at \in 0 .. Len(Plan(b))
    BY <1>2 DEF Rest, TypeOK
  <2>2. Plan(b)' = Plan(b)
    BY <2>1, SamePlan
  <2> QED
    BY <2>1, <2>2
<1> QED
  BY <1>1, <1>2

\* The types at hand.
LEMMA RunTyped ==
    ASSUME TypeOK, Fields
    PROVE  /\ sim \in SimRec /\ armed \subseteq Failure
           /\ run.errors \subseteq DOMAIN run.steps
           /\ run \in Run /\ run.steps \in Progress /\ "run" \in Executor
           /\ alone \in [Executor -> BOOLEAN]
BY ExecutorIs DEF TypeOK, SimRec, Fields, Run


\* Nothing has begun.
LEMMA NothingTyped ==
    /\ NoJob \in Job /\ NoJob.doc = None
    /\ NoRun \in Run /\ NoRun.doc = None /\ NoRun.status = "none" /\ NoRun.errors = {}
    /\ NoReport \in Report /\ NoReport.complete = FALSE
<1> DEFINE f == [s \in {} |-> "pending"]
<1>1. f \in [{} -> StepStatus] /\ {} \in SUBSET Step
  BY DEF StepStatus
<1>2. f \in Progress
  BY <1>1 DEF Progress
<1> HIDE DEF f
<1>3. NoRun = [doc |-> None, status |-> "none", steps |-> f, errors |-> {}]
  BY DEF NoRun, f
<1>4. NoRun \in Run /\ NoRun.doc = None /\ NoRun.status = "none" /\ NoRun.errors = {}
  BY <1>2, <1>3 DEF Run
<1> QED
  BY <1>4 DEF NoJob, Job, NoReport, Report


\* No step leaves the types.
LEMMA TypeStep ==
    TypeOK /\ Fields /\ RunFollows /\ [Next]_vars
      => (TypeOK /\ Fields)'
<1> SUFFICES ASSUME TypeOK, Fields, RunFollows, [Next]_vars
             PROVE  (TypeOK /\ Fields)'
  OBVIOUS
<1>1. ASSUME NEW d \in Document, StartRun(d)
      PROVE  (TypeOK /\ Fields)'
  <2>0. sim \in SimRec /\ armed \subseteq Failure /\ run.errors \subseteq DOMAIN run.steps
    BY RunTyped
  <2>1. /\ Rest("run") /\ job' \in [Executor -> Job] /\ job'["run"].at = 0
        /\ job'["run"].doc = d
        /\ run' \in Run /\ run'.errors = {} /\ alone' \in [Executor -> BOOLEAN]
        /\ UNCHANGED <<sim, armed, report>>
    BY <1>1, StartRunEffect
  <2>f. Fields'
    BY <2>1 DEF Fields
  <2>p. \A a \in Executor : job'[a].doc # None => job'[a].at \in 0 .. Len(Plan(a)')
    <3>1. Plan("run")' = PlanOf.scenario[d] /\ Len(PlanOf.scenario[d]) \in Nat
      BY <2>1, Plans, InOrder DEF Plan
    <3>2. job'["run"].at \in 0 .. Len(Plan("run")')
      BY <2>1, <3>1
    <3> QED
      BY <2>1, <3>2, ExecutorIs, PlacesHold
  <2>s. sim' \in SimRec /\ armed' \subseteq Failure
    BY <2>0, <2>1
  <2>e. run'.errors \subseteq DOMAIN run'.steps
    BY <2>1
  <2> QED
    BY <2>f, <2>p, <2>s, <2>e, TypeHolds
<1>2. ASSUME RunBegins \/ RunCallReturns
      PROVE  (TypeOK /\ Fields)'
  <2>0. sim \in SimRec /\ armed \subseteq Failure /\ run.errors \subseteq DOMAIN run.steps
    BY RunTyped
  <2> DEFINE p == Plan("run")
             n == job["run"].at + 1
             f == Closed
  <2>1. /\ job["run"].doc # None /\ f \in Progress /\ n \in Nat
        /\ Rest("run") /\ job' \in [Executor -> Job] /\ run' \in Run
        /\ run'.errors = run.errors
        /\ \/ job'["run"].doc = None /\ run'.steps = Marked(f, {"traffic"}, "done")
           \/ /\ n <= Len(p) /\ job'["run"].doc = job["run"].doc /\ job'["run"].at = n
              /\ run'.steps = Marked(f, p[n].steps, "running")
        /\ UNCHANGED <<sim, armed, report, alone>>
    <3>1. Moved /\ job["run"].doc # None /\ Closed \in Progress /\ job["run"].at \in Nat
      BY <1>2, MovesEffect, AtWork, ExecutorIs
    <3> QED
      BY <3>1 DEF Moved
  <2>2. DOMAIN f = DOMAIN run.steps
    <3>1. run.steps \in Progress
      BY RunTyped
    <3>2. DOMAIN Marked(run.steps, Current("run").steps, "done") = DOMAIN run.steps
      BY <3>1, MarkedIs DEF StepStatus
    <3> QED
      BY <3>2 DEF Closed
  <2> HIDE DEF f, n, p
  <2>f. Fields'
    BY <2>1 DEF Fields
  <2>p. \A a \in Executor : job'[a].doc # None => job'[a].at \in 0 .. Len(Plan(a)')
    <3>1. job'["run"].doc # None => job'["run"].at \in 0 .. Len(Plan("run")')
      <4> SUFFICES ASSUME job'["run"].doc # None
                   PROVE  job'["run"].at \in 0 .. Len(Plan("run")')
        OBVIOUS
      <4>1. Plan("run")' = p
        BY <2>1, ExecutorIs, SamePlan DEF p
      <4>2. Len(p) \in Nat
        BY <2>1, AtWork, ExecutorIs DEF p
      <4> QED
        BY <2>1, <4>1, <4>2
    <3> QED
      BY <2>1, <3>1, ExecutorIs, PlacesHold
  <2>s. sim' \in SimRec /\ armed' \subseteq Failure
    BY <2>0, <2>1
  <2>e. run'.errors \subseteq DOMAIN run'.steps
    BY <2>0, <2>1, <2>2, MarkedIs DEF StepStatus
  <2> QED
    BY <2>f, <2>p, <2>s, <2>e, TypeHolds
<1>3. ASSUME RunCallRefused \/ RunCallBreaks
      PROVE  (TypeOK /\ Fields)'
  <2>0. sim \in SimRec /\ armed \subseteq Failure /\ run.errors \subseteq DOMAIN run.steps
    BY RunTyped
  <2>1. /\ job["run"].doc # None /\ job["run"].at > 0
        /\ Rest("run") /\ job' \in [Executor -> Job] /\ job'["run"].doc = None /\ run' \in Run
        /\ \/ run'.steps = run.steps /\ run'.errors = run.errors
           \/ /\ run'.steps = Marked(run.steps, Current("run").steps, "failed")
              /\ run'.errors = Current("run").steps
        /\ UNCHANGED <<sim, armed, report, alone>>
    BY <1>3, StopsEffect
  <2>f. Fields'
    BY <2>1 DEF Fields
  <2>p. \A a \in Executor : job'[a].doc # None => job'[a].at \in 0 .. Len(Plan(a)')
    BY <2>1, ExecutorIs, PlacesHold
  <2>s. sim' \in SimRec /\ armed' \subseteq Failure
    BY <2>0, <2>1
  <2>2. Current("run").steps \subseteq DOMAIN run.steps
    <3>1. /\ job["run"].doc \in Document /\ job["run"].at \in 1 .. Len(Plan("run"))
          /\ Plan("run") = PlanOf.scenario[job["run"].doc]
      BY <2>1, ExecutorIs, AtWork
    <3>2. /\ run.doc = job["run"].doc /\ run.doc # None
          /\ DOMAIN run.steps = DeclaredSteps(run.doc)
      BY <2>1 DEF RunFollows
    <3> QED
      BY <3>1, <3>2, StepsDeclared DEF Current
  <2>3. DOMAIN Marked(run.steps, Current("run").steps, "failed") = DOMAIN run.steps
    BY RunTyped, MarkedIs DEF StepStatus
  <2>e. run'.errors \subseteq DOMAIN run'.steps
    BY <2>0, <2>1, <2>2, <2>3
  <2> QED
    BY <2>f, <2>p, <2>s, <2>e, TypeHolds
<1>4. ASSUME NEW a \in Executor, CallLands(a)
      PROVE  (TypeOK /\ Fields)'
  <2>0. sim \in SimRec /\ armed \subseteq Failure /\ run.errors \subseteq DOMAIN run.steps
    BY RunTyped
  <2>1. /\ job[a].doc # None /\ Rest(a) /\ job'[a].doc = job[a].doc /\ job'[a].at = job[a].at
        /\ job' \in [Executor -> Job] /\ sim' \in SimRec
        /\ Current(a).op \in {"inject_failure", "arm_failure"} => Current(a).ref \in Failure
        /\ armed' = IF Current(a).op = "arm_failure" THEN armed \cup {Current(a).ref} ELSE armed
        /\ alone' \in [Executor -> BOOLEAN] /\ UNCHANGED <<run, report>>
    BY <1>4, LandsEffect
  <2>f. Fields'
    BY <2>1 DEF Fields
  <2>p. \A b \in Executor : job'[b].doc # None => job'[b].at \in 0 .. Len(Plan(b)')
    <3>1. job'[a].at \in 0 .. Len(Plan(a)')
      BY <2>1, AtWork, SamePlan
    <3> QED
      BY <2>1, <3>1, PlacesHold
  <2>s. sim' \in SimRec /\ armed' \subseteq Failure
    BY <2>0, <2>1
  <2>e. run'.errors \subseteq DOMAIN run'.steps
    BY <2>0, <2>1
  <2> QED
    BY <2>f, <2>p, <2>s, <2>e, TypeHolds
<1>5. ASSUME NEW c \in Client, NEW d \in Document, ApplyProfile(c, d)
      PROVE  (TypeOK /\ Fields)'
  <2>0. sim \in SimRec /\ armed \subseteq Failure /\ run.errors \subseteq DOMAIN run.steps
    BY RunTyped
  <2>1. /\ Rest(c) /\ job' \in [Executor -> Job] /\ job'[c].doc = d /\ job'[c].at = 1
        /\ Len(PlanOf.profile[d]) > 0 /\ report' \in [Client -> Report]
        /\ alone' \in [Executor -> BOOLEAN] /\ UNCHANGED <<sim, armed, run>>
    BY <1>5, ApplyEffect
  <2>f. Fields'
    BY <2>1 DEF Fields
  <2>p. \A a \in Executor : job'[a].doc # None => job'[a].at \in 0 .. Len(Plan(a)')
    <3>1. Plan(c)' = PlanOf.profile[d] /\ Len(PlanOf.profile[d]) \in Nat
      BY <2>1, Plans, InOrder, ExecutorIs DEF Plan
    <3>2. job'[c].at \in 0 .. Len(Plan(c)')
      BY <2>1, <3>1
    <3> QED
      BY <2>1, <3>2, ExecutorIs, PlacesHold
  <2>s. sim' \in SimRec /\ armed' \subseteq Failure
    BY <2>0, <2>1
  <2>e. run'.errors \subseteq DOMAIN run'.steps
    BY <2>0, <2>1
  <2> QED
    BY <2>f, <2>p, <2>s, <2>e, TypeHolds
<1>6. ASSUME NEW c \in Client, ProfileCallReturns(c) \/ ProfileCallFails(c)
      PROVE  (TypeOK /\ Fields)'
  <2>0. sim \in SimRec /\ armed \subseteq Failure /\ run.errors \subseteq DOMAIN run.steps
    BY RunTyped
  <2>1. job[c].doc # None /\ job[c].at > 0 /\ UNCHANGED <<sim, armed, run, alone>>
    BY <1>6, AttemptsEffect
  <2>2. PICK i \in Nat : Attempts(c, i)
    BY <1>6, AttemptsEffect
  <2>3. /\ i \in job[c].at + 1 .. Len(Plan(c)) + 1
        /\ Rest(c) /\ job' \in [Executor -> Job] /\ report' \in [Client -> Report]
        /\ \/ job'[c].doc = None
           \/ i <= Len(Plan(c)) /\ job'[c].doc = job[c].doc /\ job'[c].at = i
    BY <2>2 DEF Attempts
  <2>f. Fields'
    BY <2>1, <2>3 DEF Fields
  <2>p. \A a \in Executor : job'[a].doc # None => job'[a].at \in 0 .. Len(Plan(a)')
    <3>1. job'[c].doc # None => job'[c].at \in 0 .. Len(Plan(c)')
      <4> SUFFICES ASSUME job'[c].doc # None PROVE job'[c].at \in 0 .. Len(Plan(c)')
        OBVIOUS
      <4>1. Plan(c)' = Plan(c)
        BY <2>3, ExecutorIs, SamePlan
      <4>2. Len(Plan(c)) \in Nat
        BY <2>1, AtWork, ExecutorIs
      <4> QED
        BY <2>3, <4>1, <4>2
    <3> QED
      BY <2>3, <3>1, ExecutorIs, PlacesHold
  <2>s. sim' \in SimRec /\ armed' \subseteq Failure
    BY <2>0, <2>1
  <2>e. run'.errors \subseteq DOMAIN run'.steps
    BY <2>0, <2>1
  <2> QED
    BY <2>f, <2>p, <2>s, <2>e, TypeHolds
<1>7. ASSUME Fire
      PROVE  (TypeOK /\ Fields)'
  <2>0. sim \in SimRec /\ armed \subseteq Failure /\ run.errors \subseteq DOMAIN run.steps
    BY RunTyped
  <2>1. PICK f \in armed : armed' = armed \ {f} /\ sim' = [sim EXCEPT !.failed = @ \cup {f}]
    BY <1>7 DEF Fire
  <2>2. UNCHANGED <<run, job, report, alone>>
    BY <1>7 DEF Fire
  <2>f. Fields'
    BY <2>2 DEF Fields
  <2>p. \A a \in Executor : job'[a].doc # None => job'[a].at \in 0 .. Len(Plan(a)')
    BY <2>2 DEF TypeOK, Plan
  <2>s. sim' \in SimRec /\ armed' \subseteq Failure
    <3> DEFINE more == sim.failed \cup {f}
    <3>1. more \in SUBSET Failure
      BY <2>0 DEF SimRec
    <3>2. sim' = [sim EXCEPT !.failed = more]
      BY <2>1
    <3> HIDE DEF more
    <3> QED
      BY <2>0, <2>1, <3>1, <3>2 DEF SimRec
  <2>e. run'.errors \subseteq DOMAIN run'.steps
    BY <2>0, <2>2
  <2> QED
    BY <2>f, <2>p, <2>s, <2>e, TypeHolds
<1>8. ASSUME Meddle
      PROVE  (TypeOK /\ Fields)'
  <2>0. sim \in SimRec /\ armed \subseteq Failure /\ run.errors \subseteq DOMAIN run.steps
    BY RunTyped
  <2>2. UNCHANGED <<run, job, report>> /\ alone' = [a \in Executor |-> FALSE]
    BY <1>8 DEF Meddle
  <2>f. Fields'
    BY <2>2 DEF Fields
  <2>p. \A a \in Executor : job'[a].doc # None => job'[a].at \in 0 .. Len(Plan(a)')
    BY <2>2 DEF TypeOK, Plan
  <2>s. sim' \in SimRec /\ armed' \subseteq Failure
    <3>1. \/ /\ sim' = [sim EXCEPT !.setup = None, !.place = None, !.failed = {}]
             /\ armed' = armed
          \/ sim' = [sim EXCEPT !.weather = None] /\ armed' = armed
          \/ sim' = [sim EXCEPT !.failed = {}] /\ armed' = {}
      BY <1>8 DEF Meddle
    <3> QED
      BY <2>0, <3>1 DEF SimRec
  <2>e. run'.errors \subseteq DOMAIN run'.steps
    BY <2>0, <2>2
  <2> QED
    BY <2>f, <2>p, <2>s, <2>e, TypeHolds
<1>9. ASSUME Restart
      PROVE  (TypeOK /\ Fields)'
  <2>0. sim \in SimRec /\ armed \subseteq Failure /\ run.errors \subseteq DOMAIN run.steps
    BY RunTyped
  <2>2. /\ armed' = {} /\ run' = NoRun /\ job' = [a \in Executor |-> NoJob] /\ sim' = sim
        /\ report' = [c \in Client |-> NoReport] /\ alone' = [a \in Executor |-> FALSE]
    BY <1>9 DEF Restart
  <2>f. Fields'
    BY <2>2, NothingTyped DEF Fields
  <2>p. \A a \in Executor : job'[a].doc # None => job'[a].at \in 0 .. Len(Plan(a)')
    BY <2>2, NothingTyped
  <2>s. sim' \in SimRec /\ armed' \subseteq Failure
    BY <2>0, <2>2
  <2>e. run'.errors \subseteq DOMAIN run'.steps
    BY <2>2, NothingTyped
  <2> QED
    BY <2>f, <2>p, <2>s, <2>e, TypeHolds
<1>10. ASSUME UNCHANGED vars PROVE (TypeOK /\ Fields)'
  <2>0. sim \in SimRec /\ armed \subseteq Failure /\ run.errors \subseteq DOMAIN run.steps
    BY RunTyped
  <2>2. UNCHANGED <<sim, armed, run, job, report, alone>>
    BY <1>10 DEF vars
  <2>f. Fields'
    BY <2>2 DEF Fields
  <2>p. \A a \in Executor : job'[a].doc # None => job'[a].at \in 0 .. Len(Plan(a)')
    BY <2>2 DEF TypeOK, Plan
  <2>s. sim' \in SimRec /\ armed' \subseteq Failure
    BY <2>0, <2>2
  <2>e. run'.errors \subseteq DOMAIN run'.steps
    BY <2>0, <2>2
  <2> QED
    BY <2>f, <2>p, <2>s, <2>e, TypeHolds
<1> QED
  BY <1>1, <1>2, <1>3, <1>4, <1>5, <1>6, <1>7, <1>8, <1>9, <1>10, Acts


-----------------------------------------------------------------------------
(* The status of a run.                                                      *)

Follows(f, p, at) ==
    \A i \in 1 .. Len(p) : \A s \in p[i].steps : s \in DOMAIN f /\ f[s] = StatusAt(p, i, at)

Stops(f, p) ==
    \A i, j \in DOMAIN p :
      i < j /\ p[i].steps # p[j].steps =>
        \A s \in p[i].steps, t \in p[j].steps : f[t] # "pending" => f[s] = "done"

\* Steps that are as far as the task show none begun before those ahead are done.
LEMMA FollowsStops ==
    ASSUME NEW d \in Document, NEW p, PlanOK(p, d), NEW at \in 0 .. Len(p), NEW f,
           Follows(f, p, at)
    PROVE  Stops(f, p)
<1>1. /\ Len(p) \in Nat /\ DOMAIN p = 1 .. Len(p)
      /\ \A i, j, k \in 1 .. Len(p) :
                i <= k /\ k <= j /\ p[i].steps = p[j].steps => p[k].steps = p[i].steps
  BY InOrder
<1> SUFFICES ASSUME NEW i \in 1 .. Len(p), NEW j \in 1 .. Len(p), i < j,
                    p[i].steps # p[j].steps,
                    NEW s \in p[i].steps, NEW t \in p[j].steps, f[t] # "pending"
             PROVE  f[s] = "done"
  BY <1>1 DEF Stops
<1>2. f[s] = StatusAt(p, i, at) /\ StatusAt(p, j, at) # "pending"
  BY DEF Follows
<1>3. at \in Nat /\ i \in Nat /\ j \in Nat /\ at <= Len(p)
  BY <1>1
<1>4. at > 0 => at \in 1 .. Len(p)
  BY <1>1, <1>3
<1>5. (at > 0 /\ p[j].steps = p[at].steps) \/ j < at
  BY <1>2 DEF StatusAt
<1>6. at > 0 /\ p[i].steps # p[at].steps /\ i < at
  <2>1. CASE at > 0 /\ p[j].steps = p[at].steps
    <3>1. ~(at <= i)
      <4> SUFFICES ASSUME at <= i PROVE FALSE
        OBVIOUS
      <4>1. at \in 1 .. Len(p) /\ i <= j /\ p[at].steps = p[j].steps
        BY <1>3, <1>4, <2>1
      <4>2. p[i].steps = p[at].steps
        BY <1>1, <4>1
      <4> QED
        BY <2>1, <4>2
    <3> QED
      BY <1>3, <2>1, <3>1
  <2>2. CASE j < at
    <3>1. at > 0 /\ i < at /\ at \in 1 .. Len(p)
      BY <1>3, <1>4, <2>2
    <3>2. p[i].steps # p[at].steps
      <4> SUFFICES ASSUME p[i].steps = p[at].steps PROVE FALSE
        OBVIOUS
      <4>1. i <= j /\ j <= at
        BY <1>3, <2>2
      <4>2. p[j].steps = p[i].steps
        BY <1>1, <3>1, <4>1
      <4> QED
        BY <4>2
    <3> QED
      BY <3>1, <3>2
  <2> QED
    BY <1>5, <2>1, <2>2
<1> QED
  BY <1>2, <1>6 DEF StatusAt

\* The step of the call before is closed, and that of the next call begun.
LEMMA FollowsOn ==
    ASSUME NEW d \in Document, NEW p, PlanOK(p, d), NEW at \in Nat, at < Len(p),
           NEW f \in Progress, Follows(f, p, at), NEW h,
           h = IF at > 0 /\ (at = Len(p) \/ p[at + 1].steps # p[at].steps)
               THEN Marked(f, p[at].steps, "done") ELSE f
    PROVE  Follows(Marked(h, p[at + 1].steps, "running"), p, at + 1)
<1>1. /\ Len(p) \in Nat /\ DOMAIN p = 1 .. Len(p)
      /\ \A i, j, k \in 1 .. Len(p) :
                i <= k /\ k <= j /\ p[i].steps = p[j].steps => p[k].steps = p[i].steps
  BY InOrder
<1>2. \A i, j \in 1 .. Len(p) : p[i].steps = p[j].steps \/ p[i].steps \cap p[j].steps = {}
  BY StepsApart
<1> DEFINE n == at + 1
           g == Marked(h, p[n].steps, "running")
<1>3. n \in 1 .. Len(p) /\ (at > 0 => at \in 1 .. Len(p)) /\ at # Len(p) /\ n > 0 /\ at < n
  <2>1. Len(p) \in Nat
    BY <1>1
  <2> HIDE DEF g
  <2>2. n \in 1 .. Len(p) /\ n > 0 /\ at < n
    BY <2>1
  <2>3. (at > 0 => at \in 1 .. Len(p)) /\ at # Len(p)
    BY <2>1
  <2> QED
    BY <2>2, <2>3
<1>4. \A those :
        /\ DOMAIN Marked(f, those, "done") = DOMAIN f
        /\ Marked(f, those, "done") \in Progress
        /\ \A s \in DOMAIN f :
             Marked(f, those, "done")[s] = IF s \in those THEN "done" ELSE f[s]
  BY MarkedIs DEF StepStatus
<1>5. h \in Progress /\ DOMAIN h = DOMAIN f
  BY <1>4
<1>6. /\ DOMAIN g = DOMAIN f
      /\ \A s \in DOMAIN f : g[s] = IF s \in p[n].steps THEN "running" ELSE h[s]
  BY <1>5, MarkedIs DEF StepStatus
<1>7. at > 0 /\ p[n].steps # p[at].steps =>
        \A s \in DOMAIN f : h[s] = IF s \in p[at].steps THEN "done" ELSE f[s]
  BY <1>4
<1>8. ~(at > 0 /\ p[n].steps # p[at].steps) => h = f
  BY <1>3
<1> HIDE DEF g
<1> SUFFICES ASSUME NEW i \in 1 .. Len(p), NEW s \in p[i].steps
             PROVE  s \in DOMAIN g /\ g[s] = StatusAt(p, i, n)
  BY DEF Follows, g
<1>9. s \in DOMAIN f /\ f[s] = StatusAt(p, i, at) /\ s \in DOMAIN g
  BY <1>6 DEF Follows
<1>10. CASE p[i].steps = p[n].steps
  BY <1>3, <1>6, <1>9, <1>10 DEF StatusAt
<1>11. CASE p[i].steps # p[n].steps
  <2>1. s \notin p[n].steps /\ g[s] = h[s]
    BY <1>2, <1>3, <1>6, <1>9, <1>11
  <2>2. StatusAt(p, i, n) = IF i < n THEN "done" ELSE "pending"
    BY <1>11 DEF StatusAt
  <2>3. i # n /\ i \in Nat
    <3>1. Len(p) \in Nat
      BY <1>1
    <3>2. i \in Nat
      BY <3>1
    <3> HIDE DEF n
    <3> QED
      BY <1>11, <3>2
  <2>4. CASE at = 0
    <3>1. h[s] = f[s] /\ f[s] = "pending"
      BY <1>8, <1>9, <2>3, <2>4 DEF StatusAt
    <3>2. ~(i < n)
      BY <2>3, <2>4
    <3> QED
      BY <1>9, <2>1, <2>2, <3>1, <3>2
  <2>5. CASE at > 0 /\ p[i].steps = p[at].steps
    <3>1. h[s] = "done"
      BY <1>7, <1>9, <1>11, <2>5
    <3>2. i < n
      <4> SUFFICES ASSUME ~(i < n) PROVE FALSE
        OBVIOUS
      <4>1. at <= n /\ n <= i /\ at \in 1 .. Len(p)
        BY <1>3, <2>3, <2>5
      <4>2. p[n].steps = p[at].steps
        BY <1>1, <1>3, <2>5, <4>1
      <4> QED
        BY <1>11, <2>5, <4>2
    <3> QED
      BY <1>9, <2>1, <2>2, <3>1, <3>2
  <2>6. CASE at > 0 /\ p[i].steps # p[at].steps
    <3>1. s \notin p[at].steps
      BY <1>2, <1>3, <2>6
    <3>2. h[s] = f[s]
      BY <1>7, <1>8, <1>9, <3>1
    <3>3. f[s] = IF i < at THEN "done" ELSE "pending"
      BY <1>9, <2>6 DEF StatusAt
    <3>4. i # at
      BY <2>6
    <3>5. i < at <=> i < n
      BY <2>3, <3>4
    <3> QED
      BY <1>9, <2>1, <2>2, <3>2, <3>3, <3>5
  <2> QED
    BY <2>4, <2>5, <2>6
<1> QED
  BY <1>10, <1>11

\* Past the last call every step of the plan is done.
LEMMA FollowsToEnd ==
    ASSUME NEW d \in Document, NEW p, PlanOK(p, d), NEW at \in Nat, at = Len(p),
           NEW f \in Progress, Follows(f, p, at), NEW h,
           h = IF at > 0 THEN Marked(f, p[at].steps, "done") ELSE f
    PROVE  /\ Stops(Marked(h, {"traffic"}, "done"), p)
           /\ \A i \in 1 .. Len(p) : \A s \in p[i].steps :
                Marked(h, {"traffic"}, "done")[s] = "done"
<1>1. Len(p) \in Nat /\ DOMAIN p = 1 .. Len(p)
  BY InOrder
<1>2. \A i, j \in 1 .. Len(p) : p[i].steps = p[j].steps \/ p[i].steps \cap p[j].steps = {}
  BY StepsApart
<1>3. \A those :
        /\ DOMAIN Marked(f, those, "done") = DOMAIN f
        /\ Marked(f, those, "done") \in Progress
        /\ \A s \in DOMAIN f :
             Marked(f, those, "done")[s] = IF s \in those THEN "done" ELSE f[s]
  BY MarkedIs DEF StepStatus
<1>4. h \in Progress /\ DOMAIN h = DOMAIN f
  BY <1>3
<1> DEFINE g == Marked(h, {"traffic"}, "done")
<1>5. DOMAIN g = DOMAIN f /\ \A s \in DOMAIN f : g[s] = IF s = "traffic" THEN "done" ELSE h[s]
  BY <1>4, MarkedIs DEF StepStatus
<1> HIDE DEF g
<1>6. ASSUME NEW i \in 1 .. Len(p), NEW s \in p[i].steps
      PROVE  g[s] = "done"
  <2>1. at > 0 /\ i <= at /\ at \in 1 .. Len(p)
    BY <1>1
  <2>2. s \in DOMAIN f /\ f[s] = StatusAt(p, i, at)
    BY DEF Follows
  <2>3. h[s] = "done"
    <3>1. h[s] = IF s \in p[at].steps THEN "done" ELSE f[s]
      BY <1>3, <2>1, <2>2
    <3>2. CASE p[i].steps = p[at].steps
      BY <3>1, <3>2
    <3>3. CASE p[i].steps # p[at].steps
      <4>1. i # at /\ i < at
        BY <2>1, <3>3
      <4> QED
        BY <2>2, <3>1, <3>3, <4>1 DEF StatusAt
    <3> QED
      BY <3>2, <3>3
  <2> QED
    BY <1>5, <2>2, <2>3
<1> QED
  BY <1>1, <1>6 DEF Stops, g

\* The step that fails is the only one begun and not done.
LEMMA FailStops ==
    ASSUME NEW d \in Document, NEW p, PlanOK(p, d), NEW at \in 1 .. Len(p),
           NEW f \in Progress, Follows(f, p, at)
    PROVE  Stops(f, p) /\ Stops(Marked(f, p[at].steps, "failed"), p)
<1>1. Len(p) \in Nat /\ DOMAIN p = 1 .. Len(p) /\ at \in 0 .. Len(p) /\ at > 0
  BY InOrder
<1>2. Stops(f, p)
  BY <1>1, FollowsStops
<1> DEFINE g == Marked(f, p[at].steps, "failed")
<1>3. /\ DOMAIN g = DOMAIN f
      /\ \A s \in DOMAIN f : g[s] = IF s \in p[at].steps THEN "failed" ELSE f[s]
  BY MarkedIs DEF StepStatus
<1> HIDE DEF g
<1>4. \A i \in 1 .. Len(p) : \A s \in p[i].steps : s \in DOMAIN f
  BY DEF Follows
<1>5. \A s \in p[at].steps : f[s] = "running"
  BY <1>1 DEF Follows, StatusAt
<1>6. \A i \in 1 .. Len(p) : \A s \in p[i].steps :
        /\ g[s] # "pending" => f[s] # "pending"
        /\ f[s] = "done" => g[s] = "done"
  BY <1>3, <1>4, <1>5
<1>7. Stops(g, p)
  <2> SUFFICES ASSUME NEW i \in 1 .. Len(p), NEW j \in 1 .. Len(p), i < j,
                      p[i].steps # p[j].steps,
                      NEW s \in p[i].steps, NEW t \in p[j].steps, g[t] # "pending"
               PROVE  g[s] = "done"
    BY <1>1 DEF Stops
  <2>1. f[t] # "pending"
    BY <1>6
  <2>2. f[s] = "done"
    BY <1>1, <1>2, <2>1 DEF Stops
  <2> QED
    BY <1>6, <2>2
<1> QED
  BY <1>2, <1>7 DEF g

\* Nothing about the run changes.
LEMMA RunStays ==
    ASSUME RunFollows, StopsAtFirstFailure, run' = run,
           job'["run"].doc = job["run"].doc, job'["run"].at = job["run"].at
    PROVE  (RunFollows /\ StopsAtFirstFailure)'
<1>1. Plan("run")' = Plan("run")
  BY DEF Plan
<1>2. RunFollows'
  BY <1>1 DEF RunFollows, RunningIffTask
<1>3. StopsAtFirstFailure'
  BY DEF StopsAtFirstFailure
<1> QED
  BY <1>2, <1>3

\* The run at work, and its status.
LEMMA AtCall ==
    ASSUME Fields, TypeOK, RunFollows, job["run"].doc # None
    PROVE  LET d == job["run"].doc
               p == PlanOf.scenario[d] IN
           /\ d \in Document /\ d # None /\ PlanOK(p, d) /\ Plan("run") = p
           /\ Len(p) \in Nat /\ DOMAIN p = 1 .. Len(p)
           /\ job["run"].at \in 0 .. Len(p) /\ job["run"].at \in Nat
           /\ run.doc = d /\ run.status = "running" /\ run.steps \in Progress
           /\ DOMAIN run.steps = DeclaredSteps(d)
           /\ Follows(run.steps, p, job["run"].at)
<1> DEFINE d == job["run"].doc
           p == PlanOf.scenario[d]
<1>1. /\ d \in Document /\ PlanOK(p, d) /\ Plan("run") = p
      /\ Len(p) \in Nat /\ DOMAIN p = 1 .. Len(p)
      /\ job["run"].at \in 0 .. Len(p) /\ job["run"].at \in Nat
  BY AtWork, ExecutorIs
<1>2. run.doc = d /\ run.status = "running"
  BY DEF RunFollows, RunningIffTask
<1>3. run.steps \in Progress
  BY RunTyped
<1>4. DOMAIN run.steps = DeclaredSteps(d)
  BY <1>2 DEF RunFollows
<1>5. \A i \in 1 .. Len(p) : \A s \in p[i].steps : run.steps[s] = StatusAt(p, i, job["run"].at)
  BY <1>1 DEF RunFollows
<1>6. \A i \in 1 .. Len(p) : p[i].steps \subseteq DeclaredSteps(d)
  BY <1>1, StepsDeclared
<1> HIDE DEF d, p
<1>7. Follows(run.steps, p, job["run"].at)
  BY <1>4, <1>5, <1>6 DEF Follows
<1> QED
  BY <1>1, <1>2, <1>3, <1>4, <1>7 DEF d, p


\* No step lets the status of a run part from its task.
LEMMA RunStep ==
    TypeOK /\ Fields /\ RunFollows /\ StopsAtFirstFailure /\ [Next]_vars
      => (RunFollows /\ StopsAtFirstFailure)'
<1> SUFFICES ASSUME TypeOK, Fields, RunFollows, StopsAtFirstFailure, [Next]_vars
             PROVE  (RunFollows /\ StopsAtFirstFailure)'
  OBVIOUS
<1>1. ASSUME NEW d \in Document, StartRun(d)
      PROVE  (RunFollows /\ StopsAtFirstFailure)'
  <2>1. /\ job'["run"].doc = d /\ job'["run"].at = 0
        /\ run'.doc = d /\ run'.status = "running"
        /\ run'.steps = [s \in DeclaredSteps(d) |-> "pending"]
    BY <1>1, StartRunEffect
  <2> DEFINE p == PlanOf.scenario[d]
  <2>2. Plan("run")' = p
    BY <2>1 DEF Plan
  <2>3. PlanOK(p, d) /\ d # None
    BY Plans, NamesAssumption
  <2>4. Len(p) \in Nat /\ DOMAIN p = 1 .. Len(p) /\ 0 \in 0 .. Len(p)
    BY <2>3, InOrder
  <2>5. \A i \in 1 .. Len(p) : p[i].steps \subseteq DeclaredSteps(d)
    BY StepsDeclared
  <2> HIDE DEF p
  <2>6. \A i \in 1 .. Len(p) : StatusAt(p, i, 0) = "pending"
    BY <2>4 DEF StatusAt
  <2>7. Follows(run'.steps, p, 0)
    BY <2>1, <2>5, <2>6 DEF Follows
  <2>8. Stops(run'.steps, p)
    BY <2>3, <2>4, <2>7, FollowsStops
  <2>9. RunFollows'
    BY <2>1, <2>2, <2>3, <2>4, <2>7 DEF RunFollows, RunningIffTask, Follows
  <2>10. StopsAtFirstFailure'
    BY <2>1, <2>8 DEF StopsAtFirstFailure, Stops, p
  <2> QED
    BY <2>9, <2>10
<1>2. ASSUME RunBegins \/ RunCallReturns
      PROVE  (RunFollows /\ StopsAtFirstFailure)'
  <2>0. Moved /\ job["run"].doc # None
    BY <1>2, MovesEffect
  <2> DEFINE d == job["run"].doc
             p == PlanOf.scenario[d]
             at == job["run"].at
             f == run.steps
  <2>1. /\ d \in Document /\ d # None /\ PlanOK(p, d) /\ Plan("run") = p
        /\ Len(p) \in Nat /\ DOMAIN p = 1 .. Len(p) /\ at \in 0 .. Len(p) /\ at \in Nat
        /\ run.doc = d /\ run.status = "running" /\ f \in Progress
        /\ DOMAIN f = DeclaredSteps(d) /\ Follows(f, p, at)
    BY <2>0, AtCall
  <2>2. Closed = IF at > 0 /\ (at = Len(p) \/ p[at + 1].steps # p[at].steps)
                 THEN Marked(f, p[at].steps, "done") ELSE f
    BY <2>1 DEF Closed, ClosesStep, Current
  <2>3. /\ run'.doc = d
        /\ \/ /\ at + 1 > Len(p) /\ job'["run"].doc = None /\ run'.status = "completed"
              /\ run'.steps = Marked(Closed, {"traffic"}, "done")
           \/ /\ at + 1 <= Len(p) /\ job'["run"].doc = d
              /\ job'["run"].at = at + 1 /\ run'.status = "running"
              /\ run'.steps = Marked(Closed, p[at + 1].steps, "running")
    <3> HIDE DEF p
    <3> QED
      BY <2>0, <2>1 DEF Moved
  <2>4. Closed \in Progress /\ DOMAIN Closed = DOMAIN f
    <3>1. \A those : /\ Marked(f, those, "done") \in Progress
                     /\ DOMAIN Marked(f, those, "done") = DOMAIN f
      BY <2>1, MarkedIs DEF StepStatus
    <3> HIDE DEF f, p, at, d
    <3> QED
      BY <2>1, <2>2, <3>1
  <2>5. /\ DOMAIN Marked(Closed, {"traffic"}, "done") = DOMAIN f
        /\ \A those : DOMAIN Marked(Closed, those, "running") = DOMAIN f
    BY <2>4, MarkedIs DEF StepStatus
  <2>6. CASE at + 1 > Len(p)
    <3>1. at = Len(p) /\ Closed = IF at > 0 THEN Marked(f, p[at].steps, "done") ELSE f
      BY SMTT(40), <2>1, <2>2, <2>6
    <3> DEFINE g == Marked(Closed, {"traffic"}, "done")
    <3> HIDE DEF d, p, at, f
    <3>2. Stops(g, p)
      BY <2>1, <3>1, FollowsToEnd
    <3>3. /\ job'["run"].doc = None /\ run'.doc = d /\ run'.status = "completed"
          /\ run'.steps = g /\ DOMAIN g = DeclaredSteps(d)
      BY <2>1, <2>3, <2>5, <2>6
    <3> HIDE DEF g
    <3>4. RunFollows'
      BY <2>1, <3>3 DEF RunFollows, RunningIffTask
    <3>5. StopsAtFirstFailure'
      BY <2>1, <3>2, <3>3 DEF StopsAtFirstFailure, Stops, p
    <3> QED
      BY <3>4, <3>5
  <2>7. CASE ~(at + 1 > Len(p))
    <3> DEFINE n == at + 1
               g == Marked(Closed, p[n].steps, "running")
    <3>1. at < Len(p) /\ n \in 0 .. Len(p) /\ n \in Nat
      BY <2>1, <2>7
    <3>2. /\ job'["run"].doc = d /\ job'["run"].at = n /\ run'.doc = d
          /\ run'.status = "running"
          /\ run'.steps = g /\ DOMAIN g = DeclaredSteps(d)
      BY <2>1, <2>3, <2>5, <2>7
    <3>3. Plan("run")' = p
      BY <3>2 DEF Plan
    <3> HIDE DEF d, p, at, f
    <3>4. Follows(g, p, n)
      BY <2>1, <2>2, <3>1, FollowsOn
    <3> HIDE DEF g, n
    <3>5. Stops(g, p)
      BY <2>1, <3>1, <3>4, FollowsStops
    <3>6. RunFollows'
      BY <2>1, <3>2, <3>3, <3>4 DEF RunFollows, RunningIffTask, Follows
    <3>7. StopsAtFirstFailure'
      BY <2>1, <3>2, <3>5, SMTT(40) DEF StopsAtFirstFailure, Stops, p
    <3> QED
      BY <3>6, <3>7
  <2> QED
    BY <2>6, <2>7
<1>3. ASSUME RunCallRefused \/ RunCallBreaks
      PROVE  (RunFollows /\ StopsAtFirstFailure)'
  <2>0. /\ job["run"].doc # None /\ job["run"].at > 0
        /\ job'["run"].doc = None /\ run'.doc = run.doc /\ run'.status = "failed"
        /\ \/ run'.steps = run.steps
           \/ run'.steps = Marked(run.steps, Current("run").steps, "failed")
    BY <1>3, StopsEffect
  <2> DEFINE d == job["run"].doc
             p == PlanOf.scenario[d]
             at == job["run"].at
             f == run.steps
  <2>1. /\ d \in Document /\ d # None /\ PlanOK(p, d) /\ Plan("run") = p
        /\ Len(p) \in Nat /\ DOMAIN p = 1 .. Len(p) /\ at \in 0 .. Len(p) /\ at \in Nat
        /\ run.doc = d /\ f \in Progress /\ DOMAIN f = DeclaredSteps(d) /\ Follows(f, p, at)
    BY <2>0, AtCall
  <2>2. run'.steps = f \/ run'.steps = Marked(f, p[at].steps, "failed")
    BY <2>0, <2>1 DEF Current
  <2>3. at \in 1 .. Len(p)
    BY <2>0, <2>1
  <2>4. job'["run"].doc = None /\ run'.doc = d /\ run'.status = "failed"
    BY <2>0, <2>1
  <2> HIDE DEF d, p, at, f
  <2>5. DOMAIN Marked(f, p[at].steps, "failed") = DOMAIN f
    BY <2>1, MarkedIs DEF StepStatus
  <2>6. Stops(run'.steps, p)
    <3>1. Stops(f, p) /\ Stops(Marked(f, p[at].steps, "failed"), p)
      BY <2>1, <2>3, FailStops
    <3> QED
      BY <2>2, <3>1
  <2>7. DOMAIN run'.steps = DeclaredSteps(d)
    BY <2>1, <2>2, <2>5
  <2>8. RunFollows'
    BY <2>1, <2>4, <2>7 DEF RunFollows, RunningIffTask
  <2>9. StopsAtFirstFailure'
    BY <2>1, <2>4, <2>6 DEF StopsAtFirstFailure, Stops, p
  <2> QED
    BY <2>8, <2>9
<1>4. ASSUME NEW a \in Executor, CallLands(a)
      PROVE  (RunFollows /\ StopsAtFirstFailure)'
  <2>1. run' = run /\ Rest(a) /\ job'[a].doc = job[a].doc /\ job'[a].at = job[a].at
    BY <1>4, LandsEffect
  <2>2. job'["run"].doc = job["run"].doc /\ job'["run"].at = job["run"].at
    BY <2>1, ExecutorIs DEF Rest
  <2> QED
    BY <2>1, <2>2, RunStays
<1>5. ASSUME NEW c \in Client, NEW d \in Document, ApplyProfile(c, d)
      PROVE  (RunFollows /\ StopsAtFirstFailure)'
  <2>1. run' = run /\ Rest(c)
    BY <1>5, ApplyEffect
  <2>2. job'["run"] = job["run"]
    BY <2>1, ExecutorIs DEF Rest
  <2> QED
    BY <2>1, <2>2, RunStays
<1>6. ASSUME NEW c \in Client, ProfileCallReturns(c) \/ ProfileCallFails(c)
      PROVE  (RunFollows /\ StopsAtFirstFailure)'
  <2>1. run' = run /\ Rest(c)
    <3>1. UNCHANGED <<sim, armed, run, alone>>
      BY <1>6, AttemptsEffect
    <3>2. PICK i \in Nat : Attempts(c, i)
      BY <1>6, AttemptsEffect
    <3> QED
      BY <3>1, <3>2 DEF Attempts
  <2>2. job'["run"] = job["run"]
    BY <2>1, ExecutorIs DEF Rest
  <2> QED
    BY <2>1, <2>2, RunStays
<1>7. ASSUME Fire
      PROVE  (RunFollows /\ StopsAtFirstFailure)'
  BY <1>7, RunStays DEF Fire
<1>8. ASSUME Meddle
      PROVE  (RunFollows /\ StopsAtFirstFailure)'
  BY <1>8, RunStays DEF Meddle
<1>9. ASSUME Restart
      PROVE  (RunFollows /\ StopsAtFirstFailure)'
  <2>1. run' = NoRun /\ job'["run"] = NoJob
    BY <1>9, ExecutorIs DEF Restart
  <2> QED
    BY <2>1, NothingTyped DEF RunFollows, RunningIffTask, StopsAtFirstFailure
<1>10. ASSUME UNCHANGED vars PROVE (RunFollows /\ StopsAtFirstFailure)'
  BY <1>10, RunStays DEF vars
<1> QED
  BY <1>1, <1>2, <1>3, <1>4, <1>5, <1>6, <1>7, <1>8, <1>9, <1>10, Acts


-----------------------------------------------------------------------------
(* The reports.                                                              *)

Before(p, n) == {Item(p, k) : k \in 1 .. n - 1}

\* The components before the next one to be attempted.
LEMMA ItemsTill ==
    ASSUME NEW d \in Document, NEW p, PlanOK(p, d), NEW at \in 1 .. Len(p),
           NEW i \in at + 1 .. Len(p) + 1,
           \A j \in at + 1 .. i - 1 : Item(p, j) = Item(p, at)
    PROVE  /\ \A k \in 1 .. i - 1 : k \in 1 .. Len(p) /\ (k < at \/ Item(p, k) = Item(p, at))
           /\ i <= Len(p) /\ Item(p, i) # Item(p, at) =>
                \A k \in 1 .. i - 1 : Item(p, k) # Item(p, i)
           /\ i <= Len(p) /\ Item(p, i) # Item(p, at) =>
                (Before(p, at) \ {Item(p, at)}) \cup {Item(p, at)} = Before(p, i) \ {Item(p, i)}
           /\ i <= Len(p) /\ Item(p, i) = Item(p, at) =>
                Before(p, at) \ {Item(p, at)} = Before(p, i) \ {Item(p, i)}
           /\ i > Len(p) =>
                (Before(p, at) \ {Item(p, at)}) \cup {Item(p, at)} = {Item(p, k) : k \in DOMAIN p}
<1>1. Len(p) \in Nat /\ DOMAIN p = 1 .. Len(p)
  BY InOrder
<1>2. \A k \in 1 .. i - 1 : k \in 1 .. Len(p) /\ (k < at \/ k = at \/ k \in at + 1 .. i - 1)
  BY <1>1
<1>3. \A k \in 1 .. i - 1 : k \in 1 .. Len(p) /\ (k < at \/ Item(p, k) = Item(p, at))
  BY <1>2
<1>4. \A k \in 1 .. at - 1 : k \in 1 .. i - 1
  BY <1>1
<1>5. at \in 1 .. i - 1 /\ i \in Nat /\ i - 1 \in 1 .. Len(p)
  BY <1>1
<1>6. ASSUME i <= Len(p), Item(p, i) # Item(p, at), NEW k \in 1 .. i - 1
      PROVE  Item(p, k) # Item(p, i)
  <2> SUFFICES ASSUME Item(p, k) = Item(p, i) PROVE FALSE
    OBVIOUS
  <2>1. i \in 1 .. Len(p) /\ k \in 1 .. Len(p) /\ i - 1 \in 1 .. Len(p)
    BY <1>1, <1>2, <1>5, <1>6
  <2>2. k <= i - 1 /\ i - 1 <= i
    BY <1>1, <1>5
  <2>3. Item(p, i - 1) = Item(p, i)
    BY <2>1, <2>2, ItemsInOrder
  <2>4. i - 1 = at \/ i - 1 \in at + 1 .. i - 1
    BY <1>1
  <2> QED
    BY <1>6, <2>3, <2>4
<1>7. \A e : e \in Before(p, at) => e \in Before(p, i)
  BY <1>4 DEF Before
<1>8. Item(p, at) \in Before(p, i)
  BY <1>5 DEF Before
<1>9. \A e \in Before(p, i) : e \in Before(p, at) \/ e = Item(p, at)
  <2> SUFFICES ASSUME NEW k \in 1 .. i - 1
               PROVE  Item(p, k) \in Before(p, at) \/ Item(p, k) = Item(p, at)
    BY DEF Before
  <2>1. k < at => k \in 1 .. at - 1
    BY <1>1
  <2> QED
    BY <1>3, <2>1 DEF Before
<1>10. i <= Len(p) /\ Item(p, i) # Item(p, at) => Item(p, i) \notin Before(p, i)
  BY <1>6 DEF Before
<1>11. i > Len(p) => Before(p, i) = {Item(p, k) : k \in DOMAIN p}
  <2>1. i > Len(p) => i - 1 = Len(p)
    BY <1>1
  <2> QED
    BY <1>1, <2>1 DEF Before
<1> QED
  BY <1>3, <1>6, <1>7, <1>8, <1>9, <1>10, <1>11

\* The report of one client.
Attempted(c) ==
    /\ job[c].doc # None =>
         /\ job[c].at > 0 /\ report[c].doc = job[c].doc /\ ~report[c].complete
         /\ report[c].applied \cup report[c].refused =
              {Item(Plan(c), i) : i \in 1 .. job[c].at - 1} \ {ItemOf(c)}
         /\ report[c].applied \cap report[c].refused = {}
    /\ report[c].complete =>
         /\ report[c].doc # None
         /\ report[c].applied \cup report[c].refused = Items(report[c].doc)
         /\ report[c].applied \cap report[c].refused = {}

\* The invariant, client by client.
LEMMA AttemptedIs ==
    ReportFollows /\ EverythingAttempted <=> \A c \in Client : Attempted(c)
BY DEF ReportFollows, EverythingAttempted, Attempted

\* A report nobody touches stays right.
LEMMA AttemptedStays ==
    ASSUME NEW c \in Client, Attempted(c), job'[c].doc = job[c].doc, job'[c].at = job[c].at,
           report'[c] = report[c]
    PROVE  Attempted(c)'
<1>1. Plan(c)' = Plan(c)
  BY DEF Plan
<1>2. ItemOf(c)' = ItemOf(c)
  BY <1>1 DEF ItemOf
<1> QED
  BY <1>1, <1>2 DEF Attempted

\* A report stays right when its application goes on or is answered.
LEMMA AttemptedOn ==
    ASSUME Fields, TypeOK, NEW c \in Client, job[c].doc # None, Attempted(c),
           NEW i \in Nat, Attempts(c, i)
    PROVE  Attempted(c)'
<1> DEFINE d == job[c].doc
           p == Plan(c)
           at == job[c].at
           item == Item(p, at)
           was == report[c]
           is == report'[c]
           ends == i > Len(p) \/ Item(p, i) # item
<1>1. /\ at > 0 /\ was.doc = d /\ ~was.complete
      /\ was.applied \cup was.refused = Before(p, at) \ {item}
      /\ was.applied \cap was.refused = {}
  BY DEF Attempted, Before, ItemOf
<1>2. /\ d \in Document /\ d # None /\ PlanOK(p, d) /\ at \in 1 .. Len(p)
      /\ p = PlanOf.profile[d]
      /\ Len(p) \in Nat /\ DOMAIN p = 1 .. Len(p)
  BY <1>1, AtWork, ExecutorIs
<1>3. /\ i \in at + 1 .. Len(p) + 1
      /\ \A j \in at + 1 .. i - 1 : Item(p, j) = item
      /\ is.doc = was.doc
      /\ \/ i > Len(p) /\ job'[c].doc = None /\ is.complete = TRUE
         \/ /\ i <= Len(p) /\ job'[c].doc = d /\ job'[c].at = i
            /\ is.complete = was.complete
      /\ \/ /\ is.applied = was.applied \cup (IF ends THEN {item} ELSE {})
            /\ is.refused = was.refused
         \/ /\ ends
            /\ is.applied = was.applied
            /\ is.refused = was.refused \cup {item}
  BY DEF Attempts, ItemOf
<1> HIDE DEF d, p, at, was, is
<1>4. /\ i <= Len(p) /\ Item(p, i) # item =>
           (Before(p, at) \ {item}) \cup {item} = Before(p, i) \ {Item(p, i)}
      /\ i <= Len(p) /\ Item(p, i) = item =>
           Before(p, at) \ {item} = Before(p, i) \ {Item(p, i)}
      /\ i > Len(p) => (Before(p, at) \ {item}) \cup {item} = {Item(p, k) : k \in DOMAIN p}
  <2>1. /\ i \in at + 1 .. Len(p) + 1
        /\ \A j \in at + 1 .. i - 1 : Item(p, j) = Item(p, at)
    BY <1>3
  <2>2. d \in Document /\ PlanOK(p, d) /\ at \in 1 .. Len(p)
    BY <1>2
  <2> QED
    BY <2>1, <2>2, ItemsTill
<1> HIDE DEF item
<1>5. /\ ends => is.applied \cup is.refused = (was.applied \cup was.refused) \cup {item}
      /\ ~ends => is.applied \cup is.refused = was.applied \cup was.refused
      /\ is.applied \cap is.refused = {}
  <2>1. item \notin was.applied /\ item \notin was.refused
    BY <1>1
  <2>2. CASE /\ is.applied = was.applied \cup (IF ends THEN {item} ELSE {})
             /\ is.refused = was.refused
    <3>1. CASE ends
      <4>1. is.applied = was.applied \cup {item}
        BY <2>2, <3>1
      <4> QED
        BY <1>1, <2>1, <2>2, <3>1, <4>1
    <3>2. CASE ~ends
      <4>1. is.applied = was.applied
        BY <2>2, <3>2
      <4> QED
        BY <1>1, <2>2, <3>2, <4>1
    <3> QED
      BY <3>1, <3>2
  <2>3. CASE /\ ends
             /\ is.applied = was.applied
             /\ is.refused = was.refused \cup {item}
    BY <1>1, <2>1, <2>3
  <2> QED
    BY <1>3, <2>2, <2>3
<1>6. CASE i > Len(p)
  <2>1. job'[c].doc = None /\ is.complete /\ is.doc = d
    BY <1>1, <1>2, <1>3, <1>6
  <2>2. is.applied \cup is.refused = {Item(p, k) : k \in DOMAIN p}
    BY <1>1, <1>4, <1>5, <1>6
  <2>3. Items(d) = {Item(p, k) : k \in DOMAIN p}
    BY <1>2 DEF Items
  <2> QED
    BY <1>2, <1>5, <2>1, <2>2, <2>3 DEF Attempted, is
<1>7. CASE ~(i > Len(p))
  <2>0. i <= Len(p)
    BY <1>2, <1>7
  <2>1. job'[c].doc = d /\ job'[c].at = i /\ ~is.complete /\ is.doc = d /\ i > 0
    BY <1>1, <1>2, <1>3, <1>7
  <2>2. is.applied \cup is.refused = Before(p, i) \ {Item(p, i)}
    BY <1>1, <1>4, <1>5, <1>7, <2>0
  <2>3. Plan(c)' = p
    BY <2>1 DEF Plan, p, d
  <2>4. ItemOf(c)' = Item(p, i)
    BY <2>1, <2>3 DEF ItemOf
  <2> QED
    BY <1>5, <2>1, <2>2, <2>3, <2>4 DEF Attempted, Before, is
<1> QED
  BY <1>6, <1>7


\* No step leaves a component out of a report, or puts one on both sides.
LEMMA ReportStep ==
    TypeOK /\ Fields /\ ReportFollows /\ EverythingAttempted /\ [Next]_vars
      => (ReportFollows /\ EverythingAttempted)'
<1> SUFFICES ASSUME TypeOK, Fields, ReportFollows, EverythingAttempted, [Next]_vars
             PROVE  (ReportFollows /\ EverythingAttempted)'
  OBVIOUS
<1>a. \A b \in Client : Attempted(b)
  BY AttemptedIs
<1>b. ASSUME \A b \in Client : Attempted(b)' PROVE (ReportFollows /\ EverythingAttempted)'
  <2>1. \A b \in Client : (Attempted(b))'
    BY <1>b
  <2> QED
    BY <2>1 DEF ReportFollows, EverythingAttempted, Attempted
<1>1. ASSUME NEW d \in Document, StartRun(d)
      PROVE  (ReportFollows /\ EverythingAttempted)'
  <2> SUFFICES ASSUME NEW b \in Client PROVE Attempted(b)'
    BY <1>b
  <2>1. Rest("run") /\ report' = report
    BY <1>1, StartRunEffect
  <2>2. job'[b] = job[b]
    BY <2>1, ExecutorIs DEF Rest
  <2> QED
    BY <1>a, <2>1, <2>2, AttemptedStays
<1>2. ASSUME RunBegins \/ RunCallReturns
      PROVE  (ReportFollows /\ EverythingAttempted)'
  <2> SUFFICES ASSUME NEW b \in Client PROVE Attempted(b)'
    BY <1>b
  <2>1. Rest("run") /\ report' = report
    BY <1>2, MovesEffect DEF Moved
  <2>2. job'[b] = job[b]
    BY <2>1, ExecutorIs DEF Rest
  <2> QED
    BY <1>a, <2>1, <2>2, AttemptedStays
<1>3. ASSUME RunCallRefused \/ RunCallBreaks
      PROVE  (ReportFollows /\ EverythingAttempted)'
  <2> SUFFICES ASSUME NEW b \in Client PROVE Attempted(b)'
    BY <1>b
  <2>1. Rest("run") /\ report' = report
    BY <1>3, StopsEffect
  <2>2. job'[b] = job[b]
    BY <2>1, ExecutorIs DEF Rest
  <2> QED
    BY <1>a, <2>1, <2>2, AttemptedStays
<1>4. ASSUME NEW a \in Executor, CallLands(a)
      PROVE  (ReportFollows /\ EverythingAttempted)'
  <2> SUFFICES ASSUME NEW b \in Client PROVE Attempted(b)'
    BY <1>b
  <2>1. report' = report /\ Rest(a) /\ job'[a].doc = job[a].doc /\ job'[a].at = job[a].at
    BY <1>4, LandsEffect
  <2>2. job'[b].doc = job[b].doc /\ job'[b].at = job[b].at
    BY <2>1, ExecutorIs DEF Rest
  <2> QED
    BY <1>a, <2>1, <2>2, AttemptedStays
<1>5. ASSUME NEW c \in Client, NEW d \in Document, ApplyProfile(c, d)
      PROVE  (ReportFollows /\ EverythingAttempted)'
  <2> SUFFICES ASSUME NEW b \in Client PROVE Attempted(b)'
    BY <1>b
  <2>1. /\ Rest(c) /\ job'[c].doc = d /\ job'[c].at = 1
        /\ \A e \in Client : e # c => report'[e] = report[e]
        /\ report'[c].doc = d /\ report'[c].applied = {} /\ report'[c].refused = {}
        /\ report'[c].complete = FALSE
    BY <1>5, ApplyEffect
  <2>2. CASE b # c
    <3>1. job'[b] = job[b] /\ report'[b] = report[b]
      BY <2>1, <2>2, ExecutorIs DEF Rest
    <3> QED
      BY <1>a, <3>1, AttemptedStays
  <2>3. CASE b = c
    <3>1. {Item(Plan(c)', i) : i \in 1 .. job'[c].at - 1} = {}
      BY <2>1
    <3> QED
      BY <2>1, <2>3, <3>1 DEF Attempted
  <2> QED
    BY <2>2, <2>3
<1>6. ASSUME NEW c \in Client, ProfileCallReturns(c) \/ ProfileCallFails(c)
      PROVE  (ReportFollows /\ EverythingAttempted)'
  <2> SUFFICES ASSUME NEW b \in Client PROVE Attempted(b)'
    BY <1>b
  <2>0. PICK i \in Nat : Attempts(c, i)
    BY <1>6, AttemptsEffect
  <2>1. Rest(c) /\ \A e \in Client : e # c => report'[e] = report[e]
    BY <2>0 DEF Attempts
  <2>2. CASE b # c
    <3>1. job'[b] = job[b] /\ report'[b] = report[b]
      BY <2>1, <2>2, ExecutorIs DEF Rest
    <3> QED
      BY <1>a, <3>1, AttemptedStays
  <2>3. job[c].doc # None
    BY <1>6, AttemptsEffect
  <2>4. Attempted(c)'
    BY <1>a, <2>0, <2>3, AttemptedOn
  <2> QED
    BY <2>2, <2>4
<1>7. ASSUME Fire
      PROVE  (ReportFollows /\ EverythingAttempted)'
  <2> SUFFICES ASSUME NEW b \in Client PROVE Attempted(b)'
    BY <1>b
  <2>1. job' = job /\ report' = report
    BY <1>7 DEF Fire
  <2> QED
    BY <1>a, <2>1, AttemptedStays
<1>8. ASSUME Meddle
      PROVE  (ReportFollows /\ EverythingAttempted)'
  <2> SUFFICES ASSUME NEW b \in Client PROVE Attempted(b)'
    BY <1>b
  <2>1. job' = job /\ report' = report
    BY <1>8 DEF Meddle
  <2> QED
    BY <1>a, <2>1, AttemptedStays
<1>9. ASSUME Restart
      PROVE  (ReportFollows /\ EverythingAttempted)'
  <2> SUFFICES ASSUME NEW b \in Client PROVE Attempted(b)'
    BY <1>b
  <2>1. job'[b] = NoJob /\ report'[b] = NoReport
    BY <1>9, ExecutorIs DEF Restart
  <2> QED
    BY <2>1, NothingTyped DEF Attempted
<1>10. ASSUME UNCHANGED vars PROVE (ReportFollows /\ EverythingAttempted)'
  <2> SUFFICES ASSUME NEW b \in Client PROVE Attempted(b)'
    BY <1>b
  <2>1. job' = job /\ report' = report
    BY <1>10 DEF vars
  <2> QED
    BY <1>a, <2>1, AttemptedStays
<1> QED
  BY <1>1, <1>2, <1>3, <1>4, <1>5, <1>6, <1>7, <1>8, <1>9, <1>10, Acts


-----------------------------------------------------------------------------
(* What the calls leave behind.                                              *)

\* Effect and Shown, of a simulator and a scheduler.
EffectIn(x, w, call, d) ==
    /\ call.op = "set_weather" => x.weather = d
    /\ call.op = "apply_setup" => x.setup = d
    /\ call.op = "set_position" => x.place = d
    /\ call.op = "inject_failure" => call.ref \in x.failed
    /\ call.op = "arm_failure" => call.ref \in w \cup x.failed

ShownIn(x, w, d) ==
    /\ Body[d].weather => x.weather = d
    /\ Body[d].position => x.place = d
    /\ Body[d].position \/ Body[d].setup # {} => x.setup = d
    /\ ToSet(Body[d].immediate) \subseteq x.failed
    /\ ToSet(Body[d].armed) \subseteq w \cup x.failed

Carried(a) ==
    job[a].doc # None /\ alone[a] =>
      \A i \in DOMAIN Plan(a) : Took(a, i) => EffectIn(sim, armed, Plan(a)[i], job[a].doc)

Reported(c) ==
    report[c].complete /\ alone[c] =>
      \A i \in DOMAIN PlanOf.profile[report[c].doc] :
        Item(PlanOf.profile[report[c].doc], i) \in report[c].applied =>
          EffectIn(sim, armed, PlanOf.profile[report[c].doc][i], report[c].doc)

\* The invariant, executor by executor.
LEMMA EffectsAre ==
    EffectsStay <=> /\ \A a \in Executor : Carried(a)
                    /\ \A c \in Client : Reported(c)
                    /\ CompletedMeansShown
BY DEF EffectsStay, Carried, Reported, Effect, EffectIn

\* Shown, of the simulator at hand.
LEMMA ShownIs == \A d : Shown(d) <=> ShownIn(sim, armed, d)
BY DEF Shown, ShownIn

\* A plan all of whose calls took effect.
LEMMA AllShown ==
    ASSUME NEW d \in Document, NEW p, PlanOK(p, d), NEW x, NEW w,
           \A i \in 1 .. Len(p) : EffectIn(x, w, p[i], d)
    PROVE  ShownIn(x, w, d)
<1>1. Covers(p, d)
  BY DEF PlanOK
<1>2. Body[d].weather => x.weather = d
  BY <1>1 DEF Covers, EffectIn
<1>3. Body[d].position => x.place = d
  BY <1>1 DEF Covers, EffectIn
<1>4. Body[d].position \/ Body[d].setup # {} => x.setup = d
  BY <1>1 DEF Covers, EffectIn
<1>5. \A f \in ToSet(Body[d].immediate) : f \in x.failed
  BY <1>1 DEF Covers, EffectIn
<1>6. \A f \in ToSet(Body[d].armed) : f \in w \cup x.failed
  BY <1>1 DEF Covers, EffectIn
<1> QED
  BY <1>2, <1>3, <1>4, <1>5, <1>6 DEF ShownIn

\* Nothing is undone.
Kept == /\ sim'.weather = sim.weather /\ sim'.setup = sim.setup /\ sim'.place = sim.place
        /\ sim.failed \subseteq sim'.failed
        /\ armed \cup sim.failed \subseteq armed' \cup sim'.failed

\* What nothing undoes is still there.
LEMMA KeptEffects ==
    ASSUME Kept
    PROVE  /\ \A call, d : EffectIn(sim, armed, call, d) => EffectIn(sim', armed', call, d)
           /\ \A d : ShownIn(sim, armed, d) => ShownIn(sim', armed', d)
BY DEF Kept, EffectIn, ShownIn

\* The calls of a task that waits, by others who undo nothing.
LEMMA CarriedStays ==
    ASSUME NEW a \in Executor, Carried(a), job'[a] = job[a], alone'[a] => alone[a] /\ Kept,
           a # "run" => report'[a] = report[a]
    PROVE  Carried(a)'
<1> SUFFICES ASSUME job'[a].doc # None, alone'[a], NEW i \in DOMAIN Plan(a)', Took(a, i)'
             PROVE  EffectIn(sim', armed', Plan(a)'[i], job'[a].doc)
  BY DEF Carried
<1>1. Plan(a)' = Plan(a)
  BY DEF Plan
<1>2. ItemOf(a)' = ItemOf(a)
  BY <1>1 DEF ItemOf
<1>3. Took(a, i)
  BY <1>1, <1>2 DEF Took
<1>4. EffectIn(sim, armed, Plan(a)[i], job[a].doc)
  BY <1>1, <1>3 DEF Carried
<1> QED
  BY <1>1, <1>4, KeptEffects

\* The same for a report.
LEMMA ReportedStays ==
    ASSUME NEW c \in Client, Reported(c), report'[c] = report[c], alone'[c] => alone[c] /\ Kept
    PROVE  Reported(c)'
<1> SUFFICES ASSUME report'[c].complete, alone'[c],
                    NEW i \in DOMAIN PlanOf.profile[report'[c].doc],
                    Item(PlanOf.profile[report'[c].doc], i) \in report'[c].applied
             PROVE  EffectIn(sim', armed', PlanOf.profile[report'[c].doc][i], report'[c].doc)
  BY DEF Reported
<1>1. EffectIn(sim, armed, PlanOf.profile[report[c].doc][i], report[c].doc)
  BY DEF Reported
<1> QED
  BY <1>1, KeptEffects

\* The same for a completed run.
LEMMA ShownStays ==
    ASSUME CompletedMeansShown, run' = run,
           run.status = "completed" /\ alone'["run"] => alone["run"] /\ Kept
    PROVE  CompletedMeansShown'
<1> SUFFICES ASSUME run'.status = "completed", alone'["run"]
             PROVE  ShownIn(sim', armed', run'.doc)
  BY DEF CompletedMeansShown, Shown, ShownIn
<1>1. ShownIn(sim, armed, run.doc) /\ Kept
  BY ShownIs DEF CompletedMeansShown
<1> QED
  BY <1>1, KeptEffects

\* A step that leaves the simulator and the scheduler alone undoes nothing.
LEMMA KeptIfSame == sim' = sim /\ armed' = armed => Kept
BY DEF Kept

\* A call that lands has its own effect, and undoes none of those before it: the repair
\* of everything comes before the failures.
LEMMA CarriedLands ==
    ASSUME Fields, TypeOK, NEW a \in Executor, CallLands(a), Carried(a)
    PROVE  Carried(a)'
<1>1. /\ job[a].doc # None /\ job[a].at > 0
      /\ job'[a].doc = job[a].doc /\ job'[a].at = job[a].at
      /\ sim' = SimAfter(Current(a), job[a].doc)
      /\ sim \in SimRec
      /\ Current(a).op \in {"inject_failure", "arm_failure"} => Current(a).ref \in Failure
      /\ armed' = IF Current(a).op = "arm_failure" THEN armed \cup {Current(a).ref} ELSE armed
      /\ \A b \in Executor : alone'[b] => alone[b]
      /\ UNCHANGED <<run, report>>
  BY LandsEffect
<1> DEFINE d == job[a].doc
           p == Plan(a)
           at == job[a].at
<1>2. /\ d \in Document /\ PlanOK(p, d) /\ DOMAIN p = 1 .. Len(p) /\ at \in 1 .. Len(p)
      /\ Len(p) \in Nat
  BY <1>1, AtWork
<1>3. Plan(a)' = p /\ ItemOf(a)' = ItemOf(a)
  BY <1>1, SamePlan DEF ItemOf
<1> SUFFICES ASSUME alone'[a], NEW i \in 1 .. Len(p), Took(a, i)'
             PROVE  EffectIn(sim', armed', p[i], d)
  BY <1>1, <1>2, <1>3 DEF Carried
<1> DEFINE call == Current(a)
<1>4. call = p[at]
  BY DEF Current
<1>5. /\ sim'.weather = IF call.op = "set_weather" THEN d ELSE sim.weather
      /\ sim'.setup = IF call.op = "apply_setup" THEN d ELSE sim.setup
      /\ sim'.place = IF call.op = "set_position" THEN d ELSE sim.place
      /\ sim'.failed = IF call.op = "fix_all_systems" THEN {}
                       ELSE IF call.op = "inject_failure" THEN sim.failed \cup {call.ref}
                       ELSE sim.failed
      /\ armed' = IF call.op = "arm_failure" THEN armed \cup {call.ref} ELSE armed
  BY <1>1, <1>2, SimEffect
<1>6. CASE i = at
  BY <1>4, <1>5, <1>6 DEF EffectIn
<1>7. CASE i # at
  <2>1. i < at /\ Took(a, i)
    BY <1>1, <1>3, <1>7 DEF Took
  <2>2. EffectIn(sim, armed, p[i], d)
    BY <1>1, <1>2, <2>1 DEF Carried
  <2>3. call.op = "fix_all_systems" => p[i].op \notin {"inject_failure", "arm_failure"}
    <3>1. \A j \in 1 .. Len(p) : p[j].steps = {"failures"} <=>
            p[j].op \in {"inject_failure", "arm_failure"}
      BY <1>2 DEF PlanOK, Covers
    <3>2. i <= at /\ at <= at
      BY <1>2, <2>1
    <3>3. p[i].steps = {"failures"} => p[at].steps = {"failures"}
      BY <1>2, <3>2, InOrder
    <3> QED
      BY <1>2, <1>4, <3>1, <3>3
  <2> HIDE DEF call, d, p
  <2> QED
    BY <1>5, <2>2, <2>3 DEF EffectIn
<1> QED
  BY <1>6, <1>7

\* All calls of the run so far have been made when it goes on.
LEMMA CarriedOn ==
    ASSUME Fields, TypeOK, RunFollows, Moved, job["run"].doc # None, Carried("run")
    PROVE  Carried("run")' /\ CompletedMeansShown'
<1> DEFINE d == job["run"].doc
           p == PlanOf.scenario[d]
           at == job["run"].at
<1>1. /\ d \in Document /\ PlanOK(p, d) /\ Plan("run") = p
      /\ Len(p) \in Nat /\ DOMAIN p = 1 .. Len(p) /\ at \in 0 .. Len(p) /\ at \in Nat
      /\ run.doc = d /\ run.status = "running"
  BY AtCall
<1>2. /\ at > 0 => job["run"].landed
      /\ run'.doc = d
      /\ \/ at + 1 > Len(p) /\ job'["run"].doc = None
         \/ /\ at + 1 <= Len(p) /\ job'["run"].doc = d /\ job'["run"].at = at + 1
            /\ job'["run"].landed = FALSE /\ run'.status = "running"
      /\ sim' = sim /\ armed' = armed /\ alone' = alone
  <2> HIDE DEF p
  <2> QED
    BY <1>1 DEF Moved
<1> HIDE DEF d, p, at
<1>3. ASSUME alone["run"], NEW k \in 1 .. Len(p), k < at + 1
      PROVE  EffectIn(sim, armed, p[k], d)
  <2>1. k < at \/ (k = at /\ at > 0)
    BY <1>1, <1>3
  <2>2. Took("run", k)
    BY <1>2, <2>1 DEF Took, at
  <2> QED
    BY <1>1, <1>3, <2>2, NamesAssumption DEF Carried, d
<1>4. CASE at + 1 > Len(p) /\ job'["run"].doc = None
  <2>1. Carried("run")'
    BY <1>4 DEF Carried
  <2>2. alone["run"] => ShownIn(sim, armed, d)
    <3> SUFFICES ASSUME alone["run"] PROVE ShownIn(sim, armed, d)
      OBVIOUS
    <3>1. \A k \in 1 .. Len(p) : k < at + 1
      BY <1>1, <1>4
    <3>2. \A k \in 1 .. Len(p) : EffectIn(sim, armed, p[k], d)
      BY <1>3, <3>1
    <3> QED
      BY <1>1, <3>2, AllShown
  <2>3. CompletedMeansShown'
    BY <1>2, <2>2 DEF CompletedMeansShown, Shown, ShownIn
  <2> QED
    BY <2>1, <2>3
<1>5. CASE /\ at + 1 <= Len(p) /\ job'["run"].doc = d /\ job'["run"].at = at + 1
           /\ job'["run"].landed = FALSE /\ run'.status = "running"
  <2>1. CompletedMeansShown'
    BY <1>5 DEF CompletedMeansShown
  <2>2. Plan("run")' = p
    BY <1>5 DEF Plan, p, d
  <2>3. \A k : Took("run", k)' => k < at + 1
    BY <1>5 DEF Took
  <2>4. Carried("run")'
    BY <1>1, <1>2, <1>3, <1>5, <2>2, <2>3 DEF Carried
  <2> QED
    BY <2>1, <2>4
<1> QED
  BY <1>2, <1>4, <1>5

\* What a profile's report says was applied took effect, and so did the calls made for
\* the component at work.
LEMMA CarriedAttempt ==
    ASSUME Fields, TypeOK, NEW c \in Client, job[c].doc # None, Attempted(c), Carried(c),
           NEW i \in Nat, Attempts(c, i), UNCHANGED <<sim, armed, run, alone>>
    PROVE  Carried(c)' /\ Reported(c)'
<1> DEFINE d == job[c].doc
           p == Plan(c)
           at == job[c].at
           item == Item(p, at)
           was == report[c]
           is == report'[c]
           ends == i > Len(p) \/ Item(p, i) # item
<1>1. at > 0 /\ was.doc = d /\ item \notin was.applied /\ ~was.complete
  BY DEF Attempted, ItemOf
<1>2. /\ d \in Document /\ d # None /\ PlanOK(p, d) /\ at \in 1 .. Len(p)
      /\ p = PlanOf.profile[d]
      /\ Len(p) \in Nat /\ DOMAIN p = 1 .. Len(p)
  BY <1>1, AtWork, ExecutorIs, NamesAssumption
<1>3. /\ i \in at + 1 .. Len(p) + 1
      /\ \A j \in at + 1 .. i - 1 : Item(p, j) = Item(p, at)
  BY DEF Attempts, ItemOf
<1>4. /\ is.doc = was.doc
      /\ \/ i > Len(p) /\ job'[c].doc = None /\ is.complete = TRUE
         \/ /\ i <= Len(p) /\ job'[c].doc = d /\ job'[c].at = i
            /\ job'[c].landed = FALSE /\ is.complete = was.complete
  BY DEF Attempts
<1>5. \/ job[c].landed /\ i = at + 1 /\ is.applied \subseteq was.applied \cup {item}
      \/ ends /\ is.applied = was.applied
  <2>1. \/ /\ job[c].landed /\ i = at + 1
           /\ is.applied = was.applied \cup (IF ends THEN {item} ELSE {})
        \/ ends /\ is.applied = was.applied
    BY DEF Attempts, ItemOf
  <2> HIDE DEF ends, is, was, item
  <2> QED
    BY <2>1
<1>6. /\ \A k \in 1 .. i - 1 : k \in 1 .. Len(p) /\ (k < at \/ Item(p, k) = item)
      /\ i <= Len(p) /\ Item(p, i) # item => \A k \in 1 .. i - 1 : Item(p, k) # Item(p, i)
  BY SMTT(40), <1>2, <1>3, ItemsTill
<1>7. \A k : Took(c, k) <=> \/ k = at /\ job[c].landed
                            \/ k < at /\ Item(p, k) \in was.applied \cup {item}
  BY ExecutorIs DEF Took, ItemOf
<1>8. \A k : k < at /\ Item(p, k) \in was.applied \cup {item} => Took(c, k)
  BY <1>7
<1>9. job[c].landed => Took(c, at)
  BY <1>7
<1> HIDE DEF d, p, at, item, was, is
<1>10. ASSUME NEW k \in 1 .. i - 1,
              Item(p, k) \in is.applied \/ (i <= Len(p) /\ Item(p, k) = Item(p, i))
       PROVE  Took(c, k)
  <2>0. k \in Nat /\ i \in Nat /\ at \in Nat
    BY <1>2
  <2>1. CASE job[c].landed /\ i = at + 1 /\ is.applied \subseteq was.applied \cup {item}
    <3>1. Item(p, k) \in was.applied \cup {item}
      <4>1. CASE i <= Len(p) /\ Item(p, k) = Item(p, i)
        <5>1. Item(p, i) = item
          BY <1>6, <4>1
        <5> QED
          BY <4>1, <5>1
      <4>2. CASE Item(p, k) \in is.applied
        BY <2>1, <4>2
      <4> QED
        BY <1>10, <4>1, <4>2
    <3>2. k < at \/ k = at
      BY <2>0, <2>1
    <3> QED
      BY <1>8, <1>9, <2>1, <3>1, <3>2
  <2>2. CASE ends /\ is.applied = was.applied
    <3>1. Item(p, k) \in was.applied
      BY <1>6, <1>10, <2>2, <1>2, <2>0
    <3>2. k < at
      BY <1>1, <1>6, <3>1
    <3> QED
      BY <1>8, <3>1, <3>2
  <2> QED
    BY <1>5, <2>1, <2>2
<1>11. alone[c] => \A k \in 1 .. Len(p) : Took(c, k) => EffectIn(sim, armed, p[k], d)
  BY <1>2, ExecutorIs DEF Carried, d, p
<1>12. CASE i > Len(p) /\ job'[c].doc = None /\ is.complete = TRUE
  <2>1. Carried(c)'
    BY <1>12 DEF Carried
  <2>2. \A k \in 1 .. Len(p) : k \in 1 .. i - 1
    BY <1>2, <1>12
  <2>3. alone[c] =>
          \A k \in 1 .. Len(p) : Item(p, k) \in is.applied => EffectIn(sim, armed, p[k], d)
    BY <1>10, <1>11, <2>2
  <2>4. Reported(c)'
    BY <1>1, <1>2, <1>4, <2>3 DEF Reported, is
  <2> QED
    BY <2>1, <2>4
<1>13. CASE /\ i <= Len(p) /\ job'[c].doc = d /\ job'[c].at = i
            /\ job'[c].landed = FALSE /\ is.complete = was.complete
  <2>1. Reported(c)'
    BY <1>1, <1>13 DEF Reported, is
  <2>2. Plan(c)' = p
    BY <1>13 DEF Plan, p, d
  <2>3. ItemOf(c)' = Item(p, i)
    BY <1>13, <2>2 DEF ItemOf
  <2>4. ASSUME NEW k \in 1 .. Len(p), Took(c, k)'
        PROVE  Took(c, k)
    <3>1. k < i /\ Item(p, k) \in is.applied \cup {Item(p, i)}
      BY <1>13, <2>2, <2>3, <2>4, ExecutorIs DEF Took, is
    <3>2. k \in 1 .. i - 1
      BY <1>2, <3>1
    <3> QED
      BY <1>10, <1>13, <3>1, <3>2
  <2>5. Carried(c)'
    <3> SUFFICES ASSUME alone'[c], NEW k \in 1 .. Len(p), Took(c, k)'
                 PROVE  EffectIn(sim', armed', p[k], d)
      BY <1>2, <1>13, <2>2 DEF Carried
    <3> QED
      BY <1>11, <2>4
  <2> QED
    BY <2>1, <2>5
<1> QED
  BY <1>4, <1>12, <1>13


\* Whoever is still alone has had nothing undone.
Unharmed(b) == alone'[b] => alone[b] /\ Kept

\* The calls of the others are still in effect ...
LEMMA OthersCarry ==
    ASSUME \A b \in Executor : Carried(b), NEW a \in Executor, Rest(a),
           \A b \in Executor : b # a => Unharmed(b),
           \A b \in Client : b # a => report'[b] = report[b]
    PROVE  \A b \in Executor : b # a => Carried(b)'
<1> SUFFICES ASSUME NEW b \in Executor, b # a PROVE Carried(b)'
  OBVIOUS
<1>1. job'[b] = job[b] /\ (b # "run" => report'[b] = report[b])
  BY ExecutorIs DEF Rest
<1> QED
  BY <1>1, CarriedStays DEF Unharmed

\* ... and so is what their reports say ...
LEMMA OthersReport ==
    ASSUME \A b \in Client : Reported(b), NEW a \in Executor,
           \A b \in Executor : b # a => Unharmed(b),
           \A b \in Client : b # a => report'[b] = report[b]
    PROVE  \A b \in Client : b # a => Reported(b)'
BY ReportedStays, ExecutorIs DEF Unharmed

\* ... and everything, when no task moves.
LEMMA AllStay ==
    ASSUME EffectsStay, job' = job, run' = run, report' = report,
           \A b \in Executor : Unharmed(b)
    PROVE  EffectsStay'
<1>a. /\ \A b \in Executor : Carried(b)
      /\ \A b \in Client : Reported(b)
      /\ CompletedMeansShown
  BY EffectsAre
<1>1. \A b \in Executor : Carried(b)'
  BY <1>a, CarriedStays DEF Unharmed
<1>2. \A b \in Client : Reported(b)'
  BY <1>a, ReportedStays, ExecutorIs DEF Unharmed
<1>3. CompletedMeansShown'
  BY <1>a, ShownStays, ExecutorIs DEF Unharmed
<1>4. (\A b \in Executor : Carried(b))' /\ (\A b \in Client : Reported(b))'
  BY <1>1, <1>2
<1> QED
  BY <1>3, <1>4 DEF EffectsStay, Carried, Reported, Effect, EffectIn


\* No step undoes what is reported as done, unless somebody else acted.
LEMMA EffectStep ==
    TypeOK /\ Fields /\ RunFollows /\ ReportFollows /\ EverythingAttempted /\ EffectsStay
      /\ [Next]_vars
      => EffectsStay'
<1> SUFFICES ASSUME TypeOK, Fields, RunFollows, ReportFollows, EverythingAttempted,
                    EffectsStay, [Next]_vars
             PROVE  EffectsStay'
  OBVIOUS
<1>a. /\ \A b \in Executor : Carried(b)
      /\ \A b \in Client : Reported(b) /\ Attempted(b)
      /\ CompletedMeansShown
  BY EffectsAre, AttemptedIs
<1>b. ASSUME \A b \in Executor : Carried(b)', \A b \in Client : Reported(b)',
             CompletedMeansShown'
      PROVE  EffectsStay'
  <2>1. (\A b \in Executor : Carried(b))' /\ (\A b \in Client : Reported(b))'
    BY <1>b
  <2> QED
    BY <1>b, <2>1 DEF EffectsStay, Carried, Reported, Effect, EffectIn
<1>1. ASSUME NEW d \in Document, StartRun(d)
      PROVE  EffectsStay'
  <2>0. "run" \in Executor /\ \A b \in Client : b # "run" /\ b \in Executor
    BY ExecutorIs
  <2>1. /\ Rest("run") /\ job'["run"].at = 0 /\ job'["run"].landed = FALSE
        /\ run'.status = "running"
        /\ \A b \in Executor : b # "run" => alone'[b] = alone[b]
        /\ sim' = sim /\ armed' = armed /\ report' = report
    BY <1>1, StartRunEffect
  <2>2. Kept /\ \A b \in Executor : b # "run" => Unharmed(b)
    BY <2>1, KeptIfSame DEF Unharmed
  <2>3. \A b \in Executor : b # "run" => Carried(b)'
    BY <1>a, <2>0, <2>1, <2>2, OthersCarry
  <2>4. \A b \in Client : b # "run" => Reported(b)'
    BY <1>a, <2>0, <2>1, <2>2, OthersReport
  <2>5. Carried("run")'
    <3>1. \A k : Took("run", k)' => k < 0 \/ FALSE
      BY <2>1 DEF Took
    <3>2. job'["run"].doc # None => DOMAIN Plan("run")' \subseteq Nat
      <4>1. job'["run"].doc = d
        BY <1>1, StartRunEffect
      <4>2. Plan("run")' = PlanOf.scenario[d]
        BY <4>1 DEF Plan
      <4>3. /\ Len(PlanOf.scenario[d]) \in Nat
            /\ DOMAIN PlanOf.scenario[d] = 1 .. Len(PlanOf.scenario[d])
        BY Plans, InOrder
      <4> QED
        BY <4>2, <4>3
    <3> QED
      BY <3>1, <3>2 DEF Carried
  <2>6. CompletedMeansShown'
    BY <2>1 DEF CompletedMeansShown
  <2> QED
    BY <1>b, <2>0, <2>3, <2>4, <2>5, <2>6
<1>2. ASSUME RunBegins \/ RunCallReturns
      PROVE  EffectsStay'
  <2>0. "run" \in Executor /\ \A b \in Client : b # "run" /\ b \in Executor
    BY ExecutorIs
  <2>a. Moved /\ job["run"].doc # None
    BY <1>2, MovesEffect
  <2>1. Rest("run") /\ sim' = sim /\ armed' = armed /\ report' = report /\ alone' = alone
    BY <2>a DEF Moved
  <2>2. Kept /\ \A b \in Executor : b # "run" => Unharmed(b)
    BY <2>1, KeptIfSame DEF Unharmed
  <2>3. \A b \in Executor : b # "run" => Carried(b)'
    BY <1>a, <2>0, <2>1, <2>2, OthersCarry
  <2>4. \A b \in Client : b # "run" => Reported(b)'
    BY <1>a, <2>0, <2>1, <2>2, OthersReport
  <2>5. Carried("run")' /\ CompletedMeansShown'
    BY <1>a, <2>0, <2>a, CarriedOn
  <2> QED
    BY <1>b, <2>0, <2>3, <2>4, <2>5
<1>3. ASSUME RunCallRefused \/ RunCallBreaks
      PROVE  EffectsStay'
  <2>0. "run" \in Executor /\ \A b \in Client : b # "run" /\ b \in Executor
    BY ExecutorIs
  <2>1. /\ Rest("run") /\ job'["run"].doc = None /\ run'.status = "failed"
        /\ sim' = sim /\ armed' = armed /\ report' = report /\ alone' = alone
    BY <1>3, StopsEffect
  <2>2. Kept /\ \A b \in Executor : b # "run" => Unharmed(b)
    BY <2>1, KeptIfSame DEF Unharmed
  <2>3. \A b \in Executor : b # "run" => Carried(b)'
    BY <1>a, <2>0, <2>1, <2>2, OthersCarry
  <2>4. \A b \in Client : b # "run" => Reported(b)'
    BY <1>a, <2>0, <2>1, <2>2, OthersReport
  <2>5. Carried("run")' /\ CompletedMeansShown'
    BY <2>1 DEF Carried, CompletedMeansShown
  <2> QED
    BY <1>b, <2>0, <2>3, <2>4, <2>5
<1>4. ASSUME NEW a \in Executor, CallLands(a)
      PROVE  EffectsStay'
  <2>0. a \in Executor
    OBVIOUS
  <2>1. /\ job[a].doc # None /\ Rest(a) /\ (\A b \in Executor : alone'[b] => alone[b])
        /\ report' = report /\ run' = run
    BY <1>4, LandsEffect
  <2>2. \A b \in Executor : b # a => Unharmed(b)
    <3>1. (\A b \in Executor : b # a => ~alone'[b]) \/ (sim' = sim /\ armed' = armed)
      BY <1>4, LandsEffect
    <3> QED
      BY <2>1, <3>1, KeptIfSame DEF Unharmed
  <2>3. \A b \in Executor : b # a => Carried(b)'
    BY <1>a, <2>0, <2>1, <2>2, OthersCarry
  <2>4. \A b \in Client : Reported(b)'
    <3> SUFFICES ASSUME NEW b \in Client PROVE Reported(b)'
      OBVIOUS
    <3>1. CASE b = a
      <4>1. ~report[b].complete
        BY <1>a, <2>1, <3>1 DEF Attempted
      <4> QED
        BY <2>1, <4>1 DEF Reported
    <3>2. CASE b # a
      <4>1. alone'[b] => alone[b] /\ Kept
        BY <2>2, <3>2, ExecutorIs DEF Unharmed
      <4> QED
        BY <1>a, <2>1, <4>1, ReportedStays
    <3> QED
      BY <3>1, <3>2
  <2>5. Carried(a)'
    BY <1>a, <1>4, CarriedLands
  <2>6. CompletedMeansShown'
    <3>1. a = "run" => run.status = "running"
      BY <2>1 DEF RunFollows, RunningIffTask
    <3>2. run.status = "completed" /\ alone'["run"] => alone["run"] /\ Kept
      BY <2>2, <3>1, ExecutorIs DEF Unharmed
    <3> QED
      BY <1>a, <2>1, <3>2, ShownStays
  <2> QED
    BY <1>b, <2>3, <2>4, <2>5, <2>6
<1>5. ASSUME NEW c \in Client, NEW d \in Document, ApplyProfile(c, d)
      PROVE  EffectsStay'
  <2>0. c \in Executor
    BY ExecutorIs
  <2>1. /\ Rest(c) /\ job'[c].at = 1 /\ job'[c].landed = FALSE /\ report'[c].complete = FALSE
        /\ job'[c].doc = d
        /\ (\A b \in Executor : b # c => alone'[b] = alone[b])
        /\ (\A b \in Client : b # c => report'[b] = report[b])
        /\ sim' = sim /\ armed' = armed /\ run' = run
    BY <1>5, ApplyEffect
  <2>2. Kept /\ \A b \in Executor : b # c => Unharmed(b)
    BY <2>1, KeptIfSame DEF Unharmed
  <2>3. \A b \in Executor : b # c => Carried(b)'
    BY <1>a, <2>0, <2>1, <2>2, OthersCarry
  <2>4. \A b \in Client : b # c => Reported(b)'
    BY <1>a, <2>0, <2>1, <2>2, OthersReport
  <2>5. Carried(c)'
    <3>1. \A k : Took(c, k)' => k < 1
      BY <2>1 DEF Took
    <3>2. Plan(c)' = PlanOf.profile[d]
      BY <2>1, ExecutorIs DEF Plan
    <3>3. /\ Len(PlanOf.profile[d]) \in Nat
          /\ DOMAIN PlanOf.profile[d] = 1 .. Len(PlanOf.profile[d])
      BY Plans, InOrder
    <3>4. \A k \in DOMAIN Plan(c)' : ~(k < 1)
      BY <3>2, <3>3
    <3> QED
      BY <3>1, <3>4 DEF Carried
  <2>6. Reported(c)'
    BY <2>1 DEF Reported
  <2>7. CompletedMeansShown'
    <3>1. alone'["run"] = alone["run"]
      BY <2>1, ExecutorIs
    <3> QED
      BY <1>a, <2>1, <2>2, <3>1, ShownStays
  <2> QED
    BY <1>b, <2>3, <2>4, <2>5, <2>6, <2>7
<1>6. ASSUME NEW c \in Client, ProfileCallReturns(c) \/ ProfileCallFails(c)
      PROVE  EffectsStay'
  <2>0. c \in Executor
    BY ExecutorIs
  <2>a. job[c].doc # None /\ UNCHANGED <<sim, armed, run, alone>>
    BY <1>6, AttemptsEffect
  <2>b. PICK i \in Nat : Attempts(c, i)
    BY <1>6, AttemptsEffect
  <2>1. /\ Rest(c) /\ (\A b \in Client : b # c => report'[b] = report[b])
        /\ sim' = sim /\ armed' = armed /\ run' = run /\ alone' = alone
    BY <2>a, <2>b DEF Attempts
  <2>2. Kept /\ \A b \in Executor : b # c => Unharmed(b)
    BY <2>1, KeptIfSame DEF Unharmed
  <2>3. \A b \in Executor : b # c => Carried(b)'
    BY <1>a, <2>0, <2>1, <2>2, OthersCarry
  <2>4. \A b \in Client : b # c => Reported(b)'
    BY <1>a, <2>0, <2>1, <2>2, OthersReport
  <2>5. Carried(c)' /\ Reported(c)'
    <3>1. Attempted(c) /\ Carried(c)
      BY <1>a, ExecutorIs
    <3> QED
      BY <2>a, <2>b, <3>1, CarriedAttempt
  <2>6. CompletedMeansShown'
    BY <1>a, <2>1, <2>2, ShownStays
  <2> QED
    BY <1>b, <2>3, <2>4, <2>5, <2>6
<1>7. ASSUME Fire
      PROVE  EffectsStay'
  <2>1. job' = job /\ run' = run /\ report' = report /\ alone' = alone
    BY <1>7 DEF Fire
  <2>2. Kept
    <3>1. PICK f \in armed : armed' = armed \ {f} /\ sim' = [sim EXCEPT !.failed = @ \cup {f}]
      BY <1>7 DEF Fire
    <3>2. sim \in SimRec
      BY RunTyped
    <3> QED
      BY <3>1, <3>2 DEF Kept, SimRec
  <2> QED
    BY <2>1, <2>2, AllStay DEF Unharmed
<1>8. ASSUME Meddle
      PROVE  EffectsStay'
  <2>1. job' = job /\ run' = run /\ report' = report /\ alone' = [b \in Executor |-> FALSE]
    BY <1>8 DEF Meddle
  <2>2. \A b \in Executor : ~alone'[b]
    BY <2>1
  <2> QED
    BY <2>1, <2>2, AllStay DEF Unharmed
<1>9. ASSUME Restart
      PROVE  EffectsStay'
  <2>1. /\ job' = [b \in Executor |-> NoJob] /\ run' = NoRun
        /\ report' = [b \in Client |-> NoReport]
    BY <1>9 DEF Restart
  <2>3. \A b \in Executor : Carried(b)'
    BY <2>1, NothingTyped DEF Carried
  <2>4. \A b \in Client : Reported(b)'
    BY <2>1, NothingTyped DEF Reported
  <2>5. CompletedMeansShown'
    BY <2>1, NothingTyped DEF CompletedMeansShown
  <2> QED
    BY <1>b, <2>3, <2>4, <2>5
<1>10. ASSUME UNCHANGED vars PROVE EffectsStay'
  <2>1. /\ job' = job /\ run' = run /\ report' = report /\ alone' = alone /\ sim' = sim
        /\ armed' = armed
    BY <1>10 DEF vars
  <2>2. Kept
    BY <2>1, KeptIfSame
  <2> QED
    BY <2>1, <2>2, AllStay DEF Unharmed
<1> QED
  BY <1>1, <1>2, <1>3, <1>4, <1>5, <1>6, <1>7, <1>8, <1>9, <1>10, Acts


-----------------------------------------------------------------------------
(* The theorems.                                                             *)

\* The invariant holds when the server starts ...
LEMMA InvInit == Init => Inv
<1> SUFFICES ASSUME Init PROVE Inv
  OBVIOUS
<1>1. /\ sim = [weather |-> None, setup |-> None, place |-> None, failed |-> {}]
      /\ armed = {} /\ run = NoRun
      /\ job = [a \in Executor |-> NoJob] /\ report = [c \in Client |-> NoReport]
      /\ alone = [a \in Executor |-> FALSE]
  BY DEF Init
<1>2. job \in [Executor -> Job] /\ report \in [Client -> Report] /\ run \in Run
  BY <1>1, NothingTyped
<1>3. \A a \in Executor : job[a].doc = None
  BY <1>1, NothingTyped
<1>4. \A c \in Client : report[c].complete = FALSE /\ c \in Executor
  BY <1>1, NothingTyped, ExecutorIs
<1>5. run.doc = None /\ run.status = "none" /\ run.errors = {}
  BY <1>1, NothingTyped
<1>6. Fields
  BY <1>1, <1>2 DEF Fields
<1>7. TypeOK
  <2>1. sim \in [weather : Document \cup {None}, setup : Document \cup {None},
              place : Document \cup {None}, failed : SUBSET Failure]
    BY <1>1
  <2>2. run.steps = [s \in {} |-> "pending"]
    BY <1>1 DEF NoRun
  <2>3. DOMAIN run.steps \subseteq Step /\ ToSet(run.steps) \subseteq StepStatus
    BY <2>2 DEF ToSet
  <2> QED
    BY <1>1, <1>3, <1>5, <2>1, <2>3 DEF TypeOK
<1>8. RunFollows /\ StopsAtFirstFailure
  BY <1>3, <1>5, ExecutorIs DEF RunFollows, RunningIffTask, StopsAtFirstFailure
<1>9. ReportFollows /\ EverythingAttempted
  BY <1>3, <1>4 DEF ReportFollows, EverythingAttempted
<1>10. EffectsStay
  BY <1>3, <1>4, <1>5 DEF EffectsStay, CompletedMeansShown
<1> QED
  BY <1>6, <1>7, <1>8, <1>9, <1>10 DEF Inv

\* ... every step keeps it ...
LEMMA InvStep == Inv /\ [Next]_vars => Inv'
<1> SUFFICES ASSUME Inv, [Next]_vars PROVE Inv'
  OBVIOUS
<1>1. /\ TypeOK /\ Fields /\ RunFollows /\ StopsAtFirstFailure
      /\ ReportFollows /\ EverythingAttempted /\ EffectsStay
  BY DEF Inv
<1>2. (TypeOK /\ Fields)'
  BY <1>1, TypeStep
<1>3. (RunFollows /\ StopsAtFirstFailure)'
  BY <1>1, RunStep
<1>4. (ReportFollows /\ EverythingAttempted)'
  BY <1>1, ReportStep
<1>5. EffectsStay'
  BY <1>1, EffectStep
<1> QED
  BY <1>2, <1>3, <1>4, <1>5 DEF Inv

\* ... so it always holds.
LEMMA InvHolds == Spec => []Inv
<1>1. Spec => Init /\ [][Next]_vars
  BY DEF Spec
<1> QED
  BY <1>1, InvInit, InvStep, PTL

\* The simulator, the scheduler and the engine's records hold what the code gives them,
\* and no task is past the end of its plan.
THEOREM TypeCorrect == Spec => []TypeOK
<1>1. Inv => TypeOK
  BY DEF Inv
<1> QED
  BY <1>1, InvHolds, PTL

\* What a poll shows of a run is how far its task has come: no step is begun before the
\* ones ahead of it are done, and the status says running exactly while a task is at work
\* (server/scenario_engine.py, _execute).
THEOREM StatusFollows == Spec => []StatusFollowsTask
<1>1. Inv => StatusFollowsTask
  BY DEF Inv, StatusFollowsTask, RunFollows
<1> QED
  BY <1>1, InvHolds, PTL

\* What the invariant says of the calls made, said of the components applied.
LEMMA AppliedShown == Inv => AppliedIsShown
<1> SUFFICES ASSUME Inv, NEW c \in Client, report[c].complete, alone[c]
             PROVE  LET d == report[c].doc
                        plan == PlanOf.profile[d] IN
                    /\ <<"weather", 0>> \in report[c].applied => sim.weather = d
                    /\ <<"position", 0>> \in report[c].applied =>
                         sim.setup = d /\ (Body[d].position => sim.place = d)
                    /\ \A i \in DOMAIN plan :
                         <<"failures", i>> \in report[c].applied =>
                           plan[i].ref \in sim.failed \cup armed
  BY DEF AppliedIsShown
<1> DEFINE d == report[c].doc
           p == PlanOf.profile[d]
           done == report[c].applied
<1>1. /\ Reported(c) /\ d # None /\ done \subseteq Items(d)
  BY EffectsAre DEF Inv, ReportFollows, EverythingAttempted
<1>2. d \in Document
  BY <1>1 DEF Inv, Fields, Report
<1>3. PlanOK(p, d) /\ DOMAIN p = 1 .. Len(p) /\ Len(p) \in Nat
  BY <1>2, Plans, InOrder
<1>4. \A i \in 1 .. Len(p) : Item(p, i) \in done => EffectIn(sim, armed, p[i], d)
  BY <1>1, <1>3 DEF Reported
<1>5. \A e \in done : \E i \in 1 .. Len(p) : e = Item(p, i)
  BY <1>1, <1>3 DEF Items
<1>6. /\ \A i \in 1 .. Len(p) : /\ p[i].steps \in {{"weather"}, Placed(d), {"failures"}}
                                /\ p[i].steps = {"failures"} <=>
                                     p[i].op \in {"inject_failure", "arm_failure"}
                                /\ p[i].steps = {"weather"} => Body[d].weather
      /\ Body[d].weather =>
           \E i \in 1 .. Len(p) : p[i].op = "set_weather" /\ p[i].steps = {"weather"}
      /\ Body[d].position \/ Body[d].setup # {} \/ (\E i \in 1 .. Len(p) : p[i].steps = Placed(d))
           => \E i \in 1 .. Len(p) : p[i].op = "apply_setup" /\ p[i].steps = Placed(d)
      /\ Body[d].position =>
           \E i \in 1 .. Len(p) : p[i].op = "set_position" /\ p[i].steps = Placed(d)
  BY <1>3 DEF PlanOK, Covers
<1>7. Placed(d) # {"weather"} /\ Placed(d) # {"failures"} /\ {"weather"} # {"failures"}
  BY <1>2, Blocks
<1> HIDE DEF d, p, done
<1>8. \A k \in 1 .. Len(p) : /\ p[k].steps = {"failures"} => Item(p, k) = <<"failures", k>>
                             /\ p[k].steps = {"weather"} => Item(p, k) = <<"weather", 0>>
                             /\ p[k].steps = Placed(d) => Item(p, k) = <<"position", 0>>
  BY <1>7 DEF Item
<1>9. ASSUME <<"weather", 0>> \in done
      PROVE  sim.weather = d
  <2>1. PICK i \in 1 .. Len(p) : <<"weather", 0>> = Item(p, i)
    BY <1>5, <1>9
  <2>2. p[i].steps = {"weather"}
    <3>1. <<"weather", 0>> # <<"failures", i>> /\ <<"weather", 0>> # <<"position", 0>>
      OBVIOUS
    <3> QED
      BY <1>6, <1>8, <2>1, <3>1
  <2>3. PICK k \in 1 .. Len(p) : p[k].op = "set_weather" /\ p[k].steps = {"weather"}
    BY <1>6, <2>2
  <2>4. EffectIn(sim, armed, p[k], d)
    BY <1>4, <1>8, <1>9, <2>3
  <2> QED
    BY <2>3, <2>4 DEF EffectIn
<1>10. ASSUME <<"position", 0>> \in done
       PROVE  sim.setup = d /\ (Body[d].position => sim.place = d)
  <2>1. PICK i \in 1 .. Len(p) : <<"position", 0>> = Item(p, i)
    BY <1>5, <1>10
  <2>2. p[i].steps = Placed(d)
    <3>1. <<"position", 0>> # <<"failures", i>> /\ <<"weather", 0>> # <<"position", 0>>
      OBVIOUS
    <3> QED
      BY <1>6, <1>8, <2>1, <3>1
  <2>3. PICK k \in 1 .. Len(p) : p[k].op = "apply_setup" /\ p[k].steps = Placed(d)
    BY <1>6, <2>2
  <2>4. sim.setup = d
    <3>1. EffectIn(sim, armed, p[k], d)
      BY <1>4, <1>8, <1>10, <2>3
    <3> QED
      BY <2>3, <3>1 DEF EffectIn
  <2>5. ASSUME Body[d].position PROVE sim.place = d
    <3>1. PICK j \in 1 .. Len(p) : p[j].op = "set_position" /\ p[j].steps = Placed(d)
      BY <1>6, <2>5
    <3>2. EffectIn(sim, armed, p[j], d)
      BY <1>4, <1>8, <1>10, <3>1
    <3> QED
      BY <3>1, <3>2 DEF EffectIn
  <2> QED
    BY <2>4, <2>5
<1>11. ASSUME NEW i \in 1 .. Len(p), <<"failures", i>> \in done
       PROVE  p[i].ref \in sim.failed \cup armed
  <2>1. PICK k \in 1 .. Len(p) : <<"failures", i>> = Item(p, k)
    BY <1>5, <1>11
  <2>2. p[k].steps = {"failures"} /\ Item(p, k) = <<"failures", k>>
    <3>1. <<"weather", 0>> # <<"failures", i>> /\ <<"failures", i>> # <<"position", 0>>
      OBVIOUS
    <3> QED
      BY <1>6, <1>8, <2>1, <3>1
  <2>3. <<"failures", i>> = <<"failures", k>>
    BY <2>1, <2>2
  <2>4. i = k
    BY <2>3
  <2>5. EffectIn(sim, armed, p[i], d)
    BY <1>4, <1>11, <2>1, <2>4
  <2>6. p[i].op \in {"inject_failure", "arm_failure"}
    BY <1>6, <2>2, <2>4
  <2> QED
    BY <2>5, <2>6 DEF EffectIn
<1> QED
  BY <1>3, <1>9, <1>10, <1>11 DEF d, p, done

\* What is reported as done is what the simulator shows: the components a profile's report
\* calls applied, all of them attempted, and every step of a completed run
\* (server/profile_routes.py, server/scenario_engine.py).
THEOREM ReportsTrue == Spec => []ReportIsTrue
<1>1. Inv => ReportIsTrue
  BY AppliedShown DEF Inv, ReportIsTrue, EffectsStay
<1> QED
  BY <1>1, InvHolds, PTL


\* A step that is done stays so when the run goes on.
LEMMA DoneOn ==
    ASSUME Fields, TypeOK, RunFollows, Moved, job["run"].doc # None
    PROVE  /\ run'.doc = run.doc
           /\ \A s \in DOMAIN run.steps : run.steps[s] = "done" => run'.steps[s] = "done"
<1> DEFINE d == job["run"].doc
           p == PlanOf.scenario[d]
           at == job["run"].at
           f == run.steps
<1>1. /\ d \in Document /\ PlanOK(p, d) /\ Plan("run") = p /\ Len(p) \in Nat
      /\ at \in 0 .. Len(p) /\ at \in Nat /\ f \in Progress /\ Follows(f, p, at)
  BY AtCall
<1>2. /\ run'.doc = run.doc
      /\ \/ run'.steps = Marked(Closed, {"traffic"}, "done")
         \/ at + 1 <= Len(p) /\ run'.steps = Marked(Closed, p[at + 1].steps, "running")
  <2> HIDE DEF p
  <2> QED
    BY <1>1 DEF Moved
<1>3. Closed = Marked(f, Current("run").steps, "done") \/ Closed = f
  BY DEF Closed
<1> HIDE DEF d, p, at, f
<1>4. /\ Closed \in Progress /\ DOMAIN Closed = DOMAIN f
      /\ \A s \in DOMAIN f : f[s] = "done" => Closed[s] = "done"
  <2> DEFINE g == Marked(f, Current("run").steps, "done")
  <2>1. g \in Progress /\ DOMAIN g = DOMAIN f /\ \A s \in DOMAIN f :
          f[s] = "done" => g[s] = "done"
    BY <1>1, MarkedIs DEF StepStatus
  <2> HIDE DEF g
  <2>2. Closed = g \/ Closed = f
    BY <1>3 DEF g
  <2> QED
    BY <1>1, <2>1, <2>2
<1> SUFFICES ASSUME NEW s \in DOMAIN f, f[s] = "done" PROVE run'.steps[s] = "done"
  BY <1>2 DEF f
<1>5. s \in DOMAIN Closed /\ Closed[s] = "done"
  BY <1>4
<1>6. CASE run'.steps = Marked(Closed, {"traffic"}, "done")
  <2>1. Marked(Closed, {"traffic"}, "done")[s] = "done"
    BY <1>4, <1>5, MarkedIs DEF StepStatus
  <2> QED
    BY <1>6, <2>1
<1>7. CASE at + 1 <= Len(p) /\ run'.steps = Marked(Closed, p[at + 1].steps, "running")
  <2> DEFINE n == at + 1
  <2>1. n \in 1 .. Len(p) /\ ~(n < at)
    BY <1>1, <1>7
  <2> HIDE DEF n
  <2>2. s \notin p[n].steps
    <3> SUFFICES ASSUME s \in p[n].steps PROVE FALSE
      OBVIOUS
    <3>1. f[s] = StatusAt(p, n, at)
      BY <1>1, <2>1 DEF Follows
    <3> QED
      BY <2>1, <3>1 DEF StatusAt
  <2>3. Marked(Closed, p[n].steps, "running")[s] = "done"
    BY <1>4, <1>5, <2>2, MarkedIs DEF StepStatus
  <2> QED
    BY <1>7, <2>3 DEF n
<1> QED
  BY <1>2, <1>6, <1>7

\* A step that is done stays so when the run stops.
LEMMA DoneStays ==
    ASSUME Fields, TypeOK, RunFollows, RunCallRefused \/ RunCallBreaks
    PROVE  /\ run'.doc = run.doc
           /\ \A s \in DOMAIN run.steps : run.steps[s] = "done" => run'.steps[s] = "done"
<1>1. /\ job["run"].doc # None /\ job["run"].at > 0 /\ run'.doc = run.doc
      /\ \/ run'.steps = run.steps
         \/ run'.steps = Marked(run.steps, Current("run").steps, "failed")
  BY StopsEffect
<1> DEFINE d == job["run"].doc
           p == PlanOf.scenario[d]
           at == job["run"].at
           f == run.steps
<1>2. /\ Plan("run") = p /\ Len(p) \in Nat
      /\ at \in 0 .. Len(p) /\ at \in Nat /\ f \in Progress /\ Follows(f, p, at)
  BY <1>1, AtCall
<1>3. at > 0 /\ at \in 1 .. Len(p) /\ Current("run").steps = p[at].steps
  BY <1>1, <1>2 DEF Current
<1> HIDE DEF d, p, at, f
<1> SUFFICES ASSUME NEW s \in DOMAIN f, f[s] = "done" PROVE run'.steps[s] = "done"
  BY <1>1 DEF f
<1>4. s \notin p[at].steps
  <2> SUFFICES ASSUME s \in p[at].steps PROVE FALSE
    OBVIOUS
  <2>1. f[s] = StatusAt(p, at, at)
    BY <1>2, <1>3 DEF Follows
  <2> QED
    BY <1>3, <2>1 DEF StatusAt
<1>5. Marked(f, p[at].steps, "failed")[s] = "done"
  BY <1>2, <1>4, MarkedIs DEF StepStatus
<1> QED
  BY <1>1, <1>3, <1>5 DEF f

\* A run in progress is never replaced by another one, and what it has done stays done;
\* only a restart of the server forgets it (server/scenario_routes.py, the 409).
THEOREM NotReplaced == Spec => RunIsNotReplaced
<1>1. ASSUME Inv, [Next]_vars, run.status = "running", run'.doc # None
      PROVE  /\ run'.doc = run.doc
             /\ \A s \in DOMAIN run.steps : run.steps[s] = "done" => run'.steps[s] = "done"
  <2>1. Fields /\ TypeOK /\ RunFollows
    BY <1>1 DEF Inv
  <2>2. \A d \in Document : ~StartRun(d)
    BY <1>1 DEF StartRun
  <2>3. CASE RunBegins \/ RunCallReturns
    BY <2>1, <2>3, MovesEffect, DoneOn
  <2>4. CASE RunCallRefused \/ RunCallBreaks
    BY <2>1, <2>4, DoneStays
  <2>5. CASE \E a \in Executor : CallLands(a)
    BY <2>5 DEF CallLands
  <2>6. CASE \E c \in Client, d \in Document : ApplyProfile(c, d)
    BY <2>6 DEF ApplyProfile
  <2>7. CASE \E c \in Client : ProfileCallReturns(c) \/ ProfileCallFails(c)
    BY <2>7 DEF ProfileCallReturns, ProfileCallFails
  <2>8. CASE Fire \/ Meddle \/ UNCHANGED vars
    BY <2>8 DEF Fire, Meddle, vars
  <2>9. CASE Restart
    BY <1>1, <2>9, NothingTyped DEF Restart
  <2> QED
    BY <1>1, <2>2, <2>3, <2>4, <2>5, <2>6, <2>7, <2>8, <2>9, Acts
<1>2. Inv /\ [Next]_vars =>
        [run.status = "running" /\ run'.doc # None =>
           /\ run'.doc = run.doc
           /\ \A s \in DOMAIN run.steps : run.steps[s] = "done" => run'.steps[s] = "done"]_vars
  BY <1>1
<1>3. Spec => [][Next]_vars
  BY DEF Spec
<1> QED
  BY <1>2, <1>3, InvHolds, PTL DEF RunIsNotReplaced

==============================================================================
