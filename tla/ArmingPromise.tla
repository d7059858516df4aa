---------------------------- MODULE ArmingPromise ----------------------------
(***************************************************************************)
(* What arming a failure promises the instructor, without tasks, frames or *)
(* datarefs: each armed entry waits, fires together with the others that   *)
(* the same frame satisfies, and is injected or goes back to waiting.      *)
(***************************************************************************)
EXTENDS Naturals

CONSTANT ArmedId      \* in arming order
VARIABLE fate         \* what has become of each entry

Fates == {"unknown", "armed", "firing", "injected", "withdrawn", "dropped"}
In(f) == {i \in ArmedId : fate[i] = f}
Become(S, f) == [i \in ArmedId |-> IF i \in S THEN f ELSE fate[i]]

\* The next id is handed out.
Arm(i) ==
    /\ fate[i] = "unknown"
    /\ \A j \in In("unknown") : i <= j
    /\ fate' = Become({i}, "armed")

\* One frame satisfies S.  The frames are evaluated one after the other: what
\* an earlier one fired has been dealt with.
Fire(S) ==
    /\ In("firing") = {}
    /\ S # {} /\ S \subseteq In("armed")
    /\ fate' = Become(S, "firing")

\* Injection goes by arming order and settles the entry for good ...
Inject(i) ==
    /\ i \in In("firing") /\ \A j \in In("firing") : i <= j
    /\ fate' = Become({i}, "injected")

\* ... or fails, and the entry waits again.
PutBack(i) ==
    /\ i \in In("firing") /\ \A j \in In("firing") : i <= j
    /\ fate' = Become({i}, "armed")

\* Disarming removes one waiting entry.  When it was the last one, what is
\* firing at that moment is dropped with it.
Disarm(i) ==
    /\ i \in In("armed")
    /\ fate' = [j \in ArmedId |->
           IF j = i THEN "withdrawn"
           ELSE IF In("armed") = {i} /\ fate[j] = "firing" THEN "dropped"
           ELSE fate[j]]

\* CLEAR ALL takes back everything that has not been injected yet.
ClearAll == fate' = Become(In("armed") \cup In("firing"), "withdrawn")

Init == fate = [i \in ArmedId |-> "unknown"]
Next ==
    \/ \E i \in ArmedId : Arm(i) \/ Inject(i) \/ PutBack(i) \/ Disarm(i)
    \/ \E S \in SUBSET ArmedId : Fire(S)
    \/ ClearAll
Spec == Init /\ [][Next]_fate
=============================================================================
