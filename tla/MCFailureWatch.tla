--------------------------- MODULE MCFailureWatch ---------------------------
(* A small station: two failures, one of them behind two datarefs.          *)
EXTENDS FailureWatch

CONSTANTS engine, hydraulics, engineA, engineB, hydraulicsA

MCRef == {engine, hydraulics}
MCDataref == {engineA, engineB, hydraulicsA}
MCDatarefsOf == [r \in MCRef |-> IF r = engine THEN {engineA, engineB} ELSE {hydraulicsA}]
\* Every failure behind a dataref of its own: one write per injection.
OneDataref == {engineA, hydraulicsA}
OneDatarefOf == [r \in MCRef |-> IF r = engine THEN {engineA} ELSE {hydraulicsA}]

MCLevel == {0, 1}

\* One request per kind of trigger that the runs tell apart.
AtAltitude == [ref |-> engine, trigger |-> [type |-> "altitude_above", at |-> 1]]
AfterDelay == [ref |-> hydraulics, trigger |-> [type |-> "delay", at |-> 1]]
MCRequest == {AtAltitude, AfterDelay}
=============================================================================
