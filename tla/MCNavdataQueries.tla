---------------------------- MODULE MCNavdataQueries ----------------------------
\* Lines for small files: one or two of every kind the readers tell apart.
EXTENDS NavdataQueries

Header(code, ok)  == [code |-> code, ok |-> ok, icao |-> "A"]
End(ident, at, displaced) == [ok |-> TRUE, ident |-> ident, at |-> at, displaced |-> displaced]
BadEnd            == [ok |-> FALSE]
Strip100(a, b)    == [code |-> "100", ok |-> TRUE, ends |-> <<a, b>>]
Stand(ok)         == [code |-> "1300", ok |-> ok, name |-> "P", at |-> 5, kind |-> "heavy"]
Operated(op)      == [code |-> "1301", ok |-> TRUE, operation |-> op]
Meta(key, value)  == [code |-> "1302", key |-> key, value |-> value]

Lines1 ==
    {Header("1", TRUE), Header("1", FALSE), Header("17", TRUE),
     Strip100(End("18", 0, 1), End("36", 4, 0)), Strip100(End("18", 2, 0), End("36", 9, 3)),
     Strip100(BadEnd, BadEnd),
     Stand(TRUE), Stand(FALSE), Operated("cargo"),
     Meta("icao_code", "B"), Meta("datum_lat", "40N"), Meta("datum_lon", "3W"), Meta("datum_lat", None)}

Aid(code, word, isRunway, name, terminal, raw, packed) ==
    [code |-> code, ok |-> TRUE, ident |-> "X", at |-> 1, region |-> "LE", terminal |-> terminal,
     word |-> word, isRunway |-> isRunway, name |-> name, raw |-> raw, packed |-> packed]
Lines2 ==
    {Aid(2, "X", FALSE, "NDB", "ENRT", 380, 1), Aid(3, "X", FALSE, "VORTAC", "ENRT", 11150, 1),
     Aid(4, "18", TRUE, "ILS", "A", 11150, 180 * 360 + 179), Aid(4, "18", TRUE, "ILS", "B", 11150, 360 * 360),
     Aid(12, "18", TRUE, "DME", "A", 11150, 0), Aid(6, "18", TRUE, "GS", "A", 11150, 300179),
     Aid(7, "18", TRUE, "OM", "A", 0, 0)}

Fix(region, terminal, ok) == [ok |-> ok, ident |-> "X", at |-> 2, region |-> region, terminal |-> terminal]
Lines3 == {Fix("LE", "ENRT", TRUE), Fix("LE", "A", TRUE), Fix(None, "B", TRUE), Fix("LE", "A", FALSE)}

Held(region, terminal, type, time, length) ==
    [ok |-> TRUE, fix |-> "X", region |-> region, terminal |-> terminal, type |-> type,
     time |-> time, length |-> length]
Lines4 == {Held("LE", "A", 11, 1, 4), Held("LE", "ENRT", 3, 0, 4), Held(None, "B", 2, 1, 0),
           Held("LE", "A", 11, 0, 0)}
=============================================================================
