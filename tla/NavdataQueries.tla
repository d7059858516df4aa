---------------------------- MODULE NavdataQueries ----------------------------
(***************************************************************************)
(* What a finished index has to hold, defined over the lines of the files; *)
(* and the queries of the index (provider.py) beside those of the provider *)
(* that answers from collections in memory (in_memory.py).                 *)
(*                                                                         *)
(* A record of a table is known by its place in it, which is its rowid.    *)
(***************************************************************************)
EXTENDS NavdataBuild

All == "all"    \* a filter left out
Passes(value, filter) == filter = All \/ value = filter

Ids(t)     == DOMAIN table[t]
Row(t, k)  == table[t][k]
Matching(t, Test(_)) == {k \in Ids(t) : Test(Row(t, k))}

-----------------------------------------------------------------------------
(* provider.py                                                             *)

\* ORDER BY region IS NULL, region, id.
RegionRank(region) == CASE region = "LE" -> 1 [] region = "LF" -> 2 [] OTHER -> 3
IndexOrder(t, ids) ==
    SetToSortSeq(ids, LAMBDA a, b :
        LET ra == RegionRank(Row(t, a).region)  rb == RegionRank(Row(t, b).region)
        IN ra < rb \/ (ra = rb /\ a < b))

VhfKinds == {"vor", "vor_dme", "vortac", "dme", "tacan"}

GetNavaids(ident, region, kinds) ==
    IndexOrder("navaid", Matching("navaid", LAMBDA n :
        n.ident = ident /\ Passes(n.region, region) /\ n.kind \in kinds))
GetFixes(ident, region, airport) ==
    IndexOrder("fix", Matching("fix", LAMBDA f :
        f.ident = ident /\ Passes(f.region, region) /\ Passes(f.airport, airport)))

First(ids) == IF ids = <<>> THEN 0 ELSE Head(ids)
Only(ids)  == First(SetToSortSeq(ids, LAMBDA a, b : a < b))

\* Mutant: the scope of a terminal reference is left out.
ResolveAnyTerminal(ref) ==
    CASE ref.sub = "A" -> Only(Matching("airport", LAMBDA a : a.icao = ref.ident))
      [] ref.sub = "G" -> Only(Matching("runway", LAMBDA r :
                                 r.icao = ref.airport /\ r.ident = ref.ident))
      [] ref.sub = "I" -> First(GetNavaids(ref.ident, ref.region, {"localizer"}))
      [] ref.sub = "N" -> First(GetNavaids(ref.ident, ref.region, {"ndb"}))
      [] OTHER -> First(GetFixes(ref.ident, ref.region, All))

\* _resolve_terminal: the P section, scoped to one airport.
ResolveTerminal(ref) ==
    LET scoped(ids) == SelectSeq(ids, LAMBDA k : Row("navaid", k).airport \in {None, ref.airport}) IN
    CASE ref.sub = "A" -> Only(Matching("airport", LAMBDA a : a.icao = ref.ident))
      [] ref.sub = "G" -> Only(Matching("runway", LAMBDA r :
                                 r.icao = ref.airport /\ r.ident = ref.ident))
      [] ref.sub = "I" -> First(scoped(GetNavaids(ref.ident, ref.region, {"localizer"})))
      [] ref.sub = "N" -> First(scoped(GetNavaids(ref.ident, ref.region, {"ndb"})))
      [] OTHER -> First(GetFixes(ref.ident, ref.region, ref.airport))

ResolveFix(ref) ==
    CASE ref.section = "D" /\ ref.sub = "B" -> First(GetNavaids(ref.ident, ref.region, {"ndb"}))
      [] ref.section = "D" /\ ref.sub # "B" -> First(GetNavaids(ref.ident, ref.region, VhfKinds))
      [] ref.section = "E" ->
           First(SelectSeq(GetFixes(ref.ident, ref.region, All),
                           LAMBDA k : Row("fix", k).airport = None))
      [] OTHER -> ResolveTerminal(ref)

\* _hold_waypoint: by the type of the fix; a waypoint of the hold's airport, or
\* of none, comes before those of other airports.
HoldWaypoint(hold) ==
    LET region == IF hold.region = None THEN All ELSE hold.region
        fixes  == GetFixes(hold.fix, region, All)
        scoped == SelectSeq(fixes, LAMBDA k : Row("fix", k).airport \in {None, hold.airport})
    IN CASE hold.type = 3 -> First(GetNavaids(hold.fix, region, VhfKinds))
         [] hold.type = 2 -> First(GetNavaids(hold.fix, region, {"ndb"}))
         [] OTHER -> First(IF scoped # <<>> THEN scoped ELSE fixes)

\* A hold whose fix the index does not have is dropped.
GetHolds(ident, region) ==
    Matching("hold", LAMBDA h :
        h.fix = ident /\ Passes(h.region, region) /\ HoldWaypoint(h) # 0)

\* Mutant: an aid of the airport stands for one of the runway.
AidsOfAirport(r, kinds) ==
    LET found == Matching("navaid", LAMBDA n : n.airport = r.icao /\ n.kind \in kinds)
    IN IF found = {} THEN {0} ELSE found

\* _RUNWAY_QUERY: the three LEFT JOINs put the aids of a runway end beside it,
\* one row for every combination; 0 where there is none.
Aids(r, kinds) ==
    LET found == Matching("navaid", LAMBDA n :
                    n.airport = r.icao /\ n.runway = r.ident /\ n.kind \in kinds)
    IN IF found = {} THEN {0} ELSE found
RunwayRows(icao) ==
    UNION {{[runway |-> k, loc |-> l, gs |-> g, dme |-> d] :
              l \in Aids(Row("runway", k), {"localizer"}),
              g \in Aids(Row("runway", k), {"glideslope"}),
              d \in Aids(Row("runway", k), {"dme", "tacan"})} :
           k \in Matching("runway", LAMBDA r : r.icao = icao)}

\* _ils: only a localizer on a frequency of the localizer band.
IlsOf(row) ==
    IF row.loc # 0 /\ Row("navaid", row.loc).khz \in 108000 .. 111950
    THEN [course |-> Row("navaid", row.loc).course, dme |-> row.dme # 0]
    ELSE [course |-> NoCourse, dme |-> FALSE]

-----------------------------------------------------------------------------
(* in_memory.py, over the same records.                                    *)

\* sorted(key = (ident, region or "")) keeps the order of equal keys: the first
\* has no other before it.
MemoryRank(region) == IF region = None THEN 0 ELSE RegionRank(region)
MemoryFirst(t, ids) ==
    IF ids = {} THEN 0
    ELSE CHOOSE k \in ids : \A j \in ids \ {k} :
            LET rk == MemoryRank(Row(t, k).region)  rj == MemoryRank(Row(t, j).region)
            IN rk < rj \/ (rk = rj /\ k < j)

MemoryNavaid(ref, kinds, airports) ==
    MemoryFirst("navaid", {k \in Ids("navaid") :
        /\ Row("navaid", k).ident = ref.ident /\ Row("navaid", k).region = ref.region
        /\ Row("navaid", k).kind \in kinds
        /\ airports = {} \/ Row("navaid", k).airport \in airports})
MemoryFix(ref, airport) ==
    MemoryFirst("fix", {k \in Ids("fix") :
        /\ Row("fix", k).ident = ref.ident /\ Row("fix", k).region = ref.region
        /\ Row("fix", k).airport = airport})

MemoryResolve(ref) ==
    CASE ref.section = "D" -> MemoryNavaid(ref, IF ref.sub = "B" THEN {"ndb"} ELSE VhfKinds, {})
      [] ref.section = "E" -> MemoryFix(ref, None)
      [] ref.section = "P" /\ ref.sub = "I" ->
           MemoryNavaid(ref, {"localizer"}, {None, ref.airport})
      [] ref.section = "P" /\ ref.sub = "N" -> MemoryNavaid(ref, {"ndb"}, {None, ref.airport})
      [] ref.section = "P" /\ ref.sub = "A" ->
           Only({k \in Ids("airport") : Row("airport", k).icao = ref.ident})
      [] ref.section = "P" /\ ref.sub = "G" ->
           Only({k \in Ids("runway") : /\ Row("runway", k).icao = ref.airport
                                       /\ Row("runway", k).ident = ref.ident})
      [] OTHER -> MemoryFix(ref, ref.airport)

\* The collection holds the Hold objects themselves; their fixes are what is filtered.
MemoryHolds(ident, region) ==
    {k \in Ids("hold") :
        LET h == Row("hold", k)  w == HoldWaypoint(h)
            t == IF h.type \in {2, 3} THEN "navaid" ELSE "fix"
        IN w # 0 /\ Row(t, w).ident = ident /\ Passes(Row(t, w).region, region)}

-----------------------------------------------------------------------------
(* What the lines of the files say, without reading them in turn.          *)

Apt == file["apt"]
HeaderCodes == {"1", "16", "17"}
IsHeader(k) == Apt[k].code \in HeaderCodes

\* The land blocks that can be read, by their header; and their lines.
Blocks == {h \in DOMAIN Apt : Apt[h].code = "1" /\ Apt[h].ok}
Members(h) == {k \in DOMAIN Apt : k > h /\ \A j \in (h + 1) .. k : ~IsHeader(j)}
Says(h, code) == {k \in Members(h) : Apt[k].code = code}

\* The last value published under a key.
Metadata(h, key, default) ==
    LET lines == {k \in Says(h, "1302") : Apt[k].key = key /\ (key = "icao_code" => Apt[k].value # None)}
    IN IF lines = {} THEN default ELSE Apt[Max(lines)].value
IcaoOf(h)   == Metadata(h, "icao_code", Apt[h].icao)

Ends(h)   == FlattenSeq([k \in DOMAIN Apt |->
                IF k \in Says(h, "100") THEN ParseRunway(Apt[k]).found ELSE <<>>])
StandLines(h) == {k \in Says(h, "1300") : Apt[k].ok}
\* What the metadata lines between a stand and the next say last.
OperationOf(h, k) ==
    LET after == {j \in Says(h, "1301") : j > k /\ Apt[j].ok
                                          /\ \A s \in StandLines(h) : ~(k < s /\ s < j)}
        said  == Apt[Max(after)].operation
    IN IF after = {} \/ said \notin Operations THEN None ELSE said

HasDatum(h)    == Metadata(h, "datum_lat", None) # None /\ Metadata(h, "datum_lon", None) # None
HasPosition(h) == HasDatum(h) \/ Ends(h) # <<>> \/ StandLines(h) # {}
Placed         == {h \in Blocks : HasPosition(h)}
LastBlock(icao) == Max({h \in Placed : IcaoOf(h) = icao})

\* The runway ends of an airport come from all its blocks, the later line winning.
EndsOf(icao) ==
    LET ends == FlattenSeq([h \in DOMAIN Apt |->
                   IF h \in Placed /\ IcaoOf(h) = icao THEN Ends(h) ELSE <<>>])
    IN {ends[k] : k \in {i \in DOMAIN ends : \A j \in (i + 1) .. Len(ends) :
                                                 ends[j].ident # ends[i].ident}}

\* Every stand stays, and so does every record of the earth files.
StandsOf(icao) ==
    FlattenSeq([k \in DOMAIN Apt |->
        IF \E h \in Placed : IcaoOf(h) = icao /\ k \in StandLines(h)
        THEN LET h == CHOOSE b \in Placed : k \in StandLines(b)
             IN <<[ParseParking(Apt[k]).found[1] EXCEPT !.operation = OperationOf(h, k)]>>
        ELSE <<>>])

Icaos == {IcaoOf(h) : h \in Placed}
OfFile(f, Parse(_)) == FlattenSeq([k \in DOMAIN file[f] |-> Parse(file[f][k]).found])
SkipsOf(f, Parse(_)) == MapThenSumSet(LAMBDA k : Parse(file[f][k]).skips, DOMAIN file[f])

AptSkips ==
    Cardinality({k \in DOMAIN Apt : Apt[k].code = "1" /\ ~Apt[k].ok})
    + Cardinality(Blocks \ Placed)
    + MapThenSumSet(LAMBDA h :
          MapThenSumSet(LAMBDA k : ParseRunway(Apt[k]).skips, Says(h, "100"))
          + Cardinality(Says(h, "1300") \ StandLines(h)), Blocks)

Strip(r) == [ident |-> r.ident, opposite |-> r.opposite, pavement |-> r.pavement,
             threshold |-> r.threshold, length |-> r.length]
Plain(s) == [name |-> s.name, at |-> s.at, operation |-> s.operation, kind |-> s.kind]

-----------------------------------------------------------------------------
TypeOK ==
    /\ pass \in Files \cup {"end of apt", "finalise", "done", "cancelled", "failed"}
    /\ Lines <= MaxRows
    /\ Len(current) <= 1 /\ (current # <<>> => pass \in {"apt", "cancelled", "failed"})
    /\ \A t \in Tables : /\ Len(batch[t].rows) < Batch
                         /\ Len(table[t]) + Len(batch[t].rows) <= batch[t].count
    /\ skipped \in Nat /\ index \in Nat /\ cancel \in BOOLEAN
    /\ late <= index

\* A build that ends in an index holds what the files say and has counted what
\* they say badly: each airport as its last block describes it, each runway end
\* once, every stand with its own operation, every readable record of the earth
\* files in their order (build.py, apt.py, earth.py).
IndexHoldsTheFiles ==
    pass = "done" =>
        /\ {Row("airport", k).icao : k \in Ids("airport")} = Icaos
        /\ Len(table["airport"]) = Cardinality(Icaos)
        /\ \A k \in Ids("airport") :
             LET a == Row("airport", k)  h == LastBlock(a.icao) IN
             /\ a.runways = Len(Ends(h))
             /\ a.region = Metadata(h, "region_code", None)
             /\ IF HasDatum(h)
                THEN a.position = [datum |-> <<Metadata(h, "datum_lat", None),
                                               Metadata(h, "datum_lon", None)>>]
                ELSE "centre" \in DOMAIN a.position
        /\ \A icao \in Icaos :
             /\ {Strip(Row("runway", k)) : k \in Matching("runway", LAMBDA r : r.icao = icao)}
                  = EndsOf(icao)
             /\ LET stands == SelectSeq(table["parking"], LAMBDA s : s.icao = icao)
                IN [k \in DOMAIN stands |-> Plain(stands[k])] = StandsOf(icao)
        /\ \A j, k \in Ids("runway") : SameKey("runway", Row("runway", j), Row("runway", k)) => j = k
        /\ table["navaid"] = OfFile("nav", ParseNavaid)
        /\ table["fix"] = OfFile("fix", ParseFix)
        /\ table["hold"] = OfFile("hold", ParseHold)
        /\ \A t \in {"parking", "navaid", "fix", "hold"} : batch[t].count = Len(table[t])
        /\ skipped = AptSkips + SkipsOf("nav", ParseNavaid) + SkipsOf("fix", ParseFix)
                     + SkipsOf("hold", ParseHold)

Key(section, sub, idents, airports) ==
    [section : {section}, sub : {sub}, ident : idents, region : {"LE"}, airport : airports]
Refs == Key("D", "B", Known, {None}) \cup Key("D", "", Known, {None}) \cup Key("E", "A", Known, {None})
        \cup UNION {Key("P", sub, Known, Airports) : sub \in {"C", "G", "I", "N"}}
        \cup Key("P", "A", Airports, {None})

\* A fix reference or a hold query finds the same record in the index and in
\* memory, which a second implementation of the protocol is there to hold the
\* first one to (in_memory.py); a hold of no region is the exception.
SameAnswers ==
    pass = "done" =>
        /\ \A ref \in Refs : ResolveFix(ref) = MemoryResolve(ref)
        /\ \A ident \in Known, region \in {"LE", All} :
             LET plain(ids) == {k \in ids : Row("hold", k).region # None} IN
             plain(GetHolds(ident, region)) = plain(MemoryHolds(ident, region))

\* The ILS of a runway end is the one its line publishes: courses unpacked, on a
\* localizer frequency, with a DME only if one is published for that very end;
\* and the end is listed once unless two aids of a kind name it (provider.py,
\* _RUNWAY_QUERY, _ils; earth.py, decode_packed_localizer_bearing).
IlsIsPublished ==
    pass = "done" =>
        \A icao \in Icaos : \A row \in RunwayRows(icao) :
            LET end == Row("runway", row.runway)
                lines(kinds) == {k \in DOMAIN file["nav"] :
                    LET r == file["nav"][k] IN
                    /\ r.code \in kinds /\ ParseNavaid(r).found # <<>>
                    /\ r.terminal = icao /\ r.isRunway /\ r.word = end.ident}
                ils == IlsOf(row)
            IN /\ ils.course # NoCourse =>
                    \E k \in lines({4, 5}) : LET r == file["nav"][k] IN
                        /\ ils.course.magnetic * 360 + ils.course.true = r.packed
                        /\ r.raw \in 10800 .. 11195
               /\ ils.dme => \E k \in lines({12}) : TRUE
               /\ (\A kinds \in {{4, 5}, {6}, {12}} : Cardinality(lines(kinds)) <= 1) =>
                    \A other \in RunwayRows(icao) :
                        Row("runway", other.runway).ident = end.ident => other = row

\* A cancelled build takes no further batch of any file (build.py, "checked per
\* insert batch").
CancelIsHeeded == late >= Batch => pass = "cancelled"

\* A build ends with the whole of the files in the index, or is given up within a batch of
\* being told so (build.py, build_index and _check_cancel).
BuildIsFaithful == IndexHoldsTheFiles /\ CancelIsHeeded

\* A query answers what the files publish, whichever provider it is put to (provider.py,
\* resolve_fix, get_holds and get_runways; in_memory.py).
QueriesAgree == SameAnswers /\ IlsIsPublished
=============================================================================
