---------------------------- MODULE ProcedureCache ----------------------------
(***************************************************************************)
(* The procedure files: XPNativeCifpSource (core/navdata/xplane_native/    *)
(* cifp.py) parses one airport's CIFP file on demand and remembers it; the *)
(* provider merges its runways with those of the index (provider.py,       *)
(* get_runways), and the parser asks the provider for the fixes of its     *)
(* legs, which for a runway leads back to the source.                      *)
(*                                                                         *)
(* Threads of the server's pool run requests; the user's navdata installer *)
(* rewrites the files; a build publishes new generations of the index.     *)
(***************************************************************************)
EXTENDS Integers, Sequences, FiniteSets, SequencesExt

CONSTANTS
    Thread,
    Airport,
    Leg,          \* the legs of a procedure, in order: "fix" or "runway"
    HasRunway,    \* the versions of a file that have an RWY record for that runway
    MaxEntries,   \* max_entries of the source
    MaxVersion,   \* bound: how often a file is written
    MaxGen,       \* bound: how often an index is published
    MaxAsk        \* bound: requests served

ASSUME CacheAssumption ==
    /\ MaxEntries \in Nat \ {0}
    /\ MaxVersion \in Nat \ {0} /\ MaxGen \in Nat \ {0} /\ MaxAsk \in Nat
    /\ Airport # {}
    /\ HasRunway \subseteq 1 .. MaxVersion
    /\ Leg \in Seq({"fix", "runway"})

None  == 0
Place == {"custom", "default"}

VARIABLES
    file,      \* per airport and place, the version of its file, None when missing or empty
    version,   \* the last version written anywhere: its mtime
    path,      \* the provider's _path: a generation, None before the first
    epoch,     \* the provider's _epoch
    stage,     \* how far the publication under way has come
    cache,     \* the remembered parses, the most recently used last
    parsing,   \* per thread, _AirportsBeingParsed
    conn,      \* per thread, its SQLite connection: its generation and its tag
    thread,    \* per thread, its request
    asks       \* history: requests begun

vars == <<file, version, path, epoch, stage, cache, parsing, conn, thread, asks>>

Winner(a) == IF file[<<a, "custom">>] # None THEN "custom" ELSE "default"
Current(a) == file[<<a, Winner(a)>>]

Idle == [op |-> "idle", pc |-> "idle", icao |-> CHOOSE a \in Airport : TRUE, place |-> "default",
         key |-> None, text |-> None, legs |-> <<>>, rows |-> None, seen |-> None,
         answer |-> "none",
         start |-> None, disturbed |-> FALSE, overtaken |-> FALSE, crossed |-> FALSE]

Init ==
    /\ file \in [Airport \X Place -> 0 .. 1] /\ version = 1
    /\ path \in {None, 1} /\ epoch = path
    /\ stage = "idle"
    /\ cache = <<>>
    /\ parsing = [t \in Thread |-> {}]
    /\ conn = [t \in Thread |-> [gen |-> None, tag |-> -1]]
    /\ thread = [t \in Thread |-> Idle]
    /\ asks = 0

At(t, pc) == thread[t].pc = pc
Active(t) == ~At(t, "idle")
Set(t, u) == thread' = [thread EXCEPT ![t] = u]
\* The answer, with what it is judged by and no more.
Answered(u, a) == [Idle EXCEPT !.op = u.op, !.icao = u.icao, !.text = u.text, !.legs = u.legs,
                     !.answer = a, !.start = u.start, !.disturbed = u.disturbed,
                     !.crossed = u.crossed]

world == <<file, version, path, epoch, stage>>

-----------------------------------------------------------------------------
(* Requests.                                                               *)

Begin(t, a, op) ==
    /\ At(t, "idle") /\ asks < MaxAsk
    /\ asks' = asks + 1
    /\ Set(t, [Idle EXCEPT !.op = op, !.icao = a,
                 !.pc = IF op = "runways" THEN "path" ELSE "resolve",
                 !.start = Current(a), !.overtaken = stage # "idle"])
    /\ UNCHANGED <<world, cache, parsing, conn>>

\* _connection, first half: the path; without one the query raises, and the
\* parse it comes from is left through its finally.
ReadPath(t, pc, next) ==
    /\ At(t, pc)
    /\ IF path = None
       THEN /\ Set(t, Answered(thread[t], "unavailable"))
            /\ parsing' = [parsing EXCEPT ![t] = {}]
       ELSE /\ Set(t, [thread[t] EXCEPT !.pc = next, !.seen = path])
            /\ UNCHANGED parsing
    /\ UNCHANGED <<world, cache, conn, asks>>

\* Mutant: whatever connection the thread has will do.
ConnectionKept(t) ==
    IF conn[t].gen # None THEN conn[t] ELSE [gen |-> thread[t].seen, tag |-> epoch]

\* Second half: the epoch; a connection of this epoch is kept.
Connection(t) ==
    IF conn[t].gen # None /\ conn[t].tag = epoch THEN conn[t]
    ELSE [gen |-> thread[t].seen, tag |-> epoch]

Query(t, u) ==
    /\ conn' = [conn EXCEPT ![t] = Connection(t)]
    /\ Set(t, u)
    /\ UNCHANGED <<world, cache, parsing, asks>>

\* get_runways: the rows of the index, then the CIFP on every call.
RunwayRows(t) ==
    /\ At(t, "rows")
    /\ Query(t, [thread[t] EXCEPT !.pc = "resolve", !.rows = Connection(t).gen])

\* The path that wins per-file precedence, or "no procedures".
ResolvePath(t) ==
    LET a == thread[t].icao IN
    /\ At(t, "resolve")
    /\ Set(t, IF Current(a) = None THEN Answered(thread[t], "absent")
              ELSE [thread[t] EXCEPT !.pc = "stat", !.place = Winner(a)])
    /\ UNCHANGED <<world, cache, parsing, conn, asks>>

IsFor(e, a, place, mtime) == e.icao = a /\ e.place = place /\ e.mtime = mtime
Held(a, place, mtime) == {k \in DOMAIN cache : IsFor(cache[k], a, place, mtime)}
MovedToEnd(k)         == Append(RemoveAt(cache, k), cache[k])
Others(a, place, mtime) ==
    IF Held(a, place, mtime) = {} THEN cache
    ELSE RemoveAt(cache, CHOOSE k \in Held(a, place, mtime) : TRUE)

\* A request answered with a remembered parse.
Hit(u, e) == [Answered(u, "ok") EXCEPT !.text = e.text, !.legs = e.legs, !.crossed = e.crossed]

\* Mutant: the cache is keyed by the airport alone.
LookUpByAirport(t) ==
    LET u == thread[t]  mtime == file[<<u.icao, u.place>>]
        found == {k \in DOMAIN cache : cache[k].icao = u.icao}
    IN
    /\ At(t, "stat")
    /\ \/ /\ mtime = None /\ Set(t, Answered(u, "absent"))
       \/ \E k \in found : mtime # None /\ Set(t, Hit(u, cache[k]))
       \/ mtime # None /\ found = {} /\ Set(t, [u EXCEPT !.pc = "read", !.key = mtime])
    /\ UNCHANGED <<world, cache, parsing, conn, asks>>

\* stat, and the lookup under that key; a hit becomes the most recent.
LookUp(t) ==
    LET u == thread[t]  mtime == file[<<u.icao, u.place>>] IN
    /\ At(t, "stat")
    /\ \/ /\ mtime = None
          /\ Set(t, Answered(u, "absent")) /\ UNCHANGED cache
       \/ \E k \in Held(u.icao, u.place, mtime) :
            /\ mtime # None
            /\ cache' = MovedToEnd(k) /\ Set(t, Hit(u, cache[k]))
       \/ /\ mtime # None /\ Held(u.icao, u.place, mtime) = {}
          /\ Set(t, [u EXCEPT !.pc = "read", !.key = mtime]) /\ UNCHANGED cache
    /\ UNCHANGED <<world, parsing, conn, asks>>

\* The text, which may be another by now, or gone; then the parse begins.
ReadText(t) ==
    LET a == thread[t].icao  text == file[<<a, thread[t].place>>] IN
    /\ At(t, "read")
    /\ IF text = None
       THEN Set(t, Answered(thread[t], "absent")) /\ UNCHANGED parsing
       ELSE /\ Set(t, [thread[t] EXCEPT !.pc = "legs", !.text = text])
            /\ parsing' = [parsing EXCEPT ![t] = @ \cup {a}]
    /\ UNCHANGED <<world, cache, conn, asks>>

-----------------------------------------------------------------------------
(* The legs, in order, each to a coordinate.                               *)

FromFile(v)  == [source |-> "file", at |-> v]
FromIndex(g) == [source |-> "index", at |-> g]

NextLeg(t)  == Leg[Len(thread[t].legs) + 1]
More(t)     == At(t, "legs") /\ Len(thread[t].legs) < Len(Leg)
Resolved(u, c) == [u EXCEPT !.pc = "legs", !.legs = Append(@, c), !.seen = None]

\* A runway the file itself has is answered from its own record.
OwnRunway(t) ==
    /\ More(t) /\ NextLeg(t) = "runway" /\ thread[t].text \in HasRunway
    /\ Set(t, Resolved(thread[t], FromFile(thread[t].text)))
    /\ UNCHANGED <<world, cache, parsing, conn, asks>>

\* Anything else goes to the provider, which reads the path first.
AskProvider(t) ==
    /\ More(t) /\ (NextLeg(t) = "runway" => thread[t].text \notin HasRunway)
    /\ ReadPath(t, "legs", "leg")

ResolveLeg(t) ==
    /\ At(t, "leg")
    /\ Query(t, IF NextLeg(t) = "fix" THEN Resolved(thread[t], FromIndex(Connection(t).gen))
                ELSE [thread[t] EXCEPT !.pc = "nested", !.rows = Connection(t).gen, !.seen = None])

\* The runway of the merge: the record of the file loaded, if it has one. History:
\* whether that file was another than the one being parsed.
Merged(u, text) ==
    [Resolved(u, IF text \in HasRunway THEN FromFile(text) ELSE FromIndex(u.rows))
       EXCEPT !.crossed = @ \/ text # u.text]

\* The provider's merge loads the airport's file again: from the cache if another
\* thread has got there first, otherwise, being parsed here, not at all.
Nested(t) ==
    LET u == thread[t]
        held == IF Current(u.icao) = None THEN {}
                ELSE Held(u.icao, Winner(u.icao), Current(u.icao))
    IN
    /\ At(t, "nested")
    /\ \/ \E k \in held : cache' = MovedToEnd(k) /\ Set(t, Merged(u, cache[k].text))
       \/ held = {} /\ UNCHANGED cache /\ Set(t, Resolved(u, FromIndex(u.rows)))
    /\ UNCHANGED <<world, parsing, conn, asks>>

Entry(u) == [icao |-> u.icao, place |-> u.place, mtime |-> u.key, text |-> u.text, legs |-> u.legs,
             overtaken |-> u.overtaken, crossed |-> u.crossed]
\* The parse a thread has made, were it remembered now.
Mistagged(t) == conn[t].gen < conn[t].tag

\* Mutant: what was remembered before stays in front of it.
RememberBehind(t) ==
    /\ At(t, "legs") /\ ~More(t)
    /\ parsing' = [parsing EXCEPT ![t] = @ \ {thread[t].icao}]
    /\ cache' = Append(cache, [Entry(thread[t]) EXCEPT !.overtaken = @ \/ Mistagged(t)])
    /\ Set(t, Answered(thread[t], "ok"))
    /\ UNCHANGED <<world, conn, asks>>

\* _remember, after the finally: the least recently used give way.
Remember(t) ==
    LET u == thread[t]
        all == Append(Others(u.icao, u.place, u.key),
                      [Entry(u) EXCEPT !.overtaken = @ \/ Mistagged(t)])
        kept == IF Len(all) < MaxEntries THEN Len(all) ELSE MaxEntries
    IN
    /\ At(t, "legs") /\ ~More(t)
    /\ parsing' = [parsing EXCEPT ![t] = @ \ {u.icao}]
    /\ cache' = SubSeq(all, Len(all) - kept + 1, Len(all))
    /\ Set(t, Answered(u, "ok"))
    /\ UNCHANGED <<world, conn, asks>>

-----------------------------------------------------------------------------
(* The world around: the files and the index.                              *)

\* Requests under way about an airport whose files change.
Disturb(a) == thread' = [t \in Thread |->
    IF Active(t) /\ thread[t].icao = a THEN [thread[t] EXCEPT !.disturbed = TRUE] ELSE thread[t]]

Install(a, place) ==
    /\ version < MaxVersion
    /\ version' = version + 1
    /\ file' = [file EXCEPT ![<<a, place>>] = version + 1]
    /\ Disturb(a)
    /\ UNCHANGED <<path, epoch, stage, cache, parsing, conn, asks>>

Uninstall(a, place) ==
    /\ version < MaxVersion /\ file[<<a, place>>] # None
    /\ version' = version + 1
    /\ file' = [file EXCEPT ![<<a, place>>] = None]
    /\ Disturb(a)
    /\ UNCHANGED <<path, epoch, stage, cache, parsing, conn, asks>>

\* _publish: the path, the epoch, the cache.
Overtake == thread' = [t \in Thread |->
    IF Active(t) THEN [thread[t] EXCEPT !.overtaken = TRUE] ELSE thread[t]]

PublishPath ==
    /\ stage = "idle" /\ epoch < MaxGen
    /\ path' = epoch + 1 /\ stage' = "path" /\ Overtake
    /\ UNCHANGED <<file, version, epoch, cache, parsing, conn, asks>>
PublishEpoch ==
    /\ stage = "path"
    /\ epoch' = epoch + 1 /\ stage' = "epoch" /\ Overtake
    /\ UNCHANGED <<file, version, path, cache, parsing, conn, asks>>

\* Mutant: the cache keeps its parses.
InvalidateNothing ==
    /\ stage = "epoch"
    /\ stage' = "idle" /\ Overtake
    /\ UNCHANGED <<file, version, path, epoch, cache, parsing, conn, asks>>

Invalidate ==
    /\ stage = "epoch"
    /\ cache' = <<>> /\ stage' = "idle" /\ Overtake
    /\ UNCHANGED <<file, version, path, epoch, parsing, conn, asks>>

Next ==
    \/ \E t \in Thread :
         \/ \E a \in Airport, op \in {"runways", "procedures"} : Begin(t, a, op)
         \/ ReadPath(t, "path", "rows") \/ RunwayRows(t)
         \/ ResolvePath(t) \/ LookUp(t) \/ ReadText(t)
         \/ OwnRunway(t) \/ AskProvider(t) \/ ResolveLeg(t)
         \/ Nested(t) \/ Remember(t)
    \/ \E a \in Airport, place \in Place : Install(a, place) \/ Uninstall(a, place)
    \/ PublishPath \/ PublishEpoch \/ Invalidate

Spec == Init /\ [][Next]_vars

-----------------------------------------------------------------------------
Coordinate == [source : {"file"}, at : 1 .. MaxVersion] \cup [source : {"index"}, at : 1 .. MaxGen]

\* Types; the cache has no two parses of one file and no more than its bound; an
\* airport is being parsed on a thread exactly while its legs are.
TypeOK ==
    /\ file \in [Airport \X Place -> 0 .. MaxVersion] /\ version \in 1 .. MaxVersion
    /\ path \in 0 .. MaxGen /\ epoch \in 0 .. MaxGen
    /\ (path = epoch + 1) = (stage = "path") /\ path - epoch \in 0 .. 1
    /\ Len(cache) <= MaxEntries
    /\ \A j, k \in DOMAIN cache : j # k =>
         ~IsFor(cache[j], cache[k].icao, cache[k].place, cache[k].mtime)
    /\ \A t \in Thread :
         /\ parsing[t] = (IF thread[t].pc \in {"legs", "leg", "nested"}
                          THEN {thread[t].icao} ELSE {})
         /\ \A k \in DOMAIN thread[t].legs : thread[t].legs[k] \in Coordinate
         /\ conn[t].gen \in 0 .. MaxGen /\ conn[t].tag \in -1 .. MaxGen

\* Each leg has the record of that file, if it is a runway the file has, and else a
\* coordinate of the index.
LegsOf(text, legs) ==
    \A k \in DOMAIN legs : IF Leg[k] = "runway" /\ text \in HasRunway
                           THEN legs[k] = FromFile(text) ELSE legs[k].source = "index"

AsOnDisk(u) ==
    /\ u.answer = "ok" /\ ~u.disturbed => u.text = u.start
    /\ u.answer = "absent" /\ ~u.disturbed => u.start = None
    /\ u.answer = "ok" => Len(u.legs) = Len(Leg)
    /\ u.answer = "ok" /\ ~u.crossed => LegsOf(u.text, u.legs)

\* "The full merge, warm or cold": a request whose files did not change while it
\* ran is answered with the file that wins, as it is and whole; a parse of an older
\* file, or of one that lost its precedence, never shows; and no nested load does,
\* unless it met another file than the one being parsed (provider.py, get_runways;
\* cifp.py, load).
MergedAsOnDisk == \A t \in Thread : ~Active(t) => AsOnDisk(thread[t])

CurrentParse(e) ==
    stage = "idle" /\ ~e.overtaken =>
        \A j \in DOMAIN e.legs : e.legs[j].source = "index" => e.legs[j].at = path

\* Outside a publication, what is remembered has the coordinates of the published
\* index, unless a publication overtook its parse or the opening of the connection
\* it was made with (cifp.py, _remember and invalidate; provider.py, _publish).
CoordinatesAreCurrent ==
    /\ \A k \in DOMAIN cache : CurrentParse(cache[k])
    /\ \A t \in Thread :
         LET u == thread[t] IN
         Active(t) /\ ~u.overtaken /\ ~Mistagged(t) => u.rows \in {None, path}

\* What is answered from the cache is what the disk and the index say now: the winning
\* file, and the coordinates of the published generation (cifp.py, load and invalidate).
CacheIsTrue == MergedAsOnDisk /\ CoordinatesAreCurrent

-----------------------------------------------------------------------------
(* The inductive invariant behind the two.                                 *)

InParse == {"legs", "leg", "nested"}

Request ==
    [op : {"idle", "runways", "procedures"},
     pc : {"idle", "path", "rows", "resolve", "stat", "read"} \cup InParse,
     icao : Airport, place : Place, key : 0 .. MaxVersion, text : 0 .. MaxVersion,
     legs : Seq(Coordinate), rows : 0 .. MaxGen, seen : 0 .. MaxGen,
     answer : {"none", "ok", "absent", "unavailable"}, start : 0 .. MaxVersion,
     disturbed : BOOLEAN, overtaken : BOOLEAN, crossed : BOOLEAN]
Parse ==
    [icao : Airport, place : Place, mtime : 1 .. MaxVersion, text : 1 .. MaxVersion,
     legs : Seq(Coordinate), overtaken : BOOLEAN, crossed : BOOLEAN]
Conn == [gen : 0 .. MaxGen, tag : -1 .. MaxGen]

Fields ==
    /\ thread \in [Thread -> Request] /\ cache \in Seq(Parse)
    /\ parsing \in [Thread -> SUBSET Airport] /\ conn \in [Thread -> Conn]
    /\ stage \in {"idle", "path", "epoch"}
    /\ \A x \in Airport \X Place : file[x] <= version

\* What a request holds at each of its places.
Shape(u) ==
    /\ Len(u.legs) <= Len(Leg)
    /\ u.pc # "idle" /\ u.pc \notin InParse => u.legs = <<>> /\ ~u.crossed
    /\ u.pc = "read" => u.key # None
    /\ u.pc \in InParse => u.key # None /\ u.text # None
    /\ u.pc \in {"rows", "leg"} => u.seen # None
    /\ u.pc \in {"leg", "nested"} =>
         /\ Len(u.legs) < Len(Leg)
         /\ Leg[Len(u.legs) + 1] = "runway" => u.text \notin HasRunway
    /\ u.pc = "nested" => u.rows # None /\ Leg[Len(u.legs) + 1] = "runway"

\* A text read after the stat may be of a newer version than the key says; then no
\* file has that key any more, nor ever again.
KeyIsOf(a, place, mtime, text) ==
    mtime <= version /\ (text = mtime \/ file[<<a, place>>] # mtime)

KeyHolds(u) ==
    /\ u.pc = "read" => u.key <= version
    /\ u.pc \in InParse => KeyIsOf(u.icao, u.place, u.key, u.text)

\* What an undisturbed request has seen of its airport's files is still so.
FilesAsSeen(u) ==
    u.pc # "idle" /\ ~u.disturbed =>
        /\ u.start = Current(u.icao)
        /\ u.pc \in {"stat", "read"} \cup InParse => u.place = Winner(u.icao)
        /\ u.pc \in {"read"} \cup InParse => u.key = Current(u.icao)
        /\ u.pc \in InParse => u.text = Current(u.icao)

LegsFollow(x) == ~x.crossed => LegsOf(x.text, x.legs)

\* A request no publication overtook has all its coordinates from one connection c,
\* opened under the epoch of now; no connection is ahead of the path.
OneConnection(u, c) ==
    /\ c.gen <= path /\ u.seen <= path
    /\ u.pc # "idle" /\ ~u.overtaken =>
         /\ stage = "idle"
         /\ u.seen \in {None, path}
         /\ u.rows # None => u.rows = c.gen /\ c.tag = epoch
         /\ \A k \in DOMAIN u.legs : u.legs[k].source = "index" =>
              u.legs[k].at = c.gen /\ c.tag = epoch

RequestHolds(u, c) ==
    /\ Shape(u) /\ KeyHolds(u) /\ FilesAsSeen(u) /\ LegsFollow(u) /\ OneConnection(u, c)
    /\ u.pc = "idle" => AsOnDisk(u)

ParseHolds(e) ==
    /\ KeyIsOf(e.icao, e.place, e.mtime, e.text) /\ Len(e.legs) = Len(Leg)
    /\ LegsFollow(e) /\ CurrentParse(e)

Inv ==
    /\ TypeOK /\ Fields
    /\ \A t \in Thread : RequestHolds(thread[t], conn[t])
    /\ \A k \in DOMAIN cache : ParseHolds(cache[k])
=============================================================================
