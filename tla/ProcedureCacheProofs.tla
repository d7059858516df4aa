------------------------- MODULE ProcedureCacheProofs -------------------------
(***************************************************************************)
(* Proofs about ProcedureCache, for any number of threads, airports, legs, *)
(* files and publications and any size of the cache.  Inv says what holds  *)
(* of one request and its connection (RequestHolds) and of one remembered  *)
(* parse (ParseHolds).  A step of a request changes one of the first and   *)
(* adds or reorders the second: RequestStep states once what it owes, and  *)
(* each action shows that it pays.  The steps of the world - an installer, *)
(* a publication - change no request but its history, and are told one by  *)
(* one.                                                                    *)
(***************************************************************************)
EXTENDS ProcedureCache, SequenceTheorems, TLAPS

-----------------------------------------------------------------------------
(* The cache as a sequence.                                                 *)

\* A sequence without its k-th element.
LEMMA RemovedAt ==
    ASSUME NEW S, NEW s \in Seq(S), NEW k \in DOMAIN s
    PROVE  /\ RemoveAt(s, k) \in Seq(S) /\ Len(RemoveAt(s, k)) = Len(s) - 1
           /\ \A j \in 1 .. Len(s) - 1 : RemoveAt(s, k)[j] = IF j < k THEN s[j] ELSE s[j + 1]
<1> DEFINE front == SubSeq(s, 1, k - 1)
           back  == SubSeq(s, k + 1, Len(s))
<1>1. k \in 1 .. Len(s) /\ Len(s) \in Nat
  OBVIOUS
<1>2. front \in Seq(S) /\ Len(front) = k - 1 /\ \A j \in 1 .. k - 1 : front[j] = s[j]
  BY <1>1
<1>3. back \in Seq(S) /\ Len(back) = Len(s) - k /\ \A j \in 1 .. Len(s) - k : back[j] = s[k + j]
  BY <1>1
<1>4. RemoveAt(s, k) = front \o back
  BY DEF RemoveAt
<1> HIDE DEF front, back
<1>5. front \o back \in Seq(S) /\ Len(front \o back) = Len(s) - 1
  BY <1>1, <1>2, <1>3
<1>6. \A j \in 1 .. Len(s) - 1 : (front \o back)[j] = IF j < k THEN s[j] ELSE s[j + 1]
  <2>1. \A j \in 1 .. Len(front) + Len(back) :
          (front \o back)[j] = IF j <= Len(front) THEN front[j] ELSE back[j - Len(front)]
    BY <1>2, <1>3, ConcatProperties
  <2> QED
    BY SMTT(40), <2>1, <1>1, <1>2, <1>3
<1> QED
  BY <1>4, <1>5, <1>6

\* No two parses of one file.
Distinct(c) ==
    \A j, k \in DOMAIN c : j # k => ~IsFor(c[j], c[k].icao, c[k].place, c[k].mtime)

\* A cache with nothing in it that was not in c.
Within(d, c) == \A j \in DOMAIN d : \E k \in DOMAIN c : d[j] = c[k]

\* Taking one parse out leaves distinct ones, none of them of its file.
LEMMA TakenOut ==
    ASSUME NEW c \in Seq(Parse), Distinct(c), NEW k \in DOMAIN c
    PROVE  LET d == RemoveAt(c, k) IN
           /\ d \in Seq(Parse) /\ Len(d) = Len(c) - 1 /\ Distinct(d) /\ Within(d, c)
           /\ \A j \in DOMAIN d : ~IsFor(d[j], c[k].icao, c[k].place, c[k].mtime)
<1> DEFINE d == RemoveAt(c, k)
           old(j) == IF j < k THEN j ELSE j + 1
<1>1. /\ d \in Seq(Parse) /\ Len(d) = Len(c) - 1
      /\ \A j \in 1 .. Len(c) - 1 : d[j] = IF j < k THEN c[j] ELSE c[j + 1]
  BY RemovedAt
<1> HIDE DEF d
<1>2. DOMAIN d = 1 .. Len(c) - 1 /\ k \in 1 .. Len(c) /\ Len(c) \in Nat
  BY <1>1
<1>3. \A j \in DOMAIN d : old(j) \in DOMAIN c /\ d[j] = c[old(j)] /\ old(j) # k
  BY <1>1, <1>2
<1>4. \A i, j \in DOMAIN d : i # j => old(i) # old(j)
  BY <1>2
<1> HIDE DEF old
<1>5. Within(d, c)
  BY <1>3 DEF Within
<1>6. Distinct(d) /\ \A j \in DOMAIN d : ~IsFor(d[j], c[k].icao, c[k].place, c[k].mtime)
  BY <1>3, <1>4 DEF Distinct
<1> QED
  BY <1>1, <1>5, <1>6 DEF d

\* A parse of another file at the end keeps them distinct.
LEMMA PutLast ==
    ASSUME NEW c \in Seq(Parse), Distinct(c), NEW e \in Parse,
           \A j \in DOMAIN c : ~IsFor(c[j], e.icao, e.place, e.mtime)
    PROVE  LET d == Append(c, e) IN
           /\ d \in Seq(Parse) /\ Len(d) = Len(c) + 1 /\ Distinct(d)
           /\ \A j \in DOMAIN d : d[j] = e \/ \E k \in DOMAIN c : d[j] = c[k]
<1> DEFINE d == Append(c, e)
<1>1. /\ d \in Seq(Parse) /\ Len(d) = Len(c) + 1 /\ DOMAIN d = 1 .. Len(c) + 1
      /\ DOMAIN c = 1 .. Len(c) /\ Len(c) \in Nat
      /\ d[Len(c) + 1] = e /\ \A j \in DOMAIN c : d[j] = c[j]
  OBVIOUS
<1> HIDE DEF d
<1>2. \A j \in DOMAIN d : j = Len(c) + 1 \/ j \in DOMAIN c
  BY <1>1
<1>3. Distinct(d)
  <2> SUFFICES ASSUME NEW j \in DOMAIN d, NEW k \in DOMAIN d, j # k
               PROVE  ~IsFor(d[j], d[k].icao, d[k].place, d[k].mtime)
    BY DEF Distinct
  <2>1. CASE j \in DOMAIN c /\ k \in DOMAIN c
    BY <2>1, <1>1 DEF Distinct
  <2>2. CASE j \in DOMAIN c /\ k = Len(c) + 1
    BY <2>2, <1>1
  <2>3. CASE j = Len(c) + 1 /\ k \in DOMAIN c
    BY <2>3, <1>1 DEF IsFor
  <2> QED
    BY <2>1, <2>2, <2>3, <1>2
<1> QED
  BY <1>1, <1>2, <1>3 DEF d

\* move_to_end keeps what the cache holds.
LEMMA MoveKeeps ==
    ASSUME cache \in Seq(Parse), Distinct(cache), NEW k \in DOMAIN cache
    PROVE  LET d == MovedToEnd(k) IN
           d \in Seq(Parse) /\ Len(d) = Len(cache) /\ Distinct(d) /\ Within(d, cache)
<1> DEFINE c == RemoveAt(cache, k)
           d == Append(c, cache[k])
<1>1. /\ c \in Seq(Parse) /\ Len(c) = Len(cache) - 1 /\ Distinct(c) /\ Within(c, cache)
      /\ \A j \in DOMAIN c : ~IsFor(c[j], cache[k].icao, cache[k].place, cache[k].mtime)
  BY TakenOut
<1>2. cache[k] \in Parse /\ Len(cache) \in Nat
  OBVIOUS
<1> HIDE DEF c
<1>3. /\ d \in Seq(Parse) /\ Len(d) = Len(c) + 1 /\ Distinct(d)
      /\ \A j \in DOMAIN d : d[j] = cache[k] \/ \E i \in DOMAIN c : d[j] = c[i]
  BY <1>1, <1>2, PutLast
<1> HIDE DEF d
<1>4. Within(d, cache) /\ Len(d) = Len(cache)
  BY <1>1, <1>2, <1>3 DEF Within
<1>5. MovedToEnd(k) = d
  BY DEF MovedToEnd, d, c
<1> QED
  BY <1>3, <1>4, <1>5

\* _remember: the new parse, others of other files, and no more than the bound.
LEMMA RememberedCache ==
    ASSUME cache \in Seq(Parse), Distinct(cache), NEW e \in Parse
    PROVE  LET all == Append(Others(e.icao, e.place, e.mtime), e)
               n == IF Len(all) < MaxEntries THEN Len(all) ELSE MaxEntries
               d == SubSeq(all, Len(all) - n + 1, Len(all))
           IN  /\ d \in Seq(Parse) /\ Len(d) <= MaxEntries /\ Distinct(d)
               /\ \A j \in DOMAIN d : d[j] = e \/ \E k \in DOMAIN cache : d[j] = cache[k]
<1> DEFINE others == Others(e.icao, e.place, e.mtime)
           all == Append(others, e)
           n == IF Len(all) < MaxEntries THEN Len(all) ELSE MaxEntries
           first == Len(all) - n + 1
           d == SubSeq(all, first, Len(all))
<1>1. /\ others \in Seq(Parse) /\ Distinct(others) /\ Within(others, cache)
      /\ \A j \in DOMAIN others : ~IsFor(others[j], e.icao, e.place, e.mtime)
  <2> DEFINE held == Held(e.icao, e.place, e.mtime)
             k == CHOOSE i \in held : TRUE
  <2>1. CASE held = {}
    <3>1. others = cache
      BY <2>1 DEF Others
    <3>2. \A j \in DOMAIN cache : ~IsFor(cache[j], e.icao, e.place, e.mtime)
      BY <2>1 DEF Held
    <3> QED
      BY <3>1, <3>2 DEF Within
  <2>2. CASE held # {}
    <3>1. k \in held
      BY <2>2
    <3>2. others = RemoveAt(cache, k)
      BY <2>2 DEF Others
    <3>3. k \in DOMAIN cache /\ IsFor(cache[k], e.icao, e.place, e.mtime)
      BY <3>1 DEF Held
    <3> HIDE DEF k, held, others
    <3>4. LET r == RemoveAt(cache, k) IN
          /\ r \in Seq(Parse) /\ Distinct(r) /\ Within(r, cache)
          /\ \A j \in DOMAIN r : ~IsFor(r[j], cache[k].icao, cache[k].place, cache[k].mtime)
      BY <3>3, TakenOut
    <3> QED
      BY <3>2, <3>3, <3>4 DEF IsFor
  <2> QED
    BY <2>1, <2>2
<1> HIDE DEF others
<1>2. /\ all \in Seq(Parse) /\ Distinct(all) /\ Len(all) \in Nat \ {0}
      /\ \A j \in DOMAIN all : all[j] = e \/ \E k \in DOMAIN others : all[j] = others[k]
  BY <1>1, PutLast
<1>3. \A j \in DOMAIN all : all[j] = e \/ \E k \in DOMAIN cache : all[j] = cache[k]
  BY <1>1, <1>2 DEF Within
<1> HIDE DEF all
<1>4. n \in 1 .. Len(all) /\ n <= MaxEntries
  BY <1>2, CacheAssumption
<1> HIDE DEF n
<1>5. first \in 1 .. Len(all) /\ Len(all) - first + 1 = n
  BY <1>2, <1>4
<1> HIDE DEF first
<1>6. /\ d \in Seq(Parse) /\ Len(d) = n
      /\ \A j \in 1 .. n : d[j] = all[first + j - 1]
  <2>1. /\ first \in Int /\ Len(all) \in Int /\ first <= Len(all)
        /\ \A j \in first .. Len(all) : all[j] \in Parse
    BY <1>2, <1>5
  <2> QED
    BY <2>1, <1>5, SubSeqProperties
<1> HIDE DEF d
<1>7. \A j \in DOMAIN d : first + j - 1 \in DOMAIN all /\ d[j] = all[first + j - 1]
  BY <1>2, <1>4, <1>5, <1>6
<1>8. \A i, j \in DOMAIN d : i # j => first + i - 1 # first + j - 1
  BY <1>5, <1>6
<1>9. Distinct(d)
  BY <1>2, <1>7, <1>8 DEF Distinct
<1> QED
  BY <1>3, <1>4, <1>6, <1>7, <1>9, ZenonT(40) DEF others, all, n, first, d

-----------------------------------------------------------------------------
(* The records of a request.                                                *)

\* The bounds, without the rest of the assumption.
LEMMA BoundsAreNats == MaxVersion \in Nat /\ MaxGen \in Nat /\ MaxEntries \in Nat
BY CacheAssumption

\* A thread without a request.
LEMMA IdleIsRequest ==
    /\ Idle \in Request
    /\ Idle.op = "idle" /\ Idle.pc = "idle" /\ Idle.legs = <<>> /\ Idle.text = None
    /\ Idle.key = None /\ Idle.rows = None /\ Idle.seen = None /\ Idle.answer = "none"
    /\ ~Idle.disturbed /\ ~Idle.overtaken /\ ~Idle.crossed
<1>1. (CHOOSE a \in Airport : TRUE) \in Airport
  BY CacheAssumption
<1>2. 0 \in 0 .. MaxVersion /\ 0 \in 0 .. MaxGen /\ "default" \in Place
  BY CacheAssumption DEF Place
<1>3. <<>> \in Seq(Coordinate)
  OBVIOUS
<1> QED
  BY <1>1, <1>2, <1>3 DEF Idle, Request, None

\* What is left of a request that was answered.
LEMMA AnsweredIs ==
    ASSUME NEW u \in Request, NEW a \in {"ok", "absent", "unavailable"}
    PROVE  /\ Answered(u, a) \in Request
           /\ Answered(u, a).pc = "idle" /\ Answered(u, a).answer = a
           /\ Answered(u, a).text = u.text /\ Answered(u, a).legs = u.legs
           /\ Answered(u, a).start = u.start /\ Answered(u, a).disturbed = u.disturbed
           /\ Answered(u, a).crossed = u.crossed
           /\ Answered(u, a).rows = None /\ Answered(u, a).seen = None
<1>1. PICK i \in Request : i = Idle
  BY IdleIsRequest
<1> DEFINE w == [i EXCEPT !.op = u.op, !.icao = u.icao, !.text = u.text, !.legs = u.legs,
                   !.answer = a, !.start = u.start, !.disturbed = u.disturbed,
                   !.crossed = u.crossed]
<1>2. /\ w \in Request /\ w.pc = i.pc /\ w.answer = a /\ w.text = u.text /\ w.legs = u.legs
      /\ w.start = u.start /\ w.disturbed = u.disturbed /\ w.crossed = u.crossed
      /\ w.rows = i.rows /\ w.seen = i.seen
  BY DEF Request
<1>3. Answered(u, a) = w
  BY <1>1 DEF Answered
<1> HIDE DEF w
<1> QED
  BY <1>1, <1>2, <1>3, IdleIsRequest

\* A request answered from the cache has the legs of the parse.
LEMMA HitIs ==
    ASSUME NEW u \in Request, NEW e \in Parse
    PROVE  /\ Hit(u, e) \in Request
           /\ Hit(u, e).pc = "idle" /\ Hit(u, e).answer = "ok"
           /\ Hit(u, e).text = e.text /\ Hit(u, e).legs = e.legs
           /\ Hit(u, e).start = u.start /\ Hit(u, e).disturbed = u.disturbed
           /\ Hit(u, e).crossed = e.crossed
           /\ Hit(u, e).rows = None /\ Hit(u, e).seen = None
<1>1. PICK v \in Request : v = Answered(u, "ok")
  BY AnsweredIs
<1>2. /\ v.pc = "idle" /\ v.answer = "ok" /\ v.start = u.start /\ v.disturbed = u.disturbed
      /\ v.rows = None /\ v.seen = None
  BY <1>1, AnsweredIs
<1>3. /\ e.text \in 0 .. MaxVersion /\ e.legs \in Seq(Coordinate) /\ e.crossed \in BOOLEAN
  BY DEF Parse
<1> DEFINE w == [v EXCEPT !.text = e.text, !.legs = e.legs, !.crossed = e.crossed]
<1>4. /\ w \in Request /\ w.pc = v.pc /\ w.answer = v.answer /\ w.text = e.text /\ w.legs = e.legs
      /\ w.start = v.start /\ w.disturbed = v.disturbed /\ w.crossed = e.crossed
      /\ w.rows = v.rows /\ w.seen = v.seen
  BY <1>3 DEF Request
<1>5. Hit(u, e) = w
  BY <1>1 DEF Hit
<1> HIDE DEF w
<1> QED
  BY <1>2, <1>4, <1>5

\* One leg more.
LEMMA ResolvedIs ==
    ASSUME NEW u \in Request, NEW c \in Coordinate
    PROVE  /\ Resolved(u, c) \in Request
           /\ Resolved(u, c).pc = "legs" /\ Resolved(u, c).legs = Append(u.legs, c)
           /\ Resolved(u, c).seen = None /\ Resolved(u, c).rows = u.rows
           /\ Resolved(u, c).icao = u.icao /\ Resolved(u, c).place = u.place
           /\ Resolved(u, c).key = u.key /\ Resolved(u, c).text = u.text
           /\ Resolved(u, c).start = u.start /\ Resolved(u, c).disturbed = u.disturbed
           /\ Resolved(u, c).overtaken = u.overtaken /\ Resolved(u, c).crossed = u.crossed
<1>1. Append(u.legs, c) \in Seq(Coordinate) /\ None \in 0 .. MaxGen /\ "legs" \in InParse
  <2>1. u.legs \in Seq(Coordinate)
    BY DEF Request
  <2>2. Append(u.legs, c) \in Seq(Coordinate)
    BY <2>1
  <2> QED
    BY <2>2, CacheAssumption DEF None, InParse
<1> DEFINE w == [u EXCEPT !.pc = "legs", !.legs = Append(@, c), !.seen = None]
<1>2. /\ w \in Request /\ w.pc = "legs" /\ w.legs = Append(u.legs, c) /\ w.seen = None
      /\ w.rows = u.rows /\ w.icao = u.icao /\ w.place = u.place /\ w.key = u.key
      /\ w.text = u.text /\ w.start = u.start /\ w.disturbed = u.disturbed
      /\ w.overtaken = u.overtaken /\ w.crossed = u.crossed
  BY <1>1 DEF Request
<1>3. Resolved(u, c) = w
  BY DEF Resolved
<1> HIDE DEF w
<1> QED
  BY <1>2, <1>3

\* Coordinates by where they come from.
LEMMA CoordinateIs ==
    /\ \A v \in 1 .. MaxVersion : FromFile(v) \in Coordinate /\ FromFile(v).source = "file"
    /\ \A g \in 1 .. MaxGen : /\ FromIndex(g) \in Coordinate /\ FromIndex(g).source = "index"
                             /\ FromIndex(g).at = g
BY DEF FromFile, FromIndex, Coordinate

\* What the invariant says of the request of one thread.
LEMMA OfThread ==
    ASSUME Inv, NEW t \in Thread
    PROVE  /\ thread[t] \in Request /\ conn[t] \in Conn
           /\ RequestHolds(thread[t], conn[t])
           /\ parsing[t] = IF thread[t].pc \in InParse THEN {thread[t].icao} ELSE {}
           /\ cache \in Seq(Parse) /\ Distinct(cache) /\ Len(cache) <= MaxEntries
           /\ \A k \in DOMAIN cache : cache[k] \in Parse /\ ParseHolds(cache[k])
BY DEF Inv, TypeOK, Fields, InParse, Distinct

\* The files and the index, by their types.
LEMMA OfWorld ==
    ASSUME Inv
    PROVE  /\ file \in [Airport \X Place -> 0 .. MaxVersion] /\ version \in 1 .. MaxVersion
           /\ path \in 0 .. MaxGen /\ epoch \in 0 .. MaxGen /\ (stage = "idle" => path = epoch)
           /\ \A a \in Airport : /\ Winner(a) \in Place /\ Current(a) = file[<<a, Winner(a)>>]
                                /\ Current(a) \in 0 .. version /\ version <= MaxVersion
           /\ \A a \in Airport, p \in Place : file[<<a, p>>] \in 0 .. version
<1>1. /\ file \in [Airport \X Place -> 0 .. MaxVersion] /\ version \in 1 .. MaxVersion
      /\ path \in 0 .. MaxGen /\ epoch \in 0 .. MaxGen
      /\ (path = epoch + 1) = (stage = "path") /\ path - epoch \in 0 .. 1
  BY DEF Inv, TypeOK
<1>0. \A x \in Airport \X Place : file[x] <= version
  BY DEF Inv, Fields
<1>2. \A a \in Airport : Winner(a) \in Place /\ Current(a) = file[<<a, Winner(a)>>]
  BY DEF Winner, Place, Current
<1>3. \A a \in Airport, p \in Place : file[<<a, p>>] \in 0 .. version
  <2> TAKE a \in Airport, p \in Place
  <2>1. <<a, p>> \in Airport \X Place
    OBVIOUS
  <2> QED
    BY <2>1, <1>0, <1>1
<1>4. stage = "idle" => path = epoch
  BY <1>1
<1> QED
  BY <1>1, <1>2, <1>3, <1>4

\* What a step of one request owes: it and what it leaves in the cache are as they
\* should be; the rest of the invariant follows.
LEMMA RequestStep ==
    ASSUME Inv, NEW t \in Thread, NEW w \in Request, NEW c \in Conn, NEW d \in Seq(Parse),
           Set(t, w), UNCHANGED world,
           conn' = [conn EXCEPT ![t] = c],
           parsing' = [parsing EXCEPT ![t] = IF w.pc \in InParse THEN {w.icao} ELSE {}],
           cache' = d, Distinct(d), Len(d) <= MaxEntries, \A j \in DOMAIN d : ParseHolds(d[j]),
           RequestHolds(w, c)
    PROVE  Inv'
<1>1. /\ file' = file /\ version' = version /\ path' = path /\ epoch' = epoch /\ stage' = stage
  BY DEF world
<1>2. /\ thread' = [thread EXCEPT ![t] = w] /\ thread \in [Thread -> Request]
      /\ conn \in [Thread -> Conn] /\ parsing \in [Thread -> SUBSET Airport]
  BY DEF Set, Inv, Fields
<1>3. \A s \in Thread : /\ thread'[s] = IF s = t THEN w ELSE thread[s]
                        /\ conn'[s] = IF s = t THEN c ELSE conn[s]
  BY <1>2
<1>4. {w.icao} \subseteq Airport
  BY DEF Request
<1>5. /\ thread' \in [Thread -> Request] /\ conn' \in [Thread -> Conn]
      /\ parsing' \in [Thread -> SUBSET Airport]
  BY <1>2, <1>4
<1>6. Fields'
  BY <1>1, <1>5 DEF Inv, Fields
<1>7. \A s \in Thread : parsing'[s] = IF thread'[s].pc \in InParse THEN {thread'[s].icao} ELSE {}
  <2> TAKE s \in Thread
  <2>1. CASE s = t
    BY <2>1, <1>2, <1>3
  <2>2. CASE s # t
    BY <2>2, <1>2, <1>3, OfThread
  <2> QED
    BY <2>1, <2>2
<1>8. TypeOK'
  <2>1. \A s \in Thread : thread'[s] \in Request /\ conn'[s] \in Conn
    BY <1>5
  <2>2. \A s \in Thread : /\ \A k \in DOMAIN thread'[s].legs : thread'[s].legs[k] \in Coordinate
                          /\ conn'[s].gen \in 0 .. MaxGen /\ conn'[s].tag \in -1 .. MaxGen
    <3> TAKE s \in Thread
    <3>1. thread'[s].legs \in Seq(Coordinate)
      BY <2>1 DEF Request
    <3>2. \A k \in DOMAIN thread'[s].legs : thread'[s].legs[k] \in Coordinate
      BY <3>1
    <3> QED
      BY <2>1, <3>2 DEF Conn
  <2>3. \A j, k \in DOMAIN d : j # k => ~IsFor(d[j], d[k].icao, d[k].place, d[k].mtime)
    BY DEF Distinct
  <2>4. /\ file \in [Airport \X Place -> 0 .. MaxVersion] /\ version \in 1 .. MaxVersion
        /\ path \in 0 .. MaxGen /\ epoch \in 0 .. MaxGen
        /\ (path = epoch + 1) = (stage = "path") /\ path - epoch \in 0 .. 1
    BY DEF Inv, TypeOK
  <2>5. /\ file' \in [Airport \X Place -> 0 .. MaxVersion] /\ version' \in 1 .. MaxVersion
        /\ path' \in 0 .. MaxGen /\ epoch' \in 0 .. MaxGen
        /\ (path' = epoch' + 1) = (stage' = "path") /\ path' - epoch' \in 0 .. 1
    BY <2>4, <1>1
  <2>6. /\ Len(cache') <= MaxEntries
        /\ \A j, k \in DOMAIN cache' : j # k =>
             ~IsFor(cache'[j], cache'[k].icao, cache'[k].place, cache'[k].mtime)
    BY <2>3
  <2>7. \A s \in Thread :
          /\ parsing'[s] = (IF thread'[s].pc \in {"legs", "leg", "nested"}
                            THEN {thread'[s].icao} ELSE {})
          /\ \A k \in DOMAIN thread'[s].legs : thread'[s].legs[k] \in Coordinate
          /\ conn'[s].gen \in 0 .. MaxGen /\ conn'[s].tag \in -1 .. MaxGen
    BY <2>2, <1>7 DEF InParse
  <2> QED
    BY <2>5, <2>6, <2>7 DEF TypeOK
<1>9. (\A s \in Thread : RequestHolds(thread[s], conn[s]))'
  <2> SUFFICES ASSUME NEW s \in Thread
               PROVE  RequestHolds(thread[s], conn[s])'
    OBVIOUS
  <2>1. PICK u, k : u = thread'[s] /\ k = conn'[s]
    OBVIOUS
  <2>2. RequestHolds(u, k)
    BY <2>1, <1>3, OfThread
  <2>3. RequestHolds(u, k)'
    BY <2>2, <1>1 DEF RequestHolds, Shape, KeyHolds, KeyIsOf, FilesAsSeen, Winner, Current,
                      LegsFollow, LegsOf, OneConnection, AsOnDisk
  <2> QED
    BY <2>1, <2>3
<1>10. (\A k \in DOMAIN cache : ParseHolds(cache[k]))'
  BY <1>1 DEF ParseHolds, KeyIsOf, LegsFollow, LegsOf, CurrentParse
<1> QED
  BY <1>6, <1>8, <1>9, <1>10 DEF Inv

\* The same of a step that leaves connection, cache and what is parsed.
LEMMA PlainStep ==
    ASSUME Inv, NEW t \in Thread, NEW w \in Request,
           Set(t, w), UNCHANGED <<world, cache, parsing, conn>>,
           w.pc \in InParse <=> thread[t].pc \in InParse,
           w.pc \in InParse => w.icao = thread[t].icao,
           RequestHolds(w, conn[t])
    PROVE  Inv'
<1>1. /\ conn[t] \in Conn /\ cache \in Seq(Parse) /\ Distinct(cache) /\ Len(cache) <= MaxEntries
      /\ \A k \in DOMAIN cache : ParseHolds(cache[k])
      /\ parsing[t] = IF thread[t].pc \in InParse THEN {thread[t].icao} ELSE {}
  BY OfThread
<1>2. conn \in [Thread -> Conn] /\ parsing \in [Thread -> SUBSET Airport]
  BY DEF Inv, Fields
<1>3. /\ conn' = [conn EXCEPT ![t] = conn[t]]
      /\ parsing' = [parsing EXCEPT ![t] = IF w.pc \in InParse THEN {w.icao} ELSE {}]
  BY <1>1, <1>2
<1>4. UNCHANGED world /\ cache' = cache
  BY DEF world
<1> QED
  BY <1>1, <1>3, <1>4, RequestStep

-----------------------------------------------------------------------------
(* The steps of a request.                                                  *)

\* Two facts about the legs as sequences.
LEMMA NoLegs == Len(<<>>) = 0 /\ \A k \in DOMAIN <<>> : FALSE
BY EmptySeq

\* The next leg is one the provider is asked for.
LegAsked(u) ==
    Len(u.legs) < Len(Leg) /\ (Leg[Len(u.legs) + 1] = "runway" => u.text \notin HasRunway)

LEMMA LegsAreMany == Leg \in Seq({"fix", "runway"}) /\ Len(Leg) \in Nat /\ DOMAIN Leg = 1 .. Len(Leg)
BY CacheAssumption

\* A request begins with what its airport's files are now.
LEMMA BeginKeeps ==
    ASSUME Inv, NEW t \in Thread, NEW a \in Airport, NEW op \in {"runways", "procedures"},
           Begin(t, a, op)
    PROVE  Inv'
<1>1. PICK i \in Request : i = Idle
  BY IdleIsRequest
<1> DEFINE pc == IF op = "runways" THEN "path" ELSE "resolve"
           now == Current(a)
           late == stage # "idle"
           w == [i EXCEPT !.op = op, !.icao = a, !.pc = pc, !.start = now, !.overtaken = late]
<1>2. now \in 0 .. MaxVersion /\ late \in BOOLEAN /\ (stage = "idle" => path = epoch)
      /\ path \in 0 .. MaxGen
  BY OfWorld
<1>3. pc \in {"path", "resolve"}
  OBVIOUS
<1> HIDE DEF pc
<1>4. /\ w \in Request /\ w.pc = pc /\ w.icao = a /\ w.start = now /\ w.overtaken = late
      /\ w.legs = i.legs /\ w.seen = i.seen /\ w.rows = i.rows /\ w.crossed = i.crossed
      /\ w.disturbed = i.disturbed /\ w.answer = i.answer
  BY <1>2, <1>3 DEF Request
<1>5. Set(t, w) /\ thread[t].pc = "idle" /\ UNCHANGED <<world, cache, parsing, conn>>
  BY <1>1 DEF Begin, At, pc
<1> HIDE DEF w
<1>6. /\ w.legs = <<>> /\ w.seen = 0 /\ w.rows = 0 /\ ~w.crossed /\ w.answer = "none"
      /\ w.pc \notin InParse /\ w.pc \in {"path", "resolve"}
  BY <1>1, <1>3, <1>4, IdleIsRequest DEF None, InParse
<1>7. RequestHolds(w, conn[t])
  <2>1. Shape(w) /\ KeyHolds(w) /\ LegsFollow(w)
    <3>1. Len(w.legs) <= Len(Leg) /\ \A k \in DOMAIN w.legs : FALSE
      BY <1>6, NoLegs, LegsAreMany
    <3>2. w.pc # "read" /\ w.pc \notin {"rows", "leg"} /\ w.pc \notin {"leg", "nested"}
          /\ w.pc # "nested"
      BY <1>6
    <3> QED
      <4>1. LegsFollow(w)
        BY <3>1 DEF LegsFollow, LegsOf
      <4>2. KeyHolds(w)
        BY <1>6, <3>2 DEF KeyHolds
      <4>3. Shape(w)
        BY <1>6, <3>1, <3>2 DEF Shape
      <4> QED
        BY <4>1, <4>2, <4>3
  <2>2. FilesAsSeen(w)
    BY <1>4, <1>6 DEF FilesAsSeen, InParse
  <2>3. conn[t].gen <= path
    BY OfThread DEF RequestHolds, OneConnection
  <2>4. OneConnection(w, conn[t])
    <3>1. ~w.overtaken => stage = "idle"
      BY <1>4
    <3>2. \A k \in DOMAIN w.legs : FALSE
      BY <1>6, NoLegs
    <3>3. w.seen = None /\ w.rows = None
      BY <1>6 DEF None
    <3>5. w.seen <= path
      BY <1>2, <1>6, BoundsAreNats
    <3> QED
      BY <2>3, <3>1, <3>2, <3>3, <3>5 DEF OneConnection
  <2> QED
    BY <2>1, <2>2, <2>4, <1>6 DEF RequestHolds
<1> QED
  BY <1>4, <1>5, <1>6, <1>7, PlainStep DEF InParse

\* An answer that holds ends a request, wherever it was.
LEMMA AnswerStep ==
    ASSUME Inv, NEW t \in Thread, NEW w \in Request, w.pc = "idle", AsOnDisk(w), LegsFollow(w),
           Len(w.legs) <= Len(Leg), w.seen = None,
           Set(t, w), UNCHANGED <<world, conn>>,
           parsing' = [parsing EXCEPT ![t] = {}],
           NEW d \in Seq(Parse), cache' = d, Distinct(d), Len(d) <= MaxEntries,
           \A j \in DOMAIN d : ParseHolds(d[j])
    PROVE  Inv'
<1>1. conn[t] \in Conn /\ conn[t].gen <= path /\ conn \in [Thread -> Conn] /\ path \in 0 .. MaxGen
  BY OfThread, OfWorld DEF RequestHolds, OneConnection, Inv, Fields
<1>2. RequestHolds(w, conn[t])
  BY <1>1 DEF RequestHolds, Shape, KeyHolds, FilesAsSeen, OneConnection, InParse, None
<1>3. conn' = [conn EXCEPT ![t] = conn[t]] /\ w.pc \notin InParse
  BY <1>1 DEF InParse
<1> QED
  BY <1>1, <1>2, <1>3, RequestStep

\* The same where nothing else changes.
LEMMA EndStep ==
    ASSUME Inv, NEW t \in Thread, NEW w \in Request, w.pc = "idle", AsOnDisk(w), LegsFollow(w),
           Len(w.legs) <= Len(Leg), w.seen = None,
           Set(t, w), UNCHANGED <<world, cache, conn>>,
           \/ parsing' = [parsing EXCEPT ![t] = {}]
           \/ thread[t].pc \notin InParse /\ parsing' = parsing
    PROVE  Inv'
<1>1. /\ cache \in Seq(Parse) /\ Distinct(cache) /\ Len(cache) <= MaxEntries
      /\ \A k \in DOMAIN cache : ParseHolds(cache[k])
      /\ parsing[t] = IF thread[t].pc \in InParse THEN {thread[t].icao} ELSE {}
  BY OfThread
<1>2. parsing \in [Thread -> SUBSET Airport]
  BY DEF Inv, Fields
<1>3. parsing' = [parsing EXCEPT ![t] = {}]
  BY <1>1, <1>2
<1>4. UNCHANGED <<world, conn>> /\ cache' = cache
  OBVIOUS
<1> QED
  BY <1>1, <1>3, <1>4, AnswerStep

\* The path, or the end of the request.
LEMMA ReadPathKeeps ==
    ASSUME Inv, NEW t \in Thread, NEW pc, NEW next, ReadPath(t, pc, next),
           \/ pc = "path" /\ next = "rows"
           \/ pc = "legs" /\ next = "leg" /\ LegAsked(thread[t])
    PROVE  Inv'
<1>1. PICK u \in Request : u = thread[t]
  BY OfThread
<1>2. RequestHolds(u, conn[t]) /\ u.pc = pc /\ path \in 0 .. MaxGen
  BY <1>1, OfThread, OfWorld DEF ReadPath, At
<1>3. CASE path = None
  <2>1. PICK w \in Request : w = Answered(u, "unavailable")
    BY AnsweredIs
  <2>2. /\ w.pc = "idle" /\ w.answer = "unavailable" /\ w.text = u.text /\ w.legs = u.legs
        /\ w.crossed = u.crossed /\ w.seen = None
    BY <2>1, AnsweredIs
  <2>3. Set(t, w) /\ UNCHANGED <<world, cache, conn>> /\ parsing' = [parsing EXCEPT ![t] = {}]
    BY <1>1, <1>3, <2>1 DEF ReadPath
  <2>4. AsOnDisk(w) /\ LegsFollow(w) /\ Len(w.legs) <= Len(Leg)
    <3>1. LegsFollow(w)
      BY <1>2, <2>2 DEF RequestHolds, LegsFollow
    <3>2. Len(w.legs) <= Len(Leg)
      BY <1>2, <2>2 DEF RequestHolds, Shape
    <3> QED
      BY <2>2, <3>1, <3>2 DEF AsOnDisk
  <2>5. w.pc = "idle" /\ w.seen = None
    BY <2>2
  <2> QED
    BY <2>3, <2>4, <2>5, EndStep
<1>4. CASE path # None
  <2> DEFINE w == [u EXCEPT !.pc = next, !.seen = path]
  <2>1. next \in {"rows", "leg"} /\ path \in 0 .. MaxGen
    BY <1>2
  <2>2. /\ w \in Request /\ w.pc = next /\ w.seen = path /\ w.icao = u.icao /\ w.place = u.place
        /\ w.key = u.key /\ w.text = u.text /\ w.legs = u.legs /\ w.rows = u.rows
        /\ w.start = u.start /\ w.disturbed = u.disturbed /\ w.overtaken = u.overtaken
        /\ w.crossed = u.crossed
    BY <2>1 DEF Request, InParse
  <2>3. Set(t, w) /\ UNCHANGED <<world, cache, parsing, conn>>
    BY <1>1, <1>4 DEF ReadPath
  <2> HIDE DEF w
  <2>4. Shape(w)
    BY <1>1, <1>2, <1>4, <2>2 DEF RequestHolds, Shape, InParse, LegAsked
  <2>5. KeyHolds(w) /\ FilesAsSeen(w) /\ LegsFollow(w)
    <3>1. LegsFollow(w)
      BY <1>2, <2>2 DEF RequestHolds, LegsFollow
    <3>2. KeyHolds(w)
      BY <1>2, <2>1, <2>2 DEF RequestHolds, KeyHolds, InParse
    <3>3. FilesAsSeen(w)
      BY <1>2, <2>1, <2>2 DEF RequestHolds, FilesAsSeen, InParse
    <3> QED
      BY <3>1, <3>2, <3>3
  <2>6. OneConnection(w, conn[t])
    <3>1. PICK c \in Conn : c = conn[t]
      BY OfThread
    <3>2. OneConnection(u, c)
      BY <1>2, <3>1 DEF RequestHolds
    <3>3. u.pc # "idle"
      BY <1>2
    <3>5. path <= path
      BY <1>2, BoundsAreNats
    <3>4. OneConnection(w, c)
      BY <2>2, <3>2, <3>3, <3>5 DEF OneConnection
    <3> QED
      BY <3>1, <3>4
  <2>7. RequestHolds(w, conn[t])
    BY <2>1, <2>2, <2>4, <2>5, <2>6 DEF RequestHolds
  <2>8. (w.pc \in InParse <=> thread[t].pc \in InParse) /\ w.icao = thread[t].icao
    BY <1>1, <1>2, <2>2 DEF InParse
  <2> QED
    BY <2>2, <2>3, <2>7, <2>8, PlainStep
<1> QED
  BY <1>3, <1>4

\* The connection a query is made with: of the path read, or of this epoch.
LEMMA ConnectionIs ==
    ASSUME Inv, NEW t \in Thread, thread[t].seen # None
    PROVE  /\ Connection(t) \in Conn /\ Connection(t).gen \in 1 .. MaxGen
           /\ Connection(t).gen <= path /\ Connection(t).tag = epoch
           /\ conn[t].gen # None /\ conn[t].tag = epoch => Connection(t) = conn[t]
<1>1. PICK c \in Conn : c = conn[t]
  BY OfThread
<1>2. /\ c.gen \in 0 .. MaxGen /\ c.tag \in -1 .. MaxGen /\ c.gen <= path
      /\ thread[t].seen \in 0 .. MaxGen /\ thread[t].seen <= path
      /\ epoch \in 0 .. MaxGen /\ path \in 0 .. MaxGen
  BY <1>1, OfThread, OfWorld DEF Conn, Request, RequestHolds, OneConnection
<1>3. CASE c.gen # None /\ c.tag = epoch
  BY <1>1, <1>2, <1>3 DEF Connection, None
<1>4. CASE ~(c.gen # None /\ c.tag = epoch)
  <2>1. Connection(t) = [gen |-> thread[t].seen, tag |-> epoch]
    BY <1>1, <1>4 DEF Connection
  <2>2. Connection(t) \in Conn
    BY <2>1, <1>2 DEF Conn
  <2> QED
    BY <2>1, <2>2, <1>1, <1>2, <1>4 DEF None
<1> QED
  BY <1>3, <1>4

\* The same of a step that makes a query and leaves the rest.
LEMMA QueryStep ==
    ASSUME Inv, NEW t \in Thread, NEW w \in Request, Query(t, w), thread[t].seen # None,
           w.pc \in InParse <=> thread[t].pc \in InParse,
           w.pc \in InParse => w.icao = thread[t].icao,
           RequestHolds(w, Connection(t))
    PROVE  Inv'
<1>1. /\ cache \in Seq(Parse) /\ Distinct(cache) /\ Len(cache) <= MaxEntries
      /\ \A k \in DOMAIN cache : ParseHolds(cache[k])
      /\ parsing[t] = IF thread[t].pc \in InParse THEN {thread[t].icao} ELSE {}
  BY OfThread
<1>2. parsing \in [Thread -> SUBSET Airport]
  BY DEF Inv, Fields
<1>3. parsing' = [parsing EXCEPT ![t] = IF w.pc \in InParse THEN {w.icao} ELSE {}]
  BY <1>1, <1>2 DEF Query
<1>4. UNCHANGED world /\ cache' = cache /\ conn' = [conn EXCEPT ![t] = Connection(t)] /\ Set(t, w)
  BY DEF Query
<1>5. Connection(t) \in Conn
  BY ConnectionIs
<1> QED
  BY <1>1, <1>3, <1>4, <1>5, RequestStep

\* The rows of the index, and on to the file.
LEMMA RunwayRowsKeeps ==
    ASSUME Inv, NEW t \in Thread, RunwayRows(t)
    PROVE  Inv'
<1>1. PICK u \in Request : u = thread[t]
  BY OfThread
<1>2. PICK c \in Conn : c = Connection(t)
  BY <1>1, OfThread, ConnectionIs DEF RunwayRows, At, RequestHolds, Shape
<1>3. u.pc = "rows" /\ RequestHolds(u, conn[t]) /\ Query(t, [u EXCEPT !.pc = "resolve", !.rows = c.gen])
  BY <1>1, <1>2, OfThread DEF RunwayRows, At
<1>4. u.seen # None /\ u.legs = <<>> /\ ~u.crossed
  BY <1>3 DEF RequestHolds, Shape, InParse
<1>5. /\ c.gen \in 1 .. MaxGen /\ c.gen <= path /\ c.tag = epoch
  BY <1>1, <1>2, <1>4, ConnectionIs
<1> DEFINE w == [u EXCEPT !.pc = "resolve", !.rows = c.gen]
<1>6. /\ w \in Request /\ w.pc = "resolve" /\ w.rows = c.gen /\ w.seen = u.seen /\ w.icao = u.icao
      /\ w.legs = u.legs /\ w.text = u.text /\ w.start = u.start /\ w.disturbed = u.disturbed
      /\ w.overtaken = u.overtaken /\ w.crossed = u.crossed
  <2>1. c.gen \in 0 .. MaxGen
    BY DEF Conn
  <2> QED
    BY <2>1 DEF Request
<1>7. Query(t, w)
  BY <1>3
<1> HIDE DEF w
<1>8. Len(w.legs) <= Len(Leg) /\ \A k \in DOMAIN w.legs : FALSE
  BY <1>4, <1>6, NoLegs, LegsAreMany
<1>9. w.pc # "idle" /\ w.pc \notin InParse
  BY <1>6 DEF InParse
<1>10. Shape(w) /\ KeyHolds(w)
  BY <1>4, <1>6, <1>8, <1>9 DEF Shape, KeyHolds, InParse
<1>11. FilesAsSeen(w)
  BY <1>3, <1>6 DEF RequestHolds, FilesAsSeen, InParse
<1>12. LegsFollow(w)
  BY <1>8 DEF LegsFollow, LegsOf
<1>13. OneConnection(w, c)
  <2>1. u.pc # "idle"
    BY <1>3
  <2>2. OneConnection(u, conn[t])
    BY <1>3 DEF RequestHolds
  <2> QED
    BY <2>1, <2>2, <1>5, <1>6, <1>8 DEF OneConnection
<1>14. RequestHolds(w, c)
  BY <1>9, <1>10, <1>11, <1>12, <1>13 DEF RequestHolds
<1> QED
  BY <1>1, <1>2, <1>3, <1>4, <1>6, <1>7, <1>9, <1>14, QueryStep DEF InParse

\* The file that wins, or none.
LEMMA ResolvePathKeeps ==
    ASSUME Inv, NEW t \in Thread, ResolvePath(t)
    PROVE  Inv'
<1>1. PICK u \in Request : u = thread[t]
  BY OfThread
<1>2. /\ u.pc = "resolve" /\ RequestHolds(u, conn[t]) /\ UNCHANGED <<world, cache, parsing, conn>>
      /\ Set(t, IF Current(u.icao) = None THEN Answered(u, "absent")
                ELSE [u EXCEPT !.pc = "stat", !.place = Winner(u.icao)])
  BY <1>1, OfThread DEF ResolvePath, At
<1>3. u.legs = <<>> /\ ~u.crossed /\ u.pc \notin InParse /\ u.icao \in Airport
  BY <1>2 DEF RequestHolds, Shape, InParse, Request
<1>4. FilesAsSeen(u) /\ LegsFollow(u) /\ OneConnection(u, conn[t]) /\ Len(u.legs) <= Len(Leg)
  BY <1>2 DEF RequestHolds, Shape
<1>5. ~u.disturbed => u.start = Current(u.icao)
  BY <1>2, <1>4 DEF FilesAsSeen
<1>6. CASE Current(u.icao) = None
  <2>1. PICK w \in Request : w = Answered(u, "absent")
    BY AnsweredIs
  <2>2. /\ w.pc = "idle" /\ w.answer = "absent" /\ w.text = u.text /\ w.legs = u.legs
        /\ w.crossed = u.crossed /\ w.seen = None /\ w.disturbed = u.disturbed /\ w.start = u.start
    BY <2>1, AnsweredIs
  <2>3. AsOnDisk(w)
    BY <1>5, <1>6, <2>2 DEF AsOnDisk
  <2>4. LegsFollow(w) /\ Len(w.legs) <= Len(Leg)
    BY <1>4, <2>2 DEF LegsFollow
  <2>5. /\ Set(t, w) /\ UNCHANGED <<world, cache, conn>> /\ parsing' = parsing
        /\ thread[t].pc \notin InParse
    BY <1>1, <1>2, <1>3, <1>6, <2>1
  <2>6. w.pc = "idle" /\ w.seen = None
    BY <2>2
  <2> QED
    BY <2>3, <2>4, <2>5, <2>6, EndStep
<1>7. CASE Current(u.icao) # None
  <2> DEFINE p == Winner(u.icao)
             w == [u EXCEPT !.pc = "stat", !.place = p]
  <2>1. p \in Place
    BY <1>3, OfWorld
  <2>2. /\ w \in Request /\ w.pc = "stat" /\ w.place = Winner(u.icao) /\ w.icao = u.icao
        /\ w.seen = u.seen /\ w.rows = u.rows /\ w.legs = u.legs /\ w.text = u.text
        /\ w.start = u.start /\ w.disturbed = u.disturbed /\ w.overtaken = u.overtaken
        /\ w.crossed = u.crossed
    BY <2>1 DEF Request
  <2>3. Set(t, w)
    BY <1>2, <1>7
  <2> HIDE DEF p, w
  <2>4. w.pc # "idle" /\ w.pc \notin InParse /\ u.pc # "idle"
    BY <1>2, <2>2 DEF InParse
  <2>5. Shape(w) /\ KeyHolds(w)
    BY <1>3, <1>4, <2>2, <2>4 DEF Shape, KeyHolds, InParse
  <2>6. FilesAsSeen(w)
    BY <1>5, <2>2, <2>4 DEF FilesAsSeen, InParse
  <2>7. LegsFollow(w)
    BY <1>4, <2>2 DEF LegsFollow
  <2>8. OneConnection(w, conn[t])
    BY <1>4, <2>2, <2>4 DEF OneConnection
  <2>9. RequestHolds(w, conn[t])
    BY <2>4, <2>5, <2>6, <2>7, <2>8 DEF RequestHolds
  <2>10. (w.pc \in InParse <=> thread[t].pc \in InParse) /\ w.icao = thread[t].icao
    BY <1>1, <1>3, <2>2, <2>4
  <2> QED
    BY <1>2, <2>2, <2>3, <2>9, <2>10, PlainStep
<1> QED
  BY <1>6, <1>7

\* A parse that is remembered under the key of now is of the file as it is.
LEMMA HeldIsTrue ==
    ASSUME Inv, NEW a \in Airport, NEW p \in Place, NEW k \in Held(a, p, file[<<a, p>>])
    PROVE  k \in DOMAIN cache /\ cache[k] \in Parse /\ ParseHolds(cache[k])
           /\ cache[k].text = file[<<a, p>>]
<1>1. k \in DOMAIN cache /\ IsFor(cache[k], a, p, file[<<a, p>>])
  BY DEF Held
<1>2. cache \in Seq(Parse) /\ \A j \in DOMAIN cache : ParseHolds(cache[j])
  BY DEF Inv, Fields
<1>3. cache[k] \in Parse /\ ParseHolds(cache[k])
  BY <1>1, <1>2
<1> QED
  BY <1>1, <1>3 DEF ParseHolds, KeyIsOf, IsFor

\* A hit becomes the most recent.
LEMMA MovedHolds ==
    ASSUME Inv, NEW k \in DOMAIN cache
    PROVE  /\ MovedToEnd(k) \in Seq(Parse) /\ Distinct(MovedToEnd(k))
           /\ Len(MovedToEnd(k)) <= MaxEntries
           /\ \A j \in DOMAIN MovedToEnd(k) : ParseHolds(MovedToEnd(k)[j])
<1>1. cache \in Seq(Parse) /\ Len(cache) <= MaxEntries /\ \A j \in DOMAIN cache : ParseHolds(cache[j])
  BY DEF Inv, TypeOK, Fields
<1>2. Distinct(cache)
  BY DEF Inv, TypeOK, Distinct
<1>3. LET d == MovedToEnd(k) IN
      d \in Seq(Parse) /\ Len(d) = Len(cache) /\ Distinct(d) /\ Within(d, cache)
  BY <1>1, <1>2, MoveKeeps
<1> QED
  BY <1>1, <1>3 DEF Within

\* stat and lookup: no file, a hit, or on to the text.
LEMMA LookUpKeeps ==
    ASSUME Inv, NEW t \in Thread, LookUp(t)
    PROVE  Inv'
<1>1. PICK u \in Request : u = thread[t]
  BY OfThread
<1> DEFINE mtime == file[<<u.icao, u.place>>]
<1>2. /\ u.pc = "stat" /\ RequestHolds(u, conn[t]) /\ UNCHANGED <<world, parsing, conn>>
      /\ \/ mtime = None /\ Set(t, Answered(u, "absent")) /\ UNCHANGED cache
         \/ \E k \in Held(u.icao, u.place, mtime) :
              mtime # None /\ cache' = MovedToEnd(k) /\ Set(t, Hit(u, cache[k]))
         \/ mtime # None /\ Set(t, [u EXCEPT !.pc = "read", !.key = mtime]) /\ UNCHANGED cache
  BY <1>1, OfThread DEF LookUp, At
<1>3. /\ u.legs = <<>> /\ ~u.crossed /\ u.pc \notin InParse /\ u.icao \in Airport /\ u.place \in Place
  BY <1>2 DEF RequestHolds, Shape, InParse, Request
<1>4. FilesAsSeen(u) /\ LegsFollow(u) /\ OneConnection(u, conn[t]) /\ Len(u.legs) <= Len(Leg)
  BY <1>2 DEF RequestHolds, Shape
<1>5. ~u.disturbed => u.start = Current(u.icao) /\ u.place = Winner(u.icao) /\ mtime = Current(u.icao)
  BY <1>2, <1>3, <1>4, OfWorld DEF FilesAsSeen
<1>6. mtime \in 0 .. version /\ mtime \in 0 .. MaxVersion
  BY <1>3, OfWorld, BoundsAreNats
<1>7. thread[t].pc \notin InParse
  BY <1>1, <1>3
<1> HIDE DEF mtime
<1>8. ASSUME mtime = None, Set(t, Answered(u, "absent")), UNCHANGED cache
      PROVE  Inv'
  <2>1. PICK w \in Request : w = Answered(u, "absent")
    BY AnsweredIs
  <2>2. /\ w.pc = "idle" /\ w.answer = "absent" /\ w.text = u.text /\ w.legs = u.legs
        /\ w.crossed = u.crossed /\ w.seen = None /\ w.disturbed = u.disturbed /\ w.start = u.start
    BY <2>1, AnsweredIs
  <2>3. AsOnDisk(w)
    BY <1>5, <1>8, <2>2 DEF AsOnDisk
  <2>4. LegsFollow(w) /\ Len(w.legs) <= Len(Leg)
    BY <1>4, <2>2 DEF LegsFollow
  <2>5. Set(t, w) /\ UNCHANGED <<world, cache, conn>> /\ parsing' = parsing
    BY <1>2, <1>8, <2>1
  <2>6. w.pc = "idle" /\ w.seen = None
    BY <2>2
  <2> QED
    BY <1>7, <2>3, <2>4, <2>5, <2>6, EndStep
<1>9. ASSUME NEW k \in Held(u.icao, u.place, mtime), mtime # None, cache' = MovedToEnd(k),
             Set(t, Hit(u, cache[k]))
      PROVE  Inv'
  <2>1. PICK e \in Parse : e = cache[k]
    BY <1>3, HeldIsTrue DEF mtime
  <2>2. k \in DOMAIN cache /\ ParseHolds(e) /\ e.text = mtime
    BY <1>3, <2>1, HeldIsTrue DEF mtime
  <2>3. PICK w \in Request : w = Hit(u, e)
    BY HitIs
  <2>4. /\ w.pc = "idle" /\ w.answer = "ok" /\ w.text = e.text /\ w.legs = e.legs
        /\ w.crossed = e.crossed /\ w.seen = None /\ w.disturbed = u.disturbed /\ w.start = u.start
    BY <2>3, HitIs
  <2>5. LegsFollow(w)
    BY <2>2, <2>4 DEF ParseHolds, LegsFollow
  <2>6. Len(w.legs) = Len(Leg)
    BY <2>2, <2>4 DEF ParseHolds
  <2>7. AsOnDisk(w)
    BY <1>5, <2>2, <2>4, <2>5, <2>6 DEF AsOnDisk, LegsFollow
  <2>8. Set(t, w) /\ parsing' = [parsing EXCEPT ![t] = {}] /\ UNCHANGED <<world, conn>>
    <3>1. parsing[t] = {} /\ parsing \in [Thread -> SUBSET Airport]
      BY <1>7, OfThread DEF Inv, Fields
    <3> QED
      BY <1>2, <1>9, <2>1, <2>3, <3>1
  <2>9. w.pc = "idle" /\ w.seen = None /\ Len(w.legs) <= Len(Leg)
    BY <2>4, <2>6, LegsAreMany
  <2>10. /\ MovedToEnd(k) \in Seq(Parse) /\ Distinct(MovedToEnd(k))
         /\ Len(MovedToEnd(k)) <= MaxEntries
         /\ \A j \in DOMAIN MovedToEnd(k) : ParseHolds(MovedToEnd(k)[j])
    BY <2>2, MovedHolds
  <2>11. cache' = MovedToEnd(k)
    BY <1>9
  <2> QED
    BY <2>5, <2>7, <2>8, <2>9, <2>10, <2>11, AnswerStep
<1>10. ASSUME mtime # None, Set(t, [u EXCEPT !.pc = "read", !.key = mtime]), UNCHANGED cache
       PROVE  Inv'
  <2> DEFINE w == [u EXCEPT !.pc = "read", !.key = mtime]
  <2>1. /\ w \in Request /\ w.pc = "read" /\ w.key = mtime /\ w.icao = u.icao /\ w.place = u.place
        /\ w.seen = u.seen /\ w.rows = u.rows /\ w.legs = u.legs /\ w.text = u.text
        /\ w.start = u.start /\ w.disturbed = u.disturbed /\ w.overtaken = u.overtaken
        /\ w.crossed = u.crossed
    BY <1>6 DEF Request
  <2>2. Set(t, w)
    BY <1>10
  <2> HIDE DEF w
  <2>3. w.pc # "idle" /\ w.pc \notin InParse /\ u.pc # "idle" /\ w.key <= version /\ w.key # None
    BY <1>2, <1>6, <1>10, <2>1, OfWorld DEF InParse
  <2>4. Shape(w)
    BY <1>3, <1>4, <2>1, <2>3 DEF Shape, InParse
  <2>5. KeyHolds(w)
    BY <2>3 DEF KeyHolds
  <2>6. FilesAsSeen(w)
    BY <1>5, <2>1, <2>3 DEF FilesAsSeen, InParse
  <2>7. LegsFollow(w)
    BY <1>4, <2>1 DEF LegsFollow
  <2>8. OneConnection(w, conn[t])
    BY <1>4, <2>1, <2>3 DEF OneConnection
  <2>9. RequestHolds(w, conn[t])
    BY <2>3, <2>4, <2>5, <2>6, <2>7, <2>8 DEF RequestHolds
  <2>10. /\ w.pc \in InParse <=> thread[t].pc \in InParse
         /\ w.pc \in InParse => w.icao = thread[t].icao
    BY <1>7, <2>3
  <2>11. UNCHANGED <<world, cache, parsing, conn>>
    BY <1>2, <1>10
  <2> QED
    BY <2>1, <2>2, <2>9, <2>10, <2>11, PlainStep
<1> QED
  BY <1>2, <1>8, <1>9, <1>10

\* The text, as it is by now, or none.
LEMMA ReadTextKeeps ==
    ASSUME Inv, NEW t \in Thread, ReadText(t)
    PROVE  Inv'
<1>1. PICK u \in Request : u = thread[t]
  BY OfThread
<1> DEFINE text == file[<<u.icao, u.place>>]
<1>2. /\ u.pc = "read" /\ RequestHolds(u, conn[t]) /\ UNCHANGED <<world, cache, conn>>
      /\ \/ text = None /\ Set(t, Answered(u, "absent")) /\ UNCHANGED parsing
         \/ /\ text # None /\ Set(t, [u EXCEPT !.pc = "legs", !.text = text])
            /\ parsing' = [parsing EXCEPT ![t] = @ \cup {u.icao}]
  BY <1>1, OfThread DEF ReadText, At
<1>3. /\ u.legs = <<>> /\ ~u.crossed /\ u.pc \notin InParse /\ u.icao \in Airport /\ u.place \in Place
      /\ u.key # None /\ u.key <= version
  BY <1>2 DEF RequestHolds, Shape, KeyHolds, InParse, Request
<1>4. FilesAsSeen(u) /\ LegsFollow(u) /\ OneConnection(u, conn[t]) /\ Len(u.legs) <= Len(Leg)
  BY <1>2 DEF RequestHolds, Shape
<1>5. ~u.disturbed => /\ u.start = Current(u.icao) /\ u.place = Winner(u.icao)
                      /\ text = Current(u.icao) /\ u.key = Current(u.icao)
  BY <1>2, <1>3, <1>4, OfWorld DEF FilesAsSeen
<1>6. text \in 0 .. MaxVersion
  BY <1>3, OfWorld, BoundsAreNats
<1>7. thread[t].pc \notin InParse
  BY <1>1, <1>3
<1> HIDE DEF text
<1>8. ASSUME text = None, Set(t, Answered(u, "absent")), UNCHANGED parsing
      PROVE  Inv'
  <2>1. PICK w \in Request : w = Answered(u, "absent")
    BY AnsweredIs
  <2>2. /\ w.pc = "idle" /\ w.answer = "absent" /\ w.text = u.text /\ w.legs = u.legs
        /\ w.crossed = u.crossed /\ w.seen = None /\ w.disturbed = u.disturbed /\ w.start = u.start
    BY <2>1, AnsweredIs
  <2>3. AsOnDisk(w)
    BY <1>5, <1>8, <2>2 DEF AsOnDisk
  <2>4. LegsFollow(w) /\ Len(w.legs) <= Len(Leg)
    BY <1>4, <2>2 DEF LegsFollow
  <2>5. Set(t, w) /\ UNCHANGED <<world, cache, conn>> /\ parsing' = parsing
    BY <1>2, <1>8, <2>1
  <2>6. w.pc = "idle" /\ w.seen = None
    BY <2>2
  <2> QED
    BY <1>7, <2>3, <2>4, <2>5, <2>6, EndStep
<1>9. ASSUME text # None, Set(t, [u EXCEPT !.pc = "legs", !.text = text]),
             parsing' = [parsing EXCEPT ![t] = @ \cup {u.icao}]
      PROVE  Inv'
  <2> DEFINE w == [u EXCEPT !.pc = "legs", !.text = text]
  <2>1. /\ w \in Request /\ w.pc = "legs" /\ w.text = text /\ w.key = u.key /\ w.icao = u.icao
        /\ w.place = u.place /\ w.seen = u.seen /\ w.rows = u.rows /\ w.legs = u.legs
        /\ w.start = u.start /\ w.disturbed = u.disturbed /\ w.overtaken = u.overtaken
        /\ w.crossed = u.crossed
    BY <1>6 DEF Request, InParse
  <2>2. Set(t, w)
    BY <1>9
  <2> HIDE DEF w
  <2>3. w.pc # "idle" /\ w.pc \in InParse /\ u.pc # "idle" /\ \A k \in DOMAIN w.legs : FALSE
    BY <1>2, <1>3, <2>1, NoLegs DEF InParse
  <2>4. Shape(w)
    BY <1>3, <1>4, <1>9, <2>1, <2>3 DEF Shape, InParse
  <2>5. KeyHolds(w)
    BY <1>3, <2>1 DEF KeyHolds, KeyIsOf, text
  <2>6. FilesAsSeen(w)
    BY <1>5, <2>1, <2>3 DEF FilesAsSeen, InParse
  <2>7. LegsFollow(w)
    BY <2>3 DEF LegsFollow, LegsOf
  <2>8. OneConnection(w, conn[t])
    BY <1>4, <2>1, <2>3 DEF OneConnection
  <2>9. RequestHolds(w, conn[t])
    BY <2>3, <2>4, <2>5, <2>6, <2>7, <2>8 DEF RequestHolds
  <2>10. parsing' = [parsing EXCEPT ![t] = IF w.pc \in InParse THEN {w.icao} ELSE {}]
    <3>1. parsing[t] = {} /\ parsing \in [Thread -> SUBSET Airport]
      BY <1>7, OfThread DEF Inv, Fields
    <3> QED
      BY <1>9, <2>1, <2>3, <3>1
  <2>11. /\ conn[t] \in Conn /\ cache \in Seq(Parse) /\ Distinct(cache) /\ Len(cache) <= MaxEntries
         /\ \A k \in DOMAIN cache : ParseHolds(cache[k])
    BY OfThread
  <2>12. conn' = [conn EXCEPT ![t] = conn[t]] /\ cache' = cache /\ UNCHANGED world
    <3>1. conn \in [Thread -> Conn]
      BY DEF Inv, Fields
    <3> QED
      BY <1>2, <3>1
  <2> QED
    BY <2>1, <2>2, <2>9, <2>10, <2>11, <2>12, RequestStep
<1> QED
  BY <1>2, <1>8, <1>9

-----------------------------------------------------------------------------
(* The legs.                                                                *)

\* A leg's coordinate is from where it should be.
LegFits(u, x) ==
    IF Leg[Len(u.legs) + 1] = "runway" /\ u.text \in HasRunway
    THEN x = FromFile(u.text) ELSE x.source = "index"

\* A leg more, the request as it was.
Gains(w, u, x) ==
    /\ w.pc = "legs" /\ w.legs = Append(u.legs, x) /\ w.seen = None /\ w.rows = u.rows
    /\ w.icao = u.icao /\ w.place = u.place /\ w.key = u.key /\ w.text = u.text
    /\ w.start = u.start /\ w.disturbed = u.disturbed /\ w.overtaken = u.overtaken

\* It holds with its new coordinate if that is the file's, or the connection's.
LEMMA GainHolds ==
    ASSUME Inv, NEW u \in Request, NEW c \in Conn, NEW d \in Conn, RequestHolds(u, c),
           u.pc \in InParse, Len(u.legs) < Len(Leg),
           NEW w \in Request, NEW x \in Coordinate, Gains(w, u, x),
           ~w.crossed => ~u.crossed /\ LegFits(u, x),
           d.gen <= path, c.gen # None /\ c.tag = epoch => d = c,
           ~u.overtaken /\ x.source = "index" => x.at = d.gen /\ d.tag = epoch
    PROVE  RequestHolds(w, d)
<1>1. /\ w.pc # "idle" /\ w.pc \in InParse /\ w.pc = "legs" /\ u.pc # "idle"
      /\ Len(Leg) \in Nat
  BY LegsAreMany DEF InParse, Gains
<1>2. /\ u.legs \in Seq(Coordinate) /\ Len(u.legs) \in Nat /\ w.legs = Append(u.legs, x)
  BY DEF Gains, Request
<1>3. /\ Len(w.legs) = Len(u.legs) + 1
      /\ \A k \in DOMAIN w.legs : k = Len(u.legs) + 1 \/ k \in DOMAIN u.legs
      /\ w.legs[Len(u.legs) + 1] = x /\ \A k \in DOMAIN u.legs : w.legs[k] = u.legs[k]
  BY <1>2
<1>4. Shape(w)
  BY <1>1, <1>3 DEF RequestHolds, Shape, InParse, Gains
<1>5. KeyHolds(w)
  BY <1>1 DEF RequestHolds, KeyHolds, Gains
<1>6. FilesAsSeen(w)
  BY <1>1 DEF RequestHolds, FilesAsSeen, Gains
<1>7. LegsFollow(w)
  <2> SUFFICES ASSUME ~w.crossed PROVE LegsOf(w.text, w.legs)
    BY DEF LegsFollow
  <2>1. LegsOf(u.text, u.legs) /\ LegFits(u, x) /\ w.text = u.text
    BY DEF RequestHolds, LegsFollow, Gains
  <2> QED
    BY <2>1, <1>3 DEF LegsOf, LegFits
<1>8. OneConnection(w, d)
  <2>1. OneConnection(u, c)
    BY DEF RequestHolds
  <2>2. w.seen = None /\ w.rows = u.rows /\ w.overtaken = u.overtaken
    BY DEF Gains
  <2>3. w.seen <= path
    BY <2>2, OfWorld, BoundsAreNats DEF None
  <2>4. ASSUME ~w.overtaken
        PROVE  /\ stage = "idle"
               /\ w.rows # None => w.rows = d.gen /\ d.tag = epoch
               /\ \A k \in DOMAIN w.legs : w.legs[k].source = "index" =>
                    w.legs[k].at = d.gen /\ d.tag = epoch
    <3>1. /\ stage = "idle"
          /\ u.rows # None => u.rows = c.gen /\ c.tag = epoch
          /\ \A k \in DOMAIN u.legs : u.legs[k].source = "index" =>
               u.legs[k].at = c.gen /\ c.tag = epoch
      BY <2>1, <2>2, <2>4, <1>1 DEF OneConnection
    <3>2. w.rows # None => w.rows = d.gen /\ d.tag = epoch
      BY <3>1, <2>2
    <3>3. \A k \in DOMAIN u.legs : u.legs[k].source = "index" =>
            u.legs[k].at = d.gen /\ d.tag = epoch
      <4> SUFFICES ASSUME NEW k \in DOMAIN u.legs, u.legs[k].source = "index"
                   PROVE  u.legs[k].at = d.gen /\ d.tag = epoch
        OBVIOUS
      <4>1. u.legs[k] \in Coordinate
        BY <1>2
      <4>2. u.legs[k].at # None
        BY <4>1, BoundsAreNats DEF Coordinate, None
      <4> QED
        BY <4>2, <3>1
    <3> QED
      BY <3>1, <3>2, <3>3, <1>3, <2>2, <2>4
  <2> QED
    BY <2>2, <2>3, <2>4 DEF OneConnection
<1> QED
  BY <1>1, <1>4, <1>5, <1>6, <1>7, <1>8 DEF RequestHolds

\* A runway of the file itself.
LEMMA OwnRunwayKeeps ==
    ASSUME Inv, NEW t \in Thread, OwnRunway(t)
    PROVE  Inv'
<1>1. PICK u \in Request : u = thread[t]
  BY OfThread
<1>2. PICK c \in Conn : c = conn[t]
  BY OfThread
<1>3. PICK x : x = FromFile(u.text)
  OBVIOUS
<1>4. PICK w : w = Resolved(u, x)
  OBVIOUS
<1>5. /\ u.pc = "legs" /\ Len(u.legs) < Len(Leg) /\ u.text \in HasRunway /\ RequestHolds(u, c)
      /\ Set(t, w) /\ UNCHANGED <<world, cache, parsing, conn>>
  BY <1>1, <1>2, <1>3, <1>4, OfThread DEF OwnRunway, More, At
<1>6. Leg[Len(u.legs) + 1] = "runway"
  BY <1>1 DEF OwnRunway, NextLeg
<1>7. x \in Coordinate /\ x.source = "file"
  BY <1>3, <1>5, CoordinateIs, CacheAssumption
<1>8. w \in Request /\ Gains(w, u, x) /\ w.crossed = u.crossed
  BY <1>4, <1>7, ResolvedIs DEF Gains
<1>9. LegFits(u, x)
  BY <1>3, <1>5, <1>6 DEF LegFits
<1>10. c.gen <= path /\ u.pc \in InParse
  BY <1>5 DEF RequestHolds, OneConnection, InParse
<1>11. /\ ~w.crossed => ~u.crossed /\ LegFits(u, x)
       /\ ~u.overtaken /\ x.source = "index" => x.at = c.gen /\ c.tag = epoch
  BY <1>7, <1>8, <1>9
<1>12. RequestHolds(w, c)
  BY <1>5, <1>7, <1>8, <1>10, <1>11, GainHolds
<1>13. (w.pc \in InParse <=> thread[t].pc \in InParse) /\ w.icao = thread[t].icao
  BY <1>1, <1>8, <1>10 DEF Gains, InParse
<1> QED
  BY <1>2, <1>5, <1>8, <1>12, <1>13, PlainStep

\* Any other leg is the provider's.
LEMMA AskProviderKeeps ==
    ASSUME Inv, NEW t \in Thread, AskProvider(t)
    PROVE  Inv'
<1>1. ReadPath(t, "legs", "leg") /\ LegAsked(thread[t])
  BY DEF AskProvider, More, NextLeg, LegAsked
<1> QED
  BY <1>1, ReadPathKeeps

\* A fix has its coordinate from the index; a runway its rows.
LEMMA ResolveLegKeeps ==
    ASSUME Inv, NEW t \in Thread, ResolveLeg(t)
    PROVE  Inv'
<1>1. PICK u \in Request : u = thread[t]
  BY OfThread
<1>2. PICK c \in Conn : c = conn[t]
  BY OfThread
<1>3. PICK d : d = Connection(t)
  OBVIOUS
<1>4. /\ u.pc = "leg" /\ RequestHolds(u, c)
      /\ Query(t, IF Leg[Len(u.legs) + 1] = "fix" THEN Resolved(u, FromIndex(d.gen))
                  ELSE [u EXCEPT !.pc = "nested", !.rows = d.gen, !.seen = None])
  BY <1>1, <1>2, <1>3, OfThread DEF ResolveLeg, At, NextLeg
<1>5. /\ u.seen # None /\ LegAsked(u) /\ u.pc \in InParse /\ u.pc # "idle"
      /\ u.key # None /\ u.text # None
  BY <1>4 DEF RequestHolds, Shape, LegAsked, InParse
<1>6. /\ d \in Conn /\ d.gen \in 1 .. MaxGen /\ d.gen <= path /\ d.tag = epoch
      /\ c.gen # None /\ c.tag = epoch => d = c
  BY <1>1, <1>2, <1>3, <1>5, ConnectionIs
<1>7. Leg[Len(u.legs) + 1] \in {"fix", "runway"}
  <2>1. Len(u.legs) + 1 \in 1 .. Len(Leg)
    BY <1>5, LegsAreMany DEF LegAsked, Request
  <2> QED
    BY <2>1, LegsAreMany
<1>8. CASE Leg[Len(u.legs) + 1] = "fix"
  <2>1. PICK x : x = FromIndex(d.gen)
    OBVIOUS
  <2>2. x \in Coordinate /\ x.source = "index" /\ x.at = d.gen
    BY <1>6, <2>1, CoordinateIs
  <2>3. PICK w : w = Resolved(u, x)
    OBVIOUS
  <2>4. w \in Request /\ Gains(w, u, x) /\ w.crossed = u.crossed
    BY <2>2, <2>3, ResolvedIs DEF Gains
  <2>5. Query(t, w)
    BY <1>4, <1>8, <2>1, <2>3
  <2>6. LegFits(u, x)
    BY <1>8, <2>2 DEF LegFits
  <2>7. /\ ~w.crossed => ~u.crossed /\ LegFits(u, x)
        /\ ~u.overtaken /\ x.source = "index" => x.at = d.gen /\ d.tag = epoch
        /\ Len(u.legs) < Len(Leg)
    BY <1>5, <1>6, <2>2, <2>4, <2>6 DEF LegAsked
  <2>8. RequestHolds(w, d)
    BY <1>4, <1>5, <1>6, <2>2, <2>4, <2>7, GainHolds
  <2>9. (w.pc \in InParse <=> thread[t].pc \in InParse) /\ w.icao = thread[t].icao
        /\ thread[t].seen # None
    BY <1>1, <1>5, <2>4 DEF Gains, InParse
  <2> QED
    BY <1>3, <2>4, <2>5, <2>8, <2>9, QueryStep
<1>9. CASE Leg[Len(u.legs) + 1] = "runway"
  <2>1. PICK g \in 0 .. MaxGen : g = d.gen
    BY <1>6 DEF Conn
  <2> DEFINE w == [u EXCEPT !.pc = "nested", !.rows = g, !.seen = None]
  <2>2. /\ w \in Request /\ w.pc = "nested" /\ w.rows = g /\ w.seen = None /\ w.icao = u.icao
        /\ w.place = u.place /\ w.key = u.key /\ w.text = u.text /\ w.legs = u.legs
        /\ w.start = u.start /\ w.disturbed = u.disturbed /\ w.overtaken = u.overtaken
        /\ w.crossed = u.crossed
    <3>1. None \in 0 .. MaxGen
      BY BoundsAreNats DEF None
    <3> QED
      BY <2>1, <3>1 DEF Request, InParse
  <2>3. Query(t, w)
    BY <1>4, <1>9, <2>1
  <2> HIDE DEF w
  <2>4. w.pc # "idle" /\ w.pc \in InParse /\ g # None
    BY <1>6, <2>1, <2>2, BoundsAreNats DEF InParse, None
  <2>5. Shape(w)
    BY <1>4, <1>5, <1>9, <2>2, <2>4 DEF RequestHolds, Shape, LegAsked, InParse
  <2>6. KeyHolds(w) /\ FilesAsSeen(w)
    BY <1>4, <1>5, <2>2, <2>4 DEF RequestHolds, KeyHolds, FilesAsSeen
  <2>7. LegsFollow(w)
    BY <1>4, <2>2 DEF RequestHolds, LegsFollow
  <2>8. OneConnection(w, d)
    <3>1. OneConnection(u, c)
      BY <1>4 DEF RequestHolds
    <3>2. w.seen <= path
      BY <2>2, OfWorld, BoundsAreNats DEF None
    <3>3. \A k \in DOMAIN u.legs : u.legs[k].at # None
      <4>1. u.legs \in Seq(Coordinate)
        BY DEF Request
      <4>2. \A k \in DOMAIN u.legs : u.legs[k] \in Coordinate
        BY <4>1
      <4>3. \A x \in Coordinate : x.at # None
        BY BoundsAreNats DEF Coordinate, None
      <4> QED
        BY <4>2, <4>3
    <3>4. ASSUME ~w.overtaken
          PROVE  /\ stage = "idle"
                 /\ \A k \in DOMAIN w.legs : w.legs[k].source = "index" =>
                      w.legs[k].at = d.gen /\ d.tag = epoch
      BY <3>1, <3>3, <3>4, <1>5, <1>6, <2>2 DEF OneConnection
    <3> QED
      BY <3>2, <3>4, <1>6, <2>1, <2>2 DEF OneConnection
  <2>9. RequestHolds(w, d)
    BY <2>4, <2>5, <2>6, <2>7, <2>8 DEF RequestHolds
  <2>10. (w.pc \in InParse <=> thread[t].pc \in InParse) /\ w.icao = thread[t].icao
         /\ thread[t].seen # None
    BY <1>1, <1>5, <2>2, <2>4
  <2> QED
    BY <1>3, <2>2, <2>3, <2>9, <2>10, QueryStep
<1> QED
  BY <1>7, <1>8, <1>9

\* The nested load meets a remembered parse, or nothing; of the file being parsed
\* it learns no more than the index says.
LEMMA NestedKeeps ==
    ASSUME Inv, NEW t \in Thread, Nested(t)
    PROVE  Inv'
<1>1. PICK u \in Request : u = thread[t]
  BY OfThread
<1>2. PICK c \in Conn : c = conn[t]
  BY OfThread
<1> DEFINE a == u.icao
           now == file[<<a, Winner(a)>>]
<1>3. /\ u.pc = "nested" /\ RequestHolds(u, c) /\ UNCHANGED <<world, parsing, conn>>
      /\ u.icao \in Airport /\ Current(a) = now /\ Winner(a) \in Place
  BY <1>1, <1>2, OfThread, OfWorld DEF Nested, At, Request
<1>4. \/ \E k \in Held(a, Winner(a), now) :
           cache' = MovedToEnd(k) /\ Set(t, Merged(u, cache[k].text))
      \/ UNCHANGED cache /\ Set(t, Resolved(u, FromIndex(u.rows)))
  BY <1>1, <1>3 DEF Nested, Current
<1>5. /\ LegAsked(u) /\ u.rows # None /\ Leg[Len(u.legs) + 1] = "runway" /\ u.text \notin HasRunway
      /\ u.pc \in InParse /\ c.gen <= path
      /\ ~u.overtaken => u.rows = c.gen /\ c.tag = epoch
  BY <1>3 DEF RequestHolds, Shape, OneConnection, LegAsked, InParse
<1>6. u.rows \in 1 .. MaxGen /\ u.text \in 0 .. MaxVersion
  BY <1>5, BoundsAreNats DEF Request, None
<1> HIDE DEF a, now
<1>7. ASSUME UNCHANGED cache, Set(t, Resolved(u, FromIndex(u.rows)))
      PROVE  Inv'
  <2>1. PICK x : x = FromIndex(u.rows)
    OBVIOUS
  <2>2. x \in Coordinate /\ x.source = "index" /\ x.at = u.rows
    BY <1>6, <2>1, CoordinateIs
  <2>3. PICK w : w = Resolved(u, x)
    OBVIOUS
  <2>4. w \in Request /\ Gains(w, u, x) /\ w.crossed = u.crossed
    BY <2>2, <2>3, ResolvedIs DEF Gains
  <2>5. LegFits(u, x)
    BY <1>5, <2>2 DEF LegFits
  <2>6. /\ ~w.crossed => ~u.crossed /\ LegFits(u, x)
        /\ ~u.overtaken /\ x.source = "index" => x.at = c.gen /\ c.tag = epoch
        /\ Len(u.legs) < Len(Leg)
    BY <1>5, <2>2, <2>4, <2>5 DEF LegAsked
  <2>7. RequestHolds(w, c)
    BY <1>3, <1>5, <2>2, <2>4, <2>6, GainHolds
  <2>8. (w.pc \in InParse <=> thread[t].pc \in InParse) /\ w.icao = thread[t].icao
    BY <1>1, <1>5, <2>4 DEF Gains, InParse
  <2>9. Set(t, w) /\ UNCHANGED <<world, cache, parsing, conn>>
    BY <1>3, <1>7, <2>1, <2>3
  <2> QED
    BY <1>2, <2>4, <2>7, <2>8, <2>9, PlainStep
<1>8. ASSUME NEW k \in Held(a, Winner(a), now), cache' = MovedToEnd(k),
             Set(t, Merged(u, cache[k].text))
      PROVE  Inv'
  <2>1. k \in DOMAIN cache /\ cache[k] \in Parse
    BY <1>3, HeldIsTrue DEF a, now
  <2>2. PICK text \in 1 .. MaxVersion : text = cache[k].text
    BY <2>1 DEF Parse
  <2>3. PICK x : x = IF text \in HasRunway THEN FromFile(text) ELSE FromIndex(u.rows)
    OBVIOUS
  <2>4. /\ x \in Coordinate
        /\ text \notin HasRunway => x.source = "index"
        /\ x.source = "index" => x.at = u.rows
    BY <1>6, <2>2, <2>3, CoordinateIs
  <2>5. PICK v \in Request : v = Resolved(u, x)
    BY <2>4, ResolvedIs
  <2>6. v \in Request /\ Gains(v, u, x) /\ v.crossed = u.crossed
    BY <2>4, <2>5, ResolvedIs DEF Gains
  <2>0. PICK b \in BOOLEAN : b = (v.crossed \/ text # u.text)
    OBVIOUS
  <2> DEFINE w == [v EXCEPT !.crossed = b]
  <2>7. /\ w \in Request /\ w.crossed = b /\ w.pc = v.pc /\ w.legs = v.legs /\ w.seen = v.seen
        /\ w.rows = v.rows /\ w.icao = v.icao /\ w.place = v.place /\ w.key = v.key
        /\ w.text = v.text /\ w.start = v.start /\ w.disturbed = v.disturbed
        /\ w.overtaken = v.overtaken
    BY DEF Request
  <2>8. Merged(u, text) = w
    BY <2>0, <2>3, <2>5 DEF Merged
  <2> HIDE DEF w
  <2>9. Gains(w, u, x)
    BY <2>6, <2>7 DEF Gains
  <2>10. ~w.crossed => ~u.crossed /\ LegFits(u, x)
    <3> SUFFICES ASSUME ~w.crossed PROVE ~u.crossed /\ LegFits(u, x)
      OBVIOUS
    <3>1. ~v.crossed /\ text = u.text
      BY <2>0, <2>7
    <3>2. x.source = "index"
      BY <1>5, <2>4, <3>1
    <3> QED
      BY <1>5, <2>6, <3>1, <3>2 DEF LegFits
  <2>11. /\ ~u.overtaken /\ x.source = "index" => x.at = c.gen /\ c.tag = epoch
         /\ Len(u.legs) < Len(Leg)
    BY <1>5, <2>4 DEF LegAsked
  <2>12. RequestHolds(w, c)
    BY <1>3, <1>5, <2>4, <2>7, <2>9, <2>10, <2>11, GainHolds
  <2>13. /\ MovedToEnd(k) \in Seq(Parse) /\ Distinct(MovedToEnd(k))
         /\ Len(MovedToEnd(k)) <= MaxEntries
         /\ \A j \in DOMAIN MovedToEnd(k) : ParseHolds(MovedToEnd(k)[j])
    BY <2>1, MovedHolds
  <2>14. /\ conn' = [conn EXCEPT ![t] = c]
         /\ parsing' = [parsing EXCEPT ![t] = IF w.pc \in InParse THEN {w.icao} ELSE {}]
    <3>1. /\ conn \in [Thread -> Conn] /\ parsing \in [Thread -> SUBSET Airport]
          /\ parsing[t] = {u.icao}
      BY <1>1, <1>5, OfThread DEF Inv, Fields
    <3>2. w.pc \in InParse /\ w.icao = u.icao
      BY <2>9 DEF Gains, InParse
    <3> QED
      BY <1>2, <1>3, <3>1, <3>2
  <2>15. Set(t, w) /\ UNCHANGED world /\ cache' = MovedToEnd(k)
    BY <1>3, <1>8, <2>2, <2>8
  <2> QED
    BY <2>7, <2>12, <2>13, <2>14, <2>15, RequestStep
<1> QED
  BY <1>4, <1>7, <1>8

\* A parse that is whole is remembered, marked if a publication came between.
LEMMA RememberKeeps ==
    ASSUME Inv, NEW t \in Thread, Remember(t)
    PROVE  Inv'
<1>1. PICK u \in Request : u = thread[t]
  BY OfThread
<1>2. PICK c \in Conn : c = conn[t]
  BY OfThread
<1>3. PICK b \in BOOLEAN : b = (u.overtaken \/ Mistagged(t))
  OBVIOUS
<1> DEFINE e == [Entry(u) EXCEPT !.overtaken = @ \/ Mistagged(t)]
           all == Append(Others(e.icao, e.place, e.mtime), e)
           n == IF Len(all) < MaxEntries THEN Len(all) ELSE MaxEntries
           d == SubSeq(all, Len(all) - n + 1, Len(all))
<1>4. /\ u.pc = "legs" /\ RequestHolds(u, c) /\ ~(Len(u.legs) < Len(Leg))
      /\ UNCHANGED <<world, conn>> /\ Set(t, Answered(u, "ok"))
      /\ parsing' = [parsing EXCEPT ![t] = @ \ {u.icao}]
  BY <1>1, <1>2, OfThread DEF Remember, At, More
<1>5. /\ u.key # None /\ u.text # None /\ Len(u.legs) = Len(Leg) /\ u.pc \in InParse /\ u.pc # "idle"
      /\ KeyIsOf(u.icao, u.place, u.key, u.text) /\ LegsFollow(u) /\ FilesAsSeen(u)
      /\ OneConnection(u, c)
  BY <1>4, LegsAreMany DEF RequestHolds, Shape, KeyHolds, InParse, Request
<1>6. /\ e = [icao |-> u.icao, place |-> u.place, mtime |-> u.key, text |-> u.text, legs |-> u.legs,
             overtaken |-> b, crossed |-> u.crossed]
  BY <1>3 DEF Entry
<1>7. /\ e.icao = u.icao /\ e.place = u.place /\ e.mtime = u.key /\ e.text = u.text
      /\ e.legs = u.legs /\ e.overtaken = b /\ e.crossed = u.crossed
  BY <1>6
<1>stored. cache' = d
  BY <1>1, <1>7 DEF Remember
<1>8. e \in Parse
  <2>1. /\ u.icao \in Airport /\ u.place \in Place /\ u.key \in 1 .. MaxVersion
        /\ u.text \in 1 .. MaxVersion /\ u.legs \in Seq(Coordinate) /\ u.crossed \in BOOLEAN
    BY <1>5, BoundsAreNats DEF Request, None
  <2> HIDE DEF e
  <2> QED
    BY <1>6, <2>1 DEF Parse
<1> HIDE DEF e
<1>9. CurrentParse(e)
  <2> SUFFICES ASSUME stage = "idle", ~b, NEW j \in DOMAIN u.legs, u.legs[j].source = "index"
               PROVE  u.legs[j].at = path
    BY <1>7 DEF CurrentParse
  <2>1. ~u.overtaken /\ ~(c.gen < c.tag)
    BY <1>2, <1>3 DEF Mistagged
  <2>2. u.legs[j].at = c.gen /\ c.tag = epoch /\ c.gen <= path
    BY <1>5, <2>1 DEF OneConnection
  <2>3. path = epoch /\ path \in Int /\ c.gen \in Int
    BY OfWorld, BoundsAreNats DEF Conn
  <2> QED
    BY <2>1, <2>2, <2>3
<1>10. ParseHolds(e)
  BY <1>5, <1>7, <1>9 DEF ParseHolds, LegsFollow
<1>11. /\ d \in Seq(Parse) /\ Len(d) <= MaxEntries /\ Distinct(d)
       /\ \A j \in DOMAIN d : d[j] = e \/ \E k \in DOMAIN cache : d[j] = cache[k]
  <2>1. cache \in Seq(Parse) /\ Distinct(cache)
    BY OfThread
  <2> QED
    BY <1>8, <2>1, RememberedCache
<1> HIDE DEF d
<1>12. \A j \in DOMAIN d : ParseHolds(d[j])
  BY <1>10, <1>11, OfThread
<1>13. PICK w \in Request : w = Answered(u, "ok")
  BY AnsweredIs
<1>14. /\ w.pc = "idle" /\ w.answer = "ok" /\ w.text = u.text /\ w.legs = u.legs
       /\ w.crossed = u.crossed /\ w.seen = None /\ w.disturbed = u.disturbed /\ w.start = u.start
  BY <1>13, AnsweredIs
<1>15. LegsFollow(w) /\ Len(w.legs) = Len(Leg)
  BY <1>5, <1>14 DEF LegsFollow
<1>16. ~u.disturbed => u.text = u.start
  BY <1>5 DEF FilesAsSeen
<1>17. AsOnDisk(w)
  BY <1>14, <1>15, <1>16 DEF AsOnDisk, LegsFollow
<1>18. parsing' = [parsing EXCEPT ![t] = {}]
  <2>1. parsing[t] = {u.icao}
    BY <1>1, <1>5, OfThread
  <2> QED
    BY <1>4, <2>1
<1>19. Set(t, w) /\ UNCHANGED <<world, conn>> /\ cache' = d /\ Len(w.legs) <= Len(Leg)
       /\ w.pc = "idle" /\ w.seen = None
  BY <1>4, <1>stored, <1>13, <1>14, <1>15, LegsAreMany
<1> QED
  BY <1>11, <1>12, <1>15, <1>17, <1>18, <1>19, AnswerStep

-----------------------------------------------------------------------------
(* The steps of the world.                                                  *)

\* A request as it was, but for its history.
Kept(w, u) ==
    /\ w.pc = u.pc /\ w.icao = u.icao /\ w.place = u.place /\ w.key = u.key /\ w.text = u.text
    /\ w.legs = u.legs /\ w.rows = u.rows /\ w.seen = u.seen /\ w.answer = u.answer
    /\ w.start = u.start /\ w.crossed = u.crossed
    /\ u.pc = "idle" => w = u

\* An installer marks the requests about its airport ...
LEMMA DisturbIs ==
    ASSUME Inv, NEW a \in Airport, Disturb(a)
    PROVE  /\ thread' \in [Thread -> Request]
           /\ \A t \in Thread : /\ Kept(thread'[t], thread[t])
                                /\ thread'[t].overtaken = thread[t].overtaken
                                /\ thread[t].pc # "idle" /\ ~thread'[t].disturbed =>
                                     ~thread[t].disturbed /\ thread[t].icao # a
<1>1. \A t \in Thread : /\ thread'[t] \in Request /\ Kept(thread'[t], thread[t])
                        /\ thread'[t].overtaken = thread[t].overtaken
                        /\ thread[t].pc # "idle" /\ ~thread'[t].disturbed =>
                             ~thread[t].disturbed /\ thread[t].icao # a
  <2> TAKE t \in Thread
  <2>1. PICK u \in Request : u = thread[t]
    BY OfThread
  <2> DEFINE w == [u EXCEPT !.disturbed = TRUE]
  <2>2. thread'[t] = IF u.pc # "idle" /\ u.icao = a THEN w ELSE u
    BY <2>1 DEF Disturb, Active, At
  <2>3. /\ w \in Request /\ w.disturbed /\ w.pc = u.pc /\ w.icao = u.icao /\ w.place = u.place
        /\ w.key = u.key /\ w.text = u.text /\ w.legs = u.legs /\ w.rows = u.rows
        /\ w.seen = u.seen /\ w.answer = u.answer /\ w.start = u.start /\ w.crossed = u.crossed
        /\ w.overtaken = u.overtaken
    BY DEF Request
  <2> HIDE DEF w
  <2> QED
    BY <2>1, <2>2, <2>3 DEF Kept
<1>2. thread' = [t \in Thread |-> thread'[t]]
  BY DEF Disturb
<1> QED
  BY <1>1, <1>2

\* ... and a publication all that are under way.
LEMMA OvertakeIs ==
    ASSUME Inv, Overtake
    PROVE  /\ thread' \in [Thread -> Request]
           /\ \A t \in Thread : /\ Kept(thread'[t], thread[t])
                                /\ thread'[t].disturbed = thread[t].disturbed
                                /\ thread[t].pc # "idle" => thread'[t].overtaken
<1>1. \A t \in Thread : /\ thread'[t] \in Request /\ Kept(thread'[t], thread[t])
                        /\ thread'[t].disturbed = thread[t].disturbed
                        /\ thread[t].pc # "idle" => thread'[t].overtaken
  <2> TAKE t \in Thread
  <2>1. PICK u \in Request : u = thread[t]
    BY OfThread
  <2> DEFINE w == [u EXCEPT !.overtaken = TRUE]
  <2>2. thread'[t] = IF u.pc # "idle" THEN w ELSE u
    BY <2>1 DEF Overtake, Active, At
  <2>3. /\ w \in Request /\ w.overtaken /\ w.pc = u.pc /\ w.icao = u.icao /\ w.place = u.place
        /\ w.key = u.key /\ w.text = u.text /\ w.legs = u.legs /\ w.rows = u.rows
        /\ w.seen = u.seen /\ w.answer = u.answer /\ w.start = u.start /\ w.crossed = u.crossed
        /\ w.disturbed = u.disturbed
    BY DEF Request
  <2> HIDE DEF w
  <2> QED
    BY <2>1, <2>2, <2>3 DEF Kept
<1>2. thread' = [t \in Thread |-> thread'[t]]
  BY DEF Overtake
<1> QED
  BY <1>1, <1>2

\* What such a step owes.
LEMMA WorldStep ==
    ASSUME Inv, thread' \in [Thread -> Request], \A t \in Thread : Kept(thread'[t], thread[t]),
           UNCHANGED <<parsing, conn>>,
           cache' \in Seq(Parse), Distinct(cache'), Len(cache') <= MaxEntries,
           file' \in [Airport \X Place -> 0 .. MaxVersion], version' \in 1 .. MaxVersion,
           path' \in 0 .. MaxGen, epoch' \in 0 .. MaxGen, stage' \in {"idle", "path", "epoch"},
           (path' = epoch' + 1) = (stage' = "path"), path' - epoch' \in 0 .. 1,
           \A x \in Airport \X Place : file'[x] <= version',
           \A t \in Thread : RequestHolds(thread[t], conn[t])',
           (\A k \in DOMAIN cache : ParseHolds(cache[k]))'
    PROVE  Inv'
<1>1. Fields'
  BY DEF Inv, Fields
<1>2. \A t \in Thread : thread'[t] \in Request /\ conn'[t] \in Conn
  BY <1>1 DEF Fields
<1>3. \A t \in Thread : /\ \A k \in DOMAIN thread'[t].legs : thread'[t].legs[k] \in Coordinate
                        /\ conn'[t].gen \in 0 .. MaxGen /\ conn'[t].tag \in -1 .. MaxGen
  <2> TAKE t \in Thread
  <2>1. thread'[t].legs \in Seq(Coordinate)
    BY <1>2 DEF Request
  <2>2. \A k \in DOMAIN thread'[t].legs : thread'[t].legs[k] \in Coordinate
    BY <2>1
  <2> QED
    BY <1>2, <2>2 DEF Conn
<1>4. \A t \in Thread : parsing'[t] = IF thread'[t].pc \in InParse THEN {thread'[t].icao} ELSE {}
  BY OfThread DEF Kept
<1>5. \A j, k \in DOMAIN cache' : j # k => ~IsFor(cache'[j], cache'[k].icao, cache'[k].place, cache'[k].mtime)
  BY DEF Distinct
<1>6. TypeOK'
  BY <1>3, <1>4, <1>5 DEF TypeOK, InParse, IsFor
<1> QED
  BY <1>1, <1>6 DEF Inv

\* A new version is a new key, whether a file has it or a file went.
LEMMA FilesChangeKeeps ==
    ASSUME Inv, NEW a \in Airport, NEW p \in Place, NEW v \in {None, version + 1},
           version < MaxVersion, version' = version + 1, file' = [file EXCEPT ![<<a, p>>] = v],
           Disturb(a), UNCHANGED <<path, epoch, stage, cache, parsing, conn, asks>>
    PROVE  Inv'
<1>1. /\ file \in [Airport \X Place -> 0 .. MaxVersion] /\ version \in 1 .. MaxVersion
      /\ \A b \in Airport, q \in Place : file[<<b, q>>] \in 0 .. version
  BY OfWorld
<1>2. /\ v \in 0 .. MaxVersion /\ v \in 0 .. version' /\ version' \in 1 .. MaxVersion
      /\ version <= version' /\ \A m \in 1 .. version : v # m
  BY <1>1, BoundsAreNats DEF None
<1>3. \A b \in Airport, q \in Place :
        file'[<<b, q>>] = IF b = a /\ q = p THEN v ELSE file[<<b, q>>]
  BY <1>1
<1>4. file' \in [Airport \X Place -> 0 .. MaxVersion]
  BY <1>1, <1>2
<1>5. \A x \in Airport \X Place : file'[x] <= version'
  <2> TAKE x \in Airport \X Place
  <2>1. PICK b \in Airport, q \in Place : x = <<b, q>>
    OBVIOUS
  <2> QED
    BY <1>1, <1>2, <1>3, <2>1
<1>6. \A b \in Airport : b # a => Winner(b)' = Winner(b) /\ Current(b)' = Current(b)
  BY <1>3 DEF Winner, Current, Place
<1>7. \A b \in Airport, q \in Place, m \in 1 .. MaxVersion, n \in Nat :
        KeyIsOf(b, q, m, n) => KeyIsOf(b, q, m, n)'
  BY <1>1, <1>2, <1>3 DEF KeyIsOf
<1>8. /\ thread' \in [Thread -> Request]
      /\ \A t \in Thread : /\ Kept(thread'[t], thread[t])
                           /\ thread'[t].overtaken = thread[t].overtaken
                           /\ thread[t].pc # "idle" /\ ~thread'[t].disturbed =>
                                ~thread[t].disturbed /\ thread[t].icao # a
  BY DisturbIs
<1>9. ASSUME NEW t \in Thread PROVE RequestHolds(thread[t], conn[t])'
  <2>1. PICK u \in Request : u = thread[t]
    BY OfThread
  <2>2. PICK w \in Request : w = thread'[t]
    BY <1>8
  <2>3. PICK c \in Conn : c = conn[t]
    BY OfThread
  <2>4. RequestHolds(u, c) /\ Kept(w, u) /\ w.overtaken = u.overtaken
        /\ (u.pc # "idle" /\ ~w.disturbed => ~u.disturbed /\ u.icao # a)
    BY <1>8, <2>1, <2>2, <2>3, OfThread
  <2>5. Shape(w)
    BY <2>4 DEF RequestHolds, Shape, Kept
  <2>6. KeyHolds(w)'
    <3>1. u.icao \in Airport /\ u.place \in Place /\ u.key \in 0 .. MaxVersion /\ u.text \in Nat
      BY BoundsAreNats DEF Request
    <3>2. ASSUME u.pc \in InParse PROVE KeyIsOf(u.icao, u.place, u.key, u.text)'
      <4>1. u.key \in 1 .. MaxVersion /\ KeyIsOf(u.icao, u.place, u.key, u.text)
        BY <2>4, <3>1, <3>2, BoundsAreNats DEF RequestHolds, Shape, KeyHolds, None
      <4> QED
        BY <1>7, <3>1, <4>1
    <3>3. u.pc = "read" => u.key <= version'
      BY <1>1, <1>2, <2>4, <3>1, BoundsAreNats DEF RequestHolds, KeyHolds
    <3> QED
      BY <2>4, <3>2, <3>3 DEF KeyHolds, Kept
  <2>7. FilesAsSeen(w)'
    <3>1. u.icao \in Airport
      BY DEF Request
    <3> QED
      BY <1>6, <2>4, <3>1 DEF RequestHolds, FilesAsSeen, Kept
  <2>8. LegsFollow(w)
    BY <2>4 DEF RequestHolds, LegsFollow, Kept
  <2>9. OneConnection(w, c)'
    BY <2>4 DEF RequestHolds, OneConnection, Kept
  <2>10. w.pc = "idle" => AsOnDisk(w)
    BY <2>4 DEF RequestHolds, Kept
  <2>11. RequestHolds(w, c)'
    BY <2>5, <2>6, <2>7, <2>8, <2>9, <2>10 DEF RequestHolds, Shape, LegsFollow, LegsOf, AsOnDisk
  <2> QED
    BY <2>2, <2>3, <2>11
<1>10. (\A k \in DOMAIN cache : ParseHolds(cache[k]))'
  <2> SUFFICES ASSUME NEW k \in DOMAIN cache PROVE ParseHolds(cache[k])'
    OBVIOUS
  <2>1. PICK e \in Parse : e = cache[k]
    BY OfThread DEF Inv, Fields
  <2>2. ParseHolds(e)
    BY <2>1 DEF Inv
  <2>3. KeyIsOf(e.icao, e.place, e.mtime, e.text)'
    BY <1>7, <2>2, BoundsAreNats DEF ParseHolds, Parse
  <2>4. ParseHolds(e)'
    BY <2>2, <2>3 DEF ParseHolds, LegsFollow, LegsOf, CurrentParse
  <2> QED
    BY <2>1, <2>4
<1>11. /\ cache' \in Seq(Parse) /\ Distinct(cache') /\ Len(cache') <= MaxEntries
  BY DEF Inv, TypeOK, Fields, Distinct
<1>12. /\ path' \in 0 .. MaxGen /\ epoch' \in 0 .. MaxGen /\ stage' \in {"idle", "path", "epoch"}
       /\ (path' = epoch' + 1) = (stage' = "path") /\ path' - epoch' \in 0 .. 1
  BY DEF Inv, TypeOK, Fields
<1>13. \A t \in Thread : Kept(thread'[t], thread[t])
  BY <1>8
<1> QED
  BY <1>2, <1>4, <1>5, <1>8, <1>9, <1>10, <1>11, <1>12, <1>13, WorldStep

\* The installer writes a file, or takes one away.
LEMMA InstallKeeps ==
    ASSUME Inv, NEW a \in Airport, NEW p \in Place, Install(a, p)
    PROVE  Inv'
BY FilesChangeKeeps DEF Install

LEMMA UninstallKeeps ==
    ASSUME Inv, NEW a \in Airport, NEW p \in Place, Uninstall(a, p)
    PROVE  Inv'
BY FilesChangeKeeps DEF Uninstall

\* A step of a publication marks whoever is under way; the cache is empty when it
\* is over.
LEMMA PublicationKeeps ==
    ASSUME Inv, Overtake, UNCHANGED <<file, version, parsing, conn>>,
           path' \in 0 .. MaxGen, epoch' \in 0 .. MaxGen, path <= path',
           (path' = epoch' + 1) = (stage' = "path"), path' - epoch' \in 0 .. 1,
           \/ stage' \in {"path", "epoch"} /\ cache' = cache
           \/ stage' = "idle" /\ cache' = <<>>
    PROVE  Inv'
<1>1. /\ thread' \in [Thread -> Request]
      /\ \A t \in Thread : /\ Kept(thread'[t], thread[t])
                           /\ thread'[t].disturbed = thread[t].disturbed
                           /\ thread[t].pc # "idle" => thread'[t].overtaken
  BY OvertakeIs
<1>2. path \in 0 .. MaxGen /\ MaxGen \in Nat /\ MaxEntries \in Nat
  BY OfWorld, BoundsAreNats
<1>3. ASSUME NEW t \in Thread PROVE RequestHolds(thread[t], conn[t])'
  <2>1. PICK u \in Request : u = thread[t]
    BY OfThread
  <2>2. PICK w \in Request : w = thread'[t]
    BY <1>1
  <2>3. PICK c \in Conn : c = conn[t]
    BY OfThread
  <2>4. /\ RequestHolds(u, c) /\ Kept(w, u) /\ w.disturbed = u.disturbed
        /\ u.pc # "idle" => w.overtaken
    BY <1>1, <2>1, <2>2, <2>3, OfThread
  <2>5. Shape(w)
    BY <2>4 DEF RequestHolds, Shape, Kept
  <2>6. KeyHolds(w)'
    BY <2>4 DEF RequestHolds, KeyHolds, KeyIsOf, Kept
  <2>7. FilesAsSeen(w)'
    BY <2>4 DEF RequestHolds, FilesAsSeen, Winner, Current, Kept
  <2>8. LegsFollow(w)
    BY <2>4 DEF RequestHolds, LegsFollow, Kept
  <2>9. OneConnection(w, c)'
    <3>1. u.seen <= path /\ c.gen <= path /\ u.seen \in Int /\ c.gen \in Int
      BY <1>2, <2>4 DEF RequestHolds, OneConnection, Request, Conn
    <3>2. w.seen <= path' /\ c.gen <= path'
      BY <1>2, <2>4, <3>1 DEF Kept
    <3> QED
      BY <2>4, <3>2 DEF OneConnection, Kept
  <2>10. w.pc = "idle" => AsOnDisk(w)
    BY <2>4 DEF RequestHolds, Kept
  <2>11. RequestHolds(w, c)'
    BY <2>5, <2>6, <2>7, <2>8, <2>9, <2>10 DEF RequestHolds, Shape, LegsFollow, LegsOf, AsOnDisk
  <2> QED
    BY <2>2, <2>3, <2>11
<1>4. /\ cache \in Seq(Parse) /\ Distinct(cache) /\ Len(cache) <= MaxEntries
      /\ \A k \in DOMAIN cache : ParseHolds(cache[k])
  BY DEF Inv, TypeOK, Fields, Distinct
<1>5. /\ cache' \in Seq(Parse) /\ Distinct(cache') /\ Len(cache') <= MaxEntries
      /\ (\A k \in DOMAIN cache : ParseHolds(cache[k]))'
  <2>1. CASE stage' \in {"path", "epoch"} /\ cache' = cache
    <3>1. ASSUME NEW k \in DOMAIN cache PROVE ParseHolds(cache[k])'
      BY <2>1, <1>4 DEF ParseHolds, KeyIsOf, LegsFollow, LegsOf, CurrentParse
    <3> QED
      BY <2>1, <3>1, <1>4
  <2>2. CASE stage' = "idle" /\ cache' = <<>>
    <3>1. cache' \in Seq(Parse) /\ Len(cache') = 0
      BY <2>2, EmptySeq
    <3>2. \A k \in DOMAIN cache' : FALSE
      BY <2>2, NoLegs
    <3> QED
      BY <1>2, <3>1, <3>2 DEF Distinct
  <2> QED
    BY <2>1, <2>2
<1>6. /\ file' \in [Airport \X Place -> 0 .. MaxVersion] /\ version' \in 1 .. MaxVersion
      /\ \A x \in Airport \X Place : file'[x] <= version'
      /\ stage' \in {"idle", "path", "epoch"} /\ UNCHANGED <<parsing, conn>>
  BY DEF Inv, TypeOK, Fields
<1>7. \A t \in Thread : Kept(thread'[t], thread[t])
  BY <1>1
<1> QED
  BY <1>1, <1>3, <1>5, <1>6, <1>7, WorldStep

\* Where a publication is, by its stage.
LEMMA StageIs ==
    ASSUME Inv
    PROVE  /\ path \in Nat /\ epoch \in Nat /\ MaxGen \in Nat /\ path <= MaxGen /\ epoch <= MaxGen
           /\ stage = "path" => path = epoch + 1
           /\ stage # "path" => path = epoch
<1>1. /\ path \in 0 .. MaxGen /\ epoch \in 0 .. MaxGen
      /\ (path = epoch + 1) = (stage = "path") /\ path - epoch \in 0 .. 1
  BY DEF Inv, TypeOK
<1>2. MaxGen \in Nat
  BY BoundsAreNats
<1>3. path = epoch \/ path = epoch + 1
  BY <1>1, <1>2
<1>4. path = epoch + 1 <=> stage = "path"
  BY <1>1
<1> QED
  BY <1>1, <1>2, <1>3, <1>4

\* _publish: the path, the epoch, the cache.
LEMMA PublishPathKeeps ==
    ASSUME Inv, PublishPath
    PROVE  Inv'
<1>1. /\ Overtake /\ UNCHANGED <<file, version, parsing, conn>> /\ cache' = cache
      /\ path' = epoch + 1 /\ epoch' = epoch /\ stage' = "path" /\ path = epoch /\ epoch < MaxGen
  BY StageIs DEF PublishPath
<1>2. /\ path' \in 0 .. MaxGen /\ epoch' \in 0 .. MaxGen /\ path <= path' /\ path' - epoch' \in 0 .. 1
      /\ path' = epoch' + 1
  BY <1>1, StageIs
<1> QED
  BY <1>1, <1>2, PublicationKeeps

LEMMA PublishEpochKeeps ==
    ASSUME Inv, PublishEpoch
    PROVE  Inv'
<1>1. /\ Overtake /\ UNCHANGED <<file, version, parsing, conn>> /\ cache' = cache
      /\ path' = path /\ epoch' = epoch + 1 /\ stage' = "epoch" /\ path = epoch + 1
  BY StageIs DEF PublishEpoch
<1>2. /\ path' \in 0 .. MaxGen /\ epoch' \in 0 .. MaxGen /\ path <= path' /\ path' - epoch' \in 0 .. 1
      /\ path' # epoch' + 1
  BY <1>1, StageIs
<1> QED
  BY <1>1, <1>2, PublicationKeeps

LEMMA InvalidateKeeps ==
    ASSUME Inv, Invalidate
    PROVE  Inv'
<1>1. /\ Overtake /\ UNCHANGED <<file, version, parsing, conn>> /\ cache' = <<>>
      /\ path' = path /\ epoch' = epoch /\ stage' = "idle" /\ path = epoch
  BY StageIs DEF Invalidate
<1>2. /\ path' \in 0 .. MaxGen /\ epoch' \in 0 .. MaxGen /\ path <= path' /\ path' - epoch' \in 0 .. 1
      /\ path' # epoch' + 1
  BY <1>1, StageIs
<1> QED
  BY <1>1, <1>2, PublicationKeeps

-----------------------------------------------------------------------------
(* The invariant, and what it gives.                                        *)

\* The server starts with nothing remembered and nobody at work.
LEMMA InitHolds == Init => Inv
<1> SUFFICES ASSUME Init PROVE Inv
  OBVIOUS
<1>1. /\ file \in [Airport \X Place -> 0 .. 1] /\ version = 1 /\ path \in {0, 1} /\ epoch = path
      /\ stage = "idle" /\ cache = <<>> /\ parsing = [t \in Thread |-> {}]
      /\ conn = [t \in Thread |-> [gen |-> 0, tag |-> -1]] /\ thread = [t \in Thread |-> Idle]
  BY DEF Init, None
<1>2. MaxGen \in Nat \ {0} /\ MaxVersion \in Nat \ {0} /\ MaxEntries \in Nat \ {0}
  BY CacheAssumption
<1>3. PICK i \in Request : i = Idle
  BY IdleIsRequest
<1>4. /\ i.pc = "idle" /\ i.legs = <<>> /\ i.seen = 0 /\ i.answer = "none"
  BY <1>3, IdleIsRequest DEF None
<1>5. PICK c \in Conn : c = [gen |-> 0, tag |-> -1]
  <2>1. 0 \in 0 .. MaxGen /\ -1 \in -1 .. MaxGen
    BY <1>2
  <2>2. [gen |-> 0, tag |-> -1] \in Conn
    BY <2>1 DEF Conn
  <2> QED
    BY <2>2
<1>6. /\ \A t \in Thread : thread[t] = i /\ conn[t] = c /\ parsing[t] = {}
      /\ thread \in [Thread -> Request] /\ conn \in [Thread -> Conn]
      /\ parsing \in [Thread -> SUBSET Airport]
  BY <1>1, <1>3, <1>5
<1>7. cache \in Seq(Parse) /\ Len(cache) = 0 /\ \A k \in DOMAIN cache : FALSE
  BY <1>1, EmptySeq, NoLegs
<1>8. \A x \in Airport \X Place : file[x] \in 0 .. 1
  BY <1>1
<1>9. Fields
  BY <1>1, <1>6, <1>7, <1>8 DEF Fields
<1>10. Len(i.legs) <= Len(Leg) /\ \A k \in DOMAIN i.legs : FALSE
  BY <1>4, NoLegs, LegsAreMany
<1>11. RequestHolds(i, c)
  <2>1. Shape(i) /\ KeyHolds(i) /\ FilesAsSeen(i) /\ AsOnDisk(i)
    BY <1>4, <1>10 DEF Shape, KeyHolds, FilesAsSeen, AsOnDisk, InParse
  <2>2. LegsFollow(i)
    BY <1>10 DEF LegsFollow, LegsOf
  <2>3. OneConnection(i, c)
    BY <1>1, <1>4, <1>5 DEF OneConnection
  <2> QED
    BY <2>1, <2>2, <2>3 DEF RequestHolds
<1>12. TypeOK
  <2>1. file \in [Airport \X Place -> 0 .. MaxVersion]
    BY <1>1, <1>2
  <2>2. c.gen \in 0 .. MaxGen /\ c.tag \in -1 .. MaxGen
    BY DEF Conn
  <2>3. /\ path \in 0 .. MaxGen /\ epoch \in 0 .. MaxGen /\ path # epoch + 1 /\ path - epoch \in 0 .. 1
        /\ version \in 1 .. MaxVersion
    BY <1>1, <1>2
  <2> QED
    BY <1>1, <1>2, <1>4, <1>6, <1>7, <1>10, <2>1, <2>2, <2>3 DEF TypeOK
<1> QED
  BY <1>6, <1>7, <1>9, <1>11, <1>12 DEF Inv

\* One step per action.
LEMMA NextKeeps == Inv /\ [Next]_vars => Inv'
<1> SUFFICES ASSUME Inv, [Next]_vars PROVE Inv'
  OBVIOUS
<1>1. ASSUME NEW t \in Thread, NEW a \in Airport, NEW op \in {"runways", "procedures"},
             Begin(t, a, op)
      PROVE  Inv'
  BY <1>1, BeginKeeps
<1>2. ASSUME NEW t \in Thread, ReadPath(t, "path", "rows") PROVE Inv'
  BY <1>2, ReadPathKeeps
<1>3. ASSUME NEW t \in Thread, RunwayRows(t) \/ ResolvePath(t) \/ LookUp(t) \/ ReadText(t)
      PROVE  Inv'
  BY <1>3, RunwayRowsKeeps, ResolvePathKeeps, LookUpKeeps, ReadTextKeeps
<1>4. ASSUME NEW t \in Thread, OwnRunway(t) \/ AskProvider(t) \/ ResolveLeg(t) PROVE Inv'
  BY <1>4, OwnRunwayKeeps, AskProviderKeeps, ResolveLegKeeps
<1>5. ASSUME NEW t \in Thread, Nested(t) \/ Remember(t) PROVE Inv'
  BY <1>5, NestedKeeps, RememberKeeps
<1>6. ASSUME NEW a \in Airport, NEW p \in Place, Install(a, p) \/ Uninstall(a, p) PROVE Inv'
  BY <1>6, InstallKeeps, UninstallKeeps
<1>7. ASSUME PublishPath \/ PublishEpoch \/ Invalidate PROVE Inv'
  BY <1>7, PublishPathKeeps, PublishEpochKeeps, InvalidateKeeps
<1>8. ASSUME UNCHANGED vars PROVE Inv'
  BY <1>8, SMTT(40) DEF vars, Inv, TypeOK, Fields, IsFor, RequestHolds, Shape, KeyHolds, KeyIsOf,
              FilesAsSeen, Winner, Current, LegsFollow, LegsOf, OneConnection, AsOnDisk,
              ParseHolds, CurrentParse
<1> QED
  BY <1>1, <1>2, <1>3, <1>4, <1>5, <1>6, <1>7, <1>8 DEF Next

\* The invariant of the requests, the connections and the remembered parses.
THEOREM InvHolds == Spec => []Inv
BY InitHolds, NextKeeps, PTL DEF Spec

\* Variables keep their types, the cache has no file twice and no more than its
\* bound, and a thread marks an airport exactly while it parses it.
THEOREM TypeCorrect == Spec => []TypeOK
<1>1. Inv => TypeOK
  BY DEF Inv
<1> QED
  BY <1>1, InvHolds, PTL

\* What is answered is the winning file as it is on disk, and what is remembered
\* has the coordinates of the published index, with the exemptions the two name.
THEOREM CacheHolds == Spec => []CacheIsTrue
<1>1. Inv => MergedAsOnDisk
  BY OfThread DEF MergedAsOnDisk, RequestHolds, Active, At
<1>2. Inv => CoordinatesAreCurrent
  <2> SUFFICES ASSUME Inv PROVE CoordinatesAreCurrent
    OBVIOUS
  <2>1. \A k \in DOMAIN cache : CurrentParse(cache[k])
    BY DEF Inv, ParseHolds
  <2>2. ASSUME NEW t \in Thread, Active(t), ~thread[t].overtaken, ~Mistagged(t)
        PROVE  thread[t].rows \in {None, path}
    <3>1. PICK u \in Request : u = thread[t]
      BY OfThread
    <3>2. PICK c \in Conn : c = conn[t]
      BY OfThread
    <3>3. /\ u.pc # "idle" /\ ~u.overtaken /\ ~(c.gen < c.tag) /\ OneConnection(u, c)
      BY <2>2, <3>1, <3>2, OfThread DEF Active, At, Mistagged, RequestHolds
    <3>4. /\ stage = "idle" /\ c.gen <= path
          /\ u.rows # None => u.rows = c.gen /\ c.tag = epoch
      BY <3>3 DEF OneConnection
    <3>5. path = epoch /\ path \in Int /\ c.gen \in Int
      BY <3>4, StageIs DEF Conn
    <3> QED
      BY <3>1, <3>3, <3>4, <3>5
  <2> QED
    BY <2>1, <2>2 DEF CoordinatesAreCurrent
<1>3. Inv => CacheIsTrue
  BY <1>1, <1>2 DEF CacheIsTrue
<1> QED
  BY <1>3, InvHolds, PTL
=============================================================================
