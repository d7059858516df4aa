----------------------------- MODULE NavdataBuild -----------------------------
(***************************************************************************)
(* build_index (core/navdata/xplane_native/build.py): four passes over the *)
(* simulator's data files, line by line through the readers of apt.py and  *)
(* earth.py, into the tables of a new SQLite file.  Rows go in by batches; *)
(* a cancellation is looked at once per batch of records.                  *)
(*                                                                         *)
(* The files are not known in advance: every step picks the next line, so  *)
(* a behaviour is one set of files.  Of a finished index the queries of    *)
(* provider.py are compared with those of in_memory.py.                    *)
(***************************************************************************)
EXTENDS NavdataRows, FiniteSets

CONSTANTS
    AptRow, NavRow, FixRow, HoldRow,  \* the lines a file may hold
    Batch,     \* INSERT_BATCH_SIZE, and the airports between two ticks
    MaxRows,   \* bound: lines in all files together
    Known, Airports   \* bounds: idents and airports the finished index is asked about

Files  == {"apt", "nav", "fix", "hold"}
Tables == {"airport", "runway", "parking", "navaid", "fix", "hold"}

ASSUME BuildAssumption == Batch \in Nat \ {0} /\ MaxRows \in Nat

VARIABLES
    pass,      \* the file being read, then "finalise", and how it ended
    file,      \* history: the lines each file has turned out to hold
    current,   \* the airport block being read, in a sequence of at most one
    batch,     \* per table, the _Batch: rows not yet inserted, and the count
    table,     \* the tables
    skipped,   \* _SkipCounter.total
    index,     \* records the reader has yielded in this pass
    cancel,    \* the cancellation event
    late       \* history: records taken in this pass since it was set

vars == <<pass, file, current, batch, table, skipped, index, cancel, late>>

Init ==
    /\ pass = "apt"
    /\ file = [f \in Files |-> <<>>]
    /\ current = <<>>
    /\ batch = [t \in Tables |-> [rows |-> <<>>, count |-> 0]]
    /\ table = [t \in Tables |-> <<>>]
    /\ skipped = 0 /\ index = 0
    /\ cancel = FALSE /\ late = 0

Lines == LET n(f) == Len(file[f]) IN n("apt") + n("nav") + n("fix") + n("hold")

-----------------------------------------------------------------------------
(* Tables and batches.                                                     *)

\* The UNIQUE columns of the two tables filled with INSERT OR REPLACE.
SameKey(t, a, b) ==
    CASE t = "airport" -> a.icao = b.icao
      [] t = "runway"  -> a.icao = b.icao /\ a.ident = b.ident
      [] OTHER         -> FALSE

\* A replaced row goes; the new one is the last.
Insert(t, rows, new) == Append(SelectSeq(rows, LAMBDA r : ~SameKey(t, r, new)), new)
Flushed(t, rows, new) == FoldLeft(LAMBDA done, r : Insert(t, done, r), rows, new)

\* Mutant: the batch is cleared without having been inserted when it is full.
AddOneLosing(t, state, row) ==
    LET rows == Append(state.rows, row) IN
    [rows  |-> IF Len(rows) >= Batch THEN <<>> ELSE rows,
     table |-> state.table,
     count |-> state.count + 1]

\* Mutant: a batch goes in when one row more than full.
AddOneOver(t, state, row) ==
    LET rows == Append(state.rows, row) IN
    [rows  |-> IF Len(rows) > Batch THEN <<>> ELSE rows,
     table |-> IF Len(rows) > Batch THEN Flushed(t, state.table, rows) ELSE state.table,
     count |-> state.count + 1]

\* _Batch.add
AddOne(t, state, row) ==
    LET rows == Append(state.rows, row) IN
    [rows  |-> IF Len(rows) >= Batch THEN <<>> ELSE rows,
     table |-> IF Len(rows) >= Batch THEN Flushed(t, state.table, rows) ELSE state.table,
     count |-> state.count + 1]

After(t, new) ==
    FoldLeft(LAMBDA state, row : AddOne(t, state, row),
             [rows |-> batch[t].rows, table |-> table[t], count |-> batch[t].count], new)

\* new: per table, the rows to add.
AddAll(new) ==
    LET after == [t \in Tables |-> After(t, new[t])] IN
    /\ batch' = [t \in Tables |-> [rows |-> after[t].rows, count |-> after[t].count]]
    /\ table' = [t \in Tables |-> after[t].table]

FlushAll ==
    /\ table' = [t \in Tables |-> Flushed(t, table[t], batch[t].rows)]
    /\ batch' = [t \in Tables |-> [batch[t] EXCEPT !.rows = <<>>]]

NoRows == [t \in Tables |-> <<>>]

\* Mutant: the tick comes one record after the batch.
TickLate(next) ==
    /\ index' = index + 1
    /\ pass' = IF index % Batch = 0 /\ index > 0 /\ cancel THEN "cancelled" ELSE next
    /\ late' = IF cancel THEN late + 1 ELSE 0

\* A record has been taken: on the last of a batch the event is looked at.
Tick(next) ==
    /\ index' = index + 1
    /\ pass' = IF (index + 1) % Batch = 0 /\ cancel THEN "cancelled" ELSE next
    /\ late' = IF cancel THEN late + 1 ELSE 0

NoTick(next) == pass' = next /\ UNCHANGED <<index, late>>

-----------------------------------------------------------------------------
(* apt.dat: iter_airports and _index_airports.                             *)

Read(f, row) ==
    /\ pass = f /\ Lines < MaxRows
    /\ file' = [file EXCEPT ![f] = Append(@, row)]
    /\ UNCHANGED cancel

\* The published reference point, or the centre of all there is.
Position(block) ==
    IF block.lat # None /\ block.lon # None THEN <<[datum |-> <<block.lat, block.lon>>]>>
    ELSE LET points == [k \in DOMAIN block.runways |-> block.runways[k].threshold]
                       \o [k \in DOMAIN block.parking |-> block.parking[k].at]
         IN IF points = <<>> THEN <<>> ELSE <<[centre |-> points]>>

OfAirport(icao, records) == [k \in DOMAIN records |-> [icao |-> icao] @@ records[k]]

AirportRows(block, position) ==
    [NoRows EXCEPT
        !["airport"] = <<[icao |-> block.icao, position |-> position, region |-> block.region,
                          runways |-> Len(block.runways)]>>,
        !["runway"]  = OfAirport(block.icao, block.runways),
        !["parking"] = OfAirport(block.icao, block.parking)]

\* The block that a header, or the end of the file, closes: yielded and added,
\* or skipped for want of a position.  more: malformed rows counted besides.
Finalise(more, next) ==
    IF current = <<>>
    THEN NoTick(next) /\ skipped' = skipped + more /\ UNCHANGED <<batch, table>>
    ELSE LET position == Position(current[1]) IN
         IF position = <<>>
         THEN NoTick(next) /\ skipped' = skipped + 1 + more /\ UNCHANGED <<batch, table>>
         ELSE /\ AddAll(AirportRows(current[1], position[1]))
              /\ Tick(next)
              /\ skipped' = skipped + (IF pass' = "cancelled" THEN 0 ELSE more)

NewBlock(row) ==
    [icao |-> row.icao, lat |-> None, lon |-> None, region |-> None, runways |-> <<>>, parking |-> <<>>]

\* Mutant: headers that are not land airports do not end the block.
ReadHeaderOfLand(row) ==
    /\ row.code \in {"1", "16", "17"} /\ Read("apt", row)
    /\ IF row.code = "1"
       THEN /\ Finalise(IF row.ok THEN 0 ELSE 1, "apt")
            /\ current' = IF row.ok THEN <<NewBlock(row)>> ELSE <<>>
       ELSE UNCHANGED <<current, skipped, batch, table, index, pass, late>>

\* Any header closes the block before it; only a readable land header opens one.
ReadHeader(row) ==
    /\ row.code \in {"1", "16", "17"} /\ Read("apt", row)
    /\ Finalise(IF row.code = "1" /\ ~row.ok THEN 1 ELSE 0, "apt")
    /\ current' = IF row.code = "1" /\ row.ok THEN <<NewBlock(row)>> ELSE <<>>

\* A row of a block nobody reads is dropped.
InBlock(row, block) ==
    /\ Read("apt", row)
    /\ current' = IF current = <<>> THEN <<>> ELSE <<block>>
    /\ NoTick("apt") /\ UNCHANGED <<batch, table>>

ReadRunway(row) ==
    /\ row.code = "100"
    /\ InBlock(row, [current[1] EXCEPT !.runways = @ \o ParseRunway(row).found])
    /\ skipped' = IF current = <<>> THEN skipped ELSE skipped + ParseRunway(row).skips

ReadParking(row) ==
    /\ row.code = "1300"
    /\ InBlock(row, [current[1] EXCEPT !.parking = @ \o ParseParking(row).found])
    /\ skipped' = IF current = <<>> THEN skipped ELSE skipped + ParseParking(row).skips

\* Mutant: the row decorates every stand of the block.
DecoratedAll(block, row) ==
    IF ~row.ok THEN block
    ELSE [block EXCEPT !.parking = [k \in DOMAIN @ |->
            [@[k] EXCEPT !.operation = IF row.operation \in Operations THEN row.operation ELSE None]]]

\* _apply_parking_metadata: the last stand that could be read, whatever row it was on.
Decorated(block, row) ==
    IF ~row.ok \/ block.parking = <<>> THEN block
    ELSE [block EXCEPT !.parking[Len(block.parking)].operation =
            IF row.operation \in Operations THEN row.operation ELSE None]

ReadParkingMetadata(row) ==
    /\ row.code = "1301"
    /\ InBlock(row, Decorated(current[1], row))
    /\ UNCHANGED skipped

\* _apply_metadata: an unreadable datum is a missing one; an icao_code of the
\* wrong length is left alone.
WithMetadata(block, row) ==
    CASE row.key = "icao_code" /\ row.value # None -> [block EXCEPT !.icao = row.value]
      [] row.key = "datum_lat"   -> [block EXCEPT !.lat = row.value]
      [] row.key = "datum_lon"   -> [block EXCEPT !.lon = row.value]
      [] row.key = "region_code" -> [block EXCEPT !.region = row.value]
      [] OTHER                   -> block

ReadMetadata(row) ==
    /\ row.code = "1302"
    /\ InBlock(row, WithMetadata(current[1], row))
    /\ UNCHANGED skipped

\* The end of the file closes the last block.
EndOfApt ==
    /\ pass = "apt"
    /\ Finalise(0, "end of apt")
    /\ current' = <<>>
    /\ UNCHANGED <<file, cancel>>

\* What the batches still hold goes in, and the pass is committed.
EndOfPass(f, next) ==
    /\ pass = f
    /\ FlushAll
    /\ pass' = next /\ index' = 0 /\ late' = 0
    /\ UNCHANGED <<file, current, skipped, cancel>>

-----------------------------------------------------------------------------
(* The earth files.                                                        *)

\* A line is yielded, skipped or passed over.
ReadRecord(f, t, row, parsed) ==
    /\ Read(f, row)
    /\ skipped' = skipped + parsed.skips
    /\ IF parsed.found = <<>> THEN NoTick(f) /\ UNCHANGED <<batch, table>>
       ELSE AddAll([NoRows EXCEPT ![t] = parsed.found]) /\ Tick(f)
    /\ UNCHANGED current

ReadNavaid(row) == ReadRecord("nav", "navaid", row, ParseNavaid(row))
ReadFix(row)    == ReadRecord("fix", "fix", row, ParseFix(row))
ReadHold(row)   == ReadRecord("hold", "hold", row, ParseHold(row))

-----------------------------------------------------------------------------
\* _write_metadata, the commit and the pragmas.
FinaliseBuild ==
    /\ pass = "finalise"
    /\ pass' = "done"
    /\ UNCHANGED <<file, current, batch, table, skipped, index, cancel, late>>

\* DELETE /index and shutdown, at any time.
SetCancel ==
    /\ ~cancel /\ pass \in Files \cup {"end of apt", "finalise"}
    /\ cancel' = TRUE
    /\ UNCHANGED <<pass, file, current, batch, table, skipped, index, late>>

\* sqlite3.Error or OSError: the build raises and its file is thrown away.
Break ==
    /\ pass \in Files \cup {"end of apt", "finalise"}
    /\ pass' = "failed"
    /\ file' = [f \in Files |-> <<>>] /\ current' = <<>> /\ table' = NoRows
    /\ batch' = [t \in Tables |-> [rows |-> <<>>, count |-> 0]]
    /\ skipped' = 0 /\ index' = 0 /\ late' = 0
    /\ UNCHANGED cancel

Next ==
    \/ \E row \in AptRow : \/ ReadHeader(row) \/ ReadRunway(row) \/ ReadParking(row)
                           \/ ReadParkingMetadata(row) \/ ReadMetadata(row)
    \/ EndOfApt
    \/ EndOfPass("end of apt", "nav") \/ EndOfPass("nav", "fix")
    \/ EndOfPass("fix", "hold") \/ EndOfPass("hold", "finalise")
    \/ \E row \in NavRow : ReadNavaid(row)
    \/ \E row \in FixRow : ReadFix(row)
    \/ \E row \in HoldRow : ReadHold(row)
    \/ FinaliseBuild \/ SetCancel \/ Break

Spec == Init /\ [][Next]_vars
=============================================================================
