----------------------------- MODULE RecordStore -----------------------------
(***************************************************************************)
(* The two directories of JSON files: training profiles                    *)
(* (core/profiles/store.py) and saved camera positions                     *)
(* (core/camera/store.py), behind routes that run in a pool of threads     *)
(* (server/profile_routes.py, server/camera_routes.py).                    *)
(*                                                                         *)
(* A thread is interrupted between any two calls of the file system.  A    *)
(* temporary file is named after its record, so two updates of one profile *)
(* share it; a handle follows its file through a rename.                   *)
(***************************************************************************)
EXTENDS Naturals, FiniteSets

CONSTANTS Profile, Position,   \* record ids: uuids, each handed out once
          Body,                \* what a draft or a camera offset says
          Thread,
          MaxClock,            \* bound: timestamps handed out
          Faults               \* whether the disk may refuse an operation

Id == Profile \cup Position

ASSUME StoreAssumption ==
    /\ Profile \cap Position = {} /\ Id # {}
    /\ MaxClock \in Nat /\ Faults \in BOOLEAN

VARIABLES file,     \* <id>.json
          temp,     \* .<id>.tmp
          thread,   \* per thread, the request it serves
          clock,    \* the last timestamp
          used,     \* history: ids ever handed out
          offset,   \* the camera's free pose, or NoPose in a named view
          shared    \* history: ids whose temporary file two writers have had open

vars == <<file, temp, thread, clock, used, offset, shared>>

NoFile == [kind |-> "none"]
Empty  == [kind |-> "empty"]
Mixed  == [kind |-> "mixed"]    \* two writers' bytes over one another
Whole(b, c, u) == [kind |-> "whole", body |-> b, created |-> c, updated |-> u]
Record  == [kind : {"whole"}, body : Body, created : 0 .. MaxClock, updated : 0 .. MaxClock]
Content == Record \cup {NoFile, Empty, Mixed}
NoPose  == [kind |-> "none"]

IsWhole(x) == x.kind = "whole"

IdleThread == [op |-> "idle", pc |-> "idle", id |-> CHOOSE i \in Id : TRUE, draft |-> NoFile,
               handle |-> "none", gone |-> FALSE, left |-> {}, stable |-> {}, seen |-> {},
               answer |-> "none"]

At(t, pc) == thread[t].pc = pc
Goes(t, pc) == thread' = [thread EXCEPT ![t].pc = pc]
\* A served thread keeps what its answer is judged by.
Served(u, a) == [u EXCEPT !.pc = "idle", !.draft = NoFile, !.handle = "none", !.answer = a]
Answers(t, a) == thread' = [thread EXCEPT ![t] = Served(@, a)]

Init ==
    /\ used \in SUBSET Id       \* what an earlier run of the server has stored
    /\ file \in [Id -> {Whole(b, 0, 0) : b \in Body} \cup {NoFile}]
    /\ \A i \in Id : IsWhole(file[i]) <=> i \in used
    /\ temp = [i \in Id |-> NoFile]
    /\ thread = [t \in Thread |-> IdleThread]
    /\ clock = 0
    /\ offset = NoPose
    /\ shared = {}

-----------------------------------------------------------------------------
(* Requests.                                                               *)

Begin(t, op, i, pc) ==
    thread' = [thread EXCEPT ![t] = [IdleThread EXCEPT !.op = op, !.id = i, !.pc = pc]]
BeginWrite(t, op, i, r) ==
    thread' = [thread EXCEPT ![t] =
                 [IdleThread EXCEPT !.op = op, !.id = i, !.pc = "open", !.draft = r]]

\* create, and import_bytes once the upload has been parsed: a new id and two
\* equal timestamps.
Create(t, i, b) ==
    /\ At(t, "idle") /\ i \in Profile \ used /\ clock < MaxClock
    /\ clock' = clock + 1
    /\ used' = used \cup {i}
    /\ BeginWrite(t, "create", i, Whole(b, clock + 1, clock + 1))
    /\ UNCHANGED <<file, temp, offset, shared>>

\* save_position: the live pose is read first; with none the answer is a 409.
SavePosition(t, i) ==
    /\ At(t, "idle") /\ i \in Position \ used /\ clock < MaxClock /\ offset # NoPose
    /\ clock' = clock + 1
    /\ used' = used \cup {i}
    /\ BeginWrite(t, "create", i, Whole(offset.body, clock + 1, clock + 1))
    /\ UNCHANGED <<file, temp, offset, shared>>

\* Mutant: the file is read without asking whether it is there.
FindRecordUnchecked(t, op, i) ==
    /\ At(t, "idle")
    /\ Begin(t, op, i, "read")
    /\ UNCHANGED <<file, temp, clock, used, offset, shared>>

\* get: a missing file is an answer of its own, given before anything is read.
FindRecord(t, op, i) ==
    /\ At(t, "idle")
    /\ IF file[i] # NoFile THEN Begin(t, op, i, "read")
       ELSE thread' = [thread EXCEPT ![t] =
                         [IdleThread EXCEPT !.op = op, !.id = i, !.answer = "not found"]]
    /\ UNCHANGED <<file, temp, clock, used, offset, shared>>

Get(t)     == \E i \in Id : FindRecord(t, "get", i)
Replace(t) == \E i \in Profile : FindRecord(t, "replace", i)
ApplyPosition(t) == \E i \in Position : FindRecord(t, "apply", i)

\* Mutant: the update is a record of its own, created now.
ReadRecordAnew(t) ==
    /\ At(t, "read")
    /\ LET now == file[thread[t].id] IN
       \/ now = NoFile /\ Answers(t, "vanished") /\ UNCHANGED clock
       \/ now \in {Empty, Mixed} /\ Answers(t, "unreadable") /\ UNCHANGED clock
       \/ /\ IsWhole(now) /\ thread[t].op = "replace" /\ clock < MaxClock
          /\ clock' = clock + 1
          /\ \E b \in Body : thread' = [thread EXCEPT ![t].pc = "open",
                                ![t].draft = Whole(b, clock + 1, clock + 1)]
    /\ UNCHANGED <<file, temp, used, offset, shared>>

\* The file is read and parsed; replace goes on with the new draft, under the
\* old creation time.
ReadRecord(t) ==
    /\ At(t, "read")
    /\ LET now == file[thread[t].id] IN
       \/ now = NoFile /\ Answers(t, "vanished") /\ UNCHANGED clock
       \/ now \in {Empty, Mixed} /\ Answers(t, "unreadable") /\ UNCHANGED clock
       \/ IsWhole(now) /\ thread[t].op = "get" /\ Answers(t, "ok") /\ UNCHANGED clock
       \/ /\ IsWhole(now) /\ thread[t].op = "apply"
          /\ thread' = [thread EXCEPT ![t].pc = "aim", ![t].draft = now]
          /\ UNCHANGED clock
       \/ /\ IsWhole(now) /\ thread[t].op = "replace" /\ clock < MaxClock
          /\ clock' = clock + 1
          /\ \E b \in Body : thread' = [thread EXCEPT ![t].pc = "open",
                                ![t].draft = Whole(b, now.created, clock + 1)]
    /\ UNCHANGED <<file, temp, used, offset, shared>>

\* apply_position: the offset as it was read goes to the adapter.
AimCamera(t) ==
    /\ At(t, "aim")
    /\ offset' = [kind |-> "pose", body |-> thread[t].draft.body]
    /\ Answers(t, "ok")
    /\ UNCHANGED <<file, temp, clock, used, shared>>

\* set_camera_view: a named view has no free pose.
SetView ==
    /\ offset' = NoPose
    /\ UNCHANGED <<file, temp, thread, clock, used, shared>>

-----------------------------------------------------------------------------
(* _write: a temporary file, then a rename.                                *)

Writers(i) == {t \in Thread : thread[t].id = i /\ thread[t].pc \in {"write", "rename"}}

\* Mutant: the record itself is opened for writing.
OpenRecord(t) ==
    LET i == thread[t].id IN
    /\ At(t, "open")
    /\ file' = [file EXCEPT ![i] = Empty] /\ temp' = [temp EXCEPT ![i] = thread[t].draft]
    /\ shared' = IF Writers(i) # {} THEN shared \cup {i} ELSE shared
    /\ thread' = [thread EXCEPT ![t].pc = "write", ![t].handle = "file"]
    /\ UNCHANGED <<clock, used, offset>>

\* write_text opens and truncates: the file that is there, when there is one.
OpenTemp(t) ==
    LET i == thread[t].id IN
    /\ At(t, "open")
    /\ temp' = [temp EXCEPT ![i] = Empty]
    /\ shared' = IF Writers(i) # {} THEN shared \cup {i} ELSE shared
    /\ thread' = [thread EXCEPT ![t].pc = "write", ![t].handle = "temp"]
    /\ UNCHANGED <<file, clock, used, offset>>

\* What a write leaves in a file that held old: over another writer's bytes the
\* longer text shows through.
Written(old, draft) == IF old = Empty THEN {draft} ELSE {draft, Mixed}

\* The text goes through the handle, to wherever the file is by now.
WriteText(t) ==
    LET i == thread[t].id IN
    /\ At(t, "write")
    /\ \/ /\ thread[t].handle = "temp"
          /\ \E x \in Written(temp[i], thread[t].draft) : temp' = [temp EXCEPT ![i] = x]
          /\ UNCHANGED file
       \/ /\ thread[t].handle = "file"
          /\ \E x \in Written(file[i], thread[t].draft) : file' = [file EXCEPT ![i] = x]
          /\ UNCHANGED temp
       \/ thread[t].handle = "unlinked" /\ UNCHANGED <<file, temp>>
    /\ thread' = [thread EXCEPT ![t].pc = "rename", ![t].handle = "none"]
    /\ UNCHANGED <<clock, used, offset, shared>>

\* A rename takes open handles along: on the temporary file to the record, on
\* the record it replaces to a file without a name.
HandleAfterRename(h) == CASE h = "temp" -> "file" [] h = "file" -> "unlinked" [] OTHER -> h

Rename(t) ==
    LET i == thread[t].id IN
    /\ At(t, "rename")
    /\ IF temp[i] = NoFile
       THEN Answers(t, "temp gone") /\ UNCHANGED <<file, temp>>
       ELSE /\ file' = [file EXCEPT ![i] = temp[i]]
            /\ temp' = [temp EXCEPT ![i] = NoFile]
            /\ thread' = [u \in Thread |->
                 IF u = t THEN Served(thread[t], "ok")
                 ELSE IF thread[u].id = i
                 THEN [thread[u] EXCEPT !.handle = HandleAfterRename(@)] ELSE thread[u]]
    /\ UNCHANGED <<clock, used, offset, shared>>

\* Mutant: the handle stays open.
DiskFailsOpen(t) ==
    /\ Faults /\ thread[t].pc \in {"read", "open", "write", "rename"}
    /\ thread' = [thread EXCEPT ![t].pc = "idle", ![t].answer = "disk"]
    /\ UNCHANGED <<file, temp, clock, used, offset, shared>>

\* An OSError anywhere in a read or a write: a 500, and the temporary file stays.
DiskFails(t) ==
    /\ Faults /\ thread[t].pc \in {"read", "open", "write", "rename"}
    /\ Answers(t, "disk")
    /\ UNCHANGED <<file, temp, clock, used, offset, shared>>

\* Everyone whose request is about i, or who is listing it, has seen it go: no list stands
\* for it any longer.
Unlinked(i, u) ==
    [u EXCEPT !.gone = IF u.id = i THEN TRUE ELSE @,
              !.handle = IF u.id = i /\ @ = "file" THEN "unlinked" ELSE @,
              !.stable = @ \ {i}]

\* A deletion is one call, so nobody waits for its record and only its answer is kept.
Deletes(a) == [IdleThread EXCEPT !.op = "delete", !.answer = a]

Delete(t, i) ==
    /\ At(t, "idle")
    /\ file' = [file EXCEPT ![i] = NoFile]
    /\ thread' = [u \in Thread |->
          IF u = t THEN Deletes(IF file[i] = NoFile THEN "not found" ELSE "ok")
          ELSE IF file[i] = NoFile THEN thread[u] ELSE Unlinked(i, thread[u])]
    /\ UNCHANGED <<temp, clock, used, offset, shared>>

\* An OSError other than a missing file, in the unlink: a 500, and the file stays.
DeleteFails(t) ==
    /\ Faults /\ At(t, "idle")
    /\ thread' = [thread EXCEPT ![t] = Deletes("disk")]
    /\ UNCHANGED <<file, temp, clock, used, offset, shared>>

-----------------------------------------------------------------------------
(* list: the names first, then the files one by one.                       *)

List(t, kind) ==
    LET names == {i \in kind : file[i] # NoFile} IN
    /\ At(t, "idle")
    /\ thread' = [thread EXCEPT ![t] =
         [IdleThread EXCEPT !.op = "list", !.pc = "list", !.left = names, !.stable = names]]
    /\ UNCHANGED <<file, temp, clock, used, offset, shared>>

\* Mutant: the first unreadable file ends the list.
ListNextOrStop(t) ==
    /\ At(t, "list")
    /\ \E i \in thread[t].left :
         thread' = [thread EXCEPT
            ![t].left = IF IsWhole(file[i]) THEN @ \ {i} ELSE {},
            ![t].seen = IF IsWhole(file[i]) THEN @ \cup {i} ELSE @]
    /\ UNCHANGED <<file, temp, clock, used, offset, shared>>

\* A file that is gone or does not parse is left out, and so is a record whose read the disk
\* refuses: the answer does not say so, and the list no longer stands for that name.
ListNext(t) ==
    /\ At(t, "list")
    /\ \E i \in thread[t].left :
         \/ thread' = [thread EXCEPT ![t].left = @ \ {i},
                                     ![t].seen = IF IsWhole(file[i]) THEN @ \cup {i} ELSE @]
         \/ /\ Faults
            /\ thread' = [thread EXCEPT ![t].left = @ \ {i}, ![t].stable = @ \ {i}]
    /\ UNCHANGED <<file, temp, clock, used, offset, shared>>

ListEnds(t) ==
    /\ At(t, "list") /\ thread[t].left = {}
    /\ Answers(t, "ok")
    /\ UNCHANGED <<file, temp, clock, used, offset, shared>>

-----------------------------------------------------------------------------
\* The server is killed: files stay as they are, requests are forgotten.
Crash ==
    /\ \E t \in Thread : thread[t].pc # "idle"
    /\ thread' = [t \in Thread |-> IdleThread]
    /\ offset' = NoPose
    /\ UNCHANGED <<file, temp, clock, used, shared>>

Next ==
    \/ \E t \in Thread :
         \/ \E i \in Id : Delete(t, i) \/ SavePosition(t, i) \/ \E b \in Body : Create(t, i, b)
         \/ DeleteFails(t)
         \/ Get(t) \/ Replace(t) \/ ApplyPosition(t)
         \/ ReadRecord(t) \/ AimCamera(t)
         \/ OpenTemp(t) \/ WriteText(t) \/ Rename(t) \/ DiskFails(t)
         \/ List(t, Profile) \/ List(t, Position) \/ ListNext(t) \/ ListEnds(t)
    \/ SetView \/ Crash

Spec == Init /\ [][Next]_vars

-----------------------------------------------------------------------------
Request == [op : {"idle", "create", "get", "replace", "apply", "delete", "list"},
            pc : {"idle", "read", "aim", "open", "write", "rename", "list"},
            id : Id, draft : Record \cup {NoFile},
            handle : {"none", "temp", "file", "unlinked"}, gone : BOOLEAN,
            left : SUBSET Id, stable : SUBSET Id, seen : SUBSET Id,
            answer : {"none", "ok", "not found", "vanished", "unreadable", "temp gone", "disk"}]

\* Types; and a thread holds a handle exactly while it is about to write.
TypeOK ==
    /\ file \in [Id -> Content] /\ temp \in [Id -> Content]
    /\ thread \in [Thread -> Request]
    /\ \A t \in Thread : (thread[t].handle # "none") <=> At(t, "write")
    /\ clock \in 0 .. MaxClock /\ used \subseteq Id /\ shared \subseteq Profile
    /\ offset \in [kind : {"pose"}, body : Body] \cup {NoPose}

\* "writes atomically": a record is never seen half written, also after a crash
\* or a full disk, unless two updates of it had its temporary file open at once
\* (core/profiles/store.py, core/camera/store.py, _write).
RecordsAreWhole ==
    \A i \in Id \ shared : file[i] = NoFile \/ IsWhole(file[i])

\* A request fails with an error of the store only for a cause: the record was
\* deleted while it was served, two updates met, or the disk refused.  A record
\* that is missing from the start is "not found" (both stores, get).  The first
\* cause is the code's departure from both errors' docstrings, "Never raised for
\* 'not found'": a record deleted between is_file and read_text is one.
ErrorsHaveACause ==
    \A t \in Thread :
        /\ thread[t].answer = "vanished" => thread[t].gone
        /\ thread[t].answer \in {"unreadable", "temp gone"} => thread[t].id \in shared
        /\ thread[t].answer = "disk" => Faults

\* A list has every record that was there from its first step to its last: a bad
\* file, one deleted meanwhile, or one whose read the disk refused costs nothing
\* but itself (both stores, list).  It is complete no further: a sound record the
\* disk refuses is missing from a list that is answered "ok".
ListIsComplete ==
    \A t \in Thread :
        thread[t].op = "list" /\ thread[t].answer = "ok"
            => thread[t].stable \ shared \subseteq thread[t].seen

\* What makes a record appear is its creation, or an update that had read it
\* before it was deleted; an update never changes when a record was created
\* (core/profiles/store.py, replace).
UpdatesStayInPlace ==
    [][\A i \in Id :
        /\ file[i] = NoFile /\ file'[i] # NoFile =>
             \E t \in Thread : /\ thread[t].id = i /\ thread[t].pc = "rename"
                               /\ thread[t].op = "create" \/ thread[t].gone
        /\ IsWhole(file[i]) /\ IsWhole(file'[i]) =>
             file'[i].created = file[i].created]_vars

\* What is read from the directory while others write it is whole, and all of it: no torn
\* record, and none missing from a list but one the disk refused to read for it (both
\* stores, _write, get and list).
ReadersSeeWholeRecords == RecordsAreWhole /\ ListIsComplete

-----------------------------------------------------------------------------
(* The inductive invariant (RecordStoreProofs): what a thread may rely on  *)
(* between two calls of the file system.                                   *)

Writing == {"open", "write", "rename"}
Creates(t) == thread[t].op = "create" /\ thread[t].pc \in Writing

\* What a request carries at each of its calls.
Fits(u) ==
    /\ u.pc # "idle" => u.answer = "none"
    /\ IsWhole(u.draft) <=> u.pc \in Writing \cup {"aim"}
    /\ u.pc \in Writing => u.op \in {"create", "replace"}
    /\ u.pc = "read" => u.op \in {"get", "replace", "apply"}
    /\ u.op = "replace" /\ u.pc # "idle" => u.id \in Profile
    /\ u.op = "list" => u.pc \in {"list", "idle"}
    /\ u.pc = "list" => u.op = "list"

ThreadShape == \A t \in Thread : Fits(thread[t])

\* An id is handed out once, so no two threads create the same record.
CreatesOnce == \A t, v \in Thread : Creates(t) /\ Creates(v) /\ thread[t].id = thread[v].id => t = v

\* An open handle on a record has its file, and who goes on without one has seen it go.
GoneIsKnown ==
    \A t \in Thread :
        /\ thread[t].handle = "file" => file[thread[t].id] # NoFile
        /\ thread[t].pc \in Writing \cup {"read"} /\ thread[t].op # "create"
             => file[thread[t].id] # NoFile \/ thread[t].gone

\* A temporary file that is not shared holds what its one writer has written.
SoleWriter ==
    \A i \in Id \ shared :
        /\ \A t, v \in Writers(i) : t = v
        /\ \A t \in Writers(i) :
             IF At(t, "write") THEN thread[t].handle = "temp" /\ temp[i] = Empty
             ELSE temp[i] = thread[t].draft

\* All there is of a record, on disk and on its way there.
Copy(i, x) == \/ x = file[i] \/ x = temp[i]
              \/ \E t \in Thread : thread[t].id = i /\ x = thread[t].draft

\* All copies of a record were created at one time, after its id was handed out.
CreatedOnce ==
    \A i \in Id : \A x, y \in Content :
        /\ Copy(i, x) /\ Copy(i, y) /\ IsWhole(x) /\ IsWhole(y) => x.created = y.created
        /\ Copy(i, x) /\ IsWhole(x) => i \in used

\* A list still has to visit, or has seen, whatever stayed in place and was not refused.
ListCovers ==
    \A t \in Thread :
        /\ \A i \in thread[t].stable : file[i] # NoFile
        /\ thread[t].op = "list" => thread[t].stable \ shared \subseteq thread[t].left \cup thread[t].seen
        /\ thread[t].op = "list" /\ At(t, "idle") => thread[t].left = {}

Inv ==
    /\ TypeOK
    /\ RecordsAreWhole
    /\ ErrorsHaveACause
    /\ ThreadShape
    /\ CreatesOnce
    /\ GoneIsKnown
    /\ SoleWriter
    /\ CreatedOnce
    /\ ListCovers
=============================================================================
