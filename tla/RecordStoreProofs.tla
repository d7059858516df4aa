-------------------------- MODULE RecordStoreProofs --------------------------
(***************************************************************************)
(* Proofs about RecordStore, for any number of records, threads and        *)
(* timestamps, and for a disk that may refuse any operation.  The          *)
(* invariant Inv of RecordStore rests on three facts: a temporary file     *)
(* that was never shared holds what its one writer wrote; who goes on      *)
(* without a record has seen it deleted; and all copies of a record, on    *)
(* disk or on their way there, say when it was created in the same words.  *)
(*                                                                         *)
(* The proofs go action by action.  What an action does to a thread is     *)
(* told once, by the Effect lemmas; each part of the invariant is then     *)
(* kept by a lemma of its own.                                             *)
(***************************************************************************)
EXTENDS RecordStore, TLAPS

-----------------------------------------------------------------------------
(* What a file may hold, and what a request may be.                         *)

\* A file holds a record, or one of the three things that are none.
LEMMA Kinds ==
    /\ \A x \in Content : IsWhole(x) <=> x \in Record
    /\ \A x \in Content : ~IsWhole(x) => x \in {NoFile, Empty, Mixed}
    /\ ~IsWhole(NoFile) /\ ~IsWhole(Empty) /\ ~IsWhole(Mixed)
    /\ NoFile # Empty /\ NoFile # Mixed /\ Empty # Mixed
    /\ NoFile \in Content /\ Empty \in Content /\ Mixed \in Content
    /\ Record \subseteq Content
<1>1. NoFile # Empty /\ NoFile # Mixed /\ Empty # Mixed
  <2>1. NoFile.kind = "none" /\ Empty.kind = "empty" /\ Mixed.kind = "mixed"
    BY DEF NoFile, Empty, Mixed
  <2> QED
    BY <2>1
<1>2. \A x \in Record : IsWhole(x)
  BY DEF Record, IsWhole
<1>3. ~IsWhole(NoFile) /\ ~IsWhole(Empty) /\ ~IsWhole(Mixed)
  BY DEF NoFile, Empty, Mixed, IsWhole
<1> HIDE DEF Record, IsWhole, NoFile, Empty, Mixed
<1> QED
  BY <1>1, <1>2, <1>3 DEF Content

\* What a record is made of.
LEMMA Parts ==
    /\ \A x \in Record : x.body \in Body /\ x.created \in 0 .. MaxClock
         /\ x.updated \in 0 .. MaxClock
    /\ \A b \in Body, c, u \in 0 .. MaxClock :
         Whole(b, c, u) \in Record /\ Whole(b, c, u).created = c
BY DEF Record, Whole

\* A thread without a request is a request too, of nothing.
LEMMA IdleIsRequest ==
    /\ IdleThread \in Request
    /\ IdleThread.op = "idle" /\ IdleThread.pc = "idle" /\ IdleThread.draft = NoFile
    /\ IdleThread.handle = "none" /\ ~IdleThread.gone /\ IdleThread.answer = "none"
    /\ IdleThread.left = {} /\ IdleThread.stable = {} /\ IdleThread.seen = {}
<1>1. (CHOOSE i \in Id : TRUE) \in Id
  BY StoreAssumption
<1> HIDE DEF Id, NoFile, Record
<1> QED
  BY <1>1 DEF IdleThread, Request

\* The steps of the specification.
LEMMA Acts ==
    ASSUME [Next]_vars
    PROVE  \/ \E t \in Thread :
                \/ \E i \in Id : \/ Delete(t, i) \/ SavePosition(t, i)
                                 \/ \E b \in Body : Create(t, i, b)
                                 \/ \E op \in {"get", "replace", "apply"} :
                                      (op = "replace" => i \in Profile) /\ FindRecord(t, op, i)
                \/ ReadRecord(t) \/ AimCamera(t) \/ OpenTemp(t) \/ WriteText(t) \/ Rename(t)
                \/ DiskFails(t) \/ DeleteFails(t) \/ ListNext(t) \/ ListEnds(t)
                \/ \E kind \in SUBSET Id : List(t, kind)
           \/ SetView \/ Crash \/ UNCHANGED vars
<1>1. Profile \subseteq Id /\ Position \subseteq Id
  BY DEF Id
<1> HIDE DEF Id
<1>2. \A t \in Thread : Get(t) \/ Replace(t) \/ ApplyPosition(t) =>
        \E i \in Id, op \in {"get", "replace", "apply"} :
           (op = "replace" => i \in Profile) /\ FindRecord(t, op, i)
  BY <1>1 DEF Get, Replace, ApplyPosition
<1>3. \A t \in Thread : List(t, Profile) \/ List(t, Position)
        => \E kind \in SUBSET Id : List(t, kind)
  BY <1>1
<1> QED
  BY <1>2, <1>3 DEF Next
-----------------------------------------------------------------------------
(* What each action does to the threads.                                    *)

\* Every other thread is where it was.
Others(t) == \A v \in Thread \ {t} : thread'[v] = thread[v]

\* A request begins.
Begins(t, op, pc, i, draft, names, answer) ==
    LET u == thread'[t] IN
    /\ u.op = op /\ u.pc = pc /\ u.id = i /\ u.draft = draft /\ u.answer = answer
    /\ u.handle = "none" /\ u.gone = FALSE /\ u.left = names /\ u.stable = names /\ u.seen = {}

\* A request goes on to its next call of the file system.
Continues(t, pc, draft, handle) ==
    LET u == thread'[t] IN
    /\ u.pc = pc /\ u.draft = draft /\ u.handle = handle
    /\ u.op = thread[t].op /\ u.id = thread[t].id /\ u.gone = thread[t].gone
    /\ u.left = thread[t].left /\ u.stable = thread[t].stable /\ u.seen = thread[t].seen
    /\ u.answer = thread[t].answer

\* A request is answered.
Ends(t, answer) ==
    LET u == thread'[t] IN
    /\ u.pc = "idle" /\ u.draft = NoFile /\ u.handle = "none" /\ u.answer = answer
    /\ u.op = thread[t].op /\ u.id = thread[t].id /\ u.gone = thread[t].gone
    /\ u.left = thread[t].left /\ u.stable = thread[t].stable /\ u.seen = thread[t].seen

\* A list goes on to the next name.
Lists(v) ==
    /\ thread'[v].op = thread[v].op /\ thread'[v].pc = thread[v].pc
    /\ thread'[v].id = thread[v].id /\ thread'[v].draft = thread[v].draft
    /\ thread'[v].answer = thread[v].answer /\ thread'[v].gone = thread[v].gone
    /\ thread'[v].handle = thread[v].handle

\* A name is read off the list: it is seen when its file parses, and the list stands for it no
\* longer when the disk refuses.
NextName(v) ==
    \E i \in thread[v].left :
        /\ thread'[v].left = thread[v].left \ {i}
        /\ \/ /\ thread'[v].stable = thread[v].stable
              /\ thread'[v].seen = IF IsWhole(file[i]) THEN thread[v].seen \cup {i}
                                   ELSE thread[v].seen
           \/ thread'[v].stable = thread[v].stable \ {i} /\ thread'[v].seen = thread[v].seen

\* What nobody changes for a thread but its own calls.
Undisturbed(v) ==
    /\ thread'[v].op = thread[v].op /\ thread'[v].pc = thread[v].pc
    /\ thread'[v].id = thread[v].id /\ thread'[v].draft = thread[v].draft
    /\ thread'[v].left = thread[v].left /\ thread'[v].seen = thread[v].seen
    /\ thread'[v].answer = thread[v].answer

\* The fields of a request that is updated.
\* A request that starts, with a name or a draft ...
LEMMA StartFields ==
    ASSUME NEW u \in Request, NEW op, NEW i, NEW p, NEW r
    PROVE  LET w == [u EXCEPT !.op = op, !.id = i, !.pc = p, !.draft = r] IN
           /\ w.op = op /\ w.pc = p /\ w.id = i /\ w.draft = r
           /\ w.handle = u.handle /\ w.gone = u.gone /\ w.left = u.left /\ w.stable = u.stable
           /\ w.seen = u.seen /\ w.answer = u.answer
BY DEF Request

\* ... that reads ...
LEMMA FindFields ==
    ASSUME NEW u \in Request, NEW op, NEW i, NEW p
    PROVE  LET w == [u EXCEPT !.op = op, !.id = i, !.pc = p] IN
           /\ w.op = op /\ w.pc = p /\ w.id = i /\ w.draft = u.draft
           /\ w.handle = u.handle /\ w.gone = u.gone /\ w.left = u.left /\ w.stable = u.stable
           /\ w.seen = u.seen /\ w.answer = u.answer
BY DEF Request

\* ... that is answered at once ...
LEMMA MissFields ==
    ASSUME NEW u \in Request, NEW op, NEW i, NEW a
    PROVE  LET w == [u EXCEPT !.op = op, !.id = i, !.answer = a] IN
           /\ w.op = op /\ w.pc = u.pc /\ w.id = i /\ w.draft = u.draft
           /\ w.handle = u.handle /\ w.gone = u.gone /\ w.left = u.left /\ w.stable = u.stable
           /\ w.seen = u.seen /\ w.answer = a
BY DEF Request

\* ... that lists.
LEMMA ListFields ==
    ASSUME NEW u \in Request, NEW op, NEW p, NEW names
    PROVE  LET w == [u EXCEPT !.op = op, !.pc = p, !.left = names, !.stable = names] IN
           /\ w.op = op /\ w.pc = p /\ w.id = u.id /\ w.draft = u.draft
           /\ w.handle = u.handle /\ w.gone = u.gone /\ w.left = names /\ w.stable = names
           /\ w.seen = u.seen /\ w.answer = u.answer
BY DEF Request

\* A request that is answered.
LEMMA ServedFields ==
    ASSUME NEW u \in Request, NEW a
    PROVE  LET w == Served(u, a) IN
           /\ w.op = u.op /\ w.pc = "idle" /\ w.id = u.id /\ w.draft = NoFile
           /\ w.handle = "none" /\ w.gone = u.gone /\ w.left = u.left /\ w.stable = u.stable
           /\ w.seen = u.seen /\ w.answer = a
BY DEF Request, Served

\* A request with a draft to write or to apply.
LEMMA DraftFields ==
    ASSUME NEW u \in Request, NEW p, NEW r
    PROVE  LET w == [u EXCEPT !.pc = p, !.draft = r] IN
           /\ w.op = u.op /\ w.pc = p /\ w.id = u.id /\ w.draft = r
           /\ w.handle = u.handle /\ w.gone = u.gone /\ w.left = u.left /\ w.stable = u.stable
           /\ w.seen = u.seen /\ w.answer = u.answer
BY DEF Request

\* A request that opens or closes a file.
LEMMA HandleFields ==
    ASSUME NEW u \in Request, NEW p, NEW h
    PROVE  LET w == [u EXCEPT !.pc = p, !.handle = h] IN
           /\ w.op = u.op /\ w.pc = p /\ w.id = u.id /\ w.draft = u.draft
           /\ w.handle = h /\ w.gone = u.gone /\ w.left = u.left /\ w.stable = u.stable
           /\ w.seen = u.seen /\ w.answer = u.answer
BY DEF Request

\* A request whose open file is renamed.
LEMMA MovedFields ==
    ASSUME NEW u \in Request, NEW h
    PROVE  LET w == [u EXCEPT !.handle = h] IN
           /\ w.op = u.op /\ w.pc = u.pc /\ w.id = u.id /\ w.draft = u.draft
           /\ w.handle = h /\ w.gone = u.gone /\ w.left = u.left /\ w.stable = u.stable
           /\ w.seen = u.seen /\ w.answer = u.answer
BY DEF Request

\* A list that goes on.
LEMMA SeenFields ==
    ASSUME NEW u \in Request, NEW names, NEW ids
    PROVE  LET w == [u EXCEPT !.left = names, !.seen = ids] IN
           /\ w.op = u.op /\ w.pc = u.pc /\ w.id = u.id /\ w.draft = u.draft
           /\ w.handle = u.handle /\ w.gone = u.gone /\ w.left = names /\ w.stable = u.stable
           /\ w.seen = ids /\ w.answer = u.answer
BY DEF Request

\* A list that goes on without a name.
LEMMA RefusedFields ==
    ASSUME NEW u \in Request, NEW names, NEW ids
    PROVE  LET w == [u EXCEPT !.left = names, !.stable = ids] IN
           /\ w.op = u.op /\ w.pc = u.pc /\ w.id = u.id /\ w.draft = u.draft
           /\ w.handle = u.handle /\ w.gone = u.gone /\ w.left = names /\ w.stable = ids
           /\ w.seen = u.seen /\ w.answer = u.answer
BY DEF Request

\* A deletion that is answered.
LEMMA DeletesFields ==
    ASSUME NEW a
    PROVE  LET w == Deletes(a) IN
           /\ w.op = "delete" /\ w.pc = "idle" /\ w.id = IdleThread.id /\ w.draft = NoFile
           /\ w.handle = "none" /\ ~w.gone /\ w.left = {} /\ w.stable = {}
           /\ w.seen = {} /\ w.answer = a
<1>1. PICK u \in Request : u = IdleThread
  BY IdleIsRequest
<1>2. LET w == [u EXCEPT !.op = "delete", !.answer = a] IN
      /\ w.op = "delete" /\ w.pc = u.pc /\ w.id = u.id /\ w.draft = u.draft
      /\ w.handle = u.handle /\ w.gone = u.gone /\ w.left = u.left /\ w.stable = u.stable
      /\ w.seen = u.seen /\ w.answer = a
  BY DEF Request
<1> QED
  BY <1>1, <1>2, IdleIsRequest DEF Deletes

\* A request whose record is deleted.
LEMMA UnlinkedFields ==
    ASSUME NEW u \in Request, NEW i
    PROVE  LET w == Unlinked(i, u) IN
           /\ w.op = u.op /\ w.pc = u.pc /\ w.id = u.id /\ w.draft = u.draft
           /\ w.handle = (IF u.id = i /\ u.handle = "file" THEN "unlinked" ELSE u.handle)
           /\ (u.id = i => w.gone = TRUE) /\ (u.id # i => w.gone = u.gone)
           /\ w.left = u.left /\ w.stable = u.stable \ {i}
           /\ w.seen = u.seen /\ w.answer = u.answer
BY DEF Request, Unlinked

\* A thread that changes leaves the others alone.
LEMMA OneThread ==
    ASSUME TypeOK, NEW t \in Thread, NEW r, thread' = [thread EXCEPT ![t] = r]
    PROVE  Others(t) /\ thread'[t] = r
BY DEF TypeOK, Others

\* The four ways a request begins.
LEMMA BeginEffect ==
    ASSUME TypeOK, NEW t \in Thread, NEW op, NEW i, NEW pc, NEW draft, NEW names, NEW answer,
           \/ Begin(t, op, i, pc) /\ draft = NoFile /\ names = {} /\ answer = "none"
           \/ BeginWrite(t, op, i, draft) /\ pc = "open" /\ names = {} /\ answer = "none"
           \/ /\ thread' = [thread EXCEPT ![t] = [IdleThread EXCEPT !.op = op, !.id = i,
                                                             !.answer = answer]]
              /\ pc = "idle" /\ draft = NoFile /\ names = {}
           \/ /\ thread' = [thread EXCEPT ![t] = [IdleThread EXCEPT !.op = op, !.pc = pc,
                                                             !.left = names, !.stable = names]]
              /\ i = IdleThread.id /\ draft = NoFile /\ answer = "none"
    PROVE  Others(t) /\ Begins(t, op, pc, i, draft, names, answer)
<1>1. CASE Begin(t, op, i, pc) /\ draft = NoFile /\ names = {} /\ answer = "none"
  <2>1. Others(t) /\ thread'[t] = [IdleThread EXCEPT !.op = op, !.id = i, !.pc = pc]
    BY <1>1, OneThread DEF Begin
  <2> QED
    BY <1>1, <2>1, IdleIsRequest, FindFields DEF Begins
<1>2. CASE BeginWrite(t, op, i, draft) /\ pc = "open" /\ names = {} /\ answer = "none"
  <2>1. Others(t)
          /\ thread'[t] = [IdleThread EXCEPT !.op = op, !.id = i, !.pc = "open",
               !.draft = draft]
    BY <1>2, OneThread DEF BeginWrite
  <2> QED
    BY <1>2, <2>1, IdleIsRequest, StartFields DEF Begins
<1>3. CASE /\ thread' = [thread EXCEPT ![t] = [IdleThread EXCEPT !.op = op, !.id = i,
                                                             !.answer = answer]]
           /\ pc = "idle" /\ draft = NoFile /\ names = {}
  <2>1. Others(t) /\ thread'[t] = [IdleThread EXCEPT !.op = op, !.id = i, !.answer = answer]
    BY <1>3, OneThread
  <2>2. pc = "idle" /\ draft = NoFile /\ names = {}
    BY <1>3
  <2> QED
    BY <2>2, <2>1, IdleIsRequest, MissFields DEF Begins
<1>4. CASE /\ thread' = [thread EXCEPT ![t] = [IdleThread EXCEPT !.op = op, !.pc = pc,
                                                             !.left = names, !.stable = names]]
           /\ i = IdleThread.id /\ draft = NoFile /\ answer = "none"
  <2>1. Others(t)
          /\ thread'[t] = [IdleThread EXCEPT !.op = op, !.pc = pc, !.left = names,
               !.stable = names]
    BY <1>4, OneThread
  <2>2. i = IdleThread.id /\ draft = NoFile /\ answer = "none"
    BY <1>4
  <2> QED
    BY <2>2, <2>1, IdleIsRequest, ListFields DEF Begins
<1> QED
  BY <1>1, <1>2, <1>3, <1>4

\* An answer ends a request, and keeps what it is judged by.
LEMMA AnswerEffect ==
    ASSUME TypeOK, NEW t \in Thread, NEW a, Answers(t, a)
    PROVE  Others(t) /\ Ends(t, a)
<1>1. thread[t] \in Request
  BY DEF TypeOK
<1>2. Others(t) /\ thread'[t] = Served(thread[t], a)
  BY OneThread DEF Answers
<1> QED
  BY <1>1, <1>2, ServedFields DEF Ends

\* A call of the file system changes the draft or the handle, and nothing else.
LEMMA CallEffect ==
    ASSUME TypeOK, NEW t \in Thread, NEW pc, NEW draft, NEW handle,
           \/ /\ thread' = [thread EXCEPT ![t].pc = pc, ![t].draft = draft]
              /\ handle = thread[t].handle
           \/ /\ thread' = [thread EXCEPT ![t].pc = pc, ![t].handle = handle]
              /\ draft = thread[t].draft
    PROVE  Others(t) /\ Continues(t, pc, draft, handle)
<1>1. PICK u \in Request : u = thread[t]
  BY DEF TypeOK
<1>2. CASE thread' = [thread EXCEPT ![t].pc = pc, ![t].draft = draft] /\ handle = u.handle
  <2>1. Others(t)
    BY <1>2 DEF Others, TypeOK
  <2>2. thread'[t] = [u EXCEPT !.pc = pc, !.draft = draft]
    BY <1>1, <1>2 DEF TypeOK, Request
  <2>3. handle = u.handle
    BY <1>2
  <2> QED
    BY <1>1, <2>1, <2>2, <2>3, DraftFields DEF Continues
<1>3. CASE thread' = [thread EXCEPT ![t].pc = pc, ![t].handle = handle] /\ draft = u.draft
  <2>1. Others(t)
    BY <1>3 DEF Others, TypeOK
  <2>2. thread'[t] = [u EXCEPT !.pc = pc, !.handle = handle]
    BY <1>1, <1>3 DEF TypeOK, Request
  <2>3. draft = u.draft
    BY <1>3
  <2> QED
    BY <1>1, <2>1, <2>2, <2>3, HandleFields DEF Continues
<1> QED
  BY <1>1, <1>2, <1>3

\* One name is read off the list.
LEMMA ListNextEffect ==
    ASSUME TypeOK, NEW t \in Thread, ListNext(t)
    PROVE  Others(t) /\ Lists(t) /\ NextName(t)
<1>1. PICK u \in Request : u = thread[t]
  BY DEF TypeOK
<1>2. PICK i \in u.left :
         \/ thread' = [thread EXCEPT ![t].left = u.left \ {i},
                                     ![t].seen = IF IsWhole(file[i]) THEN u.seen \cup {i}
                                                 ELSE u.seen]
         \/ thread' = [thread EXCEPT ![t].left = u.left \ {i}, ![t].stable = u.stable \ {i}]
  BY <1>1 DEF ListNext, TypeOK, Request
<1> DEFINE ids == IF IsWhole(file[i]) THEN u.seen \cup {i} ELSE u.seen
<1>3. Others(t)
  BY <1>2 DEF Others, TypeOK
<1>4. CASE thread' = [thread EXCEPT ![t].left = u.left \ {i}, ![t].seen = ids]
  <2>1. thread'[t] = [u EXCEPT !.left = u.left \ {i}, !.seen = ids]
    BY <1>1, <1>4 DEF TypeOK, Request
  <2> HIDE DEF ids
  <2>2. thread'[t].left = u.left \ {i} /\ thread'[t].seen = ids
        /\ thread'[t].stable = u.stable /\ Lists(t)
    BY <1>1, <2>1, SeenFields DEF Lists
  <2> QED
    BY <1>1, <1>3, <2>2 DEF ids, NextName
<1>5. CASE thread' = [thread EXCEPT ![t].left = u.left \ {i}, ![t].stable = u.stable \ {i}]
  <2>1. thread'[t] = [u EXCEPT !.left = u.left \ {i}, !.stable = u.stable \ {i}]
    BY <1>1, <1>5 DEF TypeOK, Request
  <2>2. thread'[t].left = u.left \ {i} /\ thread'[t].seen = u.seen
        /\ thread'[t].stable = u.stable \ {i} /\ Lists(t)
    BY <1>1, <2>1, RefusedFields DEF Lists
  <2> QED
    BY <1>1, <1>3, <2>2 DEF NextName
<1> QED
  BY <1>2, <1>4, <1>5

\* A rename answers the one who asked for it and moves the handles of all who had either file
\* open.
LEMMA RenameEffect ==
    ASSUME TypeOK, NEW t \in Thread, Rename(t)
    PROVE  /\ \A v \in Thread \ {t} : /\ Undisturbed(v) /\ thread'[v].gone = thread[v].gone
                                      /\ thread'[v].stable = thread[v].stable
           /\ \E a \in {"temp gone", "ok"} : Ends(t, a)
                /\ (a = "ok" <=> temp[thread[t].id] # NoFile)
           /\ temp[thread[t].id] = NoFile => Others(t)
           /\ temp[thread[t].id] # NoFile =>
                \A v \in Thread \ {t} :
                   thread'[v].handle = IF thread[v].id = thread[t].id
                                       THEN HandleAfterRename(thread[v].handle)
                                       ELSE thread[v].handle
<1> DEFINE i == thread[t].id
<1>1. \A v \in Thread : thread[v] \in Request
  BY DEF TypeOK
<1>2. CASE temp[i] = NoFile
  <2>1. Others(t) /\ Ends(t, "temp gone")
    BY <1>2, AnswerEffect DEF Rename
  <2>2. \A v \in Thread \ {t} : Undisturbed(v) /\ thread'[v].gone = thread[v].gone
                                /\ thread'[v].stable = thread[v].stable
    BY <2>1 DEF Others, Undisturbed
  <2> QED
    BY <1>2, <2>1, <2>2
<1>3. CASE temp[i] # NoFile
  <2>1. thread' = [u \in Thread |->
                 IF u = t THEN Served(thread[t], "ok")
                 ELSE IF thread[u].id = i
                 THEN [thread[u] EXCEPT !.handle = HandleAfterRename(@)] ELSE thread[u]]
    BY <1>3 DEF Rename
  <2>2. Ends(t, "ok")
    <3>1. thread'[t] = Served(thread[t], "ok")
      BY <2>1
    <3> QED
      BY <1>1, <3>1, ServedFields DEF Ends
  <2>3. ASSUME NEW v \in Thread \ {t}
        PROVE  /\ Undisturbed(v) /\ thread'[v].gone = thread[v].gone
               /\ thread'[v].stable = thread[v].stable
               /\ thread'[v].handle = IF thread[v].id = i
                                      THEN HandleAfterRename(thread[v].handle)
                                      ELSE thread[v].handle
    <3>1. CASE thread[v].id = i
      <4> DEFINE h == HandleAfterRename(thread[v].handle)
      <4>1. thread'[v] = [thread[v] EXCEPT !.handle = h]
        BY <2>1, <2>3, <3>1
      <4> HIDE DEF h
      <4>2. Undisturbed(v) /\ thread'[v].gone = thread[v].gone
            /\ thread'[v].stable = thread[v].stable /\ thread'[v].handle = h
        BY <1>1, <2>3, <4>1, MovedFields DEF Undisturbed
      <4> QED
        BY <3>1, <4>2 DEF h
    <3>2. CASE thread[v].id # i
      <4>1. thread'[v] = thread[v]
        BY <2>1, <2>3, <3>2
      <4> QED
        BY <3>2, <4>1 DEF Undisturbed
    <3> QED
      BY <3>1, <3>2
  <2> QED
    BY <1>3, <2>2, <2>3
<1> QED
  BY <1>2, <1>3

\* A deletion of a file that was there is seen by all who are about it.
LEMMA DeleteEffect ==
    ASSUME TypeOK, NEW t \in Thread, NEW i \in Id, Delete(t, i)
    PROVE  /\ \E a \in {"ok", "not found"} :
                Begins(t, "delete", "idle", IdleThread.id, NoFile, {}, a)
           /\ \A v \in Thread \ {t} : Undisturbed(v)
           /\ file[i] = NoFile => Others(t)
           /\ file[i] # NoFile =>
                \A v \in Thread \ {t} :
                   /\ thread'[v].stable = thread[v].stable \ {i}
                   /\ thread[v].id = i => thread'[v].gone = TRUE
                   /\ thread[v].id # i => thread'[v].gone = thread[v].gone
                   /\ thread'[v].handle = IF thread[v].id = i /\ thread[v].handle = "file"
                                          THEN "unlinked" ELSE thread[v].handle
<1> DEFINE a == IF file[i] = NoFile THEN "not found" ELSE "ok"
<1>1. \A v \in Thread : thread[v] \in Request
  BY DEF TypeOK
<1>2. thread' = [u \in Thread |->
          IF u = t THEN Deletes(a)
          ELSE IF file[i] = NoFile THEN thread[u] ELSE Unlinked(i, thread[u])]
  BY DEF Delete
<1>3. a \in {"ok", "not found"}
  OBVIOUS
<1> HIDE DEF a
<1>4. Begins(t, "delete", "idle", IdleThread.id, NoFile, {}, a)
  <2>1. thread'[t] = Deletes(a)
    BY <1>2
  <2> QED
    BY <2>1, DeletesFields DEF Begins
<1>5. CASE file[i] = NoFile
  <2>1. Others(t)
    BY <1>2, <1>5 DEF Others
  <2>2. \A v \in Thread \ {t} : Undisturbed(v)
    BY <2>1 DEF Others, Undisturbed
  <2> QED
    BY <1>3, <1>4, <1>5, <2>1, <2>2
<1>6. CASE file[i] # NoFile
  <2>1. \A v \in Thread \ {t} : thread'[v] = Unlinked(i, thread[v])
    BY <1>2, <1>6
  <2>2. ASSUME NEW v \in Thread \ {t}
        PROVE  /\ Undisturbed(v) /\ thread'[v].stable = thread[v].stable \ {i}
               /\ (thread[v].id = i => thread'[v].gone = TRUE)
               /\ (thread[v].id # i => thread'[v].gone = thread[v].gone)
               /\ thread'[v].handle = IF thread[v].id = i /\ thread[v].handle = "file"
                                      THEN "unlinked" ELSE thread[v].handle
    <3>1. thread[v] \in Request /\ thread'[v] = Unlinked(i, thread[v])
      BY <1>1, <2>1, <2>2
    <3> DEFINE u == thread[v]
               w == Unlinked(i, u)
    <3>2. /\ w.op = u.op /\ w.pc = u.pc /\ w.id = u.id /\ w.draft = u.draft
          /\ w.left = u.left /\ w.stable = u.stable \ {i} /\ w.seen = u.seen
          /\ w.answer = u.answer
      BY ZenonT(40), <3>1, UnlinkedFields
    <3>3. /\ (u.id = i => w.gone = TRUE) /\ (u.id # i => w.gone = u.gone)
          /\ w.handle = IF u.id = i /\ u.handle = "file" THEN "unlinked" ELSE u.handle
      BY <3>1, UnlinkedFields
    <3> HIDE DEF w
    <3>4. thread'[v] = w
      BY <3>1 DEF w
    <3> QED
      BY <3>2, <3>3, <3>4 DEF Undisturbed
  <2> QED
    BY <1>3, <1>4, <1>6, <2>2
<1> QED
  BY <1>5, <1>6

\* A deletion the disk refuses changes no file and is seen by nobody.
LEMMA DeleteFailsEffect ==
    ASSUME TypeOK, NEW t \in Thread, DeleteFails(t)
    PROVE  /\ Others(t) /\ Begins(t, "delete", "idle", IdleThread.id, NoFile, {}, "disk")
           /\ Faults /\ UNCHANGED <<file, temp, clock, used, offset, shared>>
<1>1. Others(t) /\ thread'[t] = Deletes("disk")
  BY OneThread DEF DeleteFails
<1> QED
  BY <1>1, DeletesFields DEF Begins, DeleteFails

-----------------------------------------------------------------------------
(* The updates of a request give a request.                                 *)

\* A start of a write ...
LEMMA StartTyped ==
    ASSUME NEW u \in Request,
           NEW op \in {"idle", "create", "get", "replace", "apply", "delete", "list"},
           NEW i \in Id,
           NEW p \in {"idle", "read", "aim", "open", "write", "rename", "list"},
           NEW r \in Record \cup {NoFile}
    PROVE  [u EXCEPT !.op = op, !.id = i, !.pc = p, !.draft = r] \in Request
BY DEF Request

\* ... of a read ...
LEMMA FindTyped ==
    ASSUME NEW u \in Request,
           NEW op \in {"idle", "create", "get", "replace", "apply", "delete", "list"},
           NEW i \in Id,
           NEW p \in {"idle", "read", "aim", "open", "write", "rename", "list"}
    PROVE  [u EXCEPT !.op = op, !.id = i, !.pc = p] \in Request
BY DEF Request

\* ... of nothing ...
LEMMA MissTyped ==
    ASSUME NEW u \in Request,
           NEW op \in {"idle", "create", "get", "replace", "apply", "delete", "list"},
           NEW i \in Id,
           NEW a \in {"none", "ok", "not found", "vanished", "unreadable", "temp gone", "disk"}
    PROVE  [u EXCEPT !.op = op, !.id = i, !.answer = a] \in Request
BY ZenonT(40) DEF Request

\* ... and of a list.
LEMMA ListTyped ==
    ASSUME NEW u \in Request,
           NEW op \in {"idle", "create", "get", "replace", "apply", "delete", "list"},
           NEW p \in {"idle", "read", "aim", "open", "write", "rename", "list"},
           NEW names \in SUBSET Id
    PROVE  [u EXCEPT !.op = op, !.pc = p, !.left = names, !.stable = names] \in Request
BY DEF Request

\* An answer.
LEMMA ServedTyped ==
    ASSUME NEW u \in Request,
           NEW a \in {"none", "ok", "not found", "vanished", "unreadable", "temp gone", "disk"}
    PROVE  Served(u, a) \in Request
BY DEF Request, Served

\* The next call, with a draft ...
LEMMA DraftTyped ==
    ASSUME NEW u \in Request, NEW r \in Record \cup {NoFile},
           NEW p \in {"idle", "read", "aim", "open", "write", "rename", "list"}
    PROVE  [u EXCEPT !.pc = p, !.draft = r] \in Request
BY DEF Request

\* ... or with a file.
LEMMA HandleTyped ==
    ASSUME NEW u \in Request, NEW h \in {"none", "temp", "file", "unlinked"},
           NEW p \in {"idle", "read", "aim", "open", "write", "rename", "list"}
    PROVE  [u EXCEPT !.pc = p, !.handle = h] \in Request
BY DEF Request

\* A file that is renamed ...
LEMMA MovedTyped ==
    ASSUME NEW u \in Request, NEW h \in {"none", "temp", "file", "unlinked"}
    PROVE  [u EXCEPT !.handle = h] \in Request
BY DEF Request

\* ... or deleted.
LEMMA UnlinkedTyped ==
    ASSUME NEW u \in Request, NEW i
    PROVE  Unlinked(i, u) \in Request
BY DEF Request, Unlinked

\* The next name of a list, read ...
LEMMA SeenTyped ==
    ASSUME NEW u \in Request, NEW names \in SUBSET Id, NEW ids \in SUBSET Id
    PROVE  [u EXCEPT !.left = names, !.seen = ids] \in Request
BY DEF Request

\* ... or refused.
LEMMA RefusedTyped ==
    ASSUME NEW u \in Request, NEW names \in SUBSET Id, NEW ids \in SUBSET Id
    PROVE  [u EXCEPT !.left = names, !.stable = ids] \in Request
BY DEF Request

\* A deletion.
LEMMA DeletesTyped ==
    ASSUME NEW a \in {"none", "ok", "not found", "vanished", "unreadable", "temp gone", "disk"}
    PROVE  Deletes(a) \in Request
<1>1. PICK u \in Request : u = IdleThread
  BY IdleIsRequest
<1>2. [u EXCEPT !.op = "delete", !.answer = a] \in Request
  BY DEF Request
<1> QED
  BY <1>1, <1>2 DEF Deletes

-----------------------------------------------------------------------------
(* The actions, told by their effects.                                      *)

\* A creation begins with a draft of a new record ...
LEMMA CreateEffect ==
    ASSUME TypeOK, NEW t \in Thread, NEW i \in Id, NEW b \in Body, Create(t, i, b)
    PROVE  \E r \in Record :
             /\ Others(t) /\ Begins(t, "create", "open", i, r, {}, "none")
             /\ thread' = [thread EXCEPT ![t] = [IdleThread EXCEPT !.op = "create", !.id = i,
                                                                   !.pc = "open", !.draft = r]]
             /\ clock' \in 0 .. MaxClock
<1> DEFINE r == Whole(b, clock + 1, clock + 1)
<1>1. clock + 1 \in 0 .. MaxClock
  BY StoreAssumption DEF Create, TypeOK
<1>2. r \in Record /\ BeginWrite(t, "create", i, r)
  BY <1>1, Parts DEF Create
<1> HIDE DEF r
<1>3. Others(t) /\ Begins(t, "create", "open", i, r, {}, "none")
  BY <1>2, BeginEffect
<1> QED
  BY <1>1, <1>2, <1>3 DEF BeginWrite, Create

\* ... and so does saving a position.
LEMMA SaveEffect ==
    ASSUME TypeOK, NEW t \in Thread, NEW i \in Id, SavePosition(t, i)
    PROVE  \E r \in Record :
             /\ Others(t) /\ Begins(t, "create", "open", i, r, {}, "none")
             /\ thread' = [thread EXCEPT ![t] = [IdleThread EXCEPT !.op = "create", !.id = i,
                                                                   !.pc = "open", !.draft = r]]
             /\ clock' \in 0 .. MaxClock
<1> DEFINE r == Whole(offset.body, clock + 1, clock + 1)
<1>1. clock + 1 \in 0 .. MaxClock
  BY StoreAssumption DEF SavePosition, TypeOK
<1>2. offset.body \in Body
  BY DEF SavePosition, TypeOK
<1>3. r \in Record /\ BeginWrite(t, "create", i, r)
  BY <1>1, <1>2, Parts DEF SavePosition
<1> HIDE DEF r
<1>4. Others(t) /\ Begins(t, "create", "open", i, r, {}, "none")
  BY <1>3, BeginEffect
<1> QED
  BY <1>1, <1>3, <1>4 DEF BeginWrite, SavePosition

\* A request about a record that is not there is answered at once.
LEMMA FindEffect ==
    ASSUME TypeOK, NEW t \in Thread, NEW i \in Id, NEW op, FindRecord(t, op, i)
    PROVE  /\ Others(t)
           /\ \/ file[i] # NoFile /\ Begins(t, op, "read", i, NoFile, {}, "none")
              \/ file[i] = NoFile /\ Begins(t, op, "idle", i, NoFile, {}, "not found")
<1>1. CASE file[i] # NoFile
  <2>1. Begin(t, op, i, "read")
    BY <1>1 DEF FindRecord
  <2> QED
    BY <1>1, <2>1, BeginEffect
<1>2. CASE file[i] = NoFile
  <2>1. thread' = [thread EXCEPT ![t] = [IdleThread EXCEPT !.op = op, !.id = i,
          !.answer = "not found"]]
    BY <1>2 DEF FindRecord
  <2> QED
    BY <1>2, <2>1, BeginEffect
<1> QED
  BY <1>1, <1>2

\* A read is answered, or goes on with a record of the same creation.
LEMMA ReadEffect ==
    ASSUME TypeOK, NEW t \in Thread, ReadRecord(t)
    PROVE  /\ Others(t) /\ clock' \in 0 .. MaxClock
           /\ LET now == file[thread[t].id] IN
              \/ now = NoFile /\ Ends(t, "vanished")
              \/ now \in {Empty, Mixed} /\ Ends(t, "unreadable")
              \/ IsWhole(now) /\ thread[t].op = "get" /\ Ends(t, "ok")
              \/ IsWhole(now) /\ thread[t].op = "apply"
                   /\ Continues(t, "aim", now, thread[t].handle)
              \/ /\ IsWhole(now) /\ thread[t].op = "replace"
                 /\ \E r \in Record : r.created = now.created
                                      /\ Continues(t, "open", r, thread[t].handle)
           /\ \/ \E a \in {"vanished", "unreadable", "ok"} : Answers(t, a)
              \/ \E r \in Record, pc \in {"aim", "open"} :
                   thread' = [thread EXCEPT ![t].pc = pc, ![t].draft = r]
<1> DEFINE now == file[thread[t].id]
<1>1. now \in Content
  BY DEF TypeOK, Request
<1>2. CASE now = NoFile /\ Answers(t, "vanished") /\ UNCHANGED clock
  BY <1>2, AnswerEffect DEF TypeOK
<1>3. CASE now \in {Empty, Mixed} /\ Answers(t, "unreadable") /\ UNCHANGED clock
  BY <1>3, AnswerEffect DEF TypeOK
<1>4. CASE IsWhole(now) /\ thread[t].op = "get" /\ Answers(t, "ok") /\ UNCHANGED clock
  BY <1>4, AnswerEffect DEF TypeOK
<1>5. CASE /\ IsWhole(now) /\ thread[t].op = "apply" /\ UNCHANGED clock
           /\ thread' = [thread EXCEPT ![t].pc = "aim", ![t].draft = now]
  <2> HIDE DEF now
  <2>1. Others(t) /\ Continues(t, "aim", now, thread[t].handle)
    BY <1>5, CallEffect
  <2>2. now \in Record
    BY <1>1, <1>5, Kinds
  <2> QED
    BY <1>5, <2>1, <2>2 DEF TypeOK, now
<1>6. CASE /\ IsWhole(now) /\ thread[t].op = "replace" /\ clock < MaxClock
                /\ clock' = clock + 1
           /\ \E b \in Body : thread' = [thread EXCEPT ![t].pc = "open",
                                ![t].draft = Whole(b, now.created, clock + 1)]
  <2>1. PICK b \in Body : thread' = [thread EXCEPT ![t].pc = "open",
                                       ![t].draft = Whole(b, now.created, clock + 1)]
    BY <1>6
  <2> DEFINE r == Whole(b, now.created, clock + 1)
  <2> HIDE DEF now
  <2>2. clock + 1 \in 0 .. MaxClock
    BY <1>6, StoreAssumption DEF TypeOK
  <2>3. now \in Record
    BY <1>1, <1>6, Kinds
  <2>4. r \in Record /\ r.created = now.created
    BY <2>2, <2>3, Parts
  <2> HIDE DEF r
  <2>5. thread' = [thread EXCEPT ![t].pc = "open", ![t].draft = r]
    BY <2>1 DEF r
  <2>6. Others(t) /\ Continues(t, "open", r, thread[t].handle)
    BY <2>5, CallEffect
  <2>7. clock' \in 0 .. MaxClock
    BY <1>6, <2>2
  <2> QED
    BY <1>6, <2>4, <2>5, <2>6, <2>7 DEF now
<1> QED
  BY <1>2, <1>3, <1>4, <1>5, <1>6 DEF ReadRecord

\* Opening gives a handle on the temporary file ...
LEMMA OpenEffect ==
    ASSUME TypeOK, NEW t \in Thread, OpenTemp(t)
    PROVE  Others(t) /\ Continues(t, "write", thread[t].draft, "temp")
BY CallEffect DEF OpenTemp

\* ... which is closed after the text is written.
LEMMA WriteEffect ==
    ASSUME TypeOK, NEW t \in Thread, WriteText(t)
    PROVE  Others(t) /\ Continues(t, "rename", thread[t].draft, "none")
BY CallEffect DEF WriteText

\* A list begins with the names that are there.
LEMMA ListEffect ==
    ASSUME TypeOK, NEW t \in Thread, NEW kind \in SUBSET Id, List(t, kind)
    PROVE  \E names \in SUBSET Id :
             /\ Others(t) /\ Begins(t, "list", "list", IdleThread.id, NoFile, names, "none")
             /\ thread' = [thread EXCEPT ![t] = [IdleThread EXCEPT !.op = "list", !.pc = "list",
                                                       !.left = names, !.stable = names]]
             /\ \A i \in names : file[i] # NoFile
<1> DEFINE names == {i \in kind : file[i] # NoFile}
<1>1. names \in SUBSET Id /\ \A i \in names : file[i] # NoFile
  OBVIOUS
<1>2. thread' = [thread EXCEPT ![t] =
         [IdleThread EXCEPT !.op = "list", !.pc = "list", !.left = names, !.stable = names]]
  BY DEF List
<1> HIDE DEF names
<1>3. Others(t) /\ Begins(t, "list", "list", IdleThread.id, NoFile, names, "none")
  BY <1>2, BeginEffect
<1> QED
  BY <1>1, <1>2, <1>3

-----------------------------------------------------------------------------
(* The invariant.                                                           *)

\* Requests stay requests.
LEMMA RequestStep == TypeOK /\ [Next]_vars => thread' \in [Thread -> Request]
<1> SUFFICES ASSUME TypeOK, [Next]_vars
             PROVE  thread' \in [Thread -> Request]
  OBVIOUS
<1> DEFINE Goal == thread' \in [Thread -> Request]
<1>a. thread \in [Thread -> Request]
  BY DEF TypeOK
<1>b. ASSUME NEW t \in Thread,
             NEW a \in {"ok", "vanished", "unreadable", "temp gone", "disk"}, Answers(t, a)
      PROVE  thread' \in [Thread -> Request]
  <2>1. Served(thread[t], a) \in Request
    BY <1>a, ServedTyped
  <2> QED
    BY <1>a, <1>b, <2>1 DEF Answers
<1>1. ASSUME NEW t \in Thread, NEW i \in Id, NEW b \in Body, Create(t, i, b)
      PROVE  Goal
  <2>1. PICK r \in Record :
             /\ Others(t) /\ Begins(t, "create", "open", i, r, {}, "none")
             /\ thread' = [thread EXCEPT ![t] = [IdleThread EXCEPT !.op = "create", !.id = i,
                                                                   !.pc = "open", !.draft = r]]
             /\ clock' \in 0 .. MaxClock
    BY <1>1, CreateEffect
  <2>2. [IdleThread EXCEPT !.op = "create", !.id = i, !.pc = "open", !.draft = r] \in Request
    BY IdleIsRequest, StartTyped
  <2> QED
    BY <1>a, <2>1, <2>2
<1>2. ASSUME NEW t \in Thread, NEW i \in Id, SavePosition(t, i)
      PROVE  Goal
  <2>1. PICK r \in Record :
             /\ Others(t) /\ Begins(t, "create", "open", i, r, {}, "none")
             /\ thread' = [thread EXCEPT ![t] = [IdleThread EXCEPT !.op = "create", !.id = i,
                                                                   !.pc = "open", !.draft = r]]
             /\ clock' \in 0 .. MaxClock
    BY <1>2, SaveEffect
  <2>2. [IdleThread EXCEPT !.op = "create", !.id = i, !.pc = "open", !.draft = r] \in Request
    BY IdleIsRequest, StartTyped
  <2> QED
    BY <1>a, <2>1, <2>2
<1>3. ASSUME NEW t \in Thread, NEW i \in Id, NEW op \in {"get", "replace", "apply"},
            op = "replace" => i \in Profile, FindRecord(t, op, i)
      PROVE  Goal
  <2>1. /\ [IdleThread EXCEPT !.op = op, !.id = i, !.pc = "read"] \in Request
        /\ [IdleThread EXCEPT !.op = op, !.id = i, !.answer = "not found"] \in Request
    BY <1>3, IdleIsRequest, FindTyped, MissTyped
  <2> QED
    BY <1>3, <1>a, <2>1 DEF FindRecord, Begin
<1>4. ASSUME NEW t \in Thread, ReadRecord(t)
      PROVE  Goal
  <2>1. CASE \E a \in {"vanished", "unreadable", "ok"} : Answers(t, a)
    BY <1>b, <2>1
  <2>2. ASSUME NEW r \in Record, NEW pc \in {"aim", "open"},
               thread' = [thread EXCEPT ![t].pc = pc, ![t].draft = r]
        PROVE  thread' \in [Thread -> Request]
    <3>1. PICK u \in Request : u = thread[t]
      BY <1>a
    <3>2. thread' = [thread EXCEPT ![t] = [u EXCEPT !.pc = pc, !.draft = r]]
      BY <1>a, <2>2, <3>1 DEF Request
    <3>3. [u EXCEPT !.pc = pc, !.draft = r] \in Request
      BY <2>2, DraftTyped
    <3> QED
      BY <1>a, <3>2, <3>3
  <2> QED
    BY <1>4, <2>1, <2>2, ReadEffect
<1>5. ASSUME NEW t \in Thread, AimCamera(t)
      PROVE  Goal
  <2>1. Answers(t, "ok")
    BY <1>5 DEF AimCamera
  <2> QED
    BY <1>b, <2>1
<1>6. ASSUME NEW t \in Thread, OpenTemp(t)
      PROVE  Goal
  <2>1. PICK u \in Request : u = thread[t]
    BY <1>a
  <2>2. thread' = [thread EXCEPT ![t] = [u EXCEPT !.pc = "write", !.handle = "temp"]]
    BY <1>6, <1>a, <2>1 DEF OpenTemp, Request
  <2>3. [u EXCEPT !.pc = "write", !.handle = "temp"] \in Request
    BY HandleTyped
  <2> QED
    BY <1>a, <2>2, <2>3
<1>7. ASSUME NEW t \in Thread, WriteText(t)
      PROVE  Goal
  <2>1. PICK u \in Request : u = thread[t]
    BY <1>a
  <2>2. thread' = [thread EXCEPT ![t] = [u EXCEPT !.pc = "rename", !.handle = "none"]]
    BY <1>7, <1>a, <2>1 DEF WriteText, Request
  <2>3. [u EXCEPT !.pc = "rename", !.handle = "none"] \in Request
    BY HandleTyped
  <2> QED
    BY <1>a, <2>2, <2>3
<1>8. ASSUME NEW t \in Thread, Rename(t)
      PROVE  Goal
  <2>1. HandleAfterRename("none") = "none" /\ HandleAfterRename("temp") = "file"
        /\ HandleAfterRename("file") = "unlinked" /\ HandleAfterRename("unlinked") = "unlinked"
    BY DEF HandleAfterRename
  <2>2. \A v \in Thread : thread[v] \in Request
          /\ thread[v].handle \in {"none", "temp", "file", "unlinked"}
    BY <1>a DEF Request
  <2>3. Served(thread[t], "ok") \in Request
    BY <2>2, ServedTyped
  <2>4. \A v \in Thread :
          [thread[v] EXCEPT !.handle = HandleAfterRename(thread[v].handle)] \in Request
    BY <2>1, <2>2, MovedTyped
  <2>5. CASE Answers(t, "temp gone")
    BY <1>b, <2>5
  <2>6. CASE temp[thread[t].id] # NoFile
    <3>1. thread' = [u \in Thread |->
                 IF u = t THEN Served(thread[t], "ok")
                 ELSE IF thread[u].id = thread[t].id
                 THEN [thread[u] EXCEPT !.handle = HandleAfterRename(@)] ELSE thread[u]]
      BY <1>8, <2>6 DEF Rename
    <3> QED
      BY <2>2, <2>3, <2>4, <3>1
  <2> QED
    BY <1>8, <2>5, <2>6 DEF Rename
<1>9. ASSUME NEW t \in Thread, DiskFails(t)
      PROVE  Goal
  <2>1. Answers(t, "disk")
    BY <1>9 DEF DiskFails
  <2> QED
    BY <1>b, <2>1
<1>10. ASSUME NEW t \in Thread, NEW i \in Id, Delete(t, i)
      PROVE  Goal
  <2> DEFINE a == IF file[i] = NoFile THEN "not found" ELSE "ok"
  <2>1. Deletes(a) \in Request
    BY DeletesTyped
  <2>2. \A v \in Thread : thread[v] \in Request /\ Unlinked(i, thread[v]) \in Request
    BY <1>a, UnlinkedTyped
  <2> QED
    BY <1>10, <2>1, <2>2 DEF Delete
<1>11. ASSUME NEW t \in Thread, NEW kind \in SUBSET Id, List(t, kind)
      PROVE  Goal
  <2>1. PICK names \in SUBSET Id : thread' = [thread EXCEPT ![t] =
           [IdleThread EXCEPT !.op = "list", !.pc = "list", !.left = names, !.stable = names]]
    BY <1>11, ListEffect
  <2>2. [IdleThread EXCEPT !.op = "list", !.pc = "list", !.left = names,
          !.stable = names] \in Request
    BY IdleIsRequest, ListTyped
  <2> QED
    BY <1>a, <2>1, <2>2
<1>12. ASSUME NEW t \in Thread, ListNext(t)
      PROVE  Goal
  <2>1. PICK u \in Request : u = thread[t]
    BY <1>a
  <2>2. u.left \in SUBSET Id /\ u.seen \in SUBSET Id /\ u.stable \in SUBSET Id
    BY DEF Request
  <2>3. PICK i \in u.left :
           \/ thread' = [thread EXCEPT ![t].left = u.left \ {i},
                                       ![t].seen = IF IsWhole(file[i]) THEN u.seen \cup {i}
                                                   ELSE u.seen]
           \/ thread' = [thread EXCEPT ![t].left = u.left \ {i},
                                       ![t].stable = u.stable \ {i}]
    BY <1>12, <1>a, <2>1 DEF ListNext, Request
  <2> DEFINE ids == IF IsWhole(file[i]) THEN u.seen \cup {i} ELSE u.seen
             names == u.left \ {i}
             owed == u.stable \ {i}
  <2>4. names \in SUBSET Id /\ ids \in SUBSET Id /\ owed \in SUBSET Id
    BY <2>2, <2>3
  <2>5. \/ thread' = [thread EXCEPT ![t] = [u EXCEPT !.left = names, !.seen = ids]]
        \/ thread' = [thread EXCEPT ![t] = [u EXCEPT !.left = names, !.stable = owed]]
    BY <1>a, <2>1, <2>3 DEF Request
  <2> HIDE DEF names, ids, owed
  <2>6. /\ [u EXCEPT !.left = names, !.seen = ids] \in Request
        /\ [u EXCEPT !.left = names, !.stable = owed] \in Request
    BY <2>4, SeenTyped, RefusedTyped
  <2> QED
    BY <1>a, <2>5, <2>6
<1>13. ASSUME NEW t \in Thread, ListEnds(t)
      PROVE  Goal
  <2>1. Answers(t, "ok")
    BY <1>13 DEF ListEnds
  <2> QED
    BY <1>b, <2>1
<1>14. ASSUME SetView
      PROVE  Goal
  BY <1>14, <1>a DEF SetView
<1>15. ASSUME Crash
      PROVE  Goal
  BY <1>15, IdleIsRequest DEF Crash
<1>16. ASSUME UNCHANGED vars PROVE Goal
  BY <1>16, <1>a DEF vars
<1>17. ASSUME NEW t \in Thread, DeleteFails(t)
      PROVE  Goal
  <2>1. Deletes("disk") \in Request
    BY DeletesTyped
  <2> QED
    BY <1>17, <1>a, <2>1 DEF DeleteFails
<1> HIDE DEF Goal
<1>18. Goal
  BY <1>1, <1>2, <1>3, <1>4, <1>5, <1>6, <1>7, <1>8, <1>9, <1>10, <1>11, <1>12, <1>13,
     <1>14, <1>15, <1>16, <1>17, Acts
<1> QED
  BY <1>18 DEF Goal

\* A request carries what its calls need.
LEMMA ShapeStep == TypeOK /\ ThreadShape /\ [Next]_vars => ThreadShape'
<1> SUFFICES ASSUME TypeOK, ThreadShape, [Next]_vars
             PROVE  ThreadShape'
  OBVIOUS
<1> DEFINE Goal == ThreadShape'
<1>k. ~IsWhole(NoFile) /\ \A x \in Record : IsWhole(x)
  BY Kinds
<1>1. ASSUME NEW t \in Thread, NEW i \in Id, NEW b \in Body, Create(t, i, b)
      PROVE  Goal
  <2>1. PICK r \in Record : Others(t) /\ Begins(t, "create", "open", i, r, {}, "none")
    BY <1>1, CreateEffect
  <2>2. thread[t].pc = "idle" /\ i \in Profile /\ i \notin used /\ used' = used \cup {i}
    BY <1>1 DEF Create, At
  <2> QED
    BY <2>1, <2>2, <1>k DEF Others, Begins, ThreadShape, Fits, Writing, At
<1>2. ASSUME NEW t \in Thread, NEW i \in Id, SavePosition(t, i)
      PROVE  Goal
  <2>1. PICK r \in Record : Others(t) /\ Begins(t, "create", "open", i, r, {}, "none")
    BY <1>2, SaveEffect
  <2>2. thread[t].pc = "idle" /\ i \in Position /\ i \notin used /\ used' = used \cup {i}
    BY <1>2 DEF SavePosition, At
  <2> QED
    BY <2>1, <2>2, <1>k DEF Others, Begins, ThreadShape, Fits, Writing, At
<1>3. ASSUME NEW t \in Thread, NEW i \in Id, NEW op \in {"get", "replace", "apply"},
            op = "replace" => i \in Profile, FindRecord(t, op, i)
      PROVE  Goal
  <2>1. Others(t)
    BY <1>3, FindEffect
  <2>2. op \in {"get", "replace", "apply"} /\ (op = "replace" => i \in Profile)
    BY <1>3
  <2>3. ASSUME Begins(t, op, "read", i, NoFile, {}, "none") PROVE Fits(thread'[t])
    BY <2>2, <2>3, <1>k DEF Begins, ThreadShape, Fits, Writing, At
  <2>4. ASSUME Begins(t, op, "idle", i, NoFile, {}, "not found") PROVE Fits(thread'[t])
    BY <2>2, <2>4, <1>k DEF Begins, ThreadShape, Fits, Writing, At
  <2>5. Fits(thread'[t])
    BY <1>3, <2>3, <2>4, FindEffect
  <2> QED
    BY <2>1, <2>5 DEF Others, ThreadShape
<1>4. ASSUME NEW t \in Thread, ReadRecord(t)
      PROVE  Goal
  <2>1. /\ Others(t)
        /\ LET now == file[thread[t].id] IN
           \/ now = NoFile /\ Ends(t, "vanished")
           \/ now \in {Empty, Mixed} /\ Ends(t, "unreadable")
           \/ IsWhole(now) /\ thread[t].op = "get" /\ Ends(t, "ok")
           \/ IsWhole(now) /\ thread[t].op = "apply"
                /\ Continues(t, "aim", now, thread[t].handle)
           \/ /\ IsWhole(now) /\ thread[t].op = "replace"
              /\ \E r \in Record : r.created = now.created
                                   /\ Continues(t, "open", r, thread[t].handle)
    BY <1>4, ReadEffect
  <2>2. thread[t].pc = "read"
    BY <1>4 DEF ReadRecord, At
  <2> QED
    BY <2>1, <2>2, <1>k DEF Others, Continues, Ends, ThreadShape, Fits, Writing, At
<1>5. ASSUME NEW t \in Thread, AimCamera(t)
      PROVE  Goal
  <2>1. Others(t) /\ Ends(t, "ok")
    BY <1>5, AnswerEffect DEF AimCamera
  <2>2. thread[t].pc = "aim"
    BY <1>5 DEF AimCamera, At
  <2> QED
    BY <2>1, <2>2, <1>k DEF Others, Ends, ThreadShape, Fits, Writing, At
<1>6. ASSUME NEW t \in Thread, OpenTemp(t)
      PROVE  Goal
  <2>1. Others(t) /\ Continues(t, "write", thread[t].draft, "temp")
    BY <1>6, OpenEffect
  <2>2. thread[t].pc = "open"
    BY <1>6 DEF OpenTemp, At
  <2> QED
    BY <2>1, <2>2, <1>k DEF Others, Continues, ThreadShape, Fits, Writing, At
<1>7. ASSUME NEW t \in Thread, WriteText(t)
      PROVE  Goal
  <2>1. Others(t) /\ Continues(t, "rename", thread[t].draft, "none")
    BY <1>7, WriteEffect
  <2>2. thread[t].pc = "write"
    BY <1>7 DEF WriteText, At
  <2> QED
    BY <2>1, <2>2, <1>k DEF Others, Continues, ThreadShape, Fits, Writing, At
<1>8. ASSUME NEW t \in Thread, Rename(t)
      PROVE  Goal
  <2>1. PICK a \in {"temp gone", "ok"} : Ends(t, a)
    BY <1>8, RenameEffect
  <2>2. \A v \in Thread \ {t} : Undisturbed(v)
    BY <1>8, RenameEffect
  <2>3. thread[t].pc = "rename"
    BY <1>8 DEF Rename, At
  <2>4. ASSUME NEW v \in Thread \ {t} PROVE Fits(thread'[v])
    <3>1. Undisturbed(v) /\ Fits(thread[v])
      BY <2>2 DEF ThreadShape
    <3> QED
      BY <3>1 DEF Undisturbed, Fits
  <2>5. Fits(thread'[t])
    BY <2>1, <2>3, <1>k DEF Ends, ThreadShape, Fits, Writing, At
  <2> QED
    BY <2>4, <2>5 DEF ThreadShape
<1>9. ASSUME NEW t \in Thread, DiskFails(t)
      PROVE  Goal
  <2>1. Others(t) /\ Ends(t, "disk")
    BY <1>9, AnswerEffect DEF DiskFails
  <2>2. thread[t].pc \in {"read", "open", "write", "rename"} /\ Faults
    BY <1>9 DEF DiskFails, At
  <2> QED
    BY <2>1, <2>2, <1>k DEF Others, Ends, ThreadShape, Fits, Writing, At
<1>10. ASSUME NEW t \in Thread, NEW i \in Id, Delete(t, i)
      PROVE  Goal
  <2>1. PICK a \in {"ok", "not found"} : Begins(t, "delete", "idle", IdleThread.id, NoFile, {}, a)
    BY <1>10, DeleteEffect
  <2>2. \A v \in Thread \ {t} : Undisturbed(v)
    BY <1>10, DeleteEffect
  <2>4. ASSUME NEW v \in Thread \ {t} PROVE Fits(thread'[v])
    <3>1. Undisturbed(v) /\ Fits(thread[v])
      BY <2>2 DEF ThreadShape
    <3> QED
      BY <3>1 DEF Undisturbed, Fits
  <2>5. Fits(thread'[t])
    BY <2>1, <1>k DEF Begins, ThreadShape, Fits, Writing, At
  <2> QED
    BY <2>4, <2>5 DEF ThreadShape
<1>11. ASSUME NEW t \in Thread, NEW kind \in SUBSET Id, List(t, kind)
      PROVE  Goal
  <2>1. PICK names \in SUBSET Id :
           /\ Others(t) /\ Begins(t, "list", "list", IdleThread.id, NoFile, names, "none")
           /\ \A j \in names : file[j] # NoFile
    BY <1>11, ListEffect
  <2> QED
    BY <2>1, <1>k DEF Others, Begins, ThreadShape, Fits, Writing, At
<1>12. ASSUME NEW t \in Thread, ListNext(t)
      PROVE  Goal
  <2>1. /\ Others(t) /\ Lists(t)
        /\ NextName(t)
    BY <1>12, ListNextEffect
  <2>2. thread[t].pc = "list"
    BY <1>12 DEF ListNext, At
  <2> QED
    BY <2>1, <2>2, <1>k DEF Others, Lists, ThreadShape, Fits, Writing, At
<1>13. ASSUME NEW t \in Thread, ListEnds(t)
      PROVE  Goal
  <2>1. Others(t) /\ Ends(t, "ok")
    BY <1>13, AnswerEffect DEF ListEnds
  <2>2. thread[t].pc = "list" /\ thread[t].left = {}
    BY <1>13 DEF ListEnds, At
  <2> QED
    BY <2>1, <2>2, <1>k DEF Others, Ends, ThreadShape, Fits, Writing, At
<1>14. ASSUME SetView
      PROVE  Goal
  <2>1. thread' = thread
    BY <1>14, <1>14 DEF SetView
  <2> QED
    BY <2>1, <1>k DEF ThreadShape, Fits, Writing, At
<1>15. ASSUME Crash
      PROVE  Goal
  <2>1. \A t \in Thread : thread'[t] = IdleThread
    BY <1>15, <1>15 DEF Crash
  <2> QED
    BY <2>1, IdleIsRequest, <1>k DEF ThreadShape, Fits, Writing, At
<1>16. ASSUME UNCHANGED vars PROVE Goal
  BY <1>16 DEF vars, ThreadShape, Fits, Writing, At
<1>17. ASSUME NEW t \in Thread, DeleteFails(t)
      PROVE  Goal
  <2>1. Others(t) /\ Begins(t, "delete", "idle", IdleThread.id, NoFile, {}, "disk")
    BY <1>17, DeleteFailsEffect
  <2> QED
    BY <2>1, <1>k DEF Others, Begins, ThreadShape, Fits, Writing, At
<1> HIDE DEF Goal
<1>18. Goal
  BY <1>1, <1>2, <1>3, <1>4, <1>5, <1>6, <1>7, <1>8, <1>9, <1>10, <1>11, <1>12, <1>13,
     <1>14, <1>15, <1>16, <1>17, Acts
<1> QED
  BY <1>18 DEF Goal

\* What TypeOK says of everything but the threads.
FileTypes ==
    /\ file \in [Id -> Content] /\ temp \in [Id -> Content]
    /\ clock \in 0 .. MaxClock /\ used \subseteq Id /\ shared \subseteq Profile
    /\ offset \in [kind : {"pose"}, body : Body] \cup {NoPose}

\* Files stay files; only two updates of one profile share a temporary file.
LEMMA FileStep == TypeOK /\ ThreadShape /\ CreatesOnce /\ [Next]_vars => FileTypes'
<1> SUFFICES ASSUME TypeOK, ThreadShape, CreatesOnce, [Next]_vars
             PROVE  FileTypes'
  OBVIOUS
<1> DEFINE Goal == FileTypes'
<1>a. FileTypes
  BY DEF TypeOK, FileTypes
<1>b. \A t \in Thread : thread[t].id \in Id /\ thread[t].draft \in Record \cup {NoFile}
  BY DEF TypeOK, Request
<1>c. Profile \subseteq Id /\ Position \subseteq Id
  BY DEF Id
<1>1. ASSUME NEW t \in Thread, NEW i \in Id, NEW b \in Body, Create(t, i, b)
      PROVE  Goal
  <2>1. clock' \in 0 .. MaxClock
    BY <1>1, CreateEffect
  <2> QED
    BY <1>1, <1>a, <2>1 DEF Create, FileTypes
<1>2. ASSUME NEW t \in Thread, NEW i \in Id, SavePosition(t, i)
      PROVE  Goal
  <2>1. clock' \in 0 .. MaxClock
    BY <1>2, SaveEffect
  <2> QED
    BY <1>2, <1>a, <2>1 DEF SavePosition, FileTypes
<1>3. ASSUME NEW t \in Thread, NEW i \in Id, NEW op \in {"get", "replace", "apply"},
            op = "replace" => i \in Profile, FindRecord(t, op, i)
      PROVE  Goal
  BY <1>3, <1>a DEF FindRecord, FileTypes
<1>4. ASSUME NEW t \in Thread, ReadRecord(t)
      PROVE  Goal
  <2>1. clock' \in 0 .. MaxClock
    BY <1>4, ReadEffect
  <2> QED
    BY <1>4, <1>a, <2>1 DEF ReadRecord, FileTypes
<1>5. ASSUME NEW t \in Thread, AimCamera(t)
      PROVE  Goal
  <2>1. thread[t].draft \in Record
    BY <1>5, <1>b, Kinds DEF AimCamera, ThreadShape, Fits, At
  <2>2. offset' \in [kind : {"pose"}, body : Body]
    BY <1>5, <2>1, Parts DEF AimCamera
  <2> QED
    BY <1>5, <1>a, <2>2 DEF AimCamera, FileTypes
<1>6. ASSUME NEW t \in Thread, OpenTemp(t)
      PROVE  Goal
  <2> DEFINE i == thread[t].id
  <2>1. temp' \in [Id -> Content]
    BY <1>6, <1>a, Kinds DEF OpenTemp, FileTypes
  <2>2. ASSUME Writers(i) # {} PROVE i \in Profile
    <3>1. PICK v \in Thread : thread[v].id = i /\ thread[v].pc \in {"write", "rename"}
      BY <2>2 DEF Writers
    <3>2. thread[t].pc = "open" /\ t # v
      BY <1>6, <3>1 DEF OpenTemp, At
    <3>3. Fits(thread[t]) /\ Fits(thread[v])
      BY DEF ThreadShape
    <3>4. thread[t].op = "replace" \/ thread[v].op = "replace"
      BY <3>1, <3>2, <3>3 DEF CreatesOnce, Creates, Fits, Writing
    <3> QED
      BY <3>1, <3>2, <3>3, <3>4 DEF Fits
  <2>3. shared' \subseteq Profile
    BY <1>6, <1>a, <2>2 DEF OpenTemp, FileTypes
  <2> QED
    BY <1>6, <1>a, <2>1, <2>3 DEF OpenTemp, FileTypes
<1>7. ASSUME NEW t \in Thread, WriteText(t)
      PROVE  Goal
  <2> DEFINE i == thread[t].id
  <2>1. thread[t].draft \in Content
    BY <1>b, Kinds
  <2>2. \A old : Written(old, thread[t].draft) \subseteq Content
    BY <2>1, Kinds DEF Written
  <2>3. \/ UNCHANGED <<file, temp>>
        \/ \E x \in Written(temp[i], thread[t].draft) : temp' = [temp EXCEPT ![i] = x]
             /\ file' = file
        \/ \E x \in Written(file[i], thread[t].draft) : file' = [file EXCEPT ![i] = x]
             /\ temp' = temp
    BY <1>7 DEF WriteText
  <2>4. file' \in [Id -> Content] /\ temp' \in [Id -> Content]
    BY <1>a, <2>2, <2>3 DEF FileTypes
  <2> QED
    BY <1>7, <1>a, <2>4 DEF WriteText, FileTypes
<1>8. ASSUME NEW t \in Thread, Rename(t)
      PROVE  Goal
  <2>1. thread[t].id \in Id
    BY <1>b
  <2>2. file' \in [Id -> Content] /\ temp' \in [Id -> Content]
    BY <1>8, <1>a, <2>1, Kinds DEF Rename, FileTypes
  <2> QED
    BY <1>8, <1>a, <2>2 DEF Rename, FileTypes
<1>9. ASSUME NEW t \in Thread, DiskFails(t)
      PROVE  Goal
  BY <1>9, <1>a DEF DiskFails, FileTypes
<1>10. ASSUME NEW t \in Thread, NEW i \in Id, Delete(t, i)
      PROVE  Goal
  <2>1. file' \in [Id -> Content]
    BY <1>10, <1>a, Kinds DEF Delete, FileTypes
  <2> QED
    BY <1>10, <1>a, <2>1 DEF Delete, FileTypes
<1>11. ASSUME NEW t \in Thread, NEW kind \in SUBSET Id, List(t, kind)
      PROVE  Goal
  BY <1>11, <1>a DEF List, FileTypes
<1>12. ASSUME NEW t \in Thread, ListNext(t)
      PROVE  Goal
  BY <1>12, <1>a DEF ListNext, FileTypes
<1>13. ASSUME NEW t \in Thread, ListEnds(t)
      PROVE  Goal
  BY <1>13, <1>a DEF ListEnds, FileTypes
<1>14. ASSUME SetView
      PROVE  Goal
  BY <1>14, <1>a DEF SetView, FileTypes
<1>15. ASSUME Crash
      PROVE  Goal
  BY <1>15, <1>a DEF Crash, FileTypes
<1>16. ASSUME UNCHANGED vars PROVE Goal
  BY <1>16, <1>a DEF vars, FileTypes
<1>17. ASSUME NEW t \in Thread, DeleteFails(t)
      PROVE  Goal
  BY <1>17, <1>a DEF DeleteFails, FileTypes
<1> HIDE DEF Goal
<1>18. Goal
  BY <1>1, <1>2, <1>3, <1>4, <1>5, <1>6, <1>7, <1>8, <1>9, <1>10, <1>11, <1>12, <1>13,
     <1>14, <1>15, <1>16, <1>17, Acts
<1> QED
  BY <1>18 DEF Goal

\* A handle is held to write.
Held(u) == u.handle # "none" <=> u.pc = "write"

\* A handle is open exactly while a thread is about to write.
LEMMA HandleStep == TypeOK /\ [Next]_vars => \A v \in Thread : Held(thread'[v])
<1> SUFFICES ASSUME TypeOK, [Next]_vars
             PROVE  \A v \in Thread : Held(thread'[v])
  OBVIOUS
<1> DEFINE Goal == \A v \in Thread : Held(thread'[v])
<1>h. \A v \in Thread : Held(thread[v])
  BY DEF TypeOK, At, Held
<1>1. ASSUME NEW t \in Thread, NEW i \in Id, NEW b \in Body, Create(t, i, b)
      PROVE  Goal
  <2>1. PICK r \in Record : Others(t) /\ Begins(t, "create", "open", i, r, {}, "none")
    BY <1>1, CreateEffect
  <2>2. Held(thread'[t])
    BY <1>h, <2>1 DEF Begins, Held
  <2> QED
    BY <1>h, <2>1, <2>2 DEF Others
<1>2. ASSUME NEW t \in Thread, NEW i \in Id, SavePosition(t, i)
      PROVE  Goal
  <2>1. PICK r \in Record : Others(t) /\ Begins(t, "create", "open", i, r, {}, "none")
    BY <1>2, SaveEffect
  <2>2. Held(thread'[t])
    BY <1>h, <2>1 DEF Begins, Held
  <2> QED
    BY <1>h, <2>1, <2>2 DEF Others
<1>3. ASSUME NEW t \in Thread, NEW i \in Id, NEW op \in {"get", "replace", "apply"},
            op = "replace" => i \in Profile, FindRecord(t, op, i)
      PROVE  Goal
  <2>1. Others(t)
    BY <1>3, FindEffect
  <2>2. Held(thread'[t])
    <3>1. CASE Begins(t, op, "read", i, NoFile, {}, "none")
      BY <3>1 DEF Begins, Held
    <3>2. CASE Begins(t, op, "idle", i, NoFile, {}, "not found")
      BY <3>2 DEF Begins, Held
    <3> QED
      BY <1>3, <3>1, <3>2, FindEffect
  <2> QED
    BY <1>h, <2>1, <2>2 DEF Others
<1>4. ASSUME NEW t \in Thread, ReadRecord(t)
      PROVE  Goal
  <2>1. Others(t) /\ Held(thread[t]) /\ thread[t].pc = "read"
    BY <1>4, <1>h, ReadEffect DEF ReadRecord, At
  <2>2. PICK pc \in {"idle", "aim", "open"} :
          thread'[t].pc = pc /\ thread'[t].handle \in {"none", thread[t].handle}
    BY <1>4, ReadEffect DEF Ends, Continues
  <2>3. Held(thread'[t])
    BY <2>1, <2>2 DEF Held
  <2> QED
    BY <1>h, <2>1, <2>3 DEF Others
<1>5. ASSUME NEW t \in Thread, AimCamera(t)
      PROVE  Goal
  <2>1. Others(t) /\ Ends(t, "ok")
    BY <1>5, AnswerEffect DEF AimCamera
  <2>2. Held(thread'[t])
    BY <1>h, <2>1 DEF Ends, Held
  <2> QED
    BY <1>h, <2>1, <2>2 DEF Others
<1>6. ASSUME NEW t \in Thread, OpenTemp(t)
      PROVE  Goal
  <2>1. Others(t) /\ Continues(t, "write", thread[t].draft, "temp")
    BY <1>6, OpenEffect
  <2>2. Held(thread'[t])
    BY <1>h, <2>1 DEF Continues, Held
  <2> QED
    BY <1>h, <2>1, <2>2 DEF Others
<1>7. ASSUME NEW t \in Thread, WriteText(t)
      PROVE  Goal
  <2>1. Others(t) /\ Continues(t, "rename", thread[t].draft, "none")
    BY <1>7, WriteEffect
  <2>2. Held(thread'[t])
    BY <1>h, <2>1 DEF Continues, Held
  <2> QED
    BY <1>h, <2>1, <2>2 DEF Others
<1>8. ASSUME NEW t \in Thread, Rename(t)
      PROVE  Goal
  <2>1. PICK a \in {"temp gone", "ok"} : Ends(t, a)
    BY <1>8, RenameEffect
  <2>2. ASSUME NEW v \in Thread \ {t} PROVE Held(thread'[v])
    <3>1. Undisturbed(v) /\ Held(thread[v])
      BY <1>8, <1>h, RenameEffect
    <3>2. thread'[v].handle # "none" <=> thread[v].handle # "none"
      <4>1. \A h \in {"none", "temp", "file", "unlinked"} :
              HandleAfterRename(h) # "none" <=> h # "none"
        BY DEF HandleAfterRename
      <4>2. thread[v].handle \in {"none", "temp", "file", "unlinked"}
        BY DEF TypeOK, Request
      <4>3. thread'[v].handle \in {thread[v].handle, HandleAfterRename(thread[v].handle)}
        BY <1>8, RenameEffect DEF Others
      <4> QED
        BY <4>1, <4>2, <4>3
    <3> QED
      BY <3>1, <3>2 DEF Undisturbed, Held
  <2>3. Held(thread'[t])
    BY <2>1 DEF Ends, Held
  <2> QED
    BY <2>2, <2>3
<1>9. ASSUME NEW t \in Thread, DiskFails(t)
      PROVE  Goal
  <2>1. Others(t) /\ Ends(t, "disk")
    BY <1>9, AnswerEffect DEF DiskFails
  <2>2. Held(thread'[t])
    BY <1>h, <2>1 DEF Ends, Held
  <2> QED
    BY <1>h, <2>1, <2>2 DEF Others
<1>10. ASSUME NEW t \in Thread, NEW i \in Id, Delete(t, i)
      PROVE  Goal
  <2>1. PICK a \in {"ok", "not found"} : Begins(t, "delete", "idle", IdleThread.id, NoFile, {}, a)
    BY <1>10, DeleteEffect
  <2>2. ASSUME NEW v \in Thread \ {t} PROVE Held(thread'[v])
    <3>1. Undisturbed(v) /\ Held(thread[v])
      BY <1>10, <1>h, DeleteEffect
    <3>2. thread'[v].handle = thread[v].handle
          \/ (thread[v].handle = "file" /\ thread'[v].handle = "unlinked")
      BY <1>10, DeleteEffect DEF Others
    <3> QED
      BY <3>1, <3>2 DEF Undisturbed, Held
  <2>3. Held(thread'[t])
    BY <2>1 DEF Begins, Held
  <2> QED
    BY <2>2, <2>3
<1>11. ASSUME NEW t \in Thread, NEW kind \in SUBSET Id, List(t, kind)
      PROVE  Goal
  <2>1. PICK names \in SUBSET Id :
           /\ Others(t) /\ Begins(t, "list", "list", IdleThread.id, NoFile, names, "none")
           /\ \A j \in names : file[j] # NoFile
    BY <1>11, ListEffect
  <2>2. Held(thread'[t])
    BY <1>h, <2>1 DEF Begins, Held
  <2> QED
    BY <1>h, <2>1, <2>2 DEF Others
<1>12. ASSUME NEW t \in Thread, ListNext(t)
      PROVE  Goal
  <2>1. /\ Others(t) /\ Lists(t)
        /\ NextName(t)
    BY <1>12, ListNextEffect
  <2>2. Held(thread'[t])
    BY <1>h, <2>1 DEF Lists, Held
  <2> QED
    BY <1>h, <2>1, <2>2 DEF Others
<1>13. ASSUME NEW t \in Thread, ListEnds(t)
      PROVE  Goal
  <2>1. Others(t) /\ Ends(t, "ok")
    BY <1>13, AnswerEffect DEF ListEnds
  <2>2. Held(thread'[t])
    BY <1>h, <2>1 DEF Ends, Held
  <2> QED
    BY <1>h, <2>1, <2>2 DEF Others
<1>14. ASSUME SetView
      PROVE  Goal
  BY <1>14, <1>h DEF SetView
<1>15. ASSUME Crash
      PROVE  Goal
  <2>1. \A t \in Thread : thread'[t] = IdleThread
    BY <1>15 DEF Crash
  <2> QED
    BY <2>1, IdleIsRequest DEF Held
<1>16. ASSUME UNCHANGED vars PROVE Goal
  BY <1>16, <1>h DEF vars
<1>17. ASSUME NEW t \in Thread, DeleteFails(t)
      PROVE  Goal
  <2>1. Others(t) /\ Begins(t, "delete", "idle", IdleThread.id, NoFile, {}, "disk")
    BY <1>17, DeleteFailsEffect
  <2>2. Held(thread'[t])
    BY <1>h, <2>1 DEF Begins, Held
  <2> QED
    BY <1>h, <2>1, <2>2 DEF Others
<1> HIDE DEF Goal
<1>18. Goal
  BY <1>1, <1>2, <1>3, <1>4, <1>5, <1>6, <1>7, <1>8, <1>9, <1>10, <1>11, <1>12, <1>13,
     <1>14, <1>15, <1>16, <1>17, Acts
<1> QED
  BY <1>18 DEF Goal

\* No two threads ever create the same record: its id was handed out once.
LEMMA CreatesStep ==
    TypeOK /\ ThreadShape /\ CreatesOnce /\ CreatedOnce /\ [Next]_vars => CreatesOnce'
<1> SUFFICES ASSUME TypeOK, ThreadShape, CreatesOnce, CreatedOnce, [Next]_vars
             PROVE  CreatesOnce'
  OBVIOUS
<1> DEFINE Goal == CreatesOnce'
<1>c. \A v \in Thread : Creates(v) => thread[v].id \in used
  <2> SUFFICES ASSUME NEW v \in Thread, Creates(v) PROVE thread[v].id \in used
    OBVIOUS
  <2>1. IsWhole(thread[v].draft)
    BY DEF ThreadShape, Fits, Creates
  <2>2. thread[v].id \in Id /\ thread[v].draft \in Content
    BY Kinds DEF TypeOK, Request
  <2>3. Copy(thread[v].id, thread[v].draft)
    BY DEF Copy
  <2> QED
    BY <2>1, <2>2, <2>3 DEF CreatedOnce
<1>1. ASSUME NEW t \in Thread, NEW i \in Id, NEW b \in Body, Create(t, i, b)
      PROVE  Goal
  <2>1. PICK r \in Record : Others(t) /\ Begins(t, "create", "open", i, r, {}, "none")
    BY <1>1, CreateEffect
  <2>2. i \notin used
    BY <1>1 DEF Create
  <2>3. \A v \in Thread : Creates(v) => thread[v].id \in used
    BY <1>c
  <2>4. \A v \in Thread \ {t} : (Creates(v)' <=> Creates(v)) /\ thread'[v].id = thread[v].id
    BY <2>1 DEF Others, Creates
  <2> QED
    BY <2>1, <2>2, <2>3, <2>4 DEF Begins, CreatesOnce
<1>2. ASSUME NEW t \in Thread, NEW i \in Id, SavePosition(t, i)
      PROVE  Goal
  <2>1. PICK r \in Record : Others(t) /\ Begins(t, "create", "open", i, r, {}, "none")
    BY <1>2, SaveEffect
  <2>2. i \notin used
    BY <1>2 DEF SavePosition
  <2>3. \A v \in Thread : Creates(v) => thread[v].id \in used
    BY <1>c
  <2>4. \A v \in Thread \ {t} : (Creates(v)' <=> Creates(v)) /\ thread'[v].id = thread[v].id
    BY <2>1 DEF Others, Creates
  <2> QED
    BY <2>1, <2>2, <2>3, <2>4 DEF Begins, CreatesOnce
<1>3. ASSUME NEW t \in Thread, NEW i \in Id, NEW op \in {"get", "replace", "apply"},
            op = "replace" => i \in Profile, FindRecord(t, op, i)
      PROVE  Goal
  <2>1. Others(t) /\ ~Creates(t)'
    BY <1>3, FindEffect DEF Begins, Creates, Writing
  <2> QED
    BY <2>1 DEF Others, CreatesOnce, Creates
<1>4. ASSUME NEW t \in Thread, ReadRecord(t)
      PROVE  Goal
  <2>1. Others(t) /\ ~Creates(t)'
    <3>1. thread[t].pc = "read" /\ Fits(thread[t])
      BY <1>4 DEF ReadRecord, At, ThreadShape
    <3>2. Others(t) /\ thread'[t].op = thread[t].op
      BY <1>4, ReadEffect DEF Ends, Continues
    <3> QED
      BY <3>1, <3>2 DEF Fits, Creates
  <2> QED
    BY <2>1 DEF Others, CreatesOnce, Creates
<1>5. ASSUME NEW t \in Thread, AimCamera(t)
      PROVE  Goal
  <2>1. Others(t) /\ ~Creates(t)'
    <3>1. Others(t) /\ Ends(t, "ok")
      BY <1>5, AnswerEffect DEF AimCamera
    <3> QED
      BY <3>1 DEF Ends, Creates, Writing
  <2> QED
    BY <2>1 DEF Others, CreatesOnce, Creates
<1>6. ASSUME NEW t \in Thread, OpenTemp(t)
      PROVE  Goal
  <2>1. Others(t) /\ (Creates(t)' => Creates(t) /\ thread'[t].id = thread[t].id)
    <3>1. Others(t) /\ Continues(t, "write", thread[t].draft, "temp")
      BY <1>6, OpenEffect
    <3>2. thread[t].pc \in Writing
      BY <1>6 DEF OpenTemp, At, Writing
    <3> QED
      BY <3>1, <3>2 DEF Continues, Creates
  <2> QED
    BY <2>1 DEF Others, CreatesOnce, Creates
<1>7. ASSUME NEW t \in Thread, WriteText(t)
      PROVE  Goal
  <2>1. Others(t) /\ (Creates(t)' => Creates(t) /\ thread'[t].id = thread[t].id)
    <3>1. Others(t) /\ Continues(t, "rename", thread[t].draft, "none")
      BY <1>7, WriteEffect
    <3>2. thread[t].pc \in Writing
      BY <1>7 DEF WriteText, At, Writing
    <3> QED
      BY <3>1, <3>2 DEF Continues, Creates
  <2> QED
    BY <2>1 DEF Others, CreatesOnce, Creates
<1>8. ASSUME NEW t \in Thread, Rename(t)
      PROVE  Goal
  <2>1. PICK a \in {"temp gone", "ok"} : Ends(t, a)
    BY <1>8, RenameEffect
  <2>2. ASSUME NEW v \in Thread, Creates(v)' PROVE Creates(v) /\ thread'[v].id = thread[v].id
    <3>1. v # t
      BY <2>1, <2>2 DEF Ends, Begins, Creates, Writing
    <3>2. Undisturbed(v)
      BY <1>8, <3>1, RenameEffect
    <3> QED
      BY <2>2, <3>2 DEF Undisturbed, Creates
  <2> QED
    BY <2>2 DEF CreatesOnce
<1>9. ASSUME NEW t \in Thread, DiskFails(t)
      PROVE  Goal
  <2>1. Others(t) /\ ~Creates(t)'
    <3>1. Others(t) /\ Ends(t, "disk")
      BY <1>9, AnswerEffect DEF DiskFails
    <3> QED
      BY <3>1 DEF Ends, Creates, Writing
  <2> QED
    BY <2>1 DEF Others, CreatesOnce, Creates
<1>10. ASSUME NEW t \in Thread, NEW i \in Id, Delete(t, i)
      PROVE  Goal
  <2>1. PICK a \in {"ok", "not found"} : Begins(t, "delete", "idle", IdleThread.id, NoFile, {}, a)
    BY <1>10, DeleteEffect
  <2>2. ASSUME NEW v \in Thread, Creates(v)' PROVE Creates(v) /\ thread'[v].id = thread[v].id
    <3>1. v # t
      BY <2>1, <2>2 DEF Ends, Begins, Creates, Writing
    <3>2. Undisturbed(v)
      BY <1>10, <3>1, DeleteEffect
    <3> QED
      BY <2>2, <3>2 DEF Undisturbed, Creates
  <2> QED
    BY <2>2 DEF CreatesOnce
<1>11. ASSUME NEW t \in Thread, NEW kind \in SUBSET Id, List(t, kind)
      PROVE  Goal
  <2>1. Others(t) /\ ~Creates(t)'
    <3>1. PICK names \in SUBSET Id :
           /\ Others(t) /\ Begins(t, "list", "list", IdleThread.id, NoFile, names, "none")
           /\ \A j \in names : file[j] # NoFile
      BY <1>11, ListEffect
    <3> QED
      BY <3>1 DEF Begins, Creates, Writing
  <2> QED
    BY <2>1 DEF Others, CreatesOnce, Creates
<1>12. ASSUME NEW t \in Thread, ListNext(t)
      PROVE  Goal
  <2>1. Others(t) /\ ~Creates(t)'
    <3>1. /\ Others(t) /\ Lists(t)
        /\ NextName(t)
      BY <1>12, ListNextEffect
    <3> QED
      BY <3>1, <1>12 DEF Lists, Creates, Writing, ListNext, At
  <2> QED
    BY <2>1 DEF Others, CreatesOnce, Creates
<1>13. ASSUME NEW t \in Thread, ListEnds(t)
      PROVE  Goal
  <2>1. Others(t) /\ ~Creates(t)'
    <3>1. Others(t) /\ Ends(t, "ok")
      BY <1>13, AnswerEffect DEF ListEnds
    <3> QED
      BY <3>1 DEF Ends, Creates, Writing
  <2> QED
    BY <2>1 DEF Others, CreatesOnce, Creates
<1>14. ASSUME SetView
      PROVE  Goal
  BY <1>14 DEF SetView, CreatesOnce, Creates
<1>15. ASSUME Crash
      PROVE  Goal
  <2>1. \A t \in Thread : thread'[t] = IdleThread
    BY <1>15 DEF Crash
  <2> QED
    BY <2>1, IdleIsRequest DEF CreatesOnce, Creates, Writing
<1>16. ASSUME UNCHANGED vars PROVE Goal
  BY <1>16 DEF vars, CreatesOnce, Creates
<1>17. ASSUME NEW t \in Thread, DeleteFails(t)
      PROVE  Goal
  <2>1. Others(t) /\ Begins(t, "delete", "idle", IdleThread.id, NoFile, {}, "disk")
    BY <1>17, DeleteFailsEffect
  <2>2. ~Creates(t)'
    BY <2>1 DEF Begins, Creates, Writing
  <2> QED
    BY <2>1, <2>2 DEF Others, CreatesOnce, Creates
<1> HIDE DEF Goal
<1>18. Goal
  BY <1>1, <1>2, <1>3, <1>4, <1>5, <1>6, <1>7, <1>8, <1>9, <1>10, <1>11, <1>12, <1>13,
     <1>14, <1>15, <1>16, <1>17, Acts
<1> QED
  BY <1>18 DEF Goal

\* One thread's part of GoneIsKnown.
Known(t) ==
    /\ thread[t].handle = "file" => file[thread[t].id] # NoFile
    /\ thread[t].pc \in Writing \cup {"read"} /\ thread[t].op # "create"
         => file[thread[t].id] # NoFile \/ thread[t].gone

\* A handle on a record has a file, and who goes on without a file has seen it go.
LEMMA KnownStep == TypeOK /\ ThreadShape /\ GoneIsKnown /\ [Next]_vars => GoneIsKnown'
<1> SUFFICES ASSUME TypeOK, ThreadShape, GoneIsKnown, [Next]_vars
             PROVE  GoneIsKnown'
  OBVIOUS
<1> DEFINE Goal == \A v \in Thread : Known(v)'
<1>g. \A v \in Thread : Known(v)
  BY DEF GoneIsKnown, Known
<1>i. \A v \in Thread : thread[v].id \in Id
  BY DEF TypeOK, Request
<1>1. ASSUME NEW t \in Thread, NEW i \in Id, NEW b \in Body, Create(t, i, b)
      PROVE  Goal
  <2>1. PICK r \in Record : Others(t) /\ Begins(t, "create", "open", i, r, {}, "none")
    BY <1>1, CreateEffect
  <2>3. file' = file
    BY <1>1 DEF Create
  <2>4. Known(t)'
    BY <2>1, <2>3, <1>g DEF Begins, Known, Writing
  <2> QED
    BY <1>g, <2>1, <2>3, <2>4 DEF Others, Known
<1>2. ASSUME NEW t \in Thread, NEW i \in Id, SavePosition(t, i)
      PROVE  Goal
  <2>1. PICK r \in Record : Others(t) /\ Begins(t, "create", "open", i, r, {}, "none")
    BY <1>2, SaveEffect
  <2>3. file' = file
    BY <1>2 DEF SavePosition
  <2>4. Known(t)'
    BY <2>1, <2>3, <1>g DEF Begins, Known, Writing
  <2> QED
    BY <1>g, <2>1, <2>3, <2>4 DEF Others, Known
<1>3. ASSUME NEW t \in Thread, NEW i \in Id, NEW op \in {"get", "replace", "apply"},
            op = "replace" => i \in Profile, FindRecord(t, op, i)
      PROVE  Goal
  <2>1. Others(t) /\ file' = file
    BY <1>3, FindEffect DEF FindRecord
  <2>2. Known(t)'
    <3>1. CASE file[i] # NoFile /\ Begins(t, op, "read", i, NoFile, {}, "none")
      BY <2>1, <3>1 DEF Begins, Known
    <3>2. CASE Begins(t, op, "idle", i, NoFile, {}, "not found")
      BY <3>2 DEF Begins, Known, Writing
    <3> QED
      BY <1>3, <3>1, <3>2, FindEffect
  <2> QED
    BY <1>g, <2>1, <2>2 DEF Others, Known
<1>4. ASSUME NEW t \in Thread, ReadRecord(t)
      PROVE  Goal
  <2>1. Others(t) /\ file' = file /\ thread[t].pc = "read" /\ thread[t].handle = "none"
    BY <1>4, ReadEffect DEF ReadRecord, At, TypeOK
  <2>2. /\ thread'[t].id = thread[t].id /\ thread'[t].gone = thread[t].gone
        /\ thread'[t].op = thread[t].op /\ thread'[t].handle = "none"
    BY <1>4, <2>1, ReadEffect DEF Ends, Continues
  <2>3. Known(t)'
    BY <1>g, <2>1, <2>2 DEF Known
  <2> QED
    BY <1>g, <2>1, <2>3 DEF Others, Known
<1>5. ASSUME NEW t \in Thread, AimCamera(t)
      PROVE  Goal
  <2>1. Others(t) /\ Ends(t, "ok")
    BY <1>5, AnswerEffect DEF AimCamera
  <2>3. file' = file
    BY <1>5 DEF AimCamera
  <2>4. Known(t)'
    BY <2>1, <2>3, <1>g DEF Ends, Known, Writing
  <2> QED
    BY <1>g, <2>1, <2>3, <2>4 DEF Others, Known
<1>6. ASSUME NEW t \in Thread, OpenTemp(t)
      PROVE  Goal
  <2>1. Others(t) /\ Continues(t, "write", thread[t].draft, "temp")
    BY <1>6, OpenEffect
  <2>2. thread[t].pc = "open"
    BY <1>6 DEF OpenTemp, At
  <2>3. file' = file
    BY <1>6 DEF OpenTemp
  <2>4. Known(t)'
    BY <2>1, <2>2, <2>3, <1>g DEF Continues, Known, Writing
  <2> QED
    BY <1>g, <2>1, <2>3, <2>4 DEF Others, Known
<1>7. ASSUME NEW t \in Thread, WriteText(t)
      PROVE  Goal
  <2>1. Others(t) /\ Continues(t, "rename", thread[t].draft, "none")
    BY <1>7, WriteEffect
  <2>2. thread[t].pc = "write" /\ IsWhole(thread[t].draft)
    BY <1>7 DEF WriteText, At, ThreadShape, Fits, Writing
  <2>3. \A j \in Id : file[j] # NoFile => file'[j] # NoFile
    <3>1. \A x : x \in Written(file[thread[t].id], thread[t].draft) => x # NoFile
      BY <2>2, Kinds DEF Written
    <3>2. file' = file \/ \E x \in Written(file[thread[t].id], thread[t].draft) :
                              file' = [file EXCEPT ![thread[t].id] = x]
      BY <1>7 DEF WriteText
    <3> QED
      BY <3>1, <3>2 DEF TypeOK
  <2>4. Known(t)'
    BY <1>g, <1>i, <2>1, <2>2, <2>3 DEF Continues, Known, Writing
  <2> QED
    BY <1>g, <1>i, <2>1, <2>3, <2>4 DEF Others, Known
<1>8. ASSUME NEW t \in Thread, Rename(t)
      PROVE  Goal
  <2>1. PICK a \in {"temp gone", "ok"} : Ends(t, a)
               /\ (a = "ok" <=> temp[thread[t].id] # NoFile)
    BY <1>8, RenameEffect
  <2>2. Known(t)'
    BY <2>1 DEF Ends, Known, Writing
  <2>3. CASE temp[thread[t].id] = NoFile
    <3>1. Others(t) /\ file' = file
      BY <1>8, <2>3, RenameEffect DEF Rename
    <3> QED
      BY <1>g, <2>2, <3>1 DEF Others, Known
  <2>4. CASE temp[thread[t].id] # NoFile
    <3>1. file' = [file EXCEPT ![thread[t].id] = temp[thread[t].id]]
      BY <1>8, <2>4 DEF Rename
    <3>2. file'[thread[t].id] # NoFile /\ \A j \in Id : file[j] # NoFile => file'[j] # NoFile
      BY <1>i, <2>4, <3>1 DEF TypeOK
    <3>3. ASSUME NEW v \in Thread \ {t} PROVE Known(v)'
      <4>1. Undisturbed(v) /\ thread'[v].gone = thread[v].gone
        BY <1>8, RenameEffect
      <4>2. thread'[v].handle = IF thread[v].id = thread[t].id
                               THEN HandleAfterRename(thread[v].handle) ELSE thread[v].handle
        BY <1>8, <2>4, RenameEffect
      <4>3. thread'[v].handle = "file" => file'[thread[v].id] # NoFile
        BY <1>g, <1>i, <3>2, <4>2 DEF Known
      <4> QED
        BY <1>g, <1>i, <3>2, <4>1, <4>3 DEF Undisturbed, Known
    <3> QED
      BY <2>2, <3>3
  <2> QED
    BY <2>3, <2>4
<1>9. ASSUME NEW t \in Thread, DiskFails(t)
      PROVE  Goal
  <2>1. Others(t) /\ Ends(t, "disk")
    BY <1>9, AnswerEffect DEF DiskFails
  <2>3. file' = file
    BY <1>9 DEF DiskFails
  <2>4. Known(t)'
    BY <2>1, <2>3, <1>g DEF Ends, Known, Writing
  <2> QED
    BY <1>g, <2>1, <2>3, <2>4 DEF Others, Known
<1>10. ASSUME NEW t \in Thread, NEW i \in Id, Delete(t, i)
      PROVE  Goal
  <2>1. PICK a \in {"ok", "not found"} : Begins(t, "delete", "idle", IdleThread.id, NoFile, {}, a)
    BY <1>10, DeleteEffect
  <2>2. Known(t)'
    BY <2>1 DEF Begins, Known, Writing
  <2>3. file' = [file EXCEPT ![i] = NoFile]
    BY <1>10 DEF Delete
  <2>4. CASE file[i] = NoFile
    <3>1. Others(t) /\ file' = file
      BY <1>10, <2>3, <2>4, DeleteEffect DEF TypeOK
    <3> QED
      BY <1>g, <2>2, <3>1 DEF Others, Known
  <2>5. CASE file[i] # NoFile
    <3>0. \A v \in Thread \ {t} :
             /\ thread'[v].stable = thread[v].stable \ {i}
             /\ thread[v].id = i => thread'[v].gone = TRUE
             /\ thread[v].id # i => thread'[v].gone = thread[v].gone
             /\ thread'[v].handle = IF thread[v].id = i /\ thread[v].handle = "file"
                                    THEN "unlinked" ELSE thread[v].handle
      BY <1>10, <2>5, DeleteEffect
    <3>1. ASSUME NEW v \in Thread \ {t} PROVE Known(v)'
      <4>1. /\ thread[v].id = i => thread'[v].gone = TRUE
            /\ thread[v].id # i => thread'[v].gone = thread[v].gone
            /\ thread'[v].handle = IF thread[v].id = i /\ thread[v].handle = "file"
                                   THEN "unlinked" ELSE thread[v].handle
        BY <3>0
      <4>5. Undisturbed(v)
        BY <1>10, DeleteEffect
      <4>2. \A j \in Id : j # i => file'[j] = file[j]
        BY <2>3 DEF TypeOK
      <4>3. CASE thread[v].id = i
        BY <4>1, <4>3, <4>5 DEF Undisturbed, Known
      <4>4. CASE thread[v].id # i
        BY <1>g, <1>i, <4>1, <4>2, <4>4, <4>5, ZenonT(40) DEF Undisturbed, Known
      <4> QED
        BY <4>3, <4>4
    <3> QED
      BY <2>2, <3>1
  <2> QED
    BY <2>4, <2>5
<1>11. ASSUME NEW t \in Thread, NEW kind \in SUBSET Id, List(t, kind)
      PROVE  Goal
  <2>1. PICK names \in SUBSET Id :
           /\ Others(t) /\ Begins(t, "list", "list", IdleThread.id, NoFile, names, "none")
           /\ \A j \in names : file[j] # NoFile
    BY <1>11, ListEffect
  <2>3. file' = file
    BY <1>11 DEF List
  <2>4. Known(t)'
    BY <2>1, <2>3, <1>g DEF Begins, Known, Writing
  <2> QED
    BY <1>g, <2>1, <2>3, <2>4 DEF Others, Known
<1>12. ASSUME NEW t \in Thread, ListNext(t)
      PROVE  Goal
  <2>1. /\ Others(t) /\ Lists(t)
        /\ NextName(t)
    BY <1>12, ListNextEffect
  <2>2. thread[t].pc = "list" /\ thread[t].handle = "none"
    BY <1>12 DEF ListNext, At, TypeOK
  <2>3. file' = file
    BY <1>12 DEF ListNext
  <2>4. Known(t)'
    BY <2>1, <2>2, <2>3, <1>g DEF Lists, Known, Writing
  <2> QED
    BY <1>g, <2>1, <2>3, <2>4 DEF Others, Known
<1>13. ASSUME NEW t \in Thread, ListEnds(t)
      PROVE  Goal
  <2>1. Others(t) /\ Ends(t, "ok")
    BY <1>13, AnswerEffect DEF ListEnds
  <2>3. file' = file
    BY <1>13 DEF ListEnds
  <2>4. Known(t)'
    BY <2>1, <2>3, <1>g DEF Ends, Known, Writing
  <2> QED
    BY <1>g, <2>1, <2>3, <2>4 DEF Others, Known
<1>14. ASSUME SetView
      PROVE  Goal
  BY <1>14, <1>g DEF SetView, Known
<1>15. ASSUME Crash
      PROVE  Goal
  <2>1. \A t \in Thread : thread'[t] = IdleThread
    BY <1>15 DEF Crash
  <2> QED
    BY <2>1, IdleIsRequest DEF Known, Writing
<1>16. ASSUME UNCHANGED vars PROVE Goal
  BY <1>16, <1>g DEF vars, Known
<1>17. ASSUME NEW t \in Thread, DeleteFails(t)
      PROVE  Goal
  <2>1. /\ Others(t) /\ Begins(t, "delete", "idle", IdleThread.id, NoFile, {}, "disk")
        /\ file' = file
    BY <1>17, DeleteFailsEffect
  <2>2. Known(t)'
    BY <2>1, <1>g DEF Begins, Known, Writing
  <2> QED
    BY <1>g, <2>1, <2>2 DEF Others, Known
<1> HIDE DEF Goal
<1>18. Goal
  BY <1>1, <1>2, <1>3, <1>4, <1>5, <1>6, <1>7, <1>8, <1>9, <1>10, <1>11, <1>12, <1>13,
     <1>14, <1>15, <1>16, <1>17, Acts
<1> QED
  BY <1>18 DEF Goal, GoneIsKnown, Known

\* A thread between the opening of its temporary file and the rename.
Writer(v) == thread[v].pc \in {"write", "rename"}

\* Who stays a writer keeps its file; nobody becomes one.
WritersKept ==
    \A v \in Thread : Writer(v)' =>
        /\ Writer(v)
        /\ thread'[v].id = thread[v].id /\ thread'[v].pc = thread[v].pc
        /\ thread'[v].draft = thread[v].draft
        /\ thread[v].handle = "temp" => thread'[v].handle = "temp"

\* Without a new writer, whoever wrote a temporary file alone still does.
LEMMA SoleKept ==
    ASSUME SoleWriter, WritersKept, NEW i \in Id \ shared, temp'[i] = temp[i]
    PROVE  /\ \A t, v \in Writers(i)' : t = v
           /\ \A t \in Writers(i)' :
                IF At(t, "write")' THEN thread'[t].handle = "temp" /\ temp'[i] = Empty
                                     ELSE temp'[i] = thread'[t].draft
<1>1. \A t \in Writers(i)' : t \in Writers(i)
  BY DEF Writers, WritersKept, Writer
<1>2. \A t, v \in Writers(i)' : t = v
  BY <1>1 DEF SoleWriter
<1>3. ASSUME NEW t \in Writers(i)'
      PROVE  IF At(t, "write")' THEN thread'[t].handle = "temp" /\ temp'[i] = Empty
             ELSE temp'[i] = thread'[t].draft
  <2>1. t \in Thread /\ t \in Writers(i) /\ Writer(t)'
    BY <1>1, <1>3 DEF Writers, Writer
  <2>2. IF At(t, "write") THEN thread[t].handle = "temp" /\ temp[i] = Empty
        ELSE temp[i] = thread[t].draft
    BY <2>1 DEF SoleWriter
  <2> QED
    BY <2>1, <2>2 DEF WritersKept, At
<1> QED
  BY <1>2, <1>3

\* One record's part of SoleWriter.
Sole(i) ==
    /\ \A t, v \in Writers(i) : t = v
    /\ \A t \in Writers(i) :
         IF At(t, "write") THEN thread[t].handle = "temp" /\ temp[i] = Empty
                             ELSE temp[i] = thread[t].draft

\* A temporary file of one writer is what this writer made it, so what a rename publishes is
\* whole.
LEMMA SoleStep ==
    TypeOK /\ ThreadShape /\ SoleWriter /\ RecordsAreWhole /\ [Next]_vars
      => SoleWriter' /\ RecordsAreWhole'
<1> SUFFICES ASSUME TypeOK, ThreadShape, SoleWriter, RecordsAreWhole, [Next]_vars
             PROVE  SoleWriter' /\ RecordsAreWhole'
  OBVIOUS
<1> DEFINE Goal == (\A j \in Id \ shared' : Sole(j)') /\ RecordsAreWhole'
<1>s. \A j \in Id \ shared : Sole(j)
  BY DEF SoleWriter, Sole
<1>i. \A v \in Thread : thread[v].id \in Id
  BY DEF TypeOK, Request
<1>w. ASSUME WritersKept, temp' = temp, shared' = shared PROVE \A j \in Id \ shared' : Sole(j)'
  BY <1>w, SoleKept DEF Sole
<1>1. ASSUME NEW t \in Thread, NEW i \in Id, NEW b \in Body, Create(t, i, b)
      PROVE  Goal
  <2>w. WritersKept
    <3>1. Others(t) /\ ~Writer(t)'
      <4>1. PICK r \in Record : Others(t) /\ Begins(t, "create", "open", i, r, {}, "none")
        BY <1>1, CreateEffect
      <4> QED
        BY <4>1 DEF Begins, Writer
    <3> QED
      BY <3>1 DEF Others, WritersKept, Writer
  <2>1. temp' = temp /\ shared' = shared /\ file' = file
    BY <1>1 DEF Create
  <2> QED
    BY <1>w, <2>w, <2>1 DEF RecordsAreWhole
<1>2. ASSUME NEW t \in Thread, NEW i \in Id, SavePosition(t, i)
      PROVE  Goal
  <2>w. WritersKept
    <3>1. Others(t) /\ ~Writer(t)'
      <4>1. PICK r \in Record : Others(t) /\ Begins(t, "create", "open", i, r, {}, "none")
        BY <1>2, SaveEffect
      <4> QED
        BY <4>1 DEF Begins, Writer
    <3> QED
      BY <3>1 DEF Others, WritersKept, Writer
  <2>1. temp' = temp /\ shared' = shared /\ file' = file
    BY <1>2 DEF SavePosition
  <2> QED
    BY <1>w, <2>w, <2>1 DEF RecordsAreWhole
<1>3. ASSUME NEW t \in Thread, NEW i \in Id, NEW op \in {"get", "replace", "apply"},
            op = "replace" => i \in Profile, FindRecord(t, op, i)
      PROVE  Goal
  <2>w. WritersKept
    <3>1. Others(t) /\ ~Writer(t)'
      BY <1>3, FindEffect DEF Begins, Writer
    <3> QED
      BY <3>1 DEF Others, WritersKept, Writer
  <2>1. temp' = temp /\ shared' = shared /\ file' = file
    BY <1>3 DEF FindRecord
  <2> QED
    BY <1>w, <2>w, <2>1 DEF RecordsAreWhole
<1>4. ASSUME NEW t \in Thread, ReadRecord(t)
      PROVE  Goal
  <2>w. WritersKept
    <3>1. Others(t) /\ ~Writer(t)'
      BY <1>4, ReadEffect DEF Ends, Continues, Writer
    <3> QED
      BY <3>1 DEF Others, WritersKept, Writer
  <2>1. temp' = temp /\ shared' = shared /\ file' = file
    BY <1>4 DEF ReadRecord
  <2> QED
    BY <1>w, <2>w, <2>1 DEF RecordsAreWhole
<1>5. ASSUME NEW t \in Thread, AimCamera(t)
      PROVE  Goal
  <2>w. WritersKept
    <3>1. Others(t) /\ ~Writer(t)'
      <4>1. Others(t) /\ Ends(t, "ok")
        BY <1>5, AnswerEffect DEF AimCamera
      <4> QED
        BY <4>1 DEF Ends, Writer
    <3> QED
      BY <3>1 DEF Others, WritersKept, Writer
  <2>1. temp' = temp /\ shared' = shared /\ file' = file
    BY <1>5 DEF AimCamera
  <2> QED
    BY <1>w, <2>w, <2>1 DEF RecordsAreWhole
<1>6. ASSUME NEW t \in Thread, OpenTemp(t)
      PROVE  Goal
  <2> DEFINE i == thread[t].id
  <2>1. Others(t) /\ Continues(t, "write", thread[t].draft, "temp")
    BY <1>6, OpenEffect
  <2>2. /\ file' = file /\ temp' = [temp EXCEPT ![i] = Empty]
        /\ shared' = IF Writers(i) # {} THEN shared \cup {i} ELSE shared
    BY <1>6 DEF OpenTemp
  <2>3. RecordsAreWhole'
    BY <2>2 DEF RecordsAreWhole
  <2>4. ASSUME NEW j \in Id \ shared' PROVE Sole(j)'
    <3>1. CASE j = i
      <4>1. Writers(i) = {}
        BY <2>2, <2>4, <3>1
      <4>2. ASSUME NEW v \in Writers(j)' PROVE v = t
        <5>1. v \in Thread /\ thread'[v].id = i /\ thread'[v].pc \in {"write", "rename"}
          BY <3>1, <4>2 DEF Writers
        <5>2. v # t => thread[v].id = i /\ thread[v].pc \in {"write", "rename"}
          BY <2>1, <5>1 DEF Others
        <5> QED
          BY <4>1, <5>1, <5>2 DEF Writers
      <4>3. thread'[t].pc = "write" /\ thread'[t].handle = "temp" /\ temp'[i] = Empty
        BY <1>i, <2>1, <2>2 DEF Continues, TypeOK
      <4> QED
        <5>1. t \in Thread /\ At(t, "write")' /\ temp'[j] = Empty
          BY <3>1, <4>3 DEF At
        <5>2. \A v \in Writers(j)' : At(v, "write")' /\ thread'[v].handle = "temp"
          BY <4>2, <4>3, <5>1 DEF At
        <5> QED
          BY <4>2, <5>1, <5>2 DEF Sole
    <3>2. CASE j # i
      <4>1. temp'[j] = temp[j] /\ j \notin shared
        BY <2>2, <2>4, <3>2 DEF TypeOK
      <4>2. ASSUME NEW v \in Writers(j)' PROVE v \in Writers(j) /\ thread'[v] = thread[v]
        <5>1. v \in Thread /\ thread'[v].id = j /\ thread'[v].pc \in {"write", "rename"}
          BY <4>2 DEF Writers
        <5>2. v # t
          BY <2>1, <3>2, <5>1 DEF Continues
        <5>3. thread'[v] = thread[v]
          BY <2>1, <5>1, <5>2 DEF Others
        <5> QED
          BY <5>1, <5>3 DEF Writers
      <4> QED
        BY <1>s, <2>4, <4>1, <4>2 DEF Sole, At
    <3> QED
      BY <3>1, <3>2
  <2> QED
    BY <2>3, <2>4
<1>7. ASSUME NEW t \in Thread, WriteText(t)
      PROVE  Goal
  <2> DEFINE i == thread[t].id
  <2>1. Others(t) /\ Continues(t, "rename", thread[t].draft, "none")
    BY <1>7, WriteEffect
  <2>2. thread[t].pc = "write" /\ IsWhole(thread[t].draft) /\ shared' = shared
          /\ t \in Writers(i)
    BY <1>7 DEF WriteText, At, ThreadShape, Fits, Writing, Writers
  <2>3. \A j \in Id : j # i => file'[j] = file[j] /\ temp'[j] = temp[j]
    BY <1>7 DEF WriteText, TypeOK
  <2>4. ASSUME i \notin shared
        PROVE  file' = file /\ temp'[i] = thread[t].draft /\ \A v \in Writers(i) : v = t
    <3>1. thread[t].handle = "temp" /\ temp[i] = Empty /\ \A v \in Writers(i) : v = t
      BY <1>i, <1>s, <2>2, <2>4 DEF Sole, At
    <3>2. file' = file
            /\ \E x \in Written(temp[i], thread[t].draft) : temp' = [temp EXCEPT ![i] = x]
      BY <1>7, <3>1 DEF WriteText
    <3>3. Written(temp[i], thread[t].draft) = {thread[t].draft}
      BY <3>1 DEF Written
    <3> QED
      BY <1>i, <3>1, <3>2, <3>3 DEF TypeOK
  <2>5. RecordsAreWhole'
    BY <1>i, <2>2, <2>3, <2>4 DEF RecordsAreWhole
  <2>6. ASSUME NEW j \in Id \ shared PROVE Sole(j)'
    <3>1. CASE j = i
      <4>1. ASSUME NEW v \in Writers(j)' PROVE v = t
        <5>1. v \in Thread /\ thread'[v].id = i /\ thread'[v].pc \in {"write", "rename"}
          BY <3>1, <4>1 DEF Writers
        <5>2. v # t => v \in Writers(i)
          BY <2>1, <5>1 DEF Others, Writers
        <5> QED
          BY <2>4, <2>6, <3>1, <5>2
      <4> QED
        <5>1. temp'[j] = thread'[t].draft /\ thread'[t].pc = "rename"
          BY <2>1, <2>4, <2>6, <3>1 DEF Continues
        <5>2. \A v \in Writers(j)' : ~At(v, "write")' /\ temp'[j] = thread'[v].draft
          BY <4>1, <5>1 DEF At
        <5> QED
          BY <4>1, <5>2 DEF Sole
    <3>2. CASE j # i
      <4>1. temp'[j] = temp[j]
        BY <2>3, <3>2
      <4>2. ASSUME NEW v \in Writers(j)' PROVE v \in Writers(j) /\ thread'[v] = thread[v]
        <5>1. v \in Thread /\ thread'[v].id = j /\ thread'[v].pc \in {"write", "rename"}
          BY <4>2 DEF Writers
        <5>2. v # t
          BY <2>1, <3>2, <5>1 DEF Continues
        <5>3. thread'[v] = thread[v]
          BY <2>1, <5>1, <5>2 DEF Others
        <5> QED
          BY <5>1, <5>3 DEF Writers
      <4> QED
        BY <1>s, <2>6, <4>1, <4>2 DEF Sole, At
    <3> QED
      BY <3>1, <3>2
  <2> QED
    BY <2>2, <2>5, <2>6
<1>8. ASSUME NEW t \in Thread, Rename(t)
      PROVE  Goal
  <2> DEFINE i == thread[t].id
  <2>1. PICK a \in {"temp gone", "ok"} : Ends(t, a)
    BY <1>8, RenameEffect
  <2>2. thread[t].pc = "rename" /\ IsWhole(thread[t].draft) /\ shared' = shared
          /\ t \in Writers(i)
    BY <1>8 DEF Rename, At, ThreadShape, Fits, Writing, Writers
  <2>3. i \notin shared => temp[i] = thread[t].draft /\ \A v \in Writers(i) : v = t
    BY <1>i, <1>s, <2>2 DEF Sole, At
  <2>4. \A j \in Id : j # i => file'[j] = file[j] /\ temp'[j] = temp[j]
    BY <1>8 DEF Rename, TypeOK
  <2>5. file'[i] = temp[i] \/ (temp[i] = NoFile /\ file' = file)
    BY <1>8, <1>i DEF Rename, TypeOK
  <2>6. RecordsAreWhole'
    BY <1>i, <2>2, <2>3, <2>4, <2>5 DEF RecordsAreWhole
  <2>7. \A v \in Thread \ {t} : Undisturbed(v)
    BY <1>8, RenameEffect
  <2>8. ASSUME NEW j \in Id \ shared PROVE Sole(j)'
    <3>1. ASSUME NEW v \in Writers(j)' PROVE v # t /\ v \in Writers(j) /\ v \in Thread
      <4>1. v \in Thread /\ thread'[v].id = j /\ thread'[v].pc \in {"write", "rename"}
        BY <3>1 DEF Writers
      <4>2. v # t
        BY <2>1, <4>1 DEF Ends
      <4>3. Undisturbed(v)
        BY <2>7, <4>1, <4>2
      <4> QED
        BY <4>1, <4>2, <4>3 DEF Undisturbed, Writers
    <3>2. CASE j = i
      <4>1. Writers(j)' = {}
        BY <2>3, <2>8, <3>1, <3>2
      <4> QED
        BY <4>1 DEF Sole
    <3>3. CASE j # i
      <4>1. temp'[j] = temp[j]
        BY <2>4, <3>3
      <4>2. ASSUME NEW v \in Writers(j)'
            PROVE  v \in Writers(j) /\ Undisturbed(v) /\ thread'[v].handle = thread[v].handle
        <5>1. v \in Writers(j) /\ v # t /\ v \in Thread /\ thread[v].id # i
          BY <3>1, <3>3, <4>2 DEF Writers
        <5>2. CASE temp[i] = NoFile
          BY <1>8, <2>7, <5>1, <5>2, RenameEffect DEF Others
        <5>3. CASE temp[i] # NoFile
          <6>1. \A x \in Thread \ {t} :
                  thread'[x].handle = IF thread[x].id = thread[t].id
                                      THEN HandleAfterRename(thread[x].handle)
                                      ELSE thread[x].handle
            BY <1>8, <5>3, RenameEffect
          <6> QED
            BY <2>7, <5>1, <6>1
        <5> QED
          BY <5>2, <5>3
      <4> QED
        <5>1. Sole(j)
          BY <1>s, <2>8
        <5>2. \A v, w \in Writers(j)' : v = w
          BY <4>2, <5>1 DEF Sole
        <5>3. ASSUME NEW v \in Writers(j)'
              PROVE  IF At(v, "write")' THEN thread'[v].handle = "temp" /\ temp'[j] = Empty
                     ELSE temp'[j] = thread'[v].draft
          <6>1. /\ thread'[v].pc = thread[v].pc /\ thread'[v].draft = thread[v].draft
                /\ thread'[v].handle = thread[v].handle
            BY <4>2, <5>3 DEF Undisturbed
          <6>2. IF At(v, "write") THEN thread[v].handle = "temp" /\ temp[j] = Empty
                ELSE temp[j] = thread[v].draft
            BY <4>2, <5>1, <5>3 DEF Sole
          <6> QED
            BY <4>1, <6>1, <6>2 DEF At
        <5> QED
          BY <5>2, <5>3 DEF Sole
    <3> QED
      BY <3>2, <3>3
  <2> QED
    BY <2>2, <2>6, <2>8
<1>9. ASSUME NEW t \in Thread, DiskFails(t)
      PROVE  Goal
  <2>w. WritersKept
    <3>1. Others(t) /\ ~Writer(t)'
      <4>1. Others(t) /\ Ends(t, "disk")
        BY <1>9, AnswerEffect DEF DiskFails
      <4> QED
        BY <4>1 DEF Ends, Writer
    <3> QED
      BY <3>1 DEF Others, WritersKept, Writer
  <2>1. temp' = temp /\ shared' = shared /\ file' = file
    BY <1>9 DEF DiskFails
  <2> QED
    BY <1>w, <2>w, <2>1 DEF RecordsAreWhole
<1>10. ASSUME NEW t \in Thread, NEW i \in Id, Delete(t, i)
      PROVE  Goal
  <2>w. WritersKept
    <3>1. PICK a \in {"ok", "not found"} : Begins(t, "delete", "idle", IdleThread.id, NoFile, {}, a)
      BY <1>10, DeleteEffect
    <3>2. ~Writer(t)'
      BY <3>1 DEF Begins, Writer
    <3>3. ASSUME NEW v \in Thread \ {t}
          PROVE  Undisturbed(v) /\ (thread[v].handle = "temp" => thread'[v].handle = "temp")
      <4>1. Undisturbed(v)
        BY <1>10, DeleteEffect
      <4>2. CASE file[i] = NoFile
        BY <1>10, <4>1, <4>2, DeleteEffect DEF Others
      <4>3. CASE file[i] # NoFile
        <5>1. \A x \in Thread \ {t} :
                /\ thread'[x].stable = thread[x].stable \ {i}
                /\ thread[x].id = i => thread'[x].gone = TRUE
                /\ thread[x].id # i => thread'[x].gone = thread[x].gone
                /\ thread'[x].handle = IF thread[x].id = i /\ thread[x].handle = "file"
                                       THEN "unlinked" ELSE thread[x].handle
          BY <1>10, <4>3, DeleteEffect
        <5>2. thread'[v].handle = IF thread[v].id = i /\ thread[v].handle = "file"
                                 THEN "unlinked" ELSE thread[v].handle
          BY <5>1
        <5> QED
          BY <4>1, <5>2
      <4> QED
        BY <4>2, <4>3
    <3> QED
      BY <3>2, <3>3 DEF WritersKept, Writer, Undisturbed
  <2>1. temp' = temp /\ shared' = shared
    BY <1>10 DEF Delete
  <2>2. RecordsAreWhole'
    BY <1>10, Kinds DEF Delete, RecordsAreWhole, TypeOK
  <2> QED
    BY <1>w, <2>w, <2>1, <2>2
<1>11. ASSUME NEW t \in Thread, NEW kind \in SUBSET Id, List(t, kind)
      PROVE  Goal
  <2>w. WritersKept
    <3>1. Others(t) /\ ~Writer(t)'
      <4>1. PICK names \in SUBSET Id :
             /\ Others(t) /\ Begins(t, "list", "list", IdleThread.id, NoFile, names, "none")
             /\ \A j \in names : file[j] # NoFile
        BY <1>11, ListEffect
      <4> QED
        BY <4>1 DEF Begins, Writer
    <3> QED
      BY <3>1 DEF Others, WritersKept, Writer
  <2>1. temp' = temp /\ shared' = shared /\ file' = file
    BY <1>11 DEF List
  <2> QED
    BY <1>w, <2>w, <2>1 DEF RecordsAreWhole
<1>12. ASSUME NEW t \in Thread, ListNext(t)
      PROVE  Goal
  <2>w. WritersKept
    <3>1. Others(t) /\ ~Writer(t)'
      <4>1. /\ Others(t) /\ Lists(t)
          /\ NextName(t)
        BY <1>12, ListNextEffect
      <4> QED
        BY <4>1, <1>12 DEF ListNext, At, Lists, Writer
    <3> QED
      BY <3>1 DEF Others, WritersKept, Writer
  <2>1. temp' = temp /\ shared' = shared /\ file' = file
    BY <1>12 DEF ListNext
  <2> QED
    BY <1>w, <2>w, <2>1 DEF RecordsAreWhole
<1>13. ASSUME NEW t \in Thread, ListEnds(t)
      PROVE  Goal
  <2>w. WritersKept
    <3>1. Others(t) /\ ~Writer(t)'
      <4>1. Others(t) /\ Ends(t, "ok")
        BY <1>13, AnswerEffect DEF ListEnds
      <4> QED
        BY <4>1 DEF Ends, Writer
    <3> QED
      BY <3>1 DEF Others, WritersKept, Writer
  <2>1. temp' = temp /\ shared' = shared /\ file' = file
    BY <1>13 DEF ListEnds
  <2> QED
    BY <1>w, <2>w, <2>1 DEF RecordsAreWhole
<1>14. ASSUME SetView
      PROVE  Goal
  <2>w. WritersKept
    BY <1>14 DEF SetView, WritersKept, Writer
  <2>1. temp' = temp /\ shared' = shared /\ file' = file
    BY <1>14 DEF SetView
  <2> QED
    BY <1>w, <2>w, <2>1 DEF RecordsAreWhole
<1>15. ASSUME Crash
      PROVE  Goal
  <2>w. WritersKept
    <3>1. \A t \in Thread : thread'[t] = IdleThread
      BY <1>15 DEF Crash
    <3> QED
      BY <3>1, IdleIsRequest DEF WritersKept, Writer
  <2>1. temp' = temp /\ shared' = shared /\ file' = file
    BY <1>15 DEF Crash
  <2> QED
    BY <1>w, <2>w, <2>1 DEF RecordsAreWhole
<1>16. ASSUME UNCHANGED vars PROVE Goal
  <2>w. WritersKept
    BY <1>16 DEF vars, WritersKept, Writer
  <2>1. temp' = temp /\ shared' = shared /\ file' = file
    BY <1>16 DEF vars
  <2> QED
    BY <1>w, <2>w, <2>1 DEF RecordsAreWhole
<1>17. ASSUME NEW t \in Thread, DeleteFails(t)
      PROVE  Goal
  <2>1. /\ Others(t) /\ Begins(t, "delete", "idle", IdleThread.id, NoFile, {}, "disk")
        /\ temp' = temp /\ shared' = shared /\ file' = file
    BY <1>17, DeleteFailsEffect
  <2>2. Others(t) /\ ~Writer(t)'
    BY <2>1 DEF Begins, Writer
  <2>3. WritersKept
    BY <2>2 DEF Others, WritersKept, Writer
  <2> QED
    BY <1>w, <2>1, <2>3 DEF RecordsAreWhole
<1> HIDE DEF Goal
<1>18. Goal
  BY <1>1, <1>2, <1>3, <1>4, <1>5, <1>6, <1>7, <1>8, <1>9, <1>10, <1>11, <1>12, <1>13,
     <1>14, <1>15, <1>16, <1>17, Acts
<1> QED
  BY <1>18 DEF Goal, SoleWriter, Sole

\* One thread's part of ListCovers ...
Covers(v) ==
    /\ \A i \in thread[v].stable : file[i] # NoFile
    /\ thread[v].op = "list"
         => thread[v].stable \ shared \subseteq thread[v].left \cup thread[v].seen
    /\ thread[v].op = "list" /\ At(v, "idle") => thread[v].left = {}

\* ... and of ErrorsHaveACause.
Excused(v) ==
    /\ thread[v].answer = "vanished" => thread[v].gone
    /\ thread[v].answer \in {"unreadable", "temp gone"} => thread[v].id \in shared
    /\ thread[v].answer = "disk" => Faults

\* What a thread may see change while another one moves.
Onlooks(v) ==
    /\ Undisturbed(v) /\ thread'[v].stable \subseteq thread[v].stable
    /\ thread[v].gone => thread'[v].gone

\* A record that is there stays, a shared file stays shared.
Grows == /\ \A j \in Id : file[j] # NoFile => file'[j] # NoFile
         /\ shared \subseteq shared'

\* A list keeps what it covers while others move ...
LEMMA OnlookerCovers ==
    ASSUME NEW v \in Thread, Covers(v), Onlooks(v), shared \subseteq shared',
           \A j \in thread'[v].stable : file'[j] # NoFile
    PROVE  Covers(v)'
<1>1. thread'[v].stable \ shared' \subseteq thread[v].stable \ shared
  BY DEF Onlooks
<1>2. /\ thread'[v].op = thread[v].op /\ thread'[v].pc = thread[v].pc
      /\ thread'[v].left = thread[v].left /\ thread'[v].seen = thread[v].seen
  BY DEF Onlooks, Undisturbed
<1>3. thread[v].op = "list"
        => thread[v].stable \ shared \subseteq thread[v].left \cup thread[v].seen
  BY DEF Covers
<1>4. thread'[v].op = "list"
        => thread'[v].stable \ shared' \subseteq thread'[v].left \cup thread'[v].seen
  BY <1>1, <1>2, <1>3
<1>5. thread'[v].op = "list" /\ thread'[v].pc = "idle" => thread'[v].left = {}
  BY <1>2 DEF Covers, At
<1> QED
  BY <1>4, <1>5 DEF Covers, At

\* ... and an answer keeps its cause.
LEMMA OnlookerExcused ==
    ASSUME NEW v \in Thread, Excused(v), Onlooks(v), shared \subseteq shared'
    PROVE  Excused(v)'
BY DEF Excused, Onlooks, Undisturbed

\* A thread that nobody touches looks on,
LEMMA OthersOnlook ==
    ASSUME NEW t \in Thread, Others(t)
    PROVE  \A v \in Thread \ {t} : Onlooks(v)
BY DEF Others, Onlooks, Undisturbed

\* so do the threads a rename takes the handles of,
LEMMA RenameOnlook ==
    ASSUME TypeOK, NEW t \in Thread, Rename(t)
    PROVE  \A v \in Thread \ {t} : Onlooks(v)
<1>1. \A v \in Thread \ {t} : /\ Undisturbed(v) /\ thread'[v].gone = thread[v].gone
                              /\ thread'[v].stable = thread[v].stable
  BY RenameEffect
<1> QED
  BY <1>1 DEF Onlooks

\* and those that see a record go.
LEMMA DeleteOnlook ==
    ASSUME TypeOK, NEW t \in Thread, NEW i \in Id, Delete(t, i)
    PROVE  \A v \in Thread \ {t} :
             Onlooks(v)
               /\ (file[i] # NoFile => thread'[v].stable \subseteq thread[v].stable \ {i})
<1>1. \A v \in Thread \ {t} : Undisturbed(v)
  BY DeleteEffect
<1>2. CASE file[i] = NoFile
  BY <1>2, OthersOnlook, DeleteEffect
<1>3. CASE file[i] # NoFile
  <2>1. \A v \in Thread \ {t} :
              /\ thread'[v].stable = thread[v].stable \ {i}
              /\ thread[v].id = i => thread'[v].gone = TRUE
              /\ thread[v].id # i => thread'[v].gone = thread[v].gone
              /\ thread'[v].handle = IF thread[v].id = i /\ thread[v].handle = "file"
                                     THEN "unlinked" ELSE thread[v].handle
    BY <1>3, DeleteEffect
  <2> QED
    BY <1>1, <2>1 DEF Onlooks
<1> QED
  BY <1>2, <1>3

\* Only a deletion takes a record away.
LEMMA GrowsOne ==
    ASSUME TypeOK, ThreadShape, NEW u \in Thread, OpenTemp(u) \/ WriteText(u) \/ Rename(u)
    PROVE  Grows
<1>i. \A v \in Thread : thread[v].id \in Id
  BY DEF TypeOK, Request
<1>1. ASSUME NEW t \in Thread, OpenTemp(t) PROVE Grows
  BY <1>1 DEF OpenTemp, Grows
<1>2. ASSUME NEW t \in Thread, WriteText(t) PROVE Grows
  <2>1. IsWhole(thread[t].draft)
    BY <1>2 DEF WriteText, At, ThreadShape, Fits, Writing
  <2>2. \A x : x \in Written(file[thread[t].id], thread[t].draft) => x # NoFile
    BY <2>1, Kinds DEF Written
  <2>3. file' = file \/ \E x \in Written(file[thread[t].id], thread[t].draft) :
                            file' = [file EXCEPT ![thread[t].id] = x]
    BY <1>2 DEF WriteText
  <2>4. shared' = shared
    BY <1>2 DEF WriteText
  <2> QED
    BY <2>2, <2>3, <2>4 DEF TypeOK, Grows
<1>3. ASSUME NEW t \in Thread, Rename(t) PROVE Grows
  <2>1. shared' = shared
    BY <1>3 DEF Rename
  <2>2. file' = file \/ (temp[thread[t].id] # NoFile
                         /\ file' = [file EXCEPT ![thread[t].id] = temp[thread[t].id]])
    BY <1>3 DEF Rename
  <2> QED
    BY <2>1, <2>2 DEF TypeOK, Grows
<1> QED
  BY <1>1, <1>2, <1>3

\* A list still has before it, or has seen, all that has been there since it began.
LEMMA ListStep ==
    TypeOK /\ ThreadShape /\ RecordsAreWhole /\ ListCovers /\ [Next]_vars => ListCovers'
<1> SUFFICES ASSUME TypeOK, ThreadShape, RecordsAreWhole, ListCovers, [Next]_vars
             PROVE  ListCovers'
  OBVIOUS
<1> DEFINE Goal == \A v \in Thread : Covers(v)'
<1>c. \A v \in Thread : Covers(v)
  BY DEF ListCovers, Covers
<1>g. ASSUME file' = file, shared' = shared PROVE Grows
  BY <1>g DEF Grows
<1>o. ASSUME NEW t \in Thread, \A v \in Thread \ {t} : Onlooks(v), Grows, Covers(t)'
      PROVE  \A v \in Thread : Covers(v)'
  <2>1. ASSUME NEW v \in Thread \ {t} PROVE Covers(v)'
    <3>1. Covers(v) /\ Onlooks(v) /\ thread[v].stable \subseteq Id
      BY <1>c, <1>o DEF TypeOK, Request
    <3>2. \A j \in thread'[v].stable : file'[j] # NoFile
      BY <1>o, <3>1 DEF Grows, Covers, Onlooks
    <3> QED
      BY <1>o, <3>1, <3>2, OnlookerCovers DEF Grows
  <2> QED
    BY <1>o, <2>1
<1>1. ASSUME NEW t \in Thread, NEW i \in Id, NEW b \in Body, Create(t, i, b)
      PROVE  Goal
  <2>1. \A v \in Thread \ {t} : Onlooks(v)
    BY <1>1, OthersOnlook, CreateEffect
  <2>2. PICK r \in Record : Others(t) /\ Begins(t, "create", "open", i, r, {}, "none")
    BY <1>1, CreateEffect
  <2>3. Grows
    BY <1>g, <1>1 DEF Create
  <2>5. Covers(t)'
    BY <2>2 DEF Begins, Covers
  <2> QED
    BY <1>o, <2>1, <2>3, <2>5
<1>2. ASSUME NEW t \in Thread, NEW i \in Id, SavePosition(t, i)
      PROVE  Goal
  <2>1. \A v \in Thread \ {t} : Onlooks(v)
    BY <1>2, OthersOnlook, SaveEffect
  <2>2. PICK r \in Record : Others(t) /\ Begins(t, "create", "open", i, r, {}, "none")
    BY <1>2, SaveEffect
  <2>3. Grows
    BY <1>g, <1>2 DEF SavePosition
  <2>5. Covers(t)'
    BY <2>2 DEF Begins, Covers
  <2> QED
    BY <1>o, <2>1, <2>3, <2>5
<1>3. ASSUME NEW t \in Thread, NEW i \in Id, NEW op \in {"get", "replace", "apply"},
            op = "replace" => i \in Profile, FindRecord(t, op, i)
      PROVE  Goal
  <2>1. \A v \in Thread \ {t} : Onlooks(v)
    BY <1>3, OthersOnlook, FindEffect
  <2>2. thread'[t].op = op /\ thread'[t].stable = {}
          /\ thread'[t].answer \in {"none", "not found"}
    <3>1. CASE Begins(t, op, "read", i, NoFile, {}, "none")
      BY <3>1 DEF Begins
    <3>2. CASE Begins(t, op, "idle", i, NoFile, {}, "not found")
      BY <3>2 DEF Begins
    <3> QED
      BY <1>3, <3>1, <3>2, FindEffect
  <2>3. Grows
    BY <1>g, <1>3 DEF FindRecord
  <2>5. Covers(t)'
    BY <1>3, <2>2 DEF Covers
  <2> QED
    BY <1>o, <2>1, <2>3, <2>5
<1>4. ASSUME NEW t \in Thread, ReadRecord(t)
      PROVE  Goal
  <2>1. \A v \in Thread \ {t} : Onlooks(v)
    BY <1>4, OthersOnlook, ReadEffect
  <2>2. /\ thread'[t].op = thread[t].op /\ thread'[t].left = thread[t].left
        /\ thread'[t].seen = thread[t].seen /\ thread'[t].stable = thread[t].stable
    BY <1>4, ReadEffect DEF Ends, Continues
  <2>3. Grows
    BY <1>g, <1>4 DEF ReadRecord
  <2>4. thread[t].pc = "read"
    BY <1>4 DEF ReadRecord, At
  <2>5. Covers(t)'
    <3>1. Fits(thread[t]) /\ Covers(t) /\ thread[t].stable \subseteq Id
      BY <1>c DEF ThreadShape, TypeOK, Request
    <3>2. thread[t].op # "list"
      BY <2>4, <3>1 DEF Fits
    <3> QED
      BY <2>2, <2>3, <3>1, <3>2 DEF Covers, Grows
  <2> QED
    BY <1>o, <2>1, <2>3, <2>5
<1>5. ASSUME NEW t \in Thread, AimCamera(t)
      PROVE  Goal
  <2>1. \A v \in Thread \ {t} : Onlooks(v)
    BY <1>5, OthersOnlook, AnswerEffect DEF AimCamera
  <2>2. Others(t) /\ Ends(t, "ok")
    BY <1>5, AnswerEffect DEF AimCamera
  <2>3. Grows
    BY <1>g, <1>5 DEF AimCamera
  <2>4. thread[t].pc = "aim"
    BY <1>5 DEF AimCamera, At
  <2>5. Covers(t)'
    <3>1. Fits(thread[t]) /\ Covers(t) /\ thread[t].stable \subseteq Id
      BY <1>c DEF ThreadShape, TypeOK, Request
    <3>2. thread[t].op # "list"
      BY <2>4, <3>1 DEF Fits
    <3> QED
      BY <2>2, <2>3, <3>1, <3>2 DEF Ends, Covers, Grows
  <2> QED
    BY <1>o, <2>1, <2>3, <2>5
<1>6. ASSUME NEW t \in Thread, OpenTemp(t)
      PROVE  Goal
  <2>1. \A v \in Thread \ {t} : Onlooks(v)
    BY <1>6, OthersOnlook, OpenEffect
  <2>2. Others(t) /\ Continues(t, "write", thread[t].draft, "temp")
    BY <1>6, OpenEffect
  <2>3. Grows
    BY <1>6, GrowsOne
  <2>4. thread[t].pc = "open"
    BY <1>6 DEF OpenTemp, At
  <2>5. Covers(t)'
    <3>1. Fits(thread[t]) /\ Covers(t) /\ thread[t].stable \subseteq Id
      BY <1>c DEF ThreadShape, TypeOK, Request
    <3>2. thread[t].op # "list"
      BY <2>4, <3>1 DEF Fits
    <3> QED
      BY <2>2, <2>3, <3>1, <3>2 DEF Continues, Covers, Grows
  <2> QED
    BY <1>o, <2>1, <2>3, <2>5
<1>7. ASSUME NEW t \in Thread, WriteText(t)
      PROVE  Goal
  <2>1. \A v \in Thread \ {t} : Onlooks(v)
    BY <1>7, OthersOnlook, WriteEffect
  <2>2. Others(t) /\ Continues(t, "rename", thread[t].draft, "none")
    BY <1>7, WriteEffect
  <2>3. Grows
    BY <1>7, GrowsOne
  <2>4. thread[t].pc = "write"
    BY <1>7 DEF WriteText, At
  <2>5. Covers(t)'
    <3>1. Fits(thread[t]) /\ Covers(t) /\ thread[t].stable \subseteq Id
      BY <1>c DEF ThreadShape, TypeOK, Request
    <3>2. thread[t].op # "list"
      BY <2>4, <3>1 DEF Fits
    <3> QED
      BY <2>2, <2>3, <3>1, <3>2 DEF Continues, Covers, Grows
  <2> QED
    BY <1>o, <2>1, <2>3, <2>5
<1>8. ASSUME NEW t \in Thread, Rename(t)
      PROVE  Goal
  <2>1. \A v \in Thread \ {t} : Onlooks(v)
    BY <1>8, RenameOnlook
  <2>2. PICK a \in {"temp gone", "ok"} : Ends(t, a)
               /\ (a = "ok" <=> temp[thread[t].id] # NoFile)
    BY <1>8, RenameEffect
  <2>3. Grows
    BY <1>8, GrowsOne
  <2>4. thread[t].pc = "rename"
    BY <1>8 DEF Rename, At
  <2>5. Covers(t)'
    <3>1. Fits(thread[t]) /\ Covers(t) /\ thread[t].stable \subseteq Id
      BY <1>c DEF ThreadShape, TypeOK, Request
    <3>2. thread[t].op # "list"
      BY <2>4, <3>1 DEF Fits
    <3> QED
      BY <2>2, <2>3, <3>1, <3>2 DEF Ends, Covers, Grows
  <2> QED
    BY <1>o, <2>1, <2>3, <2>5
<1>9. ASSUME NEW t \in Thread, DiskFails(t)
      PROVE  Goal
  <2>1. \A v \in Thread \ {t} : Onlooks(v)
    BY <1>9, OthersOnlook, AnswerEffect DEF DiskFails
  <2>2. Others(t) /\ Ends(t, "disk")
    BY <1>9, AnswerEffect DEF DiskFails
  <2>3. Grows
    BY <1>g, <1>9 DEF DiskFails
  <2>4. thread[t].pc \in {"read", "open", "write", "rename"} /\ Faults
    BY <1>9 DEF DiskFails, At
  <2>5. Covers(t)'
    <3>1. Fits(thread[t]) /\ Covers(t) /\ thread[t].stable \subseteq Id
      BY <1>c DEF ThreadShape, TypeOK, Request
    <3>2. thread[t].op # "list"
      BY <2>4, <3>1 DEF Fits
    <3> QED
      BY <2>2, <2>3, <3>1, <3>2 DEF Ends, Covers, Grows
  <2> QED
    BY <1>o, <2>1, <2>3, <2>5
<1>10. ASSUME NEW t \in Thread, NEW i \in Id, Delete(t, i)
      PROVE  Goal
  <2>1. \A v \in Thread \ {t} : Onlooks(v)
    BY <1>10, DeleteOnlook
  <2>2. PICK a \in {"ok", "not found"} : Begins(t, "delete", "idle", IdleThread.id, NoFile, {}, a)
    BY <1>10, DeleteEffect
  <2>5. Covers(t)'
    BY <2>2 DEF Begins, Covers
  <2>6. ASSUME NEW v \in Thread \ {t} PROVE Covers(v)'
    <3>1. Covers(v) /\ Onlooks(v) /\ thread[v].stable \subseteq Id
      BY <1>c, <2>1 DEF TypeOK, Request
    <3>2. file' = [file EXCEPT ![i] = NoFile] /\ shared' = shared
      BY <1>10 DEF Delete
    <3>3. thread'[v].stable \subseteq thread[v].stable
          /\ (file[i] # NoFile => thread'[v].stable \subseteq thread[v].stable \ {i})
      BY <1>10, <3>1, DeleteOnlook DEF Onlooks
    <3>4. \A j \in thread'[v].stable : file'[j] # NoFile
      BY <3>1, <3>2, <3>3 DEF Covers, TypeOK
    <3> QED
      BY <3>1, <3>2, <3>4, OnlookerCovers
  <2> QED
    BY <2>5, <2>6
<1>11. ASSUME NEW t \in Thread, NEW kind \in SUBSET Id, List(t, kind)
      PROVE  Goal
  <2>1. \A v \in Thread \ {t} : Onlooks(v)
    BY <1>11, OthersOnlook, ListEffect
  <2>2. PICK names \in SUBSET Id :
           /\ Others(t) /\ Begins(t, "list", "list", IdleThread.id, NoFile, names, "none")
           /\ \A j \in names : file[j] # NoFile
    BY <1>11, ListEffect
  <2>3. Grows
    BY <1>g, <1>11 DEF List
  <2>5. Covers(t)'
    BY <2>2, <2>3 DEF Begins, Covers, Grows, At
  <2> QED
    BY <1>o, <2>1, <2>3, <2>5
<1>12. ASSUME NEW t \in Thread, ListNext(t)
      PROVE  Goal
  <2>1. \A v \in Thread \ {t} : Onlooks(v)
    BY <1>12, OthersOnlook, ListNextEffect
  <2>2. /\ Others(t) /\ Lists(t)
        /\ NextName(t)
    BY <1>12, ListNextEffect
  <2>3. Grows
    BY <1>g, <1>12 DEF ListNext
  <2>4. thread[t].pc = "list"
    BY <1>12 DEF ListNext, At
  <2>5. Covers(t)'
    <3>2. PICK j \in thread[t].left :
             /\ thread'[t].left = thread[t].left \ {j}
             /\ \/ /\ thread'[t].stable = thread[t].stable
                   /\ thread'[t].seen = IF IsWhole(file[j]) THEN thread[t].seen \cup {j}
                                        ELSE thread[t].seen
                \/ thread'[t].stable = thread[t].stable \ {j} /\ thread'[t].seen = thread[t].seen
      BY <2>2 DEF NextName
    <3>1. Covers(t) /\ thread[t].stable \subseteq Id /\ thread'[t].stable \subseteq thread[t].stable
      BY <1>c, <3>2 DEF TypeOK, Request
    <3>3. ASSUME j \in thread[t].stable \ shared PROVE IsWhole(file[j])
      BY <3>1, <3>3 DEF Covers, RecordsAreWhole
    <3>4. thread'[t].op = "list"
            => thread'[t].stable \ shared' \subseteq thread'[t].left \cup thread'[t].seen
      <4>1. shared \subseteq shared' /\ thread'[t].op = thread[t].op
        BY <2>2, <2>3 DEF Grows, Lists
      <4> QED
        BY <3>1, <3>2, <3>3, <4>1 DEF Covers
    <3>5. thread'[t].pc = "list"
      BY <2>2, <2>4 DEF Lists
    <3> QED
      BY <2>3, <3>1, <3>4, <3>5 DEF Covers, At, Grows
  <2> QED
    BY <1>o, <2>1, <2>3, <2>5
<1>13. ASSUME NEW t \in Thread, ListEnds(t)
      PROVE  Goal
  <2>1. \A v \in Thread \ {t} : Onlooks(v)
    BY <1>13, OthersOnlook, AnswerEffect DEF ListEnds
  <2>2. Others(t) /\ Ends(t, "ok")
    BY <1>13, AnswerEffect DEF ListEnds
  <2>3. Grows
    BY <1>g, <1>13 DEF ListEnds
  <2>4. thread[t].pc = "list" /\ thread[t].left = {}
    BY <1>13 DEF ListEnds, At
  <2>5. Covers(t)'
    <3>1. Covers(t) /\ thread[t].stable \subseteq Id
      BY <1>c DEF TypeOK, Request
    <3> QED
      BY <2>2, <2>3, <2>4, <3>1 DEF Ends, Covers, Grows
  <2> QED
    BY <1>o, <2>1, <2>3, <2>5
<1>14. ASSUME SetView
      PROVE  Goal
  <2>1. file' = file /\ shared' = shared /\ thread' = thread
    BY <1>14 DEF SetView
  <2> QED
    BY <1>c, <2>1 DEF Covers, At
<1>15. ASSUME Crash
      PROVE  Goal
  <2>1. \A t \in Thread : thread'[t] = IdleThread
    BY <1>15 DEF Crash
  <2> QED
    BY <2>1, IdleIsRequest DEF Covers
<1>16. ASSUME UNCHANGED vars PROVE Goal
  BY <1>c, <1>16 DEF vars, Covers, At
<1>17. ASSUME NEW t \in Thread, DeleteFails(t)
      PROVE  Goal
  <2>1. /\ Others(t) /\ Begins(t, "delete", "idle", IdleThread.id, NoFile, {}, "disk")
        /\ file' = file /\ shared' = shared
    BY <1>17, DeleteFailsEffect
  <2>2. \A v \in Thread \ {t} : Onlooks(v)
    BY <2>1, OthersOnlook
  <2>3. Grows
    BY <2>1 DEF Grows
  <2>4. Covers(t)'
    BY <2>1 DEF Begins, Covers
  <2> QED
    BY <1>o, <2>2, <2>3, <2>4
<1> HIDE DEF Goal
<1>18. Goal
  BY <1>1, <1>2, <1>3, <1>4, <1>5, <1>6, <1>7, <1>8, <1>9, <1>10, <1>11, <1>12, <1>13,
     <1>14, <1>15, <1>16, <1>17, Acts
<1> QED
  BY <1>18 DEF Goal, ListCovers, Covers

\* An error of the store has its cause when it is answered, and keeps it.
LEMMA ErrorsStep ==
    TypeOK /\ RecordsAreWhole /\ ErrorsHaveACause /\ ThreadShape /\ GoneIsKnown
      /\ SoleWriter /\ [Next]_vars => ErrorsHaveACause'
<1> SUFFICES ASSUME TypeOK, RecordsAreWhole, ErrorsHaveACause, ThreadShape, GoneIsKnown,
                    SoleWriter, [Next]_vars
             PROVE  ErrorsHaveACause'
  OBVIOUS
<1> DEFINE Goal == \A v \in Thread : Excused(v)'
<1>c. \A v \in Thread : Excused(v)
  BY DEF ErrorsHaveACause, Excused
<1>o. ASSUME NEW t \in Thread, \A v \in Thread \ {t} : Onlooks(v), shared \subseteq shared',
             Excused(t)'
      PROVE  \A v \in Thread : Excused(v)'
  BY <1>c, <1>o, OnlookerExcused
<1>1. ASSUME NEW t \in Thread, NEW i \in Id, NEW b \in Body, Create(t, i, b)
      PROVE  Goal
  <2>1. \A v \in Thread \ {t} : Onlooks(v)
    BY <1>1, OthersOnlook, CreateEffect
  <2>2. PICK r \in Record : Others(t) /\ Begins(t, "create", "open", i, r, {}, "none")
    BY <1>1, CreateEffect
  <2>3. shared \subseteq shared'
    BY <1>1 DEF Create
  <2>5. Excused(t)'
    BY <2>2 DEF Begins, Excused
  <2> QED
    BY <1>o, <2>1, <2>3, <2>5
<1>2. ASSUME NEW t \in Thread, NEW i \in Id, SavePosition(t, i)
      PROVE  Goal
  <2>1. \A v \in Thread \ {t} : Onlooks(v)
    BY <1>2, OthersOnlook, SaveEffect
  <2>2. PICK r \in Record : Others(t) /\ Begins(t, "create", "open", i, r, {}, "none")
    BY <1>2, SaveEffect
  <2>3. shared \subseteq shared'
    BY <1>2 DEF SavePosition
  <2>5. Excused(t)'
    BY <2>2 DEF Begins, Excused
  <2> QED
    BY <1>o, <2>1, <2>3, <2>5
<1>3. ASSUME NEW t \in Thread, NEW i \in Id, NEW op \in {"get", "replace", "apply"},
            op = "replace" => i \in Profile, FindRecord(t, op, i)
      PROVE  Goal
  <2>1. \A v \in Thread \ {t} : Onlooks(v)
    BY <1>3, OthersOnlook, FindEffect
  <2>2. thread'[t].op = op /\ thread'[t].stable = {}
          /\ thread'[t].answer \in {"none", "not found"}
    <3>1. CASE Begins(t, op, "read", i, NoFile, {}, "none")
      BY <3>1 DEF Begins
    <3>2. CASE Begins(t, op, "idle", i, NoFile, {}, "not found")
      BY <3>2 DEF Begins
    <3> QED
      BY <1>3, <3>1, <3>2, FindEffect
  <2>3. shared \subseteq shared'
    BY <1>3 DEF FindRecord
  <2>5. Excused(t)'
    BY <2>2 DEF Excused
  <2> QED
    BY <1>o, <2>1, <2>3, <2>5
<1>4. ASSUME NEW t \in Thread, ReadRecord(t)
      PROVE  Goal
  <2>1. \A v \in Thread \ {t} : Onlooks(v)
    BY <1>4, OthersOnlook, ReadEffect
  <2>2. shared' = shared /\ file' = file
    BY <1>4 DEF ReadRecord
  <2>3. Excused(t)'
    <3>1. Excused(t) /\ thread[t].pc = "read" /\ thread[t].id \in Id /\ Fits(thread[t])
      BY <1>4, <1>c DEF ReadRecord, At, TypeOK, Request, ThreadShape
    <3>2. file[thread[t].id] = NoFile => thread[t].gone
      <4>1. thread[t].op # "create"
        BY <3>1 DEF Fits
      <4> QED
        BY <3>1, <4>1 DEF GoneIsKnown, Writing
    <3>3. file[thread[t].id] \in {Empty, Mixed} => thread[t].id \in shared
      BY <3>1, Kinds DEF RecordsAreWhole
    <3>4. /\ thread'[t].id = thread[t].id /\ thread'[t].gone = thread[t].gone
          /\ \/ thread'[t].answer \in {"ok", "none"}
             \/ thread'[t].answer = "vanished" /\ file[thread[t].id] = NoFile
             \/ thread'[t].answer = "unreadable" /\ file[thread[t].id] \in {Empty, Mixed}
      <4>1. thread[t].answer = "none"
        BY <3>1 DEF Fits
      <4> DEFINE now == file[thread[t].id]
      <4>2. CASE now = NoFile /\ Ends(t, "vanished")
        BY <4>2 DEF Ends
      <4>3. CASE now \in {Empty, Mixed} /\ Ends(t, "unreadable")
        BY <4>3 DEF Ends
      <4>4. CASE Ends(t, "ok")
        BY <4>4 DEF Ends
      <4>5. ASSUME NEW pc, NEW draft, Continues(t, pc, draft, thread[t].handle)
            PROVE  /\ thread'[t].id = thread[t].id /\ thread'[t].gone = thread[t].gone
                   /\ thread'[t].answer \in {"ok", "none"}
        BY <4>1, <4>5 DEF Continues
      <4> HIDE DEF now
      <4>6. \/ now = NoFile /\ Ends(t, "vanished")
            \/ now \in {Empty, Mixed} /\ Ends(t, "unreadable")
            \/ Ends(t, "ok")
            \/ \E pc, draft : Continues(t, pc, draft, thread[t].handle)
        BY <1>4, ReadEffect DEF now
      <4> QED
        BY <4>2, <4>3, <4>4, <4>5, <4>6 DEF now
    <3> QED
      BY <2>2, <3>2, <3>3, <3>4 DEF Excused
  <2> QED
    BY <1>o, <2>1, <2>2, <2>3
<1>5. ASSUME NEW t \in Thread, AimCamera(t)
      PROVE  Goal
  <2>1. \A v \in Thread \ {t} : Onlooks(v)
    BY <1>5, OthersOnlook, AnswerEffect DEF AimCamera
  <2>2. Others(t) /\ Ends(t, "ok")
    BY <1>5, AnswerEffect DEF AimCamera
  <2>3. shared \subseteq shared'
    BY <1>5 DEF AimCamera
  <2>5. Excused(t)'
    BY <2>2 DEF Ends, Excused
  <2> QED
    BY <1>o, <2>1, <2>3, <2>5
<1>6. ASSUME NEW t \in Thread, OpenTemp(t)
      PROVE  Goal
  <2>1. \A v \in Thread \ {t} : Onlooks(v)
    BY <1>6, OthersOnlook, OpenEffect
  <2>2. Others(t) /\ Continues(t, "write", thread[t].draft, "temp")
    BY <1>6, OpenEffect
  <2>3. shared \subseteq shared'
    BY <1>6 DEF OpenTemp
  <2>4. thread[t].pc = "open"
    BY <1>6 DEF OpenTemp, At
  <2>5. Excused(t)'
    <3>1. thread[t].answer = "none"
      BY <2>4 DEF ThreadShape, Fits
    <3> QED
      BY <2>2, <3>1 DEF Continues, Excused
  <2> QED
    BY <1>o, <2>1, <2>3, <2>5
<1>7. ASSUME NEW t \in Thread, WriteText(t)
      PROVE  Goal
  <2>1. \A v \in Thread \ {t} : Onlooks(v)
    BY <1>7, OthersOnlook, WriteEffect
  <2>2. Others(t) /\ Continues(t, "rename", thread[t].draft, "none")
    BY <1>7, WriteEffect
  <2>3. shared \subseteq shared'
    BY <1>7 DEF WriteText
  <2>4. thread[t].pc = "write"
    BY <1>7 DEF WriteText, At
  <2>5. Excused(t)'
    <3>1. thread[t].answer = "none"
      BY <2>4 DEF ThreadShape, Fits
    <3> QED
      BY <2>2, <3>1 DEF Continues, Excused
  <2> QED
    BY <1>o, <2>1, <2>3, <2>5
<1>8. ASSUME NEW t \in Thread, Rename(t)
      PROVE  Goal
  <2>1. \A v \in Thread \ {t} : Onlooks(v)
    BY <1>8, RenameOnlook
  <2>2. PICK a \in {"temp gone", "ok"} : Ends(t, a)
               /\ (a = "ok" <=> temp[thread[t].id] # NoFile)
    BY <1>8, RenameEffect
  <2>3. shared' = shared /\ thread[t].pc = "rename"
    BY <1>8 DEF Rename, At
  <2>4. ASSUME temp[thread[t].id] = NoFile PROVE thread[t].id \in shared
    <3>1. thread[t].id \in Id /\ t \in Writers(thread[t].id) /\ IsWhole(thread[t].draft)
      BY <2>3 DEF TypeOK, Request, Writers, ThreadShape, Fits, Writing
    <3>2. thread[t].draft # NoFile
      BY <3>1, Kinds
    <3> QED
      BY <2>3, <2>4, <3>1, <3>2 DEF SoleWriter, At
  <2>5. Excused(t)'
    BY <2>2, <2>3, <2>4 DEF Ends, Excused
  <2> QED
    BY <1>o, <2>1, <2>3, <2>5
<1>9. ASSUME NEW t \in Thread, DiskFails(t)
      PROVE  Goal
  <2>1. \A v \in Thread \ {t} : Onlooks(v)
    BY <1>9, OthersOnlook, AnswerEffect DEF DiskFails
  <2>2. Others(t) /\ Ends(t, "disk")
    BY <1>9, AnswerEffect DEF DiskFails
  <2>3. shared \subseteq shared'
    BY <1>9 DEF DiskFails
  <2>4. thread[t].pc \in {"read", "open", "write", "rename"} /\ Faults
    BY <1>9 DEF DiskFails, At
  <2>5. Excused(t)'
    BY <2>2, <2>4 DEF Ends, Excused
  <2> QED
    BY <1>o, <2>1, <2>3, <2>5
<1>10. ASSUME NEW t \in Thread, NEW i \in Id, Delete(t, i)
      PROVE  Goal
  <2>1. \A v \in Thread \ {t} : Onlooks(v)
    BY <1>10, DeleteOnlook
  <2>2. PICK a \in {"ok", "not found"} : Begins(t, "delete", "idle", IdleThread.id, NoFile, {}, a)
    BY <1>10, DeleteEffect
  <2>3. shared \subseteq shared'
    BY <1>10 DEF Delete
  <2>5. Excused(t)'
    BY <2>2 DEF Begins, Excused
  <2> QED
    BY <1>o, <2>1, <2>3, <2>5
<1>11. ASSUME NEW t \in Thread, NEW kind \in SUBSET Id, List(t, kind)
      PROVE  Goal
  <2>1. \A v \in Thread \ {t} : Onlooks(v)
    BY <1>11, OthersOnlook, ListEffect
  <2>2. PICK names \in SUBSET Id :
           /\ Others(t) /\ Begins(t, "list", "list", IdleThread.id, NoFile, names, "none")
           /\ \A j \in names : file[j] # NoFile
    BY <1>11, ListEffect
  <2>3. shared \subseteq shared'
    BY <1>11 DEF List
  <2>5. Excused(t)'
    BY <2>2 DEF Begins, Excused
  <2> QED
    BY <1>o, <2>1, <2>3, <2>5
<1>12. ASSUME NEW t \in Thread, ListNext(t)
      PROVE  Goal
  <2>1. \A v \in Thread \ {t} : Onlooks(v)
    BY <1>12, OthersOnlook, ListNextEffect
  <2>2. /\ Others(t) /\ Lists(t)
        /\ NextName(t)
    BY <1>12, ListNextEffect
  <2>3. shared \subseteq shared'
    BY <1>12 DEF ListNext
  <2>4. thread[t].pc = "list"
    BY <1>12 DEF ListNext, At
  <2>5. Excused(t)'
    <3>1. thread[t].answer = "none"
      BY <2>4 DEF ThreadShape, Fits
    <3> QED
      BY <2>2, <3>1 DEF Lists, Excused
  <2> QED
    BY <1>o, <2>1, <2>3, <2>5
<1>13. ASSUME NEW t \in Thread, ListEnds(t)
      PROVE  Goal
  <2>1. \A v \in Thread \ {t} : Onlooks(v)
    BY <1>13, OthersOnlook, AnswerEffect DEF ListEnds
  <2>2. Others(t) /\ Ends(t, "ok")
    BY <1>13, AnswerEffect DEF ListEnds
  <2>3. shared \subseteq shared'
    BY <1>13 DEF ListEnds
  <2>5. Excused(t)'
    BY <2>2 DEF Ends, Excused
  <2> QED
    BY <1>o, <2>1, <2>3, <2>5
<1>14. ASSUME SetView
      PROVE  Goal
  <2>1. shared' = shared /\ thread' = thread
    BY <1>14 DEF SetView
  <2> QED
    BY <1>c, <2>1 DEF Excused
<1>15. ASSUME Crash
      PROVE  Goal
  <2>1. \A t \in Thread : thread'[t] = IdleThread
    BY <1>15 DEF Crash
  <2> QED
    BY <2>1, IdleIsRequest DEF Excused
<1>16. ASSUME UNCHANGED vars PROVE Goal
  BY <1>c, <1>16 DEF vars, Excused
<1>17. ASSUME NEW t \in Thread, DeleteFails(t)
      PROVE  Goal
  <2>1. /\ Others(t) /\ Begins(t, "delete", "idle", IdleThread.id, NoFile, {}, "disk")
        /\ Faults /\ shared' = shared
    BY <1>17, DeleteFailsEffect
  <2>2. \A v \in Thread \ {t} : Onlooks(v)
    BY <2>1, OthersOnlook
  <2>3. Excused(t)'
    BY <2>1 DEF Begins, Excused
  <2> QED
    BY <1>o, <2>1, <2>2, <2>3
<1> HIDE DEF Goal
<1>18. Goal
  BY <1>1, <1>2, <1>3, <1>4, <1>5, <1>6, <1>7, <1>8, <1>9, <1>10, <1>11, <1>12, <1>13,
     <1>14, <1>15, <1>16, <1>17, Acts
<1> QED
  BY <1>18 DEF Goal, ErrorsHaveACause, Excused

\* What is left of a whole record, or comes of one: it keeps the time of creation.
FromOld(i, x) ==
    IsWhole(x) => \E y \in Content : Copy(i, y) /\ IsWhole(y) /\ y.created = x.created

\* Whatever is there comes of what is there.
LEMMA OldCopies ==
    ASSUME TypeOK
    PROVE  /\ \A i \in Id : FromOld(i, file[i]) /\ FromOld(i, temp[i])
           /\ \A v \in Thread : FromOld(thread[v].id, thread[v].draft)
           /\ \A i : FromOld(i, NoFile) /\ FromOld(i, Empty) /\ FromOld(i, Mixed)
<1>1. \A i \in Id : file[i] \in Content /\ temp[i] \in Content
  BY DEF TypeOK
<1>2. \A v \in Thread : thread[v].draft \in Content
  BY Kinds DEF TypeOK, Request
<1>3. \A i \in Id : FromOld(i, file[i]) /\ FromOld(i, temp[i])
  BY <1>1 DEF FromOld, Copy
<1>4. \A v \in Thread : FromOld(thread[v].id, thread[v].draft)
  BY <1>2 DEF FromOld, Copy
<1>5. \A i : FromOld(i, NoFile) /\ FromOld(i, Empty) /\ FromOld(i, Mixed)
  BY Kinds DEF FromOld
<1> QED
  BY <1>3, <1>4, <1>5

\* A step whose copies all come of old ones tells no new time of creation.
LEMMA Descend ==
    ASSUME CreatedOnce, used \subseteq used',
           \A i \in Id : FromOld(i, file'[i]) /\ FromOld(i, temp'[i]),
           \A v \in Thread : FromOld(thread'[v].id, thread'[v].draft)
    PROVE  CreatedOnce'
<1> SUFFICES ASSUME NEW i \in Id
             PROVE  \A x, y \in Content :
                      /\ Copy(i, x)' /\ Copy(i, y)' /\ IsWhole(x) /\ IsWhole(y)
                           => x.created = y.created
                      /\ Copy(i, x)' /\ IsWhole(x) => i \in used'
  BY DEF CreatedOnce
<1>1. \A x : Copy(i, x)' => FromOld(i, x)
  BY DEF Copy
<1>2. \A x, y \in Content :
        /\ Copy(i, x) /\ Copy(i, y) /\ IsWhole(x) /\ IsWhole(y) => x.created = y.created
        /\ Copy(i, x) /\ IsWhole(x) => i \in used
  BY DEF CreatedOnce
<1> HIDE DEF Copy
<1> QED
  BY <1>1, <1>2 DEF FromOld

\* A new record has one copy.
LEMMA NewRecord ==
    ASSUME TypeOK, CreatedOnce, NEW t \in Thread, NEW i \in Id, NEW r, i \notin used,
           used' = used \cup {i}, file' = file, temp' = temp, Others(t),
           thread'[t].id = i, thread'[t].draft = r
    PROVE  CreatedOnce'
<1>1. \A x \in Content : Copy(i, x)' /\ IsWhole(x) => x = r
  <2> SUFFICES ASSUME NEW x \in Content, Copy(i, x)', IsWhole(x), x # r
               PROVE  FALSE
    OBVIOUS
  <2>1. Copy(i, x)
    BY DEF Copy, Others
  <2> QED
    BY <2>1 DEF CreatedOnce
<1>2. \A j \in Id \ {i} : \A x : Copy(j, x)' => Copy(j, x)
  BY DEF Copy, Others
<1>3. ASSUME NEW j \in Id
      PROVE  \A x, y \in Content :
               /\ Copy(j, x)' /\ Copy(j, y)' /\ IsWhole(x) /\ IsWhole(y)
                    => x.created = y.created
               /\ Copy(j, x)' /\ IsWhole(x) => j \in used'
  <2>1. CASE j = i
    BY <1>1, <2>1
  <2>2. CASE j # i
    BY <1>2, <2>2 DEF CreatedOnce
  <2> QED
    BY <2>1, <2>2
<1> QED
  BY <1>3 DEF CreatedOnce

\* No step tells a second time of creation of one record.
LEMMA CreatedStep == TypeOK /\ CreatedOnce /\ [Next]_vars => CreatedOnce'
<1> SUFFICES ASSUME TypeOK, CreatedOnce, [Next]_vars
             PROVE  CreatedOnce'
  OBVIOUS
<1> DEFINE Goal == CreatedOnce'
<1>k. \A v \in Thread : thread[v].id \in Id
  BY DEF TypeOK, Request
<1>e. ASSUME NEW t \in Thread, \A v \in Thread \ {t} : Onlooks(v),
             FromOld(thread'[t].id, thread'[t].draft),
             used' = used, \A j \in Id : FromOld(j, file'[j]) /\ FromOld(j, temp'[j])
      PROVE  CreatedOnce'
  <2>1. \A v \in Thread \ {t} : thread'[v].id = thread[v].id
          /\ thread'[v].draft = thread[v].draft
    BY <1>e DEF Onlooks, Undisturbed
  <2>2. \A v \in Thread : FromOld(thread'[v].id, thread'[v].draft)
    BY <1>e, <2>1, OldCopies
  <2> QED
    BY <1>e, <2>2, Descend
<1>d. ASSUME NEW t \in Thread, \A v \in Thread \ {t} : Onlooks(v),
             FromOld(thread'[t].id, thread'[t].draft),
             used' = used, file' = file, temp' = temp
      PROVE  CreatedOnce'
  BY <1>d, <1>e, OldCopies
<1>f. used \subseteq used
  OBVIOUS
<1>1. ASSUME NEW t \in Thread, NEW i \in Id, NEW b \in Body, Create(t, i, b)
      PROVE  Goal
  <2>1. PICK r \in Record : Others(t) /\ Begins(t, "create", "open", i, r, {}, "none")
    BY <1>1, CreateEffect
  <2>2. i \notin used /\ used' = used \cup {i} /\ file' = file /\ temp' = temp
    BY <1>1 DEF Create
  <2>3. thread'[t].id = i /\ thread'[t].draft = r
    BY <2>1 DEF Begins
  <2> QED
    BY <2>1, <2>2, <2>3, NewRecord
<1>2. ASSUME NEW t \in Thread, NEW i \in Id, SavePosition(t, i)
      PROVE  Goal
  <2>1. PICK r \in Record : Others(t) /\ Begins(t, "create", "open", i, r, {}, "none")
    BY <1>2, SaveEffect
  <2>2. i \notin used /\ used' = used \cup {i} /\ file' = file /\ temp' = temp
    BY <1>2 DEF SavePosition
  <2>3. thread'[t].id = i /\ thread'[t].draft = r
    BY <2>1 DEF Begins
  <2> QED
    BY <2>1, <2>2, <2>3, NewRecord
<1>3. ASSUME NEW t \in Thread, NEW i \in Id, NEW op \in {"get", "replace", "apply"},
            op = "replace" => i \in Profile, FindRecord(t, op, i)
      PROVE  Goal
  <2>1. \A v \in Thread \ {t} : Onlooks(v)
    BY <1>3, OthersOnlook, FindEffect
  <2>2. thread'[t].draft = NoFile
    <3>1. CASE Begins(t, op, "read", i, NoFile, {}, "none")
      BY <3>1 DEF Begins
    <3>2. CASE Begins(t, op, "idle", i, NoFile, {}, "not found")
      BY <3>2 DEF Begins
    <3> QED
      BY <1>3, <3>1, <3>2, FindEffect
  <2>4. FromOld(thread'[t].id, thread'[t].draft)
    BY <2>2, OldCopies
  <2>3. used' = used /\ \A j \in Id : FromOld(j, file'[j]) /\ FromOld(j, temp'[j])
    <3>1. file' = file /\ temp' = temp /\ used' = used
      BY <1>3 DEF FindRecord
    <3> QED
      BY <3>1, OldCopies
  <2> QED
    BY <1>e, <2>1, <2>3, <2>4
<1>4. ASSUME NEW t \in Thread, ReadRecord(t)
      PROVE  Goal
  <2>1. \A v \in Thread \ {t} : Onlooks(v)
    BY <1>4, OthersOnlook, ReadEffect
  <2>2. FromOld(thread'[t].id, thread'[t].draft)
    <3> DEFINE now == file[thread[t].id]
    <3>1. FromOld(thread[t].id, now)
      BY <1>k, OldCopies
    <3>2. CASE Ends(t, "vanished") \/ Ends(t, "unreadable") \/ Ends(t, "ok")
      BY <3>2, OldCopies DEF Ends
    <3>3. CASE Continues(t, "aim", now, thread[t].handle)
      BY <3>1, <3>3 DEF Continues
    <3>4. ASSUME NEW r \in Record, IsWhole(now), r.created = now.created,
                 Continues(t, "open", r, thread[t].handle)
          PROVE  FromOld(thread'[t].id, thread'[t].draft)
      <4>1. FromOld(thread[t].id, r)
        BY <3>1, <3>4 DEF FromOld
      <4> QED
        BY <3>4, <4>1 DEF Continues
    <3> HIDE DEF now
    <3>5. \/ Ends(t, "vanished") \/ Ends(t, "unreadable") \/ Ends(t, "ok")
          \/ Continues(t, "aim", now, thread[t].handle)
          \/ IsWhole(now) /\ \E r \in Record : r.created = now.created
                                               /\ Continues(t, "open", r, thread[t].handle)
      BY <1>4, ReadEffect DEF now
    <3> QED
      BY <3>2, <3>3, <3>4, <3>5
  <2>3. file' = file /\ temp' = temp /\ used' = used
    BY <1>4 DEF ReadRecord
  <2> QED
    BY <1>d, <1>f, <2>1, <2>2, <2>3
<1>5. ASSUME NEW t \in Thread, AimCamera(t)
      PROVE  Goal
  <2>1. \A v \in Thread \ {t} : Onlooks(v)
    BY <1>5, OthersOnlook, AnswerEffect DEF AimCamera
  <2>2. Others(t) /\ Ends(t, "ok")
    BY <1>5, AnswerEffect DEF AimCamera
  <2>4. FromOld(thread'[t].id, thread'[t].draft)
    <3>1. thread'[t].draft = NoFile
      BY <2>2 DEF Ends
    <3> QED
      BY <3>1, OldCopies
  <2>3. used' = used /\ \A j \in Id : FromOld(j, file'[j]) /\ FromOld(j, temp'[j])
    <3>1. file' = file /\ temp' = temp /\ used' = used
      BY <1>5 DEF AimCamera
    <3> QED
      BY <3>1, OldCopies
  <2> QED
    BY <1>e, <2>1, <2>3, <2>4
<1>6. ASSUME NEW t \in Thread, OpenTemp(t)
      PROVE  Goal
  <2>1. \A v \in Thread \ {t} : Onlooks(v)
    BY <1>6, OthersOnlook, OpenEffect
  <2>2. Others(t) /\ Continues(t, "write", thread[t].draft, "temp")
    BY <1>6, OpenEffect
  <2>4. FromOld(thread'[t].id, thread'[t].draft)
    <3>1. thread'[t].id = thread[t].id /\ thread'[t].draft = thread[t].draft
      BY <2>2 DEF Continues
    <3> QED
      BY <3>1, OldCopies
  <2>3. used' = used /\ \A i \in Id : FromOld(i, file'[i]) /\ FromOld(i, temp'[i])
    <3>1. used' = used /\ file' = file /\ temp' = [temp EXCEPT ![thread[t].id] = Empty]
      BY <1>6 DEF OpenTemp
    <3>2. \A i \in Id : temp'[i] = temp[i] \/ temp'[i] = Empty
      BY <3>1 DEF TypeOK
    <3> QED
      BY <3>1, <3>2, OldCopies
  <2> QED
    BY <1>e, <2>1, <2>3, <2>4
<1>7. ASSUME NEW t \in Thread, WriteText(t)
      PROVE  Goal
  <2>1. \A v \in Thread \ {t} : Onlooks(v)
    BY <1>7, OthersOnlook, WriteEffect
  <2>2. Others(t) /\ Continues(t, "rename", thread[t].draft, "none")
    BY <1>7, WriteEffect
  <2>4. FromOld(thread'[t].id, thread'[t].draft)
    <3>1. thread'[t].id = thread[t].id /\ thread'[t].draft = thread[t].draft
      BY <2>2 DEF Continues
    <3> QED
      BY <3>1, OldCopies
  <2>3. used' = used /\ \A i \in Id : FromOld(i, file'[i]) /\ FromOld(i, temp'[i])
    <3> DEFINE i == thread[t].id
    <3>1. \/ UNCHANGED <<file, temp>>
          \/ \E x \in Written(temp[i], thread[t].draft) : temp' = [temp EXCEPT ![i] = x]
               /\ file' = file
          \/ \E x \in Written(file[i], thread[t].draft) : file' = [file EXCEPT ![i] = x]
               /\ temp' = temp
      BY <1>7 DEF WriteText
    <3>2. \A old : \A x \in Written(old, thread[t].draft) : x = thread[t].draft \/ x = Mixed
      BY DEF Written
    <3>3. \A j \in Id :
            /\ file'[j] \in {file[j], Mixed} \/ (j = i /\ file'[j] = thread[t].draft)
            /\ temp'[j] \in {temp[j], Mixed} \/ (j = i /\ temp'[j] = thread[t].draft)
      BY <3>1, <3>2 DEF TypeOK
    <3>4. used' = used
      BY <1>7 DEF WriteText
    <3> QED
      BY <3>3, <3>4, OldCopies
  <2> QED
    BY <1>e, <2>1, <2>3, <2>4
<1>8. ASSUME NEW t \in Thread, Rename(t)
      PROVE  Goal
  <2>1. \A v \in Thread \ {t} : Onlooks(v)
    BY <1>8, RenameOnlook
  <2>2. PICK a \in {"temp gone", "ok"} : Ends(t, a)
               /\ (a = "ok" <=> temp[thread[t].id] # NoFile)
    BY <1>8, RenameEffect
  <2>4. FromOld(thread'[t].id, thread'[t].draft)
    <3>1. thread'[t].draft = NoFile
      BY <2>2 DEF Ends
    <3> QED
      BY <3>1, OldCopies
  <2>3. used' = used /\ \A i \in Id : FromOld(i, file'[i]) /\ FromOld(i, temp'[i])
    <3>0. \/ file' = file /\ temp' = temp
          \/ /\ file' = [file EXCEPT ![thread[t].id] = temp[thread[t].id]]
             /\ temp' = [temp EXCEPT ![thread[t].id] = NoFile]
      BY <1>8 DEF Rename
    <3>1. \A j \in Id : file'[j] \in {file[j], temp[j]} /\ temp'[j] \in {temp[j], NoFile}
      BY <3>0 DEF TypeOK
    <3>2. used' = used
      BY <1>8 DEF Rename
    <3> QED
      BY <3>1, <3>2, OldCopies
  <2> QED
    BY <1>e, <2>1, <2>3, <2>4
<1>9. ASSUME NEW t \in Thread, DiskFails(t)
      PROVE  Goal
  <2>1. \A v \in Thread \ {t} : Onlooks(v)
    BY <1>9, OthersOnlook, AnswerEffect DEF DiskFails
  <2>2. Others(t) /\ Ends(t, "disk")
    BY <1>9, AnswerEffect DEF DiskFails
  <2>4. FromOld(thread'[t].id, thread'[t].draft)
    <3>1. thread'[t].draft = NoFile
      BY <2>2 DEF Ends
    <3> QED
      BY <3>1, OldCopies
  <2>3. used' = used /\ \A j \in Id : FromOld(j, file'[j]) /\ FromOld(j, temp'[j])
    <3>1. file' = file /\ temp' = temp /\ used' = used
      BY <1>9 DEF DiskFails
    <3> QED
      BY <3>1, OldCopies
  <2> QED
    BY <1>e, <2>1, <2>3, <2>4
<1>10. ASSUME NEW t \in Thread, NEW i \in Id, Delete(t, i)
      PROVE  Goal
  <2>1. \A v \in Thread \ {t} : Onlooks(v)
    BY <1>10, DeleteOnlook
  <2>2. PICK a \in {"ok", "not found"} : Begins(t, "delete", "idle", IdleThread.id, NoFile, {}, a)
    BY <1>10, DeleteEffect
  <2>4. FromOld(thread'[t].id, thread'[t].draft)
    <3>1. thread'[t].draft = NoFile
      BY <2>2 DEF Begins
    <3> QED
      BY <3>1, OldCopies
  <2>3. used' = used /\ \A j \in Id : FromOld(j, file'[j]) /\ FromOld(j, temp'[j])
    <3>1. \A j \in Id : file'[j] \in {file[j], NoFile} /\ temp'[j] = temp[j]
      BY <1>10 DEF Delete, TypeOK
    <3>2. used' = used
      BY <1>10 DEF Delete
    <3> QED
      BY <3>1, <3>2, OldCopies
  <2> QED
    BY <1>e, <2>1, <2>3, <2>4
<1>11. ASSUME NEW t \in Thread, NEW kind \in SUBSET Id, List(t, kind)
      PROVE  Goal
  <2>1. \A v \in Thread \ {t} : Onlooks(v)
    BY <1>11, OthersOnlook, ListEffect
  <2>2. PICK names \in SUBSET Id :
           /\ Others(t) /\ Begins(t, "list", "list", IdleThread.id, NoFile, names, "none")
           /\ \A j \in names : file[j] # NoFile
    BY <1>11, ListEffect
  <2>4. FromOld(thread'[t].id, thread'[t].draft)
    <3>1. thread'[t].draft = NoFile
      BY <2>2 DEF Begins
    <3> QED
      BY <3>1, OldCopies
  <2>3. used' = used /\ \A j \in Id : FromOld(j, file'[j]) /\ FromOld(j, temp'[j])
    <3>1. file' = file /\ temp' = temp /\ used' = used
      BY <1>11 DEF List
    <3> QED
      BY <3>1, OldCopies
  <2> QED
    BY <1>e, <2>1, <2>3, <2>4
<1>12. ASSUME NEW t \in Thread, ListNext(t)
      PROVE  Goal
  <2>1. \A v \in Thread \ {t} : Onlooks(v)
    BY <1>12, OthersOnlook, ListNextEffect
  <2>2. /\ Others(t) /\ Lists(t)
        /\ NextName(t)
    BY <1>12, ListNextEffect
  <2>4. FromOld(thread'[t].id, thread'[t].draft)
    <3>1. thread'[t].id = thread[t].id /\ thread'[t].draft = thread[t].draft
      BY <2>2 DEF Lists
    <3> QED
      BY <3>1, OldCopies
  <2>3. used' = used /\ \A j \in Id : FromOld(j, file'[j]) /\ FromOld(j, temp'[j])
    <3>1. file' = file /\ temp' = temp /\ used' = used
      BY <1>12 DEF ListNext
    <3> QED
      BY <3>1, OldCopies
  <2> QED
    BY <1>e, <2>1, <2>3, <2>4
<1>13. ASSUME NEW t \in Thread, ListEnds(t)
      PROVE  Goal
  <2>1. \A v \in Thread \ {t} : Onlooks(v)
    BY <1>13, OthersOnlook, AnswerEffect DEF ListEnds
  <2>2. Others(t) /\ Ends(t, "ok")
    BY <1>13, AnswerEffect DEF ListEnds
  <2>4. FromOld(thread'[t].id, thread'[t].draft)
    <3>1. thread'[t].draft = NoFile
      BY <2>2 DEF Ends
    <3> QED
      BY <3>1, OldCopies
  <2>3. used' = used /\ \A j \in Id : FromOld(j, file'[j]) /\ FromOld(j, temp'[j])
    <3>1. file' = file /\ temp' = temp /\ used' = used
      BY <1>13 DEF ListEnds
    <3> QED
      BY <3>1, OldCopies
  <2> QED
    BY <1>e, <2>1, <2>3, <2>4
<1>14. ASSUME SetView
      PROVE  Goal
  <2>1. file' = file /\ temp' = temp /\ thread' = thread /\ used' = used
    BY <1>14 DEF SetView
  <2> QED
    BY <1>f, <2>1, Descend, OldCopies
<1>15. ASSUME Crash
      PROVE  Goal
  <2>1. file' = file /\ temp' = temp /\ used' = used
          /\ \A v \in Thread : thread'[v] = IdleThread
    BY <1>15 DEF Crash
  <2>2. \A v \in Thread : thread'[v].draft = NoFile
    BY <2>1, IdleIsRequest
  <2> QED
    BY <2>1, <2>2, Descend, OldCopies
<1>16. ASSUME UNCHANGED vars PROVE Goal
  <2>1. file' = file /\ temp' = temp /\ thread' = thread /\ used' = used
    BY <1>16 DEF vars
  <2> QED
    BY <1>f, <2>1, Descend, OldCopies
<1>17. ASSUME NEW t \in Thread, DeleteFails(t)
      PROVE  Goal
  <2>1. /\ Others(t) /\ Begins(t, "delete", "idle", IdleThread.id, NoFile, {}, "disk")
        /\ used' = used /\ file' = file /\ temp' = temp
    BY <1>17, DeleteFailsEffect
  <2>2. \A v \in Thread \ {t} : Onlooks(v)
    BY <2>1, OthersOnlook
  <2>3. thread'[t].draft = NoFile
    BY <2>1 DEF Begins
  <2>4. FromOld(thread'[t].id, thread'[t].draft)
        /\ \A j \in Id : FromOld(j, file'[j]) /\ FromOld(j, temp'[j])
    BY <2>1, <2>3, OldCopies
  <2> QED
    BY <1>e, <2>1, <2>2, <2>4
<1> HIDE DEF Goal
<1>18. Goal
  BY <1>1, <1>2, <1>3, <1>4, <1>5, <1>6, <1>7, <1>8, <1>9, <1>10, <1>11, <1>12, <1>13,
     <1>14, <1>15, <1>16, <1>17, Acts
<1> QED
  BY <1>18 DEF Goal

-----------------------------------------------------------------------------
(* The specification keeps the invariant.                                  *)

\* The server starts in the invariant, whatever an earlier run has stored.
LEMMA InvInit == Init => Inv
<1> SUFFICES ASSUME Init
             PROVE  Inv
  OBVIOUS
<1>1. \A b \in Body : Whole(b, 0, 0) \in Record /\ IsWhole(Whole(b, 0, 0))
        /\ Whole(b, 0, 0).created = 0
  <2>1. 0 \in 0 .. MaxClock
    BY StoreAssumption
  <2> QED
    BY <2>1, Parts, Kinds
<1>2. \A i \in Id : file[i] \in Content
        /\ (file[i] = NoFile \/ (IsWhole(file[i]) /\ file[i].created = 0))
  BY <1>1, Kinds DEF Init
<1>3. \A i \in Id : temp[i] = NoFile
  BY DEF Init
<1>4. \A t \in Thread : thread[t] = IdleThread
  BY DEF Init
<1>5. TypeOK
  <2>1. file \in [Id -> Content]
    BY <1>2 DEF Init
  <2>2. temp \in [Id -> Content]
    BY Kinds DEF Init
  <2>3. thread \in [Thread -> Request]
    BY IdleIsRequest DEF Init
  <2>4. \A t \in Thread : (thread[t].handle # "none") <=> At(t, "write")
    BY <1>4, IdleIsRequest DEF At
  <2>5. 0 \in 0 .. MaxClock
    BY StoreAssumption
  <2> QED
    BY <2>1, <2>2, <2>3, <2>4, <2>5 DEF Init, TypeOK
<1>6. RecordsAreWhole
  BY <1>2 DEF RecordsAreWhole
<1>7. ErrorsHaveACause
  BY <1>4, IdleIsRequest DEF ErrorsHaveACause
<1>8. ThreadShape
  BY <1>4, IdleIsRequest, Kinds DEF ThreadShape, Fits, Writing
<1>9. CreatesOnce /\ GoneIsKnown
  BY <1>4, IdleIsRequest DEF CreatesOnce, Creates, GoneIsKnown, Writing
<1>10. SoleWriter
  <2>1. \A i \in Id : Writers(i) = {}
    BY <1>4, IdleIsRequest DEF Writers
  <2> QED
    BY <2>1 DEF SoleWriter
<1>11. CreatedOnce
  <2>1. ASSUME NEW i \in Id, NEW x \in Content, Copy(i, x), IsWhole(x)
        PROVE  x = file[i] /\ x.created = 0 /\ i \in used
    <3>1. x = file[i]
      BY <1>3, <1>4, <2>1, IdleIsRequest, Kinds DEF Copy
    <3> QED
      BY <1>2, <2>1, <3>1, Kinds DEF Init
  <2> QED
    BY <2>1 DEF CreatedOnce
<1>12. ListCovers
  BY <1>4, IdleIsRequest DEF ListCovers
<1> QED
  BY <1>5, <1>6, <1>7, <1>8, <1>9, <1>10, <1>11, <1>12 DEF Inv

\* Every step keeps the types ...
LEMMA TypeStep == TypeOK /\ ThreadShape /\ CreatesOnce /\ [Next]_vars => TypeOK'
<1> SUFFICES ASSUME TypeOK, ThreadShape, CreatesOnce, [Next]_vars
             PROVE  TypeOK'
  OBVIOUS
<1>1. thread' \in [Thread -> Request]
  BY RequestStep
<1>2. FileTypes'
  BY FileStep
<1>3. \A v \in Thread : (thread'[v].handle # "none") <=> At(v, "write")'
  BY HandleStep DEF Held, At
<1> QED
  BY <1>1, <1>2, <1>3 DEF TypeOK, FileTypes

\* ... and the invariant.
LEMMA InvStep == Inv /\ [Next]_vars => Inv'
<1> SUFFICES ASSUME Inv, [Next]_vars
             PROVE  Inv'
  OBVIOUS
<1>1. /\ TypeOK /\ RecordsAreWhole /\ ErrorsHaveACause /\ ThreadShape /\ CreatesOnce
      /\ GoneIsKnown /\ SoleWriter /\ CreatedOnce /\ ListCovers
  BY DEF Inv
<1>2. TypeOK' /\ ThreadShape' /\ CreatesOnce'
  BY <1>1, TypeStep, ShapeStep, CreatesStep
<1>3. SoleWriter' /\ RecordsAreWhole' /\ GoneIsKnown'
  BY <1>1, SoleStep, KnownStep
<1>4. CreatedOnce' /\ ListCovers' /\ ErrorsHaveACause'
  BY <1>1, CreatedStep, ListStep, ErrorsStep
<1> QED
  BY <1>2, <1>3, <1>4 DEF Inv

\* The invariant holds for ever.
LEMMA InvHolds == Spec => []Inv
<1>1. Init => Inv
  BY InvInit
<1>2. Inv /\ [Next]_vars => Inv'
  BY InvStep
<1> QED
  BY <1>1, <1>2, PTL DEF Spec

\* Only three calls touch a record.
LEMMA FileMoves ==
    ASSUME [Next]_vars
    PROVE  \/ file' = file
           \/ \E t \in Thread : WriteText(t) \/ Rename(t) \/ \E i \in Id : Delete(t, i)
<1>1. ASSUME NEW t \in Thread, NEW i \in Id, SavePosition(t, i) PROVE file' = file
  BY <1>1 DEF SavePosition
<1>2. ASSUME NEW t \in Thread, NEW i \in Id, NEW b \in Body, Create(t, i, b) PROVE file' = file
  BY <1>2 DEF Create
<1>3. ASSUME NEW t \in Thread, NEW i \in Id, NEW op, FindRecord(t, op, i) PROVE file' = file
  BY <1>3 DEF FindRecord
<1>4. ASSUME NEW t \in Thread,
             ReadRecord(t) \/ AimCamera(t) \/ OpenTemp(t) \/ DiskFails(t) \/ DeleteFails(t)
               \/ ListNext(t) \/ ListEnds(t)
      PROVE  file' = file
  BY <1>4 DEF ReadRecord, AimCamera, OpenTemp, DiskFails, DeleteFails, ListNext, ListEnds
<1>5. ASSUME NEW t \in Thread, NEW kind, List(t, kind) PROVE file' = file
  BY <1>5 DEF List
<1>6. ASSUME SetView \/ Crash \/ UNCHANGED vars PROVE file' = file
  BY <1>6 DEF SetView, Crash, vars
<1> QED
  BY <1>1, <1>2, <1>3, <1>4, <1>5, <1>6, Acts

\* What a step does to one record: it appears by its creation or by an update that lost it,
\* and keeps its time of creation.
LEMMA PlaceStep ==
    ASSUME Inv, [Next]_vars, NEW i \in Id
    PROVE  /\ file[i] = NoFile /\ file'[i] # NoFile =>
                \E t \in Thread : /\ thread[t].id = i /\ thread[t].pc = "rename"
                                  /\ thread[t].op = "create" \/ thread[t].gone
           /\ IsWhole(file[i]) /\ IsWhole(file'[i]) => file'[i].created = file[i].created
<1>1. TypeOK /\ ThreadShape /\ GoneIsKnown /\ CreatedOnce
  BY DEF Inv
<1>2. ASSUME NEW x \in Content, Copy(i, x), file'[i] = x
      PROVE  IsWhole(file[i]) /\ IsWhole(file'[i]) => file'[i].created = file[i].created
  <2>1. file[i] \in Content /\ Copy(i, file[i])
    BY <1>1 DEF TypeOK, Copy
  <2> QED
    BY <1>1, <1>2, <2>1 DEF CreatedOnce
<1>3. ASSUME NEW t \in Thread, WriteText(t)
      PROVE  /\ file[i] = NoFile => file'[i] = NoFile
             /\ IsWhole(file[i]) /\ IsWhole(file'[i]) => file'[i].created = file[i].created
  <2> DEFINE j == thread[t].id
             d == thread[t].draft
  <2>1. \/ file' = file
        \/ thread[t].handle = "file"
             /\ \E x \in Written(file[j], d) : file' = [file EXCEPT ![j] = x]
    BY <1>3 DEF WriteText
  <2>2. \A x \in Written(file[j], d) : x = d \/ x = Mixed
    BY DEF Written
  <2>3. d \in Content /\ j \in Id
    BY <1>1, Kinds DEF TypeOK, Request
  <2>4. file'[i] = file[i]
          \/ (i = j /\ thread[t].handle = "file" /\ (file'[i] = d \/ file'[i] = Mixed))
    BY <1>1, <2>1, <2>2 DEF TypeOK
  <2>5. file[i] = NoFile => file'[i] = NoFile
    BY <1>1, <2>4 DEF GoneIsKnown
  <2>6. CASE file'[i] = d /\ i = j
    BY <1>2, <2>3, <2>5, <2>6 DEF Copy
  <2>7. CASE file'[i] = Mixed \/ file'[i] = file[i]
    BY <2>5, <2>7, Kinds
  <2> QED
    BY <2>4, <2>5, <2>6, <2>7
<1>4. ASSUME NEW t \in Thread, Rename(t)
      PROVE  /\ file[i] = NoFile /\ file'[i] # NoFile =>
                  \E v \in Thread : /\ thread[v].id = i /\ thread[v].pc = "rename"
                                    /\ thread[v].op = "create" \/ thread[v].gone
             /\ IsWhole(file[i]) /\ IsWhole(file'[i]) => file'[i].created = file[i].created
  <2>1. file' = file \/ file' = [file EXCEPT ![thread[t].id] = temp[thread[t].id]]
    BY <1>4 DEF Rename
  <2>2. file'[i] = file[i] \/ (i = thread[t].id /\ file'[i] = temp[i])
    BY <1>1, <2>1 DEF TypeOK
  <2>3. thread[t].pc = "rename"
    BY <1>4 DEF Rename, At
  <2>4. CASE i = thread[t].id /\ file'[i] = temp[i]
    <3>1. temp[i] \in Content /\ Copy(i, temp[i])
      BY <1>1 DEF TypeOK, Copy
    <3>2. thread[t].op = "create" \/ thread[t].gone \/ file[i] # NoFile
      BY <1>1, <2>3, <2>4 DEF GoneIsKnown, Writing
    <3> QED
      BY <1>2, <2>3, <2>4, <3>1, <3>2
  <2> QED
    BY <2>2, <2>4
<1>5. ASSUME NEW t \in Thread, NEW k \in Id, Delete(t, k)
      PROVE  /\ file[i] = NoFile => file'[i] = NoFile
             /\ IsWhole(file[i]) /\ IsWhole(file'[i]) => file'[i].created = file[i].created
  <2>1. file'[i] = file[i] \/ file'[i] = NoFile
    BY <1>1, <1>5 DEF Delete, TypeOK
  <2> QED
    BY <2>1, Kinds
<1> QED
  BY <1>3, <1>4, <1>5, FileMoves

-----------------------------------------------------------------------------
(* What the specification guarantees.                                      *)

\* The variables keep their types, and a thread holds a handle exactly while it is about to
\* write.
THEOREM TypeCorrect == Spec => []TypeOK
<1>1. Inv => TypeOK
  BY DEF Inv
<1> QED
  BY <1>1, InvHolds, PTL

\* What is read from the directory is whole, unless two updates of a record had its temporary
\* file open at once, and all of it but what the disk refuses to read: a list that is answered
\* lacks nothing that stayed in place and that the disk let it read (both stores, _write, get
\* and list).
THEOREM ReadersSeeWhole == Spec => []ReadersSeeWholeRecords
<1>1. Inv => ReadersSeeWholeRecords
  <2> SUFFICES ASSUME Inv
               PROVE  ReadersSeeWholeRecords
    OBVIOUS
  <2>1. RecordsAreWhole /\ ListCovers /\ ThreadShape
    BY DEF Inv
  <2>2. ASSUME NEW t \in Thread, thread[t].op = "list", thread[t].answer = "ok"
        PROVE  thread[t].stable \ shared \subseteq thread[t].seen
    <3>1. At(t, "idle")
      BY <2>1, <2>2 DEF ThreadShape, Fits, At
    <3> QED
      BY <2>1, <2>2, <3>1 DEF ListCovers
  <2> QED
    BY <2>1, <2>2 DEF ReadersSeeWholeRecords, ListIsComplete
<1> QED
  BY <1>1, InvHolds, PTL

\* A request fails with an error of the store only for a cause: its record was deleted while
\* it was served, two updates met, or the disk refused; the error of the first cause is the
\* code's own, against its docstring (both stores, get, delete and _write).
THEOREM ErrorsCaused == Spec => []ErrorsHaveACause
<1>1. Inv => ErrorsHaveACause
  BY DEF Inv
<1> QED
  BY <1>1, InvHolds, PTL

\* A record appears by its creation, or by an update that had read it before it was deleted,
\* and no update changes when it was created (core/profiles/store.py, replace).
THEOREM UpdatesInPlace == Spec => UpdatesStayInPlace
<1>1. Inv /\ [Next]_vars =>
        [\A i \in Id :
            /\ file[i] = NoFile /\ file'[i] # NoFile =>
                 \E t \in Thread : /\ thread[t].id = i /\ thread[t].pc = "rename"
                                   /\ thread[t].op = "create" \/ thread[t].gone
            /\ IsWhole(file[i]) /\ IsWhole(file'[i]) =>
                 file'[i].created = file[i].created]_vars
  BY PlaceStep
<1> QED
  BY <1>1, InvHolds, PTL DEF Spec, UpdatesStayInPlace
==============================================================================
