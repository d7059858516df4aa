------------------------- MODULE TrafficBridgeProofs -------------------------
(***************************************************************************)
(* Proofs about TrafficBridge, for any number of calls, names, commands    *)
(* and restarts, and whatever goes wrong.  The invariant Inv rests on two  *)
(* facts.  A spawn is in one place at a time - a call, the command, the    *)
(* late PATCH - and leaves the last of them for good when it takes effect. *)
(* And commands take turns: whatever carries the seq of the call in flight *)
(* is that call's own command, so the ack that fits it is its answer.      *)
(*                                                                         *)
(* Each conjunct of Inv is kept by a lemma with one step per action; what  *)
(* an action does to a call, or a frame to the aircraft, is told once, by  *)
(* the Effect lemmas.                                                      *)
(***************************************************************************)
EXTENDS TrafficBridge, TLAPS

-----------------------------------------------------------------------------
(* What a step of a call does to it.                                        *)

\* The other calls wait.
Rest(c) == \A d \in Client \ {c} : call'[d] = call[d]

\* A call goes on, as it was.
Moves(c, pc) ==
    /\ Rest(c) /\ call'[c].pc = pc /\ call'[c].op = call[c].op /\ call'[c].id = call[c].id
    /\ call'[c].seq = call[c].seq

\* A call is over.
Returns(c) ==
    Rest(c) /\ call'[c].pc = "idle" /\ call'[c].op = "read" /\ call'[c].id = NoId

\* A call that has not begun.
LEMMA IdleIsCall ==
    /\ IdleCall \in Call
    /\ IdleCall.pc = "idle" /\ IdleCall.op = "read" /\ IdleCall.id = NoId
<1>1. 0 \in 0 .. MaxSeq
  BY BridgeAssumption
<1> QED
  BY <1>1 DEF IdleCall, Call

\* One call moves ...
LEMMA MoveEffect ==
    ASSUME TypeOK, NEW c \in Client,
           NEW pc \in {"idle", "queued", "writing", "polling", "reading", "merging"},
           Move(c, pc)
    PROVE  Moves(c, pc) /\ call' \in [Client -> Call]
<1>1. PICK u \in Call : u = call[c]
  BY DEF TypeOK
<1>2. call' = [call EXCEPT ![c] = [u EXCEPT !.pc = pc]]
  BY <1>1 DEF Move
<1> DEFINE w == [u EXCEPT !.pc = pc]
<1>3. w \in Call /\ w.pc = pc /\ w.op = u.op /\ w.id = u.id /\ w.seq = u.seq
  BY DEF Call
<1> HIDE DEF w
<1>4. call'[c] = w /\ Rest(c) /\ call' \in [Client -> Call]
  BY <1>2, <1>3 DEF TypeOK, Rest, w
<1> QED
  BY <1>1, <1>3, <1>4 DEF Moves

\* ... or returns ...
LEMMA ReturnEffect ==
    ASSUME TypeOK, NEW c \in Client, Return(c)
    PROVE  Returns(c) /\ call' \in [Client -> Call]
<1>1. call'[c] = IdleCall /\ Rest(c) /\ call' \in [Client -> Call]
  BY IdleIsCall DEF Return, TypeOK, Rest
<1> QED
  BY <1>1, IdleIsCall DEF Returns

\* ... or asks for the lock ...
LEMMA AskEffect ==
    ASSUME TypeOK, NEW c \in Client, NEW op \in CallOp, NEW i \in Id \cup {NoId}, Ask(c, op, i)
    PROVE  /\ Rest(c) /\ call'[c].pc = "queued" /\ call'[c].op = op /\ call'[c].id = i
           /\ call' \in [Client -> Call]
<1> DEFINE u == [IdleCall EXCEPT !.pc = "queued", !.op = op, !.id = i]
<1>1. call' = [call EXCEPT ![c] = u]
  BY DEF Ask
<1>2. u \in Call /\ u.pc = "queued" /\ u.op = op /\ u.id = i
  BY IdleIsCall DEF Call
<1> HIDE DEF u
<1>3. call'[c] = u /\ Rest(c) /\ call' \in [Client -> Call]
  BY <1>1, <1>2 DEF TypeOK, Rest
<1> QED
  BY <1>2, <1>3

\* ... or takes it ...
LEMMA TakeEffect ==
    ASSUME TypeOK, NEW c \in Client, TakeLock(c)
    PROVE  /\ Rest(c) /\ call'[c].pc = "writing" /\ call'[c].op = call[c].op
           /\ call'[c].id = call[c].id /\ call'[c].seq = seq + 1
           /\ call' \in [Client -> Call] /\ seq + 1 \in 0 .. MaxSeq
<1>1. PICK u \in Call : u = call[c]
  BY DEF TypeOK
<1>2. seq + 1 \in 0 .. MaxSeq
  BY BridgeAssumption DEF TakeLock, TypeOK
<1>3. call' = [call EXCEPT ![c] = [u EXCEPT !.pc = "writing", !.seq = seq + 1]]
  BY <1>1 DEF TakeLock, TypeOK, Call
<1> DEFINE w == [u EXCEPT !.pc = "writing", !.seq = seq + 1]
<1>4. w \in Call /\ w.pc = "writing" /\ w.op = u.op /\ w.id = u.id /\ w.seq = seq + 1
  <2>1. w \in Call
    BY <1>2 DEF Call
  <2> QED
    BY <2>1 DEF Call
<1> HIDE DEF w
<1>5. call'[c] = w /\ Rest(c) /\ call' \in [Client -> Call]
  BY <1>3, <1>4 DEF TypeOK, Rest, w
<1> QED
  BY <1>1, <1>2, <1>4, <1>5

\* ... or sees the contacts.
LEMMA ServedEffect ==
    ASSUME TypeOK, NEW c \in Client, ContactsServed(c)
    PROVE  Moves(c, "merging") /\ call' \in [Client -> Call]
<1>1. PICK u \in Call : u = call[c]
  BY DEF TypeOK
<1>2. contacts \in SUBSET Id
  BY DEF TypeOK
<1> DEFINE w == [u EXCEPT !.pc = "merging", !.seen = contacts]
<1>3. call' = [call EXCEPT ![c] = w]
  BY <1>1 DEF ContactsServed, TypeOK, Call
<1>4. w \in Call /\ w.pc = "merging" /\ w.op = u.op /\ w.id = u.id /\ w.seq = u.seq
  BY <1>2 DEF Call
<1> HIDE DEF w
<1>5. call'[c] = w /\ Rest(c) /\ call' \in [Client -> Call]
  BY <1>3, <1>4 DEF TypeOK, Rest
<1> QED
  BY <1>1, <1>4, <1>5 DEF Moves

\* A message is a command, and its parts are those of its call.
LEMMA Commands ==
    /\ \A m \in Command : m # NoCommand /\ m.op \in CallOp /\ m.op # "none"
                          /\ m.run \in 1 .. MaxRun /\ m.seq \in 1 .. MaxSeq
    /\ NoCommand.op = "none" /\ NoCommand.run = 0
BY DEF Command, NoCommand, CallOp

\* What a call about to write sends is a command of this run, and the newest.
LEMMA Sent ==
    ASSUME TypeOK, TakesTurns, NEW c \in Client, At(c, "writing")
    PROVE  /\ CommandOf(c) \in Command
           /\ CommandOf(c).op = call[c].op /\ CommandOf(c).id = call[c].id
           /\ CommandOf(c).run = run /\ CommandOf(c).seq = seq /\ call[c].seq = seq
           /\ CommandOf(c).op # "none" /\ call[c].op \in CallOp
<1>1. call[c] \in Call /\ call[c].op \in CallOp /\ call[c].seq = seq /\ seq >= 1
  BY DEF TypeOK, TakesTurns, InFlight, At
<1>2. call[c].id \in Id \cup {NoId}
  BY <1>1 DEF Call
<1>3. seq \in 1 .. MaxSeq /\ run \in 1 .. MaxRun
  BY <1>1 DEF TypeOK
<1> QED
  BY <1>1, <1>2, <1>3 DEF CommandOf, Command, CallOp

-----------------------------------------------------------------------------
(* A frame of the plugin.                                                   *)

\* Nothing was asked; a spawn was made, or refused; something was removed.
Rests   == /\ command.op = "none" /\ ack' = ack
           /\ created' = created /\ entities' \subseteq entities
Makes   == /\ command.op = "spawn" /\ ack' \in {Answer("ok"), NoAck}
           /\ created' = created \cup {command.id}
           /\ entities' \subseteq entities \cup {command.id}
Refuses == /\ command.op = "spawn" /\ ack' = Answer("refused")
           /\ created' = created /\ entities' \subseteq entities
Removes == /\ command.op \in {"despawn", "clear_all"} /\ ack' = Answer("ok")
           /\ created' = created /\ entities' \subseteq entities
           /\ command.op = "despawn" => command.id \notin entities'
           /\ command.op = "clear_all" => entities' = {}

\* A frame obeys the command it read, once, and clears it.
LEMMA FrameEffect ==
    ASSUME TypeOK, NamesAreDrawn, FlightLoop
    PROVE  /\ Rests \/ Makes \/ Refuses \/ Removes
           /\ command' = NoCommand
           /\ contacts' = contacts \/ contacts' \subseteq entities \cup {command.id}
           /\ UNCHANGED <<enabled, adapterVars, drawn, told, misled>>
<1>1. PICK o \in Outcomes : /\ ack' = o.ack /\ created' = created \cup o.entities
                            /\ AdvanceAndPublish(o.entities)
  BY DEF FlightLoop
<1>2. /\ entities' \subseteq o.entities
      /\ contacts' = contacts \/ contacts' \subseteq o.entities
  BY <1>1 DEF AdvanceAndPublish
<1>3. entities \subseteq created
  BY DEF NamesAreDrawn
<1>4. command.op \in {"spawn", "despawn", "clear_all", "none"}
  BY Commands DEF TypeOK, CallOp
<1>5. command' = NoCommand /\ UNCHANGED <<enabled, adapterVars, drawn, told, misled>>
  BY DEF FlightLoop
<1> DEFINE Told == /\ Rests \/ Makes \/ Refuses \/ Removes
                   /\ contacts' = contacts \/ contacts' \subseteq entities \cup {command.id}
<1>6. CASE command.op = "none"
  <2>1. o = Outcome(entities, ack)
    BY <1>6 DEF Outcomes
  <2>2. o.entities = entities /\ o.ack = ack
    BY <2>1 DEF Outcome
  <2>3. Rests
    BY <1>1, <1>2, <1>3, <1>6, <2>2 DEF Rests
  <2> QED
    BY <1>2, <1>5, <2>2, <2>3
<1>7. CASE command.op = "despawn"
  <2>1. o = Outcome(entities \ {command.id}, Answer("ok"))
    BY <1>7 DEF Outcomes
  <2>2. o.entities = entities \ {command.id} /\ o.ack = Answer("ok")
    BY <2>1 DEF Outcome
  <2>3. Removes
    BY <1>1, <1>2, <1>3, <1>7, <2>2 DEF Removes
  <2> QED
    BY <1>2, <1>5, <2>2, <2>3
<1>8. CASE command.op = "clear_all"
  <2>1. o = Outcome({}, Answer("ok"))
    BY <1>8 DEF Outcomes
  <2>2. o.entities = {} /\ o.ack = Answer("ok")
    BY <2>1 DEF Outcome
  <2>3. Removes
    BY <1>1, <1>2, <1>3, <1>8, <2>2 DEF Removes
  <2> QED
    BY <1>2, <1>5, <2>2, <2>3
<1>9. CASE command.op = "spawn"
  <2> DEFINE flown == entities \cup {command.id}
  <2>1. o \in SpawnOutcomes
    BY <1>9 DEF Outcomes
  <2>2. \/ o = Outcome(entities, Answer("refused"))
        \/ o = Outcome(flown, Answer("ok"))
        \/ o = Outcome(flown, NoAck)
    BY <2>1 DEF SpawnOutcomes
  <2>3. CASE o = Outcome(entities, Answer("refused"))
    <3>1. o.entities = entities /\ o.ack = Answer("refused")
      BY <2>3 DEF Outcome
    <3>2. Refuses
      BY <1>1, <1>2, <1>3, <1>9, <3>1 DEF Refuses
    <3> QED
      BY <1>2, <1>5, <3>1, <3>2
  <2>4. CASE o = Outcome(flown, Answer("ok")) \/ o = Outcome(flown, NoAck)
    <3>1. o.entities = flown /\ o.ack \in {Answer("ok"), NoAck}
      BY <2>4 DEF Outcome
    <3>2. Makes
      BY <1>1, <1>2, <1>3, <1>9, <3>1 DEF Makes
    <3> QED
      BY <1>2, <1>5, <3>1, <3>2
  <2> QED
    BY <2>2, <2>3, <2>4
<1> QED
  BY <1>4, <1>6, <1>7, <1>8, <1>9

\* What the plugin answers with.
LEMMA Answers ==
    \A r : Answer(r).run = command.run /\ Answer(r).seq = command.seq /\ Answer(r).result = r
BY DEF Answer


\* The steps of the specification.
LEMMA Acts ==
    ASSUME [Next]_vars
    PROVE  \/ FlightLoop \/ Disable \/ Enable \/ LateWrite \/ Restart \/ UNCHANGED vars
           \/ \E c \in Client :
                \/ \E op \in CallOp, i \in Id \cup {NoId} : Ask(c, op, i)
                \/ AskContacts(c) \/ TakeLock(c) \/ CommandWritten(c) \/ GiveUp(c)
                \/ Answered(c) \/ ContactsServed(c) \/ ContactsFail(c) \/ Merge(c)
BY DEF Next, CallStep


-----------------------------------------------------------------------------
(* Names.                                                                   *)

\* What NamesAreDrawn says of the calls.
CallsNamed ==
    /\ \A c \in Client : call[c].op \in {"spawn", "despawn"} => call[c].id \in drawn
    /\ \A c, d \in Client : c # d /\ call[c].op = "spawn" /\ call[d].op = "spawn"
                              => call[c].id # call[d].id

\* A call that moves or returns names nothing new.
LEMMA CallsKept ==
    ASSUME CallsNamed, NEW c \in Client, drawn \subseteq drawn',
           Returns(c) \/ \E pc : Moves(c, pc)
    PROVE  CallsNamed'
<1>1. \A d \in Client : call'[d].op \in {"spawn", "despawn"} =>
        call'[d].op = call[d].op /\ call'[d].id = call[d].id
  BY DEF Returns, Moves, Rest
<1> QED
  BY <1>1 DEF CallsNamed


\* The caller learns the fate of its command.
LEMMA AnswerEffect ==
    ASSUME TypeOK, TakesTurns, NEW c \in Client, Answered(c)
    PROVE  /\ At(c, "polling") /\ ack.seq = call[c].seq /\ call[c].op \in CallOp
           /\ Moves(c, "reading") \/ Returns(c)
           /\ call' \in [Client -> Call] /\ holder' = Nobody
           /\ misled' = (misled \/ ack.run # run)
           /\ UNCHANGED <<pluginVars, run, bridge, seq, late, drawn, created>>
           /\ ledger' \subseteq ledger \cup {call[c].id}
           /\ call[c].op \in {"clear_all", "despawn"} => ledger' \subseteq ledger
           /\ told' \in [Id -> {"nothing", "live", "refused", "gone"}]
           /\ \A j \in Id :
                \/ told'[j] = told[j] /\ ~(call[c].op = "clear_all" /\ told[j] = "live")
                \/ /\ j = call[c].id /\ call[c].op = "spawn" /\ ack.result = "ok"
                   /\ told'[j] = "live"
                \/ /\ j = call[c].id /\ call[c].op = "spawn" /\ ack.result = "refused"
                   /\ told'[j] = "refused"
                \/ j = call[c].id /\ call[c].op = "despawn" /\ told'[j] = "gone"
                \/ call[c].op = "clear_all" /\ told[j] = "live" /\ told'[j] = "gone"
<1>1. /\ At(c, "polling") /\ ack.seq = call[c].seq /\ holder' = Nobody
      /\ misled' = (misled \/ ack.run # run) /\ Conclude(c)
      /\ UNCHANGED <<pluginVars, run, bridge, seq, late, drawn, created>>
  BY DEF Answered
<1>2. call[c].op \in CallOp
  BY <1>1 DEF TakesTurns, InFlight, At
<1>3. told \in [Id -> {"nothing", "live", "refused", "gone"}]
  BY DEF TypeOK
<1> DEFINE i == call[c].id
<1>4. CASE /\ call[c].op = "spawn" /\ ack.result = "ok" /\ ledger' = ledger \cup {i}
           /\ told' = [told EXCEPT ![i] = "live"] /\ Move(c, "reading")
  BY <1>1, <1>2, <1>3, <1>4, MoveEffect
<1>5. CASE /\ call[c].op = "spawn" /\ ack.result = "refused" /\ ledger' = ledger
           /\ told' = [told EXCEPT ![i] = "refused"] /\ Return(c)
  BY <1>1, <1>2, <1>3, <1>5, ReturnEffect
<1>6. CASE /\ call[c].op = "despawn" /\ ledger' = ledger \ {i}
           /\ told' = [told EXCEPT ![i] = "gone"] /\ Move(c, "reading")
  BY <1>1, <1>2, <1>3, <1>6, MoveEffect
<1>7. CASE /\ call[c].op = "clear_all" /\ ledger' = {} /\ Move(c, "reading")
           /\ told' = [j \in Id |-> IF told[j] = "live" THEN "gone" ELSE told[j]]
  BY <1>1, <1>2, <1>3, <1>7, MoveEffect
<1> QED
  BY <1>1, <1>4, <1>5, <1>6, <1>7 DEF Conclude

\* Only names handed out are made, told of or asked about, and no two spawns share one.
LEMMA NamesStep ==
    TypeOK /\ NamesAreDrawn /\ SpawnsOnce /\ TakesTurns /\ [Next]_vars
      => NamesAreDrawn'
<1> SUFFICES ASSUME TypeOK, NamesAreDrawn, SpawnsOnce, TakesTurns, [Next]_vars
             PROVE  NamesAreDrawn'
  OBVIOUS
<1>n. CallsNamed
  BY DEF NamesAreDrawn, CallsNamed
<1>1. ASSUME FlightLoop
      PROVE  NamesAreDrawn'
  <2>1. (Rests \/ Makes \/ Refuses \/ Removes) /\ UNCHANGED <<adapterVars, drawn, told>>
    BY <1>1, FrameEffect
  <2>2. command.op = "spawn" => command.id \in drawn
    BY DEF SpawnsOnce
  <2>3. entities' \subseteq created' /\ created' \subseteq drawn
    BY <2>1, <2>2 DEF Rests, Makes, Refuses, Removes, NamesAreDrawn
  <2> QED
    BY <2>1, <2>3 DEF NamesAreDrawn, adapterVars
<1>2. ASSUME Disable
      PROVE  NamesAreDrawn'
  BY <1>2 DEF Disable, NamesAreDrawn, adapterVars, history
<1>3. ASSUME Enable
      PROVE  NamesAreDrawn'
  BY <1>3 DEF Enable, NamesAreDrawn, adapterVars, history
<1>4. ASSUME LateWrite
      PROVE  NamesAreDrawn'
  BY <1>4 DEF LateWrite, NamesAreDrawn, history
<1>5. ASSUME Restart
      PROVE  NamesAreDrawn'
  <2>1. \A c \in Client : call'[c].op = "read"
    BY <1>5, IdleIsCall DEF Restart
  <2> QED
    BY <1>5, <2>1 DEF Restart, NamesAreDrawn, history
<1>6. ASSUME NEW c \in Client, NEW op \in CallOp, NEW i \in Id \cup {NoId}, Ask(c, op, i)
      PROVE  NamesAreDrawn'
  <2>1. Rest(c) /\ call'[c].op = op /\ call'[c].id = i
    BY <1>6, AskEffect
  <2>2. /\ UNCHANGED <<entities, created, told>> /\ drawn \subseteq drawn'
        /\ op = "spawn" => i \in Id \ drawn /\ i \in drawn'
        /\ op = "despawn" => i \in drawn
    BY <1>6 DEF Ask, pluginVars, NamesAreDrawn
  <2>3. CallsNamed'
    <3>1. \A d \in Client : call'[d].op \in {"spawn", "despawn"} => call'[d].id \in drawn'
      BY <2>1, <2>2 DEF Rest, NamesAreDrawn
    <3>2. ASSUME NEW d \in Client, NEW e \in Client, d # e,
                 call'[d].op = "spawn", call'[e].op = "spawn"
          PROVE  call'[d].id # call'[e].id
      BY <2>1, <2>2, <3>2 DEF Rest, NamesAreDrawn
    <3> QED
      BY <3>1, <3>2 DEF CallsNamed
  <2> QED
    BY <2>2, <2>3 DEF NamesAreDrawn, CallsNamed
<1>7. ASSUME NEW c \in Client, AskContacts(c)
      PROVE  NamesAreDrawn'
  <2>1. Moves(c, "reading")
    BY <1>7, MoveEffect DEF AskContacts
  <2>2. UNCHANGED <<entities, created, drawn, told>>
    BY <1>7 DEF AskContacts, pluginVars, history
  <2>3. CallsNamed'
    BY <1>n, <2>1, <2>2, CallsKept
  <2> QED
    BY <2>2, <2>3 DEF NamesAreDrawn, CallsNamed
<1>8. ASSUME NEW c \in Client, TakeLock(c)
      PROVE  NamesAreDrawn'
  <2>1. Rest(c) /\ call'[c].op = call[c].op /\ call'[c].id = call[c].id
    BY <1>8, TakeEffect
  <2>2. UNCHANGED <<entities, created, drawn, told>>
    BY <1>8 DEF TakeLock, pluginVars, history
  <2>3. \A d \in Client : call'[d].op = call[d].op /\ call'[d].id = call[d].id
    BY <2>1 DEF Rest
  <2> QED
    BY <2>2, <2>3 DEF NamesAreDrawn
<1>9. ASSUME NEW c \in Client, CommandWritten(c)
      PROVE  NamesAreDrawn'
  <2>1. Moves(c, "polling")
    BY <1>9, MoveEffect DEF CommandWritten
  <2>2. UNCHANGED <<entities, created, drawn, told>>
    BY <1>9 DEF CommandWritten, pluginVars, history
  <2>3. CallsNamed'
    BY <1>n, <2>1, <2>2, CallsKept
  <2> QED
    BY <2>2, <2>3 DEF NamesAreDrawn, CallsNamed
<1>10. ASSUME NEW c \in Client, GiveUp(c)
      PROVE  NamesAreDrawn'
  <2>1. Returns(c)
    BY <1>10, ReturnEffect DEF GiveUp
  <2>2. UNCHANGED <<entities, created, drawn, told>>
    BY <1>10 DEF GiveUp, pluginVars, history
  <2>3. CallsNamed'
    BY <1>n, <2>1, <2>2, CallsKept
  <2> QED
    BY <2>2, <2>3 DEF NamesAreDrawn, CallsNamed
<1>11. ASSUME NEW c \in Client, Answered(c)
      PROVE  NamesAreDrawn'
  <2>1. Moves(c, "reading") \/ Returns(c)
    BY <1>11, AnswerEffect
  <2>2. UNCHANGED <<entities, created, drawn>>
    BY <1>11 DEF Answered, pluginVars
  <2>3. CallsNamed'
    BY <1>n, <2>1, <2>2, CallsKept
  <2>4. \A j \in Id : told'[j] # "nothing" => j \in drawn
    BY <1>11, AnswerEffect DEF NamesAreDrawn
  <2> QED
    BY <2>2, <2>3, <2>4 DEF NamesAreDrawn, CallsNamed
<1>12. ASSUME NEW c \in Client, ContactsServed(c)
      PROVE  NamesAreDrawn'
  <2>1. Moves(c, "merging")
    BY <1>12, ServedEffect DEF ContactsServed
  <2>2. UNCHANGED <<entities, created, drawn, told>>
    BY <1>12 DEF ContactsServed, pluginVars, history
  <2>3. CallsNamed'
    BY <1>n, <2>1, <2>2, CallsKept
  <2> QED
    BY <2>2, <2>3 DEF NamesAreDrawn, CallsNamed
<1>13. ASSUME NEW c \in Client, ContactsFail(c)
      PROVE  NamesAreDrawn'
  <2>1. Returns(c)
    BY <1>13, ReturnEffect DEF ContactsFail
  <2>2. UNCHANGED <<entities, created, drawn, told>>
    BY <1>13 DEF ContactsFail, pluginVars, history
  <2>3. CallsNamed'
    BY <1>n, <2>1, <2>2, CallsKept
  <2> QED
    BY <2>2, <2>3 DEF NamesAreDrawn, CallsNamed
<1>14. ASSUME NEW c \in Client, Merge(c)
      PROVE  NamesAreDrawn'
  <2>1. Returns(c)
    BY <1>14, ReturnEffect DEF Merge
  <2>2. UNCHANGED <<entities, created, drawn, told>>
    BY <1>14 DEF Merge, pluginVars, history
  <2>3. CallsNamed'
    BY <1>n, <2>1, <2>2, CallsKept
  <2> QED
    BY <2>2, <2>3 DEF NamesAreDrawn, CallsNamed
<1>15. ASSUME UNCHANGED vars PROVE NamesAreDrawn'
  BY <1>15 DEF vars, NamesAreDrawn, pluginVars, adapterVars, history
<1> QED
  BY <1>1, <1>2, <1>3, <1>4, <1>5, <1>6, <1>7, <1>8,
     <1>9, <1>10, <1>11, <1>12, <1>13, <1>14, <1>15, Acts


-----------------------------------------------------------------------------
(* Spawns.                                                                  *)

\* The calls that have a spawn to send had it before.
NoneNew == \A d \in Client : ToSpawn(d)' => ToSpawn(d) /\ call'[d].id = call[d].id

\* A call past its write has no spawn left to send.
LEMMA NoneNewIfMoved ==
    ASSUME NEW c \in Client,
           Returns(c) \/ \E pc \in {"polling", "reading", "merging"} : Moves(c, pc)
    PROVE  NoneNew /\ ~ToSpawn(c)'
<1>1. ~ToSpawn(c)'
  BY DEF ToSpawn, Returns, Moves
<1>2. \A d \in Client \ {c} : ToSpawn(d)' => ToSpawn(d) /\ call'[d].id = call[d].id
  BY DEF ToSpawn, Returns, Moves, Rest
<1> QED
  BY <1>1, <1>2 DEF NoneNew

\* A step that only drops spawns keeps each in one place.
LEMMA SpawnsKept ==
    ASSUME SpawnsOnce, created' = created, drawn' = drawn,
           command' \in {command, NoCommand}, late' \in {late, NoCommand}, NoneNew
    PROVE  SpawnsOnce'
<1>1. command'.op = "spawn" => command' = command
  BY Commands
<1>2. late'.op = "spawn" => late' = late
  BY Commands
<1>3. command'.op = "spawn" => command'.id \in drawn' \ created'
  BY <1>1 DEF SpawnsOnce
<1>4. late'.op = "spawn" =>
        late'.id \in drawn' \ created' /\ ~(command'.op = "spawn" /\ command'.id = late'.id)
  BY <1>1, <1>2 DEF SpawnsOnce, Spawns
<1>5. ASSUME NEW d \in Client, ToSpawn(d)'
      PROVE  /\ call'[d].id \in drawn' \ created'
             /\ ~(command'.op = "spawn" /\ command'.id = call'[d].id)
             /\ ~(late'.op = "spawn" /\ late'.id = call'[d].id)
  BY <1>1, <1>2, <1>5 DEF SpawnsOnce, Spawns, NoneNew
<1> QED
  BY <1>3, <1>4, <1>5 DEF SpawnsOnce, Spawns

\* A call's spawn becomes the command, or the late one.
LEMMA SpawnSent ==
    ASSUME TypeOK, NamesAreDrawn, SpawnsOnce, TakesTurns, NEW c \in Client, At(c, "writing"),
           created' = created, drawn' = drawn, NoneNew, ~ToSpawn(c)',
           \/ command' = CommandOf(c) /\ late' \in {late, NoCommand}
           \/ command' = command /\ late' = CommandOf(c)
    PROVE  SpawnsOnce'
<1> DEFINE m == CommandOf(c)
<1>1. m.op = call[c].op /\ m.id = call[c].id
  BY Sent
<1>2. m.op = "spawn" => ToSpawn(c)
  BY <1>1 DEF ToSpawn, At
<1>3. m.op = "spawn" =>
        m.id \in drawn \ created /\ ~Spawns(command, m.id) /\ ~Spawns(late, m.id)
  BY <1>1, <1>2 DEF SpawnsOnce
<1>4. ASSUME NEW d \in Client, ToSpawn(d)'
      PROVE  /\ ToSpawn(d) /\ call'[d].id = call[d].id
             /\ call[d].id \in drawn \ created
             /\ ~Spawns(command, call[d].id) /\ ~Spawns(late, call[d].id)
             /\ ~Spawns(m, call[d].id)
  <2>1. ToSpawn(d) /\ call'[d].id = call[d].id /\ d # c
    BY <1>4 DEF NoneNew
  <2>2. m.op = "spawn" => m.id # call[d].id
    BY <1>1, <2>1 DEF NamesAreDrawn, ToSpawn
  <2> QED
    BY <2>1, <2>2 DEF SpawnsOnce, Spawns
<1> HIDE DEF m
<1>5. CASE command' = m /\ late' \in {late, NoCommand}
  <2>1. late'.op = "spawn" => late' = late
    BY <1>5, Commands
  <2>2. command'.op = "spawn" => command'.id \in drawn' \ created'
    BY <1>3, <1>5
  <2>3. late'.op = "spawn" =>
          late'.id \in drawn' \ created' /\ ~(command'.op = "spawn" /\ command'.id = late'.id)
    BY <1>3, <1>5, <2>1 DEF SpawnsOnce, Spawns
  <2>4. ASSUME NEW d \in Client, ToSpawn(d)'
        PROVE  /\ call'[d].id \in drawn' \ created'
               /\ ~(command'.op = "spawn" /\ command'.id = call'[d].id)
               /\ ~(late'.op = "spawn" /\ late'.id = call'[d].id)
    BY <1>4, <1>5, <2>1, <2>4 DEF Spawns
  <2> QED
    BY <2>2, <2>3, <2>4 DEF SpawnsOnce, Spawns
<1>6. CASE command' = command /\ late' = m
  <2>2. command'.op = "spawn" => command'.id \in drawn' \ created'
    BY <1>6 DEF SpawnsOnce
  <2>3. late'.op = "spawn" =>
          late'.id \in drawn' \ created' /\ ~(command'.op = "spawn" /\ command'.id = late'.id)
    BY <1>3, <1>6 DEF Spawns
  <2>4. ASSUME NEW d \in Client, ToSpawn(d)'
        PROVE  /\ call'[d].id \in drawn' \ created'
               /\ ~(command'.op = "spawn" /\ command'.id = call'[d].id)
               /\ ~(late'.op = "spawn" /\ late'.id = call'[d].id)
    BY <1>4, <1>6, <2>4 DEF Spawns
  <2> QED
    BY <2>2, <2>3, <2>4 DEF SpawnsOnce, Spawns
<1> QED
  BY <1>5, <1>6 DEF m

\* No step puts a spawn in two places, or leaves one behind that took effect.
LEMMA SpawnsStep ==
    TypeOK /\ NamesAreDrawn /\ SpawnsOnce /\ TakesTurns /\ [Next]_vars
      => SpawnsOnce'
<1> SUFFICES ASSUME TypeOK, NamesAreDrawn, SpawnsOnce, TakesTurns, [Next]_vars
             PROVE  SpawnsOnce'
  OBVIOUS
<1>1. ASSUME FlightLoop
      PROVE  SpawnsOnce'
  <2>1. /\ Rests \/ Makes \/ Refuses \/ Removes
        /\ command' = NoCommand /\ UNCHANGED <<adapterVars, drawn>>
    BY <1>1, FrameEffect
  <2>2. NoneNew /\ late' = late
    BY <2>1 DEF NoneNew, adapterVars, ToSpawn
  <2>3. CASE Rests \/ Refuses \/ Removes
    BY <2>1, <2>2, <2>3, SpawnsKept DEF Rests, Refuses, Removes
  <2>4. CASE Makes
    <3>1. /\ command.op = "spawn" /\ command'.op # "spawn"
          /\ created' = created \cup {command.id} /\ drawn' = drawn
      BY <2>1, <2>4, Commands DEF Makes
    <3>2. late'.op = "spawn" => late'.id \in drawn' \ created'
      BY <2>2, <3>1 DEF SpawnsOnce, Spawns
    <3>3. ASSUME NEW d \in Client, ToSpawn(d)'
          PROVE  /\ call'[d].id \in drawn' \ created'
                 /\ ~(late'.op = "spawn" /\ late'.id = call'[d].id)
      BY <2>2, <3>1, <3>3 DEF SpawnsOnce, Spawns, NoneNew
    <3> QED
      BY <3>1, <3>2, <3>3 DEF SpawnsOnce, Spawns
  <2> QED
    BY <2>1, <2>3, <2>4
<1>2. ASSUME Disable
      PROVE  SpawnsOnce'
  <2>1. NoneNew /\ UNCHANGED <<command, late, created, drawn>>
    BY <1>2 DEF Disable, adapterVars, history, NoneNew, ToSpawn
  <2> QED
    BY <2>1, SpawnsKept
<1>3. ASSUME Enable
      PROVE  SpawnsOnce'
  <2>1. NoneNew /\ UNCHANGED <<command, late, created, drawn>>
    BY <1>3 DEF Enable, adapterVars, history, NoneNew, ToSpawn
  <2> QED
    BY <2>1, SpawnsKept
<1>4. ASSUME LateWrite
      PROVE  SpawnsOnce'
  <2>1. /\ NoneNew /\ UNCHANGED <<created, drawn>>
        /\ command' = late /\ late' = NoCommand /\ late'.op # "spawn"
    BY <1>4, Commands DEF LateWrite, history, NoneNew, ToSpawn
  <2>2. command'.op = "spawn" => command'.id \in drawn' \ created'
    BY <2>1 DEF SpawnsOnce
  <2>3. ASSUME NEW d \in Client, ToSpawn(d)'
        PROVE  /\ call'[d].id \in drawn' \ created'
               /\ ~(command'.op = "spawn" /\ command'.id = call'[d].id)
    BY <2>1, <2>3 DEF SpawnsOnce, Spawns, NoneNew
  <2> QED
    BY <2>1, <2>2, <2>3 DEF SpawnsOnce, Spawns
<1>5. ASSUME Restart
      PROVE  SpawnsOnce'
  <2>1. \A d \in Client : ~ToSpawn(d)'
    BY <1>5, IdleIsCall DEF Restart, ToSpawn
  <2>2. /\ UNCHANGED <<created, drawn>> /\ late' = NoCommand /\ NoneNew
        /\ \/ command' = command
           \/ \E c \in Client : At(c, "writing") /\ command' = CommandOf(c)
           \/ command' = late
    BY <1>5, <2>1 DEF Restart, history, NoneNew
  <2>3. CASE command' = command
    BY <2>2, <2>3, SpawnsKept
  <2>4. ASSUME NEW c \in Client, At(c, "writing"), command' = CommandOf(c)
        PROVE  SpawnsOnce'
    BY <2>1, <2>2, <2>4, SpawnSent
  <2>5. CASE command' = late
    <3>1. command'.op = "spawn" => command'.id \in drawn' \ created'
      BY <2>2, <2>5 DEF SpawnsOnce
    <3>2. late'.op # "spawn"
      BY <2>2, Commands
    <3> QED
      BY <2>1, <3>1, <3>2 DEF SpawnsOnce
  <2> QED
    BY <2>2, <2>3, <2>4, <2>5
<1>6. ASSUME NEW c \in Client, NEW op \in CallOp, NEW i \in Id \cup {NoId}, Ask(c, op, i)
      PROVE  SpawnsOnce'
  <2>1. Rest(c) /\ call'[c].pc = "queued" /\ call'[c].op = op /\ call'[c].id = i
    BY <1>6, AskEffect
  <2>2. /\ UNCHANGED <<command, late, created>> /\ drawn \subseteq drawn'
        /\ op = "spawn" => i \in drawn' \ drawn
    BY <1>6 DEF Ask, pluginVars
  <2>3. command'.op = "spawn" => command'.id \in drawn \ created
    BY <2>2 DEF SpawnsOnce
  <2>4. late'.op = "spawn" =>
          late'.id \in drawn \ created /\ ~(command'.op = "spawn" /\ command'.id = late'.id)
    BY <2>2 DEF SpawnsOnce, Spawns
  <2>5. ASSUME NEW d \in Client, ToSpawn(d)'
        PROVE  /\ call'[d].id \in drawn' \ created'
               /\ ~(command'.op = "spawn" /\ command'.id = call'[d].id)
               /\ ~(late'.op = "spawn" /\ late'.id = call'[d].id)
    <3>1. CASE d = c
      <4>1. call'[d].id = i /\ op = "spawn"
        BY <2>1, <2>5, <3>1 DEF ToSpawn
      <4> QED
        BY <2>2, <2>3, <2>4, <4>1 DEF NamesAreDrawn
    <3>2. CASE d # c
      <4>1. ToSpawn(d) /\ call'[d] = call[d]
        BY <2>1, <2>5, <3>2 DEF ToSpawn, Rest
      <4> QED
        BY <2>2, <4>1 DEF SpawnsOnce, Spawns
    <3> QED
      BY <3>1, <3>2
  <2> QED
    BY <2>2, <2>3, <2>4, <2>5 DEF SpawnsOnce, Spawns
<1>7. ASSUME NEW c \in Client, AskContacts(c)
      PROVE  SpawnsOnce'
  <2>1. Moves(c, "reading")
    BY <1>7, MoveEffect DEF AskContacts
  <2>2. UNCHANGED <<command, late, created, drawn>>
    BY <1>7 DEF AskContacts, pluginVars, history
  <2> QED
    BY <2>1, <2>2, NoneNewIfMoved, SpawnsKept
<1>8. ASSUME NEW c \in Client, TakeLock(c)
      PROVE  SpawnsOnce'
  <2>1. /\ Rest(c) /\ call'[c].op = call[c].op /\ call'[c].id = call[c].id
        /\ call[c].pc = "queued"
    BY <1>8, TakeEffect DEF TakeLock, At
  <2>2. UNCHANGED <<command, late, created, drawn>>
    BY <1>8 DEF TakeLock, pluginVars, history
  <2>3. NoneNew
    BY <2>1 DEF Rest, NoneNew, ToSpawn
  <2> QED
    BY <2>2, <2>3, SpawnsKept
<1>9. ASSUME NEW c \in Client, CommandWritten(c)
      PROVE  SpawnsOnce'
  <2>1. Moves(c, "polling")
    BY <1>9, MoveEffect DEF CommandWritten
  <2>2. At(c, "writing") /\ command' = CommandOf(c) /\ UNCHANGED <<late, created, drawn>>
    BY <1>9 DEF CommandWritten, history
  <2>3. NoneNew /\ ~ToSpawn(c)'
    BY <2>1, NoneNewIfMoved
  <2> QED
    BY <2>2, <2>3, SpawnSent
<1>10. ASSUME NEW c \in Client, GiveUp(c)
      PROVE  SpawnsOnce'
  <2>1. Returns(c)
    BY <1>10, ReturnEffect DEF GiveUp
  <2>2. /\ UNCHANGED <<created, drawn>>
        /\ \/ command' = command /\ late' = late
           \/ At(c, "writing") /\ command' = CommandOf(c) /\ late' = late
           \/ At(c, "writing") /\ command' = command /\ late' = CommandOf(c)
    BY <1>10 DEF GiveUp, history
  <2>3. NoneNew /\ ~ToSpawn(c)'
    BY <2>1, NoneNewIfMoved
  <2>4. CASE command' = command /\ late' = late
    BY <2>2, <2>3, <2>4, SpawnsKept
  <2>5. CASE At(c, "writing") /\ command' = CommandOf(c) /\ late' = late
    BY <2>2, <2>3, <2>5, SpawnSent
  <2>6. CASE At(c, "writing") /\ command' = command /\ late' = CommandOf(c)
    BY <2>2, <2>3, <2>6, SpawnSent
  <2> QED
    BY <2>2, <2>4, <2>5, <2>6
<1>11. ASSUME NEW c \in Client, Answered(c)
      PROVE  SpawnsOnce'
  <2>1. Moves(c, "reading") \/ Returns(c)
    BY <1>11, AnswerEffect
  <2>2. UNCHANGED <<command, late, created, drawn>>
    BY <1>11 DEF Answered, pluginVars
  <2> QED
    BY <2>1, <2>2, NoneNewIfMoved, SpawnsKept
<1>12. ASSUME NEW c \in Client, ContactsServed(c)
      PROVE  SpawnsOnce'
  <2>1. Moves(c, "merging")
    BY <1>12, ServedEffect DEF ContactsServed
  <2>2. UNCHANGED <<command, late, created, drawn>>
    BY <1>12 DEF ContactsServed, pluginVars, history
  <2> QED
    BY <2>1, <2>2, NoneNewIfMoved, SpawnsKept
<1>13. ASSUME NEW c \in Client, ContactsFail(c)
      PROVE  SpawnsOnce'
  <2>1. Returns(c)
    BY <1>13, ReturnEffect DEF ContactsFail
  <2>2. UNCHANGED <<command, late, created, drawn>>
    BY <1>13 DEF ContactsFail, pluginVars, history
  <2> QED
    BY <2>1, <2>2, NoneNewIfMoved, SpawnsKept
<1>14. ASSUME NEW c \in Client, Merge(c)
      PROVE  SpawnsOnce'
  <2>1. Returns(c)
    BY <1>14, ReturnEffect DEF Merge
  <2>2. UNCHANGED <<command, late, created, drawn>>
    BY <1>14 DEF Merge, pluginVars, history
  <2> QED
    BY <2>1, <2>2, NoneNewIfMoved, SpawnsKept
<1>15. ASSUME UNCHANGED vars PROVE SpawnsOnce'
  <2>1. NoneNew /\ UNCHANGED <<command, late, created, drawn>>
    BY <1>15 DEF vars, pluginVars, adapterVars, history, NoneNew, ToSpawn
  <2> QED
    BY <2>1, SpawnsKept
<1> QED
  BY <1>1, <1>2, <1>3, <1>4, <1>5, <1>6, <1>7, <1>8,
     <1>9, <1>10, <1>11, <1>12, <1>13, <1>14, <1>15, Acts


-----------------------------------------------------------------------------
(* Turns.                                                                   *)

\* Runs and seqs are integers, and a message of run 0 is none of this run's.
LEMMA Numbers ==
    ASSUME TypeOK
    PROVE  /\ run \in Nat /\ run >= 1 /\ seq \in Nat
           /\ command.run \in Nat /\ command.seq \in Nat
           /\ late.run \in Nat /\ late.seq \in Nat
           /\ ack.run \in Nat /\ ack.seq \in Nat
           /\ NoCommand.run = 0 /\ NoCommand.op = "none" /\ NoAck.run = 0
           /\ \A c \in Client : call[c].seq \in Nat
<1>1. run \in Nat /\ run >= 1 /\ seq \in Nat
  BY DEF TypeOK
<1>2. \A m \in Command \cup {NoCommand} : m.run \in Nat /\ m.seq \in Nat
  BY DEF Command, NoCommand
<1>3. ack.run \in Nat /\ ack.seq \in Nat
  BY DEF TypeOK, Ack
<1>4. \A c \in Client : call[c].seq \in Nat
  BY DEF TypeOK, Call
<1> QED
  BY <1>1, <1>2, <1>3, <1>4 DEF TypeOK, NoCommand, NoAck

\* The last conjunct of TakesTurns, of one call.
TurnOf(c) ==
    /\ call[c].seq = seq /\ seq >= 1
    /\ late.op # "none" => late.seq < seq
    /\ At(c, "writing") => /\ command.run = run => command.seq < seq
                           /\ ack.run = run => ack.seq < seq
    /\ At(c, "polling") /\ command.run = run /\ command.seq = seq =>
         command = CommandOf(c) /\ (ack.run = run => ack.seq < seq)

\* A call in flight is alone in flight.
LEMMA Alone ==
    ASSUME TakesTurns
    PROVE  /\ \A c \in Client : InFlight(c) => holder = c /\ TurnOf(c) /\ call[c].op \in CallOp
           /\ \A c, d \in Client : InFlight(c) /\ d # c => ~InFlight(d)
           /\ holder = Nobody => \A c \in Client : ~InFlight(c)
<1>1. \A c \in Client : InFlight(c) => holder = c
  BY DEF TakesTurns, OneInFlight, InFlight, At
<1>2. \A c \in Client : InFlight(c) => TurnOf(c) /\ call[c].op \in CallOp
  BY DEF TakesTurns, TurnOf
<1> QED
  BY <1>1, <1>2, BridgeAssumption

\* TakesTurns from its parts.
LEMMA TurnsHold ==
    ASSUME \A c \in Client : InFlight(c)' => holder' = c /\ TurnOf(c)',
           \A c \in Client : (InFlight(c) \/ At(c, "queued"))' => call'[c].op \in CallOp,
           command'.op # "none" =>
             command'.run <= run' /\ (command'.run = run' => command'.seq <= seq'),
           late'.op # "none" => late'.run = run' /\ late'.seq <= seq',
           ack'.run <= run' /\ (ack'.run = run' => ack'.seq <= seq')
    PROVE  TakesTurns'
<1>1. OneInFlight'
  BY DEF OneInFlight, InFlight, At
<1>2. \A c \in Client : InFlight(c)' => TurnOf(c)'
  OBVIOUS
<1> QED
  BY <1>1, <1>2 DEF TakesTurns, TurnOf

\* The calls in flight are in flight already, as they were; the calls that wait for
\* the lock have something to send.
Flying == /\ \A d \in Client : InFlight(d)' =>
               /\ InFlight(d) /\ holder' = d
               /\ call'[d].pc = call[d].pc /\ call'[d].op = call[d].op
               /\ call'[d].id = call[d].id /\ call'[d].seq = call[d].seq
          /\ \A d \in Client : At(d, "queued")' => call'[d].op \in CallOp

\* A step that sends nothing lets nothing out of turn.
LEMMA TurnsKept ==
    ASSUME TypeOK, TakesTurns, UNCHANGED <<run, seq, ack>>, Flying,
           command' \in {command, NoCommand}, late' \in {late, NoCommand}
    PROVE  TakesTurns'
<1>1. ASSUME NEW d \in Client, InFlight(d)'
      PROVE  holder' = d /\ TurnOf(d)' /\ call'[d].op \in CallOp
  <2>1. /\ InFlight(d) /\ holder' = d /\ call'[d].pc = call[d].pc /\ call'[d].op = call[d].op
        /\ call'[d].id = call[d].id /\ call'[d].seq = call[d].seq
        /\ TurnOf(d) /\ call[d].op \in CallOp
    BY <1>1, Alone DEF Flying
  <2>2. late'.op # "none" => late'.seq < seq'
    BY <2>1, Numbers DEF TurnOf
  <2>3. At(d, "writing")' => /\ command'.run = run' => command'.seq < seq'
                             /\ ack'.run = run' => ack'.seq < seq'
    BY <2>1, Numbers DEF TurnOf, At
  <2>4. ASSUME At(d, "polling")', command'.run = run', command'.seq = seq'
        PROVE  command' = CommandOf(d)' /\ (ack'.run = run' => ack'.seq < seq')
    <3>1. command' = command /\ At(d, "polling")
      BY <2>1, <2>4, Numbers DEF At
    <3>2. CommandOf(d)' = CommandOf(d)
      BY <2>1 DEF CommandOf
    <3> QED
      BY <2>1, <2>4, <3>1, <3>2 DEF TurnOf
  <2> QED
    BY <2>1, <2>2, <2>3, <2>4 DEF TurnOf
<1>2. \A c \in Client : (InFlight(c) \/ At(c, "queued"))' => call'[c].op \in CallOp
  BY <1>1 DEF Flying
<1>3. command'.op # "none" =>
        command'.run <= run' /\ (command'.run = run' => command'.seq <= seq')
  BY Numbers DEF TakesTurns
<1>4. late'.op # "none" => late'.run = run' /\ late'.seq <= seq'
  BY Numbers DEF TakesTurns
<1>5. ack'.run <= run' /\ (ack'.run = run' => ack'.seq <= seq')
  BY DEF TakesTurns
<1> QED
  BY <1>1, <1>2, <1>3, <1>4, <1>5, TurnsHold

\* One call moves out of flight, or stays out of it.
LEMMA FlyingIfMoved ==
    ASSUME TakesTurns, NEW c \in Client,
           Returns(c) \/ \E pc \in {"reading", "merging"} : Moves(c, pc),
           holder' = holder \/ (holder' = Nobody /\ InFlight(c))
    PROVE  Flying /\ ~InFlight(c)'
<1>1. ~InFlight(c)' /\ ~At(c, "queued")' /\ Rest(c)
  BY DEF InFlight, At, Returns, Moves
<1>2. ASSUME NEW d \in Client, InFlight(d)'
      PROVE  d # c /\ InFlight(d) /\ holder' = d /\ call'[d] = call[d]
  <2>1. d # c /\ call'[d] = call[d] /\ InFlight(d)
    BY <1>1, <1>2 DEF InFlight, Rest
  <2> QED
    BY <2>1, Alone
<1>3. ASSUME NEW d \in Client, At(d, "queued")'
      PROVE  call'[d].op \in CallOp
  BY <1>1, <1>3 DEF At, Rest, TakesTurns
<1> QED
  BY <1>1, <1>2, <1>3 DEF Flying

\* No step lets a command out of turn.
LEMMA TurnsStep ==
    TypeOK /\ NamesAreDrawn /\ TakesTurns /\ [Next]_vars
      => TakesTurns'
<1> SUFFICES ASSUME TypeOK, NamesAreDrawn, TakesTurns, [Next]_vars
             PROVE  TakesTurns'
  OBVIOUS
<1>1. ASSUME FlightLoop
      PROVE  TakesTurns'
  <2>1. /\ Rests \/ Makes \/ Refuses \/ Removes
        /\ command' = NoCommand /\ UNCHANGED <<adapterVars, drawn>>
    BY <1>1, FrameEffect
  <2>2. UNCHANGED <<run, seq, holder, call, late>>
    BY <2>1 DEF adapterVars
  <2>3. Flying
    BY <2>2, Alone DEF Flying, InFlight, At, TakesTurns
  <2>4. CASE Rests
    BY <2>1, <2>2, <2>3, <2>4, TurnsKept DEF Rests
  <2>5. CASE Makes \/ Refuses \/ Removes
    <3>1. /\ command.op # "none"
          /\ \/ ack'.run = command.run /\ ack'.seq = command.seq
             \/ ack'.run = 0
      BY <2>5, Answers, Numbers DEF Makes, Refuses, Removes
    <3>2. ack'.run <= run' /\ (ack'.run = run' => ack'.seq <= seq')
      BY <2>2, <3>1, Numbers DEF TakesTurns
    <3>3. ASSUME NEW d \in Client, InFlight(d)'
          PROVE  holder' = d /\ TurnOf(d)'
      <4>1. InFlight(d) /\ holder = d /\ TurnOf(d)
        BY <2>2, <3>3, Alone DEF InFlight
      <4>2. command'.run # run'
        BY <2>1, <2>2, Numbers
      <4>3. At(d, "writing") => (ack'.run = run => ack'.seq < seq)
        BY <3>1, <4>1, Numbers DEF TurnOf
      <4> QED
        BY <2>2, <4>1, <4>2, <4>3 DEF TurnOf, At
    <3>4. \A d \in Client : (InFlight(d) \/ At(d, "queued"))' => call'[d].op \in CallOp
      BY <2>2 DEF TakesTurns, InFlight, At
    <3>5. command'.op = "none"
      BY <2>1, Numbers
    <3>6. late'.op # "none" => late'.run = run' /\ late'.seq <= seq'
      BY <2>2 DEF TakesTurns
    <3> QED
      BY <3>2, <3>3, <3>4, <3>5, <3>6, TurnsHold
  <2> QED
    BY <2>1, <2>4, <2>5
<1>2. ASSUME Disable
      PROVE  TakesTurns'
  <2>1. UNCHANGED <<run, seq, ack, command, late, holder, call>>
    BY <1>2 DEF Disable, adapterVars
  <2>2. Flying
    BY <2>1, Alone DEF Flying, InFlight, At, TakesTurns
  <2> QED
    BY <2>1, <2>2, TurnsKept
<1>3. ASSUME Enable
      PROVE  TakesTurns'
  <2>1. UNCHANGED <<run, seq, ack, command, late, holder, call>>
    BY <1>3 DEF Enable, adapterVars
  <2>2. Flying
    BY <2>1, Alone DEF Flying, InFlight, At, TakesTurns
  <2> QED
    BY <2>1, <2>2, TurnsKept
<1>4. ASSUME LateWrite
      PROVE  TakesTurns'
  <2>1. /\ UNCHANGED <<run, seq, ack, holder, call>>
        /\ command' = late /\ late' = NoCommand
    BY <1>4 DEF LateWrite, TransportVars
  <2>3. ASSUME NEW d \in Client, InFlight(d)'
        PROVE  holder' = d /\ TurnOf(d)'
    <3>1. InFlight(d) /\ holder = d /\ TurnOf(d)
      BY <2>1, <2>3, Alone DEF InFlight
    <3>2. command'.run = run => command'.seq < seq
      <4>1. CASE late.op # "none"
        BY <2>1, <3>1, <4>1 DEF TurnOf
      <4>2. CASE late.op = "none"
        <5>1. late.run = 0
          BY <4>2, Commands, Numbers DEF TypeOK
        <5> QED
          BY <2>1, <5>1, Numbers
      <4> QED
        BY <4>1, <4>2
    <3>3. ~(command'.run = run' /\ command'.seq = seq')
      BY <2>1, <3>2, Numbers
    <3>4. late'.op = "none"
      BY <2>1, Numbers
    <3> QED
      BY <2>1, <3>1, <3>2, <3>3, <3>4 DEF TurnOf, At
  <2>4. \A d \in Client : (InFlight(d) \/ At(d, "queued"))' => call'[d].op \in CallOp
    BY <2>1 DEF TakesTurns, InFlight, At
  <2>5. command'.op # "none" =>
          command'.run <= run' /\ (command'.run = run' => command'.seq <= seq')
    BY <2>1, Numbers DEF TakesTurns
  <2>6. late'.op = "none"
    BY <2>1, Numbers
  <2>7. ack'.run <= run' /\ (ack'.run = run' => ack'.seq <= seq')
    BY <2>1 DEF TakesTurns
  <2> QED
    BY <2>3, <2>4, <2>5, <2>6, <2>7, TurnsHold
<1>5. ASSUME Restart
      PROVE  TakesTurns'
  <2>1. \A d \in Client : ~InFlight(d)' /\ ~At(d, "queued")'
    BY <1>5, IdleIsCall DEF Restart, InFlight, At
  <2>2. /\ run' = run + 1 /\ ack' = ack /\ late' = NoCommand
        /\ \/ command' = command
           \/ \E c \in Client : At(c, "writing") /\ command' = CommandOf(c)
           \/ command' = late
    BY <1>5 DEF Restart
  <2>3. command'.op # "none" => command'.run <= run
    <3>1. CASE command' = command
      BY <3>1 DEF TakesTurns
    <3>2. ASSUME NEW c \in Client, At(c, "writing"), command' = CommandOf(c)
          PROVE  command'.run <= run
      BY <3>2, Sent, Numbers
    <3>3. CASE command' = late
      BY <3>3, Numbers DEF TakesTurns
    <3> QED
      BY <2>2, <3>1, <3>2, <3>3
  <2>4. command'.op # "none" =>
          command'.run <= run' /\ (command'.run = run' => command'.seq <= seq')
    <3>1. command'.op # "none" => command'.run \in Nat
      <4>1. CASE command' = command
        BY <4>1, Numbers
      <4>2. ASSUME NEW c \in Client, At(c, "writing"), command' = CommandOf(c)
            PROVE  command'.run \in Nat
        BY <4>2, Sent, Numbers
      <4>3. CASE command' = late
        BY <4>3, Numbers
      <4> QED
        BY <2>2, <4>1, <4>2, <4>3
    <3> QED
      BY <2>2, <2>3, <3>1, Numbers
  <2>5. late'.op = "none"
    BY <2>2, Numbers
  <2>6. ack'.run <= run' /\ (ack'.run = run' => ack'.seq <= seq')
    BY <2>2, Numbers DEF TakesTurns
  <2> QED
    BY <2>1, <2>4, <2>5, <2>6, TurnsHold
<1>6. ASSUME NEW c \in Client, NEW op \in CallOp, NEW i \in Id \cup {NoId}, Ask(c, op, i)
      PROVE  TakesTurns'
  <2>1. Rest(c) /\ call'[c].pc = "queued" /\ call'[c].op = op
    BY <1>6, AskEffect
  <2>2. UNCHANGED <<run, seq, ack, command, late, holder>>
    BY <1>6 DEF Ask, pluginVars, TransportVars
  <2>3. Flying
    <3>1. ASSUME NEW d \in Client, InFlight(d)'
          PROVE  InFlight(d) /\ holder' = d /\ call'[d] = call[d]
      <4>1. d # c /\ call'[d] = call[d]
        BY <2>1, <3>1 DEF InFlight, Rest
      <4> QED
        BY <2>2, <3>1, <4>1, Alone DEF InFlight
    <3>2. ASSUME NEW d \in Client, At(d, "queued")'
          PROVE  call'[d].op \in CallOp
      BY <1>6, <2>1, <3>2 DEF At, Rest, TakesTurns
    <3> QED
      BY <3>1, <3>2 DEF Flying
  <2> QED
    BY <2>2, <2>3, TurnsKept
<1>7. ASSUME NEW c \in Client, AskContacts(c)
      PROVE  TakesTurns'
  <2>1. Moves(c, "reading")
    BY <1>7, MoveEffect DEF AskContacts
  <2>2. UNCHANGED <<run, seq, ack, command, late, holder>>
    BY <1>7 DEF AskContacts, pluginVars, TransportVars
  <2>3. Flying
    BY <2>1, <2>2, FlyingIfMoved
  <2> QED
    BY <2>2, <2>3, TurnsKept
<1>8. ASSUME NEW c \in Client, TakeLock(c)
      PROVE  TakesTurns'
  <2>1. /\ Rest(c) /\ call'[c].pc = "writing" /\ call'[c].op = call[c].op
        /\ call'[c].seq = seq + 1
    BY <1>8, TakeEffect
  <2>2. /\ UNCHANGED <<run, ack, command, late>> /\ holder' = c /\ seq' = seq + 1
        /\ At(c, "queued") /\ \A d \in Client : ~InFlight(d)
    BY <1>8, Alone DEF TakeLock, pluginVars
  <2>3. \A d \in Client : InFlight(d)' => d = c
    BY <2>1, <2>2 DEF InFlight, Rest
  <2>4. TurnOf(c)'
    <3>1. late'.op # "none" => late'.seq < seq'
      BY <2>2, Numbers DEF TakesTurns
    <3>2. command'.run = run' => command'.seq < seq'
      <4>1. command.run = run => command.op # "none"
        BY Commands, Numbers DEF TypeOK
      <4> QED
        BY <2>2, <4>1, Numbers DEF TakesTurns
    <3>3. ack'.run = run' => ack'.seq < seq'
      BY <2>2, Numbers DEF TakesTurns
    <3>4. call'[c].seq = seq' /\ seq' >= 1 /\ ~At(c, "polling")'
      BY <2>1, <2>2, Numbers DEF At
    <3> QED
      BY <3>1, <3>2, <3>3, <3>4 DEF TurnOf
  <2>5. \A d \in Client : (InFlight(d) \/ At(d, "queued"))' => call'[d].op \in CallOp
    <3>1. \A d \in Client : d # c /\ At(d, "queued")' => call'[d].op \in CallOp
      BY <2>1 DEF Rest, At, TakesTurns
    <3>2. call'[c].op \in CallOp
      BY <2>1, <2>2 DEF TakesTurns
    <3> QED
      BY <2>3, <3>1, <3>2
  <2>6. command'.op # "none" =>
          command'.run <= run' /\ (command'.run = run' => command'.seq <= seq')
    BY <2>2, Numbers DEF TakesTurns
  <2>7. late'.op # "none" => late'.run = run' /\ late'.seq <= seq'
    BY <2>2, Numbers DEF TakesTurns
  <2>8. ack'.run <= run' /\ (ack'.run = run' => ack'.seq <= seq')
    BY <2>2, Numbers DEF TakesTurns
  <2>9. \A d \in Client : InFlight(d)' => holder' = d /\ TurnOf(d)'
    BY <2>2, <2>3, <2>4
  <2> QED
    BY <2>5, <2>6, <2>7, <2>8, <2>9, TurnsHold
<1>9. ASSUME NEW c \in Client, CommandWritten(c)
      PROVE  TakesTurns'
  <2>1. Moves(c, "polling")
    BY <1>9, MoveEffect DEF CommandWritten
  <2>2. /\ UNCHANGED <<run, seq, ack, late, holder>> /\ command' = CommandOf(c)
        /\ At(c, "writing") /\ InFlight(c)
    BY <1>9 DEF CommandWritten, TransportVars, At, InFlight
  <2>3. \A d \in Client : InFlight(d)' => d = c
    BY <2>1, <2>2, Alone DEF InFlight, Rest, Moves
  <2>4. holder = c /\ TurnOf(c) /\ call[c].op \in CallOp
    BY <2>2, Alone
  <2>5. TurnOf(c)'
    <3>1. CommandOf(c)' = CommandOf(c)
      BY <2>1, <2>2 DEF CommandOf, Moves
    <3>2. ack.run = run => ack.seq < seq
      BY <2>2, <2>4 DEF TurnOf
    <3>3. ~At(c, "writing")' /\ call'[c].seq = call[c].seq
      BY <2>1 DEF At, Moves
    <3> QED
      BY <2>2, <2>4, <3>1, <3>2, <3>3 DEF TurnOf
  <2>6. \A d \in Client : (InFlight(d) \/ At(d, "queued"))' => call'[d].op \in CallOp
    <3>1. \A d \in Client : d # c /\ At(d, "queued")' => call'[d].op \in CallOp
      BY <2>1 DEF Rest, Moves, At, TakesTurns
    <3>2. call'[c].op \in CallOp
      BY <2>1, <2>4 DEF Moves
    <3> QED
      BY <2>3, <3>1, <3>2
  <2>7. command'.op # "none" =>
          command'.run <= run' /\ (command'.run = run' => command'.seq <= seq')
    BY <2>2, Sent, Numbers
  <2>8. late'.op # "none" => late'.run = run' /\ late'.seq <= seq'
    BY <2>2, Numbers DEF TakesTurns
  <2>9. ack'.run <= run' /\ (ack'.run = run' => ack'.seq <= seq')
    BY <2>2, Numbers DEF TakesTurns
  <2>10. \A d \in Client : InFlight(d)' => holder' = d /\ TurnOf(d)'
    BY <2>2, <2>3, <2>4, <2>5
  <2> QED
    BY <2>6, <2>7, <2>8, <2>9, <2>10, TurnsHold
<1>10. ASSUME NEW c \in Client, GiveUp(c)
      PROVE  TakesTurns'
  <2>1. Returns(c)
    BY <1>10, ReturnEffect DEF GiveUp
  <2>2. /\ UNCHANGED <<run, seq, ack>> /\ holder' = Nobody /\ InFlight(c)
        /\ \/ command' = command /\ late' = late
           \/ At(c, "writing") /\ command' = CommandOf(c) /\ late' = late
           \/ At(c, "writing") /\ command' = command /\ late' = CommandOf(c)
    BY <1>10 DEF GiveUp, InFlight, At
  <2>3. Flying /\ ~InFlight(c)'
    BY <2>1, <2>2, FlyingIfMoved
  <2>4. CASE command' = command /\ late' = late
    BY <2>2, <2>3, <2>4, TurnsKept
  <2>5. CASE /\ At(c, "writing")
             /\ \/ command' = CommandOf(c) /\ late' = late
                \/ command' = command /\ late' = CommandOf(c)
    <3>1. \A d \in Client : ~InFlight(d)'
      BY <2>2, <2>3, Alone DEF Flying
    <3>2. CommandOf(c).run = run /\ CommandOf(c).seq = seq
      BY <2>5, Sent
    <3>3. command'.op # "none" =>
            command'.run <= run' /\ (command'.run = run' => command'.seq <= seq')
      BY <2>2, <2>5, <3>2, Numbers DEF TakesTurns
    <3>4. late'.op # "none" => late'.run = run' /\ late'.seq <= seq'
      BY <2>2, <2>5, <3>2, Numbers DEF TakesTurns
    <3>5. ack'.run <= run' /\ (ack'.run = run' => ack'.seq <= seq')
      BY <2>2, Numbers DEF TakesTurns
    <3>6. \A d \in Client : (InFlight(d) \/ At(d, "queued"))' => call'[d].op \in CallOp
      BY <2>3, <3>1 DEF Flying
    <3> QED
      BY <3>1, <3>3, <3>4, <3>5, <3>6, TurnsHold
  <2> QED
    BY <2>2, <2>4, <2>5
<1>11. ASSUME NEW c \in Client, Answered(c)
      PROVE  TakesTurns'
  <2>1. (Moves(c, "reading") \/ Returns(c)) /\ At(c, "polling") /\ holder' = Nobody
    BY <1>11, AnswerEffect
  <2>2. UNCHANGED <<run, seq, ack, command, late>>
    BY <1>11, AnswerEffect DEF pluginVars
  <2>3. Flying
    BY <2>1, FlyingIfMoved DEF InFlight, At
  <2> QED
    BY <2>2, <2>3, TurnsKept
<1>12. ASSUME NEW c \in Client, ContactsServed(c)
      PROVE  TakesTurns'
  <2>1. Moves(c, "merging")
    BY <1>12, ServedEffect DEF ContactsServed
  <2>2. UNCHANGED <<run, seq, ack, command, late, holder>>
    BY <1>12 DEF ContactsServed, pluginVars, TransportVars
  <2>3. Flying
    BY <2>1, <2>2, FlyingIfMoved
  <2> QED
    BY <2>2, <2>3, TurnsKept
<1>13. ASSUME NEW c \in Client, ContactsFail(c)
      PROVE  TakesTurns'
  <2>1. Returns(c)
    BY <1>13, ReturnEffect DEF ContactsFail
  <2>2. UNCHANGED <<run, seq, ack, command, late, holder>>
    BY <1>13 DEF ContactsFail, pluginVars, TransportVars
  <2>3. Flying
    BY <2>1, <2>2, FlyingIfMoved
  <2> QED
    BY <2>2, <2>3, TurnsKept
<1>14. ASSUME NEW c \in Client, Merge(c)
      PROVE  TakesTurns'
  <2>1. Returns(c)
    BY <1>14, ReturnEffect DEF Merge
  <2>2. UNCHANGED <<run, seq, ack, command, late, holder>>
    BY <1>14 DEF Merge, pluginVars, TransportVars
  <2>3. Flying
    BY <2>1, <2>2, FlyingIfMoved
  <2> QED
    BY <2>2, <2>3, TurnsKept
<1>15. ASSUME UNCHANGED vars PROVE TakesTurns'
  <2>1. UNCHANGED <<run, seq, ack, command, late, holder, call>>
    BY <1>15 DEF vars, pluginVars, adapterVars
  <2>2. Flying
    BY <2>1, Alone DEF Flying, InFlight, At, TakesTurns
  <2> QED
    BY <2>1, <2>2, TurnsKept
<1> QED
  BY <1>1, <1>2, <1>3, <1>4, <1>5, <1>6, <1>7, <1>8,
     <1>9, <1>10, <1>11, <1>12, <1>13, <1>14, <1>15, Acts


-----------------------------------------------------------------------------
(* What was made stays made, and no spawn comes from nowhere.               *)

\* Nothing comes back; what is new was the command's to make.
Grows ==
    /\ (created \ entities) \cap entities' = {}
    /\ created \subseteq created'
    /\ \A i \in created' : i \in created \/ Spawns(command, i)

\* No step brings an entity back, and only a spawn command makes one.
LEMMA WorldStep ==
    TypeOK /\ NamesAreDrawn /\ SpawnsOnce /\ [Next]_vars
      => Grows
<1> SUFFICES ASSUME TypeOK, NamesAreDrawn, SpawnsOnce, [Next]_vars
             PROVE  Grows
  OBVIOUS
<1>1. ASSUME FlightLoop
      PROVE  Grows
  <2>1. Rests \/ Makes \/ Refuses \/ Removes
    BY <1>1, FrameEffect
  <2>2. CASE Rests \/ Refuses \/ Removes
    BY <2>2 DEF Rests, Refuses, Removes, Grows
  <2>3. CASE Makes
    <3>1. /\ command.op = "spawn" /\ created' = created \cup {command.id}
          /\ entities' \subseteq entities \cup {command.id} /\ command.id \notin created
      BY <2>3 DEF Makes, SpawnsOnce
    <3> QED
      BY <3>1 DEF Grows, Spawns
  <2> QED
    BY <2>1, <2>2, <2>3
<1>2. ASSUME Disable
      PROVE  Grows
  BY <1>2 DEF Disable, history, Grows
<1>3. ASSUME Enable
      PROVE  Grows
  BY <1>3 DEF Enable, history, Grows
<1>4. ASSUME LateWrite
      PROVE  Grows
  BY <1>4 DEF LateWrite, history, Grows
<1>5. ASSUME Restart
      PROVE  Grows
  BY <1>5 DEF Restart, history, Grows
<1>6. ASSUME NEW c \in Client, NEW op \in CallOp, NEW i \in Id \cup {NoId}, Ask(c, op, i)
      PROVE  Grows
  BY <1>6 DEF Ask, pluginVars, history, Grows
<1>7. ASSUME NEW c \in Client, AskContacts(c)
      PROVE  Grows
  BY <1>7 DEF AskContacts, pluginVars, history, Grows
<1>8. ASSUME NEW c \in Client, TakeLock(c)
      PROVE  Grows
  BY <1>8 DEF TakeLock, pluginVars, history, Grows
<1>9. ASSUME NEW c \in Client, CommandWritten(c)
      PROVE  Grows
  BY <1>9 DEF CommandWritten, history, Grows
<1>10. ASSUME NEW c \in Client, GiveUp(c)
      PROVE  Grows
  BY <1>10 DEF GiveUp, history, Grows
<1>11. ASSUME NEW c \in Client, Answered(c)
      PROVE  Grows
  BY <1>11 DEF Answered, pluginVars, history, Grows
<1>12. ASSUME NEW c \in Client, ContactsServed(c)
      PROVE  Grows
  BY <1>12 DEF ContactsServed, pluginVars, history, Grows
<1>13. ASSUME NEW c \in Client, ContactsFail(c)
      PROVE  Grows
  BY <1>13 DEF ContactsFail, pluginVars, history, Grows
<1>14. ASSUME NEW c \in Client, Merge(c)
      PROVE  Grows
  BY <1>14 DEF Merge, pluginVars, history, Grows
<1>15. ASSUME UNCHANGED vars PROVE Grows
  BY <1>15 DEF vars, pluginVars, history, Grows
<1> QED
  BY <1>1, <1>2, <1>3, <1>4, <1>5, <1>6, <1>7, <1>8,
     <1>9, <1>10, <1>11, <1>12, <1>13, <1>14, <1>15, Acts


\* No spawn of a name already handed out is new.
NoNewSpawn == \A i \in drawn : Spawning(i)' => Spawning(i)

\* Commands come from calls, late PATCHes and nowhere else.
LEMMA SpawningKept ==
    ASSUME TypeOK, TakesTurns, NoneNew,
           \/ command' \in {command, NoCommand, late}
           \/ \E c \in Client : At(c, "writing") /\ command' = CommandOf(c),
           \/ late' \in {late, NoCommand}
           \/ \E c \in Client : At(c, "writing") /\ late' = CommandOf(c)
    PROVE  NoNewSpawn
<1>1. \A c \in Client, i \in Id : At(c, "writing") /\ Spawns(CommandOf(c), i) => Spawning(i)
  <2> SUFFICES ASSUME NEW c \in Client, NEW i \in Id, At(c, "writing"), Spawns(CommandOf(c), i)
               PROVE  Spawning(i)
    OBVIOUS
  <2>1. call[c].op = "spawn" /\ call[c].id = i
    BY Sent DEF Spawns
  <2> QED
    BY <2>1 DEF Spawning, ToSpawn, At
<1>2. SUFFICES ASSUME NEW i \in Id, Spawning(i)'
               PROVE  Spawning(i)
  BY DEF NoNewSpawn, TypeOK
<1>3. CASE Spawns(command', i)
  BY <1>1, <1>3, Commands DEF Spawning, Spawns
<1>4. CASE Spawns(late', i)
  BY <1>1, <1>4, Commands DEF Spawning, Spawns
<1>5. ASSUME NEW d \in Client, ToSpawn(d)', call'[d].id = i
      PROVE  Spawning(i)
  BY <1>5 DEF NoneNew, Spawning
<1> QED
  BY <1>2, <1>3, <1>4, <1>5 DEF Spawning, Spawns

\* No step sends a spawn that was not on its way.
LEMMA TokensStep ==
    TypeOK /\ NamesAreDrawn /\ TakesTurns /\ [Next]_vars
      => NoNewSpawn
<1> SUFFICES ASSUME TypeOK, NamesAreDrawn, TakesTurns, [Next]_vars
             PROVE  NoNewSpawn
  OBVIOUS
<1>1. ASSUME FlightLoop
      PROVE  NoNewSpawn
  <2>1. NoneNew /\ command' = NoCommand /\ late' = late
    BY <1>1, FrameEffect DEF adapterVars, NoneNew, ToSpawn
  <2> QED
    BY <2>1, SpawningKept
<1>2. ASSUME Disable
      PROVE  NoNewSpawn
  <2>1. NoneNew /\ UNCHANGED <<command, late>>
    BY <1>2 DEF Disable, adapterVars, NoneNew, ToSpawn
  <2> QED
    BY <2>1, SpawningKept
<1>3. ASSUME Enable
      PROVE  NoNewSpawn
  <2>1. NoneNew /\ UNCHANGED <<command, late>>
    BY <1>3 DEF Enable, adapterVars, NoneNew, ToSpawn
  <2> QED
    BY <2>1, SpawningKept
<1>4. ASSUME LateWrite
      PROVE  NoNewSpawn
  <2>1. NoneNew /\ command' = late /\ late' = NoCommand
    BY <1>4 DEF LateWrite, NoneNew, ToSpawn
  <2> QED
    BY <2>1, SpawningKept
<1>5. ASSUME Restart
      PROVE  NoNewSpawn
  <2>1. NoneNew
    BY <1>5, IdleIsCall DEF Restart, ToSpawn, NoneNew
  <2>2. /\ late' = NoCommand
        /\ \/ command' = command
           \/ \E c \in Client : At(c, "writing") /\ command' = CommandOf(c)
           \/ command' = late
    BY <1>5 DEF Restart
  <2> QED
    BY <2>1, <2>2, SpawningKept
<1>6. ASSUME NEW c \in Client, NEW op \in CallOp, NEW i \in Id \cup {NoId}, Ask(c, op, i)
      PROVE  NoNewSpawn
  <2>1. Rest(c) /\ call'[c].op = op /\ call'[c].id = i
    BY <1>6, AskEffect
  <2>2. UNCHANGED <<command, late>> /\ (op = "spawn" => i \notin drawn)
    BY <1>6 DEF Ask, pluginVars
  <2>3. ASSUME NEW j \in drawn, NEW d \in Client, ToSpawn(d)', call'[d].id = j
        PROVE  ToSpawn(d) /\ call[d].id = j
    <3>1. d # c
      BY <2>1, <2>2, <2>3 DEF ToSpawn
    <3> QED
      BY <2>1, <2>3, <3>1 DEF ToSpawn, Rest
  <2> QED
    BY <2>2, <2>3 DEF NoNewSpawn, Spawning, Spawns
<1>7. ASSUME NEW c \in Client, AskContacts(c)
      PROVE  NoNewSpawn
  <2>1. Moves(c, "reading")
    BY <1>7, MoveEffect DEF AskContacts
  <2>2. UNCHANGED <<command, late>>
    BY <1>7 DEF AskContacts, pluginVars
  <2> QED
    BY <2>1, <2>2, NoneNewIfMoved, SpawningKept
<1>8. ASSUME NEW c \in Client, TakeLock(c)
      PROVE  NoNewSpawn
  <2>1. /\ Rest(c) /\ call'[c].op = call[c].op /\ call'[c].id = call[c].id
        /\ call[c].pc = "queued"
    BY <1>8, TakeEffect DEF TakeLock, At
  <2>2. UNCHANGED <<command, late>>
    BY <1>8 DEF TakeLock, pluginVars
  <2>3. NoneNew
    BY <2>1 DEF Rest, NoneNew, ToSpawn
  <2> QED
    BY <2>2, <2>3, SpawningKept
<1>9. ASSUME NEW c \in Client, CommandWritten(c)
      PROVE  NoNewSpawn
  <2>1. Moves(c, "polling")
    BY <1>9, MoveEffect DEF CommandWritten
  <2>2. At(c, "writing") /\ command' = CommandOf(c) /\ late' = late
    BY <1>9 DEF CommandWritten
  <2> QED
    BY <2>1, <2>2, NoneNewIfMoved, SpawningKept
<1>10. ASSUME NEW c \in Client, GiveUp(c)
      PROVE  NoNewSpawn
  <2>1. Returns(c)
    BY <1>10, ReturnEffect DEF GiveUp
  <2>2. \/ command' = command /\ late' = late
        \/ At(c, "writing") /\ command' = CommandOf(c) /\ late' = late
        \/ At(c, "writing") /\ command' = command /\ late' = CommandOf(c)
    BY <1>10 DEF GiveUp
  <2> QED
    BY <2>1, <2>2, NoneNewIfMoved, SpawningKept
<1>11. ASSUME NEW c \in Client, Answered(c)
      PROVE  NoNewSpawn
  <2>1. Moves(c, "reading") \/ Returns(c)
    BY <1>11, AnswerEffect
  <2>2. UNCHANGED <<command, late>>
    BY <1>11 DEF Answered, pluginVars
  <2> QED
    BY <2>1, <2>2, NoneNewIfMoved, SpawningKept
<1>12. ASSUME NEW c \in Client, ContactsServed(c)
      PROVE  NoNewSpawn
  <2>1. Moves(c, "merging")
    BY <1>12, ServedEffect DEF ContactsServed
  <2>2. UNCHANGED <<command, late>>
    BY <1>12 DEF ContactsServed, pluginVars
  <2> QED
    BY <2>1, <2>2, NoneNewIfMoved, SpawningKept
<1>13. ASSUME NEW c \in Client, ContactsFail(c)
      PROVE  NoNewSpawn
  <2>1. Returns(c)
    BY <1>13, ReturnEffect DEF ContactsFail
  <2>2. UNCHANGED <<command, late>>
    BY <1>13 DEF ContactsFail, pluginVars
  <2> QED
    BY <2>1, <2>2, NoneNewIfMoved, SpawningKept
<1>14. ASSUME NEW c \in Client, Merge(c)
      PROVE  NoNewSpawn
  <2>1. Returns(c)
    BY <1>14, ReturnEffect DEF Merge
  <2>2. UNCHANGED <<command, late>>
    BY <1>14 DEF Merge, pluginVars
  <2> QED
    BY <2>1, <2>2, NoneNewIfMoved, SpawningKept
<1>15. ASSUME UNCHANGED vars PROVE NoNewSpawn
  <2>1. NoneNew /\ UNCHANGED <<command, late>>
    BY <1>15 DEF vars, pluginVars, adapterVars, NoneNew, ToSpawn
  <2> QED
    BY <2>1, SpawningKept
<1> QED
  BY <1>1, <1>2, <1>3, <1>4, <1>5, <1>6, <1>7, <1>8,
     <1>9, <1>10, <1>11, <1>12, <1>13, <1>14, <1>15, Acts


-----------------------------------------------------------------------------
(* What the callers are told.                                               *)

\* A step that tells no caller anything keeps what they were told true ...
LEMMA AnswersKept ==
    ASSUME TypeOK, NamesAreDrawn, Grows, NoNewSpawn, AnswersAreTrue, ~misled,
           \A i \in Id : told[i] = "refused" => ~Spawning(i),
           told' = told
    PROVE  /\ AnswersAreTrue'
           /\ \A i \in Id : told'[i] = "refused" => ~Spawning(i)'
<1> SUFFICES ASSUME NEW i \in Id
             PROVE  /\ told'[i] = "live"    => i \in created'
                    /\ told'[i] = "refused" => i \notin created' /\ ~Spawning(i)'
                    /\ told'[i] = "gone"    => i \in created' \ entities'
  BY DEF AnswersAreTrue
<1>1. CASE told[i] = "live"
  BY <1>1 DEF AnswersAreTrue, Grows
<1>2. CASE told[i] = "refused"
  <2>1. i \in drawn /\ i \notin created /\ ~Spawning(i)
    BY <1>2 DEF NamesAreDrawn, AnswersAreTrue
  <2>2. ~Spawning(i)'
    BY <2>1 DEF NoNewSpawn
  <2>3. i \notin created'
    BY <2>1 DEF Grows, Spawning
  <2> QED
    BY <1>2, <2>2, <2>3
<1>3. CASE told[i] = "gone"
  BY <1>3 DEF AnswersAreTrue, Grows
<1> QED
  BY <1>1, <1>2, <1>3

\* AckIsTrue, for the name the call is about.
AckSays(c, i) ==
    /\ call[c].op = "spawn" /\ ack.result = "ok" => i \in created
    /\ call[c].op = "spawn" /\ ack.result = "refused" => i \notin created /\ ~Spawning(i)
    /\ call[c].op = "despawn" => i \notin entities
    /\ call[c].op = "clear_all" => \A j \in Id : told[j] = "live" => j \notin entities

\* AckSays is AckIsTrue, before and after a step.
LEMMA AckOf ==
    ASSUME NEW c \in Client, NEW i
    PROVE  /\ i = call[c].id => (AckIsTrue(c) <=> AckSays(c, i))
           /\ i = call'[c].id => (AckSays(c, i)' => AckIsTrue(c)')
<1>1. i = call[c].id => (AckIsTrue(c) <=> AckSays(c, i))
  BY DEF AckIsTrue, AckSays
<1>2. i = call'[c].id => (AckSays(c, i)' => AckIsTrue(c)')
  BY DEF AckIsTrue, AckSays, Spawning, Spawns
<1> QED
  BY <1>1, <1>2

\* ... and the ack of a call in flight true.
LEMMA AckKept ==
    ASSUME TypeOK, NamesAreDrawn, Grows, NoNewSpawn, AnswersAreTrue,
           NEW c \in Client, AckIsTrue(c), call[c].op = "despawn" => call[c].id \in created,
           ~misled,
           ack' = ack, told' = told, call'[c].op = call[c].op, call'[c].id = call[c].id
    PROVE  AckIsTrue(c)'
<1>1. PICK i \in Id \cup {NoId} : i = call[c].id
  BY DEF TypeOK, Call
<1>2. AckSays(c, i)
  BY <1>1, AckOf
<1>3. call'[c].op = "spawn" /\ ack'.result = "ok" => i \in created'
  BY <1>2 DEF AckSays, Grows
<1>4. ASSUME call[c].op = "spawn", ack.result = "refused"
      PROVE  i \notin created' /\ ~Spawning(i)'
  <2>1. i \in drawn /\ i \notin created /\ ~Spawning(i)
    BY <1>1, <1>2, <1>4 DEF NamesAreDrawn, AckSays
  <2>2. ~Spawning(i)'
    BY <2>1 DEF NoNewSpawn
  <2>3. i \notin created'
    BY <2>1 DEF Grows, Spawning
  <2> QED
    BY <2>2, <2>3
<1>5. call'[c].op = "despawn" => i \notin entities'
  BY <1>1, <1>2 DEF AckSays, Grows
<1>6. ASSUME call[c].op = "clear_all", NEW j \in Id, told[j] = "live"
      PROVE  j \notin entities'
  BY <1>2, <1>6 DEF AckSays, Grows, AnswersAreTrue
<1>7. AckSays(c, i)'
  BY <1>3, <1>4, <1>5, <1>6 DEF AckSays
<1> QED
  BY <1>1, <1>7, AckOf


\* A step that tells no caller anything: who despawns names something made, and an
\* ack that fits a call in flight is true, or was there before.
Quiet ==
    /\ UNCHANGED <<told, misled>>
    /\ \A d \in Client : call'[d].op = "despawn" =>
         call'[d].id \in created \/ (call[d].op = "despawn" /\ call'[d].id = call[d].id)
    /\ \A d \in Client : At(d, "polling")' /\ ack'.run = run' /\ ack'.seq = call'[d].seq =>
         \/ AckIsTrue(d)'
         \/ /\ At(d, "polling") /\ ack' = ack /\ run' = run /\ call'[d].op = call[d].op
            /\ call'[d].id = call[d].id /\ call'[d].seq = call[d].seq

\* TrueSoFar, part by part.
LEMMA Told ==
    ASSUME TrueSoFar, ~misled
    PROVE  /\ AnswersAreTrue
           /\ \A i \in Id : told[i] = "refused" => ~Spawning(i)
           /\ \A c \in Client : call[c].op = "despawn" => call[c].id \in created
           /\ \A c \in Client : At(c, "polling") /\ ack.run = run /\ ack.seq = call[c].seq =>
                AckIsTrue(c)
BY DEF TrueSoFar

\* A quiet step makes no answer false.
LEMMA TrueIfQuiet ==
    ASSUME TypeOK, NamesAreDrawn, Grows, NoNewSpawn, TrueSoFar, Quiet
    PROVE  TrueSoFar'
<1> SUFFICES ASSUME ~misled'
             PROVE  /\ AnswersAreTrue'
                    /\ \A i \in Id : told'[i] = "refused" => ~Spawning(i)'
                    /\ \A c \in Client : call'[c].op = "despawn" => call'[c].id \in created'
                    /\ \A c \in Client : At(c, "polling")' /\ ack'.run = run' /\ ack'.seq = call'[c].seq =>
                         AckIsTrue(c)'
  BY DEF TrueSoFar
<1>1. ~misled /\ told' = told
  BY DEF Quiet
<1>2. /\ AnswersAreTrue
      /\ \A i \in Id : told[i] = "refused" => ~Spawning(i)
      /\ \A c \in Client : call[c].op = "despawn" => call[c].id \in created
      /\ \A c \in Client : At(c, "polling") /\ ack.run = run /\ ack.seq = call[c].seq =>
           AckIsTrue(c)
  BY <1>1, Told
<1>3. AnswersAreTrue' /\ \A i \in Id : told'[i] = "refused" => ~Spawning(i)'
  BY <1>1, <1>2, AnswersKept
<1>4. \A c \in Client : call'[c].op = "despawn" => call'[c].id \in created'
  BY <1>2 DEF Quiet, Grows
<1>5. ASSUME NEW c \in Client, At(c, "polling")', ack'.run = run', ack'.seq = call'[c].seq
      PROVE  AckIsTrue(c)'
  <2>1. \/ AckIsTrue(c)'
        \/ /\ At(c, "polling") /\ ack' = ack /\ run' = run /\ call'[c].op = call[c].op
           /\ call'[c].id = call[c].id /\ call'[c].seq = call[c].seq
    BY <1>5 DEF Quiet
  <2>2. CASE /\ At(c, "polling") /\ ack' = ack /\ run' = run /\ call'[c].op = call[c].op
             /\ call'[c].id = call[c].id /\ call'[c].seq = call[c].seq
    <3>1. AckIsTrue(c) /\ (call[c].op = "despawn" => call[c].id \in created)
      BY <1>2, <1>5, <2>2
    <3> QED
      BY <1>1, <1>2, <2>2, <3>1, AckKept
  <2> QED
    BY <2>1, <2>2
<1> QED
  BY <1>3, <1>4, <1>5

\* A call that moves on, or ends, leaves the ack of another as it was.
LEMMA QuietIfMoved ==
    ASSUME NEW c \in Client, Returns(c) \/ \E pc \in {"reading", "merging"} : Moves(c, pc),
           UNCHANGED <<ack, run, told, misled>>
    PROVE  Quiet
<1>1. \A d \in Client : call'[d].op = "despawn" =>
        call[d].op = "despawn" /\ call'[d].id = call[d].id
  BY DEF Returns, Moves, Rest
<1>2. \A d \in Client : At(d, "polling")' => d # c
  BY DEF At, Returns, Moves
<1>3. \A d \in Client : d # c => call'[d] = call[d]
  BY DEF Returns, Moves, Rest
<1> QED
  BY <1>1, <1>2, <1>3 DEF Quiet, At

\* The plugin answers the command it took with the truth.
LEMMA FrameIsTrue ==
    ASSUME TypeOK, NamesAreDrawn, SpawnsOnce, TakesTurns,
           FlightLoop, Makes \/ Refuses \/ Removes,
           NEW d \in Client, At(d, "polling"), ack'.run = run, ack'.seq = call[d].seq
    PROVE  AckIsTrue(d)'
<1>1. command' = NoCommand /\ UNCHANGED <<run, call, late>>
  BY FrameEffect DEF adapterVars
<1>2. ack'.run = command.run /\ ack'.seq = command.seq
  BY Answers, Numbers DEF Makes, Refuses, Removes
<1>3. TurnOf(d)
  BY Alone DEF At, InFlight
<1>4. command = CommandOf(d)
  BY <1>2, <1>3 DEF TurnOf
<1>5. command.op = call[d].op /\ command.id = call[d].id
  BY <1>4 DEF CommandOf
<1>6. PICK i \in Id \cup {NoId} : i = call[d].id
  BY DEF TypeOK, Call
<1>7. CASE Makes
  <2>1. ack'.result = "ok" \/ ack'.run = 0
    BY <1>7, Answers, Numbers DEF Makes
  <2>2. ack'.result = "ok"
    BY <2>1, Numbers
  <2>3. call'[d].op = "spawn" /\ i \in created'
    BY <1>1, <1>5, <1>6, <1>7 DEF Makes
  <2>4. AckSays(d, i)'
    BY <2>2, <2>3 DEF AckSays
  <2> QED
    BY <1>1, <1>6, <2>4, AckOf
<1>8. CASE Refuses
  <2>1. ack'.result = "refused" /\ call'[d].op = "spawn"
    BY <1>1, <1>5, <1>8, Answers DEF Refuses
  <2>2. command.op = "spawn" /\ command.id = i /\ i \notin created' /\ i \in drawn
    BY <1>5, <1>6, <1>8 DEF Refuses, SpawnsOnce
  <2>3. ~Spawns(command', i) /\ ~Spawns(late', i)
    BY <1>1, <2>2, Commands DEF Spawns, SpawnsOnce
  <2>4. \A e \in Client : ToSpawn(e)' => call'[e].id # i
    BY <1>1, <2>2 DEF ToSpawn, SpawnsOnce, Spawns
  <2>5. ~Spawning(i)'
    BY <2>3, <2>4 DEF Spawning, Spawns
  <2>6. AckSays(d, i)'
    BY <2>1, <2>2, <2>5 DEF AckSays
  <2> QED
    BY <1>1, <1>6, <2>6, AckOf
<1>9. CASE Removes
  <2>1. /\ call'[d].op \in {"despawn", "clear_all"}
        /\ call'[d].op = "despawn" => i \notin entities'
        /\ call'[d].op = "clear_all" => entities' = {}
    BY <1>1, <1>5, <1>6, <1>9 DEF Removes
  <2>2. AckSays(d, i)'
    BY <2>1 DEF AckSays
  <2> QED
    BY <1>1, <1>6, <2>2, AckOf
<1> QED
  BY <1>7, <1>8, <1>9

\* A caller that learns the fate of its command learns the truth.
LEMMA AnswerIsTrue ==
    ASSUME TypeOK, NamesAreDrawn, TakesTurns, TrueSoFar, Grows, NoNewSpawn,
           NEW c \in Client, Answered(c)
    PROVE  TrueSoFar'
<1> SUFFICES ASSUME ~misled'
             PROVE  /\ AnswersAreTrue'
                    /\ \A i \in Id : told'[i] = "refused" => ~Spawning(i)'
                    /\ \A d \in Client : call'[d].op = "despawn" => call'[d].id \in created'
                    /\ \A d \in Client : At(d, "polling")' /\ ack'.run = run' /\ ack'.seq = call'[d].seq =>
                         AckIsTrue(d)'
  BY DEF TrueSoFar
<1>1. /\ At(c, "polling") /\ ack.seq = call[c].seq /\ ~misled /\ ack.run = run
      /\ Moves(c, "reading") \/ Returns(c)
      /\ UNCHANGED <<entities, created, drawn>>
  BY AnswerEffect DEF pluginVars
<1>2. /\ AnswersAreTrue
      /\ \A i \in Id : told[i] = "refused" => ~Spawning(i)
      /\ \A d \in Client : call[d].op = "despawn" => call[d].id \in created
      /\ AckIsTrue(c)
  BY <1>1, Told
<1>3. PICK k \in Id \cup {NoId} : k = call[c].id
  BY DEF TypeOK, Call
<1>4. AckSays(c, k)
  BY <1>2, <1>3, AckOf
<1>5. ASSUME NEW j \in Id
      PROVE  /\ told'[j] = "live"    => j \in created'
             /\ told'[j] = "refused" => j \notin created' /\ ~Spawning(j)'
             /\ told'[j] = "gone"    => j \in created' \ entities'
  <2>1. /\ told[j] = "live"    => j \in created
        /\ told[j] = "refused" => j \notin created /\ ~Spawning(j) /\ j \in drawn
        /\ told[j] = "gone"    => j \in created \ entities
    BY <1>1, <1>2 DEF AnswersAreTrue, NamesAreDrawn
  <2>2. \/ told'[j] = told[j]
        \/ j = k /\ call[c].op = "spawn" /\ ack.result = "ok" /\ told'[j] = "live"
        \/ j = k /\ call[c].op = "spawn" /\ ack.result = "refused" /\ told'[j] = "refused"
        \/ j = k /\ call[c].op = "despawn" /\ told'[j] = "gone"
        \/ call[c].op = "clear_all" /\ told[j] = "live" /\ told'[j] = "gone"
    BY <1>3, AnswerEffect
  <2>3. \/ told'[j] = "nothing"
        \/ told'[j] = "live" /\ j \in created
        \/ told'[j] = "refused" /\ j \notin created /\ ~Spawning(j) /\ j \in drawn
        \/ told'[j] = "gone" /\ j \in created \ entities
    <3>1. CASE told'[j] = told[j]
      BY <2>1, <3>1 DEF TypeOK
    <3>2. CASE j = k /\ call[c].op = "spawn" /\ ack.result = "ok" /\ told'[j] = "live"
      BY <1>4, <3>2 DEF AckSays
    <3>3. CASE j = k /\ call[c].op = "spawn" /\ ack.result = "refused" /\ told'[j] = "refused"
      BY <1>3, <1>4, <3>3 DEF AckSays, NamesAreDrawn
    <3>4. CASE j = k /\ call[c].op = "despawn" /\ told'[j] = "gone"
      BY <1>2, <1>3, <1>4, <3>4 DEF AckSays
    <3>5. CASE call[c].op = "clear_all" /\ told[j] = "live" /\ told'[j] = "gone"
      BY <1>4, <2>1, <3>5 DEF AckSays
    <3> QED
      BY <2>2, <3>1, <3>2, <3>3, <3>4, <3>5
  <2>4. j \in drawn /\ ~Spawning(j) => ~Spawning(j)'
    BY DEF NoNewSpawn
  <2> QED
    BY <1>1, <2>3, <2>4
<1>6. AnswersAreTrue'
  BY <1>5 DEF AnswersAreTrue
<1>7. \A d \in Client : call'[d].op = "despawn" => call'[d].id \in created'
  <2>1. \A d \in Client : call'[d].op = "despawn" =>
          call[d].op = "despawn" /\ call'[d].id = call[d].id
    BY <1>1 DEF Returns, Moves, Rest
  <2> QED
    BY <1>1, <1>2, <2>1
<1>8. \A d \in Client : ~At(d, "polling")'
  <2>1. ~At(c, "polling")'
    BY <1>1 DEF Returns, Moves, At
  <2>2. \A d \in Client : d # c => ~At(d, "polling")
    BY <1>1, Alone DEF InFlight, At
  <2>3. \A d \in Client : d # c => call'[d] = call[d]
    BY <1>1 DEF Returns, Moves, Rest
  <2> QED
    BY <2>1, <2>2, <2>3 DEF At
<1> QED
  BY <1>5, <1>6, <1>7, <1>8

\* No step makes an answer false.
LEMMA TrueStep ==
    TypeOK /\ NamesAreDrawn /\ SpawnsOnce /\ TakesTurns /\ TrueSoFar /\ [Next]_vars
      => TrueSoFar'
<1> SUFFICES ASSUME TypeOK, NamesAreDrawn, SpawnsOnce, TakesTurns, TrueSoFar, [Next]_vars
             PROVE  TrueSoFar'
  OBVIOUS
<1>g. Grows /\ NoNewSpawn
  BY WorldStep, TokensStep
<1>1. ASSUME FlightLoop
      PROVE  TrueSoFar'
  <2>1. /\ Rests \/ Makes \/ Refuses \/ Removes
        /\ UNCHANGED <<run, call, told, misled>>
    BY <1>1, FrameEffect DEF adapterVars
  <2>2. ASSUME NEW d \in Client, At(d, "polling")', ack'.run = run', ack'.seq = call'[d].seq
        PROVE  AckIsTrue(d)' \/ (At(d, "polling") /\ ack' = ack)
    <3>1. At(d, "polling") /\ ack'.run = run /\ ack'.seq = call[d].seq
      BY <2>1, <2>2 DEF At
    <3>2. CASE Rests
      BY <3>1, <3>2 DEF Rests
    <3>3. CASE Makes \/ Refuses \/ Removes
      BY <1>1, <3>1, <3>3, FrameIsTrue
    <3> QED
      BY <2>1, <3>2, <3>3
  <2>3. Quiet
    BY <2>1, <2>2 DEF Quiet
  <2> QED
    BY <1>g, <2>3, TrueIfQuiet
<1>2. ASSUME Disable
      PROVE  TrueSoFar'
  <2>1. UNCHANGED <<ack, run, call, told, misled>>
    BY <1>2 DEF Disable, adapterVars, history
  <2>2. Quiet
    BY <2>1 DEF Quiet, At
  <2> QED
    BY <1>g, <2>2, TrueIfQuiet
<1>3. ASSUME Enable
      PROVE  TrueSoFar'
  <2>1. UNCHANGED <<ack, run, call, told, misled>>
    BY <1>3 DEF Enable, adapterVars, history
  <2>2. Quiet
    BY <2>1 DEF Quiet, At
  <2> QED
    BY <1>g, <2>2, TrueIfQuiet
<1>4. ASSUME LateWrite
      PROVE  TrueSoFar'
  <2>1. UNCHANGED <<ack, run, call, told, misled>>
    BY <1>4 DEF LateWrite, TransportVars, history
  <2>2. Quiet
    BY <2>1 DEF Quiet, At
  <2> QED
    BY <1>g, <2>2, TrueIfQuiet
<1>5. ASSUME Restart
      PROVE  TrueSoFar'
  <2>1. \A d \in Client : ~At(d, "polling")' /\ call'[d].op # "despawn"
    BY <1>5, IdleIsCall DEF Restart, At
  <2>2. UNCHANGED <<told, misled>>
    BY <1>5 DEF Restart, history
  <2>3. Quiet
    BY <2>1, <2>2 DEF Quiet
  <2> QED
    BY <1>g, <2>3, TrueIfQuiet
<1>6. ASSUME NEW c \in Client, NEW op \in CallOp, NEW i \in Id \cup {NoId}, Ask(c, op, i)
      PROVE  TrueSoFar'
  <2>1. Rest(c) /\ call'[c].pc = "queued" /\ call'[c].op = op /\ call'[c].id = i
    BY <1>6, AskEffect
  <2>2. UNCHANGED <<ack, run, told, misled>>
    BY <1>6 DEF Ask, pluginVars, TransportVars
  <2>3. ~misled /\ op = "despawn" => i \in created
    <3>1. op = "despawn" => i \in Id /\ told[i] \in {"live", "gone"}
      BY <1>6 DEF Ask
    <3> QED
      BY <3>1, Told DEF AnswersAreTrue
  <2>4. CASE misled
    BY <2>2, <2>4 DEF TrueSoFar
  <2>5. CASE ~misled
    <3>1. \A d \in Client : call'[d].op = "despawn" =>
            call'[d].id \in created \/ (call[d].op = "despawn" /\ call'[d].id = call[d].id)
      BY <2>1, <2>3, <2>5 DEF Rest
    <3>2. \A d \in Client : At(d, "polling")' => At(d, "polling") /\ call'[d] = call[d]
      BY <2>1 DEF At, Rest
    <3>3. Quiet
      BY <2>2, <3>1, <3>2 DEF Quiet
    <3> QED
      BY <1>g, <3>3, TrueIfQuiet
  <2> QED
    BY <2>4, <2>5
<1>7. ASSUME NEW c \in Client, AskContacts(c)
      PROVE  TrueSoFar'
  <2>1. Moves(c, "reading")
    BY <1>7, MoveEffect DEF AskContacts
  <2>2. UNCHANGED <<ack, run, told, misled>>
    BY <1>7 DEF AskContacts, pluginVars, TransportVars, history
  <2> QED
    BY <1>g, <2>1, <2>2, QuietIfMoved, TrueIfQuiet
<1>8. ASSUME NEW c \in Client, TakeLock(c)
      PROVE  TrueSoFar'
  <2>1. /\ Rest(c) /\ call'[c].pc = "writing" /\ call'[c].op = call[c].op
        /\ call'[c].id = call[c].id
    BY <1>8, TakeEffect
  <2>2. UNCHANGED <<ack, run, told, misled>>
    BY <1>8 DEF TakeLock, pluginVars, history
  <2>3. \A d \in Client : call'[d].op = "despawn" =>
          call[d].op = "despawn" /\ call'[d].id = call[d].id
    BY <2>1 DEF Rest
  <2>4. \A d \in Client : At(d, "polling")' => At(d, "polling") /\ call'[d] = call[d]
    BY <2>1 DEF At, Rest
  <2>5. Quiet
    BY <2>2, <2>3, <2>4 DEF Quiet
  <2> QED
    BY <1>g, <2>5, TrueIfQuiet
<1>9. ASSUME NEW c \in Client, CommandWritten(c)
      PROVE  TrueSoFar'
  <2>1. Moves(c, "polling")
    BY <1>9, MoveEffect DEF CommandWritten
  <2>2. UNCHANGED <<ack, run, seq, told, misled>> /\ At(c, "writing") /\ InFlight(c)
    BY <1>9 DEF CommandWritten, TransportVars, history, At, InFlight
  <2>3. \A d \in Client : call'[d].op = "despawn" =>
          call[d].op = "despawn" /\ call'[d].id = call[d].id
    BY <2>1 DEF Moves, Rest
  <2>4. ~(ack.run = run /\ ack.seq = call'[c].seq)
    <3>1. TurnOf(c) /\ call'[c].seq = call[c].seq
      BY <2>1, <2>2, Alone DEF Moves
    <3> QED
      BY <2>2, <3>1, Numbers DEF TurnOf
  <2>5. \A d \in Client : d # c => call'[d] = call[d]
    BY <2>1 DEF Moves, Rest
  <2>6. Quiet
    BY <2>2, <2>3, <2>4, <2>5 DEF Quiet, At
  <2> QED
    BY <1>g, <2>6, TrueIfQuiet
<1>10. ASSUME NEW c \in Client, GiveUp(c)
      PROVE  TrueSoFar'
  <2>1. Returns(c)
    BY <1>10, ReturnEffect DEF GiveUp
  <2>2. UNCHANGED <<ack, run, told, misled>>
    BY <1>10 DEF GiveUp, pluginVars, TransportVars, history
  <2> QED
    BY <1>g, <2>1, <2>2, QuietIfMoved, TrueIfQuiet
<1>11. ASSUME NEW c \in Client, Answered(c)
      PROVE  TrueSoFar'
  BY <1>g, <1>11, AnswerIsTrue
<1>12. ASSUME NEW c \in Client, ContactsServed(c)
      PROVE  TrueSoFar'
  <2>1. Moves(c, "merging")
    BY <1>12, ServedEffect DEF ContactsServed
  <2>2. UNCHANGED <<ack, run, told, misled>>
    BY <1>12 DEF ContactsServed, pluginVars, TransportVars, history
  <2> QED
    BY <1>g, <2>1, <2>2, QuietIfMoved, TrueIfQuiet
<1>13. ASSUME NEW c \in Client, ContactsFail(c)
      PROVE  TrueSoFar'
  <2>1. Returns(c)
    BY <1>13, ReturnEffect DEF ContactsFail
  <2>2. UNCHANGED <<ack, run, told, misled>>
    BY <1>13 DEF ContactsFail, pluginVars, TransportVars, history
  <2> QED
    BY <1>g, <2>1, <2>2, QuietIfMoved, TrueIfQuiet
<1>14. ASSUME NEW c \in Client, Merge(c)
      PROVE  TrueSoFar'
  <2>1. Returns(c)
    BY <1>14, ReturnEffect DEF Merge
  <2>2. UNCHANGED <<ack, run, told, misled>>
    BY <1>14 DEF Merge, pluginVars, TransportVars, history
  <2> QED
    BY <1>g, <2>1, <2>2, QuietIfMoved, TrueIfQuiet
<1>15. ASSUME UNCHANGED vars PROVE TrueSoFar'
  <2>1. UNCHANGED <<ack, run, call, told, misled>>
    BY <1>15 DEF vars, pluginVars, adapterVars, history
  <2>2. Quiet
    BY <2>1 DEF Quiet, At
  <2> QED
    BY <1>g, <2>2, TrueIfQuiet
<1> QED
  BY <1>1, <1>2, <1>3, <1>4, <1>5, <1>6, <1>7, <1>8,
     <1>9, <1>10, <1>11, <1>12, <1>13, <1>14, <1>15, Acts


-----------------------------------------------------------------------------
(* Types, and the theorems.                                                 *)

\* No step leaves the types.
LEMMA TypeStep ==
    TypeOK /\ NamesAreDrawn /\ SpawnsOnce /\ TakesTurns /\ [Next]_vars
      => TypeOK'
<1> SUFFICES ASSUME TypeOK, NamesAreDrawn, SpawnsOnce, TakesTurns, [Next]_vars
             PROVE  TypeOK'
  OBVIOUS
<1>g. entities' \subseteq created' /\ created' \subseteq drawn'
  BY NamesStep DEF NamesAreDrawn
<1>t. ASSUME call' \in [Client -> Call],
             drawn' \subseteq Id, contacts' \subseteq Id, ledger' \subseteq Id,
             enabled' \in BOOLEAN, bridge' \in BOOLEAN, misled' \in BOOLEAN,
             command' \in Command \cup {NoCommand}, late' \in Command \cup {NoCommand},
             ack' \in Ack,
             run' \in 1 .. MaxRun, seq' \in 0 .. MaxSeq, holder' \in Client \cup {Nobody},
             told' \in [Id -> {"nothing", "live", "refused", "gone"}]
      PROVE  TypeOK'
  BY <1>g, <1>t DEF TypeOK
<1>1. ASSUME FlightLoop
      PROVE  TypeOK'
  <2>1. /\ Rests \/ Makes \/ Refuses \/ Removes
        /\ command' = NoCommand
        /\ UNCHANGED <<enabled, run, bridge, seq, holder, ledger, call, late, drawn, told, misled>>
    BY <1>1, FrameEffect DEF adapterVars
  <2>2. contacts' \subseteq Id
    <3>1. contacts' = contacts \/ contacts' = entities'
      BY <1>1 DEF FlightLoop, AdvanceAndPublish
    <3> QED
      BY <1>g, <2>1, <3>1 DEF TypeOK
  <2>3. ack' \in Ack
    <3>1. \A r \in {"ok", "refused"} : Answer(r) \in Ack
      <4>1. command.run \in 0 .. MaxRun /\ command.seq \in 0 .. MaxSeq
        BY BridgeAssumption DEF TypeOK, Command, NoCommand
      <4> QED
        BY <4>1 DEF Answer, Ack
    <3>2. NoAck \in Ack
      BY BridgeAssumption DEF NoAck, Ack
    <3> QED
      BY <2>1, <3>1, <3>2 DEF Rests, Makes, Refuses, Removes, TypeOK
  <2>4. /\ drawn' \subseteq Id /\ ledger' \subseteq Id /\ call' \in [Client -> Call]
        /\ enabled' \in BOOLEAN /\ bridge' \in BOOLEAN /\ misled' \in BOOLEAN
        /\ command' \in Command \cup {NoCommand} /\ late' \in Command \cup {NoCommand}
    BY <2>1 DEF TypeOK
  <2>5. /\ run' \in 1 .. MaxRun /\ seq' \in 0 .. MaxSeq /\ holder' \in Client \cup {Nobody}
        /\ told' \in [Id -> {"nothing", "live", "refused", "gone"}]
    BY <2>1 DEF TypeOK
  <2> QED
    BY <1>t, <2>2, <2>3, <2>4, <2>5
<1>2. ASSUME Disable
      PROVE  TypeOK'
  <2>1. call' \in [Client -> Call]
    BY <1>2 DEF Disable, adapterVars, TypeOK
  <2>2. /\ drawn' \subseteq Id /\ contacts' \subseteq Id /\ ledger' \subseteq Id
        /\ enabled' \in BOOLEAN /\ bridge' \in BOOLEAN /\ misled' \in BOOLEAN
    BY <1>2 DEF Disable, TypeOK, adapterVars, history
  <2>3. /\ command' \in Command \cup {NoCommand} /\ late' \in Command \cup {NoCommand}
        /\ ack' \in Ack
    BY <1>2 DEF Disable, TypeOK, adapterVars, history
  <2>4. /\ run' \in 1 .. MaxRun /\ seq' \in 0 .. MaxSeq /\ holder' \in Client \cup {Nobody}
        /\ told' \in [Id -> {"nothing", "live", "refused", "gone"}]
    BY <1>2 DEF Disable, TypeOK, adapterVars, history
  <2> QED
    BY <1>t, <2>1, <2>2, <2>3, <2>4
<1>3. ASSUME Enable
      PROVE  TypeOK'
  <2>1. call' \in [Client -> Call]
    BY <1>3 DEF Enable, adapterVars, TypeOK
  <2>2. /\ drawn' \subseteq Id /\ contacts' \subseteq Id /\ ledger' \subseteq Id
        /\ enabled' \in BOOLEAN /\ bridge' \in BOOLEAN /\ misled' \in BOOLEAN
    BY <1>3 DEF Enable, TypeOK, adapterVars, history
  <2>3. /\ command' \in Command \cup {NoCommand} /\ late' \in Command \cup {NoCommand}
        /\ ack' \in Ack
    BY <1>3 DEF Enable, TypeOK, adapterVars, history
  <2>4. /\ run' \in 1 .. MaxRun /\ seq' \in 0 .. MaxSeq /\ holder' \in Client \cup {Nobody}
        /\ told' \in [Id -> {"nothing", "live", "refused", "gone"}]
    BY <1>3 DEF Enable, TypeOK, adapterVars, history
  <2> QED
    BY <1>t, <2>1, <2>2, <2>3, <2>4
<1>4. ASSUME LateWrite
      PROVE  TypeOK'
  <2>1. call' \in [Client -> Call]
    BY <1>4 DEF LateWrite, TypeOK
  <2>2. /\ drawn' \subseteq Id /\ contacts' \subseteq Id /\ ledger' \subseteq Id
        /\ enabled' \in BOOLEAN /\ bridge' \in BOOLEAN /\ misled' \in BOOLEAN
    BY <1>4 DEF LateWrite, TypeOK, pluginVars, TransportVars, history
  <2>3. /\ command' \in Command \cup {NoCommand} /\ late' \in Command \cup {NoCommand}
        /\ ack' \in Ack
    BY <1>4 DEF LateWrite, TypeOK, pluginVars, TransportVars, history
  <2>4. /\ run' \in 1 .. MaxRun /\ seq' \in 0 .. MaxSeq /\ holder' \in Client \cup {Nobody}
        /\ told' \in [Id -> {"nothing", "live", "refused", "gone"}]
    BY <1>4 DEF LateWrite, TypeOK, pluginVars, TransportVars, history
  <2> QED
    BY <1>t, <2>1, <2>2, <2>3, <2>4
<1>5. ASSUME Restart
      PROVE  TypeOK'
  <2>1. call' \in [Client -> Call]
    BY <1>5, IdleIsCall DEF Restart
  <2>2. /\ drawn' \subseteq Id /\ contacts' \subseteq Id /\ ledger' \subseteq Id
        /\ enabled' \in BOOLEAN /\ bridge' \in BOOLEAN /\ misled' \in BOOLEAN /\ late' = NoCommand
        /\ ack' \in Ack /\ told' \in [Id -> {"nothing", "live", "refused", "gone"}]
    BY <1>5 DEF Restart, TypeOK, history
  <2>3. run' \in 1 .. MaxRun /\ seq' \in 0 .. MaxSeq /\ holder' \in Client \cup {Nobody}
    BY <1>5, BridgeAssumption DEF Restart, TypeOK
  <2>4. command' \in Command \cup {NoCommand}
    <3>1. \/ command' = command \/ command' = late
          \/ \E c \in Client : At(c, "writing") /\ command' = CommandOf(c)
      BY <1>5 DEF Restart
    <3> QED
      BY <3>1, Sent DEF TypeOK
  <2> QED
    BY <1>t, <2>1, <2>2, <2>3, <2>4
<1>6. ASSUME NEW c \in Client, NEW op \in CallOp, NEW i \in Id \cup {NoId}, Ask(c, op, i)
      PROVE  TypeOK'
  <2>1. call' \in [Client -> Call]
    BY <1>6, AskEffect
  <2>2. /\ drawn' \subseteq Id /\ contacts' \subseteq Id /\ ledger' \subseteq Id
        /\ enabled' \in BOOLEAN /\ bridge' \in BOOLEAN /\ misled' \in BOOLEAN
    BY <1>6 DEF Ask, TypeOK, pluginVars, TransportVars, history
  <2>3. /\ command' \in Command \cup {NoCommand} /\ late' \in Command \cup {NoCommand}
        /\ ack' \in Ack
    BY <1>6 DEF Ask, TypeOK, pluginVars, TransportVars, history
  <2>4. /\ run' \in 1 .. MaxRun /\ seq' \in 0 .. MaxSeq /\ holder' \in Client \cup {Nobody}
        /\ told' \in [Id -> {"nothing", "live", "refused", "gone"}]
    BY <1>6 DEF Ask, TypeOK, pluginVars, TransportVars, history
  <2> QED
    BY <1>t, <2>1, <2>2, <2>3, <2>4
<1>7. ASSUME NEW c \in Client, AskContacts(c)
      PROVE  TypeOK'
  <2>1. call' \in [Client -> Call]
    BY <1>7, MoveEffect DEF AskContacts
  <2>2. /\ drawn' \subseteq Id /\ contacts' \subseteq Id /\ ledger' \subseteq Id
        /\ enabled' \in BOOLEAN /\ bridge' \in BOOLEAN /\ misled' \in BOOLEAN
    BY <1>7 DEF AskContacts, TypeOK, pluginVars, TransportVars, history
  <2>3. /\ command' \in Command \cup {NoCommand} /\ late' \in Command \cup {NoCommand}
        /\ ack' \in Ack
    BY <1>7 DEF AskContacts, TypeOK, pluginVars, TransportVars, history
  <2>4. /\ run' \in 1 .. MaxRun /\ seq' \in 0 .. MaxSeq /\ holder' \in Client \cup {Nobody}
        /\ told' \in [Id -> {"nothing", "live", "refused", "gone"}]
    BY <1>7 DEF AskContacts, TypeOK, pluginVars, TransportVars, history
  <2> QED
    BY <1>t, <2>1, <2>2, <2>3, <2>4
<1>8. ASSUME NEW c \in Client, TakeLock(c)
      PROVE  TypeOK'
  <2>1. call' \in [Client -> Call]
    BY <1>8, TakeEffect
  <2>2. /\ drawn' \subseteq Id /\ contacts' \subseteq Id /\ ledger' \subseteq Id
        /\ enabled' \in BOOLEAN /\ bridge' \in BOOLEAN /\ misled' \in BOOLEAN
    BY <1>8, TakeEffect DEF TakeLock, TypeOK, pluginVars, history
  <2>3. /\ command' \in Command \cup {NoCommand} /\ late' \in Command \cup {NoCommand}
        /\ ack' \in Ack
    BY <1>8, TakeEffect DEF TakeLock, TypeOK, pluginVars, history
  <2>4. /\ run' \in 1 .. MaxRun /\ seq' \in 0 .. MaxSeq /\ holder' \in Client \cup {Nobody}
        /\ told' \in [Id -> {"nothing", "live", "refused", "gone"}]
    BY <1>8, TakeEffect DEF TakeLock, TypeOK, pluginVars, history
  <2> QED
    BY <1>t, <2>1, <2>2, <2>3, <2>4
<1>9. ASSUME NEW c \in Client, CommandWritten(c)
      PROVE  TypeOK'
  <2>1. call' \in [Client -> Call]
    BY <1>9, MoveEffect DEF CommandWritten
  <2>2. /\ drawn' \subseteq Id /\ contacts' \subseteq Id /\ ledger' \subseteq Id
        /\ enabled' \in BOOLEAN /\ bridge' \in BOOLEAN /\ misled' \in BOOLEAN
    BY <1>9, Sent DEF CommandWritten, TypeOK, pluginVars, TransportVars, history
  <2>3. /\ command' \in Command \cup {NoCommand} /\ late' \in Command \cup {NoCommand}
        /\ ack' \in Ack
    BY <1>9, Sent DEF CommandWritten, TypeOK, pluginVars, TransportVars, history
  <2>4. /\ run' \in 1 .. MaxRun /\ seq' \in 0 .. MaxSeq /\ holder' \in Client \cup {Nobody}
        /\ told' \in [Id -> {"nothing", "live", "refused", "gone"}]
    BY <1>9, Sent DEF CommandWritten, TypeOK, pluginVars, TransportVars, history
  <2> QED
    BY <1>t, <2>1, <2>2, <2>3, <2>4
<1>10. ASSUME NEW c \in Client, GiveUp(c)
      PROVE  TypeOK'
  <2>1. call' \in [Client -> Call]
    BY <1>10, ReturnEffect DEF GiveUp
  <2>2. /\ drawn' \subseteq Id /\ contacts' \subseteq Id /\ ledger' \subseteq Id
        /\ enabled' \in BOOLEAN /\ bridge' \in BOOLEAN /\ misled' \in BOOLEAN
    BY <1>10, Sent DEF GiveUp, TypeOK, history
  <2>3. /\ command' \in Command \cup {NoCommand} /\ late' \in Command \cup {NoCommand}
        /\ ack' \in Ack
    BY <1>10, Sent DEF GiveUp, TypeOK, history
  <2>4. /\ run' \in 1 .. MaxRun /\ seq' \in 0 .. MaxSeq /\ holder' \in Client \cup {Nobody}
        /\ told' \in [Id -> {"nothing", "live", "refused", "gone"}]
    BY <1>10, Sent DEF GiveUp, TypeOK, history
  <2> QED
    BY <1>t, <2>1, <2>2, <2>3, <2>4
<1>11. ASSUME NEW c \in Client, Answered(c)
      PROVE  TypeOK'
  <2>1. /\ call' \in [Client -> Call] /\ holder' = Nobody
        /\ UNCHANGED <<pluginVars, run, bridge, seq, late, drawn>>
        /\ told' \in [Id -> {"nothing", "live", "refused", "gone"}]
    BY <1>11, AnswerEffect
  <2>2. misled' \in BOOLEAN
    <3>1. misled' = (misled \/ ack.run # run)
      BY <1>11, AnswerEffect
    <3> QED
      BY <3>1
  <2>3. ledger' \subseteq Id
    <3>1. call[c].op = "spawn" => call[c].id \in Id
      BY DEF NamesAreDrawn, TypeOK
    <3>2. call[c].op \in CallOp /\ ledger' \subseteq ledger \cup {call[c].id}
          /\ (call[c].op \in {"clear_all", "despawn"} => ledger' \subseteq ledger)
      BY <1>11, AnswerEffect
    <3> QED
      BY <3>1, <3>2 DEF CallOp, TypeOK
  <2>4. /\ contacts' \subseteq Id /\ enabled' \in BOOLEAN /\ bridge' \in BOOLEAN
        /\ drawn' \subseteq Id
        /\ command' \in Command \cup {NoCommand} /\ late' \in Command \cup {NoCommand}
        /\ ack' \in Ack /\ run' \in 1 .. MaxRun /\ seq' \in 0 .. MaxSeq
    BY <2>1 DEF pluginVars, TypeOK
  <2> QED
    BY <1>t, <2>1, <2>2, <2>3, <2>4
<1>12. ASSUME NEW c \in Client, ContactsServed(c)
      PROVE  TypeOK'
  <2>1. call' \in [Client -> Call]
    BY <1>12, ServedEffect
  <2>2. /\ drawn' \subseteq Id /\ contacts' \subseteq Id /\ ledger' \subseteq Id
        /\ enabled' \in BOOLEAN /\ bridge' \in BOOLEAN /\ misled' \in BOOLEAN
    BY <1>12 DEF ContactsServed, TypeOK, pluginVars, TransportVars, history
  <2>3. /\ command' \in Command \cup {NoCommand} /\ late' \in Command \cup {NoCommand}
        /\ ack' \in Ack
    BY <1>12 DEF ContactsServed, TypeOK, pluginVars, TransportVars, history
  <2>4. /\ run' \in 1 .. MaxRun /\ seq' \in 0 .. MaxSeq /\ holder' \in Client \cup {Nobody}
        /\ told' \in [Id -> {"nothing", "live", "refused", "gone"}]
    BY <1>12 DEF ContactsServed, TypeOK, pluginVars, TransportVars, history
  <2> QED
    BY <1>t, <2>1, <2>2, <2>3, <2>4
<1>13. ASSUME NEW c \in Client, ContactsFail(c)
      PROVE  TypeOK'
  <2>1. call' \in [Client -> Call]
    BY <1>13, ReturnEffect DEF ContactsFail
  <2>2. /\ drawn' \subseteq Id /\ contacts' \subseteq Id /\ ledger' \subseteq Id
        /\ enabled' \in BOOLEAN /\ bridge' \in BOOLEAN /\ misled' \in BOOLEAN
    BY <1>13 DEF ContactsFail, TypeOK, pluginVars, TransportVars, history
  <2>3. /\ command' \in Command \cup {NoCommand} /\ late' \in Command \cup {NoCommand}
        /\ ack' \in Ack
    BY <1>13 DEF ContactsFail, TypeOK, pluginVars, TransportVars, history
  <2>4. /\ run' \in 1 .. MaxRun /\ seq' \in 0 .. MaxSeq /\ holder' \in Client \cup {Nobody}
        /\ told' \in [Id -> {"nothing", "live", "refused", "gone"}]
    BY <1>13 DEF ContactsFail, TypeOK, pluginVars, TransportVars, history
  <2> QED
    BY <1>t, <2>1, <2>2, <2>3, <2>4
<1>14. ASSUME NEW c \in Client, Merge(c)
      PROVE  TypeOK'
  <2>1. call' \in [Client -> Call]
    BY <1>14, ReturnEffect DEF Merge
  <2>2. /\ drawn' \subseteq Id /\ contacts' \subseteq Id /\ ledger' \subseteq Id
        /\ enabled' \in BOOLEAN /\ bridge' \in BOOLEAN /\ misled' \in BOOLEAN
    BY <1>14 DEF Merge, TypeOK, pluginVars, TransportVars, history
  <2>3. /\ command' \in Command \cup {NoCommand} /\ late' \in Command \cup {NoCommand}
        /\ ack' \in Ack
    BY <1>14 DEF Merge, TypeOK, pluginVars, TransportVars, history
  <2>4. /\ run' \in 1 .. MaxRun /\ seq' \in 0 .. MaxSeq /\ holder' \in Client \cup {Nobody}
        /\ told' \in [Id -> {"nothing", "live", "refused", "gone"}]
    BY <1>14 DEF Merge, TypeOK, pluginVars, TransportVars, history
  <2> QED
    BY <1>t, <2>1, <2>2, <2>3, <2>4
<1>15. ASSUME UNCHANGED vars PROVE TypeOK'
  BY <1>15 DEF vars, TypeOK, pluginVars, adapterVars, history
<1> QED
  BY <1>1, <1>2, <1>3, <1>4, <1>5, <1>6, <1>7, <1>8,
     <1>9, <1>10, <1>11, <1>12, <1>13, <1>14, <1>15, Acts


\* The station starts with nothing sent and nothing flying.
LEMMA InvInit == Init => Inv
<1> SUFFICES ASSUME Init PROVE Inv
  OBVIOUS
<1>1. /\ call \in [Client -> Call]
      /\ \A c \in Client : call[c].pc = "idle" /\ call[c].op = "read"
  BY IdleIsCall DEF Init
<1>2. /\ command = NoCommand /\ late = NoCommand /\ NoCommand.op = "none" /\ NoCommand.run = 0
      /\ NoCommand \in Command \cup {NoCommand}
  BY DEF Init, NoCommand
<1>3. ack \in Ack /\ ack.run = 0 /\ run = 1
  BY BridgeAssumption DEF Init, Ack, NoAck
<1>4. TypeOK
  <2>1. told \in [Id -> {"nothing", "live", "refused", "gone"}]
    BY DEF Init
  <2>2. run \in 1 .. MaxRun /\ seq \in 0 .. MaxSeq
    BY BridgeAssumption DEF Init
  <2>3. /\ enabled \in BOOLEAN /\ bridge \in BOOLEAN /\ misled \in BOOLEAN
        /\ entities \subseteq Id /\ contacts \subseteq Id /\ ledger \subseteq Id
        /\ drawn \subseteq Id /\ created \subseteq Id /\ holder \in Client \cup {Nobody}
    BY DEF Init
  <2> QED
    BY <1>1, <1>2, <1>3, <2>1, <2>2, <2>3 DEF TypeOK
<1>5. \A c \in Client : /\ ~InFlight(c) /\ ~ToSpawn(c) /\ ~At(c, "queued")
                        /\ ~At(c, "polling") /\ ~At(c, "writing")
  BY <1>1 DEF InFlight, ToSpawn, At
<1>6. NamesAreDrawn
  BY <1>1 DEF Init, NamesAreDrawn
<1>7. SpawnsOnce
  BY <1>2, <1>5 DEF SpawnsOnce
<1>8. TakesTurns
  BY <1>2, <1>3, <1>5 DEF TakesTurns, OneInFlight
<1>9. TrueSoFar
  BY <1>1, <1>5 DEF Init, TrueSoFar, AnswersAreTrue
<1> QED
  BY <1>4, <1>6, <1>7, <1>8, <1>9 DEF Inv

\* Every step keeps the invariant ...
LEMMA InvStep == Inv /\ [Next]_vars => Inv'
BY TypeStep, NamesStep, SpawnsStep, TurnsStep, TrueStep DEF Inv

\* ... so it always holds.
LEMMA InvHolds == Spec => []Inv
BY InvInit, InvStep, PTL DEF Spec

\* The values the plugin, the adapter and the datarefs hold are those the code gives them.
THEOREM TypeCorrect == Spec => []TypeOK
<1>1. Inv => TypeOK
  BY DEF Inv
<1> QED
  BY <1>1, InvHolds, PTL

\* At most one command is in flight, and unless an ack of an earlier run was believed
\* a caller is told the truth: a spawn reported live was made, one refused is never made,
\* and one reported gone has gone (send_command and its callers).
THEOREM AnswersHold == Spec => []CommandsAreAnswered
<1>1. Inv => CommandsAreAnswered
  BY DEF Inv, TakesTurns, TrueSoFar, CommandsAreAnswered, AnswersAreTrue
<1> QED
  BY <1>1, InvHolds, PTL

\* An entity that expired, was despawned or was cleared is never made again, by no
\* repeated, lost or late write of its spawn (_op_spawn, the command buffer).
THEOREM GoneForever == Spec => GoneForGood
<1>1. Inv /\ [Next]_vars => [(created \ entities) \cap entities' = {}]_vars
  BY WorldStep DEF Inv, Grows
<1> QED
  BY <1>1, InvHolds, PTL DEF Spec, GoneForGood

==============================================================================
