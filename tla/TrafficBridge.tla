---------------------------- MODULE TrafficBridge ----------------------------
(***************************************************************************)
(* AI traffic: the XPPython3 plugin bridge/PI_OISBridge.py, which owns the *)
(* entities, and the station's side of its request/poll protocol: the      *)
(* transport of adapters/xplane/traffic_bridge.py, the label ledger of     *)
(* XPlaneSimAdapter and the calls server/traffic_routes.py makes of it.    *)
(*                                                                         *)
(* The two sides share three datarefs.  A station call is cut at its       *)
(* awaits; a frame of the plugin's flight loop is one action, since no     *)
(* dataref is served while it runs.                                        *)
(***************************************************************************)
EXTENDS Integers, FiniteSets

CONSTANTS
    Id,           \* the uuid4 names spawn_traffic may draw, each at most once
    NoId,         \* the id of a command that names none
    Client,       \* the station's concurrent calls: routes and the 2 Hz stream
    Nobody,       \* the holder of a free lock
    MaxEntities,  \* MAX_ENTITIES of the plugin
    MaxRun,       \* how many times the station is started
    MaxSeq,       \* how many commands a run of the station sends
    Faults        \* what may go wrong: subset of {"bug", "http", "late", "stop"}

ASSUME BridgeAssumption ==
    /\ IsFiniteSet(Id) /\ NoId \notin Id
    /\ Nobody \notin Client
    /\ MaxEntities \in Nat /\ MaxRun \in Nat \ {0} /\ MaxSeq \in Nat

CallOp  == {"spawn", "despawn", "clear_all"}
Command == [op : CallOp, id : Id \cup {NoId}, run : 1 .. MaxRun, seq : 1 .. MaxSeq]
NoCommand == [op |-> "none", id |-> NoId, run |-> 0, seq |-> 0]
\* seq 0 is the null seq of an ack for an exception; run is not on the wire.
Ack == [run : 0 .. MaxRun, seq : 0 .. MaxSeq, result : {"ok", "refused"}]
NoAck == [run |-> 0, seq |-> 0, result |-> "refused"]

VARIABLES
    enabled,   \* the flight loop is scheduled (XPluginEnable .. XPluginDisable)
    entities,  \* the plugin's _entities
    command,   \* the command dataref: content while dirty, else NoCommand
    ack,       \* the command_ack dataref
    contacts,  \* the contacts dataref: the ids last published
    run,       \* how often the station has been started
    bridge,    \* the adapter holds a BridgeTransport: the connect probe passed
    seq,       \* the transport's counter: seqs already drawn in this run
    holder,    \* the call that holds the transport's lock, or Nobody
    ledger,    \* _traffic_meta: the ids with a label and a scenario shape
    call,      \* what each call is doing
    late,      \* a command PATCH given up on that has yet to reach the simulator
    drawn,     \* history: the ids handed out by uuid4
    created,   \* history: the ids the plugin ever made an entity for
    told,      \* history: what a caller was last told about each id
    misled     \* history: an ack of an earlier run was taken for an answer

pluginVars  == <<enabled, entities, command, ack, contacts>>
adapterVars == <<run, bridge, seq, holder, ledger, call, late>>
history     == <<drawn, created, told, misled>>
vars        == <<pluginVars, adapterVars, history>>

IdleCall == [pc |-> "idle", op |-> "read", id |-> NoId, seq |-> 0, seen |-> {}]

Init ==
    /\ enabled = TRUE
    /\ entities = {} /\ contacts = {}
    /\ command = NoCommand /\ ack = NoAck
    /\ run = 1 /\ bridge = TRUE
    /\ seq = 0 /\ holder = Nobody
    /\ ledger = {}
    /\ call = [c \in Client |-> IdleCall]
    /\ late = NoCommand
    /\ drawn = {} /\ created = {}
    /\ told = [i \in Id |-> "nothing"]
    /\ misled = FALSE

-----------------------------------------------------------------------------
(* The plugin: what a command does, and one frame of the flight loop.      *)

Answer(result) == [run |-> command.run, seq |-> command.seq, result |-> result]
Outcome(es, a) == [entities |-> es, ack |-> a]

\* Mutant: a full bridge still makes the entity it refuses.
SpawnOutcomesPastCapacity ==
    IF Cardinality(entities) >= MaxEntities
    THEN {Outcome(entities \cup {command.id}, Answer("refused"))}
    ELSE {Outcome(entities \cup {command.id}, Answer("ok"))}

\* _op_spawn.  The entity is entered before it is first driven, so a drive
\* that raises leaves it there; _flight_loop then answers with a null seq.
SpawnOutcomes ==
    IF command.id \in entities \/ Cardinality(entities) >= MaxEntities
    THEN {Outcome(entities, Answer("refused"))}
    ELSE LET flown == entities \cup {command.id} IN
         {Outcome(flown, Answer("ok"))}
           \cup {Outcome(flown, NoAck) : b \in Faults \cap {"bug"}}

\* _process_command, for the command read off the dataref.
Outcomes ==
    CASE command.op = "spawn"     -> SpawnOutcomes
      [] command.op = "despawn"   -> {Outcome(entities \ {command.id}, Answer("ok"))}
      [] command.op = "clear_all" -> {Outcome({}, Answer("ok"))}
      [] command.op = "none"      -> {Outcome(entities, ack)}

\* _advance_and_publish: entities past their despawn_after_s go, in the frames
\* after their first; a drive that raises leaves the publication as it was.
AdvanceAndPublish(flown) ==
    \E expired \in SUBSET (entities \cap flown) :
        /\ entities' = flown \ expired
        /\ \/ contacts' = flown \ expired
           \/ "bug" \in Faults /\ contacts' = contacts

\* Mutant: the command is not cleared once read, so every frame acts on it.
FlightLoopRereading ==
    /\ enabled
    /\ \E o \in Outcomes :
        /\ ack' = o.ack
        /\ created' = created \cup o.entities
        /\ AdvanceAndPublish(o.entities)
    /\ UNCHANGED <<enabled, command, adapterVars, drawn, told, misled>>

FlightLoop ==
    /\ enabled
    /\ command' = NoCommand
    /\ \E o \in Outcomes :
        /\ ack' = o.ack
        /\ created' = created \cup o.entities
        /\ AdvanceAndPublish(o.entities)
    /\ UNCHANGED <<enabled, adapterVars, drawn, told, misled>>

\* XPluginDisable clears the entities but publishes nothing; the accessors
\* stay registered, so the datarefs still answer.
Disable ==
    /\ "stop" \in Faults /\ enabled
    /\ enabled' = FALSE
    /\ entities' = {}
    /\ UNCHANGED <<command, ack, contacts, adapterVars, history>>

Enable ==
    /\ ~enabled
    /\ enabled' = TRUE
    /\ UNCHANGED <<entities, command, ack, contacts, adapterVars, history>>

-----------------------------------------------------------------------------
(* The station: one call, from await to await.                             *)

At(c, pc) == call[c].pc = pc
Move(c, pc) == call' = [call EXCEPT ![c].pc = pc]
Return(c) == call' = [call EXCEPT ![c] = IdleCall]
TransportVars == <<run, bridge, seq, holder>>

\* A write route reaches send_command and asks for the transport's lock.  An
\* instructor can only name an entity the station once listed.
Ask(c, op, i) ==
    /\ At(c, "idle") /\ bridge
    /\ seq + Cardinality({d \in Client : At(d, "queued")}) < MaxSeq
    /\ op = "spawn"     => i \in Id \ drawn
    /\ op = "despawn"   => i \in Id /\ told[i] \in {"live", "gone"}
    /\ op = "clear_all" => i = NoId
    /\ drawn' = IF op = "spawn" THEN drawn \cup {i} ELSE drawn
    /\ call' = [call EXCEPT ![c] = [IdleCall EXCEPT !.pc = "queued", !.op = op, !.id = i]]
    /\ UNCHANGED <<pluginVars, TransportVars, ledger, late, created, told, misled>>

\* The status route, or a tick of the traffic socket.
AskContacts(c) ==
    /\ At(c, "idle") /\ bridge
    /\ Move(c, "reading")
    /\ UNCHANGED <<pluginVars, TransportVars, ledger, late, history>>

\* Mutant: no lock around the round trip.
TakeLockAtOnce(c) ==
    /\ At(c, "queued") /\ seq < MaxSeq
    /\ holder' = c
    /\ seq' = seq + 1
    /\ call' = [call EXCEPT ![c].pc = "writing", ![c].seq = seq + 1]
    /\ UNCHANGED <<pluginVars, run, bridge, ledger, late, history>>

\* Mutant: the counter starts at 0, the seq of no command.
TakeLockFromZero(c) ==
    /\ At(c, "queued") /\ holder = Nobody /\ seq < MaxSeq
    /\ holder' = c
    /\ seq' = seq + 1
    /\ call' = [call EXCEPT ![c].pc = "writing", ![c].seq = seq]
    /\ UNCHANGED <<pluginVars, run, bridge, ledger, late, history>>

\* The lock is free: draw a seq and start the PATCH of the command dataref.
TakeLock(c) ==
    /\ At(c, "queued") /\ holder = Nobody /\ seq < MaxSeq
    /\ holder' = c
    /\ seq' = seq + 1
    /\ call' = [call EXCEPT ![c].pc = "writing", ![c].seq = seq + 1]
    /\ UNCHANGED <<pluginVars, run, bridge, ledger, late, history>>

CommandOf(c) == [op |-> call[c].op, id |-> call[c].id, run |-> run, seq |-> call[c].seq]

\* The PATCH arrives: DataBuffer.write replaces whatever the buffer held.
CommandWritten(c) ==
    /\ At(c, "writing")
    /\ command' = CommandOf(c)
    /\ Move(c, "polling")
    /\ UNCHANGED <<enabled, entities, ack, contacts, TransportVars, ledger, late, history>>

\* Mutant: the failing write leaves the lock taken.
GiveUpLocked(c) ==
    /\ At(c, "writing") \/ At(c, "polling")
    /\ Return(c)
    /\ UNCHANGED <<pluginVars, TransportVars, ledger, late, history>>

\* BridgeNotReachable: _ACK_TIMEOUT_S went by, or a request failed.  A PATCH
\* that failed may have arrived all the same, or arrive later.
GiveUp(c) ==
    /\ holder' = Nobody
    /\ Return(c)
    /\ \/ At(c, "polling") /\ UNCHANGED <<command, late>>
       \/ /\ At(c, "writing") /\ "http" \in Faults
          /\ \/ UNCHANGED <<command, late>>
             \/ command' = CommandOf(c) /\ UNCHANGED late
             \/ "late" \in Faults /\ late' = CommandOf(c) /\ UNCHANGED command
    /\ UNCHANGED <<enabled, entities, ack, contacts, run, bridge, seq, ledger, history>>

LateWrite ==
    /\ late # NoCommand
    /\ command' = late
    /\ late' = NoCommand
    /\ UNCHANGED <<enabled, entities, ack, contacts, TransportVars, ledger, call, history>>

\* What the adapter and its caller make of the ack.
Conclude(c) ==
    LET i == call[c].id IN
    \/ /\ call[c].op = "spawn" /\ ack.result = "ok"
       /\ ledger' = ledger \cup {i}
       /\ told' = [told EXCEPT ![i] = "live"]
       /\ Move(c, "reading")
    \/ /\ call[c].op = "spawn" /\ ack.result = "refused"
       /\ told' = [told EXCEPT ![i] = "refused"]
       /\ Return(c)
       /\ UNCHANGED ledger
    \/ /\ call[c].op = "despawn"
       /\ ledger' = ledger \ {i}
       /\ told' = [told EXCEPT ![i] = "gone"]
       /\ Move(c, "reading")
    \/ /\ call[c].op = "clear_all"
       /\ ledger' = {}
       /\ told' = [j \in Id |-> IF told[j] = "live" THEN "gone" ELSE told[j]]
       /\ Move(c, "reading")

\* A poll sees an ack that carries its seq; the lock is released.
Answered(c) ==
    /\ At(c, "polling") /\ ack.seq = call[c].seq
    /\ holder' = Nobody
    /\ misled' = (misled \/ ack.run # run)
    /\ Conclude(c)
    /\ UNCHANGED <<pluginVars, run, bridge, seq, late, drawn, created>>

\* The simulator answers read_contacts; the adapter has yet to see it.
ContactsServed(c) ==
    /\ At(c, "reading")
    /\ call' = [call EXCEPT ![c].pc = "merging", ![c].seen = contacts]
    /\ UNCHANGED <<pluginVars, TransportVars, ledger, late, history>>

\* An httpx error of read_contacts leaves the call with an exception.
ContactsFail(c) ==
    /\ At(c, "reading") /\ "http" \in Faults
    /\ Return(c)
    /\ UNCHANGED <<pluginVars, TransportVars, ledger, late, history>>

\* The rest of get_traffic_contacts: drop the ledger's ids the reading does not
\* list, and report those it lists that the ledger knows.
Merge(c) ==
    /\ At(c, "merging")
    /\ ledger' = ledger \cap call[c].seen
    /\ Return(c)
    /\ UNCHANGED <<pluginVars, TransportVars, late, history>>

\* The station is restarted while the simulator runs on: calls, ledger and
\* counter are gone, a PATCH under way may have arrived.  The probe finds the
\* plugin only if its heartbeat moves.
Restart ==
    /\ run < MaxRun
    /\ run' = run + 1
    /\ bridge' \in {FALSE, enabled}
    /\ seq' = 0 /\ holder' = Nobody
    /\ ledger' = {}
    /\ call' = [c \in Client |-> IdleCall]
    /\ late' = NoCommand
    /\ \/ UNCHANGED command
       \/ \E c \in Client : At(c, "writing") /\ command' = CommandOf(c)
       \/ late # NoCommand /\ command' = late
    /\ UNCHANGED <<enabled, entities, ack, contacts, history>>

CallStep(c) ==
    \/ \E op \in CallOp, i \in Id \cup {NoId} : Ask(c, op, i)
    \/ AskContacts(c)
    \/ TakeLock(c)
    \/ CommandWritten(c)
    \/ GiveUp(c)
    \/ Answered(c)
    \/ ContactsServed(c)
    \/ ContactsFail(c)
    \/ Merge(c)

Next ==
    \/ FlightLoop
    \/ Disable
    \/ Enable
    \/ LateWrite
    \/ Restart
    \/ \E c \in Client : CallStep(c)

Spec == Init /\ [][Next]_vars

\* asyncio runs what is ready, httpx times out, and the lock is handed over in
\* the order it was asked for, so no waiter is passed over for ever.
Fairness ==
    \A c \in Client :
        /\ SF_vars(TakeLock(c))
        /\ WF_vars(CommandWritten(c) \/ (At(c, "writing") /\ GiveUp(c)))
        /\ WF_vars(Answered(c) \/ GiveUp(c))
        /\ WF_vars(ContactsServed(c) \/ ContactsFail(c))
        /\ WF_vars(Merge(c))

LiveSpec == Spec /\ Fairness

-----------------------------------------------------------------------------
(* Properties.                                                             *)

Call == [pc : {"idle", "queued", "writing", "polling", "reading", "merging"},
         op : CallOp \cup {"read"}, id : Id \cup {NoId}, seq : 0 .. MaxSeq, seen : SUBSET Id]

TypeOK ==
    /\ enabled \in BOOLEAN /\ bridge \in BOOLEAN /\ misled \in BOOLEAN
    /\ entities \subseteq Id /\ contacts \subseteq Id /\ ledger \subseteq Id
    /\ drawn \subseteq Id /\ created \subseteq Id
    /\ command \in Command \cup {NoCommand} /\ late \in Command \cup {NoCommand}
    /\ ack \in Ack
    /\ run \in 1 .. MaxRun /\ seq \in 0 .. MaxSeq
    /\ holder \in Client \cup {Nobody}
    /\ call \in [Client -> Call]
    /\ told \in [Id -> {"nothing", "live", "refused", "gone"}]

\* "at most one command in flight" (traffic_bridge.py): between its PATCH and
\* its ack a command has the transport to itself, whatever calls run beside it.
OneInFlight ==
    \A c \in Client : At(c, "writing") \/ At(c, "polling") => holder = c

\* Unless an ack of an earlier run was believed, what the instructor is told
\* is so: a spawn reported live was made, one refused never flies (not even
\* through a write that arrives late), one reported gone is gone.
AnswersAreTrue ==
    ~misled => \A i \in Id :
        /\ told[i] = "live"    => i \in created
        /\ told[i] = "refused" => i \notin created
        /\ told[i] = "gone"    => i \in created \ entities

\* A command takes effect at most once: an entity that expired, was despawned
\* or was cleared is never made again, by no repeat and no late write.
GoneForGood == [][(created \ entities) \cap entities' = {}]_vars

\* Every call of the station ends, whoever else fails holding the lock.
EveryCallReturns == \A c \in Client : ~At(c, "idle") ~> At(c, "idle")

\* The transport tells the truth because its commands take turns: one in flight, and
\* each answer is that command's (traffic_bridge.py, send_command).
CommandsAreAnswered == OneInFlight /\ AnswersAreTrue

-----------------------------------------------------------------------------
(* The inductive invariant (TrafficBridgeProofs).                          *)

InFlight(c) == call[c].pc \in {"writing", "polling"}
\* A spawn on its way to the plugin: as a command, or still in a call.
Spawns(m, i) == m.op = "spawn" /\ m.id = i
ToSpawn(c)   == call[c].op = "spawn" /\ call[c].pc \in {"queued", "writing"}
Spawning(i)  == \/ Spawns(command, i) \/ Spawns(late, i)
                \/ \E c \in Client : ToSpawn(c) /\ call[c].id = i

\* Only what was handed out is made, told of or asked about.
NamesAreDrawn ==
    /\ entities \subseteq created /\ created \subseteq drawn
    /\ \A i \in Id : told[i] # "nothing" => i \in drawn
    /\ \A c \in Client : call[c].op \in {"spawn", "despawn"} => call[c].id \in drawn
    /\ \A c, d \in Client : c # d /\ call[c].op = "spawn" /\ call[d].op = "spawn"
                              => call[c].id # call[d].id

\* A spawn is in one place, and has not taken effect.
SpawnsOnce ==
    /\ command.op = "spawn" => command.id \in drawn \ created
    /\ late.op = "spawn" => late.id \in drawn \ created /\ ~Spawns(command, late.id)
    /\ \A c \in Client : ToSpawn(c) => /\ call[c].id \in drawn \ created
                                       /\ ~Spawns(command, call[c].id) /\ ~Spawns(late, call[c].id)

\* The commands of a run are numbered in turn; whatever the call in flight did not
\* send, command, late PATCH or ack, is older than it.
TakesTurns ==
    /\ OneInFlight
    /\ \A c \in Client : InFlight(c) \/ At(c, "queued") => call[c].op \in CallOp
    /\ command.op # "none" => command.run <= run /\ (command.run = run => command.seq <= seq)
    /\ late.op # "none" => late.run = run /\ late.seq <= seq
    /\ ack.run <= run /\ (ack.run = run => ack.seq <= seq)
    /\ \A c \in Client : InFlight(c) =>
         /\ call[c].seq = seq /\ seq >= 1
         /\ late.op # "none" => late.seq < seq
         /\ At(c, "writing") => /\ command.run = run => command.seq < seq
                                /\ ack.run = run => ack.seq < seq
         /\ At(c, "polling") /\ command.run = run /\ command.seq = seq =>
              command = CommandOf(c) /\ (ack.run = run => ack.seq < seq)

\* What the ack of this very command says is so.
AckIsTrue(c) ==
    LET i == call[c].id IN
    /\ call[c].op = "spawn" /\ ack.result = "ok" => i \in created
    /\ call[c].op = "spawn" /\ ack.result = "refused" => i \notin created /\ ~Spawning(i)
    /\ call[c].op = "despawn" => i \notin entities
    /\ call[c].op = "clear_all" => \A j \in Id : told[j] = "live" => j \notin entities

TrueSoFar ==
    ~misled =>
        /\ AnswersAreTrue
        /\ \A i \in Id : told[i] = "refused" => ~Spawning(i)
        /\ \A c \in Client : call[c].op = "despawn" => call[c].id \in created
        /\ \A c \in Client : At(c, "polling") /\ ack.run = run /\ ack.seq = call[c].seq => AckIsTrue(c)

Inv == TypeOK /\ NamesAreDrawn /\ SpawnsOnce /\ TakesTurns /\ TrueSoFar
=============================================================================
