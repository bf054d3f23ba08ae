----------------------------- MODULE ControlPlane -----------------------------
(***************************************************************************)
(* The slash commands /join and /leave of bot.py as the event loop runs    *)
(* them: any number of invocations at once, suspended at every await, any  *)
(* of which may raise. They share the dict active, py-cord's registry of   *)
(* voice protocols (one per guild, the only mutual exclusion there is) and *)
(* the meetings table.                                                     *)
(*                                                                         *)
(* A /join that got as far as channel.connect is known by its invocation:  *)
(* it stands for the protocol, the DAVEVoiceClient and the Meeting it made.*)
(***************************************************************************)
EXTENDS Integers

CONSTANTS Commands,     (* invocations of /join and /leave            *)
          Guilds,
          Channels,     (* voice channels                             *)
          GuildOf,      (* the guild of a channel                     *)
          Meetings,     (* ids of rows of the meetings table          *)
          None

ASSUME GuildOfAssumption == GuildOf \in [Channels -> Guilds]
ASSUME MeetingIdsAssumption == Meetings \subseteq Nat
ASSUME NoneIsNew == None \notin Commands \cup Guilds \cup Channels \cup Meetings

VARIABLES pc,         (* where each invocation is suspended                          *)
          chan,       (* the channel a /join is about                                *)
          entry,      (* the /join whose tuple a /leave has popped from active       *)
          meeting,    (* the row a /join has inserted                                *)
          client,     (* state of a /join's DAVEVoiceClient                          *)
          registry,   (* py-cord: the protocol registered for each guild             *)
          active,     (* bot.active: the recording of each guild                     *)
          status,     (* meetings.status                                             *)
          channelOf,  (* meetings.platform_specific_id                               *)
          marker      (* finalizing/                                                 *)

tables == <<status, channelOf>>
vars == <<pc, chan, entry, meeting, client, registry, active, status, channelOf, marker>>

(***************************************************************************)
(* /join:  deferred, connecting (awaiting channel.connect), refused (no    *)
(*         full credentials, awaiting disconnect), retire, insert and      *)
(*         session (awaiting that statement), start, undo (start raised,   *)
(*         awaiting disconnect), fail (awaiting the UPDATE to 'failed')    *)
(* /leave: defer, stop, disconnect, store                                  *)
(* Either ends done; db_error is a /join that a failed statement, or a     *)
(* pool that could not be created, has ended with an exception.            *)
(***************************************************************************)
JoinPc == {"deferred", "connecting", "refused", "retire", "insert", "session", "start", "undo", "fail"}
Idle == {"new", "done", "db_error"}
LeavePc == {"defer", "stop", "disconnect", "store"}

Terminal == {"failed", "completed"}

\* What the type of each variable is.
CommandTypeOK ==
    /\ pc \in [Commands -> Idle \cup JoinPc \cup LeavePc]
    /\ chan \in [Commands -> Channels \cup {None}]
    /\ entry \in [Commands -> Commands \cup {None}]
    /\ meeting \in [Commands -> Meetings \cup {None}]
    /\ client \in [Commands -> {"none", "running", "stopped", "broken"}]
    /\ registry \in [Guilds -> Commands \cup {None}]
    /\ active \in [Guilds -> Commands \cup {None}]
    /\ status \in [Meetings -> {"none", "active"} \cup Terminal]
    /\ channelOf \in [Meetings -> Channels \cup {None}]
    /\ marker \in SUBSET Meetings

Init ==
    /\ pc = [k \in Commands |-> "new"]
    /\ chan = [k \in Commands |-> None]
    /\ entry = [k \in Commands |-> None]
    /\ meeting = [k \in Commands |-> None]
    /\ client = [k \in Commands |-> "none"]
    /\ registry = [g \in Guilds |-> None]
    /\ active = [g \in Guilds |-> None]
    /\ status = [m \in Meetings |-> "none"]
    /\ channelOf = [m \in Meetings |-> None]
    /\ marker = {}

Goto(k, from, to) == pc[k] = from /\ pc' = [pc EXCEPT ![k] = to]
Guild(k) == GuildOf[chan[k]]
Register(g, k) == registry' = [registry EXCEPT ![g] = k]

-------------------------------------------------------------------------------
join(k, ch) ==
    /\ Goto(k, "new", IF active[GuildOf[ch]] # None THEN "done" ELSE "deferred")
    /\ chan' = [chan EXCEPT ![k] = ch]
    /\ UNCHANGED <<entry, meeting, client, registry, active, tables, marker>>

MayRegister(g) == registry[g] = None

\* channel.connect registers the protocol before it awaits anything; it raises ClientException
\* when there is one. ctx.defer may have raised before that.
connect(k) ==
    /\ \/ Goto(k, "deferred", "connecting") /\ MayRegister(Guild(k)) /\ Register(Guild(k), k)
       \/ Goto(k, "deferred", "done") /\ UNCHANGED registry
    /\ UNCHANGED <<chan, entry, meeting, client, active, tables, marker>>

\* The handshake ends: with all credentials, without, in a timeout (py-cord disconnects) or in
\* any other exception, which nobody handles.
connected(k) ==
    /\ \/ Goto(k, "connecting", "retire") /\ UNCHANGED registry
       \/ Goto(k, "connecting", "refused") /\ UNCHANGED registry
       \/ Goto(k, "connecting", "done") /\ Register(Guild(k), None)
       \/ Goto(k, "connecting", "done") /\ UNCHANGED registry
    /\ UNCHANGED <<chan, entry, meeting, client, active, tables, marker>>

\* DAVEVoiceProtocol.disconnect: the cleanup is in a finally, so it happens even on an error.
disconnect_refused(k) ==
    /\ Goto(k, "refused", "done")
    /\ Register(Guild(k), None)
    /\ UNCHANGED <<chan, entry, meeting, client, active, tables, marker>>

Retired(m, ch) == channelOf[m] = ch /\ status[m] \notin Terminal

retire_Skipped(k) ==
    /\ Goto(k, "retire", "insert")
    /\ UNCHANGED <<chan, entry, meeting, client, registry, active, tables, marker>>

retire(k) ==
    /\ \/ /\ Goto(k, "retire", "insert")
          /\ status' = [m \in Meetings |-> IF Retired(m, chan[k]) THEN "failed" ELSE status[m]]
       \/ Goto(k, "retire", "db_error") /\ UNCHANGED status
    /\ UNCHANGED <<chan, entry, meeting, client, registry, active, channelOf, marker>>

\* The unique partial index; the id is the next one of the sequence.
CanInsert(ch) == \A m \in Meetings : ~Retired(m, ch)

insert(k) ==
    /\ \/ /\ CanInsert(chan[k])
          /\ \E m \in Meetings :
                /\ status[m] = "none" /\ \A n \in Meetings : n < m => status[n] # "none"
                /\ status' = [status EXCEPT ![m] = "active"]
                /\ channelOf' = [channelOf EXCEPT ![m] = chan[k]]
                /\ \/ Goto(k, "insert", "session") /\ meeting' = [meeting EXCEPT ![k] = m]
                   \/ Goto(k, "insert", "db_error") /\ UNCHANGED meeting
       \/ Goto(k, "insert", "db_error") /\ UNCHANGED <<tables, meeting>>
    /\ UNCHANGED <<chan, entry, client, registry, active, marker>>

insert_session(k) ==
    /\ Goto(k, "session", "start") \/ Goto(k, "session", "db_error")
    /\ UNCHANGED <<chan, entry, meeting, client, registry, active, tables, marker>>

start(k) ==
    /\ \/ /\ Goto(k, "start", "done")
          /\ client' = [client EXCEPT ![k] = "running"]
          /\ active' = [active EXCEPT ![Guild(k)] = k]
       \/ /\ Goto(k, "start", "undo")
          /\ client' = [client EXCEPT ![k] = "broken"]
          /\ UNCHANGED active
    /\ UNCHANGED <<chan, entry, meeting, registry, tables, marker>>

undo(k) ==
    /\ Goto(k, "undo", "fail") \/ Goto(k, "undo", "done")
    /\ Register(Guild(k), None)
    /\ UNCHANGED <<chan, entry, meeting, client, active, tables, marker>>

fail(k) ==
    /\ Goto(k, "fail", "done")
    /\ UNCHANGED status \/ status' = [status EXCEPT ![meeting[k]] = "failed"]
    /\ UNCHANGED <<chan, entry, meeting, client, registry, active, channelOf, marker>>

-------------------------------------------------------------------------------
leave_Get(k, g) ==
    /\ Goto(k, "new", IF active[g] = None THEN "done" ELSE "defer")
    /\ entry' = [entry EXCEPT ![k] = active[g]]
    /\ UNCHANGED <<chan, meeting, client, registry, active, tables, marker>>

\* active.pop comes before any await: a second /leave finds nothing.
leave(k, g) ==
    /\ Goto(k, "new", IF active[g] = None THEN "done" ELSE "defer")
    /\ entry' = [entry EXCEPT ![k] = active[g]]
    /\ active' = [active EXCEPT ![g] = None]
    /\ UNCHANGED <<chan, meeting, client, registry, tables, marker>>

defer(k) ==
    /\ Goto(k, "defer", "stop") \/ Goto(k, "defer", "done")
    /\ UNCHANGED <<chan, entry, meeting, client, registry, active, tables, marker>>

stop_KeepsSocket(k) ==
    /\ Goto(k, "stop", "disconnect") \/ Goto(k, "stop", "done")
    /\ UNCHANGED <<chan, entry, meeting, client, registry, active, tables, marker>>

\* stop() closes the UDP transport first, whatever the close of the websocket does.
stop(k) ==
    /\ Goto(k, "stop", "disconnect") \/ Goto(k, "stop", "done")
    /\ client' = [client EXCEPT ![entry[k]] = "stopped"]
    /\ UNCHANGED <<chan, entry, meeting, registry, active, tables, marker>>

disconnect_KeepsRegistry(k) ==
    /\ \/ Goto(k, "disconnect", "store") /\ Register(Guild(entry[k]), None)
       \/ Goto(k, "disconnect", "store") /\ UNCHANGED registry
    /\ UNCHANGED <<chan, entry, meeting, client, active, tables, marker>>

disconnect(k) ==
    /\ Goto(k, "disconnect", "store") \/ Goto(k, "disconnect", "done")
    /\ Register(Guild(entry[k]), None)
    /\ UNCHANGED <<chan, entry, meeting, client, active, tables, marker>>

\* The stores, each awaited, then the marker; a full disk leaves no marker.
store(k) ==
    /\ Goto(k, "store", "done")
    /\ UNCHANGED marker \/ marker' = marker \cup {meeting[entry[k]]}
    /\ UNCHANGED <<chan, entry, meeting, client, registry, active, tables>>

-------------------------------------------------------------------------------
\* The drainer (module Drainer), as far as the commands can see it.
complete(m) ==
    /\ m \in marker
    /\ status' = [status EXCEPT ![m] = "completed"]
    /\ marker' = marker \ {m}
    /\ UNCHANGED <<pc, chan, entry, meeting, client, registry, active, channelOf>>

\* The process dies and is started again: only the disk and the tables are left.
restart ==
    /\ pc' = [k \in Commands |-> IF pc[k] = "new" THEN "new" ELSE "done"]
    /\ client' = [k \in Commands |-> "none"]
    /\ registry' = [g \in Guilds |-> None]
    /\ active' = [g \in Guilds |-> None]
    /\ UNCHANGED <<chan, entry, meeting, tables, marker>>

JoinStep(k) ==
    \/ \E ch \in Channels : join(k, ch)
    \/ connect(k) \/ connected(k) \/ disconnect_refused(k)
    \/ retire(k) \/ insert(k) \/ insert_session(k) \/ start(k) \/ undo(k) \/ fail(k)

LeaveStep(k) ==
    \/ \E g \in Guilds : leave(k, g)
    \/ defer(k) \/ stop(k) \/ disconnect(k) \/ store(k)

Next == (\E k \in Commands : JoinStep(k) \/ LeaveStep(k)) \/ (\E m \in Meetings : complete(m)) \/ restart

Spec == Init /\ [][Next]_vars

-------------------------------------------------------------------------------
\* The INSERT of /join never meets the unique index: no other /join can come between a channel's
\* retirement and its INSERT, whatever fails around them.
InsertMeetsNoLiveRow == \A k \in Commands : pc[k] = "insert" => CanInsert(chan[k])

\* What active says is true: the guild's one registered protocol, a client that receives, and a
\* row that says 'active'. No other invocation takes any of them away while active lists them.
RecordingIsSound ==
    \A g \in Guilds : active[g] # None =>
        /\ registry[g] = active[g]
        /\ client[active[g]] = "running"
        /\ status[meeting[active[g]]] = "active"

\* A guild never has two clients receiving: its audio is never recorded twice.
OneClientPerGuild ==
    \A j, k \in Commands :
        client[j] = "running" /\ client[k] = "running" /\ Guild(j) = Guild(k) => j = k

-------------------------------------------------------------------------------
(* The inductive invariant *)

\* Between register and cleanup, the guild's registry holds the invocation's own protocol.
HoldsRegistry == {"connecting", "refused", "retire", "insert", "session", "start", "undo"}

JoinHolds ==
    \A k \in Commands :
        /\ pc[k] \in JoinPc => chan[k] \in Channels
        /\ pc[k] \in HoldsRegistry => registry[Guild(k)] = k
        /\ pc[k] \in JoinPc \cup {"new"} =>
              client[k] # "running" /\ \A g \in Guilds : active[g] # k
        /\ client[k] = "running" => chan[k] \in Channels /\ registry[Guild(k)] = k

\* The popped tuple belongs to one /leave, and its protocol is registered until disconnect.
LeaveHolds ==
    /\ \A k \in Commands : pc[k] \in LeavePc =>
          /\ entry[k] \in Commands /\ pc[entry[k]] = "done"
          /\ chan[entry[k]] \in Channels /\ meeting[entry[k]] \in Meetings
          /\ \A g \in Guilds : active[g] # entry[k]
          /\ pc[k] # "store" => registry[Guild(entry[k])] = entry[k]
          /\ pc[k] \in {"disconnect", "store"} => client[entry[k]] # "running"
    /\ \A j, k \in Commands :
          pc[j] \in LeavePc /\ pc[k] \in LeavePc /\ entry[j] = entry[k] => j = k

\* A meeting has one owner; it is finalized only when its owner's recording is over.
Owned(k) == pc[k] \in {"session", "start"} \/ \E g \in Guilds : active[g] = k

RowsHeld ==
    /\ \A k \in Commands :
          /\ meeting[k] # None => status[meeting[k]] # "none"
          /\ pc[k] \in {"session", "start", "undo", "fail"} => meeting[k] \in Meetings
          /\ Owned(k) =>
                /\ meeting[k] \in Meetings /\ meeting[k] \notin marker
                /\ status[meeting[k]] = "active" /\ channelOf[meeting[k]] = chan[k]
    /\ \A j, k \in Commands : meeting[j] = meeting[k] /\ meeting[j] # None => j = k
    /\ \A m \in Meetings : (status[m] = "none" <=> channelOf[m] = None) /\ (m \in marker => status[m] # "none")

ActiveHolds ==
    \A g \in Guilds : active[g] # None =>
        /\ pc[active[g]] = "done" /\ client[active[g]] = "running"
        /\ chan[active[g]] \in Channels /\ Guild(active[g]) = g

CInv == CommandTypeOK /\ JoinHolds /\ LeaveHolds /\ RowsHeld /\ ActiveHolds /\ InsertMeetsNoLiveRow

\* A registered protocol is that of a /join of the guild, one that is past connect and not yet at
\* the UPDATE that follows its disconnect.
RegistryHolds ==
    \A g \in Guilds : registry[g] # None =>
        /\ chan[registry[g]] \in Channels /\ Guild(registry[g]) = g
        /\ pc[registry[g]] \in HoldsRegistry \cup {"done", "db_error"}

\* A /join has no row before its INSERT, then one of its own channel; the row of a /join that could
\* not start is never finalized.
BeforeInsert == {"new", "deferred", "connecting", "refused", "retire", "insert"}

RowsFollow ==
    \A k \in Commands :
        /\ pc[k] = "new" => chan[k] = None
        /\ pc[k] \in BeforeInsert \/ chan[k] = None => meeting[k] = None
        /\ meeting[k] # None => channelOf[meeting[k]] = chan[k]
        /\ pc[k] \in {"undo", "fail"} => meeting[k] \notin marker /\ status[meeting[k]] \in {"active", "failed"}

\* CInv, and what the refinement of the lifecycle needs besides.
LInv == CInv /\ RegistryHolds /\ RowsFollow

-------------------------------------------------------------------------------
(* The calls of a guild, read off the invocations, py-cord, active and the tables *)

In(g, k) == chan[k] # None /\ Guild(k) = g
InLeave(pcs, k) == \E j \in Commands : pc[j] \in pcs /\ entry[j] = k

Spent(g) == {k \in Commands : In(g, k) /\ pc[k] \notin {"new", "deferred"}}
Registered(g) == {k \in Commands : registry[g] = k}
Joining(g) == {k \in Commands : In(g, k) /\ pc[k] \in HoldsRegistry}
Recording(g) == {k \in Commands : active[g] = k}
Leaving(g) == {k \in Commands : In(g, k) /\ InLeave({"defer", "stop", "disconnect"}, k)}
Storing(g) == {k \in Commands : In(g, k) /\ InLeave({"store"}, k)}
Row(g) == [k \in Commands |-> IF In(g, k) /\ meeting[k] # None THEN status[meeting[k]] ELSE "none"]
Marked(g) == {k \in Commands : In(g, k) /\ meeting[k] # None /\ meeting[k] \in marker}

Calls(g) == INSTANCE CallLifecycle WITH
    Calls <- Commands, spent <- Spent(g), registered <- Registered(g), joining <- Joining(g),
    recording <- Recording(g), leaving <- Leaving(g), storing <- Storing(g), row <- Row(g),
    marked <- Marked(g)

\* However its commands interleave and whatever fails in them, the calls of every guild live by
\* CallLifecycle: one at a time holds the protocol, joins, records and is left in this order, its
\* row is nobody else's to fail meanwhile, and is completed after its mark and for good.
CommandsImplementLifecycle ==
    /\ \A g \in Guilds : Calls(g)!LifecycleInit
    /\ [][\A g \in Guilds : [Calls(g)!LifecycleNext]_(Calls(g)!lifecycleVars)]_vars

-------------------------------------------------------------------------------
\* A /join that failed while Postgres was away heals once it is back: it has let go of the voice
\* protocol, so that the next /join can register its own.
FailedJoinLetsGo == \A k \in Commands : pc[k] = "db_error" => registry[Guild(k)] # k
===============================================================================
