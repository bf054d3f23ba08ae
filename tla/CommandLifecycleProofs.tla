------------------------ MODULE CommandLifecycleProofs ------------------------
(***************************************************************************)
(* ControlPlane implements CallLifecycle in every guild: with the lock of  *)
(* ControlPlaneProofs, each step of an invocation is a step of the one     *)
(* call it is about and changes nothing for any other guild.               *)
(***************************************************************************)
EXTENDS ControlPlaneProofs

USE GuildOfAssumption, MeetingIdsAssumption, NoneIsNew
USE DEF Goto, Register, Guild, tables, Idle, JoinPc, LeavePc, HoldsRegistry, Terminal

(* The invariant *)

\* The steps of /join move the registration and the row of their own invocation only.
LEMMA LifeJoin ==
    ASSUME LInv, NEW k \in Commands, JoinStep(k) PROVE RegistryHolds' /\ RowsFollow'
<1> USE DEF LInv, CInv
<1>1. ASSUME NEW ch \in Channels, join(k, ch) PROVE RegistryHolds' /\ RowsFollow'
  BY <1>1 DEF join, CommandTypeOK, RegistryHolds, RowsFollow, BeforeInsert
<1>2. CASE connect(k)
  BY <1>2 DEF connect, MayRegister, CommandTypeOK, JoinHolds, RegistryHolds, RowsFollow, BeforeInsert
<1>3. CASE connected(k) \/ disconnect_refused(k)
  BY <1>3 DEF connected, disconnect_refused, CommandTypeOK, JoinHolds, RegistryHolds, RowsFollow, BeforeInsert
<1>4. CASE retire(k)
  <2>1. RegistryHolds'
    BY <1>4 DEF retire, CommandTypeOK, RegistryHolds
  <2>2. \A m \in Meetings : status'[m] = status[m] \/ status'[m] = "failed"
    BY <1>4 DEF retire
  <2>3. \A j \in Commands : pc'[j] \in BeforeInsert => pc[j] \in BeforeInsert
    BY <1>4 DEF retire, CommandTypeOK, BeforeInsert
  <2>4. \A j \in Commands : pc'[j] \in {"new", "undo", "fail"} => pc'[j] = pc[j]
    BY <1>4 DEF retire, CommandTypeOK
  <2>5. UNCHANGED <<chan, meeting, marker, channelOf>>
    BY <1>4 DEF retire
  <2>6. \A j \in Commands : pc[j] \in {"undo", "fail"} => meeting[j] \in Meetings
    BY DEF RowsHeld
  <2>7. RowsFollow'
    BY <2>2, <2>3, <2>4, <2>5, <2>6 DEF RowsFollow
  <2> QED
    BY <2>1, <2>7
<1>5. CASE insert(k)
  <2>1. RegistryHolds'
    BY <1>5 DEF insert, CommandTypeOK, RegistryHolds
  <2>2. pc[k] = "insert" /\ pc'[k] \in {"session", "db_error"} /\ chan[k] \in Channels
    BY <1>5 DEF insert, CommandTypeOK, JoinHolds
  <2>3. \A j \in Commands \ {k} : pc'[j] = pc[j] /\ meeting'[j] = meeting[j]
    BY <1>5 DEF insert, CommandTypeOK
  <2>4. \A m \in Meetings :
            status[m] # "none" => status'[m] = status[m] /\ channelOf'[m] = channelOf[m]
    BY <1>5 DEF insert, CommandTypeOK
  <2>5. UNCHANGED <<chan, marker>>
    BY <1>5 DEF insert
  <2>6. \A j \in Commands : meeting[j] # None => meeting[j] \in Meetings /\ status[meeting[j]] # "none"
    BY DEF CommandTypeOK, RowsHeld
  <2> DEFINE Follows(j) ==
         /\ pc[j] = "new" => chan[j] = None
         /\ pc[j] \in BeforeInsert \/ chan[j] = None => meeting[j] = None
         /\ meeting[j] # None => channelOf[meeting[j]] = chan[j]
         /\ pc[j] \in {"undo", "fail"} => meeting[j] \notin marker /\ status[meeting[j]] \in {"active", "failed"}
  <2>7. Follows(k)'
    <3>1. meeting'[k] # None => channelOf'[meeting'[k]] = chan[k]
      BY <1>5, <2>2 DEF insert, CommandTypeOK, RowsFollow, BeforeInsert
    <3> QED
      BY <2>2, <2>5, <3>1 DEF BeforeInsert
  <2>8. ASSUME NEW j \in Commands \ {k} PROVE Follows(j)'
    <3>1. Follows(j) /\ (pc[j] \in {"undo", "fail"} => meeting[j] \in Meetings)
      BY DEF RowsFollow, RowsHeld
    <3> QED
      BY <3>1, <2>3, <2>4, <2>5, <2>6
  <2> QED
    BY <2>1, <2>7, <2>8 DEF RowsFollow
<1>6. CASE insert_session(k) \/ start(k)
  BY <1>6 DEF insert_session, start, CommandTypeOK, JoinHolds, RowsHeld, Owned, RegistryHolds, RowsFollow, BeforeInsert
<1>7. CASE undo(k)
  BY <1>7 DEF undo, CommandTypeOK, JoinHolds, RegistryHolds, RowsFollow, BeforeInsert
<1>8. CASE fail(k)
  <2>1. RegistryHolds'
    BY <1>8 DEF fail, CommandTypeOK, RegistryHolds
  <2>2. \A m \in Meetings : status'[m] = status[m] \/ status'[m] = "failed"
    BY <1>8 DEF fail, CommandTypeOK
  <2>3. \A j \in Commands : pc'[j] \in BeforeInsert => pc[j] \in BeforeInsert
    BY <1>8 DEF fail, CommandTypeOK, BeforeInsert
  <2>4. \A j \in Commands : pc'[j] \in {"new", "undo", "fail"} => pc'[j] = pc[j]
    BY <1>8 DEF fail, CommandTypeOK
  <2>5. UNCHANGED <<chan, meeting, marker, channelOf>>
    BY <1>8 DEF fail
  <2>6. \A j \in Commands : pc[j] \in {"undo", "fail"} => meeting[j] \in Meetings
    BY DEF RowsHeld
  <2>7. RowsFollow'
    BY <2>2, <2>3, <2>4, <2>5, <2>6 DEF RowsFollow
  <2> QED
    BY <2>1, <2>7
<1> QED
  BY <1>1, <1>2, <1>3, <1>4, <1>5, <1>6, <1>7, <1>8 DEF JoinStep

\* The steps of /leave mark the meeting of a /join that is done.
LEMMA LifeLeave ==
    ASSUME LInv, NEW k \in Commands, LeaveStep(k) PROVE RegistryHolds' /\ RowsFollow'
<1> USE DEF LInv, CInv
<1>1. ASSUME NEW g \in Guilds, leave(k, g) PROVE RegistryHolds' /\ RowsFollow'
  BY <1>1 DEF leave, CommandTypeOK, RegistryHolds, RowsFollow, BeforeInsert
<1>2. CASE defer(k) \/ stop(k)
  BY <1>2 DEF defer, stop, CommandTypeOK, RegistryHolds, RowsFollow, BeforeInsert
<1>3. CASE disconnect(k)
  BY <1>3 DEF disconnect, CommandTypeOK, LeaveHolds, RegistryHolds, RowsFollow, BeforeInsert
<1>4. CASE store(k)
  BY <1>4 DEF store, CommandTypeOK, LeaveHolds, RowsHeld, RegistryHolds, RowsFollow, BeforeInsert
<1> QED
  BY <1>1, <1>2, <1>3, <1>4 DEF LeaveStep

\* CInv and what the lifecycle adds hold in every reachable state.
THEOREM LifecycleInvariance == Spec => []LInv
<1>1. Init => RegistryHolds /\ RowsFollow
  BY DEF Init, RegistryHolds, RowsFollow, BeforeInsert
<1>2. LInv /\ [Next]_vars => RegistryHolds' /\ RowsFollow'
  <2> SUFFICES ASSUME LInv, [Next]_vars PROVE RegistryHolds' /\ RowsFollow'
    OBVIOUS
  <2>1. CASE UNCHANGED vars
    BY <2>1 DEF vars, LInv, RegistryHolds, RowsFollow
  <2>2. ASSUME NEW m \in Meetings, complete(m) PROVE RegistryHolds' /\ RowsFollow'
    BY <2>2 DEF complete, LInv, CInv, CommandTypeOK, RegistryHolds, RowsFollow, BeforeInsert
  <2>3. CASE restart
    BY <2>3 DEF restart, LInv, CInv, CommandTypeOK, RegistryHolds, RowsFollow, BeforeInsert
  <2> QED
    BY <2>1, <2>2, <2>3, LifeJoin, LifeLeave DEF Next
<1> QED
  BY <1>1, <1>2, CommandInvariance, PTL DEF Spec, LInv
-------------------------------------------------------------------------------
(* Each step of the commands, for each guild *)

LifecycleStep(g) == [Calls(g)!LifecycleNext]_(Calls(g)!lifecycleVars)

\* What holds, joins, records or is being left holds the guild's registration.
LEMMA OneHolder ==
    ASSUME LInv, NEW g \in Guilds
    PROVE  /\ Joining(g) \cup Recording(g) \cup Leaving(g) \subseteq Registered(g)
           /\ \A k \in Registered(g) : Registered(g) = {k} /\ k \in Spent(g)
<1>1. Joining(g) \subseteq Registered(g)
  BY DEF LInv, CInv, JoinHolds, Joining, Registered, In
<1>2. Recording(g) \subseteq Registered(g)
  BY DEF LInv, CInv, CommandTypeOK, JoinHolds, ActiveHolds, Recording, Registered
<1>3. Leaving(g) \subseteq Registered(g)
  BY DEF LInv, CInv, LeaveHolds, Leaving, InLeave, In, Registered
<1>4. \A k \in Registered(g) : Registered(g) = {k} /\ k \in Spent(g)
  BY DEF LInv, RegistryHolds, Registered, Spent, In
<1> QED
  BY <1>1, <1>2, <1>3, <1>4

\* An invocation that moves is spent, or joins, by where it moves to.
LEMMA PcMoves ==
    ASSUME CommandTypeOK, NEW g \in Guilds, NEW k \in Commands, NEW to,
           pc' = [pc EXCEPT ![k] = to], UNCHANGED chan
    PROVE  /\ In(g, k) /\ to \notin {"new", "deferred"} => Spent(g)' = Spent(g) \cup {k}
           /\ ~In(g, k) \/ (pc[k] \notin {"new", "deferred"} /\ to \notin {"new", "deferred"}) =>
                 Spent(g)' = Spent(g)
           /\ In(g, k) /\ to \in HoldsRegistry => Joining(g)' = Joining(g) \cup {k}
           /\ to \notin HoldsRegistry => Joining(g)' = Joining(g) \ {k}
           /\ ~In(g, k) => Joining(g)' = Joining(g)
<1>1. \A j \in Commands : In(g, j)' <=> In(g, j)
  BY DEF In
<1>2. pc'[k] = to /\ \A j \in Commands \ {k} : pc'[j] = pc[j]
  BY DEF CommandTypeOK
<1> HIDE DEF HoldsRegistry
<1> QED
  BY <1>1, <1>2 DEF Spent, Joining

\* A /join that moves leaves the calls that are being left alone.
LEMMA LeavesKept ==
    ASSUME CommandTypeOK, NEW g \in Guilds, NEW k \in Commands, NEW to,
           pc' = [pc EXCEPT ![k] = to], pc[k] \notin LeavePc, to \notin LeavePc,
           UNCHANGED <<chan, entry>>
    PROVE  Leaving(g)' = Leaving(g) /\ Storing(g)' = Storing(g)
<1>1. \A j \in Commands : In(g, j)' <=> In(g, j)
  BY DEF In
<1>2. ASSUME NEW j \in Commands
      PROVE  /\ InLeave({"defer", "stop", "disconnect"}, j)' <=> InLeave({"defer", "stop", "disconnect"}, j)
             /\ InLeave({"store"}, j)' <=> InLeave({"store"}, j)
  BY DEF InLeave, CommandTypeOK
<1> QED
  BY <1>1, <1>2 DEF Leaving, Storing

\* The views of the tables, the registry and active change with them only.
LEMMA ViewsKept ==
    ASSUME NEW g \in Guilds
    PROVE  /\ UNCHANGED <<chan, meeting, status>> => Row(g)' = Row(g)
           /\ UNCHANGED <<chan, meeting, marker>> => Marked(g)' = Marked(g)
           /\ UNCHANGED registry => Registered(g)' = Registered(g)
           /\ UNCHANGED active => Recording(g)' = Recording(g)
  BY DEF Row, Marked, Registered, Recording, In

\* Who registers or unregisters is the one call of its guild that changes.
LEMMA RegistryMoves ==
    ASSUME CommandTypeOK, NEW g \in Guilds, NEW h \in Guilds
    PROVE  /\ registry' = [registry EXCEPT ![h] = None] =>
                 Registered(g)' = IF g = h THEN {} ELSE Registered(g)
           /\ \A k \in Commands : registry' = [registry EXCEPT ![h] = k] =>
                 Registered(g)' = IF g = h THEN {k} ELSE Registered(g)
<1>1. registry' = [registry EXCEPT ![h] = None] => Registered(g)' = IF g = h THEN {} ELSE Registered(g)
  BY DEF Registered, CommandTypeOK
<1>2. ASSUME NEW k \in Commands, registry' = [registry EXCEPT ![h] = k]
      PROVE  Registered(g)' = IF g = h THEN {k} ELSE Registered(g)
  BY <1>2 DEF Registered, CommandTypeOK
<1> QED
  BY <1>1, <1>2
\* A step that changes none of the eight views is a stutter.
LEMMA LifecycleStutters ==
    ASSUME NEW g \in Guilds, Spent(g)' = Spent(g), Registered(g)' = Registered(g),
           Joining(g)' = Joining(g), Recording(g)' = Recording(g), Leaving(g)' = Leaving(g),
           Storing(g)' = Storing(g), Row(g)' = Row(g), Marked(g)' = Marked(g)
    PROVE  LifecycleStep(g)
  BY DEF LifecycleStep, Calls!lifecycleVars, Calls!holders

\* A /join that ends at the check of active is a Decline.
LEMMA StepJoin ==
    ASSUME LInv, NEW k \in Commands, NEW ch \in Channels, join(k, ch), NEW g \in Guilds
    PROVE  LifecycleStep(g)
<1>1. /\ pc[k] = "new" /\ chan[k] = None /\ meeting[k] = None
      /\ chan' = [chan EXCEPT ![k] = ch] /\ CommandTypeOK
      /\ \A j \in Commands : pc[j] \in LeavePc => entry[j] # k
  BY DEF join, LInv, CInv, RowsFollow, BeforeInsert, LeaveHolds
<1>2. /\ pc'[k] \in {"done", "deferred"} /\ \A j \in Commands \ {k} : pc'[j] = pc[j] /\ (In(g, j)' <=> In(g, j))
      /\ UNCHANGED <<entry, meeting, client, registry, active, tables, marker>>
  BY <1>1 DEF join, CommandTypeOK, In
<1>3. ~In(g, k)
  BY <1>1 DEF In
<1>4. /\ Joining(g)' = Joining(g) /\ Leaving(g)' = Leaving(g) /\ Storing(g)' = Storing(g)
      /\ Registered(g)' = Registered(g) /\ Recording(g)' = Recording(g)
  <2>1. Joining(g)' = Joining(g)
    BY <1>1, <1>2, <1>3 DEF Joining
  <2>2. \A j \in Commands : pc'[j] \in LeavePc <=> pc[j] \in LeavePc
    BY <1>1, <1>2
  <2>3. ~InLeave({"defer", "stop", "disconnect"}, k) /\ ~InLeave({"store"}, k)
    BY <1>1 DEF InLeave
  <2>4. \A j \in Commands :
          /\ InLeave({"defer", "stop", "disconnect"}, j)' <=> InLeave({"defer", "stop", "disconnect"}, j)
          /\ InLeave({"store"}, j)' <=> InLeave({"store"}, j)
    BY <1>1, <1>2 DEF InLeave
  <2>5. Leaving(g)' = Leaving(g) /\ Storing(g)' = Storing(g)
    BY <2>3, <2>4, <1>2, <1>3 DEF Leaving, Storing
  <2> QED
    BY <2>1, <2>5, <1>2, ViewsKept
<1>5. Row(g)' = Row(g) /\ Marked(g)' = Marked(g)
  BY <1>1, <1>2, <1>3 DEF Row, Marked
<1>6. CASE Spent(g)' = Spent(g)
  BY <1>4, <1>5, <1>6, LifecycleStutters
<1>7. CASE Spent(g)' = Spent(g) \cup {k}
  BY <1>4, <1>5, <1>7 DEF LifecycleStep, Calls!LifecycleNext, Calls!Decline, Calls!holders
<1>8. Spent(g)' = Spent(g) \/ Spent(g)' = Spent(g) \cup {k}
  BY <1>1, <1>2, <1>3 DEF Spent
<1> QED
  BY <1>6, <1>7, <1>8

\* channel.connect that registers is a Begin: nobody else of the guild holds the registration.
LEMMA StepConnect ==
    ASSUME LInv, NEW k \in Commands, connect(k), NEW g \in Guilds
    PROVE  LifecycleStep(g)
<1>0. /\ CommandTypeOK /\ pc[k] = "deferred" /\ Guild(k) \in Guilds /\ (In(g, k) <=> g = Guild(k))
      /\ UNCHANGED <<chan, entry, meeting, client, active, tables, marker>>
  BY DEF connect, LInv, CInv, JoinHolds, In
<1>1. Row(g)' = Row(g) /\ Marked(g)' = Marked(g) /\ Recording(g)' = Recording(g)
  BY <1>0, ViewsKept
<1>2. CASE Goto(k, "deferred", "done") /\ UNCHANGED registry
  <2>1. Leaving(g)' = Leaving(g) /\ Storing(g)' = Storing(g) /\ Registered(g)' = Registered(g)
    BY <1>0, <1>2, LeavesKept, ViewsKept
  <2>2. Joining(g)' = Joining(g)
    <3>1. k \notin Joining(g)
      BY <1>0 DEF Joining
    <3>2. pc' = [pc EXCEPT ![k] = "done"] /\ UNCHANGED chan
      BY <1>0, <1>2
    <3>3. "done" \notin HoldsRegistry => Joining(g)' = Joining(g) \ {k}
      BY <1>0, <3>2, PcMoves, Zenon
    <3> QED
      BY <3>1, <3>3
  <2>3. CASE In(g, k)
    <3>1. Spent(g)' = Spent(g) \cup {k}
      BY <1>0, <1>2, <2>3, PcMoves
    <3> QED
      BY <1>1, <2>1, <2>2, <3>1 DEF LifecycleStep, Calls!LifecycleNext, Calls!Decline, Calls!holders
  <2>4. CASE ~In(g, k)
    BY <1>0, <1>1, <1>2, <2>1, <2>2, <2>4, PcMoves, LifecycleStutters
  <2> QED
    BY <2>3, <2>4
<1>3. CASE Goto(k, "deferred", "connecting") /\ MayRegister(Guild(k)) /\ Register(Guild(k), k)
  <2>1. Leaving(g)' = Leaving(g) /\ Storing(g)' = Storing(g)
    BY <1>0, <1>3, LeavesKept
  <2>2. Registered(g)' = IF In(g, k) THEN {k} ELSE Registered(g)
    BY <1>0, <1>3, RegistryMoves
  <2>3. CASE In(g, k)
    <3>1. Registered(g) = {} /\ Joining(g) = {} /\ k \notin Spent(g)
      BY <1>0, <1>3, <2>3, OneHolder DEF MayRegister, Registered, Spent
    <3>2. Spent(g)' = Spent(g) \cup {k} /\ Joining(g)' = {k}
      BY <1>0, <1>3, <2>3, <3>1, PcMoves
    <3>3. Calls(g)!Retires
      BY <1>1 DEF Calls!Retires, Row
    <3> QED
      BY <1>1, <2>1, <2>2, <2>3, <3>1, <3>2, <3>3 DEF LifecycleStep, Calls!LifecycleNext, Calls!Begin
  <2>4. CASE ~In(g, k)
    BY <1>0, <1>1, <1>3, <2>1, <2>2, <2>4, PcMoves, LifecycleStutters
  <2> QED
    BY <2>3, <2>4
<1> QED
  BY <1>2, <1>3 DEF connect
\* A /join on its way keeps its guild's registration and its place.
LEMMA JoinMovesOn ==
    ASSUME LInv, NEW g \in Guilds, NEW k \in Commands, NEW to \in HoldsRegistry, pc[k] \in HoldsRegistry,
           pc' = [pc EXCEPT ![k] = to], UNCHANGED <<chan, entry, registry, active>>
    PROVE  /\ Spent(g)' = Spent(g) /\ Registered(g)' = Registered(g) /\ Joining(g)' = Joining(g)
           /\ Recording(g)' = Recording(g) /\ Leaving(g)' = Leaving(g) /\ Storing(g)' = Storing(g)
<1>1. CommandTypeOK /\ to \notin LeavePc \cup {"new", "deferred"} /\ pc[k] \notin LeavePc \cup {"new", "deferred"}
  BY DEF LInv, CInv
<1>2. Leaving(g)' = Leaving(g) /\ Storing(g)' = Storing(g)
  BY <1>1, LeavesKept
<1>3. Registered(g)' = Registered(g) /\ Recording(g)' = Recording(g)
  BY ViewsKept
<1>4. Spent(g)' = Spent(g)
  BY <1>1, PcMoves
<1>5. Joining(g)' = Joining(g)
  <2>1. In(g, k) => k \in Joining(g)
    BY DEF Joining
  <2>2. Joining(g)' = Joining(g) \/ (In(g, k) /\ Joining(g)' = Joining(g) \cup {k})
    BY <1>1, PcMoves, Zenon
  <2> QED
    BY <2>1, <2>2
<1> QED
  BY <1>2, <1>3, <1>4, <1>5

\* A /join that ends after connect is an Abandon, with or without the protocol.
LEMMA JoinGivesUp ==
    ASSUME LInv, NEW g \in Guilds, NEW k \in Commands, NEW to \in {"done", "db_error", "fail"},
           pc[k] \in HoldsRegistry, pc' = [pc EXCEPT ![k] = to],
           UNCHANGED registry \/ Register(Guild(k), None),
           UNCHANGED <<chan, entry, active, meeting, marker>>, Row(g)' = Row(g)
    PROVE  LifecycleStep(g)
<1>1. /\ CommandTypeOK /\ chan[k] \in Channels /\ Guild(k) \in Guilds
      /\ pc[k] \notin LeavePc \cup {"new", "deferred"}
      /\ to \notin LeavePc \cup {"new", "deferred"} /\ to \notin HoldsRegistry
  BY DEF LInv, CInv, JoinHolds
<1>2. /\ Leaving(g)' = Leaving(g) /\ Storing(g)' = Storing(g) /\ Recording(g)' = Recording(g)
      /\ Marked(g)' = Marked(g)
  BY <1>1, LeavesKept, ViewsKept
<1>3. Spent(g)' = Spent(g)
  BY <1>1, PcMoves
<1>4. Joining(g)' = Joining(g) \ {k}
  BY <1>1, PcMoves, Zenon
<1>5. In(g, k) <=> g = Guild(k)
  BY <1>1 DEF In
<1>6. CASE In(g, k)
  <2>1. k \in Joining(g)
    BY <1>6 DEF Joining
  <2>2. Joining(g)' = {}
    BY <1>4, <2>1, OneHolder
  <2>3. Registered(g)' = Registered(g) \/ Registered(g)' = {}
    BY <1>1, <1>5, <1>6, ViewsKept, RegistryMoves
  <2> QED
    BY <1>2, <1>3, <2>1, <2>2, <2>3 DEF LifecycleStep, Calls!LifecycleNext, Calls!Abandon
<1>7. CASE ~In(g, k)
  <2>1. Joining(g)' = Joining(g)
    BY <1>4, <1>7 DEF Joining
  <2>2. Registered(g)' = Registered(g)
    BY <1>1, <1>5, <1>7, ViewsKept, RegistryMoves
  <2> QED
    BY <1>2, <1>3, <2>1, <2>2, LifecycleStutters
<1> QED
  BY <1>6, <1>7

\* The handshake, the refusal and the undo of a start that raised.
LEMMA StepHandshake ==
    ASSUME LInv, NEW k \in Commands, connected(k) \/ disconnect_refused(k) \/ insert_session(k) \/ undo(k),
           NEW g \in Guilds
    PROVE  LifecycleStep(g)
<1>1. /\ UNCHANGED <<chan, entry, active, meeting, marker, status>> /\ pc[k] \in HoldsRegistry
      /\ Row(g)' = Row(g) /\ Marked(g)' = Marked(g)
  BY ViewsKept DEF connected, disconnect_refused, insert_session, undo
<1>2. \/ /\ UNCHANGED registry
         /\ \E to \in HoldsRegistry : pc' = [pc EXCEPT ![k] = to]
      \/ /\ UNCHANGED registry \/ Register(Guild(k), None)
         /\ \E to \in {"done", "db_error", "fail"} : pc' = [pc EXCEPT ![k] = to]
  BY DEF connected, disconnect_refused, insert_session, undo
<1>3. CASE UNCHANGED registry /\ \E to \in HoldsRegistry : pc' = [pc EXCEPT ![k] = to]
  BY <1>1, <1>3, JoinMovesOn, LifecycleStutters
<1>4. CASE /\ UNCHANGED registry \/ Register(Guild(k), None)
           /\ \E to \in {"done", "db_error", "fail"} : pc' = [pc EXCEPT ![k] = to]
  BY <1>1, <1>4, JoinGivesUp
<1> QED
  BY <1>2, <1>3, <1>4
\* The UPDATE of /join is a Retire: the row of whoever holds a registration is not among its rows.
LEMMA StepRetire ==
    ASSUME LInv, NEW k \in Commands, retire(k), NEW g \in Guilds
    PROVE  LifecycleStep(g)
<1>0. /\ UNCHANGED <<chan, entry, active, meeting, marker, registry, channelOf>>
      /\ pc[k] = "retire" /\ Marked(g)' = Marked(g) /\ CommandTypeOK
      /\ chan[k] \in Channels /\ registry[Guild(k)] = k /\ meeting[k] = None
  BY ViewsKept DEF retire, LInv, CInv, JoinHolds, RowsFollow, BeforeInsert
<1>1. CASE Goto(k, "retire", "db_error") /\ UNCHANGED status
  <2>1. Row(g)' = Row(g)
    BY <1>0, <1>1, ViewsKept
  <2> QED
    BY <1>0, <1>1, <2>1, JoinGivesUp
<1>2. CASE /\ Goto(k, "retire", "insert")
           /\ status' = [m \in Meetings |-> IF Retired(m, chan[k]) THEN "failed" ELSE status[m]]
  <2>1. /\ Spent(g)' = Spent(g) /\ Registered(g)' = Registered(g) /\ Joining(g)' = Joining(g)
        /\ Recording(g)' = Recording(g) /\ Leaving(g)' = Leaving(g) /\ Storing(g)' = Storing(g)
    BY <1>0, <1>2, JoinMovesOn
  <2>2. ASSUME NEW j \in Commands, Row(g)'[j] # Row(g)[j]
        PROVE  /\ Row(g)[j] = "active" /\ Row(g)'[j] = "failed"
               /\ j \notin Registered(g) /\ g = Guild(k)
    <3>1. In(g, j) /\ meeting[j] \in Meetings /\ status'[meeting[j]] # status[meeting[j]]
      BY <1>0, <2>2 DEF Row, In, CommandTypeOK
    <3>2. Retired(meeting[j], chan[k]) /\ status'[meeting[j]] = "failed"
      BY <1>2, <3>1
    <3>3. status[meeting[j]] = "active" /\ chan[j] = chan[k]
      <4>1. PICK m \in Meetings : m = meeting[j]
        BY <3>1
      <4>2. status[m] # "none" /\ channelOf[m] = chan[j]
        BY <4>1 DEF LInv, CInv, RowsHeld, RowsFollow
      <4>3. status[m] \notin Terminal /\ channelOf[m] = chan[k]
        BY <3>2, <4>1 DEF Retired
      <4>4. status[m] \in {"none", "active"} \cup Terminal
        BY <1>0 DEF CommandTypeOK
      <4> QED
        BY <4>1, <4>2, <4>3, <4>4
    <3>4. g = Guild(k) /\ j # k
      BY <1>0, <3>1, <3>3 DEF In
    <3> QED
      BY <1>0, <3>1, <3>2, <3>3, <3>4 DEF Row, In, Registered
  <2>3. CASE Row(g)' = Row(g)
    BY <1>0, <2>1, <2>3, LifecycleStutters
  <2>4. CASE Row(g)' # Row(g)
    <3>1. PICK j \in Commands : Row(g)'[j] # Row(g)[j]
      BY <2>4 DEF Row
    <3>2. k \in Joining(g)
      BY <1>0, <2>2, <3>1 DEF Joining, In
    <3>3. Calls(g)!Retires
      <4>1. Row(g)' = [c \in Commands |-> Row(g)'[c]]
        BY DEF Row
      <4> QED
        BY <2>2, <4>1 DEF Calls!Retires
    <3> QED
      BY <1>0, <2>1, <3>2, <3>3 DEF LifecycleStep, Calls!LifecycleNext, Calls!Retire, Calls!holders
  <2> QED
    BY <2>3, <2>4
<1> QED
  BY <1>1, <1>2 DEF retire

\* The INSERT is an Insert, unless its answer is lost: then the row is nobody's.
LEMMA StepInsert ==
    ASSUME LInv, NEW k \in Commands, insert(k), NEW g \in Guilds
    PROVE  LifecycleStep(g)
<1>0. /\ UNCHANGED <<chan, entry, active, marker, registry>> /\ pc[k] = "insert" /\ CommandTypeOK
      /\ chan[k] \in Channels /\ meeting[k] = None
  BY DEF insert, LInv, CInv, JoinHolds, RowsFollow, BeforeInsert
<1>1. CASE Goto(k, "insert", "db_error") /\ UNCHANGED <<tables, meeting>>
  <2>1. Row(g)' = Row(g)
    BY <1>0, <1>1, ViewsKept
  <2> QED
    BY <1>0, <1>1, <2>1, JoinGivesUp
<1>2. ASSUME NEW m \in Meetings, status[m] = "none", status' = [status EXCEPT ![m] = "active"],
             \/ Goto(k, "insert", "session") /\ meeting' = [meeting EXCEPT ![k] = m]
             \/ Goto(k, "insert", "db_error") /\ UNCHANGED meeting
      PROVE  LifecycleStep(g)
  <2>1. m \notin marker /\ \A j \in Commands : meeting[j] # m
    BY <1>2 DEF LInv, CInv, RowsHeld
  <2>2. \A n \in Meetings \ {m} : status'[n] = status[n]
    BY <1>2 DEF CommandTypeOK
  <2>3. \A j \in Commands : In(g, j)' <=> In(g, j)
    BY <1>0 DEF In
  <2>4. CASE Goto(k, "insert", "db_error") /\ UNCHANGED meeting
    <3>1. Row(g)' = Row(g)
      BY <1>0, <2>1, <2>2, <2>3, <2>4 DEF Row, CommandTypeOK
    <3> QED
      BY <1>0, <2>4, <3>1, JoinGivesUp
  <2>5. CASE Goto(k, "insert", "session") /\ meeting' = [meeting EXCEPT ![k] = m]
    <3>1. /\ Spent(g)' = Spent(g) /\ Registered(g)' = Registered(g) /\ Joining(g)' = Joining(g)
          /\ Recording(g)' = Recording(g) /\ Leaving(g)' = Leaving(g) /\ Storing(g)' = Storing(g)
      BY <1>0, <2>5, JoinMovesOn
    <3>2. meeting'[k] = m /\ \A j \in Commands \ {k} : meeting'[j] = meeting[j]
      BY <1>0, <2>5 DEF CommandTypeOK
    <3>3. Marked(g)' = Marked(g)
      BY <1>0, <2>1, <2>3, <3>2 DEF Marked
    <3>4. \A j \in Commands \ {k} : Row(g)'[j] = Row(g)[j]
      BY <1>0, <2>1, <2>2, <2>3, <3>2 DEF Row, CommandTypeOK
    <3>5. Row(g)[k] = "none" /\ Row(g)'[k] = IF In(g, k) THEN "active" ELSE "none"
      BY <1>0, <1>2, <2>3, <3>2 DEF Row, CommandTypeOK
    <3>6. CASE In(g, k)
      <4>1. Row(g)' = [Row(g) EXCEPT ![k] = "active"]
        BY <3>4, <3>5, <3>6 DEF Row
      <4>2. k \in Joining(g)
        BY <1>0, <3>6 DEF Joining
      <4> QED
        BY <3>1, <3>3, <3>5, <4>1, <4>2 DEF LifecycleStep, Calls!LifecycleNext, Calls!Insert, Calls!holders
    <3>7. CASE ~In(g, k)
      <4>1. Row(g)' = Row(g)
        BY <3>4, <3>5, <3>7 DEF Row
      <4> QED
        BY <3>1, <3>3, <4>1, LifecycleStutters
    <3> QED
      BY <3>6, <3>7
  <2> QED
    BY <1>2, <2>4, <2>5
<1> QED
  BY <1>1, <1>2 DEF insert
\* A start that succeeds is a Record: the row still says 'active'.
LEMMA StepStart ==
    ASSUME LInv, NEW k \in Commands, start(k), NEW g \in Guilds
    PROVE  LifecycleStep(g)
<1>0. /\ UNCHANGED <<chan, entry, meeting, registry, status, marker>> /\ pc[k] = "start" /\ CommandTypeOK
      /\ chan[k] \in Channels /\ Guild(k) \in Guilds /\ registry[Guild(k)] = k
      /\ meeting[k] \in Meetings /\ status[meeting[k]] = "active"
  BY DEF start, LInv, CInv, JoinHolds, RowsHeld, Owned
<1>1. Row(g)' = Row(g) /\ Marked(g)' = Marked(g) /\ Registered(g)' = Registered(g)
  BY <1>0, ViewsKept
<1>2. CASE Goto(k, "start", "undo") /\ UNCHANGED active
  BY <1>0, <1>1, <1>2, JoinMovesOn, LifecycleStutters
<1>3. CASE Goto(k, "start", "done") /\ active' = [active EXCEPT ![Guild(k)] = k]
  <2>1. /\ pc' = [pc EXCEPT ![k] = "done"] /\ "done" \notin HoldsRegistry
        /\ "done" \notin LeavePc /\ pc[k] \notin LeavePc
        /\ "done" \notin {"new", "deferred"} /\ pc[k] \notin {"new", "deferred"}
    BY <1>0, <1>3
  <2>2. Leaving(g)' = Leaving(g) /\ Storing(g)' = Storing(g)
    BY <1>0, <2>1, LeavesKept
  <2>3. Spent(g)' = Spent(g)
    BY <1>0, <2>1, PcMoves, Zenon
  <2>4. Joining(g)' = Joining(g) \ {k}
    BY <1>0, <2>1, PcMoves, Zenon
  <2>5. Recording(g)' = IF g = Guild(k) THEN {k} ELSE Recording(g)
    BY <1>0, <1>3 DEF Recording, CommandTypeOK
  <2>6. In(g, k) <=> g = Guild(k)
    BY <1>0 DEF In
  <2>7. CASE In(g, k)
    <3>1. k \in Joining(g) /\ Row(g)[k] = "active"
      BY <1>0, <2>7 DEF Joining, Row
    <3>2. Joining(g)' = {}
      BY <2>4, <3>1, OneHolder
    <3> QED
      BY <1>0, <1>1, <2>2, <2>3, <2>5, <2>6, <2>7, <3>1, <3>2
         DEF LifecycleStep, Calls!LifecycleNext, Calls!Record
  <2>8. CASE ~In(g, k)
    <3>1. Joining(g)' = Joining(g)
      BY <2>4, <2>8 DEF Joining
    <3> QED
      BY <1>0, <1>1, <2>2, <2>3, <2>5, <2>6, <2>8, <3>1, LifecycleStutters
  <2> QED
    BY <2>7, <2>8
<1> QED
  BY <1>2, <1>3 DEF start

\* The UPDATE after a start that raised is a Fail: the row was never finalized.
LEMMA StepFail ==
    ASSUME LInv, NEW k \in Commands, fail(k), NEW g \in Guilds
    PROVE  LifecycleStep(g)
<1>0. /\ UNCHANGED <<chan, entry, meeting, registry, active, marker>> /\ pc[k] = "fail" /\ CommandTypeOK
      /\ pc' = [pc EXCEPT ![k] = "done"] /\ chan[k] \in Channels /\ meeting[k] \in Meetings
      /\ meeting[k] \notin marker /\ status[meeting[k]] \in {"active", "failed"}
  BY DEF fail, LInv, CInv, JoinHolds, RowsHeld, RowsFollow
<1>1. Marked(g)' = Marked(g) /\ Registered(g)' = Registered(g) /\ Recording(g)' = Recording(g)
  BY <1>0, ViewsKept
<1>2. /\ "done" \notin HoldsRegistry /\ pc[k] \notin HoldsRegistry
      /\ "done" \notin LeavePc /\ pc[k] \notin LeavePc
      /\ "done" \notin {"new", "deferred"} /\ pc[k] \notin {"new", "deferred"}
  BY <1>0
<1>3. Leaving(g)' = Leaving(g) /\ Storing(g)' = Storing(g) /\ Spent(g)' = Spent(g)
  <2>1. Leaving(g)' = Leaving(g) /\ Storing(g)' = Storing(g)
    BY <1>0, <1>2, LeavesKept
  <2>2. Spent(g)' = Spent(g)
    BY <1>0, <1>2, PcMoves, Zenon
  <2> QED
    BY <2>1, <2>2
<1>4. Joining(g)' = Joining(g)
  <2>1. Joining(g)' = Joining(g) \ {k}
    BY <1>0, <1>2, PcMoves, Zenon
  <2> QED
    BY <1>2, <2>1 DEF Joining
<1>5. CASE UNCHANGED status
  BY <1>0, <1>1, <1>3, <1>4, <1>5, ViewsKept, LifecycleStutters
<1>6. CASE status' = [status EXCEPT ![meeting[k]] = "failed"]
  <2>1. \A j \in Commands : In(g, j)' <=> In(g, j)
    BY <1>0 DEF In
  <2>2. \A j \in Commands \ {k} : meeting[j] # meeting[k]
    BY <1>0 DEF LInv, CInv, RowsHeld
  <2>3. /\ status'[meeting[k]] = "failed"
        /\ \A m \in Meetings : m # meeting[k] => status'[m] = status[m]
    BY <1>0, <1>6 DEF CommandTypeOK
  <2>4. \A j \in Commands \ {k} : Row(g)'[j] = Row(g)[j]
    BY <1>0, <2>1, <2>2, <2>3 DEF Row, CommandTypeOK
  <2>5. CASE In(g, k)
    <3>1. Row(g)'[k] = "failed" /\ Row(g)[k] \in {"active", "failed"}
      BY <1>0, <2>1, <2>3, <2>5 DEF Row
    <3>2. Row(g)' = [Row(g) EXCEPT ![k] = "failed"]
      BY <2>4, <3>1 DEF Row
    <3>3. k \in Spent(g) /\ k \notin Marked(g)
      BY <1>0, <2>5 DEF Spent, Marked
    <3>4. k \notin Registered(g)
      BY <1>0 DEF LInv, RegistryHolds, Registered
    <3>5. k \notin Storing(g)
      BY <1>0 DEF LInv, CInv, LeaveHolds, Storing, InLeave
    <3> QED
      BY <1>1, <1>3, <1>4, <3>1, <3>2, <3>3, <3>4, <3>5
         DEF LifecycleStep, Calls!LifecycleNext, Calls!Fail, Calls!holders
  <2>6. CASE ~In(g, k)
    <3>1. Row(g)' = Row(g)
      BY <2>1, <2>4, <2>6 DEF Row
    <3> QED
      BY <1>1, <1>3, <1>4, <3>1, LifecycleStutters
  <2> QED
    BY <2>5, <2>6
<1> QED
  BY <1>5, <1>6 DEF fail
\* A /leave that moves is neither spent nor joining anywhere.
LEMMA LeaverMoves ==
    ASSUME CommandTypeOK, NEW g \in Guilds, NEW k \in Commands, NEW to \in LeavePc \cup {"done"},
           pc[k] \in LeavePc \/ (pc[k] = "new" /\ chan[k] = None),
           pc' = [pc EXCEPT ![k] = to], UNCHANGED chan
    PROVE  Spent(g)' = Spent(g) /\ Joining(g)' = Joining(g)
<1>1. pc'[k] = to /\ \A j \in Commands \ {k} : pc'[j] = pc[j]
  BY DEF CommandTypeOK
<1>2. \A j \in Commands : In(g, j)' <=> In(g, j)
  BY DEF In
<1>3. pc[k] = "new" => ~In(g, k)
  BY DEF In
<1>4. Spent(g)' = Spent(g)
  BY <1>1, <1>2, <1>3 DEF Spent
<1>5. Joining(g)' = Joining(g)
  BY <1>1, <1>2, <1>3 DEF Joining
<1> QED
  BY <1>4, <1>5

BeforeStore == {"defer", "stop", "disconnect"}

\* The call a /leave ends is its alone: it leaves or stores by where the /leave is.
LEMMA EntryMoves ==
    ASSUME LInv, NEW g \in Guilds, NEW k \in Commands, pc[k] \in LeavePc, NEW to \in LeavePc \cup {"done"},
           pc' = [pc EXCEPT ![k] = to], UNCHANGED <<chan, entry>>
    PROVE  /\ entry[k] \in Commands /\ (In(g, entry[k]) <=> g = Guild(entry[k]))
           /\ pc[k] \in BeforeStore /\ In(g, entry[k]) => entry[k] \in Leaving(g)
           /\ pc[k] = "store" /\ In(g, entry[k]) => entry[k] \in Storing(g)
           /\ pc[k] \in BeforeStore /\ to \in BeforeStore =>
                 Leaving(g)' = Leaving(g) /\ Storing(g)' = Storing(g)
           /\ pc[k] \in BeforeStore /\ to = "done" =>
                 Leaving(g)' = Leaving(g) \ {entry[k]} /\ Storing(g)' = Storing(g)
           /\ pc[k] \in BeforeStore /\ to = "store" =>
                 /\ Leaving(g)' = Leaving(g) \ {entry[k]}
                 /\ Storing(g)' = Storing(g) \cup {e \in {entry[k]} : In(g, e)}
           /\ pc[k] = "store" /\ to = "done" =>
                 Leaving(g)' = Leaving(g) /\ Storing(g)' = Storing(g) \ {entry[k]}
<1>1. PICK e \in Commands : e = entry[k]
  BY DEF LInv, CInv, LeaveHolds
<1>2. pc'[k] = to /\ \A j \in Commands \ {k} : pc'[j] = pc[j]
  BY DEF LInv, CInv, CommandTypeOK
<1>3. \A j \in Commands : In(g, j)' <=> In(g, j)
  BY DEF In
<1>4. \A j \in Commands \ {k} : pc[j] \in LeavePc => entry[j] # e
  BY <1>1 DEF LInv, CInv, LeaveHolds
<1>5. \A c \in Commands \ {e} :
         /\ InLeave(BeforeStore, c)' <=> InLeave(BeforeStore, c)
         /\ InLeave({"store"}, c)' <=> InLeave({"store"}, c)
  BY <1>1, <1>2 DEF InLeave, BeforeStore
<1>6. /\ InLeave(BeforeStore, e) <=> pc[k] \in BeforeStore
      /\ InLeave({"store"}, e) <=> pc[k] = "store"
      /\ InLeave(BeforeStore, e)' <=> to \in BeforeStore
      /\ InLeave({"store"}, e)' <=> to = "store"
  BY <1>1, <1>2, <1>4 DEF InLeave, BeforeStore
<1>7. Leaving(g) = {c \in Commands : In(g, c) /\ InLeave(BeforeStore, c)}
  BY DEF Leaving, BeforeStore
<1>8. Leaving(g)' = {c \in Commands : In(g, c) /\ InLeave(BeforeStore, c)'}
  BY <1>3 DEF Leaving, BeforeStore
<1>9. Storing(g) = {c \in Commands : In(g, c) /\ InLeave({"store"}, c)}
  BY DEF Storing
<1>10. Storing(g)' = {c \in Commands : In(g, c) /\ InLeave({"store"}, c)'}
  BY <1>3 DEF Storing
<1>11. In(g, e) <=> g = Guild(e)
  BY <1>1 DEF LInv, CInv, LeaveHolds, In
<1> HIDE DEF LeavePc
<1>12. "done" \notin BeforeStore /\ "store" \notin BeforeStore
  BY DEF BeforeStore
<1> QED
  BY <1>1, <1>5, <1>6, <1>7, <1>8, <1>9, <1>10, <1>11, <1>12

\* active.pop is a Leave.
LEMMA StepLeave ==
    ASSUME LInv, NEW k \in Commands, NEW h \in Guilds, leave(k, h), NEW g \in Guilds
    PROVE  LifecycleStep(g)
<1>0. /\ UNCHANGED <<chan, meeting, registry, status, marker>> /\ pc[k] = "new" /\ CommandTypeOK
      /\ chan[k] = None /\ entry' = [entry EXCEPT ![k] = active[h]]
      /\ active' = [active EXCEPT ![h] = None]
  BY DEF leave, LInv, CInv, RowsFollow
<1>1. Row(g)' = Row(g) /\ Marked(g)' = Marked(g) /\ Registered(g)' = Registered(g)
  BY <1>0, ViewsKept
<1>2. pc' = [pc EXCEPT ![k] = IF active[h] = None THEN "done" ELSE "defer"]
  BY DEF leave
<1>3. Spent(g)' = Spent(g) /\ Joining(g)' = Joining(g)
  BY <1>0, <1>2, LeaverMoves
<1>4. \A j \in Commands \ {k} : pc'[j] = pc[j] /\ entry'[j] = entry[j]
  BY <1>0, <1>2 DEF CommandTypeOK
<1>5. \A j \in Commands : In(g, j)' <=> In(g, j)
  BY <1>0 DEF In
<1>6. Recording(g)' = IF g = h THEN {} ELSE Recording(g)
  BY <1>0 DEF Recording, CommandTypeOK
<1>7. CASE active[h] = None
  <2>1. pc'[k] = "done"
    BY <1>0, <1>2, <1>7 DEF CommandTypeOK
  <2>2. \A c \in Commands :
         /\ InLeave({"defer", "stop", "disconnect"}, c)' <=> InLeave({"defer", "stop", "disconnect"}, c)
         /\ InLeave({"store"}, c)' <=> InLeave({"store"}, c)
    BY <1>0, <1>4, <2>1 DEF InLeave
  <2>3. Leaving(g)' = Leaving(g) /\ Storing(g)' = Storing(g)
    BY <1>5, <2>2 DEF Leaving, Storing
  <2>4. Recording(g)' = Recording(g)
    BY <1>6, <1>7 DEF Recording
  <2> QED
    BY <1>1, <1>3, <2>3, <2>4, LifecycleStutters
<1>8. CASE active[h] # None
  <2>1. PICK e \in Commands : e = active[h]
    BY <1>0, <1>8 DEF CommandTypeOK
  <2>2. pc'[k] = "defer" /\ entry'[k] = e
    BY <1>0, <1>2, <1>8, <2>1 DEF CommandTypeOK
  <2>3. In(g, e) <=> g = h
    BY <2>1 DEF LInv, CInv, ActiveHolds, In
  <2>4. \A c \in Commands :
         /\ InLeave({"defer", "stop", "disconnect"}, c)' <=> InLeave({"defer", "stop", "disconnect"}, c) \/ c = e
         /\ InLeave({"store"}, c)' <=> InLeave({"store"}, c)
    BY <1>0, <1>4, <2>2 DEF InLeave
  <2>5. Storing(g)' = Storing(g)
    BY <1>5, <2>4 DEF Storing
  <2>6. CASE g = h
    <3>1. e \in Recording(g) /\ Leaving(g) \subseteq {e}
      BY <2>1, <2>6, OneHolder DEF Recording
    <3>2. Leaving(g)' = {e}
      BY <1>5, <2>3, <2>4, <2>6, <3>1 DEF Leaving
    <3> QED
      BY <1>1, <1>3, <1>6, <2>5, <2>6, <3>1, <3>2 DEF LifecycleStep, Calls!LifecycleNext, Calls!Leave
  <2>7. CASE g # h
    <3>1. Leaving(g)' = Leaving(g)
      BY <1>5, <2>3, <2>4, <2>7 DEF Leaving
    <3> QED
      BY <1>1, <1>3, <1>6, <2>5, <2>7, <3>1, LifecycleStutters
  <2> QED
    BY <2>6, <2>7
<1> QED
  BY <1>7, <1>8
\* Until it has disconnected, a /leave keeps its call registered; if it raises before, for good.
LEMMA StepLeaving ==
    ASSUME LInv, NEW k \in Commands, defer(k) \/ stop(k) \/ disconnect(k), NEW g \in Guilds
    PROVE  LifecycleStep(g)
<1>0. /\ UNCHANGED <<chan, entry, meeting, active, status, marker>> /\ pc[k] \in BeforeStore
      /\ pc[k] \in LeavePc /\ CommandTypeOK
  BY DEF defer, stop, disconnect, LInv, CInv, BeforeStore
<1>1. Row(g)' = Row(g) /\ Marked(g)' = Marked(g) /\ Recording(g)' = Recording(g)
  BY <1>0, ViewsKept
<1>2. PICK to \in LeavePc \cup {"done"} : pc' = [pc EXCEPT ![k] = to]
  BY DEF defer, stop, disconnect
<1>3. Spent(g)' = Spent(g) /\ Joining(g)' = Joining(g)
  BY <1>0, <1>2, LeaverMoves
<1>4. PICK e \in Commands : e = entry[k]
  BY <1>0 DEF LInv, CInv, LeaveHolds
<1>5. /\ In(g, e) <=> g = Guild(e)
      /\ In(g, e) => e \in Leaving(g)
      /\ to \in BeforeStore => Leaving(g)' = Leaving(g) /\ Storing(g)' = Storing(g)
      /\ to = "done" => Leaving(g)' = Leaving(g) \ {e} /\ Storing(g)' = Storing(g)
      /\ to = "store" => /\ Leaving(g)' = Leaving(g) \ {e}
                         /\ Storing(g)' = Storing(g) \cup {c \in {e} : In(g, c)}
  BY <1>0, <1>2, <1>4, EntryMoves, Zenon
<1>6. \/ UNCHANGED registry /\ (to \in BeforeStore \/ to = "done")
      \/ registry' = [registry EXCEPT ![Guild(e)] = None] /\ (to = "store" \/ to = "done")
  <2>1. CASE defer(k) \/ stop(k)
    BY <1>0, <1>2, <2>1 DEF defer, stop, CommandTypeOK, BeforeStore
  <2>2. CASE disconnect(k)
    BY <1>0, <1>2, <1>4, <2>2 DEF disconnect, CommandTypeOK
  <2> QED
    BY <2>1, <2>2
<1>7. Guild(e) \in Guilds
  BY <1>0, <1>4 DEF LInv, CInv, LeaveHolds
<1>8. CASE UNCHANGED registry /\ to \in BeforeStore
  BY <1>1, <1>3, <1>5, <1>8, ViewsKept, LifecycleStutters
<1>9. CASE ~In(g, e) /\ ~(UNCHANGED registry /\ to \in BeforeStore)
  <2>1. Leaving(g) \ {e} = Leaving(g) /\ {c \in {e} : In(g, c)} = {}
    BY <1>9 DEF Leaving
  <2>2. Leaving(g)' = Leaving(g) /\ Storing(g)' = Storing(g)
    BY <1>5, <1>6, <1>9, <2>1
  <2>3. Registered(g)' = Registered(g)
    BY <1>0, <1>5, <1>6, <1>7, <1>9, ViewsKept, RegistryMoves
  <2> QED
    BY <1>1, <1>3, <2>2, <2>3, LifecycleStutters
<1>10. CASE In(g, e) /\ ~(UNCHANGED registry /\ to \in BeforeStore)
  <2>1. e \in Leaving(g) /\ Leaving(g) \ {e} = {}
    BY <1>5, <1>10, OneHolder
  <2>2. CASE to = "done"
    <3>1. Registered(g)' = Registered(g) \/ Registered(g)' = {}
      BY <1>0, <1>5, <1>6, <1>7, <1>10, ViewsKept, RegistryMoves
    <3> QED
      BY <1>1, <1>3, <1>5, <2>1, <2>2, <3>1 DEF LifecycleStep, Calls!LifecycleNext, Calls!LeaveFails
  <2>3. CASE to = "store"
    <3>1. registry' = [registry EXCEPT ![Guild(e)] = None]
      BY <1>6, <2>3 DEF BeforeStore
    <3>2. Registered(g)' = {}
      BY <1>0, <1>5, <1>7, <1>10, <3>1, RegistryMoves
    <3>3. Storing(g)' = Storing(g) \cup {e} /\ Leaving(g)' = {}
      BY <1>5, <1>10, <2>1, <2>3
    <3> QED
      BY <1>1, <1>3, <2>1, <3>2, <3>3 DEF LifecycleStep, Calls!LifecycleNext, Calls!Disconnect
  <2> QED
    BY <1>6, <1>10, <2>2, <2>3
<1> QED
  BY <1>8, <1>9, <1>10

\* The end of the stores is a Stored, with or without the marker.
LEMMA StepStore ==
    ASSUME LInv, NEW k \in Commands, store(k), NEW g \in Guilds
    PROVE  LifecycleStep(g)
<1>0. /\ UNCHANGED <<chan, entry, meeting, registry, active, status>> /\ pc[k] = "store"
      /\ pc[k] \in LeavePc /\ CommandTypeOK /\ pc' = [pc EXCEPT ![k] = "done"]
  BY DEF store, LInv, CInv
<1>1. Row(g)' = Row(g) /\ Registered(g)' = Registered(g) /\ Recording(g)' = Recording(g)
  BY <1>0, ViewsKept
<1>2. Spent(g)' = Spent(g) /\ Joining(g)' = Joining(g)
  BY <1>0, LeaverMoves
<1>3. PICK e \in Commands : e = entry[k]
  BY <1>0 DEF LInv, CInv, LeaveHolds
<1>4. meeting[e] \in Meetings /\ \A j \in Commands \ {e} : meeting[j] # meeting[e]
  BY <1>0, <1>3 DEF LInv, CInv, LeaveHolds, RowsHeld
<1>5. "done" \in LeavePc \cup {"done"}
  OBVIOUS
<1>6. /\ In(g, e) => e \in Storing(g)
      /\ Leaving(g)' = Leaving(g) /\ Storing(g)' = Storing(g) \ {e}
  BY <1>0, <1>3, <1>5, EntryMoves, Zenon
<1>7. Marked(g)' = Marked(g) \/ (In(g, e) /\ Marked(g)' = Marked(g) \cup {e})
  <2>1. CASE UNCHANGED marker
    BY <1>0, <2>1, ViewsKept
  <2>2. CASE marker' = marker \cup {meeting[e]}
    <3>1. \A j \in Commands : In(g, j)' <=> In(g, j)
      BY <1>0 DEF In
    <3>2. \A j \in Commands \ {e} : j \in Marked(g)' <=> j \in Marked(g)
      BY <1>0, <1>4, <2>2, <3>1 DEF Marked
    <3>3. e \in Marked(g)' <=> In(g, e)
      BY <1>0, <1>4, <2>2, <3>1 DEF Marked
    <3>4. Marked(g) \subseteq Commands /\ Marked(g)' \subseteq Commands /\ (e \in Marked(g) => In(g, e))
      BY DEF Marked
    <3> QED
      BY <3>2, <3>3, <3>4
  <2> QED
    BY <1>3, <2>1, <2>2 DEF store
<1>8. CASE In(g, e)
  BY <1>1, <1>2, <1>6, <1>7, <1>8 DEF LifecycleStep, Calls!LifecycleNext, Calls!Stored, Calls!holders
<1>9. CASE ~In(g, e)
  <2>1. Storing(g)' = Storing(g)
    BY <1>6, <1>9 DEF Storing
  <2> QED
    BY <1>1, <1>2, <1>6, <1>7, <1>9, <2>1, LifecycleStutters
<1> QED
  BY <1>8, <1>9

\* The drainer's flip is a Complete of the row's owner, or of nobody in this guild.
LEMMA StepComplete ==
    ASSUME LInv, NEW m \in Meetings, complete(m), NEW g \in Guilds
    PROVE  LifecycleStep(g)
<1>0. /\ UNCHANGED <<pc, chan, entry, meeting, registry, active>> /\ m \in marker /\ CommandTypeOK
      /\ status' = [status EXCEPT ![m] = "completed"] /\ marker' = marker \ {m}
  BY DEF complete, LInv, CInv
<1>1. /\ Spent(g)' = Spent(g) /\ Registered(g)' = Registered(g) /\ Joining(g)' = Joining(g)
      /\ Recording(g)' = Recording(g) /\ Leaving(g)' = Leaving(g) /\ Storing(g)' = Storing(g)
  BY <1>0 DEF Spent, Registered, Joining, Recording, Leaving, Storing, In, InLeave
<1>2. \A j \in Commands : In(g, j)' <=> In(g, j)
  BY <1>0 DEF In
<1>3. status'[m] = "completed" /\ \A n \in Meetings \ {m} : status'[n] = status[n]
  BY <1>0 DEF CommandTypeOK
<1>4. CASE \E c \in Commands : In(g, c) /\ meeting[c] = m
  <2>1. PICK c \in Commands : In(g, c) /\ meeting[c] = m
    BY <1>4
  <2>2. \A j \in Commands \ {c} : meeting[j] # m
    <3>1. m # None /\ RowsHeld
      BY DEF LInv, CInv
    <3> QED
      BY <2>1, <3>1 DEF RowsHeld
  <2>3. Row(g)'[c] = "completed" /\ \A j \in Commands \ {c} : Row(g)'[j] = Row(g)[j]
    BY <1>0, <1>2, <1>3, <2>1, <2>2 DEF Row, CommandTypeOK
  <2>4. Row(g)' = [Row(g) EXCEPT ![c] = "completed"]
    BY <2>3 DEF Row
  <2>5. c \in Marked(g) /\ Marked(g)' = Marked(g) \ {c}
    BY <1>0, <1>2, <2>1, <2>2 DEF Marked
  <2> QED
    BY <1>1, <2>4, <2>5 DEF LifecycleStep, Calls!LifecycleNext, Calls!Complete, Calls!holders
<1>5. CASE ~\E c \in Commands : In(g, c) /\ meeting[c] = m
  <2>1. Row(g)' = Row(g)
    BY <1>0, <1>2, <1>3, <1>5 DEF Row, CommandTypeOK
  <2>2. Marked(g)' = Marked(g)
    BY <1>0, <1>2, <1>5 DEF Marked
  <2> QED
    BY <1>1, <2>1, <2>2, LifecycleStutters
<1> QED
  BY <1>4, <1>5

\* A restart is a Lose.
LEMMA StepRestart == ASSUME LInv, restart, NEW g \in Guilds PROVE LifecycleStep(g)
<1>0. UNCHANGED <<chan, meeting, status, marker>> /\ \A j \in Commands : In(g, j)' <=> In(g, j)
  BY DEF restart, In
<1>1. Row(g)' = Row(g) /\ Marked(g)' = Marked(g)
  BY <1>0, ViewsKept
<1>2. \A j \in Commands : pc'[j] = IF pc[j] = "new" THEN "new" ELSE "done"
  BY DEF restart
<1>3. Registered(g)' = {} /\ Recording(g)' = {}
  BY DEF restart, Registered, Recording
<1>4. Joining(g)' = {} /\ Leaving(g)' = {} /\ Storing(g)' = {}
  BY <1>2 DEF Joining, Leaving, Storing, InLeave
<1>5. Spent(g) \subseteq Spent(g)'
  BY <1>0, <1>2 DEF Spent
<1> QED
  BY <1>1, <1>3, <1>4, <1>5 DEF LifecycleStep, Calls!LifecycleNext, Calls!Lose

\* The commands implement the lifecycle in every guild, for any number of invocations.
THEOREM CommandsFollowLifecycle == Spec => CommandsImplementLifecycle
<1>1. Init => \A g \in Guilds : Calls(g)!LifecycleInit
  BY DEF Init, Calls!LifecycleInit, Spent, Registered, Joining, Recording, Leaving, Storing, Row, Marked,
         In, InLeave
<1>2. LInv /\ [Next]_vars => [\A g \in Guilds : [Calls(g)!LifecycleNext]_(Calls(g)!lifecycleVars)]_vars
  <2> SUFFICES ASSUME LInv, Next, NEW g \in Guilds PROVE LifecycleStep(g)
    BY DEF LifecycleStep
  <2>1. ASSUME NEW k \in Commands, JoinStep(k) PROVE LifecycleStep(g)
    BY <2>1, StepJoin, StepConnect, StepHandshake, StepRetire, StepInsert, StepStart, StepFail DEF JoinStep
  <2>2. ASSUME NEW k \in Commands, LeaveStep(k) PROVE LifecycleStep(g)
    BY <2>2, StepLeave, StepLeaving, StepStore DEF LeaveStep
  <2> QED
    BY <2>1, <2>2, StepComplete, StepRestart DEF Next
<1> QED
  BY <1>1, <1>2, LifecycleInvariance, PTL DEF Spec, CommandsImplementLifecycle
===============================================================================
