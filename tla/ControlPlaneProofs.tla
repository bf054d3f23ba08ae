-------------------------- MODULE ControlPlaneProofs --------------------------
(***************************************************************************)
(* Proofs about ControlPlane for any number of invocations, guilds,        *)
(* channels and meetings. The argument is that of a lock: between register *)
(* and cleanup a guild's registry names one invocation, so that nobody     *)
(* else of that guild is past channel.connect.                             *)
(***************************************************************************)
EXTENDS ControlPlane, TLAPS

USE GuildOfAssumption, MeetingIdsAssumption, NoneIsNew
USE DEF Goto, Register, Guild, tables, Idle, JoinPc, LeavePc, HoldsRegistry, Terminal

\* A /join that has only looked at active holds nothing yet.
LEMMA KeepJoin == ASSUME CInv, NEW k \in Commands, NEW ch \in Channels, join(k, ch) PROVE CInv'
<1> USE DEF CInv, join
<1>1. CommandTypeOK' /\ ActiveHolds'
  BY DEF CommandTypeOK, JoinHolds, LeaveHolds, ActiveHolds
<1>2. JoinHolds' /\ LeaveHolds'
  BY DEF CommandTypeOK, JoinHolds, LeaveHolds, ActiveHolds
<1>3. RowsHeld' /\ InsertMeetsNoLiveRow'
  BY DEF CommandTypeOK, JoinHolds, RowsHeld, ActiveHolds, Owned, InsertMeetsNoLiveRow, CanInsert, Retired
<1> QED
  BY <1>1, <1>2, <1>3

\* channel.connect registers the invocation, or ends it.
LEMMA KeepConnect == ASSUME CInv, NEW k \in Commands, connect(k) PROVE CInv'
<1> USE DEF CInv, connect, MayRegister
<1>1. CommandTypeOK' /\ ActiveHolds'
  BY DEF CommandTypeOK, JoinHolds, LeaveHolds, ActiveHolds
<1>2. JoinHolds' /\ LeaveHolds'
  BY DEF CommandTypeOK, JoinHolds, LeaveHolds, ActiveHolds
<1>3. RowsHeld' /\ InsertMeetsNoLiveRow'
  BY DEF CommandTypeOK, JoinHolds, RowsHeld, ActiveHolds, Owned, InsertMeetsNoLiveRow, CanInsert, Retired
<1> QED
  BY <1>1, <1>2, <1>3

\* A protocol without credentials is unregistered by its own /join.
LEMMA KeepRefused == ASSUME CInv, NEW k \in Commands, disconnect_refused(k) PROVE CInv'
<1> USE DEF CInv, disconnect_refused
<1>1. CommandTypeOK' /\ ActiveHolds'
  BY DEF CommandTypeOK, JoinHolds, LeaveHolds, ActiveHolds
<1>2. JoinHolds' /\ LeaveHolds'
  BY DEF CommandTypeOK, JoinHolds, LeaveHolds, ActiveHolds
<1>3. RowsHeld' /\ InsertMeetsNoLiveRow'
  BY DEF CommandTypeOK, JoinHolds, RowsHeld, ActiveHolds, Owned, InsertMeetsNoLiveRow, CanInsert, Retired
<1> QED
  BY <1>1, <1>2, <1>3

\* The INSERT into meeting_sessions changes no row that matters here.
LEMMA KeepSession == ASSUME CInv, NEW k \in Commands, insert_session(k) PROVE CInv'
<1> USE DEF CInv, insert_session
<1>1. CommandTypeOK' /\ ActiveHolds'
  BY DEF CommandTypeOK, JoinHolds, LeaveHolds, ActiveHolds
<1>2. JoinHolds' /\ LeaveHolds'
  BY DEF CommandTypeOK, JoinHolds, LeaveHolds, ActiveHolds
<1>3. RowsHeld' /\ InsertMeetsNoLiveRow'
  BY DEF CommandTypeOK, JoinHolds, RowsHeld, ActiveHolds, Owned, InsertMeetsNoLiveRow, CanInsert, Retired
<1> QED
  BY <1>1, <1>2, <1>3

\* client.start() and active[guild] = ... come in one step, or the client is broken.
LEMMA KeepStart == ASSUME CInv, NEW k \in Commands, start(k) PROVE CInv'
<1> USE DEF CInv, start
<1>1. CommandTypeOK' /\ ActiveHolds'
  BY DEF CommandTypeOK, JoinHolds, LeaveHolds, ActiveHolds
<1>2. JoinHolds' /\ LeaveHolds'
  BY DEF CommandTypeOK, JoinHolds, LeaveHolds, ActiveHolds
<1>3. RowsHeld' /\ InsertMeetsNoLiveRow'
  BY DEF CommandTypeOK, JoinHolds, RowsHeld, ActiveHolds, Owned, InsertMeetsNoLiveRow, CanInsert, Retired
<1> QED
  BY <1>1, <1>2, <1>3

\* A failed start unregisters the protocol before the row is touched.
LEMMA KeepUndo == ASSUME CInv, NEW k \in Commands, undo(k) PROVE CInv'
<1> USE DEF CInv, undo
<1>1. CommandTypeOK' /\ ActiveHolds'
  BY DEF CommandTypeOK, JoinHolds, LeaveHolds, ActiveHolds
<1>2. JoinHolds' /\ LeaveHolds'
  BY DEF CommandTypeOK, JoinHolds, LeaveHolds, ActiveHolds
<1>3. RowsHeld' /\ InsertMeetsNoLiveRow'
  BY DEF CommandTypeOK, JoinHolds, RowsHeld, ActiveHolds, Owned, InsertMeetsNoLiveRow, CanInsert, Retired
<1> QED
  BY <1>1, <1>2, <1>3

\* The await of ctx.defer leaves the popped tuple with its /leave.
LEMMA KeepDefer == ASSUME CInv, NEW k \in Commands, defer(k) PROVE CInv'
<1> USE DEF CInv, defer
<1>1. CommandTypeOK' /\ ActiveHolds'
  BY DEF CommandTypeOK, JoinHolds, LeaveHolds, ActiveHolds
<1>2. JoinHolds' /\ LeaveHolds'
  BY DEF CommandTypeOK, JoinHolds, LeaveHolds, ActiveHolds
<1>3. RowsHeld' /\ InsertMeetsNoLiveRow'
  BY DEF CommandTypeOK, JoinHolds, RowsHeld, ActiveHolds, Owned, InsertMeetsNoLiveRow, CanInsert, Retired
<1> QED
  BY <1>1, <1>2, <1>3

\* After stop() the popped recording receives nothing.
LEMMA KeepStop == ASSUME CInv, NEW k \in Commands, stop(k) PROVE CInv'
<1> USE DEF CInv, stop
<1>1. CommandTypeOK' /\ ActiveHolds'
  BY DEF CommandTypeOK, JoinHolds, LeaveHolds, ActiveHolds
<1>2. JoinHolds' /\ LeaveHolds'
  BY DEF CommandTypeOK, JoinHolds, LeaveHolds, ActiveHolds
<1>3. RowsHeld' /\ InsertMeetsNoLiveRow'
  BY DEF CommandTypeOK, JoinHolds, RowsHeld, ActiveHolds, Owned, InsertMeetsNoLiveRow, CanInsert, Retired
<1> QED
  BY <1>1, <1>2, <1>3

\* Two invocations that hold the registry of one guild are one.
LEMMA RegistryIsALock ==
    ASSUME CInv, NEW j \in Commands, NEW k \in Commands,
           pc[j] \in HoldsRegistry \/ client[j] = "running",
           pc[k] \in HoldsRegistry \/ client[k] = "running", Guild(j) = Guild(k)
    PROVE  j = k
  BY DEF CInv, JoinHolds

\* The owner of an 'active' row holds the registry of the row's guild.
LEMMA OwnerHoldsRegistry ==
    ASSUME CInv, NEW j \in Commands, Owned(j)
    PROVE  pc[j] \in HoldsRegistry \/ client[j] = "running"
  BY DEF CInv, CommandTypeOK, Owned, ActiveHolds

\* The handshake keeps, or gives up, the registration of its own guild.
LEMMA KeepConnected == ASSUME CInv, NEW k \in Commands, connected(k) PROVE CInv'
<1> USE DEF CInv, connected
<1>1. pc[k] = "connecting" /\ chan[k] \in Channels /\ registry[Guild(k)] = k /\ Guild(k) \in Guilds
  BY DEF JoinHolds
<1>2. CommandTypeOK'
  BY <1>1 DEF CommandTypeOK
<1>3. JoinHolds' /\ LeaveHolds' /\ ActiveHolds'
  BY <1>1 DEF CommandTypeOK, JoinHolds, LeaveHolds, ActiveHolds
<1>4. RowsHeld' /\ InsertMeetsNoLiveRow'
  BY <1>1 DEF CommandTypeOK, RowsHeld, Owned, InsertMeetsNoLiveRow, CanInsert, Retired
<1> QED
  BY <1>2, <1>3, <1>4

\* A /join's UPDATE fails no row that another invocation owns.
LEMMA KeepRetire == ASSUME CInv, NEW k \in Commands, retire(k) PROVE CInv'
<1> USE DEF retire
<1>1. ASSUME NEW j \in Commands, Owned(j) PROVE chan[j] # chan[k]
  <2>1. j # k
    BY <1>1 DEF Owned, CInv, JoinHolds
  <2> QED
    BY <1>1, <2>1, OwnerHoldsRegistry, RegistryIsALock
<1>2. CommandTypeOK' /\ JoinHolds' /\ LeaveHolds' /\ ActiveHolds'
  BY DEF CInv, CommandTypeOK, JoinHolds, LeaveHolds, ActiveHolds
<1>3. \A j \in Commands : Owned(j)' => Owned(j)
  BY DEF CInv, CommandTypeOK, Owned
<1>4. /\ \A m \in Meetings : status'[m] = "none" <=> status[m] = "none"
      /\ \A m \in Meetings : channelOf[m] # chan[k] => status'[m] = status[m]
  BY DEF CInv, CommandTypeOK, RowsHeld, JoinHolds, Retired
<1>5. ASSUME NEW j \in Commands, Owned(j)'
      PROVE  /\ meeting[j] \in Meetings /\ meeting[j] \notin marker
             /\ status'[meeting[j]] = "active" /\ channelOf[meeting[j]] = chan[j]
  <2>1. Owned(j)
    BY <1>3, <1>5
  <2>2. /\ meeting[j] \in Meetings /\ meeting[j] \notin marker
        /\ status[meeting[j]] = "active" /\ channelOf[meeting[j]] = chan[j]
    BY <2>1 DEF CInv, RowsHeld
  <2> QED
    BY <1>4, <2>1, <2>2, <1>1
<1>6. RowsHeld'
  <2>1. UNCHANGED <<meeting, channelOf, chan, marker>>
    OBVIOUS
  <2>2. \A j \in Commands : pc'[j] \in {"session", "start", "undo", "fail"} => pc'[j] = pc[j]
    BY DEF CInv, CommandTypeOK
  <2>3. RowsHeld /\ meeting \in [Commands -> Meetings \cup {None}]
    BY DEF CInv, CommandTypeOK
  <2> HIDE DEF retire
  <2>4. ASSUME NEW j \in Commands, meeting[j] # None PROVE status'[meeting[j]] # "none"
    <3>1. meeting[j] \in Meetings /\ status[meeting[j]] # "none"
      BY <2>3, <2>4 DEF RowsHeld
    <3> QED
      BY <1>4, <3>1
  <2>5. ASSUME NEW m \in Meetings
        PROVE  (status'[m] = "none" <=> channelOf[m] = None) /\ (m \in marker => status'[m] # "none")
    BY <1>4, <2>3 DEF RowsHeld
  <2>6. \A j \in Commands : pc'[j] \in {"session", "start", "undo", "fail"} => meeting[j] \in Meetings
    BY <2>2, <2>3 DEF RowsHeld
  <2> QED
    BY <1>5, <2>1, <2>3, <2>4, <2>5, <2>6 DEF RowsHeld
<1>7. InsertMeetsNoLiveRow'
  BY DEF CInv, CommandTypeOK, InsertMeetsNoLiveRow, CanInsert, Retired
<1> QED
  BY <1>2, <1>6, <1>7 DEF CInv

\* The new row has one owner, and no other /join of that channel is about to insert.
LEMMA KeepInsert == ASSUME CInv, NEW k \in Commands, insert(k) PROVE CInv'
<1> USE DEF insert
<1>1. CommandTypeOK'
  BY DEF CInv, CommandTypeOK, JoinHolds
<1>2. JoinHolds' /\ LeaveHolds' /\ ActiveHolds'
  BY DEF CInv, CommandTypeOK, JoinHolds, LeaveHolds, ActiveHolds
<1>3. ASSUME NEW j \in Commands, pc[j] = "insert", chan[j] = chan[k] PROVE j = k
  BY <1>3, RegistryIsALock
<1>4. InsertMeetsNoLiveRow'
  BY <1>3 DEF CInv, CommandTypeOK, JoinHolds, InsertMeetsNoLiveRow, CanInsert, Retired
<1>5. RowsHeld'
  <2>1. CASE UNCHANGED <<tables, meeting>> /\ Goto(k, "insert", "db_error")
    BY <2>1 DEF CInv, CommandTypeOK, RowsHeld, Owned
  <2>2. ASSUME NEW m \in Meetings, status[m] = "none", pc[k] = "insert",
               status' = [status EXCEPT ![m] = "active"],
               channelOf' = [channelOf EXCEPT ![m] = chan[k]],
               \/ Goto(k, "insert", "session") /\ meeting' = [meeting EXCEPT ![k] = m]
               \/ Goto(k, "insert", "db_error") /\ UNCHANGED meeting
        PROVE  RowsHeld'
    <3>1. chan[k] \in Channels /\ m \notin marker /\ \A j \in Commands : meeting[j] # m
      BY <2>2 DEF CInv, CommandTypeOK, JoinHolds, RowsHeld
    <3>2. \A j \in Commands \ {k} : Owned(j)' <=> Owned(j)
      BY <2>2 DEF Owned, CInv, CommandTypeOK
    <3>3. \A j \in Commands \ {k} : Owned(j)' => meeting'[j] \in Meetings \ marker'
                 /\ status'[meeting'[j]] = "active" /\ channelOf'[meeting'[j]] = chan'[j]
      BY <2>2, <3>1, <3>2 DEF CInv, CommandTypeOK, RowsHeld
    <3>4. Owned(k)' => meeting'[k] = m
      BY <2>2 DEF Owned, CInv, CommandTypeOK, JoinHolds
    <3> QED
      BY <2>2, <3>1, <3>3, <3>4 DEF CInv, CommandTypeOK, RowsHeld
  <2> QED
    BY <2>1, <2>2
<1> QED
  BY <1>1, <1>2, <1>4, <1>5 DEF CInv

\* The UPDATE of a failed start touches the row of its own meeting only.
LEMMA KeepFail == ASSUME CInv, NEW k \in Commands, fail(k) PROVE CInv'
<1> USE DEF fail
<1>1. meeting[k] \in Meetings /\ ~Owned(k)
  BY DEF CInv, RowsHeld, JoinHolds, Owned
<1>2. CommandTypeOK' /\ JoinHolds' /\ LeaveHolds' /\ ActiveHolds'
  BY <1>1 DEF CInv, CommandTypeOK, JoinHolds, LeaveHolds, ActiveHolds
<1>3. \A j \in Commands : Owned(j)' => Owned(j) /\ meeting[j] # meeting[k]
  BY <1>1 DEF CInv, CommandTypeOK, RowsHeld, Owned
<1>4. \A m \in Meetings :
          /\ status'[m] = "none" <=> status[m] = "none"
          /\ m # meeting[k] => status'[m] = status[m]
  BY <1>1 DEF CInv, CommandTypeOK, RowsHeld
<1>5. ASSUME NEW j \in Commands, Owned(j)'
      PROVE  /\ meeting[j] \in Meetings /\ meeting[j] \notin marker
             /\ status'[meeting[j]] = "active" /\ channelOf[meeting[j]] = chan[j]
  <2>1. Owned(j) /\ meeting[j] # meeting[k]
    BY <1>3, <1>5
  <2>2. /\ meeting[j] \in Meetings /\ meeting[j] \notin marker
        /\ status[meeting[j]] = "active" /\ channelOf[meeting[j]] = chan[j]
    BY <2>1 DEF CInv, RowsHeld
  <2> QED
    BY <1>4, <2>1, <2>2
<1>6. RowsHeld'
  <2>1. UNCHANGED <<meeting, channelOf, chan, marker>>
    OBVIOUS
  <2>2. \A j \in Commands : pc'[j] \in {"session", "start", "undo", "fail"} => pc'[j] = pc[j]
    BY DEF CInv, CommandTypeOK
  <2>3. RowsHeld /\ meeting \in [Commands -> Meetings \cup {None}]
    BY DEF CInv, CommandTypeOK
  <2> HIDE DEF fail
  <2>4. ASSUME NEW j \in Commands, meeting[j] # None PROVE status'[meeting[j]] # "none"
    <3>1. meeting[j] \in Meetings /\ status[meeting[j]] # "none"
      BY <2>3, <2>4 DEF RowsHeld
    <3> QED
      BY <1>4, <3>1
  <2>5. ASSUME NEW m \in Meetings
        PROVE  (status'[m] = "none" <=> channelOf[m] = None) /\ (m \in marker => status'[m] # "none")
    BY <1>4, <2>3 DEF RowsHeld
  <2>6. \A j \in Commands : pc'[j] \in {"session", "start", "undo", "fail"} => meeting[j] \in Meetings
    BY <2>2, <2>3 DEF RowsHeld
  <2> QED
    BY <1>5, <2>1, <2>3, <2>4, <2>5, <2>6 DEF RowsHeld
<1>7. InsertMeetsNoLiveRow'
  BY DEF CInv, CommandTypeOK, InsertMeetsNoLiveRow, CanInsert, Retired
<1> QED
  BY <1>2, <1>6, <1>7 DEF CInv

\* active.pop hands the recording to exactly one /leave.
LEMMA KeepLeave == ASSUME CInv, NEW k \in Commands, NEW g \in Guilds, leave(k, g) PROVE CInv'
<1> USE DEF leave
<1>1. CommandTypeOK' /\ ActiveHolds' /\ JoinHolds'
  BY DEF CInv, CommandTypeOK, JoinHolds, ActiveHolds
<1>2. LeaveHolds'
  <2>1. CASE active[g] = None
    BY <2>1 DEF CInv, CommandTypeOK, LeaveHolds
  <2>2. CASE active[g] # None
    <3>1. PICK e \in Commands : e = active[g]
      BY <2>2 DEF CInv, CommandTypeOK
    <3>2. /\ pc[e] = "done" /\ chan[e] \in Channels /\ meeting[e] \in Meetings
          /\ client[e] = "running" /\ registry[Guild(e)] = e /\ e # k /\ Guild(e) = g
      BY <3>1 DEF CInv, CommandTypeOK, JoinHolds, ActiveHolds, RowsHeld, Owned
    <3>3. \A h \in Guilds \ {g} : active[h] # e
      BY <3>1, <3>2 DEF CInv, ActiveHolds
    <3>4. pc' = [pc EXCEPT ![k] = "defer"] /\ entry' = [entry EXCEPT ![k] = e]
      BY <2>2, <3>1
    <3>5. \A j \in Commands \ {k} :
             /\ pc'[j] = pc[j] /\ entry'[j] = entry[j] /\ pc[j] \in LeavePc => entry[j] # e
      BY <3>1, <3>4 DEF CInv, CommandTypeOK, LeaveHolds
    <3>6. pc'[k] = "defer" /\ entry'[k] = e /\ pc[k] = "new"
      BY <2>2, <3>4 DEF CInv, CommandTypeOK
    <3>7. \A h \in Guilds : active'[h] # None => active'[h] = active[h] /\ active'[h] # e
      BY <3>3 DEF CInv, CommandTypeOK
    <3>8. ASSUME NEW j \in Commands, pc'[j] \in LeavePc
          PROVE  /\ entry'[j] \in Commands /\ pc'[entry'[j]] = "done"
                 /\ chan[entry'[j]] \in Channels /\ meeting[entry'[j]] \in Meetings
                 /\ \A h \in Guilds : active'[h] # entry'[j]
                 /\ pc'[j] # "store" => registry[Guild(entry'[j])] = entry'[j]
                 /\ pc'[j] \in {"disconnect", "store"} => client[entry'[j]] # "running"
      <4>1. CASE j = k
        BY <4>1, <3>2, <3>5, <3>6, <3>7
      <4>2. CASE j # k
        BY <4>2, <3>5, <3>6, <3>7, <3>8 DEF CInv, LeaveHolds
      <4> QED
        BY <4>1, <4>2
    <3>9. \A i, j \in Commands :
             pc'[i] \in LeavePc /\ pc'[j] \in LeavePc /\ entry'[i] = entry'[j] => i = j
      BY <3>5, <3>6 DEF CInv, LeaveHolds
    <3> QED
      BY <3>8, <3>9 DEF LeaveHolds
  <2> QED
    BY <2>1, <2>2
<1>3. RowsHeld' /\ InsertMeetsNoLiveRow'
  BY DEF CInv, CommandTypeOK, RowsHeld, Owned, InsertMeetsNoLiveRow, CanInsert, Retired
<1> QED
  BY <1>1, <1>2, <1>3 DEF CInv

\* The cleanup of a /leave unregisters the protocol of the recording it ends.
LEMMA KeepDisconnect == ASSUME CInv, NEW k \in Commands, disconnect(k) PROVE CInv'
<1> USE DEF disconnect
<1>1. PICK e \in Commands : e = entry[k]
  BY DEF CInv, LeaveHolds
<1>2. /\ pc[e] = "done" /\ chan[e] \in Channels /\ client[e] # "running"
      /\ registry[Guild(e)] = e /\ Guild(e) \in Guilds /\ active[Guild(e)] # e
  BY <1>1 DEF CInv, LeaveHolds
<1>3. registry' = [registry EXCEPT ![Guild(e)] = None]
  BY <1>1
<1>4. \A j \in Commands : registry[Guild(e)] = j => j = e
  BY <1>2
<1>5. CommandTypeOK'
  BY <1>2, <1>3 DEF CInv, CommandTypeOK
<1>6. JoinHolds'
  BY <1>2, <1>3, <1>4 DEF CInv, CommandTypeOK, JoinHolds
<1>7. LeaveHolds'
  BY <1>1, <1>2, <1>3, <1>4 DEF CInv, CommandTypeOK, LeaveHolds
<1>8. ActiveHolds' /\ RowsHeld' /\ InsertMeetsNoLiveRow'
  BY DEF CInv, CommandTypeOK, ActiveHolds, RowsHeld, Owned, InsertMeetsNoLiveRow, CanInsert, Retired
<1> QED
  BY <1>5, <1>6, <1>7, <1>8 DEF CInv

\* A meeting is marked finalizing only when nobody records it any more.
LEMMA KeepStore == ASSUME CInv, NEW k \in Commands, store(k) PROVE CInv'
<1> USE DEF store
<1>1. PICK e \in Commands : e = entry[k]
  BY DEF CInv, LeaveHolds
<1>2. meeting[e] \in Meetings /\ ~Owned(e)
  BY <1>1 DEF CInv, LeaveHolds, Owned
<1>3. CommandTypeOK' /\ JoinHolds' /\ LeaveHolds' /\ ActiveHolds'
  BY <1>1, <1>2 DEF CInv, CommandTypeOK, JoinHolds, LeaveHolds, ActiveHolds
<1>4. RowsHeld'
  BY <1>1, <1>2 DEF CInv, CommandTypeOK, RowsHeld, Owned
<1>5. InsertMeetsNoLiveRow'
  BY DEF CInv, CommandTypeOK, InsertMeetsNoLiveRow, CanInsert, Retired
<1> QED
  BY <1>3, <1>4, <1>5 DEF CInv

\* The drainer completes rows that nobody owns.
LEMMA KeepComplete == ASSUME CInv, NEW m \in Meetings, complete(m) PROVE CInv'
<1> USE DEF complete
<1>1. CommandTypeOK' /\ JoinHolds' /\ LeaveHolds' /\ ActiveHolds'
  BY DEF CInv, CommandTypeOK, JoinHolds, LeaveHolds, ActiveHolds
<1>2. RowsHeld'
  BY DEF CInv, CommandTypeOK, RowsHeld, Owned
<1>3. InsertMeetsNoLiveRow'
  BY DEF CInv, CommandTypeOK, InsertMeetsNoLiveRow, CanInsert, Retired
<1> QED
  BY <1>1, <1>2, <1>3 DEF CInv

\* A restart forgets every registration together with every client.
LEMMA KeepRestart == ASSUME CInv, restart PROVE CInv'
  BY DEF restart, CInv, CommandTypeOK, JoinHolds, LeaveHolds, ActiveHolds, RowsHeld, Owned,
         InsertMeetsNoLiveRow

-------------------------------------------------------------------------------
\* The invariant holds in every reachable state.
THEOREM CommandInvariance == Spec => []CInv
<1>1. Init => CInv
  BY DEF Init, CInv, CommandTypeOK, JoinHolds, LeaveHolds, ActiveHolds, RowsHeld, Owned,
         InsertMeetsNoLiveRow
<1>2. CInv /\ [Next]_vars => CInv'
  <2> SUFFICES ASSUME CInv, [Next]_vars PROVE CInv'
    OBVIOUS
  <2>1. CASE UNCHANGED vars
    BY <2>1 DEF vars, CInv, CommandTypeOK, JoinHolds, LeaveHolds, ActiveHolds, RowsHeld, Owned,
                InsertMeetsNoLiveRow, CanInsert, Retired
  <2>2. ASSUME NEW k \in Commands, JoinStep(k) PROVE CInv'
    BY <2>2, KeepJoin, KeepConnect, KeepConnected, KeepRefused, KeepRetire, KeepInsert,
       KeepSession, KeepStart, KeepUndo, KeepFail DEF JoinStep
  <2>3. ASSUME NEW k \in Commands, LeaveStep(k) PROVE CInv'
    BY <2>3, KeepLeave, KeepDefer, KeepStop, KeepDisconnect, KeepStore DEF LeaveStep
  <2> QED
    BY <2>1, <2>2, <2>3, KeepComplete, KeepRestart DEF Next
<1> QED
  BY <1>1, <1>2, PTL DEF Spec

\* The UniqueViolation that /join's comment fears cannot happen, with any number of commands,
\* failed statements and restarts.
THEOREM NoUniqueViolation == Spec => []InsertMeetsNoLiveRow
<1>1. CInv => InsertMeetsNoLiveRow
  BY DEF CInv
<1> QED
  BY <1>1, CommandInvariance, PTL

\* What active lists is registered, receiving, and 'active' in the table.
THEOREM RecordingsAreSound == Spec => []RecordingIsSound
<1>1. CInv => RecordingIsSound
  BY DEF CInv, CommandTypeOK, JoinHolds, ActiveHolds, RowsHeld, Owned, RecordingIsSound
<1> QED
  BY <1>1, CommandInvariance, PTL

\* No guild is ever recorded by two clients.
THEOREM ClientsAreUnique == Spec => []OneClientPerGuild
<1>1. CInv => OneClientPerGuild
  BY RegistryIsALock DEF OneClientPerGuild
<1> QED
  BY <1>1, CommandInvariance, PTL
===============================================================================
