----------------------------- MODULE VoiceProofs ------------------------------
(***************************************************************************)
(* Proofs about VoiceClient for any number of users, SSRCs and             *)
(* transitions, any number of epochs, and datagrams of any size.           *)
(***************************************************************************)
EXTENDS VoiceClient

\* The part of the invariant that is about Decryptors, and what it depends on.
Wiring == Attribution /\ OneSpeakerPerDecoder /\ Rewired
wiringVars == <<epoch, members, held, dave_version, ssrc_to_user, opus>>

-------------------------------------------------------------------------------
(* Replies *)

\* Nothing is answered while the loop is between two messages.
LEMMA IdleReply == Receiving => reply.op = "none" /\ reply.transition = None /\ reply.rewire = FALSE
  BY DEF Receiving, NoReply

\* A step that leaves the replies alone keeps the account of the answers.
LEMMA AnswersKept == AnswersHold /\ UNCHANGED <<reply, said, took>> => AnswersHold'
  BY DEF AnswersHold

\* A key package or a commit of the client's own answers no transition.
LEMMA AnswersPublish ==
    ASSUME VInv, Receiving, NEW op \in {"key_package", "commit_welcome"}, Publish(op)
    PROVE  GatewayTypeOK' /\ AnswersHold' /\ reply'.rewire = FALSE
<1>1. reply' = [op |-> op, transition |-> None, rewire |-> FALSE]
      /\ recv' = recv /\ heartbeat' = heartbeat /\ said' = said /\ took' = took
  BY DEF Publish
<1>2. GatewayTypeOK'
  BY <1>1 DEF VInv, VoiceTypeOK, GatewayTypeOK, Replies
<1>3. AnswersHold'
  BY <1>1, NoTransitionIsNone, IdleReply DEF VInv, AnswersHold
<1> QED
  BY <1>1, <1>2, <1>3

\* The answer to a transition says what the client did.
LEMMA AnswersAnswer ==
    ASSUME VInv, Receiving, NEW t \in Transitions, NEW taken \in BOOLEAN, NEW rewire \in BOOLEAN,
           Answer(t, IF taken THEN "ready" ELSE "invalid", rewire),
           took' = IF taken THEN took \cup {t} ELSE took
    PROVE  GatewayTypeOK' /\ AnswersHold' /\ reply'.rewire = rewire
<1>1. reply' = [op |-> IF taken THEN "ready" ELSE "invalid", transition |-> t, rewire |-> rewire]
      /\ recv' = recv /\ heartbeat' = heartbeat /\ said' = [said EXCEPT ![t] = "asked"] /\ said[t] = "none"
  BY DEF Answer
<1>2. GatewayTypeOK'
  BY <1>1 DEF VInv, VoiceTypeOK, GatewayTypeOK, Replies
<1>3. AnswersHold'
  BY <1>1, NoTransitionIsNone, IdleReply DEF VInv, VoiceTypeOK, GatewayTypeOK, AnswersHold
<1> QED
  BY <1>1, <1>2, <1>3

-------------------------------------------------------------------------------
(* Ratchets *)

\* A step that touches neither keys nor Decryptors keeps the wiring, if it does not end a rewiring.
LEMMA WiringKept == Wiring /\ UNCHANGED wiringVars /\ (reply.rewire => reply'.rewire) => Wiring'
  BY DEF Wiring, wiringVars, Attribution, OneSpeakerPerDecoder, Rewired, Established, Ratchet

\* A group that exports no keys leaves nothing to wire.
LEMMA WiringOfNoMembers ==
    Wiring /\ members' = {} /\ UNCHANGED <<held, ssrc_to_user, opus>> => Wiring'
  BY DEF Wiring, Attribution, OneSpeakerPerDecoder, Rewired, Established

\* A group in a new epoch has its ratchets wired after the reply.
LEMMA WiringPostponed ==
    Wiring /\ reply'.rewire = TRUE /\ UNCHANGED <<held, ssrc_to_user, opus>> => Wiring'
  BY DEF Wiring, Attribution, OneSpeakerPerDecoder, Rewired

\* refresh_ratchets gives every known sender in the group its own ratchet of the current epoch.
LEMMA RefreshWires ==
    ASSUME MlsTypeOK, NEW map \in [Ssrcs -> Users \cup {None}], refresh_ratchets(map),
           \A s \in Ssrcs : \A r \in held[s] : r.user = map[s]
    PROVE  /\ decryptors' \in SUBSET Ssrcs
           /\ held' \in [Ssrcs -> SUBSET Ratchets]
           /\ \A s \in Ssrcs : \A r \in held'[s] : r.user = map[s]
           /\ \A s \in Ssrcs : map[s] \in members => Ratchet(map[s]) \in held'[s]
<1>1. \A s \in Ssrcs : map[s] \in members => Ratchet(map[s]) \in Ratchets /\ Ratchet(map[s]).user = map[s]
  BY DEF MlsTypeOK, Ratchet, Ratchets
<1>2. decryptors' = decryptors \cup Wired(map)
      /\ held' = [s \in Ssrcs |-> IF s \in Wired(map) THEN held[s] \cup {Ratchet(map[s])} ELSE held[s]]
  BY DEF refresh_ratchets
<1> QED
  BY <1>1, <1>2 DEF MlsTypeOK, Wired

\* The same of a callback, which does it only in a call that encrypts.
LEMMA RefreshKeepsWiring ==
    ASSUME VInv, NEW map \in [Ssrcs -> Users \cup {None}], Refresh(map),
           \A s \in Ssrcs : \A r \in held[s] : r.user = map[s],
           \A s \in Ssrcs : \A u \in opus[s] : u = map[s],
           ssrc_to_user' = map, UNCHANGED <<epoch, members, dave_version, opus>>
    PROVE  Wiring' /\ decryptors' \in SUBSET Ssrcs /\ held' \in [Ssrcs -> SUBSET Ratchets]
<1>1. MlsTypeOK
  BY DEF VInv, VoiceTypeOK
<1>2. CASE dave_version >= 1
  <2>1. refresh_ratchets(map)
    BY <1>2 DEF Refresh
  <2>2. \A s \in Ssrcs : map[s] \in members => Ratchet(map[s])' \in held'[s]
    BY <1>1, <2>1, RefreshWires DEF Ratchet
  <2> QED
    BY <1>1, <2>1, <2>2, RefreshWires DEF Wiring, Attribution, OneSpeakerPerDecoder, Rewired, Established, Ratchet
<1>3. CASE ~(dave_version >= 1)
  BY <1>1, <1>3 DEF Refresh, MlsTypeOK, Wiring, Attribution, OneSpeakerPerDecoder, Rewired
<1> QED
  BY <1>2, <1>3

-------------------------------------------------------------------------------
(* One lemma per group of operations *)

\* start() and stop() touch neither keys nor answers.
LEMMA StartKeeps == VInv /\ (start \/ StartStep \/ datagram_lost) => VInv'
<1> SUFFICES ASSUME VInv, start \/ StartStep \/ datagram_lost PROVE VInv'
  OBVIOUS
<1> USE DEF mlsVars, gatewayVars, callVars, session, registry
<1>1. UNCHANGED <<mlsVars, heartbeat, reply, said, took, ready_evt, sd_evt, callVars>>
      /\ (recv' = recv \/ recv' = "running") /\ phase' # "stopped"
      /\ phase' \in Waiting \cup {"new", "started", "raised", "stopped"}
      /\ lost' \in BOOLEAN /\ endpoint' \in BOOLEAN
  BY DEF VInv, VoiceTypeOK, StartStep, start, gateway_connect, await_ready, ip_discovery, select_protocol,
         await_session, create_endpoint, datagram_lost, Step, Waiting
<1>2. VoiceTypeOK'
  BY <1>1 DEF VInv, VoiceTypeOK, MlsTypeOK, GatewayTypeOK, Tasks
<1>3. Wiring'
  BY <1>1, WiringKept DEF VInv, Wiring, wiringVars
<1>4. AnswersHold'
  BY <1>1, AnswersKept DEF VInv
<1>5. StopIsFinal'
  BY <1>1 DEF StopIsFinal
<1> QED
  BY <1>2, <1>3, <1>4, <1>5 DEF VInv, Wiring

\* stop() ends both tasks and closes the endpoint.
LEMMA StopKeeps == VInv /\ stop => VInv'
<1> SUFFICES ASSUME VInv, stop PROVE VInv'
  OBVIOUS
<1> USE DEF mlsVars, callVars, session, registry
<1>1. UNCHANGED <<mlsVars, reply, said, took, ready_evt, sd_evt, lost, callVars>>
      /\ recv' = Ended(recv) /\ heartbeat' = Ended(heartbeat) /\ endpoint' = FALSE /\ phase' = "stopped"
  BY DEF stop, close, Step
<1>2. VoiceTypeOK'
  BY <1>1 DEF VInv, VoiceTypeOK, MlsTypeOK, GatewayTypeOK, Tasks, Ended
<1>3. Wiring'
  BY <1>1, WiringKept DEF VInv, Wiring, wiringVars
<1>4. AnswersHold'
  BY <1>1, AnswersKept DEF VInv
<1>5. StopIsFinal'
  BY <1>1 DEF StopIsFinal, Ended
<1> QED
  BY <1>2, <1>3, <1>4, <1>5 DEF VInv, Wiring

\* A task that starts or ends: nothing starts one once stop() has been called.
LEMMA TasksKeep == VInv /\ (TaskEnds \/ hello_op) => VInv'
<1> SUFFICES ASSUME VInv, TaskEnds \/ hello_op PROVE VInv'
  OBVIOUS
<1> USE DEF mlsVars, startVars, callVars, session, registry
<1>1. UNCHANGED <<mlsVars, reply, said, took, startVars, callVars>> /\ recv' \in Tasks /\ heartbeat' \in Tasks
  BY DEF VInv, VoiceTypeOK, GatewayTypeOK, TaskEnds, hello_op, recv_loop_ends, heartbeat_fails, hello, Tasks
<1>2. VoiceTypeOK'
  BY <1>1 DEF VInv, VoiceTypeOK, MlsTypeOK, GatewayTypeOK
<1>3. Wiring'
  BY <1>1, WiringKept DEF VInv, Wiring, wiringVars
<1>4. AnswersHold'
  BY <1>1, AnswersKept DEF VInv
<1>5. StopIsFinal'
  BY <1>1 DEF VInv, StopIsFinal, TaskEnds, hello_op, recv_loop_ends, heartbeat_fails, hello, Receiving
<1> QED
  BY <1>2, <1>3, <1>4, <1>5 DEF VInv, Wiring

\* READY, and a session description: a group that encrypts is made without members.
LEMMA ReadyKeeps == VInv /\ on_ready_op => VInv'
<1> SUFFICES ASSUME VInv, on_ready_op PROVE VInv'
  OBVIOUS
<1> USE DEF mlsVars, gatewayVars, callVars, session, registry
<1>1. UNCHANGED <<mlsVars, gatewayVars, phase, sd_evt, lost, endpoint, callVars>> /\ ready_evt' = TRUE
  BY DEF on_ready_op, NoAnswer
<1>2. VoiceTypeOK'
  BY <1>1 DEF VInv, VoiceTypeOK, MlsTypeOK, GatewayTypeOK
<1>3. Wiring'
  BY <1>1, WiringKept DEF VInv, Wiring, wiringVars
<1>4. AnswersHold' /\ StopIsFinal'
  BY <1>1, AnswersKept DEF VInv, StopIsFinal
<1> QED
  BY <1>2, <1>3, <1>4 DEF VInv, Wiring

\* The session description may set the version, and makes a group without members if it encrypts.
LEMMA SessionKeeps == ASSUME VInv, NEW v \in Versions, on_session_description(v) PROVE VInv'
<1> USE DEF gatewayVars, session, registry
<1>1. /\ Receiving /\ phase = "session" /\ sd_evt' = TRUE /\ dave_version' = v
      /\ UNCHANGED <<recognized, decryptors, held, passthrough, phase, ready_evt, lost, endpoint, ssrc_to_user, opus>>
  BY DEF on_session_description
<1>2. GatewayTypeOK' /\ AnswersHold' /\ recv' = recv
  <2>1. CASE v = 0
    BY <2>1, AnswersKept DEF on_session_description, NoAnswer, VInv, VoiceTypeOK, GatewayTypeOK
  <2>2. CASE v # 0
    BY <1>1, <2>2, AnswersPublish DEF on_session_description, Publish
  <2> QED
    BY <2>1, <2>2
<1>3. epoch' = epoch /\ initialized' \in BOOLEAN /\ members' \in SUBSET Users /\ (v # 0 => members' = {})
  BY DEF on_session_description, initialize_group, VInv, VoiceTypeOK, MlsTypeOK
<1>4. VoiceTypeOK'
  BY <1>1, <1>2, <1>3 DEF VInv, VoiceTypeOK, MlsTypeOK
<1>5. Wiring'
  <2>1. CASE v = 0
    BY <1>1, <2>1 DEF VInv, Wiring, Attribution, OneSpeakerPerDecoder, Rewired
  <2>2. CASE v # 0
    BY <1>1, <1>3, <2>2, WiringOfNoMembers DEF VInv, Wiring
  <2> QED
    BY <2>1, <2>2
<1>6. StopIsFinal'
  BY <1>1 DEF StopIsFinal
<1> QED
  BY <1>2, <1>4, <1>5, <1>6 DEF VInv, Wiring

\* A callback that may rewire, and answers nothing.
LEMMA CallbackKeeps ==
    ASSUME VInv, NEW map \in [Ssrcs -> Users \cup {None}], Refresh(map),
           \A s \in Ssrcs : \A r \in held[s] : r.user = map[s],
           \A s \in Ssrcs : \A u \in opus[s] : u = map[s],
           ssrc_to_user' = map, recognized' \in SUBSET Users,
           UNCHANGED <<session, passthrough, gatewayVars, startVars, dave_version, opus>>
    PROVE  VInv'
<1> USE DEF session, gatewayVars, startVars
<1>1. Wiring' /\ decryptors' \in SUBSET Ssrcs /\ held' \in [Ssrcs -> SUBSET Ratchets]
  BY RefreshKeepsWiring
<1>2. VoiceTypeOK'
  BY <1>1 DEF VInv, VoiceTypeOK, MlsTypeOK, GatewayTypeOK
<1>3. AnswersHold' /\ StopIsFinal'
  BY AnswersKept DEF VInv, StopIsFinal
<1> QED
  BY <1>1, <1>2, <1>3 DEF VInv, Wiring

\* An SSRC that nobody has, or that is the speaker's, has nothing of anybody else.
LEMMA SpeakingKeeps ==
    ASSUME VInv, NEW u \in Users, NEW s \in Ssrcs, on_speaking(u, s) PROVE VInv'
<1> DEFINE map == [ssrc_to_user EXCEPT ![s] = u]
<1>1. map \in [Ssrcs -> Users \cup {None}] /\ recognized' \in SUBSET Users
  BY DEF on_speaking, VInv, VoiceTypeOK, MlsTypeOK
<1>2. \A s1 \in Ssrcs : \A r \in held[s1] : r.user \in Users
  BY DEF VInv, VoiceTypeOK, MlsTypeOK, Ratchets
<1>3. \A s1 \in Ssrcs : \A r \in held[s1] : r.user = map[s1]
  BY <1>2, NoUserIsNone DEF on_speaking, SsrcFree, VInv, VoiceTypeOK, Attribution
<1>4. \A s1 \in Ssrcs : \A w \in opus[s1] : w = map[s1]
  BY NoUserIsNone DEF on_speaking, SsrcFree, VInv, VoiceTypeOK, OneSpeakerPerDecoder
<1>5. Refresh(map) /\ ssrc_to_user' = map
      /\ UNCHANGED <<session, passthrough, gatewayVars, startVars, dave_version, opus>>
  BY DEF on_speaking, NoAnswer
<1> QED
  BY <1>1, <1>3, <1>4, <1>5, CallbackKeeps

\* People who connect, and a transition that is executed, only rewire.
LEMMA ConnectKeeps == ASSUME VInv, NEW us \in SUBSET Users, on_clients_connect(us) PROVE VInv'
<1>1. ssrc_to_user \in [Ssrcs -> Users \cup {None}] /\ recognized' \in SUBSET Users
  BY DEF on_clients_connect, VInv, VoiceTypeOK, MlsTypeOK
<1>2. Refresh(ssrc_to_user) /\ ssrc_to_user' = ssrc_to_user
      /\ UNCHANGED <<session, passthrough, gatewayVars, startVars, dave_version, opus>>
  BY DEF on_clients_connect, NoAnswer, callVars
<1>3. Attribution /\ OneSpeakerPerDecoder
  BY DEF VInv
<1> QED
  BY <1>1, <1>2, <1>3, CallbackKeeps DEF Attribution, OneSpeakerPerDecoder

\* op 22 after a transition the client was ready for.
LEMMA ExecuteKeeps == ASSUME VInv, NEW t \in Transitions, on_execute(t) PROVE VInv'
<1>1. ssrc_to_user \in [Ssrcs -> Users \cup {None}] /\ recognized' \in SUBSET Users
  BY DEF on_execute, VInv, VoiceTypeOK, MlsTypeOK
<1>2. Refresh(ssrc_to_user) /\ ssrc_to_user' = ssrc_to_user
      /\ UNCHANGED <<session, passthrough, gatewayVars, startVars, dave_version, opus>>
  BY DEF on_execute, NoAnswer, callVars
<1>3. Attribution /\ OneSpeakerPerDecoder
  BY DEF VInv
<1> QED
  BY <1>1, <1>2, <1>3, CallbackKeeps DEF Attribution, OneSpeakerPerDecoder

\* Whoever disconnects takes Decryptors and Opus decoders along.
LEMMA DisconnectKeeps == ASSUME VInv, NEW u \in Users, on_client_disconnect(u) PROVE VInv'
<1> USE DEF session, gatewayVars, startVars
<1>1. /\ recognized' = recognized \ {u}
      /\ ssrc_to_user' = [s \in Ssrcs |-> IF s \in DeadSsrcs(u) THEN None ELSE ssrc_to_user[s]]
      /\ decryptors' = decryptors \ DeadSsrcs(u)
      /\ held' = [s \in Ssrcs |-> IF s \in DeadSsrcs(u) THEN {} ELSE held[s]]
      /\ passthrough' = passthrough \ DeadSsrcs(u)
      /\ opus' = [s \in Ssrcs |-> IF s \in DeadSsrcs(u) THEN {} ELSE opus[s]]
      /\ UNCHANGED <<session, gatewayVars, startVars, dave_version>>
  BY DEF on_client_disconnect, forget, reset, NoAnswer
<1>2. VoiceTypeOK'
  BY <1>1 DEF VInv, VoiceTypeOK, MlsTypeOK, GatewayTypeOK
<1>3. Attribution' /\ OneSpeakerPerDecoder'
  BY <1>1 DEF VInv, Attribution, OneSpeakerPerDecoder
<1>4. Rewired'
  BY <1>1, NoUserIsNone DEF VInv, VoiceTypeOK, MlsTypeOK, Rewired, Established, Ratchet
<1>5. AnswersHold' /\ StopIsFinal'
  BY <1>1, AnswersKept DEF VInv, StopIsFinal
<1> QED
  BY <1>2, <1>3, <1>4, <1>5 DEF VInv

\* An own commit, or a new group, is sent without a transition.
LEMMA ProposalsKeep == VInv /\ on_proposals => VInv'
<1> SUFFICES ASSUME VInv, on_proposals PROVE VInv'
  OBVIOUS
<1> USE DEF mlsVars, startVars, callVars, session, registry
<1>1. Receiving /\ Publish("commit_welcome") /\ recv' = recv /\ heartbeat' = heartbeat
      /\ UNCHANGED <<mlsVars, startVars, callVars>>
  BY DEF on_proposals, Publish
<1>2. GatewayTypeOK' /\ AnswersHold' /\ reply'.rewire = FALSE
  BY <1>1, AnswersPublish
<1>3. VoiceTypeOK'
  BY <1>1, <1>2 DEF VInv, VoiceTypeOK, MlsTypeOK
<1>4. Wiring'
  BY <1>1, WiringKept, IdleReply DEF VInv, Wiring, wiringVars
<1>5. StopIsFinal'
  BY <1>1 DEF VInv, StopIsFinal
<1> QED
  BY <1>2, <1>3, <1>4, <1>5 DEF VInv, Wiring

\* The first epoch of a group: it has no members yet.
LEMMA EpochKeeps == VInv /\ on_prepare_epoch => VInv'
<1> SUFFICES ASSUME VInv, on_prepare_epoch PROVE VInv'
  OBVIOUS
<1> USE DEF startVars, callVars, session, registry
<1>1. Receiving /\ Publish("key_package") /\ recv' = recv /\ heartbeat' = heartbeat
      /\ initialized' = TRUE /\ members' = {} /\ epoch' = epoch
      /\ UNCHANGED <<recognized, registry, startVars, callVars>>
  BY DEF on_prepare_epoch, initialize_group, Publish
<1>2. GatewayTypeOK' /\ AnswersHold' /\ reply'.rewire = FALSE
  BY <1>1, AnswersPublish
<1>3. VoiceTypeOK'
  BY <1>1, <1>2 DEF VInv, VoiceTypeOK, MlsTypeOK
<1>4. Wiring'
  BY <1>1, WiringOfNoMembers DEF VInv, Wiring
<1>5. StopIsFinal'
  BY <1>1 DEF VInv, StopIsFinal
<1> QED
  BY <1>2, <1>3, <1>4, <1>5 DEF VInv, Wiring

\* A commit or a welcome, taken or not: the rewiring is due after the reply.
LEMMA CommitKeeps ==
    ASSUME VInv, NEW t \in Transitions, NEW roster \in SUBSET Users,
           on_announce_commit(t, roster) \/ on_welcome(t, roster)
    PROVE  VInv'
<1> USE DEF startVars, callVars, session, registry
<1>1. Receiving /\ UNCHANGED <<recognized, registry, startVars, callVars>>
  BY DEF on_announce_commit, on_welcome
<1>2. PICK taken \in BOOLEAN : ready_or_invalid(t, taken)
  BY DEF on_announce_commit, on_welcome
<1>3. initialized' \in BOOLEAN /\ epoch' \in Nat /\ members' \in SUBSET Users
  <2>1. Accept(roster) \/ UNCHANGED session
    BY DEF on_announce_commit, on_welcome
  <2>2. initialized \in BOOLEAN /\ epoch \in Nat /\ members \in SUBSET Users
    BY DEF VInv, VoiceTypeOK, MlsTypeOK
  <2> QED
    BY <2>1, <2>2 DEF Accept
<1>4. GatewayTypeOK' /\ AnswersHold' /\ reply'.rewire = TRUE /\ recv' = recv /\ heartbeat' = heartbeat
  BY <1>1, <1>2, AnswersAnswer DEF ready_or_invalid, Answer
<1>5. VoiceTypeOK'
  BY <1>1, <1>3, <1>4 DEF VInv, VoiceTypeOK, MlsTypeOK
<1>6. Wiring'
  BY <1>1, <1>4, WiringPostponed DEF VInv, Wiring
<1>7. StopIsFinal'
  BY <1>1, <1>4 DEF VInv, StopIsFinal
<1> QED
  BY <1>4, <1>5, <1>6, <1>7 DEF VInv, Wiring

\* A downgrade lets plain frames through.
LEMMA TransitionKeeps ==
    ASSUME VInv, NEW t \in Transitions, NEW v \in Versions, on_prepare_transition(t, v) PROVE VInv'
<1> USE DEF startVars, callVars, session
<1>1. Receiving /\ UNCHANGED <<session, recognized, decryptors, held, startVars, callVars>>
      /\ passthrough' \in SUBSET Ssrcs
  BY DEF on_prepare_transition, VInv, VoiceTypeOK, MlsTypeOK
<1>2. Answer(t, IF TRUE THEN "ready" ELSE "invalid", FALSE)
      /\ took' = (IF TRUE THEN took \cup {t} ELSE took)
  BY DEF on_prepare_transition, transition_ready
<1>3. GatewayTypeOK' /\ AnswersHold' /\ reply'.rewire = FALSE /\ recv' = recv /\ heartbeat' = heartbeat
  BY <1>1, <1>2, AnswersAnswer DEF Answer
<1>4. VoiceTypeOK'
  BY <1>1, <1>3 DEF VInv, VoiceTypeOK, MlsTypeOK
<1>5. Wiring'
  BY <1>1, WiringKept, IdleReply DEF VInv, Wiring, wiringVars
<1>6. StopIsFinal'
  BY <1>1, <1>3 DEF VInv, StopIsFinal
<1> QED
  BY <1>3, <1>4, <1>5, <1>6 DEF VInv, Wiring

\* The reply is sent, and the rewiring done that was due after it.
LEMMA ReplyKeeps == VInv /\ reply_sent => VInv'
<1> SUFFICES ASSUME VInv, reply_sent PROVE VInv'
  OBVIOUS
<1> USE DEF startVars, callVars, session
<1>1. /\ recv' = recv /\ heartbeat' = heartbeat /\ took' = took /\ reply' = NoReply
      /\ said' = IF reply.transition = None THEN said ELSE [said EXCEPT ![reply.transition] = reply.op]
      /\ UNCHANGED <<session, recognized, passthrough, startVars, callVars>>
  BY DEF reply_sent, Sent
<1>2. reply.transition # None => reply.transition \in Transitions /\ reply.op \in {"ready", "invalid"}
  BY DEF VInv, VoiceTypeOK, GatewayTypeOK, Replies
<1>3. GatewayTypeOK'
  <2>1. NoReply \in Replies
    BY DEF NoReply, Replies
  <2>2. said' \in [Transitions -> {"asked", "ready", "invalid", "none"}]
    BY <1>1, <1>2 DEF VInv, VoiceTypeOK, GatewayTypeOK
  <2> QED
    BY <1>1, <2>1, <2>2 DEF VInv, VoiceTypeOK, GatewayTypeOK
<1>4. AnswersHold'
  <2> SUFFICES ASSUME NEW t \in Transitions
               PROVE  /\ said'[t] # "asked"
                      /\ said'[t] = "none" => t \notin took
                      /\ said'[t] = "ready" => t \in took
                      /\ said'[t] = "invalid" => t \notin took
    BY <1>1, NoTransitionIsNone DEF AnswersHold, NoReply
  <2>1. said \in [Transitions -> {"asked", "ready", "invalid", "none"}]
    BY DEF VInv, VoiceTypeOK, GatewayTypeOK
  <2>2. CASE reply.transition = t
    BY <1>1, <1>2, <2>1, <2>2, NoTransitionIsNone DEF VInv, AnswersHold
  <2>3. CASE reply.transition # t
    BY <1>1, <1>2, <2>1, <2>3 DEF VInv, AnswersHold
  <2> QED
    BY <2>2, <2>3
<1>5. Wiring' /\ decryptors' \in SUBSET Ssrcs /\ held' \in [Ssrcs -> SUBSET Ratchets]
  <2>1. CASE reply.rewire
    <3>1. Refresh(ssrc_to_user) /\ ssrc_to_user \in [Ssrcs -> Users \cup {None}]
      BY <2>1 DEF reply_sent, VInv, VoiceTypeOK
    <3>2. Attribution /\ OneSpeakerPerDecoder
      BY DEF VInv
    <3> QED
      BY <1>1, <3>1, <3>2, RefreshKeepsWiring DEF Attribution, OneSpeakerPerDecoder
  <2>2. CASE ~reply.rewire
    <3>1. UNCHANGED <<decryptors, held>>
      BY <2>2 DEF reply_sent
    <3> QED
      BY <1>1, <2>2, <3>1, WiringKept DEF VInv, VoiceTypeOK, MlsTypeOK, Wiring, wiringVars
  <2> QED
    BY <2>1, <2>2
<1>6. VoiceTypeOK'
  BY <1>1, <1>3, <1>5 DEF VInv, VoiceTypeOK, MlsTypeOK
<1>7. StopIsFinal'
  BY <1>1 DEF VInv, StopIsFinal
<1> QED
  BY <1>4, <1>5, <1>6, <1>7 DEF VInv, Wiring

\* A datagram: what the Decryptor of its SSRC can decrypt is its user's.
LEMMA PacketKeeps == ASSUME VInv, NEW s \in Ssrcs, handle_packet(s) PROVE VInv'
<1> USE DEF session, gatewayVars, startVars
<1>1. /\ decryptors' = decryptors \cup {s} /\ ssrc_to_user[s] # None
      /\ (\E u \in Senders(s) : opus' = [opus EXCEPT ![s] = @ \cup {u}]) \/ opus' = opus
      /\ UNCHANGED <<session, recognized, held, passthrough, gatewayVars, startVars, dave_version, ssrc_to_user>>
  BY DEF handle_packet, decryptor_for, decode
<1>2. Senders(s) \subseteq {ssrc_to_user[s]}
  BY DEF Senders, VInv, Attribution
<1>3. ssrc_to_user[s] \in Users
  BY <1>1 DEF VInv, VoiceTypeOK
<1>4. opus' \in [Ssrcs -> SUBSET Users] /\ OneSpeakerPerDecoder'
  BY <1>1, <1>2, <1>3 DEF VInv, VoiceTypeOK, OneSpeakerPerDecoder
<1>5. VoiceTypeOK'
  BY <1>1, <1>4 DEF VInv, VoiceTypeOK, MlsTypeOK, GatewayTypeOK
<1>6. Attribution' /\ Rewired'
  BY <1>1 DEF VInv, Attribution, Rewired, Established, Ratchet
<1>7. AnswersHold' /\ StopIsFinal'
  BY <1>1, AnswersKept DEF VInv, StopIsFinal
<1> QED
  BY <1>4, <1>5, <1>6, <1>7 DEF VInv

-------------------------------------------------------------------------------
(* The theorems *)

\* A client that was just made satisfies the invariant.
LEMMA VoiceInit == Init => VInv
<1> SUFFICES ASSUME Init PROVE VInv
  OBVIOUS
<1> USE DEF Init, MlsInit, GatewayInit
<1>1. NoReply \in Replies
  BY DEF NoReply, Replies
<1>2. VoiceTypeOK
  BY <1>1 DEF VoiceTypeOK, MlsTypeOK, GatewayTypeOK, Tasks, Waiting, Versions
<1>3. Wiring
  BY DEF Wiring, Attribution, OneSpeakerPerDecoder, Rewired, Established
<1>4. AnswersHold /\ StopIsFinal
  BY NoTransitionIsNone DEF AnswersHold, StopIsFinal, NoReply
<1> QED
  BY <1>2, <1>3, <1>4 DEF VInv, Wiring

\* Every step of start(), of the two tasks and of the receive path keeps the invariant.
LEMMA VoiceStep == VInv /\ [Next]_vars => VInv'
<1> SUFFICES ASSUME VInv, [Next]_vars PROVE VInv'
  OBVIOUS
<1>1. CASE start \/ StartStep \/ datagram_lost
  BY <1>1, StartKeeps
<1>2. CASE stop
  BY <1>2, StopKeeps
<1>3. CASE VoiceOps
  BY <1>3, TasksKeep, ReadyKeeps, SessionKeeps, SpeakingKeeps, ConnectKeeps, DisconnectKeeps DEF VoiceOps
<1>4. CASE DaveOps
  BY <1>4, ProposalsKeep, EpochKeeps, CommitKeeps, TransitionKeeps, ExecuteKeeps DEF DaveOps
<1>5. CASE reply_sent \/ TaskEnds
  BY <1>5, ReplyKeeps, TasksKeep
<1>6. CASE \E s \in Ssrcs : handle_packet(s)
  BY <1>6, PacketKeeps
<1>7. CASE UNCHANGED vars
  <2>1. UNCHANGED <<mlsVars, gatewayVars, startVars, callVars>>
    BY <1>7 DEF vars
  <2> USE DEF mlsVars, gatewayVars, startVars, callVars, session, registry
  <2>2. VoiceTypeOK'
    BY <2>1 DEF VInv, VoiceTypeOK, MlsTypeOK, GatewayTypeOK
  <2>3. Wiring' /\ AnswersHold' /\ StopIsFinal'
    BY <2>1, WiringKept, AnswersKept DEF VInv, Wiring, wiringVars, StopIsFinal
  <2> QED
    BY <2>2, <2>3 DEF VInv, Wiring
<1> QED
  BY <1>1, <1>2, <1>3, <1>4, <1>5, <1>6, <1>7 DEF Next

\* The inductive invariant of the client holds of every run of it.
THEOREM VoiceInvariant == Spec => []VInv
  BY VoiceInit, VoiceStep, PTL DEF Spec

\* Audio is attributed to its sender, however SSRCs change hands.
THEOREM ReceivedAudioIsItsSenders == Spec => []Attribution
<1>1. VInv => Attribution
  BY DEF VInv
<1> QED
  BY <1>1, VoiceInvariant, PTL

\* No Opus decoder mixes two speakers.
THEOREM DecodersAreApart == Spec => []OneSpeakerPerDecoder
<1>1. VInv => OneSpeakerPerDecoder
  BY DEF VInv
<1> QED
  BY <1>1, VoiceInvariant, PTL

\* In a call that encrypted from the start no known member of the group is without its ratchet
\* when the next message is read.
THEOREM WiredBetweenMessages == Spec => []DaveSendersAreWired
<1>1. VInv => DaveSendersAreWired
  BY IdleReply DEF VInv, Rewired, DaveSendersAreWired, SendersAreWired
<1> QED
  BY <1>1, VoiceInvariant, PTL

\* Each transition is answered, and truly, before the next message is read.
THEOREM TransitionsAnsweredTruly == Spec => []AnsweredTruly
<1>1. VInv => AnsweredTruly
  BY IdleReply, NoTransitionIsNone DEF VInv, AnswersHold, AnsweredTruly
<1> QED
  BY <1>1, VoiceInvariant, PTL

\* After stop() no task runs and nothing is received, ever.
THEOREM StoppedForGood == Spec => []StopIsFinal
<1>1. VInv => StopIsFinal
  BY DEF VInv
<1> QED
  BY <1>1, VoiceInvariant, PTL

\* The endpoint is open from the end of start() to stop().
LEMMA EndpointStep == VInv /\ EndpointIsOpen /\ [Next]_vars => EndpointIsOpen'
<1> SUFFICES ASSUME VInv, EndpointIsOpen, [Next]_vars PROVE EndpointIsOpen'
  OBVIOUS
<1>1. CASE UNCHANGED <<phase, endpoint>>
  BY <1>1 DEF EndpointIsOpen
<1>2. CASE start \/ StartStep \/ datagram_lost \/ stop
  BY <1>2 DEF start, StartStep, gateway_connect, await_ready, ip_discovery, select_protocol, await_session,
              create_endpoint, datagram_lost, stop, Step, EndpointIsOpen
<1>3. CASE VoiceOps
  BY <1>1, <1>3 DEF VoiceOps, hello_op, on_ready_op, on_session_description, on_speaking, on_clients_connect,
                    on_client_disconnect, startVars
<1>4. CASE DaveOps
  BY <1>1, <1>4 DEF DaveOps, on_proposals, on_prepare_epoch, on_announce_commit, on_welcome,
                    on_prepare_transition, on_execute, startVars
<1>5. CASE reply_sent \/ TaskEnds \/ (\E s \in Ssrcs : handle_packet(s)) \/ UNCHANGED vars
  BY <1>1, <1>5 DEF reply_sent, TaskEnds, handle_packet, vars, startVars
<1> QED
  BY <1>2, <1>3, <1>4, <1>5 DEF Next

\* So it is in every run.
LEMMA EndpointInvariant == Spec => []EndpointIsOpen
<1>1. Init => EndpointIsOpen
  BY DEF Init, EndpointIsOpen
<1> QED
  BY <1>1, EndpointStep, VoiceInvariant, PTL DEF Spec

\* After stop() no step of the client is left.
THEOREM StoppedClientIsSilent == Spec => StoppedIsSilent
<1>1. VInv /\ [Next]_vars => [phase # "stopped"]_vars
  <2> SUFFICES ASSUME VInv, Next, phase = "stopped" PROVE FALSE
    OBVIOUS
  <2>1. recv # "running" /\ heartbeat # "running" /\ ~endpoint /\ ~Receiving /\ ~Sent
    BY DEF VInv, StopIsFinal, Receiving, Sent
  <2>2. ~(start \/ StartStep \/ datagram_lost \/ stop)
    BY DEF start, StartStep, gateway_connect, await_ready, ip_discovery, select_protocol, await_session,
           create_endpoint, datagram_lost, stop, Step
  <2>3. ~VoiceOps
    BY <2>1 DEF VoiceOps, hello_op, hello, on_ready_op, on_session_description, on_speaking,
                on_clients_connect, on_client_disconnect
  <2>4. ~DaveOps
    BY <2>1 DEF DaveOps, on_proposals, on_prepare_epoch, on_announce_commit, on_welcome,
                on_prepare_transition, on_execute
  <2>5. ~(reply_sent \/ TaskEnds \/ \E s \in Ssrcs : handle_packet(s))
    BY <2>1 DEF reply_sent, TaskEnds, recv_loop_ends, heartbeat_fails, handle_packet
  <2> QED
    BY <2>2, <2>3, <2>4, <2>5 DEF Next
<1> QED
  BY <1>1, VoiceInvariant, PTL DEF Spec, StoppedIsSilent

\* A client whose start() raised, or has not returned, hears nobody.
THEOREM OnlyStartedClientsHear == Spec => HeardWhileStarted
<1>1. EndpointIsOpen /\ [Next]_vars => [\A s \in Ssrcs : opus'[s] \subseteq opus[s] \/ phase = "started"]_vars
  <2> SUFFICES ASSUME EndpointIsOpen, Next, NEW s \in Ssrcs PROVE opus'[s] \subseteq opus[s] \/ phase = "started"
    OBVIOUS
  <2>1. CASE UNCHANGED opus
    BY <2>1
  <2>2. CASE start \/ StartStep \/ datagram_lost \/ stop
    BY <2>1, <2>2 DEF start, StartStep, gateway_connect, await_ready, ip_discovery, select_protocol,
                      await_session, create_endpoint, datagram_lost, stop, callVars
  <2>3. CASE VoiceOps
    <3>1. CASE \E u \in Users : on_client_disconnect(u)
      BY <3>1 DEF on_client_disconnect, reset
    <3> QED
      BY <2>1, <2>3, <3>1 DEF VoiceOps, hello_op, on_ready_op, on_session_description, on_speaking,
                              on_clients_connect, callVars
  <2>4. CASE DaveOps
    BY <2>1, <2>4 DEF DaveOps, on_proposals, on_prepare_epoch, on_announce_commit, on_welcome,
                      on_prepare_transition, on_execute, callVars
  <2>5. CASE reply_sent \/ TaskEnds
    BY <2>1, <2>5 DEF reply_sent, TaskEnds, callVars
  <2>6. CASE \E t \in Ssrcs : handle_packet(t)
    BY <2>6 DEF handle_packet, EndpointIsOpen
  <2> QED
    BY <2>2, <2>3, <2>4, <2>5, <2>6 DEF Next
<1> QED
  BY <1>1, EndpointInvariant, PTL DEF Spec, HeardWhileStarted

\* Every datagram that is received is sliced right, whatever its size.
THEOREM ReceivedDatagramsAreSliced == Spec => []DatagramsAreSliced
<1>1. DatagramsAreSliced
  BY SlicingIsRight, SlicingIsSafe DEF DatagramsAreSliced
<1> QED
  BY <1>1, PTL
===============================================================================
