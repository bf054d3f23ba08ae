----------------------------- MODULE VoiceClient ------------------------------
(***************************************************************************)
(* voice_client.py: one DAVEVoiceClient from start() to stop(). The        *)
(* callbacks of the gateway keep the map from SSRC to user and the         *)
(* ratchets of its Decryptors; datagrams arrive between any two steps and  *)
(* are decrypted, decoded and written for the user their SSRC belongs to.  *)
(*                                                                         *)
(* Discord is external: which messages it sends when is in the guards of   *)
(* the actions, as far as the code relies on it.                           *)
(***************************************************************************)
EXTENDS VoiceGateway, Framing

VARIABLES phase,          (* the await start() is suspended in, or what became of it     *)
          ready_evt,
          sd_evt,         (* also: self.transport is set                                 *)
          lost,           (* a datagram of the IP discovery was lost                     *)
          endpoint,       (* _udp_transport receives                                     *)
          dave_version,   (* 0, or 1 for any version that encrypts                       *)
          ssrc_to_user,
          opus            (* whose frames each SSRC's Opus decoder was fed               *)

startVars == <<phase, ready_evt, sd_evt, lost, endpoint>>
callVars == <<dave_version, ssrc_to_user, opus>>
vars == <<mlsVars, gatewayVars, startVars, callVars>>

Versions == {0, 1}

(***************************************************************************)
(* connect: websocket and IDENTIFY; ready, session: the two events;        *)
(* discover: the two datagrams; select: the send of SELECT_PROTOCOL;       *)
(* endpoint: create_datagram_endpoint                                      *)
(***************************************************************************)
Waiting == {"connect", "ready", "discover", "select", "session", "endpoint"}

VoiceTypeOK ==
    /\ MlsTypeOK /\ GatewayTypeOK
    /\ phase \in Waiting \cup {"new", "started", "raised", "stopped"}
    /\ {ready_evt, sd_evt, lost, endpoint} \subseteq BOOLEAN
    /\ dave_version \in Versions
    /\ ssrc_to_user \in [Ssrcs -> Users \cup {None}]
    /\ opus \in [Ssrcs -> SUBSET Users]

Init ==
    /\ MlsInit /\ GatewayInit
    /\ phase = "new"
    /\ ready_evt = FALSE /\ sd_evt = FALSE /\ lost = FALSE /\ endpoint = FALSE
    /\ dave_version = 0
    /\ ssrc_to_user = [s \in Ssrcs |-> None]
    /\ opus = [s \in Ssrcs |-> {}]

-------------------------------------------------------------------------------
(* OpusDecoders: a decoder is made with the first frame of its SSRC *)

decode(s, u) == opus' = [opus EXCEPT ![s] = @ \cup {u}]
reset(dead) == opus' = [s \in Ssrcs |-> IF s \in dead THEN {} ELSE opus[s]]

-------------------------------------------------------------------------------
(* start() and stop() *)

Step(from, to) == phase = from /\ phase' = to

start ==
    /\ Step("new", "connect")
    /\ UNCHANGED <<mlsVars, gatewayVars, ready_evt, sd_evt, lost, endpoint, callVars>>

gateway_connect ==
    /\ \/ Step("connect", "ready") /\ recv' = "running"
       \/ Step("connect", "raised") /\ UNCHANGED recv
    /\ UNCHANGED <<mlsVars, heartbeat, reply, said, took, ready_evt, sd_evt, lost, endpoint, callVars>>

await_ready ==
    /\ ready_evt
    /\ Step("ready", "discover")
    /\ UNCHANGED <<mlsVars, gatewayVars, ready_evt, sd_evt, lost, endpoint, callVars>>

datagram_lost ==
    /\ phase = "discover" /\ ~lost
    /\ lost' = TRUE
    /\ UNCHANGED <<mlsVars, gatewayVars, phase, ready_evt, sd_evt, endpoint, callVars>>

\* sock_recv has no timeout and nobody repeats the request. An answer that does not parse, a socket
\* error, or no mode in common raise.
ip_discovery ==
    /\ ~lost
    /\ Step("discover", "select") \/ Step("discover", "raised")
    /\ UNCHANGED <<mlsVars, gatewayVars, ready_evt, sd_evt, lost, endpoint, callVars>>

select_protocol ==
    /\ Step("select", "session") \/ Step("select", "raised")
    /\ UNCHANGED <<mlsVars, gatewayVars, ready_evt, sd_evt, lost, endpoint, callVars>>

await_session ==
    /\ sd_evt
    /\ Step("session", "endpoint")
    /\ UNCHANGED <<mlsVars, gatewayVars, ready_evt, sd_evt, lost, endpoint, callVars>>

create_endpoint ==
    /\ \/ Step("endpoint", "started") /\ endpoint' = TRUE
       \/ Step("endpoint", "raised") /\ UNCHANGED endpoint
    /\ UNCHANGED <<mlsVars, gatewayVars, ready_evt, sd_evt, lost, callVars>>

stop_KeepsEndpoint ==
    /\ Step("started", "stopped")
    /\ close
    /\ UNCHANGED <<mlsVars, ready_evt, sd_evt, lost, endpoint, callVars>>

\* Nothing is awaited between the close of the UDP transport and the cancels of VoiceGateway.close.
stop ==
    /\ Step("started", "stopped")
    /\ endpoint' = FALSE
    /\ close
    /\ UNCHANGED <<mlsVars, ready_evt, sd_evt, lost, callVars>>

-------------------------------------------------------------------------------
(* _dispatch and the callbacks: READY and the session description, each once *)

on_ready_op ==
    /\ Receiving /\ ~ready_evt
    /\ ready_evt' = TRUE
    /\ NoAnswer
    /\ UNCHANGED <<mlsVars, phase, sd_evt, lost, endpoint, callVars>>

on_session_description_NoEvent(v) ==
    /\ Receiving /\ ~sd_evt /\ phase = "session"
    /\ dave_version' = v
    /\ IF v = 0 THEN NoAnswer /\ UNCHANGED session ELSE Publish("key_package") /\ initialize_group
    /\ UNCHANGED <<recognized, registry, startVars, ssrc_to_user, opus>>

\* The answer to SELECT_PROTOCOL; a call that encrypts has its group made here.
on_session_description(v) ==
    /\ Receiving /\ ~sd_evt /\ phase = "session"
    /\ sd_evt' = TRUE
    /\ dave_version' = v
    /\ IF v = 0 THEN NoAnswer /\ UNCHANGED session ELSE Publish("key_package") /\ initialize_group
    /\ UNCHANGED <<recognized, registry, phase, ready_evt, lost, endpoint, ssrc_to_user, opus>>

Refresh(map) == IF dave_version >= 1 THEN refresh_ratchets(map) ELSE UNCHANGED <<decryptors, held>>

\* Discord gives an SSRC to somebody else only after the CLIENT_DISCONNECT of its user.
SsrcFree(s, u) == ssrc_to_user[s] \in {None, u}

on_speaking_NoRefresh(u, s) ==
    /\ Receiving /\ SsrcFree(s, u)
    /\ recognized' = recognized \cup {u}
    /\ ssrc_to_user' = [ssrc_to_user EXCEPT ![s] = u]
    /\ NoAnswer
    /\ UNCHANGED <<session, registry, startVars, dave_version, opus>>

on_speaking(u, s) ==
    /\ Receiving /\ SsrcFree(s, u)
    /\ recognized' = recognized \cup {u}
    /\ ssrc_to_user' = [ssrc_to_user EXCEPT ![s] = u]
    /\ Refresh([ssrc_to_user EXCEPT ![s] = u])
    /\ NoAnswer
    /\ UNCHANGED <<session, passthrough, startVars, dave_version, opus>>

on_clients_connect(us) ==
    /\ Receiving
    /\ recognized' = recognized \cup us
    /\ Refresh(ssrc_to_user)
    /\ NoAnswer
    /\ UNCHANGED <<session, passthrough, startVars, callVars>>

DeadSsrcs(u) == {s \in Ssrcs : ssrc_to_user[s] = u}

on_client_disconnect_KeepsDecoder(u) ==
    /\ Receiving
    /\ recognized' = recognized \ {u}
    /\ ssrc_to_user' = [s \in Ssrcs |-> IF s \in DeadSsrcs(u) THEN None ELSE ssrc_to_user[s]]
    /\ forget(DeadSsrcs(u))
    /\ NoAnswer
    /\ UNCHANGED <<session, startVars, dave_version, opus>>

on_client_disconnect(u) ==
    /\ Receiving
    /\ recognized' = recognized \ {u}
    /\ ssrc_to_user' = [s \in Ssrcs |-> IF s \in DeadSsrcs(u) THEN None ELSE ssrc_to_user[s]]
    /\ forget(DeadSsrcs(u))
    /\ reset(DeadSsrcs(u))
    /\ NoAnswer
    /\ UNCHANGED <<session, startVars, dave_version>>

-------------------------------------------------------------------------------
(* _dispatch: the DAVE opcodes, which follow the session description *)

\* process_proposals made a commit of its own; without one there is no reply.
on_proposals ==
    /\ Receiving /\ initialized
    /\ Publish("commit_welcome")
    /\ UNCHANGED <<mlsVars, startVars, callVars>>

\* A later epoch only changes the session's protocol version.
on_prepare_epoch ==
    /\ Receiving /\ sd_evt
    /\ initialize_group
    /\ Publish("key_package")
    /\ UNCHANGED <<recognized, registry, startVars, callVars>>

on_announce_commit(t, roster) ==
    /\ Receiving /\ sd_evt
    /\ \/ Accept(roster) /\ ready_or_invalid(t, TRUE)
       \/ UNCHANGED session /\ ready_or_invalid(t, FALSE)
    /\ UNCHANGED <<recognized, registry, startVars, callVars>>

on_welcome_NoneIsReady(t, roster) ==
    /\ Receiving /\ sd_evt
    /\ \/ Accept(roster) /\ roster \subseteq recognized /\ ready_or_invalid(t, TRUE)
       \/ UNCHANGED <<session, took>> /\ Answer(t, "ready", TRUE)
    /\ UNCHANGED <<recognized, registry, startVars, callVars>>

\* process_welcome refuses a roster with somebody it was not told to recognize.
on_welcome(t, roster) ==
    /\ Receiving /\ sd_evt
    /\ \/ Accept(roster) /\ roster \subseteq recognized /\ ready_or_invalid(t, TRUE)
       \/ UNCHANGED session /\ ready_or_invalid(t, FALSE)
    /\ UNCHANGED <<recognized, registry, startVars, callVars>>

\* Only the Decryptors that exist are told of a downgrade.
on_prepare_transition(t, v) ==
    /\ Receiving /\ sd_evt
    /\ transition_ready(t)
    /\ passthrough' = IF v = 0 THEN passthrough \cup decryptors ELSE passthrough
    /\ UNCHANGED <<session, recognized, decryptors, held, startVars, callVars>>

on_execute(t) ==
    /\ Receiving /\ said[t] = "ready"
    /\ Refresh(ssrc_to_user)
    /\ NoAnswer
    /\ UNCHANGED <<session, recognized, passthrough, startVars, callVars>>

reply_sent_NoRewire ==
    /\ Sent
    /\ UNCHANGED <<mlsVars, startVars, callVars>>

\* on_mls_change follows the reply to a commit or a welcome, whether the session took it or not.
reply_sent ==
    /\ Sent
    /\ IF reply.rewire THEN Refresh(ssrc_to_user) ELSE UNCHANGED <<decryptors, held>>
    /\ UNCHANGED <<session, recognized, passthrough, startVars, callVars>>

TaskEnds ==
    /\ recv_loop_ends \/ heartbeat_fails
    /\ UNCHANGED <<mlsVars, startVars, callVars>>

hello_op ==
    /\ hello
    /\ UNCHANGED <<mlsVars, startVars, callVars>>

-------------------------------------------------------------------------------
(* _handle_packet *)

\* A frame decrypts if its sender's ratchet is among those the Decryptor was given (an older one
\* may have expired) or is plain and allowed through. A plain frame is taken to be its SSRC's user's:
\* nothing in it says whose it is.
Senders(s) == {r.user : r \in held[s]} \cup IF s \in passthrough THEN {ssrc_to_user[s]} ELSE {}

handle_packet(s) ==
    /\ endpoint /\ sd_evt
    /\ ssrc_to_user[s] # None
    /\ decryptor_for(s)
    /\ \/ \E u \in Senders(s) : decode(s, u)
       \/ UNCHANGED opus
    /\ UNCHANGED <<session, recognized, held, passthrough, gatewayVars, startVars, dave_version, ssrc_to_user>>

-------------------------------------------------------------------------------
StartStep == gateway_connect \/ await_ready \/ ip_discovery \/ select_protocol \/ await_session \/ create_endpoint

VoiceOps ==
    \/ hello_op \/ on_ready_op
    \/ \E v \in Versions : on_session_description(v)
    \/ \E u \in Users, s \in Ssrcs : on_speaking(u, s)
    \/ \E us \in SUBSET Users : on_clients_connect(us)
    \/ \E u \in Users : on_client_disconnect(u)

DaveOps ==
    \/ on_proposals \/ on_prepare_epoch
    \/ \E t \in Transitions :
          \/ \E roster \in SUBSET Users : on_announce_commit(t, roster) \/ on_welcome(t, roster)
          \/ \E v \in Versions : on_prepare_transition(t, v)
          \/ on_execute(t)

Next ==
    \/ start \/ StartStep \/ datagram_lost \/ stop
    \/ VoiceOps \/ DaveOps \/ reply_sent \/ TaskEnds
    \/ \E s \in Ssrcs : handle_packet(s)

\* What ends, ends: each await of start() with an answer or an error, the send of a reply. Discord
\* sends READY, and the session description when it is asked for one.
Fairness ==
    /\ WF_vars(StartStep)
    /\ WF_vars(reply_sent)
    /\ SF_vars(on_ready_op)
    /\ SF_vars(\E v \in Versions : on_session_description(v))

Spec == Init /\ [][Next]_vars
FairSpec == Spec /\ Fairness

-------------------------------------------------------------------------------
\* Audio is never written for somebody else than its sender, however late or early a datagram is
\* against the gateway's messages, when an SSRC passes from one user to another: what the Decryptor
\* of an SSRC can decrypt is its user's.
Attribution == \A s \in Ssrcs : \A r \in held[s] : r.user = ssrc_to_user[s]

\* An Opus decoder, which carries state from frame to frame, is never fed the frames of two users.
OneSpeakerPerDecoder == \A s \in Ssrcs : \A u \in opus[s] : u = ssrc_to_user[s]

\* Whenever the loop is between two messages, each known sender of whom the group exports a key has
\* the ratchet of the current epoch in its Decryptor.
Established == {s \in Ssrcs : ssrc_to_user[s] \in members}
SendersAreWired == Receiving => \A s \in Established : Ratchet(ssrc_to_user[s]) \in held[s]

\* The same for a call that encrypted from the start.
DaveSendersAreWired == dave_version >= 1 => SendersAreWired

\* Each transition the server asks for is answered before the next message is read, with READY if
\* and only if the client has done its part.
AnsweredTruly ==
    /\ Receiving => \A t \in Transitions : said[t] # "asked"
    /\ \A t \in Transitions : said[t] = "ready" => t \in took
    /\ \A t \in Transitions : said[t] = "invalid" => t \notin took

\* stop() leaves nothing behind: no task of the gateway, no endpoint that receives.
StopIsFinal == phase = "stopped" => recv # "running" /\ heartbeat # "running" /\ ~endpoint

\* Whatever datagram the endpoint receives is taken apart as its sender put it together, and no
\* slice reaches over the end of one that is cut short (module Framing).
DatagramsAreSliced == endpoint => SlicesAreParts /\ SlicesStayInside

\* A client that was stopped does nothing any more: whatever Discord still sends, no callback, no
\* frame, no reply and no task of it takes another step.
StoppedIsSilent == [][phase # "stopped"]_vars

\* Audio comes out of a client only between the return of start() and stop(): one whose start() has
\* raised is never stopped and its gateway goes on, but it hears nobody.
HeardWhileStarted == [][\A s \in Ssrcs : opus'[s] \subseteq opus[s] \/ phase = "started"]_vars

-------------------------------------------------------------------------------
(* The inductive invariant *)

\* The ratchets are current at all times but between a commit or a welcome and the rewiring that
\* follows its reply.
Rewired ==
    dave_version >= 1 /\ ~reply.rewire => \A s \in Established : Ratchet(ssrc_to_user[s]) \in held[s]

\* The one transition without an answer is the one whose reply is being sent.
AnswersHold ==
    \A t \in Transitions :
        /\ said[t] = "asked" => reply.transition = t
        /\ said[t] = "none" => t \notin took
        /\ said[t] = "ready" => t \in took
        /\ said[t] = "invalid" => t \notin took
        /\ reply.transition = t => said[t] = "asked" /\ (reply.op = "ready" <=> t \in took)

\* The endpoint receives from the end of start() to stop().
EndpointIsOpen == endpoint <=> phase = "started"

VInv == VoiceTypeOK /\ Attribution /\ OneSpeakerPerDecoder /\ Rewired /\ AnswersHold /\ StopIsFinal

-------------------------------------------------------------------------------
\* start() waits for nothing but Discord: it returns or raises, unless a datagram of the discovery
\* was lost or the receive loop has ended, in which case it may wait for ever.
StartEnds == phase = "connect" ~> phase \notin Waiting \/ lost \/ recv = "ended"
===============================================================================
