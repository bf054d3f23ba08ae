----------------------------- MODULE VoiceGateway -----------------------------
(***************************************************************************)
(* voice_ws.py: the receive task, which dispatches one message of the      *)
(* websocket at a time and awaits the send of its reply before the next,   *)
(* and the heartbeat task. Whatever ends the loop, a close of the socket   *)
(* or an exception, ends it silently and for good: there is no resume.     *)
(*                                                                         *)
(* A transition is what the server asks the client to be ready for, with a *)
(* commit, a welcome or a prepare_transition (ops 29, 30, 21).             *)
(***************************************************************************)
EXTENDS MLSManager

CONSTANT Transitions

ASSUME NoTransitionIsNone == None \notin Transitions

VARIABLES recv,        (* _recv_task                                                   *)
          heartbeat,   (* _heartbeat_task                                              *)
          reply,       (* the reply whose send _dispatch awaits                        *)
          said,        (* history: what each transition was answered                   *)
          took         (* history: the transitions the client did what it was asked    *)

Tasks == {"none", "running", "ended"}
gatewayVars == <<recv, heartbeat, reply, said, took>>

\* rewire: on_mls_change follows the send.
NoReply == [op |-> "none", transition |-> None, rewire |-> FALSE]
Replies == [op : {"none", "key_package", "commit_welcome"}, transition : {None}, rewire : {FALSE}]
              \cup [op : {"ready", "invalid"}, transition : Transitions, rewire : BOOLEAN]

GatewayTypeOK ==
    /\ recv \in Tasks
    /\ heartbeat \in Tasks
    /\ reply \in Replies
    /\ said \in [Transitions -> {"asked", "ready", "invalid", "none"}]
    /\ took \in SUBSET Transitions

GatewayInit ==
    /\ recv = "none"
    /\ heartbeat = "none"
    /\ reply = NoReply
    /\ said = [t \in Transitions |-> "none"]
    /\ took = {}

-------------------------------------------------------------------------------
\* The loop is between two messages.
Receiving == recv = "running" /\ reply = NoReply

\* The message in dispatch has no reply to await, or has one.
NoAnswer == UNCHANGED gatewayVars

Publish(op) ==
    /\ reply' = [op |-> op, transition |-> None, rewire |-> FALSE]
    /\ UNCHANGED <<recv, heartbeat, said, took>>

Answer(t, op, rewire) ==
    /\ said[t] = "none"
    /\ reply' = [op |-> op, transition |-> t, rewire |-> rewire]
    /\ said' = [said EXCEPT ![t] = "asked"]
    /\ UNCHANGED <<recv, heartbeat>>

\* Ready for what the session has taken, invalid for what it has rejected.
ready_or_invalid(t, taken) ==
    /\ Answer(t, IF taken THEN "ready" ELSE "invalid", TRUE)
    /\ took' = IF taken THEN took \cup {t} ELSE took

transition_ready(t) ==
    /\ Answer(t, "ready", FALSE)
    /\ took' = took \cup {t}

\* The send is over; _dispatch goes on after it.
Sent ==
    /\ recv = "running" /\ reply # NoReply
    /\ reply' = NoReply
    /\ said' = IF reply.transition = None THEN said ELSE [said EXCEPT ![reply.transition] = reply.op]
    /\ UNCHANGED <<recv, heartbeat, took>>

hello ==
    /\ Receiving /\ heartbeat = "none"
    /\ heartbeat' = "running"
    /\ UNCHANGED <<recv, reply, said, took>>

\* The socket is closed or _dispatch raises, between messages or in the send of a reply.
recv_loop_ends ==
    /\ recv = "running"
    /\ recv' = "ended"
    /\ UNCHANGED <<heartbeat, reply, said, took>>

\* Its send raises when the socket is closed, before or after the receive loop has noticed.
heartbeat_fails ==
    /\ heartbeat = "running"
    /\ heartbeat' = "ended"
    /\ UNCHANGED <<recv, reply, said, took>>

Ended(task) == IF task = "running" THEN "ended" ELSE task

close_KeepsHeartbeat ==
    /\ recv' = Ended(recv)
    /\ UNCHANGED <<heartbeat, reply, said, took>>

close_KeepsReceiving ==
    /\ heartbeat' = Ended(heartbeat)
    /\ UNCHANGED <<recv, reply, said, took>>

\* cancel() takes effect at the await each task is in: neither runs any more of its code.
close ==
    /\ recv' = Ended(recv)
    /\ heartbeat' = Ended(heartbeat)
    /\ UNCHANGED <<reply, said, took>>
===============================================================================
