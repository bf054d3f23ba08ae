----------------------------- MODULE CallLifecycle -----------------------------
(***************************************************************************)
(* The life of the calls of one guild, with no awaits, no commands and no  *)
(* audio: what the commands promise, and what the audio path relies on.    *)
(* One call at a time holds the guild's voice protocol; it joins, records, *)
(* is left and stored, in this order. Its row is nobody else's to fail     *)
(* while it holds the protocol, is completed only after its /leave has     *)
(* marked it, and stays completed.                                         *)
(***************************************************************************)
CONSTANT Calls

VARIABLES spent,        (* calls that have begun, or never will                      *)
          registered,   (* the call whose protocol is registered with py-cord        *)
          joining,      (* the call whose /join is under way                         *)
          recording,    (* the call that active lists                                *)
          leaving,      (* the call whose /leave has not disconnected yet            *)
          storing,      (* calls whose /leave stores what was left                   *)
          row,          (* the status of each call's row; "none" while it has none   *)
          marked        (* calls marked finalizing                                   *)

holders == <<registered, joining, recording, leaving>>
lifecycleVars == <<spent, holders, storing, row, marked>>

LifecycleInit ==
    /\ spent = {} /\ registered = {} /\ joining = {} /\ recording = {} /\ leaving = {}
    /\ storing = {} /\ marked = {}
    /\ row = [c \in Calls |-> "none"]

-------------------------------------------------------------------------------
\* Rows of calls that hold no protocol are failed, some or all of them.
Retires ==
    /\ \A c \in Calls : row'[c] # row[c] => row[c] = "active" /\ row'[c] = "failed" /\ c \notin registered
    /\ row' = [c \in Calls |-> row'[c]]

\* One call at a time, and each once.
Begin(c) ==
    /\ c \notin spent /\ registered = {}
    /\ spent' = spent \cup {c}
    /\ registered' = {c} /\ joining' = {c}
    /\ Retires
    /\ UNCHANGED <<recording, leaving, storing, marked>>

\* A /join that ends before it has a protocol.
Decline(c) ==
    /\ spent' = spent \cup {c}
    /\ UNCHANGED <<holders, storing, row, marked>>

Retire ==
    /\ joining # {}
    /\ Retires
    /\ UNCHANGED <<spent, holders, storing, marked>>

Insert(c) ==
    /\ c \in joining /\ row[c] = "none"
    /\ row' = [row EXCEPT ![c] = "active"]
    /\ UNCHANGED <<spent, holders, storing, marked>>

\* A recording has its row, and the row says so.
Record(c) ==
    /\ c \in joining /\ row[c] = "active"
    /\ joining' = {} /\ recording' = {c}
    /\ UNCHANGED <<spent, registered, leaving, storing, row, marked>>

\* The /join of c gives up: it may or may not let go of the protocol, and of its row.
Abandon(c) ==
    /\ c \in joining
    /\ joining' = {}
    /\ registered' \in {registered, {}}
    /\ UNCHANGED row \/ (row[c] = "active" /\ row' = [row EXCEPT ![c] = "failed"])
    /\ UNCHANGED <<spent, recording, leaving, storing, marked>>

\* The row of an abandoned call is failed later: not one that was marked or completed.
Fail(c) ==
    /\ c \in spent /\ c \notin registered \cup storing \cup marked /\ row[c] \in {"active", "failed"}
    /\ row' = [row EXCEPT ![c] = "failed"]
    /\ UNCHANGED <<spent, holders, storing, marked>>

Leave(c) ==
    /\ c \in recording
    /\ recording' = {} /\ leaving' = {c}
    /\ UNCHANGED <<spent, registered, joining, storing, row, marked>>

LeaveFails(c) ==
    /\ c \in leaving
    /\ leaving' = {} /\ registered' \in {registered, {}}
    /\ UNCHANGED <<spent, joining, recording, storing, row, marked>>

\* From here on another call may begin.
Disconnect(c) ==
    /\ c \in leaving
    /\ leaving' = {} /\ registered' = {} /\ storing' = storing \cup {c}
    /\ UNCHANGED <<spent, joining, recording, row, marked>>

\* The stores are over; an error leaves no marker.
Stored(c) ==
    /\ c \in storing
    /\ storing' = storing \ {c}
    /\ marked' \in {marked, marked \cup {c}}
    /\ UNCHANGED <<spent, holders, row>>

\* The drainer; the marker goes with the row's flip, or after it.
Complete(c) ==
    /\ c \in marked
    /\ row' = [row EXCEPT ![c] = "completed"]
    /\ marked' \in {marked, marked \ {c}}
    /\ UNCHANGED <<spent, holders, storing>>

\* The process dies: only rows and markers are left.
Lose ==
    /\ spent \subseteq spent'
    /\ registered' = {} /\ joining' = {} /\ recording' = {} /\ leaving' = {} /\ storing' = {}
    /\ UNCHANGED <<row, marked>>

LifecycleNext ==
    \/ \E c \in Calls :
          \/ Begin(c) \/ Decline(c) \/ Insert(c) \/ Record(c) \/ Abandon(c) \/ Fail(c)
          \/ Leave(c) \/ LeaveFails(c) \/ Disconnect(c) \/ Stored(c) \/ Complete(c)
    \/ Retire \/ Lose

LifecycleSpec == LifecycleInit /\ [][LifecycleNext]_lifecycleVars
===============================================================================
