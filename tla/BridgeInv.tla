------------------------------ MODULE BridgeInv -------------------------------
(***************************************************************************)
(* The inductive invariant behind the safety properties of Bridge, in      *)
(* parts. BridgeProofs proves that it is inductive and that it implies     *)
(* the properties; TLC checks it on the small instances.                   *)
(***************************************************************************)
EXTENDS Bridge

Busy == {"transcribe", "insert", "touch"}

Unspilled == {"unspoken", "buffered", "naming", "held", "dropped"}

\* The segment drain_once works on is in the queue, loadable, and the oldest; the row of a
\* segment at "touch" is committed.
CurrentIsQueued ==
    /\ drain \in Busy => cur \in Segments /\ Readable(cur) /\ Oldest(cur)
    /\ drain = "touch" => rows[cur] > 0

\* A segment that no store has reached has no files, no rows and no verdict.
UnspilledIsFresh ==
    \A s \in Segments : stage[s] \in Unspilled =>
        json[s] = "absent" /\ wav[s] = "absent" /\ ~Delivered(s)

\* No sidecar and no delivered segment is younger than the clock.
ClockIsAhead == \A s \in Segments : json[s] # "absent" \/ Delivered(s) => mtime[s] <= now

\* rows[s] is within 1 + faults; while s can still be inserted again, within faults.
RowsAccounted ==
    \A s \in Segments :
        /\ rows[s] <= 1 + faults
        /\ Readable(s) /\ ~(drain = "touch" /\ cur = s) => rows[s] <= faults

\* What is known of the queue and of what has left it.
QueueInv ==
    /\ CurrentIsQueued
    /\ UnspilledIsFresh
    /\ NoLostSegment
    /\ ClockIsAhead
    /\ FifoReplay
    /\ RowsAccounted

\* What /leave still holds belongs to a /leave that is still storing.
HeldIsStoring == \A s \in Segments : stage[s] = "held" => call[MeetingOf[s]] = "storing"

\* The snapshot of _finalize_completed stays true for what was spilled before the mark: the
\* only segments that can join the queue behind its back are late ones.
SettledIsDrained ==
    /\ todo \subseteq marker
    /\ todo # {} <=> drain \in {"finalize", "answered"}
    /\ \A m \in Meetings :
          /\ m \in marker \/ status[m] = "completed" => call[m] = "left"
          /\ m \in todo \/ status[m] = "completed" =>
                \A s \in Segments : MeetingOf[s] = m /\ stage[s] = "spilled" => json[s] = "absent"

\* The rows and markers a webhook task leaves behind, and the POSTs it has left.
HookAccounted ==
    /\ drain = "answered" => \A m \in Meetings : AtHand(m) => status[m] = "completed"
    /\ \A m \in Meetings :
          /\ hook[m] # "none" => status[m] = "completed" /\ m \notin marker
          /\ hook[m] = "none" => posts[m] = 0
          /\ hook[m] = "sending" => posts[m] = tries[m] /\ tries[m] < Attempts
          /\ posts[m] <= Attempts

\* What is known of meetings on their way to 'completed' and of their webhooks.
FinalInv == HeldIsStoring /\ SettledIsDrained /\ HookAccounted

\* One recording at a time holds the protocol; its row says 'active' from the INSERT on.
CallInv ==
    /\ \A m, n \in Meetings : call[m] \in Registered /\ call[n] \in Registered => m = n
    /\ \A m \in Meetings : call[m] \in {"inserted", "live", "leaving"} => status[m] = "active"

\* Audio waits in the buffer of a recording that is live or being left.
BufferedIsLive == \A s \in Segments : stage[s] = "buffered" => call[MeetingOf[s]] \in {"live", "leaving"}

\* The inductive invariant: it strengthens the safety properties with where the drainer is.
IInv == TypeOK /\ QueueInv /\ FinalInv
===============================================================================
