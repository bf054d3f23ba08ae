----------------------------- MODULE PendingQueue -----------------------------
(***************************************************************************)
(* The durable queue of spilled segments: the directory PENDING_DIR of     *)
(* bot.py. A segment is a pair of files, <meeting>_<uuid>.json (the        *)
(* sidecar) and .wav; a meeting that /leave has stopped has an empty file  *)
(* finalizing/<meeting>. The directory is the whole state of the queue: it *)
(* survives a crash of the bot.                                            *)
(*                                                                         *)
(* The operators below are the file operations of bot.py, each one         *)
(* synchronous in the event loop: only the death of the process, or an     *)
(* error of the disk, can cut one short.                                   *)
(***************************************************************************)
EXTENDS Domain

CONSTANT Cuts   (* <<json, wav>> pairs that an interrupted spill may leave *)

ASSUME CutsAssumption ==
    Cuts \subseteq {<<"torn", "absent">>, <<"full", "absent">>, <<"full", "torn">>}

VARIABLES json,    (* state of each segment's sidecar file                       *)
          wav,     (* state of each segment's audio file                         *)
          mtime,   (* st_mtime of the sidecar, in ticks of the file system clock *)
          now,     (* that clock: two spills may share a tick                    *)
          marker   (* meetings that have a file under finalizing/                *)

queueVars == <<json, wav, mtime, now, marker>>

FileState == {"absent", "torn", "full"}

QueueTypeOK ==
    /\ json \in [Segments -> FileState]
    /\ wav \in [Segments -> FileState]
    /\ mtime \in [Segments -> Nat]
    /\ now \in Nat
    /\ marker \in SUBSET Meetings

QueueInit ==
    /\ json = [s \in Segments |-> "absent"]
    /\ wav = [s \in Segments |-> "absent"]
    /\ mtime = [s \in Segments |-> 0]
    /\ now = 0
    /\ marker = {}

-------------------------------------------------------------------------------
\* The clock is only looked at when a sidecar is stamped: it has ticked since, or not.
Stamp(s) == \E tick \in {now, now + 1} :
                /\ now' = tick
                /\ mtime' = [mtime EXCEPT ![s] = tick]

\* The sidecar is written first, then the audio: what an interrupted spill leaves is one of Cuts.
WriteFiles(s, j, w) ==
    /\ json' = [json EXCEPT ![s] = j]
    /\ wav' = [wav EXCEPT ![s] = w]
    /\ Stamp(s)
    /\ UNCHANGED marker

spill_segment(s) == WriteFiles(s, "full", "full")

spill_interrupted(s) == \E c \in Cuts : WriteFiles(s, c[1], c[2])

scan_pending == {s \in Segments : json[s] # "absent"}

Oldest_UnsortedScan(s) == s \in scan_pending

\* s is items[0] of the scan sorted by st_mtime; sidecars of one tick come in any order.
Oldest(s) == s \in scan_pending /\ \A t \in scan_pending : mtime[s] <= mtime[t]

\* load_segment raises (OSError, ValueError) otherwise. A torn .wav is read like any other.
Readable(s) == json[s] = "full" /\ wav[s] # "absent"

\* The .wav goes first, so that a segment half unlinked is an unreadable sidecar.
unlink_segment(s) ==
    /\ wav' = [wav EXCEPT ![s] = "absent"]
    /\ json' = [json EXCEPT ![s] = "absent"]
    /\ UNCHANGED <<mtime, now, marker>>

unlink_interrupted(s) ==
    /\ wav' = [wav EXCEPT ![s] = "absent"]
    /\ UNCHANGED <<json, mtime, now, marker>>

mark_finalizing(m) == marker' = marker \cup {m} /\ UNCHANGED <<json, wav, mtime, now>>

unmark_finalizing_Forgotten(m) == m \in marker /\ UNCHANGED queueVars

unmark_finalizing(m) == marker' = marker \ {m} /\ UNCHANGED <<json, wav, mtime, now>>

finalizing_meetings == marker

Drained_NotScanned == finalizing_meetings

\* The finalizing meetings whose prefix no sidecar of the same scan carries.
Drained == {m \in finalizing_meetings : \A s \in scan_pending : MeetingOf[s] # m}
===============================================================================
