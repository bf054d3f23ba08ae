---------------------------- MODULE AudioHandover -----------------------------
(***************************************************************************)
(* How the audio of one recording passes from the voice client to store,   *)
(* with no clock, no frames and no files: what PcmBuffer, the flusher and  *)
(* /leave promise, and what the pipeline behind them supposes. A run of    *)
(* audio (what one _pop cuts) begins while the client receives, leaves the *)
(* buffer once, cut by the flusher of a live recording or with all the     *)
(* rest by drain_all, and is lost only with the recording as a whole:      *)
(* in one that was drained, every run that ever began was given to store.  *)
(***************************************************************************)
VARIABLES recording,   (* "idle", "live", "leaving", "drained" or "over"         *)
          begun,       (* runs that have begun                                   *)
          buffered     (* those that nobody has taken out of the buffer yet      *)

audioVars == <<recording, begun, buffered>>

AudioInit == recording \in {"idle", "live"} /\ begun = {} /\ buffered = {}

-------------------------------------------------------------------------------
Live ==
    /\ recording = "idle"
    /\ recording' = "live"
    /\ UNCHANGED <<begun, buffered>>

\* The socket stays open for a while after /leave was called.
Speak ==
    /\ recording \in {"live", "leaving"}
    /\ \E r \in begun' \ begun : begun' = begun \cup {r} /\ buffered' = buffered \cup {r}
    /\ UNCHANGED recording

\* The flusher takes some runs and leaves the others.
Flush ==
    /\ recording = "live"
    /\ buffered' \subseteq buffered
    /\ UNCHANGED <<recording, begun>>

\* From here on the flusher takes nothing.
Leave ==
    /\ recording = "live"
    /\ recording' = "leaving"
    /\ UNCHANGED <<begun, buffered>>

Drain ==
    /\ recording = "leaving"
    /\ recording' = "drained"
    /\ buffered' = {}
    /\ UNCHANGED begun

\* /join or /leave raises, or the process dies: what is buffered is nobody's any more.
Lose ==
    /\ recording' = "over"
    /\ buffered' = {}
    /\ UNCHANGED begun

\* A socket that nobody closed goes on receiving for nobody.
Waste ==
    /\ recording = "over"
    /\ begun \subseteq begun'
    /\ UNCHANGED <<recording, buffered>>

AudioNext == Live \/ Speak \/ Flush \/ Leave \/ Drain \/ Lose \/ Waste

AudioSpec == AudioInit /\ [][AudioNext]_audioVars
===============================================================================
