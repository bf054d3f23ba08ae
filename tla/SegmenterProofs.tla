--------------------------- MODULE SegmenterProofs ----------------------------
(***************************************************************************)
(* Proofs about Segmenter for any number of users, any silence, any sleep  *)
(* and lateness of the flusher, and runs of any length.                    *)
(***************************************************************************)
EXTENDS Segmenter, SequenceTheorems, TLAPS

-------------------------------------------------------------------------------
(* Sequences *)

\* What an appended sequence holds.
LEMMA Appended ==
    ASSUME NEW S, NEW q \in Seq(S), NEW x \in S
    PROVE  /\ Append(q, x) \in Seq(S) /\ Append(q, x) # <<>>
           /\ Len(Append(q, x)) = Len(q) + 1
           /\ Append(q, x)[Len(q) + 1] = x
           /\ \A i \in 1 .. Len(q) : Append(q, x)[i] = q[i]
  BY AppendProperties

\* A frame appended to the buffer is appended to everything heard.
LEMMA AppendAfterConcat ==
    ASSUME NEW a \in Seq(Nat), NEW b \in Seq(Nat), NEW x \in Nat
    PROVE  Append(a \o b, x) = a \o Append(b, x)
<1>1. a \o b \in Seq(Nat) /\ <<x>> \in Seq(Nat)
  BY ConcatProperties
<1>2. Append(a \o b, x) = (a \o b) \o <<x>> /\ Append(b, x) = b \o <<x>>
  BY <1>1, AppendIsConcat
<1> QED
  BY <1>1, <1>2, ConcatAssociative

\* A sequence that is not empty has a first and a last element.
LEMMA Ends == ASSUME NEW q \in Seq(Nat), q # <<>> PROVE Len(q) \in Nat \ {0} /\ q[1] \in Nat /\ q[Len(q)] \in Nat
  BY EmptySeq, LenProperties, ElementOfSeq

\* Segments that are right stay right when one more is appended that is right.
LEMMA OneMore ==
    ASSUME NEW q \in Seq(Segment), NEW g \in Segment, Exact(g), Fluent(g),
           q # <<>> => Apart(q[Len(q)], g),
           \A i \in 1 .. Len(q) : Exact(q[i]) /\ Fluent(q[i]),
           \A i \in 1 .. Len(q) - 1 : Apart(q[i], q[i + 1])
    PROVE  /\ \A i \in 1 .. Len(Append(q, g)) : Exact(Append(q, g)[i]) /\ Fluent(Append(q, g)[i])
           /\ \A i \in 1 .. Len(Append(q, g)) - 1 : Apart(Append(q, g)[i], Append(q, g)[i + 1])
<1> DEFINE n == Len(q)
           p == Append(q, g)
<1>1. n \in Nat /\ (n # 0 => q # <<>>)
  BY EmptySeq, LenProperties
<1>2. Len(p) = n + 1 /\ p[n + 1] = g /\ \A i \in 1 .. n : p[i] = q[i]
  BY Appended
<1> HIDE DEF n, p
<1>3. ASSUME NEW i \in 1 .. n + 1 PROVE Exact(p[i]) /\ Fluent(p[i])
  <2>1. CASE i = n + 1
    BY <1>2, <2>1
  <2>2. CASE i \in 1 .. n
    <3>1. p[i] = q[i] /\ Exact(q[i]) /\ Fluent(q[i])
      BY <1>2, <2>2 DEF n
    <3> QED
      BY <3>1
  <2> QED
    BY <1>1, <2>1, <2>2
<1>4. ASSUME NEW i \in 1 .. n PROVE Apart(p[i], p[i + 1])
  <2>1. CASE i = n
    <3>1. p[i] = q[n] /\ p[i + 1] = g /\ q # <<>>
      BY <1>1, <1>2, <2>1
    <3> QED
      BY <3>1 DEF n
  <2>2. CASE i \in 1 .. n - 1
    <3>1. i \in 1 .. n /\ i + 1 \in 1 .. n
      BY <1>1, <2>2
    <3>2. p[i] = q[i] /\ p[i + 1] = q[i + 1] /\ Apart(q[i], q[i + 1])
      BY <1>2, <2>2, <3>1 DEF n
    <3> QED
      BY <3>2
  <2> QED
    BY <1>1, <2>1, <2>2
<1>5. 1 .. Len(p) = 1 .. n + 1 /\ 1 .. Len(p) - 1 = 1 .. n
  BY <1>1, <1>2
<1> QED
  BY <1>3, <1>4, <1>5 DEF p

-------------------------------------------------------------------------------
(* Cutting segments *)

\* Segments are cut right from buffers that are kept right.
LEMMA PopKeeps ==
    ASSUME SInv, leave # "drained", NEW users \in SUBSET Nonempty, NEW cut \in {"flusher", "leave"},
           pop(users, cut), heard' = heard,
           cut = "flusher" => \A u \in users : PausesAreShort(buf[u])
    PROVE  /\ buf' \in [Users -> Seq(Nat)] /\ handed' \in [Users -> Seq(Nat)] /\ segments' \in [Users -> Seq(Segment)]
           /\ FramesConserved' /\ TimesAreExact' /\ SegmentsAreApart' /\ NoPauseInside'
<1> DEFINE cutFrom(u) == [frames |-> buf[u], t0 |-> start[u], t1 |-> last[u], cut |-> cut]
<1>1. \A u \in Users : /\ buf[u] \in Seq(Nat) /\ handed[u] \in Seq(Nat) /\ segments[u] \in Seq(Segment)
                       /\ start[u] \in Nat /\ last[u] \in Nat /\ heard[u] = handed[u] \o buf[u]
  BY DEF SInv, SegmenterTypeOK, FramesConserved
<1>2. \A u \in Users : /\ u \in users => /\ handed'[u] = handed[u] \o buf[u] /\ buf'[u] = <<>>
                                         /\ segments'[u] = Append(segments[u], cutFrom(u))
                       /\ u \notin users => /\ handed'[u] = handed[u] /\ buf'[u] = buf[u]
                                            /\ segments'[u] = segments[u]
  BY DEF pop
<1>3. \A u \in Users : cutFrom(u) \in Segment
  BY <1>1 DEF Segment
<1>4. buf' \in [Users -> Seq(Nat)] /\ handed' \in [Users -> Seq(Nat)]
  BY <1>1, ConcatProperties, EmptySeq DEF pop
<1>5. segments' \in [Users -> Seq(Segment)]
  <2>1. \A u \in Users : segments'[u] \in Seq(Segment)
    BY <1>1, <1>2, <1>3, Appended
  <2> QED
    BY <2>1 DEF pop
<1>6. FramesConserved'
  <2> SUFFICES ASSUME NEW u \in Users PROVE heard[u] = handed'[u] \o buf'[u]
    BY DEF FramesConserved
  <2>1. CASE u \in users
    <3>1. heard[u] \in Seq(Nat) /\ handed'[u] = heard[u] /\ buf'[u] = <<>>
      BY <1>1, <1>2, <2>1, ConcatProperties
    <3> QED
      BY <3>1, ConcatEmptySeq
  <2>2. CASE u \notin users
    BY <1>1, <1>2, <2>2
  <2> QED
    BY <2>1, <2>2
<1>7. ASSUME NEW u \in Users
      PROVE  /\ \A i \in 1 .. Len(segments'[u]) : Exact(segments'[u][i]) /\ Fluent(segments'[u][i])
             /\ \A i \in 1 .. Len(segments'[u]) - 1 : Apart(segments'[u][i], segments'[u][i + 1])
  <2>1. /\ \A i \in 1 .. Len(segments[u]) : Exact(segments[u][i]) /\ Fluent(segments[u][i])
        /\ \A i \in 1 .. Len(segments[u]) - 1 : Apart(segments[u][i], segments[u][i + 1])
    BY DEF SInv, TimesAreExact, NoPauseInside, SegmentsAreApart
  <2>2. CASE u \in users
    <3>1. buf[u] # <<>>
      BY <2>2 DEF Nonempty
    <3>2. Exact(cutFrom(u)) /\ Fluent(cutFrom(u))
      BY <2>2, <3>1 DEF SInv, BufferTimes, Exact, Fluent
    <3>3. segments[u] # <<>> => Apart(segments[u][Len(segments[u])], cutFrom(u))
      BY <3>1 DEF SInv, GapKept, Apart
    <3>4. segments[u] \in Seq(Segment) /\ cutFrom(u) \in Segment
      BY <1>1, <1>3
    <3>5. segments'[u] = Append(segments[u], cutFrom(u))
      BY <1>2, <2>2
    <3> HIDE DEF cutFrom
    <3> QED
      BY <2>1, <3>2, <3>3, <3>4, <3>5, OneMore
  <2>3. CASE u \notin users
    BY <1>2, <2>1, <2>3
  <2> QED
    BY <2>2, <2>3
<1> QED
  BY <1>4, <1>5, <1>6, <1>7 DEF TimesAreExact, NoPauseInside, SegmentsAreApart

-------------------------------------------------------------------------------
(* One lemma per operation *)

\* Time passes: gaps only grow, and the flusher is not late by more than Lag.
LEMMA TickKeeps == SInv /\ tick => SInv'
<1> SUFFICES ASSUME SInv, tick PROVE SInv'
  OBVIOUS
<1> USE DEF clientVars
<1>1. UNCHANGED <<buf, start, last, polled, leave, receiving, heard, handed, segments>> /\ now' = now + 1
  BY DEF tick
<1>2. SegmenterTypeOK'
  BY <1>1 DEF SInv, SegmenterTypeOK
<1>3. FramesConserved' /\ TimesAreExact' /\ SegmentsAreApart' /\ NoPauseInside' /\ ClosedBeforeDrained'
  BY <1>1 DEF SInv, FramesConserved, TimesAreExact, SegmentsAreApart, NoPauseInside, ClosedBeforeDrained
<1>4. BufferTimes'
  BY <1>1 DEF SInv, SegmenterTypeOK, BufferTimes
<1>5. GapKept'
  <2> SUFFICES ASSUME leave' # "drained", NEW u \in Users, segments'[u] # <<>>
               PROVE  /\ now' - segments'[u][Len(segments'[u])].t1 >= Silence
                      /\ buf'[u] # <<>> => start'[u] - segments'[u][Len(segments'[u])].t1 >= Silence
    BY DEF GapKept
  <2>1. segments[u] # <<>> /\ leave # "drained"
    BY <1>1
  <2>2. segments[u][Len(segments[u])] \in Segment
    BY <2>1, EmptySeq, ElementOfSeq DEF SInv, SegmenterTypeOK
  <2>3. PICK t \in Nat : t = segments[u][Len(segments[u])].t1
    BY <2>2 DEF Segment
  <2>4. now - t >= Silence /\ (buf[u] # <<>> => start[u] - t >= Silence)
    BY <2>1, <2>3 DEF SInv, GapKept
  <2>5. now + 1 - t >= Silence
    BY <2>4, TimesAssumption DEF SInv, SegmenterTypeOK
  <2>6. segments'[u][Len(segments'[u])].t1 = t
    BY <1>1, <2>3
  <2>7. now' = now + 1 /\ buf'[u] = buf[u] /\ start'[u] = start[u]
    BY <1>1
  <2>8. now' - segments'[u][Len(segments'[u])].t1 >= Silence
    BY <2>5, <2>6, <2>7 DEF SInv, SegmenterTypeOK
  <2>9. buf'[u] # <<>> => start'[u] - segments'[u][Len(segments'[u])].t1 >= Silence
    BY <2>4, <2>6, <2>7
  <2> QED
    BY <2>8, <2>9
<1>6. FlusherInTime'
  BY <1>1, TimesAssumption DEF SInv, SegmenterTypeOK, FlusherInTime, tick
<1> QED
  BY <1>2, <1>3, <1>4, <1>5, <1>6 DEF SInv

\* A frame is written: it lies apart from the segment before it, or near the frame before it.
LEMMA WriteKeeps == ASSUME SInv, NEW u \in Users, write(u) PROVE SInv'
<1> USE DEF clientVars
<1>1. /\ receiving
      /\ buf' = [buf EXCEPT ![u] = Append(@, now)]
      /\ start' = [start EXCEPT ![u] = IF buf[u] = <<>> THEN now ELSE @]
      /\ last' = [last EXCEPT ![u] = now]
      /\ heard' = [heard EXCEPT ![u] = Append(@, now)]
      /\ UNCHANGED <<now, polled, leave, receiving, handed, segments>>
  BY DEF write
<1>2. now \in Nat /\ polled \in Nat /\ \A w \in Users : /\ buf[w] \in Seq(Nat) /\ handed[w] \in Seq(Nat) /\ heard[w] \in Seq(Nat)
                                       /\ start[w] \in Nat /\ last[w] \in Nat
  BY DEF SInv, SegmenterTypeOK
<1>3. /\ Append(buf[u], now) \in Seq(Nat) /\ Append(buf[u], now) # <<>> /\ Append(heard[u], now) \in Seq(Nat)
      /\ Len(Append(buf[u], now)) = Len(buf[u]) + 1
      /\ Append(buf[u], now)[Len(buf[u]) + 1] = now
      /\ \A i \in 1 .. Len(buf[u]) : Append(buf[u], now)[i] = buf[u][i]
  <2>1. buf[u] \in Seq(Nat) /\ heard[u] \in Seq(Nat) /\ now \in Nat
    BY <1>2
  <2>2. Append(heard[u], now) \in Seq(Nat)
    BY <2>1, Appended
  <2> QED
    BY <2>1, <2>2, Appended
<1>4. /\ buf'[u] = Append(buf[u], now) /\ last'[u] = now /\ heard'[u] = Append(heard[u], now)
      /\ start'[u] = IF buf[u] = <<>> THEN now ELSE start[u]
      /\ \A w \in Users : w # u => buf'[w] = buf[w] /\ last'[w] = last[w] /\ heard'[w] = heard[w] /\ start'[w] = start[w]
  BY <1>1 DEF SInv, SegmenterTypeOK
<1>5. SegmenterTypeOK'
  BY <1>1, <1>2, <1>3 DEF SInv, SegmenterTypeOK
<1>6. FramesConserved'
  <2>1. heard'[u] = handed[u] \o buf'[u]
    BY <1>2, <1>4, AppendAfterConcat DEF SInv, FramesConserved
  <2> QED
    BY <1>1, <1>4, <2>1 DEF SInv, FramesConserved
<1>7. TimesAreExact' /\ SegmentsAreApart' /\ NoPauseInside' /\ ClosedBeforeDrained'
  BY <1>1 DEF SInv, TimesAreExact, SegmentsAreApart, NoPauseInside, ClosedBeforeDrained
<1>8. buf'[u] # <<>> /\ start'[u] = buf'[u][1] /\ last'[u] = buf'[u][Len(buf'[u])]
  <2>1. CASE buf[u] = <<>>
    <3>1. Len(buf[u]) = 0
      BY <2>1, EmptySeq
    <3> QED
      BY <1>3, <1>4, <2>1, <3>1
  <2>2. CASE buf[u] # <<>>
    <3>1. Len(buf[u]) \in Nat \ {0} /\ start[u] = buf[u][1]
      BY <1>2, <2>2, Ends DEF SInv, BufferTimes
    <3> QED
      BY <1>3, <1>4, <2>2, <3>1
  <2> QED
    BY <2>1, <2>2
<1>9. BufferTimes'
  <2>1. now' = now /\ now <= now
    BY <1>1, <1>2
  <2>2. ASSUME NEW w \in Users, w # u
        PROVE  last'[w] <= now /\ (buf'[w] # <<>> => start'[w] = buf'[w][1] /\ last'[w] = buf'[w][Len(buf'[w])])
    <3>1. last[w] <= now /\ (buf[w] # <<>> => start[w] = buf[w][1] /\ last[w] = buf[w][Len(buf[w])])
      BY DEF SInv, BufferTimes
    <3>2. last'[w] = last[w] /\ buf'[w] = buf[w] /\ start'[w] = start[w]
      BY <1>4, <2>2
    <3> QED
      BY <3>1, <3>2
  <2> QED
    BY <1>4, <1>8, <2>1, <2>2 DEF BufferTimes
<1>10. GapKept'
  BY <1>1, <1>4 DEF SInv, GapKept
<1>11. FlusherInTime'
  <2> SUFFICES ASSUME leave = "live"
               PROVE  polled - now < Silence /\ PausesAreShort(buf'[u])
    BY <1>1, <1>4 DEF SInv, FlusherInTime
  <2>1. polled <= now /\ now <= polled + Poll + Lag
        /\ (buf[u] # <<>> => polled - last[u] < Silence /\ PausesAreShort(buf[u]))
    BY DEF SInv, FlusherInTime
  <2>2. polled - now < Silence
    BY <1>2, <2>1, TimesAssumption
  <2>3. ASSUME NEW i \in 1 .. Len(buf[u]) PROVE buf'[u][i + 1] - buf'[u][i] < LongestPause
    <3>1. buf[u] # <<>> /\ Len(buf[u]) \in Nat
      BY <1>2, EmptySeq, LenProperties
    <3>2. CASE i = Len(buf[u])
      <4>1. buf'[u][i + 1] = now /\ buf'[u][i] = last[u]
        BY <1>3, <1>4, <3>1, <3>2 DEF SInv, BufferTimes
      <4>2. now - last[u] < LongestPause
        BY <1>2, <2>1, <3>1, TimesAssumption DEF LongestPause
      <4> QED
        BY <4>1, <4>2
    <3>3. CASE i \in 1 .. Len(buf[u]) - 1
      <4>1. buf'[u][i + 1] = buf[u][i + 1] /\ buf'[u][i] = buf[u][i]
        BY <1>3, <1>4, <3>1, <3>3
      <4> QED
        BY <2>1, <3>1, <3>3, <4>1 DEF PausesAreShort
    <3> QED
      BY <3>1, <3>2, <3>3
  <2>4. 1 .. Len(buf'[u]) - 1 = 1 .. Len(buf[u])
    BY <1>2, <1>3, <1>4, LenProperties
  <2> QED
    BY <2>2, <2>3, <2>4 DEF PausesAreShort
<1> QED
  BY <1>5, <1>6, <1>7, <1>9, <1>10, <1>11 DEF SInv

\* The flusher cuts the silent buffers: what stays was not silent when it looked.
LEMMA FlushKeeps == SInv /\ drain_ready => SInv'
<1> SUFFICES ASSUME SInv, drain_ready PROVE SInv'
  OBVIOUS
<1> USE DEF clientVars
<1>1. /\ leave = "live" /\ pop(Silent, "flusher") /\ polled' = now
      /\ UNCHANGED <<now, leave, receiving, heard, start, last>>
  BY DEF drain_ready, pop
<1>2. Silent \in SUBSET Nonempty /\ \A u \in Silent : PausesAreShort(buf[u])
  BY <1>1 DEF Silent, Nonempty, SInv, FlusherInTime
<1>3. /\ buf' \in [Users -> Seq(Nat)] /\ handed' \in [Users -> Seq(Nat)] /\ segments' \in [Users -> Seq(Segment)]
      /\ FramesConserved' /\ TimesAreExact' /\ SegmentsAreApart' /\ NoPauseInside'
  BY <1>1, <1>2, PopKeeps
<1>4. SegmenterTypeOK'
  BY <1>1, <1>3 DEF SInv, SegmenterTypeOK
<1>5. \A u \in Users : /\ u \in Silent => /\ buf'[u] = <<>>
                                          /\ segments'[u] = Append(segments[u], [frames |-> buf[u], t0 |-> start[u],
                                                                                 t1 |-> last[u], cut |-> "flusher"])
                       /\ u \notin Silent => buf'[u] = buf[u] /\ segments'[u] = segments[u]
  BY <1>1 DEF pop
<1>6. BufferTimes'
  BY <1>1, <1>5 DEF SInv, BufferTimes
<1>7. GapKept'
  <2> SUFFICES ASSUME NEW u \in Users, segments'[u] # <<>>
               PROVE  /\ now - segments'[u][Len(segments'[u])].t1 >= Silence
                      /\ buf'[u] # <<>> => start[u] - segments'[u][Len(segments'[u])].t1 >= Silence
    BY <1>1 DEF GapKept
  <2>1. CASE u \in Silent
    <3> DEFINE g == [frames |-> buf[u], t0 |-> start[u], t1 |-> last[u], cut |-> "flusher"]
    <3>1. g \in Segment /\ segments[u] \in Seq(Segment)
      BY DEF SInv, SegmenterTypeOK, Segment
    <3>2. segments'[u] = Append(segments[u], g)
      BY <1>5, <2>1
    <3>3. g.t1 = last[u]
      OBVIOUS
    <3> HIDE DEF g
    <3>4. segments'[u][Len(segments'[u])] = g
      BY <3>1, <3>2, Appended
    <3>5. now - last[u] >= Silence /\ buf'[u] = <<>>
      BY <1>5, <2>1 DEF Silent
    <3> QED
      BY <3>3, <3>4, <3>5
  <2>2. CASE u \notin Silent
    BY <1>1, <1>5, <2>2 DEF SInv, GapKept
  <2> QED
    BY <2>1, <2>2
<1>8. FlusherInTime'
  <2>1. \A u \in Users : buf'[u] # <<>> => buf'[u] = buf[u] /\ ~(now - last[u] >= Silence)
    BY <1>5 DEF Silent, Nonempty
  <2> QED
    BY <1>1, <2>1, TimesAssumption DEF SInv, SegmenterTypeOK, FlusherInTime
<1>9. ClosedBeforeDrained'
  BY <1>1 DEF ClosedBeforeDrained
<1> QED
  BY <1>3, <1>4, <1>6, <1>7, <1>8, <1>9 DEF SInv

\* /leave is called, and stops the client or raises.
LEMMA LeaveKeeps == SInv /\ (leave_called \/ leave_stop) => SInv'
<1> SUFFICES ASSUME SInv, leave_called \/ leave_stop PROVE SInv'
  OBVIOUS
<1>1. /\ UNCHANGED <<now, buf, start, last, polled, heard, handed, segments>>
      /\ leave # "drained" /\ leave' \in {"called", "stopped", "raised"} /\ receiving' \in BOOLEAN
      /\ (leave' = "stopped" => receiving' = FALSE)
  BY DEF SInv, SegmenterTypeOK, leave_called, leave_stop
<1>2. SegmenterTypeOK'
  BY <1>1 DEF SInv, SegmenterTypeOK
<1>3. FramesConserved' /\ TimesAreExact' /\ SegmentsAreApart' /\ NoPauseInside' /\ BufferTimes'
  BY <1>1 DEF SInv, FramesConserved, TimesAreExact, SegmentsAreApart, NoPauseInside, BufferTimes
<1>4. GapKept' /\ FlusherInTime' /\ ClosedBeforeDrained'
  BY <1>1 DEF SInv, GapKept, FlusherInTime, ClosedBeforeDrained
<1> QED
  BY <1>2, <1>3, <1>4 DEF SInv

\* The rest is drained, from buffers nobody writes to any more.
LEMMA DrainKeeps == SInv /\ drain_all => SInv'
<1> SUFFICES ASSUME SInv, drain_all PROVE SInv'
  OBVIOUS
<1>1. /\ leave = "stopped" /\ UNCHANGED <<now, polled, receiving, heard, start, last>>
      /\ \/ leave' = "drained" /\ pop(Nonempty, "leave")
         \/ leave' = "raised" /\ UNCHANGED <<buf, handed, segments>>
  BY DEF drain_all, pop
<1>2. CASE leave' = "drained" /\ pop(Nonempty, "leave")
  <2>1. /\ buf' \in [Users -> Seq(Nat)] /\ handed' \in [Users -> Seq(Nat)] /\ segments' \in [Users -> Seq(Segment)]
        /\ FramesConserved' /\ TimesAreExact' /\ SegmentsAreApart' /\ NoPauseInside'
    BY <1>1, <1>2, PopKeeps
  <2>2. \A u \in Users : buf'[u] = <<>>
    BY <1>2 DEF pop, Nonempty
  <2>3. SegmenterTypeOK'
    BY <1>1, <1>2, <2>1 DEF SInv, SegmenterTypeOK
  <2>4. BufferTimes' /\ GapKept' /\ FlusherInTime' /\ ClosedBeforeDrained'
    BY <1>1, <1>2, <2>2 DEF SInv, BufferTimes, GapKept, FlusherInTime, ClosedBeforeDrained
  <2> QED
    BY <2>1, <2>3, <2>4 DEF SInv
<1>3. CASE leave' = "raised" /\ UNCHANGED <<buf, handed, segments>>
  <2>1. SegmenterTypeOK'
    BY <1>1, <1>3 DEF SInv, SegmenterTypeOK
  <2>2. FramesConserved' /\ TimesAreExact' /\ SegmentsAreApart' /\ NoPauseInside' /\ BufferTimes'
    BY <1>1, <1>3 DEF SInv, FramesConserved, TimesAreExact, SegmentsAreApart, NoPauseInside, BufferTimes
  <2>3. GapKept' /\ FlusherInTime' /\ ClosedBeforeDrained'
    BY <1>1, <1>3 DEF SInv, GapKept, FlusherInTime, ClosedBeforeDrained
  <2> QED
    BY <2>1, <2>2, <2>3 DEF SInv
<1> QED
  BY <1>1, <1>2, <1>3

-------------------------------------------------------------------------------
(* The theorems *)

\* Empty buffers satisfy the invariant.
LEMMA SegmenterInit == Init => SInv
<1> SUFFICES ASSUME Init PROVE SInv
  OBVIOUS
<1>1. <<>> \in Seq(Nat) /\ <<>> \in Seq(Segment) /\ Len(<<>>) = 0 /\ <<>> \o <<>> = <<>>
  BY EmptySeq, ConcatEmptySeq
<1>2. SegmenterTypeOK
  BY <1>1 DEF Init, SegmenterTypeOK
<1>3. FramesConserved
  BY <1>1, Zenon DEF Init, FramesConserved
<1>4. TimesAreExact /\ SegmentsAreApart /\ NoPauseInside
  BY <1>1 DEF Init, TimesAreExact, SegmentsAreApart, NoPauseInside
<1>5. BufferTimes /\ GapKept /\ FlusherInTime /\ ClosedBeforeDrained
  BY TimesAssumption DEF Init, BufferTimes, GapKept, FlusherInTime, ClosedBeforeDrained
<1> QED
  BY <1>2, <1>3, <1>4, <1>5 DEF SInv

\* Every write, pass of the flusher and step of /leave keeps it.
LEMMA SegmenterStep == SInv /\ [Next]_vars => SInv'
<1> SUFFICES ASSUME SInv, [Next]_vars PROVE SInv'
  OBVIOUS
<1>1. CASE Next
  BY <1>1, TickKeeps, WriteKeeps, FlushKeeps, LeaveKeeps, DrainKeeps DEF Next
<1>2. CASE UNCHANGED vars
  <2>1. UNCHANGED <<now, buf, start, last, polled, leave, receiving, heard, handed, segments>>
    BY <1>2 DEF vars, clientVars
  <2>2. SegmenterTypeOK'
    BY <2>1 DEF SInv, SegmenterTypeOK
  <2>3. FramesConserved' /\ TimesAreExact' /\ SegmentsAreApart' /\ NoPauseInside' /\ BufferTimes'
    BY <2>1 DEF SInv, FramesConserved, TimesAreExact, SegmentsAreApart, NoPauseInside, BufferTimes
  <2>4. GapKept' /\ FlusherInTime' /\ ClosedBeforeDrained'
    BY <2>1 DEF SInv, GapKept, FlusherInTime, ClosedBeforeDrained
  <2> QED
    BY <2>2, <2>3, <2>4 DEF SInv
<1> QED
  BY <1>1, <1>2

\* The inductive invariant of the segmenter holds of every run of it.
THEOREM SegmenterInvariant == Spec => []SInv
  BY SegmenterInit, SegmenterStep, PTL DEF Spec

\* No frame is lost, doubled or moved.
THEOREM NoFrameIsLost == Spec => []FramesConserved
<1>1. SInv => FramesConserved
  BY DEF SInv
<1> QED
  BY <1>1, SegmenterInvariant, PTL

\* After /leave has drained the buffers everything heard has been given to store.
THEOREM DrainIsComplete == Spec => []DrainedIsEverything
<1>1. SInv => DrainedIsEverything
  <2> SUFFICES ASSUME SInv, leave = "drained", NEW u \in Users PROVE handed[u] = heard[u]
    BY DEF DrainedIsEverything
  <2>1. buf[u] = <<>> /\ heard[u] = handed[u] \o buf[u] /\ handed[u] \in Seq(Nat)
    BY DEF SInv, ClosedBeforeDrained, FramesConserved, SegmenterTypeOK
  <2> QED
    BY <2>1, ConcatEmptySeq
<1> QED
  BY <1>1, SegmenterInvariant, PTL

\* Segments carry the times of their own first and last frame.
THEOREM SegmentTimesAreRight == Spec => []TimesAreExact
<1>1. SInv => TimesAreExact
  BY DEF SInv
<1> QED
  BY <1>1, SegmenterInvariant, PTL

\* No utterance is cut in two.
THEOREM UtterancesAreWhole == Spec => []SegmentsAreApart
<1>1. SInv => SegmentsAreApart
  BY DEF SInv
<1> QED
  BY <1>1, SegmenterInvariant, PTL

\* Two utterances that the flusher had time to tell apart are not joined.
THEOREM UtterancesAreNotJoined == Spec => []NoPauseInside
<1>1. SInv => NoPauseInside
  BY DEF SInv
<1> QED
  BY <1>1, SegmenterInvariant, PTL

-------------------------------------------------------------------------------
(* The handover of audio *)

HandoverStep == [Handover!AudioNext]_(Handover!audioVars)

\* The views, pointwise.
LEMMA BegunIs ==
    ASSUME NEW r
    PROVE  r \in Begun <=> \E u \in Users : \E i \in 1 .. BegunOf(u) : r = <<u, i>>
  BY DEF Begun

\* The same after a step.
LEMMA BegunIsNext ==
    ASSUME NEW r
    PROVE  r \in Begun' <=> \E u \in Users : \E i \in 1 .. BegunOf(u)' : r = <<u, i>>
  BY DEF Begun

\* Where no count moves, no run begins.
LEMMA BegunKept == ASSUME \A u \in Users : BegunOf(u)' = BegunOf(u) PROVE Begun' = Begun
  BY DEF Begun

\* Where no buffer begins or ends, and /leave goes on as the handover sees it, nothing is seen.
LEMMA HandoverKept ==
    ASSUME Recording' = Recording, leave' = "raised" <=> leave = "raised",
           \A u \in Users : segments'[u] = segments[u] /\ (buf'[u] = <<>> <=> buf[u] = <<>>)
    PROVE  HandoverStep
<1>1. Begun' = Begun
  BY BegunKept DEF BegunOf
<1>2. Buffered' = Buffered
  BY DEF Buffered, Nonempty
<1> QED
  BY <1>1, <1>2 DEF HandoverStep, Handover!audioVars

\* A frame begins a run or goes on with one.
LEMMA HandoverWrite == ASSUME SInv, NEW u \in Users, write(u) PROVE HandoverStep
<1>1. /\ receiving /\ UNCHANGED <<leave, segments>>
      /\ buf' = [buf EXCEPT ![u] = Append(@, now)]
  BY DEF write, clientVars
<1>2. buf'[u] # <<>> /\ \A w \in Users : w # u => buf'[w] = buf[w]
  <2>1. buf[u] \in Seq(Nat) /\ now \in Nat
    BY DEF SInv, SegmenterTypeOK
  <2>2. Append(buf[u], now) # <<>>
    BY <2>1, Appended
  <2> QED
    BY <1>1, <2>2 DEF SInv, SegmenterTypeOK
<1>3. UNCHANGED Recording
  BY <1>1 DEF Recording
<1>4. CASE buf[u] # <<>>
  BY <1>1, <1>2, <1>3, <1>4, HandoverKept
<1>5. CASE buf[u] = <<>>
  <2> DEFINE n == Len(segments[u]) + 1
  <2>1. n \in Nat /\ n # 0
    BY LenProperties DEF SInv, SegmenterTypeOK
  <2>2. BegunOf(u) = n - 1 /\ BegunOf(u)' = n /\ \A w \in Users : w # u => BegunOf(w)' = BegunOf(w)
    BY <1>1, <1>2, <1>5, <2>1 DEF BegunOf
  <2>3. Nonempty' = Nonempty \cup {u}
    BY <1>2 DEF Nonempty
  <2>4. leave # "raised" => Buffered' = Buffered \cup {<<u, n>>}
    BY <1>1, <2>3 DEF Buffered
  <2>5. leave = "raised" => Buffered' = Buffered
    BY <1>1 DEF Buffered
  <2> HIDE DEF n
  <2>6. <<u, n>> \notin Begun
    BY <2>1, <2>2, BegunIs
  <2>7. Begun' = Begun \cup {<<u, n>>}
    <3>1. ASSUME NEW r PROVE r \in Begun' <=> r \in Begun \cup {<<u, n>>}
      BY <2>1, <2>2, BegunIs, BegunIsNext
    <3> QED
      BY <3>1
  <2>8. leave \in {"live", "called", "raised"}
    BY <1>1 DEF SInv, SegmenterTypeOK, ClosedBeforeDrained
  <2>9. CASE leave = "raised"
    BY <1>3, <2>5, <2>7, <2>9 DEF HandoverStep, Handover!AudioNext, Handover!Waste, Recording
  <2>10. CASE leave # "raised"
    <3>1. Recording \in {"live", "leaving"}
      BY <2>8, <2>10 DEF Recording
    <3> QED
      BY <1>3, <2>4, <2>6, <2>7, <2>10, <3>1 DEF HandoverStep, Handover!AudioNext, Handover!Speak
  <2> QED
    BY <2>9, <2>10
<1> QED
  BY <1>4, <1>5

\* A cut counts the run that the buffer held, and empties the buffer.
LEMMA PopKeepsBegun ==
    ASSUME SInv, NEW users \in SUBSET Nonempty, NEW cut \in {"flusher", "leave"}, pop(users, cut)
    PROVE  /\ Begun' = Begun /\ Nonempty' = Nonempty \ users
           /\ \A u \in Nonempty \ users : Len(segments'[u]) = Len(segments[u])
<1> DEFINE g(u) == [frames |-> buf[u], t0 |-> start[u], t1 |-> last[u], cut |-> cut]
<1>1. \A u \in users : buf'[u] = <<>> /\ segments'[u] = Append(segments[u], g(u))
  BY DEF pop, Nonempty
<1>2. \A u \in Users \ users : buf'[u] = buf[u] /\ segments'[u] = segments[u]
  BY DEF pop
<1>3. \A u \in Users : g(u) \in Segment /\ segments[u] \in Seq(Segment)
  BY DEF SInv, SegmenterTypeOK, Segment
<1> HIDE DEF g
<1>4. \A u \in users : Len(segments'[u]) = Len(segments[u]) + 1 /\ Len(segments[u]) \in Nat
  BY <1>1, <1>3, Appended, LenProperties DEF Nonempty
<1>5. ASSUME NEW u \in Users PROVE BegunOf(u)' = BegunOf(u)
  <2>1. CASE u \in users
    <3>1. buf[u] # <<>> /\ buf'[u] = <<>>
      BY <1>1, <2>1 DEF Nonempty
    <3>2. Len(segments'[u]) + 0 = Len(segments[u]) + 1
      BY <1>4, <2>1
    <3> QED
      BY <3>1, <3>2 DEF BegunOf
  <2>2. CASE u \notin users
    BY <1>2, <2>2 DEF BegunOf
  <2> QED
    BY <2>1, <2>2
<1>6. Nonempty' = Nonempty \ users
  BY <1>1, <1>2 DEF Nonempty
<1> QED
  BY <1>2, <1>5, <1>6, BegunKept DEF Nonempty

\* The segmenter implements the handover, for any silence, sleep and lateness of the flusher.
THEOREM SegmenterHandsOver == Spec => ImplementsHandover
<1>1. Init => Handover!AudioInit
  <2> SUFFICES ASSUME Init PROVE Handover!AudioInit
    OBVIOUS
  <2>0. \A u \in Users : segments[u] = <<>> /\ buf[u] = <<>>
    BY DEF Init
  <2>1. \A u \in Users : BegunOf(u) = 0
    <3>1. Len(<<>>) = 0
      BY EmptySeq
    <3>2. 0 + 0 = 0
      OBVIOUS
    <3>3. \A u \in Users : BegunOf(u) = Len(<<>>) + 0
      BY <2>0, Zenon DEF BegunOf
    <3> QED
      BY <3>1, <3>2, <3>3, Zenon
  <2>2. Begun = {}
    BY <2>1 DEF Begun
  <2>3. Buffered = {} /\ Recording = "live"
    BY DEF Init, Buffered, Nonempty, Recording
  <2> QED
    BY <2>2, <2>3 DEF Handover!AudioInit
<1>2. SInv /\ [Next]_vars => [Handover!AudioNext]_(Handover!audioVars)
  <2> SUFFICES ASSUME SInv, [Next]_vars PROVE HandoverStep
    BY DEF HandoverStep
  <2>1. CASE UNCHANGED vars \/ tick
    <3>1. UNCHANGED <<leave, segments, buf>>
      BY <2>1 DEF vars, tick, clientVars
    <3> QED
      BY <3>1, HandoverKept DEF Recording
  <2>2. CASE drain_ready
    <3>1. leave = "live" /\ UNCHANGED leave /\ pop(Silent, "flusher") /\ Silent \in SUBSET Nonempty
      BY <2>2 DEF drain_ready, clientVars, Silent
    <3>2. Recording = "live" /\ Recording' = "live"
      BY <3>1 DEF Recording
    <3>3. /\ Begun' = Begun /\ Nonempty' = Nonempty \ Silent
          /\ \A u \in Nonempty \ Silent : Len(segments'[u]) = Len(segments[u])
      BY <3>1, PopKeepsBegun
    <3>4. Buffered' \subseteq Buffered
      BY <3>1, <3>3 DEF Buffered
    <3> QED
      BY <3>2, <3>3, <3>4 DEF HandoverStep, Handover!AudioNext, Handover!Flush
  <2>3. CASE leave_called
    <3>1. leave = "live" /\ leave' = "called" /\ UNCHANGED <<segments, buf>>
      BY <2>3 DEF leave_called
    <3>2. Recording = "live" /\ Recording' = "leaving" /\ Begun' = Begun /\ Buffered' = Buffered
      BY <3>1 DEF Recording, Begun, BegunOf, Buffered, Nonempty
    <3> QED
      BY <3>2 DEF HandoverStep, Handover!AudioNext, Handover!Leave
  <2>4. ASSUME UNCHANGED <<segments, buf>>, leave' = "raised" PROVE HandoverStep
    <3>1. Recording' = "over" /\ Begun' = Begun /\ Buffered' = {}
      BY <2>4 DEF Recording, Begun, BegunOf, Buffered
    <3> QED
      BY <3>1 DEF HandoverStep, Handover!AudioNext, Handover!Lose
  <2>5. CASE leave_stop
    <3>1. CASE leave' = "stopped"
      <4>1. Recording' = Recording /\ leave # "raised" /\ UNCHANGED <<segments, buf>>
        BY <2>5, <3>1 DEF leave_stop, Recording
      <4> QED
        BY <3>1, <4>1, HandoverKept
    <3> QED
      BY <2>4, <2>5, <3>1 DEF leave_stop
  <2>6. CASE drain_all
    <3>1. CASE leave' = "drained" /\ pop(Nonempty, "leave")
      <4>1. Begun' = Begun /\ Nonempty' = {}
        BY <3>1, PopKeepsBegun
      <4>2. Recording = "leaving" /\ Recording' = "drained" /\ Buffered' = {}
        BY <2>6, <3>1, <4>1 DEF drain_all, Recording, Buffered
      <4> QED
        BY <4>1, <4>2 DEF HandoverStep, Handover!AudioNext, Handover!Drain
    <3> QED
      BY <2>4, <2>6, <3>1 DEF drain_all
  <2> QED
    BY <2>1, <2>2, <2>3, <2>5, <2>6, HandoverWrite DEF Next
<1> QED
  BY <1>1, <1>2, SegmenterInvariant, PTL DEF Spec, ImplementsHandover, Handover!AudioSpec
===============================================================================
