------------------------------- MODULE Framing --------------------------------
(***************************************************************************)
(* How _handle_packet slices an rtpsize datagram, against the layout of    *)
(* the datagram. Bytes are known by their positions 0, 1, 2, ...           *)
(***************************************************************************)
EXTENDS Integers, TLAPS

CONSTANTS MaxWords,   (* of an RTP header extension                      *)
          MaxFrame,   (* bytes of a DAVE frame                           *)
          MaxLength   (* bytes of a datagram that need not be well formed *)

ASSUME FramingBounds == MaxWords \in Nat /\ MaxFrame \in Nat /\ MaxLength \in Nat

HEADER_LEN == 12
TAG_LEN == 16    (* of both AEAD modes *)
NONCE_LEN == 4

\* Long enough for a header and a nonce, before and after the CSRCs are skipped.
Accepted(n, cc) == n >= HEADER_LEN + 4 /\ n - (HEADER_LEN + 4 * cc) >= 4

rtpsize_StripsNothing(n, cc, extended, words) ==
    LET first == IF extended THEN HEADER_LEN + 4 * cc + 4 ELSE HEADER_LEN + 4 * cc
    IN [header |-> (0 .. HEADER_LEN - 1) \cup IF extended THEN first - 4 .. first - 1 ELSE {},
        ciphertext |-> first .. n - 5,
        nonce |-> n - 4 .. n - 1,
        dave_frame |-> first .. n - 5 - TAG_LEN]

\* The DAVE frame is what the transport plaintext has after the extension body; plaintext and
\* ciphertext have the same positions, without the tag.
rtpsize(n, cc, extended, words) ==
    LET payload == HEADER_LEN + 4 * cc
        first == IF extended THEN payload + 4 ELSE payload
        ext_body_len == IF extended THEN 4 * words ELSE 0
    IN [header |-> (0 .. HEADER_LEN - 1) \cup IF extended THEN payload .. payload + 3 ELSE {},
        ciphertext |-> first .. n - 5,
        nonce |-> n - 4 .. n - 1,
        dave_frame |-> first + ext_body_len .. n - 5 - TAG_LEN]

-------------------------------------------------------------------------------
\* A datagram as its sender puts it together: header, CSRCs, extension preamble, then encrypted
\* the extension body, a frame of len bytes and the tag, then the nonce. Each part starts where the
\* one before it ends.
Datagram(cc, extended, words, len) ==
    LET preamble == HEADER_LEN + 4 * cc
        body == IF extended THEN preamble + 4 ELSE preamble
        frame == IF extended THEN body + 4 * words ELSE body
        tag == frame + len
        nonce == tag + TAG_LEN
    IN [length |-> nonce + NONCE_LEN,
        parts |-> [header |-> (0 .. HEADER_LEN - 1) \cup (preamble .. body - 1),
                   ciphertext |-> body .. nonce - 1,
                   nonce |-> nonce .. nonce + NONCE_LEN - 1,
                   dave_frame |-> frame .. tag - 1]]

\* _handle_packet takes every well formed datagram apart into what its sender put in: the bytes
\* that are authenticated, the ones that are encrypted, the nonce, and the DAVE frame without the
\* RTP extension, which is not part of what the sender encrypted end to end.
SlicesAreParts ==
    \A cc \in 0 .. 15, extended \in BOOLEAN, words \in 0 .. MaxWords, len \in 0 .. MaxFrame :
        LET d == Datagram(cc, extended, words, len)
        IN Accepted(d.length, cc) /\ rtpsize(d.length, cc, extended, words) = d.parts

\* Whatever a datagram says of itself, no slice of one that is not dropped reaches over its end,
\* where Python would silently shorten it.
SlicesStayInside ==
    \A n \in 0 .. MaxLength, cc \in 0 .. 15, extended \in BOOLEAN, words \in 0 .. MaxWords :
        Accepted(n, cc) =>
            LET p == rtpsize(n, cc, extended, words)
            IN p.header \cup p.ciphertext \cup p.nonce \cup p.dave_frame \subseteq 0 .. n - 1

-------------------------------------------------------------------------------
\* SlicesAreParts, for extensions and frames of any length.
THEOREM SlicingIsRight == SlicesAreParts
<1> SUFFICES ASSUME NEW cc \in 0 .. 15, NEW extended \in BOOLEAN,
                    NEW words \in 0 .. MaxWords, NEW len \in 0 .. MaxFrame
             PROVE  LET d == Datagram(cc, extended, words, len)
                    IN Accepted(d.length, cc) /\ rtpsize(d.length, cc, extended, words) = d.parts
  BY DEF SlicesAreParts
<1>1. words \in Nat /\ len \in Nat /\ cc \in Nat
  BY FramingBounds
<1>2. CASE extended
  BY <1>1, <1>2 DEF Datagram, rtpsize, Accepted, HEADER_LEN, TAG_LEN, NONCE_LEN
<1>3. CASE ~extended
  <2> DEFINE p == 12 + 4 * cc
             slices == [header |-> 0 .. 11, ciphertext |-> p .. p + len + 15,
                        nonce |-> p + len + 16 .. p + len + 19, dave_frame |-> p .. p + len - 1]
  <2>1. (0 .. 11) \cup (p .. p - 1) = 0 .. 11
    BY <1>1
  <2>2. Datagram(cc, extended, words, len)
          = [length |-> p + len + 16 + 4,
             parts |-> [header |-> (0 .. 12 - 1) \cup (p .. p - 1), ciphertext |-> p .. p + len + 16 - 1,
                        nonce |-> p + len + 16 .. p + len + 16 + 4 - 1, dave_frame |-> p .. p + len - 1]]
    BY <1>3 DEF Datagram, HEADER_LEN, TAG_LEN, NONCE_LEN
  <2>3. /\ p + len + 16 + 4 = p + len + 20 /\ p + len + 16 - 1 = p + len + 15
        /\ p + len + 16 + 4 - 1 = p + len + 19 /\ 12 - 1 = 11
    BY <1>1
  <2>4. Datagram(cc, extended, words, len) = [length |-> p + len + 20, parts |-> slices]
    BY <2>1, <2>2, <2>3, Zenon
  <2>5. rtpsize(p + len + 20, cc, extended, words) = slices
    BY <1>1, <1>3 DEF rtpsize, HEADER_LEN, TAG_LEN
  <2>6. Accepted(p + len + 20, cc)
    BY <1>1 DEF Accepted, HEADER_LEN
  <2> QED
    BY <2>4, <2>5, <2>6
<1> QED
  BY <1>2, <1>3

\* SlicesStayInside, for datagrams of any length.
THEOREM SlicingIsSafe == SlicesStayInside
<1> SUFFICES ASSUME NEW n \in 0 .. MaxLength, NEW cc \in 0 .. 15,
                    NEW extended \in BOOLEAN, NEW words \in 0 .. MaxWords,
                    Accepted(n, cc)
             PROVE  LET p == rtpsize(n, cc, extended, words)
                    IN p.header \cup p.ciphertext \cup p.nonce \cup p.dave_frame \subseteq 0 .. n - 1
  BY DEF SlicesStayInside
<1>1. words \in Nat /\ n \in Nat /\ cc \in Nat
  BY FramingBounds
<1>2. CASE extended
  BY <1>1, <1>2 DEF rtpsize, Accepted, HEADER_LEN, TAG_LEN
<1>3. CASE ~extended
  BY <1>1, <1>3 DEF rtpsize, Accepted, HEADER_LEN, TAG_LEN
<1> QED
  BY <1>2, <1>3
===============================================================================
