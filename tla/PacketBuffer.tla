---------------------------- MODULE PacketBuffer ----------------------------
(***************************************************************************)
(* How libosdp finds packets in the bytes of its channel, in a PD on an    *)
(* RS-485 line it shares with others: it hears the panel's commands to     *)
(* them and their answers, in pieces of any size.  The bytes pass through  *)
(* a ring buffer into the packet buffer.                                   *)
(*                                                                         *)
(* Bytes are numbers, as one that belongs to one packet may be read as     *)
(* the header of another.  Instead of computing the CRC, a packet has the  *)
(* right one if it is one of Frames.  What a packet that is accepted means *)
(* is in module OsdpLink.                                                  *)
(***************************************************************************)
EXTENDS Integers, Sequences, SequencesExt, FiniteSetsExt

CONSTANTS
    Me,            \* address of this PD
    Commands,      \* what the panel may send to it, with or without a mark byte
    Neighbours,    \* traffic of other PDs, in which a start byte never starts a header
    Disturbances,  \* traffic in which one does
    Frames,        \* the packets in all of these, without the mark
    BufSize,       \* OSDP_PACKET_BUF_SIZE (256)
    RbSize,        \* OSDP_RX_RB_SIZE (512)
    Pieces,        \* bound: numbers of bytes received at a time, other than all
    MaxTalks,      \* bound: commands, and exchanges of others
    MaxNoise       \* bound: disturbances, and bytes lost or made up on the line

VARIABLES
    wire,    \* bytes that were sent and not received
    rx,      \* rx_rb
    buf,     \* packet_buf, up to packet_buf_len; PD_FLAG_PKT_HAS_MARK is its first byte
    len,     \* packet_len
    late,    \* OSDP_RESP_TOUT_MS have passed since tstamp
    calm,    \* history: since the receiver last had nothing, the line was undisturbed, what
             \* it collected did not get old and did not pass the end of a packet
    due,     \* history: a command was sent on a calm line and has not been accepted
    talks, noise    \* uses of the bounds

vars == <<wire, rx, buf, len, late, calm, due, talks, noise>>

Mark == 255
Som == 83
Header == 5       \* som, address, length (2), control
Broadcast == 127

Init ==
    /\ wire = <<>> /\ rx = <<>> /\ buf = <<>> /\ len = 0
    /\ late = FALSE /\ calm = TRUE /\ due = FALSE
    /\ talks = 0 /\ noise = 0

-----------------------------------------------------------------------------
(* The ring buffer, of which one place stays free                          *)

PushBuf(r, bytes) == SubSeq(r \o bytes, 1, Min({Len(r \o bytes), RbSize - 1}))

\* At most n bytes from the ring buffer to the end of the packet buffer.
PopBuf(p, n) ==
    IF n >= Len(p.rx) THEN [buf |-> p.buf \o p.rx, rx |-> <<>>]
    ELSE IF n > 0 THEN [buf |-> p.buf \o SubSeq(p.rx, 1, n), rx |-> SubSeq(p.rx, n + 1, Len(p.rx))]
    ELSE [buf |-> p.buf, rx |-> p.rx]

-----------------------------------------------------------------------------
(* osdp_phy_check_packet                                                   *)

IsSom(b) == b = Som
HasMark(b) == IF b # <<>> /\ b[1] = Mark THEN 1 ELSE 0
FromSom(s, i) == IF i > 1 /\ s[i - 1] = Mark THEN SubSeq(s, i - 1, Len(s)) ELSE SubSeq(s, i, Len(s))

\* Defect: what was collected under a header that is none is thrown away.
Rescan_DropsAll(b) == <<>>

\* phy_rescan_packet_buf: the next start byte of what was taken for a header.
Rescan(b) ==
    LET i == SelectInSubSeq(b, HasMark(b) + 2, Len(b), IsSom)
    IN  IF i = 0 THEN <<>> ELSE FromSom(b, i)

\* Only a command can have this header.
Invalid(b) ==
    LET h == SubSeq(b, 1 + HasMark(b), Len(b))
        size == h[3] + 256 * h[4]
    IN  size > BufSize \/ size < Header + 1 \/ h[2] >= 128

PacketLen(b) == HasMark(b) + b[HasMark(b) + 3] + 256 * b[HasMark(b) + 4]

Some(result, p, size) == [result |-> result, buf |-> p.buf, rx |-> p.rx, len |-> size]

\* The packet buffer with a start byte, if there is any; bytes before it are skipped.
Scan(p) ==
    LET i == SelectInSeq(p.rx, IsSom)
        som == IF i > 1 /\ p.rx[i - 1] = Mark THEN <<Mark, Som>> ELSE <<Som>>
    IN  IF p.buf # <<>> THEN p
        ELSE IF i = 0 THEN [buf |-> <<>>, rx |-> <<>>]
        ELSE [buf |-> som, rx |-> SubSeq(p.rx, i + 1, Len(p.rx))]

\* phy_check_header, after four more bytes.
CheckHeader(p) ==
    CASE p.buf = <<>> -> Some("no_data", p, 0)
      [] p.buf # <<>> /\ Len(p.buf) < Header -> Some("wait", p, 0)
      [] Len(p.buf) >= Header /\ Invalid(p.buf) -> Some("wait", [p EXCEPT !.buf = Rescan(@)], 0)
      [] OTHER -> Some("none", p, PacketLen(p.buf))

\* phy_check_packet.
Verdict(b) ==
    LET packet == SubSeq(b, 1 + HasMark(b), Len(b))
    IN  CASE packet \notin Frames -> "format"
          [] packet \in Frames /\ packet[2] \notin {Me, Broadcast} -> "skip"
          [] OTHER -> "none"

\* The rest of the packet, which is complete only at its exact length.
Collect(h) == {Some(IF Len(p.buf) = h.len THEN Verdict(p.buf) ELSE "wait", p, h.len) :
               p \in {PopBuf(h, h.len - Len(h.buf))}}

\* The header, as long as the length is not known.
Headed(p) ==
    IF p.len # 0 THEN {Some("none", p, p.len)}
    ELSE {CheckHeader(s) : s \in {IF q.buf = <<>> THEN q ELSE PopBuf(q, Header - 1) : q \in {Scan(p)}}}

\* The outcome, as a set of one.
CheckPacket(p) == UNION {IF h.result = "none" THEN Collect(h) ELSE {h} : h \in Headed(p)}

-----------------------------------------------------------------------------
(* The device                                                              *)

\* What osdp_phy_check_packet makes of the next k bytes.
Received(k) ==
    UNION {CheckPacket([buf |-> buf, rx |-> r, len |-> len]) : r \in {PushBuf(rx, SubSeq(wire, 1, k))}}

Overflow(k) == Len(rx) + k > RbSize - 1

\* tstamp is set by the first bytes that find the packet buffer empty.
LateAt(k) == late /\ ~(buf = <<>> /\ k > 0 /\ ~Overflow(k))

\* What Rescan left was itself a header, and more: the next four bytes went past the end of
\* the packet, which is then never complete.
TooMuch(p) == p.len # 0 /\ Len(p.buf) > p.len

\* Defect: a packet that stays incomplete is waited for.
Error_NoTimeout(result, k) == result = "format"

\* Where pd_error_reset is called, which also ends the secure channel.
Error(result, k) == result = "format" \/ (result = "wait" /\ LateAt(k))

\* osdp_pd_update with k bytes in the UART: an error resets the packet buffer, as does a
\* packet of another and, after the answer, one of its own.
Update(k) == \E p \in Received(k) :
    LET reset == Error(p.result, k) \/ p.result \in {"skip", "none"}
    IN  /\ wire' = SubSeq(wire, k + 1, Len(wire))
        /\ rx' = p.rx
        /\ buf' = IF reset THEN <<>> ELSE p.buf
        /\ len' = IF reset THEN 0 ELSE p.len
        /\ late' = LateAt(k)
        /\ calm' = (calm /\ ~Overflow(k) /\ ~TooMuch(p))
        /\ due' = (due /\ calm' /\ p.result # "none")
        /\ UNCHANGED <<talks, noise>>

-----------------------------------------------------------------------------
(* The line                                                                *)

Quiet == wire = <<>> /\ rx = <<>> /\ buf = <<>>

\* The panel sends nothing more before its command is answered or has timed out.
Talk(bytes) ==
    /\ talks < MaxTalks /\ talks' = talks + 1
    /\ ~due
    /\ wire' = wire \o bytes
    /\ calm' = (calm \/ Quiet)
    /\ due' = (calm' /\ bytes \in Commands)
    /\ UNCHANGED <<rx, buf, len, late, noise>>

\* The next byte on the line is lost, or one is made up before it.
Disturb ==
    /\ noise < MaxNoise /\ noise' = noise + 1
    /\ calm' = FALSE /\ due' = FALSE
    /\ \/ wire # <<>> /\ wire' = Tail(wire)
       \/ wire' = <<Som>> \o wire
       \/ \E d \in Disturbances : wire' = wire \o d
    /\ UNCHANGED <<rx, buf, len, late, talks>>

\* 200 ms are many calls of osdp_pd_refresh: all that was sent has been received, and the
\* next call would find nothing to do.
Elapse ==
    /\ ~due
    /\ ~late /\ late' = TRUE
    /\ wire = <<>> /\ \A p \in Received(0) : p.rx = rx /\ p.buf = buf
    /\ calm' = (calm /\ buf = <<>>)
    /\ UNCHANGED <<wire, rx, buf, len, due, talks, noise>>

-----------------------------------------------------------------------------

Waiting == Update(0)
Receiving == \E k \in {n \in Pieces : n < Len(wire)} \cup {Len(wire)} : Update(k)

Next ==
    \/ wire # <<>> /\ Waiting
    \/ Receiving
    \/ \E bytes \in Commands \cup Neighbours : Talk(bytes)
    \/ Disturb
    \/ Elapse

Spec == Init /\ [][Next]_vars

\* The reader's OSDP task calls osdp_pd_refresh again and again, and the UART has received
\* some of what was sent, if anything was.
FairSpec == Spec /\ WF_vars(Receiving) /\ WF_vars(Elapse)

-----------------------------------------------------------------------------
(* Properties                                                              *)

\* A command to this PD is accepted however it is cut and whatever others have said before
\* it: "libosdp tolerates fragmented reads" (main/osdp_pd.c:67-68).  Not so if the line was
\* disturbed; if a start byte in the data of another has kept the receiver waiting for 200 ms,
\* as the command can come at that very moment; or if it has read past the end of a packet.
Heard == []<>~due

\* Whatever was on the line, once nothing more comes the receiver gets rid of what it
\* collected: the next packet is looked for from its first byte.
Recovers == []<>(wire # <<>> \/ (rx = <<>> /\ buf = <<>> /\ len = 0))
=============================================================================
