------------------------------ MODULE OsdpLink ------------------------------
(***************************************************************************)
(* One control panel (CP) and one reader (PD) of libosdp on a half-duplex  *)
(* serial line that loses and garbles packets: osdp_phy.c, osdp_sc.c and   *)
(* the state machines of osdp_cp.c and osdp_pd.c.                          *)
(*                                                                         *)
(* A refresh of either side is one step, as neither is entered twice at a  *)
(* time.  CP and PD keep the code's flags, keys and sequence numbers in a  *)
(* record each.  Keys and random numbers are values; a cryptogram or a MAC *)
(* is the tuple of the values it is computed from, and verifies when they  *)
(* are equal.  osdp_compute_mac chains each MAC to the one before: rmac    *)
(* is the place that the replies of a session have come to in the chain,   *)
(* and NextMac the place after one.  Time is the order of steps: a reply   *)
(* timeout happens when no reply is due, or, MaxLate times, although one   *)
(* still is.                                                               *)
(***************************************************************************)
EXTENDS Integers, Sequences, SequencesExt

CONSTANTS
    CpKey,       \* the SCBK the CP is set up with, or NoKey: no secure channel
    PdKey,       \* the SCBK the PD is set up with, or NoKey: install mode
    NewKeys,     \* keys the CP application rolls to, by OSDP_CMD_KEYSET
    NoKey,
    SCBKD,       \* the default key every device knows
    Nonces,      \* random numbers; 0 is none yet
    NextMac(_),  \* the place in the chain of MACs after one; the first is 0
    Enforce,     \* OSDP_FLAG_ENFORCE_SECURE, on both sides
    HasFlush,    \* the CP's channel has the optional flush()
    Timely,      \* the CP reads each reply before the next arrives, and the line is idle
                 \* when it starts another try
    PoolSize,    \* events the PD can queue (OSDP_CP_CMD_POOL_SIZE: 4)
    MaxRetries,  \* OSDP_CMD_MAX_RETRIES (8)
    MaxEvents,   \* bound: card reads submitted at the PD
    Refused,     \* commands that the PD may refuse, of PlainCmds
    Scripts,     \* bound: the sequences of commands the CP application may submit
    MaxKeysets,  \* bound: key changes submitted at the CP
    MaxFaults,   \* bound: packets lost or garbled
    MaxLate,     \* bound: reply timeouts while a reply is still due
    MaxReset,    \* bound: power cycles of the PD
    MaxStimuli   \* bound: the last four together

\* Application commands; OUT and BUZ are handled like LED, ISTAT, OSTAT and RSTAT like LSTAT.
PlainCmds == {"LED", "TEXT", "LSTAT", "COMSET", "MFG"}

ASSUME LinkAssumption ==
    /\ Refused \subseteq PlainCmds /\ \A s \in Scripts : s \in Seq(PlainCmds)
    /\ 0 \notin Nonces
    /\ SCBKD # NoKey /\ {SCBKD, NoKey} \cap NewKeys = {}
    /\ CpKey # SCBKD /\ PdKey # SCBKD
    /\ {Enforce, HasFlush, Timely} \subseteq BOOLEAN
    /\ Enforce => CpKey # NoKey /\ PdKey # NoKey
    /\ {PoolSize, MaxRetries, MaxEvents, MaxKeysets, MaxFaults, MaxLate, MaxReset, MaxStimuli}
         \subseteq Nat

VARIABLES
    cp,          \* struct osdp_pd of the CP
    cpq,         \* its cmd_queue
    pd,          \* struct osdp_pd of the PD
    pdq,         \* its event_queue; an event is its number
    toPd, toCp,  \* the packets that have been received by the other end's UART
    \* history
    events,      \* number of events submitted to the PD
    delivered,   \* what the CP application was given as an event: reads, in order, and
                 \* reports of a status
    cmds,        \* the plain commands submitted to the CP, by kind
    executed,    \* plain commands decoded by the PD: <<command, whether it was carried out>>
    told,        \* commands that the CP application was told have succeeded
    used         \* uses of the other bounds

cpSide == <<cp, cpq, delivered, told>>
pdSide == <<pd, pdq, executed>>
submitted == <<events, cmds>>
vars == <<cpSide, pdSide, submitted, toPd, toCp, used>>

NoData == [kind |-> "none", val |-> 0]
KeyData(k) == [kind |-> "key", val |-> k]
EventData(n) == [kind |-> "event", val |-> n]
CmdData(n) == [kind |-> "cmd", val |-> n]
StatusData(n) == [kind |-> "status", val |-> n]

\* addr is 0 as configured, or the number of the COMSET that set it; sec is the security
\* block: none, a handshake's, or one with a MAC; auth is the cryptogram or the MAC; dflt asks
\* the PD to use SCBK-D.
Packet(addr, id, seq, sec, auth, dflt, data) ==
    [addr |-> addr, id |-> id, seq |-> seq, sec |-> sec, auth |-> auth, dflt |-> dflt,
     data |-> data]
Garbled == Packet(0, "garbled", 0, "none", <<>>, FALSE, NoData)

Stimuli == {"keyset", "fault", "late", "reset"}

CpBoot == [st |-> "INIT", addr |-> 0, phy |-> "idle", seq |-> -1, cmd |-> "ID", data |-> NoData,
           evreq |-> FALSE, retry |-> 0, rb |-> 0,
           sc |-> FALSE, useD |-> FALSE, key |-> CpKey, cpr |-> 0, pdr |-> 0, rmac |-> 0]
PdBoot == [addr |-> 0, seq |-> -1, sc |-> FALSE, useD |-> FALSE, install |-> (PdKey = NoKey),
           key |-> PdKey, skey |-> NoKey, cpr |-> 0, pdr |-> 0, rmac |-> 0]

Init ==
    /\ cp = CpBoot /\ cpq = <<>> /\ pd = PdBoot /\ pdq = <<>>
    /\ toPd = <<>> /\ toCp = <<>>
    /\ events = 0 /\ cmds = <<>> /\ executed = <<>>
    /\ delivered = [reads |-> <<>>, reports |-> {}] /\ told = {}
    /\ used = [s \in Stimuli |-> 0]

Use(s, max) ==
    /\ used[s] < max
    /\ used["keyset"] + used["fault"] + used["late"] + used["reset"] < MaxStimuli
    /\ used' = [used EXCEPT ![s] = @ + 1]

\* A packet arrives, is lost, or arrives with a wrong CRC.
Transmit(line, pkt) ==
    \/ line' = Append(line, pkt) /\ UNCHANGED used
    \/ line' = line /\ Use("fault", MaxFaults)
    \/ line' = Append(line, Garbled) /\ Use("fault", MaxFaults)

\* A random number that nobody remembers.
Remembered ==
    LET auths == {p.auth : p \in Range(toPd) \cup Range(toCp)} \ {<<>>}
    IN  {cp.cpr, cp.pdr, pd.cpr, pd.pdr} \cup UNION {{a[2], a[3]} : a \in auths}
FreshNonce == CHOOSE n \in Nonces : n \notin Remembered

\* osdp_phy_get_seq_number with do_inc: -1, 0, 1, 2, 3, 1, 2, 3, ...
NextSeq(s) == IF s + 1 > 3 THEN 1 ELSE s + 1

-----------------------------------------------------------------------------
(* Applications                                                            *)

\* osdp_pd_submit_event; the reader ignores the error of a full pool.
PdSubmit ==
    /\ events < MaxEvents
    /\ events' = events + 1
    /\ pdq' = IF Len(pdq) < PoolSize THEN Append(pdq, events + 1) ELSE pdq
    /\ UNCHANGED <<cpSide, pd, executed, cmds, toPd, toCp, used>>

\* Defect: the new command is put before those that wait.
CpSubmit_Front(kind) ==
    /\ cp.st = "ONLINE"
    /\ cmds' = Append(cmds, kind)
    /\ \E s \in Scripts : IsPrefix(cmds', s)
    /\ cpq' = <<CmdData(Len(cmds'))>> \o cpq
    /\ UNCHANGED <<cp, delivered, told, pdSide, events, toPd, toCp, used>>

\* cp_submit_command, only for a PD that is online.
CpSubmit(kind) ==
    /\ cp.st = "ONLINE"
    /\ cmds' = Append(cmds, kind)
    /\ \E s \in Scripts : IsPrefix(cmds', s)
    /\ cpq' = Append(cpq, CmdData(Len(cmds')))
    /\ UNCHANGED <<cp, delivered, told, pdSide, events, toPd, toCp, used>>

CpSubmitKeyset(k) ==
    /\ cp.st = "ONLINE" /\ cp.sc
    /\ Use("keyset", MaxKeysets)
    /\ cpq' = Append(cpq, KeyData(k))
    /\ UNCHANGED <<cp, delivered, told, pdSide, submitted, toPd, toCp>>

-----------------------------------------------------------------------------
(* The CP                                                                  *)

Mac(crypt, rmac, seq) == crypt \o <<rmac, seq>>

\* osdp_compute_session_keys and the cryptogram made with them.
CpSessionKey(c) == IF c.useD THEN SCBKD ELSE c.key
CpCrypt(c) == <<CpSessionKey(c), c.cpr, c.pdr>>
CpMac(c) == Mac(CpCrypt(c), c.rmac, c.seq)

\* cp_build_command: the data of the command in hand, and its security block.
CmdPayload(c) == IF c.cmd \in PlainCmds \cup {"KEYSET"} THEN c.data ELSE NoData

CpPacket(c) ==
    LET Pkt(sec, auth, dflt) == Packet(c.addr, c.cmd, c.seq, sec, auth, dflt, CmdPayload(c))
    IN  IF c.sc THEN Pkt("mac", CpMac(c), FALSE)
        ELSE CASE c.cmd = "CHLNG"  -> Pkt("hs", <<NoKey, c.cpr, 0>>, c.useD)
               [] c.cmd = "SCRYPT" -> Pkt("hs", CpCrypt(c), c.useD)
               [] OTHER            -> Pkt("none", <<>>, FALSE)

\* cp_build_and_send_packet: the sequence number moves on with every transmission, a
\* repeated one included.  What the flush drops has not yet been read into rx_rb.
CpTransmit(c) ==
    LET n == [c EXCEPT !.phy = "reply", !.seq = NextSeq(@)] IN
    /\ Transmit(toPd, CpPacket(n))
    /\ cp' = n
    /\ toCp' = IF HasFlush THEN SubSeq(toCp, 1, c.rb) ELSE toCp

HandshakeCmd(st) ==
    CASE st = "INIT" -> "ID" [] st = "CAPDET" -> "CAP" [] st = "SC_CHLNG" -> "CHLNG"
      [] st = "SC_SCRYPT" -> "SCRYPT" [] st = "SET_SCBK" -> "KEYSET"

\* state_get_cmd below ONLINE, and the first transmission.
CpSetup ==
    /\ cp.phy = "idle" /\ cp.st \notin {"ONLINE", "OFFLINE"}
    /\ CpTransmit([cp EXCEPT !.cmd = HandshakeCmd(cp.st)])
    /\ UNCHANGED <<cpq, delivered, told, pdSide, submitted>>

\* cp_get_online_command: a queued command comes before a poll, and is kept in
\* ephemeral_data (cp_translate_cmd).  A key change that was queued in a secure session
\* which has ended since is dropped.
CpOnline ==
    /\ cp.phy = "idle" /\ cp.st = "ONLINE"
    /\ IF cpq = <<>>
       THEN CpTransmit([cp EXCEPT !.cmd = "POLL"]) /\ UNCHANGED cpq
       ELSE LET c == [cp EXCEPT !.data = Head(cpq)] IN
            /\ cpq' = Tail(cpq)
            /\ IF c.data.kind = "cmd" THEN CpTransmit([c EXCEPT !.cmd = cmds[c.data.val]])
               ELSE IF c.sc THEN CpTransmit([c EXCEPT !.cmd = "KEYSET"])
               ELSE cp' = c /\ UNCHANGED <<toPd, toCp, used>>
    /\ UNCHANGED <<delivered, told, pdSide, submitted>>

\* OSDP_CMD_RETRY_WAIT_MS after a timeout the same command is built and sent again.
CpResend ==
    /\ cp.phy = "wait"
    /\ CpTransmit(cp)
    /\ UNCHANGED <<cpq, delivered, told, pdSide, submitted>>

\* Defect: the new key is not kept.
KeysetComplete_OldKey(c) == [c EXCEPT !.useD = FALSE, !.sc = FALSE]

\* cp_keyset_complete
KeysetComplete(c) ==
    [c EXCEPT !.key = IF c.useD THEN @ ELSE c.data.val, !.useD = FALSE, !.sc = FALSE]

\* get_next_ok_state, as the CP with the next state; ONLINE, a key change was accepted,
\* which restarts the secure channel with sequence number 0.
OkNext(c) ==
    CASE c.st = "INIT"      -> [c EXCEPT !.st = "CAPDET"]
      [] c.st = "CAPDET"    -> IF c.key # NoKey
                               THEN [c EXCEPT !.useD = FALSE, !.st = "SC_CHLNG"]
                               ELSE [c EXCEPT !.st = IF Enforce THEN "OFFLINE" ELSE "ONLINE"]
      [] c.st = "SC_CHLNG"  -> [c EXCEPT !.st = "SC_SCRYPT"]
      [] c.st = "SC_SCRYPT" -> IF c.useD
                               THEN [c EXCEPT !.sc = TRUE, !.data = KeyData(c.key),
                                              !.st = "SET_SCBK"]
                               ELSE [c EXCEPT !.sc = TRUE, !.st = "ONLINE"]
      [] c.st = "SET_SCBK"  -> [KeysetComplete(c) EXCEPT !.st = "SC_CHLNG"]
      [] c.st = "ONLINE" /\ c.cmd = "KEYSET" ->
                               [KeysetComplete(c) EXCEPT !.st = "SC_CHLNG", !.seq = -1]
      [] OTHER              -> c

\* Defect: a failed SCRYPT does not look at ENFORCE_SECURE.
ErrNext_Lenient(c) ==
    CASE c.st = "SC_CHLNG"  -> IF Enforce THEN [c EXCEPT !.st = "OFFLINE"]
                               ELSE IF c.useD THEN [c EXCEPT !.useD = FALSE, !.st = "ONLINE"]
                               ELSE [c EXCEPT !.useD = TRUE]
      [] c.st = "SC_SCRYPT" -> [c EXCEPT !.st = "ONLINE"]
      [] OTHER              -> [c EXCEPT !.sc = FALSE, !.st = "OFFLINE"]

\* Defect: the flag that asks for SCBK-D is never cleared.
ErrNext_StaysDefault(c) ==
    CASE c.st = "SC_CHLNG"  -> IF Enforce THEN [c EXCEPT !.st = "OFFLINE"]
                               ELSE IF c.useD THEN [c EXCEPT !.st = "ONLINE"]
                               ELSE [c EXCEPT !.useD = TRUE]
      [] c.st = "SC_SCRYPT" -> [c EXCEPT !.st = IF Enforce THEN "OFFLINE" ELSE "ONLINE"]
      [] OTHER              -> [c EXCEPT !.sc = FALSE, !.st = "OFFLINE"]

\* get_next_err_state
ErrNext(c) ==
    CASE c.st = "SC_CHLNG"  -> IF Enforce THEN [c EXCEPT !.st = "OFFLINE"]
                               ELSE IF c.useD THEN [c EXCEPT !.useD = FALSE, !.st = "ONLINE"]
                               ELSE [c EXCEPT !.useD = TRUE]
      [] c.st = "SC_SCRYPT" -> [c EXCEPT !.st = IF Enforce THEN "OFFLINE" ELSE "ONLINE"]
      [] c.st = "SET_SCBK"  -> [c EXCEPT !.sc = FALSE,
                                         !.st = IF Enforce \/ c.useD THEN "OFFLINE" ELSE "ONLINE"]
      [] OTHER              -> [c EXCEPT !.st = "OFFLINE"]

\* What the application has been given when it is given d too.  What is no report of a status
\* counts as a read here; 0 is none that was made: an event whose type a NAK code overwrote.
Given(d) ==
    IF d.kind = "status" THEN [delivered EXCEPT !.reports = @ \cup {d.val}]
    ELSE [delivered EXCEPT !.reads = Append(@, IF d.kind = "event" THEN d.val ELSE 0)]

\* The end of state_update: a received event is handed over once the PD is online, or was;
\* then cp_state_change.
Settle(c, next) ==
    LET online == "ONLINE" \in {c.st, next.st}
        n == [next EXCEPT !.phy = "idle", !.evreq = @ /\ ~online]
    IN  /\ delivered' = IF online /\ next.evreq THEN Given(next.data) ELSE delivered
        /\ cp' = IF n.st = c.st THEN n
                 ELSE CASE n.st = "OFFLINE"  -> [n EXCEPT !.sc = FALSE]
                        [] n.st = "SC_CHLNG" -> [n EXCEPT !.cpr = FreshNonce, !.pdr = 0, !.rmac = 0]
                        [] OTHER             -> n

\* state_check_reply
Expected(c, r) ==
    CASE c.st = "INIT"      -> r = "PDID"
      [] c.st = "CAPDET"    -> r = "PDCAP"
      [] c.st = "SC_CHLNG"  -> r = "CCRYPT"
      [] c.st = "SC_SCRYPT" -> r = "RMAC_I"
      [] c.st = "SET_SCBK"  -> r = "ACK"
      [] OTHER              -> \/ r = "ACK"
                               \/ c.cmd = "POLL" /\ r \in {"RAW", "LSTATR"}
                               \/ c.cmd = "LSTAT" /\ r = "LSTATR"
                               \/ c.cmd = "COMSET" /\ r = "COM"

\* notify_command_status of a command of the application that has succeeded: the one that was
\* in ephemeral_data when the reply came.
Notify(c) ==
    told' = IF c.st = "ONLINE" /\ c.cmd \in PlainCmds THEN told \cup {cp.data.val} ELSE told

CpError(c) == Settle(c, ErrNext(c)) /\ UNCHANGED told

\* A valid reply: the state machine moves on, and the application hears of its command.
CpDone(reply, r) ==
    LET c == [reply EXCEPT !.retry = 0] IN
    IF Expected(c, r) THEN Settle(c, OkNext(c)) /\ Notify(c) ELSE CpError(c)

\* osdp_phy_check_packet and osdp_phy_decode_packet accept the reply.
Accepts(c, p) ==
    /\ p.seq = c.seq
    /\ CASE p.sec = "mac"  -> c.sc /\ p.auth = CpMac(c)
         [] p.sec = "none" -> c.sc => p.id = "NAK" \/ (c.cmd = "KEYSET" /\ p.id = "ACK")
         [] OTHER          -> TRUE

\* A refused reply: its NAK code overwrites ephemeral_data, and a wrong MAC ends the session.
Bad(c, p) ==
    [c EXCEPT !.data = NoData,
              !.sc = @ /\ ~(p.seq = c.seq /\ p.sec = "mac")]

\* cp_decode_response: an error of a handshake reply that is out of order or that has a
\* wrong cryptogram.
HandshakeError(c, p) ==
    \/ p.id = "CCRYPT" /\ (c.sc \/ c.cmd # "CHLNG" \/ p.auth # <<CpSessionKey(c), c.cpr, p.auth[3]>>)
    \/ p.id = "RMAC_I" /\ (c.sc \/ c.cmd # "SCRYPT")

\* A reply that is an event of the application is kept until it can be handed over.
TakeEvent(c, p) == [c EXCEPT !.data = p.data, !.evreq = TRUE]

\* Defect: the CP goes on using the address it was configured with.
Decoded_OldAddress(c, p) ==
    LET m == [c EXCEPT !.rmac = IF p.sec = "mac" THEN NextMac(@) ELSE @] IN
    CASE p.id = "CCRYPT"             -> [m EXCEPT !.pdr = p.auth[3]]
      [] p.id = "RMAC_I"             -> [m EXCEPT !.rmac = 0]
      [] p.id \in {"RAW", "LSTATR"} -> TakeEvent(m, p)
      [] OTHER                       -> m

\* The r_mac in RMAC_I is where the chain of the session begins, place 0 of it.
Decoded(c, p) ==
    LET m == [c EXCEPT !.rmac = IF p.sec = "mac" THEN NextMac(@) ELSE @] IN
    CASE p.id = "CCRYPT"             -> [m EXCEPT !.pdr = p.auth[3]]
      [] p.id = "RMAC_I"             -> [m EXCEPT !.rmac = 0]
      [] p.id \in {"RAW", "LSTATR"} -> TakeEvent(m, p)
      [] p.id = "COM"                -> [m EXCEPT !.addr = p.data.val]
      [] OTHER                       -> m

\* What is left in rx_rb after all that has arrived is read into it and one packet taken out.
RxRb(line) == Len(line) - 1

\* cp_process_reply, up to the end of state_update.
CpReceive ==
    /\ cp.phy = "reply" /\ toCp # <<>>
    /\ toCp' = Tail(toCp)
    /\ LET p == Head(toCp)
           c == [cp EXCEPT !.rb = RxRb(toCp)]
       IN  IF p = Garbled \/ p.addr # c.addr THEN CpError(c)
           ELSE IF ~Accepts(c, p) THEN CpError(Bad(c, p))
           ELSE IF HandshakeError(c, p) THEN CpError(c)
           ELSE CpDone(Decoded(c, p), p.id)
    /\ UNCHANGED <<cpq, pdSide, submitted, toPd, used>>

\* OSDP_RESP_TOUT_MS passed without a reply.
CpTimeout ==
    /\ cp.phy = "reply" /\ toCp = <<>>
    /\ IF toPd = <<>> THEN UNCHANGED used ELSE Use("late", MaxLate)
    /\ IF cp.retry < MaxRetries
       THEN /\ cp' = [cp EXCEPT !.phy = "wait", !.retry = @ + 1]
            /\ UNCHANGED <<delivered, told>>
       ELSE CpError(cp)
    /\ UNCHANGED <<cpq, pdSide, submitted, toPd, toCp>>

\* OSDP_ONLINE_RETRY_WAIT_MAX_MS after going offline; whatever was on the line has arrived.
CpRetryOnline ==
    /\ cp.st = "OFFLINE" /\ toPd = <<>>
    /\ cp' = [cp EXCEPT !.st = "INIT", !.seq = -1, !.retry = 0]
    /\ UNCHANGED <<cpq, delivered, told, pdSide, submitted, toPd, toCp, used>>

\* cp_sc_should_retry: OSDP_PD_SC_RETRY_MS after sc_tstamp, online without a secure session.
\* A failed challenge sets sc_tstamp, so that there are polls before the next try.
CpRetrySc ==
    /\ cp.phy = "idle" /\ cp.st = "ONLINE" /\ cp.key # NoKey /\ ~cp.sc /\ cp.cmd # "CHLNG"
    /\ Timely => toPd = <<>>
    /\ Settle(cp, [cp EXCEPT !.st = "SC_CHLNG"])
    /\ UNCHANGED <<cpq, told, pdSide, submitted, toPd, toCp, used>>

-----------------------------------------------------------------------------
(* The PD                                                                  *)

PdCrypt(d) == <<d.skey, d.cpr, d.pdr>>

\* phy_check_packet: number 0 restarts the conversation, a repeated number is let through.
PdSeq(d, p) ==
    LET s == CASE p.seq = 0     -> -1
               [] p.seq = d.seq -> d.seq - 1
               [] OTHER         -> d.seq
    IN  [d EXCEPT !.seq = NextSeq(s), !.sc = @ /\ p.seq # 0]

\* pd_send_reply; while the session is active a reply has a MAC, chained to the command's.
PdSend(d, id, sec, auth, data) ==
    Transmit(toCp, Packet(d.addr, id, d.seq, sec, auth, FALSE, data))

PdSendReply(d, id, data, chained) ==
    IF d.sc THEN PdSend(d, id, "mac", Mac(PdCrypt(d), d.rmac, chained), data)
            ELSE PdSend(d, id, "none", <<>>, data)
Sent(d) == IF d.sc THEN [d EXCEPT !.rmac = NextMac(@)] ELSE d

PdReply(d, id, data, chained) == PdSendReply(d, id, data, chained) /\ pd' = Sent(d)

\* A command that is refused before its MAC is verified leaves c_mac as it was.
PdRefuse(d) == PdReply(d, "NAK", NoData, -1) /\ UNCHANGED <<pdq, executed>>
PdAnswer(d, id) == PdReply(d, id, NoData, d.seq) /\ UNCHANGED <<pdq, executed>>

\* Defect: the event is answered with, but left in the queue.
PdPoll_Peek(d) ==
    /\ IF pdq = <<>>
       THEN PdReply(d, "ACK", NoData, d.seq)
       ELSE PdReply(d, "RAW", EventData(Head(pdq)), d.seq)
    /\ UNCHANGED <<pdq, executed>>

\* pd_decode_command, by command.
PdPoll(d) ==
    /\ IF pdq = <<>>
       THEN PdReply(d, "ACK", NoData, d.seq) /\ UNCHANGED pdq
       ELSE PdReply(d, "RAW", EventData(Head(pdq)), d.seq) /\ pdq' = Tail(pdq)
    /\ UNCHANGED executed

\* The reply to a command that was carried out.  The reader has no answer to MFG but ACK.
CmdReply(p) ==
    CASE p.id = "LSTAT"  -> [id |-> "LSTATR", data |-> StatusData(p.data.val)]
      [] p.id = "COMSET" -> [id |-> "COM", data |-> p.data]
      [] OTHER           -> [id |-> "ACK", data |-> NoData]

\* The command asks for something that the capabilities rule out, or the application refuses.
MayRefuse(p) == p.id \in Refused

\* LED, OUT and BUZ are acknowledged although they were refused.
RefusedReply(p) == [id |-> IF p.id = "LED" THEN "ACK" ELSE "NAK", data |-> NoData]

\* Defect: every refused command is acknowledged, as LED is.
PdCommand_AckAll(d, p) ==
    \E ok \in BOOLEAN :
        LET r == IF ok THEN CmdReply(p) ELSE [id |-> "ACK", data |-> NoData] IN
        /\ ~ok => MayRefuse(p)
        /\ executed' = Append(executed, <<p.data.val, ok>>)
        /\ PdSendReply(d, r.id, r.data, d.seq)
        /\ pd' = IF r.id = "COM" THEN [Sent(d) EXCEPT !.addr = p.data.val] ELSE Sent(d)
        /\ UNCHANGED pdq

\* The commands of the application in pd_decode_command, and the end of osdp_pd_update: a
\* new address holds after the reply.
PdCommand(d, p) ==
    \E ok \in BOOLEAN :
        LET r == IF ok THEN CmdReply(p) ELSE RefusedReply(p) IN
        /\ ~ok => MayRefuse(p)
        /\ executed' = Append(executed, <<p.data.val, ok>>)
        /\ PdSendReply(d, r.id, r.data, d.seq)
        /\ pd' = IF r.id = "COM" THEN [Sent(d) EXCEPT !.addr = p.data.val] ELSE Sent(d)
        /\ UNCHANGED pdq

\* Defect: a key change also clears the event queue.
PdKeyset_Clears(d, p) ==
    IF ~d.sc THEN PdAnswer(d, "NAK")
    ELSE /\ PdSendReply(d, "ACK", NoData, d.seq)
         /\ pd' = [Sent(d) EXCEPT !.key = p.data.val, !.useD = FALSE, !.install = FALSE,
                                  !.sc = FALSE]
         /\ pdq' = <<>>
         /\ UNCHANGED executed

\* The key is taken over after the ACK has been sent in the session of the old one.
PdKeyset(d, p) ==
    IF ~d.sc THEN PdAnswer(d, "NAK")
    ELSE /\ PdSendReply(d, "ACK", NoData, d.seq)
         /\ pd' = [Sent(d) EXCEPT !.key = p.data.val, !.useD = FALSE, !.install = FALSE,
                                  !.sc = FALSE]
         /\ UNCHANGED <<pdq, executed>>

PdChlng(d, p) ==
    LET n == [d EXCEPT !.sc = FALSE, !.cpr = p.auth[2], !.pdr = FreshNonce, !.rmac = 0,
                       !.skey = IF d.useD THEN SCBKD ELSE d.key]
    IN  /\ PdSend(n, "CCRYPT", "hs", PdCrypt(n), NoData)
        /\ pd' = n
        /\ UNCHANGED <<pdq, executed>>

\* Defect: the session is activated without verifying the CP's cryptogram.
PdScrypt_Trusting(d, p) ==
    IF d.sc THEN PdAnswer(d, "NAK")
    ELSE /\ PdSend(d, "RMAC_I", "hs", PdCrypt(d), NoData)
         /\ pd' = [d EXCEPT !.sc = TRUE, !.rmac = 0]
         /\ UNCHANGED <<pdq, executed>>

\* RMAC_I is sent whether or not the CP's cryptogram verifies; the session is active if so.
PdScrypt(d, p) ==
    IF d.sc THEN PdAnswer(d, "NAK")
    ELSE /\ PdSend(d, "RMAC_I", "hs", PdCrypt(d), NoData)
         /\ pd' = [d EXCEPT !.sc = (p.auth = PdCrypt(d)), !.rmac = 0]
         /\ UNCHANGED <<pdq, executed>>

PdExecute(d, p) ==
    IF Enforce /\ ~d.sc /\ p.id \notin {"ID", "CAP", "CHLNG", "SCRYPT"} THEN PdAnswer(d, "NAK")
    ELSE CASE p.id = "ID"         -> PdAnswer(d, "PDID")
           [] p.id = "CAP"        -> PdAnswer(d, "PDCAP")
           [] p.id = "POLL"       -> PdPoll(d)
           [] p.id = "KEYSET"     -> PdKeyset(d, p)
           [] p.id = "CHLNG"      -> PdChlng(d, p)
           [] p.id = "SCRYPT"     -> PdScrypt(d, p)
           [] p.id \in PlainCmds -> PdCommand(d, p)

\* Defect: the MAC is not chained to the reply before.
PdDecode_Unchained(d, p) ==
    CASE p.sec = "mac" /\ d.sc /\ SubSeq(p.auth, 1, 3) = PdCrypt(d) -> PdExecute(d, p)
      [] p.sec = "none" /\ ~d.sc -> PdExecute(d, p)
      [] p.sec = "hs" -> PdExecute([d EXCEPT !.useD = @ \/ (p.dflt /\ d.install)], p)
      [] OTHER -> PdRefuse([d EXCEPT !.sc = @ /\ p.sec # "mac"])

\* osdp_phy_decode_packet: a wrong MAC ends the session; SCBK-D only in install mode.
PdDecode(d, p) ==
    CASE p.sec = "mac" /\ d.sc /\ p.auth = Mac(PdCrypt(d), d.rmac, d.seq) -> PdExecute(d, p)
      [] p.sec = "none" /\ ~d.sc -> PdExecute(d, p)
      [] p.sec = "hs" -> PdExecute([d EXCEPT !.useD = @ \/ (p.dflt /\ d.install)], p)
      [] OTHER -> PdRefuse([d EXCEPT !.sc = @ /\ p.sec # "mac"])

\* osdp_pd_update on the next packet, with its reply.
PdReceive ==
    /\ toPd # <<>>
    /\ Timely => cp.phy # "reply" \/ toCp = <<>>
    /\ toPd' = Tail(toPd)
    /\ LET p == Head(toPd)
           d == PdSeq(pd, p)
       IN  IF p = Garbled
           THEN /\ pd' = [pd EXCEPT !.sc = FALSE]
                /\ UNCHANGED <<pdq, executed, toCp, used>>
           ELSE IF p.addr # pd.addr THEN UNCHANGED <<pdSide, toCp, used>>
           ELSE IF d.seq = p.seq THEN PdDecode(d, p) ELSE PdRefuse(d)
    /\ UNCHANGED <<cpSide, submitted>>

\* OSDP_PD_SC_TIMEOUT_MS without a command: the CP is offline or repeats itself in vain.
PdScTimeout ==
    /\ pd.sc /\ toPd = <<>> /\ (cp.st = "OFFLINE" \/ cp.retry > 0)
    /\ pd' = [pd EXCEPT !.sc = FALSE]
    /\ UNCHANGED <<cpSide, pdq, executed, submitted, toPd, toCp, used>>

\* The reader restarts: osdp_task sets the PD up again, with the key compiled into it.
PdReset ==
    /\ Use("reset", MaxReset)
    /\ pd' = PdBoot /\ pdq' = <<>> /\ toPd' = <<>>
    /\ UNCHANGED <<cpSide, executed, submitted, toCp>>

-----------------------------------------------------------------------------

CpStep == CpSetup \/ CpOnline \/ CpResend \/ CpReceive \/ CpTimeout \/ CpRetryOnline

Next ==
    \/ PdSubmit
    \/ \E kind \in PlainCmds : CpSubmit(kind)
    \/ \E k \in NewKeys : CpSubmitKeyset(k)
    \/ CpStep
    \/ CpRetrySc
    \/ PdReceive
    \/ PdScTimeout
    \/ PdReset

Spec == Init /\ [][Next]_vars

\* osdp_cp_refresh and osdp_pd_refresh are called again and again; the wait for another
\* secure session ends at the first idle refresh after it.
Fairness == WF_vars(CpStep) /\ WF_vars(PdReceive) /\ SF_vars(CpRetrySc)
FairSpec == Spec /\ Fairness

-----------------------------------------------------------------------------
(* Properties                                                              *)

\* Two ends that both hold their session active hold the same session, of the same keys and
\* random numbers, whatever was lost, delayed or restarted.
SessionsAgree == cp.sc /\ pd.sc => CpCrypt(cp) = PdCrypt(pd)

\* A panel that enforces the secure channel is online only with it, through every handshake,
\* key change and recovery.
OnlineIsSecure == Enforce /\ cp.st = "ONLINE" => cp.sc

\* A command the panel's application is told has succeeded reached the reader, and was
\* carried out unless it is one of those that are acknowledged regardless; a status report
\* that was asked for has been handed over.  No reply to something else passes for its answer.
ToldIsExecuted ==
    \A n \in told :
        /\ \E e \in Range(executed) : e[1] = n /\ (e[2] \/ cmds[n] = "LED")
        /\ cmds[n] = "LSTAT" => n \in delivered.reports

\* Commands are carried out in the order they were submitted, although a retry may repeat
\* one, whatever is lost, late or restarted.
CommandsInOrder == \A i, j \in DOMAIN executed : i < j => executed[i][1] <= executed[j][1]

\* A command is carried out once, in order.
CommandsOnce == \A i, j \in DOMAIN executed : i < j => executed[i][1] < executed[j][1]

FaultFree == used["fault"] + used["late"] + used["reset"] = 0

\* The key of the reader is that of the panel, or the one the panel is just sending it.
KeysAgree ==
    FaultFree /\ pd.key # cp.key /\ ~pd.install =>
                       /\ cp.cmd = "KEYSET" /\ cp.phy = "reply"
                       /\ cp.data = KeyData(pd.key)

\* On a line without faults the panel sends to the address the reader listens to, except
\* while the reply to the command that changes it is on its way.
AddressesAgree == FaultFree /\ pd.addr # cp.addr => cp.cmd = "COMSET" /\ cp.phy = "reply"

\* The panel's application gets the card reads that were made, in order, each at most once,
\* and is called with no event that no reader sent.
Feed == INSTANCE ReadFeed WITH reads <- events, panel <- delivered.reads
EventsInOrder == Feed!Spec

\* No read is given to the panel's application twice, or after a later one, or without having
\* been made, through any retries, handshakes, key changes and restarts.
ReadsOnce ==
    LET given == delivered.reads IN
    \A j \in DOMAIN given :
        given[j] # 0 => given[j] <= events /\ \A i \in DOMAIN given : i < j => given[i] < given[j]

\* The panel gets back online, however often packets were lost or late, and if both ends have
\* one key, with a secure session.
BackOnline == []<>(cp.st = "ONLINE" /\ (cp.sc \/ cp.key # pd.key))

\* On a line without faults every event that was submitted reaches the panel's application,
\* through handshakes and key changes, as long as the queue has room for all of them.
EventsArrive ==
    \A n \in 1..PoolSize : []<>(n <= events /\ FaultFree => n \in Range(delivered.reads))
=============================================================================
