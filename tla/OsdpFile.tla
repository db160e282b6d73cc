------------------------------- MODULE OsdpFile -------------------------------
(***************************************************************************)
(* The file transfer of libosdp: osdp_file.c on both sides, with the part  *)
(* of osdp_cp.c and osdp_pd.c that carries its commands.  The CP sends a   *)
(* file chunk by chunk; the PD answers each chunk with a status, and both  *)
(* count the bytes on their own.                                           *)
(*                                                                         *)
(* The line holds at most one packet: the CP repeats a command only after  *)
(* its answer is overdue.  A packet can be lost on its way, and the link   *)
(* layer of the PD can refuse a command, as it does with a repeated one    *)
(* whose MAC or sequence number it does not expect (module OsdpLink).      *)
(* Going offline is one step and so is coming back.  A byte of a file is   *)
(* the pair of the file and its offset.                                    *)
(***************************************************************************)
EXTENDS Integers, FiniteSets

CONSTANTS
    Files,       \* the pre-agreed file ids
    NoFile,
    Size,        \* Size[f]: what the sender's open() returns, in bytes
    Chunk,       \* bytes of a file that fit a packet
    MaxRetries,  \* OSDP_CMD_MAX_RETRIES (8)
    MaxErrors,   \* OSDP_FILE_ERROR_RETRY_MAX (10)
    MaxStarts,   \* bound: transfers started
    MaxCancel,   \* bound: transfers cancelled
    MaxLost,     \* bound: commands lost or refused
    MaxUnheard,  \* bound: replies lost
    MaxIo,       \* bound: calls of the applications' file operations that fail
    MaxRestart   \* bound: restarts of either side

ASSUME FileAssumption ==
    /\ NoFile \notin Files
    /\ Size \in [Files -> Nat \ {0}] /\ Chunk \in Nat \ {0}
    /\ {MaxRetries, MaxErrors, MaxStarts, MaxCancel, MaxLost, MaxUnheard, MaxIo, MaxRestart}
         \subseteq Nat

VARIABLES
    cpFile,   \* struct osdp_file of the CP, and whether the application's file is open
    link,     \* the CP's state machine: online, phy state, command in hand, retries
    pdFile,   \* struct osdp_file of the PD, likewise
    line,     \* the packet on the line
    \* history
    landed,   \* bytes of the file being sent that the receiver has ever written
    content,  \* bytes in the receiver's file since it was opened
    used      \* uses of the bounds

vars == <<cpFile, link, pdFile, line, landed, content, used>>

Idle == [st |-> "IDLE", id |-> NoFile, size |-> 0, off |-> 0, len |-> 0, open |-> FALSE]
CpIdle == [st |-> "IDLE", id |-> NoFile, size |-> 0, off |-> 0, len |-> 0, open |-> FALSE,
           errors |-> 0, cancel |-> FALSE]
LinkUp == [online |-> TRUE, phy |-> "idle", cmd |-> "none", retry |-> 0]
Offline == [LinkUp EXCEPT !.online = FALSE]

\* FILETRANSFER carries the chunk, FTSTAT the status.
Quiet == [kind |-> "quiet"]
FileTransfer(c) ==
    [kind |-> "FILETRANSFER", id |-> c.id, size |-> c.size, off |-> c.off, len |-> c.len]
Abort == [kind |-> "ABORT"]
FtStat(status) == [kind |-> "FTSTAT", status |-> status]
Ack == [kind |-> "ACK"]
Nak == [kind |-> "NAK"]
CommandOnLine == line.kind \in {"FILETRANSFER", "ABORT"}
ReplyOnLine == line.kind \in {"FTSTAT", "ACK", "NAK"}

Stimuli == {"start", "cancel", "lost", "unheard", "io", "restart"}

Init ==
    /\ cpFile = CpIdle /\ link = LinkUp /\ pdFile = Idle /\ line = Quiet
    /\ landed = {} /\ content = {}
    /\ used = [s \in Stimuli |-> 0]

Use(s, max) ==
    /\ used[s] < max
    /\ used' = [used EXCEPT ![s] = @ + 1]

Bytes(f, off, len) == {<<f, n>> : n \in off..(off + len - 1)}

-----------------------------------------------------------------------------
(* The CP                                                                  *)

\* osdp_file_tx_command: not while a transfer is in progress.
TxCommand(f) ==
    /\ link.online /\ cpFile.st # "INPROG"
    /\ Use("start", MaxStarts)
    /\ cpFile' = [CpIdle EXCEPT !.st = "INPROG", !.id = f, !.size = Size[f], !.open = TRUE]
    /\ landed' = {}
    /\ UNCHANGED <<link, pdFile, line, content>>

\* osdp_file_tx_command with OSDP_CMD_FILE_TX_FLAG_CANCEL.
TxCancel ==
    /\ link.online /\ cpFile.st = "INPROG"
    /\ Use("cancel", MaxCancel)
    /\ cpFile' = [cpFile EXCEPT !.cancel = TRUE]
    /\ UNCHANGED <<link, pdFile, line, landed, content>>

Transmit(cmd, pkt) ==
    /\ link' = [link EXCEPT !.cmd = cmd, !.phy = "reply"]
    /\ line' = pkt

\* Defect: a retry sends the chunk after the one that may not have arrived.
TxBuild_NextChunk ==
    LET off == cpFile.off + cpFile.len
        left == cpFile.size - off
        n == [cpFile EXCEPT !.off = off, !.len = IF left < Chunk THEN left ELSE Chunk]
        abort == cpFile' = [CpIdle EXCEPT !.open = cpFile.open] /\ Transmit("FILETRANSFER", Abort)
    IN  \/ n.len > 0 /\ cpFile' = n /\ Transmit("FILETRANSFER", FileTransfer(n)) /\ UNCHANGED used
        \/ n.len = 0 /\ abort /\ UNCHANGED used
        \/ n.len > 0 /\ abort /\ Use("io", MaxIo)

\* Defect: when nothing is left to read the transfer waits, in place of being aborted.
TxBuild_WaitsAtEnd ==
    LET left == cpFile.size - cpFile.off
        n == [cpFile EXCEPT !.len = IF left < Chunk THEN left ELSE Chunk]
        abort == cpFile' = [CpIdle EXCEPT !.open = cpFile.open] /\ Transmit("FILETRANSFER", Abort)
    IN  \/ n.len > 0 /\ cpFile' = n /\ Transmit("FILETRANSFER", FileTransfer(n)) /\ UNCHANGED used
        \/ n.len > 0 /\ abort /\ Use("io", MaxIo)

\* osdp_file_cmd_tx_build: the chunk at the offset, or, when the read fails or finds nothing
\* left, an ABORT, with the transfer forgotten and the file left open.
TxBuild ==
    LET left == cpFile.size - cpFile.off
        n == [cpFile EXCEPT !.len = IF left < Chunk THEN left ELSE Chunk]
        abort == cpFile' = [CpIdle EXCEPT !.open = cpFile.open] /\ Transmit("FILETRANSFER", Abort)
    IN  \/ n.len > 0 /\ cpFile' = n /\ Transmit("FILETRANSFER", FileTransfer(n)) /\ UNCHANGED used
        \/ n.len = 0 /\ abort /\ UNCHANGED used
        \/ n.len > 0 /\ abort /\ Use("io", MaxIo)

\* osdp_file_tx_get_command
CpSend ==
    /\ link.online /\ link.phy = "idle" /\ cpFile.st = "INPROG"
    /\ IF cpFile.errors > MaxErrors \/ cpFile.cancel
       THEN cpFile' = CpIdle /\ Transmit("ABORT", Abort) /\ UNCHANGED used
       ELSE TxBuild
    /\ UNCHANGED <<pdFile, landed, content>>

\* The command is built anew for a retry: osdp_file_cmd_tx_build would run into its BUG_ON
\* if the transfer had been forgotten (CpBug).
CpResend ==
    /\ link.phy = "wait"
    /\ \/ link.cmd = "ABORT" /\ Transmit("ABORT", Abort) /\ UNCHANGED <<cpFile, used>>
       \/ link.cmd = "FILETRANSFER" /\ cpFile.st = "INPROG" /\ TxBuild
    /\ UNCHANGED <<pdFile, landed, content>>

\* BUG_ON in osdp_file_cmd_tx_build ends the process; the panel starts again.
CpBug ==
    /\ link.phy = "wait" /\ link.cmd = "FILETRANSFER" /\ cpFile.st # "INPROG"
    /\ cpFile' = CpIdle /\ link' = LinkUp
    /\ UNCHANGED <<pdFile, line, landed, content, used>>

CpTimeout ==
    /\ link.phy = "reply" /\ line = Quiet
    /\ link' = IF link.retry < MaxRetries
               THEN [link EXCEPT !.phy = "wait", !.retry = @ + 1]
               ELSE Offline
    /\ UNCHANGED <<cpFile, pdFile, line, landed, content, used>>

\* osdp_file_cmd_stat_decode of a transfer in progress.  PD_RESET and KEEP_ALIVE, which no PD
\* of libosdp sends, are not modelled.
StatDecode(c, status) ==
    LET n == [c EXCEPT !.off = @ + c.len, !.len = 0, !.errors = 0] IN
    IF n.off # n.size THEN n
    ELSE IF status = "CONTENTS_PROCESSED" THEN [n EXCEPT !.open = FALSE, !.st = "DONE"]
    ELSE [n EXCEPT !.open = FALSE, !.errors = 1]

\* cp_process_reply.  An ACK is always right; after a NAK, a status that is refused, or one
\* for a transfer that has ended, the PD goes offline.
CpReceive ==
    /\ link.phy = "reply" /\ ReplyOnLine
    /\ line' = Quiet
    /\ LET inTransfer == line.kind = "FTSTAT" /\ cpFile.st = "INPROG"
           n == IF inTransfer THEN StatDecode(cpFile, line.status) ELSE cpFile
       IN  /\ cpFile' = n
           /\ link' = IF line.kind = "ACK" \/ (inTransfer /\ n.errors = 0) THEN LinkUp ELSE Offline
    /\ UNCHANGED <<pdFile, landed, content, used>>

\* OSDP_ONLINE_RETRY_WAIT_MAX_MS later; the transfer goes on where it was.
CpOnline ==
    /\ ~link.online
    /\ link' = LinkUp
    /\ UNCHANGED <<cpFile, pdFile, line, landed, content, used>>

CpRestart ==
    /\ Use("restart", MaxRestart)
    /\ cpFile' = CpIdle /\ link' = LinkUp /\ line' = Quiet
    /\ UNCHANGED <<pdFile, landed, content>>

-----------------------------------------------------------------------------
(* The PD                                                                  *)

\* CMD_ABORT, osdp_file_tx_abort
PdAbort ==
    /\ line.kind = "ABORT"
    /\ pdFile' = IF pdFile.st = "INPROG" THEN Idle ELSE pdFile
    /\ line' = Ack
    /\ UNCHANGED <<cpFile, link, landed, content, used>>

\* Defect: the size is read from the length field.
TxDecodeOpen_SizeOfChunk(p) ==
    IF pdFile.st = "INPROG" THEN pdFile
    ELSE [Idle EXCEPT !.id = p.id, !.size = p.len, !.st = "INPROG", !.open = TRUE]

\* osdp_file_cmd_tx_decode: a chunk for no transfer starts one.
TxDecodeOpen(p) ==
    IF pdFile.st = "INPROG" THEN pdFile
    ELSE [Idle EXCEPT !.id = p.id, !.size = p.size, !.st = "INPROG", !.open = TRUE]

\* osdp_file_cmd_stat_build, after a chunk was written, when the file can be closed.
StatBuild(d) ==
    LET n == [d EXCEPT !.off = @ + d.len, !.len = 0] IN
    IF n.off = n.size THEN [n EXCEPT !.open = FALSE, !.st = "DONE"] ELSE n

\* CMD_FILETRANSFER and its reply.  With more bytes than the file has, the assertion of
\* osdp_file_cmd_stat_build fails (PdAssert) before a reply is sent.
PdWrite ==
    /\ line.kind = "FILETRANSFER"
    /\ LET n == StatBuild([TxDecodeOpen(line) EXCEPT !.len = line.len])
           chunk == Bytes(line.id, line.off, line.len)
       IN  /\ pdFile' = n
           /\ content' = chunk \cup (IF pdFile.st = "INPROG" THEN content ELSE {})
           /\ landed' = landed \cup chunk
           /\ line' = IF n.off > n.size THEN Quiet
                      ELSE FtStat(IF n.st = "DONE" THEN "CONTENTS_PROCESSED" ELSE "ACK")
    /\ UNCHANGED <<cpFile, link, used>>

\* The write of the application fails.
PdWriteFails ==
    /\ line.kind = "FILETRANSFER"
    /\ Use("io", MaxIo)
    /\ pdFile' = TxDecodeOpen(line)
    /\ content' = IF pdFile.st = "INPROG" THEN content ELSE {}
    /\ line' = Nak
    /\ UNCHANGED <<cpFile, link, landed>>

\* The application fails to close the file after its last chunk: the offset has moved on, but
\* the transfer is still in progress.
PdCloseFails ==
    /\ line.kind = "FILETRANSFER"
    /\ Use("io", MaxIo)
    /\ LET d == TxDecodeOpen(line)
           chunk == Bytes(line.id, line.off, line.len)
       IN  /\ d.off + line.len = d.size
           /\ pdFile' = [d EXCEPT !.off = d.size, !.len = 0]
           /\ content' = chunk \cup (IF pdFile.st = "INPROG" THEN content ELSE {})
           /\ landed' = landed \cup chunk
    /\ line' = Nak
    /\ UNCHANGED <<cpFile, link>>

\* The application does not want the file, or cannot open it.
PdDeclines ==
    /\ line.kind = "FILETRANSFER" /\ pdFile.st # "INPROG"
    /\ Use("io", MaxIo)
    /\ line' = Nak
    /\ UNCHANGED <<cpFile, link, pdFile, landed, content>>

PdAssert ==
    /\ pdFile.off > pdFile.size
    /\ pdFile' = Idle
    /\ UNCHANGED <<cpFile, link, line, landed, content, used>>

PdRestart ==
    /\ Use("restart", MaxRestart)
    /\ pdFile' = Idle
    /\ line' = IF CommandOnLine THEN Quiet ELSE line
    /\ UNCHANGED <<cpFile, link, landed, content>>

-----------------------------------------------------------------------------
(* The line                                                                *)

CommandLost ==
    /\ CommandOnLine
    /\ Use("lost", MaxLost)
    /\ line' \in {Quiet, Nak}
    /\ UNCHANGED <<cpFile, link, pdFile, landed, content>>

ReplyLost ==
    /\ ReplyOnLine
    /\ Use("unheard", MaxUnheard)
    /\ line' = Quiet
    /\ UNCHANGED <<cpFile, link, pdFile, landed, content>>

-----------------------------------------------------------------------------

CpStep == CpSend \/ CpResend \/ CpBug \/ CpTimeout \/ CpReceive \/ CpOnline
PdRunning == pdFile.off <= pdFile.size
PdStep ==
    \/ PdRunning /\ (PdAbort \/ PdWrite \/ PdWriteFails \/ PdCloseFails \/ PdDeclines)
    \/ PdAssert

Next ==
    \/ \E f \in Files : TxCommand(f)
    \/ TxCancel
    \/ CpStep
    \/ PdStep
    \/ CpRestart
    \/ PdRestart
    \/ CommandLost
    \/ ReplyLost

Spec == Init /\ [][Next]_vars

\* Both sides are refreshed again and again.
FairSpec == Spec /\ WF_vars(CpStep) /\ WF_vars(PdStep)

-----------------------------------------------------------------------------
(* Properties                                                              *)

States == {"IDLE", "INPROG", "DONE"}
CpFiles == [st : States, id : Files \cup {NoFile}, size : Nat, off : Nat, len : 0..Chunk,
            open : BOOLEAN, errors : 0..1, cancel : BOOLEAN]
PdFiles == [st : States, id : Files \cup {NoFile}, size : Nat, off : Nat, len : 0..Chunk,
            open : BOOLEAN]
Links == [online : BOOLEAN, phy : {"idle", "reply", "wait"},
          cmd : {"none", "FILETRANSFER", "ABORT"}, retry : 0..MaxRetries]
AllBytes == UNION {Bytes(f, 0, Size[f]) : f \in Files}

\* Both ends keep their types, and the CP never reads past the end of its file: the assertion
\* of osdp_file_cmd_stat_decode holds.
TypeOK ==
    /\ cpFile \in CpFiles /\ cpFile.off + cpFile.len <= cpFile.size
    /\ pdFile \in PdFiles
    /\ link \in Links /\ (~link.online => link = Offline)
    /\ landed \subseteq AllBytes /\ content \subseteq AllBytes

\* The offset of the sender, which osdp_get_file_tx_status reports, counts bytes that the
\* receiver has written, through retries, refusals, cancellations and restarts.
SentIsWritten ==
    cpFile.st \in {"INPROG", "DONE"} => Bytes(cpFile.id, 0, cpFile.off) \subseteq landed

\* When no reply was lost and nobody restarted, cancelled or failed, a transfer that the CP
\* reports as done left the whole file, and nothing else, with the receiver.
Undisturbed == \A s \in {"unheard", "restart", "cancel", "io"} : used[s] = 0
DoneIsComplete ==
    Undisturbed /\ cpFile.st = "DONE" => content = Bytes(cpFile.id, 0, cpFile.size)

\* The receiver's file is open during a transfer only, so that the next one can open it.
ReceiverCloses == pdFile.st # "INPROG" => ~pdFile.open

\* A transfer comes to an end, done or aborted, after any faults.
TransferEnds == cpFile.st = "INPROG" ~> cpFile.st # "INPROG"
=============================================================================
