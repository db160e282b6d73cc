--------------------------- MODULE OsdpFileProofs ---------------------------
(***************************************************************************)
(* Theorems about OsdpFile, for any files, sizes, chunks and bounds.       *)
(***************************************************************************)
EXTENDS OsdpFile, TLAPS

USE FileAssumption DEF FileAssumption

-----------------------------------------------------------------------------
(* The inductive invariant                                                 *)

Packets ==
    {Quiet, Abort, Ack, Nak}
      \cup [kind : {"FILETRANSFER"}, id : Files, size : Nat, off : Nat, len : 0..Chunk]
      \cup [kind : {"FTSTAT"}, status : {"ACK", "CONTENTS_PROCESSED"}]

CpSane ==
    /\ cpFile \in CpFiles
    /\ cpFile.off + cpFile.len <= cpFile.size
    /\ cpFile.st # "IDLE" => cpFile.id \in Files /\ cpFile.size = Size[cpFile.id]
LinkSane == link \in Links /\ (~link.online => link = Offline)

\* The CP waits for an answer while there is a packet on the line.  A chunk on the line is the
\* one the CP would send again, and its status is there only after the chunk was written.
LineSane ==
    /\ line \in Packets
    /\ line.kind # "quiet" => link.online /\ link.phy = "reply"
    /\ line.kind = "FILETRANSFER" => cpFile.st = "INPROG" /\ line = FileTransfer(cpFile)
    /\ line.kind = "FTSTAT" => /\ cpFile.st = "INPROG"
                               /\ Bytes(cpFile.id, cpFile.off, cpFile.len) \subseteq landed

PdSane == pdFile \in PdFiles /\ ReceiverCloses
BytesSane == landed \subseteq AllBytes /\ content \subseteq AllBytes

FileInv == CpSane /\ LinkSane /\ LineSane /\ PdSane /\ BytesSane /\ SentIsWritten

-----------------------------------------------------------------------------
(* Bytes and packets                                                       *)

LEMMA BytesInFile ==
    ASSUME NEW f \in Files, NEW off \in Nat, NEW len \in Nat, off + len <= Size[f]
    PROVE  Bytes(f, off, len) \subseteq AllBytes
  <1>1. Size[f] \in Nat
    OBVIOUS
  <1>2. Bytes(f, off, len) \subseteq Bytes(f, 0, Size[f])
    <2>1. off..(off + len - 1) \subseteq 0..(0 + Size[f] - 1)
      BY <1>1
    <2> QED  BY <2>1 DEF Bytes
  <1> QED  BY <1>2 DEF AllBytes

\* What was sent, and the chunk after it.
LEMMA BytesJoin ==
    ASSUME NEW f, NEW off \in Nat, NEW len \in Nat, NEW S,
           Bytes(f, 0, off) \subseteq S, Bytes(f, off, len) \subseteq S
    PROVE  Bytes(f, 0, off + len) \subseteq S
  <1> SUFFICES ASSUME NEW n \in 0..(0 + (off + len) - 1) PROVE <<f, n>> \in S
    BY DEF Bytes
  <1>1. n \in 0..(0 + off - 1) \/ n \in off..(off + len - 1)
    OBVIOUS
  <1> QED  BY <1>1 DEF Bytes

LEMMA BytesSplit ==
    ASSUME NEW f, NEW off \in Nat, NEW len \in Nat
    PROVE  Bytes(f, 0, off + len) = Bytes(f, off, len) \cup Bytes(f, 0, off)
  <1>1. 0..(0 + (off + len) - 1) = (off..(off + len - 1)) \cup (0..(0 + off - 1))
    OBVIOUS
  <1> QED  BY <1>1 DEF Bytes

LEMMA NothingSent ==
    ASSUME NEW f
    PROVE  Bytes(f, 0, 0) = {}
  <1>1. 0..(0 + 0 - 1) = {}
    OBVIOUS
  <1> QED  BY <1>1 DEF Bytes

LEMMA PacketsBuilt ==
    /\ {Quiet, Abort, Ack, Nak} \subseteq Packets
    /\ \A c \in CpFiles : c.id \in Files => FileTransfer(c) \in Packets
    /\ \A s \in {"ACK", "CONTENTS_PROCESSED"} : FtStat(s) \in Packets
  <1>1. {Quiet, Abort, Ack, Nak} \subseteq Packets
    BY DEF Packets
  <1>2. ASSUME NEW c \in CpFiles, c.id \in Files PROVE FileTransfer(c) \in Packets
    <2>1. /\ c.size \in Nat /\ c.off \in Nat /\ c.len \in 0..Chunk
      BY DEF CpFiles
    <2> QED  BY <1>2, <2>1 DEF Packets, FileTransfer
  <1>3. ASSUME NEW s \in {"ACK", "CONTENTS_PROCESSED"} PROVE FtStat(s) \in Packets
    BY DEF Packets, FtStat
  <1> QED  BY <1>1, <1>2, <1>3

LEMMA Kinds ==
    /\ Quiet.kind = "quiet" /\ Abort.kind = "ABORT" /\ Ack.kind = "ACK" /\ Nak.kind = "NAK"
    /\ \A c : FileTransfer(c).kind = "FILETRANSFER"
    /\ \A s : FtStat(s).kind = "FTSTAT"
  <1>1. /\ Quiet.kind = "quiet" /\ Abort.kind = "ABORT" /\ Ack.kind = "ACK"
        /\ Nak.kind = "NAK"
    BY DEF Quiet, Abort, Ack, Nak
  <1>2. ASSUME NEW c PROVE FileTransfer(c).kind = "FILETRANSFER"
    BY DEF FileTransfer
  <1>3. ASSUME NEW s PROVE FtStat(s).kind = "FTSTAT"
    BY DEF FtStat
  <1> QED  BY <1>1, <1>2, <1>3

\* The transfer that an ABORT forgets may leave its file open.
LEMMA Forgotten ==
    ASSUME NEW b \in BOOLEAN, NEW n, n = [CpIdle EXCEPT !.open = b]
    PROVE  n \in CpFiles /\ n.st = "IDLE" /\ n.off = 0 /\ n.len = 0 /\ n.size = 0
  <1>1. CpIdle \in CpFiles
    BY DEF CpIdle, CpFiles, States
  <1>2. n \in CpFiles
    BY <1>1 DEF CpFiles
  <1>3. n.st = "IDLE" /\ n.off = 0 /\ n.len = 0 /\ n.size = 0
    BY DEF CpIdle
  <1> QED  BY <1>2, <1>3

LEMMA FilesAtRest ==
    /\ CpIdle \in CpFiles /\ CpIdle.st = "IDLE" /\ CpIdle.off = 0 /\ CpIdle.len = 0
    /\ CpIdle.size = 0
    /\ Idle \in PdFiles /\ ~Idle.open
  <1>1. 0 \in 0..Chunk /\ 0 \in Nat
    OBVIOUS
  <1>2. CpIdle \in CpFiles /\ CpIdle.st = "IDLE" /\ CpIdle.off = 0 /\ CpIdle.len = 0
    BY <1>1 DEF CpIdle, CpFiles, States
  <1>3. CpIdle.size = 0
    BY DEF CpIdle
  <1>4. Idle \in PdFiles /\ ~Idle.open
    BY <1>1 DEF Idle, PdFiles, States
  <1> QED  BY <1>2, <1>3, <1>4

LEMMA LinksAtRest ==
    /\ LinkUp \in Links /\ LinkUp.online
    /\ Offline \in Links /\ ~Offline.online /\ Offline.phy = "idle"
  <1>1. 0 \in 0..MaxRetries
    OBVIOUS
  <1> QED  BY <1>1 DEF LinkUp, Offline, Links

-----------------------------------------------------------------------------
(* One lemma per side and question                                         *)

\* Building a chunk keeps what was counted; or the transfer is forgotten.
LEMMA BuildSane ==
    ASSUME CpSane, LinkSane, cpFile.st = "INPROG", TxBuild
    PROVE  /\ CpSane'
           /\ link' \in Links /\ link'.online = link.online /\ link'.phy = "reply"
           /\ \/ line' = Abort /\ cpFile'.st = "IDLE"
              \/ /\ line' = FileTransfer(cpFile)' /\ cpFile'.st = "INPROG"
                 /\ cpFile'.id = cpFile.id /\ cpFile'.off = cpFile.off
  <1>1. /\ cpFile.size \in Nat /\ cpFile.off \in Nat /\ cpFile.off <= cpFile.size
        /\ cpFile.open \in BOOLEAN /\ cpFile.id \in Files /\ cpFile.size = Size[cpFile.id]
    BY DEF CpSane, CpFiles
  <1>2. ASSUME NEW cmd \in {"FILETRANSFER", "ABORT"}, NEW p, Transmit(cmd, p)
        PROVE  /\ link' \in Links /\ link'.online = link.online /\ link'.phy = "reply"
               /\ line' = p
    BY <1>2 DEF Transmit, LinkSane, Links
  <1>3. CASE cpFile' = [CpIdle EXCEPT !.open = cpFile.open] /\ Transmit("FILETRANSFER", Abort)
    <2>1. /\ cpFile' \in CpFiles /\ cpFile'.st = "IDLE"
          /\ cpFile'.off = 0 /\ cpFile'.len = 0 /\ cpFile'.size = 0
      BY <1>1, <1>3, Forgotten
    <2> QED  BY <1>2, <1>3, <2>1 DEF CpSane
  <1>4. ASSUME NEW len \in Nat, len = (IF cpFile.size - cpFile.off < Chunk
                                       THEN cpFile.size - cpFile.off ELSE Chunk),
               cpFile' = [cpFile EXCEPT !.len = len],
               Transmit("FILETRANSFER", FileTransfer(cpFile'))
        PROVE  /\ CpSane'
               /\ line' = FileTransfer(cpFile)' /\ cpFile'.st = "INPROG"
               /\ cpFile'.id = cpFile.id /\ cpFile'.off = cpFile.off
    <2>1. len \in 0..Chunk /\ cpFile.off + len <= cpFile.size
      BY <1>1, <1>4
    <2>2. cpFile' \in CpFiles
      BY <1>4, <2>1 DEF CpSane, CpFiles
    <2>3. /\ cpFile'.off = cpFile.off /\ cpFile'.len = len /\ cpFile'.size = cpFile.size
          /\ cpFile'.id = cpFile.id /\ cpFile'.st = cpFile.st
      BY <1>4 DEF CpSane, CpFiles
    <2>4. CpSane'
      BY <1>1, <2>1, <2>2, <2>3 DEF CpSane
    <2> QED  BY <1>2, <1>4, <2>3, <2>4
  <1> DEFINE len == IF cpFile.size - cpFile.off < Chunk THEN cpFile.size - cpFile.off ELSE Chunk
  <1>5. len \in Nat
    BY <1>1
  <1>6. CASE cpFile' = [cpFile EXCEPT !.len = len]
             /\ Transmit("FILETRANSFER", FileTransfer(cpFile'))
    BY <1>2, <1>4, <1>5, <1>6
  <1> QED  BY <1>3, <1>6 DEF TxBuild

\* What the CP puts on the line when it sends or repeats.
LEMMA SendSane ==
    ASSUME CpSane, LinkSane, BytesSane, SentIsWritten, link.online,
           cpFile.st = "INPROG", TxBuild, UNCHANGED <<landed, content>>
    PROVE  CpSane' /\ LinkSane' /\ LineSane' /\ BytesSane' /\ SentIsWritten'
  <1>1. /\ CpSane'
        /\ link' \in Links /\ link'.online = link.online /\ link'.phy = "reply"
    BY BuildSane
  <1>2. LinkSane'
    BY <1>1 DEF LinkSane
  <1>3. BytesSane'
    BY DEF BytesSane
  <1>4. CASE line' = Abort /\ cpFile'.st = "IDLE"
    <2>1. LineSane'
      BY <1>1, <1>4, PacketsBuilt, Kinds DEF LineSane
    <2>2. SentIsWritten'
      BY <1>4 DEF SentIsWritten
    <2> QED  BY <1>1, <1>2, <1>3, <2>1, <2>2
  <1>5. CASE /\ line' = FileTransfer(cpFile)' /\ cpFile'.st = "INPROG"
             /\ cpFile'.id = cpFile.id /\ cpFile'.off = cpFile.off
    <2>1. line' \in Packets
      <3>1. cpFile' \in CpFiles /\ cpFile'.id \in Files
        BY <1>1, <1>5 DEF CpSane
      <3> QED  BY <3>1, <1>5, PacketsBuilt DEF FileTransfer
    <2>2. line'.kind = "FILETRANSFER"
      BY <1>5 DEF FileTransfer
    <2>3. LineSane'
      BY <1>1, <1>5, <2>1, <2>2 DEF LineSane
    <2>4. SentIsWritten'
      BY <1>5 DEF SentIsWritten
    <2> QED  BY <1>1, <1>2, <1>3, <2>3, <2>4
  <1> QED  BY BuildSane, <1>4, <1>5

\* The answer to a chunk counts it.
LEMMA DecodeSane ==
    ASSUME CpSane, LineSane, SentIsWritten, line.kind = "FTSTAT",
           NEW n, n = StatDecode(cpFile, line.status)
    PROVE  /\ n \in CpFiles /\ n.st # "IDLE" /\ n.len = 0 /\ n.off <= n.size
           /\ n.id \in Files /\ n.size = Size[n.id]
           /\ Bytes(n.id, 0, n.off) \subseteq landed
  <1>1. /\ cpFile \in CpFiles /\ cpFile.st = "INPROG"
        /\ cpFile.id \in Files /\ cpFile.size = Size[cpFile.id]
        /\ cpFile.off \in Nat /\ cpFile.len \in Nat /\ cpFile.size \in Nat
        /\ cpFile.off + cpFile.len <= cpFile.size
    BY DEF CpSane, LineSane, CpFiles
  <1> DEFINE m == [cpFile EXCEPT !.off = @ + cpFile.len, !.len = 0, !.errors = 0]
  <1>2. /\ m \in CpFiles /\ m.st = "INPROG" /\ m.id = cpFile.id /\ m.size = cpFile.size
        /\ m.len = 0 /\ m.off = cpFile.off + cpFile.len
    <2>1. cpFile.off + cpFile.len \in Nat /\ 0 \in 0..Chunk /\ 0 \in 0..1
      BY <1>1
    <2>2. m \in CpFiles
      BY <1>1, <2>1 DEF CpFiles
    <2>3. m.st = "INPROG" /\ m.id = cpFile.id /\ m.size = cpFile.size
      BY <1>1 DEF CpFiles
    <2>4. m.len = 0 /\ m.off = cpFile.off + cpFile.len
      BY <1>1 DEF CpFiles
    <2> QED  BY <2>2, <2>3, <2>4
  <1>3. /\ n \in CpFiles /\ n.st # "IDLE" /\ n.id = m.id /\ n.size = m.size
        /\ n.len = m.len /\ n.off = m.off
    <2>1. CASE m.off # m.size
      BY <1>2, <2>1 DEF StatDecode
    <2>2. CASE m.off = m.size /\ line.status = "CONTENTS_PROCESSED"
      <3>1. n = [m EXCEPT !.open = FALSE, !.st = "DONE"]
        BY <2>2 DEF StatDecode
      <3> HIDE DEF m
      <3> QED  BY <1>2, <3>1 DEF CpFiles, States
    <2>3. CASE m.off = m.size /\ line.status # "CONTENTS_PROCESSED"
      <3>1. n = [m EXCEPT !.open = FALSE, !.errors = 1]
        BY <2>3 DEF StatDecode
      <3> HIDE DEF m
      <3>2. 1 \in 0..1
        OBVIOUS
      <3>3. n \in CpFiles
        BY <1>2, <3>1, <3>2 DEF CpFiles
      <3>4. /\ n.st = m.st /\ n.id = m.id /\ n.size = m.size
            /\ n.len = m.len /\ n.off = m.off
        BY <1>2, <3>1 DEF CpFiles
      <3> QED  BY <1>2, <3>3, <3>4
    <2> QED  BY <2>1, <2>2, <2>3
  <1>4. Bytes(cpFile.id, 0, cpFile.off + cpFile.len) \subseteq landed
    <2>1. /\ Bytes(cpFile.id, 0, cpFile.off) \subseteq landed
          /\ Bytes(cpFile.id, cpFile.off, cpFile.len) \subseteq landed
      BY <1>1 DEF SentIsWritten, LineSane
    <2> QED  BY <1>1, <2>1, BytesJoin
  <1> HIDE DEF m
  <1> QED  BY <1>1, <1>2, <1>3, <1>4

\* The receiver's file after a chunk: what was decoded, and what was written.
LEMMA OpenSane ==
    ASSUME PdSane, LineSane, line.kind = "FILETRANSFER", NEW n, n = TxDecodeOpen(line)
    PROVE  n \in PdFiles /\ n.st = "INPROG"
  <1>1. line.id \in Files /\ line.size \in Nat
    BY Kinds DEF LineSane, Packets
  <1>2. CASE pdFile.st = "INPROG"
    BY <1>2 DEF TxDecodeOpen, PdSane
  <1>3. CASE pdFile.st # "INPROG"
    <2>1. n = [Idle EXCEPT !.id = line.id, !.size = line.size, !.st = "INPROG", !.open = TRUE]
      BY <1>3 DEF TxDecodeOpen
    <2>2. n.st = "INPROG"
      BY <2>1 DEF Idle
    <2>3. n \in PdFiles
      BY <1>1, <2>1, FilesAtRest DEF PdFiles, States
    <2> QED  BY <2>2, <2>3
  <1> QED  BY <1>2, <1>3

LEMMA WrittenSane ==
    ASSUME NEW d \in PdFiles, NEW len \in 0..Chunk, d.st = "INPROG",
           NEW n, n = StatBuild([d EXCEPT !.len = len])
    PROVE  n \in PdFiles /\ (n.st # "INPROG" => ~n.open)
  <1>1. 0 \in 0..Chunk /\ d.off + len \in Nat
    BY DEF PdFiles
  <1> DEFINE k == [d EXCEPT !.off = @ + len, !.len = 0]
  <1>2. k \in PdFiles /\ k.st = "INPROG"
    BY <1>1 DEF PdFiles
  <1>3. n = IF k.off = k.size THEN [k EXCEPT !.open = FALSE, !.st = "DONE"] ELSE k
    BY DEF StatBuild, PdFiles
  <1> HIDE DEF k
  <1>4. [k EXCEPT !.open = FALSE, !.st = "DONE"] \in PdFiles
    BY <1>2 DEF PdFiles, States
  <1>5. ~[k EXCEPT !.open = FALSE, !.st = "DONE"].open
    BY <1>2 DEF PdFiles
  <1> QED  BY <1>2, <1>3, <1>4, <1>5

-----------------------------------------------------------------------------
(* Every step keeps the invariant                                          *)

LEMMA InitSane == Init => FileInv
  <1> SUFFICES ASSUME Init PROVE FileInv  OBVIOUS
  <1>1. CpSane
    BY FilesAtRest DEF Init, CpSane
  <1>2. LinkSane
    BY LinksAtRest DEF Init, LinkSane
  <1>3. LineSane
    BY PacketsBuilt, Kinds DEF Init, LineSane
  <1>4. PdSane
    BY FilesAtRest DEF Init, PdSane, ReceiverCloses
  <1>5. BytesSane /\ SentIsWritten
    BY FilesAtRest DEF Init, BytesSane, SentIsWritten
  <1> QED  BY <1>1, <1>2, <1>3, <1>4, <1>5 DEF FileInv

\* The steps of the CP and its application.
LEMMA CpKeepsInv ==
    ASSUME FileInv, (\E f \in Files : TxCommand(f)) \/ TxCancel \/ CpStep \/ CpRestart
    PROVE  FileInv'
  <1> USE DEF FileInv
  <1>1. ASSUME NEW f \in Files, TxCommand(f) PROVE FileInv'
    <2>1. cpFile' = [CpIdle EXCEPT !.st = "INPROG", !.id = f, !.size = Size[f], !.open = TRUE]
      BY <1>1 DEF TxCommand
    <2>2. cpFile' \in CpFiles
      <3>1. Size[f] \in Nat
        OBVIOUS
      <3> QED  BY <2>1, <3>1, FilesAtRest DEF CpFiles, States
    <2>3. /\ cpFile'.st = "INPROG" /\ cpFile'.id = f /\ cpFile'.size = Size[f]
          /\ cpFile'.off = 0 /\ cpFile'.len = 0
      BY <2>1 DEF CpIdle
    <2>4. CpSane'
      BY <2>2, <2>3 DEF CpSane
    <2>5. LineSane'
      BY <1>1 DEF TxCommand, LineSane
    <2>6. SentIsWritten'
      BY <2>3, NothingSent DEF SentIsWritten
    <2>7. LinkSane' /\ PdSane' /\ BytesSane'
      BY <1>1 DEF TxCommand, LinkSane, PdSane, ReceiverCloses, BytesSane
    <2> QED  BY <2>4, <2>5, <2>6, <2>7
  <1>2. CASE TxCancel
    <2>1. cpFile' = [cpFile EXCEPT !.cancel = TRUE]
      BY <1>2 DEF TxCancel
    <2>2. cpFile' \in CpFiles
      BY <2>1 DEF CpSane, CpFiles
    <2>3. /\ cpFile'.st = cpFile.st /\ cpFile'.id = cpFile.id /\ cpFile'.size = cpFile.size
          /\ cpFile'.off = cpFile.off /\ cpFile'.len = cpFile.len
      BY <2>1 DEF CpSane, CpFiles
    <2>4. CpSane'
      BY <2>2, <2>3 DEF CpSane
    <2>5. LineSane' /\ SentIsWritten'
      BY <1>2, <2>3 DEF TxCancel, LineSane, FileTransfer, SentIsWritten
    <2>6. LinkSane' /\ PdSane' /\ BytesSane'
      BY <1>2 DEF TxCancel, LinkSane, PdSane, ReceiverCloses, BytesSane
    <2> QED  BY <2>4, <2>5, <2>6
  <1>3. CASE CpSend
    <2>1. PdSane'
      BY <1>3 DEF CpSend, PdSane, ReceiverCloses
    <2>2. CASE cpFile' = CpIdle /\ Transmit("ABORT", Abort)
      <3>1. CpSane'
        BY <2>2, FilesAtRest DEF CpSane
      <3>2. LinkSane' /\ LineSane'
        <4>1. link' \in Links /\ link'.online /\ link'.phy = "reply" /\ line' = Abort
          BY <1>3, <2>2 DEF CpSend, Transmit, LinkSane, Links
        <4> QED  BY <4>1, PacketsBuilt, Kinds DEF LinkSane, LineSane
      <3>3. BytesSane' /\ SentIsWritten'
        BY <1>3, <2>2, FilesAtRest DEF CpSend, BytesSane, SentIsWritten
      <3> QED  BY <2>1, <3>1, <3>2, <3>3
    <2>3. CASE TxBuild
      BY <1>3, <2>1, <2>3, SendSane DEF CpSend
    <2> QED  BY <1>3, <2>2, <2>3 DEF CpSend
  <1>4. CASE CpResend
    <2>1. PdSane' /\ link.online
      BY <1>4, LinksAtRest DEF CpResend, PdSane, ReceiverCloses, LinkSane
    <2>2. CASE Transmit("ABORT", Abort) /\ UNCHANGED cpFile
      <3>1. CpSane'
        BY <2>2 DEF CpSane
      <3>2. LinkSane' /\ LineSane'
        <4>1. link' \in Links /\ link'.online /\ link'.phy = "reply" /\ line' = Abort
          BY <2>1, <2>2 DEF Transmit, LinkSane, Links
        <4> QED  BY <4>1, PacketsBuilt, Kinds DEF LinkSane, LineSane
      <3>3. BytesSane' /\ SentIsWritten'
        BY <1>4, <2>2 DEF CpResend, BytesSane, SentIsWritten
      <3> QED  BY <2>1, <3>1, <3>2, <3>3
    <2>3. CASE cpFile.st = "INPROG" /\ TxBuild
      BY <1>4, <2>1, <2>3, SendSane DEF CpResend
    <2> QED  BY <1>4, <2>2, <2>3 DEF CpResend
  <1>5. CASE CpBug
    <2>1. CpSane' /\ LinkSane'
      BY <1>5, FilesAtRest, LinksAtRest DEF CpBug, CpSane, LinkSane
    <2>2. LineSane'
      BY <1>5 DEF CpBug, LineSane
    <2>3. PdSane' /\ BytesSane' /\ SentIsWritten'
      BY <1>5, FilesAtRest DEF CpBug, PdSane, ReceiverCloses, BytesSane, SentIsWritten
    <2> QED  BY <2>1, <2>2, <2>3
  <1>6. CASE CpTimeout
    <2>1. LinkSane'
      <3>1. CASE link.retry < MaxRetries
        <4>1. link' = [link EXCEPT !.phy = "wait", !.retry = @ + 1]
          BY <1>6, <3>1 DEF CpTimeout
        <4>2. link.retry + 1 \in 0..MaxRetries /\ link.online
          BY <1>6, <3>1, LinksAtRest DEF CpTimeout, LinkSane, Links
        <4>3. link' \in Links
          BY <4>1, <4>2 DEF LinkSane, Links
        <4>4. link'.online = link.online
          BY <4>1 DEF LinkSane, Links
        <4> QED  BY <4>2, <4>3, <4>4 DEF LinkSane
      <3>2. CASE ~(link.retry < MaxRetries)
        BY <1>6, <3>2, LinksAtRest DEF CpTimeout, LinkSane
      <3> QED  BY <3>1, <3>2
    <2>2. LineSane'
      BY <1>6, Kinds DEF CpTimeout, LineSane
    <2>3. CpSane' /\ PdSane' /\ BytesSane' /\ SentIsWritten'
      BY <1>6 DEF CpTimeout, CpSane, PdSane, ReceiverCloses, BytesSane, SentIsWritten
    <2> QED  BY <2>1, <2>2, <2>3
  <1>7. CASE CpReceive
    <2>1. /\ line' = Quiet /\ UNCHANGED <<pdFile, landed, content>>
          /\ link' = LinkUp \/ link' = Offline
      BY <1>7 DEF CpReceive
    <2>2. LinkSane' /\ LineSane' /\ PdSane' /\ BytesSane'
      BY <2>1, LinksAtRest, PacketsBuilt, Kinds
      DEF LinkSane, LineSane, PdSane, ReceiverCloses, BytesSane
    <2>3. CASE line.kind = "FTSTAT" /\ cpFile' = StatDecode(cpFile, line.status)
      <3>1. /\ cpFile' \in CpFiles /\ cpFile'.st # "IDLE" /\ cpFile'.len = 0
            /\ cpFile'.off <= cpFile'.size
            /\ cpFile'.id \in Files /\ cpFile'.size = Size[cpFile'.id]
            /\ Bytes(cpFile'.id, 0, cpFile'.off) \subseteq landed
        BY <2>3, DecodeSane
      <3>2. CpSane'
        BY <3>1 DEF CpSane, CpFiles
      <3>3. SentIsWritten'
        BY <2>1, <3>1 DEF SentIsWritten
      <3> QED  BY <2>2, <3>2, <3>3
    <2>4. CASE UNCHANGED cpFile
      BY <2>1, <2>2, <2>4 DEF CpSane, SentIsWritten
    <2> QED  BY <1>7, <2>3, <2>4 DEF CpReceive
  <1>8. CASE CpOnline
    <2>1. LinkSane' /\ CpSane' /\ PdSane' /\ BytesSane' /\ SentIsWritten'
      BY <1>8, LinksAtRest
      DEF CpOnline, LinkSane, CpSane, PdSane, ReceiverCloses, BytesSane, SentIsWritten
    <2>2. LineSane'
      BY <1>8 DEF CpOnline, LineSane
    <2> QED  BY <2>1, <2>2
  <1>9. CASE CpRestart
    <2>1. CpSane' /\ LinkSane' /\ SentIsWritten'
      BY <1>9, FilesAtRest, LinksAtRest DEF CpRestart, CpSane, LinkSane, SentIsWritten
    <2>2. LineSane' /\ PdSane' /\ BytesSane'
      BY <1>9, PacketsBuilt, Kinds DEF CpRestart, LineSane, PdSane, ReceiverCloses, BytesSane
    <2> QED  BY <2>1, <2>2
  <1> QED
    BY <1>1, <1>2, <1>3, <1>4, <1>5, <1>6, <1>7, <1>8, <1>9 DEF CpStep

\* The steps of the PD and what the line loses.
LEMMA PdKeepsInv ==
    ASSUME FileInv, PdStep \/ PdRestart \/ CommandLost \/ ReplyLost
    PROVE  FileInv'
  <1> USE DEF FileInv
  <1>1. ASSUME UNCHANGED <<cpFile, link, landed>>, line' \in {line, Quiet, Nak, Ack},
               line' \in {line, Quiet} \/ line.kind # "quiet"
        PROVE  CpSane' /\ LinkSane' /\ LineSane' /\ SentIsWritten'
    <2>1. CpSane' /\ LinkSane' /\ SentIsWritten'
      BY <1>1 DEF CpSane, LinkSane, SentIsWritten
    <2>2. CASE line' = line
      BY <1>1, <2>1, <2>2 DEF LineSane, FileTransfer, Bytes
    <2>3. CASE line' = Quiet
      <3>1. line' \in Packets /\ line'.kind = "quiet"
        BY <2>3, PacketsBuilt, Kinds
      <3> QED  BY <2>1, <3>1 DEF LineSane
    <2>4. CASE line' \in {Nak, Ack} /\ line.kind # "quiet"
      <3>1. line' \in Packets /\ line'.kind \notin {"FILETRANSFER", "FTSTAT"}
        BY <2>4, PacketsBuilt, Kinds
      <3>2. link'.online /\ link'.phy = "reply"
        BY <1>1, <2>4 DEF LineSane
      <3> QED  BY <2>1, <3>1, <3>2 DEF LineSane
    <2> QED  BY <1>1, <2>1, <2>2, <2>3, <2>4
  <1>2. CASE PdAbort
    <2>1. CpSane' /\ LinkSane' /\ LineSane' /\ SentIsWritten'
      BY <1>1, <1>2 DEF PdAbort
    <2>2. PdSane' /\ BytesSane'
      BY <1>2, FilesAtRest DEF PdAbort, PdSane, ReceiverCloses, BytesSane
    <2> QED  BY <2>1, <2>2
  <1>3. CASE PdWrite
    <2> DEFINE chunk == Bytes(line.id, line.off, line.len)
               d == TxDecodeOpen(line)
               n == StatBuild([d EXCEPT !.len = line.len])
    <2>1. /\ cpFile \in CpFiles /\ cpFile.st = "INPROG"
          /\ line.id = cpFile.id /\ line.off = cpFile.off /\ line.len = cpFile.len
          /\ link.online /\ link.phy = "reply"
      BY <1>3 DEF PdWrite, LineSane, FileTransfer, CpSane
    <2>2. /\ cpFile.id \in Files /\ cpFile.off \in Nat /\ cpFile.len \in Nat
          /\ cpFile.len \in 0..Chunk /\ cpFile.off + cpFile.len <= Size[cpFile.id]
      BY <2>1 DEF CpSane, CpFiles
    <2>3. /\ pdFile' = n /\ landed' = landed \cup chunk
          /\ content' = chunk \cup (IF pdFile.st = "INPROG" THEN content ELSE {})
          /\ UNCHANGED <<cpFile, link>>
          /\ line' \in {Quiet, FtStat("ACK"), FtStat("CONTENTS_PROCESSED")}
      BY <1>3 DEF PdWrite
    <2>4. d \in PdFiles /\ d.st = "INPROG"
      BY <1>3, OpenSane DEF PdWrite
    <2>5. n \in PdFiles /\ (n.st # "INPROG" => ~n.open)
      <3> HIDE DEF d
      <3> QED  BY <2>1, <2>2, <2>4, WrittenSane
    <2>6. PdSane'
      <3> HIDE DEF n
      <3> QED  BY <2>3, <2>5 DEF PdSane, ReceiverCloses
    <2>7. chunk \subseteq AllBytes
      BY <2>1, <2>2, BytesInFile
    <2>8. BytesSane'
      <3> HIDE DEF chunk
      <3> QED  BY <2>3, <2>7 DEF BytesSane
    <2>9. SentIsWritten'
      <3> HIDE DEF chunk
      <3> QED  BY <2>3 DEF SentIsWritten
    <2>10. LineSane'
      <3>1. Bytes(cpFile.id, cpFile.off, cpFile.len) \subseteq landed'
        BY <2>1, <2>3
      <3>2. line' \in Packets /\ line'.kind \in {"quiet", "FTSTAT"}
        BY <2>3, PacketsBuilt, Kinds
      <3> HIDE DEF chunk, n
      <3> QED  BY <2>1, <2>3, <3>1, <3>2 DEF LineSane
    <2>11. CpSane' /\ LinkSane'
      <3> HIDE DEF chunk, n
      <3> QED  BY <2>3 DEF CpSane, LinkSane
    <2> QED  BY <2>6, <2>8, <2>9, <2>10, <2>11
  <1>4. CASE PdWriteFails
    <2>1. CpSane' /\ LinkSane' /\ LineSane' /\ SentIsWritten'
      BY <1>1, <1>4 DEF PdWriteFails
    <2>2. PdSane'
      <3>1. pdFile' \in PdFiles /\ pdFile'.st = "INPROG"
        BY <1>4, OpenSane DEF PdWriteFails
      <3> QED  BY <3>1 DEF PdSane, ReceiverCloses
    <2>3. BytesSane'
      BY <1>4 DEF PdWriteFails, BytesSane
    <2> QED  BY <2>1, <2>2, <2>3
  <1>5. CASE PdDeclines
    <2>1. CpSane' /\ LinkSane' /\ LineSane' /\ SentIsWritten'
      BY <1>1, <1>5 DEF PdDeclines
    <2>2. PdSane' /\ BytesSane'
      BY <1>5 DEF PdDeclines, PdSane, ReceiverCloses, BytesSane
    <2> QED  BY <2>1, <2>2
  <1>6. CASE PdAssert \/ PdRestart
    <2>1. CpSane' /\ LinkSane' /\ LineSane' /\ SentIsWritten'
      BY <1>1, <1>6 DEF PdAssert, PdRestart
    <2>2. PdSane' /\ BytesSane'
      BY <1>6, FilesAtRest DEF PdAssert, PdRestart, PdSane, ReceiverCloses, BytesSane
    <2> QED  BY <2>1, <2>2
  <1>7. CASE CommandLost \/ ReplyLost
    <2>1. CpSane' /\ LinkSane' /\ LineSane' /\ SentIsWritten'
      BY <1>1, <1>7 DEF CommandLost, ReplyLost, CommandOnLine
    <2>2. PdSane' /\ BytesSane'
      BY <1>7 DEF CommandLost, ReplyLost, PdSane, ReceiverCloses, BytesSane
    <2> QED  BY <2>1, <2>2
  <1>8. CASE PdCloseFails
    <2> DEFINE chunk == Bytes(line.id, line.off, line.len)
               d == TxDecodeOpen(line)
    <2>1. /\ cpFile \in CpFiles /\ cpFile.st = "INPROG"
          /\ line.id = cpFile.id /\ line.off = cpFile.off /\ line.len = cpFile.len
          /\ link.online /\ link.phy = "reply"
      BY <1>8 DEF PdCloseFails, LineSane, FileTransfer, CpSane
    <2>2. chunk \subseteq AllBytes
      BY <2>1, BytesInFile DEF CpSane, CpFiles
    <2>3. /\ pdFile' = [d EXCEPT !.off = d.size, !.len = 0] /\ landed' = landed \cup chunk
          /\ content' = chunk \cup (IF pdFile.st = "INPROG" THEN content ELSE {})
          /\ UNCHANGED <<cpFile, link>> /\ line' = Nak
      BY <1>8 DEF PdCloseFails
    <2>4. PdSane'
      <3>1. d \in PdFiles /\ d.st = "INPROG"
        BY <1>8, OpenSane DEF PdCloseFails
      <3> HIDE DEF d
      <3> DEFINE n == [d EXCEPT !.off = d.size, !.len = 0]
      <3>2. d.size \in Nat /\ 0 \in 0..Chunk
        BY <3>1 DEF PdFiles
      <3>3. n \in PdFiles
        BY <3>1, <3>2 DEF PdFiles
      <3>4. n.st = "INPROG"
        BY <3>1 DEF PdFiles
      <3>5. pdFile' = n
        BY <2>3
      <3> HIDE DEF n
      <3> QED  BY <3>3, <3>4, <3>5 DEF PdSane, ReceiverCloses
    <2> HIDE DEF chunk, d
    <2>5. BytesSane'
      BY <2>2, <2>3 DEF BytesSane
    <2>6. SentIsWritten'
      BY <2>3 DEF SentIsWritten
    <2>7. LineSane'
      <3>1. line' \in Packets /\ line'.kind \notin {"FILETRANSFER", "FTSTAT"}
        BY <2>3, PacketsBuilt, Kinds
      <3> QED  BY <2>1, <2>3, <3>1 DEF LineSane
    <2>8. CpSane' /\ LinkSane'
      BY <2>3 DEF CpSane, LinkSane
    <2> QED  BY <2>4, <2>5, <2>6, <2>7, <2>8
  <1> QED
    BY <1>2, <1>3, <1>4, <1>5, <1>6, <1>7, <1>8 DEF PdStep

LEMMA StepKeepsInv ==
    ASSUME FileInv, [Next]_vars
    PROVE  FileInv'
  <1>1. CASE UNCHANGED vars
    BY <1>1 DEF vars, FileInv, CpSane, LinkSane, LineSane, PdSane, ReceiverCloses,
                BytesSane, SentIsWritten
  <1>2. CASE Next
    BY <1>2, CpKeepsInv, PdKeepsInv DEF Next
  <1> QED  BY <1>1, <1>2

LEMMA Invariance == Spec => []FileInv
<1>1. FileInv /\ [Next]_vars => FileInv'
  BY StepKeepsInv
<1> QED  BY InitSane, <1>1, PTL DEF Spec

-----------------------------------------------------------------------------
(* Undisturbed, the two ends stay in step                                  *)

\* The two ends agree: the receiver is in the same transfer, and has written this much of it.
Together(off) ==
    /\ pdFile.st = "INPROG" /\ pdFile.size = cpFile.size /\ pdFile.off = off
    /\ off < cpFile.size /\ content = Bytes(cpFile.id, 0, off)

\* Undisturbed, the receiver is where the sender is, or a chunk ahead while the status of
\* that chunk is on the line.
InStep ==
    /\ cpFile.errors = 0 /\ ~cpFile.cancel
    /\ line.kind # "ABORT" /\ pdFile.off <= pdFile.size
    /\ link.phy # "idle" => cpFile.st = "INPROG" /\ link.cmd = "FILETRANSFER"
    /\ cpFile.st # "INPROG" => pdFile.st # "INPROG"
    /\ cpFile.st = "DONE" => content = Bytes(cpFile.id, 0, cpFile.size)
    /\ cpFile.st = "INPROG" /\ line.kind # "FTSTAT" =>
          Together(cpFile.off) \/ (cpFile.off = 0 /\ pdFile.st # "INPROG")
    /\ line.kind = "FTSTAT" =>
          IF line.status = "ACK" THEN Together(cpFile.off + cpFile.len)
          ELSE /\ pdFile.st # "INPROG" /\ cpFile.off + cpFile.len = cpFile.size
               /\ content = Bytes(cpFile.id, 0, cpFile.size)

StepInv == FileInv /\ used \in [Stimuli -> Nat] /\ (Undisturbed => InStep)

LEMMA UseCounts ==
    ASSUME used \in [Stimuli -> Nat], NEW s \in Stimuli, NEW max, Use(s, max)
    PROVE  /\ used' \in [Stimuli -> Nat] /\ used'[s] > 0
           /\ \A z \in Stimuli : used[z] <= used'[z]
  <1>1. used' = [used EXCEPT ![s] = @ + 1]
    BY DEF Use
  <1>2. used[s] \in Nat /\ used[s] + 1 \in Nat /\ used[s] + 1 > 0
    OBVIOUS
  <1> QED  BY <1>1, <1>2

\* A transfer once disturbed stays so.
LEMMA UsesGrow ==
    ASSUME used \in [Stimuli -> Nat], [Next]_vars
    PROVE  used' \in [Stimuli -> Nat] /\ \A z \in Stimuli : used[z] <= used'[z]
  <1>1. UNCHANGED used \/ \E s \in Stimuli : \E max \in Nat : Use(s, max)
    BY DEF Next, vars, Stimuli, TxCommand, TxCancel, CpStep, CpSend, CpResend, TxBuild, CpBug,
           CpTimeout, CpReceive, CpOnline, CpRestart, PdStep, PdAbort, PdWrite, PdWriteFails,
           PdCloseFails, PdDeclines, PdAssert, PdRestart, CommandLost, ReplyLost
  <1>2. CASE UNCHANGED used
    BY <1>2
  <1> QED  BY <1>1, <1>2, UseCounts

LEMMA Disturbs ==
    ASSUME used \in [Stimuli -> Nat], NEW s \in {"unheard", "restart", "cancel", "io"},
           NEW max, Use(s, max)
    PROVE  ~Undisturbed'
  <1>1. s \in Stimuli
    BY DEF Stimuli
  <1>2. used'[s] > 0
    BY <1>1, UseCounts
  <1> QED  BY <1>2 DEF Undisturbed

\* There is something left to send, so the next chunk is built and nothing is aborted.
LEMMA BuildInStep ==
    ASSUME StepInv, Undisturbed, Undisturbed', cpFile.st = "INPROG", line.kind = "quiet", TxBuild,
           UNCHANGED <<pdFile, landed, content>>
    PROVE  InStep'
  <1> USE DEF StepInv
  <1> DEFINE left == cpFile.size - cpFile.off
             len == IF left < Chunk THEN left ELSE Chunk
             n == [cpFile EXCEPT !.len = len]
  <1>1. /\ cpFile \in CpFiles /\ cpFile.off \in Nat /\ cpFile.size \in Nat
        /\ cpFile.off < cpFile.size /\ link \in Links
    <2>1. /\ cpFile \in CpFiles /\ cpFile.size = Size[cpFile.id] /\ cpFile.id \in Files
      BY DEF FileInv, CpSane
    <2>2. Together(cpFile.off) \/ cpFile.off = 0
      BY DEF InStep
    <2> QED  BY <2>1, <2>2 DEF Together, CpFiles, FileInv, LinkSane
  <1>2. len \in Nat /\ len > 0
    BY <1>1
  <1>3. n.len = len
    BY <1>1 DEF CpFiles
  <1> HIDE DEF len
  <1>4. cpFile' = n /\ Transmit("FILETRANSFER", FileTransfer(n))
    BY <1>2, <1>3, Disturbs DEF TxBuild, len
  <1>5. /\ cpFile'.st = "INPROG" /\ cpFile'.id = cpFile.id /\ cpFile'.size = cpFile.size
        /\ cpFile'.off = cpFile.off /\ cpFile'.errors = cpFile.errors
        /\ cpFile'.cancel = cpFile.cancel
    BY <1>1, <1>4 DEF CpFiles
  <1>6. line'.kind = "FILETRANSFER" /\ link'.phy = "reply" /\ link'.cmd = "FILETRANSFER"
    BY <1>1, <1>4 DEF Transmit, FileTransfer, Links
  <1>7. Together(cpFile.off)' <=> Together(cpFile.off)
    BY <1>5 DEF Together
  <1> HIDE DEF n
  <1> QED  BY <1>5, <1>6, <1>7 DEF InStep

\* The status of a chunk brings the sender to where the receiver is.
LEMMA ReceiveInStep ==
    ASSUME StepInv, Undisturbed, CpReceive
    PROVE  InStep'
  <1> USE DEF StepInv
  <1>1. /\ line' = Quiet /\ UNCHANGED <<pdFile, content>> /\ line'.kind = "quiet"
        /\ link' \in {LinkUp, Offline} /\ link'.phy = "idle"
    BY Kinds DEF CpReceive, LinkUp, Offline
  <1>2. CASE line.kind # "FTSTAT"
    <2>1. cpFile' = cpFile
      BY <1>2 DEF CpReceive
    <2> QED  BY <1>1, <1>2, <2>1 DEF InStep, Together
  <1>3. CASE line.kind = "FTSTAT"
    <2> DEFINE m == [cpFile EXCEPT !.off = @ + cpFile.len, !.len = 0, !.errors = 0]
    <2>1. /\ cpFile \in CpFiles /\ cpFile.st = "INPROG" /\ cpFile' = StatDecode(cpFile, line.status)
      BY <1>3 DEF CpReceive, FileInv, CpSane, LineSane
    <2>2. /\ m.off = cpFile.off + cpFile.len /\ m.size = cpFile.size /\ m.errors = 0
          /\ m.st = "INPROG" /\ m.id = cpFile.id /\ m.cancel = cpFile.cancel
      BY <2>1 DEF CpFiles
    <2>3. m \in [st : States, id : Files \cup {NoFile}, size : Nat, off : Nat, len : Nat,
                 open : BOOLEAN, errors : Nat, cancel : BOOLEAN]
      <3>1. cpFile.off + cpFile.len \in Nat
        BY <2>1 DEF CpFiles
      <3> QED  BY <2>1, <3>1 DEF CpFiles
    <2>4. CASE line.status = "ACK"
      <3>1. Together(m.off) /\ m.off # m.size
        <4> HIDE DEF m
        <4>1. Together(cpFile.off + cpFile.len)
          BY <1>3, <2>4 DEF InStep
        <4>2. m.off < cpFile.size
          BY <2>2, <4>1 DEF Together
        <4>3. m.off \in Nat /\ cpFile.size \in Nat
          BY <2>1, <2>2, <2>3
        <4> QED  BY <2>2, <4>1, <4>2, <4>3 DEF Together
      <3>2. cpFile' = m
        BY <2>1, <3>1 DEF StatDecode
      <3> HIDE DEF m
      <3>3. Together(cpFile.off)'
        BY <1>1, <2>2, <3>1, <3>2 DEF Together
      <3> QED  BY <1>1, <2>2, <3>2, <3>3 DEF InStep
    <2>5. CASE line.status # "ACK"
      <3>1. /\ pdFile.st # "INPROG" /\ m.off = m.size
            /\ content = Bytes(cpFile.id, 0, cpFile.size)
        BY <1>3, <2>2, <2>5 DEF InStep
      <3>2. line.status = "CONTENTS_PROCESSED"
        BY <1>3, <2>5, Kinds DEF FileInv, LineSane, Packets
      <3>3. cpFile' = [m EXCEPT !.open = FALSE, !.st = "DONE"]
        BY <2>1, <3>1, <3>2 DEF StatDecode
      <3> HIDE DEF m
      <3>4. /\ cpFile'.st = "DONE" /\ cpFile'.id = m.id /\ cpFile'.size = m.size
            /\ cpFile'.errors = 0 /\ cpFile'.cancel = m.cancel
        BY <2>2, <2>3, <3>3
      <3> QED  BY <1>1, <2>2, <3>1, <3>4 DEF InStep
    <2> QED  BY <2>4, <2>5
  <1> QED  BY <1>2, <1>3

\* A chunk that is written brings the receiver ahead of the sender by that chunk.
LEMMA WriteInStep ==
    ASSUME StepInv, Undisturbed, PdWrite
    PROVE  InStep'
  <1> USE DEF StepInv
  <1> DEFINE off == cpFile.off
             len == cpFile.len
             d == TxDecodeOpen(line)
             e == [d EXCEPT !.len = line.len]
             k == [e EXCEPT !.off = @ + e.len, !.len = 0]
             n == StatBuild(e)
  <1>1. /\ cpFile \in CpFiles /\ cpFile.st = "INPROG" /\ off \in Nat /\ len \in Nat
        /\ cpFile.size \in Nat /\ off + len <= cpFile.size
        /\ line.id = cpFile.id /\ line.off = off /\ line.len = len /\ line.size = cpFile.size
        /\ line.kind = "FILETRANSFER"
    BY DEF PdWrite, FileInv, LineSane, CpSane, CpFiles, FileTransfer
  <1>2. /\ pdFile' = n /\ UNCHANGED <<cpFile, link>>
        /\ content' = Bytes(cpFile.id, off, len)
                        \cup (IF pdFile.st = "INPROG" THEN content ELSE {})
        /\ line' = IF n.off > n.size THEN Quiet
                   ELSE FtStat(IF n.st = "DONE" THEN "CONTENTS_PROCESSED" ELSE "ACK")
    BY <1>1 DEF PdWrite
  <1>3. d \in PdFiles /\ d.st = "INPROG"
    BY <1>1, OpenSane DEF FileInv
  <1>4. d.size = cpFile.size /\ d.off = off
    <2>1. CASE pdFile.st = "INPROG"
      BY <1>1, <2>1 DEF InStep, Together, TxDecodeOpen
    <2>2. CASE pdFile.st # "INPROG"
      <3>1. off = 0
        BY <1>1, <2>2 DEF InStep, Together
      <3>2. d = [Idle EXCEPT !.id = line.id, !.size = line.size, !.st = "INPROG", !.open = TRUE]
        BY <2>2 DEF TxDecodeOpen
      <3> HIDE DEF d
      <3> QED  BY <1>1, <3>1, <3>2 DEF Idle
    <2> QED  BY <2>1, <2>2
  <1>5. content' = Bytes(cpFile.id, 0, off + len)
    <2>1. Bytes(cpFile.id, 0, off + len) = Bytes(cpFile.id, off, len) \cup Bytes(cpFile.id, 0, off)
      <3>1. off \in Nat /\ len \in Nat
        BY <1>1
      <3> HIDE DEF off, len
      <3> QED  BY <3>1, BytesSplit
    <2>2. CASE pdFile.st = "INPROG"
      <3>1. content = Bytes(cpFile.id, 0, off)
        BY <1>1, <2>2 DEF InStep, Together
      <3> QED  BY <1>2, <2>1, <2>2, <3>1
    <2>3. CASE pdFile.st # "INPROG"
      <3>1. off = 0
        BY <1>1, <2>3 DEF InStep, Together
      <3>2. Bytes(cpFile.id, 0, off) = {}
        BY <3>1, NothingSent
      <3> HIDE DEF off, len
      <3> QED  BY <1>2, <2>1, <2>3, <3>2
    <2> QED  BY <2>2, <2>3
  <1> HIDE DEF d
  <1>6. /\ e.len = len /\ k.off = off + len /\ k.size = cpFile.size /\ k.st = "INPROG"
        /\ k \in [st : States, id : Files \cup {NoFile}, size : Nat, off : Nat, len : Nat,
                  open : BOOLEAN]
        /\ n = IF k.off = k.size THEN [k EXCEPT !.open = FALSE, !.st = "DONE"] ELSE k
    <2>1. /\ e.len = len /\ e.off = off /\ e.size = cpFile.size /\ e.st = "INPROG"
          /\ e \in [st : States, id : Files \cup {NoFile}, size : Nat, off : Nat, len : Nat,
                    open : BOOLEAN]
      BY <1>1, <1>3, <1>4 DEF PdFiles
    <2>2. n = IF k.off = k.size THEN [k EXCEPT !.open = FALSE, !.st = "DONE"] ELSE k
      BY DEF StatBuild
    <2> HIDE DEF e
    <2>3. e.off + e.len \in Nat
      BY <1>1, <2>1
    <2>4. k \in [st : States, id : Files \cup {NoFile}, size : Nat, off : Nat, len : Nat,
                 open : BOOLEAN]
      BY <2>1, <2>3
    <2>5. k.off = off + len /\ k.size = cpFile.size /\ k.st = "INPROG"
      BY <2>1
    <2> HIDE DEF n
    <2> QED  BY <2>1, <2>2, <2>4, <2>5
  <1> HIDE DEF e, k, n, off, len
  <1>7. CASE k.off = k.size
    <2>1. n.st = "DONE" /\ n.off = k.off /\ n.size = k.size
      BY <1>6, <1>7
    <2>2. line' = FtStat("CONTENTS_PROCESSED")
      BY <1>1, <1>2, <1>6, <2>1
    <2>3. line'.kind = "FTSTAT" /\ line'.status = "CONTENTS_PROCESSED"
      BY <2>2 DEF FtStat
    <2> QED  BY <1>1, <1>2, <1>5, <1>6, <1>7, <2>1, <2>3 DEF InStep, off, len
  <1>8. CASE k.off # k.size
    <2>1. n = k
      BY <1>6, <1>8
    <2>2. line' = FtStat("ACK")
      <3>1. k.off <= k.size
        BY <1>1, <1>6
      <3>2. ~(n.off > n.size) /\ n.st # "DONE"
        <4>1. k.off \in Nat /\ k.size \in Nat /\ k.st = "INPROG"
          BY <1>1, <1>6
        <4> QED  BY <2>1, <3>1, <4>1
      <3> QED  BY <1>2, <3>2
    <2>3. line'.kind = "FTSTAT" /\ line'.status = "ACK"
      BY <2>2 DEF FtStat
    <2>4. k.off < k.size
      BY <1>1, <1>6, <1>8
    <2>5. Together(cpFile.off + cpFile.len)'
      BY <1>1, <1>2, <1>5, <1>6, <2>1, <2>4 DEF Together, off, len
    <2> QED  BY <1>1, <1>2, <1>6, <2>1, <2>3, <2>4, <2>5 DEF InStep
  <1> QED  BY <1>7, <1>8

LEMMA StepKept ==
    ASSUME StepInv, Undisturbed, Undisturbed', Next
    PROVE  InStep'
  <1> USE DEF StepInv
  <1>1. ASSUME NEW f \in Files, TxCommand(f) PROVE InStep'
    <2>1. /\ cpFile' = [CpIdle EXCEPT !.st = "INPROG", !.id = f, !.size = Size[f], !.open = TRUE]
          /\ cpFile.st # "INPROG" /\ UNCHANGED <<link, pdFile, line, content>>
      BY <1>1 DEF TxCommand
    <2>2. cpFile'.st = "INPROG" /\ cpFile'.off = 0 /\ cpFile'.errors = 0 /\ ~cpFile'.cancel
      BY <2>1 DEF CpIdle
    <2>3. line.kind # "FTSTAT" /\ link.phy = "idle"
      BY <2>1 DEF FileInv, LineSane, InStep
    <2> QED  BY <2>1, <2>2, <2>3 DEF InStep
  <1>2. CASE CpSend
    <2>1. cpFile \in CpFiles /\ cpFile.errors = 0 /\ ~(0 > MaxErrors) /\ ~cpFile.cancel
      BY DEF FileInv, CpSane, InStep
    <2>2. TxBuild /\ cpFile.st = "INPROG" /\ link.phy = "idle"
      BY <1>2, <2>1 DEF CpSend
    <2>3. line.kind = "quiet"
      BY <2>2 DEF FileInv, LineSane
    <2> QED  BY <1>2, <2>2, <2>3, BuildInStep DEF CpSend
  <1>3. CASE CpResend
    <2>1. link.phy = "wait" /\ link.cmd = "FILETRANSFER"
      BY <1>3 DEF CpResend, InStep
    <2>2. TxBuild /\ cpFile.st = "INPROG"
      BY <1>3, <2>1 DEF CpResend
    <2>3. line.kind = "quiet"
      BY <2>1 DEF FileInv, LineSane
    <2> QED  BY <1>3, <2>2, <2>3, BuildInStep DEF CpResend
  <1>4. ASSUME CpBug PROVE FALSE
    BY <1>4 DEF CpBug, InStep
  <1>5. CASE CpTimeout
    <2>1. /\ UNCHANGED <<cpFile, pdFile, line, content>>
          /\ link'.phy = "idle" \/ (link'.cmd = link.cmd /\ link.phy = "reply")
      BY <1>5, LinksAtRest DEF CpTimeout, FileInv, LinkSane, Links
    <2> QED  BY <2>1 DEF InStep, Together
  <1>6. CASE CpReceive
    BY <1>6, ReceiveInStep
  <1>7. CASE CpOnline
    <2>1. /\ UNCHANGED <<cpFile, pdFile, line, content>> /\ link'.phy = "idle"
      BY <1>7 DEF CpOnline, LinkUp
    <2> QED  BY <2>1 DEF InStep, Together
  <1>8. CASE PdWrite
    BY <1>8, WriteInStep
  <1>9. ASSUME PdAbort \/ PdAssert PROVE FALSE
    <2>1. pdFile.off \in Nat /\ pdFile.size \in Nat
      BY DEF FileInv, PdSane, PdFiles
    <2> QED  BY <1>9, <2>1 DEF PdAbort, PdAssert, InStep
  <1>10. CASE CommandLost
    <2>1. /\ UNCHANGED <<cpFile, link, pdFile, content>> /\ line.kind # "FTSTAT"
          /\ line'.kind \notin {"FTSTAT", "ABORT"}
      BY <1>10, Kinds DEF CommandLost, CommandOnLine
    <2> QED  BY <2>1 DEF InStep, Together
  <1>11. ASSUME TxCancel \/ CpRestart \/ PdWriteFails \/ PdCloseFails \/ PdDeclines \/ PdRestart
               \/ ReplyLost
         PROVE  FALSE
    BY <1>11, Disturbs DEF TxCancel, CpRestart, PdWriteFails, PdCloseFails, PdDeclines, PdRestart,
                           ReplyLost
  <1> QED  BY <1>1, <1>2, <1>3, <1>4, <1>5, <1>6, <1>7, <1>8, <1>9, <1>10, <1>11
           DEF Next, CpStep, PdStep

-----------------------------------------------------------------------------
(* The theorems                                                            *)

\* Both ends keep their types, and the CP never counts or reads past the end of its file,
\* whatever is lost, refused, cancelled, restarted or fails.
THEOREM FileTypeCorrect == Spec => []TypeOK
<1>1. FileInv => TypeOK
  BY DEF FileInv, CpSane, LinkSane, PdSane, BytesSane, TypeOK
<1> QED  BY Invariance, <1>1, PTL

\* Every byte the sender counts was written by the receiver at some time of this transfer.
THEOREM SentWritten == Spec => []SentIsWritten
<1>1. FileInv => SentIsWritten
  BY DEF FileInv
<1> QED  BY Invariance, <1>1, PTL

\* Outside a transfer the receiver's file is closed.
THEOREM FileClosed == Spec => []ReceiverCloses
<1>1. FileInv => ReceiverCloses
  BY DEF FileInv, PdSane
<1> QED  BY Invariance, <1>1, PTL

\* A transfer that nothing but lost and refused commands disturbed left the whole file, and
\* nothing else, with the receiver when the sender reports it done.
THEOREM DoneComplete == Spec => []DoneIsComplete
<1>1. Init => StepInv
  <2> SUFFICES ASSUME Init PROVE StepInv  OBVIOUS
  <2>1. used \in [Stimuli -> Nat]
    BY DEF Init
  <2>2. InStep
    BY Kinds DEF Init, InStep, CpIdle, Idle, LinkUp
  <2> QED  BY <2>1, <2>2, InitSane DEF StepInv
<1>2. StepInv /\ [Next]_vars => StepInv'
  <2> SUFFICES ASSUME StepInv, [Next]_vars PROVE StepInv'  OBVIOUS
  <2>1. FileInv'
    BY StepKeepsInv DEF StepInv
  <2>2. used' \in [Stimuli -> Nat] /\ \A z \in Stimuli : used[z] <= used'[z]
    BY UsesGrow DEF StepInv
  <2>3. Undisturbed' => Undisturbed
    BY <2>2 DEF StepInv, Undisturbed, Stimuli
  <2>4. ASSUME Undisturbed' PROVE InStep'
    <3>1. CASE Next
      BY <2>3, <2>4, <3>1, StepKept
    <3>2. CASE UNCHANGED vars
      BY <2>3, <2>4, <3>2 DEF vars, StepInv, InStep, Together
    <3> QED  BY <3>1, <3>2
  <2> QED  BY <2>1, <2>2, <2>4 DEF StepInv
<1>3. StepInv => DoneIsComplete
  BY DEF StepInv, InStep, DoneIsComplete
<1> QED  BY <1>1, <1>2, <1>3, PTL DEF Spec

=============================================================================
