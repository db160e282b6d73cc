--------------------------- MODULE NfcReaderProofs ---------------------------
(***************************************************************************)
(* Theorems about NfcReader, for either driver, any kinds of card, any     *)
(* length of APDUs and their answers, and any number of cards, APDUs,      *)
(* lost and late answers and extensions of the waiting time: a card        *)
(* carries an APDU out at most once, and an exchange that succeeds before  *)
(* any has failed brings the whole answer of its own APDU.                 *)
(***************************************************************************)
EXTENDS NfcReader, TLAPS

USE NfcAssumption

TaskFields == {"pc", "inField", "empty", "level", "op", "no", "n", "tx", "rx", "sent", "got",
               "chain", "clean"}
CardFields == {"kind", "st", "level", "blk", "n", "i", "of"}

-----------------------------------------------------------------------------
(* The inductive invariant                                                 *)

CardShape(c) == c # NoCard => DOMAIN c = CardFields

Shapes ==
    /\ drv \in {"pn5180", "pn532"} /\ DOMAIN task = TaskFields /\ CardShape(card)
    /\ g \in [active : BOOLEAN, blk : {0, 1}]
    /\ task.chain \in BOOLEAN /\ task.clean \in BOOLEAN
    /\ DOMAIN used = Stimuli /\ used["apdu"] \in 0..MaxApdus
    /\ ran \in [1..MaxApdus -> {0, 1}]

\* Where a driver can be; an answer is still to come only after an exchange that has failed.
Places ==
    /\ task.pc \in {"reqa", "ac", "sel", "rats"} => ~g.active /\ drv = "pn5180" /\ task.clean
    /\ task.pc = "wtx" => drv = "pn5180" /\ g.active
    /\ drv = "pn532" => ~task.chain
    /\ task.pc = "find" => drv = "pn532"
    /\ task.pc \in {"boot", "dead", "poll", "find"} => task.clean
    /\ task.clean \/ drv = "pn532" => late = NoFrame

\* The APDU in hand is the last one and none that has ended; it has been carried out only if
\* its last block has gone out.
Numbered ==
    /\ \A n \in 1..MaxApdus : n > used["apdu"] => ran[n] = 0
    /\ exch.n \in 0..used["apdu"] /\ (exch.ok => exch.n # 0)
    /\ task.pc \in {"apdu", "wtx"} =>
         /\ task.n \in 1..used["apdu"] /\ exch.n < task.n
         /\ task.tx \in 1..MaxBlocks /\ task.rx \in 1..MaxBlocks /\ task.sent \in 0..task.tx
    /\ task.pc = "apdu" /\ ~task.chain => task.sent < task.tx /\ ran[task.n] = 0
    /\ task.pc = "wtx" /\ ~task.chain => task.sent = task.tx

\* What has been read is the first part of the answer.
Parts(s, n) == s \in Seq({n} \X Nat) /\ \A i \in 1..Len(s) : s[i] = <<n, i>>
AnswerSoFar ==
    task.clean /\ task.pc \in {"apdu", "wtx"} =>
        /\ Parts(task.got, task.n)
        /\ task.chain \/ task.pc = "wtx" => ran[task.n] = 1 /\ Len(task.got) < task.rx
        /\ ~task.chain => task.got = <<>>

\* A card that is still in the protocol is where the driver takes it to be.
InStep ==
    /\ drv = "pn5180" /\ task.clean /\ g.active /\ task.pc \in {"access", "apdu", "wtx"}
    /\ card # NoCard /\ card.st = "proto"
    => /\ card.blk = IF task.pc = "wtx" THEN g.blk ELSE 1 - g.blk
       /\ task.pc = "wtx" \/ (task.pc = "apdu" /\ task.chain) =>
            /\ card.n = task.n /\ card.of = task.rx
            /\ card.i = IF task.pc = "wtx" THEN Len(task.got) + 1 ELSE Len(task.got)

NfcInv == Shapes /\ Places /\ Numbered /\ AnswerSoFar /\ InStep /\ AnswerIsOurs

-----------------------------------------------------------------------------
(* What a card does with a frame                                           *)

\* A card stays one, and carries out only the last block of an APDU.
LEMMA ReactsShape ==
    ASSUME CardShape(card), NEW f
    PROVE  LET r == Reacts(card, f) IN
           /\ CardShape(r.c)
           /\ r.n = 0 \/ (f.k = "I" /\ ~f.more /\ r.n = f.n)
  <1> USE DEF CardFields, Reaction, Silent
  <1>1. CASE card = NoCard
    BY <1>1 DEF Reacts, CardShape
  <1>2. CASE card # NoCard
    <2>1. DOMAIN card = CardFields
      BY <1>2 DEF CardShape
    <2>2. \A c : DOMAIN c = CardFields => c # NoCard
      BY DEF NoCard
    <2>3. CASE card.st = "proto"
      <3>1. LET r == Protocol(card, f) IN
            /\ DOMAIN r.c = CardFields
            /\ r.n = 0 \/ (f.k = "I" /\ ~f.more /\ r.n = f.n)
        BY <2>1 DEF Protocol
      <3> QED  BY <1>2, <2>3, <3>1 DEF Reacts, CardShape
    <2>4. CASE card.st # "proto"
      <3>1. LET r == Reacts(card, f) IN DOMAIN r.c = CardFields /\ r.n = 0
        BY <1>2, <2>1, <2>4 DEF Reacts
      <3> QED  BY <3>1 DEF CardShape
    <2> QED  BY <2>3, <2>4
  <1> QED  BY <1>1, <1>2

\* A block of an APDU, in a card that is in step or out of the protocol.
LEMMA ReactsToBlock ==
    ASSUME CardShape(card), NEW b \in {0, 1}, NEW n, NEW i, NEW more \in BOOLEAN,
           card # NoCard /\ card.st = "proto" => card.blk = 1 - b
    PROVE  LET r == Reacts(card, IBlock(b, n, i, more)) IN
           /\ r.ans.k = "R" => /\ more /\ r.n = 0
                               /\ r.c # NoCard /\ r.c.st = "proto" => r.c.blk = b
           /\ r.ans.k = "I" => /\ ~more /\ r.n = n /\ r.ans.n = n /\ r.ans.i = 1
                               /\ r.ans.more = (1 < task.rx)
                               /\ r.c # NoCard /\ r.c.st = "proto" =>
                                    /\ r.c.blk = b /\ r.c.n = n /\ r.c.of = task.rx
                                    /\ r.c.i = 1
  <1> USE DEF CardFields, Reaction, Silent
  <1> DEFINE f == IBlock(b, n, i, more)
  <1>1. f.k = "I" /\ f.more = more /\ f.n = n
    BY DEF IBlock
  <1> HIDE DEF f
  <1>2. CASE card # NoCard /\ card.st = "proto"
    <2>1. Reacts(card, f) = Protocol(card, f) /\ DOMAIN card = CardFields
      BY <1>2 DEF Reacts, CardShape
    <2> DEFINE t == [card EXCEPT !.blk = 1 - @]
               a == [t EXCEPT !.n = n, !.i = 1, !.of = task.rx]
    <2>2. /\ DOMAIN t = CardFields /\ t.blk = b
          /\ DOMAIN a = CardFields /\ a.blk = b /\ a.n = n /\ a.i = 1 /\ a.of = task.rx
      BY <1>2, <2>1
    <2>3. CASE more
      <3>1. Protocol(card, f) = Reaction(t, RAck(t.blk), 0)
        BY <1>1, <2>3 DEF Protocol
      <3> HIDE DEF a, t
      <3>2. RAck(t.blk).k = "R"
        BY DEF RAck
      <3>3. LET r == Reacts(card, f) IN r.ans.k = "R" /\ r.n = 0 /\ r.c = t
        BY <2>1, <3>1, <3>2
      <3> QED  BY <2>2, <2>3, <3>3 DEF f
    <2>4. CASE ~more
      <3>1. Protocol(card, f) = Reaction(a, AnswerBlock(a, n, 1), n)
        BY <1>1, <2>4 DEF Protocol
      <3> HIDE DEF a, t
      <3>2. /\ AnswerBlock(a, n, 1).k = "I" /\ AnswerBlock(a, n, 1).n = n
            /\ AnswerBlock(a, n, 1).i = 1 /\ AnswerBlock(a, n, 1).more = (1 < task.rx)
        BY <2>2 DEF AnswerBlock, IBlock
      <3>3. LET r == Reacts(card, f) IN
            /\ r.ans.k = "I" /\ r.n = n /\ r.ans.n = n /\ r.ans.i = 1
            /\ r.ans.more = (1 < task.rx)
            /\ r.c = a
        BY <2>1, <3>1, <3>2
      <3> QED  BY <2>2, <2>4, <3>3 DEF f
    <2> QED  BY <2>3, <2>4
  <1>3. CASE ~(card # NoCard /\ card.st = "proto")
    <2>1. Reacts(card, f).ans.k = "none"
      BY <1>1, <1>3 DEF Reacts, NoFrame, Frame
    <2> QED  BY <2>1 DEF f
  <1> QED  BY <1>2, <1>3

\* Where a card that is in the protocol stands: its block number, its APDU, the length of the
\* answer and the part last given; and a reaction that brings part i and leaves it there.
Stands(c, b, n, of, i) ==
    c # NoCard /\ c.st = "proto" => c.blk = b /\ c.n = n /\ c.of = of /\ c.i = i
Brings(r, b, n, of, i) ==
    r.ans.k = "I" => /\ r.ans.n = n /\ r.ans.i = i /\ r.ans.more = (i < of)
                     /\ Stands(r.c, b, n, of, i)

\* The acknowledgement of a block, likewise.
LEMMA ReactsToAck ==
    ASSUME CardShape(card), NEW b \in {0, 1}, NEW n, NEW of, NEW i \in Nat,
           Stands(card, 1 - b, n, of, i)
    PROVE  LET r == Reacts(card, RAck(b)) IN
           r.ans.k \in {"none", "I"} /\ r.n = 0 /\ Brings(r, b, n, of, i + 1)
  <1> USE DEF CardFields, Reaction, Silent, Brings, Stands
  <1> DEFINE f == RAck(b)
  <1>1. f.k = "R" /\ f.b = b
    BY DEF RAck
  <1> HIDE DEF f
  <1>2. CASE card # NoCard /\ card.st = "proto"
    <2>1. Reacts(card, f) = Protocol(card, f) /\ DOMAIN card = CardFields
      BY <1>2 DEF Reacts, CardShape
    <2> DEFINE t == [card EXCEPT !.blk = 1 - @]
               a == [t EXCEPT !.i = @ + 1]
    <2>2. /\ DOMAIN t = CardFields /\ t.blk = b /\ t.n = n /\ t.i = i /\ t.of = of
          /\ DOMAIN a = CardFields /\ a.blk = b /\ a.n = n /\ a.i = i + 1 /\ a.of = of
      BY <1>2, <2>1
    <2>3. b # card.blk
      BY <1>2
    <2>4. CASE i < of
      <3>1. Protocol(card, f) = Reaction(a, AnswerBlock(t, n, i + 1), 0)
        BY <1>1, <1>2, <2>3, <2>4 DEF Protocol
      <3> HIDE DEF a, t
      <3>2. /\ AnswerBlock(t, n, i + 1).k = "I" /\ AnswerBlock(t, n, i + 1).n = n
            /\ AnswerBlock(t, n, i + 1).i = i + 1
            /\ AnswerBlock(t, n, i + 1).more = (i + 1 < of)
        BY <2>2 DEF AnswerBlock, IBlock
      <3> QED  BY <2>1, <2>2, <3>1, <3>2 DEF f
    <2>5. CASE ~(i < of)
      <3>1. Protocol(card, f) = Silent(card)
        BY <1>1, <1>2, <2>3, <2>5 DEF Protocol
      <3> QED  BY <2>1, <3>1 DEF NoFrame, Frame, f
    <2> QED  BY <2>4, <2>5
  <1>3. CASE ~(card # NoCard /\ card.st = "proto")
    <2>1. Reacts(card, f).ans.k = "none" /\ Reacts(card, f).n = 0
      BY <1>1, <1>3 DEF Reacts, NoFrame, Frame
    <2> QED  BY <2>1 DEF f
  <1> QED  BY <1>2, <1>3

\* More time, likewise.
LEMMA ReactsToWtx ==
    ASSUME CardShape(card)
    PROVE  LET r == Reacts(card, Frame("WTX")) IN
           /\ r.ans.k \in {"none", "I"} /\ r.n = 0
           /\ r.ans.k = "I" => /\ card # NoCard /\ card.st = "proto" /\ r.c = card
                               /\ r.ans.n = card.n /\ r.ans.i = card.i
                               /\ r.ans.more = (card.i < card.of)
  <1> USE DEF CardFields, Reaction, Silent
  <1> DEFINE f == Frame("WTX")
  <1>1. f.k = "WTX"
    BY DEF Frame
  <1> HIDE DEF f
  <1>2. CASE card # NoCard /\ card.st = "proto"
    <2>1. Reacts(card, f) = Protocol(card, f)
      BY <1>2 DEF Reacts
    <2>2. Protocol(card, f) = Reaction(card, AnswerBlock(card, card.n, card.i), 0)
      BY <1>1 DEF Protocol
    <2> QED  BY <1>2, <2>1, <2>2 DEF AnswerBlock, IBlock, f
  <1>3. CASE ~(card # NoCard /\ card.st = "proto")
    <2>1. Reacts(card, f).ans.k = "none" /\ Reacts(card, f).n = 0
      BY <1>1, <1>3 DEF Reacts, NoFrame, Frame
    <2> QED  BY <2>1 DEF f
  <1> QED  BY <1>2, <1>3

\* RATS: a card that answers starts the protocol.
LEMMA ReactsToRats ==
    ASSUME CardShape(card)
    PROVE  LET r == Reacts(card, Frame("RATS")) IN
           r.ans.k = "ATS" => (r.c # NoCard /\ r.c.st = "proto" => r.c.blk = 1)
  <1> USE DEF CardFields, Reaction, Silent
  <1> DEFINE f == Frame("RATS")
  <1>1. f.k = "RATS"
    BY DEF Frame
  <1> HIDE DEF f
  <1>2. CASE card # NoCard /\ card.st = "proto"
    <2>1. Reacts(card, f) = Silent(card)
      BY <1>1, <1>2 DEF Reacts, Protocol
    <2> QED  BY <2>1 DEF NoFrame, Frame, f
  <1>3. CASE card # NoCard /\ card.st = "active" /\ card.kind.iso4
    <2>1. DOMAIN card = CardFields
      BY <1>3 DEF CardShape
    <2>2. Reacts(card, f).c = [card EXCEPT !.st = "proto", !.blk = 1]
      BY <1>1, <1>3 DEF Reacts
    <2> QED  BY <2>1, <2>2 DEF f
  <1>4. CASE /\ ~(card # NoCard /\ card.st = "proto")
             /\ ~(card # NoCard /\ card.st = "active" /\ card.kind.iso4)
    <2>1. Reacts(card, f).ans = NoFrame
      BY <1>1, <1>4 DEF Reacts
    <2> QED  BY <2>1 DEF NoFrame, Frame, f
  <1> QED  BY <1>2, <1>3, <1>4

-----------------------------------------------------------------------------

(* A frame goes out                                                        *)

LEMMA Uses ==
    ASSUME NEW s, s # "apdu", NEW max, DOMAIN used = Stimuli, Use(s, max)
    PROVE  DOMAIN used' = Stimuli /\ used'["apdu"] = used["apdu"]
  BY DEF Use, Stimuli

\* The card does not change but by the frame, nor without its counting; with none to come an
\* answer that is read is the card's.
LEMMA Sends ==
    ASSUME Shapes, NEW f, NEW ans, Transceive(f, ans)
    PROVE  LET r == Reacts(card, f) IN
           /\ CardShape(card') /\ drv' = drv
           /\ DOMAIN used' = Stimuli /\ used'["apdu"] = used["apdu"]
           /\ UNCHANGED ran \/ Count(r.n)
           /\ late = NoFrame /\ ans # NoFrame =>
                ans = r.ans /\ card' = r.c /\ Count(r.n) /\ late' = NoFrame
  <1>1. /\ CardShape(card) /\ CardShape(Reacts(card, f).c) /\ DOMAIN used = Stimuli
    BY ReactsShape DEF Shapes
  <1>2. UNCHANGED used \/ Use("fault", MaxFaults) \/ Use("late", MaxLate)
    BY DEF Transceive
  <1>3. DOMAIN used' = Stimuli /\ used'["apdu"] = used["apdu"]
    BY <1>1, <1>2, Uses
  <1> QED  BY <1>1, <1>3 DEF Transceive

\* No block, and so nothing that is counted.
LEMMA SendsPlain ==
    ASSUME Shapes, NEW k, k # "I", NEW ans, Transceive(Frame(k), ans)
    PROVE  UNCHANGED ran
  <1>1. Frame(k).k # "I"
    BY DEF Frame
  <1>2. Reacts(card, Frame(k)).n = 0
    BY <1>1, ReactsShape DEF Shapes
  <1> QED  BY <1>2, Sends DEF Count

-----------------------------------------------------------------------------
(* Between exchanges                                                       *)

Same == ran' = ran /\ exch' = exch /\ DOMAIN used' = Stimuli /\ used'["apdu"] = used["apdu"]

LEMMA AtRest ==
    ASSUME NfcInv, Same, Shapes', Places', task'.pc \notin {"apdu", "wtx"},
           task'.pc = "access" => InStep'
    PROVE  NfcInv'
  <1>1. Numbered'
    BY DEF NfcInv, Numbered, Same
  <1>2. AnswerSoFar' /\ (task'.pc # "access" => InStep')
    BY DEF AnswerSoFar, InStep
  <1>3. AnswerIsOurs'
    BY DEF NfcInv, AnswerIsOurs, Same
  <1> QED  BY <1>1, <1>2, <1>3 DEF NfcInv

\* The task at the top of its loop, or with a card that it has just found.
LEMMA Looked ==
    ASSUME NEW e, Found(e)
    PROVE  /\ DOMAIN task' = TaskFields /\ task'.pc \in {"poll", "access"}
           /\ task'.clean = TRUE /\ task'.chain = FALSE
           /\ e # "OK" => task'.pc = "poll"
  BY DEF Found, AfterFind, Idle, TaskFields

LEMMA IdleShape ==
    ASSUME NEW x, NEW y, task' = Idle(x, y)
    PROVE  /\ DOMAIN task' = TaskFields /\ task'.pc = "poll"
           /\ task'.clean = TRUE /\ task'.chain = FALSE
  BY DEF Idle, TaskFields

LEMMA CardShapes ==
    ASSUME CardShape(card)
    PROVE  /\ CardShape(Powered(card)) /\ CardShape(Unpowered(card))
           /\ \A kind : CardShape(Fresh(kind)) /\ CardShape(Powered(Fresh(kind)))
  BY DEF CardShape, Powered, Unpowered, Fresh, CardFields

LEMMA UsersStep ==
    ASSUME NfcInv, (\E kind \in Kinds : Place(kind)) \/ Remove
    PROVE  NfcInv'
  <1>1. CASE \E kind \in Kinds : Place(kind)
    <2>1. PICK kind \in Kinds :
            /\ Use("place", MaxPlaced) /\ UNCHANGED <<drv, g, late, task, ran, exch>>
            /\ card' = IF rf THEN Powered(Fresh(kind)) ELSE Fresh(kind)
      BY <1>1 DEF Place, driver
    <2>2. DOMAIN used' = Stimuli /\ used'["apdu"] = used["apdu"]
      BY <2>1, Uses DEF NfcInv, Shapes
    <2>3. CardShape(card') /\ card'.st # "proto"
      <3>1. CardShape(card')
        BY <2>1, CardShapes DEF NfcInv, Shapes
      <3>2. Fresh(kind).st = "off" /\ Powered(Fresh(kind)).st # "proto"
        BY DEF Fresh, Powered
      <3> QED  BY <2>1, <3>1, <3>2
    <2> QED  BY <2>1, <2>2, <2>3
             DEF NfcInv, Shapes, Places, Numbered, AnswerSoFar, InStep, AnswerIsOurs
  <1>2. CASE Remove
    <2>1. /\ card' = NoCard /\ late' = NoFrame
          /\ UNCHANGED <<drv, g, task, ran, exch, used>>
      BY <1>2 DEF Remove, driver
    <2> QED  BY <2>1
             DEF NfcInv, Shapes, CardShape, Places, Numbered, AnswerSoFar, InStep, AnswerIsOurs
  <1> QED  BY <1>1, <1>2

LEMMA LoopStep ==
    ASSUME NfcInv, \/ Init5180 \/ Init532 \/ AccessDone
                   \/ \E op \in {"idle", "read", "write"} : Access(op)
    PROVE  NfcInv'
  <1> USE DEF TaskFields
  <1>1. Shapes /\ Places /\ InStep
    BY DEF NfcInv
  <1>2. CASE Init5180 \/ Init532
    <2>1. /\ task.pc = "boot" /\ UNCHANGED <<drv, g, card, late, ran, exch>>
          /\ \/ task' = Idle(FALSE, 0) /\ UNCHANGED used
             \/ Use("fault", MaxFaults) /\ task' = [task EXCEPT !.pc = "dead"]
      BY <1>2 DEF Init5180, Init532, ChipUp, ChipFails, driver
    <2>2. Same
      BY <1>1, <2>1, Uses DEF Same, Shapes
    <2>3. /\ DOMAIN task' = TaskFields /\ task'.pc \in {"poll", "dead"}
          /\ task'.clean = TRUE /\ (task'.chain = FALSE \/ task'.chain = task.chain)
      BY <1>1, <2>1 DEF Shapes, Places, Idle
    <2> QED  BY <1>1, <2>1, <2>2, <2>3, AtRest DEF Shapes, Places, Same
  <1>3. CASE AccessDone
    <2>1. /\ task.pc = "access" /\ task' = [task EXCEPT !.pc = "release"]
          /\ UNCHANGED <<drv, g, card, late, ran, exch, used>>
      BY <1>3 DEF AccessDone, driver
    <2> QED  BY <1>1, <2>1, AtRest DEF Shapes, Places, Same
  <1>4. CASE \E op \in {"idle", "read", "write"} : Access(op)
    <2>1. PICK op \in {"idle", "read", "write"} :
            /\ task.pc = "access" /\ UNCHANGED <<drv, g, card, late, ran, exch, used>>
            /\ task' = [task EXCEPT !.op = op, !.pc = IF op = "idle" THEN "release" ELSE "access"]
      BY <1>4 DEF Access, driver
    <2>2. /\ DOMAIN task' = TaskFields /\ task'.pc \in {"release", "access"}
          /\ task'.clean = task.clean /\ task'.chain = task.chain
      BY <1>1, <2>1 DEF Shapes
    <2>3. task'.pc = "access" => InStep'
      BY <1>1, <2>1, <2>2 DEF InStep
    <2>4. Shapes' /\ Places' /\ Same
      BY <1>1, <2>1, <2>2 DEF Shapes, Places, Same
    <2> QED  BY <2>2, <2>3, <2>4, AtRest
  <1> QED  BY <1>2, <1>3, <1>4

LEMMA ApduStep ==
    ASSUME NfcInv, NEW tx \in 1..MaxBlocks, NEW rx \in 1..MaxBlocks, Apdu(tx, rx)
    PROVE  NfcInv'
  <1> USE DEF TaskFields
  <1> DEFINE u == used["apdu"]
  <1>1. /\ task.pc = "access" /\ u < MaxApdus /\ used' = [used EXCEPT !["apdu"] = u + 1]
        /\ task' = [task EXCEPT !.pc = "apdu", !.n = u + 1, !.no = @ + 1, !.tx = tx, !.rx = rx,
                                !.sent = 0, !.got = <<>>, !.chain = FALSE]
        /\ UNCHANGED <<drv, g, card, late, ran, exch>>
    BY DEF Apdu, Use, driver
  <1>2. Shapes /\ Places /\ Numbered /\ InStep /\ AnswerIsOurs /\ u \in 0..MaxApdus
    BY DEF NfcInv, Shapes
  <1>3. DOMAIN used' = Stimuli /\ used'["apdu"] = u + 1
    BY <1>1, <1>2 DEF Shapes, Stimuli
  <1>4. /\ DOMAIN task' = TaskFields /\ task'.pc = "apdu" /\ task'.n = u + 1 /\ task'.tx = tx
        /\ task'.rx = rx /\ task'.sent = 0 /\ task'.got = <<>> /\ task'.chain = FALSE
        /\ task'.clean = task.clean
    BY <1>1, <1>2 DEF Shapes
  <1>5. u + 1 \in 1..MaxApdus /\ ran[u + 1] = 0
    BY <1>1, <1>2 DEF Numbered
  <1> HIDE DEF u
  <1>6. Shapes' /\ Places'
    BY <1>1, <1>2, <1>3, <1>4, <1>5 DEF Shapes, Places
  <1>7. Numbered'
    BY <1>1, <1>2, <1>3, <1>4, <1>5 DEF Numbered, u
  <1>8. AnswerSoFar'
    BY <1>4 DEF AnswerSoFar, Parts
  <1>9. InStep'
    BY <1>1, <1>2, <1>4 DEF InStep
  <1>10. AnswerIsOurs'
    BY <1>1, <1>2 DEF AnswerIsOurs
  <1> QED  BY <1>6, <1>7, <1>8, <1>9, <1>10 DEF NfcInv

-----------------------------------------------------------------------------
(* The PN5180 activates a card                                             *)

LEMMA GivesUp ==
    ASSUME NfcInv, NEW f, NEW wanted, NEW e, e # "OK", GiveUp(f, wanted, e)
    PROVE  NfcInv'
  <1>1. /\ card' = Unpowered(card) /\ late' = NoFrame /\ Found(e)
        /\ UNCHANGED <<drv, g, ran, exch>> /\ (UNCHANGED used \/ Use("fault", MaxFaults))
    BY DEF GiveUp, ChipFails, FieldOff
  <1>2. Same /\ CardShape(card')
    BY <1>1, Uses, CardShapes DEF NfcInv, Shapes, Same
  <1>3. /\ DOMAIN task' = TaskFields /\ task'.pc = "poll" /\ task'.clean = TRUE
        /\ task'.chain = FALSE
    BY <1>1, Looked
  <1> QED  BY <1>1, <1>2, <1>3, AtRest DEF NfcInv, Shapes, Places, Same

LEMMA FieldStep ==
    ASSUME NfcInv, FieldOn
    PROVE  NfcInv'
  <1> USE DEF TaskFields
  <1>1. Shapes /\ Places
    BY DEF NfcInv
  <1>2. /\ drv = "pn5180" /\ task.pc = "poll" /\ g' = NoTarget
        /\ UNCHANGED <<drv, late, ran, exch>>
        /\ \/ /\ card' = Powered(card) /\ task' = [task EXCEPT !.pc = "reqa"] /\ UNCHANGED used
           \/ /\ card' \in {Powered(card), card} /\ Found("FAIL") /\ Use("fault", MaxFaults)
    BY DEF FieldOn, ChipFails
  <1>3. Same /\ CardShape(card') /\ g' = [active |-> FALSE, blk |-> 0]
    BY <1>1, <1>2, Uses, CardShapes DEF Shapes, Same, NoTarget
  <1>4. /\ DOMAIN task' = TaskFields /\ task'.pc \in {"reqa", "poll"} /\ task'.clean = TRUE
        /\ task'.chain \in BOOLEAN
    <2>1. CASE task' = [task EXCEPT !.pc = "reqa"]
      BY <1>1, <1>2, <2>1 DEF Shapes, Places
    <2>2. CASE Found("FAIL")
      <3>1. /\ DOMAIN task' = TaskFields /\ task'.clean = TRUE /\ task'.chain = FALSE
            /\ "FAIL" # "OK" => task'.pc = "poll"
        BY <2>2, Looked
      <3> QED  BY <3>1
    <2> QED  BY <1>2, <2>1, <2>2
  <1>5. Shapes'
    <2>1. g' \in [active : BOOLEAN, blk : {0, 1}]
      BY <1>3
    <2> QED  BY <1>1, <1>2, <1>3, <1>4, <2>1 DEF Shapes, Same
  <1>6. Places'
    BY <1>1, <1>2, <1>3, <1>4 DEF Places
  <1> QED  BY <1>3, <1>4, <1>5, <1>6, AtRest

LEMMA ActivationStep ==
    ASSUME NfcInv, Reqa \/ Anticollision \/ Select \/ Rats
    PROVE  NfcInv'
  <1> USE DEF TaskFields
  <1>1. Shapes /\ Places
    BY DEF NfcInv
  <1>2. ASSUME NEW k \in {"REQA", "AC", "SEL", "RATS"}, NEW wanted, wanted # "none", NEW ans,
               Activate(Frame(k), wanted, ans), task.pc \in {"reqa", "ac", "sel", "rats"}
        PROVE  /\ Same /\ CardShape(card') /\ drv' = drv /\ late' = NoFrame
               /\ drv = "pn5180" /\ ~g.active
               /\ ans = Reacts(card, Frame(k)).ans /\ card' = Reacts(card, Frame(k)).c
    <2>1. ans.k = wanted /\ Transceive(Frame(k), ans) /\ exch' = exch
      BY <1>2 DEF Activate
    <2>2. late = NoFrame /\ drv = "pn5180" /\ ~g.active
      BY <1>1, <1>2 DEF Places
    <2>3. ans # NoFrame
      BY <1>2, <2>1 DEF NoFrame, Frame
    <2>4. ran' = ran
      BY <1>1, <2>1, SendsPlain
    <2> QED  BY <1>1, <2>1, <2>2, <2>3, <2>4, Sends DEF Same
  <1>3. ASSUME Same, CardShape(card'), drv' = drv, late' = NoFrame, drv = "pn5180",
               g' = g, ~g.active, task.pc \in {"reqa", "ac", "sel", "rats"},
               \/ \E pc \in {"ac", "sel", "rats"} : \E l :
                      task' = [task EXCEPT !.pc = pc, !.level = l]
               \/ Found("OK")
        PROVE  NfcInv'
    <2>1. /\ DOMAIN task' = TaskFields
          /\ task'.pc \in {"ac", "sel", "rats", "poll", "access"}
          /\ task'.clean = TRUE /\ task'.chain \in BOOLEAN
      <3>1. CASE Found("OK")
        BY <3>1, Looked
      <3>2. ASSUME NEW pc \in {"ac", "sel", "rats"}, NEW l,
                   task' = [task EXCEPT !.pc = pc, !.level = l]
            PROVE  /\ DOMAIN task' = TaskFields /\ task'.pc = pc
                   /\ task'.clean = TRUE /\ task'.chain \in BOOLEAN
        BY <1>1, <1>3, <3>2 DEF Shapes, Places
      <3> QED  BY <1>3, <3>1, <3>2
    <2>2. InStep'
      BY <1>3 DEF InStep
    <2> QED  BY <1>1, <1>3, <2>1, <2>2, AtRest DEF Shapes, Places, Same
  <1>4. CASE Reqa
    <2>1. CASE GiveUp(Frame("REQA"), "ATQA", "NOT_FOUND")
      BY <2>1, GivesUp
    <2>2. CASE /\ \E ans \in Answers(Frame("REQA")) : Activate(Frame("REQA"), "ATQA", ans)
               /\ task' = [task EXCEPT !.pc = "ac", !.level = 1] /\ UNCHANGED <<g, served>>
      BY <1>2, <1>3, <1>4, <2>2 DEF Reqa
    <2> QED  BY <1>4, <2>1, <2>2 DEF Reqa
  <1>5. CASE Anticollision
    <2>1. CASE GiveUp(Frame("AC"), "UID", "FAIL")
      BY <2>1, GivesUp
    <2>2. CASE /\ \E ans \in Answers(Frame("AC")) : Activate(Frame("AC"), "UID", ans)
               /\ task' = [task EXCEPT !.pc = "sel"] /\ UNCHANGED <<g, served>>
      <3>1. task' = [task EXCEPT !.pc = "sel", !.level = task.level]
        BY <1>1, <2>2 DEF Shapes
      <3> QED  BY <1>2, <1>3, <1>5, <2>2, <3>1 DEF Anticollision
    <2> QED  BY <1>5, <2>1, <2>2 DEF Anticollision
  <1>6. CASE Select
    <2>1. CASE GiveUp(Frame("SEL"), "SAK", "FAIL")
      BY <2>1, GivesUp
    <2>2. CASE /\ \E ans \in Answers(Frame("SEL")) :
                     Activate(Frame("SEL"), "SAK", ans) /\ Selected(ans)
               /\ UNCHANGED g
      <3>1. PICK ans : Activate(Frame("SEL"), "SAK", ans) /\ Selected(ans)
        BY <2>2
      <3>2. \/ \E pc \in {"ac", "sel", "rats"} : \E l :
                   task' = [task EXCEPT !.pc = pc, !.level = l]
            \/ Found("OK")
        <4>1. [task EXCEPT !.pc = "rats"] = [task EXCEPT !.pc = "rats", !.level = task.level]
          BY <1>1 DEF Shapes
        <4> QED  BY <3>1, <4>1 DEF Selected
      <3> QED  BY <1>2, <1>3, <1>6, <2>2, <3>1, <3>2 DEF Select
    <2> QED  BY <1>6, <2>1, <2>2 DEF Select
  <1>7. CASE Rats
    <2>1. CASE GiveUp(Frame("RATS"), "ATS", "FAIL")
      BY <2>1, GivesUp
    <2>2. CASE /\ \E ans \in Answers(Frame("RATS")) : Activate(Frame("RATS"), "ATS", ans)
               /\ g' = [active |-> TRUE, blk |-> 0] /\ Found("OK")
      <3>1. PICK ans : Activate(Frame("RATS"), "ATS", ans)
        BY <2>2
      <3>2. /\ Same /\ CardShape(card') /\ drv' = drv /\ late' = NoFrame
            /\ drv = "pn5180" /\ ans = Reacts(card, Frame("RATS")).ans
            /\ card' = Reacts(card, Frame("RATS")).c
        BY <1>2, <1>7, <3>1 DEF Rats
      <3>3. card' # NoCard /\ card'.st = "proto" => card'.blk = 1
        BY <1>1, <3>1, <3>2, ReactsToRats DEF Activate, Shapes
      <3>4. /\ DOMAIN task' = TaskFields /\ task'.pc \in {"poll", "access"}
            /\ task'.clean = TRUE /\ task'.chain = FALSE
        BY <2>2, Looked
      <3>5. InStep'
        BY <2>2, <3>3, <3>4 DEF InStep
      <3>6. Shapes' /\ Places'
        BY <1>1, <2>2, <3>2, <3>4 DEF Shapes, Places, Same
      <3> QED  BY <3>2, <3>4, <3>5, <3>6, AtRest
    <2> QED  BY <1>7, <2>1, <2>2 DEF Rats
  <1> QED  BY <1>4, <1>5, <1>6, <1>7

-----------------------------------------------------------------------------

(* An exchange                                                             *)

\* What a step of an exchange may do to the APDU in hand.
Counts ==
    /\ ran' \in [1..MaxApdus -> {0, 1}]
    /\ \A m \in 1..MaxApdus : m # task.n => ran'[m] = ran[m]

\* An exchange ends, with the whole answer if it succeeds before any has failed.
LEMMA Ends ==
    ASSUME NfcInv, task.pc \in {"apdu", "wtx"}, NEW ok \in BOOLEAN, NEW got, Exchanged(ok, got),
           drv' = drv, CardShape(card'), g' \in [active : BOOLEAN, blk : {0, 1}],
           DOMAIN used' = Stimuli, used'["apdu"] = used["apdu"], Counts,
           drv = "pn532" => late' = NoFrame,
           ok /\ task.clean =>
             /\ late' = NoFrame
             /\ got = [i \in 1..task.rx |-> <<task.n, i>>] /\ ran'[task.n] = 1
             /\ drv = "pn5180" /\ card' # NoCard /\ card'.st = "proto" => card'.blk = 1 - g'.blk
    PROVE  NfcInv'
  <1> USE DEF TaskFields
  <1>1. Shapes /\ Places /\ Numbered
    BY DEF NfcInv
  <1>2. /\ exch' = [ok |-> ok, n |-> task.n, rx |-> task.rx, got |-> got, clean |-> task.clean]
        /\ task' = [task EXCEPT !.pc = IF ok \/ (task.op = "write" /\ task.no = FormatNo)
                                       THEN "access" ELSE "release",
                                !.got = <<>>, !.chain = FALSE, !.sent = 0,
                                !.clean = @ /\ ok]
    BY DEF Exchanged
  <1>3. /\ DOMAIN task' = TaskFields /\ task'.pc \in {"access", "release"}
        /\ task'.chain = FALSE /\ task'.clean = (task.clean /\ ok)
    BY <1>1, <1>2 DEF Shapes
  <1>4. /\ exch'.ok = ok /\ exch'.n = task.n /\ exch'.rx = task.rx /\ exch'.got = got
        /\ exch'.clean = task.clean
    BY <1>2
  <1>5. Shapes'
    BY <1>1, <1>3 DEF Shapes, Counts
  <1>6. Places'
    BY <1>1, <1>3 DEF Shapes, Places
  <1>7. task.n \in 1..used["apdu"]
    BY <1>1 DEF Numbered
  <1>8. Numbered'
    <2>1. ASSUME NEW m \in 1..MaxApdus, m > used["apdu"]
          PROVE  ran'[m] = 0
      <3>1. m # task.n
        BY <1>1, <1>7, <2>1 DEF Shapes
      <3> QED  BY <1>1, <2>1, <3>1 DEF Numbered, Counts
    <2>2. exch'.n \in 0..used["apdu"] /\ exch'.n # 0
      BY <1>1, <1>4, <1>7 DEF Shapes
    <2> QED  BY <1>3, <2>1, <2>2 DEF Numbered
  <1>9. AnswerSoFar'
    BY <1>3 DEF AnswerSoFar
  <1>10. InStep'
    BY <1>3 DEF InStep
  <1>11. AnswerIsOurs'
    BY <1>4 DEF AnswerIsOurs
  <1> QED  BY <1>5, <1>6, <1>8, <1>9, <1>10, <1>11 DEF NfcInv

\* What the driver knows of an answer that it has read, when sent blocks have gone out.
Heard(ans, sent) ==
    /\ Counts
    /\ sent \in 0..task.tx /\ (~task.chain /\ sent < task.tx => ran'[task.n] = 0)
    /\ task.clean /\ ans.k \in {"R", "I"} => late' = NoFrame
    /\ task.clean /\ ans.k = "R" /\ sent < task.tx =>
         /\ ~task.chain /\ task.pc = "apdu"
         /\ card' # NoCard /\ card'.st = "proto" => card'.blk = g.blk
    /\ task.clean /\ ans.k = "I" =>
         /\ ran'[task.n] = 1 /\ ans.n = task.n /\ ans.i = Len(task.got) + 1
         /\ ans.more = (Len(task.got) + 1 < task.rx)
         /\ card' # NoCard /\ card'.st = "proto" =>
              /\ card'.blk = g.blk /\ card'.n = task.n /\ card'.of = task.rx
              /\ card'.i = Len(task.got) + 1

LEMMA PartsGrow ==
    ASSUME NEW s, NEW n, Parts(s, n), NEW e, e = <<n, Len(s) + 1>>
    PROVE  /\ Parts(Append(s, e), n) /\ Len(Append(s, e)) = Len(s) + 1 /\ Len(s) \in Nat
           /\ Append(s, e) = [j \in 1..(Len(s) + 1) |-> <<n, j>>]
  <1> DEFINE S == {n} \X Nat
             t == Append(s, e)
  <1>1. s \in Seq(S) /\ Len(s) \in Nat /\ e \in S
    BY DEF Parts
  <1> HIDE DEF S
  <1>2. t \in Seq(S) /\ Len(t) = Len(s) + 1 /\ t[Len(s) + 1] = e
        /\ \A j \in 1..Len(s) : t[j] = s[j]
    BY <1>1
  <1>3. \A j \in 1..Len(t) : t[j] = <<n, j>>
    BY <1>1, <1>2 DEF Parts
  <1>4. t = [j \in 1..(Len(s) + 1) |-> <<n, j>>]
    <2>1. DOMAIN t = 1..(Len(s) + 1) /\ t = [j \in DOMAIN t |-> t[j]]
      BY <1>1, <1>2
    <2> HIDE DEF t
    <2> QED  BY <1>2, <1>3, <2>1
  <1> QED  BY <1>1, <1>2, <1>3, <1>4 DEF Parts, S

LEMMA Toggle ==
    ASSUME Shapes, Toggled
    PROVE  /\ g' \in [active : BOOLEAN, blk : {0, 1}] /\ g'.blk = 1 - g.blk
           /\ g'.active = g.active /\ g.blk = 1 - g'.blk
  BY DEF Shapes, Toggled

LEMMA ReadsBlock ==
    ASSUME NfcInv, task.pc \in {"apdu", "wtx"}, drv = "pn5180", drv' = drv, CardShape(card'),
           DOMAIN used' = Stimuli, used'["apdu"] = used["apdu"],
           NEW ans, NEW sent, Heard(ans, sent), BlockRead(ans, sent)
    PROVE  NfcInv'
  <1> USE DEF TaskFields
  <1>1. Shapes /\ Places /\ Numbered /\ AnswerSoFar /\ AnswerIsOurs /\ Counts
    BY DEF NfcInv, Heard
  <1>2. /\ task.n \in 1..used["apdu"] /\ exch.n < task.n /\ exch.n \in 0..used["apdu"]
        /\ exch.ok => exch.n # 0
        /\ task.tx \in 1..MaxBlocks /\ task.rx \in 1..MaxBlocks
        /\ used["apdu"] \in 0..MaxApdus
    BY <1>1 DEF Numbered, Shapes
  <1>3. task.clean => Parts(task.got, task.n)
    BY <1>1 DEF AnswerSoFar
  <1>4. ASSUME NEW got, Exchanged(FALSE, got), g' \in [active : BOOLEAN, blk : {0, 1}]
        PROVE  NfcInv'
    BY <1>1, <1>4, Ends
  <1>5. ASSUME Toggled, exch' = exch, task'.pc = "apdu", DOMAIN task' = TaskFields,
               task'.n = task.n, task'.tx = task.tx, task'.rx = task.rx, task'.sent = sent,
               task'.clean = task.clean, task'.chain \in BOOLEAN,
               task.clean => late' = NoFrame, ~task'.chain => ~task.chain /\ sent < task.tx,
               task.clean => /\ Parts(task'.got, task.n)
                             /\ task'.chain => ran'[task.n] = 1 /\ Len(task'.got) < task.rx
                             /\ ~task'.chain => task'.got = <<>>
                             /\ card' # NoCard /\ card'.st = "proto" =>
                                  /\ card'.blk = g.blk
                                  /\ task'.chain => /\ card'.n = task.n /\ card'.of = task.rx
                                                    /\ card'.i = Len(task'.got)
        PROVE  NfcInv'
    <2>1. Shapes' /\ Places'
      BY <1>1, <1>5, Toggle DEF Shapes, Places, Counts
    <2>2. Numbered'
      <3>1. ASSUME NEW m \in 1..MaxApdus, m > used["apdu"]
            PROVE  ran'[m] = 0
        BY <1>1, <1>2, <3>1 DEF Numbered, Counts
      <3>2. ~task'.chain => ran'[task.n] = 0 /\ sent < task.tx
        BY <1>5 DEF Heard
      <3>3. sent \in 0..task.tx
        BY DEF Heard
      <3> QED  BY <1>2, <1>5, <3>1, <3>2, <3>3 DEF Numbered
    <2>3. AnswerSoFar'
      BY <1>5 DEF AnswerSoFar
    <2>4. InStep'
      BY <1>1, <1>5, Toggle DEF InStep
    <2>5. AnswerIsOurs'
      <3>1. exch.ok => exch.n \in 1..MaxApdus /\ exch.n # task.n
        BY <1>1, <1>2 DEF Numbered
      <3> QED  BY <1>1, <1>5, <3>1 DEF AnswerIsOurs, Counts
    <2> QED  BY <2>1, <2>2, <2>3, <2>4, <2>5 DEF NfcInv
  <1>6. ASSUME Toggled, ans.k = "R", sent < task.tx, exch' = exch,
               task' = [task EXCEPT !.pc = "apdu", !.sent = sent]
        PROVE  NfcInv'
    <2>1. /\ DOMAIN task' = TaskFields /\ task'.pc = "apdu" /\ task'.n = task.n
          /\ task'.tx = task.tx /\ task'.rx = task.rx /\ task'.sent = sent
          /\ task'.clean = task.clean /\ task'.chain = task.chain /\ task'.got = task.got
      BY <1>1, <1>6 DEF Shapes
    <2>2. task.clean => ~task.chain /\ task.got = <<>>
      BY <1>1, <1>6 DEF Heard, AnswerSoFar
    <2>3. task.clean => /\ late' = NoFrame
                        /\ card' # NoCard /\ card'.st = "proto" => card'.blk = g.blk
      BY <1>6 DEF Heard
    <2>4. task.chain \in BOOLEAN
      BY <1>1 DEF Shapes
    <2> QED  BY <1>3, <1>5, <1>6, <2>1, <2>2, <2>3, <2>4
  <1>7. ASSUME ans.k = "I", Len(task.got) < MaxBlocks, Toggled, ans.more, exch' = exch,
               task' = [task EXCEPT !.pc = "apdu", !.sent = sent, !.chain = TRUE,
                                    !.got = Append(@, <<ans.n, ans.i>>)]
        PROVE  NfcInv'
    <2>1. /\ DOMAIN task' = TaskFields /\ task'.pc = "apdu" /\ task'.n = task.n
          /\ task'.tx = task.tx /\ task'.rx = task.rx /\ task'.sent = sent
          /\ task'.clean = task.clean /\ task'.chain = TRUE
          /\ task'.got = Append(task.got, <<ans.n, ans.i>>)
      BY <1>1, <1>7 DEF Shapes
    <2>2. task.clean => /\ late' = NoFrame /\ ran'[task.n] = 1
                        /\ ans.n = task.n /\ ans.i = Len(task.got) + 1
                        /\ Len(task.got) + 1 < task.rx
                        /\ card' # NoCard /\ card'.st = "proto" =>
                             /\ card'.blk = g.blk /\ card'.n = task.n /\ card'.of = task.rx
                             /\ card'.i = Len(task.got) + 1
      BY <1>7 DEF Heard
    <2>3. task.clean => Parts(task'.got, task.n) /\ Len(task'.got) = Len(task.got) + 1
      <3> SUFFICES ASSUME task.clean
                   PROVE  Parts(task'.got, task.n) /\ Len(task'.got) = Len(task.got) + 1
        OBVIOUS
      <3>1. <<ans.n, ans.i>> = <<task.n, Len(task.got) + 1>> /\ Parts(task.got, task.n)
        BY <1>3, <2>2
      <3> DEFINE s == task.got
                 e == <<ans.n, ans.i>>
      <3>2. Parts(Append(s, e), task.n) /\ Len(Append(s, e)) = Len(s) + 1
        BY ONLY <3>1, PartsGrow
      <3> QED  BY <2>1, <3>2
    <2> QED  BY <1>5, <1>7, <2>1, <2>2, <2>3
  <1>8. ASSUME ans.k = "I", Toggled, ~ans.more,
               Exchanged(TRUE, Append(task.got, <<ans.n, ans.i>>))
        PROVE  NfcInv'
    <2> DEFINE got == Append(task.got, <<ans.n, ans.i>>)
    <2>1. task.clean => /\ late' = NoFrame /\ ran'[task.n] = 1
                        /\ ans.n = task.n /\ ans.i = Len(task.got) + 1
                        /\ ~(Len(task.got) + 1 < task.rx)
                        /\ card' # NoCard /\ card'.st = "proto" => card'.blk = g.blk
      BY <1>8 DEF Heard
    <2>2. task.clean => Len(task.got) < task.rx
      <3>1. ~task.chain /\ task.clean => task.got = <<>>
        BY <1>1 DEF AnswerSoFar
      <3>2. task.chain /\ task.clean => Len(task.got) < task.rx
        BY <1>1 DEF AnswerSoFar
      <3> QED  BY <1>1, <1>2, <3>1, <3>2 DEF Shapes
    <2>3. task.clean => got = [i \in 1..task.rx |-> <<task.n, i>>]
      <3> SUFFICES ASSUME task.clean
                   PROVE  got = [i \in 1..task.rx |-> <<task.n, i>>]
        OBVIOUS
      <3>1. <<ans.n, ans.i>> = <<task.n, Len(task.got) + 1>> /\ Parts(task.got, task.n)
        BY <1>3, <2>1
      <3> DEFINE s == task.got
                 e == <<ans.n, ans.i>>
      <3>2. Parts(Append(s, e), task.n) /\ Len(Append(s, e)) = Len(s) + 1 /\ Len(s) \in Nat
        BY ONLY <3>1, PartsGrow
      <3>3. Len(s) + 1 = task.rx
        BY <1>2, <2>1, <2>2, <3>2
      <3>4. Parts(got, task.n) /\ Len(got) = task.rx
        BY <3>2, <3>3
      <3> HIDE DEF got, s, e
      <3>5. DOMAIN got = 1..task.rx /\ got = [i \in DOMAIN got |-> got[i]]
        BY <3>4 DEF Parts
      <3> QED  BY <3>4, <3>5 DEF Parts
    <2>4. g' \in [active : BOOLEAN, blk : {0, 1}] /\ g.blk = 1 - g'.blk
      BY <1>1, <1>8, Toggle
    <2>5. Exchanged(TRUE, got)
      BY <1>8
    <2> HIDE DEF got
    <2> QED  BY <1>1, <2>1, <2>3, <2>4, <2>5, Ends
  <1>9. \/ /\ ans.k = "R" /\ sent < task.tx /\ Toggled /\ exch' = exch
           /\ task' = [task EXCEPT !.pc = "apdu", !.sent = sent]
        \/ Toggled /\ Exchanged(FALSE, <<>>)
        \/ /\ ans.k = "I" /\ Len(task.got) < MaxBlocks /\ Toggled /\ ans.more /\ exch' = exch
           /\ task' = [task EXCEPT !.pc = "apdu", !.sent = sent, !.chain = TRUE,
                                    !.got = Append(@, <<ans.n, ans.i>>)]
        \/ /\ ans.k = "I" /\ Toggled /\ ~ans.more
           /\ Exchanged(TRUE, Append(task.got, <<ans.n, ans.i>>))
        \/ g' = g /\ Exchanged(FALSE, <<>>)
    BY DEF BlockRead
  <1>10. Toggled \/ g' = g => g' \in [active : BOOLEAN, blk : {0, 1}]
    BY <1>1, Toggle DEF Shapes
  <1> QED  BY <1>4, <1>6, <1>7, <1>8, <1>9, <1>10

-----------------------------------------------------------------------------

\* Only the last block of an APDU is answered by a block of the answer.
LEMMA LastIsAnswered ==
    ASSUME NEW b, NEW n, NEW i, NEW more \in BOOLEAN,
           Reacts(card, IBlock(b, n, i, more)).ans.k = "I"
    PROVE  ~more
  <1> USE DEF Reaction, Silent
  <1> DEFINE f == IBlock(b, n, i, more)
  <1>1. f.k = "I" /\ f.more = more
    BY DEF IBlock
  <1> HIDE DEF f
  <1>2. CASE card # NoCard /\ card.st = "proto"
    <2>1. Reacts(card, f) = Protocol(card, f)
      BY <1>2 DEF Reacts
    <2>2. more => Protocol(card, f).ans.k = "R"
      BY <1>1 DEF Protocol, RAck
    <2> QED  BY <2>1, <2>2 DEF f
  <1>3. CASE ~(card # NoCard /\ card.st = "proto")
    <2>1. Reacts(card, f).ans.k = "none"
      BY <1>1, <1>3 DEF Reacts, NoFrame, Frame
    <2> QED  BY <2>1 DEF f
  <1> QED  BY <1>2, <1>3

\* The block that the driver sends, and what the card answers if it is in step.
LEMMA BlockSent ==
    ASSUME NfcInv, drv = "pn5180", task.pc = "apdu", g.active
    PROVE  LET r == Reacts(card, Block) IN
           /\ Sent \in 0..task.tx
           /\ r.n = 0 \/ (r.n = task.n /\ ~task.chain /\ Sent = task.tx)
           /\ r.ans.k = "I" /\ ~task.chain => Sent = task.tx
           /\ task.clean /\ r.ans.k = "R" =>
                ~task.chain /\ (r.c # NoCard /\ r.c.st = "proto" => r.c.blk = g.blk)
           /\ task.clean /\ r.ans.k = "I" =>
                /\ ~task.chain => r.n = task.n
                /\ r.ans.n = task.n /\ r.ans.i = Len(task.got) + 1
                /\ r.ans.more = (Len(task.got) + 1 < task.rx)
                /\ r.c # NoCard /\ r.c.st = "proto" =>
                     /\ r.c.blk = g.blk /\ r.c.n = task.n /\ r.c.of = task.rx
                     /\ r.c.i = Len(task.got) + 1
  <1> DEFINE r == Reacts(card, Block)
  <1>1. /\ Shapes /\ Numbered /\ AnswerSoFar /\ InStep /\ CardShape(card) /\ g.blk \in {0, 1}
        /\ task.tx \in 1..MaxBlocks /\ task.sent \in 0..task.tx /\ task.chain \in BOOLEAN
    BY DEF NfcInv, Shapes, Numbered
  <1>2. /\ task.clean /\ card # NoCard /\ card.st = "proto" => card.blk = 1 - g.blk
        /\ task.clean /\ task.chain /\ card # NoCard /\ card.st = "proto" =>
             card.n = task.n /\ card.of = task.rx /\ card.i = Len(task.got)
    BY <1>1 DEF InStep
  <1>3. CASE task.chain
    <2>1. Block = RAck(g.blk) /\ Sent = task.sent
      BY <1>3 DEF Block, Sent
    <2>2. r.n = 0
      BY <1>1, <2>1, ReactsShape DEF RAck
    <2>3. task.clean => Len(task.got) \in Nat
      BY <1>1 DEF AnswerSoFar, Parts
    <2>4. ASSUME task.clean
          PROVE  /\ r.ans.k \in {"none", "I"}
                 /\ r.ans.k = "I" => /\ r.ans.n = task.n /\ r.ans.i = Len(task.got) + 1
                                     /\ r.ans.more = (Len(task.got) + 1 < task.rx)
                                     /\ r.c # NoCard /\ r.c.st = "proto" =>
                                          /\ r.c.blk = g.blk /\ r.c.n = task.n
                                          /\ r.c.of = task.rx /\ r.c.i = Len(task.got) + 1
      <3>1. /\ CardShape(card) /\ g.blk \in {0, 1} /\ Len(task.got) \in Nat
            /\ Stands(card, 1 - g.blk, task.n, task.rx, Len(task.got))
        BY <1>1, <1>2, <1>3, <2>3, <2>4 DEF Stands
      <3>2. LET a == Reacts(card, RAck(g.blk)) IN
            a.ans.k \in {"none", "I"} /\ Brings(a, g.blk, task.n, task.rx, Len(task.got) + 1)
        BY ONLY <3>1, ReactsToAck
      <3> QED  BY <2>1, <3>2 DEF Brings, Stands
    <2> HIDE DEF r
    <2>5. task.clean => r.ans.k # "R"
      BY <2>4
    <2> QED  BY <1>1, <1>3, <2>1, <2>2, <2>4, <2>5 DEF r
  <1>4. CASE ~task.chain
    <2> DEFINE more == task.sent + 1 < task.tx
    <2>1. /\ Block = IBlock(g.blk, task.n, task.sent + 1, more) /\ Sent = task.sent + 1
          /\ more \in BOOLEAN /\ task.sent < task.tx
      BY <1>1, <1>4 DEF Block, Sent, Numbered
    <2>2. Block.k = "I" /\ Block.more = more /\ Block.n = task.n
      BY <2>1 DEF IBlock
    <2>3. ~more <=> Sent = task.tx
      BY <1>1, <2>1
    <2>4. Sent \in 0..task.tx
      BY <1>1, <2>1
    <2> HIDE DEF more
    <2>5. r.n = 0 \/ (r.n = task.n /\ ~more)
      BY <1>1, <2>2, ReactsShape
    <2>6. r.ans.k = "I" => ~more
      BY <2>1, LastIsAnswered
    <2>7. task.clean => Len(task.got) + 1 = 1
      BY <1>1, <1>4 DEF AnswerSoFar
    <2>8. ASSUME task.clean
          PROVE  /\ r.ans.k = "R" => (r.c # NoCard /\ r.c.st = "proto" => r.c.blk = g.blk)
                 /\ r.ans.k = "I" => /\ r.n = task.n /\ r.ans.n = task.n /\ r.ans.i = 1
                                     /\ r.ans.more = (1 < task.rx)
                                     /\ r.c # NoCard /\ r.c.st = "proto" =>
                                          /\ r.c.blk = g.blk /\ r.c.n = task.n
                                          /\ r.c.of = task.rx /\ r.c.i = 1
      BY <1>1, <1>2, <2>1, <2>8, ReactsToBlock
    <2> HIDE DEF r
    <2> QED  BY <1>4, <2>3, <2>4, <2>5, <2>6, <2>7, <2>8 DEF r
  <1> QED  BY <1>1, <1>3, <1>4

\* The card carries the APDU in hand out once, and after its last block has gone out.
LEMMA CountsBlock ==
    ASSUME NfcInv, drv = "pn5180", task.pc = "apdu", g.active,
           UNCHANGED ran \/ Count(Reacts(card, Block).n)
    PROVE  /\ Counts /\ (~task.chain /\ Sent < task.tx => ran'[task.n] = 0)
           /\ Count(Reacts(card, Block).n) =>
                /\ Reacts(card, Block).n = task.n => ran'[task.n] = 1
                /\ task.clean /\ task.chain => ran'[task.n] = 1
  <1> DEFINE n == Reacts(card, Block).n
  <1>1. /\ n = 0 \/ (n = task.n /\ ~task.chain /\ Sent = task.tx)
        /\ Sent \in 0..task.tx
    BY BlockSent
  <1>2. /\ ran \in [1..MaxApdus -> {0, 1}] /\ task.n \in 1..MaxApdus /\ task.n # 0
        /\ ~task.chain => ran[task.n] = 0
        /\ task.clean /\ task.chain => ran[task.n] = 1
        /\ task.tx \in Nat
    BY DEF NfcInv, Shapes, Numbered, AnswerSoFar
  <1> HIDE DEF n
  <1>3. CASE ran' = ran
    <2>1. ASSUME Count(n), n = task.n
          PROVE  FALSE
      <3>1. ran'[task.n] = ran[task.n] + 1
        BY <1>2, <2>1 DEF Count
      <3>2. ran[task.n] \in {0, 1}
        BY <1>2
      <3> QED  BY <1>3, <3>1, <3>2
    <2> QED  BY <1>1, <1>2, <1>3, <2>1 DEF Counts, n
  <1>4. CASE Count(n) /\ n = 0
    BY <1>2, <1>4 DEF Counts, Count, n
  <1>5. CASE Count(n) /\ n = task.n /\ ~task.chain /\ Sent = task.tx
    <2>1. ran' = [ran EXCEPT ![task.n] = @ + 1]
      BY <1>2, <1>5 DEF Count
    <2>2. ran'[task.n] = 1 /\ \A m \in 1..MaxApdus : m # task.n => ran'[m] = ran[m]
      BY <1>2, <1>5, <2>1
    <2>3. ran' \in [1..MaxApdus -> {0, 1}]
      BY <1>2, <2>1, <2>2
    <2> QED  BY <1>2, <1>5, <2>2, <2>3 DEF Counts
  <1> QED  BY <1>1, <1>3, <1>4, <1>5 DEF n

LEMMA SendStep ==
    ASSUME NfcInv, SendBlock
    PROVE  NfcInv'
  <1> DEFINE r == Reacts(card, Block)
  <1>1. drv = "pn5180" /\ task.pc = "apdu" /\ g.active /\ Shapes /\ Places
    BY DEF NfcInv, SendBlock
  <1>2. PICK ans : Transceive(Block, ans) /\ BlockRead(ans, Sent)
    BY DEF SendBlock
  <1>3. /\ CardShape(card') /\ drv' = drv
        /\ DOMAIN used' = Stimuli /\ used'["apdu"] = used["apdu"]
        /\ UNCHANGED ran \/ Count(r.n)
        /\ late = NoFrame /\ ans # NoFrame =>
             ans = r.ans /\ card' = r.c /\ Count(r.n) /\ late' = NoFrame
    BY <1>1, <1>2, Sends
  <1>4. Counts /\ (~task.chain /\ Sent < task.tx => ran'[task.n] = 0)
    BY <1>1, <1>3, CountsBlock
  <1>5. ASSUME task.clean, ans.k \in {"R", "I"}
        PROVE  ans = r.ans /\ card' = r.c /\ Count(r.n) /\ late' = NoFrame
    <2>1. late = NoFrame
      BY <1>1, <1>5 DEF Places
    <2>2. ans # NoFrame
      BY <1>5 DEF NoFrame, Frame
    <2> QED  BY <1>3, <2>1, <2>2
  <1>6. ASSUME task.clean, ans.k = "R"
        PROVE  ~task.chain /\ (card' # NoCard /\ card'.st = "proto" => card'.blk = g.blk)
    BY <1>1, <1>5, <1>6, BlockSent
  <1>7. ASSUME task.clean, ans.k = "I"
        PROVE  /\ ran'[task.n] = 1 /\ ans.n = task.n /\ ans.i = Len(task.got) + 1
               /\ ans.more = (Len(task.got) + 1 < task.rx)
               /\ card' # NoCard /\ card'.st = "proto" =>
                    /\ card'.blk = g.blk /\ card'.n = task.n /\ card'.of = task.rx
                    /\ card'.i = Len(task.got) + 1
    <2>1. ans = r.ans /\ card' = r.c /\ Count(r.n)
      BY <1>5, <1>7
    <2>2. ran'[task.n] = 1
      <3>1. ~task.chain => r.n = task.n
        BY <1>1, <1>7, <2>1, BlockSent
      <3>2. /\ r.n = task.n => ran'[task.n] = 1
            /\ task.chain => ran'[task.n] = 1
        BY <1>1, <1>7, <2>1, CountsBlock
      <3> QED  BY <1>1, <3>1, <3>2 DEF Shapes
    <2> QED  BY <1>1, <1>7, <2>1, <2>2, BlockSent
  <1>8. Sent \in 0..task.tx
    BY <1>1, BlockSent
  <1> HIDE DEF r
  <1>9. Heard(ans, Sent)
    BY <1>1, <1>4, <1>5, <1>6, <1>7, <1>8 DEF Heard
  <1> QED  BY <1>1, <1>2, <1>3, <1>9, ReadsBlock

LEMMA WaitStep ==
    ASSUME NfcInv, SendBlockWtx
    PROVE  NfcInv'
  <1> USE DEF TaskFields
  <1> DEFINE r == Reacts(card, Block)
  <1>1. drv = "pn5180" /\ task.pc = "apdu" /\ g.active /\ Shapes /\ Places /\ Numbered
    BY DEF NfcInv, SendBlockWtx
  <1>2. /\ r.ans.k = "I" /\ Use("wtx", MaxWtx) /\ card' = r.c /\ Count(r.n)
        /\ task' = [task EXCEPT !.pc = "wtx", !.sent = Sent]
        /\ UNCHANGED <<drv, g, late, exch>> /\ late = NoFrame
    BY DEF SendBlockWtx, driver
  <1>3. CardShape(card') /\ DOMAIN used' = Stimuli /\ used'["apdu"] = used["apdu"]
    BY <1>1, <1>2, ReactsShape, Uses DEF Shapes
  <1>4. /\ Counts
        /\ r.n = task.n => ran'[task.n] = 1
        /\ task.clean /\ task.chain => ran'[task.n] = 1
    BY <1>1, <1>2, CountsBlock
  <1>5. /\ Sent \in 0..task.tx /\ (~task.chain => Sent = task.tx)
        /\ task.clean =>
             /\ ~task.chain => r.n = task.n
             /\ card' # NoCard /\ card'.st = "proto" =>
                  /\ card'.blk = g.blk /\ card'.n = task.n /\ card'.of = task.rx
                  /\ card'.i = Len(task.got) + 1
    BY <1>1, <1>2, BlockSent
  <1>6. /\ DOMAIN task' = TaskFields /\ task'.pc = "wtx" /\ task'.n = task.n
        /\ task'.tx = task.tx /\ task'.rx = task.rx /\ task'.sent = Sent
        /\ task'.clean = task.clean /\ task'.chain = task.chain /\ task'.got = task.got
    BY <1>1, <1>2 DEF Shapes
  <1> HIDE DEF r
  <1>7. /\ task.n \in 1..used["apdu"] /\ exch.n < task.n /\ exch.n \in 0..used["apdu"]
        /\ exch.ok => exch.n # 0
        /\ task.tx \in 1..MaxBlocks /\ task.rx \in 1..MaxBlocks
        /\ used["apdu"] \in 0..MaxApdus
    BY <1>1 DEF Numbered, Shapes
  <1>8. Shapes' /\ Places'
    BY <1>1, <1>2, <1>3, <1>4, <1>6 DEF Shapes, Places, Counts
  <1>9. Numbered'
    <2>1. ASSUME NEW m \in 1..MaxApdus, m > used["apdu"]
          PROVE  ran'[m] = 0
      BY <1>1, <1>4, <1>7, <2>1 DEF Numbered, Counts
    <2> QED  BY <1>2, <1>3, <1>5, <1>6, <1>7, <2>1 DEF Numbered
  <1>10. AnswerSoFar'
    <2>1. task.clean => /\ Parts(task.got, task.n)
                        /\ task.chain => Len(task.got) < task.rx
                        /\ ~task.chain => task.got = <<>>
      BY <1>1 DEF NfcInv, AnswerSoFar
    <2>2. task.clean => Len(task.got) < task.rx
      <3>1. task.got = <<>> => Len(task.got) = 0
        OBVIOUS
      <3> QED  BY <1>1, <1>7, <2>1, <3>1 DEF Shapes
    <2>3. task.clean => ran'[task.n] = 1
      BY <1>1, <1>4, <1>5 DEF Shapes
    <2> QED  BY <1>6, <2>1, <2>2, <2>3 DEF AnswerSoFar
  <1>11. InStep'
    BY <1>2, <1>5, <1>6 DEF InStep
  <1>12. AnswerIsOurs'
    <2>1. exch.ok => exch.n \in 1..MaxApdus /\ exch.n # task.n
      BY <1>7
    <2> QED  BY <1>2, <1>4, <2>1 DEF NfcInv, AnswerIsOurs, Counts
  <1> QED  BY <1>8, <1>9, <1>10, <1>11, <1>12 DEF NfcInv

LEMMA WtxStep ==
    ASSUME NfcInv, Wtx
    PROVE  NfcInv'
  <1> DEFINE r == Reacts(card, Frame("WTX"))
  <1>1. /\ task.pc = "wtx" /\ drv = "pn5180" /\ g.active
        /\ Shapes /\ Places /\ Numbered /\ AnswerSoFar /\ InStep
    BY DEF NfcInv, Wtx, Places
  <1>2. PICK ans : Transceive(Frame("WTX"), ans) /\ BlockRead(ans, task.sent)
    BY DEF Wtx
  <1>3. /\ CardShape(card') /\ drv' = drv
        /\ DOMAIN used' = Stimuli /\ used'["apdu"] = used["apdu"]
        /\ late = NoFrame /\ ans # NoFrame => ans = r.ans /\ card' = r.c /\ late' = NoFrame
    BY <1>1, <1>2, Sends
  <1>4. ran' = ran
    BY <1>1, <1>2, SendsPlain
  <1>5. Counts /\ task.sent \in 0..task.tx /\ (~task.chain => ~(task.sent < task.tx))
    BY <1>1, <1>4 DEF Counts, Shapes, Numbered
  <1>6. ASSUME task.clean, ans.k \in {"R", "I"}
        PROVE  ans = r.ans /\ card' = r.c /\ late' = NoFrame
    <2>1. late = NoFrame
      BY <1>1, <1>6 DEF Places
    <2>2. ans # NoFrame
      BY <1>6 DEF NoFrame, Frame
    <2> QED  BY <1>3, <2>1, <2>2
  <1>7. task.clean => ans.k # "R"
    <2>1. r.ans.k \in {"none", "I"}
      BY <1>1, ReactsToWtx DEF Shapes
    <2> QED  BY <1>6, <2>1
  <1>8. ASSUME task.clean, ans.k = "I"
        PROVE  /\ ran'[task.n] = 1 /\ ans.n = task.n /\ ans.i = Len(task.got) + 1
               /\ ans.more = (Len(task.got) + 1 < task.rx)
               /\ card' # NoCard /\ card'.st = "proto" =>
                    /\ card'.blk = g.blk /\ card'.n = task.n /\ card'.of = task.rx
                    /\ card'.i = Len(task.got) + 1
    <2>1. /\ ans = r.ans /\ card' = r.c
          /\ card # NoCard /\ card.st = "proto" /\ r.c = card
          /\ r.ans.n = card.n /\ r.ans.i = card.i /\ r.ans.more = (card.i < card.of)
      BY <1>1, <1>6, <1>8, ReactsToWtx DEF Shapes
    <2>2. /\ card.blk = g.blk /\ card.n = task.n /\ card.of = task.rx
          /\ card.i = Len(task.got) + 1
      BY <1>1, <1>8, <2>1 DEF InStep
    <2>3. ran[task.n] = 1
      BY <1>1, <1>8 DEF AnswerSoFar
    <2> HIDE DEF r
    <2> QED  BY <1>4, <2>1, <2>2, <2>3
  <1> HIDE DEF r
  <1>9. Heard(ans, task.sent)
    BY <1>5, <1>6, <1>7, <1>8 DEF Heard
  <1> QED  BY <1>1, <1>2, <1>3, <1>9, ReadsBlock

\* No card in ISO 14443-4: the exchange fails before a frame goes out.
LEMMA RefusedStep ==
    ASSUME NfcInv, ApduRefused
    PROVE  NfcInv'
  <1>1. /\ drv = "pn5180" /\ task.pc = "apdu" /\ Exchanged(FALSE, <<>>)
        /\ UNCHANGED <<drv, g, card, ran, used>>
    BY DEF ApduRefused, driver
  <1>2. Shapes
    BY DEF NfcInv
  <1>3. Counts
    BY <1>1, <1>2 DEF Counts, Shapes
  <1> QED  BY <1>1, <1>2, <1>3, Ends DEF Shapes

LEMMA DeselectStep ==
    ASSUME NfcInv, Deselect
    PROVE  NfcInv'
  <1>1. Shapes /\ Places
    BY DEF NfcInv
  <1>2. /\ drv = "pn5180" /\ card' = Unpowered(card) /\ late' = NoFrame
        /\ g' = [g EXCEPT !.active = FALSE] /\ task' = Idle(TRUE, task.empty)
        /\ UNCHANGED <<drv, ran, exch, used>>
    BY DEF Deselect, FieldOff
  <1>3. /\ DOMAIN task' = TaskFields /\ task'.pc = "poll" /\ task'.clean = TRUE
        /\ task'.chain = FALSE
    BY <1>2, IdleShape
  <1>4. CardShape(card') /\ g' \in [active : BOOLEAN, blk : {0, 1}]
    BY <1>1, <1>2, CardShapes DEF Shapes
  <1>5. Same
    BY <1>1, <1>2 DEF Same, Shapes
  <1> QED  BY <1>1, <1>2, <1>3, <1>4, <1>5, AtRest DEF Shapes, Places

-----------------------------------------------------------------------------
(* The PN532                                                               *)

LEMMA FindStep ==
    ASSUME NfcInv, Find532
    PROVE  NfcInv'
  <1> USE DEF TaskFields
  <1>1. Shapes /\ Places
    BY DEF NfcInv
  <1>2. /\ drv = "pn532" /\ task.pc = "poll" /\ task' = [task EXCEPT !.pc = "find"]
        /\ UNCHANGED <<drv, g, card, late, ran, exch, used>>
    BY DEF Find532, driver
  <1>3. Same /\ CardShape(card')
    BY <1>1, <1>2 DEF Same, Shapes
  <1>4. /\ DOMAIN task' = TaskFields /\ task'.pc = "find" /\ task'.clean = TRUE
        /\ task'.chain = task.chain
    BY <1>1, <1>2 DEF Shapes, Places
  <1>5. Shapes' /\ Places'
    BY <1>1, <1>2, <1>3, <1>4 DEF Shapes, Places, Same
  <1> QED  BY <1>2, <1>3, <1>4, <1>5, AtRest

LEMMA TargetStep ==
    ASSUME NfcInv, Target532
    PROVE  NfcInv'
  <1>1. Shapes /\ Places
    BY DEF NfcInv
  <1>2. /\ drv = "pn532" /\ UNCHANGED <<drv, g, late, exch>>
        /\ \/ /\ card # NoCard
              /\ \E ok \in BOOLEAN : Command532(ok, Listed) /\ Found(IF ok THEN "OK" ELSE "FAIL")
           \/ /\ Found("NOT_FOUND") \/ Found("TIMEOUT")
              /\ UNCHANGED <<card, ran, used>>
    BY DEF NfcInv, Places, Target532, driver
  <1>3. Same /\ CardShape(card') /\ \E e : Found(e)
    <2>1. CASE /\ card # NoCard
               /\ \E ok \in BOOLEAN : Command532(ok, Listed) /\ Found(IF ok THEN "OK" ELSE "FAIL")
      <3>1. PICK ok \in BOOLEAN :
              Command532(ok, Listed) /\ Found(IF ok THEN "OK" ELSE "FAIL")
        BY <2>1
      <3>2. /\ Listed \/ UNCHANGED <<card, ran>>
            /\ UNCHANGED used \/ Use("fault", MaxFaults)
        BY <3>1 DEF Command532
      <3>3. DOMAIN [Powered(card) EXCEPT !.st = "proto", !.blk = 1] = CardFields
        BY <1>1, <2>1 DEF Shapes, CardShape, Powered, Fresh, CardFields
      <3>4. CardShape(card') /\ ran' = ran
        BY <1>1, <3>2, <3>3 DEF Listed, Shapes, CardShape
      <3>5. DOMAIN used' = Stimuli /\ used'["apdu"] = used["apdu"]
        BY <1>1, <3>2, Uses DEF Shapes
      <3> QED  BY <1>2, <3>1, <3>4, <3>5 DEF Same
    <2>2. CASE (Found("NOT_FOUND") \/ Found("TIMEOUT")) /\ UNCHANGED <<card, ran, used>>
      BY <1>1, <1>2, <2>2 DEF Same, Shapes
    <2> QED  BY <1>2, <2>1, <2>2
  <1>4. /\ DOMAIN task' = TaskFields /\ task'.pc \in {"poll", "access"}
        /\ task'.clean = TRUE /\ task'.chain = FALSE
    BY <1>3, Looked
  <1>5. InStep'
    BY <1>2 DEF InStep
  <1>6. Shapes' /\ Places'
    BY <1>1, <1>2, <1>3, <1>4 DEF Shapes, Places, Same
  <1> QED  BY <1>3, <1>4, <1>5, <1>6, AtRest

LEMMA Apdu532Step ==
    ASSUME NfcInv, Apdu532
    PROVE  NfcInv'
  <1> DEFINE whole == [i \in 1..task.rx |-> <<task.n, i>>]
  <1>1. Shapes /\ Places /\ Numbered
    BY DEF NfcInv
  <1>2. /\ drv = "pn532" /\ task.pc = "apdu" /\ UNCHANGED <<drv, g, late>>
        /\ \/ \E ok \in BOOLEAN : /\ Command532(ok, Count(task.n) /\ UNCHANGED card)
                                  /\ Exchanged(ok, IF ok THEN whole ELSE <<>>)
           \/ Exchanged(FALSE, <<>>) /\ UNCHANGED <<card, ran, used>>
    BY DEF Apdu532, driver
  <1>3. /\ task.n \in 1..MaxApdus /\ task.n # 0 /\ ran[task.n] = 0 /\ late' = NoFrame
        /\ ran \in [1..MaxApdus -> {0, 1}]
    BY <1>1, <1>2 DEF Shapes, Places, Numbered
  <1>4. Count(task.n) => Counts /\ ran'[task.n] = 1
    <2> SUFFICES ASSUME Count(task.n)
                 PROVE  Counts /\ ran'[task.n] = 1
      OBVIOUS
    <2>1. ran' = [ran EXCEPT ![task.n] = @ + 1]
      BY <1>3 DEF Count
    <2>2. ran'[task.n] = 1 /\ \A m \in 1..MaxApdus : m # task.n => ran'[m] = ran[m]
      BY <1>3, <2>1
    <2>3. ran' \in [1..MaxApdus -> {0, 1}]
      BY <1>3, <2>1, <2>2
    <2> QED  BY <2>2, <2>3 DEF Counts
  <1>5. ran' = ran => Counts
    BY <1>3 DEF Counts
  <1>6. CASE Exchanged(FALSE, <<>>) /\ UNCHANGED <<card, ran, used>>
    BY <1>1, <1>2, <1>3, <1>5, <1>6, Ends DEF Shapes
  <1>7. ASSUME NEW ok \in BOOLEAN, Command532(ok, Count(task.n) /\ UNCHANGED card),
               Exchanged(ok, IF ok THEN whole ELSE <<>>)
        PROVE  NfcInv'
    <2> DEFINE got == IF ok THEN whole ELSE <<>>
    <2>1. /\ card' = card /\ (Count(task.n) \/ ran' = ran) /\ (ok => Count(task.n))
          /\ UNCHANGED used \/ Use("fault", MaxFaults)
      BY <1>7 DEF Command532
    <2>2. DOMAIN used' = Stimuli /\ used'["apdu"] = used["apdu"]
      BY <1>1, <2>1, Uses DEF Shapes
    <2>3. Counts /\ (ok => ran'[task.n] = 1) /\ CardShape(card')
      BY <1>1, <1>4, <1>5, <2>1 DEF Shapes
    <2>4. (ok => got = whole) /\ Exchanged(ok, got)
      BY <1>7
    <2>5. g' \in [active : BOOLEAN, blk : {0, 1}]
      BY <1>1, <1>2 DEF Shapes
    <2> HIDE DEF got
    <2> QED  BY <1>2, <1>3, <2>2, <2>3, <2>4, <2>5, Ends
  <1> QED  BY <1>2, <1>6, <1>7

LEMMA ReleaseStep ==
    ASSUME NfcInv, Release532
    PROVE  NfcInv'
  <1>1. Shapes /\ Places
    BY DEF NfcInv
  <1>2. /\ drv = "pn532" /\ task' = Idle(TRUE, task.empty)
        /\ card' = IF card # NoCard THEN [card EXCEPT !.st = "idle"] ELSE card
        /\ UNCHANGED <<drv, g, late, ran, exch, used>>
    BY DEF Release532, driver
  <1>3. /\ DOMAIN task' = TaskFields /\ task'.pc = "poll" /\ task'.clean = TRUE
        /\ task'.chain = FALSE
    BY <1>2, IdleShape
  <1>4. CardShape(card') /\ Same
    BY <1>1, <1>2 DEF Shapes, CardShape, Same
  <1> QED  BY <1>1, <1>2, <1>3, <1>4, AtRest DEF Shapes, Places

-----------------------------------------------------------------------------
(* The theorems                                                            *)

LEMMA NfcInit == Init => NfcInv
  <1> SUFFICES ASSUME Init
               PROVE  NfcInv
    OBVIOUS
  <1>1. /\ drv \in {"pn5180", "pn532"} /\ card = NoCard /\ late = NoFrame /\ g = NoTarget
        /\ task = [Idle(FALSE, 0) EXCEPT !.pc = "boot"]
        /\ exch = NoExch /\ ran = [n \in 1..MaxApdus |-> 0] /\ used = [s \in Stimuli |-> 0]
    BY DEF Init
  <1>2. /\ DOMAIN task = TaskFields /\ task.pc = "boot" /\ task.clean = TRUE
        /\ task.chain = FALSE
    BY <1>1 DEF Idle, TaskFields
  <1>3. Shapes
    <2>1. g \in [active : BOOLEAN, blk : {0, 1}]
      BY <1>1 DEF NoTarget
    <2>2. DOMAIN used = Stimuli /\ used["apdu"] \in 0..MaxApdus
      BY <1>1 DEF Stimuli
    <2>3. ran \in [1..MaxApdus -> {0, 1}]
      BY <1>1
    <2> QED  BY <1>1, <1>2, <2>1, <2>2, <2>3 DEF Shapes, CardShape
  <1>4. Places /\ AnswerSoFar /\ InStep
    BY <1>1, <1>2 DEF Places, AnswerSoFar, InStep
  <1>5. exch.n = 0 /\ exch.ok = FALSE /\ used["apdu"] = 0
    BY <1>1 DEF NoExch, Stimuli
  <1>6. Numbered /\ AnswerIsOurs
    BY <1>1, <1>2, <1>5 DEF Numbered, AnswerIsOurs
  <1> QED  BY <1>3, <1>4, <1>6 DEF NfcInv

LEMMA NfcStep == NfcInv /\ [Next]_vars => NfcInv'
  <1> SUFFICES ASSUME NfcInv, [Next]_vars
               PROVE  NfcInv'
    OBVIOUS
  <1>1. CASE (\E kind \in Kinds : Place(kind)) \/ Remove
    BY <1>1, UsersStep
  <1>2. CASE \/ Init5180 \/ Init532 \/ AccessDone
             \/ \E op \in {"idle", "read", "write"} : Access(op)
    BY <1>2, LoopStep
  <1>3. CASE \E tx, rx \in 1..MaxBlocks : Apdu(tx, rx)
    BY <1>3, ApduStep
  <1>4. CASE Activation
    BY <1>4, FieldStep, ActivationStep DEF Activation
  <1>5. CASE Exchange
    BY <1>5, RefusedStep, SendStep, WaitStep, WtxStep, Apdu532Step DEF Exchange
  <1>6. CASE Deselect \/ Find532 \/ Target532 \/ Release532
    BY <1>6, DeselectStep, FindStep, TargetStep, ReleaseStep
  <1>7. CASE UNCHANGED vars
    BY <1>7 DEF vars, driver, NfcInv, Shapes, Places, Numbered, AnswerSoFar, InStep,
                AnswerIsOurs, CardShape
  <1> QED  BY <1>1, <1>2, <1>3, <1>4, <1>5, <1>6, <1>7 DEF Next, TaskStep

LEMMA InStepAlways == Spec => []NfcInv
  BY NfcInit, NfcStep, PTL DEF Spec

\* A card carries an APDU out at most once, whatever is lost or late (pn5180_apdu_exchange sends
\* no block again; pn532_apdu_exchange gives an APDU to the chip once).
THEOREM CarriedOut == Spec => []CarriedOutOnce
  <1>1. NfcInv => CarriedOutOnce
    BY DEF NfcInv, Shapes, CarriedOutOnce
  <1> QED  BY <1>1, InStepAlways, PTL

\* An exchange that succeeds before any of its access has failed brings the whole answer of its
\* own APDU, which the card carried out (pn5180_apdu_exchange, pn532_apdu_exchange).
THEOREM OwnAnswer == Spec => []AnswerIsOurs
  <1>1. NfcInv => AnswerIsOurs
    BY DEF NfcInv
  <1> QED  BY <1>1, InStepAlways, PTL

=============================================================================
