------------------------------ MODULE NfcReader ------------------------------
(***************************************************************************)
(* Cards in the field: the loop of nfc_task over nfc_hal, with either of   *)
(* its drivers, down to the frames a card sees.                            *)
(*                                                                         *)
(* The PN5180 driver does ISO 14443 itself: it activates a card (REQA, an  *)
(* anticollision level per part of the UID, RATS), splits an APDU into     *)
(* I-blocks, and deselects.  The PN532 does this in its firmware; its      *)
(* driver sends a command, reads an acknowledgement and reads a response.  *)
(* A card is put into the field and taken out at any moment; frames and    *)
(* answers are lost, and an answer may come when the driver no longer      *)
(* waits for it.                                                           *)
(***************************************************************************)
EXTENDS Integers, Sequences

CONSTANTS
    Drivers,     \* the drivers a build may select, of {"pn5180", "pn532"}
    Kinds,       \* kinds of card: levels of its UID, whether it has ISO 14443-4
    FormatNo,    \* which APDU of a personalisation is FormatPICC: the fourth in leaf.c
    MaxBlocks,   \* bound: I-blocks of an APDU or its answer
    MaxApdus,    \* bound: APDUs in all
    MaxPlaced,   \* bound: cards put into the field
    MaxFaults,   \* bound: frames or answers lost or corrupted, failures of the chip
    MaxLate,     \* bound: answers that come after their timeout
    MaxWtx       \* bound: extensions of the waiting time

ASSUME NfcAssumption ==
    /\ Drivers \subseteq {"pn5180", "pn532"} /\ Drivers # {}
    /\ Kinds \subseteq [levels : 1..3, iso4 : BOOLEAN] /\ Kinds # {}
    /\ MaxBlocks \in Nat \ {0} /\ FormatNo \in Nat
    /\ {MaxApdus, MaxPlaced, MaxFaults, MaxLate, MaxWtx} \subseteq Nat

VARIABLES
    drv,         \* s_drv of nfc_hal
    card,        \* the card in the field
    rf,          \* the field is on
    g,           \* g_pn5180_card
    late,        \* PN5180: an answer that is still to come
    out,         \* PN532: what the chip has ready to be read
    task,        \* nfc_task, and the driver function it is in
    \* history
    served,      \* the card in the field has been accessed since it was put there
    ran,         \* how often each APDU was carried out
    exch,        \* the exchange that ended last
    used         \* uses of the bounds

driver == <<drv, g>>
vars == <<driver, card, rf, late, out, task, served, ran, exch, used>>

Stimuli == {"apdu", "place", "fault", "late", "wtx"}

Use(s, max) ==
    /\ used[s] < max
    /\ used' = [used EXCEPT ![s] = @ + 1]

-----------------------------------------------------------------------------
(* The card: ISO 14443-3 states and the block protocol of ISO 14443-4      *)

NoCard == [st |-> "none"]
Frame(k) == [k |-> k]
NoFrame == Frame("none")
\* An I-block: block number, the APDU it belongs to, its place, whether more follow.
IBlock(b, n, i, more) == [k |-> "I", b |-> b, n |-> n, i |-> i, more |-> more]
RAck(b) == [k |-> "R", b |-> b]

Fresh(kind) == [kind |-> kind, st |-> "off", level |-> 1, blk |-> 1,
                n |-> 0, i |-> 0, of |-> 0]
Powered(c) == IF c = NoCard \/ c.st # "off" THEN c
              ELSE [Fresh(c.kind) EXCEPT !.st = "idle"]
Unpowered(c) == IF c = NoCard THEN c ELSE Fresh(c.kind)

\* What the card becomes, what it answers, and the APDU it carries out.
Reaction(c, ans, n) == [c |-> c, ans |-> ans, n |-> n]
Silent(c) == Reaction(c, NoFrame, 0)

AnswerBlock(c, n, i) == IBlock(c.blk, n, i, i < c.of)

\* A block of the protocol: the card toggles its number at each I-block, and at the R(ACK)
\* that asks for the next block of a chain; an R(ACK) with its own number repeats the last.
Protocol(c, f) ==
    LET t == [c EXCEPT !.blk = 1 - @] IN
    CASE f.k = "I" /\ f.more -> Reaction(t, RAck(t.blk), 0)
      [] f.k = "I" /\ ~f.more -> 
            LET a == [t EXCEPT !.n = f.n, !.i = 1, !.of = task.rx] IN Reaction(a, AnswerBlock(a, f.n, 1), f.n)
      [] f.k = "R" /\ f.b = c.blk -> Reaction(c, AnswerBlock(c, c.n, c.i), 0)
      [] f.k = "R" /\ f.b # c.blk /\ c.i < c.of ->
            Reaction([t EXCEPT !.i = @ + 1], AnswerBlock(t, c.n, c.i + 1), 0)
      [] f.k = "WTX" -> Reaction(c, AnswerBlock(c, c.n, c.i), 0)
      [] f.k = "DESELECT" -> Reaction([c EXCEPT !.st = "halt"], Frame("DESELECT"), 0)
      [] OTHER -> Silent(c)

\* A frame out of its place returns a card that is not yet in the protocol to idle.
Reacts(c, f) ==
    CASE c = NoCard \/ c.st \in {"off", "halt"} -> Silent(c)
      [] c # NoCard /\ c.st = "proto" -> Protocol(c, f)
      [] c # NoCard /\ c.st = "idle" /\ f.k = "REQA" ->
            Reaction([c EXCEPT !.st = "ready"], Frame("ATQA"), 0)
      [] c # NoCard /\ c.st = "ready" /\ f.k = "AC" -> Reaction(c, Frame("UID"), 0)
      [] c # NoCard /\ c.st = "ready" /\ f.k = "SEL" ->
            IF c.level = c.kind.levels
            THEN Reaction([c EXCEPT !.st = "active"], [k |-> "SAK", more |-> FALSE, iso4 |-> c.kind.iso4], 0)
            ELSE Reaction([c EXCEPT !.level = @ + 1], [k |-> "SAK", more |-> TRUE, iso4 |-> FALSE], 0)
      [] c # NoCard /\ c.st = "active" /\ f.k = "RATS" /\ c.kind.iso4 ->
            Reaction([c EXCEPT !.st = "proto", !.blk = 1], Frame("ATS"), 0)
      [] OTHER -> Silent([c EXCEPT !.st = "idle", !.level = 1])

Count(n) == ran' = IF n = 0 THEN ran ELSE [ran EXCEPT ![n] = @ + 1]

-----------------------------------------------------------------------------

\* No access, at the top of the loop.
Idle(inField, empty) ==
    [pc |-> "poll", inField |-> inField, empty |-> empty, level |-> 1, op |-> "none", no |-> 0,
     n |-> 0, tx |-> 1, rx |-> 1, sent |-> 0, got |-> <<>>, chain |-> FALSE, clean |-> TRUE]
NoExch == [ok |-> FALSE, n |-> 0, rx |-> 0, got |-> <<>>, clean |-> TRUE]
NoTarget == [active |-> FALSE, blk |-> 0]

Init ==
    /\ drv \in Drivers
    /\ card = NoCard /\ rf = (drv = "pn532")
    /\ g = NoTarget /\ late = NoFrame /\ out = "none"
    /\ task = [Idle(FALSE, 0) EXCEPT !.pc = "boot"]
    /\ served = FALSE /\ exch = NoExch /\ ran = [n \in 1..MaxApdus |-> 0]
    /\ used = [s \in Stimuli |-> 0]

-----------------------------------------------------------------------------
(* Users                                                                   *)

Place(kind) ==
    /\ card = NoCard
    /\ Use("place", MaxPlaced)
    /\ card' = IF rf THEN Powered(Fresh(kind)) ELSE Fresh(kind)
    /\ out' = IF out = "list" THEN "response" ELSE out
    /\ served' = FALSE
    /\ UNCHANGED <<driver, rf, late, task, ran, exch>>

Remove ==
    /\ card # NoCard
    /\ card' = NoCard /\ late' = NoFrame
    /\ UNCHANGED <<driver, rf, out, task, served, ran, exch, used>>

-----------------------------------------------------------------------------
(* nfc_task                                                                *)

\* A command the chip does not take or answer in time, or an interrupt it does not raise.
ChipFails == Use("fault", MaxFaults)

\* nfc_init: the chip is reset, woken and configured (pn5180_init, pn532_init); if it does not
\* answer, nfc_task only serves the button from then on.
ChipUp(d) ==
    /\ drv = d /\ task.pc = "boot"
    /\ \/ task' = Idle(FALSE, 0) /\ UNCHANGED used
       \/ ChipFails /\ task' = [task EXCEPT !.pc = "dead"]
    /\ UNCHANGED <<driver, card, rf, late, out, served, ran, exch>>

\* Reset, SYSTEM_STATUS, IRQ_ENABLE.
Init5180 == ChipUp("pn5180")

\* Reset, wake-up, firmware version, SAM configuration.
Init532 == ChipUp("pn532")

\* Defect: a card counts as gone only when nothing is found four times in a row.
AfterFind_InARow(e) ==
    CASE e = "OK" /\ ~task.inField -> [Idle(TRUE, 0) EXCEPT !.pc = "access"]
      [] e = "NOT_FOUND" /\ task.inField -> Idle(task.empty + 1 <= 3, task.empty + 1)
      [] OTHER -> Idle(task.inField, 0)

\* What nfc_task does with the result of nfc_find_target.
AfterFind(e) ==
    CASE e = "OK" /\ ~task.inField -> [Idle(TRUE, 0) EXCEPT !.pc = "access"]
      [] e = "NOT_FOUND" /\ task.inField -> Idle(task.empty + 1 <= 3, task.empty + 1)
      [] OTHER -> Idle(task.inField, task.empty)

Found(e) ==
    /\ task' = AfterFind(e)
    /\ served' = (served \/ (e = "OK" /\ ~task.inField /\ card # NoCard))

\* The access in the mode the reader is in: nothing, leaf_read or leaf_personalize.
Access(op) ==
    /\ task.pc = "access" /\ task.op = "none"
    /\ task' = [task EXCEPT !.op = op, !.pc = IF op = "idle" THEN "release" ELSE "access"]
    /\ UNCHANGED <<driver, card, rf, late, out, served, ran, exch, used>>

\* The next APDU, of tx blocks with an answer of rx blocks.
Apdu(tx, rx) ==
    /\ task.pc = "access" /\ task.op # "none"
    /\ Use("apdu", MaxApdus)
    /\ task' = [task EXCEPT !.pc = "apdu", !.n = used["apdu"] + 1, !.no = @ + 1, !.tx = tx, !.rx = rx,
                            !.sent = 0, !.got = <<>>, !.chain = FALSE]
    /\ UNCHANGED <<driver, card, rf, late, out, served, ran, exch>>

\* The access is over.
AccessDone ==
    /\ task.pc = "access" /\ task.op # "none"
    /\ task' = [task EXCEPT !.pc = "release"]
    /\ UNCHANGED <<driver, card, rf, late, out, served, ran, exch, used>>

\* An exchange ended: a failed one ends the access, unless it is the FormatPICC of
\* leaf_personalize, whose result is ignored.
Exchanged(ok, got) ==
    /\ exch' = [ok |-> ok, n |-> task.n, rx |-> task.rx, got |-> got, clean |-> task.clean]
    /\ task' = [task EXCEPT !.pc = IF ok \/ (task.op = "write" /\ task.no = FormatNo)
                                   THEN "access" ELSE "release",
                            !.got = <<>>, !.chain = FALSE, !.sent = 0,
                            !.clean = @ /\ ok]

-----------------------------------------------------------------------------
(* The PN5180                                                              *)

\* What may be read after f was sent.
Answers(f) == {Reacts(card, f).ans, late, NoFrame}

\* pn5180_send_data and pn5180_read_data: f goes out, and ans is read.
Transceive(f, ans) ==
    LET r == Reacts(card, f) IN
    /\ \/ ans = r.ans /\ card' = r.c /\ Count(r.n) /\ late' = NoFrame /\ UNCHANGED used
       \/ /\ ans = NoFrame /\ Use("fault", MaxFaults)
          /\ late' = NoFrame
          /\ \/ UNCHANGED <<card, ran>>
             \/ r.c # card /\ card' = r.c /\ Count(r.n)
       \/ /\ ans = NoFrame /\ r.ans.k = "I"
          /\ Use("late", MaxLate)
          /\ card' = r.c /\ Count(r.n) /\ late' = r.ans
       \/ /\ late # NoFrame /\ ans = late
          /\ late' = NoFrame /\ UNCHANGED <<card, ran, used>>
    /\ UNCHANGED <<drv, out>>

FieldOff == rf' = FALSE /\ card' = Unpowered(card) /\ late' = NoFrame

\* pn5180_iso14443_activate, to the field being on; a chip that does not answer in time
\* fails it, before or after the field came on.
FieldOn ==
    /\ drv = "pn5180" /\ task.pc = "poll"
    /\ g' = NoTarget
    /\ \/ /\ rf' = TRUE /\ card' = Powered(card)
          /\ task' = [task EXCEPT !.pc = "reqa"]
          /\ UNCHANGED <<served, used>>
       \/ /\ ChipFails
          /\ \E on \in {rf, TRUE} : rf' = on /\ card' = IF on THEN Powered(card) ELSE card
          /\ Found("FAIL")
    /\ UNCHANGED <<drv, late, out, ran, exch>>

\* A step of the activation: f is sent, and the answer is as wanted.
Activate(f, wanted, ans) ==
    /\ ans.k = wanted /\ Transceive(f, ans)
    /\ UNCHANGED <<rf, exch>>

\* Otherwise the field goes off and the activation ends with e.
GiveUp(f, wanted, e) ==
    /\ IF Reacts(card, f).ans.k # wanted THEN UNCHANGED used ELSE ChipFails
    /\ FieldOff /\ Found(e)
    /\ UNCHANGED <<drv, g, out, ran, exch>>

Reqa ==
    LET f == Frame("REQA") IN
    /\ task.pc = "reqa"
    /\ \/ /\ \E ans \in Answers(f) : Activate(f, "ATQA", ans)
          /\ task' = [task EXCEPT !.pc = "ac", !.level = 1] /\ UNCHANGED <<g, served>>
       \/ GiveUp(f, "ATQA", "NOT_FOUND")

Anticollision ==
    LET f == Frame("AC") IN
    /\ task.pc = "ac"
    /\ \/ /\ \E ans \in Answers(f) : Activate(f, "UID", ans)
          /\ task' = [task EXCEPT !.pc = "sel"] /\ UNCHANGED <<g, served>>
       \/ GiveUp(f, "UID", "FAIL")

\* What the SAK says: another level, RATS, or a card without ISO 14443-4.
Selected(sak) ==
    \/ sak.more /\ task' = [task EXCEPT !.pc = "ac", !.level = @ + 1] /\ UNCHANGED served
    \/ ~sak.more /\ sak.iso4 /\ task' = [task EXCEPT !.pc = "rats"] /\ UNCHANGED served
    \/ ~sak.more /\ ~sak.iso4 /\ Found("OK")

Select ==
    LET f == Frame("SEL") IN
    /\ task.pc = "sel"
    /\ \/ /\ \E ans \in Answers(f) : Activate(f, "SAK", ans) /\ Selected(ans)
          /\ UNCHANGED g
       \/ GiveUp(f, "SAK", "FAIL")

Rats ==
    LET f == Frame("RATS") IN
    /\ task.pc = "rats"
    /\ \/ /\ \E ans \in Answers(f) : Activate(f, "ATS", ans)
          /\ g' = [active |-> TRUE, blk |-> 0] /\ Found("OK")
       \/ GiveUp(f, "ATS", "FAIL")

\* Without a card in ISO 14443-4 an exchange is refused.
ApduRefused ==
    /\ drv = "pn5180" /\ task.pc = "apdu" /\ ~g.active
    /\ Exchanged(FALSE, <<>>)
    /\ UNCHANGED <<driver, card, rf, late, out, served, ran, used>>

\* The block to send: the acknowledgement of a block of the card's chain, or the next one.
Block == IF task.chain THEN RAck(g.blk) ELSE IBlock(g.blk, task.n, task.sent + 1, task.sent + 1 < task.tx)
Sent == IF task.chain THEN task.sent ELSE task.sent + 1

Toggled == g' = [g EXCEPT !.blk = 1 - @]

\* Defect: the first block of an answer is taken for all of it.
BlockRead_NoChain(ans, sent) ==
    CASE ans.k = "R" /\ sent < task.tx ->
            Toggled /\ task' = [task EXCEPT !.pc = "apdu", !.sent = sent] /\ UNCHANGED exch
      [] ans.k = "I" -> Toggled /\ Exchanged(TRUE, Append(task.got, <<ans.n, ans.i>>))
      [] OTHER -> UNCHANGED g /\ Exchanged(FALSE, <<>>)

\* What was read in answer to a block, when sent blocks have gone out: R(ACK) asks for the
\* next, an I-block brings the answer or a part of it.  Its number is not looked at.
BlockRead(ans, sent) ==
    CASE ans.k = "R" /\ sent < task.tx ->
            Toggled /\ task' = [task EXCEPT !.pc = "apdu", !.sent = sent] /\ UNCHANGED exch
      [] ans.k = "I" /\ Len(task.got) = MaxBlocks -> Toggled /\ Exchanged(FALSE, <<>>)
      [] ans.k = "I" /\ Len(task.got) < MaxBlocks /\ ans.more ->
            /\ Toggled /\ UNCHANGED exch
            /\ task' = [task EXCEPT !.pc = "apdu", !.sent = sent, !.chain = TRUE,
                                    !.got = Append(@, <<ans.n, ans.i>>)]
      [] ans.k = "I" /\ Len(task.got) < MaxBlocks /\ ~ans.more ->
            Toggled /\ Exchanged(TRUE, Append(task.got, <<ans.n, ans.i>>))
      [] OTHER -> UNCHANGED g /\ Exchanged(FALSE, <<>>)

\* Defect: a block that was not answered is sent again.
SendBlock_Again ==
    /\ drv = "pn5180" /\ task.pc = "apdu" /\ g.active
    /\ \E ans \in Answers(Block) :
          /\ Transceive(Block, ans)
          /\ IF ans = NoFrame THEN UNCHANGED <<g, task, exch>> ELSE BlockRead(ans, Sent)
    /\ UNCHANGED <<rf, served>>

SendBlock ==
    /\ drv = "pn5180" /\ task.pc = "apdu" /\ g.active
    /\ \E ans \in Answers(Block) : Transceive(Block, ans) /\ BlockRead(ans, Sent)
    /\ UNCHANGED <<rf, served>>

\* The card asks for more time for its answer, gets it, and answers.
SendBlockWtx ==
    /\ drv = "pn5180" /\ task.pc = "apdu" /\ g.active /\ late = NoFrame
    /\ Reacts(card, Block).ans.k = "I"
    /\ Use("wtx", MaxWtx)
    /\ card' = Reacts(card, Block).c /\ Count(Reacts(card, Block).n)
    /\ task' = [task EXCEPT !.pc = "wtx", !.sent = Sent]
    /\ UNCHANGED <<driver, rf, late, out, served, exch>>

Wtx ==
    /\ task.pc = "wtx"
    /\ \E ans \in Answers(Frame("WTX")) : Transceive(Frame("WTX"), ans) /\ BlockRead(ans, task.sent)
    /\ UNCHANGED <<rf, served>>

\* pn5180_iso14443_deselect: whatever the card answers, the field goes off.
Deselect ==
    /\ drv = "pn5180" /\ task.pc = "release"
    /\ FieldOff
    /\ g' = [g EXCEPT !.active = FALSE]
    /\ task' = Idle(TRUE, task.empty)
    /\ UNCHANGED <<drv, out, served, ran, exch, used>>

-----------------------------------------------------------------------------
(* The PN532                                                               *)

\* cmd(): the chip carries a command out; ok says whether its response was read.  What the
\* chip had ready may be dropped for the new command, or be read in place of its
\* acknowledgement, which fails, and leaves the response; or that comes after its timeout.
Command532(ok, carried) ==
    \/ ok /\ carried /\ out' = "none" /\ UNCHANGED used
    \/ /\ ~ok /\ out \in {"response", "ack"}
       /\ carried /\ out' = "response" /\ UNCHANGED used
    \/ /\ ~ok /\ Use("fault", MaxFaults)
       /\ \/ carried /\ out' \in {"ack", "response"}
          \/ UNCHANGED <<card, ran>> /\ out' = "none"

Listed == card' = [Powered(card) EXCEPT !.st = "proto", !.blk = 1] /\ UNCHANGED ran

\* pn532_find_target: InListPassiveTarget is sent, ...
Find532 ==
    /\ drv = "pn532" /\ task.pc = "poll"
    /\ task' = [task EXCEPT !.pc = "find"]
    /\ UNCHANGED <<driver, card, rf, late, out, served, ran, exch, used>>

\* ... and what comes of it.  With no card the chip answers that there is none when it gives
\* up, or goes on looking beyond the timeout.
Target532 ==
    /\ task.pc = "find"
    /\ \/ /\ card # NoCard
          /\ \E ok \in BOOLEAN : Command532(ok, Listed) /\ Found(IF ok THEN "OK" ELSE "FAIL")
       \/ /\ card = NoCard
          /\ \/ Found("NOT_FOUND") /\ out' = "none"
             \/ Found("TIMEOUT") /\ out' = "list"
          /\ UNCHANGED <<card, ran, used>>
    /\ UNCHANGED <<driver, rf, late, exch>>

\* pn532_apdu_exchange: InDataExchange; its status says whether the card answered.
Apdu532 ==
    /\ drv = "pn532" /\ task.pc = "apdu"
    /\ IF card # NoCard /\ card.st = "proto" /\ card.kind.iso4
       THEN \E ok \in BOOLEAN :
               /\ Command532(ok, Count(task.n) /\ UNCHANGED card)
               /\ Exchanged(ok, IF ok THEN [i \in 1..task.rx |-> <<task.n, i>>] ELSE <<>>)
       ELSE Exchanged(FALSE, <<>>) /\ out' = "none" /\ UNCHANGED <<card, ran, used>>
    /\ UNCHANGED <<driver, rf, late, served>>

\* pn532_release: InRelease; its result is ignored.
Release532 ==
    /\ drv = "pn532" /\ task.pc = "release"
    /\ out' = "none"
    /\ card' = IF card # NoCard THEN [card EXCEPT !.st = "idle"] ELSE card
    /\ task' = Idle(TRUE, task.empty)
    /\ UNCHANGED <<driver, rf, late, served, ran, exch, used>>

-----------------------------------------------------------------------------

Activation == FieldOn \/ Reqa \/ Anticollision \/ Select \/ Rats
Exchange == ApduRefused \/ SendBlock \/ SendBlockWtx \/ Wtx \/ Apdu532

TaskStep ==
    \/ Init5180
    \/ Init532
    \/ \E op \in {"idle", "read", "write"} : Access(op)
    \/ \E tx, rx \in 1..MaxBlocks : Apdu(tx, rx)
    \/ AccessDone
    \/ Activation
    \/ Exchange
    \/ Deselect
    \/ Find532
    \/ Target532
    \/ Release532

Next ==
    \/ \E kind \in Kinds : Place(kind)
    \/ Remove
    \/ TaskStep

Spec == Init /\ [][Next]_vars

\* nfc_task loops for ever; nothing makes users put cards into the field.
FairSpec == Spec /\ WF_vars(TaskStep)

-----------------------------------------------------------------------------
(* Properties                                                              *)

\* A card carries an APDU out at most once, whatever was lost or late: nothing is sent again
\* by the PN5180 driver, and what the PN532 repeats the card knows by its block number.
CarriedOutOnce == \A n \in 1..MaxApdus : ran[n] <= 1

\* An exchange that succeeds brings the whole answer of its own APDU, which the card carried
\* out, as long as no exchange of this access has failed before: chains in both directions
\* and waiting times included, whatever an earlier access left in the chip.
AnswerIsOurs ==
    exch.ok /\ exch.clean => exch.got = [i \in 1..exch.rx |-> <<exch.n, i>>] /\ ran[exch.n] = 1

\* The PN532 is asked for a card while an answer of before is still to be read.
Behind == task.pc = "find" /\ out \in {"response", "ack"}

\* A card put into the field is accessed, or taken away again, and an empty field is noticed.
\* The PN532 needs the field to be seen empty before the next card, and never says that it is
\* empty itself: it keeps finding a card that took the place of another.  Its driver does not
\* catch up with an answer that it has left unread, so that one for ever behind finds nothing.
PresentedIsServed ==
    /\ \/ /\ card # NoCard /\ (drv = "pn5180" \/ ~task.inField)
              ~> served \/ card = NoCard \/ task.pc = "dead"
       \/ []<>Behind
    /\ drv = "pn5180" => (card = NoCard ~> card # NoCard \/ ~task.inField)
=============================================================================
