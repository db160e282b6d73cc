----------------------------- MODULE DesfireCard -----------------------------
(***************************************************************************)
(* A DESFire card as the reader uses it: what it keeps without power, what *)
(* it forgets, and how it answers each native command the LEAF flows send. *)
(* The card is not part of the repository; what it does is taken from how  *)
(* components/desfire and components/leaf use it.                          *)
(*                                                                         *)
(* A CMAC or a ciphertext is the pair of its key and what it was computed  *)
(* from.  Every command of a session carries a MAC over the command        *)
(* counter; a command the card refuses ends the session.  Whether answers  *)
(* carry a MAC differs: desfire.c expects one after data, desfire_enc.c    *)
(* "tolerates" one after a bare status.  A card has its own `macs', the    *)
(* kinds of answer it adds a MAC to.                                       *)
(***************************************************************************)
EXTENDS Integers

CONSTANTS
    NoKey,
    Default      \* 16 zero bytes: the factory key

FileSize == 32   \* LEAF_FILE_SIZE
MacLen   == 8

Sealed(key, msg) == <<key, msg>>      \* AES-CMAC, AES-CBC

Command(ins, arg, mac) == [ins |-> ins, arg |-> arg, mac |-> mac]

\* The MAC of a command: cmd | cmd_ctr | TI | header | data.
CommandMac(key, ins, arg, ctr, ti) == Sealed(key, <<"cmd", ins, arg, ctr, ti>>)
\* The MAC of an answer: status | cmd_ctr | TI | data.
AnswerMac(key, ctr, ti) == Sealed(key, <<"answer", ctr, ti>>)

NoSession == [no |-> -1, kenc |-> NoKey, kmac |-> NoKey, ti |-> 0, ctr |-> 0]
NoChallenge == [no |-> -1, rnd |-> 0]
NoPayload == <<>>

FactoryCard(m) ==
    [app |-> FALSE, key |-> [n \in 0..1 |-> Default], file |-> FALSE, data |-> NoPayload,
     sel |-> "picc", pend |-> NoChallenge, ses |-> NoSession, macs |-> m]

\* The field came on: selection and session are forgotten.
PoweredUp(c) == [c EXCEPT !.sel = "picc", !.pend = NoChallenge, !.ses = NoSession]

\* The key a card authenticates with; that of the PICC is never changed by this reader.
CardKey(c, no) == IF c.sel = "picc" THEN Default ELSE c.key[no]

-----------------------------------------------------------------------------
(* Answers: the card afterwards, the status, length and MAC of the answer  *)

Answer(c, st, len, mac, data) ==
    [card |-> c, st |-> st, len |-> len, mac |-> mac, data |-> data]

Plain(c, st, len) == Answer(c, st, len, NoKey, NoPayload)
Refusal(c) == Plain([c EXCEPT !.ses = NoSession, !.pend = NoChallenge], "ERROR", 0)

\* The command was carried out in the session: the counter moves on.
Done(c, len, data) ==
    LET d    == [c EXCEPT !.ses.ctr = @ + 1]
        with == (IF len = 0 THEN "empty" ELSE "data") \in c.macs
    IN  Answer(d, "OK", IF with THEN len + MacLen ELSE len,
               IF with THEN AnswerMac(d.ses.kmac, d.ses.ctr, d.ses.ti) ELSE NoKey, data)

Genuine(c, cmd) ==
    /\ c.ses # NoSession
    /\ cmd.mac = CommandMac(c.ses.kmac, cmd.ins, cmd.arg, c.ses.ctr, c.ses.ti)

CardSelect(c, aid) ==
    IF aid = "leaf" /\ ~c.app
    THEN Refusal(c)
    ELSE Plain([c EXCEPT !.sel = aid, !.ses = NoSession, !.pend = NoChallenge], "OK", 0)

\* AuthenticateEV2First, first frame: the card's random number.
CardAuth1(c, no, rnd) ==
    IF c.sel = "picc" /\ no # 0
    THEN Refusal(c)
    ELSE Plain([c EXCEPT !.ses = NoSession, !.pend = [no |-> no, rnd |-> rnd]], "MORE", 16)

\* Second frame: both random numbers under the same key; the session keys follow from it.
CardAuth2(c, proof) ==
    LET k == CardKey(c, c.pend.no)
        r == c.pend.rnd
    IN  IF c.pend = NoChallenge \/ proof # Sealed(k, <<"rnd", r>>)
        THEN Refusal(c)
        ELSE Plain([c EXCEPT !.pend = NoChallenge,
                             !.ses = [no |-> c.pend.no, kenc |-> Sealed(k, <<"sv1", r>>),
                                      kmac |-> Sealed(k, <<"sv2", r>>), ti |-> r, ctr |-> 0]],
                   "OK", 32)

CardFormat(c) ==
    IF c.sel = "picc" /\ c.ses.no = 0
    THEN Done([c EXCEPT !.app = FALSE, !.file = FALSE, !.data = NoPayload,
                        !.key = [n \in 0..1 |-> Default]], 0, NoPayload)
    ELSE Refusal(c)

CardCreateApp(c) ==
    IF c.sel = "picc" /\ ~c.app THEN Done([c EXCEPT !.app = TRUE], 0, NoPayload) ELSE Refusal(c)

CardCreateFile(c) ==
    IF c.sel = "leaf" /\ c.ses.no = 0 /\ ~c.file
    THEN Done([c EXCEPT !.file = TRUE], 0, NoPayload)
    ELSE Refusal(c)

\* blob: the new key, and the old one when it is not the key of the session.
CardChangeKey(c, no, blob) ==
    LET same == no = c.ses.no
        new  == blob[2][1]
        d    == [c EXCEPT !.key[no] = new]
    IN  IF c.sel = "leaf" /\ c.ses.no = 0 /\ blob[1] = c.ses.kenc /\ (same \/ blob[2][2] = c.key[no])
        THEN IF same THEN Plain([d EXCEPT !.ses = NoSession], "OK", 0) ELSE Done(d, 0, NoPayload)
        ELSE Refusal(c)

\* Access rights 0x1000: key 1 reads, key 0 reads and writes.
CardWrite(c, payload) ==
    IF c.sel = "leaf" /\ c.file /\ c.ses.no = 0
    THEN Done([c EXCEPT !.data = payload], 0, NoPayload)
    ELSE Refusal(c)

CardRead(c) ==
    IF c.sel = "leaf" /\ c.file THEN Done(c, FileSize, c.data) ELSE Refusal(c)

\* What the card does with a command; rnd is the random number it would draw.
CardDoes(c, cmd, rnd) ==
    IF cmd.ins \notin {"SELECT", "AUTH1", "AUTH2"} /\ ~Genuine(c, cmd) THEN Refusal(c)
    ELSE CASE cmd.ins = "SELECT" -> CardSelect(c, cmd.arg)
           [] cmd.ins = "AUTH1"  -> CardAuth1(c, cmd.arg, rnd)
           [] cmd.ins = "AUTH2"  -> CardAuth2(c, cmd.arg)
           [] cmd.ins = "FORMAT" -> CardFormat(c)
           [] cmd.ins = "CREATE_APP"  -> CardCreateApp(c)
           [] cmd.ins = "CREATE_FILE" -> CardCreateFile(c)
           [] cmd.ins = "CHANGE_KEY"  -> CardChangeKey(c, cmd.arg[1], cmd.arg[2])
           [] cmd.ins = "WRITE"  -> CardWrite(c, cmd.arg)
           [] cmd.ins = "READ"   -> CardRead(c)
=============================================================================
