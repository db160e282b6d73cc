----------------------------- MODULE LeafProofs -----------------------------
(***************************************************************************)
(* Theorems about Leaf, for any cards, credentials and site keys, and any  *)
(* number of accesses, faults, self tests, key changes and restarts: a     *)
(* credential is never on a card with a factory key, what was written      *)
(* stays, reader and card count their commands alike, and a write that     *)
(* nothing disturbs succeeds.                                              *)
(*                                                                         *)
(* A write is a walk through WriteFlow, so LeafInv says what each          *)
(* instruction leaves behind it: in the task's keys and on the card.       *)
(* CountInv adds the sessions, TrackInv the undisturbed write.             *)
(***************************************************************************)
EXTENDS Leaf, TLAPS

USE LeafAssumption

\* Where WriteFlow computes a key, and changes what the card keeps.
ComputesKdiv == 2
CreatesApp == 10
CreatesFile == 17
ComputesKmst == 18
ChangesKey1 == 19
ChangesKey0 == 20
ComputesMac == 26
Writes == 27

-----------------------------------------------------------------------------
(* The inductive invariant                                                 *)

CardFields == {"app", "key", "file", "data", "sel", "pend", "ses", "macs"}
TaskFields == {"op", "uid", "pc", "sub", "k", "saved", "cred", "rnd", "data", "quiet", "alone",
               "gone"}

IsCard(c) ==
    /\ DOMAIN c = CardFields /\ c.key = [n \in 0..1 |-> c.key[n]]
    /\ c.app \in BOOLEAN /\ c.file \in BOOLEAN

Shapes ==
    /\ DOMAIN cards = Cards /\ \A c \in Cards : IsCard(cards[c])
    /\ DOMAIN task = TaskFields /\ DOMAIN task.k = KeyNames
    /\ task.op \in {"none", "read", "write"}
    /\ task.op # "none" => task.uid \in Cards /\ task.pc \in 1..Len(Flow(task.op))
    /\ task.sub \in 0..2
    /\ DOMAIN promised = Cards

\* The command in the air is the one of the instruction.
InTheAir ==
    At("exchange") /\ task.sub = 1 => air.ins = Here.ins /\ air.arg = Argument(Here)

\* The task is past instruction i of a write, or has computed its result.
Past(i) == task.op = "write" /\ (task.pc > i \/ (task.pc = i /\ task.sub = 2))

\* The keys a write computes are MACs, although a self test may have put another key under
\* them.
IsMac(v) == \E x, m : v = Sealed(x, m)
KeysComputed ==
    /\ Past(ComputesKdiv) => IsMac(task.k["kdiv"])
    /\ Past(ComputesKmst) => IsMac(task.k["kmst"])

DataUnderMacs ==
    \A c \in Cards : cards[c].data # NoPayload => \A n \in 0..1 : IsMac(cards[c].key[n])

\* The keys of a write that no self test ran into.
KeysRight ==
    task.alone =>
      /\ Past(ComputesKdiv) => task.k["kdiv"] = Diversified(task.k["site"], "div", task.uid)
      /\ Past(ComputesKmst) => task.k["kmst"] = Diversified(task.k["site"], "mst", task.uid)
      /\ Past(ComputesMac) => task.k["mac8"] = Sealed(task.k["kdiv"], <<"cred", task.cred>>)

\* What each accepted command of a write has left on the card.
CardSoFar ==
    LET c == cards[task.uid] IN
    task.op = "write" =>
      /\ task.pc > CreatesApp => c.app
      /\ task.pc > CreatesFile => c.file
      /\ task.pc > ChangesKey1 => c.key[1] = task.k["kdiv"]
      /\ task.pc > ChangesKey0 => c.key[0] = task.k["kmst"]

\* Alone, the task finds the key it has put into the global.
MacKeyRight ==
    task.op # "none" /\ task.alone =>
      /\ console = ConsoleIdle
      /\ At("mac") /\ task.sub = 1 => macKey = task.k[Here.key]

\* A promise is about a card that no write is at.
PromisesKept ==
    /\ task.op = "write" => promised[task.uid] = NoPromise
    /\ WrittenIsHeld

LeafInv ==
    /\ Shapes /\ InTheAir /\ KeysComputed /\ KeysRight /\ CardSoFar /\ MacKeyRight
    /\ PromisesKept /\ DataUnderMacs

-----------------------------------------------------------------------------
(* The flows                                                               *)

LEMMA WriteTable ==
    /\ Len(WriteFlow) = 27
    /\ WriteFlow[1] = Load /\ WriteFlow[2] = Mac("site", "div", "kdiv")
    /\ WriteFlow[3] = Select("picc")
    /\ \A i \in {4, 12} : WriteFlow[i] = Exchange("AUTH1", 0, "zero")
    /\ \A i \in {5, 13} : WriteFlow[i] = Exchange("AUTH2", 0, "zero")
    /\ \A i \in {6, 14} : WriteFlow[i] = Mac("zero", "sv1", "kenc")
    /\ \A i \in {7, 15} : WriteFlow[i] = Mac("zero", "sv2", "kmac")
    /\ \A i \in {8, 16, 25} : WriteFlow[i] = Establish(0)
    /\ WriteFlow[9] = Exchange("FORMAT", 0, "zero")
    /\ WriteFlow[10] = Exchange("CREATE_APP", 0, "zero")
    /\ WriteFlow[11] = Select("leaf")
    /\ WriteFlow[17] = Exchange("CREATE_FILE", 0, "zero")
    /\ WriteFlow[18] = Mac("site", "mst", "kmst")
    /\ WriteFlow[19] = Exchange("CHANGE_KEY", 1, "kdiv")
    /\ WriteFlow[20] = Exchange("CHANGE_KEY", 0, "kmst")
    /\ WriteFlow[21] = Exchange("AUTH1", 0, "kmst") /\ WriteFlow[22] = Exchange("AUTH2", 0, "kmst")
    /\ WriteFlow[23] = Mac("kmst", "sv1", "kenc") /\ WriteFlow[24] = Mac("kmst", "sv2", "kmac")
    /\ WriteFlow[26] = Mac("kdiv", "cred", "mac8")
    /\ WriteFlow[27] = Exchange("WRITE", 0, "zero")
  <1> USE DEF WriteFlow, Auth
  <1>1. /\ Len(WriteFlow) = 27
        /\ WriteFlow[1] = Load /\ WriteFlow[2] = Mac("site", "div", "kdiv")
        /\ WriteFlow[3] = Select("picc")
    OBVIOUS
  <1>2. \A i \in {4, 12} : WriteFlow[i] = Exchange("AUTH1", 0, "zero")
    OBVIOUS
  <1>3. \A i \in {5, 13} : WriteFlow[i] = Exchange("AUTH2", 0, "zero")
    OBVIOUS
  <1>4. \A i \in {6, 14} : WriteFlow[i] = Mac("zero", "sv1", "kenc")
    OBVIOUS
  <1>5. \A i \in {7, 15} : WriteFlow[i] = Mac("zero", "sv2", "kmac")
    OBVIOUS
  <1>6. \A i \in {8, 16, 25} : WriteFlow[i] = Establish(0)
    OBVIOUS
  <1>7. /\ WriteFlow[9] = Exchange("FORMAT", 0, "zero")
        /\ WriteFlow[10] = Exchange("CREATE_APP", 0, "zero")
        /\ WriteFlow[11] = Select("leaf")
        /\ WriteFlow[17] = Exchange("CREATE_FILE", 0, "zero")
        /\ WriteFlow[18] = Mac("site", "mst", "kmst")
    OBVIOUS
  <1>8. /\ WriteFlow[19] = Exchange("CHANGE_KEY", 1, "kdiv")
        /\ WriteFlow[20] = Exchange("CHANGE_KEY", 0, "kmst")
        /\ WriteFlow[21] = Exchange("AUTH1", 0, "kmst")
        /\ WriteFlow[22] = Exchange("AUTH2", 0, "kmst")
    OBVIOUS
  <1>9. /\ WriteFlow[23] = Mac("kmst", "sv1", "kenc") /\ WriteFlow[24] = Mac("kmst", "sv2", "kmac")
        /\ WriteFlow[26] = Mac("kdiv", "cred", "mac8")
        /\ WriteFlow[27] = Exchange("WRITE", 0, "zero")
    OBVIOUS
  <1> QED  BY <1>1, <1>2, <1>3, <1>4, <1>5, <1>6, <1>7, <1>8, <1>9

LEMMA ReadTable ==
    /\ Len(ReadFlow) = 10
    /\ ReadFlow[1] = Load /\ ReadFlow[2] = Mac("site", "div", "kdiv")
    /\ ReadFlow[3] = Select("leaf") /\ ReadFlow[4] = Exchange("AUTH1", 1, "kdiv")
    /\ ReadFlow[5] = Exchange("AUTH2", 1, "kdiv") /\ ReadFlow[6] = Mac("kdiv", "sv1", "kenc")
    /\ ReadFlow[7] = Mac("kdiv", "sv2", "kmac") /\ ReadFlow[8] = Establish(1)
    /\ ReadFlow[9] = Exchange("READ", 0, "zero") /\ ReadFlow[10] = Mac("kdiv", "cred", "mac8")
  BY DEF ReadFlow, Auth

Dos == {"load", "mac", "exchange", "establish"}
Changing == {"FORMAT", "CREATE_APP", "CREATE_FILE", "CHANGE_KEY", "WRITE"}
Commands == {"SELECT", "AUTH1", "AUTH2", "READ"} \cup Changing

\* Which instruction is where.
WriteAt(i, h) ==
    /\ h.do \in Dos /\ (h.do = "load" <=> i = 1)
    /\ h.do = "mac" => /\ h.dst \in {"kdiv", "kmst", "mac8", "kenc", "kmac"}
                       /\ h.dst = "kdiv" <=> i = ComputesKdiv
                       /\ h.dst = "kmst" <=> i = ComputesKmst
                       /\ h.dst = "mac8" <=> i = ComputesMac
    /\ i = ComputesKdiv => h = Mac("site", "div", "kdiv")
    /\ i = ComputesKmst => h = Mac("site", "mst", "kmst")
    /\ i = ComputesMac => h = Mac("kdiv", "cred", "mac8")
    /\ h.do = "exchange" => /\ h.ins \in Commands
                            /\ h.ins = "FORMAT" => i = 9
                            /\ h.ins = "CREATE_APP" <=> i = CreatesApp
                            /\ h.ins = "CREATE_FILE" <=> i = CreatesFile
                            /\ h.ins = "CHANGE_KEY" <=> i \in {ChangesKey1, ChangesKey0}
                            /\ h.ins = "WRITE" <=> i = Writes
    /\ i \in {9, CreatesApp, CreatesFile, ChangesKey1, ChangesKey0, Writes}
          => h.do = "exchange"
    /\ i = ChangesKey1 => h = Exchange("CHANGE_KEY", 1, "kdiv")
    /\ i = ChangesKey0 => h = Exchange("CHANGE_KEY", 0, "kmst")

ReadAt(i, h) ==
    /\ h.do \in Dos /\ (h.do = "load" <=> i = 1)
    /\ h.do = "mac" => h.dst \in {"kdiv", "mac8", "kenc", "kmac"}
    /\ h.do = "exchange" => h.ins \in Commands \ Changing
    /\ i = 10 => h.do = "mac"

LEMMA WriteInstructions ==
    ASSUME NEW i \in 1..27, NEW h, h = WriteFlow[i]
    PROVE  WriteAt(i, h)
  <1> USE DEF Dos, Commands, Changing, ComputesKdiv, CreatesApp, CreatesFile, ComputesKmst,
              ChangesKey1, ChangesKey0, ComputesMac, Writes, Load, Mac, Exchange, Select,
              Establish, WriteAt
  <1>1. CASE i \in 1..5
    BY <1>1, WriteTable
  <1>2. CASE i \in 6..10
    BY <1>2, WriteTable
  <1>3. CASE i \in 11..15
    BY <1>3, WriteTable
  <1>4. CASE i \in 16..20
    BY <1>4, WriteTable
  <1>5. CASE i \in 21..27
    BY <1>5, WriteTable
  <1> QED  BY <1>1, <1>2, <1>3, <1>4, <1>5

LEMMA ReadInstructions ==
    ASSUME NEW i \in 1..10, NEW h, h = ReadFlow[i]
    PROVE  ReadAt(i, h)
  BY ReadTable DEF ReadAt, Dos, Commands, Changing, Load, Mac, Exchange, Select, Establish

LEMMA AtInstruction ==
    ASSUME Shapes, task.op # "none"
    PROVE  /\ task.op = "write" => /\ task.pc \in 1..27 /\ Len(Flow(task.op)) = 27
                                   /\ WriteAt(task.pc, Here)
           /\ task.op = "read" => /\ task.pc \in 1..10 /\ Len(Flow(task.op)) = 10
                                  /\ ReadAt(task.pc, Here)
  BY WriteTable, ReadTable, WriteInstructions, ReadInstructions DEF Shapes, Flow, Here

-----------------------------------------------------------------------------

(* What the card does to what it keeps                                     *)

\* What a card never loses by a command that is not about it.
Kept(c, d) ==
    /\ d.key = c.key /\ d.data = c.data
    /\ c.app => d.app
    /\ c.file => d.file

\* The key a change sets, and the card's keys with it.
NewKey(arg) == arg[2][2][1]
KeysWith(c, arg) == [c.key EXCEPT ![arg[1]] = NewKey(arg)]

\* What is on card d after card c answered with status st.
Effect(ins, arg, c, d, st) ==
    /\ IsCard(d)
    /\ ins \notin {"FORMAT", "CHANGE_KEY", "WRITE"} => Kept(c, d)
    /\ ins = "FORMAT" => Kept(c, d) \/ d.data = NoPayload
    /\ ins = "CREATE_APP" /\ st = "OK" => d.app
    /\ ins = "CREATE_FILE" /\ st = "OK" => d.file
    /\ ins = "CHANGE_KEY" => /\ Kept(c, [d EXCEPT !.key = c.key])
                             /\ d.key \in {c.key, KeysWith(c, arg)}
                             /\ st = "OK" => d.key = KeysWith(c, arg)
    /\ ins = "WRITE" => /\ Kept(c, [d EXCEPT !.data = c.data])
                        /\ d.data \in {c.data, arg}
                        /\ st = "OK" => d.data = arg

\* The MACs and the counter are about the session alone.
LEMMA DoneCard ==
    ASSUME NEW c, IsCard(c), NEW len, NEW data
    PROVE  LET a == Done(c, len, data) IN
           /\ IsCard(a.card) /\ a.st = "OK"
           /\ a.card.app = c.app /\ a.card.file = c.file
           /\ a.card.key = c.key /\ a.card.data = c.data
  BY DEF Done, Answer, IsCard, CardFields

LEMMA RefusedCard ==
    ASSUME NEW c, IsCard(c)
    PROVE  LET a == Refusal(c) IN
           /\ IsCard(a.card) /\ a.st = "ERROR"
           /\ a.card.app = c.app /\ a.card.file = c.file
           /\ a.card.key = c.key /\ a.card.data = c.data
  BY DEF Refusal, Plain, Answer, IsCard, CardFields

LEMMA RefusedEffect ==
    ASSUME NEW c, IsCard(c), NEW ins, NEW arg, NEW a, a = Refusal(c)
    PROVE  Effect(ins, arg, c, a.card, a.st)
  BY RefusedCard DEF Effect, Kept, IsCard, CardFields

LEMMA CardActs ==
    ASSUME NEW c, IsCard(c), NEW cmd, cmd.ins \in Commands, NEW rnd,
           cmd.ins = "CHANGE_KEY" => cmd.arg[1] \in {0, 1},
           NEW a, a = CardDoes(c, cmd, rnd)
    PROVE  Effect(cmd.ins, cmd.arg, c, a.card, a.st)
  <1>1. CASE cmd.ins \in {"SELECT", "AUTH1", "AUTH2"}
    <2>1. CASE cmd.ins = "SELECT"
      <3>1. \/ a = Refusal(c)
            \/ a = Plain([c EXCEPT !.sel = cmd.arg, !.ses = NoSession, !.pend = NoChallenge],
                        "OK", 0)
        BY <2>1 DEF CardDoes, CardSelect
      <3>2. CASE a # Refusal(c)
        <4>0. a.card = [c EXCEPT !.sel = cmd.arg, !.ses = NoSession, !.pend = NoChallenge]
          BY <3>1, <3>2 DEF Plain, Answer
        <4>1. IsCard(a.card) /\ Kept(c, a.card)
          BY <4>0 DEF IsCard, CardFields, Kept
        <4> QED  BY <2>1, <4>1 DEF Effect
      <3> QED  BY <3>2, RefusedEffect
    <2>2. CASE cmd.ins = "AUTH1"
      <3>1. \/ a = Refusal(c)
            \/ a = Plain([c EXCEPT !.ses = NoSession,
                                   !.pend = [no |-> cmd.arg, rnd |-> rnd]], "MORE", 16)
        BY <2>2 DEF CardDoes, CardAuth1
      <3>2. CASE a # Refusal(c)
        <4>0. a.card = [c EXCEPT !.ses = NoSession, !.pend = [no |-> cmd.arg, rnd |-> rnd]]
          BY <3>1, <3>2 DEF Plain, Answer
        <4>1. IsCard(a.card) /\ Kept(c, a.card)
          BY <4>0 DEF IsCard, CardFields, Kept
        <4> QED  BY <2>2, <4>1 DEF Effect
      <3> QED  BY <3>2, RefusedEffect
    <2>3. CASE cmd.ins = "AUTH2"
      <3> DEFINE s == [no |-> c.pend.no,
                       kenc |-> Sealed(CardKey(c, c.pend.no), <<"sv1", c.pend.rnd>>),
                       kmac |-> Sealed(CardKey(c, c.pend.no), <<"sv2", c.pend.rnd>>),
                       ti |-> c.pend.rnd, ctr |-> 0]
      <3>1. \/ a = Refusal(c)
            \/ a = Plain([c EXCEPT !.pend = NoChallenge, !.ses = s], "OK", 32)
        BY <2>3 DEF CardDoes, CardAuth2
      <3> HIDE DEF s
      <3>2. CASE a # Refusal(c)
        <4>0. a.card = [c EXCEPT !.pend = NoChallenge, !.ses = s]
          BY <3>1, <3>2 DEF Plain, Answer
        <4>1. IsCard(a.card) /\ Kept(c, a.card)
          BY <4>0 DEF IsCard, CardFields, Kept
        <4> QED  BY <2>3, <4>1 DEF Effect
      <3> QED  BY <3>2, RefusedEffect
    <2> QED  BY <1>1, <2>1, <2>2, <2>3
  <1>2. CASE cmd.ins \notin {"SELECT", "AUTH1", "AUTH2"} /\ ~Genuine(c, cmd)
    <2>1. a = Refusal(c)
      BY <1>2 DEF CardDoes
    <2> QED  BY <2>1, RefusedEffect
  <1> DEFINE Obeyed == cmd.ins \notin {"SELECT", "AUTH1", "AUTH2"} /\ Genuine(c, cmd)
  <1>3. CASE Obeyed /\ cmd.ins = "FORMAT"
    <2> DEFINE d == [c EXCEPT !.app = FALSE, !.file = FALSE, !.data = NoPayload,
                              !.key = [n \in 0..1 |-> Default]]
    <2>1. a = Refusal(c) \/ a = Done(d, 0, NoPayload)
      BY <1>3 DEF CardDoes, CardFormat
    <2>2. IsCard(d) /\ d.data = NoPayload
      BY DEF IsCard, CardFields
    <2>3. CASE a = Done(d, 0, NoPayload)
      <3> HIDE DEF d
      <3>1. IsCard(a.card) /\ a.card.data = NoPayload
        BY <2>2, <2>3, DoneCard
      <3> QED  BY <1>3, <3>1 DEF Effect
    <2> QED  BY <2>1, <2>3, RefusedEffect
  <1>4. CASE Obeyed /\ cmd.ins = "CREATE_APP"
    <2> DEFINE d == [c EXCEPT !.app = TRUE]
    <2>1. a = Refusal(c) \/ a = Done(d, 0, NoPayload)
      BY <1>4 DEF CardDoes, CardCreateApp
    <2>2. IsCard(d) /\ Kept(c, d) /\ d.app
      BY DEF IsCard, CardFields, Kept
    <2>3. CASE a = Done(d, 0, NoPayload)
      <3> HIDE DEF d
      <3>1. IsCard(a.card) /\ Kept(c, a.card) /\ a.card.app
        BY <2>2, <2>3, DoneCard DEF Kept
      <3> QED  BY <1>4, <3>1 DEF Effect
    <2> QED  BY <2>1, <2>3, RefusedEffect
  <1>5. CASE Obeyed /\ cmd.ins = "CREATE_FILE"
    <2> DEFINE d == [c EXCEPT !.file = TRUE]
    <2>1. a = Refusal(c) \/ a = Done(d, 0, NoPayload)
      BY <1>5 DEF CardDoes, CardCreateFile
    <2>2. IsCard(d) /\ Kept(c, d) /\ d.file
      BY DEF IsCard, CardFields, Kept
    <2>3. CASE a = Done(d, 0, NoPayload)
      <3> HIDE DEF d
      <3>1. IsCard(a.card) /\ Kept(c, a.card) /\ a.card.file
        BY <2>2, <2>3, DoneCard DEF Kept
      <3> QED  BY <1>5, <3>1 DEF Effect
    <2> QED  BY <2>1, <2>3, RefusedEffect
  <1>6. CASE Obeyed /\ cmd.ins = "CHANGE_KEY"
    <2> DEFINE d == [c EXCEPT !.key[cmd.arg[1]] = NewKey(cmd.arg)]
    <2>1. \/ a = Refusal(c) \/ a = Done(d, 0, NoPayload)
          \/ a = Plain([d EXCEPT !.ses = NoSession], "OK", 0)
      BY <1>6 DEF CardDoes, CardChangeKey, NewKey
    <2>2. /\ IsCard(d) /\ Kept(c, [d EXCEPT !.key = c.key])
          /\ d.key = KeysWith(c, cmd.arg)
      BY <1>6 DEF IsCard, CardFields, Kept, KeysWith
    <2>3. CASE a = Done(d, 0, NoPayload)
      <3> HIDE DEF d
      <3>1. IsCard(a.card) /\ a.card.key = KeysWith(c, cmd.arg)
        BY <2>2, <2>3, DoneCard
      <3>2. Kept(c, [a.card EXCEPT !.key = c.key])
        BY <2>2, <2>3, <3>1, DoneCard DEF Kept, IsCard, CardFields
      <3> QED  BY <1>6, <3>1, <3>2 DEF Effect
    <2>4. CASE a = Plain([d EXCEPT !.ses = NoSession], "OK", 0)
      <3> HIDE DEF d
      <3>1. IsCard(a.card) /\ a.card.key = KeysWith(c, cmd.arg)
        BY <2>2, <2>4 DEF Plain, Answer, IsCard, CardFields
      <3>2. Kept(c, [a.card EXCEPT !.key = c.key])
        BY <2>2, <2>4, <3>1 DEF Kept, IsCard, CardFields, Plain, Answer
      <3> QED  BY <1>6, <3>1, <3>2 DEF Effect
    <2> QED  BY <2>1, <2>3, <2>4, RefusedEffect
  <1>7. CASE Obeyed /\ cmd.ins = "WRITE"
    <2> DEFINE d == [c EXCEPT !.data = cmd.arg]
    <2>1. a = Refusal(c) \/ a = Done(d, 0, NoPayload)
      BY <1>7 DEF CardDoes, CardWrite
    <2>2. IsCard(d) /\ Kept(c, [d EXCEPT !.data = c.data]) /\ d.data = cmd.arg
      BY DEF IsCard, CardFields, Kept
    <2>3. CASE a = Done(d, 0, NoPayload)
      <3> HIDE DEF d
      <3>1. IsCard(a.card) /\ a.card.data = cmd.arg
        BY <2>2, <2>3, DoneCard
      <3>2. Kept(c, [a.card EXCEPT !.data = c.data])
        BY <2>2, <2>3, <3>1, DoneCard DEF Kept, IsCard, CardFields
      <3> QED  BY <1>7, <3>1, <3>2 DEF Effect
    <2> QED  BY <2>1, <2>3, RefusedEffect
  <1>8. CASE Obeyed /\ cmd.ins = "READ"
    <2>1. a = Refusal(c) \/ a = Done(c, FileSize, c.data)
      BY <1>8 DEF CardDoes, CardRead
    <2>2. CASE a = Done(c, FileSize, c.data)
      <3>1. IsCard(a.card) /\ Kept(c, a.card)
        BY <2>2, DoneCard DEF Kept
      <3> QED  BY <1>8, <3>1 DEF Effect
    <2> QED  BY <2>1, <2>2, RefusedEffect
  <1> QED  BY <1>1, <1>2, <1>3, <1>4, <1>5, <1>6, <1>7, <1>8 DEF Commands, Changing

-----------------------------------------------------------------------------

(* What the invariant takes from step to step                              *)

LEMMA StillHeld ==
    ASSUME WrittenIsHeld,
           \A c \in Cards : \/ promised'[c] = NoPromise
                            \/ promised'[c] = promised[c] /\ Kept(cards[c], cards'[c])
    PROVE  WrittenIsHeld'
  <1>1. \A c \in Cards : \A s, r :
            Kept(cards[c], cards'[c]) /\ Holds(c, s, r) => Holds(c, s, r)'
    BY DEF Holds, Kept
  <1> QED  BY <1>1 DEF WrittenIsHeld, NoPromise

LEMMA StillUnderMacs ==
    ASSUME DataUnderMacs, \A c \in Cards : Kept(cards[c], cards'[c])
    PROVE  DataUnderMacs'
  BY DEF DataUnderMacs, Kept

\* An access ends: there is nothing left to say about the task.
LEMMA Ended ==
    ASSUME task' = Idle, DOMAIN cards' = Cards, \A c \in Cards : IsCard(cards'[c]),
           DOMAIN promised' = Cards, WrittenIsHeld', DataUnderMacs'
    PROVE  LeafInv'
  <1>1. task'.op = "none" /\ task'.sub = 0
    BY DEF Idle
  <1>2. Shapes'
    BY DEF Shapes, Idle, TaskFields, Keys0
  <1>3. InTheAir' /\ KeysComputed' /\ KeysRight' /\ CardSoFar' /\ MacKeyRight'
    BY <1>1 DEF InTheAir, At, KeysComputed, KeysRight, Past, CardSoFar, MacKeyRight
  <1>4. PromisesKept'
    BY <1>1 DEF PromisesKept
  <1> QED  BY <1>2, <1>3, <1>4 DEF LeafInv

\* A task between two instructions.
LEMMA Between ==
    ASSUME LeafInv, task'.op = task.op, task.op # "none", task'.uid = task.uid,
           DOMAIN task' = TaskFields, DOMAIN task'.k = KeyNames, task'.sub = 0,
           task'.pc \in 1..Len(Flow(task.op)), task'.alone => task.alone,
           console' = console, promised' = promised,
           DOMAIN cards' = Cards, \A c \in Cards : IsCard(cards'[c]),
           \A c \in Cards : promised[c] = NoPromise \/ Kept(cards[c], cards'[c]),
           DataUnderMacs', KeysComputed', KeysRight', CardSoFar'
    PROVE  LeafInv'
  <1>1. Shapes'
    BY DEF LeafInv, Shapes
  <1>2. InTheAir'
    BY DEF InTheAir
  <1>3. MacKeyRight'
    BY DEF LeafInv, MacKeyRight
  <1>4. WrittenIsHeld'
    <2>1. \A c \in Cards : \/ promised'[c] = NoPromise
                           \/ promised'[c] = promised[c] /\ Kept(cards[c], cards'[c])
      OBVIOUS
    <2>2. WrittenIsHeld
      BY DEF LeafInv, PromisesKept
    <2> QED  BY <2>1, <2>2, StillHeld
  <1>5. PromisesKept'
    BY <1>4 DEF LeafInv, PromisesKept
  <1> QED  BY <1>1, <1>2, <1>3, <1>5 DEF LeafInv

LEMMA KeptAll ==
    ASSUME cards' = cards, NEW c \in Cards
    PROVE  Kept(cards[c], cards'[c])
  BY DEF Kept

-----------------------------------------------------------------------------

(* The steps                                                               *)

LEMMA InitLeaf == Init => LeafInv
  <1> SUFFICES ASSUME Init PROVE LeafInv
    OBVIOUS
  <1>1. Shapes
    <2>1. DOMAIN cards = Cards /\ \A c \in Cards : IsCard(cards[c])
      <3>1. PICK m : cards = [c \in Cards |-> FactoryCard(m)]
        BY DEF Init
      <3>2. IsCard(FactoryCard(m))
        BY DEF FactoryCard, IsCard, CardFields
      <3> QED  BY <3>1, <3>2
    <2> QED  BY <2>1 DEF Init, Shapes, Idle, TaskFields, Keys0
  <1>2. InTheAir /\ KeysComputed /\ KeysRight /\ CardSoFar /\ MacKeyRight
    BY DEF Init, Idle, InTheAir, At, KeysComputed, KeysRight, Past, CardSoFar, MacKeyRight
  <1>3. PromisesKept
    BY DEF Init, Idle, PromisesKept, WrittenIsHeld
  <1>4. DataUnderMacs
    BY DEF Init, DataUnderMacs, FactoryCard
  <1> QED  BY <1>1, <1>2, <1>3, <1>4 DEF LeafInv

LEMMA StartKeeps ==
    ASSUME LeafInv, NEW c \in Cards, NEW op \in {"read", "write"}, NEW cred, Start(c, op, cred)
    PROVE  LeafInv'
  <1>1. /\ task'.op = op /\ task'.uid = c /\ task'.pc = 1 /\ task'.sub = 0
        /\ DOMAIN task' = TaskFields /\ DOMAIN task'.k = KeyNames
        /\ task'.alone <=> console = ConsoleIdle
    BY DEF Start, Idle, TaskFields, Keys0
  <1>2. \A d \in Cards : Kept(cards[d], cards'[d]) /\ IsCard(cards'[d])
    BY DEF LeafInv, Shapes, Start, PoweredUp, Kept, IsCard, CardFields
  <1>3. Shapes'
    <2>1. task'.pc \in 1..Len(Flow(task'.op))
      <3>1. Len(Flow(op)) \in {10, 27}
        BY WriteTable, ReadTable DEF Flow
      <3>2. Len(Flow(task'.op)) \in {10, 27}
        BY <1>1, <3>1
      <3>3. \A n \in {10, 27} : 1 \in 1..n
        OBVIOUS
      <3> QED  BY <1>1, <3>2, <3>3
    <2>2. DOMAIN cards' = Cards /\ DOMAIN promised' = Cards
      BY DEF LeafInv, Shapes, Start
    <2> QED  BY <1>1, <1>2, <2>1, <2>2 DEF Shapes
  <1>4. InTheAir' /\ KeysComputed' /\ KeysRight' /\ CardSoFar'
    BY <1>1 DEF InTheAir, KeysComputed, KeysRight, Past, CardSoFar, ComputesKdiv, CreatesApp,
                CreatesFile, ComputesKmst, ChangesKey1, ChangesKey0, ComputesMac
  <1>5. MacKeyRight'
    BY <1>1 DEF MacKeyRight, Start
  <1>6. promised'[c] = NoPromise \/ op # "write"
    BY DEF Start, LeafInv, Shapes
  <1>7. \A d \in Cards : promised'[d] = NoPromise \/ promised'[d] = promised[d]
    BY DEF Start, LeafInv, Shapes
  <1>8. WrittenIsHeld'
    BY <1>2, <1>7, StillHeld DEF LeafInv, PromisesKept
  <1>9. PromisesKept'
    BY <1>1, <1>6, <1>8 DEF PromisesKept
  <1>10. DataUnderMacs'
    BY <1>2, StillUnderMacs DEF LeafInv
  <1> QED  BY <1>3, <1>4, <1>5, <1>9, <1>10 DEF LeafInv

\* Steps of others: the task keeps where it is and what it has computed.
LEMMA OthersKeep ==
    ASSUME LeafInv, Remove \/ (\E k \in SiteKeys : SetSiteKey(k)) \/ TestSwapIn \/ TestSwapOut
    PROVE  LeafInv'
  <1>1. /\ cards' = cards /\ promised' = promised /\ air' = air /\ ses' = ses
        /\ DOMAIN task' = TaskFields /\ task'.op = task.op /\ task'.uid = task.uid
        /\ task'.pc = task.pc /\ task'.sub = task.sub /\ task'.k = task.k
        /\ task'.cred = task.cred /\ task'.rnd = task.rnd
    BY DEF LeafInv, Shapes, TaskFields, Remove, SetSiteKey, TestSwapIn, TestSwapOut, others
  <1>2. \/ task'.alone = task.alone /\ console' = console /\ macKey' = macKey
        \/ task.op # "none" => ~task'.alone
    BY DEF LeafInv, Shapes, TaskFields, Remove, SetSiteKey, TestSwapIn, TestSwapOut, others
  <1>3. Shapes'
    BY <1>1 DEF LeafInv, Shapes
  <1>4. Here' = Here /\ (\A do : At(do)' <=> At(do)) /\ \A i : Past(i)' <=> Past(i)
    BY <1>1 DEF Here, At, Past
  <1>5. InTheAir'
    <2>1. Argument(Here)' = Argument(Here)
      BY <1>1, <1>4 DEF Argument, ChangeBlob
    <2> QED  BY <1>1, <1>4, <2>1 DEF LeafInv, InTheAir
  <1>6. KeysComputed' /\ CardSoFar'
    BY <1>1, <1>4 DEF LeafInv, KeysComputed, CardSoFar
  <1>7. KeysRight'
    BY <1>1, <1>2, <1>4 DEF LeafInv, KeysRight, Past
  <1>8. MacKeyRight'
    BY <1>1, <1>2, <1>4 DEF LeafInv, MacKeyRight
  <1>9. PromisesKept'
    BY <1>1 DEF LeafInv, PromisesKept, WrittenIsHeld, Holds
  <1>10. DataUnderMacs'
    BY <1>1 DEF LeafInv, DataUnderMacs
  <1> QED  BY <1>3, <1>5, <1>6, <1>7, <1>8, <1>9, <1>10 DEF LeafInv

LEMMA RebootKeeps == LeafInv /\ Reboot => LeafInv'
  BY Ended, StillHeld, StillUnderMacs, KeptAll DEF LeafInv, Shapes, Reboot, PromisesKept

-----------------------------------------------------------------------------

(* The steps of an access                                                  *)

\* The end of an access that promises nothing, and leaves cards as they are.
LEMMA FinishKeeps ==
    ASSUME LeafInv, NEW t, NEW ok, Finish(t, ok), ok => t.op = "read", cards' = cards
    PROVE  LeafInv'
  <1>1. task' = Idle /\ promised' = promised
    BY DEF Finish
  <1>2. WrittenIsHeld' /\ DataUnderMacs'
    BY <1>1, KeptAll, StillHeld, StillUnderMacs DEF LeafInv, PromisesKept
  <1> QED  BY <1>1, <1>2, Ended DEF LeafInv, Shapes

\* A step to the next instruction, when the one it leaves behind computed no key and did
\* nothing on the card that a write counts on.
LEMMA StepKeeps ==
    ASSUME LeafInv, task.op # "none", NEW t, task' = Step(t), DOMAIN t = TaskFields,
           t.op = task.op, t.uid = task.uid, t.pc = task.pc, t.cred = task.cred,
           t.alone = task.alone, t.k = task.k,
           task.pc + 1 \in 1..Len(Flow(task.op)),
           task.op = "write" /\ task.sub # 2
             => task.pc \notin {ComputesKdiv, ComputesKmst, ComputesMac},
           cards' = cards, promised' = promised, console' = console,
           task.op = "write" => task.pc \notin {CreatesApp, CreatesFile, ChangesKey1, ChangesKey0}
    PROVE  LeafInv'
  <1>1. /\ task'.op = task.op /\ task'.uid = task.uid /\ task'.pc = task.pc + 1
        /\ task'.sub = 0 /\ task'.cred = task.cred /\ task'.alone = task.alone
        /\ task'.k = task.k /\ DOMAIN task' = TaskFields
    BY DEF Step, TaskFields
  <1>2. task.pc \in Nat
    BY AtInstruction DEF LeafInv, Shapes
  <1>3. \A i \in {ComputesKdiv, ComputesKmst, ComputesMac} : Past(i)' <=> Past(i)
    BY <1>1, <1>2 DEF Past, ComputesKdiv, ComputesKmst, ComputesMac
  <1>4. KeysComputed'
    BY <1>1, <1>3 DEF LeafInv, KeysComputed
  <1>5. KeysRight'
    BY <1>1, <1>3 DEF LeafInv, KeysRight
  <1>6. CardSoFar'
    BY <1>1, <1>2 DEF LeafInv, CardSoFar, CreatesApp, CreatesFile, ChangesKey1, ChangesKey0
  <1>7. DataUnderMacs' /\ \A c \in Cards : Kept(cards[c], cards'[c])
    BY KeptAll, StillUnderMacs DEF LeafInv
  <1>8. DOMAIN task'.k = KeyNames /\ DOMAIN cards' = Cards /\ \A c \in Cards : IsCard(cards'[c])
    BY <1>1 DEF LeafInv, Shapes
  <1> QED  BY <1>1, <1>4, <1>5, <1>6, <1>7, <1>8, Between

LEMMA LoadSiteKeeps == LeafInv /\ LoadSite => LeafInv'
  <1> SUFFICES ASSUME LeafInv, LoadSite PROVE LeafInv'
    OBVIOUS
  <1>1. task.op # "none" /\ Here.do = "load" /\ task.op \in {"read", "write"}
    BY DEF LoadSite, At, LeafInv, Shapes
  <1>2. task.pc = 1 /\ Len(Flow(task.op)) \in {10, 27}
    BY <1>1, AtInstruction DEF LeafInv, ReadAt, WriteAt
  <1> DEFINE t == [task EXCEPT !.k["site"] = siteKey]
  <1>3. /\ t.op = task.op /\ t.uid = task.uid /\ t.pc = 1 /\ t.alone = task.alone
        /\ DOMAIN t = TaskFields /\ DOMAIN t.k = KeyNames
    BY <1>2 DEF LeafInv, Shapes, TaskFields
  <1>4. Len(Flow(t.op)) # 1 /\ 2 \in 1..Len(Flow(task.op))
    <2>1. \A n \in {10, 27} : n # 1 /\ 2 \in 1..n
      OBVIOUS
    <2>2. Flow(t.op) = Flow(task.op)
      BY <1>3
    <2> QED  BY <1>2, <2>1, <2>2
  <1>5. task' = Step(t) /\ promised' = promised /\ cards' = cards /\ console' = console
    BY <1>3, <1>4 DEF LoadSite, Proceed
  <1> HIDE DEF t
  <1>6. /\ task'.op = task.op /\ task'.uid = task.uid /\ task'.pc = 2 /\ task'.sub = 0
        /\ task'.alone = task.alone /\ DOMAIN task' = TaskFields /\ DOMAIN task'.k = KeyNames
    BY <1>3, <1>5 DEF Step, TaskFields
  <1>7. KeysComputed' /\ KeysRight' /\ CardSoFar'
    BY <1>6 DEF KeysComputed, KeysRight, CardSoFar, Past, ComputesKdiv, ComputesKmst,
                ComputesMac, CreatesApp, CreatesFile, ChangesKey1, ChangesKey0
  <1>8. DataUnderMacs' /\ \A c \in Cards : Kept(cards[c], cards'[c])
    BY <1>5, KeptAll, StillUnderMacs DEF LeafInv
  <1>9. DOMAIN cards' = Cards /\ \A c \in Cards : IsCard(cards'[c])
    BY <1>5 DEF LeafInv, Shapes
  <1> QED  BY <1>1, <1>4, <1>5, <1>6, <1>7, <1>8, <1>9, Between

LEMMA MacSwapInKeeps == LeafInv /\ MacSwapIn => LeafInv'
  <1> SUFFICES ASSUME LeafInv, MacSwapIn PROVE LeafInv'
    OBVIOUS
  <1>1. /\ DOMAIN task' = TaskFields /\ task'.op = task.op /\ task'.uid = task.uid
        /\ task'.pc = task.pc /\ task'.sub = 1 /\ task'.k = task.k /\ task'.cred = task.cred
        /\ task'.alone = task.alone /\ task.sub = 0 /\ task.op # "none"
        /\ cards' = cards /\ promised' = promised /\ console' = console
        /\ macKey' = task.k[Here.key] /\ Here.do = "mac"
    BY DEF LeafInv, Shapes, TaskFields, MacSwapIn, others, At
  <1>2. Here' = Here
    BY <1>1 DEF Here
  <1>3. \A i : Past(i)' <=> Past(i)
    BY <1>1 DEF Past
  <1>4. Shapes'
    BY <1>1 DEF LeafInv, Shapes
  <1>5. InTheAir'
    BY <1>1, <1>2 DEF InTheAir, At
  <1>6. KeysComputed'
    BY <1>1, <1>3 DEF LeafInv, KeysComputed
  <1>7. KeysRight'
    BY <1>1, <1>3 DEF LeafInv, KeysRight
  <1>8. CardSoFar'
    BY <1>1 DEF LeafInv, CardSoFar
  <1>9. MacKeyRight'
    BY <1>1, <1>2 DEF LeafInv, MacKeyRight, At
  <1>10. PromisesKept' /\ DataUnderMacs'
    BY <1>1, StillHeld, StillUnderMacs, KeptAll DEF LeafInv, PromisesKept
  <1> QED  BY <1>4, <1>5, <1>6, <1>7, <1>8, <1>9, <1>10 DEF LeafInv

LEMMA MacComputeKeeps == LeafInv /\ MacCompute => LeafInv'
  <1> SUFFICES ASSUME LeafInv, MacCompute PROVE LeafInv'
    OBVIOUS
  <1> DEFINE v == Sealed(macKey, MacInput(Here.tag))
  <1>1. /\ DOMAIN task' = TaskFields /\ task'.op = task.op /\ task'.uid = task.uid
        /\ task'.pc = task.pc /\ task'.sub = 2 /\ task'.cred = task.cred
        /\ task'.alone = task.alone /\ task.sub = 1 /\ task.op # "none"
        /\ task'.k = [task.k EXCEPT ![Here.dst] = v]
        /\ cards' = cards /\ promised' = promised /\ console' = console /\ macKey' = macKey
        /\ Here.do = "mac"
    BY DEF LeafInv, Shapes, TaskFields, MacCompute, others, At
  <1>2. Here' = Here
    BY <1>1 DEF Here
  <1>3. Here.dst \in KeyNames \ {"zero", "site"} /\ DOMAIN task.k = KeyNames
    BY <1>1, AtInstruction DEF LeafInv, Shapes, WriteAt, ReadAt, KeyNames
  <1>4. /\ DOMAIN task'.k = KeyNames /\ task'.k[Here.dst] = v
        /\ \A n \in KeyNames : n # Here.dst => task'.k[n] = task.k[n]
    BY <1>1, <1>3
  <1>5. task.op = "write" => task.pc \in 1..27 /\ WriteAt(task.pc, Here)
    BY <1>1, AtInstruction DEF LeafInv
  <1>6. IsMac(v)
    BY DEF IsMac
  <1> HIDE DEF v
  <1>7. Shapes'
    BY <1>1, <1>4 DEF LeafInv, Shapes
  <1>8. InTheAir'
    BY <1>1 DEF InTheAir
  <1>9. KeysComputed'
    BY <1>1, <1>4, <1>5, <1>6 DEF LeafInv, KeysComputed, Past, WriteAt, KeyNames,
                                  ComputesKdiv, ComputesKmst
  <1>10. KeysRight'
    <2> SUFFICES ASSUME task.alone, task.op = "write" PROVE KeysRight'
      BY <1>1 DEF KeysRight, Past
    <2>1. macKey = task.k[Here.key]
      BY <1>1 DEF LeafInv, MacKeyRight, At
    <2>2. CASE task.pc = ComputesKdiv
      <3>1. v = Diversified(task.k["site"], "div", task.uid)
        BY <1>5, <2>1, <2>2 DEF v, MacInput, WriteAt, Mac, Diversified
      <3> QED  BY <1>1, <1>3, <1>4, <1>5, <2>2, <3>1
               DEF KeysRight, Past, WriteAt, KeyNames, ComputesKdiv, ComputesKmst, ComputesMac
    <2>3. CASE task.pc = ComputesKmst
      <3>1. v = Diversified(task.k["site"], "mst", task.uid)
        BY <1>5, <2>1, <2>3 DEF v, MacInput, WriteAt, Mac, Diversified
      <3> QED  BY <1>1, <1>3, <1>4, <1>5, <2>3, <3>1
               DEF LeafInv, KeysRight, Past, WriteAt, KeyNames, ComputesKdiv, ComputesKmst,
                   ComputesMac
    <2>4. CASE task.pc = ComputesMac
      <3>1. v = Sealed(task.k["kdiv"], <<"cred", task.cred>>)
        BY <1>5, <2>1, <2>4 DEF v, MacInput, WriteAt, Mac
      <3> QED  BY <1>1, <1>3, <1>4, <1>5, <2>4, <3>1
               DEF LeafInv, KeysRight, Past, WriteAt, KeyNames, ComputesKdiv, ComputesKmst,
                   ComputesMac
    <2>5. CASE task.pc \notin {ComputesKdiv, ComputesKmst, ComputesMac}
      <3>1. Here.dst \notin {"kdiv", "kmst", "mac8"}
        BY <1>1, <1>5, <2>5 DEF WriteAt
      <3> QED  BY <1>1, <1>3, <1>4, <1>5, <2>5, <3>1
               DEF LeafInv, KeysRight, Past, KeyNames
    <2> QED  BY <2>2, <2>3, <2>4, <2>5
  <1>11. CardSoFar'
    BY <1>1, <1>4, <1>5 DEF LeafInv, CardSoFar, WriteAt, KeyNames, ComputesKdiv, ComputesKmst,
                            ChangesKey1, ChangesKey0
  <1>12. MacKeyRight'
    BY <1>1 DEF LeafInv, MacKeyRight
  <1>13. PromisesKept' /\ DataUnderMacs'
    BY <1>1, StillHeld, StillUnderMacs, KeptAll DEF LeafInv, PromisesKept
  <1> QED  BY <1>7, <1>8, <1>9, <1>10, <1>11, <1>12, <1>13 DEF LeafInv

LEMMA MacSwapOutKeeps == LeafInv /\ MacSwapOut => LeafInv'
  <1> SUFFICES ASSUME LeafInv, MacSwapOut PROVE LeafInv'
    OBVIOUS
  <1>1. /\ task.op # "none" /\ task.op \in {"read", "write"} /\ Here.do = "mac"
        /\ task.sub = 2 /\ cards' = cards /\ console' = console
        /\ DOMAIN task = TaskFields /\ task.pc \in 1..Len(Flow(task.op))
    BY DEF LeafInv, Shapes, MacSwapOut, At
  <1>2. CASE task.pc = Len(Flow(task.op))
    <2>1. task.op = "read"
      BY <1>1, <1>2, AtInstruction DEF LeafInv, WriteAt, Writes
    <2>2. Finish(task, task.k["mac8"] = task.data[2])
      BY <1>2 DEF MacSwapOut
    <2> QED  BY <1>1, <2>1, <2>2, FinishKeeps
  <1>3. CASE task.pc # Len(Flow(task.op))
    <2> DEFINE t == [task EXCEPT !.saved = NoKey]
    <2>1. task' = Step(t) /\ promised' = promised
      BY <1>3 DEF MacSwapOut
    <2>2. /\ DOMAIN t = TaskFields /\ t.op = task.op /\ t.uid = task.uid /\ t.pc = task.pc
          /\ t.cred = task.cred /\ t.alone = task.alone /\ t.k = task.k
      BY <1>1 DEF TaskFields
    <2>3. task.pc + 1 \in 1..Len(Flow(task.op))
      <3>1. Len(Flow(task.op)) \in {10, 27}
        BY <1>1, AtInstruction DEF LeafInv
      <3> QED  BY <1>1, <1>3, <3>1
    <2>4. task.op = "write" => task.pc \notin {CreatesApp, CreatesFile, ChangesKey1, ChangesKey0}
      BY <1>1, AtInstruction DEF LeafInv, WriteAt
    <2> HIDE DEF t
    <2> QED  BY <1>1, <2>1, <2>2, <2>3, <2>4, StepKeeps
  <1> QED  BY <1>2, <1>3

LEMMA EstablishedKeeps == LeafInv /\ Established => LeafInv'
  <1> SUFFICES ASSUME LeafInv, Established PROVE LeafInv'
    OBVIOUS
  <1>1. /\ task.op # "none" /\ task.op \in {"read", "write"} /\ Here.do = "establish"
        /\ cards' = cards /\ promised' = promised /\ console' = console /\ task' = Step(task)
        /\ DOMAIN task = TaskFields /\ task.pc \in 1..Len(Flow(task.op))
    BY DEF LeafInv, Shapes, Established, At, others
  <1>2. task.op = "write" => task.pc \notin {ComputesKdiv, ComputesKmst, ComputesMac, CreatesApp,
                                            CreatesFile, ChangesKey1, ChangesKey0}
    BY <1>1, AtInstruction DEF LeafInv, WriteAt, Mac
  <1>3. task.pc + 1 \in 1..Len(Flow(task.op))
    <2>1. \/ Len(Flow(task.op)) = 10 /\ task.pc # 10
          \/ Len(Flow(task.op)) = 27 /\ task.pc # 27
      BY <1>1, AtInstruction DEF LeafInv, WriteAt, ReadAt, Writes
    <2>2. \A n \in {10, 27} : \A i \in 1..n : i # n => i + 1 \in 1..n
      OBVIOUS
    <2> QED  BY <1>1, <2>1, <2>2
  <1> QED  BY <1>1, <1>2, <1>3, StepKeeps

-----------------------------------------------------------------------------

(* The steps of an exchange                                                *)

LEMMA SendKeeps == LeafInv /\ Send => LeafInv'
  <1> SUFFICES ASSUME LeafInv, Send PROVE LeafInv'
    OBVIOUS
  <1>1. /\ task.op # "none" /\ Here.do = "exchange" /\ task.sub = 0 /\ ses' = ses
        /\ cards' = cards /\ console' = console /\ macKey' = macKey
    BY DEF Send, At
  <1>2. CASE Finish(task, FALSE)
    BY <1>1, <1>2, FinishKeeps
  <1>3. CASE ~Finish(task, FALSE)
    <2>1. /\ task' = [task EXCEPT !.sub = 1] /\ promised' = promised
          /\ air'.ins = Here.ins /\ air'.arg = Argument(Here)
      <3>1. ~(Here.ins \in Secured /\ ~ses.authenticated)
        BY <1>3 DEF Send
      <3>2. /\ task' = [task EXCEPT !.sub = 1] /\ promised' = promised
            /\ \E mac : air' = Command(Here.ins, Argument(Here), mac)
        BY <3>1 DEF Send
      <3> QED  BY <3>2 DEF Command
    <2>2. /\ DOMAIN task' = TaskFields /\ task'.op = task.op /\ task'.uid = task.uid
          /\ task'.pc = task.pc /\ task'.sub = 1 /\ task'.k = task.k /\ task'.cred = task.cred
          /\ task'.rnd = task.rnd /\ task'.alone = task.alone
      BY <2>1 DEF LeafInv, Shapes, TaskFields
    <2>3. Here' = Here
      BY <2>2 DEF Here
    <2>4. \A i : Past(i)' <=> Past(i)
      BY <1>1, <2>2 DEF Past
    <2>5. Shapes'
      BY <1>1, <2>1, <2>2 DEF LeafInv, Shapes
    <2>6. InTheAir'
      <3>1. Argument(Here)' = Argument(Here)
        BY <1>1, <2>2, <2>3 DEF Argument, ChangeBlob
      <3> QED  BY <2>1, <2>3, <3>1 DEF InTheAir
    <2>7. KeysComputed'
      BY <2>2, <2>4 DEF LeafInv, KeysComputed
    <2>8. KeysRight'
      BY <2>2, <2>4 DEF LeafInv, KeysRight
    <2>9. CardSoFar'
      BY <1>1, <2>2 DEF LeafInv, CardSoFar
    <2>10. MacKeyRight'
      BY <1>1, <2>2, <2>3 DEF LeafInv, MacKeyRight, At
    <2>11. PromisesKept' /\ DataUnderMacs'
      BY <1>1, <2>1, <2>2, StillHeld, StillUnderMacs, KeptAll DEF LeafInv, PromisesKept
    <2> QED  BY <2>5, <2>6, <2>7, <2>8, <2>9, <2>10, <2>11 DEF LeafInv
  <1> QED  BY <1>2, <1>3

\* What a write counts on, on card d and with instructions 1 to i behind it.
CardAfter(d, i) ==
    /\ i >= CreatesApp => d.app
    /\ i >= CreatesFile => d.file
    /\ i >= ChangesKey1 => d.key[1] = task.k["kdiv"]
    /\ i >= ChangesKey0 => d.key[0] = task.k["kmst"]

\* The command reaches the card, which carries it out or refuses it.
LEMMA Delivered ==
    ASSUME LeafInv, At("exchange"), task.sub = 1,
           NEW a, a = CardDoes(cards[task.uid], air, auths + 1),
           cards' = [cards EXCEPT ![task.uid] = a.card]
    PROVE  /\ DOMAIN cards' = Cards /\ \A c \in Cards : IsCard(cards'[c])
           /\ \A c \in Cards : promised[c] = NoPromise \/ Kept(cards[c], cards'[c])
           /\ DataUnderMacs'
           /\ task.op = "write" => /\ CardAfter(a.card, task.pc - 1)
                                   /\ a.st = "OK" => CardAfter(a.card, task.pc)
           /\ task.op = "write" /\ a.st = "OK" /\ task.pc = Writes
                => a.card.data = <<task.cred, task.k["mac8"]>>
  <1> DEFINE u == task.uid
             c == cards[u]
             d == a.card
             i == task.pc
  <1>1. /\ task.op \in {"read", "write"} /\ u \in Cards /\ DOMAIN cards = Cards /\ IsCard(c)
        /\ Here.do = "exchange" /\ air.ins = Here.ins /\ air.arg = Argument(Here)
        /\ \A e \in Cards : IsCard(cards[e])
    BY DEF LeafInv, Shapes, At, InTheAir
  <1>2. task.op = "write" => i \in 1..27 /\ WriteAt(i, Here)
    BY <1>1, AtInstruction DEF LeafInv
  <1>3. task.op = "read" => ReadAt(task.pc, Here)
    BY <1>1, AtInstruction DEF LeafInv
  <1>4. air.ins \in Commands
    BY <1>1, <1>2, <1>3 DEF WriteAt, ReadAt
  <1>5. air.ins = "CHANGE_KEY" =>
           /\ task.op = "write" /\ i \in {ChangesKey1, ChangesKey0}
           /\ air.arg[1] = (IF i = ChangesKey1 THEN 1 ELSE 0)
           /\ NewKey(air.arg) = task.k[IF i = ChangesKey1 THEN "kdiv" ELSE "kmst"]
    <2> SUFFICES ASSUME air.ins = "CHANGE_KEY"
                 PROVE  /\ task.op = "write" /\ i \in {ChangesKey1, ChangesKey0}
                        /\ air.arg[1] = (IF i = ChangesKey1 THEN 1 ELSE 0)
                        /\ NewKey(air.arg) = task.k[IF i = ChangesKey1 THEN "kdiv" ELSE "kmst"]
      OBVIOUS
    <2>1. task.op = "write" /\ i \in {ChangesKey1, ChangesKey0}
      BY <1>1, <1>2, <1>3 DEF WriteAt, ReadAt, Changing
    <2>2. /\ Here.no = (IF i = ChangesKey1 THEN 1 ELSE 0)
          /\ Here.key = IF i = ChangesKey1 THEN "kdiv" ELSE "kmst"
      BY <1>2, <2>1 DEF WriteAt, Exchange
    <2>3. air.arg = <<Here.no, ChangeBlob(Here.no, task.k[Here.key])>>
      BY <1>1 DEF Argument
    <2>4. ChangeBlob(Here.no, task.k[Here.key])[2][1] = task.k[Here.key]
      BY DEF ChangeBlob, Sealed
    <2> QED  BY <2>1, <2>2, <2>3, <2>4 DEF NewKey
  <1>6. Effect(air.ins, air.arg, c, d, a.st)
    BY <1>1, <1>4, <1>5, CardActs
  <1>7. DOMAIN cards' = Cards /\ \A e \in Cards : IsCard(cards'[e])
    BY <1>1, <1>6 DEF Effect
  <1>8. \A e \in Cards : promised[e] = NoPromise \/ Kept(cards[e], cards'[e])
    <2>1. task.op = "read" => Kept(c, d)
      BY <1>1, <1>3, <1>6 DEF ReadAt, Effect, Changing
    <2>2. \A e \in Cards \ {u} : Kept(cards[e], cards'[e])
      BY <1>1 DEF Kept
    <2> QED  BY <1>1, <2>1, <2>2 DEF LeafInv, PromisesKept
  <1>9. task.op = "write" => CardAfter(c, i - 1)
    BY <1>2 DEF LeafInv, CardSoFar, CardAfter, CreatesApp, CreatesFile, ChangesKey1, ChangesKey0
  <1>10. ASSUME task.op = "write"
         PROVE  CardAfter(d, i - 1) /\ (a.st = "OK" => CardAfter(d, i))
    <2>1. i \in 1..27 /\ WriteAt(i, Here) /\ CardAfter(c, i - 1)
      BY <1>2, <1>9, <1>10
    <2>2. CASE air.ins = "FORMAT"
      BY <1>1, <2>1, <2>2 DEF WriteAt, CardAfter, CreatesApp, CreatesFile, ChangesKey1, ChangesKey0
    <2>3. CASE air.ins = "CHANGE_KEY"
      <3>1. /\ (c.app => d.app) /\ (c.file => d.file)
            /\ d.key \in {c.key, KeysWith(c, air.arg)}
            /\ a.st = "OK" => d.key = KeysWith(c, air.arg)
        BY <1>6, <2>3 DEF Effect, Kept, IsCard, CardFields
      <3>2. CASE i = ChangesKey1
        BY <1>1, <1>5, <2>1, <2>3, <3>1, <3>2
           DEF KeysWith, IsCard, CardAfter, CreatesApp, CreatesFile, ChangesKey1, ChangesKey0
      <3>3. CASE i = ChangesKey0
        BY <1>1, <1>5, <2>1, <2>3, <3>1, <3>3
           DEF KeysWith, IsCard, CardAfter, CreatesApp, CreatesFile, ChangesKey1, ChangesKey0
      <3> QED  BY <1>5, <2>3, <3>2, <3>3
    <2>4. CASE air.ins \notin {"FORMAT", "CHANGE_KEY"}
      <3>1. (c.app => d.app) /\ (c.file => d.file) /\ d.key = c.key
        BY <1>4, <1>6, <2>4 DEF Effect, Kept, IsCard, CardFields
      <3>2. /\ i = CreatesApp /\ a.st = "OK" => d.app
            /\ i = CreatesFile /\ a.st = "OK" => d.file
            /\ i \notin {ChangesKey1, ChangesKey0}
        BY <1>1, <1>6, <2>1, <2>4 DEF Effect, WriteAt
      <3> QED  BY <2>1, <3>1, <3>2
               DEF CardAfter, CreatesApp, CreatesFile, ChangesKey1, ChangesKey0
    <2> QED  BY <2>2, <2>3, <2>4
  <1>11. DataUnderMacs'
    <2> SUFFICES ASSUME d.data # NoPayload
                 PROVE  \A n \in 0..1 : IsMac(d.key[n])
      BY <1>1 DEF LeafInv, DataUnderMacs
    <2>1. c.data # NoPayload => \A n \in 0..1 : IsMac(c.key[n])
      BY <1>1 DEF LeafInv, DataUnderMacs
    <2>2. CASE Kept(c, d)
      BY <2>1, <2>2 DEF Kept
    <2>3. CASE air.ins = "CHANGE_KEY"
      <3>1. d.data = c.data /\ d.key \in {c.key, KeysWith(c, air.arg)}
        BY <1>1, <1>6, <2>3 DEF Effect, Kept, IsCard, CardFields
      <3>2. IsMac(NewKey(air.arg))
        BY <1>5, <2>3 DEF LeafInv, KeysComputed, Past, ComputesKdiv, ComputesKmst, ChangesKey1,
                          ChangesKey0
      <3>3. \A n \in 0..1 : d.key[n] \in {c.key[n], NewKey(air.arg)}
        BY <1>1, <1>5, <2>3, <3>1 DEF KeysWith, IsCard
      <3> QED  BY <2>1, <3>1, <3>2, <3>3
    <2>4. CASE air.ins = "WRITE"
      <3>1. d.key = c.key
        BY <1>1, <1>6, <2>4 DEF Effect, Kept, IsCard, CardFields
      <3>2. task.op = "write" /\ i = Writes
        BY <1>1, <1>2, <1>3, <2>4 DEF WriteAt, ReadAt, Changing
      <3>3. c.key[0] = task.k["kmst"] /\ c.key[1] = task.k["kdiv"]
        BY <3>2 DEF LeafInv, CardSoFar, ChangesKey1, ChangesKey0, Writes
      <3>4. IsMac(task.k["kmst"]) /\ IsMac(task.k["kdiv"])
        BY <3>2 DEF LeafInv, KeysComputed, Past, ComputesKdiv, ComputesKmst, Writes
      <3> QED  BY <3>1, <3>3, <3>4
    <2> QED  BY <1>6, <2>2, <2>3, <2>4 DEF Effect
  <1>12. ASSUME task.op = "write", a.st = "OK", i = Writes
         PROVE  d.data = <<task.cred, task.k["mac8"]>>
    <2>1. Here.ins = "WRITE"
      BY <1>1, <1>2, <1>12 DEF WriteAt
    <2>2. air.arg = <<task.cred, task.k["mac8"]>>
      BY <1>1, <2>1 DEF Argument
    <2> QED  BY <1>1, <1>6, <1>12, <2>1, <2>2 DEF Effect
  <1> QED  BY <1>7, <1>8, <1>10, <1>11, <1>12

-----------------------------------------------------------------------------

\* The cards after an exchange, whether the command reached the card or not.
CardsKept ==
    /\ DOMAIN cards' = Cards /\ \A c \in Cards : IsCard(cards'[c])
    /\ \A c \in Cards : promised[c] = NoPromise \/ Kept(cards[c], cards'[c])
    /\ DataUnderMacs'

\* An exchange that was answered as expected ends.
LEMMA StepOnKeeps ==
    ASSUME LeafInv, At("exchange"), task.sub = 1, CardsKept, console' = console,
           NEW t, DOMAIN t = TaskFields, t.op = task.op, t.uid = task.uid, t.pc = task.pc,
           t.cred = task.cred, t.alone = task.alone, t.k = task.k,
           task' = Step(t), promised' = promised, task.pc + 1 \in 1..Len(Flow(task.op)),
           task.op = "write" => CardAfter(cards'[task.uid], task.pc)
    PROVE  LeafInv'
  <1>1. /\ task'.op = task.op /\ task'.uid = task.uid /\ task'.pc = task.pc + 1
        /\ task'.sub = 0 /\ task'.cred = task.cred /\ task'.alone = task.alone
        /\ task'.k = task.k /\ DOMAIN task' = TaskFields
    BY DEF Step, TaskFields
  <1>2. task.op # "none" /\ Here.do = "exchange"
    BY DEF At
  <1>3. task.op = "write" => /\ task.pc \in 1..27
                             /\ task.pc \notin {ComputesKdiv, ComputesKmst, ComputesMac}
    BY <1>2, AtInstruction DEF LeafInv, WriteAt, Mac
  <1>4. \A i \in {ComputesKdiv, ComputesKmst, ComputesMac} : Past(i)' <=> Past(i)
    <2>1. CASE task.op = "write"
      <3>1. task.pc \in Nat /\ task.pc # 2 /\ task.pc # 18 /\ task.pc # 26
        BY ONLY <1>3, <2>1 DEF ComputesKdiv, ComputesKmst, ComputesMac
      <3> QED  BY <1>1, <3>1 DEF Past, ComputesKdiv, ComputesKmst, ComputesMac
    <2>2. CASE task.op # "write"
      BY <1>1, <2>2 DEF Past
    <2> QED  BY <2>1, <2>2
  <1>5. KeysComputed'
    BY <1>1, <1>4 DEF LeafInv, KeysComputed
  <1>6. KeysRight'
    BY <1>1, <1>4 DEF LeafInv, KeysRight
  <1>7. CardSoFar'
    <2> DEFINE d == cards'[task.uid]
    <2>1. CASE task.op = "write"
      <3>0. task.pc \in Nat /\ CardAfter(d, task.pc)
        BY ONLY <1>3, <2>1, task.op = "write" => CardAfter(cards'[task.uid], task.pc)
      <3> HIDE DEF d
      <3>1. /\ task'.pc > CreatesApp => d.app
            /\ task'.pc > CreatesFile => d.file
            /\ task'.pc > ChangesKey1 => d.key[1] = task'.k["kdiv"]
            /\ task'.pc > ChangesKey0 => d.key[0] = task'.k["kmst"]
        BY <1>1, <3>0 DEF CardAfter, CreatesApp, CreatesFile, ChangesKey1, ChangesKey0
      <3> USE DEF d
      <3> QED  BY <1>1, <3>1 DEF CardSoFar
    <2>2. CASE task.op # "write"
      BY <1>1, <2>2 DEF CardSoFar
    <2> QED  BY <2>1, <2>2
  <1>8. DOMAIN task'.k = KeyNames
    BY <1>1 DEF LeafInv, Shapes
  <1> QED  BY <1>1, <1>2, <1>5, <1>6, <1>7, <1>8, Between DEF CardsKept

LEMMA ProceedKeeps ==
    ASSUME LeafInv, At("exchange"), task.sub = 1, CardsKept, console' = console,
           NEW t, DOMAIN t = TaskFields, t.op = task.op, t.uid = task.uid, t.pc = task.pc,
           t.cred = task.cred, t.alone = task.alone, t.k = task.k,
           Proceed(t),
           task.op = "write" => CardAfter(cards'[task.uid], task.pc),
           task.op = "write" /\ task.pc = Writes
             => cards'[task.uid].data = <<task.cred, task.k["mac8"]>>
    PROVE  LeafInv'
  <1>1. /\ task.op \in {"read", "write"} /\ Here.do = "exchange" /\ task.uid \in Cards
        /\ task.pc \in 1..Len(Flow(task.op))
    BY DEF LeafInv, Shapes, At
  <1>2. Flow(t.op) = Flow(task.op)
    OBVIOUS
  <1>3. Len(Flow(task.op)) \in {10, 27}
    BY <1>1, AtInstruction DEF LeafInv
  <1>4. CASE task.pc = Len(Flow(task.op))
    <2>1. task.op = "write" /\ task.pc = Writes
      BY <1>1, <1>4, AtInstruction DEF LeafInv, ReadAt, Writes
    <2>2. Finish(t, TRUE)
      BY <1>2, <1>4 DEF Proceed
    <2> DEFINE p == [site |-> task.k["site"], cred |-> task.cred, alone |-> task.alone]
               d == cards'[task.uid]
    <2>3. task' = Idle /\ promised' = [promised EXCEPT ![task.uid] = p]
      BY <2>1, <2>2 DEF Finish
    <2>4. d.app /\ d.file /\ d.key[1] = task.k["kdiv"] /\ d.key[0] = task.k["kmst"]
      BY <2>1 DEF CardAfter, Writes, CreatesApp, CreatesFile, ChangesKey1, ChangesKey0
    <2>5. d.key = [n \in 0..1 |-> d.key[n]]
      BY <1>1 DEF CardsKept, IsCard
    <2>6. d.data = <<task.cred, task.k["mac8"]>>
      BY <2>1
    <2>7. WrittenIsHeld'
      <3> SUFFICES ASSUME NEW c \in Cards, promised'[c] # NoPromise, promised'[c].alone
                   PROVE  \A s, r : s = promised'[c].site /\ r = promised'[c].cred
                                      => Holds(c, s, r)'
        BY DEF WrittenIsHeld
      <3>1. CASE c # task.uid
        <4>1. promised'[c] = promised[c] /\ Kept(cards[c], cards'[c])
          BY <2>3, <3>1 DEF LeafInv, Shapes, CardsKept
        <4>2. Holds(c, promised[c].site, promised[c].cred)
          BY <4>1 DEF LeafInv, PromisesKept, WrittenIsHeld
        <4>3. \A s, r : Holds(c, s, r) => Holds(c, s, r)'
          BY <4>1 DEF Holds, Kept
        <4> QED  BY <4>1, <4>2, <4>3
      <3>2. CASE c = task.uid
        <4>1. promised'[c] = p
          BY <2>3, <3>2 DEF LeafInv, Shapes
        <4>2. task.alone
          BY <4>1
        <4>3. /\ task.k["kdiv"] = Diversified(task.k["site"], "div", task.uid)
              /\ task.k["kmst"] = Diversified(task.k["site"], "mst", task.uid)
              /\ task.k["mac8"] = Sealed(task.k["kdiv"], <<"cred", task.cred>>)
          BY <2>1, <4>2 DEF LeafInv, KeysRight, Past, ComputesKdiv, ComputesKmst, ComputesMac,
                            Writes
        <4>4. \A s, r : s = task.k["site"] /\ r = task.cred => Holds(c, s, r)'
          BY <2>4, <2>5, <2>6, <3>2, <4>3 DEF Holds
        <4> QED  BY <4>1, <4>4
      <3> QED  BY <3>1, <3>2
    <2> QED  BY <2>3, <2>7, Ended DEF CardsKept, LeafInv, Shapes
  <1>5. CASE task.pc # Len(Flow(task.op))
    <2>1. task' = Step(t) /\ promised' = promised
      BY <1>2, <1>5 DEF Proceed
    <2>2. \A n \in {10, 27} : \A i \in 1..n : i # n => i + 1 \in 1..n
      OBVIOUS
    <2>3. task.pc + 1 \in 1..Len(Flow(task.op))
      BY <1>1, <1>3, <1>5, <2>2
    <2> QED  BY <2>1, <2>3, StepOnKeeps
  <1> QED  BY <1>4, <1>5

LEMMA FailedKeeps ==
    ASSUME LeafInv, At("exchange"), task.sub = 1, CardsKept, console' = console,
           NEW t, t \in {task, [task EXCEPT !.quiet = FALSE]}, Failed(Here.ins, t)
    PROVE  LeafInv'
  <1>1. /\ DOMAIN t = TaskFields /\ t.op = task.op /\ t.uid = task.uid /\ t.pc = task.pc
        /\ t.cred = task.cred /\ t.alone = task.alone /\ t.k = task.k
    BY DEF LeafInv, Shapes, TaskFields
  <1>2. task.op \in {"read", "write"} /\ Here.do = "exchange"
    BY DEF LeafInv, Shapes, At
  <1>3. CASE Here.ins = "FORMAT"
    <2>1. task' = Step(t) /\ promised' = promised
      BY <1>3 DEF Failed
    <2>2. task.op = "write" /\ task.pc = 9 /\ Len(Flow(task.op)) = 27
      BY <1>2, <1>3, AtInstruction DEF LeafInv, WriteAt, ReadAt, Changing
    <2>3. CardAfter(cards'[task.uid], task.pc)
      BY <2>2 DEF CardAfter, CreatesApp, CreatesFile, ChangesKey1, ChangesKey0
    <2>4. task.pc + 1 \in 1..Len(Flow(task.op))
      <3>1. \A n \in {27}, i \in {9} : i + 1 \in 1..n
        OBVIOUS
      <3> QED  BY <2>2, <3>1
    <2> QED  BY <1>1, <2>1, <2>3, <2>4, StepOnKeeps
  <1>4. CASE Here.ins # "FORMAT"
    <2>1. task' = Idle /\ promised' = promised
      BY <1>4 DEF Failed, Finish
    <2>2. \A c \in Cards : \/ promised'[c] = NoPromise
                           \/ promised'[c] = promised[c] /\ Kept(cards[c], cards'[c])
      BY <2>1 DEF CardsKept
    <2>3. WrittenIsHeld'
      BY <2>2, StillHeld DEF LeafInv, PromisesKept
    <2> QED  BY <2>1, <2>3, Ended DEF LeafInv, Shapes, CardsKept
  <1> QED  BY <1>3, <1>4

LEMMA ReceiveKeeps == LeafInv /\ Receive => LeafInv'
  <1> SUFFICES ASSUME LeafInv, Receive PROVE LeafInv'
    OBVIOUS
  <1> DEFINE a == CardDoes(cards[task.uid], air, auths + 1)
             t == [task EXCEPT !.quiet = FALSE]
  <1>1. At("exchange") /\ task.sub = 1 /\ console' = console
    BY DEF Receive
  <1>2. \/ cards' = [cards EXCEPT ![task.uid] = a.card] /\ Answered(Here.ins, a)
        \/ cards' = [cards EXCEPT ![task.uid] = a.card] /\ Failed(Here.ins, t)
        \/ cards' = cards /\ Failed(Here.ins, t)
    BY DEF Receive, Carry
  <1>3. task.uid \in Cards /\ DOMAIN cards = Cards
    BY <1>1 DEF LeafInv, Shapes, At
  <1> HIDE DEF a
  <1>4. ASSUME cards' = [cards EXCEPT ![task.uid] = a.card]
        PROVE  /\ CardsKept
               /\ task.op = "write" => CardAfter(cards'[task.uid], task.pc - 1)
               /\ task.op = "write" /\ a.st = "OK" => CardAfter(cards'[task.uid], task.pc)
               /\ task.op = "write" /\ a.st = "OK" /\ task.pc = Writes
                    => cards'[task.uid].data = <<task.cred, task.k["mac8"]>>
    <2>1. cards'[task.uid] = a.card
      BY <1>3, <1>4
    <2>2. /\ CardsKept
          /\ task.op = "write" => CardAfter(a.card, task.pc - 1)
          /\ task.op = "write" /\ a.st = "OK" => CardAfter(a.card, task.pc)
          /\ task.op = "write" /\ a.st = "OK" /\ task.pc = Writes
               => a.card.data = <<task.cred, task.k["mac8"]>>
      BY <1>1, <1>4, Delivered DEF a, CardsKept
    <2>3. \A i : CardAfter(a.card, i) => CardAfter(cards'[task.uid], i)
      BY <2>1 DEF CardAfter
    <2> QED  BY <2>1, <2>2, <2>3
  <1>5. CASE Failed(Here.ins, t)
    <2>1. cards' = cards => CardsKept
      BY KeptAll, StillUnderMacs DEF CardsKept, LeafInv, Shapes
    <2>2. CardsKept
      BY <1>2, <1>4, <2>1
    <2> QED  BY <1>1, <1>5, <2>2, FailedKeeps
  <1>6. CASE cards' = [cards EXCEPT ![task.uid] = a.card] /\ Answered(Here.ins, a)
    <2> DEFINE r == [task EXCEPT !.rnd = IF Here.ins = "AUTH1" THEN a.card.pend.rnd ELSE @,
                                 !.data = a.data]
    <2>1. \/ Failed(Here.ins, task)
          \/ Proceed(r) /\ (Here.ins # "AUTH1" => a.st = "OK")
      BY <1>6 DEF Answered, Accepted
    <2>2. CASE Failed(Here.ins, task)
      BY <1>1, <1>4, <1>6, <2>2, FailedKeeps
    <2>3. CASE Proceed(r) /\ (Here.ins # "AUTH1" => a.st = "OK")
      <3>1. /\ DOMAIN r = TaskFields /\ r.op = task.op /\ r.uid = task.uid /\ r.pc = task.pc
            /\ r.cred = task.cred /\ r.alone = task.alone /\ r.k = task.k
        BY DEF LeafInv, Shapes, TaskFields
      <3>2. Here.ins = "AUTH1" /\ task.op = "write" =>
               /\ task.pc # Writes
               /\ CardAfter(cards'[task.uid], task.pc - 1) => CardAfter(cards'[task.uid], task.pc)
        <4> SUFFICES ASSUME Here.ins = "AUTH1", task.op = "write"
                     PROVE  /\ task.pc # Writes
                            /\ CardAfter(cards'[task.uid], task.pc - 1)
                                 => CardAfter(cards'[task.uid], task.pc)
          OBVIOUS
        <4>1. /\ task.pc \in 1..27
              /\ task.pc \notin {CreatesApp, CreatesFile, ChangesKey1, ChangesKey0, Writes}
          BY <1>1, AtInstruction DEF LeafInv, WriteAt, At
        <4> QED  BY <4>1 DEF CardAfter, CreatesApp, CreatesFile, ChangesKey1, ChangesKey0
      <3> HIDE DEF r
      <3> QED  BY <1>1, <1>4, <1>6, <2>3, <3>1, <3>2, ProceedKeeps
    <2> QED  BY <2>1, <2>2, <2>3
  <1> QED  BY <1>2, <1>5, <1>6

-----------------------------------------------------------------------------

(* The theorems                                                            *)

LEMMA StepKeepsLeaf == LeafInv /\ [Next]_vars => LeafInv'
  <1> SUFFICES ASSUME LeafInv, [Next]_vars PROVE LeafInv'
    OBVIOUS
  <1>1. CASE \E c \in Cards : Start(c, "read", None)
    BY <1>1, StartKeeps
  <1>2. CASE \E c \in Cards, cred \in Creds : Start(c, "write", cred)
    BY <1>2, StartKeeps
  <1>3. CASE Remove \/ (\E k \in SiteKeys : SetSiteKey(k)) \/ TestSwapIn \/ TestSwapOut
    BY <1>3, OthersKeep
  <1>4. CASE Reboot
    BY <1>4, RebootKeeps
  <1>5. CASE Access
    BY <1>5, LoadSiteKeeps, MacSwapInKeeps, MacComputeKeeps, MacSwapOutKeeps, EstablishedKeeps,
       SendKeeps, ReceiveKeeps DEF Access
  <1>6. CASE UNCHANGED vars
    <2>1. /\ cards' = cards /\ task' = task /\ ses' = ses /\ macKey' = macKey /\ air' = air
          /\ console' = console /\ promised' = promised
      BY <1>6 DEF vars, others
    <2>2. Here' = Here /\ Argument(Here)' = Argument(Here)
      BY <2>1 DEF Here, Argument, ChangeBlob
    <2>3. InTheAir' /\ MacKeyRight'
      BY <2>1, <2>2 DEF LeafInv, InTheAir, MacKeyRight, At
    <2>4. Shapes' /\ KeysComputed' /\ KeysRight' /\ CardSoFar'
      BY <2>1 DEF LeafInv, Shapes, KeysComputed, KeysRight, CardSoFar, Past
    <2>5. PromisesKept' /\ DataUnderMacs'
      BY <2>1, StillHeld, StillUnderMacs, KeptAll DEF LeafInv, PromisesKept
    <2> QED  BY <2>3, <2>4, <2>5 DEF LeafInv
  <1> QED  BY <1>1, <1>2, <1>3, <1>4, <1>5, <1>6 DEF Next

\* A write that was reported as done left the whole credential on the card, under the keys
\* of the site key it began with, and no access but another write takes it away
\* (leaf_personalize), whatever cards, credentials and keys there are.
THEOREM WrittenStays == Spec => []WrittenIsHeld
  <1>1. LeafInv => WrittenIsHeld
    BY DEF LeafInv, PromisesKept
  <1> QED  BY <1>1, InitLeaf, StepKeepsLeaf, PTL DEF Spec

\* A credential is never on a card that still has a factory key (the order in which
\* leaf_personalize formats, changes the keys and writes).  No MAC is the factory key, 16
\* zero bytes.
THEOREM DataUnderChangedKeys ==
    ASSUME \A x, m : Sealed(x, m) # Default
    PROVE  Spec => []DataUnderOurKeys
  <1>1. LeafInv => DataUnderOurKeys
    BY DEF LeafInv, DataUnderMacs, DataUnderOurKeys, IsMac
  <1> QED  BY <1>1, InitLeaf, StepKeepsLeaf, PTL DEF Spec

-----------------------------------------------------------------------------

(* The sessions: what the counters of both ends rest on                    *)

SessionFields == {"no", "kenc", "kmac", "ti", "ctr"}
ReaderSessionFields == SessionFields \cup {"authenticated"}

\* The exchange that answers a challenge, and the instructions that turn the proof into a
\* session.
Challenged(op) == IF op = "read" THEN {5} ELSE {5, 13, 22}
Proven(op) == IF op = "read" THEN 6..8 ELSE (6..8) \cup (14..16) \cup (23..25)

\* A session is named by the random number of its challenge, and 0 names none.
Numbered(c) ==
    /\ DOMAIN c.ses = SessionFields /\ c.ses.ti \in 0..auths
    /\ c.pend = NoChallenge \/ (DOMAIN c.pend = {"no", "rnd"} /\ c.pend.rnd \in 1..auths)

Numbers ==
    /\ auths \in Nat
    /\ \A c \in Cards : Numbered(cards[c])
    /\ DOMAIN ses = ReaderSessionFields
    /\ ses.authenticated => ses.ti \in 1..auths

\* A challenge that is open is the task's, and not the one of its session.
ChallengeIsTasks ==
    LET c == cards[task.uid] IN
    task.op # "none" /\ c.pend # NoChallenge =>
        /\ task.pc \in Challenged(task.op) /\ task.rnd = c.pend.rnd
        /\ ses.authenticated => ses.ti # task.rnd

\* Between the proof and the session nothing is counted.
ProofIsFresh ==
    LET c == cards[task.uid] IN
    task.op # "none" /\ task.pc \in Proven(task.op) =>
        c.pend = NoChallenge /\ c.ses.ti = task.rnd /\ c.ses.ctr = 0 /\ task.rnd \in 1..auths

CountedAlike ==
    LET c == cards[task.uid] IN
    task.op # "none" /\ task.quiet /\ ses.authenticated /\ c.ses.ti = ses.ti
      /\ "empty" \notin c.macs => c.ses.ctr = ses.ctr

CountInv == Numbers /\ ChallengeIsTasks /\ ProofIsFresh /\ CountedAlike

\* Where in its flow a handshake is.
HandshakeAt(op, i, h) ==
    /\ i \in Challenged(op) <=> (h.do = "exchange" /\ h.ins = "AUTH2")
    /\ i + 1 \in Challenged(op) <=> (h.do = "exchange" /\ h.ins = "AUTH1")
    /\ i \in Proven(op) => h.do \in {"mac", "establish"}
    /\ h.do = "establish" => i \in Proven(op)
    /\ i + 1 \in Proven(op) => i \in Proven(op) \cup Challenged(op)

LEMMA Handshakes ==
    ASSUME Shapes, task.op # "none"
    PROVE  task.pc \in 1..27 /\ HandshakeAt(task.op, task.pc, Here)
  <1>1. task.op \in {"read", "write"}
    BY DEF Shapes
  <1> USE DEF HandshakeAt, Challenged, Proven, Load, Mac, Exchange, Select, Establish
  <1>2. CASE task.op = "read"
    <2>1. task.pc \in 1..10 /\ Here = ReadFlow[task.pc]
      BY <1>2, ReadTable DEF Shapes, Flow, Here
    <2>2. \A i \in 1..10 : HandshakeAt("read", i, ReadFlow[i])
      BY ReadTable
    <2> QED  BY <1>2, <2>1, <2>2
  <1>3. CASE task.op = "write"
    <2>1. task.pc \in 1..27 /\ Here = WriteFlow[task.pc]
      BY <1>3, WriteTable DEF Shapes, Flow, Here
    <2>2. \A i \in 1..9 : HandshakeAt("write", i, WriteFlow[i])
      BY WriteTable
    <2>3. \A i \in 10..18 : HandshakeAt("write", i, WriteFlow[i])
      BY WriteTable
    <2>4. \A i \in 19..27 : HandshakeAt("write", i, WriteFlow[i])
      BY WriteTable
    <2>5. task.pc \in 1..9 \/ task.pc \in 10..18 \/ task.pc \in 19..27
      BY <2>1
    <2>6. HandshakeAt("write", task.pc, WriteFlow[task.pc])
      BY <2>2, <2>3, <2>4, <2>5
    <2> HIDE DEF HandshakeAt
    <2> QED  BY <1>3, <2>1, <2>6
  <1> QED  BY <1>1, <1>2, <1>3

\* What a command does to the session of the card, and to the challenge.
SessionEffect(ins, arg, rnd, c, a) ==
    LET d == a.card IN
    /\ d.macs = c.macs /\ DOMAIN d.ses = SessionFields
    /\ \/ d.ses = NoSession /\ (a.st = "OK" => ins \in {"SELECT", "CHANGE_KEY"})
       \/ /\ ins \notin {"SELECT", "AUTH1", "AUTH2"} /\ a.st = "OK"
          /\ d.ses.ti = c.ses.ti /\ d.ses.ctr = c.ses.ctr + 1
       \/ /\ ins = "AUTH2" /\ a.st = "OK" /\ c.pend # NoChallenge
          /\ d.ses.ti = c.pend.rnd /\ d.ses.ctr = 0
    /\ \/ d.pend = NoChallenge
       \/ ins = "AUTH1" /\ a.st = "MORE" /\ d.pend = [no |-> arg, rnd |-> rnd]
       \/ ins \notin {"SELECT", "AUTH1", "AUTH2"} /\ d.pend = c.pend
    /\ a.st = "MORE" => ins = "AUTH1" /\ d.pend = [no |-> arg, rnd |-> rnd]
    /\ a.st = "OK" /\ ins = "FORMAT" /\ "empty" \notin c.macs => a.len = 0

LEMMA DoneSession ==
    ASSUME NEW c, IsCard(c), DOMAIN c.ses = SessionFields, NEW len \in Nat, NEW data
    PROVE  LET a == Done(c, len, data) IN
           /\ a.st = "OK" /\ a.card.macs = c.macs /\ a.card.pend = c.pend
           /\ DOMAIN a.card.ses = SessionFields
           /\ a.card.ses.ti = c.ses.ti /\ a.card.ses.ctr = c.ses.ctr + 1
           /\ len = 0 /\ "empty" \notin c.macs => a.len = 0
  BY DEF Done, Answer, IsCard, CardFields, SessionFields

LEMMA RefusedSession ==
    ASSUME NEW c, IsCard(c)
    PROVE  LET a == Refusal(c) IN
           /\ a.st = "ERROR" /\ a.card.macs = c.macs /\ a.card.pend = NoChallenge
           /\ a.card.ses = NoSession
  BY DEF Refusal, Plain, Answer, IsCard, CardFields

LEMMA NoSessionFields == DOMAIN NoSession = SessionFields /\ NoSession.ti = 0
  BY DEF NoSession, SessionFields

\* A card that does no more than carry a command out.
LEMMA ObeyedSession ==
    ASSUME NEW c, DOMAIN c.ses = SessionFields, NEW ins, NEW arg, NEW rnd,
           ins \notin {"SELECT", "AUTH1", "AUTH2"},
           NEW d, IsCard(d), d.ses = c.ses, d.pend = c.pend, d.macs = c.macs,
           NEW len \in Nat, ins = "FORMAT" => len = 0, NEW data, NEW a, a = Done(d, len, data)
    PROVE  SessionEffect(ins, arg, rnd, c, a)
  <1>1. DOMAIN d.ses = SessionFields
    OBVIOUS
  <1>2. /\ a.st = "OK" /\ a.card.macs = d.macs /\ a.card.pend = d.pend
        /\ DOMAIN a.card.ses = SessionFields
        /\ a.card.ses.ti = d.ses.ti /\ a.card.ses.ctr = d.ses.ctr + 1
        /\ len = 0 /\ "empty" \notin d.macs => a.len = 0
    BY <1>1, DoneSession
  <1>3. ins = "FORMAT" /\ "empty" \notin c.macs => a.len = 0
    BY <1>2
  <1> QED  BY <1>2, <1>3 DEF SessionEffect

LEMMA SessionActs ==
    ASSUME NEW c, IsCard(c), DOMAIN c.ses = SessionFields,
           NEW cmd, cmd.ins \in Commands, NEW rnd, NEW a, a = CardDoes(c, cmd, rnd)
    PROVE  SessionEffect(cmd.ins, cmd.arg, rnd, c, a)
  <1>1. CASE a = Refusal(c)
    BY <1>1, RefusedSession, NoSessionFields DEF SessionEffect
  <1>2. CASE cmd.ins = "SELECT" /\ a # Refusal(c)
    <2>1. a = Plain([c EXCEPT !.sel = cmd.arg, !.ses = NoSession, !.pend = NoChallenge], "OK", 0)
      BY <1>2 DEF CardDoes, CardSelect
    <2>2. /\ a.card = [c EXCEPT !.sel = cmd.arg, !.ses = NoSession, !.pend = NoChallenge]
          /\ a.st = "OK"
      BY <2>1 DEF Plain, Answer
    <2>3. a.card.ses = NoSession /\ a.card.pend = NoChallenge /\ a.card.macs = c.macs
      BY <2>2 DEF IsCard, CardFields
    <2> QED  BY <1>2, <2>2, <2>3, NoSessionFields DEF SessionEffect
  <1>3. CASE cmd.ins = "AUTH1" /\ a # Refusal(c)
    <2>1. a = Plain([c EXCEPT !.ses = NoSession, !.pend = [no |-> cmd.arg, rnd |-> rnd]],
                    "MORE", 16)
      BY <1>3 DEF CardDoes, CardAuth1
    <2>2. /\ a.card = [c EXCEPT !.ses = NoSession, !.pend = [no |-> cmd.arg, rnd |-> rnd]]
          /\ a.st = "MORE"
      BY <2>1 DEF Plain, Answer
    <2>3. /\ a.card.ses = NoSession /\ a.card.pend = [no |-> cmd.arg, rnd |-> rnd]
          /\ a.card.macs = c.macs
      BY <2>2 DEF IsCard, CardFields
    <2> QED  BY <1>3, <2>2, <2>3, NoSessionFields DEF SessionEffect
  <1>4. CASE cmd.ins = "AUTH2" /\ a # Refusal(c)
    <2> DEFINE s == [no |-> c.pend.no,
                     kenc |-> Sealed(CardKey(c, c.pend.no), <<"sv1", c.pend.rnd>>),
                     kmac |-> Sealed(CardKey(c, c.pend.no), <<"sv2", c.pend.rnd>>),
                     ti |-> c.pend.rnd, ctr |-> 0]
    <2>1. /\ a = Plain([c EXCEPT !.pend = NoChallenge, !.ses = s], "OK", 32)
          /\ c.pend # NoChallenge
      BY <1>4 DEF CardDoes, CardAuth2
    <2>2. DOMAIN s = SessionFields /\ s.ti = c.pend.rnd /\ s.ctr = 0
      BY DEF SessionFields
    <2> HIDE DEF s
    <2>3. a.card = [c EXCEPT !.pend = NoChallenge, !.ses = s] /\ a.st = "OK"
      BY <2>1 DEF Plain, Answer
    <2>4. a.card.ses = s /\ a.card.pend = NoChallenge /\ a.card.macs = c.macs
      BY <2>3 DEF IsCard, CardFields
    <2> QED  BY <1>4, <2>1, <2>2, <2>3, <2>4 DEF SessionEffect
  <1>5. CASE cmd.ins \notin {"SELECT", "AUTH1", "AUTH2"} /\ a # Refusal(c)
    <2> DEFINE AsIs(d) == IsCard(d) /\ d.ses = c.ses /\ d.pend = c.pend /\ d.macs = c.macs
    <2>0. Genuine(c, cmd)
      BY <1>5 DEF CardDoes
    <2>1. CASE cmd.ins = "FORMAT"
      <3> DEFINE d == [c EXCEPT !.app = FALSE, !.file = FALSE, !.data = NoPayload,
                                !.key = [n \in 0..1 |-> Default]]
      <3>1. a = Done(d, 0, NoPayload)
        BY <1>5, <2>0, <2>1 DEF CardDoes, CardFormat
      <3>2. AsIs(d)
        BY DEF IsCard, CardFields
      <3> HIDE DEF d
      <3> QED  BY <1>5, <2>1, <3>1, <3>2, ObeyedSession
    <2>2. CASE cmd.ins = "CREATE_APP"
      <3> DEFINE d == [c EXCEPT !.app = TRUE]
      <3>1. a = Done(d, 0, NoPayload)
        BY <1>5, <2>0, <2>2 DEF CardDoes, CardCreateApp
      <3>2. AsIs(d)
        BY DEF IsCard, CardFields
      <3> HIDE DEF d
      <3> QED  BY <1>5, <2>2, <3>1, <3>2, ObeyedSession
    <2>3. CASE cmd.ins = "CREATE_FILE"
      <3> DEFINE d == [c EXCEPT !.file = TRUE]
      <3>1. a = Done(d, 0, NoPayload)
        BY <1>5, <2>0, <2>3 DEF CardDoes, CardCreateFile
      <3>2. AsIs(d)
        BY DEF IsCard, CardFields
      <3> HIDE DEF d
      <3> QED  BY <1>5, <2>3, <3>1, <3>2, ObeyedSession
    <2>4. CASE cmd.ins = "CHANGE_KEY"
      <3> DEFINE d == [c EXCEPT !.key[cmd.arg[1]] = NewKey(cmd.arg)]
      <3>1. a = Done(d, 0, NoPayload) \/ a = Plain([d EXCEPT !.ses = NoSession], "OK", 0)
        BY <1>5, <2>0, <2>4 DEF CardDoes, CardChangeKey, NewKey
      <3>2. AsIs(d)
        BY DEF IsCard, CardFields
      <3> HIDE DEF d
      <3>3. CASE a = Plain([d EXCEPT !.ses = NoSession], "OK", 0)
        <4>1. a.card = [d EXCEPT !.ses = NoSession] /\ a.st = "OK"
          BY <3>3 DEF Plain, Answer
        <4>2. a.card.ses = NoSession /\ a.card.pend = c.pend /\ a.card.macs = c.macs
          BY <3>2, <4>1 DEF IsCard, CardFields
        <4> QED  BY <1>5, <2>4, <4>1, <4>2, NoSessionFields DEF SessionEffect
      <3>4. CASE a = Done(d, 0, NoPayload)
        BY <1>5, <2>4, <3>2, <3>4, ObeyedSession
      <3> QED  BY <3>1, <3>3, <3>4
    <2>5. CASE cmd.ins = "WRITE"
      <3> DEFINE d == [c EXCEPT !.data = cmd.arg]
      <3>1. a = Done(d, 0, NoPayload)
        BY <1>5, <2>0, <2>5 DEF CardDoes, CardWrite
      <3>2. AsIs(d)
        BY DEF IsCard, CardFields
      <3> HIDE DEF d
      <3> QED  BY <1>5, <2>5, <3>1, <3>2, ObeyedSession
    <2>6. CASE cmd.ins = "READ"
      <3>1. a = Done(c, FileSize, c.data) /\ FileSize \in Nat
        BY <1>5, <2>0, <2>6 DEF CardDoes, CardRead, FileSize
      <3> QED  BY <1>5, <2>6, <3>1, ObeyedSession
    <2> QED  BY <1>5, <2>1, <2>2, <2>3, <2>4, <2>5, <2>6 DEF Commands, Changing
  <1> QED  BY <1>1, <1>2, <1>3, <1>4, <1>5

\* An access ends, or the field comes on: there is nothing left to compare.
LEMMA CountsIdle ==
    ASSUME Numbers', task'.op = "none" PROVE CountInv'
  BY DEF CountInv, ChallengeIsTasks, ProofIsFresh, CountedAlike

LEMMA NumbersStay ==
    ASSUME Numbers, cards' = cards, ses' = ses, auths' = auths PROVE Numbers'
  BY DEF Numbers, Numbered

\* The task stays or goes on, and nothing is said to the card.
LEMMA CountsOn ==
    ASSUME LeafInv, CountInv, task.op # "none", cards' = cards, ses' = ses, auths' = auths,
           task'.op = task.op, task'.uid = task.uid, task'.rnd = task.rnd,
           task'.quiet => task.quiet,
           \/ task'.pc = task.pc
           \/ task'.pc = task.pc + 1 /\ (Here.do # "exchange" \/ Here.ins = "FORMAT")
    PROVE  CountInv'
  <1>1. Numbers'
    BY NumbersStay DEF CountInv
  <1>2. HandshakeAt(task.op, task.pc, Here)
    BY Handshakes DEF LeafInv
  <1>3. ChallengeIsTasks'
    <2>1. task.pc \in Challenged(task.op) => task'.pc = task.pc
      BY <1>2 DEF HandshakeAt
    <2> QED  BY <2>1 DEF CountInv, ChallengeIsTasks
  <1>4. ProofIsFresh'
    <2>1. task'.pc \in Proven(task'.op) => task.pc \in Proven(task.op)
      BY <1>2 DEF HandshakeAt
    <2> QED  BY <2>1 DEF CountInv, ProofIsFresh
  <1>5. CountedAlike'
    BY DEF CountInv, CountedAlike
  <1> QED  BY <1>1, <1>3, <1>4, <1>5 DEF CountInv

LEMMA InitCounts == Init => CountInv
  <1> SUFFICES ASSUME Init PROVE CountInv
    OBVIOUS
  <1>1. \A c \in Cards : cards[c].ses = NoSession /\ cards[c].pend = NoChallenge
    BY DEF Init, FactoryCard
  <1>2. auths = 0 /\ ses = NoSes /\ task.op = "none"
    BY DEF Init, Idle
  <1>3. Numbers
    BY <1>1, <1>2, NoSessionFields DEF Numbers, Numbered, NoSes, ReaderSessionFields, SessionFields
  <1> QED  BY <1>2, <1>3 DEF CountInv, ChallengeIsTasks, ProofIsFresh, CountedAlike

LEMMA StartCounts ==
    ASSUME LeafInv, CountInv, NEW c \in Cards, NEW op \in {"read", "write"}, NEW cred,
           Start(c, op, cred)
    PROVE  CountInv'
  <1>1. /\ task'.op = op /\ task'.uid = c /\ task'.pc = 1
        /\ ses' = ses /\ auths' = auths
    BY DEF Start, Idle
  <1>2. /\ cards' = [cards EXCEPT ![c] = PoweredUp(cards[c])] /\ DOMAIN cards = Cards
        /\ IsCard(cards[c])
    BY DEF Start, LeafInv, Shapes
  <1>3. cards'[c].ses = NoSession /\ cards'[c].pend = NoChallenge
    BY <1>2 DEF PoweredUp, IsCard, CardFields
  <1>4. \A d \in Cards : d # c => cards'[d] = cards[d]
    BY <1>2
  <1>5. Numbers'
    BY <1>1, <1>3, <1>4, NoSessionFields DEF CountInv, Numbers, Numbered
  <1>6. ProofIsFresh'
    BY <1>1 DEF ProofIsFresh, Proven
  <1>7. CountedAlike'
    BY <1>1, <1>3, <1>5, NoSessionFields DEF CountedAlike, Numbers
  <1> QED  BY <1>1, <1>3, <1>5, <1>6, <1>7 DEF CountInv, ChallengeIsTasks

LEMMA OthersCount ==
    ASSUME LeafInv, CountInv,
           Remove \/ (\E k \in SiteKeys : SetSiteKey(k)) \/ TestSwapIn \/ TestSwapOut
    PROVE  CountInv'
  <1>1. /\ cards' = cards /\ ses' = ses /\ auths' = auths /\ task'.op = task.op
        /\ task'.uid = task.uid /\ task'.pc = task.pc /\ task'.rnd = task.rnd
        /\ task'.quiet => task.quiet
    BY DEF LeafInv, Shapes, TaskFields, Remove, SetSiteKey, TestSwapIn, TestSwapOut, others
  <1> QED  BY <1>1, NumbersStay, CountsIdle, CountsOn DEF CountInv

LEMMA RebootCounts == LeafInv /\ CountInv /\ Reboot => CountInv'
  <1> SUFFICES ASSUME LeafInv, CountInv, Reboot PROVE CountInv'
    OBVIOUS
  <1>1. cards' = cards /\ auths' = auths /\ ses' = NoSes /\ task'.op = "none"
    BY DEF Reboot, Idle
  <1>2. Numbers'
    BY <1>1 DEF CountInv, Numbers, Numbered, NoSes, ReaderSessionFields, SessionFields
  <1> QED  BY <1>1, <1>2, CountsIdle

\* LoadSite, the three steps of a CMAC, and Send.
LEMMA ComputingCounts ==
    ASSUME LeafInv, CountInv, LoadSite \/ MacSwapIn \/ MacCompute \/ MacSwapOut \/ Send
    PROVE  CountInv'
  <1>1. task.op # "none" /\ DOMAIN task = TaskFields
    BY DEF LoadSite, MacSwapIn, MacCompute, MacSwapOut, Send, At, LeafInv, Shapes
  <1>2. cards' = cards /\ ses' = ses /\ auths' = auths
    BY DEF LoadSite, MacSwapIn, MacCompute, MacSwapOut, Send, others
  <1>3. CASE task' = Idle
    BY <1>2, <1>3, NumbersStay, CountsIdle DEF CountInv, Idle
  <1>4. CASE task' # Idle
    <2>1. /\ task'.op = task.op /\ task'.uid = task.uid /\ task'.rnd = task.rnd
          /\ task'.quiet = task.quiet
          /\ \/ task'.pc = task.pc
             \/ task'.pc = task.pc + 1 /\ Here.do # "exchange"
      <3>1. CASE LoadSite
        BY <1>1, <1>4, <3>1 DEF LoadSite, At, Proceed, Finish, Step, TaskFields
      <3>2. CASE MacSwapIn \/ MacCompute
        BY <1>1, <3>2 DEF MacSwapIn, MacCompute, TaskFields
      <3>3. CASE MacSwapOut
        BY <1>1, <1>4, <3>3 DEF MacSwapOut, At, Finish, Step, TaskFields
      <3>4. CASE Send
        BY <1>1, <1>4, <3>4 DEF Send, Finish, TaskFields
      <3> QED  BY <3>1, <3>2, <3>3, <3>4
    <2> QED  BY <1>1, <1>2, <2>1, CountsOn
  <1> QED  BY <1>3, <1>4

\* The session the reader takes over counts from 0, as the card's does.
LEMMA EstablishedCounts == LeafInv /\ CountInv /\ Established => CountInv'
  <1> SUFFICES ASSUME LeafInv, CountInv, Established PROVE CountInv'
    OBVIOUS
  <1>1. /\ task.op # "none" /\ Here.do = "establish" /\ cards' = cards /\ auths' = auths
        /\ task' = Step(task) /\ DOMAIN task = TaskFields
    BY DEF Established, At, others, LeafInv, Shapes
  <1>2. /\ task'.op = task.op /\ task'.uid = task.uid /\ task'.rnd = task.rnd
        /\ task'.pc = task.pc + 1
    BY <1>1 DEF Step, TaskFields
  <1>3. HandshakeAt(task.op, task.pc, Here) /\ task.pc \in Proven(task.op)
    BY <1>1, Handshakes DEF LeafInv, HandshakeAt
  <1>4. /\ ses'.ti = task.rnd /\ ses'.ctr = 0 /\ DOMAIN ses' = ReaderSessionFields
    BY DEF Established, ReaderSessionFields, SessionFields
  <1> DEFINE c == cards[task.uid]
  <1>5. c.pend = NoChallenge /\ c.ses.ti = task.rnd /\ c.ses.ctr = 0 /\ task.rnd \in 1..auths
    BY <1>1, <1>3 DEF CountInv, ProofIsFresh
  <1>6. Numbers'
    BY <1>1, <1>4, <1>5 DEF CountInv, Numbers, Numbered
  <1>7. ChallengeIsTasks' /\ ProofIsFresh' /\ CountedAlike'
    BY <1>1, <1>2, <1>4, <1>5 DEF ChallengeIsTasks, ProofIsFresh, CountedAlike
  <1> QED  BY <1>6, <1>7 DEF CountInv

\* The reader's side of an answer.
LEMMA SessionNext ==
    ASSUME DOMAIN ses = ReaderSessionFields, NEW ins \in Commands, NEW no,
           NEW s, s = SessionAfter(ins, no)
    PROVE  /\ DOMAIN s = ReaderSessionFields
           /\ s.authenticated => ses.authenticated /\ s.ti = ses.ti /\ ins # "SELECT"
           /\ s.authenticated /\ ins \notin {"AUTH1", "AUTH2"} => s.ctr = ses.ctr + 1
           /\ ins \in {"AUTH1", "AUTH2"} => s = ses
  <1>1. CASE ins = "SELECT"
    <2>1. s = [ses EXCEPT !.authenticated = FALSE, !.ctr = 0]
      BY <1>1 DEF SessionAfter, Secured
    <2> QED  BY <1>1, <2>1 DEF ReaderSessionFields, SessionFields
  <1>2. CASE ins = "CHANGE_KEY"
    <2>1. s = IF no = ses.no THEN [ses EXCEPT !.authenticated = FALSE]
              ELSE [ses EXCEPT !.ctr = @ + 1]
      BY <1>2 DEF SessionAfter, Secured
    <2>2. CASE no = ses.no
      BY <1>2, <2>1, <2>2 DEF ReaderSessionFields, SessionFields
    <2>3. CASE no # ses.no
      BY <1>2, <2>1, <2>3 DEF ReaderSessionFields, SessionFields
    <2> QED  BY <2>2, <2>3
  <1>3. CASE ins \in {"AUTH1", "AUTH2"}
    BY <1>3 DEF SessionAfter, Secured
  <1>4. CASE ins \in Commands \ {"SELECT", "CHANGE_KEY", "AUTH1", "AUTH2"}
    BY <1>4 DEF SessionAfter, Secured, Commands, Changing, ReaderSessionFields, SessionFields
  <1> QED  BY <1>1, <1>2, <1>3, <1>4

\* The exchange with the card of the task, as far as both ends' sessions are concerned.
LEMMA ExchangeActs ==
    ASSUME LeafInv, CountInv, At("exchange"), task.sub = 1,
           NEW c, c = cards[task.uid],
           NEW a, a = CardDoes(c, air, auths + 1)
    PROVE  /\ task.uid \in Cards /\ DOMAIN cards = Cards /\ Numbered(c)
           /\ Here.ins \in Commands /\ HandshakeAt(task.op, task.pc, Here)
           /\ \E no : SessionEffect(Here.ins, no, auths + 1, c, a)
  <1>1. /\ task.op # "none" /\ task.op \in {"read", "write"} /\ task.uid \in Cards
        /\ DOMAIN cards = Cards /\ IsCard(c) /\ Here.do = "exchange"
    BY DEF LeafInv, Shapes, At
  <1>2. Here.ins \in Commands
    BY <1>1, AtInstruction DEF LeafInv, WriteAt, ReadAt
  <1>3. air.ins = Here.ins
    BY DEF LeafInv, InTheAir
  <1>4. Numbered(c)
    BY <1>1 DEF CountInv, Numbers
  <1>5. SessionEffect(air.ins, air.arg, auths + 1, c, a)
    BY <1>1, <1>2, <1>3, <1>4, SessionActs DEF Numbered
  <1> QED  BY <1>1, <1>2, <1>3, <1>4, <1>5, Handshakes DEF LeafInv

\* What the card draws and forgets stays numbered.
LEMMA CarriedNumbers ==
    ASSUME LeafInv, CountInv, At("exchange"), task.sub = 1,
           NEW a, a = CardDoes(cards[task.uid], air, auths + 1), Carry(a),
           DOMAIN ses' = ReaderSessionFields,
           ses'.authenticated => ses.authenticated /\ ses'.ti = ses.ti
    PROVE  Numbers' /\ (a.card.pend = NoChallenge => auths' = auths)
  <1> DEFINE c == cards[task.uid]
             d == a.card
  <1>1. /\ task.uid \in Cards /\ DOMAIN cards = Cards /\ Numbered(c)
        /\ \E no : SessionEffect(Here.ins, no, auths + 1, c, a)
    BY ExchangeActs
  <1>2. PICK no : SessionEffect(Here.ins, no, auths + 1, c, a)
    BY <1>1
  <1>3. auths \in Nat /\ auths' = IF d.pend.rnd > auths THEN auths + 1 ELSE auths
    BY DEF CountInv, Numbers, Carry
  <1>4. cards' = [cards EXCEPT ![task.uid] = d]
    BY DEF Carry
  <1> HIDE DEF c, d
  <1>5. /\ DOMAIN d.ses = SessionFields
        /\ \/ d.ses = NoSession \/ d.ses.ti = c.ses.ti
           \/ c.pend # NoChallenge /\ d.ses.ti = c.pend.rnd
        /\ \/ d.pend = NoChallenge \/ d.pend = c.pend
           \/ d.pend = [no |-> no, rnd |-> auths + 1]
    BY <1>2 DEF SessionEffect, d
  <1>6. d.ses.ti \in 0..auths
    <2>1. c.ses.ti \in 0..auths /\ (c.pend # NoChallenge => c.pend.rnd \in 1..auths)
      BY <1>1 DEF Numbered
    <2> QED  BY <1>3, <1>5, <2>1, NoSessionFields
  <1>7. /\ d.pend = NoChallenge \/ (DOMAIN d.pend = {"no", "rnd"} /\ d.pend.rnd \in 1..auths')
        /\ auths' \in {auths, auths + 1} /\ (d.pend = NoChallenge => auths' = auths)
    <2>1. CASE d.pend = NoChallenge
      BY <1>3, <2>1 DEF NoChallenge
    <2>2. CASE d.pend # NoChallenge /\ d.pend = c.pend
      BY <1>1, <1>3, <2>2 DEF Numbered
    <2>3. CASE d.pend # NoChallenge /\ d.pend = [no |-> no, rnd |-> auths + 1]
      BY <1>3, <2>3
    <2> QED  BY <1>5, <2>1, <2>2, <2>3
  <1>8. auths' \in Nat /\ \A n : /\ n \in 0..auths => n \in 0..auths'
                                 /\ n \in 1..auths => n \in 1..auths'
    BY <1>3, <1>7
  <1>9. \A e \in Cards : Numbered(cards[e])'
    <2> SUFFICES ASSUME NEW e \in Cards PROVE Numbered(cards[e])'
      OBVIOUS
    <2>1. CASE e = task.uid
      <3>1. cards'[e] = d
        BY <1>1, <1>4, <2>1
      <3> QED  BY <1>5, <1>6, <1>7, <1>8, <3>1 DEF Numbered
    <2>2. CASE e # task.uid
      <3>1. cards'[e] = cards[e] /\ Numbered(cards[e])
        BY <1>1, <1>4, <2>2 DEF CountInv, Numbers
      <3> QED  BY <1>8, <3>1 DEF Numbered
    <2> QED  BY <2>1, <2>2
  <1>10. ses'.authenticated => ses'.ti \in 1..auths'
    BY <1>8 DEF CountInv, Numbers
  <1> QED  BY <1>7, <1>8, <1>9, <1>10 DEF Numbers, d

\* The answer was lost, and the task goes on all the same: with a card that was to be
\* formatted.
LEMMA LostAnswerCounts ==
    ASSUME LeafInv, CountInv, At("exchange"), task.sub = 1, Here.ins = "FORMAT",
           NEW a, a = CardDoes(cards[task.uid], air, auths + 1), Carry(a),
           ses' = ses, task' = Step([task EXCEPT !.quiet = FALSE])
    PROVE  CountInv'
  <1>1. /\ task.op # "none" /\ Here.do = "exchange" /\ DOMAIN task = TaskFields
    BY DEF At, LeafInv, Shapes
  <1>2. /\ task'.op = task.op /\ task'.uid = task.uid /\ task'.pc = task.pc + 1
        /\ ~task'.quiet
    BY <1>1 DEF Step, TaskFields
  <1>3. /\ task.uid \in Cards /\ DOMAIN cards = Cards
        /\ HandshakeAt(task.op, task.pc, Here)
        /\ \E no : SessionEffect(Here.ins, no, auths + 1, cards[task.uid], a)
    BY ExchangeActs
  <1>4. Numbers'
    BY CarriedNumbers DEF CountInv, Numbers
  <1>5. task.pc \notin Challenged(task.op) /\ task.pc + 1 \notin Proven(task.op)
    BY <1>1, <1>3 DEF HandshakeAt
  <1>6. cards'[task.uid].pend = NoChallenge
    <2>1. cards[task.uid].pend = NoChallenge
      BY <1>1, <1>5 DEF CountInv, ChallengeIsTasks
    <2>2. a.card.pend = NoChallenge
      BY <1>3, <2>1 DEF SessionEffect
    <2> QED  BY <1>3, <2>2 DEF Carry
  <1> QED  BY <1>2, <1>4, <1>5, <1>6 DEF CountInv, ChallengeIsTasks, ProofIsFresh, CountedAlike

\* The answer arrived, and the task goes on.
LEMMA AnswerCounts ==
    ASSUME LeafInv, CountInv, At("exchange"), task.sub = 1,
           NEW a, a = CardDoes(cards[task.uid], air, auths + 1), Carry(a),
           ses' = IF Accepted(Here.ins, a) THEN SessionAfter(Here.ins, Here.no) ELSE ses,
           task'.op = task.op, task'.uid = task.uid, task'.pc = task.pc + 1,
           task'.quiet = task.quiet,
           task'.rnd = IF Here.ins = "AUTH1" THEN a.card.pend.rnd ELSE task.rnd,
           Accepted(Here.ins, a) \/ Here.ins = "FORMAT"
    PROVE  CountInv'
  <1> DEFINE c == cards[task.uid]
             d == cards'[task.uid]
             ins == Here.ins
  <1>1. task.op # "none" /\ Here.do = "exchange"
    BY DEF At
  <1>2. /\ task.uid \in Cards /\ DOMAIN cards = Cards /\ Numbered(c) /\ ins \in Commands
        /\ HandshakeAt(task.op, task.pc, Here)
        /\ \E no : SessionEffect(ins, no, auths + 1, c, a)
    BY ExchangeActs
  <1>3. PICK no : SessionEffect(ins, no, auths + 1, c, a)
    BY <1>2
  <1>4. a.card = d
    BY <1>2 DEF Carry
  <1>5. /\ DOMAIN ses' = ReaderSessionFields
        /\ ses'.authenticated => ses.authenticated /\ ses'.ti = ses.ti
        /\ ses'.authenticated /\ Accepted(ins, a) => ins # "SELECT"
        /\ ses'.authenticated /\ Accepted(ins, a) /\ ins \notin {"AUTH1", "AUTH2"}
             => ses'.ctr = ses.ctr + 1
        /\ ~Accepted(ins, a) \/ ins \in {"AUTH1", "AUTH2"} => ses' = ses
    <2>1. DOMAIN ses = ReaderSessionFields
      BY DEF CountInv, Numbers
    <2>2. CASE Accepted(ins, a)
      BY <1>2, <2>1, <2>2, SessionNext
    <2>3. CASE ~Accepted(ins, a)
      BY <2>1, <2>3
    <2> QED  BY <2>2, <2>3
  <1>6. Numbers' /\ (d.pend = NoChallenge => auths' = auths)
    BY <1>4, <1>5, CarriedNumbers
  <1>7. auths \in Nat /\ (ses.authenticated => ses.ti \in 1..auths)
    BY DEF CountInv, Numbers
  <1>8. a.st = "OK" \/ a.st = "MORE" \/ ins = "FORMAT"
    BY DEF Accepted
  <1>9. /\ ins = "AUTH1" => a.st = "MORE"
        /\ ins = "AUTH2" => a.st = "OK"
    BY DEF Accepted
  <1>10. /\ ins = "AUTH2" <=> task.pc \in Challenged(task.op)
         /\ ins = "AUTH1" <=> task.pc + 1 \in Challenged(task.op)
         /\ task.pc + 1 \in Proven(task.op) => ins = "AUTH2"
    BY <1>1, <1>2 DEF HandshakeAt
  <1>11. c.pend # NoChallenge =>
            /\ ins = "AUTH2" /\ task.rnd = c.pend.rnd
            /\ ses.authenticated => ses.ti # task.rnd
    BY <1>1, <1>10 DEF CountInv, ChallengeIsTasks
  <1> HIDE DEF c, d, ins
  <1>12. ChallengeIsTasks'
    <2>1. d.pend # NoChallenge =>
            /\ task'.pc \in Challenged(task.op) /\ task'.rnd = d.pend.rnd
            /\ ses'.authenticated => ses'.ti # task'.rnd
      <3> SUFFICES ASSUME d.pend # NoChallenge
                   PROVE  /\ task'.pc \in Challenged(task.op) /\ task'.rnd = d.pend.rnd
                          /\ ses'.authenticated => ses'.ti # task'.rnd
        OBVIOUS
      <3>1. ins = "AUTH1" /\ d.pend = [no |-> no, rnd |-> auths + 1]
        BY <1>3, <1>4, <1>11 DEF SessionEffect
      <3>2. task'.rnd = auths + 1 /\ d.pend.rnd = auths + 1
        BY <1>4, <3>1 DEF ins
      <3>3. ses'.authenticated => ses'.ti \in 1..auths
        BY <1>5, <1>7
      <3> QED  BY <1>7, <1>10, <3>1, <3>2, <3>3
    <2> QED  BY <2>1 DEF ChallengeIsTasks, d
  <1>13. ProofIsFresh'
    <2>1. task'.pc \in Proven(task.op) =>
            d.pend = NoChallenge /\ d.ses.ti = task'.rnd /\ d.ses.ctr = 0
              /\ task'.rnd \in 1..auths'
      <3> SUFFICES ASSUME ins = "AUTH2"
                   PROVE  d.pend = NoChallenge /\ d.ses.ti = task'.rnd /\ d.ses.ctr = 0
                            /\ task'.rnd \in 1..auths'
        BY <1>10
      <3>1. c.pend # NoChallenge /\ d.ses.ti = c.pend.rnd /\ d.ses.ctr = 0
        BY <1>3, <1>4, <1>9 DEF SessionEffect
      <3>2. d.pend = NoChallenge
        BY <1>3, <1>4, <1>9 DEF SessionEffect
      <3>3. task'.rnd = task.rnd /\ task.rnd = c.pend.rnd /\ c.pend.rnd \in 1..auths
        BY <1>2, <1>11, <3>1 DEF Numbered, ins
      <3> QED  BY <1>6, <3>1, <3>2, <3>3
    <2> QED  BY <2>1 DEF ProofIsFresh, d
  <1>14. CountedAlike'
    <2>1. ASSUME task.quiet, ses'.authenticated, d.ses.ti = ses'.ti, "empty" \notin d.macs
          PROVE  d.ses.ctr = ses'.ctr
      <3>0. ses.authenticated /\ ses'.ti = ses.ti /\ ses.ti \in 1..auths /\ d.macs = c.macs
        BY <1>3, <1>4, <1>5, <1>7, <2>1 DEF SessionEffect
      <3>1. d.ses # NoSession
        BY <2>1, <3>0, NoSessionFields
      <3>2. ins # "AUTH2"
        <4> SUFFICES ASSUME ins = "AUTH2" PROVE FALSE
          OBVIOUS
        <4>1. c.pend # NoChallenge /\ d.ses.ti = c.pend.rnd
          BY <1>3, <1>4, <1>9 DEF SessionEffect
        <4> QED  BY <1>11, <2>1, <3>0, <4>1
      <3>3. /\ ins \notin {"SELECT", "AUTH1", "AUTH2"} /\ a.st = "OK"
            /\ d.ses.ti = c.ses.ti /\ d.ses.ctr = c.ses.ctr + 1
        BY <1>3, <1>4, <3>1, <3>2 DEF SessionEffect
      <3>4. c.ses.ctr = ses.ctr
        BY <1>1, <2>1, <3>0, <3>3 DEF CountInv, CountedAlike, c
      <3>5. Accepted(ins, a)
        <4> SUFFICES ASSUME ins = "FORMAT", ~Accepted(ins, a) PROVE FALSE
          BY DEF ins
        <4>1. a.st = "OK" /\ a.len = 0
          BY <1>3, <2>1, <3>0, <3>3 DEF SessionEffect
        <4> QED  BY <4>1 DEF Accepted, Room
      <3> QED  BY <1>5, <2>1, <3>3, <3>4, <3>5
    <2> QED  BY <2>1 DEF CountedAlike, d
  <1> QED  BY <1>6, <1>12, <1>13, <1>14 DEF CountInv

\* The exchange ends: answered, or one of the two ways lost.
LEMMA ReceiveCounts == LeafInv /\ CountInv /\ Receive => CountInv'
  <1> SUFFICES ASSUME LeafInv, CountInv, Receive PROVE CountInv'
    OBVIOUS
  <1> DEFINE a == CardDoes(cards[task.uid], air, auths + 1)
             ins == Here.ins
             lost == [task EXCEPT !.quiet = FALSE]
  <1>1. At("exchange") /\ task.sub = 1 /\ task.op # "none" /\ DOMAIN task = TaskFields
    BY DEF Receive, At, LeafInv, Shapes
  <1>2. CASE Carry(a) /\ Answered(ins, a)
    <2> DEFINE s == IF Accepted(ins, a) THEN SessionAfter(ins, Here.no) ELSE ses
               r == [task EXCEPT !.rnd = IF ins = "AUTH1" THEN a.card.pend.rnd ELSE @,
                                 !.data = a.data]
    <2>1. ses' = s
      BY <1>2 DEF Answered
    <2>2. /\ DOMAIN ses' = ReaderSessionFields
          /\ ses'.authenticated => ses.authenticated /\ ses'.ti = ses.ti
      <3>1. DOMAIN ses = ReaderSessionFields /\ ins \in Commands
        BY <1>1, ExchangeActs DEF CountInv, Numbers
      <3>2. CASE Accepted(ins, a)
        BY <2>1, <3>1, <3>2, SessionNext
      <3>3. CASE ~Accepted(ins, a)
        BY <2>1, <3>1, <3>3
      <3> QED  BY <3>2, <3>3
    <2>3. Numbers'
      BY <1>1, <1>2, <2>2, CarriedNumbers
    <2>4. CASE task' = Idle
      BY <2>3, <2>4, CountsIdle DEF Idle
    <2>5. CASE task' = Step(r) /\ Accepted(ins, a)
      <3>1. /\ task'.op = task.op /\ task'.uid = task.uid /\ task'.pc = task.pc + 1
            /\ task'.quiet = task.quiet
            /\ task'.rnd = IF ins = "AUTH1" THEN a.card.pend.rnd ELSE task.rnd
        BY <1>1, <2>5 DEF Step, TaskFields
      <3> QED  BY <1>1, <1>2, <2>1, <2>5, <3>1, AnswerCounts
    <2>6. CASE task' = Step(task) /\ ins = "FORMAT"
      <3>1. /\ task'.op = task.op /\ task'.uid = task.uid /\ task'.pc = task.pc + 1
            /\ task'.quiet = task.quiet /\ task'.rnd = task.rnd
        BY <1>1, <2>6 DEF Step, TaskFields
      <3> QED  BY <1>1, <1>2, <2>1, <2>6, <3>1, AnswerCounts
    <2>7. \/ task' = Idle
          \/ task' = Step(r) /\ Accepted(ins, a)
          \/ task' = Step(task) /\ ins = "FORMAT"
      BY <1>2 DEF Answered, Proceed, Failed, Finish
    <2> QED  BY <2>4, <2>5, <2>6, <2>7
  <1>3. CASE Carry(a) /\ Failed(ins, lost) /\ ses' = ses
    <2>1. CASE ins = "FORMAT" /\ task' = Step(lost)
      BY <1>1, <1>3, <2>1, LostAnswerCounts
    <2>2. CASE task' = Idle
      <3>1. Numbers'
        BY <1>1, <1>3, CarriedNumbers DEF CountInv, Numbers
      <3> QED  BY <2>2, <3>1, CountsIdle DEF Idle
    <2> QED  BY <1>3, <2>1, <2>2 DEF Failed, Finish
  <1>4. CASE Failed(ins, lost) /\ ses' = ses /\ cards' = cards /\ auths' = auths
    <2>1. CASE ins = "FORMAT" /\ task' = Step(lost)
      <3>1. /\ task'.op = task.op /\ task'.uid = task.uid /\ task'.pc = task.pc + 1
            /\ task'.rnd = task.rnd /\ ~task'.quiet
        BY <1>1, <2>1 DEF Step, TaskFields
      <3> QED  BY <1>1, <1>4, <2>1, <3>1, CountsOn
    <2>2. CASE task' = Idle
      BY <1>4, <2>2, NumbersStay, CountsIdle DEF CountInv, Idle
    <2> QED  BY <1>4, <2>1, <2>2 DEF Failed, Finish
  <1> QED  BY <1>2, <1>3, <1>4 DEF Receive

LEMMA StepCounts == LeafInv /\ CountInv /\ [Next]_vars => CountInv'
  <1> SUFFICES ASSUME LeafInv, CountInv, [Next]_vars PROVE CountInv'
    OBVIOUS
  <1>1. CASE \E c \in Cards : Start(c, "read", None)
    BY <1>1, StartCounts
  <1>2. CASE \E c \in Cards, cred \in Creds : Start(c, "write", cred)
    BY <1>2, StartCounts
  <1>3. CASE Remove \/ (\E k \in SiteKeys : SetSiteKey(k)) \/ TestSwapIn \/ TestSwapOut
    BY <1>3, OthersCount
  <1>4. CASE Reboot
    BY <1>4, RebootCounts
  <1>5. CASE LoadSite \/ MacSwapIn \/ MacCompute \/ MacSwapOut \/ Send
    BY <1>5, ComputingCounts
  <1>6. CASE Established
    BY <1>6, EstablishedCounts
  <1>7. CASE Receive
    BY <1>7, ReceiveCounts
  <1>8. CASE UNCHANGED vars
    BY <1>8, NumbersStay
    DEF vars, others, CountInv, ChallengeIsTasks, ProofIsFresh, CountedAlike
  <1> QED  BY <1>1, <1>2, <1>3, <1>4, <1>5, <1>6, <1>7, <1>8 DEF Next, Access

\* While an access has a session and nothing has been lost, the reader's command counter
\* (g_session.cmd_ctr of desfire.c) is that of the card between two exchanges, whatever the
\* number of cards, and whatever earlier accesses cut short had counted on either side.
THEOREM CountersStayEqual == Spec => []CountersAgree
  <1>1. Init => LeafInv /\ CountInv
    BY InitLeaf, InitCounts
  <1>2. LeafInv /\ CountInv /\ [Next]_vars => (LeafInv /\ CountInv)'
    BY StepKeepsLeaf, StepCounts
  <1>3. CountInv => CountersAgree
    BY DEF CountInv, CountedAlike, CountersAgree
  <1> QED  BY <1>1, <1>2, <1>3, PTL DEF Spec
-----------------------------------------------------------------------------

(* A write that nothing disturbs                                           *)

\* On a card that sends no MAC after a bare status.
Undisturbed ==
    /\ task.op = "write" /\ task.quiet /\ task.alone
    /\ "empty" \notin cards[task.uid].macs

\* Where the reader has a session.
Sessioned == (9..10) \cup (17..20) \cup (26..27)

\* The key an authentication is with, and the session that follows from it.
AuthKey == IF task.pc < 21 THEN Default ELSE task.k["kmst"]
SessionOf(k, r) ==
    [no |-> 0, kenc |-> Sealed(k, <<"sv1", r>>), kmac |-> Sealed(k, <<"sv2", r>>),
     ti |-> r, ctr |-> 0]

\* The key desfire_cmac would use, but for a CMAC with another one.
SessionMacKey == IF Here.do = "mac" /\ task.sub # 0 THEN task.saved ELSE macKey

\* What the card has selected, and what the format has left.
CardReady ==
    LET c == cards[task.uid] IN
    /\ task.pc \in 4..10 => c.sel = "picc"
    /\ task.pc \in 12..27 => c.sel = "leaf"
    /\ task.pc = 10 => ~c.app
    /\ task.pc \in 10..17 => ~c.file
    /\ task.pc \in 10..20 => c.key[0] = Default
    /\ task.pc \in 10..19 => c.key[1] = Default

\* The task answers the challenge of the card and computes the keys of its session.
Handshaking ==
    LET c == cards[task.uid] IN
    /\ task.pc \in {5, 13, 22} => c.pend = [no |-> 0, rnd |-> task.rnd]
    /\ task.pc \in (6..8) \cup (14..16) \cup (23..25) => c.ses = SessionOf(AuthKey, task.rnd)
    /\ task.pc \in {7, 8, 15, 16, 24, 25} \/ (task.pc \in {6, 14, 23} /\ task.sub = 2)
         => task.k["kenc"] = c.ses.kenc
    /\ task.pc \in {8, 16, 25} \/ (task.pc \in {7, 15, 24} /\ task.sub = 2)
         => task.k["kmac"] = c.ses.kmac

SameSession ==
    LET c == cards[task.uid] IN
    task.pc \in Sessioned =>
        /\ ses.authenticated /\ ses.no = 0 /\ c.ses.no = 0 /\ c.ses.ti = ses.ti
        /\ c.ses.ctr = ses.ctr /\ c.ses.kenc = ses.kenc /\ c.ses.kmac = SessionMacKey

CommandGenuine ==
    At("exchange") /\ task.sub = 1 /\ Here.ins \in Secured
      => air.mac = CommandMac(macKey, air.ins, air.arg, ses.ctr, ses.ti)

OnTrack ==
    Undisturbed =>
      task.k["zero"] = Default /\ CardReady /\ Handshaking /\ SameSession /\ CommandGenuine

TrackInv ==
    /\ result.op = "write" => result.uid \in Cards
    /\ CleanWriteSucceeds /\ OnTrack

\* The instructions of a write by what they do.
WritePlace(i, h) ==
    /\ h.do = "mac" <=> i \in {2, 6, 7, 14, 15, 18, 23, 24, 26}
    /\ h.do = "establish" <=> i \in {8, 16, 25}
    /\ h.do = "exchange" <=> i \in {3, 4, 5, 9, 10, 11, 12, 13, 17, 19, 20, 21, 22, 27}
    /\ i \in {6, 14} => h = Mac("zero", "sv1", "kenc")
    /\ i \in {7, 15} => h = Mac("zero", "sv2", "kmac")
    /\ i = 23 => h = Mac("kmst", "sv1", "kenc")
    /\ i = 24 => h = Mac("kmst", "sv2", "kmac")
    /\ h.do = "establish" => h.no = 0

LEMMA WritePlaces ==
    ASSUME Shapes, task.op = "write"
    PROVE  task.pc \in 1..27 /\ Here = WriteFlow[task.pc] /\ WritePlace(task.pc, Here)
  <1> USE DEF WritePlace, Load, Mac, Exchange, Select, Establish
  <1>1. task.pc \in 1..27 /\ Here = WriteFlow[task.pc]
    BY WriteTable DEF Shapes, Flow, Here
  <1>2. \A i \in 1..9 : WritePlace(i, WriteFlow[i])
    BY WriteTable
  <1>3. \A i \in 10..18 : WritePlace(i, WriteFlow[i])
    BY WriteTable
  <1>4. \A i \in 19..27 : WritePlace(i, WriteFlow[i])
    BY WriteTable
  <1>5. task.pc \in 1..9 \/ task.pc \in 10..18 \/ task.pc \in 19..27
    BY <1>1
  <1> HIDE DEF WritePlace
  <1> QED  BY <1>1, <1>2, <1>3, <1>4, <1>5

\* Cards keep the way they answer.
SameMacs == \A c \in Cards : cards'[c].macs = cards[c].macs

LEMMA ResultStays ==
    ASSUME TrackInv, result' = result, SameMacs
    PROVE  /\ result'.op = "write" => result'.uid \in Cards
           /\ CleanWriteSucceeds'
  BY DEF TrackInv, CleanWriteSucceeds, SameMacs

LEMMA FinishTracks ==
    ASSUME NEW t, NEW ok, Finish(t, ok), t.op = "write" => t.uid \in Cards,
           t.op = "write" /\ t.quiet /\ t.alone => ok \/ "empty" \in cards'[t.uid].macs
    PROVE  TrackInv'
  <1>1. OnTrack'
    BY DEF Finish, Idle, OnTrack, Undisturbed
  <1>2. result' = [op |-> t.op, uid |-> t.uid, ok |-> ok, quiet |-> t.quiet, alone |-> t.alone]
    BY DEF Finish
  <1>3. CleanWriteSucceeds' /\ (result'.op = "write" => result'.uid \in Cards)
    BY <1>2 DEF CleanWriteSucceeds
  <1> QED  BY <1>1, <1>3 DEF TrackInv

LEMMA OffTrack ==
    ASSUME TrackInv, result' = result, SameMacs, ~Undisturbed'
    PROVE  TrackInv'
  BY ResultStays DEF TrackInv, OnTrack

LEMMA InitTracks == Init => TrackInv
  BY DEF Init, TrackInv, CleanWriteSucceeds, NoResult, OnTrack, Undisturbed, Idle

LEMMA StartTracks ==
    ASSUME LeafInv, TrackInv, NEW c \in Cards, NEW op \in {"read", "write"}, NEW cred,
           Start(c, op, cred)
    PROVE  TrackInv'
  <1>1. task'.pc = 1 /\ task'.sub = 0 /\ task'.k["zero"] = Default
    BY DEF Start, Idle, Keys0, KeyNames
  <1>2. result'.op = "none"
    BY DEF Start, NoResult
  <1>3. CardReady' /\ Handshaking' /\ SameSession' /\ CommandGenuine'
    BY <1>1 DEF CardReady, Handshaking, SameSession, Sessioned, CommandGenuine
  <1> QED  BY <1>1, <1>2, <1>3 DEF TrackInv, CleanWriteSucceeds, OnTrack

LEMMA OthersTrack ==
    ASSUME LeafInv, TrackInv,
           Remove \/ (\E k \in SiteKeys : SetSiteKey(k)) \/ TestSwapIn \/ TestSwapOut
    PROVE  TrackInv'
  <1>1. cards' = cards /\ result' = result
    BY DEF Remove, SetSiteKey, TestSwapIn, TestSwapOut, others
  <1>2. ~Undisturbed'
    BY DEF LeafInv, Shapes, TaskFields, Remove, SetSiteKey, TestSwapIn, TestSwapOut, Undisturbed
  <1> QED  BY <1>1, <1>2, OffTrack DEF SameMacs

LEMMA RebootTracks == Reboot => TrackInv'
  BY DEF Reboot, Idle, NoResult, TrackInv, CleanWriteSucceeds, OnTrack, Undisturbed

\* A step that says nothing to the card leaves a disturbed task disturbed; an undisturbed one
\* needs the five parts again.
LEMMA QuietStep ==
    ASSUME LeafInv, TrackInv, cards' = cards, result' = result,
           task'.op = task.op, task'.uid = task.uid,
           task'.quiet = task.quiet, task'.alone = task.alone,
           Undisturbed => /\ task'.k["zero"] = task.k["zero"]
                          /\ CardReady' /\ Handshaking' /\ SameSession' /\ CommandGenuine'
    PROVE  TrackInv'
  <1>1. Undisturbed' <=> Undisturbed
    BY DEF Undisturbed
  <1>2. OnTrack'
    BY <1>1 DEF TrackInv, OnTrack
  <1>3. SameMacs
    BY DEF SameMacs
  <1> QED  BY <1>2, <1>3, ResultStays DEF TrackInv

LEMMA LoadSiteTracks == LeafInv /\ TrackInv /\ LoadSite => TrackInv'
  <1> SUFFICES ASSUME LeafInv, TrackInv, LoadSite PROVE TrackInv'
    OBVIOUS
  <1>1. task.op # "none" /\ Here.do = "load" /\ cards' = cards
    BY DEF LoadSite, At
  <1>2. task.pc = 1 /\ Len(Flow(task.op)) \in {10, 27} /\ task.op \in {"read", "write"}
    BY <1>1, AtInstruction DEF LeafInv, WriteAt, ReadAt, Shapes
  <1>3. task' = Step([task EXCEPT !.k["site"] = siteKey]) /\ result' = result
    <2> DEFINE t == [task EXCEPT !.k["site"] = siteKey]
    <2>1. t.pc = task.pc /\ t.op = task.op
      BY DEF LeafInv, Shapes, TaskFields
    <2>2. Proceed(t)
      BY DEF LoadSite
    <2> HIDE DEF t
    <2>3. t.pc # Len(Flow(t.op))
      BY <1>2, <2>1
    <2>4. task' = Step(t) /\ result' = result
      BY <2>2, <2>3 DEF Proceed
    <2> QED  BY <2>4 DEF t
  <1>4. /\ task'.op = task.op /\ task'.uid = task.uid /\ task'.pc = 2 /\ task'.sub = 0
        /\ task'.quiet = task.quiet /\ task'.alone = task.alone
        /\ task'.k["zero"] = task.k["zero"]
    BY <1>2, <1>3 DEF Step, LeafInv, Shapes, TaskFields, KeyNames
  <1>5. CardReady' /\ Handshaking' /\ SameSession' /\ CommandGenuine'
    BY <1>4 DEF CardReady, Handshaking, SameSession, Sessioned, CommandGenuine
  <1> QED  BY <1>1, <1>3, <1>4, <1>5, QuietStep

LEMMA MacSwapInTracks == LeafInv /\ TrackInv /\ MacSwapIn => TrackInv'
  <1> SUFFICES ASSUME LeafInv, TrackInv, MacSwapIn PROVE TrackInv'
    OBVIOUS
  <1>1. /\ task.op # "none" /\ Here.do = "mac" /\ task.sub = 0 /\ cards' = cards /\ ses' = ses
        /\ result' = result /\ task' = [task EXCEPT !.saved = macKey, !.sub = 1]
    BY DEF MacSwapIn, At, others
  <1>2. /\ task'.op = task.op /\ task'.uid = task.uid /\ task'.pc = task.pc /\ task'.sub = 1
        /\ task'.quiet = task.quiet /\ task'.alone = task.alone /\ task'.k = task.k
        /\ task'.rnd = task.rnd /\ task'.saved = macKey
    BY <1>1 DEF LeafInv, Shapes, TaskFields
  <1>3. Here' = Here
    BY <1>2 DEF Here
  <1>4. ASSUME Undisturbed PROVE CardReady' /\ Handshaking' /\ SameSession' /\ CommandGenuine'
    <2>1. CardReady'
      BY <1>1, <1>2, <1>4 DEF TrackInv, OnTrack, CardReady
    <2>2. Handshaking'
      BY <1>1, <1>2, <1>4 DEF TrackInv, OnTrack, Handshaking, AuthKey
    <2>3. SessionMacKey' = SessionMacKey
      BY <1>1, <1>2, <1>3 DEF SessionMacKey
    <2>4. SameSession'
      BY <1>1, <1>2, <1>4, <2>3 DEF TrackInv, OnTrack, SameSession
    <2>5. CommandGenuine'
      BY <1>1, <1>3 DEF CommandGenuine, At
    <2> QED  BY <2>1, <2>2, <2>4, <2>5
  <1> QED  BY <1>1, <1>2, <1>4, QuietStep

LEMMA MacComputeTracks == LeafInv /\ TrackInv /\ MacCompute => TrackInv'
  <1> SUFFICES ASSUME LeafInv, TrackInv, MacCompute PROVE TrackInv'
    OBVIOUS
  <1> DEFINE v == Sealed(macKey, MacInput(Here.tag))
             dst == Here.dst
  <1>1. /\ task.op # "none" /\ Here.do = "mac" /\ task.sub = 1 /\ cards' = cards /\ ses' = ses
        /\ macKey' = macKey /\ result' = result
        /\ task' = [task EXCEPT !.k[dst] = v, !.sub = 2]
    BY DEF MacCompute, At, others
  <1> HIDE DEF v, dst
  <1>2. /\ task'.op = task.op /\ task'.uid = task.uid /\ task'.pc = task.pc /\ task'.sub = 2
        /\ task'.quiet = task.quiet /\ task'.alone = task.alone
        /\ task'.rnd = task.rnd /\ task'.saved = task.saved
        /\ task'.k = [task.k EXCEPT ![dst] = v]
    BY <1>1 DEF LeafInv, Shapes, TaskFields
  <1>3. Here' = Here
    BY <1>2 DEF Here
  <1>4. ASSUME Undisturbed
        PROVE  /\ task'.k["zero"] = task.k["zero"]
               /\ CardReady' /\ Handshaking' /\ SameSession' /\ CommandGenuine'
    <2>1. task.op = "write" /\ task.alone
      BY <1>4 DEF Undisturbed
    <2>2. /\ task.pc \in 1..27 /\ WritePlace(task.pc, Here) /\ WriteAt(task.pc, Here)
          /\ DOMAIN task.k = KeyNames
      BY <1>1, <2>1, WritePlaces, AtInstruction DEF LeafInv, Shapes
    <2>3. /\ dst \in {"kdiv", "kmst", "mac8", "kenc", "kmac"}
          /\ dst = "kmst" => task.pc = 18
          /\ \A n \in KeyNames : task'.k[n] = IF n = dst THEN v ELSE task.k[n]
      BY <1>1, <1>2, <2>2 DEF WriteAt, ComputesKmst, dst
    <2>4. task'.k["zero"] = task.k["zero"] /\ AuthKey' = AuthKey
      BY <1>2, <2>2, <2>3 DEF KeyNames, AuthKey
    <2>5. CardReady'
      BY <1>1, <1>2, <1>4 DEF TrackInv, OnTrack, CardReady
    <2>6. macKey = task.k[Here.key] /\ task.k["zero"] = Default
      BY <1>1, <1>4, <2>1 DEF LeafInv, MacKeyRight, At, TrackInv, OnTrack
    <2>7. task.pc \in {6, 14, 23} => dst = "kenc" /\ v = Sealed(AuthKey, <<"sv1", task.rnd>>)
      <3> SUFFICES ASSUME task.pc \in {6, 14, 23}
                   PROVE  dst = "kenc" /\ v = Sealed(AuthKey, <<"sv1", task.rnd>>)
        OBVIOUS
      <3>1. /\ Here.dst = "kenc" /\ Here.tag = "sv1"
            /\ Here.key = IF task.pc < 21 THEN "zero" ELSE "kmst"
        BY <2>2 DEF WritePlace, Mac
      <3>2. MacInput("sv1") = <<"sv1", task.rnd>>
        BY DEF MacInput
      <3>3. macKey = AuthKey
        BY <2>6, <3>1 DEF AuthKey
      <3> QED  BY <3>1, <3>2, <3>3 DEF dst, v
    <2>8. task.pc \in {7, 15, 24} => dst = "kmac" /\ v = Sealed(AuthKey, <<"sv2", task.rnd>>)
      <3> SUFFICES ASSUME task.pc \in {7, 15, 24}
                   PROVE  dst = "kmac" /\ v = Sealed(AuthKey, <<"sv2", task.rnd>>)
        OBVIOUS
      <3>1. /\ Here.dst = "kmac" /\ Here.tag = "sv2"
            /\ Here.key = IF task.pc < 21 THEN "zero" ELSE "kmst"
        BY <2>2 DEF WritePlace, Mac
      <3>2. MacInput("sv2") = <<"sv2", task.rnd>>
        BY DEF MacInput
      <3>3. macKey = AuthKey
        BY <2>6, <3>1 DEF AuthKey
      <3> QED  BY <3>1, <3>2, <3>3 DEF dst, v
    <2>9. task.pc \in (6..8) \cup (14..16) \cup (23..25)
             => cards[task.uid].ses = SessionOf(AuthKey, task.rnd)
      BY <1>4 DEF TrackInv, OnTrack, Handshaking
    <2>10. /\ task.pc \in {5, 13, 22} => cards[task.uid].pend = [no |-> 0, rnd |-> task.rnd]
           /\ task.pc \in {7, 8, 15, 16, 24, 25} => task.k["kenc"] = cards[task.uid].ses.kenc
           /\ task.pc \notin {8, 16, 25}
      BY <1>1, <1>4, <2>2 DEF TrackInv, OnTrack, Handshaking, WritePlace
    <2>11. /\ task'.pc \in {7, 8, 15, 16, 24, 25} \/ task'.pc \in {6, 14, 23}
                => task'.k["kenc"] = cards[task.uid].ses.kenc
           /\ task'.pc \in {7, 15, 24} => task'.k["kmac"] = cards[task.uid].ses.kmac
      <3>1. SessionOf(AuthKey, task.rnd).kenc = Sealed(AuthKey, <<"sv1", task.rnd>>)
        BY DEF SessionOf
      <3>2. SessionOf(AuthKey, task.rnd).kmac = Sealed(AuthKey, <<"sv2", task.rnd>>)
        BY DEF SessionOf
      <3>3. CASE task.pc \in {6, 14, 23}
        BY <1>2, <2>3, <2>7, <2>9, <3>1, <3>3 DEF KeyNames
      <3>4. CASE task.pc \in {7, 15, 24}
        <4>1. dst = "kmac" /\ v = cards[task.uid].ses.kmac
          BY <2>8, <2>9, <3>2, <3>4
        <4>2. task'.k["kenc"] = task.k["kenc"] /\ task'.k["kmac"] = v
          BY <2>3, <4>1 DEF KeyNames
        <4> QED  BY <1>2, <2>10, <3>4, <4>1, <4>2
      <3> QED  BY <1>2, <2>10, <3>3, <3>4
    <2>12. Handshaking'
      BY <1>1, <1>2, <2>4, <2>9, <2>10, <2>11 DEF Handshaking
    <2>13. SessionMacKey' = SessionMacKey
      BY <1>1, <1>2, <1>3 DEF SessionMacKey
    <2>14. SameSession'
      BY <1>1, <1>2, <1>4, <2>13 DEF TrackInv, OnTrack, SameSession
    <2>15. CommandGenuine'
      BY <1>1, <1>3 DEF CommandGenuine, At
    <2> QED  BY <2>4, <2>5, <2>12, <2>14, <2>15
  <1> QED  BY <1>1, <1>2, <1>4, QuietStep

LEMMA MacSwapOutTracks == LeafInv /\ TrackInv /\ MacSwapOut => TrackInv'
  <1> SUFFICES ASSUME LeafInv, TrackInv, MacSwapOut PROVE TrackInv'
    OBVIOUS
  <1>1. /\ task.op # "none" /\ Here.do = "mac" /\ task.sub = 2 /\ cards' = cards /\ ses' = ses
        /\ macKey' = task.saved /\ task.op \in {"read", "write"} /\ task.uid \in Cards
    BY DEF MacSwapOut, At, LeafInv, Shapes
  <1>2. task.op = "write" => /\ task.pc \in 1..27 /\ WritePlace(task.pc, Here)
                             /\ Len(Flow(task.op)) = 27 /\ task.pc # 27
    BY <1>1, WritePlaces, AtInstruction DEF LeafInv, WritePlace
  <1>3. CASE task.pc = Len(Flow(task.op))
    <2>1. Finish(task, task.k["mac8"] = task.data[2]) /\ task.op = "read"
      BY <1>1, <1>2, <1>3 DEF MacSwapOut
    <2> QED  BY <2>1, FinishTracks
  <1>4. CASE task.pc # Len(Flow(task.op))
    <2>1. task' = Step([task EXCEPT !.saved = NoKey]) /\ result' = result
      BY <1>4 DEF MacSwapOut
    <2>2. /\ task'.op = task.op /\ task'.uid = task.uid /\ task'.pc = task.pc + 1
          /\ task'.sub = 0 /\ task'.quiet = task.quiet /\ task'.alone = task.alone
          /\ task'.k = task.k /\ task'.rnd = task.rnd
      BY <2>1 DEF Step, LeafInv, Shapes, TaskFields
    <2>3. ASSUME Undisturbed PROVE CardReady' /\ Handshaking' /\ SameSession' /\ CommandGenuine'
      <3>1. task.op = "write"
        BY <2>3 DEF Undisturbed
      <3>2. task.pc \in {2, 6, 7, 14, 15, 18, 23, 24, 26}
        BY <1>1, <1>2, <3>1 DEF WritePlace
      <3>3. CardReady /\ Handshaking /\ SameSession
        BY <2>3 DEF TrackInv, OnTrack
      <3>4. CardReady'
        BY <1>1, <2>2, <3>2, <3>3 DEF CardReady
      <3>5. AuthKey' = AuthKey
        BY <2>2, <3>2 DEF AuthKey
      <3>6. Handshaking'
        BY <1>1, <2>2, <3>2, <3>3, <3>5 DEF Handshaking
      <3>7. SessionMacKey' = SessionMacKey
        BY <1>1, <2>2 DEF SessionMacKey
      <3>8. SameSession'
        BY <1>1, <2>2, <3>2, <3>3, <3>7 DEF SameSession, Sessioned
      <3>9. CommandGenuine'
        BY <2>2 DEF CommandGenuine
      <3> QED  BY <3>4, <3>6, <3>8, <3>9
    <2> QED  BY <1>1, <2>1, <2>2, <2>3, QuietStep
  <1> QED  BY <1>3, <1>4

LEMMA EstablishedTracks == LeafInv /\ TrackInv /\ Established => TrackInv'
  <1> SUFFICES ASSUME LeafInv, TrackInv, Established PROVE TrackInv'
    OBVIOUS
  <1>1. /\ task.op # "none" /\ Here.do = "establish" /\ cards' = cards /\ result' = result
        /\ macKey' = task.k["kmac"] /\ task' = Step(task)
        /\ ses' = [authenticated |-> TRUE, no |-> Here.no, ctr |-> 0, ti |-> task.rnd,
                   kenc |-> task.k["kenc"], kmac |-> task.k["kmac"]]
    BY DEF Established, At, others
  <1>2. /\ task'.op = task.op /\ task'.uid = task.uid /\ task'.pc = task.pc + 1
        /\ task'.sub = 0 /\ task'.quiet = task.quiet /\ task'.alone = task.alone
        /\ task'.k = task.k /\ task'.rnd = task.rnd
    BY <1>1 DEF Step, LeafInv, Shapes, TaskFields
  <1>3. ASSUME Undisturbed PROVE CardReady' /\ Handshaking' /\ SameSession' /\ CommandGenuine'
    <2>1. task.pc \in {8, 16, 25} /\ Here.no = 0
      BY <1>1, <1>3, WritePlaces DEF LeafInv, WritePlace, Undisturbed
    <2>2. CardReady /\ Handshaking
      BY <1>3 DEF TrackInv, OnTrack
    <2>3. CardReady'
      BY <1>1, <1>2, <2>1, <2>2 DEF CardReady
    <2>4. Handshaking'
      BY <1>1, <1>2, <2>1 DEF Handshaking
    <2>5. SessionMacKey' = task.k["kmac"]
      BY <1>1, <1>2 DEF SessionMacKey
    <2> DEFINE c == cards[task.uid]
    <2>6. /\ c.ses = SessionOf(AuthKey, task.rnd)
          /\ task.k["kenc"] = c.ses.kenc /\ task.k["kmac"] = c.ses.kmac
      BY <2>1, <2>2 DEF Handshaking
    <2>7. c.ses.no = 0 /\ c.ses.ti = task.rnd /\ c.ses.ctr = 0
      BY <2>6 DEF SessionOf
    <2>8. SameSession'
      BY <1>1, <1>2, <2>1, <2>5, <2>6, <2>7 DEF SameSession
    <2>9. CommandGenuine'
      BY <1>2 DEF CommandGenuine
    <2> QED  BY <2>3, <2>4, <2>8, <2>9
  <1> QED  BY <1>1, <1>2, <1>3, QuietStep

LEMMA SendTracks == LeafInv /\ TrackInv /\ Send => TrackInv'
  <1> SUFFICES ASSUME LeafInv, TrackInv, Send PROVE TrackInv'
    OBVIOUS
  <1>1. /\ task.op # "none" /\ Here.do = "exchange" /\ task.sub = 0 /\ cards' = cards
        /\ ses' = ses /\ macKey' = macKey /\ task.uid \in Cards /\ DOMAIN task = TaskFields
    BY DEF Send, At, LeafInv, Shapes
  <1>2. Undisturbed => (Here.ins \in Secured => ses.authenticated)
    <2> SUFFICES ASSUME Undisturbed, Here.ins \in Secured PROVE ses.authenticated
      OBVIOUS
    <2>1. /\ task.op = "write" /\ task.pc \in 1..27 /\ Here = WriteFlow[task.pc]
          /\ WritePlace(task.pc, Here)
      BY WritePlaces DEF Undisturbed, LeafInv
    <2>2. task.pc \notin {3, 4, 5, 11, 12, 13, 21, 22}
      BY <2>1, WriteTable DEF Secured, Exchange, Select
    <2>3. task.pc \in Sessioned
      BY <1>1, <2>1, <2>2 DEF WritePlace, Sessioned
    <2> QED  BY <2>3 DEF TrackInv, OnTrack, SameSession
  <1>3. CASE Here.ins \in Secured /\ ~ses.authenticated
    <2>1. Finish(task, FALSE)
      BY <1>3 DEF Send
    <2>2. task.op = "write" /\ task.quiet /\ task.alone => "empty" \in cards'[task.uid].macs
      BY <1>1, <1>2, <1>3 DEF Undisturbed
    <2> QED  BY <1>1, <2>1, <2>2, FinishTracks
  <1>4. CASE ~(Here.ins \in Secured /\ ~ses.authenticated)
    <2>1. /\ task' = [task EXCEPT !.sub = 1] /\ result' = result
          /\ air' = Command(Here.ins, Argument(Here),
                         IF Here.ins \in Secured
                         THEN CommandMac(macKey, Here.ins, Argument(Here), ses.ctr, ses.ti)
                         ELSE NoKey)
      BY <1>4 DEF Send
    <2>2. /\ task'.op = task.op /\ task'.uid = task.uid /\ task'.pc = task.pc /\ task'.sub = 1
          /\ task'.quiet = task.quiet /\ task'.alone = task.alone /\ task'.k = task.k
          /\ task'.rnd = task.rnd
      BY <1>1, <2>1 DEF TaskFields
    <2>3. Here' = Here
      BY <2>2 DEF Here
    <2>4. /\ air'.ins = Here.ins /\ air'.arg = Argument(Here)
          /\ Here.ins \in Secured =>
               air'.mac = CommandMac(macKey, Here.ins, Argument(Here), ses.ctr, ses.ti)
      BY <2>1 DEF Command
    <2>5. ASSUME Undisturbed PROVE CardReady' /\ Handshaking' /\ SameSession' /\ CommandGenuine'
      <3>1. CardReady /\ Handshaking /\ SameSession
        BY <2>5 DEF TrackInv, OnTrack
      <3>2. CardReady'
        BY <1>1, <2>2, <3>1 DEF CardReady
      <3>3. Handshaking'
        BY <1>1, <2>2, <3>1 DEF Handshaking, AuthKey
      <3>4. SessionMacKey' = SessionMacKey
        BY <1>1, <2>3 DEF SessionMacKey
      <3>5. SameSession'
        BY <1>1, <2>2, <3>1, <3>4 DEF SameSession
      <3>6. CommandGenuine'
        BY <1>1, <2>3, <2>4 DEF CommandGenuine
      <3> QED  BY <3>2, <3>3, <3>5, <3>6
    <2> QED  BY <1>1, <2>1, <2>2, <2>5, QuietStep
  <1> QED  BY <1>3, <1>4

(* What the card answers to the commands of such a write                   *)

LEMMA SelectObeyed ==
    ASSUME NEW c, IsCard(c), NEW cmd, cmd.ins = "SELECT", cmd.arg = "leaf" => c.app, NEW rnd,
           NEW a, a = CardDoes(c, cmd, rnd)
    PROVE  /\ a.st = "OK" /\ a.len = 0
           /\ a.card.sel = cmd.arg /\ a.card.app = c.app /\ a.card.file = c.file
           /\ a.card.key = c.key
  <1>1. a = Plain([c EXCEPT !.sel = cmd.arg, !.ses = NoSession, !.pend = NoChallenge], "OK", 0)
    BY DEF CardDoes, CardSelect
  <1>2. /\ a.card = [c EXCEPT !.sel = cmd.arg, !.ses = NoSession, !.pend = NoChallenge]
        /\ a.st = "OK" /\ a.len = 0
    BY <1>1 DEF Plain, Answer
  <1> QED  BY <1>2 DEF IsCard, CardFields

LEMMA Auth1Obeyed ==
    ASSUME NEW c, IsCard(c), NEW cmd, cmd.ins = "AUTH1", cmd.arg = 0, NEW rnd,
           NEW a, a = CardDoes(c, cmd, rnd)
    PROVE  /\ a.st = "MORE" /\ a.len = 16
           /\ a.card.pend = [no |-> 0, rnd |-> rnd]
           /\ a.card.sel = c.sel /\ a.card.app = c.app /\ a.card.file = c.file
           /\ a.card.key = c.key
  <1>1. a = Plain([c EXCEPT !.ses = NoSession, !.pend = [no |-> 0, rnd |-> rnd]], "MORE", 16)
    BY DEF CardDoes, CardAuth1
  <1>2. /\ a.card = [c EXCEPT !.ses = NoSession, !.pend = [no |-> 0, rnd |-> rnd]]
        /\ a.st = "MORE" /\ a.len = 16
    BY <1>1 DEF Plain, Answer
  <1> QED  BY <1>2 DEF IsCard, CardFields

LEMMA Auth2Obeyed ==
    ASSUME NEW c, IsCard(c), NEW cmd, cmd.ins = "AUTH2", NEW rnd, NEW r, NEW k,
           c.pend = [no |-> 0, rnd |-> r], k = CardKey(c, 0),
           cmd.arg = Sealed(k, <<"rnd", r>>),
           NEW a, a = CardDoes(c, cmd, rnd)
    PROVE  /\ a.st = "OK" /\ a.len = 32
           /\ a.card.ses = SessionOf(k, r)
           /\ a.card.sel = c.sel /\ a.card.app = c.app /\ a.card.file = c.file
           /\ a.card.key = c.key
  <1>1. c.pend.no = 0 /\ c.pend.rnd = r
    OBVIOUS
  <1>2. c.pend # NoChallenge
    BY <1>1 DEF NoChallenge
  <1>3. a = CardAuth2(c, cmd.arg)
    BY DEF CardDoes
  <1>4. a = Plain([c EXCEPT !.pend = NoChallenge, !.ses = SessionOf(k, r)], "OK", 32)
    BY <1>1, <1>2, <1>3 DEF CardAuth2, SessionOf
  <1>5. /\ a.card = [c EXCEPT !.pend = NoChallenge, !.ses = SessionOf(k, r)]
        /\ a.st = "OK" /\ a.len = 32
    BY <1>4 DEF Plain, Answer
  <1> QED  BY <1>5 DEF IsCard, CardFields

LEMMA DoneObeyed ==
    ASSUME NEW c, DOMAIN c.ses = SessionFields,
           NEW d, IsCard(d), d.ses = c.ses, d.macs = c.macs, "empty" \notin c.macs,
           NEW data, NEW a, a = Done(d, 0, data)
    PROVE  /\ a.st = "OK" /\ a.len = 0
           /\ a.card.ses = [c.ses EXCEPT !.ctr = @ + 1]
           /\ a.card.sel = d.sel /\ a.card.app = d.app /\ a.card.file = d.file
           /\ a.card.key = d.key
  <1>1. /\ a.card = [d EXCEPT !.ses.ctr = @ + 1] /\ a.st = "OK" /\ a.len = 0
    BY DEF Done, Answer
  <1> QED  BY <1>1 DEF IsCard, CardFields

\* The commands that leave the session open.
LEMMA SecuredObeyed ==
    ASSUME NEW c, IsCard(c), DOMAIN c.ses = SessionFields, c.ses.no = 0, "empty" \notin c.macs,
           NEW cmd, Genuine(c, cmd), NEW rnd, NEW a, a = CardDoes(c, cmd, rnd),
           \/ cmd.ins = "FORMAT" /\ c.sel = "picc"
           \/ cmd.ins = "CREATE_APP" /\ c.sel = "picc" /\ ~c.app
           \/ cmd.ins = "CREATE_FILE" /\ c.sel = "leaf" /\ ~c.file
           \/ /\ cmd.ins = "CHANGE_KEY" /\ c.sel = "leaf" /\ cmd.arg[1] = 1
              /\ cmd.arg[2][1] = c.ses.kenc /\ cmd.arg[2][2][2] = c.key[1]
           \/ cmd.ins = "WRITE" /\ c.sel = "leaf" /\ c.file
    PROVE  /\ a.st = "OK" /\ a.len = 0 /\ a.card.sel = c.sel
           /\ a.card.ses = [c.ses EXCEPT !.ctr = @ + 1]
           /\ cmd.ins = "FORMAT" =>
                ~a.card.app /\ ~a.card.file /\ \A n \in 0..1 : a.card.key[n] = Default
           /\ cmd.ins # "FORMAT" => /\ a.card.file <=> (cmd.ins = "CREATE_FILE" \/ c.file)
                                    /\ a.card.key[0] = c.key[0]
           /\ cmd.ins \notin {"FORMAT", "CHANGE_KEY"} => a.card.key[1] = c.key[1]
  <1>1. CASE cmd.ins = "FORMAT"
    <2> DEFINE d == [c EXCEPT !.app = FALSE, !.file = FALSE, !.data = NoPayload,
                              !.key = [n \in 0..1 |-> Default]]
    <2>1. a = Done(d, 0, NoPayload)
      BY <1>1 DEF CardDoes, CardFormat
    <2>2. /\ IsCard(d) /\ d.ses = c.ses /\ d.macs = c.macs /\ d.sel = c.sel
          /\ ~d.app /\ ~d.file /\ \A n \in 0..1 : d.key[n] = Default
      BY DEF IsCard, CardFields
    <2> HIDE DEF d
    <2> QED  BY <1>1, <2>1, <2>2, DoneObeyed
  <1>2. CASE cmd.ins = "CREATE_APP"
    <2> DEFINE d == [c EXCEPT !.app = TRUE]
    <2>1. a = Done(d, 0, NoPayload)
      BY <1>2 DEF CardDoes, CardCreateApp
    <2>2. /\ IsCard(d) /\ d.ses = c.ses /\ d.macs = c.macs /\ d.sel = c.sel
          /\ d.file = c.file /\ d.key = c.key
      BY DEF IsCard, CardFields
    <2> HIDE DEF d
    <2> QED  BY <1>2, <2>1, <2>2, DoneObeyed
  <1>3. CASE cmd.ins = "CREATE_FILE"
    <2> DEFINE d == [c EXCEPT !.file = TRUE]
    <2>1. a = Done(d, 0, NoPayload)
      BY <1>3 DEF CardDoes, CardCreateFile
    <2>2. /\ IsCard(d) /\ d.ses = c.ses /\ d.macs = c.macs /\ d.sel = c.sel
          /\ d.file /\ d.key = c.key
      BY DEF IsCard, CardFields
    <2> HIDE DEF d
    <2> QED  BY <1>3, <2>1, <2>2, DoneObeyed
  <1>4. CASE cmd.ins = "CHANGE_KEY"
    <2> DEFINE d == [c EXCEPT !.key[1] = NewKey(cmd.arg)]
    <2>1. a = Done(d, 0, NoPayload)
      BY <1>4 DEF CardDoes, CardChangeKey, NewKey
    <2>2. /\ IsCard(d) /\ d.ses = c.ses /\ d.macs = c.macs /\ d.sel = c.sel
          /\ d.file = c.file /\ d.key[0] = c.key[0]
      BY DEF IsCard, CardFields
    <2> HIDE DEF d
    <2> QED  BY <1>4, <2>1, <2>2, DoneObeyed
  <1>5. CASE cmd.ins = "WRITE"
    <2> DEFINE d == [c EXCEPT !.data = cmd.arg]
    <2>1. a = Done(d, 0, NoPayload)
      BY <1>5 DEF CardDoes, CardWrite
    <2>2. /\ IsCard(d) /\ d.ses = c.ses /\ d.macs = c.macs /\ d.sel = c.sel
          /\ d.file = c.file /\ d.key = c.key
      BY DEF IsCard, CardFields
    <2> HIDE DEF d
    <2> QED  BY <1>5, <2>1, <2>2, DoneObeyed
  <1> QED  BY <1>1, <1>2, <1>3, <1>4, <1>5

\* The change of the session's own key, which ends it.
LEMMA OwnKeyObeyed ==
    ASSUME NEW c, IsCard(c), c.ses.no = 0, c.sel = "leaf",
           NEW cmd, Genuine(c, cmd), cmd.ins = "CHANGE_KEY", cmd.arg[1] = 0,
           cmd.arg[2][1] = c.ses.kenc, NEW rnd, NEW a, a = CardDoes(c, cmd, rnd)
    PROVE  a.st = "OK" /\ a.len = 0 /\ a.card.sel = "leaf"
  <1> DEFINE d == [c EXCEPT !.key[0] = NewKey(cmd.arg)]
  <1>1. a = Plain([d EXCEPT !.ses = NoSession], "OK", 0)
    BY DEF CardDoes, CardChangeKey, NewKey
  <1>2. IsCard(d) /\ d.sel = "leaf"
    BY DEF IsCard, CardFields
  <1> HIDE DEF d
  <1>3. a.card = [d EXCEPT !.ses = NoSession] /\ a.st = "OK" /\ a.len = 0
    BY <1>1 DEF Plain, Answer
  <1> QED  BY <1>2, <1>3 DEF IsCard, CardFields

\* The task goes on to the next instruction of an undisturbed write.
NextTask ==
    /\ task'.op = "write" /\ task'.uid = task.uid /\ task'.pc = task.pc + 1 /\ task'.sub = 0
    /\ task'.k = task.k /\ task'.quiet /\ task'.alone /\ result' = result

\* An answer that is taken as the success of the instruction.
Taken(ins, a) == Accepted(ins, a) /\ ins # "READ" /\ (ins = "CHANGE_KEY" => a.len = 0)

LEMMA TakenOn ==
    ASSUME LeafInv, Undisturbed, At("exchange"), task.pc # 27, NEW a, Answered(Here.ins, a),
           Taken(Here.ins, a)
    PROVE  /\ NextTask /\ ses' = SessionAfter(Here.ins, Here.no)
           /\ task'.rnd = IF Here.ins = "AUTH1" THEN a.card.pend.rnd ELSE task.rnd
  <1> DEFINE r == [task EXCEPT !.rnd = IF Here.ins = "AUTH1" THEN a.card.pend.rnd ELSE @,
                               !.data = a.data]
  <1>1. /\ Authentic(Here.ins, a, SessionAfter(Here.ins, Here.no)) /\ Complete(Here.ins, a)
        /\ Accepted(Here.ins, a)
    <2>1. Here.ins # "READ" /\ ~(Here.ins = "CHANGE_KEY" /\ a.len >= MacLen)
      BY DEF Taken, MacLen
    <2> QED  BY <2>1 DEF Taken, Authentic, Complete
  <1>2. Proceed(r) /\ ses' = SessionAfter(Here.ins, Here.no)
    BY <1>1 DEF Answered
  <1>3. /\ DOMAIN r = TaskFields /\ r.op = "write" /\ r.uid = task.uid /\ r.pc = task.pc
        /\ r.k = task.k /\ r.quiet /\ r.alone
        /\ r.rnd = IF Here.ins = "AUTH1" THEN a.card.pend.rnd ELSE task.rnd
    BY DEF LeafInv, Shapes, TaskFields, Undisturbed
  <1> HIDE DEF r
  <1>4. Len(Flow(r.op)) = 27
    BY <1>3, WriteTable DEF Flow
  <1>5. task' = Step(r) /\ result' = result
    BY <1>2, <1>3, <1>4 DEF Proceed
  <1> QED  BY <1>2, <1>3, <1>5 DEF Step, NextTask, TaskFields

\* What is needed of the task and of the card d at the next instruction.
LEMMA NextOnTrack ==
    ASSUME TrackInv, task.k["zero"] = Default, NextTask, SameMacs,
           CardReady', Handshaking', SameSession'
    PROVE  TrackInv'
  <1>1. CommandGenuine'
    BY DEF CommandGenuine, NextTask
  <1>2. OnTrack'
    BY <1>1 DEF OnTrack, NextTask
  <1>3. result' = result
    BY DEF NextTask
  <1> QED  BY <1>2, <1>3, ResultStays DEF TrackInv

LEMMA WriteAnswered ==
    ASSUME LeafInv, CountInv, TrackInv, Undisturbed, At("exchange"), task.sub = 1,
           NEW a, a = CardDoes(cards[task.uid], air, auths + 1), Carry(a),
           Answered(Here.ins, a), SameMacs, macKey' = macKey
    PROVE  TrackInv'
  <1> DEFINE c == cards[task.uid]
             d == cards'[task.uid]
             i == task.pc
  <1>1. /\ task.uid \in Cards /\ DOMAIN cards = Cards /\ IsCard(c) /\ DOMAIN c.ses = SessionFields
        /\ "empty" \notin c.macs /\ task.op = "write"
    BY DEF LeafInv, Shapes, CountInv, Numbers, Numbered, Undisturbed
  <1>2. d = a.card
    BY <1>1 DEF Carry
  <1>3. i \in 1..27 /\ Here = WriteFlow[i] /\ WritePlace(i, Here)
    BY <1>1, WritePlaces DEF LeafInv
  <1>4. i \in {3, 4, 5, 9, 10, 11, 12, 13, 17, 19, 20, 21, 22, 27}
    BY <1>3 DEF At, WritePlace
  <1>5. air.ins = Here.ins /\ air.arg = Argument(Here)
    BY DEF LeafInv, InTheAir
  <1>6. task.k["zero"] = Default /\ CardReady /\ Handshaking /\ SameSession /\ CommandGenuine
    BY DEF TrackInv, OnTrack
  <1>7. /\ i > CreatesApp => c.app
        /\ i > CreatesFile => c.file
        /\ i > ChangesKey0 => c.key[0] = task.k["kmst"]
    BY <1>1 DEF LeafInv, CardSoFar
  <1>8. SessionMacKey = macKey
    BY DEF SessionMacKey, At
  <1>9. NextTask => Here.do = "exchange" /\ SessionMacKey' = macKey
    BY DEF SessionMacKey, NextTask, At
  <1> HIDE DEF c, d, i
  <1>10. i \in Sessioned =>
           /\ ses.authenticated /\ ses.no = 0 /\ c.ses.no = 0 /\ c.ses.ti = ses.ti
           /\ c.ses.ctr = ses.ctr /\ c.ses.kenc = ses.kenc /\ c.ses.kmac = macKey
    BY <1>6, <1>8 DEF SameSession, c, i
  <1>11. i \in Sessioned /\ Here.ins \in Secured => Genuine(c, air)
    BY <1>6, <1>10 DEF CommandGenuine, Genuine, NoSession
  <1>12. /\ i \in 4..10 => c.sel = "picc"
         /\ i \in 12..27 => c.sel = "leaf"
         /\ i = 10 => ~c.app
         /\ i \in 10..17 => ~c.file
         /\ i \in 10..20 => c.key[0] = Default
         /\ i \in 10..19 => c.key[1] = Default
    BY <1>6 DEF CardReady, c, i
  \* A card that has the selection, the keys and the file of the next instruction.
  <1>13. ASSUME NextTask, d.sel = c.sel, d.app = c.app, d.file = c.file, d.key = c.key,
                i \notin {3, 9, 10, 11}
         PROVE  CardReady'
    BY <1>3, <1>4, <1>12, <1>13 DEF CardReady, NextTask, d, i
  <1>14. CASE i \in {3, 11}
    <2>1. /\ Here.ins = "SELECT" /\ Here.no = IF i = 3 THEN "picc" ELSE "leaf"
      BY <1>3, <1>14, WriteTable DEF Select
    <2>2. air.ins = "SELECT" /\ air.arg = Here.no
      BY <1>5, <2>1 DEF Argument
    <2>3. /\ a.st = "OK" /\ a.len = 0 /\ d.sel = Here.no /\ d.app = c.app /\ d.file = c.file
          /\ d.key = c.key
      BY <1>1, <1>2, <1>7, <1>14, <2>1, <2>2, SelectObeyed DEF c, CreatesApp
    <2>4. Taken("SELECT", a)
      BY <2>3 DEF Taken, Accepted, Room
    <2>5. NextTask
      BY <1>14, <2>1, <2>4, TakenOn DEF i
    <2>6. CardReady'
      BY <1>12, <1>14, <2>1, <2>3, <2>5 DEF CardReady, NextTask, d, i
    <2>7. Handshaking' /\ SameSession'
      BY <1>14, <2>5 DEF Handshaking, SameSession, Sessioned, NextTask, i
    <2> QED  BY <1>6, <2>5, <2>6, <2>7, NextOnTrack
  <1>15. CASE i \in {4, 12, 21}
    <2>1. Here.ins = "AUTH1" /\ Here.no = 0
      BY <1>3, <1>15, WriteTable DEF Exchange
    <2>2. air.ins = "AUTH1" /\ air.arg = 0
      BY <1>5, <2>1 DEF Argument
    <2>3. /\ a.st = "MORE" /\ a.len = 16 /\ d.pend = [no |-> 0, rnd |-> auths + 1]
          /\ d.sel = c.sel /\ d.app = c.app /\ d.file = c.file /\ d.key = c.key
      BY <1>1, <1>2, <2>2, Auth1Obeyed DEF c
    <2>4. Taken("AUTH1", a)
      BY <2>3 DEF Taken, Accepted, Room
    <2>5. NextTask /\ task'.rnd = auths + 1
      BY <1>2, <1>15, <2>1, <2>3, <2>4, TakenOn DEF i
    <2>6. CardReady'
      BY <1>13, <1>15, <2>3, <2>5
    <2>7. Handshaking'
      BY <1>15, <2>3, <2>5 DEF Handshaking, NextTask, d, i
    <2>8. SameSession'
      BY <1>15, <2>5 DEF SameSession, Sessioned, NextTask, i
    <2> QED  BY <1>6, <2>5, <2>6, <2>7, <2>8, NextOnTrack
  <1>16. CASE i \in {5, 13, 22}
    <2>1. Here.ins = "AUTH2" /\ Here.key = IF i = 22 THEN "kmst" ELSE "zero"
      BY <1>3, <1>16, WriteTable DEF Exchange
    <2>2. c.pend = [no |-> 0, rnd |-> task.rnd]
      BY <1>6, <1>16 DEF Handshaking, c, i
    <2>3. CardKey(c, 0) = AuthKey /\ task.k[Here.key] = AuthKey
      BY <1>6, <1>7, <1>12, <1>16, <2>1 DEF CardKey, AuthKey, ChangesKey0, i
    <2>4. air.ins = "AUTH2" /\ air.arg = Sealed(AuthKey, <<"rnd", task.rnd>>)
      BY <1>5, <2>1, <2>3 DEF Argument
    <2>5. /\ a.st = "OK" /\ a.len = 32 /\ d.ses = SessionOf(AuthKey, task.rnd)
          /\ d.sel = c.sel /\ d.app = c.app /\ d.file = c.file /\ d.key = c.key
      BY <1>1, <1>2, <2>2, <2>3, <2>4, Auth2Obeyed DEF c
    <2>6. Taken("AUTH2", a)
      BY <2>5 DEF Taken, Accepted, Room
    <2>7. NextTask /\ task'.rnd = task.rnd
      BY <1>16, <2>1, <2>6, TakenOn DEF i
    <2>8. CardReady'
      BY <1>13, <1>16, <2>5, <2>7
    <2>9. AuthKey' = AuthKey
      BY <1>16, <2>7 DEF AuthKey, NextTask, i
    <2>10. Handshaking'
      BY <1>16, <2>5, <2>7, <2>9 DEF Handshaking, NextTask, d, i
    <2>11. SameSession'
      BY <1>16, <2>7 DEF SameSession, Sessioned, NextTask, i
    <2> QED  BY <1>6, <2>7, <2>8, <2>10, <2>11, NextOnTrack
  <1>17. CASE i \in {9, 10, 17, 19}
    <2>1. /\ Here.no = IF i = 19 THEN 1 ELSE 0
          /\ i = 9 => Here.ins = "FORMAT"
          /\ i = 10 => Here.ins = "CREATE_APP"
          /\ i = 17 => Here.ins = "CREATE_FILE"
          /\ i = 19 => Here.ins = "CHANGE_KEY"
      BY <1>3, <1>17, WriteTable DEF Exchange
    <2>2. i \in Sessioned /\ Here.ins \in Secured
      BY <1>17, <2>1 DEF Sessioned, Secured
    <2>3. i = 19 => /\ air.arg[1] = 1 /\ air.arg[2][1] = c.ses.kenc
                    /\ air.arg[2][2][2] = c.key[1]
      <3> SUFFICES ASSUME i = 19
                   PROVE  /\ air.arg[1] = 1 /\ air.arg[2][1] = c.ses.kenc
                          /\ air.arg[2][2][2] = c.key[1]
        OBVIOUS
      <3>1. air.arg = <<1, ChangeBlob(1, task.k[Here.key])>>
        BY <1>5, <2>1 DEF Argument
      <3>2. ChangeBlob(1, task.k[Here.key]) = <<ses.kenc, <<task.k[Here.key], Default>>>>
        BY <1>10, <2>2 DEF ChangeBlob, Sealed
      <3> QED  BY <1>10, <1>12, <2>2, <3>1, <3>2
    <2>4. /\ a.st = "OK" /\ a.len = 0 /\ d.sel = c.sel
          /\ d.ses = [c.ses EXCEPT !.ctr = @ + 1]
          /\ i = 9 => ~d.app /\ ~d.file /\ \A n \in 0..1 : d.key[n] = Default
          /\ i # 9 => (d.file <=> (i = 17 \/ c.file)) /\ d.key[0] = c.key[0]
          /\ i \notin {9, 19} => d.key[1] = c.key[1]
      <3>1. Genuine(c, air) /\ c.ses.no = 0
        BY <1>10, <1>11, <2>2
      <3>2. \/ air.ins = "FORMAT" /\ c.sel = "picc"
            \/ air.ins = "CREATE_APP" /\ c.sel = "picc" /\ ~c.app
            \/ air.ins = "CREATE_FILE" /\ c.sel = "leaf" /\ ~c.file
            \/ /\ air.ins = "CHANGE_KEY" /\ c.sel = "leaf" /\ air.arg[1] = 1
               /\ air.arg[2][1] = c.ses.kenc /\ air.arg[2][2][2] = c.key[1]
        BY <1>5, <1>12, <1>17, <2>1, <2>3
      <3>3. /\ a.st = "OK" /\ a.len = 0 /\ a.card.sel = c.sel
            /\ a.card.ses = [c.ses EXCEPT !.ctr = @ + 1]
            /\ air.ins = "FORMAT" =>
                 ~a.card.app /\ ~a.card.file /\ \A n \in 0..1 : a.card.key[n] = Default
            /\ air.ins # "FORMAT" => /\ a.card.file <=> (air.ins = "CREATE_FILE" \/ c.file)
                                     /\ a.card.key[0] = c.key[0]
            /\ air.ins \notin {"FORMAT", "CHANGE_KEY"} => a.card.key[1] = c.key[1]
        BY <1>1, <3>1, <3>2, SecuredObeyed DEF c
      <3> QED  BY <1>2, <1>5, <1>17, <2>1, <3>3
    <2>5. Taken(Here.ins, a)
      BY <1>17, <2>1, <2>4 DEF Taken, Accepted, Room
    <2>6. NextTask /\ ses' = [ses EXCEPT !.ctr = @ + 1]
      <3>1. NextTask /\ ses' = SessionAfter(Here.ins, Here.no)
        BY <1>17, <2>5, TakenOn DEF i
      <3>2. i = 19 => Here.no # ses.no
        BY <1>10, <2>1, <2>2
      <3>3. SessionAfter(Here.ins, Here.no) = [ses EXCEPT !.ctr = @ + 1]
        BY <1>17, <2>1, <3>2 DEF SessionAfter, Secured
      <3> QED  BY <3>1, <3>3
    <2>7. CardReady'
      BY <1>12, <1>17, <2>4, <2>6 DEF CardReady, NextTask, d, i
    <2>8. Handshaking'
      BY <1>17, <2>6 DEF Handshaking, NextTask, i
    <2>9. DOMAIN ses = ReaderSessionFields
      BY DEF CountInv, Numbers
    <2>10. /\ ses'.authenticated /\ ses'.no = 0 /\ d.ses.no = 0 /\ d.ses.ti = ses'.ti
           /\ d.ses.ctr = ses'.ctr /\ d.ses.kenc = ses'.kenc /\ d.ses.kmac = macKey
      BY <1>1, <1>10, <2>2, <2>4, <2>6, <2>9 DEF ReaderSessionFields, SessionFields
    <2>11. SameSession'
      BY <1>9, <2>6, <2>10 DEF SameSession, NextTask, d
    <2> QED  BY <1>6, <2>6, <2>7, <2>8, <2>11, NextOnTrack
  <1>18. CASE i = 20
    <2>1. Here.ins = "CHANGE_KEY" /\ Here.no = 0
      BY <1>3, <1>18, WriteTable DEF Exchange
    <2>2. i \in Sessioned /\ Here.ins \in Secured
      BY <1>18, <2>1 DEF Sessioned, Secured
    <2>3. air.ins = "CHANGE_KEY" /\ air.arg[1] = 0 /\ air.arg[2][1] = c.ses.kenc
      <3>1. air.arg = <<0, ChangeBlob(0, task.k[Here.key])>>
        BY <1>5, <2>1 DEF Argument
      <3>2. ChangeBlob(0, task.k[Here.key]) = <<ses.kenc, <<task.k[Here.key]>>>>
        BY <1>10, <2>2 DEF ChangeBlob, Sealed
      <3> QED  BY <1>5, <1>10, <2>1, <2>2, <3>1, <3>2
    <2>4. a.st = "OK" /\ a.len = 0 /\ d.sel = "leaf"
      BY <1>1, <1>2, <1>10, <1>11, <1>12, <1>18, <2>2, <2>3, OwnKeyObeyed DEF c
    <2>5. Taken("CHANGE_KEY", a)
      BY <2>4 DEF Taken, Accepted, Room
    <2>6. NextTask
      BY <1>18, <2>1, <2>5, TakenOn DEF i
    <2>7. CardReady'
      BY <1>18, <2>4, <2>6 DEF CardReady, NextTask, d, i
    <2>8. Handshaking' /\ SameSession'
      BY <1>18, <2>6 DEF Handshaking, SameSession, Sessioned, NextTask, i
    <2> QED  BY <1>6, <2>6, <2>7, <2>8, NextOnTrack
  <1>19. CASE i = 27
    <2>1. Here.ins = "WRITE"
      BY <1>3, <1>19, WriteTable DEF Exchange
    <2>2. i \in Sessioned /\ Here.ins \in Secured
      BY <1>19, <2>1 DEF Sessioned, Secured
    <2>3. a.st = "OK" /\ a.len = 0
      <3>1. Genuine(c, air) /\ c.ses.no = 0 /\ air.ins = "WRITE" /\ c.sel = "leaf" /\ c.file
        BY <1>5, <1>7, <1>10, <1>11, <1>12, <1>19, <2>1, <2>2 DEF CreatesFile
      <3>2. a.st = "OK" /\ a.len = 0 /\ a.card.ses = [c.ses EXCEPT !.ctr = @ + 1]
        BY <1>1, <3>1, SecuredObeyed DEF c
      <3> QED  BY <3>2
    <2> DEFINE r == [task EXCEPT !.rnd = IF Here.ins = "AUTH1" THEN a.card.pend.rnd ELSE @,
                                 !.data = a.data]
    <2>4. /\ Accepted(Here.ins, a) /\ Complete(Here.ins, a)
          /\ Authentic(Here.ins, a, SessionAfter(Here.ins, Here.no))
      BY <2>1, <2>3 DEF Accepted, Room, Complete, Authentic
    <2>5. Proceed(r)
      BY <2>4 DEF Answered
    <2>6. r.op = "write" /\ r.uid = task.uid /\ r.pc = 27
      BY <1>1, <1>19 DEF LeafInv, Shapes, TaskFields, i
    <2> HIDE DEF r
    <2>7. r.pc = Len(Flow(r.op))
      BY <2>6, WriteTable DEF Flow
    <2>8. Finish(r, TRUE)
      BY <2>5, <2>7 DEF Proceed
    <2> QED  BY <1>1, <2>6, <2>8, FinishTracks
  <1> QED  BY <1>4, <1>14, <1>15, <1>16, <1>17, <1>18, <1>19

LEMMA ReceiveTracks == LeafInv /\ CountInv /\ TrackInv /\ Receive => TrackInv'
  <1> SUFFICES ASSUME LeafInv, CountInv, TrackInv, Receive PROVE TrackInv'
    OBVIOUS
  <1> DEFINE a == CardDoes(cards[task.uid], air, auths + 1)
             ins == Here.ins
             lost == [task EXCEPT !.quiet = FALSE]
  <1>1. /\ At("exchange") /\ task.sub = 1 /\ task.op # "none" /\ DOMAIN task = TaskFields
        /\ task.uid \in Cards /\ DOMAIN cards = Cards /\ macKey' = macKey
    BY DEF Receive, At, LeafInv, Shapes
  <1>2. Carry(a) \/ cards' = cards
    BY DEF Receive
  <1>3. SameMacs
    <2>1. CASE Carry(a)
      <3>1. \E no : SessionEffect(Here.ins, no, auths + 1, cards[task.uid], a)
        BY <1>1, ExchangeActs
      <3>2. a.card.macs = cards[task.uid].macs
        BY <3>1 DEF SessionEffect
      <3> HIDE DEF a
      <3>3. cards' = [cards EXCEPT ![task.uid] = a.card]
        BY <2>1 DEF Carry
      <3> QED  BY <1>1, <3>2, <3>3 DEF SameMacs
    <2>2. CASE cards' = cards
      BY <2>2 DEF SameMacs
    <2> QED  BY <1>2, <2>1, <2>2
  <1>4. ASSUME NEW t, t \in {lost, task}, Failed(ins, t), t = lost \/ ~Undisturbed
        PROVE  TrackInv'
    <2>1. t.op = task.op /\ t.uid = task.uid
      BY <1>1, <1>4 DEF TaskFields
    <2>2. ~(t.op = "write" /\ t.quiet /\ t.alone /\ "empty" \notin cards[t.uid].macs)
      BY <1>1, <1>4 DEF Undisturbed, TaskFields
    <2>3. cards'[t.uid].macs = cards[t.uid].macs
      BY <1>1, <1>3, <2>1 DEF SameMacs
    <2>4. CASE Finish(t, FALSE)
      BY <1>1, <2>1, <2>2, <2>3, <2>4, FinishTracks
    <2>5. CASE task' = Step(t) /\ result' = result
      <3>1. /\ task'.op = t.op /\ task'.uid = t.uid /\ task'.quiet = t.quiet
            /\ task'.alone = t.alone
        BY <1>1, <1>4, <2>5 DEF Step, TaskFields
      <3>2. ~Undisturbed'
        BY <2>2, <2>3, <3>1 DEF Undisturbed
      <3> QED  BY <1>3, <2>5, <3>2, OffTrack
    <2> QED  BY <1>4, <2>4, <2>5 DEF Failed
  <1>5. CASE Failed(ins, lost)
    BY <1>4, <1>5
  <1>6. CASE Carry(a) /\ Answered(ins, a)
    <2>1. CASE Undisturbed
      BY <1>1, <1>3, <1>6, <2>1, WriteAnswered
    <2>2. CASE ~Undisturbed
      <3> DEFINE r == [task EXCEPT !.rnd = IF ins = "AUTH1" THEN a.card.pend.rnd ELSE @,
                                   !.data = a.data]
      <3>1. Failed(ins, task) \/ Proceed(r)
        BY <1>6 DEF Answered
      <3>2. CASE Failed(ins, task)
        BY <1>4, <2>2, <3>2
      <3>3. CASE Proceed(r)
        <4>1. /\ DOMAIN r = TaskFields /\ r.op = task.op /\ r.uid = task.uid
              /\ r.quiet = task.quiet /\ r.alone = task.alone
          BY <1>1 DEF TaskFields
        <4> HIDE DEF r
        <4>2. CASE Finish(r, TRUE)
          BY <1>1, <4>1, <4>2, FinishTracks
        <4>3. CASE task' = Step(r) /\ result' = result
          <5>1. /\ task'.op = task.op /\ task'.uid = task.uid
                /\ task'.quiet = task.quiet /\ task'.alone = task.alone
            BY <4>1, <4>3 DEF Step, TaskFields
          <5>2. ~Undisturbed'
            BY <1>1, <1>3, <2>2, <5>1 DEF Undisturbed, SameMacs
          <5> QED  BY <1>3, <4>3, <5>2, OffTrack
        <4> QED  BY <3>3, <4>2, <4>3 DEF Proceed
      <3> QED  BY <3>1, <3>2, <3>3
    <2> QED  BY <2>1, <2>2
  <1> QED  BY <1>5, <1>6 DEF Receive

LEMMA StepTracks == LeafInv /\ CountInv /\ TrackInv /\ [Next]_vars => TrackInv'
  <1> SUFFICES ASSUME LeafInv, CountInv, TrackInv, [Next]_vars PROVE TrackInv'
    OBVIOUS
  <1>1. CASE \E c \in Cards : Start(c, "read", None)
    BY <1>1, StartTracks
  <1>2. CASE \E c \in Cards, cred \in Creds : Start(c, "write", cred)
    BY <1>2, StartTracks
  <1>3. CASE Remove \/ (\E k \in SiteKeys : SetSiteKey(k)) \/ TestSwapIn \/ TestSwapOut
    BY <1>3, OthersTrack
  <1>4. CASE Reboot
    BY <1>4, RebootTracks
  <1>5. CASE Access
    BY <1>5, LoadSiteTracks, MacSwapInTracks, MacComputeTracks, MacSwapOutTracks,
       EstablishedTracks, SendTracks, ReceiveTracks DEF Access
  <1>6. CASE UNCHANGED vars
    <2>1. /\ cards' = cards /\ task' = task /\ ses' = ses /\ macKey' = macKey /\ air' = air
          /\ result' = result
      BY <1>6 DEF vars, others
    <2>2. Here' = Here
      BY <2>1 DEF Here
    <2>3. (CardReady' <=> CardReady) /\ (Handshaking' <=> Handshaking)
      BY <2>1 DEF CardReady, Handshaking, AuthKey
    <2>4. SessionMacKey' = SessionMacKey
      BY <2>1, <2>2 DEF SessionMacKey
    <2>5. (SameSession' <=> SameSession) /\ (CommandGenuine' <=> CommandGenuine)
      BY <2>1, <2>2, <2>4 DEF SameSession, CommandGenuine, At
    <2>6. OnTrack'
      BY <2>1, <2>3, <2>5 DEF TrackInv, OnTrack, Undisturbed
    <2> QED  BY <2>1, <2>6, ResultStays DEF TrackInv, SameMacs
  <1> QED  BY <1>1, <1>2, <1>3, <1>4, <1>5, <1>6 DEF Next

\* A card can be personalised whatever state earlier accesses, cut short anywhere, left it
\* in: a write (leaf_personalize) that nothing disturbs succeeds, if the card sends no MAC
\* after a bare status.
THEOREM CleanWritesSucceed == Spec => []CleanWriteSucceeds
  <1>1. Init => LeafInv /\ CountInv /\ TrackInv
    BY InitLeaf, InitCounts, InitTracks
  <1>2. LeafInv /\ CountInv /\ TrackInv /\ [Next]_vars => (LeafInv /\ CountInv /\ TrackInv)'
    BY StepKeepsLeaf, StepCounts, StepTracks
  <1>3. TrackInv => CleanWriteSucceeds
    BY DEF TrackInv
  <1> QED  BY <1>1, <1>2, <1>3, PTL DEF Spec

=============================================================================
