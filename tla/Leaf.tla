-------------------------------- MODULE Leaf --------------------------------
(***************************************************************************)
(* Reading and personalising LEAF cards: components/leaf/leaf.c over       *)
(* components/desfire, run by the NFC task on the card in the field, while *)
(* the console and web tasks replace the site key and run the self test.   *)
(*                                                                         *)
(* leaf_read and leaf_personalize are sequences of instructions: to load   *)
(* the site key, to compute a CMAC, or to exchange one command with the    *)
(* card.  desfire_cmac takes its key from the global                       *)
(* g_session_mac_key_full, and whoever needs another key swaps it in and   *)
(* back; so a CMAC is three steps, and an exchange two, between which      *)
(* other tasks run.  A card can be taken away, and a command or its answer *)
(* lost, at any exchange.                                                  *)
(***************************************************************************)
EXTENDS DesfireCard, Sequences, FiniteSets

CONSTANTS
    Cards,       \* cards; a card is its UID
    None,        \* no card
    Creds,       \* credentials to be enrolled
    SiteKeys,    \* site keys a user sets
    MaxOps,      \* bound: accesses to cards
    MaxFaults,   \* bound: commands or answers lost, and cards taken away in an access
    MaxKeySets,  \* bound: changes of the site key
    MaxTests,    \* bound: self tests of the console
    MaxReboot    \* bound: restarts of the reader

ASSUME LeafAssumption ==
    /\ None \notin Cards
    /\ {Default, NoKey} \cap SiteKeys = {} /\ Default # NoKey /\ SiteKeys # {}
    /\ {MaxOps, MaxFaults, MaxKeySets, MaxTests, MaxReboot} \subseteq Nat

VARIABLES
    siteKey,     \* NVS "site_key"
    cards,       \* every card
    task,        \* the NFC task: its access, the instruction it is at, its locals
    ses,         \* g_session
    macKey,      \* g_session_mac_key_full
    air,         \* the command being exchanged
    console,     \* the console task in leaf_payload_mac of its self test: where, and saved[]
    \* history
    promised,    \* per card: the write last reported as done
    result,      \* how the last access ended
    auths,       \* number of authentications begun; a random number is its number
    used         \* uses of the bounds

others == <<siteKey, cards, console, promised, auths>>
vars == <<others, task, ses, macKey, air, result, used>>

Stimuli == {"op", "fault", "keyset", "test", "reboot"}

Use(s, max) ==
    /\ used[s] < max
    /\ used' = [used EXCEPT ![s] = @ + 1]

-----------------------------------------------------------------------------
(* The two flows                                                           *)

\* `key' names one of the task's keys, `dst' what the result becomes.
Load == [do |-> "load"]
Mac(key, tag, dst) == [do |-> "mac", key |-> key, tag |-> tag, dst |-> dst]
Exchange(ins, no, key) == [do |-> "exchange", ins |-> ins, no |-> no, key |-> key]
Select(aid) == [do |-> "exchange", ins |-> "SELECT", no |-> aid, key |-> "zero"]
Establish(no) == [do |-> "establish", no |-> no]

\* desfire_auth_ev2_first, with derive_session_keys.
Auth(no, key) ==
    <<Exchange("AUTH1", no, key), Exchange("AUTH2", no, key),
      Mac(key, "sv1", "kenc"), Mac(key, "sv2", "kmac"), Establish(no)>>

ReadFlow ==
    <<Load, Mac("site", "div", "kdiv"), Select("leaf")>>
    \o Auth(1, "kdiv")
    \o <<Exchange("READ", 0, "zero"), Mac("kdiv", "cred", "mac8")>>

\* Defect: the credential is written with the file, before the keys are changed.
WriteFlow_DataFirst ==
    <<Load, Mac("site", "div", "kdiv"), Select("picc")>>
    \o Auth(0, "zero")
    \o <<Exchange("FORMAT", 0, "zero"), Exchange("CREATE_APP", 0, "zero"), Select("leaf")>>
    \o Auth(0, "zero")
    \o <<Exchange("CREATE_FILE", 0, "zero"), Mac("site", "mst", "kmst"),
         Mac("kdiv", "cred", "mac8"), Exchange("WRITE", 0, "zero"),
         Exchange("CHANGE_KEY", 1, "kdiv"), Exchange("CHANGE_KEY", 0, "kmst")>>

\* Defect: the card is not formatted.
WriteFlow_NoFormat ==
    <<Load, Mac("site", "div", "kdiv"), Select("picc")>>
    \o Auth(0, "zero")
    \o <<Exchange("CREATE_APP", 0, "zero"), Select("leaf")>>
    \o Auth(0, "zero")
    \o <<Exchange("CREATE_FILE", 0, "zero"), Mac("site", "mst", "kmst"),
         Exchange("CHANGE_KEY", 1, "kdiv"), Exchange("CHANGE_KEY", 0, "kmst")>>
    \o Auth(0, "kmst")
    \o <<Mac("kdiv", "cred", "mac8"), Exchange("WRITE", 0, "zero")>>

WriteFlow ==
    <<Load, Mac("site", "div", "kdiv"), Select("picc")>>
    \o Auth(0, "zero")
    \o <<Exchange("FORMAT", 0, "zero"), Exchange("CREATE_APP", 0, "zero"), Select("leaf")>>
    \o Auth(0, "zero")
    \o <<Exchange("CREATE_FILE", 0, "zero"), Mac("site", "mst", "kmst"),
         Exchange("CHANGE_KEY", 1, "kdiv"), Exchange("CHANGE_KEY", 0, "kmst")>>
    \o Auth(0, "kmst")
    \o <<Mac("kdiv", "cred", "mac8"), Exchange("WRITE", 0, "zero")>>

Flow(op) == IF op = "read" THEN ReadFlow ELSE WriteFlow

-----------------------------------------------------------------------------

KeyNames == {"zero", "site", "kdiv", "kmst", "kenc", "kmac", "mac8"}
Keys0 == [k \in KeyNames |-> IF k = "zero" THEN Default ELSE NoKey]

\* quiet: nothing has disturbed the access; alone: no self test ran into it.
Idle == [op |-> "none", uid |-> None, pc |-> 1, sub |-> 0, k |-> Keys0, saved |-> NoKey,
         cred |-> None, rnd |-> 0, data |-> NoPayload, quiet |-> TRUE, alone |-> TRUE,
         gone |-> FALSE]
NoSes == [authenticated |-> FALSE, no |-> 0, ctr |-> 0, ti |-> 0, kenc |-> NoKey, kmac |-> NoKey]
NoAir == Command("none", <<>>, NoKey)
NoResult == [op |-> "none"]
NoPromise == [site |-> NoKey, cred |-> None, alone |-> FALSE]
ConsoleIdle == [at |-> "none", saved |-> NoKey]

\* app_main has provisioned a site key; the globals are zero.
Init ==
    /\ siteKey \in SiteKeys
    /\ \E m \in SUBSET {"empty", "data"} : cards = [c \in Cards |-> FactoryCard(m)]
    /\ task = Idle /\ ses = NoSes /\ macKey = Default /\ air = NoAir
    /\ console = ConsoleIdle
    /\ promised = [c \in Cards |-> NoPromise] /\ result = NoResult /\ auths = 0
    /\ used = [s \in Stimuli |-> 0]

Here == Flow(task.op)[task.pc]
At(do) == task.op # "none" /\ Here.do = do

Step(t) == [t EXCEPT !.pc = @ + 1, !.sub = 0]

-----------------------------------------------------------------------------
(* Cards and users                                                         *)

\* A presentation, in the mode the reader is in; the driver has powered the card up.
Start(c, op, cred) ==
    /\ task.op = "none"
    /\ Use("op", MaxOps)
    /\ task' = [Idle EXCEPT !.op = op, !.uid = c, !.cred = cred, !.alone = (console = ConsoleIdle)]
    /\ cards' = [cards EXCEPT ![c] = PoweredUp(@)]
    /\ promised' = [promised EXCEPT ![c] = IF op = "write" THEN NoPromise ELSE @]
    /\ result' = NoResult
    /\ UNCHANGED <<siteKey, console, auths, ses, macKey, air>>

\* The card is taken away; the reader goes on sending to it.
Remove ==
    /\ task.op # "none" /\ ~task.gone
    /\ Use("fault", MaxFaults)
    /\ task' = [task EXCEPT !.quiet = FALSE, !.gone = TRUE]
    /\ UNCHANGED <<others, ses, macKey, air, result>>

\* leaf_set_site_key, by "key set" or {"cmd":"key_set"}.  An access reads the key at its
\* start only: a change in the middle is one between accesses.
SetSiteKey(k) ==
    /\ task.op = "none" /\ k # siteKey
    /\ Use("keyset", MaxKeySets)
    /\ siteKey' = k
    /\ UNCHANGED <<cards, console, promised, auths, task, ses, macKey, air, result>>

\* esp_restart: RAM is lost, the field goes off.
Reboot ==
    /\ Use("reboot", MaxReboot)
    /\ task' = Idle /\ ses' = NoSes /\ macKey' = Default /\ air' = NoAir
    /\ console' = ConsoleIdle /\ result' = NoResult
    /\ UNCHANGED <<siteKey, cards, promised, auths>>

-----------------------------------------------------------------------------
(* The self test: leaf_payload_mac with a zero key, in the console task    *)

TestSwapIn ==
    /\ console.at = "none"
    /\ Use("test", MaxTests)
    /\ console' = [at |-> "in", saved |-> macKey]
    /\ macKey' = Default
    /\ task' = [task EXCEPT !.alone = (task.op = "none")]
    /\ UNCHANGED <<siteKey, cards, promised, auths, ses, air, result>>

TestSwapOut ==
    /\ console.at = "in"
    /\ macKey' = console.saved
    /\ console' = ConsoleIdle
    /\ task' = [task EXCEPT !.alone = @ /\ task.op = "none"]
    /\ UNCHANGED <<siteKey, cards, promised, auths, ses, air, result, used>>

-----------------------------------------------------------------------------
(* The access                                                              *)

\* What a failed or completed access leaves: its event, and nfc_release.
Finish(t, ok) ==
    /\ task' = Idle
    /\ result' = [op |-> t.op, uid |-> t.uid, ok |-> ok,
                  quiet |-> t.quiet, alone |-> t.alone]
    /\ promised' = IF ok /\ t.op = "write"
                   THEN [promised EXCEPT ![t.uid] = [site |-> t.k["site"], cred |-> t.cred,
                                                     alone |-> t.alone]]
                   ELSE promised

\* The next instruction, or the end of the flow.
Proceed(t) ==
    IF t.pc = Len(Flow(t.op)) THEN Finish(t, TRUE)
    ELSE task' = Step(t) /\ UNCHANGED <<result, promised>>

\* leaf_get_site_key
LoadSite ==
    /\ At("load")
    /\ Proceed([task EXCEPT !.k["site"] = siteKey])
    /\ UNCHANGED <<siteKey, cards, console, auths, ses, macKey, air, used>>

\* What is MACed: the diversification inputs, the session vectors, a credential.
MacInput(tag) ==
    CASE tag \in {"div", "mst"} -> <<tag, task.uid>>
      [] tag \in {"sv1", "sv2"} -> <<tag, task.rnd>>
      [] tag = "cred" -> <<tag, IF task.op = "read" THEN task.data[1] ELSE task.cred>>

\* leaf_diversify_key, leaf_payload_mac, cmac_with_key: save and set the key, compute,
\* restore it.
MacSwapIn ==
    /\ At("mac") /\ task.sub = 0
    /\ task' = [task EXCEPT !.saved = macKey, !.sub = 1]
    /\ macKey' = task.k[Here.key]
    /\ UNCHANGED <<others, ses, air, result, used>>

MacCompute ==
    /\ At("mac") /\ task.sub = 1
    /\ task' = [task EXCEPT !.k[Here.dst] = Sealed(macKey, MacInput(Here.tag)), !.sub = 2]
    /\ UNCHANGED <<others, ses, macKey, air, result, used>>

\* leaf_read ends with the MAC of the credential it has read, and compares it.
MacSwapOut ==
    /\ At("mac") /\ task.sub = 2
    /\ macKey' = task.saved
    /\ IF task.pc = Len(Flow(task.op))
       THEN Finish(task, task.k["mac8"] = task.data[2])
       ELSE task' = Step([task EXCEPT !.saved = NoKey]) /\ UNCHANGED <<result, promised>>
    /\ UNCHANGED <<siteKey, cards, console, auths, ses, air, used>>

\* The session is taken over at the end of desfire_auth_ev2_first.
Established ==
    /\ At("establish")
    /\ ses' = [authenticated |-> TRUE, no |-> Here.no, ctr |-> 0, ti |-> task.rnd,
               kenc |-> task.k["kenc"], kmac |-> task.k["kmac"]]
    /\ macKey' = task.k["kmac"]
    /\ task' = Step(task)
    /\ UNCHANGED <<others, air, result, used>>

\* The secured commands, which are refused without a session.
Secured == {"FORMAT", "CREATE_APP", "CREATE_FILE", "CHANGE_KEY", "WRITE", "READ"}

\* desfire_change_key: the other key's change also carries the old key, the factory key.
ChangeBlob(no, new) ==
    Sealed(ses.kenc, IF no = ses.no THEN <<new>> ELSE <<new, Default>>)

Argument(i) ==
    CASE i.ins = "AUTH2" -> Sealed(task.k[i.key], <<"rnd", task.rnd>>)
      [] i.ins = "CHANGE_KEY" -> <<i.no, ChangeBlob(i.no, task.k[i.key])>>
      [] i.ins = "WRITE" -> <<task.cred, task.k["mac8"]>>
      [] OTHER -> i.no

\* The command goes out, with the MAC of cmac_append_and_send or desfire_change_key.
Send ==
    /\ At("exchange") /\ task.sub = 0
    /\ IF Here.ins \in Secured /\ ~ses.authenticated
       THEN Finish(task, FALSE) /\ UNCHANGED air
       ELSE /\ task' = [task EXCEPT !.sub = 1]
            /\ air' = Command(Here.ins, Argument(Here),
                         IF Here.ins \in Secured
                         THEN CommandMac(macKey, Here.ins, Argument(Here), ses.ctr, ses.ti)
                         ELSE NoKey)
            /\ UNCHANGED <<result, promised>>
    /\ UNCHANGED <<siteKey, cards, console, auths, ses, macKey, used>>

\* Room for the answer's data in the buffer the caller of desfire_xfer gives.
Room(ins) ==
    CASE ins \in {"AUTH1", "AUTH2"} -> 64
      [] ins = "CHANGE_KEY" -> 16
      [] ins = "READ" -> FileSize
      [] OTHER -> 0

\* desfire_xfer and its callers: an answer that fits, with the status that is expected.
Accepted(ins, a) ==
    /\ a.len <= Room(ins)
    /\ a.st \in IF ins = "AUTH1" THEN {"MORE"} ELSE {"OK"}

\* Defect: the counter is left as it is after a key was changed.
SessionAfter_NoCount(ins, no) ==
    CASE ins = "SELECT" -> [ses EXCEPT !.authenticated = FALSE, !.ctr = 0]
      [] ins = "CHANGE_KEY" -> [ses EXCEPT !.authenticated = @ /\ no # ses.no]
      [] ins \in Secured \ {"CHANGE_KEY"} -> [ses EXCEPT !.ctr = @ + 1]
      [] OTHER -> ses

\* The session after an answer was accepted.
SessionAfter(ins, no) ==
    CASE ins = "SELECT" -> [ses EXCEPT !.authenticated = FALSE, !.ctr = 0]
      [] ins = "CHANGE_KEY" /\ no = ses.no -> [ses EXCEPT !.authenticated = FALSE]
      [] ins \in Secured /\ (ins = "CHANGE_KEY" => no # ses.no) -> [ses EXCEPT !.ctr = @ + 1]
      [] OTHER -> ses

\* The answer's MAC, over the counter that has moved on, where the caller looks for one.
Authentic(ins, a, s) ==
    (ins = "READ" \/ (ins = "CHANGE_KEY" /\ s.authenticated)) /\ a.len >= MacLen
      => a.mac = AnswerMac(macKey, s.ctr, s.ti)

\* leaf_read wants the whole file, without the MAC that is stripped off.
Complete(ins, a) == ins = "READ" => a.len - MacLen = FileSize

\* Defect: a key change without a usable answer is not noticed either.
Failed_KeyChangeIgnored(ins, t) ==
    IF ins \in {"FORMAT", "CHANGE_KEY"}
    THEN task' = Step(t) /\ UNCHANGED <<result, promised>>
    ELSE Finish(t, FALSE)

\* Nothing usable came back: the access fails, but for a card that is not formatted.
Failed(ins, t) ==
    IF ins = "FORMAT" THEN task' = Step(t) /\ UNCHANGED <<result, promised>> ELSE Finish(t, FALSE)

\* The answer a arrives.
Answered(ins, a) ==
    LET s == IF Accepted(ins, a) THEN SessionAfter(ins, Here.no) ELSE ses IN
    /\ ses' = s
    /\ IF Accepted(ins, a) /\ Authentic(ins, a, s) /\ Complete(ins, a)
       THEN Proceed([task EXCEPT !.rnd = IF ins = "AUTH1" THEN a.card.pend.rnd ELSE @,
                                 !.data = a.data])
       ELSE Failed(ins, task)

Carry(a) ==
    /\ cards' = [cards EXCEPT ![task.uid] = a.card]
    /\ auths' = IF a.card.pend.rnd > auths THEN auths + 1 ELSE auths

\* The rest of the exchange: the card acts and its answer arrives, or either is lost.
Receive ==
    /\ At("exchange") /\ task.sub = 1
    /\ air' = NoAir
    /\ \/ /\ ~task.gone
          /\ LET a == CardDoes(cards[task.uid], air, auths + 1) IN
             /\ Carry(a)
             /\ Answered(Here.ins, a)
          /\ UNCHANGED used
       \/ /\ ~task.gone
          /\ Use("fault", MaxFaults)
          /\ Carry(CardDoes(cards[task.uid], air, auths + 1))
          /\ Failed(Here.ins, [task EXCEPT !.quiet = FALSE])
          /\ UNCHANGED ses
       \/ /\ IF task.gone THEN UNCHANGED used ELSE Use("fault", MaxFaults)
          /\ Failed(Here.ins, [task EXCEPT !.quiet = FALSE])
          /\ UNCHANGED <<ses, cards, auths>>
    /\ UNCHANGED <<siteKey, console, macKey>>

-----------------------------------------------------------------------------

Access == LoadSite \/ MacSwapIn \/ MacCompute \/ MacSwapOut \/ Established \/ Send \/ Receive

Next ==
    \/ \E c \in Cards : Start(c, "read", None)
    \/ \E c \in Cards, cred \in Creds : Start(c, "write", cred)
    \/ Remove
    \/ \E k \in SiteKeys : SetSiteKey(k)
    \/ Reboot
    \/ TestSwapIn
    \/ TestSwapOut
    \/ Access

Spec == Init /\ [][Next]_vars

-----------------------------------------------------------------------------
(* Properties                                                              *)

\* What a reader that holds the site key finds on a card that was written with cred.
Diversified(site, tag, c) == Sealed(site, <<tag, c>>)
Holds(c, site, cred) ==
    LET kdiv == Diversified(site, "div", c) IN
    /\ cards[c].app /\ cards[c].file
    /\ cards[c].key = [n \in 0..1 |-> IF n = 0 THEN Diversified(site, "mst", c) ELSE kdiv]
    /\ cards[c].data = <<cred, Sealed(kdiv, <<"cred", cred>>)>>

\* A write that was reported as done left the whole credential on the card, under the keys of
\* the site key it began with, and it stays there until the card is personalised again:
\* whatever was lost on the way, whatever earlier attempts left behind.
WrittenIsHeld ==
    \A c \in Cards : promised[c] # NoPromise /\ promised[c].alone
                       => Holds(c, promised[c].site, promised[c].cred)

\* A card can be personalised whatever state earlier accesses, cut short anywhere, left it
\* in: an access that nothing disturbs succeeds, if the card sends no MAC after a bare status.
CleanWriteSucceeds ==
    result.op = "write" /\ result.quiet /\ result.alone
      => result.ok \/ "empty" \in cards[result.uid].macs

\* A credential is never on a card that still has a factory key in the application.
DataUnderOurKeys ==
    \A c \in Cards : cards[c].data # NoPayload => \A n \in 0..1 : cards[c].key[n] # Default

\* Reader and card count the commands of their session alike, unless an answer was lost or
\* did not fit.
CountersAgree ==
    task.op # "none" /\ task.quiet /\ task.sub = 0 /\ ses.authenticated =>
        LET c == cards[task.uid] IN
        c.ses.ti = ses.ti /\ "empty" \notin c.macs => c.ses.ctr = ses.ctr
=============================================================================
