----------------------------- MODULE ReaderCore -----------------------------
(***************************************************************************)
(* The reader's own tasks around the mode controller: the NFC task, the    *)
(* console and web tasks that set the mode and queue enrolments, the OSDP  *)
(* task that forwards card reads to libosdp, the indicator task, and the   *)
(* event bus between them (components/reader_core/mode_controller.c,       *)
(* main/nfc_task.c, main/osdp_pd.c, components/app_console/console.c,      *)
(* components/webui/webui.c, components/board/board_io.c).                 *)
(*                                                                         *)
(* mode_set() is three separate effects (exchange s_mode, board_indicate,  *)
(* post the event) and mode_post_event() one xQueueSend per subscriber;    *)
(* each is a step here, so that tasks interleave between them.             *)
(***************************************************************************)
EXTENDS Indicator, Integers, Sequences

CONSTANTS
    Uis,         \* tasks that take user commands: the console, httpd
    Subs,        \* the subscribers, in the order of their slots in s_subs
    QueueLen,    \* length of a subscriber's queue (8 in mode_subscribe)
    MaxAccess,   \* bound: card accesses (a presentation that is reported)
    MaxEnrol,    \* bound: enrolment commands
    MaxCommands, \* bound: mode commands of the user interfaces
    MaxButton,   \* bound: button releases
    MaxPanel,    \* bound: LED commands and online changes at the OSDP task
    MaxReboot    \* bound: restarts (reboot command, factory reset, power cycle)

Modes == {"IDLE", "READ", "WRITE"}
OSDP  == "osdp"
NFC   == "nfc"
Tasks == Uis \cup {NFC, OSDP}
Subscribers == {Subs[i] : i \in DOMAIN Subs}

NoCred == 0     \* no credential; as a write, the dummy of nfc_task.c

ASSUME CoreAssumption ==
    /\ NFC \notin Uis /\ OSDP \notin Uis
    /\ Subs \in Seq(STRING)
    /\ \A i, j \in DOMAIN Subs : Subs[i] = Subs[j] => i = j
    /\ QueueLen \in Nat \ {0}
    /\ {MaxAccess, MaxEnrol, MaxCommands, MaxButton, MaxPanel, MaxReboot}
         \subseteq Nat

\* osdp_task subscribes before anything else.
ASSUME OsdpSubscribed == OSDP \in Subscribers

VARIABLES
    mode,        \* s_mode
    request,     \* s_write_req: the pending credential's number, or NoCred
    button,      \* s_button_event
    frame,       \* per task: its activation of mode_set or mode_post_event
    queue,       \* per subscriber: its queue
    drops,       \* per subscriber: events dropped because the queue was full
    nfc,         \* the NFC task: where it is, the mode it sampled, its credential
    \* history
    reads,       \* number of successful reads; a read credential is its number
    panel,       \* credentials submitted to libosdp, in order
    enrolled,    \* number of enrolment commands; a request is its number
    written,     \* credentials written to cards, in order
    used         \* uses of the other bounded stimuli

busVars   == <<queue, drops>>
histVars  == <<reads, panel, enrolled, written>>
vars == <<mode, request, button, frame, busVars, nfc, indVars, histVars, used>>

Kinds == {"READ_OK", "READ_FAIL", "WRITE_OK", "WRITE_FAIL", "MODE_CHANGED"}
Events == [kind : Kinds, mode : Modes, cred : Nat]
Event(k, m, c) == [kind |-> k, mode |-> m, cred |-> c]

\* What a task has left to do of the mode_set or mode_post_event it is in.
NoFrame     == [at |-> "none"]
ExchangeTo(m) == [at |-> "exchange", mode |-> m]
IndicateOf(m) == [at |-> "indicate", mode |-> m]
RestoreOf(m)  == [at |-> "restore", mode |-> m]
PostOf(e, p) == [at |-> "post", ev |-> e, slot |-> 1, after |-> p]
Frames ==
    {NoFrame} \cup [at : {"exchange", "indicate", "restore"}, mode : Modes]
    \cup [at : {"post"}, ev : Events, slot : 1..(Len(Subs) + 1),
          after : Patterns \cup {NotPlaying}]

NfcAt == {"dead", "poll", "find", "sample", "read", "take", "write"}
Stimuli == {"command", "button", "panel", "access", "reboot"}

TypeOK ==
    /\ mode \in Modes
    /\ request \in Nat
    /\ button \in {"NONE", "SHORT", "LONG"}
    /\ frame \in [Tasks -> Frames]
    /\ queue \in [Subscribers -> Seq(Events)]
    /\ drops \in [Subscribers -> Nat]
    /\ nfc \in [at : NfcAt, mode : Modes, cred : Nat]
    /\ IndTypeOK
    /\ reads \in Nat
    /\ panel \in Seq(Nat)
    /\ enrolled \in Nat
    /\ written \in Seq(Nat)
    /\ used \in [Stimuli -> Nat]

\* What RAM holds after app_main: nfc_init has succeeded, or the NFC task is dead.
\* mode_init calls mode_set(IDLE), which changes nothing.
NfcAtPoll == [at |-> "poll", mode |-> "IDLE", cred |-> NoCred]
NfcBoot == {NfcAtPoll, [NfcAtPoll EXCEPT !.at = "dead"]}
FrameBoot == [t \in Tasks |-> NoFrame]
QueueBoot == [s \in Subscribers |-> <<>>]
DropsBoot == [s \in Subscribers |-> 0]

Init ==
    /\ mode = "IDLE" /\ request = NoCred /\ button = "NONE"
    /\ frame = FrameBoot /\ queue = QueueBoot /\ drops = DropsBoot
    /\ nfc \in NfcBoot
    /\ IndInit
    /\ reads = 0 /\ panel = <<>>
    /\ enrolled = 0 /\ written = <<>>
    /\ used = [s \in Stimuli |-> 0]

Use(s, max) ==
    /\ used[s] < max
    /\ used' = [used EXCEPT ![s] = @ + 1]

-----------------------------------------------------------------------------
(* mode_set and mode_post_event, as activations of the calling task        *)

IndicatorOf(m) ==
    CASE m = "IDLE"  -> "IND_IDLE"
      [] m = "READ"  -> "IND_ARMED_READ"
      [] m = "WRITE" -> "IND_ARMED_WRITE"

\* atomic_exchange; a mode that does not change has no further effect.
ModeExchange(t) ==
    /\ frame[t].at = "exchange"
    /\ mode' = frame[t].mode
    /\ frame' = [frame EXCEPT ![t] = IF mode = @.mode THEN NoFrame ELSE IndicateOf(@.mode)]
    /\ UNCHANGED <<request, button, busVars, nfc, indVars, histVars, used>>

ModeIndicate(t) ==
    /\ frame[t].at = "indicate"
    /\ board_indicate(IndicatorOf(frame[t].mode))
    /\ frame' = [frame EXCEPT ![t] = PostOf(Event("MODE_CHANGED", @.mode, NoCred), NotPlaying)]
    /\ UNCHANGED <<mode, request, button, busVars, nfc, histVars, used>>

\* Defect: a full queue drops the event without counting it.
Deliver_Uncounted(s, e) ==
    /\ queue' = IF Len(queue[s]) < QueueLen THEN [queue EXCEPT ![s] = Append(@, e)] ELSE queue
    /\ UNCHANGED drops

\* xQueueSend with a zero timeout: a full queue drops the event.
Deliver(s, e) ==
    IF Len(queue[s]) < QueueLen
    THEN /\ queue' = [queue EXCEPT ![s] = Append(@, e)]
         /\ UNCHANGED drops
    ELSE /\ drops' = [drops EXCEPT ![s] = @ + 1]
         /\ UNCHANGED queue

PostSlot(t) ==
    /\ frame[t].at = "post"
    /\ frame[t].slot \in DOMAIN Subs
    /\ Deliver(Subs[frame[t].slot], frame[t].ev)
    /\ frame' = [frame EXCEPT ![t].slot = @ + 1]
    /\ UNCHANGED <<mode, request, button, nfc, indVars, histVars, used>>

\* The loop over the subscribers ends; the NFC task then calls board_indicate.
PostDone(t) ==
    /\ frame[t].at = "post"
    /\ frame[t].slot \notin DOMAIN Subs
    /\ IF frame[t].after = NotPlaying
       THEN UNCHANGED indVars
       ELSE board_indicate(frame[t].after)
    /\ frame' = [frame EXCEPT ![t] = NoFrame]
    /\ UNCHANGED <<mode, request, button, busVars, nfc, histVars, used>>

-----------------------------------------------------------------------------
(* The console and web tasks                                               *)

\* "mode <m>" of the console, {"cmd":"mode"} of the web socket.
UiMode(t, m) ==
    /\ frame[t] = NoFrame
    /\ Use("command", MaxCommands)
    /\ frame' = [frame EXCEPT ![t] = ExchangeTo(m)]
    /\ UNCHANGED <<mode, request, button, busVars, nfc, indVars, histVars>>

\* Both run under the spin lock.  A pending request is replaced; one that is taken is no
\* longer pending.
mode_set_write_request(c) == request' = c
mode_take_write_request == request' = NoCred

\* "enroll": mode_set_write_request, then mode_set(WRITE).
UiEnroll(t) ==
    /\ frame[t] = NoFrame
    /\ enrolled < MaxEnrol
    /\ enrolled' = enrolled + 1
    /\ mode_set_write_request(enrolled + 1)
    /\ frame' = [frame EXCEPT ![t] = ExchangeTo("WRITE")]
    /\ UNCHANGED <<mode, button, busVars, nfc, indVars, reads, panel, written,
                   used>>

\* button_task latches a release; a latch not yet polled is overwritten.
ButtonRelease(b) ==
    /\ Use("button", MaxButton)
    /\ button' = b
    /\ UNCHANGED <<mode, request, frame, busVars, nfc, indVars, histVars>>

-----------------------------------------------------------------------------
(* The NFC task                                                            *)

AtNfc(where) == nfc.at = where /\ frame[NFC] = NoFrame

\* The mode that a release b asks for in mode m.
Toggle(b, m) ==
    IF b = "SHORT" THEN IF m = "READ"  THEN "IDLE" ELSE "READ"
                   ELSE IF m = "WRITE" THEN "IDLE" ELSE "WRITE"

\* Defect: without its front end the NFC task clears the latch and does nothing about it.
NfcPoll_DropsWhenDead ==
    /\ AtNfc("poll") \/ AtNfc("dead")
    /\ button' = "NONE"
    /\ frame' = [frame EXCEPT ![NFC] = IF button = "NONE" \/ nfc.at = "dead" THEN NoFrame
                                       ELSE ExchangeTo(Toggle(button, mode))]
    /\ nfc' = [nfc EXCEPT !.at = IF @ = "poll" THEN "find" ELSE "dead"]
    /\ UNCHANGED <<mode, request, busVars, indVars, histVars, used>>

\* board_button_poll, then mode_handle_button up to its mode_set.
NfcPoll ==
    /\ AtNfc("poll") \/ AtNfc("dead")
    /\ button' = "NONE"
    /\ frame' = [frame EXCEPT ![NFC] = IF button = "NONE" THEN NoFrame
                                       ELSE ExchangeTo(Toggle(button, mode))]
    /\ nfc' = [nfc EXCEPT !.at = IF @ = "poll" THEN "find" ELSE "dead"]
    /\ UNCHANGED <<mode, request, busVars, indVars, histVars, used>>

\* nfc_find_target and the presence edge detector (module NfcReader): either a
\* new presentation, or nothing new.
NfcFind ==
    /\ AtNfc("find")
    /\ \/ /\ Use("access", MaxAccess)
          /\ nfc' = [nfc EXCEPT !.at = "sample"]
       \/ /\ nfc' = [nfc EXCEPT !.at = "poll"]
          /\ UNCHANGED used
    /\ UNCHANGED <<mode, request, button, frame, busVars, indVars, histVars>>

\* The mode is read once per presentation; in IDLE the card is released.
NfcSample ==
    /\ AtNfc("sample")
    /\ nfc' = [nfc EXCEPT !.mode = mode,
                          !.at = CASE mode = "READ"  -> "read"
                                   [] mode = "WRITE" -> "take"
                                   [] OTHER          -> "poll"]
    /\ UNCHANGED <<mode, request, button, frame, busVars, indVars, histVars, used>>

\* The access ends with an event, then an indication, and the task polls again.
NfcReport(k, c, p) ==
    /\ frame' = [frame EXCEPT ![NFC] = PostOf(Event(k, nfc.mode, c), p)]
    /\ nfc' = NfcAtPoll

NfcRead ==
    /\ AtNfc("read")
    /\ \/ /\ reads' = reads + 1
          /\ NfcReport("READ_OK", reads + 1, "IND_GRANT")
       \/ /\ NfcReport("READ_FAIL", NoCred, "IND_DENY")
          /\ UNCHANGED reads
    /\ UNCHANGED <<mode, request, button, busVars, indVars, panel, enrolled,
                   written, used>>

\* Defect: the pending request is copied but not cleared.
NfcTake_KeepsPending ==
    /\ AtNfc("take")
    /\ nfc' = [nfc EXCEPT !.at = "write", !.cred = request]
    /\ UNCHANGED <<mode, request, button, frame, busVars, indVars, histVars, used>>

\* The request that is pending; without one, the dummy.
NfcTake ==
    /\ AtNfc("take")
    /\ nfc' = [nfc EXCEPT !.at = "write", !.cred = request]
    /\ mode_take_write_request
    /\ UNCHANGED <<mode, button, frame, busVars, indVars, histVars, used>>

\* leaf_personalize; it can fail before or after the card took the credential.
NfcWrite ==
    /\ AtNfc("write")
    /\ \/ /\ written' = Append(written, nfc.cred)
          /\ \/ NfcReport("WRITE_OK", nfc.cred, "IND_WROTE_OK")
             \/ NfcReport("WRITE_FAIL", NoCred, "IND_ERROR")
       \/ /\ NfcReport("WRITE_FAIL", NoCred, "IND_ERROR")
          /\ UNCHANGED written
    /\ UNCHANGED <<mode, request, button, busVars, indVars, reads, panel, enrolled,
                   used>>

-----------------------------------------------------------------------------
(* The OSDP task and the other consumers                                   *)

\* osdp_task reads the mode and posts it when the panel comes or goes.
OsdpOnlineChange ==
    /\ frame[OSDP] = NoFrame
    /\ Use("panel", MaxPanel)
    /\ frame' = [frame EXCEPT ![OSDP] = PostOf(Event("MODE_CHANGED", mode, NoCred), NotPlaying)]
    /\ UNCHANGED <<mode, request, button, busVars, nfc, indVars, histVars>>

\* pd_cmd_handler on an LED command: red and green are patterns of their own.
OsdpLed(p) ==
    /\ frame[OSDP] = NoFrame
    /\ Use("panel", MaxPanel)
    /\ board_indicate(p)
    /\ UNCHANGED <<mode, request, button, frame, busVars, nfc, histVars>>

\* Any other colour: mode_get, and then the pattern of the mode it returned.
OsdpLedNone ==
    /\ frame[OSDP] = NoFrame
    /\ Use("panel", MaxPanel)
    /\ frame' = [frame EXCEPT ![OSDP] = RestoreOf(mode)]
    /\ UNCHANGED <<mode, request, button, busVars, nfc, indVars, histVars>>

OsdpLedRestore(t) ==
    /\ frame[t].at = "restore"
    /\ board_indicate(IndicatorOf(frame[t].mode))
    /\ frame' = [frame EXCEPT ![t] = NoFrame]
    /\ UNCHANGED <<mode, request, button, busVars, nfc, histVars, used>>

\* The credential of the read becomes a card event of libosdp.  The result of
\* osdp_pd_submit_event is not looked at.
post_card_read(e) == panel' = Append(panel, e.cred)

\* Defect: the consumer looks at its next event without removing it.
Consume_Peek(s) ==
    /\ s = OSDP => frame[OSDP] = NoFrame
    /\ queue[s] # <<>>
    /\ LET e == Head(queue[s]) IN
       IF s = OSDP /\ e.kind = "READ_OK" THEN post_card_read(e) ELSE UNCHANGED panel
    /\ UNCHANGED <<mode, request, button, frame, busVars, nfc, indVars, reads,
                   enrolled, written, used>>

\* Defect: the consumer discards what it takes.
Consume_Discards(s) ==
    /\ s = OSDP => frame[OSDP] = NoFrame
    /\ queue[s] # <<>>
    /\ queue' = [queue EXCEPT ![s] = Tail(@)]
    /\ UNCHANGED <<mode, request, button, frame, drops, nfc, indVars, histVars, used>>

\* A consumer takes its next event; the OSDP task submits a good read to libosdp.
Consume(s) ==
    /\ s = OSDP => frame[OSDP] = NoFrame
    /\ queue[s] # <<>>
    /\ LET e == Head(queue[s]) IN
       IF s = OSDP /\ e.kind = "READ_OK" THEN post_card_read(e) ELSE UNCHANGED panel
    /\ queue' = [queue EXCEPT ![s] = Tail(@)]
    /\ UNCHANGED <<mode, request, button, frame, drops, nfc, indVars, reads,
                   enrolled, written, used>>

IndicatorStep ==
    /\ IndNext
    /\ UNCHANGED <<mode, request, button, frame, busVars, nfc, histVars, used>>

\* esp_restart, by the reboot command or the factory reset, or a power cycle.
Reboot ==
    /\ Use("reboot", MaxReboot)
    /\ mode' = "IDLE" /\ request' = NoCred /\ button' = "NONE"
    /\ frame' = FrameBoot /\ queue' = QueueBoot /\ drops' = DropsBoot
    /\ nfc' \in NfcBoot
    /\ pattern' = "IND_OFF" /\ resting' = "IND_IDLE" /\ playing' = NotPlaying
    /\ UNCHANGED <<reads, panel, enrolled, written>>

-----------------------------------------------------------------------------

TaskStep(t) ==
    ModeExchange(t) \/ ModeIndicate(t) \/ PostSlot(t) \/ PostDone(t) \/ OsdpLedRestore(t)

NfcStep == NfcPoll \/ NfcFind \/ NfcSample \/ NfcRead \/ NfcTake \/ NfcWrite

Next ==
    \/ \E t \in Tasks : TaskStep(t)
    \/ \E t \in Uis : \/ \E m \in Modes : UiMode(t, m)
                      \/ UiEnroll(t)
    \/ \E b \in {"SHORT", "LONG"} : ButtonRelease(b)
    \/ NfcStep
    \/ OsdpOnlineChange
    \/ \E p \in {"IND_DENY", "IND_GRANT"} : OsdpLed(p)
    \/ OsdpLedNone
    \/ \E s \in Subscribers : Consume(s)
    \/ IndicatorStep
    \/ Reboot

\* FreeRTOS runs every ready task: each keeps taking its enabled steps.  Users,
\* the button, the panel and the card owe nothing.
Fairness ==
    /\ \A t \in Tasks : WF_vars(TaskStep(t))
    /\ WF_vars(NfcStep)
    /\ \A s \in Subscribers : WF_vars(Consume(s))
    /\ WF_vars(IndicatorStep)

Spec == Init /\ [][Next]_vars
FairSpec == Spec /\ Fairness

-----------------------------------------------------------------------------
(* Properties                                                              *)

\* The bus implements the feed of reads: they reach the panel in the order they were
\* made and none twice, however nfc_task's posts, the drops and osdp_task interleave.
Feed == INSTANCE ReadFeed WITH reads <- reads, panel <- panel
ReadFeedImplemented == Feed!Spec

\* The reads still on their way: in the OSDP task's queue, or in the NFC task's post
\* before it has come to the slot of the OSDP task.
ReadsIn(q) == {q[i].cred : i \in {j \in DOMAIN q : q[j].kind = "READ_OK"}}
PostedReads ==
    LET f == frame[NFC] IN
    IF /\ f.at = "post" /\ f.ev.kind = "READ_OK"
       /\ \E i \in DOMAIN Subs : Subs[i] = OSDP /\ f.slot <= i
    THEN {f.ev.cred} ELSE {}

\* No good read vanishes between the card and libosdp: unless the drop counter of the
\* OSDP task says so or the reader restarted, it was submitted or is on its way.
ReadsAccounted ==
    drops[OSDP] = 0 /\ used["reboot"] = 0 =>
        1..reads = {panel[i] : i \in DOMAIN panel} \cup ReadsIn(queue[OSDP]) \cup PostedReads

\* An enrolment ends up on at most one card: mode_take_write_request hands it out once,
\* though it can be queued by two tasks, replaced while pending, or lost by a restart.
EnrolledAtMostOnce ==
    \A i, j \in DOMAIN written :
        i # j /\ written[i] = written[j] => written[i] = NoCred

\* What can set the mode, or undo a release, before the release has taken effect: the
\* mode changes asked for so far, and the mode_set calls that have still to exchange.
Asked == used["button"] + used["command"] + enrolled + used["reboot"]
SettingMode == \E t \in Tasks : frame[t].at = "exchange"

\* A button release changes the mode to the one it asks for, whatever the NFC task is
\* doing with a card and also when the NFC front end is dead, unless another release, a
\* command, an enrolment or a restart comes before it has taken effect.
ButtonServed ==
    \A n \in 1..(MaxButton + MaxCommands + MaxEnrol + MaxReboot), m \in Modes :
        (Asked = n /\ button # "NONE" /\ Toggle(button, mode) = m /\ ~SettingMode)
            ~> (mode = m \/ Asked > n)

\* A good read is submitted to libosdp unless the OSDP task's queue was full.
ReadReachesPanel ==
    \A n \in 1..MaxAccess :
        reads >= n ~> \/ \E i \in DOMAIN panel : panel[i] = n
                      \/ drops[OSDP] > 0 \/ used["reboot"] > 0

\* An event pattern does not stay: the indicator returns to a resting one.
EventPatternEnds == (pattern \in EventPatterns) ~> (pattern \notin EventPatterns)
=============================================================================
