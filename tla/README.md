# A verification project for osdp-leaf-reader

TLA+ models of the firmware in `src/`: an ESP32-S3 card reader that reads and
writes LEAF credentials on DESFire cards and reports them to an access control
panel over OSDP, with the libosdp it carries. The panel's side of libosdp is
part of the repository and is modelled too: the protocol's properties are
properties of both ends.

## The system

| component | state it keeps | operations | interacts by |
|---|---|---|---|
| reader core (`reader_core`) | mode, write request, subscribers and their queues | set or toggle the mode, post an event, set or take a write request | calls from every task; queues to webui, console and OSDP tasks |
| NFC task (`main/nfc_task.c`) | whether a card is in the field | poll the button, find a card, read or personalise it, report | reader core, indicator, LEAF |
| indicator (`board`) | pattern, resting pattern, pattern being played | set a pattern; play, revert | one atomic variable that every task writes |
| OSDP bridge (`main/osdp_pd.c`) | last online status | refresh libosdp, serve commands, submit reads | queue from the core, calls into libosdp |
| OSDP link (libosdp `osdp_phy`, `osdp_sc`, `osdp_cp`, `osdp_pd`) | per end: connection state, sequence number, command in hand, keys, session, queue | send, retry, receive, give up, come back, handshake, change the key | packets on a half-duplex serial line |
| OSDP file transfer (`osdp_file`) | per end: file, offset, length, state | start, cancel, build and take a chunk, build and take a status | commands of the link, files of the applications |
| several PDs (libosdp `osdp_cp`) | lock per PD, whose turn it is, command queues | acquire, release; submit, flush; add PDs | the application's refresh; channels that PDs share |
| packet reception (`osdp_phy`) | ring buffer, packet buffer | push, pop; scan, rescan, check | bytes of the UART, in pieces |
| LEAF, DESFire (`leaf`, `desfire`) | session keys, command counter | read, personalise: sequences of card commands | NFC HAL; a global key shared with the console |
| PN5180, PN532 | chip registers, block number | activate, exchange blocks | SPI |
| netconfig, web UI, console, start-up | Wi-Fi state, settings, WebSocket descriptor | connect, fall back; commands; start the tasks | callbacks, httpd and console tasks |
| Python binding (`libosdp/python`) | context, lock, thread | start, stop, calls; refresh | threads, callbacks |

Tasks: `nfc` on core 1; `osdp`, console, event pump, `wspush`, indicator and
button on core 0; httpd. They share the core's mode (atomic), write request
(spinlock), subscriber table (no lock) and the indicator's pattern (atomic).

### What is hard here

- operations of several steps without a lock: setting the mode, subscribing;
- bounded queues that drop: the bus, libosdp's event pool;
- an unreliable line with retries on top of a two-bit sequence number and a MAC
  chain; late answers; two ends that restart on their own;
- keys that change at one end before the other hears of it;
- byte counts kept at both ends of a transfer;
- card commands that stop when the card is taken away;
- a line that others talk on, and packets that come in pieces;
- PDs that take turns on a channel; threads that share a device.

`PROJECT.json` lists each hazard with its line and the properties on it.

### What makes each part correct

| part | properties |
|---|---|
| reader core | a good read is submitted, on its way or counted as dropped; reads keep their order; a write request reaches one card at most; a button release sets the mode it asks for |
| indicator | event patterns end |
| card presence, PN5180, PN532 | a card that stays is accessed, an empty field is noticed; an APDU is carried out once at most; an answer is that of its own APDU, whole |
| LEAF, DESFire | a reported write is on the card, in full and under its keys; a card can be personalised again whatever a broken-off access left; no credential lies under a factory key; the counters of a session agree |
| link | reads reach the panel in order, each at most once; commands are carried out in order, in a secure session once; an acknowledged command was carried out; two active ends share one session; enforcing means secure; both ends keep one key and one address; the link recovers |
| packet reception | a command on an undisturbed line is accepted however it is cut and whatever others said before it; the receiver gets rid of everything else |
| several PDs | one PD of a channel is waited for at a time; an answer is that PD's; every PD is served; the command queue is a bounded queue that leaks nothing |
| file transfer | the sender counts what the receiver wrote; done means complete; transfers end; files are closed |
| start-up, network, web page | the reader starts up whatever Wi-Fi does; its status is true; subscribers have slots of their own; settings are saved in pairs; the page heard from last is told |
| Python binding | one thread at a time is inside libosdp under the device's lock; calls return |

## Modules

| module | models | state and actions |
|---|---|---|
| `ReadFeed` | what reader and link promise the panel: a feed of reads, in order, lossy | `reads`, `panel` |
| `ReaderCore` | `mode_controller.c`, `nfc_task.c`, the bridge in `main/osdp_pd.c`, commands of console and web page | `mode`, write request, queues and drops as in the code; each task has a frame: where it is in `mode_set` or in a loop over subscribers. A step of a task is one access to shared state |
| `Indicator` | `board_indicate`, `indicator_task` | `pattern` (`s_pattern`), `resting`, what is played |
| `NfcReader` | the edge detector of `nfc_task` over `nfc_hal`, with `components/pn5180` or `components/pn532` below | `task` is where the task is, with its locals; `g` the driver's `g_pn5180_card`; `out` what the PN532 has ready. One step is one frame to the card and its answer, or one command to the PN532 |
| `Leaf` | `leaf.c` over `components/desfire` | `leaf_read` and `leaf_personalize` are sequences of instructions, run by `task`; `ses` is `g_session`, `macKey` the global MAC key. A CMAC is three steps and an exchange two, as other tasks run in between |
| `DesfireCard` | the card, as the code uses it (external) | functions from a command to an answer and the next card |
| `OsdpLink` | one CP, one PD and the line | `cp` and `pd` are the two `struct osdp_pd`; `cpq`, `pdq` the queues; `toPd`, `toCp` the bytes under way. A refresh that does something is one step |
| `PacketBuffer` | `osdp_phy_check_packet` and what calls it in a PD, the ring buffer | `rx` is `rx_rb`, `buf` and `len` the packet buffer. A step is `osdp_pd_update` with some of the bytes on the line |
| `CmdFifo` | what a command queue promises | pending, current, free places, per PD |
| `CpBus` | a CP with several PDs: set-up, round, channel locks, queues over slab and list | `pds` are the `struct osdp_pd`, `lock` is `channel_lock`, `mem` slab and list nodes. A step is `cp_refresh` for one PD |
| `OsdpFile` | `osdp_file.c` at both ends | `cpFile`, `pdFile` are the two `struct osdp_file`; `link` the part of the CP that repeats commands |
| `Network` | `app_main.c`, `netconfig.c`, saving of settings, `mode_subscribe`, the WebSocket of `webui.c` | `main` is where `app_main` is; `wifi`, `evq` driver and event loop; `sub`, `push`, `save` where the tasks are. A step is one access to shared state |
| `PyDevice` | `control_panel.py`, `peripheral_device.py`, `osdp_sys/*.c` | `lock`, `thread`, `event` the attributes of the device; each thread has the line it is at |
| `MC...` | instances for TLC | |
| `...Proofs` | theorems about `ReaderCore`, `NfcReader`, `Leaf`, `OsdpLink`, `CpBus`, `OsdpFile`, `Network`, `PyDevice` | the inductive invariant comes first, then one lemma per action or kind of action, the theorems last |

`ReadFeed` is the specification both `ReaderCore` (from the card to libosdp)
and `OsdpLink` (from libosdp to the panel's application) implement, each with
its own refinement mapping; `CpBus` implements `CmdFifo`. `ReaderCore` composes
`Indicator`, and `Leaf` composes `DesfireCard`.

The modules meet at interfaces that one side over-approximates: `ReaderCore`
takes any presentation and any outcome of an access, which `NfcReader` and
`Leaf` detail; `OsdpLink` takes whole packets, which `PacketBuffer` makes of
bytes, and one PD, of which `CpBus` has several; `ReaderCore` starts from the
subscriptions that `Network` shows to be made.

### How data is abstracted

*Reader core.* A credential is the number of its read; the number of reads ties
the bus to `ReadFeed`. Subscribers are there from the start. `NfcBoot` and
`Init` are the state `app_main` leaves.

*Cards.* A frame is its kind, an I-block its number, its place in its APDU and
whether more follow; bytes on SPI are left out. A CMAC or a ciphertext is the
pair of key and text, a random number the number of its authentication. Length
and MAC of an answer are kept, since the code tells answers apart by them.
`NfcReader` follows ISO 14443-4 where card and driver agree; where the driver
differs from the standard (see below) the card is taken as the driver has it,
so that chains can happen at all.

*Link.* Keys and random numbers are values. A cryptogram is the tuple of key and
random numbers it is computed from; a MAC adds the place in the chain, which
`osdp_compute_mac` makes of each MAC and the one before, and the sequence number.
`rmac` is that place and `NextMac` the one after; the runs use three places in a circle, and
`LinkSecure` six, which is exact while fewer replies in a row go unread than there are places: a command and
its retries, of which there are three in `LinkSecure` and one elsewhere. A reply is MACed with a chain to the last verified command;
a command refused before that leaves the old chain, written -1. `rb` counts the
packets that `rx_rb` already holds: a flush drops only the rest. Of a garbled
packet the ends see the bad CRC; a packet that arrives in part is the same as a
garbled or a lost one. `evreq` and `data` are the CP's request flag and
`ephemeral_data`: a refused reply overwrites the latter with its NAK code, so
that the event it held is gone; an application's event of number 0 is such a
NAK code. Time is order: a reply timeout is taken when no answer can come any
more, or, `MaxLate` times, while one is under way. LED stands for OUT and BUZ
as well, LSTAT for the other status requests: the code treats them alike.

*Packets.* Bytes are kept, since a start byte in the data is the point. A packet
has the right CRC if it is one of those that were sent. `late` says that 200 ms
have passed since `tstamp`, which takes many calls of the refresh.

*Several PDs.* An answer has a sender; INIT stands for the set-up that
`OsdpLink` details; timeouts are counted in rounds.

*File.* A byte is a file and an offset; its content follows from these. The line
holds one packet, as a repeated command is sent only after its answer is
overdue; late answers are the link's subject. A refusal by the link layer stands
for the NAK a retry earns in a secure session.

*Network.* Values in NVS are the number of the save that wrote them. The access
point a fallback opens always works. An attempt to connect ends in an address, a
refusal or later loss.

*Python.* The C functions run under the interpreter's lock and are steps between
callbacks; of arguments only matters whether they make the call raise. Submitting a file
transfer opens the file, which calls the application. The calls that take no lock are
steps beside the others.

## Runs

| run | shows |
|---|---|
| `CoreSafety` | a mode change, two enrolments, two presentations, a restart, queue of one: reads accounted for, in-order feed, one card per request |
| `CoreLive` | two button releases, a presentation, an LED command or connection change of the panel: a release sets the mode it asks for unless another request comes before it has taken effect, a read reaches libosdp, an event pattern ends |
| `NfcCards` | either driver, three presentations of two kinds of card, three APDUs of up to two blocks, two faults, a late answer, an extension of the waiting time |
| `LeafCards` | two accesses to two cards with any habit of adding MACs, a fault anywhere, a changed site key, a self test in between, a restart |
| `LinkPlain` | no secure channel: commands in order; without faults one address |
| `LinkSecure` | enforced secure channel, no flush, three retries, three disturbances of any kind, a queue of two: sessions agree, online implies secure, commands once, what is reported done was carried out, reads in order and at most once |
| `LinkRecover` | install mode, key change, faults and a restart: gets back online and secure, no read twice; keys agree and events arrive when nothing is lost |
| `PacketLine` | three talks on a shared line in pieces of 1, 2, 4 or all bytes, a byte lost or made up |
| `BusRounds` | one PD with a queue that fills and wraps, two PDs on one channel, three on two channels |
| `FileTransfer` | two transfers with faults of every kind: counted means written, done means complete, transfers end |
| `NetStart` | starting with or without credentials, restarts, a network that refuses, loses or stalls, two savers, a write to NVS that fails, two pages |
| `PyThreads` | two threads that call, start and stop a device three times, with one that raises or calls back, and with calls that take no lock |

All pass. `PROJECT.json` says for each what it establishes, and names for each
property a plausible mistake in the code that makes it fail.

### Bounds

Every bound is a constant named in its module (`Max...`, `QueueLen`,
`PoolSize`). They bound stimuli and faults, never the steps of a task that is in
the middle of something; a run whose stimuli are used up and whose tasks only
wait for more has stopped, and its cfg does not check deadlock.

*Core.* A queue of one element with two reads makes the drop happen; two
enrolments let one replace the other before, while or after the NFC task takes
it, two presentations let both be written; one restart hits every state in
between. One interface is enough there: its mode changes interleave with those
of the NFC task, and a request is replaced in one step by whichever interface
does it (the proof of `EnrolledOnce` is for any number). The second release of `CoreLive`
comes before, while or after the first is latched, polled and carried out.

*Cards.* Two blocks per APDU give a chain in each direction; the exchange that may
fail without ending its access (FormatPICC, `leaf.c:175`) is the second of three APDUs, where
the code has it fourth. The count of
empty fields (four) is not scaled. Two accesses let the second find whatever the
first, broken off at any exchange, left; cards, credentials and site keys are
symmetric there.

*Link.* A fault, a late answer and a power cycle are enough for a lost
command, a lost reply and both in one retry sequence. One retry replaces eight:
giving up is then reached within the bounds. `LinkSecure` has three, after
which a sequence number comes round, and up to three late replies: this is where a reply
could pass for another's, and does without a secure channel. A queue of two lets a read wait
behind another. `MaxStimuli` bounds faults, late replies, restarts and key changes together,
at three, and four in `LinkRecover`. `Nonces` has more values than both ends and the packets under way can hold.

*Packets.* Buffers of 20 and 24 bytes hold the longest talk, so that they
overflow only after a disturbance. Three talks: one leaves something, one
extends it, one must be heard.

*Several PDs.* A pool of two wraps; four commands fill and refill it. Three PDs
on two channels have both a shared and an own one.

*Files.* Sizes of 3 and 5 with chunks of 2 give a shorter last chunk, and an
offset that can step over the size.

*Network.* At most four stimuli in all, of any mixture, a failing write to NVS being one;
two retries replace five.

*Python.* Three starts: a thread can be left over from the one before the last.

### Fairness

*Core, network.* Weak fairness of each task's step, as FreeRTOS schedules every
task of the models: they block or sleep in each round. No fairness of users,
cards, panel or access point; an attempt to connect ends one way or the other.

*Cards.* Weak fairness of `nfc_task`; none of users, and none of the outcome of a command:
a PN532 driver that finds an unread answer in its way each time is `Behind`, and
`PresentedIsServed` promises nothing of it.

*Link.* Weak fairness of the refresh of either side, called in a loop by
`osdp_task` and by a panel. Strong fairness of the CP's retry of the secure
channel: its 600 s have passed at some idle refresh, but the CP is not idle all
the time. `LinkRecover` assumes `Timely`: the CP reads each reply before the
next arrives, which the 800 ms between a timeout and the retry give it, and the
line is idle when it starts another secure channel. Without the assumption a
stale reply in `rx_rb`, which a flush does not reach, can be produced again and
again.

*Packets.* Weak fairness of the refresh with bytes, and of the passing of time
when there are none.

*Several PDs.* Weak fairness of `osdp_cp_refresh`, which visits every PD.

*File.* Weak fairness of the steps of either side.

*Python.* Weak fairness of every thread; strong fairness of obtaining a lock,
as `refresh` sleeps 20 ms without it (`control_panel.py:42`) and the callers do
not spin on it.

## Proofs

TLAPS checks the eight `...Proofs` modules: each theorem holds for every value of
the constants, so for any number of cards, faults, restarts, commands, PDs or
threads. In this table, the assumption named is one on top of the module's own
(`CoreAssumption`, `NfcAssumption` and so on), which say no more than what kind
of value each constant is.

| theorem | of | states | assuming |
|---|---|---|---|
| `TypeCorrect`, `EnrolledOnce`, `FeedImplemented` | `ReaderCore` | types, `EnrolledAtMostOnce`, the refinement of `ReadFeed` | |
| `ReadsAreAccounted` | `ReaderCore` | `ReadsAccounted` | `OsdpSubscribed`: the OSDP task is among the subscribers, as `Network` shows |
| `CarriedOut`, `OwnAnswer` | `NfcReader` | `CarriedOutOnce`, `AnswerIsOurs` | |
| `WrittenStays` | `Leaf` | `WrittenIsHeld` | |
| `DataUnderChangedKeys` | `Leaf` | `DataUnderOurKeys` | a MAC is not the factory key |
| `CountersStayEqual`, `CleanWritesSucceed` | `Leaf` | `CountersAgree`, `CleanWriteSucceeds` | |
| `OnlineSecurely` | `OsdpLink` | `OnlineIsSecure` | |
| `SameSessions` | `OsdpLink` | `SessionsAgree` | `Nonces` is infinite: there is always a random number that no end and no packet holds any more |
| `ReadsGivenOnce`, `CommandsStayInOrder`, `AddressesStayEqual` | `OsdpLink` | `ReadsOnce`, `CommandsInOrder`, `AddressesAgree` | |
| `CommandsCarriedOutOnce` | `OsdpLink` | `CommandsOnce` | the secure channel is enforced, `Nonces` is infinite, and the chain of MACs does not come back to a place |
| `FeedRefined` | `OsdpLink` | `EventsInOrder`, the refinement of `ReadFeed` | the secure channel is enforced |
| `SecurelyTold` | `OsdpLink` | `ToldIsExecuted` | as for `CommandsCarriedOutOnce` |
| `ToldWithoutFaults` | `OsdpLink` | `ToldIsExecuted` while `FaultFree` | |
| `KeysStayEqual` | `OsdpLink` | `KeysAgree` | the reader is set up with the panel's key or with none |
| `BusTypeCorrect`, `AnswerOfOwnPd`, `QueueRefinement` | `CpBus` | types, `OwnAnswers`, the refinement of `CmdFifo` | |
| `OneWaits` | `CpBus` | `OneOnTheLine` | `AllAtOnce`: the PDs are given to the CP in one call |
| `FileTypeCorrect`, `SentWritten`, `FileClosed`, `DoneComplete` | `OsdpFile` | `TypeOK`, `SentIsWritten`, `ReceiverCloses`, `DoneIsComplete` | |
| `SubscribersKeepSlots`, `SettingsKept`, `LastHeard`, `StatusTold` | `Network` | `SubscribersInSlots`, `SettingsAreSaved`, `LastHeardIsTold`, `StatusIsTrue` | |
| `OneThreadUnderLock` | `PyDevice` | `OneUnderLock` | |

### The arguments

*Reader core.* `TypeOK` is inductive as it stands, since the type of a frame says
what a task may hold at each step it can be at. Behind `EnrolledOnce`: the pending
request, the request in the hands of the NFC task and those already written are
all different requests, numbered in the order they were made; taking one clears
`request` in the same step, so that no number can be at two places. Behind
`FeedImplemented`: a post appends a read to the queue of the OSDP task in order
or drops it, and consuming appends the head to what the panel was given: the
reads given, queued and in the post's hands are increasing. `ReadsAreAccounted`
adds that no task but the NFC task posts a read: the slot a post has come to then
tells whether the OSDP task has it yet.

*Cards.* `NfcInv`: a card that is still in the protocol is in step with the driver:
its block number is the other one than the driver's before a block is sent, and
in the midst of an answer it stands at the part read last. What the driver
has read is the first part of the answer; the APDU in hand has been carried out
only when its last block has gone out. The step needs to know that no late
answer is under way, which holds until an exchange of the access has failed: this
is why `AnswerIsOurs` is only about such exchanges.

*LEAF.* `LeafInv` walks through `WriteFlow`: for each instruction the task can be at
it says what the ones before have left in its keys and on the card. The card
can have left the field at any of them, and then nothing more reaches it. A promise
is kept because only a later write of that card touches its application, and that
withdraws the promise first. A key that is on a card other than the factory's is
a MAC, whence the assumption.

`CountInv`, behind `CountersStayEqual`: a session is named by the random number of its
challenge, and every challenge has a number of its own. A challenge that is open on
the card is the task's, and its name is not that of the reader's session; from the card's
proof to the reader's taking the session over nothing is counted on either side. So two
sessions of one name have been through the same commands, until an answer is lost.
`TrackInv`, behind `CleanWritesSucceed`, follows a write that nothing disturbs from one
instruction to the next: what the card has selected, that the format has left it empty
under factory keys, which keys the handshake has come to so far, and that both ends hold
one session, whose key the next command is MACed with. Each of the fourteen commands is
then accepted by the card and its answer by the reader, and there is no instruction at
which such a write could fail. The walk needs nothing of the card before the format, so
it does not matter what earlier accesses have left there.

*Link.* `OnlineSecurely` needs only the CP: the steps to online that
`get_next_ok_state` takes. Behind `SameSessions` is that packets arrive in order and
that a session is named by the panel's random number. A PD that answered to the name
has every older challenge behind it; the answers to that name that are still on the
line are all of one kind; so the cryptograms a CP accepts were computed from what
the PD holds. A panel whose random numbers repeat could join an old session:
hence `Nonces` must not run out.

Reads and commands flow one way each. Behind `ReadsGivenOnce`: going from what the
panel's application was given, over the event it holds, the answers on the line and
the reader's queue to what was submitted, the numbers of the reads increase.
A NAK code can overwrite the event that is held, which loses it but repeats none.
Behind `CommandsStayInOrder`: from what the reader carried out, over the packets on the
line and the command in hand to the panel's queue the numbers do not decrease; a
repeated packet carries the command in hand, and a new one is taken only when the one
in hand is done with. `OnceInv`, behind `CommandsCarriedOutOnce`, adds where the copies of
a command stand: all of them, and the one in hand, have the same session and the same
place in its chain. Once one is carried out the reader is past that place, and it can only
get back to it by starting that session again; but no packet behind a command starts the
command's session, and the panel draws no name that a packet still bears. A MAC equal to
that of another place would undo this, whence the assumption.

Answers are harder, since what tells one reply from the next is only a sequence number
of two bits, or a MAC. `PlaceInv`, behind `SecurelyTold`, looks at the packets of the session
in hand, in both directions: none is of a place the panel has not come to; those at the
place it is at are copies of the command in hand and replies to it, each given after that
command was carried out. The reply that passes the MAC check is at that place, so it is one
of them. When the panel moves on, the chain leaves every packet behind; when it names a new
session, no packet bears the name. `ToldInv` adds that the command in hand is the one
submitted under its number, and that nothing is taken back of what was carried out or handed
over. Without a secure channel, `ToldWithoutFaults` follows from `LockInv` below: the one
reply that is on its way is to the command in hand. Behind `FeedRefined`: a panel that
enforces the secure channel takes a read or a report only under a MAC, so only online, and
hands it over in the same step; there is no held event that a NAK code could overwrite, and
the numbers of the reads increase as in `ReadsGivenOnce`.

`LockInv`, behind `AddressesStayEqual` and `KeysStayEqual`, is that
a line without faults is in one of three phases: nothing is under way and the ends
agree; the packet on the line is the one the panel would build again; or one reply is,
which the panel will accept, and which is the answer to COMSET or KEYSET whenever the
ends differ. A reader set up with another key than the panel's never has the same one,
whence the assumption.

*Several PDs.* Behind `OneWaits`: an entry of the lock holds the channel of its own PD
or nothing, one entry at most holds a channel, and a PD that waits for an answer
on a shared channel holds it. It needs each PD to have the entry of its own number,
which `osdp_cp_add_pd` breaks on a context that has PDs (see Disagreements):
hence `AllAtOnce`, which `osdp_cp_setup` alone, or on an empty context one
`osdp_cp_add_pd`, gives. `QueueRefinement` maps slab and list to a sequence: the
queue is a chain of distinct units from head to tail, and they are the leased ones.
That the chain is what following `next` finds, and that flushing takes off all of it,
is an induction over positions, done as an argument from the least counterexample.

*Files.* The invariant behind `SentWritten` ties the packet on the line to the
sender: a chunk on the line is the one the sender counts as under way, and a status
on the line answers a chunk that was written. `DoneComplete` adds that without
lost replies sender and receiver are at the same offset or one chunk apart.

*Network.* Four independent invariants. `SubInv`: the order in which `app_main` starts
tasks is the order of their slots, and it gets on only when none of those it has
started is busy. `SaveInv`: a save that is alone wrote the first value that is
there, and one that failed at its second is remembered until a save that nothing disturbs. `PageInv`: a page has one socket, and a failed send is noted only of a page that
is not the one heard from last. `WifiInv`: the last event in the queue that counts tells
the state of the link.

*Python.* At most one refresh thread is alive, and it is the one `start` made last; a
refresh holds the lock it took, a call the present one. The calls that take no lock are not
covered.

### Only model-checked

- Liveness everywhere (TLAPS has no rule for fairness that reaches it here).
- Nothing is proved of `ToldIsExecuted` and of the refinement of `ReadFeed` without the
  secure channel on a line with faults, since neither holds there (see Disagreements, which
  say how to have TLC show it). What does hold of reads in general is
  `ReadsOnce`. With the secure channel enforced `SecurelyTold` and `FeedRefined` prove them
  for any number of retries, and `LinkSecure` checks them with three.
- `PacketBuffer`: what it says is liveness over bytes; its scan is a recursion over data.
- `Indicator`, `DesfireCard`: their properties are those of the modules that use them.

## Disagreements

Where the code does something else than the repository says, met while
modelling. The models do what the code does; the properties above exclude these
cases by name, or are stated so that they do not contradict them.

Reader core:

- `mode_set` exchanges the mode and posts the event in separate steps: two tasks
  can post in the other order, and the page then shows a mode the reader is not
  in for good (`mode_controller.c:45`; `README.md:136` "The UI shows current
  mode"). The button handler reads the mode before it sets its opposite, and
  `drops++` is not synchronised: a press can undo a command, a drop go uncounted.
- The indicator task stores the resting pattern it remembered over one set
  while an event pattern played (`board_io.c:142`; `board_io.c:48-52` "revert to
  whichever ARMED_* mode is current").
- `mode_init` sets the mode that `s_mode` already has: after boot the LED is off
  until the first change, where `README.md:56` has a green heartbeat.
- `mode_subscribe` needs a lock as soon as two tasks of one priority call it:
  only the order of `app_main` keeps its callers apart (`Network!Priority`).
- The result of `osdp_pd_submit_event` is ignored (`main/osdp_pd.c:167`): a read
  that finds libosdp's pool full is lost and counted nowhere.

Cards:

- `leaf_read` never succeeds on a card that `leaf_personalize` wrote: its buffer
  of 32 bytes refuses the answer of a card that adds a MAC, and of one that adds
  none the last 8 data bytes are taken for the MAC (`leaf.c:135`,
  `desfire.c:48,102-118`; `leaf.h:12` "so the read and write paths agree"). A
  card that adds MACs to bare answers cannot be personalised.
- A card that stays on a PN5180 is activated again after its release and then
  left on; the next REQA finds nothing. After four of these the card is
  accessed again (`nfc_task.c:29-30` "exactly one read/write per presentation").
- On a PN532 without a card `InListPassiveTarget` goes on beyond the driver's
  timeout, which is not `ESP_ERR_NOT_FOUND` (`pn532.h:27`): the empty field is
  never noticed, and only the first card is accessed. `PresentedIsServed`
  therefore asks of the PN532 no more than its first card.
- Nothing brings the PN532's driver back in step: `cmd` takes what is unread of an earlier
  command for the acknowledgement of its own and returns with the new one's left unread, and
  `wait_ready` looks at once (`pn532.c:180-208`). One response in arrears can fail every
  command after it (`NfcReader!Behind`).
- `pn5180_internal.h` has R(ACK) as 0x82 with bit 0x20 for NAK; ISO 14443-4 has
  0xA2 and bit 0x10. Block numbers of answers are not checked, so that a late
  answer is read as the next one's.

OSDP link:

- A reply is matched by a two-bit sequence number that each of up to eight
  retries moves on: after three, a late reply passes for the answer to a command
  the PD never received (`osdp_phy.c:522`; `osdp.h:859`). `LinkPlain` with `MaxRetries` and
  `MaxLate` at 3 and `ToldIsExecuted` added shows it. With an enforced secure channel it
  cannot happen.
- A panel that does not enforce the secure channel holds an event in `ephemeral_data` until it
  is online, where a refused reply writes its NAK code over it (`osdp_cp.c:1316`,
  `osdp_phy.c:524`): the application is called with an event no PD sent.
  `LinkSecure` with two different keys, a flush and no enforcement shows it: `EventsInOrder` fails.
- `osdp_channel_send` drops unread bytes only if the channel has a flush: after
  one late reply a panel without compares every reply with the command after it
  and stays offline (`osdp_phy.c:36`; `osdp.h:333`).
- `include/osdp.h:862` says outcome 0 is success; the code passes 1 for success
  and 0 for failure (`osdp_cp.c:1264`).
- `main/osdp_pd.c:205` says libosdp persists a rolled key; nothing does
  (`OsdpLink!PdReset` starts with the compiled-in one). A KEYSET or COMSET whose
  reply is lost leaves the two ends with different keys or addresses for good,
  and this reader accepts COMSET without changing its UART.
- A refused LED, OUT or BUZ is acknowledged, a refused other command takes the
  PD offline; LSTAT on this reader answers with a status nobody set; the answer
  to MFG that a handler prepares is never sent, as `ret > 0` is never true.
- The panel takes a late answer of another PD of the channel for a failure of
  the one it waits for.

Packets:

- A start byte in a neighbour's data can leave five bytes whose header is checked
  only after four more are taken (`osdp_phy.c:394-396`): a shorter packet is read
  past its end and never complete; everything waits for the 200 ms timeout, and
  a command in that time is lost (`main/osdp_pd.c:67-68` "libosdp tolerates
  fragmented reads"). `Heard` excludes this as `TooMuch`.
- The timeout ends the PD's secure session, although nothing was addressed to
  it, and loses a command that arrives at that moment. `tstamp` is only set by
  bytes that find the packet buffer empty (`osdp_phy.c:543`). At 9600 baud a
  packet of 256 bytes takes longer than the timeout.

Several PDs:

- `osdp_cp_add_pd` on a context that has PDs counts `idx` from 0 again
  (`osdp_cp.c:1467`): PDs share entries of the lock, the earlier ones are never
  refreshed, and the queues point into the array that was freed (`osdp.h:1070`).
  With `AtSetup = {1}` both `OneOnTheLine` and `EveryPdServed` fail.
- `list_remove_nodes`, `list_insert_node` and `list_insert_nodes` of
  `utils/list.c`, which nothing calls, leave the list broken at its ends.

Files:

- The receiver adds each chunk's length to its offset, whatever the offset in
  the chunk's header: a repeated one is counted twice, and the offset passes the
  size (`osdp_file.c:293`; `:299` asserts that it does not), or the file is
  closed before its last chunk has come.
- A PD without file operations, like this reader, NAKs each chunk; the CP then
  goes offline for five minutes and tries again for ever, as a NAK does not
  count towards `OSDP_FILE_ERROR_RETRY_MAX`.
- `osdp_file_cmd_tx_build` leaves the sender's file open when it gives up, and
  runs into `BUG_ON` if the ABORT it sent is lost (`OsdpFile!CpBug`).
- A receiver in a transfer takes the chunks of any other file for its own.
- When the receiver's `close` fails after the last chunk, its transfer stays in progress with
  every byte written (`osdp_file.c:301-304`; `OsdpFile!PdCloseFails`).

Network:

- After five failures the station gives up for good (`netconfig.h:13`
  "Auto-reconnect on disconnect"), and the web page has no command to set
  Wi-Fi up (`README.md:132-133`). A setting's two values can be torn by a
  restart, by two savers, or by a second write or a commit that fails, after which the
  command reports an error but the first value has changed (`netconfig.c:173-177`).
- The push task resets `s_ws_fd` after a failed send also when a new page has
  spoken in between (`webui.c:338`).

Python:

- No call releases the lock when it raises: every later call, and `stop`, waits
  for ever. Handlers that raise, `set_flag` and `clear_flag` (declared without
  arguments) do so always. A command handler that raises makes `pd.c:95` parse
  NULL. A refresh thread that died leaves `self.thread` set, so that `start`
  raises.
- `start` makes a new lock: a call under way since before it runs beside the
  refresh and releases the new lock (`spanned`).
- `PeripheralDevice.is_online`, `is_sc_active` and `set_command_handler`, and the handler of a
  `ControlPanel`, enter libosdp without the lock (`peripheral_device.py:45-49,76-80`), also
  while a refresh is suspended in a callback: `OneUnderLock` is about the other calls.
- The open handler of a file runs with the device's lock held
  (`osdp_cp.c:1385`): one that calls the device waits for ever (`stuck`).
- `get_file_tx_status` of a device without file operations dereferences NULL
  (`osdp_file.c:443`), which ends the process; the model does not call it then.

## Not modelled

- libosdp: broadcast, trace capture, packet dumps, the replies no PD of it
  builds, the API's getters, `osdp_cp_modify_flag` and capability checks;
- DESFire commands that no flow uses; AES, CMAC, CRC and checksum arithmetic;
- bytes and registers on SPI; the PN532's firmware;
- static pages and JSON of the web UI, parsing and printing of the console,
  button debouncing;
- the conversions of the Python binding (`data.c`), the C++ header, tests,
  examples, and the utilities nothing is built with.

These are input and output, arithmetic, or not part of what runs.

Of what the runs check, every invariant and refinement that holds for all values of the
constants is proved; what is listed under "Only model-checked" stays with TLC.
