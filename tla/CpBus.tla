-------------------------------- MODULE CpBus --------------------------------
(***************************************************************************)
(* One control panel of libosdp with several PDs, some of them on the same *)
(* channel: the round of osdp_cp_refresh, the channel locks, and the       *)
(* command queues with the slab and the list they are made of.             *)
(*                                                                         *)
(* A step is cp_refresh for one PD.  The calls of the application happen   *)
(* between two rounds, as a single thread or the lock of the Python        *)
(* binding makes them.  A PD that is sent a command answers, says that it  *)
(* is busy, or is silent.  Contents, sequence numbers, the states of the   *)
(* set-up and the secure channel are in module OsdpLink: here INIT stands  *)
(* for the whole set-up, an answer has a sender, and one that its sender   *)
(* gave to an earlier command may or may not pass for the answer to this   *)
(* one.  Timeouts are counted in rounds.                                   *)
(***************************************************************************)
EXTENDS Integers, FiniteSets, FiniteSetsExt, Sequences, SequencesExt

CONSTANTS
    Topologies,  \* sequences of the channel ids of the PDs to choose from
    AtSetup,     \* numbers of PDs that may be given to osdp_cp_setup; osdp_cp_add_pd adds the rest
    HasFlush,    \* the channels have the optional flush()
    PoolSize,    \* commands a queue holds (OSDP_CP_CMD_POOL_SIZE: 4)
    Rounds,      \* rounds a timeout lasts at most; one that takes longer ends it earlier
    MaxRetries,  \* OSDP_CMD_MAX_RETRIES (8)
    MaxCmds,     \* bound: commands submitted, for each topology
    MaxLate      \* bound: reply timeouts while the answer is on its way, likewise

\* osdp.h: the id of a channel that is shared must not be zero.
ASSUME CpBusAssumption ==
    /\ \A t \in Topologies : t \in Seq(Nat \ {0}) /\ t # <<>>
    /\ AtSetup \subseteq Nat
    /\ HasFlush \in BOOLEAN
    /\ {PoolSize, Rounds, MaxRetries} \subseteq Nat
    /\ {MaxCmds, MaxLate} \subseteq [Topologies -> Nat]

VARIABLES
    chan,      \* the channel ids of the PDs that are connected
    pds,       \* ctx->pd: a record for each PD the panel was told of
    lock,      \* ctx->channel_lock
    cur,       \* ctx->_current_pd, as a position in pds
    left,      \* PDs that the running osdp_cp_refresh still has to visit; 0: none runs
    mem,       \* the command slab and queue of each PD
    line,      \* [channel -> answers on their way, in order]
    cmds,      \* number of commands submitted
    late       \* uses of MaxLate

vars == <<chan, pds, lock, cur, left, mem, line, cmds, late>>

Channels == UNION {Range(t) : t \in Topologies}
Units == 1..PoolSize
Pds == UNION {DOMAIN t : t \in Topologies}
NumPd == Len(pds)

-----------------------------------------------------------------------------
(* The command queue: units of a slab, linked by next; 0 is NULL.  The     *)
(* code also keeps prev, which neither operation of the queue reads.       *)

EmptyQueue == [head |-> 0, tail |-> 0, leased |-> {},
               next |-> [u \in Units |-> 0], object |-> [u \in Units |-> 0]]

\* slab_alloc: the first unit that is not leased.
SlabAlloc(q) == CHOOSE u \in Units \ q.leased : \A v \in Units \ q.leased : u <= v

ListAppend(q, u) ==
    [q EXCEPT !.next = [n \in Units |-> IF n = u THEN 0 ELSE IF n = q.tail THEN u ELSE q.next[n]],
              !.tail = u, !.head = IF q.head = 0 THEN u ELSE @]

ListPopLeft(q) ==
    LET next == q.next[q.head]
    IN  [q EXCEPT !.head = next, !.tail = IF next = 0 THEN 0 ELSE @]

Enqueue(q, c) ==
    LET u == SlabAlloc(q)
    IN  ListAppend([q EXCEPT !.leased = @ \cup {u}, !.object[u] = c], u)

\* Defect: the unit is never given back.
Dequeue_Leaks(q) == ListPopLeft(q)

\* cp_cmd_dequeue and cp_cmd_free.
Dequeue(q) == [ListPopLeft(q) EXCEPT !.leased = @ \ {q.head}]

\* The units of the queue, followed from the head; 0 from its end on.
Followed(q) ==
    LET at[i \in Units] == IF i = 1 THEN q.head ELSE IF at[i - 1] = 0 THEN 0 ELSE q.next[at[i - 1]]
    IN  at

\* The commands of the queue.
Pending(q) ==
    LET at == Followed(q)
        n == Cardinality({i \in Units : at[i] # 0})
    IN  [i \in 1..n |-> q.object[at[i]]]

\* The queue when each of its commands has been taken off.
Emptied(q) ==
    LET n == Len(Pending(q))
        after[i \in 0..n] == IF i = 0 THEN q ELSE Dequeue(after[i - 1])
    IN  after[n]

-----------------------------------------------------------------------------
(* Set-up                                                                  *)

NewPd(i) == [idx |-> i, st |-> "INIT", phy |-> "IDLE", cmd |-> 0, retry |-> 0,
             wait |-> 0, shared |-> FALSE, rb |-> <<>>]

\* cp_detect_connection_topology: two PDs with the same id share a channel.
Detected(ps, t) ==
    [i \in DOMAIN ps |-> [ps[i] EXCEPT !.shared = @ \/ \E j \in DOMAIN ps \ {i} : t[j] = t[i]]]

\* cp_add_pd for the next n PDs: they are numbered from 0, whatever there is already.
AddPds(n) ==
    LET old == NumPd
    IN  /\ pds' = Detected(pds \o [i \in 1..n |-> NewPd(i - 1)], chan)
        /\ mem' = mem \o [i \in 1..n |-> EmptyQueue]
        /\ lock' = [i \in 1..(old + n) |-> 0]
        /\ cur' = 1
        /\ UNCHANGED <<chan, left, line, cmds, late>>

\* osdp_cp_setup with the first PDs; with none it leaves an empty context.
Init ==
    /\ \E t \in Topologies, n \in AtSetup :
        /\ n <= Len(t)
        /\ chan = t
        /\ pds = Detected([i \in 1..n |-> NewPd(i - 1)], t)
        /\ mem = [i \in 1..n |-> EmptyQueue]
        /\ lock = [i \in 1..n |-> 0]
    /\ cur = 1 /\ left = 0 /\ cmds = 0 /\ late = 0
    /\ line = [c \in Channels |-> <<>>]

AddPd ==
    /\ left = 0 /\ NumPd < Len(chan)
    /\ AddPds(Len(chan) - NumPd)

-----------------------------------------------------------------------------
(* The application, between two rounds                                     *)

Submit(p) ==
    /\ left = 0 /\ pds[p].st = "ONLINE" /\ cmds < MaxCmds[chan]
    /\ cmds' = cmds + 1
    /\ mem' = IF mem[p].leased = Units THEN mem ELSE [mem EXCEPT ![p] = Enqueue(@, cmds + 1)]
    /\ UNCHANGED <<chan, pds, lock, cur, left, line, late>>

\* osdp_cp_flush_commands
FlushCommands(p) ==
    /\ left = 0 /\ mem[p].head # 0
    /\ mem' = [mem EXCEPT ![p] = Emptied(@)]
    /\ UNCHANGED <<chan, pds, lock, cur, left, line, cmds, late>>

-----------------------------------------------------------------------------
(* osdp_cp_refresh: the next round begins, and visits PD after PD          *)

BeginRound ==
    /\ left = 0 /\ NumPd > 0
    /\ left' = NumPd
    /\ pds' = [p \in 1..NumPd |-> [pds[p] EXCEPT !.wait = Max({@ - 1, 0})]]
    /\ UNCHANGED <<chan, lock, cur, mem, line, cmds, late>>

\* Defect: the last PD is left out.
NextPd_SkipsLast(p) == IF pds[p].idx + 1 >= NumPd - 1 THEN 1 ELSE pds[p].idx + 2

\* The position after the PD's own idx.
NextPd(p) == IF pds[p].idx + 1 >= NumPd THEN 1 ELSE pds[p].idx + 2

GoOn(p) == cur' = NextPd(p) /\ left' = left - 1

Slot(p) == pds[p].idx + 1

\* Defect: the lock of another PD is not looked for.
MayAcquire_Own(p) == lock[Slot(p)] \in {0, chan[p]}

\* cp_channel_acquire
MayAcquire(p) == lock[Slot(p)] = chan[p] \/ chan[p] \notin Range(lock)

Turn(p) == left > 0 /\ p = cur /\ (pds[p].shared => MayAcquire(p))

\* cp_refresh gets OSDP_CP_ERR_CAN_YIELD: the channel is released.
Yield(p, r) ==
    /\ pds' = [pds EXCEPT ![p] = r]
    /\ lock' = IF r.shared THEN [lock EXCEPT ![Slot(p)] = 0] ELSE lock
    /\ GoOn(p)

\* OSDP_CP_ERR_INPROG: the channel is kept, and with one channel the round ends here.
Hold(p, r) ==
    /\ pds' = [pds EXCEPT ![p] = r]
    /\ lock' = IF r.shared THEN [lock EXCEPT ![Slot(p)] = chan[p]] ELSE lock
    /\ IF r.shared /\ Cardinality({chan[i] : i \in 1..NumPd}) = 1
       THEN left' = 0 /\ UNCHANGED cur
       ELSE GoOn(p)

\* Another PD has the channel.
Refused(p) ==
    /\ left > 0 /\ p = cur /\ pds[p].shared /\ ~MayAcquire(p)
    /\ GoOn(p)
    /\ UNCHANGED <<chan, pds, lock, mem, line, cmds, late>>

\* IDLE: the state's own command is started.
KickSetup(p) ==
    /\ Turn(p) /\ pds[p].phy = "IDLE" /\ pds[p].st = "INIT"
    /\ Yield(p, [pds[p] EXCEPT !.phy = "SEND_CMD"])
    /\ UNCHANGED <<chan, mem, line, cmds, late>>

\* cp_get_online_command: the oldest command, or a POLL when one is due.  A command that
\* cp_translate_cmd knows no packet for is taken off the queue and not sent.
KickCommand(p) ==
    /\ Turn(p) /\ pds[p].phy = "IDLE" /\ pds[p].st = "ONLINE"
    /\ mem[p].head # 0
    /\ \E phy \in {"SEND_CMD", "IDLE"} :
        Yield(p, [pds[p] EXCEPT !.phy = phy, !.cmd = mem[p].object[mem[p].head]])
    /\ mem' = [mem EXCEPT ![p] = Dequeue(@)]
    /\ UNCHANGED <<chan, line, cmds, late>>

KickPoll(p) ==
    /\ Turn(p) /\ pds[p].phy = "IDLE" /\ pds[p].st = "ONLINE"
    /\ mem[p].head = 0
    /\ Yield(p, IF pds[p].wait = 0 THEN [pds[p] EXCEPT !.phy = "SEND_CMD"] ELSE pds[p])
    /\ UNCHANGED <<chan, mem, line, cmds, late>>

\* osdp_phy_state_reset(pd, true) flushes when a PD that was offline starts again.
Flushed(ch) == IF HasFlush THEN {SubSeq(line[ch], k + 1, Len(line[ch])) : k \in 0..Len(line[ch])}
               ELSE {line[ch]}

Offline(p) ==
    /\ Turn(p) /\ pds[p].phy = "IDLE" /\ pds[p].st = "OFFLINE"
    /\ IF pds[p].wait = 0
       THEN /\ Yield(p, [pds[p] EXCEPT !.st = "INIT", !.retry = 0])
            /\ \E rest \in Flushed(chan[p]) : line' = [line EXCEPT ![chan[p]] = rest]
       ELSE Yield(p, pds[p]) /\ UNCHANGED line
    /\ UNCHANGED <<chan, mem, cmds, late>>

\* An answer that its PD gave to a command before the one in hand.
Outdated(answers, p) ==
    [i \in DOMAIN answers |-> [answers[i] EXCEPT !.fresh = @ /\ answers[i].pd # p]]

\* SEND_CMD, or WAIT when its time is over: what is unread is flushed and the command sent.
Send(p) ==
    /\ Turn(p)
    /\ pds[p].phy = "SEND_CMD" \/ (pds[p].phy = "WAIT" /\ pds[p].wait = 0)
    /\ \E rest \in Flushed(chan[p]), kind \in {"reply", "busy", "none"} :
        LET answer == IF kind = "none" THEN <<>>
                      ELSE <<[pd |-> p, fresh |-> TRUE, busy |-> (kind = "busy")]>>
        IN  line' = [line EXCEPT ![chan[p]] = Outdated(rest, p) \o answer]
    /\ \E w \in 1..Rounds :
        Hold(p, [pds[p] EXCEPT !.phy = "REPLY_WAIT", !.wait = w, !.rb = Outdated(@, p)])
    /\ UNCHANGED <<chan, mem, cmds, late>>

Waiting(p) ==
    /\ Turn(p) /\ pds[p].phy = "WAIT" /\ pds[p].wait > 0
    /\ Yield(p, pds[p])
    /\ UNCHANGED <<chan, mem, line, cmds, late>>

\* The command failed: get_next_err_state takes the PD offline, whatever it was doing.
Failed(r, w) == [r EXCEPT !.phy = "IDLE", !.st = "OFFLINE", !.wait = w]
RetryLater(r, w) == [r EXCEPT !.phy = "WAIT", !.wait = w]
Done(r, w) == [r EXCEPT !.phy = "IDLE", !.st = "ONLINE", !.retry = 0, !.wait = w]

\* Defect: the address is not compared.
Outcomes_AnyAddress(p, a, r, w) ==
    IF a.busy THEN {RetryLater(r, w)} ELSE IF a.fresh THEN {Done(r, w)} ELSE {Done(r, w), Failed(r, w)}

\* phy_check_packet: the PD's answer is taken, an answer of another PD is an error.
Outcomes(p, a, r, w) ==
    IF a.pd # p THEN {Failed(r, w)}
    ELSE IF a.busy THEN {RetryLater(r, w)}
    ELSE IF a.fresh THEN {Done(r, w)} ELSE {Done(r, w), Failed(r, w)}

\* REPLY_WAIT: what has arrived moves to the PD's own buffer, and its oldest answer is
\* looked at.
Receive(p) ==
    /\ Turn(p) /\ pds[p].phy = "REPLY_WAIT"
    /\ \E k \in 0..Len(line[chan[p]]) :
        LET answers == pds[p].rb \o SubSeq(line[chan[p]], 1, k)
        IN  /\ answers # <<>>
            /\ line' = [line EXCEPT ![chan[p]] = SubSeq(@, k + 1, Len(@))]
            /\ \E w \in 1..Rounds :
               \E r \in Outcomes(p, Head(answers), [pds[p] EXCEPT !.rb = Tail(answers)], w) :
                   Yield(p, r)
    /\ UNCHANGED <<chan, mem, cmds, late>>

NoAnswerYet(p) ==
    /\ Turn(p) /\ pds[p].phy = "REPLY_WAIT" /\ pds[p].rb = <<>> /\ pds[p].wait > 0
    /\ Hold(p, pds[p])
    /\ UNCHANGED <<chan, mem, line, cmds, late>>

\* The channel is released for the pause before the next try, whether or not the answer
\* still comes.
Timeout(p) ==
    LET due == \E a \in Range(line[chan[p]]) : a.pd = p /\ a.fresh
    IN  /\ Turn(p) /\ pds[p].phy = "REPLY_WAIT" /\ pds[p].rb = <<>> /\ pds[p].wait = 0
        /\ IF due THEN late < MaxLate[chan] /\ late' = late + 1 ELSE UNCHANGED late
        /\ \E w \in 1..Rounds :
            Yield(p, IF pds[p].retry < MaxRetries
                     THEN [RetryLater(pds[p], w) EXCEPT !.retry = @ + 1]
                     ELSE Failed(pds[p], w))
        /\ UNCHANGED <<chan, mem, line, cmds>>

Visit(p) ==
    \/ Refused(p) \/ KickSetup(p) \/ KickCommand(p) \/ KickPoll(p) \/ Offline(p)
    \/ Send(p) \/ Waiting(p) \/ Receive(p) \/ NoAnswerYet(p) \/ Timeout(p)

Refresh == BeginRound \/ \E p \in 1..NumPd : Visit(p)

Next ==
    \/ AddPd
    \/ Refresh
    \/ \E p \in 1..NumPd : Submit(p) \/ FlushCommands(p)

\* The application adds its PDs and calls osdp_cp_refresh again and again.
Fairness == WF_vars(AddPd) /\ WF_vars(Refresh)

Spec == Init /\ [][Next]_vars
FairSpec == Spec /\ Fairness

-----------------------------------------------------------------------------
(* Properties                                                              *)

\* At most one PD of a channel is waited for at a time, and a PD's entry of the locks is
\* its own channel or none, as cp_channel_acquire asserts (osdp_cp.c:116-150).
OneOnTheLine ==
    /\ \A p, q \in 1..NumPd :
        p # q /\ chan[p] = chan[q] => "REPLY_WAIT" \notin {pds[p].phy} \cap {pds[q].phy}
    /\ \A p \in 1..NumPd : lock[Slot(p)] \in {0, chan[p]}

\* A PD's command succeeds only with an answer of that PD, although a late one of another
\* PD may be read in its place: what the panel takes for an answer came from the PD
\* whose turn it is (osdp_phy.c:462-471).
OwnAnswers ==
    [][\A p \in 1..NumPd :
        pds[p].phy = "REPLY_WAIT" /\ pds'[p].phy = "IDLE" /\ pds'[p].st # "OFFLINE" =>
            Head(pds[p].rb \o line[chan[p]]).pd = p]_vars

\* Each PD is sent a command again and again, however the others on its channel behave:
\* the channel is always released, and the round comes to each PD (osdp_cp.c:1327-1353,
\* 1588-1610).
EveryPdServed ==
    \A p \in Pds : []<>(p \in DOMAIN chan => p \in 1..NumPd /\ pds[p].phy = "REPLY_WAIT")

Fifo == INSTANCE CmdFifo WITH
    Size <- PoolSize, Cmds <- UNION {1..MaxCmds[t] : t \in Topologies},
    pending <- [p \in Pds |-> IF p <= NumPd THEN Pending(mem[p]) ELSE <<>>],
    current <- [p \in Pds |-> IF p <= NumPd THEN pds[p].cmd ELSE 0],
    free <- [p \in Pds |->
              IF p <= NumPd THEN PoolSize - Cardinality(mem[p].leased) ELSE PoolSize]

\* Slab and list together are a bounded queue for each PD that loses no command and no
\* place, through acceptance, sending and flushing (osdp_cp.c:55-114).
QueueImplemented == Fifo!Spec
==============================================================================
