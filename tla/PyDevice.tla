------------------------------ MODULE PyDevice ------------------------------
(***************************************************************************)
(* The Python binding of libosdp: a ControlPanel or a PeripheralDevice,    *)
(* the thread that refreshes it, and the application's threads that call   *)
(* it.  libosdp has no locks of its own.  Most calls take the device's     *)
(* lock; those in Unlocked do not.  start makes a new lock and a new       *)
(* thread, which are numbered here.                                        *)
(*                                                                         *)
(* The C code runs under the interpreter's lock and gives it up in each    *)
(* callback, where the thread is suspended.  A refresh calls the handlers  *)
(* of the application, and so does the submission of a file transfer: it   *)
(* opens the file.  No call releases the device's lock on an exception.    *)
(* One thread, Owner, starts and stops the device.  get_file_tx_status     *)
(* without file operations is not called: the process would end.           *)
(***************************************************************************)
EXTENDS Integers

CONSTANTS
    Apps,        \* threads of the application
    Owner,       \* the one that calls start, stop and teardown
    MaxStarts,   \* bound: calls of start
    MaxFaults    \* bound: constructors that raise, calls and callbacks that raise or call the device

ASSUME PyAssumption ==
    /\ Owner \in Apps /\ {"free", "refresher"} \cap Apps = {}
    /\ {MaxStarts, MaxFaults} \subseteq Nat

VARIABLES
    ctx,        \* self.ctx: "none" until the device is made, "set", "cleared" by teardown
    thread,     \* self.thread, 0 for None
    lock,       \* self.lock, 0 for None
    event,      \* the event of each thread is set
    holder,     \* who holds each lock
    refresher,  \* where each refresh thread is
    app,        \* where each thread of the application is
    spanned,    \* history: start replaced the lock while a call was under way
    faults      \* uses of the bound

device == <<ctx, thread, lock>>
vars == <<device, event, holder, refresher, app, spanned, faults>>

Starts == 1..MaxStarts

\* lk is the lock that acquire was called on; how, what will become of the call; last, stop
\* was called by teardown.
Idle == [pc |-> "idle", lk |-> 0, how |-> "returns", last |-> FALSE]

Init ==
    /\ ctx = "none" /\ thread = 0 /\ lock = 0
    /\ event = [g \in Starts |-> FALSE]
    /\ holder = [g \in Starts |-> "free"]
    /\ refresher = [g \in Starts |-> "none"]
    /\ app = [a \in Apps |-> Idle]
    /\ spanned = FALSE /\ faults = 0

Fault == faults < MaxFaults /\ faults' = faults + 1

-----------------------------------------------------------------------------
(* Calls of the application                                                *)

\* The methods that take the lock, by whether they raise: not with an address that is known;
\* with a malformed command, event, capability or file_ops; always, as the method table gives
\* them no arguments.
Queries == {"status", "sc_status", "get_pd_id", "get_file_tx_status"}
Checked == {"submit_command", "check_capability"}
PdChecked == {"submit_event"}
FileChecked == {"register_file_ops"}
Flags == {"set_flag", "clear_flag"}
Methods == Queries \cup Checked \cup PdChecked \cup FileChecked \cup Flags

\* submit_command of a file transfer calls the application's open handler, which may raise,
\* or use the device.
Opens == {"submit_command"}

Outcomes(m) ==
    (IF m \in Flags THEN {} ELSE {"returns"}) \cup (IF m \in Queries THEN {} ELSE {"raises"})
    \cup (IF m \in Opens THEN {"calls"} ELSE {})

\* self.lock.acquire() of a method.
CallBegin(a, m) ==
    /\ app[a].pc = "idle" /\ lock # 0
    /\ \E how \in Outcomes(m) :
          /\ IF how = "returns" THEN UNCHANGED faults ELSE Fault
          /\ app' = [app EXCEPT ![a] = [Idle EXCEPT !.pc = "acquire", !.lk = lock, !.how = how]]
    /\ UNCHANGED <<device, event, holder, refresher, spanned>>

CallAcquire(a) ==
    /\ app[a].pc = "acquire" /\ holder[app[a].lk] = "free"
    /\ holder' = [holder EXCEPT ![app[a].lk] = a]
    /\ app' = [app EXCEPT ![a].pc = "inside"]
    /\ UNCHANGED <<device, event, refresher, spanned, faults>>

\* The call of self.ctx; an exception, of the call or as ctx is None, passes by the release.
\* A handler waits for ever for the lock its own thread holds, unless start has replaced that.
CallRuns(a) ==
    /\ app[a].pc = "inside"
    /\ app' = [app EXCEPT ![a] = IF @.how = "raises" \/ ctx # "set" THEN Idle
                                 ELSE IF @.how = "calls" /\ @.lk = lock
                                      THEN [@ EXCEPT !.pc = "stuck"]
                                      ELSE [@ EXCEPT !.pc = "release"]]
    /\ UNCHANGED <<device, event, holder, refresher, spanned, faults>>

\* self.lock.release(), of what self.lock is by now.
CallRelease(a) ==
    /\ app[a].pc = "release"
    /\ holder' = [holder EXCEPT ![lock] = "free"]
    /\ app' = [app EXCEPT ![a] = Idle]
    /\ UNCHANGED <<device, event, refresher, spanned, faults>>

\* is_online and is_sc_active of a PeripheralDevice, and setting a handler, go to self.ctx as
\* they are, whoever is inside; once ctx is None they raise, which leaves nothing behind.
Unlocked == {"is_online", "is_sc_active", "set_command_handler", "set_event_handler"}

CallBeside(a, m) ==
    /\ app[a].pc = "idle" /\ ctx = "set"
    /\ app' = [app EXCEPT ![a] = [Idle EXCEPT !.pc = "beside"]]
    /\ UNCHANGED <<device, event, holder, refresher, spanned, faults>>

BesideReturns(a) ==
    /\ app[a].pc = "beside"
    /\ app' = [app EXCEPT ![a] = Idle]
    /\ UNCHANGED <<device, event, holder, refresher, spanned, faults>>

-----------------------------------------------------------------------------
(* Start and stop                                                          *)

\* The constructor makes the context of libosdp, or raises: a description of a PD or its
\* channel is malformed, or the set-up fails.
Construct ==
    /\ app[Owner].pc = "idle" /\ ctx = "none"
    /\ \/ ctx' = "set" /\ UNCHANGED faults
       \/ Fault /\ UNCHANGED ctx
    /\ UNCHANGED <<thread, lock, event, holder, refresher, app, spanned>>

Busy(a) == app[a].pc \in {"acquire", "inside", "stuck", "release"}

\* start raises while self.thread is set.
Start ==
    /\ app[Owner].pc = "idle" /\ ctx # "none"
    /\ thread = 0 /\ lock < MaxStarts
    /\ lock' = lock + 1 /\ thread' = lock + 1
    /\ refresher' = [refresher EXCEPT ![lock + 1] = "loop"]
    /\ spanned' = (spanned \/ \E a \in Apps : Busy(a))
    /\ UNCHANGED <<ctx, event, holder, app, faults>>

Alive(g) == refresher[g] \notin {"none", "dead"}

\* stop, of its own or called by teardown; it raises if there is no thread.
StopBegin(last) ==
    /\ app[Owner].pc = "idle" /\ thread # 0
    /\ app' = [app EXCEPT ![Owner] = [Idle EXCEPT !.pc = "while", !.last = last]]
    /\ UNCHANGED <<device, event, holder, refresher, spanned, faults>>

\* The end of stop, and with teardown of the device.
StopReturn ==
    /\ app' = [app EXCEPT ![Owner] = Idle]
    /\ ctx' = IF app[Owner].last THEN "cleared" ELSE ctx
    /\ UNCHANGED <<lock, holder, refresher, spanned, faults>>

\* Defect: the thread is not told to end.
StopWhile_Untold ==
    /\ app[Owner].pc = "while"
    /\ IF Alive(thread)
       THEN /\ app' = [app EXCEPT ![Owner].pc = "joined"]
            /\ UNCHANGED <<device, event, holder, refresher, spanned, faults>>
       ELSE StopReturn /\ UNCHANGED <<thread, event>>

\* The loop tests the thread, tells it to end and waits for two seconds at most; a thread
\* that is found dead here stays self.thread.
StopWhile ==
    /\ app[Owner].pc = "while"
    /\ IF Alive(thread)
       THEN /\ event' = [event EXCEPT ![thread] = TRUE]
            /\ app' = [app EXCEPT ![Owner].pc = "joined"]
            /\ UNCHANGED <<device, holder, refresher, spanned, faults>>
       ELSE StopReturn /\ UNCHANGED <<thread, event>>

\* Defect: one wait is taken to be enough.
StopJoined_Once ==
    /\ app[Owner].pc = "joined"
    /\ StopReturn /\ thread' = 0 /\ UNCHANGED event

\* Only a thread that was seen to end in the wait is forgotten.
StopJoined ==
    /\ app[Owner].pc = "joined"
    /\ IF Alive(thread)
       THEN /\ app' = [app EXCEPT ![Owner].pc = "while"]
            /\ UNCHANGED <<device, event, holder, refresher, spanned, faults>>
       ELSE StopReturn /\ thread' = 0 /\ UNCHANGED event

-----------------------------------------------------------------------------
(* The refresh thread                                                      *)

Goto(g, where) == refresher' = [refresher EXCEPT ![g] = where]

\* while not event.is_set()
RefreshLoop(g) ==
    /\ refresher[g] = "loop"
    /\ Goto(g, IF event[g] THEN "dead" ELSE "acquire")
    /\ UNCHANGED <<device, event, holder, app, spanned, faults>>

\* The thread was given the ctx of its start, which teardown clears after its end only.
RefreshAcquire(g) ==
    /\ refresher[g] = "acquire" /\ holder[g] = "free"
    /\ holder' = [holder EXCEPT ![g] = "refresher"]
    /\ Goto(g, IF ctx = "set" THEN "inside" ELSE "dead")
    /\ UNCHANGED <<device, event, app, spanned, faults>>

\* What a callback of the refresh can do besides returning.  The handlers are code of the
\* application, which may use the device; its lock is not reentrant (what is in Unlocked
\* returns).  A command handler "raises" by not returning a pair.  (If it throws, the process
\* ends: the C code parses the pair it did not get.)
EventHandler == {"raises", "calls"}
CommandHandler == {"raises", "calls"}
ChannelCallback == {"raises"}
FileCallback == {"raises"}

\* The C code goes on after a callback raised; the exception surfaces when refresh returns.
RefreshCallback(g) ==
    /\ refresher[g] = "inside" /\ Fault
    /\ \E what \in EventHandler \cup CommandHandler \cup ChannelCallback \cup FileCallback :
          Goto(g, IF what = "raises" THEN "failing" ELSE "stuck")
    /\ UNCHANGED <<device, event, holder, app, spanned>>

RefreshReturn(g) ==
    /\ \/ refresher[g] = "inside" /\ Goto(g, "release")
       \/ refresher[g] = "failing" /\ Goto(g, "dead")
    /\ UNCHANGED <<device, event, holder, app, spanned, faults>>

\* lock.release(), which raises if somebody else has released it, and 20 ms of sleep.
RefreshRelease(g) ==
    /\ refresher[g] = "release"
    /\ holder' = [holder EXCEPT ![g] = "free"]
    /\ Goto(g, IF holder[g] = "free" THEN "dead" ELSE "loop")
    /\ UNCHANGED <<device, event, app, spanned, faults>>

-----------------------------------------------------------------------------

Stop == StopWhile \/ StopJoined
CallStep(a) == CallRuns(a) \/ CallRelease(a) \/ BesideReturns(a)
RefreshStep(g) == RefreshLoop(g) \/ RefreshReturn(g) \/ RefreshRelease(g)

Next ==
    \/ Construct
    \/ Start
    \/ \E last \in BOOLEAN : StopBegin(last)
    \/ Stop
    \/ \E a \in Apps :
          \/ \E m \in Methods : CallBegin(a, m)
          \/ \E m \in Unlocked : CallBeside(a, m)
          \/ CallAcquire(a)
          \/ CallStep(a)
    \/ \E g \in Starts : RefreshAcquire(g) \/ RefreshCallback(g) \/ RefreshStep(g)

Spec == Init /\ [][Next]_vars

\* Threads run, and callbacks return.  A lock that becomes free again and again is obtained:
\* the refresh thread sleeps without it, and the application's threads do not spin on it.
Fairness ==
    /\ WF_vars(Stop)
    /\ \A a \in Apps : WF_vars(CallStep(a)) /\ SF_vars(CallAcquire(a))
    /\ \A g \in Starts : WF_vars(RefreshStep(g)) /\ SF_vars(RefreshAcquire(g))
FairSpec == Spec /\ Fairness

-----------------------------------------------------------------------------
(* Properties                                                              *)

\* The threads that are inside libosdp under a lock of the device, suspended in a handler or not.
InApp == {a \in Apps : app[a].pc \in {"inside", "stuck"}}
InRefresh == {g \in Starts : refresher[g] \in {"inside", "failing", "stuck"}}

\* Of the calls that take the device's lock and the refreshes, one at a time is inside libosdp,
\* whatever raises; after stop has ended the thread no refresh is; as long as no call is under
\* way when the device is started again.  The calls in Unlocked come beside them.
OneUnderLock ==
    ~spanned => /\ \A a, b \in InApp : a = b
                /\ \A g, h \in InRefresh : g = h
                /\ InApp = {} \/ InRefresh = {}
                /\ thread = 0 => InRefresh = {}

\* A lock that its holder will not release any more.
Leaked(g) ==
    \/ holder[g] = "refresher" /\ refresher[g] \in {"dead", "stuck"}
    \/ \E a \in Apps : holder[g] = a /\ ~(app[a].pc \in {"inside", "release"} /\ app[a].lk = g)

\* Every call returns, stop and teardown included, unless an exception or a handler that
\* called the device has left a lock held for good.
CallsReturn == \A a \in Apps : []<>(app[a].pc = "idle" \/ \E g \in Starts : Leaked(g))
=============================================================================
