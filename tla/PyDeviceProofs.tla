--------------------------- MODULE PyDeviceProofs ---------------------------
(***************************************************************************)
(* One thread at a time is inside libosdp under the device's lock: a       *)
(* theorem about PyDevice, for any threads of the application, starts and  *)
(* faults.                                                                 *)
(***************************************************************************)
EXTENDS PyDevice, TLAPS

USE PyAssumption

AppAt == {"idle", "acquire", "inside", "stuck", "release", "beside", "while", "joined"}
Hows == {"returns", "raises", "calls"}
RefresherAt == {"none", "loop", "acquire", "inside", "failing", "stuck", "release", "dead"}
InLock == {"inside", "failing", "stuck", "release"}

TypeOK ==
    /\ thread \in Nat /\ lock \in Nat
    /\ event \in [Starts -> BOOLEAN]
    /\ holder \in [Starts -> Apps \cup {"free", "refresher"}]
    /\ refresher \in [Starts -> RefresherAt]
    /\ app \in [Apps -> [pc : AppAt, lk : Nat, how : Hows, last : BOOLEAN]]

\* start makes one lock and one thread, and no other thread is alive.
Threads ==
    /\ lock \in 0..MaxStarts /\ thread \in {0, lock}
    /\ \A g \in Starts : Alive(g) => g = thread

\* A refresh holds its lock, an application's call the present one: unless start has
\* replaced the lock while the call was under way.
Locks ==
    ~spanned =>
       /\ \A a \in Apps : Busy(a) => lock # 0 /\ app[a].lk = lock
       /\ \A a \in Apps : app[a].pc \in {"inside", "stuck", "release"} => holder[lock] = a
       /\ \A g \in Starts : refresher[g] \in InLock => holder[g] = "refresher"

IInv == TypeOK /\ Threads /\ Locks

LEMMA IdleTyped == Idle \in [pc : AppAt, lk : Nat, how : Hows, last : BOOLEAN]
  BY DEF Idle, AppAt, Hows

\* What the invariant is about is left alone.
LEMMA Untouched ==
    ASSUME IInv, UNCHANGED <<thread, lock, holder, refresher, app, spanned>>,
           event' \in [Starts -> BOOLEAN]
    PROVE  IInv'
  BY DEF IInv, TypeOK, Threads, Alive, Locks, Busy

\* A thread of the application that moves without a lock, or gives up the one it had.
LEMMA AppMoves ==
    ASSUME IInv, UNCHANGED <<lock, holder, refresher, spanned>>, NEW a \in Apps,
           NEW r \in [pc : AppAt, lk : Nat, how : Hows, last : BOOLEAN],
           app' = [app EXCEPT ![a] = r],
           r.pc \in {"acquire", "inside", "stuck", "release"}
              => /\ lock # 0
                 /\ Busy(a) => r.lk = app[a].lk
                 /\ ~Busy(a) => r.lk = lock,
           r.pc \in {"inside", "stuck", "release"} => app[a].pc \in {"inside", "stuck", "release"},
           event' \in [Starts -> BOOLEAN],
           thread' = thread \/ (thread' = 0 /\ ~Alive(thread))
    PROVE  IInv'
  <1>1. TypeOK'
    BY DEF IInv, TypeOK
  <1>2. Threads'
    BY DEF IInv, TypeOK, Threads, Alive
  <1>3. /\ app'[a] = r
        /\ \A b \in Apps \ {a} : app'[b] = app[b]
    BY DEF IInv, TypeOK
  <1>4. Locks'
    BY <1>3 DEF IInv, Locks, Busy
  <1> QED  BY <1>1, <1>2, <1>4 DEF IInv

\* A refresh thread that moves without obtaining or releasing its lock.
LEMMA RefreshMoves ==
    ASSUME IInv, UNCHANGED <<thread, lock, event, holder, app, spanned>>,
           NEW g \in Starts, NEW where \in RefresherAt, Goto(g, where),
           Alive(g),
           where # "none",
           where \in InLock => refresher[g] \in InLock
    PROVE  IInv'
  BY DEF IInv, TypeOK, Threads, Alive, Locks, Busy, Goto

\* Locks exclude the refresh and the calls that take them, whatever raises and however often the
\* device is stopped and started.
THEOREM OneThreadUnderLock == Spec => []OneUnderLock
<1>1. Init => IInv
  BY DEF Init, IInv, TypeOK, Threads, Alive, Locks, Busy, Idle, AppAt, Hows, RefresherAt, InLock, Starts
<1>2. IInv /\ [Next]_vars => IInv'
  <2> SUFFICES ASSUME IInv, [Next]_vars PROVE IInv'  OBVIOUS
  <2>1. CASE Construct
    BY <2>1, Untouched DEF Construct, IInv, TypeOK
  <2>2. CASE Start
    <3>1. lock + 1 \in Starts /\ lock' = lock + 1 /\ thread' = lock + 1
      BY <2>2 DEF Start, Starts, IInv, Threads, TypeOK
    <3>2. \A g \in Starts : ~Alive(g)
      BY <2>2 DEF Start, IInv, Threads, Starts
    <3>3. refresher' = [refresher EXCEPT ![lock + 1] = "loop"]
      BY <2>2 DEF Start
    <3>4. TypeOK'
      BY <2>2, <3>1 DEF Start, IInv, TypeOK, RefresherAt
    <3>5. Threads'
      BY <3>1, <3>2, <3>3 DEF Threads, Alive, Starts, IInv, TypeOK
    <3>6. Locks'
      <4>1. ~spanned' => \A a \in Apps : ~Busy(a)
        BY <2>2 DEF Start
      <4>2. \A g \in Starts : refresher'[g] \notin InLock
        BY <3>1, <3>2, <3>3 DEF Alive, InLock, IInv, TypeOK
      <4> QED  BY <2>2, <4>1, <4>2 DEF Start, Locks, Busy
    <3> QED  BY <3>4, <3>5, <3>6 DEF IInv
  <2>3. ASSUME NEW last \in BOOLEAN, StopBegin(last) PROVE IInv'
    <3> DEFINE r == [Idle EXCEPT !.pc = "while", !.last = last]
    <3>1. r \in [pc : AppAt, lk : Nat, how : Hows, last : BOOLEAN] /\ r.pc = "while"
      BY DEF Idle, AppAt, Hows
    <3> QED  BY <2>3, <3>1, AppMoves DEF StopBegin, device, IInv, TypeOK
  <2>4. ASSUME StopReturn, event' = event,
               thread' = thread \/ (thread' = 0 /\ ~Alive(thread))
        PROVE  IInv'
    BY <2>4, IdleTyped, AppMoves DEF StopReturn, Idle, IInv, TypeOK
  <2>5. CASE StopWhile
    <3>1. CASE Alive(thread)
      <4> DEFINE r == [app[Owner] EXCEPT !.pc = "joined"]
      <4>1. r \in [pc : AppAt, lk : Nat, how : Hows, last : BOOLEAN] /\ r.pc = "joined"
        BY DEF IInv, TypeOK, AppAt
      <4>2. app' = [app EXCEPT ![Owner] = r] /\ event' \in [Starts -> BOOLEAN]
        BY <2>5, <3>1 DEF StopWhile, IInv, TypeOK
      <4> QED  BY <2>5, <3>1, <4>1, <4>2, AppMoves DEF StopWhile, device
    <3>2. CASE ~Alive(thread)
      BY <2>5, <3>2, <2>4 DEF StopWhile
    <3> QED  BY <3>1, <3>2
  <2>6. CASE StopJoined
    <3>1. CASE Alive(thread)
      <4> DEFINE r == [app[Owner] EXCEPT !.pc = "while"]
      <4>1. r \in [pc : AppAt, lk : Nat, how : Hows, last : BOOLEAN] /\ r.pc = "while"
        BY DEF IInv, TypeOK, AppAt
      <4>2. app' = [app EXCEPT ![Owner] = r] /\ event' \in [Starts -> BOOLEAN]
        BY <2>6, <3>1 DEF StopJoined, IInv, TypeOK
      <4> QED  BY <2>6, <3>1, <4>1, <4>2, AppMoves DEF StopJoined, device
    <3>2. CASE ~Alive(thread)
      BY <2>6, <3>2, <2>4 DEF StopJoined
    <3> QED  BY <3>1, <3>2
  <2>7. ASSUME NEW a \in Apps, NEW m \in Methods, CallBegin(a, m) PROVE IInv'
    <3>1. PICK how \in Hows :
             app' = [app EXCEPT ![a] = [Idle EXCEPT !.pc = "acquire", !.lk = lock, !.how = how]]
      BY <2>7 DEF CallBegin, Outcomes, Hows
    <3> DEFINE r == [Idle EXCEPT !.pc = "acquire", !.lk = lock, !.how = how]
    <3>2. /\ r \in [pc : AppAt, lk : Nat, how : Hows, last : BOOLEAN]
          /\ r.pc = "acquire" /\ r.lk = lock
      BY DEF Idle, AppAt, Hows, IInv, TypeOK
    <3>3. lock # 0 /\ ~Busy(a)
      BY <2>7 DEF CallBegin, Busy
    <3> HIDE DEF r
    <3>4. app' = [app EXCEPT ![a] = r]
      BY <3>1 DEF r
    <3> QED  BY <2>7, <3>2, <3>3, <3>4, AppMoves DEF CallBegin, device, IInv, TypeOK
  <2>8. ASSUME NEW a \in Apps, CallAcquire(a) PROVE IInv'
    <3>1. TypeOK'
      BY <2>8 DEF CallAcquire, device, IInv, TypeOK, AppAt
    <3>2. Threads'
      BY <2>8 DEF CallAcquire, device, IInv, Threads, Alive
    <3>3. Locks'
      <4> SUFFICES ASSUME ~spanned PROVE Locks'
        BY <2>8 DEF CallAcquire, Locks
      <4>1. lock \in Starts /\ app[a].lk = lock /\ holder[lock] = "free"
        BY <2>8 DEF CallAcquire, IInv, Threads, Locks, Busy, Starts
      <4>2. holder' = [holder EXCEPT ![lock] = a] /\ app' = [app EXCEPT ![a].pc = "inside"]
        BY <2>8, <4>1 DEF CallAcquire
      <4>3. \A b \in Apps : app[b].pc \notin {"inside", "stuck", "release"}
        BY <4>1 DEF IInv, Locks
      <4>4. UNCHANGED <<lock, refresher>>
        BY <2>8 DEF CallAcquire, device
      <4>5. /\ app'[a].pc = "inside" /\ app'[a].lk = app[a].lk
            /\ \A b \in Apps \ {a} : app'[b] = app[b]
            /\ holder'[lock] = a
            /\ \A g \in Starts \ {lock} : holder'[g] = holder[g]
        BY <4>1, <4>2 DEF IInv, TypeOK
      <4>6. \A b \in Apps : Busy(b)' => lock # 0 /\ app'[b].lk = lock
        BY <4>1, <4>5 DEF IInv, Locks, Busy, Starts
      <4>7. \A b \in Apps : app'[b].pc \in {"inside", "stuck", "release"} => holder'[lock] = b
        BY <4>3, <4>5
      <4>8. \A g \in Starts : refresher[g] \in InLock => holder'[g] = "refresher"
        BY <4>1, <4>5 DEF IInv, Locks
      <4> QED  BY <4>4, <4>6, <4>7, <4>8 DEF Locks, Busy
    <3> QED  BY <3>1, <3>2, <3>3 DEF IInv
  <2>9. ASSUME NEW a \in Apps, CallRuns(a) PROVE IInv'
    <3>1. /\ Busy(a) /\ app[a].pc = "inside"
          /\ UNCHANGED <<device, event, holder, refresher, spanned>>
      BY <2>9 DEF CallRuns, Busy
    <3>2. CASE app' = [app EXCEPT ![a] = Idle]
      BY <3>1, <3>2, IdleTyped, AppMoves DEF Idle, device, IInv, TypeOK
    <3>3. ASSUME NEW pc \in {"stuck", "release"}, app' = [app EXCEPT ![a].pc = pc] PROVE IInv'
      <4> DEFINE r == [app[a] EXCEPT !.pc = pc]
      <4>1. /\ r \in [pc : AppAt, lk : Nat, how : Hows, last : BOOLEAN]
            /\ r.pc = pc /\ r.lk = app[a].lk
        BY DEF IInv, TypeOK, AppAt
      <4>2. app' = [app EXCEPT ![a] = r]
        BY <3>3 DEF IInv, TypeOK
      <4>3. CASE ~spanned
        BY <3>1, <4>1, <4>2, <4>3, AppMoves DEF device, IInv, TypeOK, Locks
      <4>4. CASE spanned
        BY <3>1, <4>1, <4>2, <4>4 DEF device, IInv, TypeOK, Threads, Alive, Locks
      <4> QED  BY <4>3, <4>4
    <3> QED  BY <2>9, <3>2, <3>3 DEF CallRuns
  <2>10. ASSUME NEW a \in Apps, CallRelease(a) PROVE IInv'
    <3>1. TypeOK'
      BY <2>10, IdleTyped DEF CallRelease, device, IInv, TypeOK
    <3>2. Threads'
      BY <2>10 DEF CallRelease, device, IInv, Threads, Alive
    <3>3. Locks'
      <4> SUFFICES ASSUME ~spanned PROVE Locks'
        BY <2>10 DEF CallRelease, Locks
      <4>1. lock \in Starts /\ holder[lock] = a
        BY <2>10 DEF CallRelease, IInv, Threads, Locks, Busy, Starts
      <4>2. /\ holder' = [holder EXCEPT ![lock] = "free"] /\ app' = [app EXCEPT ![a] = Idle]
            /\ UNCHANGED <<lock, refresher>>
        BY <2>10 DEF CallRelease, device
      <4>3. \A b \in Apps \ {a} : app[b].pc \notin {"inside", "stuck", "release"}
        BY <4>1 DEF IInv, Locks
      <4>4. refresher[lock] \notin InLock
        BY <4>1 DEF IInv, Locks
      <4> QED  BY <4>1, <4>2, <4>3, <4>4 DEF IInv, TypeOK, Locks, Busy, Idle
    <3> QED  BY <3>1, <3>2, <3>3 DEF IInv
  <2>10a. ASSUME NEW a \in Apps, NEW m \in Unlocked, CallBeside(a, m) PROVE IInv'
    <3> DEFINE r == [Idle EXCEPT !.pc = "beside"]
    <3>1. r \in [pc : AppAt, lk : Nat, how : Hows, last : BOOLEAN] /\ r.pc = "beside"
      BY DEF Idle, AppAt, Hows
    <3> QED  BY <2>10a, <3>1, AppMoves DEF CallBeside, device, IInv, TypeOK
  <2>10b. ASSUME NEW a \in Apps, BesideReturns(a) PROVE IInv'
    BY <2>10b, IdleTyped, AppMoves DEF BesideReturns, Idle, device, IInv, TypeOK
  <2>11. ASSUME NEW g \in Starts, RefreshAcquire(g) PROVE IInv'
    <3>1. /\ holder[g] = "free" /\ Alive(g)
          /\ holder' = [holder EXCEPT ![g] = "refresher"]
          /\ UNCHANGED <<thread, lock, event, app, spanned>>
      BY <2>11 DEF RefreshAcquire, Alive, device
    <3>2. PICK where \in {"inside", "dead"} : refresher' = [refresher EXCEPT ![g] = where]
      BY <2>11 DEF RefreshAcquire, Goto
    <3>3. TypeOK'
      BY <3>1, <3>2 DEF IInv, TypeOK, RefresherAt
    <3>4. Threads'
      BY <3>1, <3>2 DEF IInv, TypeOK, Threads, Alive
    <3>5. Locks'
      BY <3>1, <3>2 DEF IInv, TypeOK, Locks, Busy
    <3> QED  BY <3>3, <3>4, <3>5 DEF IInv
  <2>12. ASSUME NEW g \in Starts, RefreshCallback(g) PROVE IInv'
    <3>1. PICK where \in {"failing", "stuck"} : Goto(g, where)
      BY <2>12 DEF RefreshCallback
    <3> QED
      BY <2>12, <3>1, RefreshMoves DEF RefreshCallback, device, InLock, RefresherAt, Alive
  <2>13. ASSUME NEW g \in Starts, RefreshStep(g) PROVE IInv'
    <3>1. CASE RefreshLoop(g)
      <4>1. PICK where \in {"dead", "acquire"} : Goto(g, where)
        BY <3>1 DEF RefreshLoop
      <4> QED  BY <3>1, <4>1, RefreshMoves DEF RefreshLoop, device, InLock, RefresherAt, Alive
    <3>2. CASE RefreshReturn(g)
      BY <3>2, RefreshMoves DEF RefreshReturn, device, InLock, RefresherAt, Alive
    <3>3. CASE RefreshRelease(g)
      <4>1. /\ Alive(g) /\ holder' = [holder EXCEPT ![g] = "free"] /\ refresher[g] \in InLock
            /\ UNCHANGED <<thread, lock, event, app, spanned>>
        BY <3>3 DEF RefreshRelease, Alive, device, InLock
      <4>2. PICK where \in {"dead", "loop"} : refresher' = [refresher EXCEPT ![g] = where]
        BY <3>3 DEF RefreshRelease, Goto
      <4>3. TypeOK'
        BY <4>1, <4>2 DEF IInv, TypeOK, RefresherAt
      <4>4. Threads'
        BY <4>1, <4>2 DEF IInv, TypeOK, Threads, Alive
      <4>5. Locks'
        BY <4>1, <4>2 DEF IInv, TypeOK, Locks, Busy, InLock
      <4> QED  BY <4>3, <4>4, <4>5 DEF IInv
    <3> QED  BY <2>13, <3>1, <3>2, <3>3 DEF RefreshStep
  <2>14. CASE UNCHANGED vars
    BY <2>14, Untouched DEF vars, device, IInv, TypeOK
  <2> QED
    BY <2>1, <2>2, <2>3, <2>5, <2>6, <2>7, <2>8, <2>9, <2>10, <2>10a, <2>10b, <2>11, <2>12,
       <2>13, <2>14
    DEF Next, Stop, CallStep
<1>3. IInv => OneUnderLock
  <2> SUFFICES ASSUME IInv, ~spanned
               PROVE  /\ \A a, b \in InApp : a = b
                      /\ \A g, h \in InRefresh : g = h
                      /\ InApp = {} \/ InRefresh = {}
                      /\ thread = 0 => InRefresh = {}
    BY DEF OneUnderLock
  <2>1. \A g \in InRefresh : g = thread /\ g \in Starts /\ holder[g] = "refresher"
    BY DEF IInv, Threads, Alive, Locks, InRefresh, InLock
  <2>2. \A a \in InApp : a \in Apps /\ holder[lock] = a
    BY DEF IInv, Locks, InApp
  <2>3. \A g \in InRefresh : g = lock
    BY <2>1 DEF IInv, Threads, Starts
  <2> QED  BY <2>1, <2>2, <2>3 DEF Starts
<1> QED  BY <1>1, <1>2, <1>3, PTL DEF Spec
=============================================================================
