--------------------------- MODULE NetworkProofs ---------------------------
(***************************************************************************)
(* Theorems about Network: its four invariants hold for any number of      *)
(* sockets, retries, pages, events, saves and restarts.                    *)
(*                                                                         *)
(* Each invariant gets an inductive one of its own, about the few          *)
(* variables it needs; the steps that leave these alone are one case.      *)
(***************************************************************************)
EXTENDS Network, TLAPS

USE NetworkAssumption

Pages == Nat \ {0}
Events == {"START", "DISCONNECTED", "GOT_IP"}
Links == {"down", "connecting", "assoc", "up"}
SaveRecords == [what : Settings \cup {"none"}, at : {"none", "second"}, n : Nat, alone : BOOLEAN]

-----------------------------------------------------------------------------
(* Subscribing                                                             *)

\* The order in which app_main starts the tasks is the order of their slots.
Place(t) == CASE t = "evtpump" -> 0 [] t = "wspush" -> 1 [] t = "osdp" -> 2

\* The tasks that app_main has started.
Started == CASE main = "web" -> 1 [] main = "readers" -> 2 [] main = "up" -> 3 [] OTHER -> 0

\* The task started last is the only one that may still be subscribing: app_main runs below
\* all of them and gets on only when none of them is busy.
SubInv ==
    /\ sub \in [Tasks -> {"none", "start", "filled", "done"}]
    /\ bus \in [slot : [0..(MaxSubscribers - 1) -> Tasks \cup {None}], count : 0..3]
    /\ \A t \in Tasks : sub[t] = "none" <=> Place(t) >= Started
    /\ \A t \in Tasks : sub[t] = "done" <=> Place(t) < bus.count
    /\ \A t \in Tasks : Busy(t) => Place(t) = bus.count /\ Started = bus.count + 1
    /\ \A t \in Tasks : sub[t] \in {"filled", "done"} => bus.slot[Place(t)] = t

-----------------------------------------------------------------------------
(* Settings                                                                *)

\* A save that is alone has written the first value that is there, and nobody else is
\* saving that setting.
SaveInv ==
    /\ nvs \in [Settings -> [first : Nat, second : Nat]]
    /\ acked \in [Settings -> [n : Nat, torn : BOOLEAN]]
    /\ save \in [Savers -> SaveRecords]
    /\ used \in [Stimuli -> Nat]
    /\ \A t \in Savers : save[t].at = "second" <=> save[t].what # "none"
    /\ \A t \in Savers : save[t].what # "none" /\ save[t].alone =>
          /\ nvs[save[t].what].first = save[t].n
          /\ \A u \in Savers \ {t} : save[u].what # save[t].what
    /\ SettingsAreSaved

-----------------------------------------------------------------------------
(* The web page                                                            *)

\* A page has one socket, and a failed send is noted only of a page that is not the one
\* heard from last.
PageInv ==
    /\ used \in [Stimuli -> Nat]
    /\ fd \in Fds \cup {None}
    /\ sock \in [Fds -> Pages \cup {None}]
    /\ heard \in [page : Pages \cup {None}, raced : BOOLEAN]
    /\ \A f \in Fds : sock[f] # None => sock[f] <= used["client"]
    /\ heard.page # None => heard.page <= used["client"]
    /\ \A f, g \in Fds : sock[f] = sock[g] /\ sock[f] # None => f = g
    /\ push = "send" => fd # None
    /\ push = "drop" /\ ~heard.raced => \A f \in Fds : sock[f] = None \/ sock[f] # heard.page
    /\ LastHeardIsTold

-----------------------------------------------------------------------------
(* Wi-Fi                                                                   *)

NetRecords == [connected : BOOLEAN, ap : BOOLEAN, retry : Nat,
               bits : SUBSET {"CONNECTED", "FAILED"}, whole : BOOLEAN]

\* What the reader will say once it has handled the events: the last one that counts tells.
Reported ==
    \/ \E i \in DOMAIN evq :
          evq[i] = "GOT_IP" /\ \A j \in DOMAIN evq : j > i => evq[j] = "START"
    \/ net.connected /\ \A j \in DOMAIN evq : evq[j] = "START"

WifiInv ==
    /\ evq \in Seq(Events)
    /\ wifi \in [mode : {"off", "sta", "ap"}, link : Links]
    /\ net \in NetRecords
    /\ main \in {"boot", "ap"} => wifi = WifiBoot
    /\ Reported <=> wifi.link = "up"

-----------------------------------------------------------------------------
(* Which steps leave which variables alone                                 *)

\* The steps of the main task before it starts others, of the Wi-Fi driver and its events.
WifiStep ==
    \/ StartSta \/ NoCredentials \/ WaitOver \/ WifiStop \/ StartAp
    \/ HandleEvent \/ Attempt \/ Address \/ LinkLost

StartStep ==
    \/ StartTask("console", "web", "evtpump")
    \/ StartTask("web", "readers", "wspush")
    \/ StartTask("readers", "up", "osdp")

SaveStep ==
    \/ \E t \in Savers, w \in Settings : SaveFirst(t, w) \/ SaveRefused(t, w)
    \/ \E t \in Savers : SaveSecond(t) \/ SaveFailed(t)

PageStep == (\E f \in Fds : Open(f) \/ Text(f) \/ Close(f)) \/ Post \/ Push

LEMMA StepsOfParts ==
    ASSUME Next
    PROVE  \/ WifiStep \/ StartStep \/ SaveStep \/ PageStep \/ Reboot \/ FactoryReset
           \/ \E t \in Tasks : TaskStep(t)
  BY DEF Next, MainStep, WifiStep, StartStep, SaveStep, PageStep

LEMMA UsesCount ==
    ASSUME used \in [Stimuli -> Nat], NEW s \in Stimuli, NEW max, Use(s, max)
    PROVE  /\ used' \in [Stimuli -> Nat] /\ used'[s] = used[s] + 1
           /\ \A z \in Stimuli \ {s} : used'[z] = used[z]
  <1>1. used' = [used EXCEPT ![s] = @ + 1]
    BY Zenon DEF Use
  <1>2. used[s] + 1 \in Nat
    OBVIOUS
  <1> QED  BY <1>1, <1>2

LEMMA UsesTyped ==
    ASSUME used \in [Stimuli -> Nat], [Next]_vars
    PROVE  /\ used' \in [Stimuli -> Nat]
           /\ \A z \in Stimuli : used[z] <= used'[z]
  <1>1. UNCHANGED used \/ \E s \in Stimuli : \E max \in Nat : Use(s, max)
    <2> USE DEF Stimuli
    <2>1. CASE WifiStep
      BY <2>1 DEF WifiStep, StartSta, NoCredentials, WaitOver, WifiStop, StartAp, HandleEvent,
                  Attempt, Address, LinkLost
    <2>2. CASE StartStep
      BY <2>2 DEF StartStep, StartTask
    <2>3. CASE SaveStep
      BY <2>3 DEF SaveStep, SaveFirst, SaveRefused, SaveSecond, SaveFailed
    <2>4. CASE PageStep
      BY <2>4 DEF PageStep, Open, Text, Close, Post, Push, PushTake, PushSend, PushDrop
    <2>5. CASE Reboot \/ FactoryReset
      BY <2>5 DEF Reboot, FactoryReset
    <2>6. CASE \E t \in Tasks : TaskStep(t)
      BY <2>6 DEF TaskStep, SubscribeFill, SubscribeCount
    <2>7. CASE UNCHANGED vars
      BY <2>7 DEF vars
    <2> QED  BY <2>1, <2>2, <2>3, <2>4, <2>5, <2>6, <2>7, StepsOfParts
  <1>2. CASE UNCHANGED used
    BY <1>2
  <1>3. ASSUME NEW s \in Stimuli, NEW max \in Nat, Use(s, max)
        PROVE  used' \in [Stimuli -> Nat] /\ \A z \in Stimuli : used[z] <= used'[z]
    <2>1. /\ used' \in [Stimuli -> Nat] /\ used'[s] = used[s] + 1
          /\ \A z \in Stimuli \ {s} : used'[z] = used[z]
      BY <1>3, UsesCount
    <2> QED  BY <2>1
  <1> QED  BY <1>1, <1>2, <1>3

-----------------------------------------------------------------------------

\* No slot of the event bus is posted to before it has its queue, and no task that has
\* subscribed loses its slot to another, though mode_subscribe takes no lock.
THEOREM SubscribersKeepSlots == Spec => []SubscribersInSlots
<1> USE DEF Tasks, MaxSubscribers, Place
<1>1. Init => SubInv
  BY DEF Init, SubInv, BusBoot, Started, Busy
<1>2. SubInv /\ [Next]_vars => SubInv'
  <2> SUFFICES ASSUME SubInv, [Next]_vars PROVE SubInv'  OBVIOUS
  <2>1. CASE UNCHANGED <<sub, bus>> /\ Started' = Started
    BY <2>1 DEF SubInv, Busy
  <2>2. CASE StartStep
    <3>1. \A t \in Tasks : ~Busy(t)
      BY <2>2 DEF StartStep, StartTask, Goes, MayRun, Priority
    <3>2. CASE StartTask("console", "web", "evtpump")
      BY <3>1, <3>2 DEF StartTask, Goes, SubInv, Busy, Started
    <3>3. CASE StartTask("web", "readers", "wspush")
      BY <3>1, <3>3 DEF StartTask, Goes, SubInv, Busy, Started
    <3>4. CASE StartTask("readers", "up", "osdp")
      BY <3>1, <3>4 DEF StartTask, Goes, SubInv, Busy, Started
    <3> QED  BY <2>2, <3>2, <3>3, <3>4 DEF StartStep
  <2>3. ASSUME NEW t \in Tasks, SubscribeFill(t)
        PROVE  SubInv'
    <3>1. Place(t) = bus.count /\ bus.count \in 0..(MaxSubscribers - 1) /\ Started' = Started
      BY <2>3 DEF SubscribeFill, SubInv, Busy, Started, netVars
    <3>2. /\ bus' = [bus EXCEPT !.slot[bus.count] = t]
          /\ sub' = [sub EXCEPT ![t] = "filled"] /\ sub[t] = "start"
      BY <2>3 DEF SubscribeFill
    <3>3. /\ bus' \in [slot : [0..(MaxSubscribers - 1) -> Tasks \cup {None}], count : 0..3]
          /\ bus'.count = bus.count /\ bus'.slot[Place(t)] = t
          /\ \A u \in Tasks \ {t} : bus'.slot[Place(u)] = bus.slot[Place(u)]
      BY <3>1, <3>2 DEF SubInv
    <3> QED  BY <3>1, <3>2, <3>3 DEF SubInv, Busy
  <2>4. ASSUME NEW t \in Tasks, SubscribeCount(t)
        PROVE  SubInv'
    <3>1. Place(t) = bus.count /\ Started = bus.count + 1 /\ Started' = Started
      BY <2>4 DEF SubscribeCount, SubInv, Busy, Started, netVars
    <3>2. /\ bus' = [bus EXCEPT !.count = @ + 1] /\ bus.count + 1 \in 0..3
          /\ sub' = [sub EXCEPT ![t] = "done"] /\ sub[t] = "filled"
      BY <2>4, <3>1 DEF SubscribeCount
    <3>3. /\ bus' \in [slot : [0..(MaxSubscribers - 1) -> Tasks \cup {None}], count : 0..3]
          /\ bus'.count = bus.count + 1 /\ bus'.slot = bus.slot
      BY <3>2 DEF SubInv
    <3>4. \A u \in Tasks \ {t} : ~Busy(u) /\ Place(u) # Place(t) /\ sub'[u] = sub[u]
      BY <3>1, <3>2 DEF SubInv
    <3> QED  BY <3>1, <3>2, <3>3, <3>4 DEF SubInv, Busy
  <2>5. CASE Reboot \/ FactoryReset
    BY <2>5 DEF Reboot, FactoryReset, Restart, SubInv, BusBoot, Started, Busy
  <2>6. CASE WifiStep
    <3>1. UNCHANGED <<sub, bus>> /\ Started' = Started
      BY <2>6 DEF WifiStep, StartSta, NoCredentials, WaitOver, WifiStop, StartAp, HandleEvent,
                  Attempt, Address, LinkLost, Goes, busVars, Started
    <3> QED  BY <2>1, <3>1
  <2>7. CASE SaveStep \/ PageStep
    <3>1. UNCHANGED <<sub, bus, main>>
      BY <2>7 DEF SaveStep, SaveFirst, SaveRefused, SaveSecond, SaveFailed,
                  PageStep, Open, Text, Close, Post, Push,
                  PushTake, PushSend, PushDrop, busVars, netVars
    <3> QED  BY <2>1, <3>1 DEF Started
  <2>8. CASE UNCHANGED vars
    BY <2>1, <2>8 DEF vars, busVars, netVars, Started
  <2> QED  BY <2>2, <2>3, <2>4, <2>5, <2>6, <2>7, <2>8, StepsOfParts DEF TaskStep
<1>3. SubInv => SubscribersInSlots
  <2> SUFFICES ASSUME SubInv PROVE SubscribersInSlots  OBVIOUS
  <2>1. ASSUME NEW i \in 0..(bus.count - 1) PROVE bus.slot[i] # None
    <3>1. PICK t \in Tasks : Place(t) = i
      BY DEF SubInv
    <3> QED  BY <3>1 DEF SubInv
  <2>2. ASSUME NEW t \in Tasks, sub[t] = "done"
        PROVE  \E i \in 0..(bus.count - 1) : bus.slot[i] = t
    BY <2>2 DEF SubInv
  <2> QED  BY <2>1, <2>2 DEF SubscribersInSlots
<1> QED  BY <1>1, <1>2, <1>3, PTL DEF Spec

-----------------------------------------------------------------------------

LEMMA SaveTouched ==
    ASSUME SaveInv, UNCHANGED setVars, used' \in [Stimuli -> Nat]
    PROVE  SaveInv'
  BY DEF SaveInv, setVars, SettingsAreSaved, Pair

LEMMA FirstIsSaved ==
    ASSUME SaveInv, NEW t \in Savers, NEW w \in Settings, SaveFirst(t, w)
    PROVE  SaveInv'
  <1> DEFINE n == used["save"] + 2
             others == {u \in Savers \ {t} : save[u].what = w}
             mine == [what |-> w, at |-> "second", n |-> n, alone |-> others = {}]
             left(u) == IF u \in others THEN [save[u] EXCEPT !.alone = FALSE] ELSE save[u]
  <1>1. /\ save[t].at = "none" /\ n \in Nat
        /\ nvs' = [nvs EXCEPT ![w].first = n] /\ acked' = acked
        /\ save' = [u \in Savers |-> IF u = t THEN mine ELSE left(u)]
    BY DEF SaveFirst, MaySave, SaveInv, Stimuli
  <1>2. used' \in [Stimuli -> Nat]
    BY UsesCount DEF SaveFirst, MaySave, SaveInv, Stimuli
  <1>3. mine \in SaveRecords /\ \A u \in Savers : left(u) \in SaveRecords
    <2>1. \A b \in BOOLEAN : [what |-> w, at |-> "second", n |-> n, alone |-> b] \in SaveRecords
      BY <1>1 DEF SaveRecords
    <2>2. \A r \in SaveRecords : [r EXCEPT !.alone = FALSE] \in SaveRecords
      BY DEF SaveRecords
    <2>3. (others = {}) \in BOOLEAN /\ \A u \in Savers : save[u] \in SaveRecords
      BY DEF SaveInv
    <2> HIDE DEF n, others
    <2> QED  BY <2>1, <2>2, <2>3
  <1>4. save' \in [Savers -> SaveRecords] /\ save'[t] = mine
        /\ \A u \in Savers \ {t} : save'[u] = left(u)
    BY <1>1, <1>3
  <1>5. \A u \in Savers \ {t} :
           /\ save'[u].what = save[u].what /\ save'[u].at = save[u].at /\ save'[u].n = save[u].n
           /\ save'[u].alone <=> save[u].alone /\ save[u].what # w
    BY <1>4 DEF SaveInv, SaveRecords
  <1>6. /\ nvs' \in [Settings -> [first : Nat, second : Nat]]
        /\ nvs'[w].first = n /\ \A v \in Settings \ {w} : nvs'[v] = nvs[v]
    BY <1>1 DEF SaveInv
  <1>7. /\ save'[t].what = w /\ save'[t].at = "second" /\ save'[t].n = n
        /\ save'[t].alone <=> (\A u \in Savers \ {t} : save[u].what # w)
    <2>1. others = {} <=> \A u \in Savers \ {t} : save[u].what # w
      OBVIOUS
    <2> HIDE DEF n, others
    <2>2. mine.what = w /\ mine.at = "second" /\ mine.n = n
      BY Zenon
    <2>3. mine.alone <=> others = {}
      OBVIOUS
    <2> HIDE DEF mine
    <2> QED  BY <1>4, <2>1, <2>2, <2>3
  <1> HIDE DEF n, others, mine, left
  <1>8. ASSUME NEW u \in Savers
        PROVE  /\ save'[u].at = "second" <=> save'[u].what # "none"
               /\ save'[u].what # "none" /\ save'[u].alone =>
                     /\ nvs'[save'[u].what].first = save'[u].n
                     /\ \A v \in Savers \ {u} : save'[v].what # save'[u].what
    <2>1. CASE u = t
      BY <1>5, <1>6, <1>7, <2>1 DEF Settings
    <2>2. CASE u # t
      <3>1. save[u].what \in Settings \cup {"none"}
        BY DEF SaveInv, SaveRecords
      <3> QED  BY <1>1, <1>5, <1>6, <1>7, <2>2, <3>1 DEF SaveInv
    <2> QED  BY <2>1, <2>2
  <1>9. SettingsAreSaved'
    <2> SUFFICES ASSUME NEW v \in Settings, \A u \in Savers : save'[u].what # v,
                        ~acked'[v].torn
                 PROVE  nvs'[v] = Pair(acked'[v].n)
      BY DEF SettingsAreSaved
    <2>1. v # w /\ save[t].what # v
      BY <1>1, <1>7 DEF SaveInv, Settings
    <2>2. \A u \in Savers : save[u].what # v
      BY <1>5, <2>1
    <2>3. ~acked[v].torn => nvs[v] = Pair(acked[v].n)
      BY <2>2 DEF SaveInv, SettingsAreSaved
    <2> QED  BY <1>1, <1>6, <2>1, <2>3
  <1> QED  BY <1>1, <1>2, <1>4, <1>6, <1>8, <1>9 DEF SaveInv

LEMMA SecondIsSaved ==
    ASSUME SaveInv, NEW t \in Savers, SaveSecond(t)
    PROVE  SaveInv'
  <1> DEFINE w == save[t].what
             n == save[t].n
  <1>1. w \in Settings /\ n \in Nat /\ save[t].alone \in BOOLEAN
    BY DEF SaveSecond, SaveInv, SaveRecords
  <1>2. /\ nvs' = [nvs EXCEPT ![w].second = n]
        /\ acked' = [acked EXCEPT ![w] = [n |-> n, torn |-> ~save[t].alone]]
        /\ save' = [save EXCEPT ![t] = NoSave] /\ used' = used
    BY DEF SaveSecond
  <1>3. NoSave \in SaveRecords /\ NoSave.what = "none" /\ NoSave.at = "none"
    BY DEF NoSave, SaveRecords
  <1>4. /\ save' \in [Savers -> SaveRecords] /\ save'[t] = NoSave
        /\ \A u \in Savers \ {t} : save'[u] = save[u]
    BY <1>2, <1>3 DEF SaveInv
  <1>5. /\ nvs' \in [Settings -> [first : Nat, second : Nat]]
        /\ nvs'[w].first = nvs[w].first /\ nvs'[w].second = n
        /\ \A v \in Settings \ {w} : nvs'[v] = nvs[v]
    BY <1>1, <1>2 DEF SaveInv
  <1>6. \A v \in Settings : nvs'[v].first = nvs[v].first
    BY <1>5
  <1>7. /\ acked' \in [Settings -> [n : Nat, torn : BOOLEAN]]
        /\ acked'[w].n = n
        /\ acked'[w].torn <=> ~save[t].alone
        /\ \A v \in Settings \ {w} : acked'[v] = acked[v]
    BY <1>1, <1>2 DEF SaveInv
  <1>8. ~acked'[w].torn => nvs'[w] = Pair(n)
    <2> SUFFICES ASSUME save[t].alone PROVE nvs'[w] = Pair(n)  BY <1>7
    <2>1. nvs[w].first = n
      BY <1>1 DEF SaveInv, Settings
    <2> QED  BY <1>1, <1>5, <2>1 DEF Pair
  <1>9. ASSUME NEW u \in Savers
        PROVE  /\ save'[u].at = "second" <=> save'[u].what # "none"
               /\ save'[u].what # "none" /\ save'[u].alone =>
                     /\ nvs'[save'[u].what].first = save'[u].n
                     /\ \A v \in Savers \ {u} : save'[v].what # save'[u].what
    <2>1. CASE u = t
      BY <1>3, <1>4, <2>1
    <2>2. CASE u # t
      <3>1. save[u].what \in Settings \cup {"none"} /\ save'[u] = save[u]
        BY <1>4, <2>2 DEF SaveInv, SaveRecords
      <3> QED  BY <1>3, <1>4, <1>6, <2>2, <3>1 DEF SaveInv
    <2> QED  BY <2>1, <2>2
  <1>10. ~acked'[w].torn => nvs'[w] = Pair(acked'[w].n)
    BY <1>7, <1>8
  <1>11. ASSUME NEW v \in Settings \ {w}, \A u \in Savers : save'[u].what # v,
                ~acked'[v].torn
         PROVE  nvs'[v] = Pair(acked'[v].n)
    <2>1. \A u \in Savers : save[u].what # v
      BY <1>4, <1>11
    <2>2. ~acked[v].torn => nvs[v] = Pair(acked[v].n)
      BY <2>1 DEF SaveInv, SettingsAreSaved
    <2> QED  BY <1>5, <1>7, <1>11, <2>2
  <1> HIDE DEF w, n
  <1>12. SettingsAreSaved'
    BY <1>10, <1>11 DEF SettingsAreSaved
  <1> QED  BY <1>2, <1>4, <1>5, <1>7, <1>9, <1>12 DEF SaveInv

LEMMA SaveFails ==
    ASSUME SaveInv, NEW t \in Savers, SaveFailed(t)
    PROVE  SaveInv'
  <1> DEFINE w == save[t].what
             n == save[t].n
  <1>1. w \in Settings /\ n \in Nat
    BY DEF SaveFailed, SaveInv, SaveRecords
  <1>2. /\ nvs' = nvs \/ nvs' = [nvs EXCEPT ![w].second = n]
        /\ acked' = [acked EXCEPT ![w].torn = TRUE]
        /\ save' = [save EXCEPT ![t] = NoSave]
    BY DEF SaveFailed
  <1>3. used' \in [Stimuli -> Nat]
    BY UsesCount DEF SaveFailed, SaveInv, Stimuli
  <1>4. NoSave \in SaveRecords /\ NoSave.what = "none" /\ NoSave.at = "none"
    BY DEF NoSave, SaveRecords
  <1>5. /\ save' \in [Savers -> SaveRecords] /\ save'[t] = NoSave
        /\ \A u \in Savers \ {t} : save'[u] = save[u]
    BY <1>2, <1>4 DEF SaveInv
  <1>6. /\ nvs' \in [Settings -> [first : Nat, second : Nat]]
        /\ \A v \in Settings : nvs'[v].first = nvs[v].first
        /\ \A v \in Settings \ {w} : nvs'[v] = nvs[v]
    <2>1. CASE nvs' = nvs
      BY <2>1 DEF SaveInv
    <2>2. CASE nvs' = [nvs EXCEPT ![w].second = n]
      <3>1. nvs \in [Settings -> [first : Nat, second : Nat]]
        BY DEF SaveInv
      <3>2. [nvs[w] EXCEPT !.second = n] \in [first : Nat, second : Nat]
        BY <1>1, <3>1
      <3> HIDE DEF w, n
      <3>3. /\ nvs' \in [Settings -> [first : Nat, second : Nat]]
            /\ nvs'[w] = [nvs[w] EXCEPT !.second = n]
            /\ \A v \in Settings \ {w} : nvs'[v] = nvs[v]
        BY <1>1, <2>2, <3>1, <3>2
      <3> QED  BY <1>1, <3>1, <3>3
    <2> QED  BY <1>2, <2>1, <2>2
  <1>7. /\ acked' \in [Settings -> [n : Nat, torn : BOOLEAN]]
        /\ acked'[w].torn
        /\ \A v \in Settings \ {w} : acked'[v] = acked[v]
    <2>1. acked \in [Settings -> [n : Nat, torn : BOOLEAN]]
      BY DEF SaveInv
    <2>2. [acked[w] EXCEPT !.torn = TRUE] \in [n : Nat, torn : BOOLEAN]
      BY <1>1, <2>1
    <2> HIDE DEF w, n
    <2> QED  BY <1>1, <1>2, <2>1, <2>2
  <1>8. ASSUME NEW u \in Savers
        PROVE  /\ save'[u].at = "second" <=> save'[u].what # "none"
               /\ save'[u].what # "none" /\ save'[u].alone =>
                     /\ nvs'[save'[u].what].first = save'[u].n
                     /\ \A v \in Savers \ {u} : save'[v].what # save'[u].what
    <2>1. CASE u = t
      BY <1>4, <1>5, <2>1
    <2>2. CASE u # t
      <3>1. save[u].what \in Settings \cup {"none"} /\ save'[u] = save[u]
        BY <1>5, <2>2 DEF SaveInv, SaveRecords
      <3>2. save[u].what # "none" /\ save[u].alone =>
               nvs[save[u].what].first = save[u].n
               /\ \A v \in Savers \ {u} : save[v].what # save[u].what
        BY DEF SaveInv
      <3>3. save[u].at = "second" <=> save[u].what # "none"
        BY DEF SaveInv
      <3>4. \A v \in Savers \ {u} : save'[v].what \in {save[v].what, "none"}
        BY <1>4, <1>5
      <3> HIDE DEF w, n
      <3> QED  BY <1>6, <3>1, <3>2, <3>3, <3>4
    <2> QED  BY <2>1, <2>2
  <1>9. ASSUME NEW v \in Settings, \A u \in Savers : save'[u].what # v, ~acked'[v].torn
        PROVE  nvs'[v] = Pair(acked'[v].n)
    <2>1. v # w
      BY <1>7, <1>9
    <2>2. \A u \in Savers : save[u].what # v
      BY <1>5, <1>9, <2>1
    <2>3. ~acked[v].torn => nvs[v] = Pair(acked[v].n)
      BY <2>2 DEF SaveInv, SettingsAreSaved
    <2> QED  BY <1>6, <1>7, <1>9, <2>1, <2>3
  <1> HIDE DEF w, n
  <1>10. SettingsAreSaved'
    BY <1>9 DEF SettingsAreSaved
  <1> QED  BY <1>3, <1>5, <1>6, <1>7, <1>8, <1>10 DEF SaveInv

\* After any saves, failures of NVS, restarts and factory resets a setting is the pair
\* acknowledged last, unless a save since then got as far as its first value and was cut short,
\* met another save of it or failed.
THEOREM SettingsKept == Spec => []SettingsAreSaved
<1>1. Init => SaveInv
  <2> SUFFICES ASSUME Init PROVE SaveInv  OBVIOUS
  <2>1. PICK n \in {0, 1} : nvs = [w \in Settings |-> Pair(n)]
    BY DEF Init
  <2>2. /\ acked = [w \in Settings |-> [n |-> nvs[w].first, torn |-> FALSE]]
        /\ save = [t \in Savers |-> NoSave] /\ used \in [Stimuli -> Nat]
    BY DEF Init
  <2>3. NoSave \in SaveRecords /\ NoSave.what = "none" /\ NoSave.at = "none"
    BY DEF NoSave, SaveRecords
  <2> QED  BY <2>1, <2>2, <2>3 DEF SaveInv, SettingsAreSaved, Pair
<1>2. SaveInv /\ [Next]_vars => SaveInv'
  <2> SUFFICES ASSUME SaveInv, [Next]_vars PROVE SaveInv'  OBVIOUS
  <2>1. used' \in [Stimuli -> Nat]
    BY UsesTyped DEF SaveInv
  <2>2. CASE SaveStep
    <3>1. ASSUME NEW t \in Savers, NEW w \in Settings, SaveRefused(t, w) PROVE SaveInv'
      BY <2>1, <3>1, SaveTouched DEF SaveRefused
    <3> QED  BY <2>2, <3>1, FirstIsSaved, SecondIsSaved, SaveFails DEF SaveStep
  <2>3. CASE Reboot
    <3>1. /\ save' = [t \in Savers |-> NoSave] /\ nvs' = nvs
          /\ acked' = [w \in Settings |->
                         [acked[w] EXCEPT !.torn = @ \/ \E t \in Savers : save[t].what = w]]
      BY <2>3 DEF Reboot, Restart
    <3>2. \A w \in Settings :
             /\ acked'[w].n = acked[w].n /\ acked'[w] \in [n : Nat, torn : BOOLEAN]
             /\ acked'[w].torn <=> acked[w].torn \/ \E t \in Savers : save[t].what = w
      BY <3>1 DEF SaveInv
    <3>3. acked' \in [Settings -> [n : Nat, torn : BOOLEAN]]
      BY <3>1, <3>2
    <3>4. NoSave \in SaveRecords /\ NoSave.what = "none" /\ NoSave.at = "none"
      BY DEF NoSave, SaveRecords
    <3>5. SettingsAreSaved'
      <4> SUFFICES ASSUME NEW w \in Settings, ~acked'[w].torn
                   PROVE  nvs'[w] = Pair(acked'[w].n)
        BY DEF SettingsAreSaved
      <4>1. ~acked[w].torn /\ \A t \in Savers : save[t].what # w
        BY <3>2
      <4>2. nvs[w] = Pair(acked[w].n)
        BY <4>1 DEF SaveInv, SettingsAreSaved
      <4> QED  BY <3>1, <3>2, <4>2
    <3> QED  BY <2>1, <3>1, <3>3, <3>4, <3>5 DEF SaveInv
  <2>4. CASE FactoryReset
    <3>1. /\ save' = [t \in Savers |-> NoSave] /\ nvs' = [w \in Settings |-> Pair(0)]
          /\ acked' = [w \in Settings |-> [n |-> 0, torn |-> FALSE]]
      BY <2>4 DEF FactoryReset, Restart
    <3>2. NoSave \in SaveRecords /\ NoSave.what = "none" /\ NoSave.at = "none"
      BY DEF NoSave, SaveRecords
    <3> QED  BY <2>1, <3>1, <3>2 DEF SaveInv, SettingsAreSaved, Pair
  <2>5. CASE WifiStep \/ StartStep \/ \E t \in Tasks : TaskStep(t)
    BY <2>1, <2>5, SaveTouched
       DEF WifiStep, StartSta, NoCredentials, WaitOver, WifiStop, StartAp, HandleEvent, Attempt,
           Address, LinkLost, StartStep, StartTask, TaskStep, SubscribeFill, SubscribeCount
  <2>6. CASE PageStep
    BY <2>1, <2>6, SaveTouched
       DEF PageStep, Open, Text, Close, Post, Push, PushTake, PushSend, PushDrop
  <2>7. CASE UNCHANGED vars
    BY <2>1, <2>7, SaveTouched DEF vars
  <2> QED  BY <2>2, <2>3, <2>4, <2>5, <2>6, <2>7, StepsOfParts
<1>3. SaveInv => SettingsAreSaved
  BY DEF SaveInv
<1> QED  BY <1>1, <1>2, <1>3, PTL DEF Spec

-----------------------------------------------------------------------------

LEMMA PageTouched ==
    ASSUME PageInv, UNCHANGED webVars, used' \in [Stimuli -> Nat],
           used["client"] <= used'["client"]
    PROVE  PageInv'
  BY DEF PageInv, webVars, LastHeardIsTold, Stimuli, Pages

LEMMA PageHeard ==
    ASSUME PageInv, NEW f \in Fds, NEW c \in Pages, Heard(f, c), push' = push,
           sock' = [sock EXCEPT ![f] = c], used' \in [Stimuli -> Nat],
           c <= used'["client"], used["client"] <= used'["client"],
           c = sock[f] \/ used["client"] < c
    PROVE  PageInv'
  <1>1. fd' = f /\ heard' = [page |-> c, raced |-> push = "drop"]
    BY DEF Heard
  <1>2. /\ sock' \in [Fds -> Pages \cup {None}] /\ sock'[f] = c
        /\ \A g \in Fds \ {f} : sock'[g] = sock[g]
    BY DEF PageInv
  <1>3. \A g \in Fds \ {f} : sock[g] # c
    BY DEF PageInv, Pages, Stimuli
  <1>4. /\ heard' \in [page : Pages \cup {None}, raced : BOOLEAN]
        /\ heard'.page = c /\ c # None
    BY <1>1 DEF Pages
  <1>5. push = "drop" => heard'.raced
    BY <1>1
  <1>6. \A g \in Fds : sock'[g] # None => sock'[g] <= used'["client"]
    BY <1>2 DEF PageInv, Pages, Stimuli
  <1>7. \A g, h \in Fds : sock'[g] = sock'[h] /\ sock'[g] # None => g = h
    BY <1>2, <1>3 DEF PageInv
  <1>8. LastHeardIsTold'
    BY <1>1, <1>2, <1>3, <1>4 DEF LastHeardIsTold
  <1>9. fd' \in Fds \cup {None} /\ (push' = "send" => fd' # None)
    BY <1>1
  <1> QED  BY <1>2, <1>4, <1>5, <1>6, <1>7, <1>8, <1>9 DEF PageInv

\* However many pages come and go, the one heard from last is the one that is told, unless
\* a send to it failed or it was heard from while a failed send was noted.
THEOREM LastHeard == Spec => []LastHeardIsTold
<1>1. Init => PageInv
  BY DEF Init, PageInv, NoneHeard, LastHeardIsTold, Pages, Stimuli
<1>2. PageInv /\ [Next]_vars => PageInv'
  <2> SUFFICES ASSUME PageInv, [Next]_vars PROVE PageInv'  OBVIOUS
  <2>1. /\ used' \in [Stimuli -> Nat] /\ "client" \in Stimuli /\ used["client"] \in Nat
        /\ used["client"] <= used'["client"]
    BY UsesTyped DEF PageInv, vars, Stimuli
  <2>2. ASSUME NEW f \in Fds, Open(f) PROVE PageInv'
    <3> DEFINE c == used["client"] + 1
    <3>1. /\ c \in Pages /\ used'["client"] = c /\ used["client"] < c
          /\ used["client"] <= c /\ c <= c
      BY <2>1, <2>2, UsesCount DEF Open, PageInv, Pages
    <3>2. sock' = [sock EXCEPT ![f] = c] /\ Heard(f, c) /\ push' = push
      BY <2>2 DEF Open
    <3> HIDE DEF c
    <3> QED  BY <2>1, <3>1, <3>2, PageHeard
  <2>3. ASSUME NEW f \in Fds, Text(f) PROVE PageInv'
    <3> DEFINE c == sock[f]
    <3>1. c \in Pages /\ c <= used["client"] /\ used["client"] <= used'["client"]
      BY <2>1, <2>3 DEF Text, PageInv, Pages
    <3>2. sock' = [sock EXCEPT ![f] = c] /\ Heard(f, c) /\ push' = push
      BY <2>3 DEF Text, PageInv
    <3>3. c <= used'["client"]
      BY <2>1, <3>1 DEF PageInv, Pages
    <3> HIDE DEF c
    <3> QED  BY <2>1, <3>1, <3>2, <3>3, PageHeard DEF c
  <2>4. ASSUME NEW f \in Fds, Close(f) PROVE PageInv'
    <3>1. /\ sock' \in [Fds -> Pages \cup {None}] /\ sock'[f] = None
          /\ \A g \in Fds \ {f} : sock'[g] = sock[g]
          /\ UNCHANGED <<fd, push, heard, used>>
      BY <2>4 DEF Close, PageInv
    <3> QED  BY <3>1 DEF PageInv, LastHeardIsTold
  <2>5. CASE PushTake
    BY <2>5 DEF PushTake, PageInv, LastHeardIsTold
  <2>6. CASE PushSend
    <3>1. push = "send" /\ fd \in Fds /\ UNCHANGED <<fd, sock>>
      BY <2>6 DEF PushSend, PageInv
    <3>2. CASE sock[fd] # None /\ push' = "idle" /\ UNCHANGED <<heard, used>>
      BY <3>1, <3>2 DEF PageInv, LastHeardIsTold
    <3>3. CASE sock[fd] = None /\ push' = "drop" /\ UNCHANGED <<heard, used>>
      BY <3>1, <3>3 DEF PageInv, LastHeardIsTold
    <3>4. CASE /\ sock[fd] # None /\ Use("failed", MaxFailed) /\ push' = "drop"
               /\ heard' = IF heard.page = sock[fd] THEN NoneHeard ELSE heard
      <4>1. used'["client"] = used["client"]
        BY <3>4 DEF Use, PageInv, Stimuli
      <4>2. NoneHeard \in [page : Pages \cup {None}, raced : BOOLEAN] /\ NoneHeard.page = None
        BY DEF NoneHeard
      <4>3. CASE heard.page = sock[fd]
        BY <2>1, <3>1, <3>4, <4>1, <4>2, <4>3 DEF PageInv, LastHeardIsTold
      <4>4. CASE heard.page # sock[fd]
        <5>1. heard' = heard
          BY <3>4, <4>4
        <5>2. ~heard.raced => \A f \in Fds : sock[f] = None \/ sock[f] # heard.page
          BY <3>1, <4>4 DEF PageInv, LastHeardIsTold
        <5> QED  BY <2>1, <3>1, <3>4, <4>1, <5>1, <5>2 DEF PageInv, LastHeardIsTold
      <4> QED  BY <4>3, <4>4
    <3> QED  BY <2>6, <3>2, <3>3, <3>4 DEF PushSend
  <2>7. CASE PushDrop
    BY <2>7 DEF PushDrop, PageInv, LastHeardIsTold
  <2>8. CASE Reboot \/ FactoryReset
    <3>1. /\ fd' = None /\ sock' = [f \in Fds |-> None] /\ push' = "idle"
          /\ heard' = NoneHeard
      BY <2>8 DEF Reboot, FactoryReset, Restart
    <3>2. NoneHeard \in [page : Pages \cup {None}, raced : BOOLEAN] /\ NoneHeard.page = None
      BY DEF NoneHeard
    <3> QED  BY <2>1, <3>1, <3>2 DEF PageInv, LastHeardIsTold
  <2>9. CASE WifiStep \/ StartStep \/ SaveStep \/ Post \/ \E t \in Tasks : TaskStep(t)
    <3>1. UNCHANGED webVars
      BY <2>9 DEF WifiStep, StartSta, NoCredentials, WaitOver, WifiStop, StartAp, HandleEvent,
                  Attempt, Address, LinkLost, StartStep, StartTask, SaveStep, SaveFirst,
                  SaveRefused, SaveSecond, SaveFailed, Post, TaskStep, SubscribeFill, SubscribeCount
    <3> QED  BY <2>1, <3>1, PageTouched
  <2>10. CASE UNCHANGED vars
    BY <2>1, <2>10, PageTouched DEF vars, webVars
  <2> QED  BY <2>2, <2>3, <2>4, <2>5, <2>6, <2>7, <2>8, <2>9, <2>10, StepsOfParts
              DEF PageStep, Push
<1>3. PageInv => LastHeardIsTold
  BY DEF PageInv
<1> QED  BY <1>1, <1>2, <1>3, PTL DEF Spec

-----------------------------------------------------------------------------

\* An event that is queued is the last one that counts, unless it is START.
LEMMA ReportedAppend ==
    ASSUME evq \in Seq(Events), NEW e \in Events, evq' = Append(evq, e)
    PROVE  /\ evq' \in Seq(Events)
           /\ e = "GOT_IP" => Reported'
           /\ e = "DISCONNECTED" => ~Reported'
           /\ e = "START" /\ net'.connected = net.connected => (Reported' <=> Reported)
  <1> DEFINE n == Len(evq)
  <1>1. /\ n \in Nat /\ Len(evq') = n + 1 /\ evq'[n + 1] = e
        /\ \A i \in 1..n : evq'[i] = evq[i]
        /\ DOMAIN evq = 1..n /\ DOMAIN evq' = 1..(n + 1)
        /\ evq' \in Seq(Events)
    OBVIOUS
  <1> HIDE DEF n
  <1>2. n + 1 \in 1..(n + 1) /\ \A i \in 1..n : i \in 1..(n + 1) /\ n + 1 > i
    BY <1>1
  <1>3. e = "GOT_IP" => Reported'
    BY <1>1, <1>2 DEF Reported
  <1>4. e = "DISCONNECTED" => ~Reported'
    BY <1>1, <1>2 DEF Reported
  <1>5. ASSUME e = "START", net'.connected = net.connected
        PROVE  Reported' <=> Reported
    <2>1. ASSUME NEW i \in 1..n
          PROVE  (\A j \in 1..n : j > i => evq[j] = "START")
                   <=> (\A j \in 1..(n + 1) : j > i => evq'[j] = "START")
      <3>1. \A j \in 1..(n + 1) : j \in 1..n \/ j = n + 1
        BY <1>1
      <3> QED  BY <1>1, <1>2, <1>5, <3>1
    <2>2. (\A j \in 1..n : evq[j] = "START") <=> (\A j \in 1..(n + 1) : evq'[j] = "START")
      <3>1. \A j \in 1..(n + 1) : j \in 1..n \/ j = n + 1
        BY <1>1
      <3> QED  BY <1>1, <1>2, <1>5, <3>1
    <2>3. \A i \in 1..(n + 1) : evq'[i] = "GOT_IP" => i \in 1..n /\ evq[i] = "GOT_IP"
      <3>1. \A i \in 1..(n + 1) : i \in 1..n \/ i = n + 1
        BY <1>1
      <3> QED  BY <1>1, <1>5, <3>1
    <2> DEFINE Later == \E i \in 1..n : /\ evq[i] = "GOT_IP"
                                       /\ \A j \in 1..n : j > i => evq[j] = "START"
               Quiet == \A j \in 1..n : evq[j] = "START"
    <2>4. (\E i \in 1..(n + 1) :
             evq'[i] = "GOT_IP" /\ \A j \in 1..(n + 1) : j > i => evq'[j] = "START")
            <=> Later
      BY <1>1, <1>2, <2>1, <2>3
    <2>5. Reported <=> Later \/ (net.connected /\ Quiet)
      BY <1>1 DEF Reported
    <2>6. (\A j \in 1..(n + 1) : evq'[j] = "START") <=> Quiet
      BY <2>2
    <2>7. Reported' <=>
            \/ \E i \in 1..(n + 1) :
                  evq'[i] = "GOT_IP" /\ \A j \in 1..(n + 1) : j > i => evq'[j] = "START"
            \/ net'.connected /\ \A j \in 1..(n + 1) : evq'[j] = "START"
      BY <1>1 DEF Reported
    <2> HIDE DEF Later, Quiet
    <2> QED  BY <1>5, <2>4, <2>5, <2>6, <2>7
  <1> QED  BY <1>1, <1>3, <1>4, <1>5

\* An event that is handled leaves the last one that counts, or has been it.
LEMMA ReportedTail ==
    ASSUME evq \in Seq(Events), evq # <<>>, evq' = Tail(evq),
           net.connected \in BOOLEAN, net'.connected \in BOOLEAN,
           Head(evq) = "GOT_IP" => net'.connected,
           Head(evq) = "DISCONNECTED" => ~net'.connected,
           Head(evq) = "START" => net'.connected = net.connected
    PROVE  evq' \in Seq(Events) /\ (Reported' <=> Reported)
  <1> DEFINE n == Len(evq)
  <1>1. /\ n \in Nat \ {0} /\ Len(evq') = n - 1
        /\ \A i \in 1..(n - 1) : evq'[i] = evq[i + 1]
        /\ DOMAIN evq = 1..n /\ DOMAIN evq' = 1..(n - 1)
        /\ evq' \in Seq(Events) /\ Head(evq) = evq[1] /\ evq[1] \in Events
    OBVIOUS
  <1> HIDE DEF n
  <1>2. /\ \A i \in 1..n : i = 1 \/ (i > 1 /\ i - 1 \in 1..(n - 1) /\ (i - 1) + 1 = i)
        /\ \A i \in 1..(n - 1) : i + 1 \in 1..n /\ i + 1 > 1
        /\ 1 \in 1..n
    BY <1>1
  <1>3. \A j \in 1..n : j > 1 => evq[j] = evq'[j - 1]
    BY <1>1, <1>2
  <1> DEFINE Quiet == \A j \in 1..(n - 1) : evq'[j] = "START"
             Later == \E i \in 1..(n - 1) : /\ evq'[i] = "GOT_IP"
                                            /\ \A j \in 1..(n - 1) : j > i => evq'[j] = "START"
  <1>4. Reported' <=> Later \/ (net'.connected /\ Quiet)
    BY <1>1 DEF Reported
  <1>5. (\A j \in 1..n : j > 1 => evq[j] = "START") <=> Quiet
    <2>1. ASSUME \A j \in 1..n : j > 1 => evq[j] = "START", NEW i \in 1..(n - 1)
          PROVE  evq'[i] = "START"
      <3>1. i + 1 \in 1..n /\ i + 1 > 1 /\ evq'[i] = evq[i + 1]
        BY <1>1, <1>2
      <3> QED  BY <2>1, <3>1
    <2>2. ASSUME Quiet, NEW j \in 1..n, j > 1
          PROVE  evq[j] = "START"
      <3>1. j # 1 /\ j \in 1..n
        BY <2>2
      <3>2. j - 1 \in 1..(n - 1)
        BY <1>2, <3>1
      <3>3. evq[j] = evq'[j - 1]
        BY <1>3, <2>2
      <3> QED  BY <2>2, <3>2, <3>3
    <2> QED  BY <2>1, <2>2
  <1>6. (\E i \in 1..n : i > 1 /\ evq[i] = "GOT_IP" /\ \A j \in 1..n : j > i => evq[j] = "START")
          <=> Later
    <2>1. ASSUME NEW i \in 1..(n - 1)
          PROVE  (\A j \in 1..n : j > i + 1 => evq[j] = "START")
                   <=> (\A j \in 1..(n - 1) : j > i => evq'[j] = "START")
      <3>1. \A j \in 1..n : j > i + 1 => j - 1 \in 1..(n - 1) /\ j - 1 > i /\ evq[j] = evq'[j - 1]
        BY <1>1, <1>3
      <3>2. \A j \in 1..(n - 1) : j > i => j + 1 > i + 1 /\ j + 1 \in 1..n /\ evq'[j] = evq[j + 1]
        BY <1>1
      <3> QED  BY <3>1, <3>2
    <2>2. ASSUME NEW i \in 1..n, i > 1, evq[i] = "GOT_IP",
                 \A j \in 1..n : j > i => evq[j] = "START"
          PROVE  Later
      <3>1. i - 1 \in 1..(n - 1) /\ (i - 1) + 1 = i /\ evq'[i - 1] = "GOT_IP"
        BY <1>2, <1>3, <2>2
      <3>2. \A j \in 1..(n - 1) : j > i - 1 => evq'[j] = "START"
        BY <2>1, <2>2, <3>1
      <3> QED  BY <3>1, <3>2
    <2>3. ASSUME Later
          PROVE  \E i \in 1..n : i > 1 /\ evq[i] = "GOT_IP"
                                 /\ \A j \in 1..n : j > i => evq[j] = "START"
      <3>1. PICK i \in 1..(n - 1) : evq'[i] = "GOT_IP"
                                    /\ \A j \in 1..(n - 1) : j > i => evq'[j] = "START"
        BY <2>3
      <3>2. i + 1 \in 1..n /\ i + 1 > 1 /\ evq[i + 1] = "GOT_IP"
        BY <1>1, <1>2, <3>1
      <3>3. \A j \in 1..n : j > i + 1 => evq[j] = "START"
        BY <2>1, <3>1
      <3> QED  BY <3>2, <3>3
    <2> QED  BY <2>2, <2>3
  <1>7. Reported <=> \/ Later
                     \/ evq[1] = "GOT_IP" /\ Quiet
                     \/ net.connected /\ evq[1] = "START" /\ Quiet
    <2>1. (\A j \in 1..n : evq[j] = "START") <=> evq[1] = "START" /\ Quiet
      BY <1>2, <1>5
    <2> HIDE DEF Later, Quiet
    <2> QED  BY <1>1, <1>2, <1>5, <1>6, <2>1 DEF Reported
  <1> HIDE DEF Later, Quiet
  <1> QED  BY <1>1, <1>4, <1>7 DEF Events

LEMMA BootState ==
    ASSUME main = "boot", wifi = WifiBoot, evq = <<>>, net = NetBoot
    PROVE  WifiInv
  <1>1. /\ WifiBoot \in [mode : {"off", "sta", "ap"}, link : Links] /\ WifiBoot.link = "down"
        /\ NetBoot \in NetRecords
        /\ NetBoot.connected = FALSE
    BY DEF WifiBoot, NetBoot, Links, NetRecords
  <1>2. evq \in Seq(Events) /\ DOMAIN evq = {}
    OBVIOUS
  <1>3. ~Reported
    BY <1>1, <1>2 DEF Reported
  <1> QED  BY <1>1, <1>2, <1>3 DEF WifiInv

LEMMA WifiTouched ==
    ASSUME WifiInv, UNCHANGED <<wifi, evq, net>>,
           main' \in {"boot", "ap"} => main \in {"boot", "ap"} \/ wifi = WifiBoot
    PROVE  WifiInv'
  <1>1. Reported' <=> Reported
    BY DEF Reported
  <1> QED  BY <1>1 DEF WifiInv

\* Once the events are handled the reader's status is that of its connection, however they
\* interleave with app_main's waiting, stopping and opening its own network.
THEOREM StatusTold == Spec => []StatusIsTrue
<1>1. Init => WifiInv
  BY BootState DEF Init
<1>2. WifiInv /\ [Next]_vars => WifiInv'
  <2> SUFFICES ASSUME WifiInv, [Next]_vars PROVE WifiInv'  OBVIOUS
  <2> USE DEF Events, Links, NetRecords
  <2>1. CASE StartSta
    <3>1. /\ evq' = Append(evq, "START") /\ net'.connected = net.connected
          /\ main' = "wait" /\ wifi.link = "down"
          /\ wifi' = [mode |-> "sta", link |-> "down"]
          /\ net' = [net EXCEPT !.whole = (nvs["wifi"] = Pair(nvs["wifi"].first))]
      BY <2>1 DEF StartSta, Goes, WifiInv, WifiBoot
    <3>2. evq' \in Seq(Events) /\ (Reported' <=> Reported)
      BY <3>1, ReportedAppend DEF WifiInv
    <3> QED  BY <3>1, <3>2 DEF WifiInv
  <2>2. CASE NoCredentials
    BY <2>2, WifiTouched DEF NoCredentials, Goes
  <2>3. CASE WaitOver
    BY <2>3, WifiTouched DEF WaitOver, Goes
  <2>4. CASE WifiStop
    <3>1. main' = "ap" /\ wifi' = WifiBoot /\ net' = net
      BY <2>4 DEF WifiStop, Goes
    <3>2. evq' \in Seq(Events) /\ ~Reported'
      <4>1. CASE evq' = Append(evq, "DISCONNECTED")
        BY <4>1, ReportedAppend DEF WifiInv
      <4>2. CASE wifi.link \in {"down", "connecting"} /\ UNCHANGED evq
        BY <3>1, <4>2 DEF WifiInv, Reported
      <4> QED  BY <2>4, <4>1, <4>2 DEF WifiStop
    <3> QED  BY <3>1, <3>2 DEF WifiInv, WifiBoot
  <2>5. CASE StartAp
    <3>1. /\ main' = "console" /\ wifi' = [mode |-> "ap", link |-> "down"] /\ evq' = evq
          /\ net' = [net EXCEPT !.ap = TRUE] /\ wifi.link = "down"
      BY <2>5 DEF StartAp, Goes, WifiInv, WifiBoot
    <3>2. Reported' <=> Reported
      BY <3>1 DEF WifiInv, Reported
    <3> QED  BY <3>1, <3>2 DEF WifiInv
  <2>6. CASE HandleEvent
    <3>1. /\ evq # <<>> /\ evq' = Tail(evq) /\ main' = main /\ Head(evq) \in Events
      BY <2>6 DEF HandleEvent, WifiInv
    <3>2. Connect(wifi) \in [mode : {"off", "sta", "ap"}, link : Links]
          /\ (Connect(wifi).link = "up" <=> wifi.link = "up")
          /\ (wifi = WifiBoot => Connect(wifi) = WifiBoot)
      BY DEF Connect, WifiInv, WifiBoot
    <3>3. ASSUME NEW r \in NetRecords, NEW k \in Nat, NEW b \in SUBSET {"CONNECTED", "FAILED"}
          PROVE  /\ [r EXCEPT !.connected = FALSE, !.retry = k] \in NetRecords
                 /\ [r EXCEPT !.connected = FALSE, !.bits = b] \in NetRecords
                 /\ [r EXCEPT !.retry = 0, !.connected = TRUE, !.bits = b] \in NetRecords
      BY DEF NetRecords
    <3>4. /\ wifi' = wifi \/ wifi' = Connect(wifi)
          /\ net' \in NetRecords
          /\ Head(evq) = "GOT_IP" => net'.connected
          /\ Head(evq) = "DISCONNECTED" => ~net'.connected
          /\ Head(evq) = "START" => net'.connected = net.connected
      <4>1. CASE Head(evq) = "START"
        <5>1. UNCHANGED net /\ wifi' = Connect(wifi)
          BY <2>6, <4>1 DEF HandleEvent
        <5> QED  BY <4>1, <5>1 DEF WifiInv
      <4>2. CASE Head(evq) = "DISCONNECTED"
        <5>1. OnDisconnected
          BY <2>6, <4>2 DEF HandleEvent
        <5>2. net.retry + 1 \in Nat /\ net.bits \cup {"FAILED"} \in SUBSET {"CONNECTED", "FAILED"}
          BY DEF WifiInv, NetRecords
        <5>3. \/ /\ net' = [net EXCEPT !.connected = FALSE, !.retry = @ + 1]
                 /\ wifi' = Connect(wifi)
              \/ /\ net' = [net EXCEPT !.connected = FALSE, !.bits = @ \cup {"FAILED"}]
                 /\ wifi' = wifi
          BY <5>1 DEF OnDisconnected
        <5>4. net' \in NetRecords
          <6> HIDE DEF NetRecords
          <6>1. net \in NetRecords
            BY DEF WifiInv
          <6> QED  BY <3>3, <5>2, <5>3, <6>1
        <5>5. ~net'.connected
          BY <5>3 DEF WifiInv, NetRecords
        <5> QED  BY <4>2, <5>3, <5>4, <5>5
      <4>3. CASE Head(evq) = "GOT_IP"
        <5>1. OnIp /\ UNCHANGED wifi
          BY <2>6, <4>3 DEF HandleEvent
        <5>2. net.bits \cup {"CONNECTED"} \in SUBSET {"CONNECTED", "FAILED"}
          BY DEF WifiInv, NetRecords
        <5>3. net' \in NetRecords
          BY <3>3, <5>1, <5>2 DEF OnIp, WifiInv
        <5>4. net'.connected
          BY <5>1 DEF OnIp, WifiInv, NetRecords
        <5> QED  BY <4>3, <5>1, <5>3, <5>4
      <4> QED  BY <3>1, <4>1, <4>2, <4>3
    <3>5. evq' \in Seq(Events) /\ (Reported' <=> Reported)
      BY <3>1, <3>4, ReportedTail DEF WifiInv
    <3> QED  BY <3>1, <3>2, <3>4, <3>5 DEF WifiInv
  <2>7. CASE Attempt
    <3>1. /\ wifi.link = "connecting" /\ net' = net /\ main' = main
          /\ main \notin {"boot", "ap"}
      BY <2>7 DEF Attempt, WifiInv, WifiBoot
    <3>2. CASE wifi' = [wifi EXCEPT !.link = "assoc"] /\ UNCHANGED evq
      <4>1. Reported' <=> Reported
        BY <3>1, <3>2 DEF Reported
      <4> QED  BY <3>1, <3>2, <4>1 DEF WifiInv
    <3>3. CASE wifi' = [wifi EXCEPT !.link = "down"] /\ evq' = Append(evq, "DISCONNECTED")
      <4>1. evq' \in Seq(Events) /\ ~Reported'
        BY <3>3, ReportedAppend DEF WifiInv
      <4> QED  BY <3>1, <3>3, <4>1 DEF WifiInv
    <3> QED  BY <2>7, <3>2, <3>3 DEF Attempt
  <2>8. CASE Address
    <3>1. /\ wifi' = [wifi EXCEPT !.link = "up"] /\ evq' = Append(evq, "GOT_IP")
          /\ net' = net /\ main' = main /\ main \notin {"boot", "ap"}
      BY <2>8 DEF Address, WifiInv, WifiBoot
    <3>2. evq' \in Seq(Events) /\ Reported'
      BY <3>1, ReportedAppend DEF WifiInv
    <3> QED  BY <3>1, <3>2 DEF WifiInv
  <2>9. CASE LinkLost
    <3>1. /\ wifi' = [wifi EXCEPT !.link = "down"] /\ evq' = Append(evq, "DISCONNECTED")
          /\ net' = net /\ main' = main /\ main \notin {"boot", "ap"}
      BY <2>9 DEF LinkLost, WifiInv, WifiBoot
    <3>2. evq' \in Seq(Events) /\ ~Reported'
      BY <3>1, ReportedAppend DEF WifiInv
    <3> QED  BY <3>1, <3>2 DEF WifiInv
  <2>10. CASE Reboot \/ FactoryReset
    <3>1. main' = "boot" /\ wifi' = WifiBoot /\ evq' = <<>> /\ net' = NetBoot
      BY <2>10 DEF Reboot, FactoryReset, Restart
    <3>2. /\ WifiBoot \in [mode : {"off", "sta", "ap"}, link : Links] /\ WifiBoot.link = "down"
          /\ NetBoot \in NetRecords
          /\ NetBoot.connected = FALSE
      BY DEF WifiBoot, NetBoot, NetRecords
    <3>3. evq' \in Seq(Events) /\ DOMAIN evq' = {}
      BY <3>1
    <3>4. ~Reported'
      BY <3>1, <3>2, <3>3 DEF Reported
    <3> QED  BY <3>1, <3>2, <3>3, <3>4 DEF WifiInv
  <2>11. CASE StartStep
    BY <2>11, WifiTouched DEF StartStep, StartTask, Goes
  <2>12. CASE SaveStep \/ PageStep \/ \E t \in Tasks : TaskStep(t)
    BY <2>12, WifiTouched
       DEF SaveStep, SaveFirst, SaveRefused, SaveSecond, SaveFailed,
           PageStep, Open, Text, Close, Post, Push, PushTake,
           PushSend, PushDrop, TaskStep, SubscribeFill, SubscribeCount, netVars
  <2>13. CASE UNCHANGED vars
    BY <2>13, WifiTouched DEF vars, netVars
  <2> QED  BY <2>1, <2>2, <2>3, <2>4, <2>5, <2>6, <2>7, <2>8, <2>9, <2>10, <2>11, <2>12, <2>13,
              StepsOfParts DEF WifiStep
<1>3. WifiInv => StatusIsTrue
  BY DEF WifiInv, StatusIsTrue, Reported
<1> QED  BY <1>1, <1>2, <1>3, PTL DEF Spec

=============================================================================
