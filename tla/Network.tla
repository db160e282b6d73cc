------------------------------- MODULE Network -------------------------------
(***************************************************************************)
(* Starting up, Wi-Fi, settings and the web page: main/app_main.c,         *)
(* components/netconfig, the settings commands of console and web page,    *)
(* and the WebSocket of components/webui.                                  *)
(*                                                                         *)
(* app_main joins the configured network or opens one of its own, and then *)
(* starts the tasks, which subscribe to the event bus.  Wi-Fi events are   *)
(* handled by the event loop task.  The page is told events over one       *)
(* descriptor, s_ws_fd, that httpd sets and the push task reads and        *)
(* resets.  A setting is a pair of values in NVS, written one by one.      *)
(***************************************************************************)
EXTENDS Integers, Sequences, Functions

CONSTANTS
    None,
    Fds,         \* sockets of the web server
    QueueLen,    \* length of a subscriber's queue
    MaxRetry,    \* MAX_RETRY of netconfig.c
    MaxClients,  \* bound: pages opened
    MaxTexts,    \* bound: commands sent by pages
    MaxPosts,    \* bound: events
    MaxFailed,   \* bound: sends that fail though the page is there
    MaxDrops,    \* bound: losses of the connection to the network
    MaxSaves,    \* bound: settings saved
    MaxNvs,      \* bound: writes to NVS that fail
    MaxReboot,   \* bound: restarts
    MaxStimuli   \* bound: all of these together

Tasks == {"evtpump", "wspush", "osdp"}      \* the tasks that subscribe

ASSUME NetworkAssumption ==
    /\ None \notin Fds \cup Nat \cup Tasks /\ Fds # {} /\ QueueLen \in Nat \ {0}
    /\ {MaxRetry, MaxClients, MaxTexts, MaxPosts, MaxFailed, MaxDrops, MaxSaves, MaxNvs,
        MaxReboot, MaxStimuli} \subseteq Nat

Savers == {"console", "httpd"}              \* the tasks that save settings
Settings == {"wifi", "osdp"}

VARIABLES
    main,        \* where app_main is
    wifi,        \* the Wi-Fi driver: mode and connection
    evq,         \* its events that are still to be handled
    net,         \* s_sta_connected, s_ap_mode, s_retry_count, s_evt; whether the pair read is whole
    nvs,         \* each setting: its two values
    save,        \* per saver: the save it is in
    sub,         \* per task: where it is in mode_subscribe
    bus,         \* s_subs and s_sub_count
    fd,          \* s_ws_fd
    sock,        \* per socket: the page it belongs to
    push,        \* event_push_task: where it is with an event
    queue,       \* the events queued for it
    \* history
    heard,       \* the page heard from last, and whether a failed send was being noted
    acked,       \* per setting: the save acknowledged last, and whether the pair may be torn since
    used         \* uses of the bounds

netVars == <<main, wifi, evq, net>>
setVars == <<nvs, save, acked>>
webVars == <<fd, sock, push, heard>>
busVars == <<sub, bus, queue>>
vars == <<netVars, setVars, webVars, busVars, used>>

Stimuli == {"client", "text", "post", "failed", "drop", "save", "nvs", "reboot"}

Use(s, max) ==
    /\ used[s] < max /\ FoldFunction(+, 0, used) < MaxStimuli
    /\ used' = [used EXCEPT ![s] = @ + 1]

-----------------------------------------------------------------------------

MaxSubscribers == 4

Pair(n) == [first |-> n, second |-> n]
NoSave == [what |-> "none", at |-> "none", n |-> 0, alone |-> TRUE]
NetBoot == [connected |-> FALSE, ap |-> FALSE, retry |-> 0, bits |-> {}, whole |-> TRUE]
WifiBoot == [mode |-> "off", link |-> "down"]
BusBoot == [slot |-> [i \in 0..(MaxSubscribers - 1) |-> None], count |-> 0]
NoneHeard == [page |-> None, raced |-> FALSE]

Init ==
    /\ main = "boot" /\ wifi = WifiBoot /\ evq = <<>> /\ net = NetBoot
    /\ \E n \in {0, 1} : nvs = [w \in Settings |-> Pair(n)]
    /\ save = [t \in Savers |-> NoSave]
    /\ sub = [t \in Tasks |-> "none"] /\ bus = BusBoot
    /\ fd = None /\ sock = [f \in Fds |-> None] /\ push = "idle" /\ queue = 0
    /\ heard = NoneHeard
    /\ acked = [w \in Settings |-> [n |-> nvs[w].first, torn |-> FALSE]]
    /\ used = [s \in Stimuli |-> 0]

-----------------------------------------------------------------------------
(* app_main, with netconfig_init in it                                     *)

\* All of these run on core 0; 0: not there, or waiting.
Priority_Flat(t) == 4

Priority(t) ==
    CASE t = "main" -> 1
      [] t \in {"evtpump", "wspush"} -> 4
      [] t = "osdp" -> 6

Busy(t) == sub[t] \in {"start", "filled"}
MayRun(t) == \A u \in Tasks \ {t} : Busy(u) => Priority(u) <= Priority(t)

Goes(from, to) == main = from /\ main' = to /\ MayRun("main")

\* netconfig_init with credentials in NVS: start_sta.
StartSta ==
    /\ Goes("boot", "wait")
    /\ nvs["wifi"].first # 0 /\ nvs["wifi"].second # 0
    /\ wifi' = [mode |-> "sta", link |-> "down"] /\ evq' = Append(evq, "START")
    /\ net' = [net EXCEPT !.whole = (nvs["wifi"] = Pair(nvs["wifi"].first))]
    /\ UNCHANGED <<setVars, webVars, busVars, used>>

NoCredentials ==
    /\ Goes("boot", "ap")
    /\ nvs["wifi"].first = 0 \/ nvs["wifi"].second = 0
    /\ UNCHANGED <<wifi, evq, net, setVars, webVars, busVars, used>>

\* Defect: the wait has no timeout.
WaitOver_ForEver ==
    /\ net.bits # {}
    /\ Goes("wait", IF "CONNECTED" \in net.bits THEN "console" ELSE "stop")
    /\ UNCHANGED <<wifi, evq, net, setVars, webVars, busVars, used>>

\* xEventGroupWaitBits returns: a bit is set, or ten seconds have passed.
WaitOver ==
    /\ Goes("wait", IF "CONNECTED" \in net.bits THEN "console" ELSE "stop")
    /\ UNCHANGED <<wifi, evq, net, setVars, webVars, busVars, used>>

\* esp_wifi_stop; a connection it ends is reported.
WifiStop ==
    /\ Goes("stop", "ap")
    /\ wifi' = WifiBoot
    /\ \/ wifi.link \in {"assoc", "up", "connecting"} /\ evq' = Append(evq, "DISCONNECTED")
       \/ wifi.link \in {"down", "connecting"} /\ UNCHANGED evq
    /\ UNCHANGED <<net, setVars, webVars, busVars, used>>

StartAp ==
    /\ Goes("ap", "console")
    /\ wifi' = [mode |-> "ap", link |-> "down"] /\ net' = [net EXCEPT !.ap = TRUE]
    /\ UNCHANGED <<evq, setVars, webVars, busVars, used>>

\* console_task_start, webui_start, osdp_pd_task_start (after nfc_task_start).
StartTask(from, to, t) ==
    /\ Goes(from, to)
    /\ sub' = [sub EXCEPT ![t] = "start"]
    /\ UNCHANGED <<wifi, evq, net, setVars, webVars, bus, queue, used>>

MainStep ==
    \/ StartSta
    \/ NoCredentials
    \/ WaitOver
    \/ WifiStop
    \/ StartAp
    \/ StartTask("console", "web", "evtpump")
    \/ StartTask("web", "readers", "wspush")
    \/ StartTask("readers", "up", "osdp")

-----------------------------------------------------------------------------
(* mode_subscribe                                                          *)

\* The slot of the count is filled in, ...
SubscribeFill(t) ==
    /\ sub[t] = "start" /\ MayRun(t) /\ bus.count < MaxSubscribers
    /\ bus' = [bus EXCEPT !.slot[bus.count] = t]
    /\ sub' = [sub EXCEPT ![t] = "filled"]
    /\ UNCHANGED <<netVars, setVars, webVars, queue, used>>

\* ... and the count moves on.
SubscribeCount(t) ==
    /\ sub[t] = "filled" /\ MayRun(t)
    /\ bus' = [bus EXCEPT !.count = @ + 1]
    /\ sub' = [sub EXCEPT ![t] = "done"]
    /\ UNCHANGED <<netVars, setVars, webVars, queue, used>>

-----------------------------------------------------------------------------
(* Wi-Fi: the driver, and netconfig's handlers in the event loop task      *)

\* esp_wifi_connect, which fails when the station is not on.
Connect(w) == IF w.mode = "sta" /\ w.link = "down" THEN [w EXCEPT !.link = "connecting"] ELSE w

OnIp == net' = [net EXCEPT !.retry = 0, !.connected = TRUE, !.bits = @ \cup {"CONNECTED"}]

\* Defect: the status stays connected while there are retries.
OnDisconnected_KeepsStatus ==
    IF net.retry < MaxRetry
    THEN net' = [net EXCEPT !.retry = @ + 1] /\ wifi' = Connect(wifi)
    ELSE net' = [net EXCEPT !.connected = FALSE, !.bits = @ \cup {"FAILED"}] /\ UNCHANGED wifi

OnDisconnected ==
    IF net.retry < MaxRetry
    THEN net' = [net EXCEPT !.connected = FALSE, !.retry = @ + 1] /\ wifi' = Connect(wifi)
    ELSE net' = [net EXCEPT !.connected = FALSE, !.bits = @ \cup {"FAILED"}] /\ UNCHANGED wifi

\* on_wifi_event, on_ip_event
HandleEvent ==
    /\ evq # <<>>
    /\ evq' = Tail(evq)
    /\ CASE Head(evq) = "START" -> wifi' = Connect(wifi) /\ UNCHANGED net
         [] Head(evq) = "DISCONNECTED" -> OnDisconnected
         [] Head(evq) = "GOT_IP" -> OnIp /\ UNCHANGED wifi
    /\ UNCHANGED <<main, setVars, webVars, busVars, used>>

\* An attempt ends: with credentials that do not belong together it fails.
Attempt ==
    /\ wifi.link = "connecting"
    /\ \/ net.whole /\ wifi' = [wifi EXCEPT !.link = "assoc"] /\ UNCHANGED evq
       \/ wifi' = [wifi EXCEPT !.link = "down"] /\ evq' = Append(evq, "DISCONNECTED")
    /\ UNCHANGED <<main, net, setVars, webVars, busVars, used>>

Address ==
    /\ wifi.link = "assoc"
    /\ wifi' = [wifi EXCEPT !.link = "up"] /\ evq' = Append(evq, "GOT_IP")
    /\ UNCHANGED <<main, net, setVars, webVars, busVars, used>>

LinkLost ==
    /\ wifi.link \in {"assoc", "up"}
    /\ Use("drop", MaxDrops)
    /\ wifi' = [wifi EXCEPT !.link = "down"] /\ evq' = Append(evq, "DISCONNECTED")
    /\ UNCHANGED <<main, net, setVars, webVars, busVars>>

-----------------------------------------------------------------------------
(* Settings: wifi_save_creds, osdp_pd_save_config                          *)

Runs(t) == IF t = "console" THEN main \notin {"boot", "wait", "stop", "ap", "console"}
           ELSE main \in {"readers", "up"}

\* "wifi setup", "osdp setup", {"cmd":"osdp_set"}
MaySave(t, w) ==
    /\ Runs(t) /\ save[t].at = "none"
    /\ t = "httpd" => w = "osdp" /\ \E f \in Fds : sock[f] # None

\* The first value is written.
SaveFirst(t, w) ==
    /\ MaySave(t, w)
    /\ Use("save", MaxSaves)
    /\ LET n == used["save"] + 2
           others == {u \in Savers \ {t} : save[u].what = w}
       IN  /\ nvs' = [nvs EXCEPT ![w].first = n]
           /\ save' = [u \in Savers |->
                 IF u = t THEN [what |-> w, at |-> "second", n |-> n, alone |-> others = {}]
                 ELSE IF u \in others THEN [save[u] EXCEPT !.alone = FALSE] ELSE save[u]]
    /\ UNCHANGED <<netVars, webVars, busVars, acked>>

\* Defect: the result of the first write is not looked at.
SaveRefused_Unnoticed(t, w) ==
    /\ MaySave(t, w)
    /\ Use("nvs", MaxNvs)
    /\ nvs' = [nvs EXCEPT ![w].second = used["save"] + 2]
    /\ UNCHANGED <<netVars, webVars, busVars, save, acked>>

\* NVS cannot be opened, or refuses the first value: the user is told, and nothing is written.
SaveRefused(t, w) ==
    /\ MaySave(t, w)
    /\ Use("nvs", MaxNvs)
    /\ UNCHANGED <<netVars, setVars, webVars, busVars>>

\* The second value is written and committed, and the user is told.
SaveSecond(t) ==
    /\ save[t].at = "second"
    /\ LET w == save[t].what IN
       /\ nvs' = [nvs EXCEPT ![w].second = save[t].n]
       /\ acked' = [acked EXCEPT ![w] = [n |-> save[t].n, torn |-> ~save[t].alone]]
    /\ save' = [save EXCEPT ![t] = NoSave]
    /\ UNCHANGED <<netVars, webVars, busVars, used>>

\* NVS refuses the second value, or the commit of both: the user is told that the save failed,
\* and what was written stays.
SaveFailed(t) ==
    /\ save[t].at = "second"
    /\ Use("nvs", MaxNvs)
    /\ LET w == save[t].what IN
       /\ nvs' = nvs \/ nvs' = [nvs EXCEPT ![w].second = save[t].n]
       /\ acked' = [acked EXCEPT ![w].torn = TRUE]
    /\ save' = [save EXCEPT ![t] = NoSave]
    /\ UNCHANGED <<netVars, webVars, busVars>>

\* esp_restart: everything but NVS is as at boot; a save may be cut short.
Restart ==
    /\ main' = "boot" /\ wifi' = WifiBoot /\ evq' = <<>> /\ net' = NetBoot
    /\ save' = [t \in Savers |-> NoSave]
    /\ sub' = [t \in Tasks |-> "none"] /\ bus' = BusBoot
    /\ fd' = None /\ sock' = [f \in Fds |-> None] /\ push' = "idle" /\ queue' = 0
    /\ heard' = NoneHeard

\* "reboot" of console or page, or the power goes.
Reboot ==
    /\ Use("reboot", MaxReboot)
    /\ Restart
    /\ acked' = [w \in Settings |->
                   [acked[w] EXCEPT !.torn = @ \/ \E t \in Savers : save[t].what = w]]
    /\ UNCHANGED nvs

\* The button held for ten seconds: nvs_flash_erase and a restart, by the NFC task.
FactoryReset ==
    /\ main = "up"
    /\ Use("reboot", MaxReboot)
    /\ Restart
    /\ nvs' = [w \in Settings |-> Pair(0)]
    /\ acked' = [w \in Settings |-> [n |-> 0, torn |-> FALSE]]

-----------------------------------------------------------------------------
(* The web page                                                            *)

\* handle_ws: a page that is heard from becomes the one that is told.
Heard(f, c) ==
    /\ fd' = f
    /\ heard' = [page |-> c, raced |-> push = "drop"]

\* A page opens its WebSocket; with every socket taken, an old one is closed for it.
Open(f) ==
    /\ Runs("httpd")
    /\ sock[f] # None => \A g \in Fds : sock[g] # None
    /\ Use("client", MaxClients)
    /\ LET c == used["client"] + 1 IN
       /\ sock' = [sock EXCEPT ![f] = c]
       /\ Heard(f, c)
    /\ UNCHANGED <<netVars, setVars, busVars, push>>

\* Defect: only the handshake makes a page the one that is told.
Text_Unheard(f) ==
    /\ sock[f] # None
    /\ Use("text", MaxTexts)
    /\ heard' = [page |-> sock[f], raced |-> push = "drop"]
    /\ UNCHANGED <<netVars, setVars, busVars, sock, push, fd>>

\* A command arrives from a page.
Text(f) ==
    /\ sock[f] # None
    /\ Use("text", MaxTexts)
    /\ Heard(f, sock[f])
    /\ UNCHANGED <<netVars, setVars, busVars, sock, push>>

Close(f) ==
    /\ sock[f] # None
    /\ sock' = [sock EXCEPT ![f] = None]
    /\ UNCHANGED <<netVars, setVars, busVars, fd, push, heard, used>>

\* mode_post_event, to the queue of the push task.
Post ==
    /\ Use("post", MaxPosts)
    /\ queue' = IF (\E i \in 0..(bus.count - 1) : bus.slot[i] = "wspush") /\ queue < QueueLen
                THEN queue + 1 ELSE queue
    /\ UNCHANGED <<netVars, setVars, webVars, sub, bus>>

\* event_push_task takes an event; without a page it is forgotten.
PushTake ==
    /\ sub["wspush"] = "done" /\ push = "idle" /\ queue > 0
    /\ queue' = queue - 1
    /\ push' = IF fd = None THEN "idle" ELSE "send"
    /\ UNCHANGED <<netVars, setVars, fd, sock, heard, sub, bus, used>>

\* It sends it over the descriptor of the moment.
PushSend ==
    /\ push = "send"
    /\ \/ sock[fd] # None /\ push' = "idle" /\ UNCHANGED <<heard, used>>
       \/ sock[fd] = None /\ push' = "drop" /\ UNCHANGED <<heard, used>>
       \/ /\ sock[fd] # None /\ Use("failed", MaxFailed)
          /\ push' = "drop"
          /\ heard' = IF heard.page = sock[fd] THEN NoneHeard ELSE heard
    /\ UNCHANGED <<netVars, setVars, busVars, fd, sock>>

\* Sending failed: the descriptor is dropped, whichever it now is.
PushDrop ==
    /\ push = "drop"
    /\ fd' = None /\ push' = "idle"
    /\ UNCHANGED <<netVars, setVars, busVars, sock, heard, used>>

-----------------------------------------------------------------------------

TaskStep(t) == SubscribeFill(t) \/ SubscribeCount(t)
Push == PushTake \/ PushSend \/ PushDrop

Next ==
    \/ MainStep
    \/ \E t \in Tasks : TaskStep(t)
    \/ HandleEvent
    \/ Attempt
    \/ Address
    \/ LinkLost
    \/ \E t \in Savers, w \in Settings : SaveFirst(t, w) \/ SaveRefused(t, w)
    \/ \E t \in Savers : SaveSecond(t) \/ SaveFailed(t)
    \/ Reboot
    \/ FactoryReset
    \/ \E f \in Fds : Open(f) \/ Text(f) \/ Close(f)
    \/ Post
    \/ Push

Spec == Init /\ [][Next]_vars

\* FreeRTOS runs every task that is ready, and an attempt to connect ends; nothing says that
\* the network gives out an address.
Fairness ==
    /\ WF_vars(MainStep)
    /\ WF_vars(HandleEvent)
    /\ WF_vars(Attempt)
    /\ \A t \in Tasks : WF_vars(TaskStep(t))
FairSpec == Spec /\ Fairness

-----------------------------------------------------------------------------
(* Properties                                                              *)

\* Once the events have been handled the reader says it is connected just when it is, also
\* when a connection came after the wait for it and fell to esp_wifi_stop.
StatusIsTrue == evq = <<>> => (net.connected <=> wifi.link = "up")

\* Every slot the bus posts to has a queue, and every task that has subscribed a slot of its
\* own, though mode_subscribe takes no lock: no two of its callers overlap at start-up.
SubscribersInSlots ==
    /\ \A i \in 0..(bus.count - 1) : bus.slot[i] # None
    /\ \A t \in Tasks : sub[t] = "done" => \E i \in 0..(bus.count - 1) : bus.slot[i] = t

\* A setting is the pair that was acknowledged last, whatever saves NVS refused since, unless
\* one of them got as far as its first value: it was cut short by a restart, overlapped another
\* save of the setting, or failed at its second value.  Then the pair may be torn, until a save
\* that nothing disturbs.
SettingsAreSaved ==
    \A w \in Settings :
        (\A t \in Savers : save[t].what # w) /\ ~acked[w].torn => nvs[w] = Pair(acked[w].n)

\* The page heard from last is the one that is told the events, however many pages come and
\* go, unless a send to it failed, or it was heard from while a failed send was noted.
LastHeardIsTold ==
    \A f \in Fds : heard.page # None /\ sock[f] = heard.page /\ ~heard.raced => fd = f

\* The reader gets to its cards and its panel after every restart, whatever Wi-Fi does.
StartsUp == []<>(main = "up" /\ \A t \in Tasks : sub[t] = "done")
=============================================================================
