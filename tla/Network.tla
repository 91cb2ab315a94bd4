------------------------------- MODULE Network -------------------------------
(***************************************************************************)
(* The network manager of monitor_network.c and the path of a change of    *)
(* the Wi-Fi settings to it, from monitor_api.c.  Three tasks share the    *)
(* state: the main task runs monitor_api_tick and monitor_network_tick in  *)
(* turn, the event task runs wifi_event, and a visitor's request, in the   *)
(* task of the HTTP server or of the tunnel, saves settings or asks for a  *)
(* scan.  The tick decides everything in one critical section and acts on  *)
(* what it saw there, one driver call after the other, while the other two *)
(* go on.                                                                  *)
(*                                                                         *)
(* The ESP-IDF driver is external: the link comes up in three stages, each *)
(* change posts an event, events are handled in order, every accepted scan *)
(* ends with SCAN_DONE, and the driver may refuse a call MaxFaults times.  *)
(* Deadlines are timers that are off, running or due.                      *)
(***************************************************************************)
EXTENDS Integers, Sequences

CONSTANTS
    MaxFaults,    \* bound: driver calls that are refused
    MaxRequests,  \* bound: scans and settings that visitors ask for
    MaxEvents     \* bound: events waiting when the radio posts another one

ASSUME NetworkAssumption ==
    MaxFaults \in Nat /\ MaxRequests \in Nat /\ MaxEvents \in Nat \ {0}

Links == {"idle", "joining", "associated", "leased"}
Events == {"CONNECTED", "GOT_IP", "DISCONNECTED", "SCAN_DONE"}
Timers == {"retry", "connection", "ap", "effects"}
Requests == {"reload", "scan", "finished", "clock"}

\* What an iteration of the main task still has to do, in the order of the
\* code: the API's tick, then the local variables of monitor_network_tick that
\* are to be acted on.  A reload is three calls; opened and refused are the two
\* results of esp_wifi_connect, recorded after the call.
Order == <<"api", "reload", "settings", "setup", "clock", "timed_out", "ap_needed",
           "ap_expired", "scan", "finished", "connect", "opened", "refused",
           "button">>
Jobs == {Order[i] : i \in DOMAIN Order}
Rank == [j \in Jobs |-> CHOOSE i \in DOMAIN Order : Order[i] = j]

VARIABLES
    state,      \* monitor_network_snapshot and has_credentials
    timer,      \* next_retry, connection_deadline, ap_deadline_ms and
                \* effects_after, which is off when no effect is pending
    store,      \* the saved settings, by version; 0 when there are none
    applied,    \* history: the version the station was last configured with
    posting,    \* a request has saved settings and still holds the JSON lock
    requested,  \* the flags reload_requested .. clock_requested
    todo,       \* the rest of the iteration that the main task is in
    button,     \* button_handled
    driver,     \* external: the link, the access point mode, a scan
    events,     \* external: the default event loop's queue
    faults,     \* driver calls that may still be refused
    visits      \* requests that visitors may still make

vars == <<state, timer, store, applied, posting, requested, todo, button, driver, events, faults, visits>>

\* monitor_network_start has run: the access point is up.
Init == /\ state \in [connected : {FALSE}, connecting : {FALSE},
                      associated : {FALSE}, ap_enabled : {TRUE},
                      scanning : {FALSE}, has_credentials : BOOLEAN]
        /\ store = IF state.has_credentials THEN 1 ELSE 0
        /\ applied = store
        /\ posting = FALSE
        /\ timer = [retry |-> "running", connection |-> "off", ap |-> "off",
                    effects |-> "off"]
        /\ requested = {}
        /\ todo = {"api"}
        /\ button = FALSE
        /\ driver = [link |-> "idle", ap |-> TRUE, scan |-> FALSE]
        /\ events = <<>>
        /\ faults = MaxFaults
        /\ visits = MaxRequests

-----------------------------------------------------------------------------
(* A visitor's request                                                     *)

settings == <<store, applied, posting>>

\* wifi_post saves valid settings, which name a network.
wifi_post ==
    /\ visits > 0 /\ ~posting
    /\ visits' = visits - 1
    /\ store' = store + 1
    /\ posting' = TRUE
    /\ UNCHANGED <<state, timer, applied, requested, todo, button, driver, events, faults>>

\* monitor_api_schedule_effects puts every pending effect off by a second.
monitor_api_schedule_effects ==
    /\ posting
    /\ posting' = FALSE
    /\ timer' = [timer EXCEPT !.effects = "running"]
    /\ UNCHANGED <<state, store, applied, requested, todo, button, driver, events, faults,
                   visits>>

\* Refused, without an effect, while a scan or a connection is under way.
monitor_network_scan ==
    /\ visits > 0 /\ ~posting
    /\ ~state.scanning /\ ~state.connecting
    /\ visits' = visits - 1
    /\ requested' = requested \cup {"scan"}
    /\ state' = [state EXCEPT !.scanning = TRUE]
    /\ UNCHANGED <<timer, settings, todo, button, driver, events, faults>>

-----------------------------------------------------------------------------
(* The event task: wifi_event                                              *)

Handle(e) == /\ events # <<>>
             /\ Head(events) = e
             /\ events' = Tail(events)
             /\ UNCHANGED <<settings, todo, button, driver, faults, visits>>

GotIp == /\ Handle("GOT_IP")
         /\ state' = [state EXCEPT !.connected = TRUE, !.connecting = FALSE]
         /\ timer' = [timer EXCEPT !.connection = "off",
                                   !.ap = IF state.ap_enabled THEN "running" ELSE @]
         /\ requested' = requested \cup {"clock"}

StaConnected == /\ Handle("CONNECTED")
                /\ state' = [state EXCEPT !.associated = TRUE, !.connecting = TRUE]
                /\ timer' = [timer EXCEPT !.connection = "running"]
                /\ UNCHANGED requested

\* The length of the back-off, from retries and the jitter, is abstracted.
StaDisconnected ==
    /\ Handle("DISCONNECTED")
    /\ state' = [state EXCEPT !.connected = FALSE, !.connecting = FALSE,
                              !.associated = FALSE]
    /\ timer' = [timer EXCEPT !.retry = "running", !.connection = "off", !.ap = "off"]
    /\ UNCHANGED requested

ScanDone == /\ Handle("SCAN_DONE")
            /\ requested' = requested \cup {"finished"}
            /\ UNCHANGED <<state, timer>>

-----------------------------------------------------------------------------
(* The main task: monitor_api_tick and monitor_network_tick                *)

Due(t) == timer[t] = "due"

\* The iteration has come to job j.
At(j) == j \in todo /\ \A k \in todo : Rank[j] <= Rank[k]

Done(j) == At(j) /\ todo' = todo \ {j}

\* Mutant: pending effects are cleared whether they are due or not.
ClearEffects == /\ requested' = IF Due("effects") THEN requested \cup {"reload"} ELSE requested
                /\ timer' = [timer EXCEPT !.effects = "off"]

\* The effect of new settings is monitor_network_reload.
TakeEffects == IF Due("effects")
               THEN /\ requested' = requested \cup {"reload"}
                    /\ timer' = [timer EXCEPT !.effects = "off"]
               ELSE UNCHANGED <<requested, timer>>

\* The tick is skipped while a request holds the JSON lock.
monitor_api_tick ==
    /\ Done("api")
    /\ IF posting THEN UNCHANGED <<requested, timer>> ELSE TakeEffects
    /\ UNCHANGED <<state, settings, button, driver, events, faults, visits>>

\* Mutant: the access point is not brought back.
DecidedWithoutAp ==
    requested \cup {"button"}
      \cup {j \in {"connect"} : /\ state.has_credentials /\ ~state.connected
                                /\ ~state.connecting /\ ~state.scanning /\ Due("retry")}
      \cup {j \in {"ap_expired"} : state.ap_enabled /\ state.connected /\ Due("ap")}
      \cup {j \in {"timed_out"} : state.connecting /\ Due("connection")}

\* What the critical section decides.
Decided ==
    requested \cup {"button"}
      \cup {j \in {"connect"} : /\ state.has_credentials /\ ~state.connected
                                /\ ~state.connecting /\ ~state.scanning /\ Due("retry")}
      \cup {j \in {"ap_needed"} : ~state.connected /\ ~state.ap_enabled}
      \cup {j \in {"ap_expired"} : state.ap_enabled /\ state.connected /\ Due("ap")}
      \cup {j \in {"timed_out"} : state.connecting /\ Due("connection")}

\* A reload or a timeout drops the connect of the same tick, and a reload
\* applies the settings and opens the setup window.
Snapshot ==
    /\ todo = {}
    /\ todo' = (Decided \ IF {"reload", "timed_out"} \cap Decided = {} THEN {} ELSE {"connect"})
                 \cup IF "reload" \in Decided THEN {"settings", "setup"} ELSE {}
    /\ requested' = {}
    /\ IF "timed_out" \in Decided
         THEN /\ state' = [state EXCEPT !.connecting = FALSE]
              /\ timer' = [timer EXCEPT !.connection = "off", !.retry = "running"]
         ELSE UNCHANGED <<state, timer>>
    /\ UNCHANGED <<settings, button, driver, events, faults, visits>>

\* A driver call succeeds, or is refused.
Outcome(ok) == IF ok THEN UNCHANGED faults ELSE faults > 0 /\ faults' = faults - 1

\* esp_wifi_disconnect: a link that is up or coming up reports its end.
Disconnect == /\ driver' = [driver EXCEPT !.link = "idle"]
              /\ events' = IF driver.link = "idle" THEN events
                           ELSE Append(events, "DISCONNECTED")

\* Mutant: the timeout does not take the link down.
KeepLink(j) == Done(j) /\ UNCHANGED <<state, timer, settings, requested, button, driver, events, faults, visits>>

\* Lines 299 and 311.
TakeDown(j) == /\ Done(j)
               /\ Disconnect
               /\ UNCHANGED <<state, timer, settings, requested, button, faults, visits>>

\* set_station with the settings that are saved now; if the store or the driver
\* fails there is nothing to connect with until the next reload.
set_station(ok) ==
    /\ Done("settings")
    /\ Outcome(ok)
    /\ state' = [state EXCEPT !.has_credentials = ok /\ store # 0]
    /\ applied' = IF ok THEN store ELSE applied
    /\ timer' = [timer EXCEPT !.retry = "running"]
    /\ UNCHANGED <<store, posting, requested, button, driver, events, visits>>

\* Mutant: the window is opened for good.
OpenForGood(ok) ==
    IF ok THEN /\ driver' = [driver EXCEPT !.ap = TRUE]
               /\ state' = [state EXCEPT !.ap_enabled = TRUE]
               /\ timer' = [timer EXCEPT !.ap = "off"]
          ELSE UNCHANGED <<driver, state, timer>>

setup_enable(ok) ==
    IF ok THEN /\ driver' = [driver EXCEPT !.ap = TRUE]
               /\ state' = [state EXCEPT !.ap_enabled = TRUE]
               /\ timer' = [timer EXCEPT !.ap = IF state.connected THEN "running" ELSE "off"]
          ELSE UNCHANGED <<driver, state, timer>>

SetupEnable(j, ok) == /\ Done(j)
                      /\ Outcome(ok)
                      /\ setup_enable(ok)
                      /\ UNCHANGED <<settings, requested, button, events, visits>>

\* esp_netif_sntp_start, which may be called again.
StartClock == /\ Done("clock")
              /\ UNCHANGED <<state, timer, settings, requested, button, driver, events,
                             faults, visits>>

CloseSetup(ok) ==
    /\ Done("ap_expired")
    /\ Outcome(ok)
    /\ IF ok THEN /\ driver' = [driver EXCEPT !.ap = FALSE]
                  /\ state' = [state EXCEPT !.ap_enabled = FALSE]
             ELSE UNCHANGED <<driver, state>>
    /\ UNCHANGED <<timer, settings, requested, button, events, visits>>

\* Mutant: a scan that does not start is not given up.
StartScanOnly(ok) ==
    /\ Done("scan")
    /\ ok \/ driver.link = "joining" \/ faults > 0
    /\ driver' = [driver EXCEPT !.scan = @ \/ ok]
    /\ UNCHANGED <<state, timer, settings, requested, button, events, faults, visits>>

\* The driver does not scan while it joins a network.
StartScan(ok) ==
    /\ Done("scan")
    /\ IF driver.link = "joining" THEN ~ok /\ UNCHANGED faults ELSE Outcome(ok)
    /\ driver' = [driver EXCEPT !.scan = @ \/ ok]
    /\ state' = [state EXCEPT !.scanning = ok]
    /\ UNCHANGED <<timer, settings, requested, button, events, visits>>

\* The records are copied, if the driver has them.
FinishScan ==
    /\ Done("finished")
    /\ state' = [state EXCEPT !.scanning = FALSE]
    /\ UNCHANGED <<timer, settings, requested, button, driver, events, faults, visits>>

\* esp_wifi_connect.  Events can be handled before its result is recorded.
Connect(ok) ==
    /\ At("connect")
    /\ Outcome(ok)
    /\ todo' = (todo \ {"connect"}) \cup {IF ok THEN "opened" ELSE "refused"}
    /\ driver' = [driver EXCEPT !.link = IF ok /\ @ = "idle" THEN "joining" ELSE @]
    /\ UNCHANGED <<state, timer, settings, requested, button, events, visits>>

\* Mutant: an attempt has no deadline of its own.
RecordWithoutDeadline(ok) ==
    /\ state' = [state EXCEPT !.connecting = ok]
    /\ timer' = [timer EXCEPT !.connection = "off", !.retry = "running"]

\* Lines 357 to 359, whatever the events changed since the call.
Record(ok) ==
    /\ state' = [state EXCEPT !.connecting = ok]
    /\ timer' = [timer EXCEPT !.connection = IF ok THEN "running" ELSE "off",
                              !.retry = "running"]

RecordConnect(ok) == /\ Done(IF ok THEN "opened" ELSE "refused")
                     /\ Record(ok)
                     /\ UNCHANGED <<settings, requested, button, driver, events, faults, visits>>

\* The button is up, down for less than three seconds, or held: the setup window
\* opens once until it is released.  The iteration ends here.
Button(level, ok) ==
    /\ At("button")
    /\ todo' = {"api"}
    /\ button => level # "down"
    /\ button' = (level = "held")
    /\ IF level = "held" /\ ~button
         THEN Outcome(ok) /\ setup_enable(ok)
         ELSE ok /\ UNCHANGED <<state, timer, driver, faults>>
    /\ UNCHANGED <<settings, requested, events, visits>>

MainTask ==
    \/ monitor_api_tick \/ Snapshot \/ StartClock \/ FinishScan
    \/ \E j \in {"reload", "timed_out"} : TakeDown(j)
    \/ \E ok \in BOOLEAN :
         \/ set_station(ok)
         \/ \E j \in {"setup", "ap_needed"} : SetupEnable(j, ok)
         \/ CloseSetup(ok) \/ StartScan(ok) \/ Connect(ok) \/ RecordConnect(ok)
         \/ \E level \in {"up", "down", "held"} : Button(level, ok)

EventTask == GotIp \/ StaConnected \/ StaDisconnected \/ ScanDone

-----------------------------------------------------------------------------
(* External: the radio, the DHCP server and time                           *)

Post(from, to, e) == /\ driver.link \in from
                     /\ Len(events) < MaxEvents
                     /\ driver' = [driver EXCEPT !.link = to]
                     /\ events' = Append(events, e)
                     /\ UNCHANGED <<state, timer, settings, requested, todo, button, faults, visits>>

\* An attempt to join ends one way or the other.
Join == Post({"joining"}, "associated", "CONNECTED") \/ Post({"joining"}, "idle", "DISCONNECTED")

\* A lease may never come, may be renewed with another address, and a link
\* may be lost.
Lease == Post({"associated", "leased"}, "leased", "GOT_IP")
Drop == Post({"associated", "leased"}, "idle", "DISCONNECTED")

ScanEnds == /\ driver.scan
            /\ Len(events) < MaxEvents
            /\ driver' = [driver EXCEPT !.scan = FALSE]
            /\ events' = Append(events, "SCAN_DONE")
            /\ UNCHANGED <<state, timer, settings, requested, todo, button, faults, visits>>

\* A timer runs out.  The shortest delay is a second: no event waits and no
\* iteration takes that long, apart from the pause at its end.
Elapse(t) == /\ timer[t] = "running"
             /\ events = <<>> /\ todo = {"api"}
             /\ timer' = [timer EXCEPT ![t] = "due"]
             /\ UNCHANGED <<state, settings, requested, todo, button, driver, events, faults,
                            visits>>

Next == \/ wifi_post \/ monitor_api_schedule_effects \/ monitor_network_scan
        \/ EventTask \/ MainTask
        \/ Join \/ Lease \/ Drop \/ ScanEnds
        \/ \E t \in Timers : Elapse(t)

Spec == Init /\ [][Next]_vars

\* The two tasks run, the time of the retry and of the connection passes, and
\* the driver finishes what it accepted.  Nothing is assumed of the network, the
\* visitors and the button.
FairSpec == /\ Spec
            /\ WF_vars(MainTask) /\ WF_vars(EventTask)
            /\ WF_vars(Join) /\ WF_vars(ScanEnds)
            /\ \A t \in {"retry", "connection"} : SF_vars(Elapse(t))

-----------------------------------------------------------------------------
(* Properties *)

\* Every variable keeps its type; the deadlines that have been cleared are off.
TypeOK == /\ state \in [connected : BOOLEAN, connecting : BOOLEAN,
                        associated : BOOLEAN, ap_enabled : BOOLEAN,
                        scanning : BOOLEAN, has_credentials : BOOLEAN]
          /\ timer \in [Timers -> {"off", "running", "due"}]
          /\ store \in Nat /\ applied \in 0..store /\ posting \in BOOLEAN
          /\ requested \subseteq Requests
          /\ todo \subseteq Jobs
          /\ button \in BOOLEAN
          /\ driver \in [link : Links, ap : BOOLEAN, scan : BOOLEAN]
          /\ events \in Seq(Events)
          /\ faults \in 0..MaxFaults
          /\ visits \in 0..MaxRequests

\* A device that is on the network never leaves its setup access point open
\* without a deadline, however the tick and the address event interleave.
SetupWindowBounded ==
    state.connected /\ state.ap_enabled => timer.ap # "off"

\* Where the one scan that may be under way is: asked for, about to be started,
\* in the driver, reported, or about to be collected.
ScanPlaces == {p \in {"asked", "starting", "driver", "posted", "reported", "collecting"} :
                 \/ p = "asked" /\ "scan" \in requested
                 \/ p = "starting" /\ "scan" \in todo
                 \/ p = "driver" /\ driver.scan
                 \/ p = "posted" /\ \E i \in DOMAIN events : events[i] = "SCAN_DONE"
                 \/ p = "reported" /\ "finished" \in requested
                 \/ p = "collecting" /\ "finished" \in todo}

\* scanning is set exactly while one scan is somewhere between the request and
\* the collection of its results, and in one place only: no task can lose it,
\* start it twice or collect the results of another.
ScanAccounted == /\ \A p, q \in ScanPlaces : p = q
                 /\ state.scanning <=> ScanPlaces # {}

\* A station that is associated and waits for a lease is watched by a deadline,
\* unless the tick is about to take it down: a DHCP server that never answers
\* cannot hold the link for ever.
AssociationWatched ==
    driver.link = "associated" /\ events = <<>>
      => \/ state.connecting /\ timer.connection # "off"
         \/ todo \cap {"reload", "timed_out"} # {}

\* Settings that were saved and are not the ones the station uses are on their
\* way to it: no save, delayed effect, lock that was busy or reload of an older
\* version loses them, unless the station was left without credentials.
SettingsNotLost ==
    applied # store => \/ posting \/ timer.effects # "off"
                       \/ "reload" \in requested \/ "settings" \in todo
                       \/ ~state.has_credentials

\* Whenever the device is off the network, the setup access point comes back.
SetupReachable == ~state.connected ~> (state.connected \/ state.ap_enabled)

\* A device with credentials does not stay idle: whatever races left in
\* connecting, another attempt follows.
Reconnects == (state.has_credentials /\ driver.link = "idle")
                ~> (~state.has_credentials \/ driver.link # "idle")
=============================================================================
