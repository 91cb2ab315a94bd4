---------------------------- MODULE NetworkProofs ----------------------------
(***************************************************************************)
(* Proofs about the network manager, for any number of refused driver      *)
(* calls, of requests and of waiting events.                               *)
(*                                                                         *)
(* The tick acts on a snapshot while the event task goes on, and the event *)
(* task works through a queue that the driver is ahead of.  The argument   *)
(* is about what is still on its way: which jobs the iteration has left    *)
(* and which events wait.                                                  *)
(***************************************************************************)
EXTENDS Network, TLAPS

\* An event e waits.
Waits(e) == \E i \in DOMAIN events : events[i] = e

\* A scan reports its end once.
OneReport == \A i, j \in DOMAIN events :
               events[i] = "SCAN_DONE" /\ events[j] = "SCAN_DONE" => i = j

\* A lease of a link that is gone waits in front of the report of its end.
LeaseThenEnd == driver.link = "idle" =>
                  \A i \in DOMAIN events : events[i] = "GOT_IP" =>
                    \E j \in DOMAIN events : j > i /\ events[j] = "DISCONNECTED"

\* The driver reports nothing of an older link once it works on a new one.
NoStaleEvent == /\ driver.link # "idle" => ~Waits("DISCONNECTED")
                /\ driver.link \in {"joining", "associated"} => ~Waits("GOT_IP")

\* A reload goes on to the settings; a timeout has put the retry off; and a
\* refused call is not repeated in the same iteration.
Iteration == /\ "reload" \in todo => "settings" \in todo
             /\ "refused" \in todo => "connect" \notin todo
             /\ "timed_out" \in todo => timer.retry # "due"

\* esp_wifi_connect is only called when there is no link and no report of one.
ConnectsFromIdle ==
    {"connect", "refused"} \cap todo # {} =>
      /\ driver.link = "idle" /\ ~Waits("DISCONNECTED") /\ ~Waits("GOT_IP")

\* A link of the driver is known to the state, or the iteration is about to
\* record it or to take it down.
LinkKnown ==
    driver.link # "idle" => \/ state.connected \/ state.connecting
                            \/ {"opened", "timed_out", "reload"} \cap todo # {}

\* While the end of a link waits to be handled nothing is connected again.
EndKnown ==
    Waits("DISCONNECTED") => \/ state.connected \/ state.connecting
                             \/ timer.retry # "due"
                             \/ {"opened", "timed_out", "reload", "settings"} \cap todo # {}

\* An association is watched, or the event that starts the deadline waits.
Watched ==
    driver.link = "associated" => \/ Waits("CONNECTED")
                                  \/ state.connecting /\ timer.connection # "off"
                                  \/ todo \cap {"reload", "timed_out"} # {}

Association == /\ LeaseThenEnd /\ NoStaleEvent /\ Iteration /\ ConnectsFromIdle
               /\ LinkKnown /\ EndKnown /\ Watched

Scanning == ScanAccounted /\ OneReport

IInv == TypeOK /\ SetupWindowBounded /\ SettingsNotLost /\ Scanning /\ Association
-----------------------------------------------------------------------------
(* The queue of events and the order of jobs                               *)

\* A posted event waits behind the others.
LEMMA Posted ==
    ASSUME events \in Seq(Events), NEW x \in Events, events' = Append(events, x)
    PROVE  /\ events' \in Seq(Events)
           /\ DOMAIN events' = DOMAIN events \cup {Len(events) + 1}
           /\ Len(events) + 1 \notin DOMAIN events
           /\ events'[Len(events) + 1] = x
           /\ \A i \in DOMAIN events : /\ events'[i] = events[i]
                                       /\ i \in Nat /\ i < Len(events) + 1
           /\ \A e : Waits(e)' <=> Waits(e) \/ e = x
  <1>1. /\ events' \in Seq(Events)
        /\ DOMAIN events' = DOMAIN events \cup {Len(events) + 1}
        /\ Len(events) + 1 \notin DOMAIN events
        /\ events'[Len(events) + 1] = x
        /\ \A i \in DOMAIN events : /\ events'[i] = events[i]
                                    /\ i \in Nat /\ i < Len(events) + 1
    OBVIOUS
  <1>2. \A e : Waits(e)' <=> Waits(e) \/ e = x
    BY <1>1 DEF Waits
  <1> QED BY <1>1, <1>2

\* A handled event was the first one; the others move up.
LEMMA Handled ==
    ASSUME events \in Seq(Events), events # <<>>, events' = Tail(events)
    PROVE  /\ events' \in Seq(Events)
           /\ DOMAIN events \in SUBSET Nat
           /\ \A i \in DOMAIN events' : i + 1 \in DOMAIN events /\ events'[i] = events[i + 1]
           /\ \A i \in DOMAIN events : i = 1 \/ (i - 1 \in DOMAIN events' /\ events'[i - 1] = events[i])
           /\ 1 \in DOMAIN events /\ events[1] = Head(events)
           /\ \A e : Waits(e)' => Waits(e)
           /\ \A e : Waits(e) => Waits(e)' \/ e = Head(events)
           /\ Waits(Head(events))
  <1>0. /\ Len(events) \in Nat \ {0} /\ DOMAIN events = 1..Len(events)
        /\ events' \in Seq(Events) /\ DOMAIN events' = 1..(Len(events) - 1)
        /\ \A i \in 1..(Len(events) - 1) : events'[i] = events[i + 1]
        /\ events[1] = Head(events)
    OBVIOUS
  <1>1. /\ events' \in Seq(Events)
        /\ DOMAIN events \in SUBSET Nat
        /\ \A i \in DOMAIN events' : i + 1 \in DOMAIN events /\ events'[i] = events[i + 1]
        /\ \A i \in DOMAIN events : i = 1 \/ (i - 1 \in DOMAIN events' /\ events'[i - 1] = events[i])
        /\ 1 \in DOMAIN events /\ events[1] = Head(events)
    <2>1. ASSUME NEW i \in DOMAIN events, i # 1
          PROVE  i - 1 \in DOMAIN events' /\ events'[i - 1] = events[i]
      <3>1. i \in Nat /\ i - 1 \in 1..(Len(events) - 1) /\ (i - 1) + 1 = i
        BY <1>0, <2>1
      <3> QED BY <1>0, <3>1
    <2>2. ASSUME NEW i \in DOMAIN events'
          PROVE  i + 1 \in DOMAIN events /\ events'[i] = events[i + 1]
      BY <1>0
    <2>3. DOMAIN events \in SUBSET Nat /\ 1 \in DOMAIN events
      BY <1>0
    <2> QED BY <1>0, <2>1, <2>2, <2>3
  <1>2. /\ \A e : Waits(e)' => Waits(e)
        /\ \A e : Waits(e) => Waits(e)' \/ e = Head(events)
        /\ Waits(Head(events))
    <2>1. ASSUME NEW e, Waits(e)'
          PROVE  Waits(e)
      BY <1>1, <2>1 DEF Waits
    <2>2. ASSUME NEW e, Waits(e), e # Head(events)
          PROVE  Waits(e)'
      <3>1. PICK i \in DOMAIN events : events[i] = e
        BY <2>2 DEF Waits
      <3>2. i - 1 \in DOMAIN events' /\ events'[i - 1] = e
        BY <1>1, <2>2, <3>1
      <3> QED BY <3>2 DEF Waits
    <2>3. Waits(Head(events))
      BY <1>1 DEF Waits
    <2> QED BY <2>1, <2>2, <2>3
  <1> QED BY <1>1, <1>2

\* The jobs; a reload comes before its settings and the button last.
LEMMA JobSet ==
    /\ Jobs = {"api", "reload", "settings", "setup", "clock", "timed_out", "ap_needed",
               "ap_expired", "scan", "finished", "connect", "opened", "refused", "button"}
    /\ Rank["reload"] = 2 /\ Rank["settings"] = 3 /\ Rank["button"] = 14
    /\ \A j \in Jobs : Rank[j] \in 1..14 /\ (Rank[j] = 14 => j = "button")
  <1>1. DOMAIN Order = 1..14
    BY DEF Order
  <1>2. Jobs = {"api", "reload", "settings", "setup", "clock", "timed_out", "ap_needed",
                "ap_expired", "scan", "finished", "connect", "opened", "refused", "button"}
    BY <1>1 DEF Jobs, Order
  <1>3. \A i \in DOMAIN Order : Order[i] = "reload" <=> i = 2
    BY <1>1 DEF Order
  <1>4. \A i \in DOMAIN Order : Order[i] = "settings" <=> i = 3
    BY <1>1 DEF Order
  <1>5. \A i \in DOMAIN Order : Order[i] = "button" <=> i = 14
    BY <1>1 DEF Order
  <1>6. 2 \in DOMAIN Order /\ 3 \in DOMAIN Order /\ 14 \in DOMAIN Order
    BY <1>1
  <1>7. ASSUME NEW j \in Jobs
        PROVE  Rank[j] \in 1..14 /\ Order[Rank[j]] = j
    <2>1. Rank[j] = CHOOSE i \in DOMAIN Order : Order[i] = j
      BY DEF Rank
    <2>2. \E i \in DOMAIN Order : Order[i] = j
      BY DEF Jobs
    <2> QED BY <1>1, <2>1, <2>2
  <1>8. "reload" \in Jobs /\ "settings" \in Jobs /\ "button" \in Jobs
    BY <1>2
  <1>9. /\ Rank["reload"] = 2 /\ Rank["settings"] = 3 /\ Rank["button"] = 14
    BY <1>1, <1>3, <1>4, <1>5, <1>7, <1>8
  <1>10. \A j \in Jobs : Rank[j] = 14 => j = "button"
    BY <1>1, <1>5, <1>7
  <1> QED BY <1>2, <1>7, <1>9, <1>10
-----------------------------------------------------------------------------
(* Types                                                                   *)

State == [connected : BOOLEAN, connecting : BOOLEAN, associated : BOOLEAN,
          ap_enabled : BOOLEAN, scanning : BOOLEAN, has_credentials : BOOLEAN]
Levels == {"off", "running", "due"}
Driver == [link : Links, ap : BOOLEAN, scan : BOOLEAN]

LEMMA InitType == Init => TypeOK
  <1> SUFFICES ASSUME Init PROVE TypeOK
    OBVIOUS
  <1>1. timer \in [Timers -> Levels]
    BY DEF Init, Timers, Levels
  <1>2. todo \subseteq Jobs
    BY JobSet DEF Init
  <1>3. store \in Nat /\ applied \in 0..store
    BY DEF Init
  <1>4. driver \in Driver /\ events \in Seq(Events)
    BY DEF Init, Driver, Links
  <1>5. faults \in 0..MaxFaults /\ visits \in 0..MaxRequests
    BY NetworkAssumption DEF Init
  <1> QED BY <1>1, <1>2, <1>3, <1>4, <1>5 DEF Init, TypeOK, Levels, Driver

\* What a setup window's opening and a driver call do to their variables.
LEMMA SetupType ==
    ASSUME TypeOK, NEW ok \in BOOLEAN, setup_enable(ok)
    PROVE  state' \in State /\ timer' \in [Timers -> Levels] /\ driver' \in Driver
  <1>0. state \in State /\ timer \in [Timers -> Levels] /\ driver \in Driver
    BY DEF TypeOK, State, Levels, Driver
  <1>1. CASE ok
    <2>1. /\ driver' = [driver EXCEPT !.ap = TRUE]
          /\ state' = [state EXCEPT !.ap_enabled = TRUE]
          /\ \E l \in {"running", "off"} : timer' = [timer EXCEPT !.ap = l]
      BY <1>1 DEF setup_enable
    <2>2. state' \in State
      BY <1>0, <2>1 DEF State
    <2>3. driver' \in Driver
      BY <1>0, <2>1 DEF Driver
    <2>4. timer' \in [Timers -> Levels]
      BY <1>0, <2>1 DEF Levels
    <2> QED BY <2>2, <2>3, <2>4
  <1>2. CASE ~ok
    BY <1>2 DEF setup_enable, TypeOK, State, Levels, Driver
  <1> QED BY <1>1, <1>2

LEMMA OutcomeType ==
    ASSUME TypeOK, NEW ok \in BOOLEAN, Outcome(ok)
    PROVE  faults' \in 0..MaxFaults
  BY NetworkAssumption DEF TypeOK, Outcome

LEMMA VisitorType ==
    ASSUME TypeOK, wifi_post \/ monitor_api_schedule_effects \/ monitor_network_scan
    PROVE  TypeOK'
  <1>1. CASE wifi_post
    <2>1. visits' \in 0..MaxRequests /\ store' \in Nat /\ applied' \in 0..store'
      BY <1>1, NetworkAssumption DEF wifi_post, TypeOK
    <2> QED BY <1>1, <2>1 DEF wifi_post, TypeOK
  <1>2. CASE monitor_api_schedule_effects
    <2>1. timer' \in [Timers -> Levels]
      BY <1>2 DEF monitor_api_schedule_effects, TypeOK, Levels
    <2> QED BY <1>2, <2>1 DEF monitor_api_schedule_effects, TypeOK, Levels
  <1>3. CASE monitor_network_scan
    <2>1. state' \in State
      BY <1>3 DEF monitor_network_scan, TypeOK, State
    <2>2. visits' \in 0..MaxRequests
      BY <1>3, NetworkAssumption DEF monitor_network_scan, TypeOK
    <2>3. requested' \subseteq Requests
      BY <1>3 DEF monitor_network_scan, TypeOK, Requests
    <2> QED BY <1>3, <2>1, <2>2, <2>3 DEF monitor_network_scan, settings, TypeOK, State
  <1> QED BY <1>1, <1>2, <1>3

LEMMA EventType ==
    ASSUME TypeOK, EventTask
    PROVE  TypeOK'
  <1>1. /\ events' \in Seq(Events)
        /\ UNCHANGED <<settings, todo, button, driver, faults, visits>>
    BY Handled DEF EventTask, GotIp, StaConnected, StaDisconnected, ScanDone, Handle, TypeOK
  <1>2. state' \in State
    BY DEF EventTask, GotIp, StaConnected, StaDisconnected, ScanDone, TypeOK, State
  <1>3. timer' \in [Timers -> Levels]
    BY DEF EventTask, GotIp, StaConnected, StaDisconnected, ScanDone, TypeOK, Levels
  <1>4. requested' \subseteq Requests
    BY DEF EventTask, GotIp, StaConnected, StaDisconnected, ScanDone, TypeOK, Requests
  <1> QED BY <1>1, <1>2, <1>3, <1>4 DEF TypeOK, State, Levels, settings

LEMMA DriverType ==
    ASSUME TypeOK, Join \/ Lease \/ Drop \/ ScanEnds
    PROVE  TypeOK'
  <1>1. UNCHANGED <<state, timer, settings, requested, todo, button, faults, visits>>
    BY DEF Join, Lease, Drop, ScanEnds, Post
  <1>2. \E x \in Events : events' = Append(events, x)
    BY DEF Join, Lease, Drop, ScanEnds, Post, Events
  <1>3. events' \in Seq(Events)
    BY <1>2, Posted DEF TypeOK
  <1>4. driver' \in Driver
    BY DEF Join, Lease, Drop, ScanEnds, Post, TypeOK, Driver, Links
  <1> QED BY <1>1, <1>3, <1>4 DEF TypeOK, Driver, settings

LEMMA DisconnectType ==
    ASSUME TypeOK, Disconnect
    PROVE  driver' \in Driver /\ events' \in Seq(Events)
  <1>1. driver' \in Driver
    BY DEF Disconnect, TypeOK, Driver, Links
  <1>2. events' \in Seq(Events)
    BY DEF Disconnect, TypeOK, Events
  <1> QED BY <1>1, <1>2

\* The jobs the critical section decides on.
LEMMA SnapshotTodo ==
    ASSUME TypeOK, Snapshot
    PROVE  /\ todo = {} /\ todo' \subseteq Jobs /\ requested' = {}
           /\ requested \subseteq todo'
           /\ "reload" \in todo' <=> "reload" \in requested
           /\ "settings" \in todo' <=> "reload" \in requested
           /\ "scan" \in todo' <=> "scan" \in requested
           /\ "finished" \in todo' <=> "finished" \in requested
           /\ "timed_out" \in todo' <=> state.connecting /\ timer.connection = "due"
           /\ "connect" \in todo' => /\ ~state.connected /\ ~state.connecting
                                     /\ timer.retry = "due"
           /\ "opened" \notin todo' /\ "refused" \notin todo'
           /\ "timed_out" \in todo' => /\ state' = [state EXCEPT !.connecting = FALSE]
                                       /\ timer' = [timer EXCEPT !.connection = "off",
                                                                 !.retry = "running"]
           /\ "timed_out" \notin todo' => UNCHANGED <<state, timer>>
           /\ UNCHANGED <<settings, driver, events>>
  <1>1. requested \subseteq {"reload", "scan", "finished", "clock"}
    BY DEF TypeOK, Requests
  <1>2. /\ Decided \subseteq {"reload", "scan", "finished", "clock", "button", "connect",
                              "ap_needed", "ap_expired", "timed_out"}
        /\ requested \subseteq Decided
        /\ "reload" \in Decided <=> "reload" \in requested
        /\ "scan" \in Decided <=> "scan" \in requested
        /\ "finished" \in Decided <=> "finished" \in requested
        /\ "timed_out" \in Decided <=> state.connecting /\ timer.connection = "due"
        /\ "connect" \in Decided => /\ ~state.connected /\ ~state.connecting
                                    /\ timer.retry = "due"
    BY <1>1 DEF Decided, Due
  <1>3. /\ Decided \ {"connect"} \subseteq todo'
        /\ todo' \subseteq Decided \cup {"settings", "setup"}
        /\ "settings" \in todo' <=> "reload" \in Decided
    <2>1. CASE "reload" \in Decided
      <3>1. todo' = (Decided \ {"connect"}) \cup {"settings", "setup"}
        BY <2>1 DEF Snapshot
      <3> QED BY <2>1, <3>1
    <2>2. CASE "reload" \notin Decided
      <3>1. todo' = Decided \/ todo' = Decided \ {"connect"}
        BY <2>2 DEF Snapshot
      <3> QED BY <1>2, <2>2, <3>1
    <2> QED BY <2>1, <2>2
  <1>4. todo' \subseteq Jobs
    BY <1>2, <1>3, JobSet
  <1>5. "timed_out" \in todo' <=> "timed_out" \in Decided
    BY <1>3
  <1>6. /\ todo = {} /\ requested' = {} /\ UNCHANGED <<settings, driver, events>>
        /\ "timed_out" \in Decided => /\ state' = [state EXCEPT !.connecting = FALSE]
                                      /\ timer' = [timer EXCEPT !.connection = "off",
                                                                !.retry = "running"]
        /\ "timed_out" \notin Decided => UNCHANGED <<state, timer>>
    BY DEF Snapshot
  <1> QED BY <1>1, <1>2, <1>3, <1>4, <1>5, <1>6

LEMMA MainType ==
    ASSUME TypeOK, MainTask
    PROVE  TypeOK'
  <1>1. CASE monitor_api_tick
    <2>1. timer' \in [Timers -> Levels]
      BY <1>1 DEF monitor_api_tick, TakeEffects, TypeOK, Levels
    <2>2. requested' \subseteq Requests /\ todo' \subseteq Jobs
      BY <1>1 DEF monitor_api_tick, TakeEffects, Done, TypeOK, Requests
    <2> QED BY <1>1, <2>1, <2>2 DEF monitor_api_tick, TypeOK, Levels, settings
  <1>2. CASE Snapshot
    <2>1. todo' \subseteq Jobs /\ requested' = {}
      BY <1>2, SnapshotTodo
    <2>2. state' \in State
      BY <1>2 DEF Snapshot, TypeOK, State
    <2>3. timer' \in [Timers -> Levels]
      BY <1>2 DEF Snapshot, TypeOK, Levels
    <2> QED BY <1>2, <2>1, <2>2, <2>3 DEF Snapshot, TypeOK, State, Levels, settings
  <1>3. CASE StartClock
    BY <1>3 DEF StartClock, Done, TypeOK, settings
  <1>4. CASE FinishScan
    <2>1. state' \in State
      BY <1>4 DEF FinishScan, TypeOK, State
    <2> QED BY <1>4, <2>1 DEF FinishScan, Done, TypeOK, State, settings
  <1>5. ASSUME NEW j \in {"reload", "timed_out"}, TakeDown(j)
        PROVE  TypeOK'
    <2>1. driver' \in Driver /\ events' \in Seq(Events)
      BY <1>5, DisconnectType DEF TakeDown
    <2> QED BY <1>5, <2>1 DEF TakeDown, Done, TypeOK, Driver, settings
  <1>6. ASSUME NEW ok \in BOOLEAN, set_station(ok)
        PROVE  TypeOK'
    <2>1. state' \in State
      BY <1>6 DEF set_station, TypeOK, State
    <2>2. timer' \in [Timers -> Levels]
      BY <1>6 DEF set_station, TypeOK, Levels
    <2>3. applied' \in 0..store' /\ store' \in Nat /\ faults' \in 0..MaxFaults
      BY <1>6, OutcomeType DEF set_station, TypeOK
    <2> QED BY <1>6, <2>1, <2>2, <2>3 DEF set_station, Done, TypeOK, State, Levels
  <1>7. ASSUME NEW j \in {"setup", "ap_needed"}, NEW ok \in BOOLEAN, SetupEnable(j, ok)
        PROVE  TypeOK'
    <2>1. state' \in State /\ timer' \in [Timers -> Levels] /\ driver' \in Driver
          /\ faults' \in 0..MaxFaults
      BY <1>7, SetupType, OutcomeType DEF SetupEnable
    <2> QED BY <1>7, <2>1 DEF SetupEnable, Done, TypeOK, State, Levels, Driver, settings
  <1>8. ASSUME NEW ok \in BOOLEAN, CloseSetup(ok)
        PROVE  TypeOK'
    <2>0. state \in State /\ driver \in Driver
      BY DEF TypeOK, State, Driver
    <2>1. \/ UNCHANGED <<driver, state>>
          \/ /\ driver' = [driver EXCEPT !.ap = FALSE]
             /\ state' = [state EXCEPT !.ap_enabled = FALSE]
      BY <1>8 DEF CloseSetup
    <2>2. state' \in State
      BY <2>0, <2>1 DEF State
    <2>3. driver' \in Driver
      BY <2>0, <2>1 DEF Driver
    <2>4. faults' \in 0..MaxFaults
      BY <1>8, OutcomeType DEF CloseSetup
    <2> QED BY <1>8, <2>2, <2>3, <2>4 DEF CloseSetup, Done, TypeOK, State, Driver, settings
  <1>9. ASSUME NEW ok \in BOOLEAN, StartScan(ok)
        PROVE  TypeOK'
    <2>1. state' \in State
      BY <1>9 DEF StartScan, TypeOK, State
    <2>2. driver' \in Driver
      BY <1>9 DEF StartScan, TypeOK, Driver
    <2>3. faults' \in 0..MaxFaults
      BY <1>9, OutcomeType DEF StartScan, TypeOK
    <2> QED BY <1>9, <2>1, <2>2, <2>3 DEF StartScan, Done, TypeOK, State, Driver, settings
  <1>10. ASSUME NEW ok \in BOOLEAN, Connect(ok)
         PROVE  TypeOK'
    <2>1. todo' \subseteq Jobs
      BY <1>10, JobSet DEF Connect, TypeOK
    <2>2. driver' \in Driver
      BY <1>10 DEF Connect, TypeOK, Driver, Links
    <2>3. faults' \in 0..MaxFaults
      BY <1>10, OutcomeType DEF Connect
    <2> QED BY <1>10, <2>1, <2>2, <2>3 DEF Connect, TypeOK, Driver, settings
  <1>11. ASSUME NEW ok \in BOOLEAN, RecordConnect(ok)
         PROVE  TypeOK'
    <2>1. state' \in State
      BY <1>11 DEF RecordConnect, Record, TypeOK, State
    <2>2. timer' \in [Timers -> Levels]
      BY <1>11 DEF RecordConnect, Record, TypeOK, Levels
    <2> QED BY <1>11, <2>1, <2>2 DEF RecordConnect, Done, TypeOK, State, Levels, settings
  <1>12. ASSUME NEW ok \in BOOLEAN, NEW level \in {"up", "down", "held"}, Button(level, ok)
         PROVE  TypeOK'
    <2>1. todo' \subseteq Jobs /\ button' \in BOOLEAN
      BY <1>12, JobSet DEF Button
    <2>2. state' \in State /\ timer' \in [Timers -> Levels] /\ driver' \in Driver
          /\ faults' \in 0..MaxFaults
      <3>1. CASE level = "held" /\ ~button
        BY <1>12, <3>1, SetupType, OutcomeType DEF Button
      <3>2. CASE ~(level = "held" /\ ~button)
        BY <1>12, <3>2 DEF Button, TypeOK, State, Levels, Driver
      <3> QED BY <3>1, <3>2
    <2> QED BY <1>12, <2>1, <2>2 DEF Button, TypeOK, State, Levels, Driver, settings
  <1> QED BY <1>1, <1>2, <1>3, <1>4, <1>5, <1>6, <1>7, <1>8, <1>9, <1>10, <1>11, <1>12
          DEF MainTask

\* Every step keeps the types.
LEMMA StepType == TypeOK /\ [Next]_vars => TypeOK'
  <1> SUFFICES ASSUME TypeOK, [Next]_vars PROVE TypeOK'
    OBVIOUS
  <1>1. CASE UNCHANGED vars
    BY <1>1 DEF vars, TypeOK
  <1>2. ASSUME NEW t \in Timers, Elapse(t)
        PROVE  TypeOK'
    <2>1. timer' \in [Timers -> Levels]
      BY <1>2 DEF Elapse, TypeOK, Levels
    <2> QED BY <1>2, <2>1 DEF Elapse, TypeOK, Levels, settings
  <1> QED BY <1>1, <1>2, VisitorType, EventType, MainType, DriverType DEF Next
-----------------------------------------------------------------------------
(* The setup window                                                        *)

\* The steps outside of the main task that touch the window are the events.
LEMMA WindowStep == TypeOK /\ SetupWindowBounded /\ [Next]_vars => SetupWindowBounded'
  <1> SUFFICES ASSUME TypeOK, SetupWindowBounded, [Next]_vars PROVE SetupWindowBounded'
    OBVIOUS
  <1> USE DEF SetupWindowBounded
  <1>0. state \in State /\ timer \in [Timers -> Levels]
    BY DEF TypeOK, State, Levels
  <1>1. CASE UNCHANGED <<state, timer>>
    BY <1>1
  <1>2. ASSUME NEW ok \in BOOLEAN, setup_enable(ok)
        PROVE  SetupWindowBounded'
    <2>1. CASE ok
      <3>1. /\ state' = [state EXCEPT !.ap_enabled = TRUE]
            /\ timer' = [timer EXCEPT !.ap = IF state.connected THEN "running" ELSE "off"]
        BY <1>2, <2>1 DEF setup_enable
      <3> QED BY <1>0, <3>1 DEF State, Timers
    <2>2. CASE ~ok
      BY <1>1, <1>2, <2>2 DEF setup_enable
    <2> QED BY <2>1, <2>2
  <1>3. CASE wifi_post \/ ScanDone \/ StartClock \/ Join \/ Lease \/ Drop \/ ScanEnds
             \/ (\E j \in {"reload", "timed_out"} : TakeDown(j))
             \/ (\E ok \in BOOLEAN : Connect(ok))
             \/ UNCHANGED vars
    BY <1>1, <1>3 DEF wifi_post, ScanDone, StartClock, Join, Lease, Drop, ScanEnds, Post,
                      TakeDown, Connect, vars
  <1>4. CASE GotIp \/ StaDisconnected \/ StaConnected
    BY <1>0, <1>4 DEF GotIp, StaDisconnected, StaConnected, State, Timers
  <1>5. CASE monitor_api_schedule_effects \/ monitor_api_tick
    BY <1>0, <1>5 DEF monitor_api_schedule_effects, monitor_api_tick, TakeEffects, Timers
  <1>6. CASE monitor_network_scan \/ FinishScan \/ (\E ok \in BOOLEAN : StartScan(ok))
    BY <1>0, <1>6 DEF monitor_network_scan, FinishScan, StartScan, State
  <1>7. CASE Snapshot
    BY <1>0, <1>7 DEF Snapshot, State, Timers
  <1>8. CASE \E ok \in BOOLEAN : set_station(ok) \/ RecordConnect(ok)
    BY <1>0, <1>8 DEF set_station, RecordConnect, Record, State, Timers
  <1>9. CASE \E ok \in BOOLEAN : CloseSetup(ok)
    <2>1. UNCHANGED timer /\ (UNCHANGED state \/ state' = [state EXCEPT !.ap_enabled = FALSE])
      BY <1>9 DEF CloseSetup
    <2> QED BY <1>0, <2>1 DEF State
  <1>10. CASE \E ok \in BOOLEAN :
                \/ \E j \in {"setup", "ap_needed"} : SetupEnable(j, ok)
                \/ \E level \in {"up", "down", "held"} : Button(level, ok)
    BY <1>1, <1>2, <1>10 DEF SetupEnable, Button
  <1>11. CASE \E t \in Timers : Elapse(t)
    BY <1>0, <1>11 DEF Elapse, Timers
  <1> QED BY <1>3, <1>4, <1>5, <1>6, <1>7, <1>8, <1>9, <1>10, <1>11
          DEF Next, EventTask, MainTask

-----------------------------------------------------------------------------
(* Settings on their way to the station                                    *)

\* A step that moves no settings.
LEMMA SettingsStay ==
    ASSUME TypeOK, SettingsNotLost, UNCHANGED <<store, applied, posting>>,
           state'.has_credentials = state.has_credentials,
           timer.effects # "off" => timer'.effects # "off",
           "reload" \in requested => "reload" \in requested',
           "settings" \in todo => "settings" \in todo'
    PROVE  SettingsNotLost'
  BY DEF SettingsNotLost

LEMMA SettingsStep == TypeOK /\ SettingsNotLost /\ [Next]_vars => SettingsNotLost'
  <1> SUFFICES ASSUME TypeOK, SettingsNotLost, [Next]_vars PROVE SettingsNotLost'
    OBVIOUS
  <1>0. state \in State /\ timer \in [Timers -> Levels]
    BY DEF TypeOK, State, Levels
  <1>1. CASE wifi_post
    BY <1>1 DEF wifi_post, SettingsNotLost
  <1>2. CASE monitor_api_schedule_effects
    BY <1>0, <1>2 DEF monitor_api_schedule_effects, SettingsNotLost, Timers
  <1>3. CASE monitor_api_tick
    <2>1. UNCHANGED <<state, store, applied, posting>> /\ todo' = todo \ {"api"}
      BY <1>3 DEF monitor_api_tick, Done, settings
    <2>2. CASE UNCHANGED <<requested, timer>>
      BY <2>1, <2>2, SettingsStay
    <2>3. CASE "reload" \in requested'
      BY <2>3 DEF SettingsNotLost
    <2> QED BY <1>3, <2>2, <2>3 DEF monitor_api_tick, TakeEffects
  <1>4. CASE Snapshot
    <2>1. UNCHANGED <<store, applied, posting>>
      BY <1>4 DEF Snapshot, settings
    <2>2. "reload" \in requested => "settings" \in todo'
      BY <1>4, SnapshotTodo
    <2>3. todo = {}
      BY <1>4 DEF Snapshot
    <2>4. /\ state'.has_credentials = state.has_credentials
          /\ timer'.effects = timer.effects
      BY <1>0, <1>4 DEF Snapshot, State, Timers
    <2> QED BY <2>1, <2>2, <2>3, <2>4 DEF SettingsNotLost
  <1>5. ASSUME NEW ok \in BOOLEAN, set_station(ok)
        PROVE  SettingsNotLost'
    <2>1. CASE ok
      <3>1. applied' = store'
        BY <1>5, <2>1 DEF set_station
      <3> QED BY <3>1 DEF SettingsNotLost
    <2>2. CASE ~ok
      <3>1. state'.has_credentials = FALSE
        BY <1>0, <1>5, <2>2 DEF set_station, State
      <3> QED BY <3>1 DEF SettingsNotLost
    <2> QED BY <2>1, <2>2
  <1>6. ASSUME UNCHANGED settings, UNCHANGED <<requested, timer, state>>,
               "settings" \in todo => "settings" \in todo'
        PROVE  SettingsNotLost'
    BY <1>6, SettingsStay DEF settings
  <1>7. CASE StartClock \/ Join \/ Lease \/ Drop \/ ScanEnds
             \/ (\E j \in {"reload", "timed_out"} : TakeDown(j))
             \/ (\E ok \in BOOLEAN : Connect(ok))
             \/ UNCHANGED vars
    <2>1. UNCHANGED settings /\ UNCHANGED <<requested, timer, state>>
      BY <1>7 DEF StartClock, Join, Lease, Drop, ScanEnds, Post, TakeDown, Connect, vars,
                  settings
    <2>2. "settings" \in todo => "settings" \in todo'
      BY <1>7 DEF StartClock, Join, Lease, Drop, ScanEnds, Post, TakeDown, Connect, Done,
                  vars
    <2> QED BY <1>6, <2>1, <2>2
  <1>8. CASE GotIp \/ StaDisconnected \/ StaConnected \/ ScanDone
    <2>1. UNCHANGED settings /\ UNCHANGED todo /\ requested \subseteq requested'
      BY <1>8 DEF GotIp, StaDisconnected, StaConnected, ScanDone, Handle
    <2>2. /\ state'.has_credentials = state.has_credentials
          /\ timer'.effects = timer.effects
      BY <1>0, <1>8 DEF GotIp, StaDisconnected, StaConnected, ScanDone, State, Timers
    <2> QED BY <2>1, <2>2, SettingsStay DEF settings
  <1>9. CASE monitor_network_scan \/ FinishScan \/ (\E ok \in BOOLEAN : StartScan(ok))
    <2>1. UNCHANGED settings /\ UNCHANGED timer /\ requested \subseteq requested'
      BY <1>9 DEF monitor_network_scan, FinishScan, StartScan
    <2>2. state'.has_credentials = state.has_credentials
      BY <1>0, <1>9 DEF monitor_network_scan, FinishScan, StartScan, State
    <2>3. "settings" \in todo => "settings" \in todo'
      BY <1>9 DEF monitor_network_scan, FinishScan, StartScan, Done
    <2> QED BY <2>1, <2>2, <2>3, SettingsStay DEF settings
  <1>10. ASSUME NEW ok \in BOOLEAN, setup_enable(ok), UNCHANGED settings,
                UNCHANGED requested, "settings" \in todo => "settings" \in todo'
         PROVE  SettingsNotLost'
    <2>1. /\ \/ UNCHANGED state \/ state' = [state EXCEPT !.ap_enabled = TRUE]
          /\ \/ UNCHANGED timer
             \/ timer' = [timer EXCEPT !.ap = IF state.connected THEN "running" ELSE "off"]
      BY <1>10 DEF setup_enable
    <2>2. /\ state'.has_credentials = state.has_credentials
          /\ timer'.effects = timer.effects
      BY <1>0, <2>1 DEF State, Timers
    <2> QED BY <1>10, <2>2, SettingsStay DEF settings
  <1>11. CASE \E ok \in BOOLEAN, j \in {"setup", "ap_needed"} : SetupEnable(j, ok)
    BY <1>10, <1>11 DEF SetupEnable, Done
  <1>12. CASE \E ok \in BOOLEAN, level \in {"up", "down", "held"} : Button(level, ok)
    <2>1. "settings" \notin todo
      BY <1>12, JobSet DEF Button, At, TypeOK
    <2>2. UNCHANGED settings /\ UNCHANGED requested
      BY <1>12 DEF Button
    <2>3. CASE \E ok \in BOOLEAN : setup_enable(ok)
      BY <1>10, <2>1, <2>2, <2>3
    <2>4. CASE UNCHANGED <<state, timer>>
      BY <1>6, <2>1, <2>2, <2>4
    <2> QED BY <1>12, <2>3, <2>4 DEF Button
  <1>13. CASE \E ok \in BOOLEAN : CloseSetup(ok) \/ RecordConnect(ok)
    <2>1. UNCHANGED settings /\ UNCHANGED requested
          /\ ("settings" \in todo => "settings" \in todo')
      BY <1>13 DEF CloseSetup, RecordConnect, Done
    <2>2. \/ UNCHANGED <<state, timer>>
          \/ state' = [state EXCEPT !.ap_enabled = FALSE] /\ UNCHANGED timer
          \/ \E ok \in BOOLEAN : Record(ok)
      BY <1>13 DEF CloseSetup, RecordConnect
    <2>3. /\ state'.has_credentials = state.has_credentials
          /\ timer'.effects = timer.effects
      BY <1>0, <2>2 DEF Record, State, Timers
    <2> QED BY <2>1, <2>3, SettingsStay DEF settings
  <1>14. CASE \E t \in Timers : Elapse(t)
    <2>1. UNCHANGED settings /\ UNCHANGED <<state, requested, todo>>
      BY <1>14 DEF Elapse
    <2>2. timer.effects # "off" => timer'.effects # "off"
      BY <1>0, <1>14 DEF Elapse, Timers
    <2> QED BY <2>1, <2>2, SettingsStay DEF settings
  <1> QED BY <1>1, <1>2, <1>3, <1>4, <1>5, <1>7, <1>8, <1>9, <1>11, <1>12, <1>13, <1>14
          DEF Next, EventTask, MainTask
-----------------------------------------------------------------------------
(* The scan under way                                                      *)

\* At most one of the places holds the scan, and scanning says whether one does.
OnePlace(asked, starting, inDriver, posted, reported, collecting, scanning) ==
    /\ asked => ~(starting \/ inDriver \/ posted \/ reported \/ collecting)
    /\ starting => ~(inDriver \/ posted \/ reported \/ collecting)
    /\ inDriver => ~(posted \/ reported \/ collecting)
    /\ posted => ~(reported \/ collecting)
    /\ reported => ~collecting
    /\ scanning <=> asked \/ starting \/ inDriver \/ posted \/ reported \/ collecting

ScanPlace == OnePlace("scan" \in requested, "scan" \in todo, driver.scan,
                      Waits("SCAN_DONE"), "finished" \in requested, "finished" \in todo,
                      state.scanning)

LEMMA PlaceIs == (ScanAccounted <=> ScanPlace) /\ (ScanAccounted <=> ScanPlace)'
  <1>1. ScanAccounted <=> ScanPlace
    <2>1. /\ "asked" \in ScanPlaces <=> "scan" \in requested
          /\ "starting" \in ScanPlaces <=> "scan" \in todo
          /\ "driver" \in ScanPlaces <=> driver.scan
          /\ "posted" \in ScanPlaces <=> Waits("SCAN_DONE")
          /\ "reported" \in ScanPlaces <=> "finished" \in requested
          /\ "collecting" \in ScanPlaces <=> "finished" \in todo
      BY DEF ScanPlaces, Waits
    <2>2. ScanPlaces \subseteq {"asked", "starting", "driver", "posted", "reported",
                                "collecting"}
      BY DEF ScanPlaces
    <2> QED BY <2>1, <2>2 DEF ScanAccounted, ScanPlace, OnePlace
  <1>2. (ScanAccounted <=> ScanPlace)'
    <2>1. /\ "asked" \in ScanPlaces' <=> "scan" \in requested'
          /\ "starting" \in ScanPlaces' <=> "scan" \in todo'
          /\ "driver" \in ScanPlaces' <=> driver'.scan
          /\ "posted" \in ScanPlaces' <=> Waits("SCAN_DONE")'
          /\ "reported" \in ScanPlaces' <=> "finished" \in requested'
          /\ "collecting" \in ScanPlaces' <=> "finished" \in todo'
      BY DEF ScanPlaces, Waits
    <2>2. ScanPlaces' \subseteq {"asked", "starting", "driver", "posted", "reported",
                                 "collecting"}
      BY DEF ScanPlaces
    <2> QED BY <2>1, <2>2 DEF ScanAccounted, ScanPlace, OnePlace
  <1> QED BY <1>1, <1>2

\* A step that leaves the scan where it is.
LEMMA ScanStays ==
    ASSUME TypeOK, Scanning,
           \/ events' = events
           \/ \E x \in Events \ {"SCAN_DONE"} : events' = Append(events, x)
           \/ events # <<>> /\ Head(events) # "SCAN_DONE" /\ events' = Tail(events),
           driver'.scan = driver.scan, state'.scanning = state.scanning,
           "scan" \in requested' <=> "scan" \in requested,
           "finished" \in requested' <=> "finished" \in requested,
           "scan" \in todo' <=> "scan" \in todo,
           "finished" \in todo' <=> "finished" \in todo
    PROVE  Scanning'
  <1>0. events \in Seq(Events)
    BY DEF TypeOK
  <1>1. (Waits("SCAN_DONE")' <=> Waits("SCAN_DONE")) /\ OneReport'
    <2>1. CASE events' = events
      BY <2>1 DEF Waits, OneReport, Scanning
    <2>2. ASSUME NEW x \in Events \ {"SCAN_DONE"}, events' = Append(events, x)
          PROVE  (Waits("SCAN_DONE")' <=> Waits("SCAN_DONE")) /\ OneReport'
      BY <1>0, <2>2, Posted DEF OneReport, Scanning
    <2>3. CASE events # <<>> /\ Head(events) # "SCAN_DONE" /\ events' = Tail(events)
      <3>1. Waits("SCAN_DONE")' <=> Waits("SCAN_DONE")
        BY <1>0, <2>3, Handled
      <3>2. ASSUME NEW i \in DOMAIN events', NEW j \in DOMAIN events',
                   events'[i] = "SCAN_DONE", events'[j] = "SCAN_DONE"
            PROVE  i = j
        <4>1. /\ i + 1 \in DOMAIN events /\ events[i + 1] = "SCAN_DONE"
              /\ j + 1 \in DOMAIN events /\ events[j + 1] = "SCAN_DONE"
          BY <1>0, <2>3, <3>2, Handled
        <4>2. i + 1 = j + 1
          BY <4>1 DEF Scanning, OneReport
        <4>3. DOMAIN events' \in SUBSET Int
          BY <1>0, <2>3, Handled
        <4> QED BY <4>2, <4>3
      <3> QED BY <3>1, <3>2 DEF OneReport
    <2> QED BY <2>1, <2>2, <2>3
  <1>2. ScanPlace'
    BY <1>1, PlaceIs DEF Scanning, ScanPlace, OnePlace
  <1> QED BY <1>1, <1>2, PlaceIs DEF Scanning

LEMMA ScanStep == TypeOK /\ Scanning /\ [Next]_vars => Scanning'
  <1> SUFFICES ASSUME TypeOK, Scanning, [Next]_vars PROVE Scanning'
    OBVIOUS
  <1>0. /\ state \in State /\ driver \in Driver /\ events \in Seq(Events)
        /\ ScanPlace /\ OneReport
    BY PlaceIs DEF TypeOK, State, Driver, Scanning
  <1>1. CASE monitor_network_scan
    <2>1. /\ ~state.scanning /\ requested' = requested \cup {"scan"}
          /\ state'.scanning /\ UNCHANGED <<todo, driver, events>>
      BY <1>0, <1>1 DEF monitor_network_scan, State
    <2>2. ScanPlace' /\ OneReport'
      BY <1>0, <2>1 DEF ScanPlace, OnePlace, OneReport, Waits
    <2> QED BY <2>2, PlaceIs DEF Scanning
  <1>2. CASE Snapshot
    <2>1. /\ todo = {} /\ requested' = {} /\ UNCHANGED <<driver, events>>
          /\ "scan" \in todo' <=> "scan" \in requested
          /\ "finished" \in todo' <=> "finished" \in requested
      BY <1>2, SnapshotTodo
    <2>2. state'.scanning = state.scanning
      BY <1>0, <1>2 DEF Snapshot, State
    <2>3. ScanPlace' /\ OneReport'
      BY <1>0, <2>1, <2>2 DEF ScanPlace, OnePlace, OneReport, Waits
    <2> QED BY <2>3, PlaceIs DEF Scanning
  <1>3. ASSUME NEW ok \in BOOLEAN, StartScan(ok)
        PROVE  Scanning'
    <2>1. /\ "scan" \in todo /\ todo' = todo \ {"scan"} /\ UNCHANGED <<requested, events>>
          /\ state' = [state EXCEPT !.scanning = ok]
          /\ driver' = [driver EXCEPT !.scan = driver.scan \/ ok]
      BY <1>3 DEF StartScan, Done, At
    <2>2. state'.scanning = ok /\ driver'.scan = (driver.scan \/ ok)
      BY <1>0, <2>1 DEF State, Driver
    <2>3. ScanPlace' /\ OneReport'
      BY <1>0, <2>1, <2>2 DEF ScanPlace, OnePlace, OneReport, Waits
    <2> QED BY <2>3, PlaceIs DEF Scanning
  <1>4. CASE ScanEnds
    <2>1. /\ driver.scan /\ UNCHANGED <<state, requested, todo>>
          /\ driver' = [driver EXCEPT !.scan = FALSE]
          /\ events' = Append(events, "SCAN_DONE")
      BY <1>4 DEF ScanEnds
    <2>2. ~driver'.scan
      BY <1>0, <2>1 DEF Driver
    <2>3. ~Waits("SCAN_DONE") /\ "SCAN_DONE" \in Events
      BY <1>0, <2>1 DEF ScanPlace, OnePlace, Events
    <2>4. Waits("SCAN_DONE")' /\ OneReport'
      BY <1>0, <2>1, <2>3, Posted DEF OneReport, Waits
    <2>5. ScanPlace'
      BY <1>0, <2>1, <2>2, <2>4 DEF ScanPlace, OnePlace
    <2> QED BY <2>4, <2>5, PlaceIs DEF Scanning
  <1>5. CASE ScanDone
    <2>1. /\ events # <<>> /\ Head(events) = "SCAN_DONE" /\ events' = Tail(events)
          /\ requested' = requested \cup {"finished"} /\ UNCHANGED <<state, todo, driver>>
      BY <1>5 DEF ScanDone, Handle
    <2>2. /\ 1 \in DOMAIN events /\ events[1] = "SCAN_DONE" /\ Waits("SCAN_DONE")
          /\ DOMAIN events' \in SUBSET Nat /\ 0 \notin DOMAIN events'
          /\ \A i \in DOMAIN events' : i + 1 \in DOMAIN events /\ events'[i] = events[i + 1]
      BY <1>0, <2>1, Handled
    <2>3. \A i \in DOMAIN events' : events'[i] # "SCAN_DONE"
      <3> SUFFICES ASSUME NEW i \in DOMAIN events', events'[i] = "SCAN_DONE"
                   PROVE  FALSE
        OBVIOUS
      <3>1. i + 1 = 1
        BY <1>0, <2>2 DEF OneReport
      <3> QED BY <2>2, <3>1
    <2>4. ~Waits("SCAN_DONE")' /\ OneReport'
      BY <2>3 DEF Waits, OneReport
    <2>5. ScanPlace'
      BY <1>0, <2>1, <2>2, <2>4 DEF ScanPlace, OnePlace
    <2> QED BY <2>4, <2>5, PlaceIs DEF Scanning
  <1>6. CASE FinishScan
    <2>1. /\ "finished" \in todo /\ todo' = todo \ {"finished"}
          /\ state' = [state EXCEPT !.scanning = FALSE]
          /\ UNCHANGED <<requested, driver, events>>
      BY <1>6 DEF FinishScan, Done, At
    <2>2. ~state'.scanning
      BY <1>0, <2>1 DEF State
    <2>3. ScanPlace' /\ OneReport'
      BY <1>0, <2>1, <2>2 DEF ScanPlace, OnePlace, OneReport, Waits
    <2> QED BY <2>3, PlaceIs DEF Scanning
  <1>7. CASE wifi_post \/ monitor_api_schedule_effects \/ UNCHANGED vars
             \/ (\E t \in Timers : Elapse(t))
    <2>1. UNCHANGED <<state, driver, events, requested, todo>>
      BY <1>7 DEF wifi_post, monitor_api_schedule_effects, vars, Elapse
    <2> QED BY <2>1, ScanStays
  <1>8. CASE GotIp \/ StaConnected \/ StaDisconnected
    <2>1. /\ events # <<>> /\ Head(events) # "SCAN_DONE" /\ events' = Tail(events)
          /\ UNCHANGED <<driver, todo>>
          /\ requested' \in {requested, requested \cup {"clock"}}
      BY <1>8 DEF GotIp, StaConnected, StaDisconnected, Handle
    <2>2. state'.scanning = state.scanning
      BY <1>0, <1>8 DEF GotIp, StaConnected, StaDisconnected, State
    <2> QED BY <2>1, <2>2, ScanStays
  <1>9. CASE Join \/ Lease \/ Drop
    <2>1. /\ UNCHANGED <<state, requested, todo>>
          /\ \E x \in Events \ {"SCAN_DONE"} : events' = Append(events, x)
      BY <1>9 DEF Join, Lease, Drop, Post, Events
    <2>2. driver'.scan = driver.scan
      BY <1>0, <1>9 DEF Join, Lease, Drop, Post, Driver
    <2> QED BY <2>1, <2>2, ScanStays
  <1>10. CASE monitor_api_tick \/ StartClock
    <2>1. /\ UNCHANGED <<state, driver, events>>
          /\ todo' \in {todo \ {"api"}, todo \ {"clock"}}
          /\ requested' \in {requested, requested \cup {"reload"}}
      BY <1>10 DEF monitor_api_tick, StartClock, TakeEffects, Done
    <2> QED BY <2>1, ScanStays
  <1>11. ASSUME NEW j \in {"reload", "timed_out"}, TakeDown(j)
         PROVE  Scanning'
    <2>1. /\ UNCHANGED <<state, requested>> /\ todo' = todo \ {j}
          /\ events' \in {events, Append(events, "DISCONNECTED")}
          /\ driver' = [driver EXCEPT !.link = "idle"]
      BY <1>11 DEF TakeDown, Disconnect, Done
    <2>2. driver'.scan = driver.scan
      BY <1>0, <2>1 DEF Driver
    <2>3. "DISCONNECTED" \in Events \ {"SCAN_DONE"}
      BY DEF Events
    <2>4. events' = events \/ \E x \in Events \ {"SCAN_DONE"} : events' = Append(events, x)
      BY <2>1, <2>3
    <2>5. ("scan" \in todo' <=> "scan" \in todo) /\ ("finished" \in todo' <=> "finished" \in todo)
      BY <2>1
    <2> QED BY <2>1, <2>2, <2>4, <2>5, ScanStays
  <1>12. ASSUME NEW ok \in BOOLEAN, setup_enable(ok)
         PROVE  driver'.scan = driver.scan /\ state'.scanning = state.scanning
    <2>1. /\ \/ UNCHANGED state \/ state' = [state EXCEPT !.ap_enabled = TRUE]
          /\ \/ UNCHANGED driver \/ driver' = [driver EXCEPT !.ap = TRUE]
      BY <1>12 DEF setup_enable
    <2> QED BY <1>0, <2>1 DEF State, Driver
  <1>13. ASSUME NEW ok \in BOOLEAN,
                \/ set_station(ok) \/ CloseSetup(ok) \/ Connect(ok) \/ RecordConnect(ok)
                \/ \E j \in {"setup", "ap_needed"} : SetupEnable(j, ok)
         PROVE  Scanning'
    <2>1. UNCHANGED <<events, requested>>
      BY <1>13 DEF set_station, CloseSetup, Connect, RecordConnect, SetupEnable
    <2>2. \A j \in {"scan", "finished"} : j \in todo' <=> j \in todo
      BY <1>13 DEF set_station, CloseSetup, Connect, RecordConnect, SetupEnable, Done
    <2>3. driver'.scan = driver.scan /\ state'.scanning = state.scanning
      <3>1. CASE set_station(ok)
        BY <1>0, <3>1 DEF set_station, State
      <3>2. CASE CloseSetup(ok)
        <4>1. \/ UNCHANGED <<driver, state>>
              \/ /\ driver' = [driver EXCEPT !.ap = FALSE]
                 /\ state' = [state EXCEPT !.ap_enabled = FALSE]
          BY <3>2 DEF CloseSetup
        <4> QED BY <1>0, <4>1 DEF State, Driver
      <3>3. CASE Connect(ok)
        BY <1>0, <3>3 DEF Connect, Driver
      <3>4. CASE RecordConnect(ok)
        BY <1>0, <3>4 DEF RecordConnect, Record, State
      <3>5. CASE \E j \in {"setup", "ap_needed"} : SetupEnable(j, ok)
        BY <1>12, <3>5 DEF SetupEnable
      <3> QED BY <1>13, <3>1, <3>2, <3>3, <3>4, <3>5
    <2> QED BY <2>1, <2>2, <2>3, ScanStays
  <1>14. ASSUME NEW ok \in BOOLEAN, NEW level \in {"up", "down", "held"}, Button(level, ok)
         PROVE  Scanning'
    <2>1. UNCHANGED <<events, requested>> /\ todo' = {"api"}
      BY <1>14 DEF Button
    <2>2. "scan" \notin todo /\ "finished" \notin todo
      BY <1>14, JobSet DEF Button, At, TypeOK
    <2>3. driver'.scan = driver.scan /\ state'.scanning = state.scanning
      BY <1>12, <1>14 DEF Button
    <2> QED BY <2>1, <2>2, <2>3, ScanStays
  <1> QED BY <1>1, <1>2, <1>3, <1>4, <1>5, <1>6, <1>7, <1>8, <1>9, <1>10, <1>11, <1>13,
             <1>14 DEF Next, EventTask, MainTask
-----------------------------------------------------------------------------
(* The association and its deadline                                        *)

\* The jobs that the argument is about.
LinkJobs == {"connect", "refused", "opened", "timed_out", "reload", "settings"}

\* A step that touches neither the link, nor its events, flags, timers and jobs.
LEMMA LinkStays ==
    ASSUME Association, events' = events, driver'.link = driver.link,
           state'.connected = state.connected, state'.connecting = state.connecting,
           timer'.retry = timer.retry, timer'.connection = timer.connection,
           \A j \in LinkJobs : j \in todo' <=> j \in todo
    PROVE  Association'
  <1>1. \A e : Waits(e)' <=> Waits(e)
    BY DEF Waits
  <1>2. LeaseThenEnd'
    BY DEF Association, LeaseThenEnd
  <1> QED BY <1>1, <1>2 DEF Association, NoStaleEvent, Iteration, ConnectsFromIdle, LinkKnown,
                            EndKnown, Watched, LinkJobs

\* Handling an event keeps a lease in front of the end of its link.
LEMMA LeaseHandled ==
    ASSUME TypeOK, LeaseThenEnd, events # <<>>, events' = Tail(events), driver' = driver
    PROVE  LeaseThenEnd'
  <1> SUFFICES ASSUME driver.link = "idle",
                      NEW i \in DOMAIN events', events'[i] = "GOT_IP"
               PROVE  \E j \in DOMAIN events' : j > i /\ events'[j] = "DISCONNECTED"
    BY DEF LeaseThenEnd
  <1>0. events \in Seq(Events)
    BY DEF TypeOK
  <1>1. i \in Nat /\ i + 1 \in DOMAIN events /\ events[i + 1] = "GOT_IP"
    BY <1>0, Handled
  <1>2. PICK j \in DOMAIN events : j > i + 1 /\ events[j] = "DISCONNECTED"
    BY <1>1 DEF LeaseThenEnd
  <1>3. j \in Nat /\ j # 1
    BY <1>0, <1>1, <1>2, Handled
  <1>4. j - 1 \in DOMAIN events' /\ events'[j - 1] = "DISCONNECTED"
    BY <1>0, <1>2, <1>3, Handled
  <1> QED BY <1>1, <1>2, <1>3, <1>4

\* Posting another event than a lease does so too, and the end of a link
\* is posted behind its leases.
LEMMA LeasePosted ==
    ASSUME TypeOK, NEW x \in Events, events' = Append(events, x),
           \/ x = "DISCONNECTED"
           \/ driver'.link # "idle"
           \/ LeaseThenEnd /\ driver.link = "idle" /\ x # "GOT_IP"
    PROVE  LeaseThenEnd'
  <1> DEFINE n == Len(events) + 1
  <1> SUFFICES ASSUME driver'.link = "idle",
                      NEW i \in DOMAIN events', events'[i] = "GOT_IP"
               PROVE  \E j \in DOMAIN events' : j > i /\ events'[j] = "DISCONNECTED"
    BY DEF LeaseThenEnd
  <1>0. events \in Seq(Events)
    BY DEF TypeOK
  <1>1. /\ n \in DOMAIN events' /\ events'[n] = x
        /\ DOMAIN events' = DOMAIN events \cup {n}
        /\ \A k \in DOMAIN events : events'[k] = events[k] /\ k \in Nat /\ k < n
    BY <1>0, Posted
  <1>2. x # "GOT_IP"
    OBVIOUS
  <1>3. i \in DOMAIN events /\ events[i] = "GOT_IP"
    BY <1>1, <1>2
  <1>4. CASE x = "DISCONNECTED"
    <2>1. n \in Nat /\ i < n
      BY <1>0, <1>1, <1>3
    <2> QED BY <1>1, <1>4, <2>1
  <1>5. CASE LeaseThenEnd /\ driver.link = "idle"
    BY <1>1, <1>3, <1>5 DEF LeaseThenEnd
  <1> QED BY <1>4, <1>5

\* What the event task makes of the first event.
LEMMA EventLink ==
    ASSUME TypeOK, Association, EventTask
    PROVE  Association'
  <1>0. /\ state \in State /\ timer \in [Timers -> Levels] /\ events \in Seq(Events)
    BY DEF TypeOK, State, Levels
  <1>1. /\ events # <<>> /\ events' = Tail(events) /\ UNCHANGED <<todo, driver>>
    BY DEF EventTask, GotIp, StaConnected, StaDisconnected, ScanDone, Handle
  <1>2. /\ \A e : Waits(e)' => Waits(e)
        /\ \A e : Waits(e) => Waits(e)' \/ e = Head(events)
        /\ Waits(Head(events))
    BY <1>0, <1>1, Handled
  <1>3. LeaseThenEnd'
    BY <1>1, LeaseHandled DEF Association
  <1>4. NoStaleEvent' /\ ConnectsFromIdle'
    BY <1>1, <1>2 DEF Association, NoStaleEvent, ConnectsFromIdle
  <1>5. CASE GotIp
    <2>1. /\ Head(events) = "GOT_IP" /\ state'.connected
          /\ timer'.retry = timer.retry
      BY <1>0, <1>5 DEF GotIp, Handle, State, Timers
    <2>2. driver.link # "associated"
      BY <1>2, <2>1 DEF Association, NoStaleEvent
    <2>3. Iteration' /\ LinkKnown' /\ EndKnown' /\ Watched'
      BY <1>1, <1>2, <2>1, <2>2 DEF Association, Iteration, LinkKnown, EndKnown, Watched
    <2> QED BY <1>3, <1>4, <2>3 DEF Association
  <1>6. CASE StaConnected
    <2>1. /\ Head(events) = "CONNECTED" /\ state'.connecting
          /\ timer'.retry = timer.retry /\ timer'.connection = "running"
      BY <1>0, <1>6 DEF StaConnected, Handle, State, Timers
    <2>2. Iteration' /\ LinkKnown' /\ EndKnown' /\ Watched'
      BY <1>1, <1>2, <2>1 DEF Association, Iteration, LinkKnown, EndKnown, Watched
    <2> QED BY <1>3, <1>4, <2>2 DEF Association
  <1>7. CASE StaDisconnected
    <2>1. /\ Head(events) = "DISCONNECTED" /\ timer'.retry = "running"
      BY <1>0, <1>7 DEF StaDisconnected, Handle, Timers
    <2>2. driver.link = "idle"
      BY <1>2, <2>1 DEF Association, NoStaleEvent
    <2>3. Iteration' /\ LinkKnown' /\ EndKnown' /\ Watched'
      BY <1>1, <1>2, <2>1, <2>2 DEF Association, Iteration, LinkKnown, EndKnown, Watched
    <2> QED BY <1>3, <1>4, <2>3 DEF Association
  <1>8. CASE ScanDone
    <2>1. Head(events) = "SCAN_DONE" /\ UNCHANGED <<state, timer>>
      BY <1>8 DEF ScanDone, Handle
    <2>2. Iteration' /\ LinkKnown' /\ EndKnown' /\ Watched'
      BY <1>1, <1>2, <2>1 DEF Association, Iteration, LinkKnown, EndKnown, Watched
    <2> QED BY <1>3, <1>4, <2>2 DEF Association
  <1> QED BY <1>5, <1>6, <1>7, <1>8 DEF EventTask

\* What the radio and the DHCP server post.
LEMMA DriverLink ==
    ASSUME TypeOK, Association, Join \/ Lease \/ Drop \/ ScanEnds
    PROVE  Association'
  <1>0. driver \in Driver /\ events \in Seq(Events)
    BY DEF TypeOK, Driver
  <1>1. UNCHANGED <<state, timer, todo>>
    BY DEF Join, Lease, Drop, ScanEnds, Post
  <1>2. Iteration'
    BY <1>1 DEF Association, Iteration
  <1>3. ASSUME Post({"joining"}, "associated", "CONNECTED")
        PROVE  Association'
    <2>1. /\ driver.link = "joining" /\ driver'.link = "associated"
          /\ events' = Append(events, "CONNECTED") /\ "CONNECTED" \in Events
      BY <1>0, <1>3 DEF Post, Driver, Events
    <2>2. \A e : Waits(e)' <=> Waits(e) \/ e = "CONNECTED"
      BY <1>0, <2>1, Posted
    <2>3. LeaseThenEnd'
      BY <2>1, LeasePosted
    <2>4. NoStaleEvent' /\ ConnectsFromIdle' /\ LinkKnown' /\ EndKnown' /\ Watched'
      BY <1>1, <2>1, <2>2 DEF Association, NoStaleEvent, ConnectsFromIdle, LinkKnown,
                              EndKnown, Watched
    <2> QED BY <1>2, <2>3, <2>4 DEF Association
  <1>4. ASSUME NEW from \in {{"joining"}, {"associated", "leased"}},
               Post(from, "idle", "DISCONNECTED")
        PROVE  Association'
    <2>1. /\ driver.link # "idle" /\ driver'.link = "idle"
          /\ events' = Append(events, "DISCONNECTED") /\ "DISCONNECTED" \in Events
      BY <1>0, <1>4 DEF Post, Driver, Events
    <2>2. \A e : Waits(e)' <=> Waits(e) \/ e = "DISCONNECTED"
      BY <1>0, <2>1, Posted
    <2>3. LeaseThenEnd'
      BY <2>1, LeasePosted
    <2>4. NoStaleEvent' /\ ConnectsFromIdle' /\ LinkKnown' /\ EndKnown' /\ Watched'
      BY <1>1, <2>1, <2>2 DEF Association, NoStaleEvent, ConnectsFromIdle, LinkKnown,
                              EndKnown, Watched
    <2> QED BY <1>2, <2>3, <2>4 DEF Association
  <1>5. CASE Lease
    <2>1. /\ driver.link # "idle" /\ driver'.link = "leased"
          /\ events' = Append(events, "GOT_IP") /\ "GOT_IP" \in Events
      BY <1>0, <1>5 DEF Lease, Post, Driver, Events
    <2>2. \A e : Waits(e)' <=> Waits(e) \/ e = "GOT_IP"
      BY <1>0, <2>1, Posted
    <2>3. LeaseThenEnd'
      BY <2>1, LeasePosted
    <2>4. NoStaleEvent' /\ ConnectsFromIdle' /\ LinkKnown' /\ EndKnown' /\ Watched'
      BY <1>1, <2>1, <2>2 DEF Association, NoStaleEvent, ConnectsFromIdle, LinkKnown,
                              EndKnown, Watched
    <2> QED BY <1>2, <2>3, <2>4 DEF Association
  <1>6. CASE ScanEnds
    <2>1. /\ driver'.link = driver.link
          /\ events' = Append(events, "SCAN_DONE") /\ "SCAN_DONE" \in Events
      BY <1>0, <1>6 DEF ScanEnds, Driver, Events
    <2>2. \A e : Waits(e)' <=> Waits(e) \/ e = "SCAN_DONE"
      BY <1>0, <2>1, Posted
    <2>3. LeaseThenEnd'
      BY <2>1, LeasePosted DEF Association
    <2>4. NoStaleEvent' /\ ConnectsFromIdle' /\ LinkKnown' /\ EndKnown' /\ Watched'
      BY <1>1, <2>1, <2>2 DEF Association, NoStaleEvent, ConnectsFromIdle, LinkKnown,
                              EndKnown, Watched
    <2> QED BY <1>2, <2>3, <2>4 DEF Association
  <1> QED BY <1>3, <1>4, <1>5, <1>6 DEF Join, Drop

\* The critical section decides to connect only when no link is left.
LEMMA SnapshotLink ==
    ASSUME TypeOK, Association, Snapshot
    PROVE  Association'
  <1>0. state \in State /\ timer \in [Timers -> Levels] /\ events \in Seq(Events)
    BY DEF TypeOK, State, Levels
  <1>1. /\ todo = {} /\ UNCHANGED <<driver, events>>
        /\ "reload" \in todo' => "settings" \in todo'
        /\ "timed_out" \in todo' <=> state.connecting /\ timer.connection = "due"
        /\ "connect" \in todo' => /\ ~state.connected /\ ~state.connecting
                                  /\ timer.retry = "due"
        /\ "opened" \notin todo' /\ "refused" \notin todo'
    BY SnapshotTodo
  <1>2. CASE "timed_out" \in todo'
    <2>1. /\ state'.connected = state.connected
          /\ timer'.retry = "running" /\ "connect" \notin todo'
      <3>1. /\ state' = [state EXCEPT !.connecting = FALSE]
            /\ timer' = [timer EXCEPT !.connection = "off", !.retry = "running"]
        BY <1>2, SnapshotTodo
      <3> QED BY <1>0, <1>1, <1>2, <3>1 DEF State, Timers
    <2>2. LeaseThenEnd' /\ \A e : Waits(e)' <=> Waits(e)
      BY <1>1 DEF Association, LeaseThenEnd, Waits
    <2> QED BY <1>1, <1>2, <2>1, <2>2 DEF Association, NoStaleEvent, Iteration,
               ConnectsFromIdle, LinkKnown, EndKnown, Watched
  <1>3. CASE "timed_out" \notin todo'
    <2>1. UNCHANGED <<state, timer>>
      BY <1>3, SnapshotTodo
    <2>2. LeaseThenEnd' /\ \A e : Waits(e)' <=> Waits(e)
      BY <1>1 DEF Association, LeaseThenEnd, Waits
    <2>3. ASSUME "connect" \in todo'
          PROVE  driver.link = "idle" /\ ~Waits("DISCONNECTED") /\ ~Waits("GOT_IP")
      <3>1. ~Waits("DISCONNECTED")
        BY <1>1, <2>3 DEF Association, EndKnown
      <3>2. driver.link = "idle"
        BY <1>1, <2>3 DEF Association, LinkKnown
      <3>3. ~Waits("GOT_IP")
        BY <3>1, <3>2 DEF Association, LeaseThenEnd, Waits
      <3> QED BY <3>1, <3>2, <3>3
    <2> QED BY <1>1, <1>3, <2>1, <2>2, <2>3 DEF Association, NoStaleEvent, Iteration,
               ConnectsFromIdle, LinkKnown, EndKnown, Watched
  <1> QED BY <1>2, <1>3

\* The end of a link that the tick takes down is known to the iteration.
LEMMA TakeDownLink ==
    ASSUME TypeOK, Association, NEW j \in {"reload", "timed_out"}, TakeDown(j)
    PROVE  Association'
  <1>0. driver \in Driver /\ events \in Seq(Events)
    BY DEF TypeOK, Driver
  <1>1. /\ j \in todo /\ todo' = todo \ {j} /\ UNCHANGED <<state, timer>>
        /\ driver' = [driver EXCEPT !.link = "idle"]
        /\ events' = IF driver.link = "idle" THEN events ELSE Append(events, "DISCONNECTED")
    BY DEF TakeDown, Disconnect, Done, At
  <1>2. driver'.link = "idle" /\ "DISCONNECTED" \in Events
    BY <1>0, <1>1 DEF Driver, Events
  <1>3. "reload" \in todo => "settings" \in todo
    BY DEF Association, Iteration
  <1>4. "timed_out" \in todo => timer.retry # "due"
    BY DEF Association, Iteration
  <1>5. CASE driver.link = "idle"
    <2>1. events' = events /\ \A e : Waits(e)' <=> Waits(e)
      BY <1>1, <1>5 DEF Waits
    <2>2. LeaseThenEnd'
      BY <1>5, <2>1 DEF Association, LeaseThenEnd
    <2> QED BY <1>1, <1>2, <1>3, <1>4, <1>5, <2>1, <2>2 DEF Association, NoStaleEvent,
               Iteration, ConnectsFromIdle, LinkKnown, EndKnown, Watched
  <1>6. CASE driver.link # "idle"
    <2>1. events' = Append(events, "DISCONNECTED")
      BY <1>1, <1>6
    <2>2. LeaseThenEnd'
      BY <1>2, <2>1, LeasePosted
    <2>3. "connect" \notin todo /\ "refused" \notin todo
      BY <1>6 DEF Association, ConnectsFromIdle
    <2>4. timer.retry # "due" \/ "settings" \in todo'
      BY <1>1, <1>3, <1>4
    <2>5. NoStaleEvent' /\ Iteration' /\ ConnectsFromIdle' /\ LinkKnown' /\ EndKnown' /\ Watched'
      BY <1>1, <1>2, <1>3, <1>4, <2>3, <2>4 DEF NoStaleEvent, Iteration,
         ConnectsFromIdle, LinkKnown, EndKnown, Watched
    <2> QED BY <2>2, <2>5 DEF Association
  <1> QED BY <1>5, <1>6

\* The main task's own records of a link.
LEMMA RecordLink ==
    ASSUME TypeOK, Association, NEW ok \in BOOLEAN,
           set_station(ok) \/ Connect(ok) \/ RecordConnect(ok)
    PROVE  Association'
  <1>0. /\ state \in State /\ timer \in [Timers -> Levels] /\ driver \in Driver
        /\ events \in Seq(Events)
    BY DEF TypeOK, State, Levels, Driver
  <1>1. events' = events /\ \A e : Waits(e)' <=> Waits(e)
    BY DEF set_station, Connect, RecordConnect, Waits
  <1>2. CASE set_station(ok)
    <2>1. /\ "settings" \in todo /\ todo' = todo \ {"settings"} /\ UNCHANGED driver
          /\ \A k \in todo : Rank["settings"] <= Rank[k]
      BY <1>2 DEF set_station, Done, At
    <2>2. "reload" \notin todo
      BY <2>1, JobSet
    <2>3. /\ state'.connected = state.connected /\ state'.connecting = state.connecting
      BY <1>0, <1>2 DEF set_station, State
    <2>4. timer'.retry = "running" /\ timer'.connection = timer.connection
      BY <1>0, <1>2 DEF set_station, Timers
    <2>5. LeaseThenEnd'
      BY <1>1, <2>1 DEF Association, LeaseThenEnd
    <2> QED BY <1>1, <2>1, <2>2, <2>3, <2>4, <2>5 DEF Association, NoStaleEvent, Iteration,
               ConnectsFromIdle, LinkKnown, EndKnown, Watched
  <1>3. CASE Connect(ok)
    <2>1. /\ "connect" \in todo /\ UNCHANGED <<state, timer>>
          /\ todo' = (todo \ {"connect"}) \cup {IF ok THEN "opened" ELSE "refused"}
          /\ driver' = [driver EXCEPT !.link = IF ok /\ driver.link = "idle" THEN "joining"
                                               ELSE driver.link]
      BY <1>3 DEF Connect, At
    <2>2. driver.link = "idle" /\ ~Waits("DISCONNECTED") /\ ~Waits("GOT_IP")
      BY <2>1 DEF Association, ConnectsFromIdle
    <2>3. CASE ok
      <3>1. driver'.link = "joining" /\ todo' = (todo \ {"connect"}) \cup {"opened"}
        BY <1>0, <2>1, <2>2, <2>3 DEF Driver
      <3>2. "refused" \notin todo
        BY <2>1 DEF Association, Iteration
      <3> QED BY <1>1, <2>1, <2>2, <3>1, <3>2 DEF Association, LeaseThenEnd, NoStaleEvent,
                 Iteration, ConnectsFromIdle, LinkKnown, EndKnown, Watched
    <2>4. CASE ~ok
      <3>1. driver'.link = "idle" /\ todo' = (todo \ {"connect"}) \cup {"refused"}
        BY <1>0, <2>1, <2>2, <2>4 DEF Driver
      <3> QED BY <1>1, <2>1, <2>2, <3>1 DEF Association, LeaseThenEnd, NoStaleEvent,
                 Iteration, ConnectsFromIdle, LinkKnown, EndKnown, Watched
    <2> QED BY <2>3, <2>4
  <1>4. CASE RecordConnect(ok)
    <2>1. /\ UNCHANGED driver /\ timer'.retry = "running"
          /\ state'.connected = state.connected /\ state'.connecting = ok
      BY <1>0, <1>4 DEF RecordConnect, Record, State, Timers
    <2>2. LeaseThenEnd'
      BY <1>1, <2>1 DEF Association, LeaseThenEnd
    <2>3. CASE ok
      <3>1. todo' = todo \ {"opened"} /\ timer'.connection = "running"
        BY <1>0, <1>4, <2>3 DEF RecordConnect, Record, Done, Timers
      <3> QED BY <1>1, <2>1, <2>2, <2>3, <3>1 DEF Association, NoStaleEvent, Iteration,
                 ConnectsFromIdle, LinkKnown, EndKnown, Watched
    <2>4. CASE ~ok
      <3>1. "refused" \in todo /\ todo' = todo \ {"refused"}
        BY <1>4, <2>4 DEF RecordConnect, Done, At
      <3> QED BY <1>1, <2>1, <2>2, <3>1 DEF Association, NoStaleEvent, Iteration,
                 ConnectsFromIdle, LinkKnown, EndKnown, Watched
    <2> QED BY <2>3, <2>4
  <1> QED BY <1>2, <1>3, <1>4
\* Every step keeps the association accounted for.
LEMMA LinkStep == TypeOK /\ Association /\ [Next]_vars => Association'
  <1> SUFFICES ASSUME TypeOK, Association, [Next]_vars PROVE Association'
    OBVIOUS
  <1>0. state \in State /\ timer \in [Timers -> Levels] /\ driver \in Driver
    BY DEF TypeOK, State, Levels, Driver
  <1>1. CASE wifi_post \/ monitor_api_schedule_effects \/ monitor_network_scan \/ UNCHANGED vars
    <2>1. UNCHANGED <<events, driver, todo>>
      BY <1>1 DEF wifi_post, monitor_api_schedule_effects, monitor_network_scan, vars
    <2>2. /\ state'.connected = state.connected /\ state'.connecting = state.connecting
          /\ timer'.retry = timer.retry /\ timer'.connection = timer.connection
      BY <1>0, <1>1 DEF wifi_post, monitor_api_schedule_effects, monitor_network_scan, vars,
                        State, Timers
    <2> QED BY <2>1, <2>2, LinkStays
  <1>2. CASE monitor_api_tick \/ StartClock \/ FinishScan
    <2>1. /\ UNCHANGED <<events, driver>>
          /\ todo' \in {todo \ {"api"}, todo \ {"clock"}, todo \ {"finished"}}
      BY <1>2 DEF monitor_api_tick, StartClock, FinishScan, Done
    <2>2. /\ state'.connected = state.connected /\ state'.connecting = state.connecting
          /\ timer'.retry = timer.retry /\ timer'.connection = timer.connection
      BY <1>0, <1>2 DEF monitor_api_tick, TakeEffects, StartClock, FinishScan, State, Timers
    <2>3. \A j \in LinkJobs : j \in todo' <=> j \in todo
      BY <2>1 DEF LinkJobs
    <2> QED BY <2>1, <2>2, <2>3, LinkStays
  <1>3. ASSUME NEW ok \in BOOLEAN, setup_enable(ok)
        PROVE  /\ state'.connected = state.connected /\ state'.connecting = state.connecting
               /\ timer'.retry = timer.retry /\ timer'.connection = timer.connection
               /\ driver'.link = driver.link
    <2>1. /\ \/ UNCHANGED state \/ state' = [state EXCEPT !.ap_enabled = TRUE]
          /\ \/ UNCHANGED driver \/ driver' = [driver EXCEPT !.ap = TRUE]
          /\ \/ UNCHANGED timer
             \/ timer' = [timer EXCEPT !.ap = IF state.connected THEN "running" ELSE "off"]
      BY <1>3 DEF setup_enable
    <2> QED BY <1>0, <2>1 DEF State, Timers, Driver
  <1>4. CASE \E ok \in BOOLEAN, j \in {"setup", "ap_needed"} : SetupEnable(j, ok)
    <2>1. /\ UNCHANGED events /\ todo' \in {todo \ {"setup"}, todo \ {"ap_needed"}}
          /\ \E ok \in BOOLEAN : setup_enable(ok)
      BY <1>4 DEF SetupEnable, Done
    <2>2. \A j \in LinkJobs : j \in todo' <=> j \in todo
      BY <2>1 DEF LinkJobs
    <2> QED BY <1>3, <2>1, <2>2, LinkStays
  <1>5. ASSUME NEW ok \in BOOLEAN, CloseSetup(ok) \/ StartScan(ok)
        PROVE  Association'
    <2>1. /\ UNCHANGED <<events, timer>> /\ todo' \in {todo \ {"ap_expired"}, todo \ {"scan"}}
          /\ \/ UNCHANGED <<driver, state>>
             \/ /\ driver' = [driver EXCEPT !.ap = FALSE]
                /\ state' = [state EXCEPT !.ap_enabled = FALSE]
             \/ /\ driver' = [driver EXCEPT !.scan = driver.scan \/ ok]
                /\ state' = [state EXCEPT !.scanning = ok]
      BY <1>5 DEF CloseSetup, StartScan, Done
    <2>2. /\ state'.connected = state.connected /\ state'.connecting = state.connecting
          /\ driver'.link = driver.link
      BY <1>0, <2>1 DEF State, Driver
    <2>3. \A j \in LinkJobs : j \in todo' <=> j \in todo
      BY <2>1 DEF LinkJobs
    <2> QED BY <2>1, <2>2, <2>3, LinkStays
  <1>6. ASSUME NEW ok \in BOOLEAN, NEW level \in {"up", "down", "held"}, Button(level, ok)
        PROVE  Association'
    <2>1. UNCHANGED events /\ todo' = {"api"}
      BY <1>6 DEF Button
    <2>2. "button" \in todo /\ todo \subseteq Jobs /\ \A k \in todo : Rank["button"] <= Rank[k]
      BY <1>6 DEF Button, At, TypeOK
    <2>3. \A k \in todo : k = "button"
      BY <2>2, JobSet
    <2>4. \A j \in LinkJobs : j \notin todo
      BY <2>3 DEF LinkJobs
    <2>5. \A j \in LinkJobs : j \in todo' <=> j \in todo
      BY <2>1, <2>4 DEF LinkJobs
    <2>6. /\ state'.connected = state.connected /\ state'.connecting = state.connecting
          /\ timer'.retry = timer.retry /\ timer'.connection = timer.connection
          /\ driver'.link = driver.link
      BY <1>3, <1>6 DEF Button
    <2> QED BY <2>1, <2>5, <2>6, LinkStays
  <1>7. ASSUME NEW t \in Timers, Elapse(t)
        PROVE  Association'
    <2>1. /\ UNCHANGED <<state, driver, events, todo>> /\ events = <<>> /\ todo = {"api"}
          /\ timer[t] = "running" /\ timer' = [timer EXCEPT ![t] = "due"]
      BY <1>7 DEF Elapse
    <2>2. \A e : ~Waits(e) /\ ~Waits(e)'
      BY <2>1 DEF Waits
    <2>3. timer'.connection = timer.connection \/ timer'.connection = "due"
      BY <1>0, <2>1 DEF Timers
    <2>4. LeaseThenEnd'
      BY <2>1 DEF LeaseThenEnd
    <2> QED BY <2>1, <2>2, <2>3, <2>4 DEF Association, NoStaleEvent, Iteration,
               ConnectsFromIdle, LinkKnown, EndKnown, Watched
  <1> QED BY <1>1, <1>2, <1>4, <1>5, <1>6, <1>7, EventLink, DriverLink, SnapshotLink,
             TakeDownLink, RecordLink DEF Next, MainTask

-----------------------------------------------------------------------------
(* The theorems                                                            *)

LEMMA InitInv == Init => IInv
  <1> SUFFICES ASSUME Init PROVE IInv
    OBVIOUS
  <1>0. /\ ~state.connected /\ ~state.connecting /\ ~state.scanning /\ events = <<>>
        /\ driver.link = "idle" /\ ~driver.scan /\ todo = {"api"} /\ requested = {}
        /\ applied = store
    BY DEF Init
  <1>1. \A e : ~Waits(e)
    BY <1>0 DEF Waits
  <1>2. Scanning
    <2>1. ScanPlace /\ OneReport
      BY <1>0, <1>1 DEF ScanPlace, OnePlace, OneReport
    <2> QED BY <2>1, PlaceIs DEF Scanning
  <1>3. Association
    BY <1>0, <1>1 DEF Association, LeaseThenEnd, NoStaleEvent, Iteration, ConnectsFromIdle,
                      LinkKnown, EndKnown, Watched
  <1>4. SetupWindowBounded /\ SettingsNotLost
    BY <1>0 DEF SetupWindowBounded, SettingsNotLost
  <1> QED BY <1>2, <1>3, <1>4, InitType DEF IInv

LEMMA StepInv == IInv /\ [Next]_vars => IInv'
  BY StepType, WindowStep, SettingsStep, ScanStep, LinkStep DEF IInv

\* The inductive invariant of the network manager, for every bound.
THEOREM Invariance == Spec => []IInv
  BY InitInv, StepInv, PTL DEF Spec

\* Every variable of the network manager keeps its type.
THEOREM TypeCorrect == Spec => []TypeOK
  <1>1. IInv => TypeOK
    BY DEF IInv
  <1> QED BY <1>1, Invariance, PTL

\* A device on the network never leaves its setup access point open without a
\* deadline, however the tick, the button and the address event interleave.
THEOREM WindowBounded == Spec => []SetupWindowBounded
  <1>1. IInv => SetupWindowBounded
    BY DEF IInv
  <1> QED BY <1>1, Invariance, PTL

\* The three tasks never lose a scan, start it twice or collect the results of
\* another one: scanning is set exactly while one scan is under way.
THEOREM ScanKept == Spec => []ScanAccounted
  <1>1. IInv => ScanAccounted
    BY DEF IInv, Scanning
  <1> QED BY <1>1, Invariance, PTL

\* A station that waits for a lease has a deadline, whatever the event task did
\* between esp_wifi_connect and the recording of its result.
THEOREM LeaseWatched == Spec => []AssociationWatched
  <1>1. IInv => AssociationWatched
    BY DEF IInv, Association, Watched, AssociationWatched, Waits
  <1> QED BY <1>1, Invariance, PTL

\* Saved Wi-Fi settings are on their way to the station until it uses them.
THEOREM SettingsKept == Spec => []SettingsNotLost
  <1>1. IInv => SettingsNotLost
    BY DEF IInv
  <1> QED BY <1>1, Invariance, PTL
=============================================================================
