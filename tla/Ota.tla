--------------------------------- MODULE Ota --------------------------------
(***************************************************************************)
(* Firmware updates of the monitor: the upload session of monitor_ota.c,   *)
(* the restart that monitor_api.c schedules after it and the confirmation  *)
(* of a new image by app_main, with the power going away at any moment.    *)
(* Requests run under one lock and are atomic; they may be lost, repeated, *)
(* late or from an abandoned session.  A request that is refused without   *)
(* an effect is no step.                                                   *)
(*                                                                         *)
(* Flash, boot selection and rollback belong to ESP-IDF.  A digest is      *)
(* represented by the contents it is the digest of.                        *)
(***************************************************************************)
EXTENDS Integers, Sequences

CONSTANTS
    Images,      \* well-formed application images, as sequences of chunks
    Announced,   \* contents whose digest and size a client may announce
    Chunks,      \* chunks a client may send
    FactoryImage

ASSUME OtaAssumption ==
    /\ FactoryImage \in Images
    /\ Images \cup Announced \subseteq Seq(Chunks) \ {<<>>}

OtaSlots == {"ota_0", "ota_1"}
Slots == {"factory"} \cup OtaSlots

VARIABLES
    flash,      \* contents of each application slot
    otadata,    \* boot selection: the slot selected last and their states
    running,    \* the slot the processor runs from
    stage,      \* "off", or how far app_main has come
    upload,     \* the upload session, in memory
    idle,       \* 60 s have passed since the last accepted chunk
    effect,     \* the restart: none, waiting for its second, or due
    announced   \* history: what was announced for the image in a slot

vars == <<flash, otadata, running, stage, upload, idle, effect, announced>>
bootVars == <<otadata, running, stage, announced>>

NoUpload == [active |-> FALSE, ready |-> FALSE, open |-> FALSE, total |-> 0,
             received |-> 0, expected |-> <<>>, hashed |-> <<>>,
             partition |-> "factory"]

Init == /\ flash = [s \in Slots |-> IF s = "factory" THEN FactoryImage ELSE <<>>]
        /\ otadata = [last |-> "factory", state |-> [s \in OtaSlots |-> "none"]]
        /\ running = "factory"
        /\ stage = "off"
        /\ upload = NoUpload
        /\ idle = FALSE
        /\ effect = "none"
        /\ announced = [s \in OtaSlots |-> <<>>]

-----------------------------------------------------------------------------
(* ESP-IDF *)

\* esp_ota_get_next_update_partition: never the running slot.
NextSlot == IF running = "ota_0" THEN "ota_1" ELSE "ota_0"

\* The slot the bootloader picks.
Chosen(d) ==
    IF d.last \in OtaSlots /\ d.state[d.last] \in {"new", "pending", "valid"}
    THEN d.last
    ELSE IF \E s \in OtaSlots : d.state[s] = "valid"
    THEN CHOOSE s \in OtaSlots : d.state[s] = "valid"
    ELSE "factory"

\* A reset gives up an image that has not confirmed itself and gives a new one
\* its only trial.
Bootloader(d) ==
    LET e == [d EXCEPT !.state =
                [s \in OtaSlots |-> IF @[s] = "pending" THEN "aborted" ELSE @[s]]]
    IN [e EXCEPT !.state = [s \in OtaSlots |->
          IF s = Chosen(e) /\ @[s] = "new" THEN "pending" ELSE @[s]]]

PendingVerify == running \in OtaSlots /\ otadata.state[running] = "pending"

-----------------------------------------------------------------------------
(* app_main *)

Boot == /\ stage = "off"
        /\ otadata' = Bootloader(otadata)
        /\ running' = Chosen(otadata')
        /\ stage' = "booting"
        /\ UNCHANGED <<flash, upload, idle, effect, announced>>

\* monitor_http_start: requests are served before the boot is confirmed.
Serve == /\ stage = "booting"
         /\ stage' = "serving"
         /\ UNCHANGED <<flash, otadata, running, upload, idle, effect, announced>>

\* monitor_ota_confirm_boot, after which the loop of ticks begins.
Confirm == /\ stage = "serving"
           /\ stage' = "confirmed"
           /\ otadata' = IF PendingVerify
                         THEN [otadata EXCEPT !.state[running] = "valid"] ELSE otadata
           /\ UNCHANGED <<flash, running, upload, idle, effect, announced>>

\* Memory is lost.
Off == /\ stage' = "off"
       /\ upload' = NoUpload
       /\ idle' = FALSE
       /\ effect' = "none"

\* A power cut, a panic or a failed ESP_ERROR_CHECK of the start-up.
Crash == /\ stage # "off"
         /\ Off
         /\ UNCHANGED <<flash, otadata, running, announced>>

-----------------------------------------------------------------------------
(* The upload session.  release() leaves counters that are only displayed. *)

Up == stage \in {"serving", "confirmed"}

\* Mutant: an update that awaits the restart is forgotten.
StartWhenInactive == ~upload.active

StartAllowed == ~upload.active /\ ~upload.ready

Start(contents) ==
    /\ Up /\ StartAllowed
    /\ upload' = [NoUpload EXCEPT !.active = TRUE, !.total = Len(contents),
                    !.expected = contents, !.partition = NextSlot]
    /\ idle' = FALSE
    /\ UNCHANGED <<flash, effect>> /\ UNCHANGED bootVars

\* The request names the session in progress; identifiers are never reused.
Matches(current) == upload.active /\ current

Heads == {image[1] : image \in Images}

\* Opening the slot erases it.  ESP-IDF refuses while the running image still
\* depends on the other one for its rollback.
Opened == IF upload.open THEN flash ELSE [flash EXCEPT ![upload.partition] = <<>>]

Written(chunk) == [Opened EXCEPT ![upload.partition] = Append(@, chunk)]

Write(current, offset, chunk) ==
    /\ Up /\ Matches(current)
    /\ offset = upload.received /\ upload.received < upload.total
    /\ \/ /\ ~upload.open                      \* wrong image, or slot not opened
          /\ upload' = NoUpload
          /\ UNCHANGED <<flash, idle>>
       \/ /\ upload.open \/ (chunk \in Heads /\ ~PendingVerify)
          /\ flash' = Written(chunk)
          /\ upload' = [upload EXCEPT !.open = TRUE, !.received = @ + 1,
                                      !.hashed = Append(@, chunk)]
          /\ idle' = FALSE
       \/ /\ upload.open \/ (chunk \in Heads /\ ~PendingVerify)
          /\ flash' \in {Opened, Written(chunk)}      \* the write fails
          /\ upload' = NoUpload
          /\ UNCHANGED idle
    /\ UNCHANGED effect /\ UNCHANGED bootVars

\* Mutant: the digest is not compared.
DigestIgnored == TRUE

DigestMatches == upload.hashed = upload.expected

\* Verification, selection for the next boot, and the restart a second later.
Finish(current) ==
    LET s == upload.partition
    IN /\ Up /\ Matches(current)
       /\ upload.open /\ upload.received = upload.total
       /\ \/ /\ upload' = NoUpload             \* a check or ESP-IDF failed
             /\ UNCHANGED <<otadata, effect, announced>>
          \/ /\ DigestMatches /\ flash[s] \in Images
             /\ upload' = [NoUpload EXCEPT !.ready = TRUE]
             /\ otadata' = [last |-> s, state |-> [otadata.state EXCEPT ![s] = "new"]]
             /\ effect' = "waiting"
             /\ announced' = [announced EXCEPT ![s] = upload.expected]
       /\ UNCHANGED <<flash, running, stage, idle>>

Abort(current) == /\ Up /\ Matches(current)
                  /\ upload' = NoUpload
                  /\ UNCHANGED <<flash, idle, effect>> /\ UNCHANGED bootVars

\* Another request with an effect pushes the restart back by a second.
Rearm == /\ Up /\ effect = "due"
         /\ effect' = "waiting"
         /\ UNCHANGED <<flash, upload, idle>> /\ UNCHANGED bootVars

\* Mutant: only an upload with an open slot expires.
ExpiredOpen == upload.active /\ upload.open /\ idle

Expired == upload.active /\ idle

\* monitor_api_tick: expiry of the upload, then the effects that are due.
Tick == /\ stage = "confirmed"
        /\ Expired \/ effect = "due"
        /\ IF effect = "due" THEN Off
           ELSE /\ upload' = NoUpload
                /\ UNCHANGED <<stage, idle, effect>>
        /\ UNCHANGED <<flash, otadata, running, announced>>

\* The clock.
MinutePasses == /\ upload.active /\ ~idle
                /\ idle' = TRUE
                /\ UNCHANGED <<flash, upload, effect>> /\ UNCHANGED bootVars

SecondPasses == /\ effect = "waiting"
                /\ effect' = "due"
                /\ UNCHANGED <<flash, upload, idle>> /\ UNCHANGED bootVars

Request == \/ \E contents \in Announced : Start(contents)
           \/ \E current \in BOOLEAN :
                \/ \E offset \in 0..upload.total, chunk \in Chunks :
                     Write(current, offset, chunk)
                \/ Finish(current)
                \/ Abort(current)
           \/ Rearm

Next == Boot \/ Serve \/ Confirm \/ Crash \/ Request \/ Tick
        \/ MinutePasses \/ SecondPasses

Spec == Init /\ [][Next]_vars

\* The device is powered again after a crash, start-up goes on and the clock
\* runs.  Ticks come four times a second, but find the lock taken or the
\* restart pushed back now and then.
FairSpec == /\ Spec
            /\ WF_vars(Boot) /\ WF_vars(Serve) /\ WF_vars(Confirm)
            /\ WF_vars(MinutePasses) /\ WF_vars(SecondPasses)
            /\ SF_vars(Tick)

-----------------------------------------------------------------------------
(* Properties *)

\* The device can always be started: whenever the power goes, the slot the
\* bootloader picks holds a complete image, and so does the one it falls back
\* to if that image fails to confirm itself.
AlwaysBootable ==
    LET first == Bootloader(otadata)
    IN /\ flash[Chosen(first)] \in Images
       /\ flash[Chosen(Bootloader(first))] \in Images

\* An image that can be booted is, chunk by chunk, the one that was announced
\* when its upload was started: no lost, repeated or late request, failed write
\* or restart lets another one pass.
BootsWhatWasAnnounced ==
    LET s == Chosen(Bootloader(otadata))
    IN s \in OtaSlots => flash[s] = announced[s]

\* An abandoned upload does not block updates for ever, and a verified one
\* leads to a restart.
UpdateEnds == upload.active \/ upload.ready ~> ~upload.active /\ ~upload.ready
=============================================================================
