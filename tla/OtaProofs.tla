------------------------------ MODULE OtaProofs ------------------------------
(***************************************************************************)
(* Proofs about firmware updates, for any images, any announced contents   *)
(* and any sequence of requests, failed writes, restarts and power cuts.   *)
(*                                                                         *)
(* A slot that was valid once may hold garbage: an upload overwrites it in *)
(* place and the power may go.  The argument is that the bootloader never  *)
(* falls back to such a slot, because the slot selected last is valid.     *)
(***************************************************************************)
EXTENDS Ota, TLAPS

States == {"none", "new", "pending", "valid", "aborted"}
OtaData == [last : Slots, state : [OtaSlots -> States]]
Uploads == [active : BOOLEAN, ready : BOOLEAN, open : BOOLEAN, total : Nat,
            received : Nat, expected : Seq(Chunks), hashed : Seq(Chunks),
            partition : Slots]

Types == /\ flash \in [Slots -> Seq(Chunks)]
         /\ otadata \in OtaData
         /\ running \in Slots
         /\ stage \in {"off", "booting", "serving", "confirmed"}
         /\ upload \in Uploads
         /\ announced \in [OtaSlots -> Seq(Chunks)]

\* Slot s holds the image that was announced for it, complete.
Sound(s) == flash[s] \in Images /\ flash[s] = announced[s]

\* Boot data d that the bootloader may find: an image on trial is sound, and so
\* is a valid one unless the slot selected last is another valid one; a new
\* image is the one selected last; and nothing was ever tried unless a slot was
\* selected.
Dependable(d) ==
    /\ d \in OtaData
    /\ \A s \in OtaSlots :
         /\ d.state[s] \in {"new", "pending"} => Sound(s)
         /\ d.state[s] = "valid" =>
              \/ Sound(s)
              \/ d.last \in OtaSlots \ {s} /\ d.state[d.last] = "valid"
         /\ d.state[s] = "new" => d.last = s
    /\ d.last = "factory" => \A s \in OtaSlots : d.state[s] = "none"

\* The processor runs the slot the bootloader would pick again, and only that
\* one can be on trial.
Settled ==
    /\ running = Chosen(otadata)
    /\ \A s \in OtaSlots : /\ otadata.state[s] # "new"
                           /\ otadata.state[s] = "pending" => running = s

\* The upload session: it does not survive a restart, writes to another slot
\* than the running one, opens it only once the running image is confirmed, and
\* has hashed exactly what it wrote.
Uploading ==
    /\ stage = "off" => ~upload.active /\ ~upload.ready
    /\ upload.ready => ~upload.active
    /\ upload.open => upload.active
    /\ upload.active => upload.partition \in OtaSlots \ {running}
    /\ upload.open => ~PendingVerify
    /\ upload.active => upload.hashed = IF upload.open THEN flash[upload.partition] ELSE <<>>

FactoryIntact == flash["factory"] = FactoryImage

IInv == /\ Types /\ FactoryIntact /\ Dependable(otadata) /\ Uploading
        /\ stage # "off" /\ ~upload.ready => Settled

-----------------------------------------------------------------------------
(* ESP-IDF's choice of a slot                                              *)

\* The slot picked is the one selected last when it is bootable, else a valid
\* one, else the factory slot.
LEMMA ChosenSlot ==
    ASSUME NEW d \in OtaData
    PROVE  /\ Chosen(d) \in Slots
           /\ d.last \in OtaSlots /\ d.state[d.last] \in {"new", "pending", "valid"}
                => Chosen(d) = d.last
           /\ Chosen(d) \in OtaSlots =>
                \/ Chosen(d) = d.last /\ d.state[d.last] \in {"new", "pending", "valid"}
                \/ /\ d.state[Chosen(d)] = "valid"
                   /\ d.last \in OtaSlots => d.state[d.last] # "valid"
           /\ Chosen(d) = "factory" => \A s \in OtaSlots : d.state[s] # "valid"
  <1>1. CASE d.last \in OtaSlots /\ d.state[d.last] \in {"new", "pending", "valid"}
    BY <1>1 DEF Chosen, Slots, OtaSlots
  <1>2. CASE /\ ~(d.last \in OtaSlots /\ d.state[d.last] \in {"new", "pending", "valid"})
             /\ \E s \in OtaSlots : d.state[s] = "valid"
    <2>1. Chosen(d) = CHOOSE s \in OtaSlots : d.state[s] = "valid"
      BY <1>2 DEF Chosen
    <2>2. Chosen(d) \in OtaSlots /\ d.state[Chosen(d)] = "valid"
      BY <1>2, <2>1
    <2> QED BY <1>2, <2>2 DEF Slots, OtaSlots
  <1>3. CASE /\ ~(d.last \in OtaSlots /\ d.state[d.last] \in {"new", "pending", "valid"})
             /\ ~\E s \in OtaSlots : d.state[s] = "valid"
    BY <1>3 DEF Chosen, Slots, OtaSlots
  <1> QED BY <1>1, <1>2, <1>3

\* A reset gives up images on trial and starts the trial of a new one.
LEMMA BootloaderEffect ==
    ASSUME NEW d \in OtaData
    PROVE  /\ Bootloader(d) \in OtaData
           /\ Bootloader(d).last = d.last
           /\ \A s \in OtaSlots :
                /\ Bootloader(d).state[s] = "valid" <=> d.state[s] = "valid"
                /\ Bootloader(d).state[s] = "pending" => d.state[s] = "new"
                /\ Bootloader(d).state[s] = "new" => d.state[s] = "new" /\ d.last # s
                /\ d.state[s] = "none" => Bootloader(d).state[s] = "none"
  <1> DEFINE e == [d EXCEPT !.state =
                     [s \in OtaSlots |-> IF @[s] = "pending" THEN "aborted" ELSE @[s]]]
             c == Chosen(e)
             f == [s \in OtaSlots |-> IF s = c /\ e.state[s] = "new" THEN "pending"
                                      ELSE e.state[s]]
  <1>1. /\ e \in OtaData /\ e.last = d.last
        /\ \A s \in OtaSlots : e.state[s] = IF d.state[s] = "pending" THEN "aborted"
                                            ELSE d.state[s]
    BY DEF OtaData, States
  <1>2. Bootloader(d) = [e EXCEPT !.state = f]
    BY Zenon DEF Bootloader
  <1>3. \A s \in OtaSlots : e.state[s] = "new" /\ e.last = s => c = s
    BY <1>1, ChosenSlot
  <1> HIDE DEF e, c
  <1>4. f \in [OtaSlots -> States]
    BY <1>1 DEF OtaData, States
  <1>5. Bootloader(d) \in OtaData /\ Bootloader(d).last = d.last /\ Bootloader(d).state = f
    BY <1>1, <1>2, <1>4 DEF OtaData
  <1>6. \A s \in OtaSlots : f[s] = IF s = c /\ e.state[s] = "new" THEN "pending"
                                   ELSE e.state[s]
    OBVIOUS
  <1> HIDE DEF f
  <1> QED BY <1>1, <1>3, <1>5, <1>6

\* The slot picked from dependable boot data holds the announced image, or is
\* the factory slot.
LEMMA ChosenSound ==
    ASSUME NEW d, Dependable(d)
    PROVE  Chosen(d) \in Slots /\ (Chosen(d) \in OtaSlots => Sound(Chosen(d)))
  <1>1. d \in OtaData
    BY DEF Dependable
  <1> QED BY <1>1, ChosenSlot DEF Dependable

\* Boot data stay dependable across any number of resets.
LEMMA BootloaderDependable ==
    ASSUME NEW d, Dependable(d)
    PROVE  Dependable(Bootloader(d))
  <1>1. d \in OtaData
    BY DEF Dependable
  <1>2. /\ Bootloader(d) \in OtaData
        /\ Bootloader(d).last = d.last
        /\ \A s \in OtaSlots :
             /\ Bootloader(d).state[s] = "valid" <=> d.state[s] = "valid"
             /\ Bootloader(d).state[s] = "pending" => d.state[s] = "new"
             /\ Bootloader(d).state[s] = "new" => d.state[s] = "new" /\ d.last # s
             /\ d.state[s] = "none" => Bootloader(d).state[s] = "none"
    BY <1>1, BootloaderEffect
  <1> QED BY <1>2 DEF Dependable

\* Boot data depend on the contents of the slots only through soundness.
LEMMA DependableKept ==
    ASSUME Dependable(otadata), otadata' = otadata, UNCHANGED <<flash, announced>>
    PROVE  Dependable(otadata)'
  BY DEF Dependable, Sound

-----------------------------------------------------------------------------
(* The steps                                                               *)

\* NoUpload is a session in which nothing happens.
LEMMA NoUploadType == /\ NoUpload \in Uploads
                      /\ ~NoUpload.active /\ ~NoUpload.ready /\ ~NoUpload.open
  BY DEF NoUpload, Uploads, Slots

LEMMA InitInv == Init => IInv
  <1> SUFFICES ASSUME Init PROVE IInv
    OBVIOUS
  <1>1. otadata \in OtaData /\ (\A s \in OtaSlots : otadata.state[s] = "none")
        /\ otadata.last = "factory"
    BY DEF Init, OtaData, States, Slots, OtaSlots
  <1>2. flash \in [Slots -> Seq(Chunks)] /\ announced \in [OtaSlots -> Seq(Chunks)]
    BY OtaAssumption DEF Init
  <1>3. Types
    BY <1>1, <1>2, NoUploadType DEF Init, Types, Slots
  <1>4. Dependable(otadata)
    BY <1>1 DEF Dependable
  <1>5. FactoryIntact /\ Uploading
    BY NoUploadType DEF Init, FactoryIntact, Uploading, Slots
  <1> QED BY <1>3, <1>4, <1>5 DEF IInv, Init

LEMMA BootInv == IInv /\ Boot => IInv'
  <1> SUFFICES ASSUME IInv, Boot PROVE IInv'
    OBVIOUS
  <1>1. /\ otadata' = Bootloader(otadata) /\ running' = Chosen(otadata')
        /\ stage = "off" /\ stage' = "booting"
        /\ UNCHANGED <<flash, upload, announced>>
    BY DEF Boot
  <1>2. Dependable(otadata) /\ otadata \in OtaData /\ Types
    BY DEF IInv, Types
  <1>3. Dependable(otadata)'
    <2>1. Dependable(otadata')
      BY <1>1, <1>2, BootloaderDependable
    <2> QED BY <1>1, <2>1 DEF Dependable, Sound
  <1>4. otadata' \in OtaData /\ running' \in Slots
    BY <1>1, <1>2, BootloaderEffect, ChosenSlot
  <1>5. Types'
    BY <1>1, <1>2, <1>4 DEF Types
  <1>6. ~upload.active /\ ~upload.ready /\ ~upload.open
    BY <1>1 DEF IInv, Uploading
  <1>7. Uploading' /\ FactoryIntact'
    BY <1>1, <1>6 DEF IInv, Uploading, FactoryIntact
  <1>8. ASSUME NEW s \in OtaSlots
        PROVE  /\ otadata'.state[s] # "new"
               /\ otadata'.state[s] = "pending" => running' = s
    <2>1. /\ otadata'.state[s] = "pending" => otadata.state[s] = "new"
          /\ otadata'.state[s] = "new" => otadata.state[s] = "new" /\ otadata.last # s
          /\ otadata'.last = otadata.last
      BY <1>1, <1>2, BootloaderEffect
    <2>2. otadata.state[s] = "new" => otadata.last = s
      BY <1>2 DEF Dependable
    <2> QED BY <1>1, <1>4, <2>1, <2>2, ChosenSlot
  <1>9. Settled'
    <2>1. running' = Chosen(otadata)'
      BY <1>1 DEF Chosen
    <2> QED BY <1>8, <2>1 DEF Settled
  <1> QED BY <1>3, <1>5, <1>7, <1>9 DEF IInv

LEMMA ServeInv == IInv /\ Serve => IInv'
  <1> SUFFICES ASSUME IInv, Serve PROVE IInv'
    OBVIOUS
  <1>1. UNCHANGED <<flash, otadata, running, upload, announced>>
        /\ stage = "booting" /\ stage' = "serving"
    BY DEF Serve
  <1>2. Types' /\ FactoryIntact' /\ Uploading'
    BY <1>1 DEF IInv, Types, FactoryIntact, Uploading, PendingVerify
  <1>3. Dependable(otadata)'
    BY <1>1, DependableKept DEF IInv
  <1>4. (stage # "off" /\ ~upload.ready => Settled)'
    BY <1>1 DEF IInv, Settled, Chosen
  <1> QED BY <1>2, <1>3, <1>4 DEF IInv

\* A confirmed image stays the one the bootloader picks.
LEMMA ConfirmInv == IInv /\ Confirm => IInv'
  <1> SUFFICES ASSUME IInv, Confirm PROVE IInv'
    OBVIOUS
  <1>1. /\ UNCHANGED <<flash, running, upload, announced>>
        /\ stage = "serving" /\ stage' = "confirmed"
    BY DEF Confirm
  <1>2. otadata \in OtaData /\ Types /\ Dependable(otadata) /\ FactoryIntact /\ Uploading
    BY DEF IInv, Types
  <1>3. CASE PendingVerify
    <2>1. running \in OtaSlots /\ otadata.state[running] = "pending"
      BY <1>3 DEF PendingVerify
    <2>2. otadata' = [otadata EXCEPT !.state[running] = "valid"]
      BY <1>3 DEF Confirm
    <2>3. /\ otadata' \in OtaData /\ otadata'.last = otadata.last
          /\ otadata'.state[running] = "valid"
          /\ \A s \in OtaSlots \ {running} : otadata'.state[s] = otadata.state[s]
      BY <1>2, <2>1, <2>2 DEF OtaData, States
    <2>4. Types' /\ FactoryIntact'
      BY <1>1, <1>2, <2>3 DEF Types, FactoryIntact
    <2>5. Uploading'
      BY <1>1, <1>2, <1>3 DEF Uploading
    <2>6. Dependable(otadata)'
      BY <1>1, <1>2, <2>1, <2>3 DEF Dependable, Sound
    <2>7. ASSUME ~upload.ready
          PROVE  Settled'
      <3>1. Settled
        BY <1>1, <2>7 DEF IInv
      <3>2. otadata.last = running
        BY <1>2, <2>1, <3>1, ChosenSlot DEF Settled
      <3>3. Chosen(otadata') = running
        BY <2>1, <2>3, <3>2, ChosenSlot
      <3>4. running' = Chosen(otadata)'
        BY <1>1, <3>3 DEF Chosen
      <3> QED BY <1>1, <2>3, <3>1, <3>4 DEF Settled
    <2> QED BY <1>1, <2>4, <2>5, <2>6, <2>7 DEF IInv
  <1>4. CASE ~PendingVerify
    <2>1. otadata' = otadata
      BY <1>4 DEF Confirm
    <2>2. Types' /\ FactoryIntact' /\ Uploading'
      BY <1>1, <1>2, <2>1 DEF Types, FactoryIntact, Uploading, PendingVerify
    <2>3. Dependable(otadata)'
      BY <1>1, <1>2, <2>1, DependableKept
    <2>4. (stage # "off" /\ ~upload.ready => Settled)'
      BY <1>1, <2>1 DEF IInv, Settled, Chosen
    <2> QED BY <2>2, <2>3, <2>4 DEF IInv
  <1> QED BY <1>3, <1>4

\* A step that leaves the slots and the boot data alone and gives up the upload,
\* whether the device goes on or not.
LEMMA DropInv ==
    ASSUME IInv, UNCHANGED <<flash, otadata, running, announced>>,
           upload' = NoUpload, stage' \in {stage, "off"}, ~upload.ready \/ stage' = "off"
    PROVE  IInv'
  <1>1. Types' /\ FactoryIntact'
    BY NoUploadType DEF IInv, Types, FactoryIntact
  <1>2. Uploading'
    BY NoUploadType DEF Uploading
  <1>3. Dependable(otadata)'
    BY DependableKept DEF IInv
  <1>4. (stage # "off" /\ ~upload.ready => Settled)'
    BY DEF IInv, Settled, Chosen
  <1> QED BY <1>1, <1>2, <1>3, <1>4 DEF IInv

\* A step of the clock or of the restart that changes nothing here.
LEMMA KeptInv ==
    ASSUME IInv, UNCHANGED <<flash, otadata, running, stage, upload, announced>>
    PROVE  IInv'
  <1>1. Types' /\ FactoryIntact' /\ Uploading'
    BY DEF IInv, Types, FactoryIntact, Uploading, PendingVerify
  <1>2. Dependable(otadata)'
    BY DependableKept DEF IInv
  <1>3. (stage # "off" /\ ~upload.ready => Settled)'
    BY DEF IInv, Settled, Chosen
  <1> QED BY <1>1, <1>2, <1>3 DEF IInv

LEMMA StartInv == ASSUME IInv, NEW contents \in Announced, Start(contents) PROVE IInv'
  <1>1. UNCHANGED <<flash, otadata, running, stage, announced>>
        /\ stage # "off" /\ ~upload.ready
    BY DEF Start, bootVars, Up, StartAllowed
  <1>2. contents \in Seq(Chunks) /\ Len(contents) \in Nat
    BY OtaAssumption
  <1>3. NextSlot \in OtaSlots \ {running} /\ NextSlot \in Slots
    BY DEF NextSlot, OtaSlots, Slots
  <1>4. upload' = [NoUpload EXCEPT !.active = TRUE, !.total = Len(contents),
                     !.expected = contents, !.partition = NextSlot]
    BY DEF Start
  <1>5. upload' \in Uploads
    BY <1>2, <1>3, <1>4, NoUploadType DEF Uploads
  <1>6. /\ upload'.active /\ ~upload'.ready /\ ~upload'.open
        /\ upload'.partition = NextSlot /\ upload'.hashed = <<>>
    BY <1>4 DEF NoUpload
  <1>7. Types' /\ FactoryIntact'
    BY <1>1, <1>5 DEF IInv, Types, FactoryIntact
  <1>8. Uploading'
    BY <1>1, <1>3, <1>6 DEF Uploading
  <1>9. Dependable(otadata)' /\ (stage # "off" /\ ~upload.ready => Settled)'
    BY <1>1, DependableKept DEF IInv, Settled, Chosen
  <1> QED BY <1>7, <1>8, <1>9 DEF IInv

\* The slot being written may become garbage: the bootloader does not pick it.
LEMMA Overwritten ==
    ASSUME IInv, stage # "off", upload.active, ~PendingVerify,
           UNCHANGED <<otadata, running, announced>>,
           flash' \in [Slots -> Seq(Chunks)],
           \A s \in Slots \ {upload.partition} : flash'[s] = flash[s]
    PROVE  Dependable(otadata)' /\ FactoryIntact'
  <1> DEFINE p == upload.partition
  <1>1. p \in OtaSlots \ {running} /\ Settled /\ Dependable(otadata) /\ otadata \in OtaData
    BY DEF IInv, Uploading, Types
  <1>2. FactoryIntact'
    BY <1>1 DEF IInv, FactoryIntact, Slots, OtaSlots
  <1>3. otadata.state[p] # "new" /\ otadata.state[p] # "pending"
    BY <1>1 DEF Settled
  <1>4. ASSUME otadata.state[p] = "valid"
        PROVE  otadata.last \in OtaSlots \ {p} /\ otadata.state[otadata.last] = "valid"
    <2>1. running # p /\ running = Chosen(otadata)
      BY <1>1 DEF Settled
    <2>2. otadata.last \in OtaSlots
      BY <1>1, <1>4 DEF Dependable, OtaData, Slots
    <2>3. running \in OtaSlots
      BY <1>1, <1>4, <2>1, ChosenSlot DEF Slots
    <2>4. CASE running = otadata.last /\ otadata.state[otadata.last] \in {"new", "pending", "valid"}
      <3>1. otadata.state[running] # "new" /\ otadata.state[running] # "pending"
        BY <1>1, <2>3 DEF PendingVerify, Settled
      <3> QED BY <2>1, <2>3, <2>4, <3>1
    <2>5. CASE otadata.state[running] = "valid" /\ otadata.state[otadata.last] # "valid"
      BY <1>1, <1>4, <2>1, <2>2, <2>3, <2>5 DEF OtaSlots
    <2> QED BY <1>1, <2>1, <2>2, <2>3, <2>4, <2>5, ChosenSlot
  <1>5. \A s \in OtaSlots \ {p} : Sound(s) => Sound(s)'
    BY DEF Sound, Slots
  <1> HIDE DEF p
  <1>6. \A s \in OtaSlots :
          /\ otadata.state[s] \in {"new", "pending"} => Sound(s)'
          /\ otadata.state[s] = "valid" =>
               \/ Sound(s)'
               \/ otadata.last \in OtaSlots \ {s} /\ otadata.state[otadata.last] = "valid"
    BY <1>1, <1>3, <1>4, <1>5 DEF Dependable
  <1> QED BY <1>1, <1>2, <1>6 DEF Dependable

LEMMA WriteInv ==
    ASSUME IInv, NEW current \in BOOLEAN, NEW offset \in Nat, NEW chunk \in Chunks,
           Write(current, offset, chunk)
    PROVE  IInv'
  <1>0. /\ UNCHANGED <<otadata, running, stage, announced>>
        /\ stage # "off" /\ upload.active /\ ~upload.ready
    BY DEF Write, bootVars, Up, Matches, IInv, Uploading
  <1>1. CASE upload' = NoUpload /\ UNCHANGED flash
    BY <1>0, <1>1, DropInv
  <1>2. /\ upload.partition \in OtaSlots /\ upload.partition \in Slots
        /\ flash \in [Slots -> Seq(Chunks)] /\ upload \in Uploads /\ Types /\ Settled
    BY <1>0 DEF IInv, Uploading, Types, Slots
  <1>3. /\ Opened \in [Slots -> Seq(Chunks)]
        /\ \A s \in Slots \ {upload.partition} : Opened[s] = flash[s]
        /\ Opened[upload.partition] = IF upload.open THEN flash[upload.partition] ELSE <<>>
    BY <1>2 DEF Opened
  <1>4. /\ Written(chunk) \in [Slots -> Seq(Chunks)]
        /\ \A s \in Slots \ {upload.partition} : Written(chunk)[s] = flash[s]
        /\ Written(chunk)[upload.partition] = Append(Opened[upload.partition], chunk)
    BY <1>2, <1>3 DEF Written
  <1>5. ASSUME upload.open \/ ~PendingVerify, flash' \in {Opened, Written(chunk)}
        PROVE  Dependable(otadata)' /\ FactoryIntact' /\ flash' \in [Slots -> Seq(Chunks)]
               /\ ~PendingVerify
    <2>1. ~PendingVerify
      BY <1>5 DEF IInv, Uploading
    <2> QED BY <1>0, <1>3, <1>4, <1>5, <2>1, Overwritten
  <1>6. CASE /\ upload.open \/ (chunk \in Heads /\ ~PendingVerify)
             /\ flash' = Written(chunk)
             /\ upload' = [upload EXCEPT !.open = TRUE, !.received = @ + 1,
                                         !.hashed = Append(@, chunk)]
    <2>1. upload.received + 1 \in Nat /\ Append(upload.hashed, chunk) \in Seq(Chunks)
      BY <1>2 DEF Uploads
    <2>2. upload' \in Uploads
      BY <1>2, <1>6, <2>1 DEF Uploads
    <2>3. /\ upload'.open /\ upload'.active = upload.active /\ upload'.ready = upload.ready
          /\ upload'.partition = upload.partition
          /\ upload'.hashed = Append(upload.hashed, chunk)
      BY <1>2, <1>6 DEF Uploads
    <2>4. upload.hashed = Opened[upload.partition]
      BY <1>0, <1>3 DEF IInv, Uploading
    <2>5. upload'.hashed = flash'[upload'.partition]
      BY <1>4, <1>6, <2>3, <2>4
    <2>6. Dependable(otadata)' /\ FactoryIntact' /\ flash' \in [Slots -> Seq(Chunks)]
          /\ ~PendingVerify
      BY <1>5, <1>6
    <2>7. Types'
      BY <1>0, <1>2, <2>2, <2>6 DEF Types
    <2>8. upload.partition \in OtaSlots \ {running}
      BY <1>0 DEF IInv, Uploading
    <2>9. Uploading'
      BY <1>0, <2>3, <2>5, <2>6, <2>8 DEF Uploading, PendingVerify
    <2>10. (stage # "off" /\ ~upload.ready => Settled)'
      BY <1>0, <1>2 DEF Settled, Chosen
    <2> QED BY <2>6, <2>7, <2>9, <2>10 DEF IInv
  <1>7. CASE /\ upload.open \/ (chunk \in Heads /\ ~PendingVerify)
             /\ flash' \in {Opened, Written(chunk)}
             /\ upload' = NoUpload
    <2>1. Dependable(otadata)' /\ FactoryIntact' /\ flash' \in [Slots -> Seq(Chunks)]
      BY <1>5, <1>7
    <2>2. Types' /\ Uploading'
      BY <1>0, <1>2, <1>7, <2>1, NoUploadType DEF Types, Uploading
    <2>3. (stage # "off" /\ ~upload.ready => Settled)'
      BY <1>0, <1>2 DEF Settled, Chosen
    <2> QED BY <2>1, <2>2, <2>3 DEF IInv
  <1> QED BY <1>1, <1>6, <1>7 DEF Write

\* Only verified contents, as announced, are selected for the next boot.
LEMMA FinishInv == ASSUME IInv, NEW current \in BOOLEAN, Finish(current) PROVE IInv'
  <1>0. PICK p : p = upload.partition
    OBVIOUS
  <1>1. /\ UNCHANGED <<flash, running, stage>> /\ stage # "off"
        /\ upload.active /\ upload.open /\ ~upload.ready
    BY DEF Finish, Up, Matches, IInv, Uploading
  <1>2. CASE upload' = NoUpload /\ UNCHANGED <<otadata, announced>>
    BY <1>1, <1>2, DropInv
  <1>3. CASE /\ DigestMatches /\ flash[p] \in Images
             /\ upload' = [NoUpload EXCEPT !.ready = TRUE]
             /\ otadata' = [last |-> p, state |-> [otadata.state EXCEPT ![p] = "new"]]
             /\ announced' = [announced EXCEPT ![p] = upload.expected]
    <2>1. p \in OtaSlots \ {running} /\ p \in Slots /\ Types /\ Settled
          /\ Dependable(otadata) /\ upload.expected \in Seq(Chunks)
      BY <1>0, <1>1 DEF IInv, Uploading, Types, Slots, Uploads
    <2>2. flash[p] = upload.expected
      BY <1>0, <1>1, <1>3 DEF IInv, Uploading, DigestMatches
    <2>3. upload' \in Uploads /\ upload'.ready /\ ~upload'.active /\ ~upload'.open
      <3>1. upload' \in Uploads
        BY <1>3, NoUploadType DEF Uploads
      <3> QED BY <1>3, <3>1, NoUploadType DEF Uploads
    <2>4. /\ announced' \in [OtaSlots -> Seq(Chunks)]
          /\ announced'[p] = upload.expected
          /\ \A s \in OtaSlots \ {p} : announced'[s] = announced[s]
      BY <1>3, <2>1 DEF Types
    <2>5. /\ otadata' \in OtaData /\ otadata'.last = p /\ otadata'.state[p] = "new"
          /\ \A s \in OtaSlots \ {p} : otadata'.state[s] = otadata.state[s]
      BY <1>3, <2>1 DEF Types, OtaData, States
    <2>6. /\ Sound(p)'
          /\ \A s \in OtaSlots \ {p} : Sound(s) => Sound(s)'
      BY <1>1, <1>3, <2>1, <2>2, <2>4 DEF Sound
    <2>7. ASSUME NEW s \in OtaSlots \ {p}, otadata.state[s] = "valid"
          PROVE  Sound(s)
      <3>1. running = Chosen(otadata) /\ otadata \in OtaData
        BY <2>1 DEF Settled, Types
      <3>2. running \in OtaSlots
        BY <2>7, <3>1, ChosenSlot DEF Slots
      <3>3. running = s
        BY <2>1, <2>7, <3>2 DEF OtaSlots
      <3> QED BY <2>1, <3>1, <3>2, <3>3, ChosenSound
    <2>8. ASSUME NEW s \in OtaSlots \ {p}
          PROVE  otadata.state[s] # "new"
      BY <2>1 DEF Settled
    <2>9. Dependable(otadata)'
      <3>1. \A s \in OtaSlots :
              /\ otadata'.state[s] \in {"new", "pending"} => Sound(s)'
              /\ otadata'.state[s] = "valid" => Sound(s)'
              /\ otadata'.state[s] = "new" => s = p
        BY <2>1, <2>5, <2>6, <2>7, <2>8 DEF Dependable
      <3>2. otadata'.last # "factory"
        BY <2>1, <2>5 DEF OtaSlots
      <3> QED BY <2>5, <3>1, <3>2 DEF Dependable
    <2>10. Types' /\ FactoryIntact'
      BY <1>1, <2>1, <2>3, <2>4, <2>5 DEF Types, IInv, FactoryIntact
    <2>11. Uploading'
      BY <1>1, <2>3 DEF Uploading
    <2> QED BY <2>3, <2>9, <2>10, <2>11 DEF IInv
  <1> QED BY <1>0, <1>2, <1>3 DEF Finish

LEMMA StepInv == IInv /\ [Next]_vars => IInv'
  <1> SUFFICES ASSUME IInv, [Next]_vars PROVE IInv'
    OBVIOUS
  <1>1. CASE UNCHANGED vars
    BY <1>1, KeptInv DEF vars
  <1>2. CASE Boot \/ Serve \/ Confirm
    BY <1>2, BootInv, ServeInv, ConfirmInv
  <1>3. CASE Crash
    BY <1>3, DropInv DEF Crash, Off
  <1>4. CASE Tick
    <2>1. UNCHANGED <<flash, otadata, running, announced>> /\ upload' = NoUpload
          /\ stage' \in {stage, "off"}
      BY <1>4 DEF Tick, Off
    <2>2. ~upload.ready \/ stage' = "off"
      BY <1>4 DEF Tick, Off, Expired, IInv, Uploading
    <2> QED BY <2>1, <2>2, DropInv
  <1>5. CASE MinutePasses \/ SecondPasses \/ Rearm
    BY <1>5, KeptInv DEF MinutePasses, SecondPasses, Rearm, bootVars
  <1>6. ASSUME NEW contents \in Announced, Start(contents)
        PROVE  IInv'
    BY <1>6, StartInv
  <1>7. ASSUME NEW current \in BOOLEAN, NEW offset \in 0..upload.total, NEW chunk \in Chunks,
               Write(current, offset, chunk)
        PROVE  IInv'
    <2>1. offset \in Nat
      BY DEF IInv, Types, Uploads
    <2> QED BY <1>7, <2>1, WriteInv
  <1>8. ASSUME NEW current \in BOOLEAN, Finish(current)
        PROVE  IInv'
    BY <1>8, FinishInv
  <1>9. ASSUME NEW current \in BOOLEAN, Abort(current)
        PROVE  IInv'
    <2>1. UNCHANGED <<flash, otadata, running, announced, stage>> /\ upload' = NoUpload
          /\ ~upload.ready
      BY <1>9 DEF Abort, Matches, bootVars, IInv, Uploading
    <2> QED BY <2>1, DropInv
  <1> QED BY <1>1, <1>2, <1>3, <1>4, <1>5, <1>6, <1>7, <1>8, <1>9 DEF Next, Request

-----------------------------------------------------------------------------
\* The inductive invariant of updates, for any images and any requests.
THEOREM Invariance == Spec => []IInv
  BY InitInv, StepInv, PTL DEF Spec

\* Whenever the power goes, in the middle of an upload, of its selection or of
\* the trial of a new image, the slot the bootloader picks holds a complete
\* image, and so does the one it falls back to.
THEOREM Bootable == Spec => []AlwaysBootable
  <1>1. IInv => AlwaysBootable
    <2> SUFFICES ASSUME IInv PROVE AlwaysBootable
      OBVIOUS
    <2>1. Dependable(Bootloader(otadata)) /\ Dependable(Bootloader(Bootloader(otadata)))
      BY BootloaderDependable DEF IInv
    <2>2. ASSUME NEW d, Dependable(d)
          PROVE  flash[Chosen(d)] \in Images
      BY <2>2, ChosenSound, OtaAssumption DEF IInv, FactoryIntact, Sound, Slots
    <2> QED BY <2>1, <2>2 DEF AlwaysBootable
  <1> QED BY <1>1, Invariance, PTL

\* No lost, repeated or late request, failed write or restart lets an image be
\* booted that is not the announced one.
THEOREM BootsAnnounced == Spec => []BootsWhatWasAnnounced
  <1>1. IInv => BootsWhatWasAnnounced
    BY BootloaderDependable, ChosenSound DEF IInv, BootsWhatWasAnnounced, Sound
  <1> QED BY <1>1, Invariance, PTL

\* The image the processor runs from: what no step may change while it runs.
RunningIntact == [][stage # "off" => flash'[running] = flash[running]]_vars

\* monitor_ota.c never erases or writes the slot it runs from, nor the factory
\* slot, whatever the requests are.
THEOREM RunningUntouched == Spec => RunningIntact /\ []FactoryIntact
  <1>1. IInv /\ [Next]_vars => [stage # "off" => flash'[running] = flash[running]]_vars
    <2> SUFFICES ASSUME IInv, Next PROVE flash'[running] = flash[running]
      BY DEF vars
    <2>1. CASE UNCHANGED flash
      BY <2>1
    <2>2. ASSUME NEW current, NEW offset, NEW chunk, Write(current, offset, chunk)
          PROVE  flash'[running] = flash[running]
      <3>1. /\ upload.partition \in Slots /\ running \in Slots /\ running # upload.partition
            /\ flash \in [Slots -> Seq(Chunks)]
        BY <2>2 DEF Write, Matches, IInv, Uploading, Types, Slots
      <3>2. Opened \in [Slots -> Seq(Chunks)] /\ Opened[running] = flash[running]
        BY <3>1 DEF Opened
      <3>3. Written(chunk)[running] = flash[running]
        BY <3>1, <3>2 DEF Written
      <3> QED BY <2>2, <3>2, <3>3 DEF Write
    <2>3. UNCHANGED flash \/ \E current, offset, chunk : Write(current, offset, chunk)
      BY DEF Next, Request, Boot, Serve, Confirm, Crash, Tick, MinutePasses, SecondPasses,
             Start, Finish, Abort, Rearm
    <2> QED BY <2>1, <2>2, <2>3
  <1>2. IInv => FactoryIntact
    BY DEF IInv
  <1> QED BY <1>1, <1>2, Invariance, PTL DEF Spec, RunningIntact
=============================================================================
