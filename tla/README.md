# A TLA+ model of esp-cf-tunnel

The repository is a Cloudflare tunnel connector for ESP32: a component,
`components/esp_cf_tunnel`, that keeps one HTTP/2 connection to the Cloudflare
edge open and hands the requests that arrive on it to an application, and an
example application, `examples/system_monitor`. These modules model the
component, and of the example its network manager, its backend behind the tunnel
and its firmware update, from the C sources. TLC checks them on small instances;
TLAPS proves their safety properties for all values of their parameters.

Paths below are relative to the repository; `src/...` without a prefix means
`components/esp_cf_tunnel/src/...`.

## 1. The system

| Part | State | Operations | Module |
|---|---|---|---|
| Lifecycle reducer, `cf_lifecycle.c` | state, two readiness flags, two session flags, failure count, deadline of the back-off | init, start, environment, advance(event), retry, tick, stop | `LifecycleOps`, `Lifecycle`, `Availability` |
| Registration RPC, `protocol/cf_rpc.c` | state, capability, retry hint | init, begin, register, unregister, receive, reset | `RpcOps`, `Rpc` |
| Cap'n Proto framing, `protocol/cf_capnp_framing.c` | buffer, target, phase, error | init/reset, feed, eof, segment | `Framer` |
| HTTP/2 session, `transport/cf_h2.c` | six stream entries, header block under way, counters, allocation budget | the callbacks of nghttp2, respond, reset, resume, output, tick, shutdown, destroy | `H2` (table), `Tunnel` (control stream) |
| Connector, `transport/esp_cf_tunnel.c` | handle, owner task, request flags, everything of a connection | init, start, stop, reload, deinit; discover, connect, communicate, retry, close | `Tunnel` |
| Remote configuration, `protocol/cf_config.c` | version, hostname, service in force | init, apply, response | `ConfigApply` in `Tunnel` |
| Cap'n Proto reader and builder, `protocol/cf_capnp.c` | traversal budget and sticky error; buffer and error | root, field, at, uint, data; struct, pointer_list, blob, set_uint, build_end | `Capnp` |
| DNS, `protocol/cf_dns.c` and `discover` of `esp_cf_tunnel.c` | number of attempts, question asked, answer | query, read_name, parse; choice of an edge | `Dns` |
| Serialised headers and base64, `protocol/cf_headers.c`, `cf_base64.c` | none | encode, decode | `Headers` |
| Credential parser, JSON allocation | none; a quota | parse; allocate, free | not modelled |
| Firmware update, `system_monitor/main/monitor_ota.c` (and the effects of `monitor_api.c`, the start-up of `main.c`) | upload session, pending restart; flash and boot selection of ESP-IDF | start, write, finish, abort, tick; confirm boot | `Ota` |
| Backend of the monitor, `monitor_tunnel.c` | four static request records | request, data, read_response, closed | `Backend` (with `H2`) |
| Network manager, `monitor_network.c` (and the settings path of `monitor_api.c`) | link flags, four deadlines, four request flags, delayed effects | tick, Wi-Fi events, scan, reload | `Network` |
| Login and sessions, storage, LED, HTTP server of the example | sessions, flash | HTTP handlers | not modelled |

**Interaction.** One FreeRTOS task, the owner (`run`, esp_cf_tunnel.c:439),
calls everything: it reads two request flags under a lock, asks the
application's callbacks for the environment and the credentials, drives DNS, TLS
and HTTP/2 without blocking, and publishes a snapshot under the lock. nghttp2
calls back into cf_h2.c for every frame; cf_h2.c calls back into
esp_cf_tunnel.c, which runs the RPC client on the control stream, applies
configuration updates and passes application requests on. Other tasks only call
the interface of the handle: init, start, reload, stop, deinit and snapshot.
In the example, the main task ticks the API (delayed effects, firmware update) and
the network manager four times a second; ESP-IDF's event task runs `wifi_event`;
the HTTP server's task and the tunnel's owner run requests, one at a time, under
`monitor_json_lock`.

**What is hard here.** Requests of other tasks at any point of an iteration; an
edge that sends frames in any order, answers late, twice or not at all; a frame
batch that holds a rejection *and* what follows it (a reset, an end of stream, a
GOAWAY, a read error); resets that are only queued while the batch goes on;
output that stalls; a network or clock that comes and goes during a back-off; a
graceful stop that depends on answers of the edge; six table entries shared by
all kinds of streams; messages cut at any byte; a resolver and a peer whose every
length and pointer may lie; a network manager that decides in one critical section
and acts afterwards, while events change what it decided on. `PROJECT.json` lists these under
`hazards`, each at its line.

## 2. Modules

**LifecycleOps** has the reducer's functions as operators from a record to a
record; `Lifecycle` makes each call an action and adds a clock, so calls come in
any order and with any argument. `notBefore` is a history variable: the latest
instant the server asked to wait for. `BeginStopping` is the direct assignment
`t->life.state = CF_STOPPING` of the owner.

**Availability** is the abstract specification: phases off, blocked, trying,
serving, cooling, denied, draining and an instant before which no attempt
starts. `Lifecycle` implements it under the mapping `PhaseOf` of the state and
`retryAt` to that instant.

**RpcOps** and **Rpc** are the RPC client. A Cap'n Proto frame is its kind
(return, exception, abort, another message, malformed), the question it answers
and the shape of its result; the code distinguishes no more. The history variable
`sent` counts the messages produced in a session.

**Framer** (`cf_capnp_framing.c`) cuts bytes into frames; one iteration of `cf_capnp_feed`'s loop is one
action, so every fragmentation of a stream is a behaviour. `Cut` is the
reference: the stream cut as a whole, straight from the format. `Size` is the size of
a frame by its table, a sum of words where the code adds bytes and compares each with
what is left; `Fault` is what is wrong with the bytes so far, and `Complete` says that
a frame is there. It is the reason why `Tunnel` may deliver whole frames.

**Capnp** is the reader and the builder over words: a word is what it says when it
is followed as a pointer. `follow` is the function of the code, over a whole
message, with its checks in the code's order: range, then charge. The reader may
make any call on the value it holds; the builder any call on a pointer that is not
set yet. `visited` is a history variable: the words of all objects entered.

**Dns** has two halves without common state. `read_name` is one action per branch
of its loop, over packets of bytes; its reference `Expansions` is the name that the
format defines, by following labels and pointers without the code's cursor. The
discovery of successive attempts works on records that carry what `cf_dns_parse`
tests of them; the resolver (external) sends the answer in any order, alone or with
a record that differs from an answer in one respect, or an unsound packet. `dns_send`
opens a new socket for every query, so a late reply to an earlier one cannot
arrive. `picks` keeps the record chosen by each attempt; its length is `attempts`, which is
counted before anything can fail, so attempts that fail take their turn in the
rotation too. A record of weight zero in a priority with other weights is never
chosen, by the code and by the model.

**Headers** is the serialisation of headers and the base64 it is made of. A
character of the wire is the value of its digit or one of four codes.

**MCWire** puts frames, names, discovery, messages and headers side by side: an initial
state has one `subject`, and only that one takes steps. They share no state, so this is
five checks in one run.

**H2** is the stream table. nghttp2 is external and modelled from how cf_h2.c
uses it: it delivers header blocks one at a time, queues a submitted RST_STREAM
until output is pulled, and calls `closed_stream` once per stream. Names of
closed streams are used again, as only their freshness matters. Flags of the
entries are sets. The 15-second timer of an entry is the set `expired`.

**Backend** composes the monitor's callbacks with `H2`: a callback happens inside the
frame that causes it, so an action of `Backend` is an action of `H2` and what the
callback does to its records. `ran` and `failed` tell the two ways a record is
completed apart. Whether a request is routed here, its shape, memory and the JSON
lock, which the HTTP server's task may hold, are choices.

**Tunnel** composes `LifecycleOps` and `RpcOps` with the owner task, the
interface and the edge. The loop body is split where another actor, the clock or
a frame can come in between; `pc` names the place:

| pc | code |
|---|---|
| boot | task created, `cf_lifecycle_start` not called yet |
| top | top of the loop: requests taken (445-459) |
| serve | environment callback, lifecycle tick (460-466) |
| work | `discover`, `connect_tls` or `communicate` (467-473) |
| read | the frames of one read batch, one by one (389-395, and the callbacks 144-251) |
| post | after the batch: settings, fault, GOAWAY, configuration, idle tick (396-408) |
| write | output (409-438) |
| end | graceful stop over?, publish (474-476) |
| exit | `close_connection`, `cf_lifecycle_stop`, publish (478) |
| exited | before the last critical section (479) |
| none | no owner, or one that has cleared `t->task` and has only its lock to release (479) |

The interface's calls are split where they check and act. `handle` says where the
application's call is: `esp_cf_tunnel_start` looks at `t->task` (506), clears the flags
(507) and creates the task (508), all without the lock; `esp_cf_tunnel_deinit` looks at
`t->task` in a critical section (523) and frees after it (525). `task` is `t->task`, apart
from `pc`, which is what the owner really does. `lock` is set from the moment the owner
clears `t->task` until it leaves that critical section, which is its last access to the
handle; every other critical section is one step and waits for it. On one core the
two coincide; the ESP32-S3 of the monitor has two. A start that does not take the lock can therefore
create the next owner while the last one is still leaving, which is harmless; a free
could not be. FreeRTOS (external) stores the handle of a new task before it runs.
It is the callers' obligation, and assumed, that init, start and deinit of a handle are
called by one task at a time, in the order of docs/integration.md:90-92, as the monitor does
(monitor_tunnel.c:159-165, "Main task only"): nothing in the code arbitrates between two
concurrent starts, or between a start and a deinit. Stop and reload may come from any
task, as long as the handle exists, between the steps of the others too.

`conn` is the record of everything `close_connection` resets, so `NoConnection`
is that function's effect. Failures with different texts and the same effect are
one disjunct. Abstractions that lose nothing the properties see: the queue of
RPC messages is *empty or not*, since the code never looks at single messages in
it; the peer's SETTINGS and GOAWAY are no fields, the step they cause may happen
in any batch; application streams are one flag, their number is the subject of
`H2`; version numbers are a small set.

**Ota** is the monitor's update: requests are atomic, because both interfaces
take `monitor_json_lock` around the dispatch *and* the scheduling of its effects
(monitor_http.c:72-77, monitor_tunnel.c:119-125). A digest is represented by the
contents it is the digest of, and the descriptor checks by whether a chunk can
be the first of an application image. `stage` follows `app_main`: requests are
served before the boot is confirmed, ticks come only after it. `Crash` is
possible at every state. ESP-IDF is external, with the build's configuration
(rollback enabled, a factory slot and two OTA slots): the next update slot is
never the running one; opening a slot erases it and is refused while the running
image awaits its confirmation; a new image gets one trial boot and is given up
if a reset finds it unconfirmed. `announced` is a history variable.

**Network** is the manager with the path that new settings take to it. The main task's
iteration is the set `todo` of what its local variables still ask for, worked off in
the order of the code, one driver call per step, so events and requests come in
between. A deadline is off, running or due. Only one request runs at a time, and
`monitor_api_tick` skips its turn while one does. External and assumed of ESP-IDF: a
link goes through joining, associated and leased, every change posts an event, events
are handled in order, an address event never follows the disconnection of its own
link, a scan that was accepted ends with SCAN_DONE, and the driver refuses a scan
while it joins, and a driver that is started, as it always is, accepts
`esp_wifi_disconnect`, whose result the code does not look at (299, 311). `MaxFaults` of the
other driver calls fail. `scan_ready` is never read and left out.
Two consequences of the code that the model has and no property excludes: an event
handled between `esp_wifi_connect` and lines 357-359 leaves `connecting` set on a link
that works or is gone, so that a working link may be taken down once after 30 seconds
(`Reconnects` shows that it comes back); and a driver that refuses the station's
configuration leaves the device without credentials until the next change of settings.

The operators commented as "Mutant" are wrong variants of the definition that
follows them. No specification uses them; they document what each property is
able to notice, and replacing the definition by its variant makes TLC report a
violation (`mutants` in `PROJECT.json`).

## 3. Runs

| Run | Checks | Distinct states |
|---|---|---|
| lifecycle | `FlagsMatchState`, `HintHonoured`, `FinalUntilStopped`, `ImplementsAvailability` | 8 690 |
| rpc | `OneQuestionAtATime`, `CapabilityBalance`, `RejectionIsGenuine` | 339 |
| wire | `FragmentationInvisible`, `NamesRead`, `FailoverReachesAll`, `EdgeIsAdvertised`, `ReadsInBounds`, `BuiltReadsBack`, `HeadersCanonical` | 381 017 |
| h2 | `SlotsAccounted` | 78 553 |
| backend | `RecordsAccounted`, `RejectedNeverExecuted`, `IdleReclaimed` | 115 579 |
| tunnel | `ResourcesMatchState`, `OnlineIsGenuine`, `SecretsWiped`, `PermanentRejectionFinal`, `ServerDelayHonoured`, `ReloadTakesEffect`, `NoLostWakeup`, `GoawayAfterGoodbye`, `OwnerGoneBeforeReuse`, `ConfigNeverRegresses` | 1 522 772 |
| tunnel_live | `StopCompletes`, `AttemptEnds`, `ReloadRevives` | no configuration versions |
| ota | `AlwaysBootable`, `BootsWhatWasAnnounced`, `UpdateEnds` | 3 718 |
| network | `SetupWindowBounded`, `ScanAccounted`, `AssociationWatched`, `SettingsNotLost`, `SetupReachable`, `Reconnects` | 234 734 |
| h2_reserved, h2_contexts, tunnel_rejected | one property each, violated: section 5 | |

What they show, beyond their names:

- **lifecycle**: no order of calls makes flags and state disagree; a delay the
  server demanded survives network flaps, because losing the network in BACKOFF
  keeps the deadline; only a stop leaves AUTH_FAILED or STOPPING.
- **rpc**: an exception, an Abort or an answer to another question is never taken
  for a rejection of the credentials, which would end all attempts; a delay is never
  rounded down; the one imported capability is released once.
- **wire**, frames: split at any byte, several frames per piece or several pieces per
  frame, the callback sees the same frames; sizes at and over the limit are told
  apart exactly; the segment views of an accepted frame tile it.
- **wire**, names: exactly the names of the format within the limits are accepted, and
  the parser goes on after the name's own bytes; what was accepted can be asked for.
- **wire**, discovery: within as many attempts as there are SRV records every priority
  has its turns, the weights are exact, and only an address given for an advertised
  target is connected to.
- **wire**, messages: no pointer leads the reader out of the message or past its budget
  and depth, however often it is followed; what the builder lays out reads back.
- **wire**, headers: a list of headers has exactly one spelling, of the size computed
  beforehand.
- **ota**: with the power cut between any two steps, the slot the bootloader picks
  and the one it falls back to are complete images, and what boots is what the
  client announced. docs/tcp-tls-diagnostics.md:150 lists these power cuts as not
  tested on hardware. An abandoned upload expires, and a verified one restarts.
- **h2**: an entry, the counter and the application's context are released once on
  every path (reset sent, peer reset, response complete, destroy), and what is reset
  has its RST_STREAM queued.
- **backend**: the application's records, which outlive the session, never leak and
  are never overrun, although the session may admit more streams than there are
  records (section 5); a request that was refused in the middle of its body is not
  executed by the end of it. An entry whose peer goes silent is given back.
- **network**: no interleaving of tick, events and requests loses a scan, starts it
  twice, loses saved settings, leaves the setup access point open for ever on a
  connected device, or an associated link without a deadline; off the network the
  access point comes back, and a device with credentials always tries again.
- **tunnel**: after every failure exactly the resources of the new state remain;
  a permanent rejection and a server's delay are kept whichever failure follows
  them in the batch; a reload never lets an attempt go on with replaced settings;
  a queued message always wakes its stream; GOAWAY comes after the goodbye. What start
  and deinit have read of `t->task` still holds when they use it: no second owner, no
  free under an owner's feet. The latter needs the lock around the check of deinit: read
  without it, as start does, the handle may be freed while the owner still holds
  the lock inside it.
- **tunnel_live**: a stop always ends the task even if the edge is silent, the
  output stalls or the network goes; no phase of an attempt waits for ever.

### Bounds, and why they are enough

- *lifecycle*: `BaseMs` 2, ceiling 5, shift 2: ceilings 2, 4 and 8 clipped to 5,
  so doubling, clipping and the shift's own limit all happen; a failure count
  saturating at 3; a clock of 10 instants, so that deadlines saturate as at
  `UINT64_MAX`; hints below, between and above the jitter. The proofs remove
  these bounds.
- *rpc*: frames of every shape in every state; delays negative, zero, below, at
  and above one millisecond, taken as 3 ns. Question numbers are bounded by the
  protocol itself.
- *wire*, frames: table entries of 2 bytes, words of 4, so that pieces end inside an
  entry and inside a word; a buffer of 16 bytes; streams of two frames: the
  smallest, with an empty segment, with padding and exactly as large as the
  buffer, followed by any of these or by one too large by a word, far too large,
  with an empty first segment, with a table larger than the buffer, or with one
  segment too many.
- *wire*, names: packets of up to three pieces and an ending: labels of one and two
  letters, upper and lower case, a bad letter, a label past the end, a reserved length,
  pointers to the start, into a label and onto a pointer; read from every offset. 2
  hops, 3 labels and 5 characters are allowed, so each limit is met and passed.
- *wire*, discovery: at most 3 records, as many as an answer may hold; a reply with one
  more passes the limit. Zones with ties, zero and unequal weights and three
  priorities; 6 attempts, two full rotations.
- *wire*, messages: two segments, of three words and one, with every combination of
  pointers forwards, backwards, to themselves, far with both kinds of landing pad, and
  tags that agree with their list or not; a budget of 6 words and a depth of 3, so that
  both run out. Offsets are read modulo 1024 instead of 2^30, above anything in range.
  The builder has 5 words, so that allocations fail; fields and elements 0 and 1, up to 2
  words and pointers per structure, blobs of 0 and 8 bytes.
- *wire*, headers: texts of up to 7 characters and what is just longer, 3 decoded bytes
  and 2 headers, so that each limit is met.
- This run does not check deadlock: a parser returns.
- *ota*: images of two chunks, so that an upload can stop between them; two
  updates that share the first chunk, so that late chunks fit the wrong upload;
  one announced content that is no image. Any number of uploads, restarts and
  crashes.
- *h2*: one application stream, hence three entries, and four streams: the table
  fills and overflows. All streams are alike, so the invariants are checked up to
  their permutation.
- *backend*: one record for three entries of the session and three streams, without
  symmetry, because liveness is checked too.
- *network*: one refused driver call, two requests (a scan and a save, two scans or two
  saves) and two waiting events; time, presses of the button and what the radio does
  are unbounded.
- *tunnel*: every timer starts at one tick. Time is relative: a timer holds the
  ticks left, which keeps the state finite without an end of time. A tick
  happens only where the next step compares a timer with the clock: elsewhere it
  commutes with the owner's steps up to there. One back-off exponent, since
  `Lifecycle` covers the others; a hint of 3 clamped to 2, above the back-off, so
  that honouring it matters; two versions of the configuration, enough for newer,
  equal and older; one save of settings by the operator, enough for replaced
  settings; any number of starts, stops, reloads, deinits and connections.
  Deadlock is checked in every run but wire: no other model stops.

### Fairness

`Tunnel!FairSpec`: weak fairness of the owner's steps, since FreeRTOS schedules the
task and no call of it blocks (sockets are non-blocking, the callbacks return,
`vTaskDelay` ends); weak fairness of `ReadEnds`, since a batch is at most eight
reads (esp_cf_tunnel.c:389); strong fairness of `Elapse`, as the clock runs
whatever the task does and the model only offers it at certain steps. Nothing is
assumed of the edge, the network, the operator or the application's requests.
`Backend!BackendFairSpec`: weak fairness of the idle tick and of sending a queued
reset, which the owner does in every iteration (406, 409-423).
`Network!FairSpec`: weak fairness of the main task and of the event task, which
FreeRTOS schedules; of the end of an attempt to join and of a scan, which the driver
guarantees; strong fairness of the retry and connection deadlines running out, since
the clock runs on. A timer runs out only while no event waits and the main task is in
its pause: the shortest delay is a second, and neither takes that long. Nothing is
assumed of the network, the DHCP server, the visitors or the button.
`Ota!FairSpec`: weak fairness of start-up, including the power coming back, and of
the clock; strong fairness of the tick, which runs four times a second but finds
the lock taken (monitor_api.c:372) or the restart pushed back by another change
(368) now and then: a client that changes settings every second for ever is
excluded.

## 4. Proofs

Each proof module extends the module it is about. All of them follow one pattern: an
inductive invariant, called `IInv` (`H2Inv` and `BackendInv` in `BackendProofs`,
`NameInv`, `DiscoveryInv` and `FramerInv` for the other parsers), lemmas that the initial states have it and that each action keeps
it, the theorem `Invariance`, and one theorem for every property, which follows from the
invariant. The invariants were checked by TLC on the instance of the component's run
before they were proved.

| Module | About | Theorems that state a run's property |
|---|---|---|
| `LifecycleOpsProofs` | operators of the reducer | none: lemmas for the next one and `TunnelProofs` |
| `LifecycleProofs` | `Lifecycle` | `FlagsAgree`, `HintsHonoured`, `Finality`, `Refinement` |
| `RpcProofs` | `Rpc` | `OneQuestion`, `Balance`, `GenuineRejection` |
| `BackendProofs` | `H2`, `Backend` | `EntriesKept`, `RecordsKept`, `RejectedDiscarded` |
| `TunnelProofs` | `Tunnel` | `ResourcesFollowState`, `OnlineGenuine`, `CredentialsWiped`, `RejectionFinal`, `DelayHonoured`, `ReloadEffective`, `WakeupsKept`, `GoodbyeOrdered`, `OwnerAlone`, `ConfigMonotone` |
| `OtaProofs` | `Ota` | `Bootable`, `BootsAnnounced` |
| `NetworkProofs` | `Network` | `WindowBounded`, `ScanKept`, `LeaseWatched`, `SettingsKept` |
| `WireProofs` | `Framer`, `Capnp`, `Dns` | `FragmentationUnseen`, `ReadsSafe`, `BuiltReads`, `EdgeAdvertised`, `FailoverReaches` |

The theorems are about the specifications without fairness, which the fair ones imply.

**Assumptions** on the constants are those of the modules that declare them:

- `RetryAssumption`, `ShiftAssumption` (LifecycleOps): the base of the back-off is at
  least 2, so that half of it is a pause; the base is at most the ceiling, the ceiling
  at most the clock's end; powers of two are positive naturals.
- `InputAssumption` (Lifecycle), `TunnelAssumption`: hints fit the clock, random numbers
  and versions are naturals, timeouts are positive.
- `NsAssumption`, `DelaysAssumption` (Rpc): a millisecond has some positive number of
  units; delays are any integers.
- `H2Assumption`: finitely many streams, at least one application slot.
- `OtaAssumption`: the factory image is an image, images and announced contents are not
  empty. `NetworkAssumption`: the bounds are naturals, some event may wait.
- `CapnpAssumption`: the words of messages are pointers of any kind and any content, what
  callers ask for are naturals, and the builder's buffer is smaller than the reader's
  budget (at most 2048 words, 4096 words).
- `FramerAssumption`: streams are bytes, an entry of the table has some bytes, and the
  caller's buffer holds at least two words and at most the largest message
  (`cf_capnp_framer_init` refuses others).
- `DnsAssumption`: packets are bytes, limits are positive; a zone is finite and not empty,
  with natural weights and priorities, and no target of it is "somebody", the name that
  stands for an owner other than the one asked for.

**Why the properties need strengthening**, component by component:

- *Lifecycle.* `DeadlineReached`: a retry deadline that outlives the back-off has been
  reached. Without it an attempt interrupted by a lost network might resume before the
  deadline, and neither `HintHonoured` nor the guards of the abstract `Unblock` and
  `Serve` would follow. `DelayBounds`, `DeadlineBounds` and `DeadlineMonotone` are the
  arithmetic of the jittered, saturating delay. `Refinement` shows, action by action, that
  the reducer implements `Availability`. `AttemptsReady` and `TypeCorrect` are proved and
  not model-checked.
- *Rpc.* The counts of messages do not say which answer is still to come: `History` makes
  them a function of the state, and `Holding` says when the capability is held.
- *H2, Backend.* `Flags`: the flags of an entry live no longer than the entry, so a
  closing stream leaves nothing behind for the next one in it; `TableBounded`. For the
  records, `RecordsOwned` ties each to a request whose headers are complete.
  `BackendIsSession` proves `BackendSpec => Spec`: the callbacks happen inside the steps
  of the session, so its theorems carry over to the composition.
- *Tunnel.* The properties look at the owner between two iterations; the induction goes
  through the middle of one. `Resources` says which resources exist at every `pc`;
  `Ready`, `Session` and `Standing` tie the lifecycle, the RPC session and the flags of
  the connection together; `Refusal` is where a rejection is kept while the batch that
  carried it goes on: in the RPC session until the batch is over, in the lifecycle
  afterwards. That is why no failure in between can lose it. `Quiet` ties `t->task` to the
  place of the owner, and each place of a call of start or deinit to what its check found.
- *Ota.* A slot that was valid once may hold garbage, because an upload overwrites it in
  place. `Dependable` says when that is harmless: the slot selected last is another valid
  one. `Settled` says that the running slot is the one the bootloader would pick again,
  `Uploading` that an upload writes elsewhere and has hashed what it wrote.
  `RunningUntouched` adds that the running slot and the factory slot are never written.
- *Network.* The tick works off a snapshot while events wait in a queue that the driver is
  ahead of. `Association` says what is on its way: which reports of which link can still
  wait, that a connect finds the driver idle (`ConnectsFromIdle`), and that a link, or the
  end of one, is known to the state or about to be recorded (`LinkKnown`, `EndKnown`).
- *Capnp.* An element of a list lies in the message because the list does (`ElementWithin`
  is the multiplication), and `FollowSound` is the contract of `follow`: whatever the word
  says, the value is in its segment, not too deep, and cost at least its words. For the
  builder, `Layout` says that every object lies behind its own pointer, apart from the
  others, and that no slot of a pointer holds data, so that `cf_cp_set_uint` overwrites no
  pointer.
- *Names.* `NamesBounded` needs to know that the place to resume lies in the packet.
  `NamesEnd` is the reason why no loop of pointers keeps `read_name` going: an iteration
  that does not end the call uses up a hop or a label.
- *Discovery.* The rotation counts attempts, and the resolver may list the records in
  another order every time, so two attempts sort different sequences. `Turn(zone, k)` is
  the priority at place k of the sorted records, and `TurnIs` shows that it is the same
  for every order (`NoLater` is the counting argument); `DiscoveryInv` keeps that every
  answered attempt chose by its turn. `Counted` then counts the turns of a window of
  attempts that wraps around the rotation, and `Shares` counts the random values that
  choose a record, as an interval between two partial sums of weights. That the exchange
  sort sorts and loses nothing (`SortedOrders`), that the loop of `cf_dns_parse` keeps
  only answers, and what the running sum hits (`HitsIs`) are inductions over those loops.
- *Frames.* `FramerInv` says where the boundaries of the delivered frames lie in the stream,
  that the buffer holds what was consumed after the last of them, and for each phase what
  the framer knows of it: nothing, the number of segments, or a whole table and with it the
  size. `TableDecides` shows that these do not depend on the bytes still to come,
  `TotalSize` that comparing each segment with the room left finds out exactly whether the
  frame fits, `CutIs` that frames with such boundaries are what `Cut` yields, and
  `WholePartitioned` that the segments of a frame tile it.

**Loops.** The library's induction theorems take an operator as a parameter and are of no
use to the installed provers. The first section of `WireProofs` restates them for sets:
`Induct` and `LoopInduct` conclude that a set that has 0 and, with k - 1, k contains
the naturals or an interval; they follow from `Least`, which needs only the
well-foundedness of `<`. `LoopExists` and `DescentExists` show that a recursive function
over an interval exists, when each step looks only at earlier or only at later places; so a
`CHOOSE` of such a function has the recursive property. Every loop of the parsers is
written as such a function.

**Only model-checked.** Everything temporal (`IdleReclaimed`, `StopCompletes`,
`AttemptEnds`, `ReloadRevives`, `UpdateEnds`, `SetupReachable`, `Reconnects`), since
fairness and ENABLED are beyond the prover. `NamesRead` and `HeadersCanonical`: both
compare a decoder with an encoder that is a fold over characters, and the headers are
bit arithmetic with powers of two; of the names, the bounds and the end of the loop are
proved.

## 5. Where documents and code differ

- **Reserved entries** (run h2_reserved). docs/decisions.md:20-21 speaks of
  "separate control and configuration storage". `begin_headers` takes any free one
  of six entries for any stream, and a refused stream keeps its entry until its
  RST_STREAM is sent: a burst of requests in one batch makes it refuse a control or
  configuration stream.
- **Application slots** (run h2_contexts). docs/integration.md:115-117: admission
  is "restricted to the configured application slots". The count leaves out
  entries that are reset and not closed yet, while the application still owns
  their contexts, so it can own more than the limit for a moment.
- **Rejected configuration** (run tunnel_rejected). docs/compatibility.md:23-25:
  after a rejection the lifecycle "rejects application traffic until a valid
  configuration is applied". The reducer keeps an online connector online: a failed
  update does not revoke a valid configuration, as the comment in
  cf_lifecycle.c:107 intends.

## 6. What is left out

- Which fields an RPC message has (`cf_rpc.c` on top of `cf_capnp.c`): `Rpc` has the
  outcome. The parsing of tokens (`cf_credentials.c`) and of configuration documents:
  byte-level parsing without state on top of cJSON.
- `cf_json.c`: the quota of the shared allocator.
- In `H2`: flow control, nghttp2's allocation budget and header bytes. Exceeding
  the budget ends the session, which in `Tunnel` is `ReadFails` or `WriteFails`.
- Diagnostics, texts and statistics of the snapshot, and `cf_tls_diag.c`.
- Login, sessions, storage, LED and HTTP server of the example; `monitor_remote.c`, whose
  verdict on a request is a choice in `Backend`; `cf_header_is_control`; the protocol
  smoke test; the vendored nghttp2 and cJSON.
- In `Network`: a main task that stalls for five seconds between its decision and the
  call it decided on. It could take down a link that had come up meanwhile, or leave an
  associated one without a deadline.
- In `Tunnel`, a queue of RPC messages that is full (esp_cf_tunnel.c:139): more than 4096
  bytes would have to wait at once, and the largest message has 1024. A message that does not fit counts as a
  failed session, which `ControlBroken` and `OpenControl` have anyway; a lost unregistration
  leaves the graceful stop to its deadline. Also calls of the interface that break its
  contract: two tasks that start or free the same handle at once.
- In `Tunnel`, a control stream that the edge closes and opens again within the
  batch that carried a rejection starts a new RPC session and the rejection is
  forgotten; the history variables are reset with it.

## 7. Plan

1. *Done:* lifecycle and its abstract specification with proofs; RPC; framing, reader and
   builder of Cap'n Proto; DNS and edge discovery; headers and base64; stream table;
   connector; and of the example the backend, the network manager and the firmware
   update.
2. *Done:* the safety properties of `Rpc`, `H2`, `Backend`, `Tunnel`, `Ota`, `Network`,
   `Capnp`, `Framer` and of discovery, and the bounds of the name reader, proved for all
   values of the constants.
3. Next: that the lifecycle steps of `Tunnel` are steps of `Lifecycle`, so that its
   refinement of `Availability` carries over to the connector; `NamesRead`, by the
   induction lemmas that discovery and the framer use.
4. If the code calls for it: the allocation quota of `cf_json.c` and the login throttle
   of `monitor_api.c`.
