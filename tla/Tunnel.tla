------------------------------- MODULE Tunnel -------------------------------
(***************************************************************************)
(* The connector of esp_cf_tunnel.c: the owner task that runs the whole    *)
(* connection, the interface other tasks call on its handle, and the edge  *)
(* at the other end of the connection.  The lifecycle reducer and the RPC  *)
(* client are the operators of LifecycleOps and RpcOps.                    *)
(*                                                                         *)
(* The owner's loop body is split at the points where something else can   *)
(* happen in between (pc); frames of one read batch are delivered one by   *)
(* one.  Time is relative: a timer holds the ticks left, 0 means that      *)
(* now_ms() has reached it.                                                *)
(***************************************************************************)
EXTENDS LifecycleOps, RpcOps

CONSTANTS
    DnsMs, ConnectMs, RegisterMs,   \* 5000, 30000, 30000: phase deadlines
    ShutdownMs, StallMs,            \* 2000, 15001: graceful stop, stalled output
    MaxHint,                        \* UINT32_MAX: clamp of the server's delay
    Randoms,                        \* values of esp_random()
    Delays,                         \* delays of a registration rejection
    Versions,                       \* configuration versions
    MaxSaves                        \* bound: settings saved by the operator

ASSUME TunnelAssumption ==
    /\ {DnsMs, ConnectMs, RegisterMs, ShutdownMs, StallMs} \subseteq Nat \ {0}
    /\ MaxHint \in 0..MaxTime /\ Randoms \subseteq Nat /\ Delays \subseteq Int
    /\ Versions \subseteq Nat /\ MaxSaves \in Nat

NoStall == -1
NoConfig == -1

VARIABLES
    handle,    \* the handle: "none" before init and after deinit, "live", or
               \* where a call of start or deinit is that has passed its check
    task,      \* t->task is not NULL
    lock,      \* an owner that has cleared t->task still holds t->lock
    pc,        \* where the owner task is; "none" once it has cleared t->task
    request,   \* the flags stop and reload, written by other tasks
    life,      \* cf_lifecycle
    conn,      \* everything close_connection resets
    stopping,  \* a graceful stop is under way
    snapshot,  \* the published state
    saved,     \* version of the settings the operator has saved
    hist       \* history: see HistInit

apiVars == <<handle, task, lock, request, saved>>
vars == <<handle, task, lock, pc, request, life, conn, stopping, snapshot, saved, hist>>

\* The connection after close_connection: sockets and sessions gone, secrets,
\* queues and configuration wiped.
NoConnection ==
    [attempt |-> FALSE,       \* attempt_started
     dns |-> FALSE,           \* dns_socket >= 0
     stage |-> 0,             \* dns_stage
     tls |-> FALSE, h2 |-> FALSE,
     secret |-> FALSE,        \* credentials in memory
     rpc |-> RpcInit,
     queued |-> FALSE,        \* rpc_queue holds messages not yet pulled
     control |-> "none",      \* control stream: none, open, or reset and unsent
     deferred |-> FALSE,      \* nghttp2 stopped pulling the control stream
     config |-> "none",       \* configuration stream, likewise
     pending |-> FALSE,       \* config_pending
     reply |-> "none",        \* config_response and what the reply says
     remote |-> NoConfig,     \* version of the configuration in force
     app |-> FALSE,           \* an application request is in progress
     goawaySent |-> FALSE,
     fault |-> FALSE,
     stall |-> NoStall,       \* write_stalled_ms: ticks left
     deadline |-> 0,          \* deadline_ms and shutdown_ms: ticks left; not
     shutdown |-> 0]          \* reset by the code, but never read before set

\* used: settings version of the attempt; mark: settings version at the last
\* reload call; denied: credentials were refused for good; embargo: ticks
\* until the server allows another attempt.  The last two are about the RPC
\* session at hand: with a new control stream the code starts another one and
\* forgets what the edge answered in the old.
HistInit == [used |-> 0, mark |-> 0, denied |-> FALSE, embargo |-> 0]

Init == /\ handle = "none" /\ task = FALSE /\ lock = FALSE /\ pc = "none"
        /\ request = [stop |-> FALSE, reload |-> FALSE]
        /\ life = LifeInit /\ conn = NoConnection /\ stopping = FALSE
        /\ snapshot = "STOPPED" /\ saved = 0 /\ hist = HistInit

-----------------------------------------------------------------------------
(* The interface.  One task of the application at a time creates, starts and *)
(* frees the handle, as the callers do; any task may request a stop or a      *)
(* reload as long as the handle exists.  The owner runs in between.           *)

Create == /\ handle = "none"
          /\ handle' = "live"
          /\ UNCHANGED <<task, lock, pc, request, life, conn, stopping, snapshot, saved, hist>>

\* esp_cf_tunnel_start looks at t->task without the lock.
StartCheck ==
    /\ handle = "live" /\ ~task
    /\ handle' = "starting"
    /\ UNCHANGED <<task, lock, pc, request, life, conn, stopping, snapshot, saved, hist>>

\* The flags are cleared without the lock too: a request made since the check
\* is lost, one made from now on is not.
StartClear ==
    /\ handle = "starting"
    /\ handle' = "cleared"
    /\ request' = [stop |-> FALSE, reload |-> FALSE]
    /\ stopping' = FALSE
    /\ UNCHANGED <<task, lock, pc, life, conn, snapshot, saved, hist>>

\* xTaskCreate stores the handle of the task before the task can run.
StartCreate ==
    /\ handle = "cleared"
    /\ handle' = "live"
    /\ \/ task' = TRUE /\ pc' = "boot"
       \/ UNCHANGED <<task, pc>>            \* no memory for the task
    /\ UNCHANGED <<lock, request, life, conn, stopping, snapshot, saved, hist>>

Reload == /\ handle # "none" /\ ~lock
          /\ request' = [request EXCEPT !.reload = TRUE]
          /\ hist' = [hist EXCEPT !.mark = saved]
          /\ UNCHANGED <<handle, task, lock, pc, life, conn, stopping, snapshot, saved>>

Stop == /\ handle # "none" /\ ~lock
        /\ request' = [request EXCEPT !.stop = TRUE]
        /\ UNCHANGED <<handle, task, lock, pc, life, conn, stopping, snapshot, saved, hist>>

\* Mutant: t->task is read without the lock, as in esp_cf_tunnel_start.
DeinitUnlocked == ~task

DeinitAllowed == ~task /\ ~lock

\* esp_cf_tunnel_deinit looks at t->task in a critical section ...
DeinitCheck ==
    /\ handle = "live" /\ DeinitAllowed
    /\ handle' = "freeing"
    /\ UNCHANGED <<task, lock, pc, request, life, conn, stopping, snapshot, saved, hist>>

\* ... and closes, wipes and frees after it.
DeinitFree ==
    /\ handle = "freeing"
    /\ handle' = "none"
    /\ conn' = NoConnection /\ life' = LifeInit /\ stopping' = FALSE
    /\ request' = [stop |-> FALSE, reload |-> FALSE]
    /\ snapshot' = "STOPPED" /\ hist' = HistInit
    /\ UNCHANGED <<task, lock, pc, saved>>

\* The operator stores another token or hostname.
SaveSettings == /\ saved < MaxSaves
                /\ saved' = saved + 1
                /\ UNCHANGED <<handle, task, lock, pc, request, life, conn, stopping, snapshot, hist>>

-----------------------------------------------------------------------------
(* Failure of an attempt *)

MinOf(a, b) == IF a < b THEN a ELSE b

\* The hint of a rejection, cut to 32 bits.
Hint(c) == IF c.rpc.state = "REJECTED" THEN MinOf(c.rpc.retryAfter, MaxHint) ELSE 0

\* Mutant: the session is looked at after it has been reset.
PermanentReadLate(c) ==
    NoConnection.rpc.state = "REJECTED" /\ ~NoConnection.rpc.shouldRetry

Permanent(c) == c.rpc.state = "REJECTED" /\ ~c.rpc.shouldRetry

\* retry(): the lifecycle hears of the failure, then everything is closed.
Retry(c, l) ==
    /\ \/ Permanent(c) /\ life' = LifeTryAdvance(l, "AUTH_REJECTED")
       \/ /\ ~Permanent(c)
          /\ \E random \in Randoms :
               life' = IF RetryAllowed(l) THEN LifeRetry(l, 0, Hint(c), random) ELSE l
    /\ conn' = NoConnection
    /\ pc' = "end"

\* communicate() returned false: a graceful stop gives up instead.
Disconnected(c, l) ==
    \/ stopping /\ pc' = "exit" /\ conn' = c /\ life' = l
    \/ ~stopping /\ Retry(c, l)

-----------------------------------------------------------------------------
(* The owner task, outside the HTTP/2 session *)

Boot == /\ pc = "boot"
        /\ pc' = "top"
        /\ life' = IF StartAllowed(life) THEN LifeStart(life) ELSE life
        /\ UNCHANGED <<apiVars, conn, stopping, snapshot, hist>>

\* Mutant: the stream is not resumed.
EnqueueSilently(c) == [c EXCEPT !.queued = TRUE]

\* Messages for the control stream wake up a deferred one.
Enqueue(c) == [c EXCEPT !.queued = TRUE,
                        !.deferred = IF c.control = "open" THEN FALSE ELSE @]

\* Mutants: a reload spares an attempt, or credentials refused before.
ReloadingWhenIdle == request.reload /\ ~request.stop /\ ~conn.attempt
ReloadingUnlessDenied == request.reload /\ ~request.stop /\ life.state # "AUTH_FAILED"

\* A reload that arrives with a stop is dropped.
Reloading == request.reload /\ ~request.stop

\* The requests are taken in one critical section at the top of the loop.
TakeRequests ==
    /\ pc = "top" /\ ~lock
    /\ request' = [request EXCEPT !.reload = FALSE]
    /\ \/ /\ Reloading
          /\ conn' = NoConnection
          /\ life' = LifeStart(LifeStop(life))
          /\ stopping' = FALSE /\ pc' = "serve"
          /\ hist' = [hist EXCEPT !.denied = FALSE, !.embargo = 0]
       \/ /\ request.stop /\ ~stopping /\ conn.h2 /\ conn.rpc.state = "REGISTERED"
          /\ LET c == [conn EXCEPT !.shutdown = ShutdownMs] IN
             conn' = IF UnregisterAllowed(c.rpc)
                     THEN [Enqueue(c) EXCEPT !.rpc = RpcUnregister(@)] ELSE c
          /\ stopping' = TRUE
          /\ life' = [life EXCEPT !.state = "STOPPING"]
          /\ pc' = "serve" /\ UNCHANGED hist
       \/ /\ request.stop /\ ~stopping /\ ~(conn.h2 /\ conn.rpc.state = "REGISTERED")
          /\ pc' = "exit"
          /\ UNCHANGED <<life, conn, stopping, hist>>
       \/ /\ IF request.stop THEN stopping ELSE ~Reloading
          /\ pc' = "serve"
          /\ UNCHANGED <<life, conn, stopping, hist>>
    /\ UNCHANGED <<handle, task, lock, snapshot, saved>>

\* Mutant: the DNS socket is forgotten.
HasSocketsTlsOnly(c) == c.tls

HasSockets(c) == c.tls \/ c.dns

\* The environment callback may report anything in any iteration.
Environment(network, time) ==
    /\ pc = "serve"
    /\ \/ /\ stopping /\ (~network \/ ~time)
          /\ pc' = "exit" /\ UNCHANGED <<life, conn>>
       \/ /\ ~stopping \/ (network /\ time)
          /\ pc' = "work"
          /\ conn' = IF (~network \/ ~time) /\ HasSockets(conn)
                     THEN NoConnection ELSE conn
          /\ life' = LifeTick(LifeEnvironment(life, network, time), 0)
    /\ UNCHANGED <<apiVars, stopping, snapshot, hist>>

\* discover() without an attempt: the JSON lock is taken or the settings are
\* incomplete.
NoAttempt ==
    /\ pc = "work" /\ life.state = "DISCOVERY" /\ ~conn.attempt
    /\ pc' = "end"
    /\ conn' = [conn EXCEPT !.secret = FALSE]
    /\ UNCHANGED <<apiVars, life, stopping, snapshot, hist>>

BeginAttempt ==
    /\ pc = "work" /\ life.state = "DISCOVERY" /\ ~conn.attempt
    /\ hist' = [hist EXCEPT !.used = saved]
    /\ LET c == [conn EXCEPT !.attempt = TRUE, !.secret = TRUE, !.stage = 0] IN
       \/ /\ conn' = [c EXCEPT !.dns = TRUE, !.deadline = DnsMs]
          /\ UNCHANGED <<pc, life>>            \* and polls the answer at once
       \/ Retry(c, life)                       \* no memory, no socket
    /\ UNCHANGED <<apiVars, stopping, snapshot>>

\* One poll of the DNS socket: nothing yet, a usable answer, or a failure.
DnsPoll ==
    /\ pc = "work" /\ life.state = "DISCOVERY" /\ conn.attempt
    /\ \/ /\ conn.deadline > 0
          /\ pc' = "end" /\ UNCHANGED <<life, conn>>
       \/ /\ conn.stage = 0                    \* SRV answer, A query sent
          /\ conn' = [conn EXCEPT !.stage = 1, !.deadline = DnsMs]
          /\ pc' = "end" /\ UNCHANGED life
       \/ /\ conn.stage = 1                    \* address found
          /\ conn' = [conn EXCEPT !.dns = FALSE, !.tls = TRUE, !.deadline = ConnectMs]
          /\ life' = LifeTryAdvance(life, "DISCOVERED")
          /\ pc' = "end"
       \/ Retry(conn, life)                    \* timeout, bad answer, no memory
    /\ UNCHANGED <<apiVars, stopping, snapshot, hist>>

\* One step of the asynchronous connect: the TCP connection may be up, the
\* handshake may be complete.
ConnectPoll(handshake) ==
    /\ pc = "work" /\ life.state \in {"CONNECT", "TLS"}
    /\ LET l == IF handshake /\ life.state = "CONNECT"
                THEN LifeTryAdvance(life, "CONNECTED") ELSE life
       IN
       \/ /\ conn.deadline > 0
          /\ life' = l /\ pc' = "end" /\ UNCHANGED conn
       \/ /\ handshake                         \* TLS verified, session created
          /\ conn' = [conn EXCEPT !.h2 = TRUE, !.deadline = RegisterMs]
          /\ life' = LifeTryAdvance(l, "TLS_READY")
          /\ pc' = "end"
       \/ Retry(conn, l)                       \* error, deadline, no memory
    /\ UNCHANGED <<apiVars, stopping, snapshot, hist>>

\* Nothing to do in this state, or the session has something to read.
Idle == /\ pc = "work" /\ life.state \notin {"DISCOVERY", "CONNECT", "TLS"}
        /\ \/ conn.h2 /\ pc' = "read"
           \/ ~conn.h2 /\ pc' = "end"
        /\ UNCHANGED <<apiVars, life, conn, stopping, snapshot, hist>>

\* Mutant: only the edge can end a graceful stop.
DrainedByEdge == conn.goawaySent /\ conn.control = "none"

Drained == conn.shutdown = 0 \/ (conn.goawaySent /\ conn.control = "none")

\* End of an iteration: a graceful stop is over, or the state is published.
EndIteration ==
    /\ pc = "end" /\ ~lock
    /\ \/ /\ stopping /\ Drained
          /\ pc' = "exit" /\ UNCHANGED snapshot
       \/ /\ ~(stopping /\ Drained)
          /\ pc' = "top" /\ snapshot' = life.state
    /\ UNCHANGED <<apiVars, life, conn, stopping, hist>>

Exit == /\ pc = "exit" /\ ~lock
        /\ conn' = NoConnection /\ life' = LifeStop(life)
        /\ snapshot' = "STOPPED"
        /\ pc' = "exited"
        /\ hist' = [hist EXCEPT !.denied = FALSE, !.embargo = 0]
        /\ UNCHANGED <<apiVars, stopping>>

\* The last critical section of the owner: it clears t->task ...
TaskEnds == /\ pc = "exited" /\ ~lock
            /\ pc' = "none" /\ task' = FALSE /\ lock' = TRUE
            /\ UNCHANGED <<handle, request, life, conn, stopping, snapshot, saved, hist>>

\* ... and releases the lock, its last access to the handle.  A start that has
\* seen t->task cleared may have created the next owner meanwhile.
TaskUnlocks == /\ lock
               /\ lock' = FALSE
               /\ UNCHANGED <<handle, task, pc, request, life, conn, stopping, snapshot,
                              saved, hist>>

-----------------------------------------------------------------------------
(* communicate(): the frames of one read batch *)

Reading == pc = "read" /\ conn.stall = NoStall

\* Completes an action that handles one frame.
Frame == UNCHANGED <<apiVars, pc, stopping, snapshot>>

\* The edge opens a control stream: the RPC session starts afresh.
OpenControl(respondOk) ==
    /\ Reading /\ Frame
    /\ conn.control = "none" /\ ~stopping
    /\ conn' = [Enqueue(conn) EXCEPT
                  !.control = IF respondOk THEN "open" ELSE "reset",
                  !.deferred = FALSE, !.rpc = RpcBegin(RpcInit), !.deadline = RegisterMs]
    /\ life' = IF life.state = "HTTP2" THEN LifeTryAdvance(life, "HTTP2_READY") ELSE life
    /\ hist' = [hist EXCEPT !.denied = FALSE, !.embargo = 0]

Broken(c) == [c EXCEPT !.fault = TRUE, !.control = "reset"]

\* Mutant: the credentials stay in memory once they have been sent.
RegisterKeepsSecret(c) ==
    IF RegisterAllowed(c.rpc) /\ c.secret
    THEN [Enqueue(c) EXCEPT !.rpc = RpcRegister(@)] ELSE Broken(c)

\* The bootstrap is answered: the credentials are sent and wiped.
Register(c) ==
    IF RegisterAllowed(c.rpc) /\ c.secret
    THEN [Enqueue(c) EXCEPT !.rpc = RpcRegister(@), !.secret = FALSE]
    ELSE [Broken(c) EXCEPT !.secret = FALSE]

\* A Return of the peer and what rpc_message makes of it.
ControlFrame(f) ==
    LET result == RpcReceive(conn.rpc, f)
        d == [conn EXCEPT !.rpc = result.rpc]
        c == IF result.out = <<>> THEN d ELSE Enqueue(d)
    IN
    /\ Reading /\ Frame
    /\ conn.control = "open"
    /\ \/ /\ ~result.ok                        \* refused: the stream is reset
          /\ conn' = Broken(c)
          /\ UNCHANGED <<life, hist>>
       \/ /\ result.ok /\ c.rpc.state = "READY"
          /\ conn' = Register(c)
          /\ UNCHANGED <<life, hist>>
       \/ /\ result.ok /\ c.rpc.state = "REGISTERED"
          /\ conn' = [c EXCEPT !.deadline = RegisterMs]
          /\ life' = LifeTryAdvance(life, "REGISTERED")
          /\ UNCHANGED hist
       \/ /\ result.ok /\ c.rpc.state = "REJECTED"
          /\ conn' = [c EXCEPT !.fault = TRUE]
          /\ hist' = [hist EXCEPT !.denied = ~f.retry,
                                  !.embargo = MinOf(RetryAfterMs(f.delay), MaxHint)]
          /\ UNCHANGED life
       \/ /\ result.ok /\ c.rpc.state = "CLOSED"
          /\ conn' = c
          /\ UNCHANGED <<life, hist>>

\* Bytes that are no Cap'n Proto frame, or the end of the stream before the
\* session is closed.
ControlBroken ==
    /\ Reading /\ Frame
    /\ conn.control = "open"
    /\ conn' = Broken(conn)
    /\ UNCHANGED <<life, hist>>

\* Mutant: the end of the control stream goes unnoticed.
ControlClosedUnnoticed(c) == [c EXCEPT !.control = "none", !.deferred = FALSE]

ControlClosed(c) ==
    [c EXCEPT !.control = "none", !.deferred = FALSE,
              !.fault = @ \/ ~stopping \/ c.rpc.state # "CLOSED"]

ConfigClosed(c) ==
    [c EXCEPT !.config = "none", !.pending = FALSE, !.reply = "none"]

\* The edge closes a stream.
CloseStream ==
    /\ Reading /\ Frame
    /\ \/ conn.control # "none" /\ conn' = ControlClosed(conn)
       \/ conn.config # "none" /\ conn' = ConfigClosed(conn)
       \/ conn.app /\ conn' = [conn EXCEPT !.app = FALSE]
    /\ UNCHANGED <<life, hist>>

OpenConfig ==
    /\ Reading /\ Frame
    /\ conn.config = "none" /\ ~stopping
    /\ conn' = [conn EXCEPT !.config = "open", !.pending = FALSE, !.reply = "none"]
    /\ UNCHANGED <<life, hist>>

\* The update is complete, or larger than the buffer.
ConfigData(fits) ==
    /\ Reading /\ Frame
    /\ conn.config = "open" /\ ~conn.pending /\ conn.reply = "none"
    /\ conn' = IF fits THEN [conn EXCEPT !.pending = TRUE]
               ELSE [conn EXCEPT !.config = "reset"]
    /\ UNCHANGED <<life, hist>>

AppAdmitted == ~stopping /\ life.state = "ONLINE"

\* A request for the configured hostname reaches the application only online.
OpenApp ==
    /\ Reading /\ Frame
    /\ ~conn.app /\ AppAdmitted
    /\ conn' = [conn EXCEPT !.app = TRUE]
    /\ UNCHANGED <<life, hist>>

\* stats.peer_settings is looked at after the batch; nothing in between
\* depends on the step it causes.
Settings ==
    /\ Reading /\ Frame
    /\ life' = IF life.state = "HTTP2" THEN LifeTryAdvance(life, "HTTP2_READY") ELSE life
    /\ UNCHANGED <<conn, hist>>

ReadEnds == /\ pc = "read"
            /\ pc' = "post"
            /\ UNCHANGED <<apiVars, life, conn, stopping, snapshot, hist>>

\* The connection ended, or the peer broke HTTP/2 or a memory limit.
ReadFails == /\ pc = "read" /\ conn.stall = NoStall
             /\ Disconnected(conn, life)
             /\ UNCHANGED <<apiVars, stopping, snapshot, hist>>

-----------------------------------------------------------------------------
(* communicate(): after the batch *)

\* Mutant: the version is not compared.
ConfigApplyAny(remote, update) == IF update # NoConfig THEN update ELSE remote

\* A valid update is taken only if it is newer; an invalid one, here NoConfig,
\* changes nothing.
ConfigApply(remote, update) == IF update > remote THEN update ELSE remote

\* Mutant: the last messages may still be queued.
FarewellEarly(c) == stopping /\ c.rpc.state = "CLOSED" /\ ~c.goawaySent

\* The GOAWAY of a graceful stop waits for the end of the RPC session.
Farewell(c) == stopping /\ c.rpc.state = "CLOSED" /\ ~c.queued /\ ~c.goawaySent

\* cf_h2_tick may find the configuration stream idle.
AfterApply(c, idle) ==
    LET t == IF idle /\ c.config = "open" THEN [c EXCEPT !.config = "reset"] ELSE c IN
    IF Farewell(t)
    THEN [t EXCEPT !.goawaySent = TRUE] ELSE t

\* The batch ended the connection: something in it went wrong, or it held a
\* GOAWAY, which any batch can and which a graceful stop ignores.
PostEnded == /\ pc = "post"
             /\ conn.fault \/ ~stopping
             /\ Disconnected(conn, life)
             /\ UNCHANGED <<apiVars, stopping, snapshot, hist>>

\* No update is waiting, or the JSON lock is taken.
PostIdle(idle) ==
    /\ pc = "post" /\ ~conn.fault
    /\ pc' = "write"
    /\ conn' = AfterApply(conn, idle)
    /\ UNCHANGED <<apiVars, life, stopping, snapshot, hist>>

PostApply(update, respondOk, idle) ==
    /\ pc = "post" /\ ~conn.fault /\ conn.pending
    /\ pc' = "write"
    /\ conn' = AfterApply(
         [conn EXCEPT !.remote = ConfigApply(@, update),
                      !.reply = IF update # NoConfig THEN "applied" ELSE "rejected",
                      !.pending = FALSE,
                      !.fault = conn.config = "reset" \/ ~respondOk], idle)
    /\ life' = LifeTryAdvance(life, IF update # NoConfig THEN "CONFIG_APPLIED"
                                  ELSE "CONFIG_REJECTED")
    /\ UNCHANGED <<apiVars, stopping, snapshot, hist>>

\* One piece of output is pulled from nghttp2 and written.
WriteOutput ==
    /\ pc = "write"
    /\ LET c == [conn EXCEPT !.stall = NoStall] IN
       \/ /\ c.control = "open" /\ ~c.deferred /\ c.queued
          /\ conn' = [c EXCEPT !.queued = FALSE]
       \/ /\ c.control = "open" /\ ~c.deferred /\ ~c.queued /\ c.rpc.state # "CLOSED"
          /\ conn' = [c EXCEPT !.deferred = TRUE]
       \/ c.control = "reset" /\ conn' = ControlClosed(c)
       \/ c.config = "reset" /\ conn' = ConfigClosed(c)
       \/ c.config = "open" /\ c.reply # "none" /\ conn' = ConfigClosed(c)
       \/ c.app /\ conn' = [c EXCEPT !.app = FALSE]
       \/ conn.stall # NoStall /\ conn' = c
    /\ UNCHANGED <<apiVars, pc, life, stopping, snapshot, hist>>

\* Mutant: a registered connection may wait for a configuration for ever.
TooLateUnregistered == conn.deadline = 0 /\ ~life.registered

\* The two deadlines of a connection that is not serving yet.
TooLate == /\ conn.deadline = 0
           /\ ~life.registered \/ life.state = "WAIT_CONFIG"

WriteEnds == /\ pc = "write" /\ conn.stall = NoStall
             /\ \/ TooLate /\ Disconnected(conn, life)
                \/ ~TooLate /\ pc' = "end" /\ UNCHANGED <<life, conn>>
             /\ UNCHANGED <<apiVars, stopping, snapshot, hist>>

\* The socket takes no more: the output is retried until it stalled too long.
WriteStalls ==
    /\ pc = "write"
    /\ LET c == [conn EXCEPT !.stall = IF @ = NoStall THEN StallMs ELSE @] IN
       \/ (c.stall = 0 \/ TooLate) /\ Disconnected(c, life)
       \/ c.stall > 0 /\ ~TooLate /\ pc' = "end" /\ conn' = c /\ UNCHANGED life
    /\ UNCHANGED <<apiVars, stopping, snapshot, hist>>

WriteFails == /\ pc = "write"
              /\ Disconnected(conn, life)
              /\ UNCHANGED <<apiVars, stopping, snapshot, hist>>

-----------------------------------------------------------------------------
\* One tick of the clock.  The owner compares a timer with the clock in the
\* steps that start here; a tick anywhere else has the effect of a tick at the
\* next of them.
ClockRead == {"serve", "work", "write", "end"}

Left(t) == IF t > 0 THEN t - 1 ELSE t

Elapse == /\ pc \in ClockRead
          /\ life' = [life EXCEPT !.retryAt = Left(@)]
          /\ conn' = [conn EXCEPT !.deadline = Left(@), !.shutdown = Left(@),
                                  !.stall = Left(@)]
          /\ hist' = [hist EXCEPT !.embargo = Left(@)]
          /\ UNCHANGED <<apiVars, pc, stopping, snapshot>>

Api == \/ Create \/ StartCheck \/ StartClear \/ StartCreate \/ Reload \/ Stop
       \/ DeinitCheck \/ DeinitFree \/ SaveSettings

ReadFrame == \/ \E ok \in BOOLEAN : OpenControl(ok)
             \/ \E f \in Frames(Delays) : ControlFrame(f)
             \/ ControlBroken
             \/ CloseStream
             \/ OpenConfig
             \/ \E fits \in BOOLEAN : ConfigData(fits)
             \/ OpenApp
             \/ Settings

Owner == \/ Boot \/ TakeRequests
         \/ \E network, time \in BOOLEAN : Environment(network, time)
         \/ NoAttempt \/ BeginAttempt \/ DnsPoll
         \/ \E handshake \in BOOLEAN : ConnectPoll(handshake)
         \/ Idle \/ ReadFrame \/ ReadEnds \/ ReadFails
         \/ PostEnded
         \/ \E idle \in BOOLEAN : PostIdle(idle)
         \/ \E update \in Versions \cup {NoConfig}, ok, idle \in BOOLEAN :
              PostApply(update, ok, idle)
         \/ WriteOutput \/ WriteEnds \/ WriteStalls \/ WriteFails
         \/ EndIteration \/ Exit \/ TaskEnds \/ TaskUnlocks

Next == Api \/ Owner \/ Elapse

Spec == Init /\ [][Next]_vars

\* The scheduler runs the owner task, a read batch is bounded (eight reads)
\* and the clock does not stop.
FairSpec == Spec /\ WF_vars(Owner) /\ WF_vars(ReadEnds) /\ SF_vars(Elapse)

-----------------------------------------------------------------------------
(* Properties *)

\* Every field keeps its type; timers stay within the delays they start with.
TypeOK ==
    /\ handle \in {"none", "live", "starting", "cleared", "freeing"}
    /\ task \in BOOLEAN /\ lock \in BOOLEAN /\ life \in LifeRecord
    /\ pc \in {"none", "boot", "top", "serve", "work", "read", "post", "write",
               "end", "exit", "exited"}
    /\ request \in [stop : BOOLEAN, reload : BOOLEAN] /\ stopping \in BOOLEAN
    /\ conn.deadline \in Nat /\ conn.shutdown \in 0..ShutdownMs
    /\ snapshot \in States /\ saved \in 0..MaxSaves
    /\ conn.rpc \in RpcRecord /\ conn.queued \in BOOLEAN
    /\ conn.control \in {"none", "open", "reset"} /\ conn.config \in {"none", "open", "reset"}
    /\ conn.remote \in Versions \cup {NoConfig} /\ conn.stall \in NoStall..StallMs
    /\ hist.embargo \in 0..MaxHint /\ hist.used \in 0..MaxSaves /\ hist.mark \in 0..MaxSaves

SessionStates == {"HTTP2", "STOPPING"} \cup Negotiated

\* The owner frees on every path exactly what it acquired: between two
\* iterations a lifecycle state says which of the DNS socket, the TLS context
\* and the HTTP/2 session exist, whatever failed, flapped or was reloaded.
ResourcesMatchState ==
    pc = "top" =>
      /\ conn.h2 <=> life.state \in SessionStates
      /\ conn.tls <=> life.state \in SessionStates \cup {"CONNECT", "TLS"}
      /\ conn.dns <=> life.state = "DISCOVERY" /\ conn.attempt
      /\ conn.attempt <=> conn.dns \/ conn.tls

\* The connector calls itself online only while a session is open on which
\* the edge has accepted the registration and a configuration is in force; an
\* application request is in progress only on a session that is online or
\* draining: none outlives its connection, and nothing the edge sends meanwhile
\* takes the connector offline under it.
OnlineIsGenuine ==
    /\ life.state = "ONLINE" /\ ~conn.fault =>
         /\ conn.h2 /\ conn.control = "open"
         /\ conn.rpc.state = "REGISTERED" /\ conn.remote # NoConfig
    /\ conn.app =>
         conn.h2 /\ conn.remote # NoConfig /\ life.state \in {"ONLINE", "STOPPING"}

\* Credentials are in memory only from the start of an attempt until the
\* registration is written to the queue or the attempt fails; no queued
\* message survives the connection.
SecretsWiped ==
    /\ conn.secret \/ conn.queued => conn.attempt
    /\ conn.rpc.state \in {"REGISTERING", "REGISTERED", "UNREGISTERING"} => ~conn.secret
    /\ pc \in {"none", "boot", "exited"} \/ (pc = "top" /\ life.state \in
         {"WAIT_NETWORK", "WAIT_TIME", "BACKOFF", "AUTH_FAILED"}) =>
           ~conn.secret /\ ~conn.queued

\* Once the edge has refused the credentials for good the owner's next
\* iteration finds the lifecycle in AUTH_FAILED, whichever of the failures
\* that follow the refusal (a reset, an end of stream, a GOAWAY, a read error)
\* ends the connection.
PermanentRejectionFinal == pc = "top" /\ hist.denied => life.state = "AUTH_FAILED"

\* The delay of a retryable rejection survives network flaps and whatever
\* ended the connection: no new attempt starts before it is over.
ServerDelayHonoured ==
    life.state \in {"DISCOVERY", "CONNECT", "TLS", "HTTP2"} => hist.embargo = 0

\* Once a reload has been taken no attempt goes on with the settings that were
\* saved before it, unless a stop is already ending the connection.
ReloadTakesEffect ==
    ~request.reload /\ ~request.stop /\ conn.attempt => hist.used >= hist.mark

\* A queued RPC message is never left behind on a stream that nghttp2 has
\* stopped pulling.
NoLostWakeup == conn.queued /\ conn.control = "open" => ~conn.deferred

\* The GOAWAY of a graceful stop follows the unregistration, its Finish and
\* the Release: nothing is still queued when it is sent.
GoawayAfterGoodbye ==
    conn.goawaySent => stopping /\ conn.rpc.state = "CLOSED" /\ ~conn.queued

\* One owner at a time, and none on a freed handle, although start and deinit
\* use what they have checked only later: from the check of start on no owner
\* runs, and the one it creates finds everything closed and no drain under way;
\* from the check of deinit on the last owner has left the lock as well, its
\* last access to the memory, and there is nothing to close.
OwnerGoneBeforeReuse ==
    /\ handle \in {"starting", "cleared", "freeing", "none"} => pc = "none"
    /\ handle \in {"freeing", "none"} => ~lock
    /\ handle # "live" \/ pc = "boot" =>
         conn = NoConnection /\ life.state = "STOPPED" /\ snapshot = "STOPPED"
    /\ pc = "boot" => ~stopping

\* Within one connection the configuration in force never goes back to an
\* older version and is never lost, whatever the edge sends later.
ConfigNeverRegresses ==
    [][conn.h2 /\ conn'.h2 => conn'.remote >= conn.remote]_vars

\* A stop request ends the owner task, whatever the edge and the network do.
StopCompletes == request.stop /\ pc # "none" ~> pc = "none"

Connecting == \/ life.state = "DISCOVERY" /\ conn.attempt
              \/ life.state \in {"CONNECT", "TLS", "HTTP2", "REGISTERING", "WAIT_CONFIG"}
              \/ life.state = "CONFIG_FAILED" /\ ~life.registered

\* No phase of an attempt lasts for ever: each is bounded by its deadline.
AttemptEnds == Connecting ~> ~Connecting

\* A reload is how the operator leaves AUTH_FAILED.
ReloadRevives == request.reload /\ life.state = "AUTH_FAILED" ~> life.state # "AUTH_FAILED"

\* docs/compatibility.md: after a rejected configuration the lifecycle rejects
\* application traffic until a valid one is applied.
RejectedConfigStopsTraffic == conn.reply = "rejected" => life.state # "ONLINE"
=============================================================================
