----------------------------- MODULE TunnelProofs -----------------------------
(***************************************************************************)
(* Proofs about the connector: the owner task, the interface other tasks   *)
(* call, and the edge, for every retry policy, deadline, set of delays and *)
(* set of configuration versions.                                          *)
(***************************************************************************)
EXTENDS Tunnel, LifecycleOpsProofs

Flags == {"none", "open", "reset"}

ConnRecord ==
    [attempt : BOOLEAN, dns : BOOLEAN, stage : {0, 1}, tls : BOOLEAN, h2 : BOOLEAN,
     secret : BOOLEAN, rpc : RpcRecord, queued : BOOLEAN, control : Flags,
     deferred : BOOLEAN, config : Flags, pending : BOOLEAN,
     reply : {"none", "applied", "rejected"}, remote : Versions \cup {NoConfig},
     app : BOOLEAN, goawaySent : BOOLEAN, fault : BOOLEAN,
     stall : NoStall..StallMs, deadline : Nat, shutdown : 0..ShutdownMs]

HistRecord == [used : 0..MaxSaves, mark : 0..MaxSaves, denied : BOOLEAN,
               embargo : 0..MaxHint]

\* The types of TypeOK, for every field of the connection.
Types ==
    /\ handle \in {"none", "live", "starting", "cleared", "freeing"}
    /\ task \in BOOLEAN /\ lock \in BOOLEAN /\ life \in LifeRecord
    /\ pc \in {"none", "boot", "top", "serve", "work", "read", "post", "write",
               "end", "exit", "exited"}
    /\ request \in [stop : BOOLEAN, reload : BOOLEAN] /\ stopping \in BOOLEAN
    /\ conn \in ConnRecord /\ hist \in HistRecord
    /\ snapshot \in States /\ saved \in 0..MaxSaves

\* Outside the owner's loop there is nothing to clean up; t->task tells whether
\* an owner runs, so what start and deinit have checked still holds when they
\* use it.
Quiet ==
    /\ task <=> pc # "none"
    /\ handle # "live" => pc = "none"
    /\ handle \in {"freeing", "none"} => ~lock
    /\ handle = "cleared" => ~stopping
    /\ pc \in {"none", "boot", "exited"} =>
         conn = NoConnection /\ life.state = "STOPPED" /\ snapshot = "STOPPED"
    /\ pc = "boot" => ~stopping

\* ResourcesMatchState at every step of the owner, not only between two
\* iterations; the HTTP/2 code runs on a session.
Resources ==
    /\ conn.h2 <=> life.state \in SessionStates
    /\ conn.tls <=> life.state \in SessionStates \cup {"CONNECT", "TLS"}
    /\ conn.dns <=> life.state = "DISCOVERY" /\ conn.attempt
    /\ conn.attempt <=> conn.dns \/ conn.tls
    /\ pc \in {"read", "post", "write"} => conn.h2

\* An attempt has network and clock; a graceful stop has the state STOPPING
\* until the owner is gone.
Ready ==
    /\ life.state \in {"DISCOVERY", "CONNECT", "TLS", "HTTP2"} \cup Negotiated =>
         life.network /\ life.time
    /\ life.state = "STOPPING" <=> stopping /\ pc \notin {"exited", "none"}

\* An RPC session needs a negotiated connection, and one that is stopping has
\* been registered.
Session ==
    /\ conn.rpc.state # "IDLE" => life.state \in Negotiated \cup {"STOPPING"}
    /\ life.state = "STOPPING" =>
         conn.rpc.state \in {"REGISTERED", "UNREGISTERING", "CLOSED", "FAILED"}

\* What the two flags of the lifecycle stand for, on a connection in which
\* nothing has gone wrong.
Standing ==
    /\ life.registered =>
         life.state \in {"WAIT_CONFIG", "ONLINE", "CONFIG_FAILED", "STOPPING"}
    /\ life.registered /\ ~conn.fault /\ life.state # "STOPPING" =>
         conn.control = "open" /\ conn.rpc.state = "REGISTERED"
    /\ life.configured => conn.remote # NoConfig
    /\ life.state = "ONLINE" => life.registered /\ life.configured
    /\ conn.app =>
         conn.remote # NoConfig /\ life.state \in {"ONLINE", "STOPPING"}

\* Credentials and messages belong to an attempt.
Secrets ==
    /\ conn.secret \/ conn.queued => conn.attempt
    /\ conn.rpc.state \in {"REGISTERING", "REGISTERED", "UNREGISTERING"} => ~conn.secret

\* The edge has refused and the owner has not heard of it yet.
Refused == pc \in {"read", "post"} /\ conn.rpc.state = "REJECTED" /\ conn.fault

\* A refusal is kept: by the RPC session until the batch is over, then by the
\* lifecycle.
Refusal ==
    /\ hist.denied =>
         \/ life.state = "AUTH_FAILED"
         \/ Refused /\ ~conn.rpc.shouldRetry
    /\ hist.embargo > 0 =>
         \/ life.state = "AUTH_FAILED"
         \/ life.state = "BACKOFF" /\ life.retryAt >= hist.embargo
         \/ Refused /\ Hint(conn) >= hist.embargo

\* An attempt is as new as the last reload, or a reload or stop is due.
Fresh == /\ hist.mark <= saved
         /\ ReloadTakesEffect

\* The inductive invariant.
IInv == /\ Types /\ Quiet /\ Resources /\ Ready /\ Session /\ Standing
        /\ Secrets /\ Refusal /\ Fresh /\ NoLostWakeup /\ GoawayAfterGoodbye

-----------------------------------------------------------------------------
\* The record that close_connection leaves is a connection record.
LEMMA Closed == NoConnection \in ConnRecord /\ RpcInit \in RpcRecord
<1>1. RpcInit \in RpcRecord  BY DEF RpcInit, RpcRecord, RpcStates
<1>2. NoStall \in NoStall..StallMs /\ 0 \in 0..ShutdownMs
  BY TunnelAssumption DEF NoStall
<1> QED  BY <1>1, <1>2 DEF NoConnection, ConnRecord, Flags

\* The delay of a rejection is a natural number of milliseconds, cut to the
\* hint's width.
LEMMA DelayNat ==
    ASSUME NEW ns \in Int
    PROVE  /\ RetryAfterMs(ns) \in Nat
           /\ MinOf(RetryAfterMs(ns), MaxHint) \in 0..MaxHint
<1>1. CASE ns < 0
  BY <1>1, TunnelAssumption, RetryAssumption DEF RetryAfterMs, MinOf
<1>2. CASE ns >= 0
  <2> DEFINE q == ns \div NsPerMs
  <2>1. q \in Int /\ q >= 0  BY <1>2, NsAssumption
  <2>2. RetryAfterMs(ns) = q \/ RetryAfterMs(ns) = q + 1
    <3>1. RetryAfterMs(ns) = q + (IF ns % NsPerMs # 0 THEN 1 ELSE 0)
      BY <1>2 DEF RetryAfterMs
    <3> HIDE DEF q
    <3> QED  BY <2>1, <3>1
  <2> HIDE DEF q
  <2>3. RetryAfterMs(ns) \in Nat  BY <2>1, <2>2
  <2> QED  BY <2>3, TunnelAssumption, RetryAssumption DEF MinOf
<1> QED  BY <1>1, <1>2

\* The hint that a failed attempt hands to the lifecycle is in range.
LEMMA HintRange ==
    ASSUME NEW c, c.rpc \in RpcRecord
    PROVE  Hint(c) \in 0..MaxHint /\ Hint(c) \in 0..MaxTime
<1>1. MaxHint \in Nat /\ MaxTime \in Nat /\ MaxHint <= MaxTime
  BY TunnelAssumption, RetryAssumption
<1>2. c.rpc.retryAfter \in Nat  BY DEF RpcRecord
<1> QED  BY <1>1, <1>2 DEF Hint, MinOf

\* What cf_rpc_receive can do: refuse the frame, fail the session, or accept
\* the answer to the question that is outstanding.
LEMMA ReceiveEffect ==
    ASSUME NEW r \in RpcRecord, NEW f \in Frames(Delays)
    PROVE  LET g == RpcReceive(r, f) IN
           /\ g.rpc \in RpcRecord
           /\ ~g.ok => \/ g.rpc = r /\ r.state \in Deaf /\ g.out = <<>>
                       \/ g.rpc.state = "FAILED" /\ r.state \notin Deaf
           /\ g.ok => \/ r.state = "BOOTSTRAPPING" /\ g.rpc.state = "READY"
                      \/ r.state = "REGISTERING" /\ g.rpc.state = "REGISTERED"
                      \/ /\ r.state = "REGISTERING" /\ g.rpc.state = "REJECTED"
                         /\ f.retry \in BOOLEAN /\ f.delay \in Int
                         /\ g.rpc.shouldRetry = f.retry
                         /\ g.rpc.retryAfter = RetryAfterMs(f.delay)
                      \/ r.state = "UNREGISTERING" /\ g.rpc.state = "CLOSED"
<1> DEFINE g == RpcReceive(r, f)
<1>1. CASE r.state \in Deaf  BY <1>1 DEF RpcReceive
<1>2. CASE r.state \notin Deaf /\ \E out : g = Failed(r, out)
  BY <1>2 DEF Failed, RpcRecord, RpcStates
<1>3. CASE /\ r.state \notin Deaf /\ f.kind = "return" /\ g = RpcResult(r, f)
           /\ ~\E out : g = Failed(r, out)
  <2>1. CASE r.state = "BOOTSTRAPPING" /\ f.result = "capability"
    <3>1. g.rpc = [r EXCEPT !.state = "READY", !.haveCapability = TRUE] /\ g.ok
      BY <1>3, <2>1 DEF RpcResult
    <3> QED  BY <2>1, <3>1 DEF RpcRecord, RpcStates
  <2>2. CASE r.state = "REGISTERING" /\ f.result = "rejection"
    <3>1. f.retry \in BOOLEAN /\ f.delay \in Int
      BY <1>3, <2>2, TunnelAssumption DEF Frames, Results
    <3>2. RetryAfterMs(f.delay) \in Nat  BY <3>1, DelayNat
    <3>3. /\ g.rpc = [r EXCEPT !.state = "REJECTED", !.shouldRetry = f.retry,
                               !.retryAfter = RetryAfterMs(f.delay)]
          /\ g.ok
      BY <1>3, <2>2 DEF RpcResult
    <3> QED  BY <2>2, <3>1, <3>2, <3>3 DEF RpcRecord, RpcStates
  <2>3. CASE r.state = "REGISTERING" /\ f.result = "success"
    BY <1>3, <2>3 DEF RpcResult, RpcRecord, RpcStates
  <2>4. CASE r.state = "UNREGISTERING" /\ f.result \notin {"capability", "unsupported"}
    <3>1. g.rpc = [r EXCEPT !.state = "CLOSED", !.haveCapability = FALSE] /\ g.ok
      BY <1>3, <2>4 DEF RpcResult
    <3> QED  BY <2>4, <3>1 DEF RpcRecord, RpcStates
  <2> QED  BY <1>3, <2>1, <2>2, <2>3, <2>4 DEF RpcResult
<1> QED  BY <1>1, <1>2, <1>3 DEF RpcReceive

\* Every failure that ends an attempt goes through retry(): everything is
\* closed, and the lifecycle keeps what the edge asked for.
LEMMA RetryInv ==
    ASSUME IInv, NEW c, NEW l \in LifeRecord, Retry(c, l), c.rpc = conn.rpc,
           life.state \in {"DISCOVERY", "CONNECT", "TLS", "HTTP2"} \cup Negotiated,
           l.state \in {"DISCOVERY", "CONNECT", "TLS", "HTTP2"} \cup Negotiated,
           conn.rpc.state # "IDLE" => l.state \in Negotiated,
           l.network, l.time, ~stopping, pc \notin {"none", "boot", "exited"},
           UNCHANGED <<apiVars, stopping, snapshot>>,
           hist' \in HistRecord, hist'.mark = hist.mark,
           hist'.denied = hist.denied, hist'.embargo = hist.embargo
    PROVE  IInv'
<1>0. /\ conn' = NoConnection /\ pc' = "end" /\ conn \in ConnRecord /\ hist \in HistRecord
      /\ conn.rpc \in RpcRecord
  BY DEF Retry, IInv, Types, ConnRecord
<1>1. /\ life' \in LifeRecord /\ ~life'.registered /\ ~life'.configured
      /\ \/ life'.state = "AUTH_FAILED"
         \/ /\ life'.state = "BACKOFF" /\ ~Permanent(conn)
            /\ life'.retryAt >= Hint(conn)
  <2>1. CASE Permanent(c)
    <3>1. life' = LifeTryAdvance(l, "AUTH_REJECTED")  BY <2>1 DEF Retry
    <3>2. l.state \in Negotiated  BY <2>1 DEF Permanent
    <3>3. AdvanceAllowed(l, "AUTH_REJECTED")
      BY <3>2 DEF AdvanceAllowed, AdvanceFrom, Terminal, Negotiated
    <3>4. life' \in LifeRecord  BY <3>1, LifeTypes DEF Events
    <3> QED  BY <3>1, <3>3, <3>4 DEF LifeTryAdvance, LifeAdvance, LifeRecord
  <2>2. CASE ~Permanent(c)
    <3>1. RetryAllowed(l)  BY DEF RetryAllowed, Terminal, Negotiated
    <3>2. PICK random \in Randoms : life' = LifeRetry(l, 0, Hint(c), random)
      BY <2>2, <3>1 DEF Retry
    <3>3. Hint(c) \in 0..MaxTime /\ random \in Nat  BY <1>0, HintRange, TunnelAssumption
    <3>4. Hint(c) = Hint(conn) /\ ~Permanent(conn)  BY <2>2 DEF Hint, Permanent
    <3> QED  BY <3>2, <3>3, <3>4, RetryEffect
  <2> QED  BY <2>1, <2>2
<1>2. Types'  BY <1>0, <1>1, Closed DEF IInv, Types, apiVars
<1>3. Quiet'  BY <1>0 DEF IInv, Quiet, apiVars
<1>4. Resources' /\ Ready' /\ Session'
  BY <1>0, <1>1 DEF Resources, Ready, Session, NoConnection, SessionStates, Negotiated, RpcInit
<1>5. Standing' /\ Secrets'
  BY <1>0, <1>1 DEF Standing, Secrets, NoConnection, RpcInit
<1>6. Refusal'
  <2>1. hist.embargo \in Int /\ Hint(conn) \in Int /\ life'.retryAt \in Int
    BY <1>0, <1>1, HintRange, TunnelAssumption DEF HistRecord, LifeRecord
  <2>2. life.state \notin {"AUTH_FAILED", "BACKOFF"}  BY DEF Negotiated
  <2>3. hist.denied => Permanent(conn)
    BY <2>2 DEF IInv, Refusal, Refused, Permanent
  <2>4. hist.embargo > 0 => Hint(conn) >= hist.embargo
    BY <2>2 DEF IInv, Refusal
  <2> QED  BY <1>1, <2>1, <2>3, <2>4 DEF Refusal
<1>7. Fresh'  BY <1>0 DEF IInv, Fresh, ReloadTakesEffect, NoConnection, apiVars
<1>8. NoLostWakeup' /\ GoawayAfterGoodbye'
  BY <1>0 DEF NoLostWakeup, GoawayAfterGoodbye, NoConnection
<1> QED  BY <1>2, <1>3, <1>4, <1>5, <1>6, <1>7, <1>8 DEF IInv

-----------------------------------------------------------------------------
\* The initial state satisfies the inductive invariant.
LEMMA InitInv == Init => IInv
<1> SUFFICES ASSUME Init PROVE IInv  OBVIOUS
<1>0. 0 \in 0..MaxTime /\ 0 \in 0..MaxFailures /\ 0 \in 0..MaxSaves /\ 0 \in 0..MaxHint
  BY RetryAssumption, TunnelAssumption
<1>1. LifeInit \in LifeRecord  BY <1>0 DEF LifeInit, LifeRecord, States
<1>2. HistInit \in HistRecord  BY <1>0 DEF HistInit, HistRecord
<1>3. Types  BY <1>0, <1>1, <1>2, Closed DEF Init, Types, States
<1>4. Quiet /\ Resources /\ Ready
  BY DEF Init, Quiet, Resources, Ready, NoConnection, LifeInit, SessionStates, Negotiated
<1>5. Session /\ Standing /\ Secrets
  BY DEF Init, Session, Standing, Secrets, NoConnection, LifeInit, RpcInit
<1>6. Refusal /\ Fresh
  BY DEF Init, Refusal, Fresh, ReloadTakesEffect, NoConnection, HistInit
<1>7. NoLostWakeup /\ GoawayAfterGoodbye
  BY DEF Init, NoLostWakeup, GoawayAfterGoodbye, NoConnection
<1> QED  BY <1>3, <1>4, <1>5, <1>6, <1>7 DEF IInv

\* Calls of other tasks preserve it, whatever the owner is doing.
LEMMA ApiInv == IInv /\ Api => IInv'
<1> SUFFICES ASSUME IInv, Api PROVE IInv'  OBVIOUS
<1> USE DEF IInv
<1>1. CASE Create
  BY <1>1 DEF Create, Types, Quiet, Resources, Ready, Session, Standing, Secrets,
     Refusal, Refused, Fresh, ReloadTakesEffect, NoLostWakeup, GoawayAfterGoodbye, Hint
<1>2. CASE StartCheck \/ DeinitCheck
  <2>0. /\ ~task /\ handle' \in {"starting", "freeing"} /\ (handle' = "freeing" => ~lock)
        /\ UNCHANGED <<task, lock, pc, request, life, conn, stopping, snapshot, saved, hist>>
    BY <1>2 DEF StartCheck, DeinitCheck, DeinitAllowed
  <2>1. Types' /\ Quiet'  BY <2>0 DEF Types, Quiet
  <2>2. Resources' /\ Ready'  BY <2>0 DEF Resources, Ready
  <2>3. Session' /\ Standing' /\ Secrets'  BY <2>0 DEF Session, Standing, Secrets
  <2>4. Refusal'  BY <2>0 DEF Refusal, Refused, Hint, MinOf
  <2>5. Fresh' /\ NoLostWakeup' /\ GoawayAfterGoodbye'
    BY <2>0 DEF Fresh, ReloadTakesEffect, NoLostWakeup, GoawayAfterGoodbye
  <2> QED  BY <2>1, <2>2, <2>3, <2>4, <2>5
<1>7. CASE StartClear
  <2> USE <1>7 DEF StartClear
  <2>0. pc = "none" /\ conn = NoConnection /\ conn' = NoConnection  BY DEF Quiet
  <2>1. Types' /\ Quiet'  BY DEF Types, Quiet
  <2>2. Resources' /\ Ready'  BY <2>0 DEF Resources, Ready
  <2>3. Session' /\ Standing' /\ Secrets'  BY DEF Session, Standing, Secrets
  <2>4. Refusal'  BY DEF Refusal, Refused, Hint
  <2>5. Fresh'  BY <2>0 DEF Fresh, ReloadTakesEffect, NoConnection
  <2>6. NoLostWakeup' /\ GoawayAfterGoodbye'
    BY <2>0 DEF NoLostWakeup, GoawayAfterGoodbye, NoConnection
  <2> QED  BY <2>1, <2>2, <2>3, <2>4, <2>5, <2>6
<1>8. CASE StartCreate
  <2> USE <1>8 DEF StartCreate
  <2>0. pc = "none" /\ pc' \in {"none", "boot"} /\ ~stopping /\ ~stopping'  BY DEF Quiet
  <2>1. Types' /\ Quiet'
    <3>1. CASE task' = TRUE /\ pc' = "boot"  BY <2>0, <3>1 DEF Types, Quiet
    <3>2. CASE UNCHANGED <<task, pc>>  BY <2>0, <3>2 DEF Types, Quiet
    <3> QED  BY <3>1, <3>2
  <2>2. Resources' /\ Ready'  BY <2>0 DEF Resources, Ready
  <2>3. Session' /\ Standing' /\ Secrets'  BY DEF Session, Standing, Secrets
  <2>4. Refusal'  BY <2>0 DEF Refusal, Refused, Hint
  <2>5. Fresh' /\ NoLostWakeup' /\ GoawayAfterGoodbye'
    BY DEF Fresh, ReloadTakesEffect, NoLostWakeup, GoawayAfterGoodbye
  <2> QED  BY <2>1, <2>2, <2>3, <2>4, <2>5
<1>3. CASE Reload
  <2> USE <1>3 DEF Reload
  <2>1. Types'  BY DEF Types, HistRecord
  <2>2. /\ hist'.denied = hist.denied /\ hist'.embargo = hist.embargo
        /\ hist'.mark = saved /\ hist'.used = hist.used /\ request'.reload
    BY DEF Types, HistRecord
  <2>3. Quiet' /\ Resources' /\ Ready'  BY DEF Quiet, Resources, Ready
  <2>4. Session' /\ Standing' /\ Secrets'  BY DEF Session, Standing, Secrets
  <2>5. Refusal'  BY <2>2 DEF Refusal, Refused, Hint
  <2>6. Fresh'  BY <2>2, TunnelAssumption DEF Fresh, ReloadTakesEffect, Types
  <2>7. NoLostWakeup' /\ GoawayAfterGoodbye'  BY DEF NoLostWakeup, GoawayAfterGoodbye
  <2> QED  BY <2>1, <2>3, <2>4, <2>5, <2>6, <2>7
<1>4. CASE Stop
  <2> USE <1>4 DEF Stop
  <2>1. Types' /\ request'.stop  BY DEF Types
  <2>2. Quiet' /\ Resources' /\ Ready'  BY DEF Quiet, Resources, Ready
  <2>3. Session' /\ Standing' /\ Secrets'  BY DEF Session, Standing, Secrets
  <2>4. Refusal'  BY DEF Refusal, Refused, Hint
  <2>5. Fresh'  BY <2>1 DEF Fresh, ReloadTakesEffect
  <2>6. NoLostWakeup' /\ GoawayAfterGoodbye'  BY DEF NoLostWakeup, GoawayAfterGoodbye
  <2> QED  BY <2>1, <2>2, <2>3, <2>4, <2>5, <2>6
<1>5. CASE DeinitFree
  <2> USE <1>5 DEF DeinitFree
  <2>0. 0 \in 0..MaxTime /\ 0 \in 0..MaxFailures /\ 0 \in 0..MaxSaves /\ 0 \in 0..MaxHint
    BY RetryAssumption, TunnelAssumption
  <2>1. LifeInit \in LifeRecord  BY <2>0 DEF LifeInit, LifeRecord, States
  <2>2. HistInit \in HistRecord  BY <2>0 DEF HistInit, HistRecord
  <2>3. Types'  BY <2>1, <2>2, Closed DEF Types, States
  <2>4. Quiet' /\ Resources' /\ Ready'
    BY DEF Quiet, Resources, Ready, NoConnection, LifeInit, SessionStates, Negotiated
  <2>5. Session' /\ Standing' /\ Secrets'
    BY DEF Session, Standing, Secrets, NoConnection, LifeInit, RpcInit
  <2>6. Refusal' /\ Fresh'
    BY TunnelAssumption DEF Refusal, Fresh, ReloadTakesEffect, NoConnection, HistInit, Types
  <2>7. NoLostWakeup' /\ GoawayAfterGoodbye'
    BY DEF NoLostWakeup, GoawayAfterGoodbye, NoConnection
  <2> QED  BY <2>3, <2>4, <2>5, <2>6, <2>7
<1>6. CASE SaveSettings
  <2> USE <1>6 DEF SaveSettings
  <2>1. Types'  BY TunnelAssumption DEF Types
  <2>2. Quiet' /\ Resources' /\ Ready'  BY DEF Quiet, Resources, Ready
  <2>3. Session' /\ Standing' /\ Secrets'  BY DEF Session, Standing, Secrets
  <2>4. Refusal'  BY DEF Refusal, Refused, Hint
  <2>5. Fresh'  BY TunnelAssumption DEF Fresh, ReloadTakesEffect, Types, HistRecord
  <2>6. NoLostWakeup' /\ GoawayAfterGoodbye'  BY DEF NoLostWakeup, GoawayAfterGoodbye
  <2> QED  BY <2>1, <2>2, <2>3, <2>4, <2>5, <2>6
<1> QED  BY <1>1, <1>2, <1>3, <1>4, <1>5, <1>6, <1>7, <1>8 DEF Api

\* The owner enters its loop with nothing open.
LEMMA BootInv == IInv /\ Boot => IInv'
<1> SUFFICES ASSUME IInv, Boot PROVE IInv'  OBVIOUS
<1> USE DEF IInv, Boot
<1>1. /\ conn = NoConnection /\ conn' = NoConnection /\ life.state = "STOPPED"
      /\ life \in LifeRecord /\ life' = LifeStart(life) /\ ~stopping /\ pc' = "top"
  BY DEF Quiet, Types, StartAllowed
<1>2. /\ life' \in LifeRecord /\ ~life'.registered /\ ~life'.configured
      /\ life'.state \in {"WAIT_NETWORK", "WAIT_TIME", "DISCOVERY"}
      /\ life'.state = "DISCOVERY" => life'.network /\ life'.time
  BY <1>1, LifeTypes, StartEffect
<1>3. Types'  BY <1>1, <1>2 DEF Types, apiVars
<1>4. Quiet' /\ Resources' /\ Ready'
  BY <1>1, <1>2 DEF Quiet, Resources, Ready, NoConnection, SessionStates, Negotiated, apiVars
<1>5. Session' /\ Standing' /\ Secrets'
  BY <1>1, <1>2 DEF Session, Standing, Secrets, NoConnection, RpcInit
<1>6. Refusal'  BY <1>1 DEF Refusal, Refused
<1>7. Fresh' /\ NoLostWakeup' /\ GoawayAfterGoodbye'
  BY <1>1 DEF Fresh, ReloadTakesEffect, NoLostWakeup, GoawayAfterGoodbye, NoConnection, apiVars
<1> QED  BY <1>3, <1>4, <1>5, <1>6, <1>7

\* A reload starts over, a stop begins to drain or leaves the loop.
LEMMA RequestsInv == IInv /\ TakeRequests => IInv'
<1> SUFFICES ASSUME IInv, TakeRequests PROVE IInv'  OBVIOUS
<1> USE DEF IInv
<1>0. /\ pc = "top" /\ request' = [request EXCEPT !.reload = FALSE]
      /\ handle' = handle /\ task' = task /\ lock' = lock
      /\ snapshot' = snapshot /\ saved' = saved
      /\ life \in LifeRecord /\ conn \in ConnRecord /\ hist \in HistRecord
      /\ request' \in [stop : BOOLEAN, reload : BOOLEAN]
      /\ ~request'.reload /\ request'.stop = request.stop
      /\ stopping \in BOOLEAN
  BY DEF TakeRequests, Types
<1>1. CASE Reloading /\ conn' = NoConnection /\ life' = LifeStart(LifeStop(life))
           /\ stopping' = FALSE /\ pc' = "serve"
           /\ hist' = [hist EXCEPT !.denied = FALSE, !.embargo = 0]
  <2>1. LifeStop(life) \in LifeRecord  BY <1>0, LifeTypes
  <2>2. /\ life' \in LifeRecord /\ ~life'.registered /\ ~life'.configured
        /\ life'.state \in {"WAIT_NETWORK", "WAIT_TIME", "DISCOVERY"}
        /\ life'.state = "DISCOVERY" => life'.network /\ life'.time
    BY <1>1, <2>1, LifeTypes, StartEffect
  <2>3. /\ hist' \in HistRecord /\ ~hist'.denied /\ hist'.embargo = 0
        /\ hist'.mark = hist.mark
    <3>1. 0 \in 0..MaxHint  BY TunnelAssumption, RetryAssumption
    <3> QED  BY <1>0, <1>1, <3>1 DEF HistRecord
  <2>4. Types'  BY <1>0, <1>1, <2>2, <2>3, Closed DEF Types
  <2>5. Quiet' /\ Resources' /\ Ready'
    BY <1>0, <1>1, <2>2 DEF Quiet, Resources, Ready, NoConnection, SessionStates, Negotiated
  <2>6. Session' /\ Standing' /\ Secrets'
    BY <1>1, <2>2 DEF Session, Standing, Secrets, NoConnection, RpcInit
  <2>7. Refusal'  BY <2>3 DEF Refusal
  <2>8. Fresh' /\ NoLostWakeup' /\ GoawayAfterGoodbye'
    BY <1>0, <1>1, <2>3
    DEF Fresh, ReloadTakesEffect, NoLostWakeup, GoawayAfterGoodbye, NoConnection
  <2> QED  BY <2>4, <2>5, <2>6, <2>7, <2>8
<1>2. CASE /\ request.stop /\ ~stopping /\ conn.h2 /\ conn.rpc.state = "REGISTERED"
           /\ LET c == [conn EXCEPT !.shutdown = ShutdownMs] IN
              conn' = IF UnregisterAllowed(c.rpc)
                      THEN [Enqueue(c) EXCEPT !.rpc = RpcUnregister(@)] ELSE c
           /\ stopping' = TRUE
           /\ life' = [life EXCEPT !.state = "STOPPING"]
           /\ pc' = "serve" /\ UNCHANGED hist
  <2>1. ShutdownMs \in 0..ShutdownMs  BY TunnelAssumption
  <2>2. /\ conn' \in ConnRecord
        /\ conn'.h2 = conn.h2 /\ conn'.tls = conn.tls /\ conn'.dns = conn.dns
        /\ conn'.attempt = conn.attempt /\ conn'.secret = conn.secret
        /\ conn'.remote = conn.remote /\ conn'.app = conn.app
        /\ conn'.goawaySent = conn.goawaySent
        /\ conn'.rpc.state \in {"REGISTERED", "UNREGISTERING"}
        /\ conn'.control = conn.control
        /\ \/ conn'.queued = conn.queued /\ conn'.deferred = conn.deferred
           \/ conn.control = "open" => ~conn'.deferred
    <3> DEFINE c == [conn EXCEPT !.shutdown = ShutdownMs]
               r == RpcUnregister(conn.rpc)
               d == IF conn.control = "open" THEN FALSE ELSE conn.deferred
    <3>1. r \in RpcRecord /\ r.state = "UNREGISTERING"
      BY <1>0 DEF ConnRecord, RpcUnregister, RpcRecord, RpcStates
    <3>2. \/ conn' = c
          \/ conn' = [conn EXCEPT !.shutdown = ShutdownMs, !.queued = TRUE, !.rpc = r,
                         !.deferred = d]
      BY <1>0, <1>2 DEF ConnRecord, Enqueue
    <3>3. d \in BOOLEAN /\ (conn.control = "open" => ~d)  BY <1>0 DEF ConnRecord
    <3> HIDE DEF r, d
    <3>4. CASE conn' = c  BY <1>0, <1>2, <2>1, <3>4 DEF ConnRecord
    <3>5. CASE conn' = [conn EXCEPT !.shutdown = ShutdownMs, !.queued = TRUE, !.rpc = r,
                          !.deferred = d]
      <4>1. conn' \in ConnRecord  BY <1>0, <2>1, <3>1, <3>3, <3>5 DEF ConnRecord
      <4>2. /\ conn'.h2 = conn.h2 /\ conn'.tls = conn.tls /\ conn'.dns = conn.dns
            /\ conn'.attempt = conn.attempt /\ conn'.secret = conn.secret
            /\ conn'.remote = conn.remote /\ conn'.app = conn.app
            /\ conn'.goawaySent = conn.goawaySent /\ conn'.control = conn.control
            /\ conn'.rpc = r /\ conn'.deferred = d
        BY <1>0, <3>5 DEF ConnRecord
      <4> QED  BY <3>1, <3>3, <4>1, <4>2
    <3> QED  BY <3>2, <3>4, <3>5
  <2>3. /\ life' \in LifeRecord /\ life'.state = "STOPPING"
        /\ life'.configured = life.configured /\ life.state \in SessionStates
    BY <1>0, <1>2 DEF LifeRecord, States, Resources
  <2>4. Types'  BY <1>0, <1>2, <2>2, <2>3 DEF Types
  <2>5. Quiet' /\ Resources' /\ Ready'
    BY <1>0, <1>2, <2>2, <2>3 DEF Quiet, Resources, Ready, SessionStates, Negotiated
  <2>6. Session' /\ Standing' /\ Secrets'
    BY <1>2, <2>2, <2>3 DEF Session, Standing, Secrets, Resources
  <2>7. Refusal'
    BY <1>0, <1>2, <2>3 DEF Refusal, Refused, SessionStates, Negotiated
  <2>8. Fresh' /\ NoLostWakeup' /\ GoawayAfterGoodbye'
    BY <1>0, <1>2, <2>2 DEF Fresh, ReloadTakesEffect, NoLostWakeup, GoawayAfterGoodbye
  <2> QED  BY <2>4, <2>5, <2>6, <2>7, <2>8
<1>3. CASE pc' \in {"exit", "serve"} /\ UNCHANGED <<life, conn, stopping, hist>>
           /\ (request.stop \/ ~Reloading)
  <2>1. Types'  BY <1>0, <1>3 DEF Types
  <2>2. Quiet' /\ Resources' /\ Ready'
    BY <1>0, <1>3 DEF Quiet, Resources, Ready
  <2>3. Session' /\ Standing' /\ Secrets'  BY <1>3 DEF Session, Standing, Secrets
  <2>4. Refusal'  BY <1>0, <1>3 DEF Refusal, Refused
  <2>5. Fresh' /\ NoLostWakeup' /\ GoawayAfterGoodbye'
    BY <1>0, <1>3 DEF Fresh, ReloadTakesEffect, Reloading, NoLostWakeup, GoawayAfterGoodbye
  <2> QED  BY <2>1, <2>2, <2>3, <2>4, <2>5
<1> QED  BY <1>0, <1>1, <1>2, <1>3 DEF TakeRequests

\* A report of the environment closes a connection whose network or clock is
\* gone, and nothing else.
LEMMA EnvironmentInv ==
    ASSUME IInv, NEW network \in BOOLEAN, NEW time \in BOOLEAN, Environment(network, time)
    PROVE  IInv'
<1> USE DEF IInv
<1>0. /\ pc = "serve" /\ life \in LifeRecord /\ conn \in ConnRecord /\ hist \in HistRecord
      /\ UNCHANGED <<handle, task, lock, request, saved, stopping, snapshot, hist>>
  BY DEF Environment, apiVars, Types
<1>1. CASE pc' = "exit" /\ UNCHANGED <<life, conn>>
  <2>1. Types' /\ Quiet'  BY <1>0, <1>1 DEF Types, Quiet
  <2>2. Resources' /\ Ready'  BY <1>0, <1>1 DEF Resources, Ready
  <2>3. Session' /\ Standing' /\ Secrets'  BY <1>1 DEF Session, Standing, Secrets
  <2>4. Refusal'  BY <1>0, <1>1 DEF Refusal, Refused
  <2>5. Fresh' /\ NoLostWakeup' /\ GoawayAfterGoodbye'
    BY <1>0, <1>1 DEF Fresh, ReloadTakesEffect, NoLostWakeup, GoawayAfterGoodbye
  <2> QED  BY <2>1, <2>2, <2>3, <2>4, <2>5
<1>2. CASE /\ ~stopping \/ (network /\ time)
           /\ pc' = "work"
           /\ conn' = IF (~network \/ ~time) /\ HasSockets(conn) THEN NoConnection ELSE conn
           /\ life' = LifeTick(LifeEnvironment(life, network, time), 0)
  <2>1. /\ life' \in LifeRecord /\ life'.network = network /\ life'.time = time
        /\ life'.retryAt = life.retryAt
        /\ life'.registered => life.registered
        /\ life'.configured => life.configured
        /\ Terminal(life.state) => life'.state = life.state
        /\ life.state = "BACKOFF" =>
             \/ life'.state = "BACKOFF"
             \/ life.retryAt = 0 /\ life'.state \in {"WAIT_NETWORK", "WAIT_TIME", "DISCOVERY"}
        /\ ~Terminal(life.state) /\ (~network \/ ~time) =>
             /\ ~life'.registered /\ ~life'.configured
             /\ life.state = "BACKOFF" \/ life'.state \in {"WAIT_NETWORK", "WAIT_TIME"}
        /\ life'.state = "DISCOVERY" => network /\ time
        /\ ~Terminal(life.state) /\ network /\ time =>
             /\ life'.registered = life.registered /\ life'.configured = life.configured
             /\ \/ life'.state = life.state
                \/ /\ life'.state = "DISCOVERY"
                   /\ life.state \in {"WAIT_NETWORK", "WAIT_TIME", "BACKOFF"}
    BY <1>0, <1>2, EnvironmentEffect
  <2>2. conn' \in ConnRecord /\ stopping' = stopping  BY <1>0, <1>2, Closed
  <2>3. Types' /\ Quiet'  BY <1>0, <1>2, <2>1, <2>2 DEF Types, Quiet
  <2>4. Refusal'
    <3>1. hist.denied => life.state = "AUTH_FAILED"  BY <1>0 DEF Refusal, Refused
    <3>2. hist.embargo > 0 =>
            life.state = "AUTH_FAILED" \/ (life.state = "BACKOFF" /\ life.retryAt >= hist.embargo)
      BY <1>0 DEF Refusal, Refused
    <3>3. hist.embargo > 0 => life.retryAt # 0 \/ life.state = "AUTH_FAILED"
      BY <1>0, <3>2, TunnelAssumption DEF HistRecord
    <3> QED  BY <1>0, <2>1, <3>1, <3>2, <3>3 DEF Refusal, Terminal
  <2>5. Fresh' /\ NoLostWakeup' /\ GoawayAfterGoodbye'
    BY <1>0, <1>2 DEF Fresh, ReloadTakesEffect, NoLostWakeup, GoawayAfterGoodbye, NoConnection
  <2>6. CASE (~network \/ ~time) /\ HasSockets(conn)
    <3>1. conn' = NoConnection /\ ~stopping  BY <1>2, <2>6
    <3>2. life'.state \in {"WAIT_NETWORK", "WAIT_TIME"} /\ ~life'.registered /\ ~life'.configured
      BY <1>0, <2>1, <2>6, <3>1
      DEF HasSockets, Resources, Ready, SessionStates, Negotiated, Terminal
    <3>3. Resources' /\ Ready'
      BY <1>0, <1>2, <3>1, <3>2 DEF Resources, Ready, NoConnection, SessionStates, Negotiated
    <3>4. Session' /\ Standing' /\ Secrets'
      BY <3>1, <3>2 DEF Session, Standing, Secrets, NoConnection, RpcInit
    <3> QED  BY <2>3, <2>4, <2>5, <3>3, <3>4
  <2>7. CASE (~network \/ ~time) /\ ~HasSockets(conn)
    <3>1. conn' = conn /\ ~stopping /\ ~conn.tls /\ ~conn.dns /\ ~conn.h2 /\ ~conn.attempt
      BY <1>2, <2>7 DEF HasSockets, Resources, SessionStates
    <3>2. life.state \in {"STOPPED", "WAIT_NETWORK", "WAIT_TIME", "DISCOVERY", "BACKOFF", "AUTH_FAILED"}
      BY <1>0, <3>1 DEF Resources, SessionStates, Negotiated, LifeRecord, States
    <3>3. life'.state \in {"STOPPED", "WAIT_NETWORK", "WAIT_TIME", "BACKOFF", "AUTH_FAILED"}
      BY <2>1, <2>7, <3>2 DEF Terminal
    <3>4. Resources' /\ Ready'
      BY <1>0, <1>2, <3>1, <3>3 DEF Resources, Ready, SessionStates, Negotiated
    <3>5. Session' /\ Standing' /\ Secrets'
      BY <2>1, <3>1, <3>2, <3>3 DEF Session, Standing, Secrets, Negotiated
    <3> QED  BY <2>3, <2>4, <2>5, <3>4, <3>5
  <2>8. CASE network /\ time
    <3>1. conn' = conn  BY <1>2, <2>8
    <3>2. \/ life'.state = life.state
          \/ /\ life'.state = "DISCOVERY" /\ ~conn.attempt /\ ~conn.tls /\ ~conn.dns /\ ~conn.h2
             /\ life.state \in {"WAIT_NETWORK", "WAIT_TIME", "BACKOFF"}
      BY <1>0, <2>1, <2>8 DEF Resources, SessionStates, Negotiated
    <3>3. Resources' /\ Ready'
      BY <1>0, <1>2, <2>1, <2>8, <3>1, <3>2 DEF Resources, Ready, SessionStates, Negotiated
    <3>4. Session' /\ Secrets'
      BY <3>1, <3>2 DEF Session, Secrets, Negotiated
    <3>5. Standing'
      BY <1>0, <2>1, <2>8, <3>1, <3>2 DEF Standing, Terminal
    <3> QED  BY <2>3, <2>4, <2>5, <3>3, <3>4, <3>5
  <2> QED  BY <2>6, <2>7, <2>8
<1> QED  BY <1>1, <1>2 DEF Environment

-----------------------------------------------------------------------------
\* The places of the owner inside its loop.
Loop == {"top", "serve", "work", "read", "post", "write", "end", "exit"}

\* Most steps leave the lifecycle, the RPC session and the sockets alone: they
\* move the owner on, drop credentials, messages or streams, or set a timer.
LEMMA MinorInv ==
    ASSUME IInv, conn' \in ConnRecord, snapshot' \in States,
           UNCHANGED <<apiVars, life, stopping, hist>>,
           pc \in Loop, pc' \in Loop,
           pc' \in {"read", "post", "write"} => conn.h2,
           Refused => pc' \in {"read", "post"},
           conn'.attempt = conn.attempt, conn'.dns = conn.dns, conn'.tls = conn.tls,
           conn'.h2 = conn.h2, conn'.rpc = conn.rpc, conn'.remote = conn.remote,
           conn'.secret => conn.secret, conn'.queued => conn.queued,
           conn.fault => conn'.fault,
           conn'.app => conn.app \/ life.state = "ONLINE",
           conn'.control = conn.control \/ conn'.fault \/ stopping,
           NoLostWakeup', GoawayAfterGoodbye'
    PROVE  IInv'
<1> USE DEF IInv
<1>1. Types'  BY DEF Types, Loop, apiVars
<1>2. Quiet'  BY DEF Quiet, Loop, apiVars
<1>3. Resources' /\ Ready'  BY DEF Resources, Ready, Loop
<1>4. Session' /\ Secrets'  BY DEF Session, Secrets
<1>5. Standing'  BY DEF Standing, Ready, Loop
<1>6. Refusal'
  <2>1. Hint(conn)' = Hint(conn)  BY DEF Hint, MinOf
  <2>2. Refused => Refused'  BY DEF Refused
  <2>3. conn'.rpc.shouldRetry = conn.rpc.shouldRetry  OBVIOUS
  <2> QED  BY <2>1, <2>2, <2>3 DEF Refusal
<1>7. Fresh'  BY DEF Fresh, ReloadTakesEffect, apiVars
<1> QED  BY <1>1, <1>2, <1>3, <1>4, <1>5, <1>6, <1>7

\* A failed exchange with the edge ends the attempt or, while the connection
\* is draining, the graceful stop.
LEMMA DisconnectedInv ==
    ASSUME IInv, pc \in {"read", "post", "write"}, NEW c \in ConnRecord,
           Disconnected(c, life), UNCHANGED <<apiVars, stopping, snapshot, hist>>,
           c.attempt = conn.attempt, c.dns = conn.dns, c.tls = conn.tls,
           c.h2 = conn.h2, c.rpc = conn.rpc, c.remote = conn.remote,
           c.secret = conn.secret, c.queued = conn.queued, c.fault = conn.fault,
           c.app = conn.app, c.control = conn.control, c.deferred = conn.deferred,
           c.goawaySent = conn.goawaySent
    PROVE  IInv'
<1> USE DEF IInv
<1>0. life.state \in SessionStates /\ conn.h2 /\ hist \in HistRecord /\ life \in LifeRecord
  BY DEF Resources, Types
<1>1. CASE stopping /\ pc' = "exit" /\ conn' = c /\ life' = life
  <2>1. life.state = "STOPPING"  BY <1>1 DEF Ready
  <2>2. ~Refused  BY <2>1 DEF Refused, Session
  <2>3. NoLostWakeup' /\ GoawayAfterGoodbye'
    BY <1>1 DEF NoLostWakeup, GoawayAfterGoodbye
  <2>4. snapshot' \in States  BY DEF Types
  <2> QED  BY <1>1, <2>2, <2>3, <2>4, MinorInv DEF Loop
<1>2. CASE ~stopping /\ Retry(c, life)
  <2>1. life.state \in {"HTTP2"} \cup Negotiated  BY <1>0, <1>2 DEF SessionStates, Ready
  <2>2. conn.rpc.state # "IDLE" => life.state \in Negotiated
    BY <2>1 DEF Session, Negotiated
  <2>3. life.network /\ life.time  BY <2>1 DEF Ready
  <2>4. UNCHANGED <<apiVars, stopping, snapshot>>  OBVIOUS
  <2> QED  BY <1>0, <1>2, <2>1, <2>2, <2>3, <2>4, RetryInv
<1> QED  BY <1>1, <1>2 DEF Disconnected

\* The owner moves on, publishes its state and leaves.
LEMMA LoopInv ==
    IInv /\ (Idle \/ EndIteration \/ Exit \/ TaskEnds \/ TaskUnlocks) => IInv'
<1> SUFFICES ASSUME IInv, Idle \/ EndIteration \/ Exit \/ TaskEnds \/ TaskUnlocks
             PROVE  IInv'
  OBVIOUS
<1>0. conn \in ConnRecord /\ snapshot \in States /\ life \in LifeRecord /\ hist \in HistRecord
  BY DEF IInv, Types
<1>1. CASE Idle
  <2>1. conn' = conn /\ pc' \in {"read", "end"} /\ (pc' = "read" => conn.h2)
    BY <1>1 DEF Idle
  <2>2. NoLostWakeup' /\ GoawayAfterGoodbye'
    BY <1>1 DEF Idle, IInv, NoLostWakeup, GoawayAfterGoodbye
  <2>3. UNCHANGED <<apiVars, life, stopping, hist>> /\ snapshot' \in States /\ pc = "work"
    BY <1>0, <1>1 DEF Idle
  <2> QED  BY <1>0, <2>1, <2>2, <2>3, MinorInv DEF Loop, Refused
<1>2. CASE EndIteration
  <2>1. /\ conn' = conn /\ pc = "end" /\ pc' \in {"exit", "top"} /\ snapshot' \in States
        /\ UNCHANGED <<apiVars, life, stopping, hist>>
    BY <1>0, <1>2 DEF EndIteration, LifeRecord
  <2>2. NoLostWakeup' /\ GoawayAfterGoodbye'
    BY <2>1 DEF IInv, NoLostWakeup, GoawayAfterGoodbye
  <2> QED  BY <1>0, <2>1, <2>2, MinorInv DEF Loop, Refused
<1>3. CASE Exit
  <2> USE <1>3 DEF IInv, Exit
  <2>1. LifeStop(life) \in LifeRecord  BY <1>0, LifeTypes
  <2>2. life'.state = "STOPPED" /\ ~life'.registered /\ ~life'.configured
    BY <1>0 DEF LifeStop, LifeRecord
  <2>3. /\ hist' \in HistRecord /\ ~hist'.denied /\ hist'.embargo = 0
        /\ hist'.mark = hist.mark
    <3>1. 0 \in 0..MaxHint  BY TunnelAssumption, RetryAssumption
    <3> QED  BY <1>0, <3>1 DEF HistRecord
  <2>4. Types'  BY <2>1, <2>3, Closed DEF Types, apiVars, States
  <2>5. Quiet' /\ Resources' /\ Ready'
    BY <2>2 DEF Quiet, Resources, Ready, NoConnection, SessionStates, Negotiated, apiVars
  <2>6. Session' /\ Standing' /\ Secrets'
    BY <2>2 DEF Session, Standing, Secrets, NoConnection, RpcInit
  <2>7. Refusal'  BY <2>3 DEF Refusal
  <2>8. Fresh' /\ NoLostWakeup' /\ GoawayAfterGoodbye'
    BY <2>3
    DEF Fresh, ReloadTakesEffect, NoLostWakeup, GoawayAfterGoodbye, NoConnection, apiVars
  <2> QED  BY <2>4, <2>5, <2>6, <2>7, <2>8
<1>4. CASE TaskEnds
  <2> USE <1>4 DEF IInv, TaskEnds
  <2>1. Types' /\ Quiet'  BY DEF Types, Quiet, apiVars
  <2>2. Resources' /\ Ready'  BY DEF Resources, Ready, Quiet
  <2>3. Session' /\ Standing' /\ Secrets'  BY DEF Session, Standing, Secrets
  <2>4. Refusal'  BY DEF Refusal, Refused
  <2>5. Fresh' /\ NoLostWakeup' /\ GoawayAfterGoodbye'
    BY DEF Fresh, ReloadTakesEffect, NoLostWakeup, GoawayAfterGoodbye, apiVars
  <2> QED  BY <2>1, <2>2, <2>3, <2>4, <2>5
<1>5. CASE TaskUnlocks
  <2> USE <1>5 DEF IInv, TaskUnlocks
  <2>1. Types' /\ Quiet'  BY DEF Types, Quiet
  <2>2. Resources' /\ Ready'  BY DEF Resources, Ready
  <2>3. Session' /\ Standing' /\ Secrets'  BY DEF Session, Standing, Secrets
  <2>4. Refusal'  BY DEF Refusal, Refused, Hint
  <2>5. Fresh' /\ NoLostWakeup' /\ GoawayAfterGoodbye'
    BY DEF Fresh, ReloadTakesEffect, NoLostWakeup, GoawayAfterGoodbye
  <2> QED  BY <2>1, <2>2, <2>3, <2>4, <2>5
<1> QED  BY <1>1, <1>2, <1>3, <1>4, <1>5

-----------------------------------------------------------------------------
\* An attempt begins with the settings of the moment, and not at all while the
\* settings are incomplete.
LEMMA BeginInv == IInv /\ (NoAttempt \/ BeginAttempt) => IInv'
<1> SUFFICES ASSUME IInv, NoAttempt \/ BeginAttempt PROVE IInv'  OBVIOUS
<1>0. /\ conn \in ConnRecord /\ snapshot \in States /\ life \in LifeRecord
      /\ hist \in HistRecord /\ saved \in 0..MaxSaves
      /\ pc = "work" /\ life.state = "DISCOVERY" /\ ~conn.attempt
  BY DEF IInv, Types, NoAttempt, BeginAttempt
<1>1. CASE NoAttempt
  <2>1. /\ conn' = [conn EXCEPT !.secret = FALSE] /\ pc' = "end" /\ snapshot' = snapshot
        /\ UNCHANGED <<apiVars, life, stopping, hist>>
    BY <1>1 DEF NoAttempt
  <2>2. conn' \in ConnRecord  BY <1>0, <2>1 DEF ConnRecord
  <2>3. /\ conn'.attempt = conn.attempt /\ conn'.dns = conn.dns /\ conn'.tls = conn.tls
        /\ conn'.h2 = conn.h2 /\ conn'.rpc = conn.rpc /\ conn'.remote = conn.remote
        /\ ~conn'.secret /\ conn'.queued = conn.queued /\ conn'.fault = conn.fault
        /\ conn'.app = conn.app /\ conn'.control = conn.control
        /\ conn'.deferred = conn.deferred /\ conn'.goawaySent = conn.goawaySent
    BY <1>0, <2>1 DEF ConnRecord
  <2>4. NoLostWakeup' /\ GoawayAfterGoodbye'
    BY <2>1, <2>3 DEF IInv, NoLostWakeup, GoawayAfterGoodbye
  <2> QED  BY <1>0, <2>1, <2>2, <2>3, <2>4, MinorInv DEF Loop, Refused
<1>2. CASE BeginAttempt
  <2> DEFINE c == [conn EXCEPT !.attempt = TRUE, !.secret = TRUE, !.stage = 0]
  <2>1. /\ hist' = [hist EXCEPT !.used = saved] /\ UNCHANGED <<apiVars, stopping, snapshot>>
    BY <1>2 DEF BeginAttempt
  <2>2. /\ hist' \in HistRecord /\ hist'.used = saved /\ hist'.mark = hist.mark
        /\ hist'.denied = hist.denied /\ hist'.embargo = hist.embargo
    BY <1>0, <2>1 DEF HistRecord
  <2>3. /\ life.network /\ life.time /\ ~stopping /\ conn.rpc.state = "IDLE"
        /\ ~conn.tls /\ ~conn.h2 /\ ~conn.dns
    BY <1>0 DEF IInv, Ready, Session, Resources, SessionStates, Negotiated
  <2>4. CASE conn' = [c EXCEPT !.dns = TRUE, !.deadline = DnsMs] /\ UNCHANGED <<pc, life>>
    <3>1. conn' \in ConnRecord
      <4>1. DnsMs \in Nat  BY TunnelAssumption
      <4> QED  BY <1>0, <2>4, <4>1 DEF ConnRecord
    <3>2. /\ conn'.attempt /\ conn'.dns /\ conn'.secret /\ conn'.tls = conn.tls
          /\ conn'.h2 = conn.h2 /\ conn'.rpc = conn.rpc /\ conn'.remote = conn.remote
          /\ conn'.queued = conn.queued /\ conn'.fault = conn.fault
          /\ conn'.app = conn.app /\ conn'.control = conn.control
          /\ conn'.deferred = conn.deferred /\ conn'.goawaySent = conn.goawaySent
      BY <1>0, <2>4 DEF ConnRecord
    <3> HIDE DEF c
    <3> USE DEF IInv
    <3>3. Types' /\ Quiet'  BY <1>0, <2>1, <2>2, <2>4, <3>1 DEF Types, Quiet, apiVars
    <3>4. Resources' /\ Ready'
      BY <1>0, <2>1, <2>3, <2>4, <3>2 DEF Resources, Ready, SessionStates, Negotiated
    <3>5. Session' /\ Standing' /\ Secrets'
      BY <1>0, <2>3, <2>4, <3>2 DEF Session, Standing, Secrets
    <3>6. Refusal'  BY <1>0, <2>2, <2>4 DEF Refusal, Refused
    <3>7. Fresh'
      BY <1>0, <2>1, <2>2 DEF Fresh, ReloadTakesEffect, apiVars, HistRecord
    <3>8. NoLostWakeup' /\ GoawayAfterGoodbye'
      BY <2>1, <3>2 DEF NoLostWakeup, GoawayAfterGoodbye
    <3> QED  BY <3>3, <3>4, <3>5, <3>6, <3>7, <3>8
  <2>5. CASE Retry(c, life)
    <3>1. c.rpc = conn.rpc  BY <1>0 DEF ConnRecord
    <3> QED  BY <1>0, <2>1, <2>2, <2>3, <2>5, <3>1, RetryInv
  <2> QED  BY <1>2, <2>4, <2>5 DEF BeginAttempt
<1> QED  BY <1>1, <1>2

\* One poll of the DNS socket keeps it, hands over to the TLS connection or
\* gives up.
LEMMA DnsInv == IInv /\ DnsPoll => IInv'
<1> SUFFICES ASSUME IInv, DnsPoll PROVE IInv'  OBVIOUS
<1>0. /\ conn \in ConnRecord /\ snapshot \in States /\ life \in LifeRecord
      /\ hist \in HistRecord /\ UNCHANGED <<apiVars, stopping, snapshot, hist>>
      /\ pc = "work" /\ life.state = "DISCOVERY" /\ conn.attempt
  BY DEF IInv, Types, DnsPoll
<1>1. /\ life.network /\ life.time /\ ~stopping /\ conn.rpc.state = "IDLE"
      /\ ~conn.tls /\ ~conn.h2 /\ conn.dns
  BY <1>0 DEF IInv, Ready, Session, Resources, SessionStates, Negotiated
<1>2. CASE pc' = "end" /\ UNCHANGED <<life, conn>>
  <2>1. NoLostWakeup' /\ GoawayAfterGoodbye'
    BY <1>0, <1>2 DEF IInv, NoLostWakeup, GoawayAfterGoodbye
  <2> QED  BY <1>0, <1>2, <2>1, MinorInv DEF Loop, Refused
<1>3. CASE /\ conn' = [conn EXCEPT !.stage = 1, !.deadline = DnsMs]
           /\ pc' = "end" /\ UNCHANGED life
  <2>1. conn' \in ConnRecord
    <3>1. DnsMs \in Nat  BY TunnelAssumption
    <3> QED  BY <1>0, <1>3, <3>1 DEF ConnRecord
  <2>2. /\ conn'.attempt = conn.attempt /\ conn'.dns = conn.dns /\ conn'.tls = conn.tls
        /\ conn'.h2 = conn.h2 /\ conn'.rpc = conn.rpc /\ conn'.remote = conn.remote
        /\ conn'.secret = conn.secret /\ conn'.queued = conn.queued
        /\ conn'.fault = conn.fault /\ conn'.app = conn.app
        /\ conn'.control = conn.control /\ conn'.deferred = conn.deferred
        /\ conn'.goawaySent = conn.goawaySent
    BY <1>0, <1>3 DEF ConnRecord
  <2>3. NoLostWakeup' /\ GoawayAfterGoodbye'
    BY <1>0, <2>2 DEF IInv, NoLostWakeup, GoawayAfterGoodbye
  <2> QED  BY <1>0, <1>3, <2>1, <2>2, <2>3, MinorInv DEF Loop, Refused
<1>4. CASE /\ conn' = [conn EXCEPT !.dns = FALSE, !.tls = TRUE, !.deadline = ConnectMs]
           /\ life' = LifeTryAdvance(life, "DISCOVERED") /\ pc' = "end"
  <2>1. conn' \in ConnRecord
    <3>1. ConnectMs \in Nat  BY TunnelAssumption
    <3> QED  BY <1>0, <1>4, <3>1 DEF ConnRecord
  <2>2. /\ conn'.attempt = conn.attempt /\ ~conn'.dns /\ conn'.tls
        /\ conn'.h2 = conn.h2 /\ conn'.rpc = conn.rpc /\ conn'.remote = conn.remote
        /\ conn'.secret = conn.secret /\ conn'.queued = conn.queued
        /\ conn'.fault = conn.fault /\ conn'.app = conn.app
        /\ conn'.control = conn.control /\ conn'.deferred = conn.deferred
        /\ conn'.goawaySent = conn.goawaySent
    BY <1>0, <1>4 DEF ConnRecord
  <2>3. life' = [life EXCEPT !.state = "CONNECT"]
    BY <1>0, <1>1, <1>4
    DEF LifeTryAdvance, LifeAdvance, AdvanceAllowed, AdvanceFrom, Terminal
  <2>4. /\ life' \in LifeRecord /\ life'.state = "CONNECT"
        /\ life'.network /\ life'.time
        /\ life'.registered = life.registered /\ life'.configured = life.configured
    BY <1>0, <1>1, <2>3 DEF LifeRecord, States
  <2> USE DEF IInv
  <2>5. Types' /\ Quiet'  BY <1>0, <1>4, <2>1, <2>4 DEF Types, Quiet, apiVars
  <2>6. Resources' /\ Ready'
    BY <1>0, <1>1, <1>4, <2>2, <2>4 DEF Resources, Ready, SessionStates, Negotiated
  <2>7. Session' /\ Standing' /\ Secrets'
    BY <1>0, <1>1, <2>2, <2>4 DEF Session, Standing, Secrets
  <2>8. Refusal'  BY <1>0 DEF Refusal, Refused
  <2>9. Fresh' /\ NoLostWakeup' /\ GoawayAfterGoodbye'
    BY <1>0, <2>2
    DEF Fresh, ReloadTakesEffect, apiVars, NoLostWakeup, GoawayAfterGoodbye
  <2> QED  BY <2>5, <2>6, <2>7, <2>8, <2>9
<1>5. CASE Retry(conn, life)
  BY <1>0, <1>1, <1>5, RetryInv
<1> QED  BY <1>2, <1>3, <1>4, <1>5 DEF DnsPoll

\* One step of the connect: the lifecycle follows the handshake, and an HTTP/2
\* session exists from its end on.
LEMMA ConnectInv ==
    ASSUME IInv, NEW handshake \in BOOLEAN, ConnectPoll(handshake)
    PROVE  IInv'
<1> DEFINE l == IF handshake /\ life.state = "CONNECT"
                THEN LifeTryAdvance(life, "CONNECTED") ELSE life
<1>0. /\ conn \in ConnRecord /\ snapshot \in States /\ life \in LifeRecord
      /\ hist \in HistRecord /\ UNCHANGED <<apiVars, stopping, snapshot, hist>>
      /\ pc = "work" /\ life.state \in {"CONNECT", "TLS"}
  BY DEF IInv, Types, ConnectPoll
<1>1. /\ life.network /\ life.time /\ ~stopping /\ conn.rpc.state = "IDLE"
      /\ conn.tls /\ ~conn.h2 /\ ~conn.dns
  BY <1>0 DEF IInv, Ready, Session, Resources, SessionStates, Negotiated
<1>2. /\ l \in LifeRecord /\ l.state \in {"CONNECT", "TLS"} /\ l.network /\ l.time
      /\ l.registered = life.registered /\ l.configured = life.configured
      /\ handshake => l.state = "TLS"
  <2>1. LifeTryAdvance(life, "CONNECTED") \in LifeRecord  BY <1>0, LifeTypes DEF Events
  <2>2. life.state = "CONNECT" =>
          LifeTryAdvance(life, "CONNECTED") = [life EXCEPT !.state = "TLS"]
    BY <1>0, <1>1 DEF LifeTryAdvance, LifeAdvance, AdvanceAllowed, AdvanceFrom, Terminal
  <2> QED  BY <1>0, <1>1, <2>1, <2>2 DEF LifeRecord
<1>3. CASE life' = l /\ pc' = "end" /\ UNCHANGED conn
  <2> USE DEF IInv
  <2> HIDE DEF l
  <2>1. Types' /\ Quiet'  BY <1>0, <1>2, <1>3 DEF Types, Quiet, apiVars
  <2>2. Resources' /\ Ready'
    BY <1>0, <1>1, <1>2, <1>3 DEF Resources, Ready, SessionStates, Negotiated
  <2>3. Session' /\ Standing' /\ Secrets'
    BY <1>0, <1>1, <1>2, <1>3 DEF Session, Standing, Secrets
  <2>4. Refusal'  BY <1>0 DEF Refusal, Refused
  <2>5. Fresh' /\ NoLostWakeup' /\ GoawayAfterGoodbye'
    BY <1>0, <1>3 DEF Fresh, ReloadTakesEffect, apiVars, NoLostWakeup, GoawayAfterGoodbye
  <2> QED  BY <2>1, <2>2, <2>3, <2>4, <2>5
<1>4. CASE /\ handshake /\ conn' = [conn EXCEPT !.h2 = TRUE, !.deadline = RegisterMs]
           /\ life' = LifeTryAdvance(l, "TLS_READY") /\ pc' = "end"
  <2>1. conn' \in ConnRecord
    <3>1. RegisterMs \in Nat  BY TunnelAssumption
    <3> QED  BY <1>0, <1>4, <3>1 DEF ConnRecord
  <2>2. /\ conn'.attempt = conn.attempt /\ conn'.dns = conn.dns /\ conn'.tls = conn.tls
        /\ conn'.h2 /\ conn'.rpc = conn.rpc /\ conn'.remote = conn.remote
        /\ conn'.secret = conn.secret /\ conn'.queued = conn.queued
        /\ conn'.fault = conn.fault /\ conn'.app = conn.app
        /\ conn'.control = conn.control /\ conn'.deferred = conn.deferred
        /\ conn'.goawaySent = conn.goawaySent
    BY <1>0, <1>4 DEF ConnRecord
  <2> HIDE DEF l
  <2>3. life' = [l EXCEPT !.state = "HTTP2"]
    BY <1>2, <1>4 DEF LifeTryAdvance, LifeAdvance, AdvanceAllowed, AdvanceFrom, Terminal
  <2>4. /\ life' \in LifeRecord /\ life'.state = "HTTP2"
        /\ life'.network /\ life'.time
        /\ life'.registered = life.registered /\ life'.configured = life.configured
    BY <1>2, <2>3 DEF LifeRecord, States
  <2> USE DEF IInv
  <2>5. Types' /\ Quiet'  BY <1>0, <1>4, <2>1, <2>4 DEF Types, Quiet, apiVars
  <2>6. Resources' /\ Ready'
    BY <1>0, <1>1, <1>4, <2>2, <2>4 DEF Resources, Ready, SessionStates, Negotiated
  <2>7. Session' /\ Standing' /\ Secrets'
    BY <1>0, <1>1, <2>2, <2>4 DEF Session, Standing, Secrets
  <2>8. Refusal'  BY <1>0 DEF Refusal, Refused
  <2>9. Fresh' /\ NoLostWakeup' /\ GoawayAfterGoodbye'
    BY <1>0, <2>2
    DEF Fresh, ReloadTakesEffect, apiVars, NoLostWakeup, GoawayAfterGoodbye
  <2> QED  BY <2>5, <2>6, <2>7, <2>8, <2>9
<1>5. CASE Retry(conn, l)
  <2> HIDE DEF l
  <2> QED  BY <1>0, <1>1, <1>2, <1>5, RetryInv
<1> QED  BY <1>3, <1>4, <1>5 DEF ConnectPoll

-----------------------------------------------------------------------------
\* HTTP2_READY and REGISTERED on a session: what is negotiated stays so.
LEMMA SessionAdvance ==
    ASSUME NEW l \in LifeRecord, l.state \in SessionStates,
           l.state # "STOPPING" => l.network /\ l.time
    PROVE  /\ LET h == IF l.state = "HTTP2" THEN LifeTryAdvance(l, "HTTP2_READY") ELSE l
              IN  /\ h \in LifeRecord /\ h.network = l.network /\ h.time = l.time
                  /\ h.registered = l.registered /\ h.configured = l.configured
                  /\ h.state = IF l.state = "HTTP2" THEN "REGISTERING" ELSE l.state
           /\ LET r == LifeTryAdvance(l, "REGISTERED")
              IN  /\ r \in LifeRecord /\ r.network = l.network /\ r.time = l.time
                  /\ r.configured = l.configured
                  /\ \/ l.state \notin {"REGISTERING", "CONFIG_FAILED"} /\ r = l
                     \/ /\ r.registered /\ l.state \in {"REGISTERING", "CONFIG_FAILED"}
                        /\ r.state = IF l.configured THEN "ONLINE"
                                     ELSE IF l.state = "CONFIG_FAILED" THEN l.state
                                     ELSE "WAIT_CONFIG"
<1>1. LifeTryAdvance(l, "HTTP2_READY") \in LifeRecord /\ LifeTryAdvance(l, "REGISTERED") \in LifeRecord
  BY LifeTypes DEF Events
<1> USE DEF LifeTryAdvance, LifeAdvance, AdvanceAllowed, AdvanceFrom, Terminal,
        SessionStates, Negotiated, LifeRecord
<1>2. CASE l.state = "HTTP2"  BY <1>1, <1>2
<1>3. CASE l.state \in {"REGISTERING", "CONFIG_FAILED"}  BY <1>1, <1>3
<1>4. CASE l.state \notin {"HTTP2", "REGISTERING", "CONFIG_FAILED"}
  <2>1. LifeTryAdvance(l, "REGISTERED") = l  BY <1>4
  <2> QED  BY <1>4, <2>1
<1> QED  BY <1>2, <1>3, <1>4

\* A control stream starts a new RPC session, which forgets the old one's
\* refusal.
LEMMA OpenControlInv ==
    ASSUME IInv, NEW ok \in BOOLEAN, OpenControl(ok)
    PROVE  IInv'
<1> DEFINE r == RpcBegin(RpcInit)
           k == IF ok THEN "open" ELSE "reset"
<1>0. /\ conn \in ConnRecord /\ life \in LifeRecord /\ hist \in HistRecord
      /\ pc = "read" /\ conn.control = "none" /\ ~stopping
      /\ UNCHANGED <<apiVars, pc, stopping, snapshot>>
      /\ life' = IF life.state = "HTTP2" THEN LifeTryAdvance(life, "HTTP2_READY") ELSE life
      /\ hist' = [hist EXCEPT !.denied = FALSE, !.embargo = 0]
  BY DEF IInv, Types, OpenControl, Reading, Frame
<1>1. conn.h2 /\ conn.tls /\ conn.attempt /\ life.state \in {"HTTP2"} \cup Negotiated
      /\ life.network /\ life.time
  BY <1>0 DEF IInv, Resources, SessionStates, Ready
<1>2. r \in RpcRecord /\ r.state = "BOOTSTRAPPING" /\ k \in Flags
  BY DEF RpcBegin, RpcInit, RpcRecord, RpcStates, Flags
<1>3. conn' = [conn EXCEPT !.queued = TRUE, !.deferred = FALSE, !.control = k,
                           !.rpc = r, !.deadline = RegisterMs]
  BY <1>0 DEF OpenControl, Enqueue, ConnRecord
<1> HIDE DEF r, k
<1>4. conn' \in ConnRecord
  <2>1. RegisterMs \in Nat  BY TunnelAssumption
  <2> QED  BY <1>0, <1>2, <1>3, <2>1 DEF ConnRecord
<1>5. /\ conn'.attempt = conn.attempt /\ conn'.dns = conn.dns /\ conn'.tls = conn.tls
      /\ conn'.h2 = conn.h2 /\ conn'.rpc = r /\ conn'.remote = conn.remote
      /\ conn'.secret = conn.secret /\ conn'.queued /\ ~conn'.deferred
      /\ conn'.fault = conn.fault /\ conn'.app = conn.app
      /\ conn'.goawaySent = conn.goawaySent
  BY <1>0, <1>3 DEF ConnRecord
<1>6. /\ life' \in LifeRecord /\ life'.network /\ life'.time
      /\ life'.registered = life.registered /\ life'.configured = life.configured
      /\ life'.state = IF life.state = "HTTP2" THEN "REGISTERING" ELSE life.state
  BY <1>0, <1>1, SessionAdvance DEF SessionStates
<1>7. /\ hist' \in HistRecord /\ ~hist'.denied /\ hist'.embargo = 0
      /\ hist'.mark = hist.mark /\ hist'.used = hist.used
  <2>1. 0 \in 0..MaxHint  BY TunnelAssumption, RetryAssumption
  <2> QED  BY <1>0, <2>1 DEF HistRecord
<1> USE DEF IInv
<1>8. Types' /\ Quiet'  BY <1>0, <1>4, <1>6, <1>7 DEF Types, Quiet, apiVars
<1>9. Resources' /\ Ready'
  BY <1>0, <1>1, <1>5, <1>6 DEF Resources, Ready, SessionStates, Negotiated
<1>10. Session' /\ Secrets'
  BY <1>1, <1>2, <1>5, <1>6 DEF Session, Secrets, Negotiated
<1>11. Standing'
  BY <1>0, <1>1, <1>5, <1>6 DEF Standing, Negotiated
<1>12. Refusal'  BY <1>7 DEF Refusal
<1>13. Fresh' /\ NoLostWakeup' /\ GoawayAfterGoodbye'
  BY <1>0, <1>5, <1>7 DEF Fresh, ReloadTakesEffect, apiVars, NoLostWakeup, GoawayAfterGoodbye
<1> QED  BY <1>8, <1>9, <1>10, <1>11, <1>12, <1>13

\* A Return: refused frames break the stream, accepted ones move the RPC
\* session, and with it the lifecycle or the record of a refusal, on.
LEMMA ControlFrameInv ==
    ASSUME IInv, NEW f \in Frames(Delays), ControlFrame(f)
    PROVE  IInv'
<1> DEFINE g == RpcReceive(conn.rpc, f)
           d == [conn EXCEPT !.rpc = g.rpc]
           c == IF g.out = <<>> THEN d ELSE Enqueue(d)
<1>0. /\ conn \in ConnRecord /\ life \in LifeRecord /\ hist \in HistRecord
      /\ conn.rpc \in RpcRecord /\ pc = "read" /\ conn.control = "open"
      /\ UNCHANGED <<apiVars, pc, stopping, snapshot>>
  BY DEF IInv, Types, ConnRecord, ControlFrame, Reading, Frame
<1>1. conn.h2 /\ conn.tls /\ conn.attempt /\ life.state \in SessionStates
      /\ (life.state # "STOPPING" => life.network /\ life.time)
  BY <1>0 DEF IInv, Resources, SessionStates, Ready
<1>2. /\ g.rpc \in RpcRecord
      /\ ~g.ok => \/ g.rpc = conn.rpc /\ conn.rpc.state \in Deaf /\ g.out = <<>>
                  \/ g.rpc.state = "FAILED" /\ conn.rpc.state \notin Deaf
      /\ g.ok => \/ conn.rpc.state = "BOOTSTRAPPING" /\ g.rpc.state = "READY"
                 \/ conn.rpc.state = "REGISTERING" /\ g.rpc.state = "REGISTERED"
                 \/ /\ conn.rpc.state = "REGISTERING" /\ g.rpc.state = "REJECTED"
                    /\ f.retry \in BOOLEAN /\ f.delay \in Int
                    /\ g.rpc.shouldRetry = f.retry
                    /\ g.rpc.retryAfter = RetryAfterMs(f.delay)
                 \/ conn.rpc.state = "UNREGISTERING" /\ g.rpc.state = "CLOSED"
  BY <1>0, ReceiveEffect
<1> DEFINE Body ==
      \/ /\ ~g.ok /\ conn' = Broken(c) /\ UNCHANGED <<life, hist>>
      \/ /\ g.ok /\ c.rpc.state = "READY" /\ conn' = Register(c) /\ UNCHANGED <<life, hist>>
      \/ /\ g.ok /\ c.rpc.state = "REGISTERED"
         /\ conn' = [c EXCEPT !.deadline = RegisterMs]
         /\ life' = LifeTryAdvance(life, "REGISTERED") /\ UNCHANGED hist
      \/ /\ g.ok /\ c.rpc.state = "REJECTED" /\ conn' = [c EXCEPT !.fault = TRUE]
         /\ hist' = [hist EXCEPT !.denied = ~f.retry,
                                 !.embargo = MinOf(RetryAfterMs(f.delay), MaxHint)]
         /\ UNCHANGED life
      \/ g.ok /\ c.rpc.state = "CLOSED" /\ conn' = c /\ UNCHANGED <<life, hist>>
<1>3. Body  BY DEF ControlFrame
<1> HIDE DEF g
<1>4. c \in ConnRecord
  BY <1>0, <1>2 DEF ConnRecord, Enqueue
<1>5. /\ c.attempt = conn.attempt /\ c.dns = conn.dns /\ c.tls = conn.tls
      /\ c.h2 = conn.h2 /\ c.remote = conn.remote /\ c.secret = conn.secret
      /\ c.fault = conn.fault /\ c.app = conn.app /\ c.goawaySent = conn.goawaySent
      /\ c.rpc = g.rpc /\ c.control = "open"
  BY <1>0 DEF ConnRecord, Enqueue
<1>6. /\ g.out = <<>> => c.queued = conn.queued
      /\ c.queued => ~c.deferred
  BY <1>0 DEF ConnRecord, Enqueue, IInv, NoLostWakeup
<1> HIDE DEF d, c
<1> USE DEF IInv
<1>7. CASE ~g.ok /\ conn' = Broken(c) /\ UNCHANGED <<life, hist>>
  <2>1. conn' \in ConnRecord  BY <1>4, <1>7 DEF Broken, ConnRecord, Flags
  <2>2. /\ conn'.attempt = conn.attempt /\ conn'.dns = conn.dns /\ conn'.tls = conn.tls
        /\ conn'.h2 = conn.h2 /\ conn'.remote = conn.remote /\ conn'.secret = conn.secret
        /\ conn'.fault /\ conn'.app = conn.app /\ conn'.goawaySent = conn.goawaySent
        /\ conn'.rpc = g.rpc /\ conn'.control = "reset" /\ conn'.queued = c.queued
    BY <1>4, <1>5, <1>7 DEF Broken, ConnRecord
  <2>3. Types' /\ Quiet'  BY <1>0, <1>7, <2>1 DEF Types, Quiet, apiVars
  <2>4. Resources' /\ Ready'  BY <1>0, <1>7, <2>2 DEF Resources, Ready
  <2>5. Session' /\ Secrets'
    BY <1>1, <1>2, <1>7, <2>2 DEF Session, Secrets, Deaf
  <2>6. Standing'  BY <1>7, <2>2 DEF Standing
  <2>7. Refusal'
    <3>1. Refused => Refused' /\ conn'.rpc = conn.rpc
      BY <1>0, <1>2, <1>7, <2>2 DEF Refused, Deaf
    <3>2. Refused => Hint(conn)' = Hint(conn)  BY <3>1 DEF Hint, MinOf
    <3> QED  BY <1>7, <3>1, <3>2 DEF Refusal
  <2>8. Fresh'  BY <1>0, <1>7, <2>2 DEF Fresh, ReloadTakesEffect, apiVars
  <2>9. NoLostWakeup' /\ GoawayAfterGoodbye'
    BY <1>0, <1>2, <1>6, <1>7, <2>2 DEF NoLostWakeup, GoawayAfterGoodbye, Deaf
  <2> QED  BY <2>3, <2>4, <2>5, <2>6, <2>7, <2>8, <2>9
<1>8. CASE g.ok /\ c.rpc.state = "READY" /\ conn' = Register(c) /\ UNCHANGED <<life, hist>>
  <2>0. conn.rpc.state = "BOOTSTRAPPING" /\ life.state # "STOPPING"
    BY <1>2, <1>5, <1>8 DEF Session
  <2>1. /\ conn' \in ConnRecord
        /\ \/ /\ conn' = [Enqueue(c) EXCEPT !.rpc = RpcRegister(@), !.secret = FALSE]
              /\ conn'.rpc.state = "REGISTERING" /\ conn'.queued /\ ~conn'.deferred
              /\ conn'.control = "open"
           \/ /\ conn' = [Broken(c) EXCEPT !.secret = FALSE]
              /\ conn'.rpc.state = "READY" /\ conn'.control = "reset"
    <3>1. RpcRegister(c.rpc) \in RpcRecord /\ RpcRegister(c.rpc).state = "REGISTERING"
      BY <1>4 DEF ConnRecord, RpcRegister, RpcRecord, RpcStates
    <3>2. CASE conn' = [Enqueue(c) EXCEPT !.rpc = RpcRegister(@), !.secret = FALSE]
      <4>1. conn' = [c EXCEPT !.queued = TRUE, !.deferred = FALSE, !.rpc = RpcRegister(c.rpc),
                              !.secret = FALSE]
        BY <1>4, <1>5, <3>2 DEF ConnRecord, Enqueue
      <4>2. conn' \in ConnRecord  BY <1>4, <3>1, <4>1 DEF ConnRecord
      <4>3. /\ conn'.rpc = RpcRegister(c.rpc) /\ conn'.queued /\ ~conn'.deferred
            /\ conn'.control = c.control
        BY <1>4, <4>1 DEF ConnRecord
      <4> QED  BY <1>5, <3>1, <3>2, <4>2, <4>3
    <3>3. CASE conn' = [Broken(c) EXCEPT !.secret = FALSE]
      <4>1. conn' \in ConnRecord  BY <1>4, <3>3 DEF ConnRecord, Broken, Flags
      <4>2. conn'.rpc = c.rpc /\ conn'.control = "reset"
        BY <1>4, <3>3 DEF ConnRecord, Broken
      <4> QED  BY <1>8, <3>3, <4>1, <4>2
    <3> QED  BY <1>8, <3>2, <3>3 DEF Register
  <2>2. /\ conn'.attempt = conn.attempt /\ conn'.dns = conn.dns /\ conn'.tls = conn.tls
        /\ conn'.h2 = conn.h2 /\ conn'.remote = conn.remote /\ ~conn'.secret
        /\ conn'.app = conn.app /\ conn'.goawaySent = conn.goawaySent
        /\ conn.fault => conn'.fault
    <3>1. CASE conn' = [Enqueue(c) EXCEPT !.rpc = RpcRegister(@), !.secret = FALSE]
      <4>1. conn' = [c EXCEPT !.queued = TRUE, !.deferred = FALSE, !.rpc = RpcRegister(c.rpc),
                              !.secret = FALSE]
        BY <1>4, <1>5, <3>1 DEF ConnRecord, Enqueue
      <4> QED  BY <1>4, <1>5, <4>1 DEF ConnRecord
    <3>2. CASE conn' = [Broken(c) EXCEPT !.secret = FALSE]
      BY <1>4, <1>5, <3>2 DEF ConnRecord, Broken
    <3> QED  BY <2>1, <3>1, <3>2
  <2>3. Types' /\ Quiet'  BY <1>0, <1>8, <2>1 DEF Types, Quiet, apiVars
  <2>4. Resources' /\ Ready'  BY <1>0, <1>8, <2>2 DEF Resources, Ready
  <2>5. Session' /\ Secrets'
    BY <1>1, <1>8, <2>0, <2>1, <2>2 DEF Session, Secrets
  <2>6. Standing'  BY <1>8, <2>0, <2>2 DEF Standing
  <2>7. Refusal'  BY <1>8, <2>0 DEF Refusal, Refused
  <2>8. Fresh'  BY <1>0, <1>8, <2>2 DEF Fresh, ReloadTakesEffect, apiVars
  <2>9. NoLostWakeup' /\ GoawayAfterGoodbye'
    BY <1>0, <2>0, <2>1, <2>2 DEF NoLostWakeup, GoawayAfterGoodbye
  <2> QED  BY <2>3, <2>4, <2>5, <2>6, <2>7, <2>8, <2>9
<1>9. CASE /\ g.ok /\ c.rpc.state = "REGISTERED"
           /\ conn' = [c EXCEPT !.deadline = RegisterMs]
           /\ life' = LifeTryAdvance(life, "REGISTERED") /\ UNCHANGED hist
  <2>0. conn.rpc.state = "REGISTERING" /\ life.state \in Negotiated
    BY <1>2, <1>5, <1>9 DEF Session
  <2>1. conn' \in ConnRecord
    <3>1. RegisterMs \in Nat  BY TunnelAssumption
    <3> QED  BY <1>4, <1>9, <3>1 DEF ConnRecord
  <2>2. /\ conn'.attempt = conn.attempt /\ conn'.dns = conn.dns /\ conn'.tls = conn.tls
        /\ conn'.h2 = conn.h2 /\ conn'.remote = conn.remote /\ conn'.secret = conn.secret
        /\ conn'.fault = conn.fault /\ conn'.app = conn.app
        /\ conn'.goawaySent = conn.goawaySent /\ conn'.rpc.state = "REGISTERED"
        /\ conn'.control = "open" /\ conn'.queued = c.queued /\ conn'.deferred = c.deferred
    BY <1>4, <1>5, <1>9 DEF ConnRecord
  <2>3. /\ life' \in LifeRecord /\ life'.network = life.network /\ life'.time = life.time
        /\ life'.configured = life.configured
        /\ \/ life.state \notin {"REGISTERING", "CONFIG_FAILED"} /\ life' = life
           \/ /\ life'.registered /\ life.state \in {"REGISTERING", "CONFIG_FAILED"}
              /\ life'.state = IF life.configured THEN "ONLINE"
                               ELSE IF life.state = "CONFIG_FAILED" THEN life.state
                               ELSE "WAIT_CONFIG"
    BY <1>0, <1>1, <1>9, SessionAdvance
  <2>4. life'.state \in Negotiated  BY <2>0, <2>3 DEF Negotiated
  <2>5. Types' /\ Quiet'  BY <1>0, <1>9, <2>1, <2>3 DEF Types, Quiet, apiVars
  <2>6. Resources' /\ Ready'
    BY <1>0, <1>1, <1>9, <2>0, <2>2, <2>3, <2>4 DEF Resources, Ready, SessionStates, Negotiated
  <2>7. Session' /\ Secrets'
    BY <1>1, <2>0, <2>2, <2>4 DEF Session, Secrets, Negotiated
  <2>8. Standing'  BY <2>0, <2>2, <2>3 DEF Standing, Negotiated
  <2>9. Refusal'
    BY <1>9, <2>0 DEF Refusal, Refused, Negotiated
  <2>10. Fresh'  BY <1>0, <1>9, <2>2 DEF Fresh, ReloadTakesEffect, apiVars
  <2>11. NoLostWakeup' /\ GoawayAfterGoodbye'
    BY <1>0, <1>6, <2>0, <2>2 DEF NoLostWakeup, GoawayAfterGoodbye
  <2> QED  BY <2>5, <2>6, <2>7, <2>8, <2>9, <2>10, <2>11
<1>10. CASE /\ g.ok /\ c.rpc.state = "REJECTED" /\ conn' = [c EXCEPT !.fault = TRUE]
            /\ hist' = [hist EXCEPT !.denied = ~f.retry,
                                    !.embargo = MinOf(RetryAfterMs(f.delay), MaxHint)]
            /\ UNCHANGED life
  <2> DEFINE wait == MinOf(RetryAfterMs(f.delay), MaxHint)
  <2>0. /\ conn.rpc.state = "REGISTERING" /\ life.state \in Negotiated
        /\ f.retry \in BOOLEAN /\ f.delay \in Int
        /\ c.rpc.shouldRetry = f.retry /\ c.rpc.retryAfter = RetryAfterMs(f.delay)
    BY <1>2, <1>5, <1>10 DEF Session
  <2>1. conn' \in ConnRecord  BY <1>4, <1>10 DEF ConnRecord
  <2>2. /\ conn'.attempt = conn.attempt /\ conn'.dns = conn.dns /\ conn'.tls = conn.tls
        /\ conn'.h2 = conn.h2 /\ conn'.remote = conn.remote /\ conn'.secret = conn.secret
        /\ conn'.fault /\ conn'.app = conn.app
        /\ conn'.goawaySent = conn.goawaySent /\ conn'.rpc = c.rpc
        /\ conn'.control = "open" /\ conn'.queued = c.queued /\ conn'.deferred = c.deferred
    BY <1>4, <1>5, <1>10 DEF ConnRecord
  <2>3. wait \in 0..MaxHint /\ Hint(conn)' = wait
    BY <1>10, <2>0, <2>2, DelayNat DEF Hint
  <2> HIDE DEF wait
  <2>4. /\ hist' \in HistRecord /\ hist'.mark = hist.mark /\ hist'.used = hist.used
        /\ hist'.denied = ~f.retry /\ hist'.embargo = wait
    BY <1>0, <1>10, <2>0, <2>3 DEF HistRecord, wait
  <2>5. Types' /\ Quiet'  BY <1>0, <1>10, <2>1, <2>4 DEF Types, Quiet, apiVars
  <2>6. Resources' /\ Ready'  BY <1>0, <1>10, <2>2 DEF Resources, Ready
  <2>7. Session' /\ Secrets'
    BY <1>1, <1>10, <2>0, <2>2 DEF Session, Secrets, Negotiated
  <2>8. Standing'  BY <1>10, <2>2 DEF Standing
  <2>9. Refusal'
    <3>1. Refused'  BY <1>0, <1>10, <2>2 DEF Refused
    <3>2. Hint(conn)' >= hist'.embargo
      BY <2>3, <2>4, TunnelAssumption, RetryAssumption
    <3> QED  BY <2>0, <2>2, <2>4, <3>1, <3>2 DEF Refusal
  <2>10. Fresh'  BY <1>0, <2>2, <2>4 DEF Fresh, ReloadTakesEffect, apiVars
  <2>11. NoLostWakeup' /\ GoawayAfterGoodbye'
    BY <1>0, <1>6, <2>0, <2>2 DEF NoLostWakeup, GoawayAfterGoodbye
  <2> QED  BY <2>5, <2>6, <2>7, <2>8, <2>9, <2>10, <2>11
<1>11. CASE g.ok /\ c.rpc.state = "CLOSED" /\ conn' = c /\ UNCHANGED <<life, hist>>
  <2>0. conn.rpc.state = "UNREGISTERING"  BY <1>2, <1>5, <1>11
  <2>1. Types' /\ Quiet'  BY <1>0, <1>4, <1>11 DEF Types, Quiet, apiVars
  <2>2. Resources' /\ Ready'  BY <1>0, <1>5, <1>11 DEF Resources, Ready
  <2>3. Session' /\ Secrets'
    BY <1>1, <1>5, <1>11, <2>0 DEF Session, Secrets
  <2>4. Standing'  BY <1>5, <1>11, <2>0 DEF Standing
  <2>5. Refusal'  BY <1>11, <2>0 DEF Refusal, Refused
  <2>6. Fresh'  BY <1>0, <1>5, <1>11 DEF Fresh, ReloadTakesEffect, apiVars
  <2>7. NoLostWakeup' /\ GoawayAfterGoodbye'
    BY <1>0, <1>5, <1>6, <1>11, <2>0 DEF NoLostWakeup, GoawayAfterGoodbye
  <2> QED  BY <2>1, <2>2, <2>3, <2>4, <2>5, <2>6, <2>7
<1> QED  BY <1>3, <1>7, <1>8, <1>9, <1>10, <1>11

\* Frames that open, feed or close streams.
LEMMA StreamInv ==
    ASSUME IInv,
           \/ ControlBroken \/ CloseStream \/ OpenConfig \/ OpenApp
           \/ \E fits \in BOOLEAN : ConfigData(fits)
    PROVE  IInv'
<1>0. /\ conn \in ConnRecord /\ snapshot \in States /\ life \in LifeRecord
      /\ pc = "read" /\ conn.h2 /\ UNCHANGED <<pc, snapshot>>
      /\ UNCHANGED <<apiVars, life, stopping, hist>>
  BY DEF IInv, Types, Resources, ControlBroken, CloseStream, OpenConfig, OpenApp,
         ConfigData, Reading, Frame
<1>1. /\ conn' \in ConnRecord
      /\ conn'.attempt = conn.attempt /\ conn'.dns = conn.dns /\ conn'.tls = conn.tls
      /\ conn'.h2 = conn.h2 /\ conn'.rpc = conn.rpc /\ conn'.remote = conn.remote
      /\ conn'.secret = conn.secret /\ conn'.queued = conn.queued
      /\ conn'.goawaySent = conn.goawaySent
      /\ conn.fault => conn'.fault
      /\ conn'.app => conn.app \/ life.state = "ONLINE"
      /\ conn'.control = conn.control \/ conn'.fault \/ stopping
      /\ conn'.control = "open" => conn.control = "open" /\ conn'.deferred = conn.deferred
  <2>1. CASE conn' = Broken(conn)  BY <1>0, <2>1 DEF Broken, ConnRecord, Flags
  <2>2. CASE conn' = ControlClosed(conn)
    <3> DEFINE b == conn.fault \/ ~stopping \/ conn.rpc.state # "CLOSED"
    <3>1. conn' = [conn EXCEPT !.control = "none", !.deferred = FALSE, !.fault = b]
      BY <1>0, <2>2 DEF ControlClosed, ConnRecord
    <3>2. b \in BOOLEAN /\ (conn.fault => b) /\ (b \/ stopping)
      BY <1>0 DEF ConnRecord
    <3> HIDE DEF b
    <3>3. conn' \in ConnRecord  BY <1>0, <3>1, <3>2 DEF ConnRecord, Flags
    <3>4. /\ conn'.attempt = conn.attempt /\ conn'.dns = conn.dns /\ conn'.tls = conn.tls
          /\ conn'.h2 = conn.h2 /\ conn'.rpc = conn.rpc /\ conn'.remote = conn.remote
          /\ conn'.secret = conn.secret /\ conn'.queued = conn.queued
          /\ conn'.goawaySent = conn.goawaySent /\ conn'.fault = b
          /\ conn'.app = conn.app /\ conn'.control = "none"
      BY <1>0, <3>1 DEF ConnRecord
    <3> QED  BY <3>2, <3>3, <3>4
  <2>3. CASE conn' = ConfigClosed(conn)  BY <1>0, <2>3 DEF ConfigClosed, ConnRecord, Flags
  <2>4. CASE conn' = [conn EXCEPT !.app = FALSE]  BY <1>0, <2>4 DEF ConnRecord
  <2>5. CASE conn' = [conn EXCEPT !.config = "open", !.pending = FALSE, !.reply = "none"]
    BY <1>0, <2>5 DEF ConnRecord, Flags
  <2>6. CASE conn' = [conn EXCEPT !.pending = TRUE]  BY <1>0, <2>6 DEF ConnRecord
  <2>7. CASE conn' = [conn EXCEPT !.config = "reset"]  BY <1>0, <2>7 DEF ConnRecord, Flags
  <2>8. CASE conn' = [conn EXCEPT !.app = TRUE] /\ AppAdmitted
    BY <1>0, <2>8 DEF ConnRecord, AppAdmitted
  <2> QED
    BY <2>1, <2>2, <2>3, <2>4, <2>5, <2>6, <2>7, <2>8
    DEF ControlBroken, CloseStream, OpenConfig, OpenApp, ConfigData
<1>2. NoLostWakeup' /\ GoawayAfterGoodbye'
  BY <1>0, <1>1 DEF IInv, NoLostWakeup, GoawayAfterGoodbye
<1> QED  BY <1>0, <1>1, <1>2, MinorInv DEF Loop

\* SETTINGS of the edge, and the end of a batch.
LEMMA BatchInv == IInv /\ (Settings \/ ReadEnds \/ ReadFails \/ PostEnded) => IInv'
<1> SUFFICES ASSUME IInv, Settings \/ ReadEnds \/ ReadFails \/ PostEnded PROVE IInv'
  OBVIOUS
<1>0. /\ conn \in ConnRecord /\ snapshot \in States /\ life \in LifeRecord
      /\ pc \in {"read", "post"}
  BY DEF IInv, Types, Settings, Reading, ReadEnds, ReadFails, PostEnded
<1>1. CASE Settings
  <2>0. /\ UNCHANGED <<apiVars, pc, stopping, snapshot, conn, hist>>
        /\ life' = IF life.state = "HTTP2" THEN LifeTryAdvance(life, "HTTP2_READY") ELSE life
    BY <1>1 DEF Settings, Frame
  <2>1. /\ life.state \in SessionStates
        /\ life.state # "STOPPING" => life.network /\ life.time
    BY <1>0 DEF IInv, Resources, Ready, SessionStates
  <2>2. /\ life' \in LifeRecord /\ life'.network = life.network /\ life'.time = life.time
        /\ life'.registered = life.registered /\ life'.configured = life.configured
        /\ life'.state = IF life.state = "HTTP2" THEN "REGISTERING" ELSE life.state
    BY <1>0, <2>0, <2>1, SessionAdvance
  <2> USE DEF IInv
  <2>3. Types' /\ Quiet'  BY <1>0, <2>0, <2>2 DEF Types, Quiet, apiVars
  <2>4. Resources' /\ Ready'
    BY <1>0, <2>0, <2>1, <2>2 DEF Resources, Ready, SessionStates, Negotiated
  <2>5. Session' /\ Secrets'
    BY <2>0, <2>2 DEF Session, Secrets, Negotiated
  <2>6. Standing'  BY <2>0, <2>2 DEF Standing
  <2>7. Refusal'
    <3>1. life.state \notin {"AUTH_FAILED", "BACKOFF"}  BY <2>1 DEF SessionStates, Negotiated
    <3>2. Refused' = Refused /\ Hint(conn)' = Hint(conn)  BY <2>0 DEF Refused, Hint, MinOf
    <3> QED  BY <2>0, <3>1, <3>2 DEF Refusal
  <2>8. Fresh' /\ NoLostWakeup' /\ GoawayAfterGoodbye'
    BY <2>0 DEF Fresh, ReloadTakesEffect, NoLostWakeup, GoawayAfterGoodbye, apiVars
  <2> QED  BY <2>3, <2>4, <2>5, <2>6, <2>7, <2>8
<1>2. CASE ReadEnds
  <2>1. /\ conn' = conn /\ pc = "read" /\ pc' = "post" /\ snapshot' = snapshot
        /\ UNCHANGED <<apiVars, life, stopping, hist>>
    BY <1>2 DEF ReadEnds
  <2>2. NoLostWakeup' /\ GoawayAfterGoodbye'
    BY <2>1 DEF IInv, NoLostWakeup, GoawayAfterGoodbye
  <2>3. conn.h2  BY <2>1 DEF IInv, Resources
  <2> QED  BY <1>0, <2>1, <2>2, <2>3, MinorInv DEF Loop
<1>3. CASE ReadFails \/ PostEnded
  <2>1. Disconnected(conn, life) /\ UNCHANGED <<apiVars, stopping, snapshot, hist>>
    BY <1>3 DEF ReadFails, PostEnded
  <2> QED  BY <1>0, <2>1, DisconnectedInv
<1> QED  BY <1>1, <1>2, <1>3

-----------------------------------------------------------------------------
\* A verdict on a configuration, on a session.
LEMMA ConfigAdvance ==
    ASSUME NEW l \in LifeRecord, l.state \in SessionStates,
           l.state # "STOPPING" => l.network /\ l.time,
           NEW e \in {"CONFIG_APPLIED", "CONFIG_REJECTED"}
    PROVE  LET r == LifeTryAdvance(l, e)
           IN  /\ r \in LifeRecord /\ r.network = l.network /\ r.time = l.time
               /\ r.registered = l.registered
               /\ r.configured =
                    (l.configured \/ (e = "CONFIG_APPLIED" /\ l.state \in Negotiated))
               /\ r.state = IF l.state \notin Negotiated THEN l.state
                            ELSE IF e = "CONFIG_APPLIED"
                            THEN IF l.registered THEN "ONLINE" ELSE "REGISTERING"
                            ELSE IF l.configured THEN l.state ELSE "CONFIG_FAILED"
<1>1. LifeTryAdvance(l, e) \in LifeRecord  BY LifeTypes DEF Events
<1> USE DEF LifeTryAdvance, LifeAdvance, AdvanceAllowed, AdvanceFrom, Terminal,
        SessionStates, Negotiated, LifeRecord
<1>2. CASE l.state \in Negotiated /\ e = "CONFIG_APPLIED"  BY <1>1, <1>2
<1>3. CASE l.state \in Negotiated /\ e = "CONFIG_REJECTED"  BY <1>1, <1>3
<1>4. CASE l.state \notin Negotiated
  <2>1. LifeTryAdvance(l, e) = l  BY <1>4
  <2> QED  BY <1>4, <2>1
<1> QED  BY <1>2, <1>3, <1>4

\* The configuration in force only gives way to a newer one.
LEMMA ConfigKept ==
    ASSUME NEW remote \in Versions \cup {NoConfig}, NEW update \in Versions \cup {NoConfig}
    PROVE  /\ ConfigApply(remote, update) \in Versions \cup {NoConfig}
           /\ ConfigApply(remote, update) >= remote
           /\ update # NoConfig \/ remote # NoConfig => ConfigApply(remote, update) # NoConfig
BY TunnelAssumption DEF ConfigApply, NoConfig

\* After the batch an idle configuration stream may be reset, and a graceful
\* stop says goodbye once its last message is gone.
LEMMA AfterApplyEffect ==
    ASSUME NEW c \in ConnRecord, NEW idle \in BOOLEAN
    PROVE  LET a == AfterApply(c, idle)
           IN  /\ a \in ConnRecord
               /\ a.attempt = c.attempt /\ a.dns = c.dns /\ a.tls = c.tls /\ a.h2 = c.h2
               /\ a.rpc = c.rpc /\ a.remote = c.remote /\ a.secret = c.secret
               /\ a.queued = c.queued /\ a.control = c.control /\ a.deferred = c.deferred
               /\ a.fault = c.fault /\ a.app = c.app
               /\ a.goawaySent =>
                    c.goawaySent \/ (stopping /\ c.rpc.state = "CLOSED" /\ ~c.queued)
<1> DEFINE t == IF idle /\ c.config = "open" THEN [c EXCEPT !.config = "reset"] ELSE c
<1>1. /\ t \in ConnRecord
      /\ t.attempt = c.attempt /\ t.dns = c.dns /\ t.tls = c.tls /\ t.h2 = c.h2
      /\ t.rpc = c.rpc /\ t.remote = c.remote /\ t.secret = c.secret
      /\ t.queued = c.queued /\ t.control = c.control /\ t.deferred = c.deferred
      /\ t.fault = c.fault /\ t.app = c.app /\ t.goawaySent = c.goawaySent
  BY DEF ConnRecord, Flags
<1>2. AfterApply(c, idle) = IF Farewell(t) THEN [t EXCEPT !.goawaySent = TRUE] ELSE t
  BY DEF AfterApply
<1> HIDE DEF t
<1>3. CASE Farewell(t)
  <2>1. [t EXCEPT !.goawaySent = TRUE] \in ConnRecord  BY <1>1 DEF ConnRecord
  <2> QED  BY <1>1, <1>2, <1>3, <2>1 DEF ConnRecord, Farewell
<1>4. CASE ~Farewell(t)  BY <1>1, <1>2, <1>4
<1> QED  BY <1>3, <1>4

\* The rest of an iteration after a batch without fault.
LEMMA PostInv ==
    ASSUME IInv,
           \/ \E idle \in BOOLEAN : PostIdle(idle)
           \/ \E update \in Versions \cup {NoConfig}, ok, idle \in BOOLEAN :
                PostApply(update, ok, idle)
    PROVE  IInv'
<1>0. /\ conn \in ConnRecord /\ snapshot \in States /\ life \in LifeRecord
      /\ pc = "post" /\ pc' = "write" /\ ~conn.fault
      /\ UNCHANGED <<apiVars, stopping, snapshot, hist>>
  BY DEF IInv, Types, PostIdle, PostApply
<1>1. /\ conn.h2 /\ life.state \in SessionStates /\ ~Refused
      /\ life.state # "STOPPING" => life.network /\ life.time
  BY <1>0 DEF IInv, Resources, Ready, SessionStates, Refused
<1>2. ASSUME NEW idle \in BOOLEAN, PostIdle(idle)
      PROVE  IInv'
  <2>1. conn' = AfterApply(conn, idle) /\ UNCHANGED <<apiVars, life, stopping, hist>>
    BY <1>2 DEF PostIdle
  <2>2. /\ conn' \in ConnRecord
        /\ conn'.attempt = conn.attempt /\ conn'.dns = conn.dns /\ conn'.tls = conn.tls
        /\ conn'.h2 = conn.h2 /\ conn'.rpc = conn.rpc /\ conn'.remote = conn.remote
        /\ conn'.secret = conn.secret /\ conn'.queued = conn.queued
        /\ conn'.control = conn.control /\ conn'.deferred = conn.deferred
        /\ conn'.fault = conn.fault /\ conn'.app = conn.app
        /\ conn'.goawaySent =>
             conn.goawaySent \/ (stopping /\ conn.rpc.state = "CLOSED" /\ ~conn.queued)
    BY <1>0, <2>1, AfterApplyEffect
  <2>3. NoLostWakeup' /\ GoawayAfterGoodbye'
    BY <1>0, <2>2 DEF IInv, NoLostWakeup, GoawayAfterGoodbye
  <2> QED  BY <1>0, <1>1, <2>1, <2>2, <2>3, MinorInv DEF Loop
<1>3. ASSUME NEW update \in Versions \cup {NoConfig}, NEW ok \in BOOLEAN,
             NEW idle \in BOOLEAN, PostApply(update, ok, idle)
      PROVE  IInv'
  <2> DEFINE v == ConfigApply(conn.remote, update)
             y == IF update # NoConfig THEN "applied" ELSE "rejected"
             b == conn.config = "reset" \/ ~ok
             e == IF update # NoConfig THEN "CONFIG_APPLIED" ELSE "CONFIG_REJECTED"
             c == [conn EXCEPT !.remote = v, !.reply = y, !.pending = FALSE, !.fault = b]
  <2>1. conn' = AfterApply(c, idle) /\ life' = LifeTryAdvance(life, e)
    BY <1>0, <1>3 DEF PostApply, ConnRecord
  <2>2. /\ v \in Versions \cup {NoConfig} /\ y \in {"none", "applied", "rejected"}
        /\ b \in BOOLEAN /\ e \in {"CONFIG_APPLIED", "CONFIG_REJECTED"}
        /\ e = "CONFIG_APPLIED" \/ conn.remote # NoConfig => v # NoConfig
    <3>1. conn.remote \in Versions \cup {NoConfig}  BY <1>0 DEF ConnRecord
    <3> QED  BY <3>1, ConfigKept
  <2> HIDE DEF v, y, b, e
  <2>3. /\ c \in ConnRecord
        /\ c.attempt = conn.attempt /\ c.dns = conn.dns /\ c.tls = conn.tls
        /\ c.h2 = conn.h2 /\ c.rpc = conn.rpc /\ c.remote = v
        /\ c.secret = conn.secret /\ c.queued = conn.queued
        /\ c.control = conn.control /\ c.deferred = conn.deferred
        /\ c.app = conn.app /\ c.goawaySent = conn.goawaySent
    BY <1>0, <2>2 DEF ConnRecord
  <2> HIDE DEF c
  <2>4. /\ conn' \in ConnRecord
        /\ conn'.attempt = conn.attempt /\ conn'.dns = conn.dns /\ conn'.tls = conn.tls
        /\ conn'.h2 = conn.h2 /\ conn'.rpc = conn.rpc /\ conn'.remote = v
        /\ conn'.secret = conn.secret /\ conn'.queued = conn.queued
        /\ conn'.control = conn.control /\ conn'.deferred = conn.deferred
        /\ conn'.app = conn.app
        /\ conn'.goawaySent =>
             conn.goawaySent \/ (stopping /\ conn.rpc.state = "CLOSED" /\ ~conn.queued)
    <3>1. /\ conn' \in ConnRecord
          /\ conn'.attempt = c.attempt /\ conn'.dns = c.dns /\ conn'.tls = c.tls
          /\ conn'.h2 = c.h2 /\ conn'.rpc = c.rpc /\ conn'.remote = c.remote
          /\ conn'.secret = c.secret /\ conn'.queued = c.queued
          /\ conn'.control = c.control /\ conn'.deferred = c.deferred
          /\ conn'.app = c.app
          /\ conn'.goawaySent =>
               c.goawaySent \/ (stopping /\ c.rpc.state = "CLOSED" /\ ~c.queued)
      BY <2>1, <2>3, AfterApplyEffect
    <3> QED  BY <2>3, <3>1
  <2>5. /\ life' \in LifeRecord /\ life'.network = life.network /\ life'.time = life.time
        /\ life'.registered = life.registered
        /\ life'.configured =
             (life.configured \/ (e = "CONFIG_APPLIED" /\ life.state \in Negotiated))
        /\ life'.state = IF life.state \notin Negotiated THEN life.state
                         ELSE IF e = "CONFIG_APPLIED"
                         THEN IF life.registered THEN "ONLINE" ELSE "REGISTERING"
                         ELSE IF life.configured THEN life.state ELSE "CONFIG_FAILED"
    BY <1>0, <1>1, <2>1, <2>2, ConfigAdvance
  <2>6. /\ life.state \in Negotiated => life'.state \in Negotiated
        /\ life.state \notin Negotiated => life'.state = life.state
    BY <2>5 DEF Negotiated
  <2> USE DEF IInv
  <2>7. Types' /\ Quiet'  BY <1>0, <2>4, <2>5 DEF Types, Quiet, apiVars
  <2>8. Resources' /\ Ready'
    <3>1. life'.state \in SessionStates /\ (life'.state = "STOPPING" <=> life.state = "STOPPING")
      BY <1>1, <2>6 DEF SessionStates, Negotiated
    <3> QED
      BY <1>0, <1>1, <2>4, <2>5, <3>1 DEF Resources, Ready, SessionStates, Negotiated
  <2>9. Session' /\ Secrets'
    BY <2>4, <2>6 DEF Session, Secrets, Negotiated
  <2>10. Standing'
    <3>1. life'.configured => conn'.remote # NoConfig
      BY <2>2, <2>4, <2>5 DEF Standing
    <3>2. /\ life'.registered =>
               life'.state \in {"WAIT_CONFIG", "ONLINE", "CONFIG_FAILED", "STOPPING"}
          /\ life'.state = "ONLINE" => life'.registered /\ life'.configured
      BY <2>2, <2>5 DEF Standing, Negotiated
    <3>3. life'.registered /\ ~conn'.fault /\ life'.state # "STOPPING" =>
            conn'.control = "open" /\ conn'.rpc.state = "REGISTERED"
      BY <1>0, <2>4, <2>5, <2>6 DEF Standing, Negotiated
    <3>4. conn'.app => conn'.remote # NoConfig /\ life'.state \in {"ONLINE", "STOPPING"}
      BY <2>2, <2>4, <2>5 DEF Standing, Negotiated
    <3> QED  BY <3>1, <3>2, <3>3, <3>4 DEF Standing
  <2>11. Refusal'
    BY <1>0, <1>1 DEF Refusal, SessionStates, Negotiated
  <2>12. Fresh' /\ NoLostWakeup' /\ GoawayAfterGoodbye'
    BY <1>0, <2>4 DEF Fresh, ReloadTakesEffect, NoLostWakeup, GoawayAfterGoodbye, apiVars
  <2> QED  BY <2>7, <2>8, <2>9, <2>10, <2>11, <2>12
<1> QED  BY <1>2, <1>3

\* Output is written, stalls or fails; the deadlines are looked at.
LEMMA WriteInv == IInv /\ (WriteOutput \/ WriteEnds \/ WriteStalls \/ WriteFails) => IInv'
<1> SUFFICES ASSUME IInv, WriteOutput \/ WriteEnds \/ WriteStalls \/ WriteFails
             PROVE  IInv'
  OBVIOUS
<1>0. /\ conn \in ConnRecord /\ snapshot \in States /\ life \in LifeRecord
      /\ pc = "write" /\ UNCHANGED <<apiVars, stopping, snapshot, hist>>
  BY DEF IInv, Types, WriteOutput, WriteEnds, WriteStalls, WriteFails
<1>1. conn.h2 /\ ~Refused  BY <1>0 DEF IInv, Resources, Refused
<1>2. CASE WriteOutput
  <2> DEFINE c == [conn EXCEPT !.stall = NoStall]
  <2>0. pc' = pc /\ UNCHANGED <<apiVars, life, stopping, hist>>  BY <1>2 DEF WriteOutput
  <2>1. /\ c \in ConnRecord
        /\ c.attempt = conn.attempt /\ c.dns = conn.dns /\ c.tls = conn.tls
        /\ c.h2 = conn.h2 /\ c.rpc = conn.rpc /\ c.remote = conn.remote
        /\ c.secret = conn.secret /\ c.queued = conn.queued
        /\ c.control = conn.control /\ c.deferred = conn.deferred
        /\ c.fault = conn.fault /\ c.app = conn.app /\ c.goawaySent = conn.goawaySent
    <3>1. NoStall \in NoStall..StallMs  BY TunnelAssumption DEF NoStall
    <3> QED  BY <1>0, <3>1 DEF ConnRecord
  <2> DEFINE Body ==
        \/ /\ c.control = "open" /\ ~c.deferred /\ c.queued
           /\ conn' = [c EXCEPT !.queued = FALSE]
        \/ /\ c.control = "open" /\ ~c.deferred /\ ~c.queued /\ c.rpc.state # "CLOSED"
           /\ conn' = [c EXCEPT !.deferred = TRUE]
        \/ c.control = "reset" /\ conn' = ControlClosed(c)
        \/ c.config = "reset" /\ conn' = ConfigClosed(c)
        \/ c.config = "open" /\ c.reply # "none" /\ conn' = ConfigClosed(c)
        \/ c.app /\ conn' = [c EXCEPT !.app = FALSE]
        \/ conn.stall # NoStall /\ conn' = c
  <2>2. Body  BY <1>2 DEF WriteOutput
  <2> HIDE DEF c
  <2>3. /\ conn' \in ConnRecord
        /\ conn'.attempt = c.attempt /\ conn'.dns = c.dns /\ conn'.tls = c.tls
        /\ conn'.h2 = c.h2 /\ conn'.rpc = c.rpc /\ conn'.remote = c.remote
        /\ conn'.secret = c.secret /\ (conn'.queued => c.queued)
        /\ conn'.goawaySent = c.goawaySent
        /\ c.fault => conn'.fault
        /\ conn'.app => c.app
        /\ conn'.control = c.control \/ conn'.fault \/ stopping
        /\ conn'.queued /\ conn'.control = "open" =>
             c.control = "open" /\ conn'.deferred = c.deferred
    <3>1. CASE conn' = [c EXCEPT !.queued = FALSE]  BY <2>1, <3>1 DEF ConnRecord
    <3>2. CASE ~c.queued /\ conn' = [c EXCEPT !.deferred = TRUE]
      BY <2>1, <3>2 DEF ConnRecord
    <3>3. CASE conn' = ControlClosed(c)
      <4> DEFINE b == c.fault \/ ~stopping \/ c.rpc.state # "CLOSED"
      <4>1. conn' = [c EXCEPT !.control = "none", !.deferred = FALSE, !.fault = b]
        BY <2>1, <3>3 DEF ControlClosed, ConnRecord
      <4>2. b \in BOOLEAN /\ (c.fault => b) /\ (b \/ stopping)
        BY <2>1 DEF ConnRecord
      <4> HIDE DEF b
      <4>3. conn' \in ConnRecord  BY <2>1, <4>1, <4>2 DEF ConnRecord, Flags
      <4>4. /\ conn'.attempt = c.attempt /\ conn'.dns = c.dns /\ conn'.tls = c.tls
            /\ conn'.h2 = c.h2 /\ conn'.rpc = c.rpc /\ conn'.remote = c.remote
            /\ conn'.secret = c.secret /\ conn'.queued = c.queued
            /\ conn'.goawaySent = c.goawaySent /\ conn'.fault = b
            /\ conn'.app = c.app /\ conn'.control = "none"
        BY <2>1, <4>1 DEF ConnRecord
      <4> QED  BY <4>2, <4>3, <4>4
    <3>4. CASE conn' = ConfigClosed(c)  BY <2>1, <3>4 DEF ConfigClosed, ConnRecord, Flags
    <3>5. CASE conn' = [c EXCEPT !.app = FALSE]  BY <2>1, <3>5 DEF ConnRecord
    <3>6. CASE conn' = c  BY <2>1, <3>6
    <3> QED  BY <2>2, <3>1, <3>2, <3>3, <3>4, <3>5, <3>6
  <2>4. NoLostWakeup' /\ GoawayAfterGoodbye'
    BY <1>0, <2>1, <2>3 DEF IInv, NoLostWakeup, GoawayAfterGoodbye
  <2> QED  BY <1>0, <1>1, <2>0, <2>1, <2>3, <2>4, MinorInv DEF Loop
<1>3. CASE WriteEnds
  <2>1. CASE Disconnected(conn, life)  BY <1>0, <2>1, DisconnectedInv
  <2>2. CASE pc' = "end" /\ UNCHANGED <<life, conn>>
    <3>1. NoLostWakeup' /\ GoawayAfterGoodbye'
      BY <1>0, <2>2 DEF IInv, NoLostWakeup, GoawayAfterGoodbye
    <3> QED  BY <1>0, <1>1, <2>2, <3>1, MinorInv DEF Loop
  <2> QED  BY <1>3, <2>1, <2>2 DEF WriteEnds
<1>4. CASE WriteStalls
  <2> DEFINE k == IF conn.stall = NoStall THEN StallMs ELSE conn.stall
             c == [conn EXCEPT !.stall = k]
  <2>1. \/ Disconnected(c, life)
        \/ pc' = "end" /\ conn' = c /\ life' = life
    BY <1>0, <1>4 DEF WriteStalls, ConnRecord
  <2>2. k \in NoStall..StallMs  BY <1>0, TunnelAssumption DEF ConnRecord, NoStall
  <2> HIDE DEF k
  <2>3. /\ c \in ConnRecord
        /\ c.attempt = conn.attempt /\ c.dns = conn.dns /\ c.tls = conn.tls
        /\ c.h2 = conn.h2 /\ c.rpc = conn.rpc /\ c.remote = conn.remote
        /\ c.secret = conn.secret /\ c.queued = conn.queued
        /\ c.control = conn.control /\ c.deferred = conn.deferred
        /\ c.fault = conn.fault /\ c.app = conn.app /\ c.goawaySent = conn.goawaySent
    BY <1>0, <2>2 DEF ConnRecord
  <2> HIDE DEF c
  <2>4. CASE Disconnected(c, life)  BY <1>0, <2>3, <2>4, DisconnectedInv
  <2>5. CASE pc' = "end" /\ conn' = c /\ life' = life
    <3>1. NoLostWakeup' /\ GoawayAfterGoodbye'
      BY <1>0, <2>3, <2>5 DEF IInv, NoLostWakeup, GoawayAfterGoodbye
    <3> QED  BY <1>0, <1>1, <2>3, <2>5, <3>1, MinorInv DEF Loop
  <2> QED  BY <2>1, <2>4, <2>5
<1>5. CASE WriteFails
  <2>1. Disconnected(conn, life)  BY <1>5 DEF WriteFails
  <2> QED  BY <1>0, <2>1, DisconnectedInv
<1> QED  BY <1>2, <1>3, <1>4, <1>5

\* The clock runs: a deadline never passes the delay that it stands for.
LEMMA ElapseInv == IInv /\ Elapse => IInv'
<1> SUFFICES ASSUME IInv, Elapse PROVE IInv'  OBVIOUS
<1>0. /\ conn \in ConnRecord /\ life \in LifeRecord /\ hist \in HistRecord
      /\ pc \in ClockRead /\ UNCHANGED <<apiVars, pc, stopping, snapshot>>
  BY DEF IInv, Types, Elapse
<1> DEFINE at == Left(life.retryAt)
           em == Left(hist.embargo)
<1>1. /\ at \in 0..MaxTime /\ em \in 0..MaxHint
      /\ Left(conn.deadline) \in Nat /\ Left(conn.shutdown) \in 0..ShutdownMs
      /\ Left(conn.stall) \in NoStall..StallMs
      /\ hist.embargo \in Int /\ life.retryAt \in Int
      /\ em > 0 => hist.embargo > 0 /\ (life.retryAt >= hist.embargo => at >= em)
  BY <1>0, RetryAssumption, TunnelAssumption
  DEF Left, LifeRecord, HistRecord, ConnRecord, NoStall
<1>2. /\ life' = [life EXCEPT !.retryAt = at] /\ hist' = [hist EXCEPT !.embargo = em]
      /\ conn' = [conn EXCEPT !.deadline = Left(@), !.shutdown = Left(@), !.stall = Left(@)]
  BY DEF Elapse
<1> HIDE DEF at, em
<1>3. /\ life' \in LifeRecord /\ life'.retryAt = at /\ life'.state = life.state
      /\ life'.network = life.network /\ life'.time = life.time
      /\ life'.registered = life.registered /\ life'.configured = life.configured
  BY <1>0, <1>1, <1>2 DEF LifeRecord
<1>4. /\ hist' \in HistRecord /\ hist'.embargo = em /\ hist'.denied = hist.denied
      /\ hist'.mark = hist.mark /\ hist'.used = hist.used
  BY <1>0, <1>1, <1>2 DEF HistRecord
<1>5. /\ conn' \in ConnRecord
      /\ conn'.attempt = conn.attempt /\ conn'.dns = conn.dns /\ conn'.tls = conn.tls
      /\ conn'.h2 = conn.h2 /\ conn'.rpc = conn.rpc /\ conn'.remote = conn.remote
      /\ conn'.secret = conn.secret /\ conn'.queued = conn.queued
      /\ conn'.control = conn.control /\ conn'.deferred = conn.deferred
      /\ conn'.fault = conn.fault /\ conn'.app = conn.app
      /\ conn'.goawaySent = conn.goawaySent
  <2> DEFINE x == Left(conn.deadline)
             y == Left(conn.shutdown)
             z == Left(conn.stall)
  <2>1. conn' = [conn EXCEPT !.deadline = x, !.shutdown = y, !.stall = z]
    BY <1>0, <1>2 DEF ConnRecord
  <2>2. x \in Nat /\ y \in 0..ShutdownMs /\ z \in NoStall..StallMs  BY <1>1
  <2> HIDE DEF x, y, z
  <2> QED  BY <1>0, <2>1, <2>2 DEF ConnRecord
<1> USE DEF IInv
<1>6. Types' /\ Quiet'
  BY <1>0, <1>3, <1>4, <1>5 DEF Types, Quiet, apiVars, ClockRead
<1>7. Resources' /\ Ready'  BY <1>0, <1>3, <1>5 DEF Resources, Ready
<1>8. Session' /\ Secrets' /\ Standing'  BY <1>3, <1>5 DEF Session, Secrets, Standing
<1>9. Refusal'
  BY <1>0, <1>1, <1>3, <1>4 DEF Refusal, Refused, ClockRead
<1>10. Fresh' /\ NoLostWakeup' /\ GoawayAfterGoodbye'
  BY <1>0, <1>4, <1>5
  DEF Fresh, ReloadTakesEffect, NoLostWakeup, GoawayAfterGoodbye, apiVars
<1> QED  BY <1>6, <1>7, <1>8, <1>9, <1>10

-----------------------------------------------------------------------------
\* Every step of the interface, the owner, the edge and the clock preserves
\* the inductive invariant.
LEMMA StepInv == IInv /\ [Next]_vars => IInv'
<1> SUFFICES ASSUME IInv, [Next]_vars PROVE IInv'  OBVIOUS
<1>1. CASE Api  BY <1>1, ApiInv
<1>2. CASE Boot \/ TakeRequests  BY <1>2, BootInv, RequestsInv
<1>3. CASE \E network, time \in BOOLEAN : Environment(network, time)
  BY <1>3, EnvironmentInv
<1>4. CASE NoAttempt \/ BeginAttempt \/ DnsPoll  BY <1>4, BeginInv, DnsInv
<1>5. CASE \E handshake \in BOOLEAN : ConnectPoll(handshake)  BY <1>5, ConnectInv
<1>6. CASE Idle \/ EndIteration \/ Exit \/ TaskEnds \/ TaskUnlocks  BY <1>6, LoopInv
<1>7. CASE ReadFrame
  <2>1. CASE \E ok \in BOOLEAN : OpenControl(ok)  BY <2>1, OpenControlInv
  <2>2. CASE \E f \in Frames(Delays) : ControlFrame(f)  BY <2>2, ControlFrameInv
  <2>3. CASE Settings  BY <2>3, BatchInv
  <2>4. CASE \/ ControlBroken \/ CloseStream \/ OpenConfig \/ OpenApp
             \/ \E fits \in BOOLEAN : ConfigData(fits)
    BY <2>4, StreamInv
  <2> QED  BY <1>7, <2>1, <2>2, <2>3, <2>4 DEF ReadFrame
<1>8. CASE ReadEnds \/ ReadFails \/ PostEnded  BY <1>8, BatchInv
<1>9. CASE \/ \E idle \in BOOLEAN : PostIdle(idle)
           \/ \E update \in Versions \cup {NoConfig}, ok, idle \in BOOLEAN :
                PostApply(update, ok, idle)
  BY <1>9, PostInv
<1>10. CASE WriteOutput \/ WriteEnds \/ WriteStalls \/ WriteFails  BY <1>10, WriteInv
<1>11. CASE Elapse  BY <1>11, ElapseInv
<1>12. CASE UNCHANGED vars
  <2> USE <1>12 DEF vars, IInv
  <2>1. Types' /\ Quiet' /\ Resources' /\ Ready'  BY DEF Types, Quiet, Resources, Ready
  <2>2. Session' /\ Standing' /\ Secrets'  BY DEF Session, Standing, Secrets
  <2>3. Refusal'  BY DEF Refusal, Refused, Hint, MinOf
  <2>4. Fresh' /\ NoLostWakeup' /\ GoawayAfterGoodbye'
    BY DEF Fresh, ReloadTakesEffect, NoLostWakeup, GoawayAfterGoodbye
  <2> QED  BY <2>1, <2>2, <2>3, <2>4
<1> QED
  BY <1>1, <1>2, <1>3, <1>4, <1>5, <1>6, <1>7, <1>8, <1>9, <1>10, <1>11, <1>12
  DEF Next, Owner

\* The inductive invariant holds in every reachable state of the connector.
THEOREM Invariance == Spec => []IInv
BY InitInv, StepInv, PTL DEF Spec

\* Every field keeps its type and every timer its range.
THEOREM TypeCorrect == Spec => []TypeOK
<1>1. IInv => TypeOK
  BY DEF IInv, Types, TypeOK, ConnRecord, HistRecord, Flags
<1> QED  BY <1>1, Invariance, PTL

\* Whatever failed, flapped, was reloaded or stopped: between two iterations
\* the lifecycle state says which sockets and sessions exist.
THEOREM ResourcesFollowState == Spec => []ResourcesMatchState
<1>1. IInv => ResourcesMatchState  BY DEF IInv, Resources, ResourcesMatchState
<1> QED  BY <1>1, Invariance, PTL

\* The connector calls itself online only on a session that the edge accepted
\* and that has a configuration, and application requests live on no other.
THEOREM OnlineGenuine == Spec => []OnlineIsGenuine
<1>1. IInv => OnlineIsGenuine
  BY DEF IInv, Resources, Standing, OnlineIsGenuine, SessionStates, Negotiated
<1> QED  BY <1>1, Invariance, PTL

\* Credentials and queued messages never outlive the attempt they belong to.
THEOREM CredentialsWiped == Spec => []SecretsWiped
<1>1. IInv => SecretsWiped
  <2> SUFFICES ASSUME IInv PROVE SecretsWiped  OBVIOUS
  <2> USE DEF IInv
  <2>1. /\ conn.secret \/ conn.queued => conn.attempt
        /\ conn.rpc.state \in {"REGISTERING", "REGISTERED", "UNREGISTERING"} => ~conn.secret
    BY DEF Secrets
  <2>2. pc \in {"none", "boot", "exited"} => ~conn.attempt
    BY DEF Quiet, NoConnection
  <2>3. life.state \in {"WAIT_NETWORK", "WAIT_TIME", "BACKOFF", "AUTH_FAILED"} => ~conn.attempt
    BY DEF Resources, SessionStates, Negotiated
  <2> QED  BY <2>1, <2>2, <2>3 DEF SecretsWiped
<1> QED  BY <1>1, Invariance, PTL

\* A permanent rejection ends in AUTH_FAILED, whatever ends the connection
\* first.
THEOREM RejectionFinal == Spec => []PermanentRejectionFinal
<1>1. IInv => PermanentRejectionFinal
  BY DEF IInv, Refusal, Refused, PermanentRejectionFinal
<1> QED  BY <1>1, Invariance, PTL

\* No attempt starts before the delay that the edge asked for is over.
THEOREM DelayHonoured == Spec => []ServerDelayHonoured
<1>1. IInv => ServerDelayHonoured
  <2> SUFFICES ASSUME IInv, life.state \in {"DISCOVERY", "CONNECT", "TLS", "HTTP2"}
               PROVE  hist.embargo = 0
    BY DEF ServerDelayHonoured
  <2>1. hist.embargo \in Nat
    BY TunnelAssumption, RetryAssumption DEF IInv, Types, HistRecord
  <2>2. conn.rpc.state # "REJECTED"  BY DEF IInv, Session, Negotiated
  <2>3. ~(hist.embargo > 0)  BY <2>2 DEF IInv, Refusal, Refused
  <2> QED  BY <2>1, <2>3
<1> QED  BY <1>1, Invariance, PTL

\* After a reload no attempt goes on with older settings.
THEOREM ReloadEffective == Spec => []ReloadTakesEffect
<1>1. IInv => ReloadTakesEffect  BY DEF IInv, Fresh
<1> QED  BY <1>1, Invariance, PTL

\* No queued message is left behind on a deferred stream.
THEOREM WakeupsKept == Spec => []NoLostWakeup
<1>1. IInv => NoLostWakeup  BY DEF IInv
<1> QED  BY <1>1, Invariance, PTL

\* The GOAWAY of a graceful stop comes after the last message of the session.
THEOREM GoodbyeOrdered == Spec => []GoawayAfterGoodbye
<1>1. IInv => GoawayAfterGoodbye  BY DEF IInv
<1> QED  BY <1>1, Invariance, PTL

\* Neither a new owner nor a free overlaps with an owner that still uses the
\* handle, although start and deinit check first and act later.
THEOREM OwnerAlone == Spec => []OwnerGoneBeforeReuse
<1>1. IInv => OwnerGoneBeforeReuse  BY DEF IInv, Quiet, OwnerGoneBeforeReuse
<1> QED  BY <1>1, Invariance, PTL

-----------------------------------------------------------------------------
\* Of all steps only the verdict on a configuration touches the version in
\* force; the others keep it or end the session.
LEMMA RemoteKept ==
    ASSUME IInv, Next,
           ~\E update \in Versions \cup {NoConfig}, ok, idle \in BOOLEAN :
              PostApply(update, ok, idle)
    PROVE  ~conn'.h2 \/ conn'.remote = conn.remote
<1>0. conn \in ConnRecord /\ ~NoConnection.h2  BY DEF IInv, Types, NoConnection
<1>1. \A c, l : Retry(c, l) => conn' = NoConnection  BY DEF Retry
<1>2. Disconnected(conn, life) => conn' \in {conn, NoConnection}
  BY <1>1 DEF Disconnected
<1>3. CASE conn' = conn \/ conn' = NoConnection  BY <1>0, <1>3
<1>4. CASE Api
  BY <1>3, <1>4 DEF Api, Create, StartCheck, StartClear, StartCreate, Reload, Stop,
     DeinitCheck, DeinitFree, SaveSettings
<1>5. CASE TakeRequests
  <2>1. CASE UnregisterAllowed(conn.rpc) /\
             conn' = [Enqueue([conn EXCEPT !.shutdown = ShutdownMs]) EXCEPT !.rpc = RpcUnregister(@)]
    BY <1>0, <2>1 DEF ConnRecord, Enqueue
  <2>2. CASE conn' = [conn EXCEPT !.shutdown = ShutdownMs]  BY <1>0, <2>2 DEF ConnRecord
  <2>3. [conn EXCEPT !.shutdown = ShutdownMs].rpc = conn.rpc  BY <1>0 DEF ConnRecord
  <2> QED  BY <1>3, <1>5, <2>1, <2>2, <2>3 DEF TakeRequests
<1>6. CASE \/ Boot \/ Idle \/ EndIteration \/ Exit \/ TaskEnds \/ TaskUnlocks
           \/ \E network, time \in BOOLEAN : Environment(network, time)
  BY <1>3, <1>6 DEF Boot, Idle, EndIteration, Exit, TaskEnds, TaskUnlocks, Environment
<1>7. CASE NoAttempt \/ BeginAttempt \/ DnsPoll
  <2>1. CASE conn' = [conn EXCEPT !.secret = FALSE]  BY <1>0, <2>1 DEF ConnRecord
  <2>2. CASE conn' = [[conn EXCEPT !.attempt = TRUE, !.secret = TRUE, !.stage = 0]
                        EXCEPT !.dns = TRUE, !.deadline = DnsMs]
    BY <1>0, <2>2 DEF ConnRecord
  <2>3. CASE conn' = [conn EXCEPT !.stage = 1, !.deadline = DnsMs]  BY <1>0, <2>3 DEF ConnRecord
  <2>4. CASE conn' = [conn EXCEPT !.dns = FALSE, !.tls = TRUE, !.deadline = ConnectMs]
    BY <1>0, <2>4 DEF ConnRecord
  <2> QED
    BY <1>1, <1>3, <1>7, <2>1, <2>2, <2>3, <2>4 DEF NoAttempt, BeginAttempt, DnsPoll
<1>8. ASSUME NEW handshake \in BOOLEAN, ConnectPoll(handshake)
      PROVE  ~conn'.h2 \/ conn'.remote = conn.remote
  <2>1. CASE conn' = [conn EXCEPT !.h2 = TRUE, !.deadline = RegisterMs]
    BY <1>0, <2>1 DEF ConnRecord
  <2> QED  BY <1>1, <1>3, <1>8, <2>1 DEF ConnectPoll
<1>9. ASSUME NEW ok \in BOOLEAN, OpenControl(ok)
      PROVE  conn'.remote = conn.remote
  BY <1>0, <1>9 DEF OpenControl, Enqueue, ConnRecord
<1>10. ASSUME NEW f \in Frames(Delays), ControlFrame(f)
       PROVE  conn'.remote = conn.remote
  <2> DEFINE g == RpcReceive(conn.rpc, f)
             d == [conn EXCEPT !.rpc = g.rpc]
             c == IF g.out = <<>> THEN d ELSE Enqueue(d)
  <2>1. g.rpc \in RpcRecord  BY <1>0, ReceiveEffect DEF ConnRecord
  <2>2. \/ conn' = Broken(c) \/ conn' = Register(c) \/ conn' = c
        \/ conn' = [c EXCEPT !.deadline = RegisterMs] \/ conn' = [c EXCEPT !.fault = TRUE]
    BY <1>10 DEF ControlFrame
  <2> HIDE DEF g
  <2>3. c \in ConnRecord /\ c.remote = conn.remote
    BY <1>0, <2>1 DEF ConnRecord, Enqueue
  <2> HIDE DEF c
  <2>4. CASE conn' = Broken(c)  BY <2>3, <2>4 DEF Broken, ConnRecord
  <2>5. CASE conn' = Register(c)
    <3>1. CASE conn' = [Enqueue(c) EXCEPT !.rpc = RpcRegister(@), !.secret = FALSE]
      BY <2>3, <3>1 DEF Enqueue, ConnRecord
    <3>2. CASE conn' = [Broken(c) EXCEPT !.secret = FALSE]
      BY <2>3, <3>2 DEF Broken, ConnRecord
    <3> QED  BY <2>5, <3>1, <3>2 DEF Register
  <2>6. CASE conn' = c \/ conn' = [c EXCEPT !.deadline = RegisterMs]
               \/ conn' = [c EXCEPT !.fault = TRUE]
    BY <2>3, <2>6 DEF ConnRecord
  <2> QED  BY <2>2, <2>4, <2>5, <2>6
<1>11. CASE \/ ControlBroken \/ CloseStream \/ OpenConfig \/ OpenApp \/ Settings
            \/ \E fits \in BOOLEAN : ConfigData(fits)
  <2>1. CASE conn' = Broken(conn) \/ conn' = ControlClosed(conn) \/ conn' = ConfigClosed(conn)
    BY <1>0, <2>1 DEF Broken, ControlClosed, ConfigClosed, ConnRecord
  <2>2. CASE conn' = [conn EXCEPT !.app = FALSE] \/ conn' = [conn EXCEPT !.app = TRUE]
    BY <1>0, <2>2 DEF ConnRecord
  <2>3. CASE conn' = [conn EXCEPT !.pending = TRUE] \/ conn' = [conn EXCEPT !.config = "reset"]
    BY <1>0, <2>3 DEF ConnRecord
  <2>4. CASE conn' = [conn EXCEPT !.config = "open", !.pending = FALSE, !.reply = "none"]
    BY <1>0, <2>4 DEF ConnRecord
  <2> QED
    BY <1>3, <1>11, <2>1, <2>2, <2>3, <2>4
    DEF ControlBroken, CloseStream, OpenConfig, OpenApp, Settings, ConfigData
<1>12. CASE ReadEnds \/ ReadFails \/ PostEnded \/ WriteFails
  BY <1>2, <1>3, <1>12 DEF ReadEnds, ReadFails, PostEnded, WriteFails
<1>13. ASSUME NEW idle \in BOOLEAN, PostIdle(idle)
       PROVE  conn'.remote = conn.remote
  BY <1>0, <1>13, AfterApplyEffect DEF PostIdle
<1>14. CASE WriteOutput
  <2> DEFINE c == [conn EXCEPT !.stall = NoStall]
  <2>1. \/ conn' = [c EXCEPT !.queued = FALSE] \/ conn' = [c EXCEPT !.deferred = TRUE]
        \/ conn' = ControlClosed(c) \/ conn' = ConfigClosed(c)
        \/ conn' = [c EXCEPT !.app = FALSE] \/ conn' = c
    BY <1>14 DEF WriteOutput
  <2>2. c \in ConnRecord /\ c.remote = conn.remote
    <3>1. NoStall \in NoStall..StallMs  BY TunnelAssumption DEF NoStall
    <3> QED  BY <1>0, <3>1 DEF ConnRecord
  <2> HIDE DEF c
  <2> QED  BY <2>1, <2>2 DEF ControlClosed, ConfigClosed, ConnRecord
<1>15. CASE WriteEnds \/ WriteStalls
  <2> DEFINE c == [conn EXCEPT !.stall = IF @ = NoStall THEN StallMs ELSE @]
  <2>1. c.remote = conn.remote  BY <1>0 DEF ConnRecord
  <2>2. Disconnected(c, life) => conn' = c \/ conn' = NoConnection
    BY <1>1 DEF Disconnected
  <2>3. conn' = conn \/ conn' = NoConnection \/ conn' = c
    BY <1>2, <1>15, <2>2 DEF WriteEnds, WriteStalls
  <2> QED  BY <1>3, <2>1, <2>3
<1>16. CASE Elapse  BY <1>0, <1>16 DEF Elapse, ConnRecord
<1> QED
  BY <1>4, <1>5, <1>6, <1>7, <1>8, <1>9, <1>10, <1>11, <1>12, <1>13, <1>14, <1>15, <1>16
  DEF Next, Owner, ReadFrame

\* Within a connection the configuration in force never goes back.
THEOREM ConfigMonotone == Spec => ConfigNeverRegresses
<1>1. IInv /\ [Next]_vars =>
        [conn.h2 /\ conn'.h2 => conn'.remote >= conn.remote]_vars
  <2> SUFFICES ASSUME IInv, Next, conn.h2, conn'.h2 PROVE conn'.remote >= conn.remote
    BY DEF vars
  <2>1. conn \in ConnRecord /\ conn.remote \in Versions \cup {NoConfig} /\ conn.remote \in Int
    <3>1. conn \in ConnRecord  BY DEF IInv, Types
    <3>2. conn.remote \in Versions \cup {NoConfig}  BY <3>1 DEF ConnRecord
    <3>3. Versions \cup {NoConfig} \subseteq Int  BY TunnelAssumption DEF NoConfig
    <3> QED  BY <3>1, <3>2, <3>3
  <2>2. ASSUME NEW update \in Versions \cup {NoConfig}, NEW ok \in BOOLEAN,
               NEW idle \in BOOLEAN, PostApply(update, ok, idle)
        PROVE  conn'.remote >= conn.remote
    <3> DEFINE v == ConfigApply(conn.remote, update)
               y == IF update # NoConfig THEN "applied" ELSE "rejected"
               b == conn.config = "reset" \/ ~ok
               c == [conn EXCEPT !.remote = v, !.reply = y, !.pending = FALSE, !.fault = b]
    <3>1. conn' = AfterApply(c, idle)  BY <2>1, <2>2 DEF PostApply, ConnRecord
    <3>2. v \in Versions \cup {NoConfig} /\ v >= conn.remote  BY <2>1, ConfigKept
    <3>3. y \in {"none", "applied", "rejected"} /\ b \in BOOLEAN  OBVIOUS
    <3> HIDE DEF v, y, b
    <3>4. c \in ConnRecord /\ c.remote = v  BY <2>1, <3>2, <3>3 DEF ConnRecord
    <3> HIDE DEF c
    <3>5. conn'.remote = v  BY <3>1, <3>4, AfterApplyEffect
    <3> QED  BY <3>2, <3>5
  <2>3. CASE ~\E update \in Versions \cup {NoConfig}, ok, idle \in BOOLEAN :
                PostApply(update, ok, idle)
    <3>1. conn'.remote = conn.remote  BY <2>3, RemoteKept
    <3> QED  BY <2>1, <3>1
  <2> QED  BY <2>2, <2>3
<1> QED  BY <1>1, Invariance, PTL DEF Spec, ConfigNeverRegresses
=============================================================================
