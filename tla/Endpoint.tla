------------------------------ MODULE Endpoint ------------------------------
(***************************************************************************)
(* How an endpoint comes to be in Mode 3: InitWithOptions, then Listen,    *)
(* ListenPacket, ListenTLS or DialTLSContext (vclnet.go, tls.go), every    *)
(* VLS call of which pins a thread, registers it as a VCL worker and takes *)
(* the lock vlsMu (cgo.go). The shared poller holds the same lock while it *)
(* waits for events, and the end of Shutdown destroys the application.     *)
(*                                                                         *)
(* Two callers may resolve one TLSConfig (its sync.Once) or two configs    *)
(* with the same certificate and key (ckpairCache). Every VLS call may     *)
(* fail. What a call does after vls_app_destroy is not defined by VLS; in  *)
(* this model it fails. Connecting is abstract (module Dial), and so is    *)
(* what Shutdown does before it stops the poller (module Lifecycle).       *)
(*                                                                         *)
(* A thread stands for its pthread id. The poller returns while it is      *)
(* locked to its thread, which ends with it: the model leaves that thread  *)
(* to the poller for good and gives its id to no new thread.               *)
(***************************************************************************)
EXTENDS Integers, Sequences, FiniteSets

CONSTANTS
  Procs,     \* goroutines that create an endpoint each
  ThreadCount, \* OS threads: 1..ThreadCount
  Configs,   \* TLSConfig values
  PairOf,    \* the certificate and key of a config, or "partial"
  Requests,  \* what a caller may ask for: kinds of endpoint, with a config
  MaxIdx,    \* bound on the indices of VPP's certificate store
  None

Actors == Procs \union {"poller", "main"}

Kinds == {"listen", "packet", "listenTLS", "dialTLS"}
PlainKinds == {"listen", "packet"}

Pairs == {PairOf[c] : c \in Configs} \ {"partial"}
Foreign == "foreign"  \* a pair of another application
Indices == 1 .. MaxIdx
Threads == 1 .. ThreadCount

ASSUME EndpointAssumption ==
  /\ PairOf \in [Configs -> Pairs \union {"partial"}]
  /\ Requests \in [Procs -> SUBSET (Kinds \X (Configs \union {None}))]
  /\ \A p \in Procs : \A r \in Requests[p] : r[1] \in PlainKinds => r[2] = None
  /\ MaxIdx \in Nat
  /\ ThreadCount \in Nat /\ ThreadCount > Cardinality(Procs)
  /\ {"poller", "main", "new", "done"} \intersect Procs = {}
  /\ None \notin Actors /\ None \notin Configs
  /\ None \notin Pairs /\ None \notin Threads /\ Foreign \notin Pairs \union {None}

VARIABLES
  pc, call, result,          \* position, VLS call in progress, outcome
  kind, cfg,                 \* what a caller asks for
  tid,                       \* the thread an actor is pinned to
  writer, readers,           \* vlsMu: the writer (also while it waits), readers
  workerRegistry, vclWorkers,\* threads registered: by the code's map, in VCL
  app,                       \* appOnce and appErr, and the VCL application
  shutdownStarted, stopping,
  open,                      \* callers whose VLS session exists
  ckp,                       \* a caller's certificate index (0: default)
  once, cidx, cerr,          \* TLSConfig
  ckpairCache,               \* pair -> index (0: none)
  store,                     \* VPP's certificate store, shared by applications
  leaked                     \* indices that could not be released (history)

lockVars == <<tid, writer, readers, workerRegistry, vclWorkers>>
askVars == <<kind, cfg>>
tlsVars == <<ckp, once, cidx, cerr, ckpairCache, store, leaked>>
appVars == <<app, shutdownStarted, stopping>>
ctlVars == <<pc, call, result, askVars>>
vars == <<ctlVars, lockVars, appVars, open, tlsVars>>

TypeOK ==
  /\ pc \in [Actors -> {"idle", "start", "resolve", "recheck", "connecting",
                        "finish", "done", "enter", "reglock", "register", "lock",
                        "locked", "in", "stop"}]
  /\ call \in [Actors -> {"none", "init", "add", "del", "create", "v6only",
                          "localaddr", "close", "epoll", "destroy"}]
  /\ result \in [Procs -> {"none", "ok", "err"}]
  /\ kind \in [Procs -> Kinds \union {"none"}]
  /\ cfg \in [Procs -> Configs \union {None}]
  /\ tid \in [Actors -> Threads \union {None}]
  /\ writer \in Actors \union {None} /\ readers \subseteq Actors
  /\ workerRegistry \subseteq Threads /\ vclWorkers \subseteq Threads
  /\ app \in {"new", "running", "ok", "failed", "destroyed"}
  /\ shutdownStarted \in BOOLEAN /\ stopping \in BOOLEAN
  /\ open \subseteq Procs
  /\ ckp \in [Procs -> 0 .. MaxIdx]
  /\ once \in [Configs -> Procs \union {"new", "done"}]
  /\ cidx \in [Configs -> 0 .. MaxIdx] /\ cerr \in [Configs -> BOOLEAN]
  /\ ckpairCache \in [Pairs -> 0 .. MaxIdx]
  /\ store \in [Indices -> Pairs \union {None, Foreign}]
  /\ leaked \subseteq 0 .. MaxIdx

Init ==
  /\ pc = [a \in Actors |-> "idle"] /\ call = [a \in Actors |-> "none"]
  /\ result = [p \in Procs |-> "none"]
  /\ kind = [p \in Procs |-> "none"] /\ cfg = [p \in Procs |-> None]
  /\ tid = [a \in Actors |-> None]
  /\ writer = None /\ readers = {}
  /\ workerRegistry = {} /\ vclWorkers = {}
  /\ app = "new" /\ shutdownStarted = FALSE /\ stopping = FALSE
  /\ open = {}
  /\ ckp = [p \in Procs |-> 0]
  /\ once = [c \in Configs |-> "new"]
  /\ cidx = [c \in Configs |-> 0] /\ cerr = [c \in Configs |-> FALSE]
  /\ ckpairCache = [k \in Pairs |-> 0]
  /\ store = [i \in Indices |-> None] /\ leaked = {}

-----------------------------------------------------------------------------
(* Where an actor goes on: at a place of its own code, with the VLS call   *)
(* c, or back to its caller with the result r.                             *)

Goto(a, l) ==
  /\ pc' = [pc EXCEPT ![a] = l]
  /\ UNCHANGED <<call, result, askVars>>

Call(a, c) ==
  /\ pc' = [pc EXCEPT ![a] = "enter"] /\ call' = [call EXCEPT ![a] = c]
  /\ UNCHANGED <<result, askVars>>

Finish(p, r) ==
  /\ pc' = [pc EXCEPT ![p] = "done"] /\ call' = [call EXCEPT ![p] = "none"]
  /\ result' = [result EXCEPT ![p] = r]
  /\ IF r = "ok" THEN UNCHANGED askVars
     ELSE kind' = [kind EXCEPT ![p] = "none"] /\ cfg' = [cfg EXCEPT ![p] = None]

-----------------------------------------------------------------------------
(* Threads, worker registration and vlsMu.                                 *)

(* The threads a goroutine may run on: its own once it is locked to it,    *)
(* else one nobody is locked to. Threads differ only in being registered,  *)
(* so one of each sort stands for all.                                     *)
Free(S) == {t \in S : \A b \in Actors : tid[b] # t}
OneOf(S) == {t \in S : \A u \in S : t <= u}
Runnable(a) ==
  IF tid[a] # None THEN {tid[a]}
  ELSE OneOf(Free(workerRegistry)) \union OneOf(Free(Threads \ workerRegistry))

LockOSThread(a, t) == tid' = [tid EXCEPT ![a] = t]
Unpin(a) == tid' = [tid EXCEPT ![a] = None]

(* A goroutine on a registered thread takes the read lock, which a writer  *)
(* keeps it from, and is in its call. AppDestroy goes for the write lock.  *)
RLock(a) ==
  IF call[a] = "destroy" THEN Goto(a, "lock") /\ UNCHANGED readers
  ELSE writer = None /\ Goto(a, "in") /\ readers' = readers \union {a}

(* Bug: the thread is looked up before the goroutine is locked to one.     *)
enterVLS_LatePin(a) ==
  /\ pc[a] = "enter"
  /\ \E t, u \in Runnable(a) :
       /\ LockOSThread(a, t)
       /\ IF u \in workerRegistry THEN RLock(a)
          ELSE Goto(a, "reglock") /\ UNCHANGED readers
  /\ UNCHANGED <<writer, workerRegistry, vclWorkers, appVars, open, tlsVars>>

(* enterVLS: lock the thread, look it up in workerRegistry, register it    *)
(* first if it is not there.                                               *)
enterVLS(a) ==
  /\ pc[a] = "enter"
  /\ \E t \in Runnable(a) :
       /\ LockOSThread(a, t)
       /\ IF t \in workerRegistry THEN RLock(a)
          ELSE Goto(a, "reglock") /\ UNCHANGED readers
  /\ UNCHANGED <<writer, workerRegistry, vclWorkers, appVars, open, tlsVars>>

(* Bug: registration does not keep the readers out.                        *)
Locked_Shared(a) ==
  /\ writer = a
  /\ \/ pc[a] = "reglock" /\ Goto(a, "register")
     \/ pc[a] = "lock" /\ Goto(a, "locked")
  /\ UNCHANGED <<lockVars, appVars, open, tlsVars>>

(* vlsMu.Lock() announces the writer, which keeps new readers out (Go's    *)
(* RWMutex), and returns once the present readers have left.               *)
Lock(a) ==
  /\ pc[a] \in {"reglock", "lock"} /\ writer = None
  /\ writer' = a
  /\ UNCHANGED <<ctlVars, tid, readers, workerRegistry, vclWorkers, appVars, open,
                 tlsVars>>

Locked(a) ==
  /\ writer = a /\ readers = {}
  /\ \/ pc[a] = "reglock" /\ Goto(a, "register")
     \/ pc[a] = "lock" /\ Goto(a, "locked")
  /\ UNCHANGED <<lockVars, appVars, open, tlsVars>>

(* registerThisThread under the lock: look again, register, record, unlock, *)
(* and back to enterVLS.                                                   *)
registerThisThread(a) ==
  /\ pc[a] = "register"
  /\ workerRegistry' = workerRegistry \union {tid[a]}
  /\ vclWorkers' = IF tid[a] \in workerRegistry \/ app = "destroyed" THEN vclWorkers
                   ELSE vclWorkers \union {tid[a]}
  /\ writer' = None
  /\ Goto(a, "enter")
  /\ UNCHANGED <<tid, readers, appVars, open, tlsVars>>

(* The read lock is held and call c is about to return.                    *)
InCall(a, c) == pc[a] = "in" /\ call[a] = c

exitVLS(a) ==
  /\ readers' = readers \ {a} /\ Unpin(a)
  /\ UNCHANGED <<writer, workerRegistry, vclWorkers>>

-----------------------------------------------------------------------------
(* InitWithOptions: dispatchInitOnce and appOnce let one caller run        *)
(* mode3AppInit while the others wait for it; its error is for all.        *)

InitWithOptions(p) ==
  /\ pc[p] = "idle"
  /\ \/ /\ shutdownStarted \/ app \in {"failed", "destroyed"}
        /\ Finish(p, "err")
        /\ UNCHANGED <<tid, app>>
     \/ /\ ~shutdownStarted /\ app = "ok"
        /\ Goto(p, "start")
        /\ UNCHANGED <<tid, app>>
     \/ /\ ~shutdownStarted /\ app = "new"
        /\ app' = "running"
        /\ \E t \in Runnable(p) : LockOSThread(p, t)
        /\ pc' = [pc EXCEPT ![p] = "lock"]
        /\ UNCHANGED <<call, result, askVars>>
  /\ UNCHANGED <<writer, readers, workerRegistry, vclWorkers, shutdownStarted,
                 stopping, open, tlsVars>>

mode3AppInit(p) ==
  /\ pc[p] = "locked"
  /\ \/ /\ app' = "ok"
        /\ workerRegistry' = workerRegistry \union {tid[p]}
        /\ vclWorkers' = vclWorkers \union {tid[p]}
        /\ Goto(p, "start")
     \/ /\ app' = "failed"
        /\ Finish(p, "err")
        /\ UNCHANGED <<workerRegistry, vclWorkers>>
  /\ writer' = None /\ Unpin(p)
  /\ UNCHANGED <<readers, shutdownStarted, stopping, open, tlsVars>>

-----------------------------------------------------------------------------
(* The constructors up to their first VLS call.                            *)

(* TLSConfig.validate: a server needs a certificate and its key; nobody    *)
(* may give one without the other. A nil or an empty config is None.       *)
validate(k, c) ==
  /\ k = "listenTLS" => c # None
  /\ c # None => PairOf[c] # "partial"

(* The shutdown check, validate, the network and the address (a refusal    *)
(* for a reason the model does not look at is possible), then on to the    *)
(* certificate or straight to the session.                                 *)
Start(p) ==
  /\ pc[p] = "start"
  /\ \/ Finish(p, "err")
     \/ \E r \in Requests[p] :
          /\ ~shutdownStarted /\ validate(r[1], r[2])
          /\ kind' = [kind EXCEPT ![p] = r[1]] /\ cfg' = [cfg EXCEPT ![p] = r[2]]
          /\ IF r[1] \in PlainKinds
             THEN /\ pc' = [pc EXCEPT ![p] = "enter"]
                  /\ call' = [call EXCEPT ![p] = "create"]
             ELSE pc' = [pc EXCEPT ![p] = "resolve"] /\ UNCHANGED call
          /\ UNCHANGED result
  /\ UNCHANGED <<lockVars, appVars, open, tlsVars>>

-----------------------------------------------------------------------------
(* TLSConfig.resolveCKPair.                                                *)

Pair(p) == PairOf[cfg[p]]
Cached(p) == ckpairCache[Pair(p)]

OnceDone(c) == once' = [once EXCEPT ![c] = "done"]
SetIdx(c, i) == cidx' = [cidx EXCEPT ![c] = i]

(* The first caller of once.Do looks in the cache, or registers the pair.  *)
Resolve(p) ==
  /\ pc[p] = "resolve" /\ cfg[p] # None
  /\ once[cfg[p]] = "new"
  /\ \/ /\ Cached(p) # 0
        /\ SetIdx(cfg[p], Cached(p)) /\ OnceDone(cfg[p])
        /\ UNCHANGED ctlVars
     \/ /\ Cached(p) = 0
        /\ once' = [once EXCEPT ![cfg[p]] = p]
        /\ Call(p, "add")
        /\ UNCHANGED cidx
  /\ UNCHANGED <<lockVars, appVars, open, ckp, cerr, ckpairCache, store, leaked>>

(* once.Do has returned to this caller, with the error or with the index.  *)
(* Without a config the session gets VPP's default certificate. A dial     *)
(* resolves its address only now, and may fail to.                         *)
Resolved(p) ==
  /\ pc[p] = "resolve"
  /\ cfg[p] # None => once[cfg[p]] = "done"
  /\ LET failed == cfg[p] # None /\ cerr[cfg[p]] IN
       \/ /\ failed \/ kind[p] = "dialTLS"
          /\ Finish(p, "err") /\ UNCHANGED ckp
       \/ /\ ~failed
          /\ ckp' = [ckp EXCEPT ![p] = IF cfg[p] = None THEN 0 ELSE cidx[cfg[p]]]
          /\ Call(p, "create")
  /\ UNCHANGED <<lockVars, appVars, open, once, cidx, cerr, ckpairCache, store, leaked>>

(* VPP's store gives out the first index that is free. *)
FreeIndex == OneOf({i \in Indices : store[i] = None})

(* AddCertKeyPair: VPP gives the pair an index that is free, or refuses    *)
(* (as it must once MaxIdx are taken); the config keeps the error for good. *)
AddCertKeyPair(p) ==
  /\ InCall(p, "add")
  /\ exitVLS(p)
  /\ \/ /\ app # "destroyed"
        /\ \E i \in FreeIndex :
             /\ store' = [store EXCEPT ![i] = Pair(p)]
             /\ ckp' = [ckp EXCEPT ![p] = i]
        /\ Goto(p, "recheck")
        /\ UNCHANGED <<once, cerr>>
     \/ /\ cerr' = [cerr EXCEPT ![cfg[p]] = TRUE]
        /\ OnceDone(cfg[p])
        /\ Goto(p, "resolve")
        /\ UNCHANGED <<store, ckp>>
  /\ UNCHANGED <<appVars, open, cidx, ckpairCache, leaked>>

(* Bug: a later one keeps the index it is about to release.                *)
Yield_KeepsOwn(p) ==
  /\ SetIdx(cfg[p], ckp[p])
  /\ Call(p, "del")
  /\ UNCHANGED <<ckpairCache, once>>

(* The second look at the cache: the first to get here publishes its index, *)
(* a later one takes that index and releases its own. (The local variable  *)
(* existing is kept in cidx, which nobody reads before once is done.)      *)
Publish(p) ==
  /\ ckpairCache' = [ckpairCache EXCEPT ![Pair(p)] = ckp[p]]
  /\ SetIdx(cfg[p], ckp[p]) /\ OnceDone(cfg[p])
  /\ Goto(p, "resolve")

Yield(p) ==
  /\ SetIdx(cfg[p], Cached(p))
  /\ Call(p, "del")
  /\ UNCHANGED <<ckpairCache, once>>

Recheck(p) ==
  /\ pc[p] = "recheck"
  /\ IF Cached(p) = 0 THEN Publish(p) ELSE Yield(p)
  /\ UNCHANGED <<lockVars, appVars, open, ckp, cerr, store, leaked>>

(* DelCertKeyPair. The index is free for VPP to give to another pair. A    *)
(* failure is ignored, and the pair keeps its second index for good.       *)
DelCertKeyPair(p) ==
  /\ InCall(p, "del")
  /\ exitVLS(p)
  /\ \/ /\ app # "destroyed"
        /\ store' = [store EXCEPT ![ckp[p]] = None]
        /\ UNCHANGED leaked
     \/ /\ leaked' = leaked \union {ckp[p]}
        /\ UNCHANGED store
  /\ OnceDone(cfg[p])
  /\ Goto(p, "resolve")
  /\ UNCHANGED <<appVars, open, ckp, cidx, cerr, ckpairCache>>

(* Other applications of the same VPP register certificates too. (Bound:   *)
(* only while there is an application here that has cached a pair.)        *)
ForeignPair ==
  /\ app # "destroyed" /\ \E k \in Pairs : ckpairCache[k] # 0
  /\ \E i \in FreeIndex : store' = [store EXCEPT ![i] = Foreign]
  /\ UNCHANGED <<ctlVars, lockVars, appVars, open, ckp, once, cidx, cerr, ckpairCache,
                 leaked>>

-----------------------------------------------------------------------------
(* The C functions that create a session: vclpoll_listen_*, vclpoll_bind_* *)
(* and vclpoll_connect_*, each under one read lock. Setting REUSEPORT may  *)
(* fail without consequence and is not a step here.                        *)

listen_tcp == <<"create", "bind", "listen">>
listen_tls == <<"create", "ckpair", "bind", "listen">>
bind_udp == <<"create", "bind", "listen">>
connect_tls(hasPair) ==
  IF hasPair THEN <<"create", "ckpair", "connect">> ELSE <<"create", "connect">>

Steps(p) ==
  CASE kind[p] = "listen" -> listen_tcp
    [] kind[p] = "packet" -> bind_udp
    [] kind[p] = "listenTLS" -> listen_tls
    [] kind[p] = "dialTLS" -> connect_tls(cfg[p] # None)

(* The session there is when step i fails: none if its creation failed.    *)
Created(p, i) == IF i > 1 THEN {p} ELSE {}

(* Bug: only a failed connect, and not a failed SET_CKPAIR, is cleaned up. *)
parseConnectResult_LastOnly(p, i) ==
  IF kind[p] = "dialTLS" /\ Steps(p)[i] = "connect"
  THEN Created(p, i) ELSE {}

(* The listeners' C code closes the session itself. A connect hands it out *)
(* in out_vlsh, and parseConnectResult closes it.                          *)
ClosedByC(p, i) == IF kind[p] = "dialTLS" THEN {} ELSE Created(p, i)
parseConnectResult(p, i) == IF kind[p] = "dialTLS" THEN Created(p, i) ELSE {}

(* Some step fails, the steps before it having succeeded.                  *)
CreateFails(p) ==
  /\ \E i \in DOMAIN Steps(p) :
       /\ app = "destroyed" => i = 1
       /\ open' = (open \union Created(p, i))
                    \ (ClosedByC(p, i) \union parseConnectResult(p, i))
  /\ Finish(p, "err")

(* The session exists. A listener goes on to its IPv6 option, if the       *)
(* network asks for it, and its address; a connect is complete at once or  *)
(* in progress.                                                            *)
CreateSucceeds(p) ==
  /\ app # "destroyed"
  /\ open' = open \union {p}
  /\ IF kind[p] = "dialTLS" THEN Goto(p, "finish") \/ Goto(p, "connecting")
     ELSE Call(p, "v6only") \/ Call(p, "localaddr")

CreateSession(p) ==
  /\ InCall(p, "create")
  /\ exitVLS(p)
  /\ CreateSucceeds(p) \/ CreateFails(p)
  /\ UNCHANGED <<appVars, tlsVars>>

-----------------------------------------------------------------------------
(* The rest of the constructors: an endpoint that cannot be completed is   *)
(* closed before the error is returned.                                    *)

SetV6Only(p) ==
  /\ InCall(p, "v6only")
  /\ exitVLS(p)
  /\ (app # "destroyed" /\ Call(p, "localaddr")) \/ Call(p, "close")
  /\ UNCHANGED <<appVars, open, tlsVars>>

GetLocalAddr(p) ==
  /\ InCall(p, "localaddr")
  /\ exitVLS(p)
  /\ (app # "destroyed" /\ Finish(p, "ok")) \/ Call(p, "close")
  /\ UNCHANGED <<appVars, open, tlsVars>>

(* connectWait (module Dial) ends with a connection or with an error.      *)
connectWait(p) ==
  /\ pc[p] = "connecting"
  /\ Goto(p, "finish") \/ Call(p, "close")
  /\ UNCHANGED <<lockVars, appVars, open, tlsVars>>

(* finishConnect looks at the context and at the shutdown flag once more.  *)
finishConnect(p) ==
  /\ pc[p] = "finish"
  /\ (~shutdownStarted /\ Finish(p, "ok")) \/ Call(p, "close")
  /\ UNCHANGED <<lockVars, appVars, open, tlsVars>>

Close(p) ==
  /\ InCall(p, "close")
  /\ exitVLS(p)
  /\ open' = open \ {p}
  /\ Finish(p, "err")
  /\ UNCHANGED <<appVars, tlsVars>>

-----------------------------------------------------------------------------
(* The shared poller, started by the first goroutine that waits, and the   *)
(* end of Shutdown: stop the poller, destroy the application.              *)

PollerStart ==
  /\ pc["poller"] = "idle" /\ ~stopping
  /\ \E p \in Procs : pc[p] = "connecting"
  /\ Call("poller", "epoll")
  /\ UNCHANGED <<lockVars, appVars, open, tlsVars>>

(* Bug: it waits for an event as long as it takes.                         *)
pollerEpollWait_NoTimeout ==
  /\ \E p \in Procs : pc[p] = "connecting"
  /\ InCall("poller", "epoll")
  /\ readers' = readers \ {"poller"}
  /\ Goto("poller", IF stopping THEN "done" ELSE "enter")
  /\ UNCHANGED <<tid, writer, workerRegistry, vclWorkers, appVars, open, tlsVars>>

(* pollerEpollWait returns with events, or after 100 ms without; the loop  *)
(* looks at its stop channel and comes back.                               *)
pollerEpollWait ==
  /\ InCall("poller", "epoll")
  /\ readers' = readers \ {"poller"}
  /\ Goto("poller", IF stopping THEN "done" ELSE "enter")
  /\ UNCHANGED <<tid, writer, workerRegistry, vclWorkers, appVars, open, tlsVars>>

Shutdown ==
  /\ pc["main"] = "idle"
  /\ shutdownStarted' = TRUE
  /\ Goto("main", "stop")
  /\ UNCHANGED <<lockVars, app, stopping, open, tlsVars>>

(* StopPoller asks the poller to stop, and waits for it.                   *)
StopPoller ==
  /\ pc["main"] = "stop" /\ ~stopping
  /\ stopping' = TRUE
  /\ UNCHANGED <<ctlVars, lockVars, app, shutdownStarted, open, tlsVars>>

(* mode3AppDestroy does nothing unless the application was created.        *)
AppDestroy ==
  /\ pc["main"] = "stop" /\ stopping
  /\ pc["poller"] \in {"idle", "done"}
  /\ IF app = "ok" THEN Call("main", "destroy") ELSE Goto("main", "done")
  /\ UNCHANGED <<lockVars, appVars, open, tlsVars>>

(* vls_app_destroy frees every session and ends VCL, which knows no worker *)
(* any more; the code's own map is left as it is. What becomes of the      *)
(* certificates is not looked at: no session uses one from here on.        *)
mode3AppDestroy ==
  /\ pc["main"] = "locked"
  /\ app' = "destroyed"
  /\ open' = {} /\ vclWorkers' = {}
  /\ writer' = None /\ Unpin("main")
  /\ Goto("main", "done")
  /\ UNCHANGED <<readers, workerRegistry, shutdownStarted, stopping, tlsVars>>

-----------------------------------------------------------------------------
LockSteps(a) ==
  enterVLS(a) \/ Lock(a) \/ Locked(a) \/ registerThisThread(a)

(* The steps of each goroutine; what starts it is not one of them.         *)
Caller(p) ==
  \/ LockSteps(p) \/ InitWithOptions(p) \/ mode3AppInit(p) \/ Start(p)
  \/ Resolve(p) \/ Resolved(p) \/ AddCertKeyPair(p) \/ Recheck(p)
  \/ DelCertKeyPair(p) \/ CreateSession(p) \/ SetV6Only(p) \/ GetLocalAddr(p)
  \/ connectWait(p) \/ finishConnect(p) \/ Close(p)

Poller == LockSteps("poller") \/ pollerEpollWait
Main == LockSteps("main") \/ StopPoller \/ AppDestroy \/ mode3AppDestroy

Next ==
  \/ \E p \in Procs : Caller(p)
  \/ PollerStart \/ Poller
  \/ Shutdown \/ Main \/ ForeignPair

Spec == Init /\ [][Next]_vars

(* Goroutines run: one that can take a step takes it, a VLS call returns   *)
(* (vls_epoll_wait within its timeout), and a connect ends (module Dial).  *)
(* Nobody has to shut the application down.                                *)
FairSpec ==
  /\ Spec
  /\ \A p \in Procs : WF_vars(Caller(p))
  /\ WF_vars(Poller) /\ WF_vars(Main)

-----------------------------------------------------------------------------
(* vls_register_vcl_worker, vls_app_create and vls_app_destroy run alone:  *)
(* nobody is inside another VLS call, and no two of them run at once       *)
(* (the reason cgo.go gives for vlsMu).                                    *)
RunsAlone ==
  \A a \in Actors :
    pc[a] \in {"register", "locked"} =>
      \A b \in Actors \ {a} : pc[b] \notin {"in", "register", "locked"}

(* A VLS call is made from a thread that VCL knows as a worker, wherever   *)
(* the goroutine ran before, for as long as there is an application.       *)
CallsFromWorkers ==
  \A a \in Actors : pc[a] = "in" /\ app # "destroyed" => tid[a] \in vclWorkers

(* A constructor that returns an error leaves no session behind, whichever *)
(* of its steps failed and on whichever side of the C boundary.            *)
FailureLeavesNothing ==
  /\ TypeOK
  /\ \A p \in Procs : pc[p] = "done" /\ result[p] = "err" => p \notin open

(* The certificate a TLS session was given is the one its config holds,    *)
(* for as long as the session is open: its index was not released by the   *)
(* loser of a race for the same pair and taken over by another pair. And   *)
(* VPP's store does not grow with the number of configs: when no config is *)
(* being resolved, a pair has the index that ckpairCache knows and, beside *)
(* it, only those that a loser tried to release and could not.             *)
RightCertificate ==
  /\ \A p \in open :
       cfg[p] # None => ckp[p] # 0 /\ store[ckp[p]] = PairOf[cfg[p]]
  /\ (\A c \in Configs : once[c] \in {"new", "done"}) =>
       \A i \in Indices : store[i] \in Pairs =>
         ckpairCache[store[i]] = i \/ i \in leaked

(* Every constructor returns: in particular a new thread gets registered   *)
(* although the poller keeps going back to epoll_wait, and a caller that   *)
(* waits for another's once.Do gets through. And a shutdown that has begun *)
(* gets through StopPoller and AppDestroy.                                 *)
CallsReturn ==
  /\ <>(\A p \in Procs : pc[p] = "done")
  /\ pc["main"] = "stop" ~> pc["main"] = "done"

=============================================================================
