--------------------------- MODULE Endpoint_proofs ---------------------------
(***************************************************************************)
(* Proofs about the VLS lock, the registration of threads, the clean-up of *)
(* the constructors and the certificate cache, for any number of callers,  *)
(* threads and configs.                                                    *)
(***************************************************************************)
EXTENDS Endpoint, TLAPS

(* The places of a goroutine on its way through a VLS call. *)
InVls(a) == pc[a] \in {"enter", "reglock", "register", "in"}
Doing(a, cs) == InVls(a) /\ call[a] \in cs

(* Inside once.Do, and holding an index nobody else knows of. *)
Resolving(p) == pc[p] = "recheck" \/ Doing(p, {"add", "del"})
Holder(p) == pc[p] = "recheck" \/ Doing(p, {"del"})

(* Where each goroutine can be, on which thread, and with which config. *)
PlaceOK ==
  /\ \A a \in Actors :
       pc[a] \in {"reglock", "register", "lock", "locked", "in"} => tid[a] # None
  /\ \A p \in Procs :
       InVls(p) => call[p] \in {"add", "del", "create", "v6only", "localaddr", "close"}
  /\ \A p \in Procs : call[p] # "destroy"
  /\ \A p \in Procs : cfg[p] # None => PairOf[cfg[p]] # "partial"
  /\ \A p \in Procs : Resolving(p) => cfg[p] # None
  /\ call["poller"] # "destroy"
  /\ call["main"] \in {"none", "destroy"} /\ (InVls("main") => call["main"] = "destroy")

BaseInv == TypeOK /\ PlaceOK

(* vlsMu: who is inside, and who keeps the others out. *)
LockInv ==
  /\ \A a \in Actors : a \in readers <=> pc[a] = "in"
  /\ \A a \in Actors : pc[a] \in {"register", "locked"} => writer = a /\ readers = {}

(* While there is an application, the code's map never claims a worker     *)
(* that VCL does not know.                                                 *)
WorkerInv ==
  /\ app # "destroyed" => workerRegistry \subseteq vclWorkers
  /\ \A a \in Actors : pc[a] = "in" => tid[a] \in workerRegistry

(* A session exists only while its constructor is still responsible for it *)
(* or has returned it.                                                     *)
SessionInv ==
  \A p \in open : \/ pc[p] \in {"connecting", "finish"}
                  \/ Doing(p, {"v6only", "localaddr", "close"})
                  \/ pc[p] = "done" /\ result[p] = "ok"

(* One goroutine at most creates or destroys the application. *)
AppInv ==
  /\ \A p \in Procs : pc[p] \in {"lock", "locked"} => app = "running"
  /\ \A p, q \in Procs :
       pc[p] \in {"lock", "locked"} /\ pc[q] \in {"lock", "locked"} => p = q
  /\ InVls("main") \/ pc["main"] \in {"lock", "locked"} => app = "ok"
  /\ app = "destroyed" => open = {}

(* What once.Do and the cache say of each other. *)
OnceInv ==
  /\ \A p \in Procs : Resolving(p) => once[cfg[p]] = p
  /\ \A c \in Configs : once[c] # "new" => PairOf[c] # "partial"
  /\ \A c \in Configs : once[c] = "done" /\ ~cerr[c] =>
       cidx[c] # 0 /\ cidx[c] = ckpairCache[PairOf[c]]
  /\ \A p \in Procs : Holder(p) => ckp[p] # 0
  /\ \A p \in Procs : Doing(p, {"del"}) => cidx[cfg[p]] # 0 /\ cidx[cfg[p]] = Cached(p)
  /\ \A p \in Procs :
       /\ cfg[p] # None
       /\ p \in open \/ Doing(p, {"create"})
       => ckp[p] # 0 /\ ckp[p] = Cached(p)

(* Every index of VPP's store that has one of the pairs is published, held *)
(* by the one who adds it, or left over from a release that failed.        *)
StoreInv ==
  /\ \A k \in Pairs : ckpairCache[k] # 0 => store[ckpairCache[k]] = k
  /\ \A p \in Procs : Holder(p) => store[ckp[p]] = Pair(p) /\ Cached(p) # ckp[p]
  /\ \A p, q \in Procs : Holder(p) /\ Holder(q) /\ ckp[p] = ckp[q] => p = q
  /\ \A i \in Indices : store[i] \in Pairs =>
       \/ ckpairCache[store[i]] = i \/ i \in leaked
       \/ \E p \in Procs : Holder(p) /\ ckp[p] = i

-----------------------------------------------------------------------------
(* A goroutine is locked to a thread of the process, and VPP gives out an  *)
(* index that is free.                                                     *)
LEMMA Choices ==
  ASSUME TypeOK
  PROVE  /\ \A a \in Actors : \A t \in Runnable(a) : t \in Threads
         /\ \A i \in FreeIndex :
              i \in Indices /\ store[i] = None /\ i # 0
BY DEF TypeOK, Runnable, OneOf, Free, FreeIndex, Indices

(* The certificate of a caller with a config. *)
LEMMA PairType ==
  ASSUME BaseInv, NEW p \in Procs, cfg[p] # None
  PROVE  cfg[p] \in Configs /\ Pair(p) \in Pairs /\ Cached(p) \in 0 .. MaxIdx
<1>1. cfg[p] \in Configs /\ PairOf[cfg[p]] # "partial"
  BY DEF BaseInv, TypeOK, PlaceOK
<1>2. Pair(p) \in Pairs
  BY <1>1 DEF Pair, Pairs
<1>3. QED BY <1>1, <1>2 DEF Cached, BaseInv, TypeOK

(* The callers are actors, and neither the poller nor the main goroutine. *)
LEMMA ActorFacts ==
  /\ Procs \subseteq Actors /\ "poller" \in Actors /\ "main" \in Actors
  /\ "poller" \notin Procs /\ "main" \notin Procs
  /\ "new" \notin Procs /\ "done" \notin Procs
  /\ None \notin Actors /\ None \notin Threads /\ None \notin Configs
BY EndpointAssumption DEF Actors

(* The types and places hold at the start and are kept by every step. *)
LEMMA BaseStep == (Init => BaseInv) /\ (BaseInv /\ [Next]_vars => BaseInv')
<1>1. Init => BaseInv
  <2> USE EndpointAssumption DEF Actors, Indices
  <2> SUFFICES ASSUME Init PROVE BaseInv
    OBVIOUS
  <2>1. cerr \in [Configs -> BOOLEAN] /\ shutdownStarted \in BOOLEAN /\ stopping \in BOOLEAN
    BY Zenon DEF Init
  <2>2. /\ ckp \in [Procs -> 0 .. MaxIdx] /\ cidx \in [Configs -> 0 .. MaxIdx]
        /\ ckpairCache \in [Pairs -> 0 .. MaxIdx]
    BY DEF Init
  <2>3. /\ once \in [Configs -> Procs \union {"new", "done"}]
        /\ store \in [Indices -> Pairs \union {None, Foreign}] /\ leaked \subseteq 0 .. MaxIdx
        /\ kind \in [Procs -> Kinds \union {"none"}]
        /\ cfg \in [Procs -> Configs \union {None}]
        /\ result \in [Procs -> {"none", "ok", "err"}]
        /\ tid \in [Actors -> Threads \union {None}]
    BY DEF Init
  <2>4. /\ pc = [a \in Actors |-> "idle"] /\ call = [a \in Actors |-> "none"]
        /\ writer = None /\ readers = {} /\ open = {} /\ app = "new"
        /\ workerRegistry = {} /\ vclWorkers = {}
    BY DEF Init
  <2>5. TypeOK
    BY <2>1, <2>2, <2>3, <2>4 DEF TypeOK
  <2>6. PlaceOK
    BY DEF Init, PlaceOK, Resolving, Doing, InVls
  <2>7. QED BY <2>5, <2>6 DEF BaseInv
<1>2. BaseInv /\ [Next]_vars => BaseInv'
  <2> SUFFICES ASSUME BaseInv, [Next]_vars PROVE BaseInv'
    OBVIOUS
  <2> USE ActorFacts
  <2> USE DEF BaseInv, TypeOK, PlaceOK, InVls, Doing, Resolving,
              lockVars, askVars, tlsVars, appVars, ctlVars, Goto, Call, Finish
  <2>1. ASSUME NEW a \in Actors, LockSteps(a) PROVE BaseInv'
    <3>1. CASE enterVLS(a)
      <4>1. PICK t \in Runnable(a) :
              /\ LockOSThread(a, t)
              /\ IF t \in workerRegistry THEN RLock(a)
                 ELSE Goto(a, "reglock") /\ UNCHANGED readers
        BY <3>1 DEF enterVLS
      <4>2. t \in Threads
        BY Choices
      <4>3. QED BY <3>1, <4>1, <4>2 DEF enterVLS, LockOSThread, RLock
    <3>2. CASE Lock(a)
      BY <3>2 DEF Lock
    <3>3. CASE Locked(a)
      BY <3>3 DEF Locked
    <3>4. CASE registerThisThread(a)
      BY <3>4 DEF registerThisThread
    <3>5. QED BY <2>1, <3>1, <3>2, <3>3, <3>4 DEF LockSteps
  <2>2. ASSUME NEW p \in Procs, InitWithOptions(p) \/ mode3AppInit(p) \/ Start(p)
        PROVE  BaseInv'
    <3>0. p \in Actors /\ p # "poller" /\ p # "main"
      OBVIOUS
    <3>1. CASE InitWithOptions(p)
      <4>1. CASE Finish(p, "err") /\ UNCHANGED <<tid, app>>
        BY <3>0, <3>1, <4>1 DEF InitWithOptions
      <4>2. CASE Goto(p, "start") /\ UNCHANGED <<tid, app>>
        BY <3>0, <3>1, <4>2 DEF InitWithOptions
      <4>3. ASSUME NEW t \in Runnable(p), LockOSThread(p, t), Goto(p, "lock"),
                   app' = "running"
            PROVE  BaseInv'
        <5>1. t \in Threads
          BY <3>0, Choices
        <5>2. QED BY <3>0, <3>1, <4>3, <5>1 DEF InitWithOptions, LockOSThread
      <4>4. QED BY <3>1, <4>1, <4>2, <4>3, Zenon DEF InitWithOptions
    <3>2. CASE mode3AppInit(p)
      <4>8. TypeOK'
        BY <3>0, <3>2 DEF mode3AppInit, Unpin
      <4>9. PlaceOK'
        BY <3>0, <3>2 DEF mode3AppInit, Unpin
      <4>10. QED BY <4>8, <4>9 DEF BaseInv
    <3>3. CASE Start(p)
      <4>1. CASE Finish(p, "err")
        BY <3>0, <3>3, <4>1 DEF Start
      <4>2. ASSUME NEW r \in Requests[p],
                   validate(r[1], r[2]),
                   kind' = [kind EXCEPT ![p] = r[1]], cfg' = [cfg EXCEPT ![p] = r[2]],
                   \/ pc' = [pc EXCEPT ![p] = "enter"] /\ call' = [call EXCEPT ![p] = "create"]
                   \/ pc' = [pc EXCEPT ![p] = "resolve"] /\ UNCHANGED call,
                   UNCHANGED <<result, lockVars, appVars, open, tlsVars>>
            PROVE  BaseInv'
        <5>1. r[1] \in Kinds /\ r[2] \in Configs \union {None}
          BY EndpointAssumption
        <5>2. r[2] # None => PairOf[r[2]] # "partial"
          BY <4>2 DEF validate
        <5>3. QED BY <3>0, <4>2, <5>1, <5>2
      <4>3. QED BY <3>3, <4>1, <4>2, Zenon DEF Start
    <3>4. QED BY <2>2, <3>1, <3>2, <3>3
  <2>3. ASSUME NEW p \in Procs,
               Resolve(p) \/ Resolved(p) \/ AddCertKeyPair(p) \/ Recheck(p) \/ DelCertKeyPair(p)
        PROVE  BaseInv'
    <3>0. p \in Actors /\ p # "poller" /\ p # "main"
      OBVIOUS
    <3> USE DEF exitVLS, Unpin, InCall, OnceDone, SetIdx
    <3>1. CASE Resolve(p)
      BY <3>0, <3>1, PairType DEF Resolve
    <3>2. CASE Resolved(p)
      <4>1. cfg[p] # None => cidx[cfg[p]] \in 0 .. MaxIdx
        BY PairType
      <4>2. 0 \in 0 .. MaxIdx
        BY EndpointAssumption
      <4>3. CASE Finish(p, "err") /\ UNCHANGED ckp
        BY <3>0, <3>2, <4>3 DEF Resolved
      <4>4. CASE /\ ckp' = [ckp EXCEPT ![p] = IF cfg[p] = None THEN 0 ELSE cidx[cfg[p]]]
                 /\ Call(p, "create")
        BY <3>0, <3>2, <4>1, <4>2, <4>4 DEF Resolved
      <4>5. QED BY <3>2, <4>3, <4>4 DEF Resolved
    <3>3. CASE AddCertKeyPair(p)
      <4>1. cfg[p] # None
        BY <3>0, <3>3 DEF AddCertKeyPair
      <4>2. cerr' \in [Configs -> BOOLEAN]
        BY <3>0, <3>3, Zenon DEF AddCertKeyPair
      <4>3. Pair(p) \in Pairs
        BY <4>1, PairType
      <4>4. \A i \in FreeIndex :
              i \in Indices /\ i \in 0 .. MaxIdx
        BY EndpointAssumption, Choices DEF Indices
      <4>5. CASE pc' = [pc EXCEPT ![p] = "recheck"]
        <5>1. PICK i \in FreeIndex :
                store' = [store EXCEPT ![i] = Pair(p)] /\ ckp' = [ckp EXCEPT ![p] = i]
          BY <3>0, <3>3, <4>5 DEF AddCertKeyPair
        <5>2. UNCHANGED <<once, cerr, cidx, ckpairCache, leaked, app, shutdownStarted,
                          stopping, open>>
          BY <3>0, <3>3, <4>5 DEF AddCertKeyPair
        <5>3. Goto(p, "recheck") /\ exitVLS(p)
          BY <3>0, <3>3, <4>5 DEF AddCertKeyPair
        <5>4. QED BY <3>0, <4>1, <4>3, <4>4, <5>1, <5>2, <5>3
      <4>6. CASE pc' = [pc EXCEPT ![p] = "resolve"]
        BY <3>0, <3>3, <4>1, <4>2, <4>3, <4>4, <4>6 DEF AddCertKeyPair
      <4>7. QED BY <3>3, <4>5, <4>6 DEF AddCertKeyPair
    <3>4. CASE Recheck(p)
      BY <3>0, <3>4, PairType DEF Recheck, Publish, Yield
    <3>5. CASE DelCertKeyPair(p)
      <4>1. Doing(p, {"del"}) /\ cfg[p] # None
        BY <3>0, <3>5 DEF DelCertKeyPair
      <4>2. store' \in [Indices -> Pairs \union {None, Foreign}]
        BY <3>5 DEF DelCertKeyPair
      <4>3. leaked' \subseteq 0 .. MaxIdx
        <5>1. leaked' \subseteq leaked \union {ckp[p]}
          BY <3>5 DEF DelCertKeyPair
        <5>2. QED BY <5>1
      <4>4. /\ UNCHANGED <<ckp, cidx, cerr, ckpairCache, app, shutdownStarted, stopping, open>>
            /\ Goto(p, "resolve") /\ exitVLS(p) /\ OnceDone(cfg[p])
        BY <3>5 DEF DelCertKeyPair
      <4>5. QED BY <3>0, <4>1, <4>2, <4>3, <4>4
    <3>6. QED BY <2>3, <3>1, <3>2, <3>3, <3>4, <3>5
  <2>4. ASSUME NEW p \in Procs,
               CreateSession(p) \/ SetV6Only(p) \/ GetLocalAddr(p) \/ connectWait(p)
                 \/ finishConnect(p) \/ Close(p)
        PROVE  BaseInv'
    <3>0. p \in Actors /\ p # "poller" /\ p # "main"
      OBVIOUS
    <3> USE DEF exitVLS, Unpin, InCall
    <3>1. CASE CreateSession(p)
      <4>1. open' \subseteq Procs
        BY <3>1 DEF CreateSession, CreateSucceeds, CreateFails, Created
      <4>2. CASE Finish(p, "err")
        BY <3>0, <3>1, <4>1, <4>2 DEF CreateSession
      <4>3. CASE CreateSucceeds(p)
        BY <3>0, <3>1, <4>1, <4>3 DEF CreateSession, CreateSucceeds
      <4>4. QED BY <3>1, <4>2, <4>3 DEF CreateSession, CreateFails
    <3>2. CASE SetV6Only(p)
      <4>8. TypeOK'
        BY <3>0, <3>2 DEF SetV6Only
      <4>9. PlaceOK'
        BY <3>0, <3>2 DEF SetV6Only
      <4>10. QED BY <4>8, <4>9 DEF BaseInv
    <3>3. CASE GetLocalAddr(p)
      BY <3>0, <3>3 DEF GetLocalAddr
    <3>4. CASE connectWait(p) \/ finishConnect(p)
      <4>0. UNCHANGED <<lockVars, appVars, open, tlsVars>>
        BY <3>4 DEF connectWait, finishConnect
      <4>1. CASE Goto(p, "finish")
        BY <3>0, <4>0, <4>1
      <4>2. CASE Finish(p, "ok")
        BY <3>0, <4>0, <4>2
      <4>3. CASE Call(p, "close")
        BY <3>0, <4>0, <4>3
      <4>4. QED BY <3>4, <4>1, <4>2, <4>3 DEF connectWait, finishConnect
    <3>5. CASE Close(p)
      BY <3>0, <3>5 DEF Close
    <3>6. QED BY <2>4, <3>1, <3>2, <3>3, <3>4, <3>5
  <2>5. CASE PollerStart \/ pollerEpollWait
    <3>1. CASE PollerStart
      BY <3>1 DEF PollerStart
    <3>2. CASE pollerEpollWait
      BY <3>2 DEF pollerEpollWait
    <3>3. QED BY <2>5, <3>1, <3>2
  <2>6. CASE Shutdown \/ StopPoller \/ AppDestroy \/ mode3AppDestroy
    <3>1. CASE Shutdown
      BY <3>1 DEF Shutdown
    <3>5. CASE StopPoller
      BY <3>5 DEF StopPoller
    <3>2. CASE AppDestroy
      BY <3>2 DEF AppDestroy
    <3>3. CASE mode3AppDestroy
      BY <3>3 DEF mode3AppDestroy, Unpin
    <3>4. QED BY <2>6, <3>1, <3>2, <3>3, <3>5
  <2>7. CASE UNCHANGED vars
    BY <2>7 DEF vars
  <2>8. CASE ForeignPair
    BY <2>8, Choices DEF ForeignPair
  <2> HIDE DEF BaseInv
  <2>9. QED
    BY <2>1, <2>2, <2>3, <2>4, <2>5, <2>6, <2>7, <2>8, Zenon DEF Next, Caller, Poller, Main
<1>3. QED BY <1>1, <1>2

(* The state of the callers, the lock and the certificates keeps its types. *)
THEOREM TypeCorrect == Spec => []TypeOK
<1>1. BaseInv => TypeOK
  BY DEF BaseInv
<1>2. QED BY <1>1, BaseStep, PTL DEF Spec
-----------------------------------------------------------------------------
(* Whatever an actor does, the others stay where they are. *)
OthersStay(a) ==
  /\ \A b \in Actors : b # a => pc'[b] = pc[b] /\ call'[b] = call[b]
  /\ \A p \in Procs : p # a => /\ cfg'[p] = cfg[p] /\ ckp'[p] = ckp[p]
                               /\ result'[p] = result[p]

(* The lock steps move an actor within its VLS call, or take it from       *)
(* there to the write lock. *)
LockMove(a) ==
  /\ OthersStay(a)
  /\ UNCHANGED <<call, result, cfg, app, open, ckp, once, cidx, cerr, ckpairCache, store,
                 leaked>>
  /\ \/ InVls(a) /\ InVls(a)'
     \/ InVls(a) /\ pc'[a] = "lock" /\ call[a] = "destroy"
     \/ pc[a] = "lock" /\ pc'[a] \in {"lock", "locked"}

LEMMA LockMoves ==
  ASSUME BaseInv, NEW a \in Actors, LockSteps(a)
  PROVE  LockMove(a)
<1>0. pc = [b \in Actors |-> pc[b]]
  BY DEF BaseInv, TypeOK
<1> USE <1>0 DEF lockVars, askVars, tlsVars, appVars, ctlVars, Goto, LockMove, OthersStay, InVls
<1>1. CASE enterVLS(a)
  BY <1>1 DEF enterVLS, RLock
<1>2. CASE Lock(a)
  BY <1>2 DEF Lock
<1>3. CASE Locked(a)
  BY <1>3 DEF Locked
<1>4. CASE registerThisThread(a)
  BY <1>4 DEF registerThisThread
<1>5. QED BY <1>1, <1>2, <1>3, <1>4 DEF LockSteps

(* A step of a caller leaves the others alone. *)
LEMMA CallerMoves ==
  ASSUME BaseInv, NEW p \in Procs, Caller(p)
  PROVE  OthersStay(p)
<1>0. /\ pc = [b \in Actors |-> pc[b]] /\ call = [b \in Actors |-> call[b]]
      /\ cfg = [q \in Procs |-> cfg[q]] /\ ckp = [q \in Procs |-> ckp[q]]
      /\ result = [q \in Procs |-> result[q]] /\ p \in Actors
  BY ActorFacts DEF BaseInv, TypeOK
<1> USE <1>0 DEF lockVars, askVars, tlsVars, appVars, ctlVars, Goto, Call, Finish, OthersStay
<1>1. CASE LockSteps(p)
  BY <1>1, LockMoves DEF LockMove
<1>2. CASE InitWithOptions(p) \/ mode3AppInit(p)
  BY <1>2 DEF InitWithOptions, mode3AppInit
<1>3. CASE Start(p)
  BY <1>3 DEF Start
<1>4. CASE Resolve(p) \/ Resolved(p)
  BY <1>4 DEF Resolve, Resolved
<1>5. CASE AddCertKeyPair(p)
  BY <1>5 DEF AddCertKeyPair
<1>6. CASE Recheck(p) \/ DelCertKeyPair(p)
  BY <1>6 DEF Recheck, Publish, Yield, DelCertKeyPair
<1>7. CASE CreateSession(p)
  BY <1>7 DEF CreateSession, CreateSucceeds, CreateFails
<1>8. CASE SetV6Only(p) \/ GetLocalAddr(p) \/ connectWait(p) \/ finishConnect(p) \/ Close(p)
  BY <1>8 DEF SetV6Only, GetLocalAddr, connectWait, finishConnect, Close
<1>9. QED
  BY <1>1, <1>2, <1>3, <1>4, <1>5, <1>6, <1>7, <1>8 DEF Caller

(* SessionInv and AppInv are inductive. *)
LEMMA SessionStep ==
  BaseInv /\ SessionInv /\ AppInv /\ [Next]_vars => SessionInv' /\ AppInv'
<1> SUFFICES ASSUME BaseInv, SessionInv, AppInv, [Next]_vars
             PROVE  SessionInv' /\ AppInv'
  OBVIOUS
<1>0. /\ pc = [b \in Actors |-> pc[b]] /\ call = [b \in Actors |-> call[b]]
      /\ result = [q \in Procs |-> result[q]] /\ open \subseteq Procs
  BY DEF BaseInv, TypeOK
<1> USE <1>0, ActorFacts
<1> USE DEF SessionInv, AppInv, InVls, Doing
<1>1. ASSUME NEW a \in Actors, LockSteps(a) PROVE SessionInv' /\ AppInv'
  <2>1. LockMove(a)
    BY <1>1, LockMoves
  <2>2. \A p \in Procs : call[p] # "destroy"
    BY DEF BaseInv, PlaceOK
  <2>3. QED BY <2>1, <2>2 DEF LockMove, OthersStay
<1>2. ASSUME NEW p \in Procs, Caller(p), p \notin open', p \notin open,
             pc'[p] \notin {"lock", "locked"}, pc[p] \notin {"lock", "locked"},
             UNCHANGED app, open' = open
      PROVE  SessionInv' /\ AppInv'
  BY <1>2, CallerMoves DEF OthersStay
<1>3. ASSUME NEW p \in Procs, Caller(p),
             pc'[p] \notin {"lock", "locked"}, pc[p] \notin {"lock", "locked"},
             UNCHANGED app, open' \ {p} \subseteq open,
             app = "destroyed" => open' = {},
             p \in open' => \/ pc'[p] \in {"connecting", "finish"}
                            \/ InVls(p)' /\ call'[p] \in {"v6only", "localaddr", "close"}
                            \/ pc'[p] = "done" /\ result'[p] = "ok"
      PROVE  SessionInv' /\ AppInv'
  BY <1>3, CallerMoves DEF OthersStay
<1> USE DEF lockVars, askVars, tlsVars, appVars, ctlVars, Goto, Call, Finish
<1>4. ASSUME NEW p \in Procs, InitWithOptions(p) \/ mode3AppInit(p)
      PROVE  SessionInv' /\ AppInv'
  <2>0. OthersStay(p) /\ p \in Actors /\ p # "main"
    BY <1>4, CallerMoves DEF Caller
  <2>1. CASE InitWithOptions(p)
    <3>1. CASE pc'[p] \in {"done", "start"}
      <4>1. UNCHANGED <<app, open>> /\ pc[p] = "idle"
        BY <2>0, <2>1, <3>1 DEF InitWithOptions
      <4>2. QED BY <1>2, <2>0, <2>1, <3>1, <4>1 DEF Caller
    <3>2. CASE pc'[p] = "lock" /\ app = "new" /\ app' = "running"
      BY <2>0, <2>1, <3>2 DEF InitWithOptions, OthersStay
    <3>3. QED BY <2>0, <2>1, <3>1, <3>2 DEF InitWithOptions
  <2>2. CASE mode3AppInit(p)
    BY <2>0, <2>2 DEF mode3AppInit, OthersStay
  <2>3. QED BY <1>4, <2>1, <2>2
<1>5. ASSUME NEW p \in Procs,
             Start(p) \/ Resolve(p) \/ Resolved(p) \/ AddCertKeyPair(p) \/ Recheck(p)
               \/ DelCertKeyPair(p)
      PROVE  SessionInv' /\ AppInv'
  <2>1. p \notin open
    BY <1>5 DEF Start, Resolve, Resolved, AddCertKeyPair, Recheck, DelCertKeyPair, InCall
  <2>2. UNCHANGED <<open, app>>
    BY <1>5 DEF Start, Resolve, Resolved, AddCertKeyPair, Recheck, DelCertKeyPair
  <2>3. pc[p] \notin {"lock", "locked"}
    BY <1>5 DEF Start, Resolve, Resolved, AddCertKeyPair, Recheck, DelCertKeyPair, InCall
  <2>4. pc'[p] \notin {"lock", "locked"}
    BY <1>5 DEF Start, Resolve, Resolved, AddCertKeyPair, Recheck, Publish, Yield, DelCertKeyPair
  <2>5. QED BY <1>2, <1>5, <2>1, <2>2, <2>3, <2>4, Zenon DEF Caller
<1>6. ASSUME NEW p \in Procs, CreateSession(p) PROVE SessionInv' /\ AppInv'
  <2>0. pc[p] = "in" /\ call[p] = "create" /\ p \notin open /\ UNCHANGED app /\ p \in Actors
    BY <1>6 DEF CreateSession, InCall
  <2>1. CASE CreateSucceeds(p)
    BY <1>3, <1>6, <2>0, <2>1 DEF CreateSucceeds, Caller
  <2>2. CASE CreateFails(p)
    <3>1. open' = open
      BY <2>0, <2>2 DEF CreateFails, ClosedByC, parseConnectResult, Created
    <3>2. QED BY <1>2, <1>6, <2>0, <2>2, <3>1 DEF CreateFails, Caller
  <2>3. QED BY <1>6, <2>1, <2>2 DEF CreateSession
<1>7. ASSUME NEW p \in Procs,
             SetV6Only(p) \/ GetLocalAddr(p) \/ connectWait(p) \/ finishConnect(p) \/ Close(p)
      PROVE  SessionInv' /\ AppInv'
  <2>0. p \in Actors
    OBVIOUS
  <2>1. pc[p] \notin {"lock", "locked"} /\ pc'[p] \notin {"lock", "locked"}
    BY <1>7, <2>0 DEF SetV6Only, GetLocalAddr, connectWait, finishConnect, Close, InCall
  <2>2. UNCHANGED app /\ open' \subseteq open
    BY <1>7 DEF SetV6Only, GetLocalAddr, connectWait, finishConnect, Close
  <2>3. p \in open' => \/ pc'[p] \in {"connecting", "finish"}
                       \/ InVls(p)' /\ call'[p] \in {"v6only", "localaddr", "close"}
                       \/ pc'[p] = "done" /\ result'[p] = "ok"
    BY <1>7, <2>0 DEF SetV6Only, GetLocalAddr, connectWait, finishConnect, Close
  <2>4. QED BY <1>3, <1>7, <2>1, <2>2, <2>3 DEF Caller
<1>8. CASE PollerStart \/ pollerEpollWait
  BY <1>8 DEF PollerStart, pollerEpollWait, InCall
<1>9. CASE Shutdown \/ StopPoller \/ AppDestroy \/ mode3AppDestroy
  BY <1>9 DEF Shutdown, StopPoller, AppDestroy, mode3AppDestroy
<1>10. CASE ForeignPair \/ UNCHANGED vars
  BY <1>10 DEF ForeignPair, vars
<1> HIDE DEF SessionInv, AppInv
<1>11. QED
  BY <1>1, <1>4, <1>5, <1>6, <1>7, <1>8, <1>9, <1>10, Zenon DEF Next, Caller, Poller, Main

LEMMA SessionInit == Init => SessionInv /\ AppInv
BY ActorFacts DEF Init, SessionInv, AppInv, InVls, Doing

(* A constructor that returns an error has closed its session, whichever   *)
(* step failed, on either side of the C boundary, and whatever the other   *)
(* goroutines and Shutdown did meanwhile.                                  *)
THEOREM FailureLeavesNothingHolds == Spec => []FailureLeavesNothing
<1>1. BaseInv /\ SessionInv => FailureLeavesNothing
  BY DEF BaseInv, SessionInv, FailureLeavesNothing, Doing, InVls
<1>2. QED BY <1>1, BaseStep, SessionStep, SessionInit, PTL DEF Spec
-----------------------------------------------------------------------------
(* LockInv and WorkerInv are inductive: a reader enters only while nobody  *)
(* holds or waits for the write lock, a writer goes on only when the       *)
(* readers have left, and a thread once registered stays registered. No    *)
(* application is created after the end of the first (AppInv).             *)
LEMMA LockStep ==
  BaseInv /\ AppInv /\ LockInv /\ WorkerInv /\ [Next]_vars => LockInv' /\ WorkerInv'
<1> SUFFICES ASSUME BaseInv, AppInv, LockInv, WorkerInv, [Next]_vars
             PROVE  LockInv' /\ WorkerInv'
  OBVIOUS
<1>0. /\ pc = [a \in Actors |-> pc[a]] /\ tid = [a \in Actors |-> tid[a]]
      /\ readers \subseteq Actors
  BY DEF BaseInv, TypeOK
<1> USE <1>0, ActorFacts
<1> USE DEF LockInv, WorkerInv, lockVars, askVars, tlsVars, appVars, ctlVars, Goto, Call,
            Finish
<1>1. ASSUME NEW a \in Actors, LockSteps(a) PROVE LockInv' /\ WorkerInv'
  <2>1. CASE enterVLS(a)
    <3>1. PICK t \in Runnable(a) :
            /\ LockOSThread(a, t)
            /\ IF t \in workerRegistry THEN RLock(a)
               ELSE Goto(a, "reglock") /\ UNCHANGED readers
      BY <2>1 DEF enterVLS
    <3>2. QED BY <2>1, <3>1 DEF enterVLS, LockOSThread, RLock
  <2>2. CASE Lock(a)
    BY <2>2 DEF Lock
  <2>3. CASE Locked(a)
    BY <2>3 DEF Locked
  <2>4. CASE registerThisThread(a)
    BY <2>4 DEF registerThisThread
  <2>5. QED BY <1>1, <2>1, <2>2, <2>3, <2>4 DEF LockSteps
<1>2. ASSUME NEW p \in Procs, InitWithOptions(p) \/ mode3AppInit(p) \/ Start(p)
      PROVE  LockInv' /\ WorkerInv'
  <2>0. p \in Actors
    OBVIOUS
  <2>1. CASE InitWithOptions(p)
    BY <2>0, <2>1 DEF InitWithOptions, LockOSThread
  <2>2. CASE mode3AppInit(p)
    <3>1. app = "running" /\ writer' = None /\ readers' = readers
          /\ pc[p] = "locked" /\ pc'[p] \in {"start", "done"}
      BY <2>0, <2>2 DEF mode3AppInit, AppInv
    <3>2. \A b \in Actors : b # p => pc'[b] = pc[b] /\ tid'[b] = tid[b]
      BY <2>0, <2>2 DEF mode3AppInit, Unpin
    <3>3. \/ UNCHANGED <<workerRegistry, vclWorkers>>
          \/ /\ workerRegistry' = workerRegistry \union {tid[p]}
             /\ vclWorkers' = vclWorkers \union {tid[p]}
      BY <2>2 DEF mode3AppInit
    <3>4. QED BY <2>0, <3>1, <3>2, <3>3
  <2>3. CASE Start(p)
    BY <2>0, <2>3 DEF Start
  <2>4. QED BY <1>2, <2>1, <2>2, <2>3
<1>3. ASSUME NEW p \in Procs,
             Resolve(p) \/ Resolved(p) \/ Recheck(p) \/ connectWait(p) \/ finishConnect(p)
      PROVE  LockInv' /\ WorkerInv'
  <2>0. p \in Actors
    OBVIOUS
  <2>1. pc[p] \notin {"in", "register", "locked"} /\ pc'[p] \notin {"in", "register", "locked"}
    BY <1>3, <2>0 DEF Resolve, Resolved, Recheck, Publish, Yield, connectWait, finishConnect
  <2>2. \A b \in Actors : b # p => pc'[b] = pc[b]
    BY <1>3, <2>0 DEF Resolve, Resolved, Recheck, Publish, Yield, connectWait, finishConnect
  <2>3. UNCHANGED <<lockVars, app>>
    BY <1>3 DEF Resolve, Resolved, Recheck, connectWait, finishConnect
  <2>4. QED BY <2>0, <2>1, <2>2, <2>3
<1>4. ASSUME NEW p \in Procs,
             AddCertKeyPair(p) \/ DelCertKeyPair(p) \/ CreateSession(p) \/ SetV6Only(p)
               \/ GetLocalAddr(p) \/ Close(p)
      PROVE  LockInv' /\ WorkerInv'
  <2>0. p \in Actors
    OBVIOUS
  <2>1. pc[p] = "in" /\ exitVLS(p) /\ UNCHANGED app
    BY <1>4 DEF AddCertKeyPair, DelCertKeyPair, CreateSession, SetV6Only, GetLocalAddr,
                Close, InCall
  <2>2. \E l \in {"recheck", "resolve", "finish", "connecting", "enter", "done"} :
          pc' = [pc EXCEPT ![p] = l]
    BY <1>4 DEF AddCertKeyPair, DelCertKeyPair, CreateSession, SetV6Only, GetLocalAddr,
                Close, CreateSucceeds, CreateFails
  <2>3. QED BY <2>0, <2>1, <2>2 DEF exitVLS, Unpin
<1>5. CASE PollerStart \/ pollerEpollWait
  BY <1>5 DEF PollerStart, pollerEpollWait, InCall
<1>6. CASE Shutdown \/ StopPoller \/ AppDestroy \/ mode3AppDestroy
  BY <1>6 DEF Shutdown, StopPoller, AppDestroy, mode3AppDestroy, Unpin
<1>7. CASE ForeignPair \/ UNCHANGED vars
  BY <1>7 DEF ForeignPair, vars
<1> HIDE DEF LockInv, WorkerInv
<1>8. QED
  BY <1>1, <1>2, <1>3, <1>4, <1>5, <1>6, <1>7, Zenon DEF Next, Caller, Poller, Main

LEMMA LockInit == Init => LockInv /\ WorkerInv
BY DEF Init, LockInv, WorkerInv

(* vls_register_vcl_worker, vls_app_create and vls_app_destroy run alone,  *)
(* however many goroutines call VLS: a registration never overlaps another *)
(* one or a call that holds the read lock.                                 *)
THEOREM RunsAloneHolds == Spec => []RunsAlone
<1>1. LockInv => RunsAlone
  BY ActorFacts DEF LockInv, RunsAlone
<1>2. QED
  BY <1>1, BaseStep, SessionStep, SessionInit, LockStep, LockInit, PTL DEF Spec

(* Whatever thread a goroutine happens to be on, it makes its VLS call     *)
(* from a thread that VCL knows as a worker.                               *)
THEOREM CallsFromWorkersHolds == Spec => []CallsFromWorkers
<1>1. WorkerInv => CallsFromWorkers
  BY DEF WorkerInv, CallsFromWorkers
<1>2. QED
  BY <1>1, BaseStep, SessionStep, SessionInit, LockStep, LockInit, PTL DEF Spec
-----------------------------------------------------------------------------
(* A step that is not one of resolveCKPair's, seen from the certificates:  *)
(* nothing of theirs changes, the caller p is not inside once.Do, and it   *)
(* has a session or is about to create one only if it was so before.       *)
QuietFor(p) ==
  /\ UNCHANGED <<once, cidx, cerr, ckpairCache, ckp, store, leaked>>
  /\ OthersStay(p)
  /\ open' \ {p} \subseteq open
  /\ ~Resolving(p) /\ ~Resolving(p)'
  /\ cfg'[p] # None /\ (p \in open' \/ Doing(p, {"create"})') =>
       cfg'[p] = cfg[p] /\ (p \in open \/ Doing(p, {"create"}))

CertInv == BaseInv /\ SessionInv /\ AppInv /\ OnceInv /\ StoreInv

LEMMA QuietCert ==
  ASSUME CertInv, NEW p \in Procs, QuietFor(p)
  PROVE  OnceInv' /\ StoreInv'
<1> USE ActorFacts
<1>1. \A q \in Procs : /\ Resolving(q)' <=> Resolving(q)
                       /\ Holder(q)' <=> Holder(q)
                       /\ Doing(q, {"del"})' <=> Doing(q, {"del"})
                       /\ q # p => (Doing(q, {"create"})' <=> Doing(q, {"create"}))
  BY DEF QuietFor, OthersStay, Resolving, Holder, Doing, InVls
<1>2. \A q \in Procs : Resolving(q) => cfg'[q] = cfg[q]
  BY DEF QuietFor, OthersStay
<1>3. \A q \in Procs : Holder(q) => Resolving(q)
  BY DEF Holder, Resolving, Doing
<1>4. \A q \in Procs : Doing(q, {"del"}) => Resolving(q)
  BY DEF Resolving, Doing
<1>5. OnceInv'
  <2> USE DEF CertInv, OnceInv
  <2>1. \A q \in Procs : Resolving(q)' => once'[cfg'[q]] = q
    BY <1>1, <1>2 DEF QuietFor
  <2>2. \A c \in Configs : once'[c] # "new" => PairOf[c] # "partial"
    BY DEF QuietFor
  <2>3. \A c \in Configs : once'[c] = "done" /\ ~cerr'[c] =>
          cidx'[c] # 0 /\ cidx'[c] = ckpairCache'[PairOf[c]]
    BY DEF QuietFor
  <2>4. \A q \in Procs : Holder(q)' => ckp'[q] # 0
    BY <1>1 DEF QuietFor
  <2>5. \A q \in Procs : Doing(q, {"del"})' => cidx'[cfg'[q]] # 0 /\ cidx'[cfg'[q]] = Cached(q)'
    BY <1>1, <1>2, <1>4 DEF QuietFor, Cached, Pair
  <2>6. \A q \in Procs :
          cfg'[q] # None /\ (q \in open' \/ Doing(q, {"create"})') =>
            ckp'[q] # 0 /\ ckp'[q] = Cached(q)'
    <3> SUFFICES ASSUME NEW q \in Procs, cfg'[q] # None, q \in open' \/ Doing(q, {"create"})'
                 PROVE  ckp'[q] # 0 /\ ckp'[q] = Cached(q)'
      OBVIOUS
    <3>1. cfg'[q] = cfg[q] /\ (q \in open \/ Doing(q, {"create"}))
      BY <1>1 DEF QuietFor, OthersStay
    <3>2. QED BY <3>1 DEF QuietFor, Cached, Pair
  <2> HIDE DEF CertInv
  <2>7. QED BY <2>1, <2>2, <2>3, <2>4, <2>5, <2>6
<1>6. StoreInv'
  <2>1. UNCHANGED <<store, leaked, ckpairCache, ckp>>
    BY DEF QuietFor
  <2>2. \A q \in Procs : Holder(q) => Pair(q)' = Pair(q) /\ Cached(q)' = Cached(q)
    BY <1>2, <1>3, <2>1 DEF Pair, Cached
  <2>3. QED BY <1>1, <2>1, <2>2 DEF CertInv, StoreInv
<1>7. QED BY <1>5, <1>6

(* The others keep their part in the resolution. *)
LEMMA OthersCert ==
  ASSUME NEW p \in Procs, OthersStay(p), NEW q \in Procs, q # p
  PROVE  /\ Resolving(q)' <=> Resolving(q)
         /\ Holder(q)' <=> Holder(q)
         /\ Doing(q, {"del"})' <=> Doing(q, {"del"})
         /\ Doing(q, {"create"})' <=> Doing(q, {"create"})
         /\ UNCHANGED <<cfg[q], ckp[q], Pair(q)>>
BY ActorFacts DEF OthersStay, Resolving, Holder, Doing, InVls, Pair

(* OnceInv and StoreInv are inductive. *)
LEMMA CertStep == CertInv /\ [Next]_vars => OnceInv' /\ StoreInv'
<1> SUFFICES ASSUME CertInv, [Next]_vars PROVE OnceInv' /\ StoreInv'
  OBVIOUS
<1>0. /\ pc = [b \in Actors |-> pc[b]] /\ call = [b \in Actors |-> call[b]]
      /\ cfg = [q \in Procs |-> cfg[q]]
      /\ open \subseteq Procs
  BY DEF CertInv, BaseInv, TypeOK
<1> USE <1>0, ActorFacts
<1> USE DEF lockVars, askVars, tlsVars, appVars, ctlVars, Goto, Call, Finish
<1>1. ASSUME NEW a \in Actors, LockSteps(a) PROVE OnceInv' /\ StoreInv'
  <2>1. LockMove(a)
    BY <1>1, LockMoves DEF CertInv
  <2>2. \A q \in Procs : call[q] # "destroy"
    BY DEF CertInv, BaseInv, PlaceOK
  <2>3. \A q \in Procs : \A cs : Doing(q, cs)' <=> Doing(q, cs)
    BY <2>1, <2>2 DEF LockMove, OthersStay, Doing, InVls
  <2>4. \A q \in Procs : (Resolving(q)' <=> Resolving(q)) /\ (Holder(q)' <=> Holder(q))
    BY <2>1, <2>2 DEF LockMove, OthersStay, Doing, InVls, Resolving, Holder
  <2>5. /\ UNCHANGED <<cfg, app, open, ckp, once, cidx, cerr, ckpairCache, store, leaked>>
        /\ \A q \in Procs : Pair(q)' = Pair(q) /\ Cached(q)' = Cached(q)
    BY <2>1 DEF LockMove, Pair, Cached
  <2>6. OnceInv'
    BY <2>3, <2>4, <2>5 DEF CertInv, OnceInv
  <2>7. StoreInv'
    BY <2>4, <2>5 DEF CertInv, StoreInv
  <2>8. QED BY <2>6, <2>7
<1>2. ASSUME NEW p \in Procs, InitWithOptions(p) \/ mode3AppInit(p) \/ Start(p)
      PROVE  OnceInv' /\ StoreInv'
  <2>1. p \in Actors /\ pc[p] \in {"idle", "locked", "start"}
    BY <1>2 DEF InitWithOptions, mode3AppInit, Start
  <2>2. OthersStay(p)
    BY <1>2, CallerMoves DEF Caller, CertInv
  <2>3. UNCHANGED <<once, cidx, cerr, ckpairCache, ckp, open, store, leaked>>
    BY <1>2 DEF InitWithOptions, mode3AppInit, Start
  <2>4. p \notin open
    BY <2>1 DEF CertInv, SessionInv, Doing, InVls
  <2>5. /\ pc'[p] \in {"done", "start", "lock", "enter", "resolve"}
        /\ pc'[p] = "enter" => cfg'[p] = None /\ call'[p] = "create"
    <3>1. CASE InitWithOptions(p)
      BY <2>1, <3>1 DEF InitWithOptions
    <3>2. CASE mode3AppInit(p)
      BY <2>1, <3>2 DEF mode3AppInit
    <3>3. CASE Start(p)
      BY <2>1, <3>3, EndpointAssumption DEF Start
    <3>4. QED BY <1>2, <3>1, <3>2, <3>3
  <2>6. QuietFor(p)
    BY <2>1, <2>2, <2>3, <2>4, <2>5 DEF QuietFor, Resolving, Doing, InVls
  <2>7. QED BY <2>6, QuietCert
<1>3. ASSUME NEW p \in Procs,
             CreateSession(p) \/ SetV6Only(p) \/ GetLocalAddr(p) \/ connectWait(p)
               \/ finishConnect(p) \/ Close(p)
      PROVE  OnceInv' /\ StoreInv'
  <2>1. p \in Actors
    OBVIOUS
  <2>2. OthersStay(p)
    BY <1>3, CallerMoves DEF Caller, CertInv
  <2>3. UNCHANGED <<once, cidx, cerr, ckpairCache, ckp, store, leaked>>
    BY <1>3 DEF CreateSession, SetV6Only, GetLocalAddr, connectWait, finishConnect, Close
  <2>4. open' \ {p} \subseteq open
    BY <1>3 DEF CreateSession, SetV6Only, GetLocalAddr, connectWait, finishConnect, Close,
                CreateSucceeds, CreateFails, Created
  <2>5. \/ pc[p] \in {"connecting", "finish"}
        \/ pc[p] = "in" /\ call[p] \in {"create", "v6only", "localaddr", "close"}
    BY <1>3 DEF CreateSession, SetV6Only, GetLocalAddr, connectWait, finishConnect, Close, InCall
  <2>6. \/ pc'[p] \in {"connecting", "finish", "done"}
        \/ pc'[p] = "enter" /\ call'[p] \in {"v6only", "localaddr", "close"}
    BY <1>3, <2>1 DEF CreateSession, SetV6Only, GetLocalAddr, connectWait, finishConnect, Close,
                CreateSucceeds, CreateFails
  <2>7. cfg'[p] = cfg[p] \/ cfg'[p] = None
    BY <1>3 DEF CreateSession, SetV6Only, GetLocalAddr, connectWait, finishConnect, Close,
                CreateSucceeds, CreateFails
  <2>8. p \in open' => p \in open \/ Doing(p, {"create"})
    BY <1>3 DEF CreateSession, SetV6Only, GetLocalAddr, connectWait, finishConnect, Close, InCall,
                Doing, InVls
  <2>9. QuietFor(p)
    BY <2>1, <2>2, <2>3, <2>4, <2>5, <2>6, <2>7, <2>8 DEF QuietFor, Resolving, Doing, InVls
  <2>10. QED BY <2>9, QuietCert
<1>4. ASSUME NEW p \in Procs,
             Resolve(p) \/ Resolved(p) \/ AddCertKeyPair(p) \/ Recheck(p) \/ DelCertKeyPair(p)
      PROVE  OnceInv' /\ StoreInv'
  <2>1. OthersStay(p) /\ p \in Actors
    BY <1>4, CallerMoves DEF Caller, CertInv
  <2>2. UNCHANGED <<open, app>>
    BY <1>4 DEF Resolve, Resolved, AddCertKeyPair, Recheck, DelCertKeyPair
  <2>3. p \notin open
    BY <1>4 DEF Resolve, Resolved, AddCertKeyPair, Recheck, DelCertKeyPair, InCall,
                CertInv, SessionInv, Doing, InVls
  <2>4. \A q \in Procs : q # p =>
          /\ Resolving(q)' <=> Resolving(q)
          /\ Holder(q)' <=> Holder(q)
          /\ Doing(q, {"del"})' <=> Doing(q, {"del"})
          /\ Doing(q, {"create"})' <=> Doing(q, {"create"})
          /\ UNCHANGED <<cfg[q], ckp[q], Pair(q)>>
    BY <2>1, OthersCert
  <2>5. \A q \in Procs : cfg[q] # None =>
          cfg[q] \in Configs /\ Pair(q) \in Pairs /\ Cached(q) \in 0 .. MaxIdx
    BY PairType DEF CertInv
  <2>6. /\ \A q \in Procs : Resolving(q) => cfg[q] # None
        /\ \A q \in Procs : Holder(q) \/ Doing(q, {"del"}) => Resolving(q)
    BY DEF CertInv, BaseInv, PlaceOK, Holder, Resolving, Doing
  <2>7. /\ cidx = [c \in Configs |-> cidx[c]] /\ once = [c \in Configs |-> once[c]]
        /\ cerr = [c \in Configs |-> cerr[c]]
        /\ ckpairCache \in [Pairs -> 0 .. MaxIdx]
        /\ store \in [Indices -> Pairs \union {None, Foreign}]
        /\ ckp \in [Procs -> 0 .. MaxIdx] /\ None \notin Pairs /\ MaxIdx \in Nat
    BY EndpointAssumption DEF CertInv, BaseInv, TypeOK
  <2>8. OnceInv /\ StoreInv
    BY DEF CertInv
  <2>9. CASE Resolve(p)
    <3>1. cfg[p] \in Configs /\ once[cfg[p]] = "new" /\ pc[p] = "resolve" /\ cfg' = cfg
      BY <2>5, <2>9 DEF Resolve
    <3>2. UNCHANGED <<ckp, cerr, ckpairCache, store, leaked>>
      BY <2>9 DEF Resolve
    <3>3. ~Resolving(p) /\ ~Doing(p, {"create"}) /\ ~Holder(p)' /\ ~Doing(p, {"del"})'
          /\ ~Doing(p, {"create"})'
      BY <2>1, <2>9, <3>1 DEF Resolve, Resolving, Doing, InVls, Holder
    <3>4. \A q \in Procs : Resolving(q) => cfg[q] # cfg[p]
      BY <2>8, <3>1 DEF OnceInv
    <3>5. OnceInv'
      <4>1. CASE Cached(p) # 0
        <5>1. cidx' = [cidx EXCEPT ![cfg[p]] = Cached(p)] /\ once' = [once EXCEPT ![cfg[p]] = "done"]
              /\ ~Resolving(p)'
          BY <2>9, <3>3, <4>1 DEF Resolve, SetIdx, OnceDone, Resolving, Doing, InVls
        <5>2. PairOf[cfg[p]] # "partial" /\ Cached(p) = ckpairCache[PairOf[cfg[p]]]
          BY <3>1 DEF Cached, Pair, CertInv, BaseInv, PlaceOK
        <5>3. \A c \in Configs : /\ once'[c] = IF c = cfg[p] THEN "done" ELSE once[c]
                                 /\ cidx'[c] = IF c = cfg[p] THEN Cached(p) ELSE cidx[c]
          BY <2>7, <5>1
        <5>4. QED
          BY <2>2, <2>3, <2>4, <2>5, <2>6, <2>8, <3>1, <3>2, <3>3, <3>4, <4>1, <5>1, <5>2, <5>3
             DEF OnceInv, Cached
      <4>2. CASE Cached(p) = 0
        <5>1. cidx' = cidx /\ once' = [once EXCEPT ![cfg[p]] = p]
          BY <2>9, <4>2 DEF Resolve
        <5>2. PairOf[cfg[p]] # "partial"
          BY <3>1 DEF CertInv, BaseInv, PlaceOK
        <5>3. \A c \in Configs : once'[c] = IF c = cfg[p] THEN p ELSE once[c]
          BY <2>7, <5>1
        <5>4. QED
          BY <2>2, <2>3, <2>4, <2>5, <2>6, <2>8, <3>1, <3>2, <3>3, <3>4, <5>1, <5>2, <5>3
             DEF OnceInv, Cached
      <4>3. QED BY <4>1, <4>2
    <3>6. StoreInv'
      BY <2>2, <2>4, <2>6, <2>8, <3>2, <3>3 DEF StoreInv, Cached
    <3>7. QED BY <3>5, <3>6
  <2>10. CASE Resolved(p)
    <3>1. pc[p] = "resolve" /\ UNCHANGED <<once, cidx, cerr, ckpairCache, store, leaked>>
          /\ (cfg[p] # None => once[cfg[p]] = "done")
      BY <2>10 DEF Resolved
    <3>2. ~Resolving(p) /\ ~Holder(p) /\ ~Resolving(p)' /\ ~Holder(p)' /\ ~Doing(p, {"del"})'
      BY <2>1, <2>10 DEF Resolved, Resolving, Holder, Doing, InVls
    <3>3. cfg'[p] # None /\ Doing(p, {"create"})' =>
            cfg'[p] = cfg[p] /\ ckp'[p] = cidx[cfg[p]] /\ ~cerr[cfg[p]]
      BY <2>1, <2>7, <2>10 DEF Resolved, Doing, InVls
    <3>4. cfg'[p] # None /\ Doing(p, {"create"})' => ckp'[p] # 0 /\ ckp'[p] = Cached(p)'
      BY <2>5, <2>8, <3>1, <3>3 DEF OnceInv, Cached, Pair
    <3>5. OnceInv'
      BY <2>2, <2>3, <2>4, <2>8, <3>1, <3>2, <3>4 DEF OnceInv, Cached
    <3>6. StoreInv'
      BY <2>2, <2>4, <2>6, <2>8, <3>1, <3>2 DEF StoreInv, Cached
    <3>7. QED BY <3>5, <3>6
  <2>11. CASE AddCertKeyPair(p)
    <3>1. /\ pc[p] = "in" /\ call[p] = "add" /\ UNCHANGED <<cidx, ckpairCache, cfg, call, leaked>>
          /\ Resolving(p) /\ ~Holder(p) /\ cfg[p] \in Configs
      BY <2>5, <2>6, <2>11 DEF AddCertKeyPair, InCall, Resolving, Holder, Doing, InVls
    <3>2. once[cfg[p]] = p /\ \A q \in Procs : Resolving(q) /\ q # p => cfg[q] # cfg[p]
      BY <2>8, <3>1 DEF OnceInv
    <3>3. CASE pc' = [pc EXCEPT ![p] = "recheck"]
      <4>1. PICK i \in FreeIndex :
              store' = [store EXCEPT ![i] = Pair(p)] /\ ckp' = [ckp EXCEPT ![p] = i]
        BY <2>1, <2>11, <3>3 DEF AddCertKeyPair
      <4>2. UNCHANGED <<once, cerr>>
        BY <2>1, <2>11, <3>3 DEF AddCertKeyPair
      <4>3. i \in Indices /\ store[i] = None /\ i # 0
        BY Choices DEF CertInv, BaseInv
      <4>4. Holder(p)' /\ Resolving(p)' /\ ~Doing(p, {"del"})' /\ ~Doing(p, {"create"})'
            /\ ckp'[p] = i /\ Pair(p)' = Pair(p) /\ Pair(p) \in Pairs
        BY <2>1, <2>5, <2>6, <2>7, <3>1, <3>3, <4>1 DEF Holder, Resolving, Doing, InVls, Pair
      <4>5. OnceInv'
        BY <2>2, <2>3, <2>4, <2>8, <3>1, <3>2, <4>2, <4>3, <4>4 DEF OnceInv, Cached
      <4>6. StoreInv'
        <5>1. \A q \in Procs : Holder(q) => ckp[q] \in Indices /\ ckp[q] # i /\ Pair(q) \in Pairs
          BY <2>5, <2>6, <2>7, <2>8, <4>3 DEF StoreInv, OnceInv, Indices
        <5>2. \A k \in Pairs : ckpairCache[k] # 0 => ckpairCache[k] \in Indices /\ ckpairCache[k] # i
          BY <2>7, <2>8, <4>3 DEF StoreInv, Indices
        <5>3. \A j \in Indices : store'[j] = IF j = i THEN Pair(p) ELSE store[j]
          BY <2>7, <4>1, <4>3
        <5>4. \A k \in Pairs : ckpairCache'[k] # 0 => store'[ckpairCache'[k]] = k
          BY <2>8, <3>1, <5>2, <5>3 DEF StoreInv
        <5>5. \A q \in Procs : Holder(q)' => store'[ckp'[q]] = Pair(q)' /\ Cached(q)' # ckp'[q]
          BY <2>4, <2>8, <3>1, <4>3, <4>4, <5>1, <5>2, <5>3 DEF StoreInv, Cached
        <5>6. \A q, r \in Procs : Holder(q)' /\ Holder(r)' /\ ckp'[q] = ckp'[r] => q = r
          BY <2>4, <2>8, <4>4, <5>1 DEF StoreInv
        <5>7. \A j \in Indices : store'[j] \in Pairs =>
                ckpairCache'[store'[j]] = j \/ j \in leaked' \/ \E q \in Procs : Holder(q)' /\ ckp'[q] = j
          BY <2>4, <2>8, <3>1, <4>4, <5>3 DEF StoreInv
        <5>8. QED BY <5>4, <5>5, <5>6, <5>7 DEF StoreInv
      <4>7. QED BY <4>5, <4>6
    <3>4. CASE pc' = [pc EXCEPT ![p] = "resolve"]
      <4>1. /\ cerr' = [cerr EXCEPT ![cfg[p]] = TRUE] /\ once' = [once EXCEPT ![cfg[p]] = "done"]
            /\ UNCHANGED <<store, ckp>>
        BY <2>1, <2>11, <3>4 DEF AddCertKeyPair, OnceDone
      <4>2. ~Resolving(p)' /\ ~Holder(p)' /\ ~Doing(p, {"del"})' /\ ~Doing(p, {"create"})'
        BY <2>1, <3>4 DEF Resolving, Holder, Doing, InVls
      <4>3. \A c \in Configs : cerr'[c] <=> (c = cfg[p] \/ cerr[c])
        BY <2>7, <4>1, Zenon
      <4>4. PairOf[cfg[p]] # "partial"
        BY <3>1, <2>6 DEF CertInv, BaseInv, PlaceOK
      <4>5. \A c \in Configs : once'[c] = IF c = cfg[p] THEN "done" ELSE once[c]
        BY <2>7, <4>1
      <4>6. OnceInv'
        BY <2>2, <2>3, <2>4, <2>5, <2>6, <2>8, <3>1, <3>2, <4>1, <4>2, <4>3, <4>4, <4>5
           DEF OnceInv, Cached
      <4>7. StoreInv'
        BY <2>2, <2>4, <2>6, <2>8, <3>1, <4>1, <4>2 DEF StoreInv, Cached
      <4>8. QED BY <4>6, <4>7
    <3>5. QED BY <2>11, <3>3, <3>4 DEF AddCertKeyPair
  <2>12. CASE Recheck(p)
    <3>1. /\ pc[p] = "recheck" /\ UNCHANGED <<ckp, cerr, store, leaked, cfg>>
          /\ Resolving(p) /\ Holder(p) /\ cfg[p] \in Configs /\ Pair(p) \in Pairs
          /\ Pair(p)' = Pair(p) /\ Cached(p) \in 0 .. MaxIdx /\ PairOf[cfg[p]] # "partial"
      BY <2>5, <2>6, <2>12 DEF Recheck, Publish, Yield, Resolving, Holder, Doing, InVls, Pair,
         CertInv, BaseInv, PlaceOK
    <3>2. once[cfg[p]] = p /\ (\A q \in Procs : Resolving(q) /\ q # p => cfg[q] # cfg[p])
          /\ ckp[p] # 0
      BY <2>8, <3>1 DEF OnceInv
    <3>3. CASE Cached(p) = 0
      <4>1. /\ ckpairCache' = [ckpairCache EXCEPT ![Pair(p)] = ckp[p]]
            /\ cidx' = [cidx EXCEPT ![cfg[p]] = ckp[p]] /\ once' = [once EXCEPT ![cfg[p]] = "done"]
            /\ pc' = [pc EXCEPT ![p] = "resolve"]
        BY <2>12, <3>3 DEF Recheck, Publish, SetIdx, OnceDone
      <4>2. ~Resolving(p)' /\ ~Holder(p)' /\ ~Doing(p, {"del"})' /\ ~Doing(p, {"create"})'
        BY <2>1, <4>1 DEF Resolving, Holder, Doing, InVls
      <4>3. \A k \in Pairs : ckpairCache'[k] = IF k = Pair(p) THEN ckp[p] ELSE ckpairCache[k]
        BY <2>7, <4>1
      <4>4. ckpairCache[Pair(p)] = 0
        BY <3>3 DEF Cached
      <4>5. \A c \in Configs : PairOf[c] # "partial" => PairOf[c] \in Pairs
        BY DEF Pairs
      <4>6. \A c \in Configs : /\ once'[c] = IF c = cfg[p] THEN "done" ELSE once[c]
                               /\ cidx'[c] = IF c = cfg[p] THEN ckp[p] ELSE cidx[c]
        BY <2>7, <4>1
      <4>7. PairOf[cfg[p]] = Pair(p)
        BY DEF Pair
      <4>8. OnceInv'
        <5>1. \A q \in Procs : Resolving(q)' => once'[cfg'[q]] = q
          BY <2>4, <2>5, <2>6, <2>8, <3>1, <3>2, <4>2, <4>6 DEF OnceInv
        <5>2. \A c \in Configs : once'[c] # "new" => PairOf[c] # "partial"
          BY <2>8, <3>1, <4>6 DEF OnceInv
        <5>3. \A c \in Configs : once'[c] = "done" /\ ~cerr'[c] =>
                cidx'[c] # 0 /\ cidx'[c] = ckpairCache'[PairOf[c]]
          BY <2>8, <3>1, <3>2, <4>3, <4>4, <4>5, <4>6, <4>7 DEF OnceInv
        <5>4. \A q \in Procs : Holder(q)' => ckp'[q] # 0
          BY <2>4, <2>8, <4>2 DEF OnceInv
        <5>5. \A q \in Procs : Doing(q, {"del"})' => cidx'[cfg'[q]] # 0 /\ cidx'[cfg'[q]] = Cached(q)'
          BY <2>4, <2>5, <2>6, <2>8, <3>1, <3>2, <4>2, <4>3, <4>4, <4>6 DEF OnceInv, Cached
        <5>6. \A q \in Procs :
                cfg'[q] # None /\ (q \in open' \/ Doing(q, {"create"})') =>
                  ckp'[q] # 0 /\ ckp'[q] = Cached(q)'
          BY <2>2, <2>3, <2>4, <2>5, <2>8, <3>1, <4>2, <4>3, <4>4 DEF OnceInv, Cached
        <5>7. QED BY <5>1, <5>2, <5>3, <5>4, <5>5, <5>6 DEF OnceInv
      <4>9. StoreInv'
        <5>1. store[ckp[p]] = Pair(p)
          BY <2>8, <3>1 DEF StoreInv
        <5>2. \A k \in Pairs : ckpairCache'[k] # 0 => store'[ckpairCache'[k]] = k
          BY <2>8, <3>1, <4>3, <5>1 DEF StoreInv
        <5>3. \A q \in Procs : Holder(q)' => store'[ckp'[q]] = Pair(q)' /\ Cached(q)' # ckp'[q]
          BY <2>4, <2>5, <2>6, <2>8, <3>1, <4>2, <4>3 DEF StoreInv, Cached
        <5>4. \A q, r \in Procs : Holder(q)' /\ Holder(r)' /\ ckp'[q] = ckp'[r] => q = r
          BY <2>4, <2>8, <4>2 DEF StoreInv
        <5>5. \A j \in Indices : j # 0
          BY <2>7 DEF Indices
        <5>6. \A j \in Indices : store'[j] \in Pairs =>
                ckpairCache'[store'[j]] = j \/ j \in leaked' \/ \E q \in Procs : Holder(q)' /\ ckp'[q] = j
          BY <2>4, <2>8, <3>1, <4>3, <4>4, <5>1, <5>5 DEF StoreInv
        <5>7. QED BY <5>2, <5>3, <5>4, <5>6 DEF StoreInv
      <4>10. QED BY <4>8, <4>9
    <3>4. CASE Cached(p) # 0
      <4>1. /\ cidx' = [cidx EXCEPT ![cfg[p]] = Cached(p)] /\ UNCHANGED <<ckpairCache, once>>
            /\ pc' = [pc EXCEPT ![p] = "enter"] /\ call' = [call EXCEPT ![p] = "del"]
        BY <2>12, <3>4 DEF Recheck, Yield, SetIdx
      <4>2. Resolving(p)' /\ Holder(p)' /\ Doing(p, {"del"})' /\ ~Doing(p, {"create"})'
        BY <2>1, <4>1 DEF Resolving, Holder, Doing, InVls
      <4>3. \A c \in Configs : cidx'[c] = IF c = cfg[p] THEN Cached(p) ELSE cidx[c]
        BY <2>7, <4>1
      <4>4. once[cfg[p]] # "done"
        BY <3>2
      <4>5. OnceInv'
        BY <2>2, <2>3, <2>4, <2>5, <2>6, <2>8, <3>1, <3>2, <3>4, <4>1, <4>2, <4>3, <4>4
           DEF OnceInv, Cached
      <4>6. StoreInv'
        BY <2>2, <2>4, <2>6, <2>8, <3>1, <4>1, <4>2 DEF StoreInv, Cached
      <4>7. QED BY <4>5, <4>6
    <3>5. QED BY <3>3, <3>4
  <2>13. CASE DelCertKeyPair(p)
    <3>1. /\ Doing(p, {"del"}) /\ Holder(p) /\ Resolving(p) /\ cfg[p] \in Configs
          /\ Pair(p) \in Pairs /\ UNCHANGED <<ckp, cidx, cerr, ckpairCache, cfg>>
          /\ Pair(p)' = Pair(p) /\ PairOf[cfg[p]] = Pair(p) /\ Pair(p) # "partial"
      BY <2>5, <2>6, <2>13 DEF DelCertKeyPair, InCall, Resolving, Holder, Doing, InVls, Pair, Pairs
    <3>2. ~Resolving(p)' /\ ~Holder(p)' /\ ~Doing(p, {"del"})' /\ ~Doing(p, {"create"})'
      BY <2>1, <2>13 DEF DelCertKeyPair, Resolving, Holder, Doing, InVls
    <3>3. once[cfg[p]] = p /\ (\A q \in Procs : Resolving(q) /\ q # p => cfg[q] # cfg[p])
          /\ ckp[p] # 0 /\ cidx[cfg[p]] # 0 /\ cidx[cfg[p]] = ckpairCache[Pair(p)]
      BY <2>8, <3>1 DEF OnceInv, Cached
    <3>4. \A c \in Configs : once'[c] = IF c = cfg[p] THEN "done" ELSE once[c]
      BY <2>7, <2>13 DEF DelCertKeyPair, OnceDone
    <3>5. /\ ckp[p] \in Indices /\ \A j \in Indices : j # ckp[p] => store'[j] = store[j]
          /\ ckp[p] \in leaked' \/ store'[ckp[p]] = None
          /\ leaked \subseteq leaked'
      BY <2>7, <2>13, <3>3 DEF DelCertKeyPair, Indices
    <3>6. OnceInv'
      BY <2>2, <2>3, <2>4, <2>5, <2>6, <2>8, <3>1, <3>2, <3>3, <3>4 DEF OnceInv, Cached
    <3>7. StoreInv'
      <4>1. store[ckp[p]] = Pair(p) /\ ckpairCache[Pair(p)] # ckp[p]
        BY <2>8, <3>1 DEF StoreInv, Cached
      <4>2. \A k \in Pairs : ckpairCache[k] # 0 => ckpairCache[k] \in Indices /\ ckpairCache[k] # ckp[p]
        BY <2>7, <2>8, <4>1 DEF StoreInv, Indices
      <4>3. \A q \in Procs : Holder(q) /\ q # p => ckp[q] \in Indices /\ ckp[q] # ckp[p]
        BY <2>7, <2>8, <3>1 DEF StoreInv, OnceInv, Indices
      <4>4. \A k \in Pairs : ckpairCache'[k] # 0 => store'[ckpairCache'[k]] = k
        BY <2>8, <3>1, <3>5, <4>2 DEF StoreInv
      <4>5. \A q \in Procs : Holder(q)' => store'[ckp'[q]] = Pair(q)' /\ Cached(q)' # ckp'[q]
        BY <2>4, <2>8, <3>1, <3>2, <3>5, <4>3 DEF StoreInv, Cached
      <4>6. \A q, r \in Procs : Holder(q)' /\ Holder(r)' /\ ckp'[q] = ckp'[r] => q = r
        BY <2>4, <2>8, <3>2 DEF StoreInv
      <4>7. \A j \in Indices : store'[j] \in Pairs =>
              ckpairCache'[store'[j]] = j \/ j \in leaked' \/ \E q \in Procs : Holder(q)' /\ ckp'[q] = j
        BY <2>4, <2>7, <2>8, <3>1, <3>5 DEF StoreInv
      <4>8. QED BY <4>4, <4>5, <4>6, <4>7 DEF StoreInv
    <3>8. QED BY <3>6, <3>7
  <2>14. QED BY <1>4, <2>9, <2>10, <2>11, <2>12, <2>13
<1>5. CASE \/ PollerStart \/ pollerEpollWait \/ Shutdown \/ StopPoller \/ AppDestroy
           \/ mode3AppDestroy \/ ForeignPair \/ UNCHANGED vars
  <2>1. /\ \A q \in Procs : UNCHANGED <<pc[q], call[q]>>
        /\ UNCHANGED <<cfg, ckp, once, cidx, cerr, ckpairCache, leaked>>
        /\ open' \subseteq open
    BY <1>5 DEF ForeignPair, PollerStart, pollerEpollWait, Shutdown, StopPoller, AppDestroy, mode3AppDestroy,
                vars
  <2>2. \A q \in Procs : /\ Resolving(q)' <=> Resolving(q)
                         /\ Holder(q)' <=> Holder(q)
                         /\ Doing(q, {"del"})' <=> Doing(q, {"del"})
                         /\ Doing(q, {"create"})' <=> Doing(q, {"create"})
                         /\ UNCHANGED <<Pair(q), Cached(q)>>
    BY <2>1 DEF Resolving, Holder, Doing, InVls, Pair, Cached
  <2>3. OnceInv'
    BY <2>1, <2>2 DEF CertInv, OnceInv
  <2>4. \A i \in Indices : store'[i] = store[i] \/ (store[i] = None /\ store'[i] = Foreign)
    <3>1. CASE ForeignPair
      BY <3>1 DEF ForeignPair, FreeIndex, OneOf, CertInv, BaseInv, TypeOK
    <3>2. CASE UNCHANGED store
      BY <3>2
    <3>3. QED
      BY <1>5, <3>1, <3>2 DEF PollerStart, pollerEpollWait, Shutdown, StopPoller, AppDestroy,
                              mode3AppDestroy, vars
  <2>5. /\ None \notin Pairs /\ Foreign \notin Pairs
        /\ \A k \in Pairs : ckpairCache[k] # 0 => ckpairCache[k] \in Indices
        /\ \A q \in Procs : Holder(q) => ckp[q] \in Indices /\ Pair(q) \in Pairs
    <3>1. \A q \in Procs : Holder(q) => cfg[q] # None /\ ckp[q] # 0
      BY DEF CertInv, BaseInv, PlaceOK, OnceInv, Holder, Resolving, Doing
    <3>2. QED
      BY <3>1, PairType, EndpointAssumption DEF CertInv, BaseInv, TypeOK, Indices
  <2>6. StoreInv'
    BY <2>1, <2>2, <2>4, <2>5 DEF CertInv, StoreInv
  <2>7. QED BY <2>3, <2>6
<1>6. QED
  BY <1>1, <1>2, <1>3, <1>4, <1>5, Zenon DEF Next, Caller, Poller, Main

LEMMA CertInit == Init => OnceInv /\ StoreInv
<1> SUFFICES ASSUME Init PROVE OnceInv /\ StoreInv
  OBVIOUS
<1>1. /\ \A p \in Procs : pc[p] = "idle" /\ cfg[p] = None
      /\ \A c \in Configs : once[c] = "new"
      /\ \A k \in Pairs : ckpairCache[k] = 0
      /\ \A i \in Indices : store[i] = None /\ None \notin Pairs
  BY EndpointAssumption, ActorFacts DEF Init
<1>2. \A p \in Procs : ~Resolving(p) /\ ~Holder(p) /\ ~Doing(p, {"del"})
  BY <1>1 DEF Resolving, Holder, Doing, InVls
<1>3. QED BY <1>1, <1>2 DEF OnceInv, StoreInv

(* Nobody releases the certificate of an open TLS session, whoever takes   *)
(* the indices that are free, and VPP's store has no copy of a pair that   *)
(* ckpairCache has lost other than those a failed release left there,      *)
(* however many callers race for however many configs.                     *)
THEOREM RightCertificateHolds == Spec => []RightCertificate
<1>1. CertInv => RightCertificate
  <2> SUFFICES ASSUME CertInv PROVE RightCertificate
    OBVIOUS
  <2>1. ASSUME NEW p \in open, cfg[p] # None
        PROVE  ckp[p] # 0 /\ store[ckp[p]] = PairOf[cfg[p]]
    <3>1. p \in Procs
      BY DEF CertInv, BaseInv, TypeOK
    <3>2. ckp[p] # 0 /\ ckp[p] = Cached(p)
      BY <2>1, <3>1 DEF CertInv, OnceInv
    <3>3. Pair(p) \in Pairs
      BY <2>1, <3>1, PairType DEF CertInv
    <3>4. QED BY <3>1, <3>2, <3>3 DEF CertInv, StoreInv, Cached, Pair
  <2>2. ASSUME \A c \in Configs : once[c] \in {"new", "done"},
               NEW i \in Indices, store[i] \in Pairs
        PROVE  ckpairCache[store[i]] = i \/ i \in leaked
    <3>1. \A p \in Procs : ~Holder(p)
      <4> SUFFICES ASSUME NEW p \in Procs, Holder(p) PROVE FALSE
        OBVIOUS
      <4>1. Resolving(p)
        BY DEF Holder, Resolving, Doing
      <4>2. cfg[p] \in Configs /\ once[cfg[p]] = p
        BY <4>1, PairType DEF CertInv, BaseInv, PlaceOK, OnceInv
      <4>3. QED BY <2>2, <4>2, ActorFacts
    <3>2. QED BY <2>2, <3>1 DEF CertInv, StoreInv
  <2>3. QED BY <2>1, <2>2 DEF RightCertificate
<1>2. QED
  BY <1>1, BaseStep, SessionStep, SessionInit, CertStep, CertInit, PTL DEF Spec, CertInv
=============================================================================
