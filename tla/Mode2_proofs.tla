---------------------------- MODULE Mode2_proofs ----------------------------
(***************************************************************************)
(* Proofs about the Mode 2 dispatcher, for any number of workers,          *)
(* goroutines and raw handles. nextHandle is a 32-bit counter: what is     *)
(* said of public handles is said of behaviours in which it has not        *)
(* wrapped around.                                                         *)
(***************************************************************************)
EXTENDS Mode2, TLAPS

NoWrap == nextHandle + 1 < HandleSpace

(* What a call is about, and what its goroutine keeps between two calls. *)
CallOK ==
  \A g \in Procs :
    /\ call[g].target = NoPub <=> op[g] = "create"
    /\ pc[g] = "lookup" => op[g] \in {"attempt", "close", "wake", "add"}
    /\ pc[g] = "parked" => op[g] = "add"
    /\ pc[g] = "interrupted" => op[g] = "attempt"
    /\ pc[g] = "idle" => ref[g] = NoRef /\ op[g] = "create"

BaseInv == TypeOK /\ CallOK

Running == {"top", "ops", "events"}
Over == {"unregister", "exited", "parked", "destroyed"}

(* appInit, the workers and the stop sequence. *)
AppOK ==
  /\ spc = "idle" \/ ipc \in {"live", "failing"}
  /\ spc \in {"idle", "stop"} => ~stopping /\ \A w \in Workers : ~stopCh[w]
  /\ appLive => spc = "idle" /\ ipc = "live" /\ \A w \in Workers : epoll[w] = "ok"
  /\ \A w \in Workers :
       /\ spc \in {"idle", "stop"} /\ epoll[w] = "ok" => wpc[w] \in Running
       /\ quiesced[w] <=> wpc[w] \in Over
       /\ w \in workers <=> wpc[w] \notin {"absent", "failed"}
  /\ spc \in {"stopped", "destroyed"} =>
       \A w \in workers : quiesced[w] /\ (w # 0 => wpc[w] = "exited")
  /\ wpc[0] = "destroyed" => spc = "destroyed"

(* The queue of a worker that is not done holds the calls that wait for    *)
(* its answer. *)
QueuedOK(w, i) ==
  /\ pc[opCh[w][i]] = "answer" /\ resp[opCh[w][i]] = "none"
  /\ ref[opCh[w][i]][1] = w
  /\ \A j \in DOMAIN opCh[w] : opCh[w][i] = opCh[w][j] => i = j

SentOK(g) ==
  pc[g] \in {"send", "answer"} => wpc[ref[g][1]] \notin {"absent", "failed", "registered"}

PendingOK(g) ==
  pc[g] = "answer" /\ resp[g] = "none" /\ ~quiesced[ref[g][1]] =>
    \E i \in DOMAIN opCh[ref[g][1]] : opCh[ref[g][1]][i] = g

QueueOK ==
  /\ \A w \in Workers : ~quiesced[w] => \A i \in DOMAIN opCh[w] : QueuedOK(w, i)
  /\ \A g \in Procs : SentOK(g) /\ PendingOK(g) /\ (pc[g] # "answer" => resp[g] = "none")

(* Before the application is live nobody calls, waits or has a session. *)
QuietOK ==
  ipc # "live" =>
    /\ \A g \in Procs : pc[g] = "idle" /\ ready[g] = 0
    /\ \A p \in Pubs : owners[p] = NoRef /\ \A w \in Workers : waiters[w][p] = {}

(* What the tables say of each public handle, of each raw one, and of the  *)
(* owner a call has looked up.                                             *)
HandleOK(w, p) ==
  /\ sessions[w][p] # NoRaw <=> owners[p][2] # NoRaw /\ owners[p][1] = w
  /\ sessions[w][p] # NoRaw => /\ owners[p] = <<w, sessions[w][p]>>
                               /\ vls[w][sessions[w][p]] = p
  /\ waiters[w][p] # {} => sessions[w][p] # NoRaw
  /\ interest[w][p] = combinedEvents(waiters[w][p])
  /\ wpc[w] \in {"closing", "drain", "drained"} \cup Over => waiters[w][p] = {}
  /\ wpc[w] \in {"absent", "failed", "registered", "drain", "drained"} \cup Over =>
       sessions[w][p] = NoRaw

OwnerOK(p) ==
  /\ owners[p][2] = NoRaw => owners[p] = NoRef
  /\ p > nextHandle => owners[p] = NoRef

RefOK(g) ==
  /\ call[g].target # NoPub =>
       /\ call[g].target <= nextHandle
       /\ ref[g] = NoRef \/ owners[call[g].target] \in {NoRef, ref[g]}
  /\ pc[g] \in {"submit", "send", "answer", "parked"} /\ op[g] # "create" => ref[g][2] # NoRaw
  /\ pc[g] = "answer" /\ resp[g] = "closed" =>
       ~appLive \/ (call[g].target # NoPub /\ owners[call[g].target] = NoRef)

TableInv ==
  /\ \A w \in Workers, p \in Pubs : HandleOK(w, p)
  /\ \A w \in Workers, r \in Raws : vls[w][r] # NoPub => sessions[w][vls[w][r]] = r
  /\ \A p \in Pubs : OwnerOK(p)
  /\ \A g \in Procs : RefOK(g)
  /\ ~misrouted

(* Who is in a wait set, and who may have been woken. *)
Awaiting(g) ==
  \/ op[g] = "add" /\ pc[g] = "answer" /\ resp[g] = "ok"
  \/ op[g] = "add" /\ pc[g] = "parked"
  \/ op[g] = "cancel" /\ pc[g] \in {"submit", "send"}
  \/ op[g] = "cancel" /\ pc[g] = "answer" /\ resp[g] = "none"

MemberOK(w, p, g, m) ==
  <<g, m>> \in waiters[w][p] =>
    /\ ready[g] = 0
    /\ \A v \in Workers, q \in Pubs, n \in Events :
         <<g, n>> \in waiters[v][q] => v = w /\ q = p /\ n = m
    /\ appLive => /\ call[g].target = p /\ call[g].mask = m /\ ref[g][1] = w
                  /\ Awaiting(g)

ReadyOK(g) ==
  /\ ready[g] = 0 /\ ~quiesced[ref[g][1]]
       /\ (pc[g] = "parked" \/ (pc[g] = "answer" /\ op[g] = "add" /\ resp[g] = "ok"))
       => Waiter(g) \in waiters[ref[g][1]][call[g].target]
  /\ appLive /\ ready[g] # 0 => Awaiting(g) \/ op[g] = "cancel"

WaitInv ==
  /\ \A w \in Workers, p \in Pubs, g \in Procs, m \in Events : MemberOK(w, p, g, m)
  /\ \A g \in Procs : ReadyOK(g)
-----------------------------------------------------------------------------
(* A group that is left alone keeps its types. *)
LEMMA TypeKept ==
  /\ DispType /\ UNCHANGED dispVars => DispType'
  /\ TabType /\ UNCHANGED tabVars => TabType'
  /\ WaitType /\ UNCHANGED waitVars => WaitType'
  /\ CallType /\ UNCHANGED callVars => CallType'
  /\ RespType /\ UNCHANGED resp => RespType'
  /\ WorkerType /\ UNCHANGED <<rr, wpc, batch, opCh, quiesced>> => WorkerType'
BY Zenon DEF DispType, WorkerType, TabType, WaitType, CallType, RespType,
             dispVars, tabVars, waitVars, callVars

LEMMA BoolExcept ==
  ASSUME NEW S, NEW f \in [S -> BOOLEAN], NEW x, NEW b \in BOOLEAN
  PROVE  [f EXCEPT ![x] = b] \in [S -> BOOLEAN]
BY Zenon

LEMMA ConstFacts ==
  /\ 0 \in Workers /\ NoPub \notin Pubs /\ "in" \in Events
  /\ NoRef \in Workers \X (Raws \cup {NoRaw}) /\ NoRef[2] = NoRaw
  /\ NoRaw \notin Raws
  /\ Creation \in [kind : Kinds, target : Pubs \cup {NoPub}, mask : Events]
  /\ Creation.target = NoPub
  /\ \A w \in Workers : (w + 1) % WorkerCount \in Workers
  /\ \A n \in 0 .. HandleSpace - 1 : (n + 1) % HandleSpace \in 0 .. HandleSpace - 1
  /\ \A n \in 0 .. HandleSpace - 1 : n + 1 < HandleSpace => (n + 1) % HandleSpace = n + 1
BY Mode2Assumption DEF Workers, Pubs, NoPub, NoRef, Creation, Kinds

(* How a call ends or goes back to its operation after a wait. *)
LEMMA EndTypes ==
  ASSUME BaseInv, NEW g \in Procs,
         \/ \E r \in {"none", "ok", "closed", "canceled", "error", "true", "false"} : Return(g, r)
         \/ \E b \in BOOLEAN : WaitOver(g, b)
  PROVE  /\ CallType' /\ RespType' /\ ready' \in [Procs -> Nat]
         /\ op[g] # "create" => CallOK'
<1> USE ConstFacts DEF BaseInv
<1>1. ASSUME NEW r \in {"none", "ok", "closed", "canceled", "error", "true", "false"}, Return(g, r)
      PROVE  CallType' /\ RespType' /\ ready' \in [Procs -> Nat] /\ CallOK'
  <2>1. done' \in [Procs -> BOOLEAN]
    BY <1>1, BoolExcept DEF Return, TypeOK, CallType
  <2>2. CallType' /\ RespType' /\ ready' \in [Procs -> Nat]
    BY <1>1, <2>1 DEF Return, Goto, TypeOK, WaitType, CallType, RespType
  <2>3. CallOK'
    BY <1>1 DEF Return, Goto, TypeOK, CallType, CallOK
  <2>4. QED BY <2>2, <2>3
<1>2. ASSUME NEW b \in BOOLEAN, WaitOver(g, b), call[g].kind # "wait"
      PROVE  /\ CallType' /\ RespType' /\ ready' \in [Procs -> Nat]
             /\ op[g] # "create" => CallOK'
  <2>1. /\ pc' = [pc EXCEPT ![g] = "lookup"] \/ pc' = [pc EXCEPT ![g] = "interrupted"]
        /\ op' = [op EXCEPT ![g] = "attempt"] /\ ready' = [ready EXCEPT ![g] = 0]
        /\ resp' = [resp EXCEPT ![g] = "none"] /\ UNCHANGED <<call, ref, done, result>>
    <3>1. CASE b
      BY <1>2, <3>1, Zenon DEF WaitOver, Goto
    <3>2. CASE ~b
      BY <1>2, <3>2, Zenon DEF WaitOver, Goto
    <3>3. QED BY <3>1, <3>2
  <2>2. CallType /\ RespType /\ ready \in [Procs -> Nat]
    BY DEF TypeOK, WaitType
  <2>3. done' \in [Procs -> BOOLEAN]
    BY <2>1, <2>2 DEF CallType
  <2>4. CallType' /\ RespType' /\ ready' \in [Procs -> Nat]
    <3>1. pc' \in [Procs -> {"idle", "lookup", "submit", "send", "answer", "parked",
                             "interrupted"}]
      BY <2>1, <2>2 DEF CallType
    <3>2. op' \in [Procs -> {"create", "attempt", "close", "wake", "add", "cancel"}]
      BY <2>1, <2>2 DEF CallType
    <3>3. RespType' /\ ready' \in [Procs -> Nat]
      BY <2>1, <2>2 DEF RespType
    <3>4. QED BY <2>1, <2>2, <3>1, <3>2, <3>3, Zenon DEF CallType
  <2>5. op[g] # "create" => CallOK'
    BY <2>1, <2>2 DEF CallType, RespType, CallOK
  <2>6. QED BY <2>4, <2>5
<1>3. QED BY <1>1, <1>2, Zenon DEF WaitOver

(* Setting one wait set, and what goes with it. *)
LEMMA SetTypes ==
  ASSUME WaitType, NEW w \in Workers, NEW p \in Pubs,
         NEW S \in SUBSET (Procs \X Events), NEW intr \in SUBSET Events, SetTo(w, p, S, intr)
  PROVE  /\ waiters' \in [Workers -> [Pubs -> SUBSET (Procs \X Events)]]
         /\ interest' \in [Workers -> [Pubs -> SUBSET Events]]
BY DEF SetTo, WaitType

LEMMA WakeTypes ==
  ASSUME WaitType, NEW S, wakeWaitSet(S)
  PROVE  ready' \in [Procs -> Nat]
<1>1. \A g \in Procs : ready[g] + (IF \E x \in S : x[1] = g THEN 1 ELSE 0) \in Nat
  BY DEF WaitType
<1>2. QED BY <1>1 DEF wakeWaitSet

LEMMA MaskTypes ==
  ASSUME NEW S \in SUBSET (Procs \X Events)
  PROVE  combinedEvents(S) \in SUBSET Events
BY DEF combinedEvents

LEMMA RemoveTypes ==
  ASSUME WaitType, NEW w \in Workers, NEW p \in Pubs, removeWaiters(w, p)
  PROVE  WaitType'
<1>1. {} \in SUBSET (Procs \X Events) /\ {} \in SUBSET Events
  OBVIOUS
<1>2. SetTo(w, p, {}, {}) /\ wakeWaitSet(waiters[w][p])
  BY DEF removeWaiters
<1>3. QED BY <1>1, <1>2, SetTypes, WakeTypes DEF WaitType

LEMMA ShrinkTypes ==
  ASSUME WaitType, NEW w \in Workers, NEW p \in Pubs, NEW raw, NEW gone, Shrink(w, p, raw, gone)
  PROVE  WaitType' /\ (misrouted \in BOOLEAN => misrouted' \in BOOLEAN)
<1> DEFINE left == waiters[w][p] \ gone
<1>1. /\ left \in SUBSET (Procs \X Events) /\ interest[w][p] \in SUBSET Events
      /\ combinedEvents(left) \in SUBSET Events
  <2>1. left \in SUBSET (Procs \X Events) /\ interest[w][p] \in SUBSET Events
    BY DEF WaitType
  <2>2. QED BY <2>1, MaskTypes
<1>2. misrouted \in BOOLEAN => misrouted' \in BOOLEAN
  BY Zenon DEF Shrink, RawCall
<1> HIDE DEF left
<1>3. CASE SetTo(w, p, left, interest[w][p]) /\ wakeWaitSet(gone)
  BY <1>1, <1>2, <1>3, SetTypes, WakeTypes DEF WaitType
<1>4. CASE SetTo(w, p, left, combinedEvents(left)) /\ wakeWaitSet(gone)
  BY <1>1, <1>2, <1>4, SetTypes, WakeTypes DEF WaitType
<1>5. CASE removeWaiters(w, p)
  BY <1>2, <1>5, RemoveTypes
<1>6. QED BY <1>3, <1>4, <1>5, Zenon DEF Shrink, left

LEMMA RegisterTypes ==
  ASSUME TabType, RespType, NEW w \in Workers, NEW g \in Procs, NEW raw \in Raws,
         registerSession(w, g, raw)
  PROVE  /\ owners' \in [Pubs -> Workers \X (Raws \cup {NoRaw})]
         /\ nextHandle' \in 0 .. HandleSpace - 1
         /\ sessions' \in [Workers -> [Pubs -> Raws \cup {NoRaw}]]
         /\ vls' \in [Workers -> [Raws -> Pubs \cup {NoPub}]]
         /\ RespType'
<1> DEFINE id == (nextHandle + 1) % HandleSpace
<1>1. id \in 0 .. HandleSpace - 1 /\ nextHandle' = id
  BY ConstFacts DEF TabType, registerSession
<1>2. CASE id = 0 \/ id > MaxHandle
  BY <1>1, <1>2 DEF TabType, RespType, registerSession, Reply
<1>3. CASE ~(id = 0 \/ id > MaxHandle)
  <2>1. id \in Pubs
    BY <1>1, <1>3, Mode2Assumption DEF Pubs
  <2>2. /\ Reply(g, "ok")
        /\ sessions' = [sessions EXCEPT ![w][id] = raw]
        /\ owners' = [owners EXCEPT ![id] = <<w, raw>>]
        /\ vls' = [vls EXCEPT ![w][raw] = id]
    BY <1>3 DEF registerSession
  <2> HIDE DEF id
  <2>3. QED BY <1>1, <2>1, <2>2 DEF TabType, RespType, Reply
<1>4. QED BY <1>2, <1>3

LEMMA UnregisterTypes ==
  ASSUME TabType, NEW w \in Workers, NEW p \in Pubs, unregisterSession(w, p)
  PROVE  /\ owners' \in [Pubs -> Workers \X (Raws \cup {NoRaw})]
         /\ sessions' \in [Workers -> [Pubs -> Raws \cup {NoRaw}]]
BY ConstFacts DEF TabType, unregisterSession

(* The operations keep the types of what they write. *)
LEMMA OpTypes ==
  ASSUME BaseInv, NEW w \in Workers, NEW g \in Procs, RunOp(w, g)
  PROVE  TabType' /\ WaitType' /\ RespType'
<1>0. TabType /\ WaitType /\ RespType /\ CallType
  BY DEF TypeOK, BaseInv
<1>1. op[g] # "create" => call[g].target \in Pubs
  BY <1>0, ConstFacts DEF BaseInv, CallOK, CallType
<1>2. misrouted' \in BOOLEAN
  <2>1. misrouted \in BOOLEAN
    BY <1>0 DEF TabType
  <2>2. QED
    BY <2>1, Zenon DEF RunOp, OpCreate, OpAttempt, OpClose, OpWake, OpAdd, OpCancel, Shrink,
                       RawCall, tabVars
<1>3. ASSUME NEW r \in {"ok", "again", "closed", "error", "true", "false"}, Reply(g, r)
      PROVE  RespType'
  BY <1>0, <1>3 DEF Reply, RespType
<1>4. Waiter(g) \in Procs \X Events
  BY <1>0 DEF Waiter, CallType
<1>5. CASE op[g] = "create" /\ OpCreate(w, g)
  <2>1. WaitType'
    BY <1>0, <1>5, TypeKept DEF OpCreate
  <2>2. CASE Reply(g, "error") /\ UNCHANGED <<nextHandle, owners, sessions, vls>>
    BY <1>0, <1>2, <1>3, <2>1, <2>2 DEF TabType
  <2>3. ASSUME NEW raw \in Raws, registerSession(w, g, raw) PROVE TabType' /\ RespType'
    BY <1>0, <1>2, <2>3, RegisterTypes DEF TabType
  <2>4. QED BY <1>5, <2>1, <2>2, <2>3 DEF OpCreate, FreeRaws
<1>6. CASE op[g] = "attempt" /\ OpAttempt(w, g)
  <2>1. WaitType'
    BY <1>0, <1>6, TypeKept DEF OpAttempt
  <2>2. CASE UNCHANGED <<nextHandle, owners, sessions, vls>>
             /\ \E r \in {"ok", "again", "closed", "error"} : Reply(g, r)
    BY <1>0, <1>2, <1>3, <2>1, <2>2 DEF TabType
  <2>3. ASSUME NEW raw \in Raws, registerSession(w, g, raw) PROVE TabType' /\ RespType'
    BY <1>0, <1>2, <2>3, RegisterTypes DEF TabType
  <2>4. QED BY <1>6, <2>1, <2>2, <2>3 DEF OpAttempt, FreeRaws, tabVars
<1>7. CASE op[g] = "close" /\ OpClose(w, g)
  <2>1. CASE ~ownedRaw(w, g)
    BY <1>0, <1>2, <1>3, <1>7, <2>1, TypeKept DEF OpClose, TabType
  <2>2. CASE ownedRaw(w, g)
    <3>1. removeWaiters(w, call[g].target) /\ unregisterSession(w, call[g].target)
          /\ vls' = [vls EXCEPT ![w][ref[g][2]] = NoPub] /\ UNCHANGED nextHandle
      BY <1>7, <2>2 DEF OpClose
    <3>2. RespType'
      BY <1>3, <1>7, <2>2 DEF OpClose
    <3>3. vls' \in [Workers -> [Raws -> Pubs \cup {NoPub}]]
      BY <1>0, <3>1 DEF TabType
    <3>4. QED BY <1>0, <1>1, <1>2, <1>7, <3>1, <3>2, <3>3, RemoveTypes, UnregisterTypes DEF TabType
  <2>3. QED BY <2>1, <2>2
<1>8. CASE op[g] = "wake" /\ OpWake(w, g)
  <2>1. WaitType'
    BY <1>0, <1>1, <1>8, RemoveTypes DEF OpWake
  <2>2. QED BY <1>0, <1>2, <1>3, <1>8, <2>1 DEF OpWake, TabType
<1>9. CASE op[g] = "add" /\ OpAdd(w, g)
  <2> DEFINE p == call[g].target
             S == waiters[w][p] \cup {Waiter(g)}
  <2>0. p \in Pubs /\ S \in SUBSET (Procs \X Events) /\ interest[w][p] \in SUBSET Events
    BY <1>0, <1>1, <1>4, <1>9 DEF WaitType
  <2>1. combinedEvents(S) \in SUBSET Events
    BY <2>0, MaskTypes
  <2>2. RespType' /\ UNCHANGED <<owners, sessions, nextHandle, vls, ready>>
    BY <1>3, <1>9 DEF OpAdd
  <2>3. \/ UNCHANGED <<waiters, interest>>
        \/ SetTo(w, p, S, combinedEvents(S)) \/ SetTo(w, p, S, interest[w][p])
    BY <1>9, Zenon DEF OpAdd
  <2> HIDE DEF p, S
  <2>4. WaitType'
    BY <1>0, <2>0, <2>1, <2>2, <2>3, SetTypes DEF WaitType
  <2>5. QED BY <1>0, <1>2, <2>2, <2>4 DEF TabType
<1>10. CASE op[g] = "cancel" /\ OpCancel(w, g)
  <2>1. RespType' /\ UNCHANGED <<owners, sessions, nextHandle, vls>>
    BY <1>3, <1>10 DEF OpCancel
  <2>2. WaitType'
    BY <1>0, <1>1, <1>10, ShrinkTypes, TypeKept DEF OpCancel
  <2>3. QED BY <1>0, <1>2, <2>1, <2>2 DEF TabType
<1>11. QED BY <1>5, <1>6, <1>7, <1>8, <1>9, <1>10 DEF RunOp

(* The types and the calls hold at the start and are kept by every step. *)
LEMMA BaseInit == Init => BaseInv
<1> SUFFICES ASSUME Init PROVE BaseInv
  OBVIOUS
<1> USE ConstFacts
<1>1. DispType
  <2>1. stopCh \in [Workers -> BOOLEAN]
    BY Zenon DEF Init
  <2>2. QED BY <2>1 DEF Init, DispType
<1>2. WorkerType
  <2>1. quiesced \in [Workers -> BOOLEAN]
    BY Zenon DEF Init
  <2>2. opCh \in [Workers -> Seq(Procs)]
    BY DEF Init
  <2>3. QED BY <2>1, <2>2, Mode2Assumption DEF Init, WorkerType
<1>3. TabType
  <2>1. misrouted \in BOOLEAN /\ owners \in [Pubs -> Workers \X (Raws \cup {NoRaw})]
    BY DEF Init
  <2>2. nextHandle \in 0 .. HandleSpace - 1
    BY Mode2Assumption DEF Init
  <2>3. /\ sessions \in [Workers -> [Pubs -> Raws \cup {NoRaw}]]
        /\ vls \in [Workers -> [Raws -> Pubs \cup {NoPub}]]
    BY DEF Init
  <2>4. QED BY <2>1, <2>2, <2>3, Zenon DEF TabType
<1>4. WaitType
  BY DEF Init, WaitType
<1>5. CallType
  <2>1. done \in [Procs -> BOOLEAN]
    BY Zenon DEF Init
  <2>2. QED BY <2>1 DEF Init, CallType
<1>6. RespType /\ CallOK
  BY DEF Init, RespType, CallOK
<1>7. QED BY <1>1, <1>2, <1>3, <1>4, <1>5, <1>6 DEF TypeOK, BaseInv

LEMMA BaseStep == BaseInv /\ [Next]_vars => BaseInv'
<1> SUFFICES ASSUME BaseInv, [Next]_vars PROVE BaseInv'
  OBVIOUS
<1>0. DispType /\ WorkerType /\ TabType /\ WaitType /\ CallType /\ RespType /\ CallOK
  BY DEF TypeOK, BaseInv
<1> USE ConstFacts
<1>a. ASSUME DispType', WorkerType', TabType', WaitType', CallType', RespType', CallOK'
      PROVE  BaseInv'
  BY <1>a DEF TypeOK, BaseInv
<1>b. ASSUME UNCHANGED callVars PROVE CallType' /\ CallOK'
  BY <1>0, <1>b, TypeKept DEF callVars, CallOK
<1>1. ASSUME NEW w \in Workers, InitWorker(w) \/ WorkerStart(w) PROVE BaseInv'
  <2>1. UNCHANGED initRest
    BY <1>1 DEF InitWorker, WorkerStart
  <2>2. UNCHANGED <<callVars, tabVars, waitVars, resp, rr, batch, opCh, quiesced, stopping, spc, stopCh>>
    BY <2>1 DEF initRest
  <2>3. WorkerType'
    BY <1>0, <1>1, <2>2 DEF InitWorker, WorkerStart, WorkerType
  <2>4. DispType'
    <3>1. startCh' \in BOOLEAN /\ appLive' \in BOOLEAN
      BY <1>0, <1>1, Zenon DEF InitWorker, WorkerStart, DispType
    <3>2. CASE InitWorker(w)
      BY <1>0, <2>2, <3>1, <3>2 DEF InitWorker, DispType
    <3>3. CASE WorkerStart(w)
      BY <1>0, <2>2, <3>1, <3>3 DEF WorkerStart, DispType
    <3>4. QED BY <1>1, <3>2, <3>3
  <2>5. QED BY <1>0, <1>a, <1>b, <2>2, <2>3, <2>4, TypeKept
<1>2. CASE InitReady \/ beginShutdown \/ StopStep
  <2>1. UNCHANGED <<callVars, tabVars, waitVars, resp, rr, batch, opCh, quiesced>>
    BY <1>2 DEF InitReady, beginShutdown, StopStep, Stop, StopReturn, appDestroy, initRest, stopRest
  <2>2. WorkerType'
    BY <1>0, <1>2, <2>1 DEF InitReady, beginShutdown, StopStep, Stop, StopReturn, appDestroy,
       initRest, stopRest, WorkerType
  <2>3. DispType'
    <3>1. stopCh' \in [Workers -> BOOLEAN] /\ stopping' \in BOOLEAN
      <4>1. CASE Stop
        <5>1. \A w \in Workers : (w \in workers) \in BOOLEAN
          OBVIOUS
        <5>2. [w \in Workers |-> w \in workers] \in [Workers -> BOOLEAN]
          BY <5>1, Zenon
        <5>3. QED BY <4>1, <5>2 DEF Stop
      <4>2. CASE InitReady \/ beginShutdown \/ StopReturn \/ appDestroy
        <5>1. UNCHANGED <<stopCh, stopping>>
          BY <4>2 DEF InitReady, beginShutdown, StopReturn, appDestroy, initRest
        <5>2. QED BY <1>0, <5>1 DEF DispType
      <4>3. QED BY <1>2, <4>1, <4>2 DEF StopStep
    <3>2. UNCHANGED <<workers, startCh, epoll>>
      BY <1>2 DEF InitReady, beginShutdown, StopStep, Stop, StopReturn, appDestroy, initRest, stopRest
    <3>3. QED BY <1>0, <1>2, <3>1, <3>2 DEF InitReady, beginShutdown, StopStep, Stop, StopReturn,
       appDestroy, initRest, stopRest, DispType
  <2>4. QED BY <1>0, <1>a, <1>b, <2>1, <2>2, <2>3, TypeKept
<1>3. ASSUME NEW g \in Procs, BeginCreate(g) PROVE BaseInv'
  <2>1. UNCHANGED <<dispVars, tabVars, waitVars, wpc, batch, opCh, quiesced, resp, call, op, done>>
    BY <1>3 DEF BeginCreate, callRest, waitVars
  <2>2. rr' \in Workers /\ <<rr, NoRaw>> \in Workers \X (Raws \cup {NoRaw})
    BY <1>0, <1>3 DEF BeginCreate, WorkerType
  <2>3. WorkerType'
    BY <1>0, <2>1, <2>2 DEF WorkerType
  <2>4. CallType' /\ CallOK'
    BY <1>0, <1>3, <2>1, <2>2 DEF BeginCreate, Goto, CallType, CallOK
  <2>5. QED BY <1>0, <1>a, <2>1, <2>3, <2>4, TypeKept
<1>4. ASSUME NEW g \in Procs, NEW k \in CallKinds, NEW p \in Pubs, NEW m \in Events,
             Begin(g, k, p, m)
      PROVE  BaseInv'
  <2>1. UNCHANGED <<dispVars, tabVars, waitVars, rr, wpc, batch, opCh, quiesced, resp, ref, done>>
    BY <1>4 DEF Begin, callRest, waitVars
  <2>2. /\ [kind |-> k, target |-> p, mask |-> m]
             \in [kind : Kinds, target : Pubs \cup {NoPub}, mask : Events]
        /\ FirstOp(k) \in {"attempt", "close", "wake", "add"}
    BY Mode2Assumption DEF Kinds, FirstOp
  <2>3. CallType'
    BY <1>0, <1>4, <2>1, <2>2 DEF Begin, Goto, CallType
  <2>4. CallOK'
    BY <1>0, <1>4, <2>1, <2>2 DEF Begin, Goto, CallType, CallOK
  <2>5. QED BY <1>0, <1>a, <2>1, <2>3, <2>4, TypeKept
<1>5. ASSUME NEW g \in Procs, CallStep(g) PROVE BaseInv'
  <2>1. UNCHANGED <<callRest, rr, opCh>>
    BY <1>5 DEF CallStep, Lookup, Submit, Quiesced, Answer, Parked, waitInterruptedError
  <2>2. UNCHANGED <<dispVars, tabVars, waiters, interest, rr, wpc, batch, opCh, quiesced>>
    BY <2>1 DEF callRest
  <2>3. ASSUME CallType', RespType', ready' \in [Procs -> Nat], CallOK' PROVE BaseInv'
    <3>1. WaitType'
      BY <1>0, <2>2, <2>3 DEF WaitType
    <3>2. QED BY <1>0, <1>a, <2>2, <2>3, <3>1, TypeKept
  <2>4. ASSUME \/ \E r \in {"none", "ok", "closed", "canceled", "error", "true", "false"} : Return(g, r)
               \/ op[g] # "create" /\ \E b \in BOOLEAN : WaitOver(g, b)
        PROVE  BaseInv'
    <3>1. CASE \E r \in {"none", "ok", "closed", "canceled", "error", "true", "false"} : Return(g, r)
      <4>1. CallOK'
        BY <1>0, <3>1 DEF Return, Goto, CallType, CallOK
      <4>2. QED BY <2>3, <3>1, <4>1, EndTypes
    <3>2. CASE op[g] # "create" /\ \E b \in BOOLEAN : WaitOver(g, b)
      BY <2>3, <3>2, EndTypes
    <3>3. QED BY <2>4, <3>1, <3>2
  <2>5. CASE Lookup(g)
    <3>0. call[g].target \in Pubs
      BY <1>0, <2>5 DEF Lookup, CallType, CallOK
    <3>1. CASE owners[call[g].target] # NoRef
      <4>1. /\ ref' = [ref EXCEPT ![g] = owners[call[g].target]] /\ pc' = [pc EXCEPT ![g] = "submit"]
            /\ UNCHANGED <<call, op, result, ready, done, resp>> /\ pc[g] = "lookup"
        BY <2>5, <3>1 DEF Lookup, Goto
      <4>2. owners[call[g].target] \in Workers \X (Raws \cup {NoRaw})
        BY <1>0, <3>0 DEF TabType
      <4>3. CallType' /\ RespType' /\ ready' \in [Procs -> Nat] /\ CallOK'
        BY <1>0, <4>1, <4>2 DEF CallType, CallOK, RespType, WaitType
      <4>4. QED BY <2>3, <4>3
    <3>2. CASE owners[call[g].target] = NoRef /\ op[g] = "add"
      BY <2>4, <2>5, <3>2 DEF Lookup
    <3>3. CASE owners[call[g].target] = NoRef /\ op[g] # "add"
      BY <2>4, <2>5, <3>3 DEF Lookup
    <3>4. QED BY <3>1, <3>2, <3>3
  <2>6. ASSUME SubmitFailed(g) PROVE BaseInv'
    <3>1. (ready[g] > 0) \in BOOLEAN
      OBVIOUS
    <3>2. CASE op[g] = "add" \/ op[g] = "cancel"
      BY <2>4, <2>6, <3>1, <3>2 DEF SubmitFailed
    <3>3. CASE op[g] # "add" /\ op[g] # "cancel"
      BY <2>4, <2>6, <3>3 DEF SubmitFailed
    <3>4. QED BY <3>2, <3>3
  <2>7. CASE Submit(g)
    <3>1. CASE SubmitFailed(g)
      BY <2>6, <3>1
    <3>2. CASE Goto(g, "send") /\ UNCHANGED <<call, op, ref, result, ready, done, resp>>
      <4>1. CallType' /\ RespType' /\ ready' \in [Procs -> Nat] /\ CallOK'
        BY <1>0, <2>7, <3>2 DEF Submit, Goto, CallType, CallOK, RespType, WaitType
      <4>2. QED BY <2>3, <4>1
    <3>3. QED BY <2>7, <3>1, <3>2 DEF Submit
  <2>8. CASE Quiesced(g)
    BY <2>6, <2>8 DEF Quiesced
  <2>9. CASE Answer(g)
    <3>1. CASE op[g] = "add" /\ resp[g] = "ok"
      <4>1. /\ pc' = [pc EXCEPT ![g] = "parked"] /\ resp' = [resp EXCEPT ![g] = "none"]
            /\ UNCHANGED <<call, op, ref, result, ready, done>>
        BY <2>9, <3>1 DEF Answer, Goto
      <4>2. CallType' /\ RespType' /\ ready' \in [Procs -> Nat] /\ CallOK'
        BY <1>0, <3>1, <4>1 DEF CallType, CallOK, RespType, WaitType
      <4>3. QED BY <2>3, <4>2
    <3>2. CASE op[g] = "add" /\ resp[g] # "ok"
      BY <2>4, <2>9, <3>2 DEF Answer
    <3>3. CASE op[g] = "cancel"
      <4>1. (ready[g] > 0) \in BOOLEAN /\ (resp[g] = "true") \in BOOLEAN
        OBVIOUS
      <4>2. WaitOver(g, ready[g] > 0) \/ WaitOver(g, resp[g] = "true")
        BY <2>9, <3>3 DEF Answer
      <4>3. QED BY <2>4, <3>3, <4>1, <4>2
    <3>4. CASE op[g] = "attempt" /\ resp[g] = "again"
      <4>1. /\ pc' = [pc EXCEPT ![g] = "lookup"] /\ op' = [op EXCEPT ![g] = "add"]
            /\ resp' = [resp EXCEPT ![g] = "none"] /\ UNCHANGED <<call, ref, result, ready, done>>
        BY <2>9, <3>4 DEF Answer, Goto
      <4>2. CallType' /\ RespType' /\ ready' \in [Procs -> Nat] /\ CallOK'
        BY <1>0, <2>9, <3>4, <4>1 DEF CallType, CallOK, RespType, WaitType
      <4>3. QED BY <2>3, <4>2
    <3>5. CASE op[g] \notin {"add", "cancel"} /\ resp[g] # "again"
      <4>1. resp[g] \in {"none", "ok", "closed", "canceled", "error", "true", "false"}
        BY <1>0, <3>5 DEF RespType
      <4>2. QED BY <2>4, <2>9, <3>5, <4>1 DEF Answer
    <3>6. QED BY <2>9, <3>1, <3>2, <3>3, <3>4, <3>5 DEF Answer
  <2>10. CASE Parked(g)
    <3>1. op[g] = "add" /\ pc[g] = "parked"
      BY <1>0, <2>10 DEF Parked, CallOK
    <3>2. CASE WaitOver(g, TRUE) \/ WaitOver(g, FALSE)
      BY <2>4, <3>1, <3>2
    <3>3. CASE /\ Goto(g, "submit") /\ op' = [op EXCEPT ![g] = "cancel"]
               /\ UNCHANGED <<call, ref, result, ready, done, resp>>
      <4>1. CallType' /\ RespType' /\ ready' \in [Procs -> Nat] /\ CallOK'
        BY <1>0, <3>1, <3>3 DEF Goto, CallType, CallOK, RespType, WaitType
      <4>2. QED BY <2>3, <4>1
    <3>4. QED BY <2>10, <3>2, <3>3 DEF Parked
  <2>11. CASE waitInterruptedError(g)
    BY <2>4, <2>11 DEF waitInterruptedError
  <2>12. QED BY <1>5, <2>5, <2>7, <2>8, <2>9, <2>10, <2>11 DEF CallStep
<1>6. ASSUME NEW g \in Procs, Send(g) PROVE BaseInv'
  <2>1. UNCHANGED <<dispVars, tabVars, waitVars, rr, wpc, batch, quiesced, resp, call, op, ref, done, result>>
    BY <1>6 DEF Send, callRest, waitVars
  <2>2. opCh' \in [Workers -> Seq(Procs)]
    <3>1. ref[g][1] \in Workers
      BY <1>0 DEF CallType
    <3>2. Append(opCh[ref[g][1]], g) \in Seq(Procs)
      BY <1>0, <3>1 DEF WorkerType
    <3>3. QED BY <1>0, <1>6, <3>1, <3>2 DEF Send, WorkerType
  <2>3. WorkerType'
    BY <1>0, <2>1, <2>2 DEF WorkerType
  <2>4. CallType' /\ CallOK'
    BY <1>0, <1>6, <2>1 DEF Send, Goto, CallType, CallOK
  <2>5. QED BY <1>0, <1>a, <2>1, <2>3, <2>4, TypeKept
<1>7. ASSUME NEW g \in Procs, CloseDone(g) PROVE BaseInv'
  <2>1. /\ UNCHANGED <<dispVars, tabVars, waitVars, rr, wpc, batch, opCh, quiesced, resp>>
        /\ UNCHANGED <<call, pc, op, ref, result>>
    BY <1>7 DEF CloseDone, callRest, waitVars
  <2>2. done' \in [Procs -> BOOLEAN]
    BY <1>0, <1>7, BoolExcept DEF CloseDone, CallType
  <2>3. CallType' /\ CallOK'
    BY <1>0, <2>1, <2>2, Zenon DEF CallType, CallOK
  <2>4. QED BY <1>0, <1>a, <2>1, <2>3, TypeKept
<1>8. ASSUME NEW w \in Workers,
             \/ LoopTop(w) \/ LoopEnd(w) \/ QuiesceDrain(w) \/ CloseQuiesced(w) \/ Unregister(w)
      PROVE  BaseInv'
  <2>1. UNCHANGED <<dispVars, rr, callVars, tabVars, waitVars>>
    BY <1>8 DEF LoopTop, LoopEnd, QuiesceDrain, CloseQuiesced, Unregister, loopRest
  <2>2. quiesced' \in [Workers -> BOOLEAN]
    <3>1. quiesced \in [Workers -> BOOLEAN] /\ TRUE \in BOOLEAN
      BY <1>0 DEF WorkerType
    <3>2. quiesced' = quiesced \/ quiesced' = [quiesced EXCEPT ![w] = TRUE]
      BY <1>8 DEF LoopTop, LoopEnd, QuiesceDrain, CloseQuiesced, Unregister, loopRest
    <3>3. QED BY <3>1, <3>2, BoolExcept
  <2>3. WorkerType'
    <3>1. CASE QuiesceDrain(w)
      <4>1. opCh' \in [Workers -> Seq(Procs)]
        <5>1. opCh[w] # <<>> => Tail(opCh[w]) \in Seq(Procs)
          BY <1>0 DEF WorkerType
        <5>2. QED BY <1>0, <3>1, <5>1 DEF QuiesceDrain, WorkerType
      <4>2. QED BY <1>0, <2>1, <2>2, <3>1, <4>1 DEF QuiesceDrain, WorkerType
    <3>2. CASE LoopTop(w) \/ LoopEnd(w) \/ CloseQuiesced(w) \/ Unregister(w)
      <4>1. UNCHANGED opCh
        BY <3>2 DEF LoopTop, LoopEnd, CloseQuiesced, Unregister
      <4>2. batch' \in [Workers -> 0 .. BatchLimit]
        <5>1. 0 \in 0 .. BatchLimit
          BY Mode2Assumption
        <5>2. UNCHANGED batch \/ batch' = [batch EXCEPT ![w] = 0]
          BY <3>2 DEF LoopTop, LoopEnd, CloseQuiesced, Unregister
        <5>3. QED BY <1>0, <5>1, <5>2 DEF WorkerType
      <4>3. wpc' \in [Workers -> {"absent", "failed", "registered", "top", "ops",
                          "events", "quiesce", "closing", "drain", "drained",
                          "unregister", "exited", "parked", "destroyed"}]
        BY <1>0, <3>2 DEF LoopTop, LoopEnd, CloseQuiesced, Unregister, WorkerType
      <4>4. QED BY <1>0, <2>1, <2>2, <4>1, <4>2, <4>3 DEF WorkerType
    <3>3. QED BY <1>8, <3>1, <3>2
  <2>4. RespType'
    <3>1. CASE UNCHANGED resp
      BY <1>0, <3>1, TypeKept
    <3>2. CASE Reply(Head(opCh[w]), "closed")
      BY <1>0, <3>2 DEF Reply, RespType
    <3>3. QED BY <1>8, <3>1, <3>2 DEF LoopTop, LoopEnd, QuiesceDrain, CloseQuiesced, Unregister
  <2>5. QED BY <1>0, <1>a, <1>b, <2>1, <2>3, <2>4, TypeKept
<1>9. ASSUME NEW w \in Workers, drainOps(w) PROVE BaseInv'
  <2>1. UNCHANGED <<dispVars, rr, callVars, quiesced>>
    BY <1>9 DEF drainOps, loopRest
  <2>2. WorkerType'
    <3>1. opCh' \in [Workers -> Seq(Procs)]
      <4>1. opCh[w] # <<>> => Tail(opCh[w]) \in Seq(Procs)
        BY <1>0 DEF WorkerType
      <4>2. QED BY <1>0, <1>9, <4>1 DEF drainOps, WorkerType
    <3>2. batch' \in [Workers -> 0 .. BatchLimit]
      <4>1. batch[w] < BatchLimit => batch[w] + 1 \in 0 .. BatchLimit
        BY <1>0, Mode2Assumption DEF WorkerType
      <4>2. UNCHANGED batch \/ (batch[w] < BatchLimit /\ batch' = [batch EXCEPT ![w] = @ + 1])
        BY <1>9 DEF drainOps
      <4>3. QED BY <1>0, <4>1, <4>2 DEF WorkerType
    <3>3. wpc' \in [Workers -> {"absent", "failed", "registered", "top", "ops",
                          "events", "quiesce", "closing", "drain", "drained",
                          "unregister", "exited", "parked", "destroyed"}]
      BY <1>0, <1>9 DEF drainOps, WorkerType
    <3>4. QED BY <1>0, <2>1, <3>1, <3>2, <3>3 DEF WorkerType
  <2>3. TabType' /\ WaitType' /\ RespType'
    <3>1. CASE UNCHANGED <<tabVars, waitVars, resp>>
      BY <1>0, <3>1, TypeKept
    <3>2. CASE UNCHANGED <<tabVars, waitVars>> /\ Reply(Head(opCh[w]), "closed")
      BY <1>0, <3>2, TypeKept DEF Reply, RespType
    <3>3. CASE opCh[w] # <<>> /\ RunOp(w, Head(opCh[w]))
      <4>1. Head(opCh[w]) \in Procs
        BY <1>0, <3>3 DEF WorkerType
      <4>2. QED BY <3>3, <4>1, OpTypes
    <3>4. QED BY <1>9, <3>1, <3>2, <3>3 DEF drainOps
  <2>4. QED BY <1>0, <1>a, <1>b, <2>1, <2>2, <2>3, TypeKept
<1>10. ASSUME NEW w \in Workers, NEW p \in Pubs, NEW evs \in SUBSET Events, NEW t \in BOOLEAN,
              handleEvent(w, p, evs, t)
       PROVE  BaseInv'
  <2>1. UNCHANGED <<dispVars, rr, callVars, quiesced, owners, sessions, nextHandle, vls, wpc, batch,
                    opCh, resp>>
    BY <1>10 DEF handleEvent, loopRest
  <2>2. WaitType' /\ misrouted' \in BOOLEAN
    <3>0. misrouted \in BOOLEAN
      BY <1>0 DEF TabType
    <3>1. PICK gone : IF sessions[w][p] # NoRaw THEN Shrink(w, p, sessions[w][p], gone)
                      ELSE /\ SetTo(w, p, {}, interest[w][p])
                           /\ wakeWaitSet(gone)
                           /\ UNCHANGED misrouted
      BY <1>10, Zenon DEF handleEvent
    <3>2. CASE sessions[w][p] # NoRaw
      BY <1>0, <3>0, <3>1, <3>2, ShrinkTypes
    <3>3. CASE sessions[w][p] = NoRaw
      <4>1. {} \in SUBSET (Procs \X Events) /\ interest[w][p] \in SUBSET Events
        BY <1>0 DEF WaitType
      <4>2. QED BY <1>0, <3>0, <3>1, <3>3, <4>1, SetTypes, WakeTypes DEF WaitType
    <3>4. QED BY <3>2, <3>3
  <2>3. TabType'
    BY <1>0, <2>1, <2>2 DEF TabType
  <2>4. QED BY <1>0, <1>a, <1>b, <2>1, <2>2, <2>3, TypeKept
<1>11. ASSUME NEW w \in Workers, wakeAllWaiters(w) PROVE BaseInv'
  <2>1. UNCHANGED <<dispVars, rr, callVars, quiesced, tabVars, batch, opCh, resp>>
    BY <1>11 DEF wakeAllWaiters, loopRest
  <2>2. WorkerType'
    BY <1>0, <1>11, <2>1 DEF wakeAllWaiters, WorkerType
  <2>3. ready' \in [Procs -> Nat]
    BY <1>0, <1>11, WakeTypes DEF wakeAllWaiters
  <2>4. WaitType'
    BY <1>0, <1>11, <2>3 DEF wakeAllWaiters, WaitType
  <2>5. QED BY <1>0, <1>a, <1>b, <2>1, <2>2, <2>4, TypeKept
<1>12. ASSUME NEW w \in Workers, QuiesceClose(w) PROVE BaseInv'
  <2>1. UNCHANGED <<dispVars, rr, callVars, quiesced, waitVars, batch, opCh, resp>>
    BY <1>12 DEF QuiesceClose, loopRest
  <2>2. WorkerType'
    BY <1>0, <1>12, <2>1 DEF QuiesceClose, WorkerType
  <2>3. TabType'
    <3>1. CASE UNCHANGED tabVars
      BY <1>0, <3>1, TypeKept
    <3>2. ASSUME NEW p \in Pubs, RawCall(w, p, sessions[w][p]),
                 vls' = [vls EXCEPT ![w][sessions[w][p]] = NoPub],
                 unregisterSession(w, p), UNCHANGED nextHandle
          PROVE  TabType'
      <4>1. misrouted' \in BOOLEAN
        BY <3>2, Zenon DEF RawCall
      <4>2. vls' \in [Workers -> [Raws -> Pubs \cup {NoPub}]]
        BY <1>0, <3>2 DEF TabType
      <4>3. QED BY <1>0, <3>2, <4>1, <4>2, UnregisterTypes DEF TabType
    <3>3. QED BY <1>12, <3>1, <3>2 DEF QuiesceClose
  <2>4. QED BY <1>0, <1>a, <1>b, <2>1, <2>2, <2>3, TypeKept
<1>13. CASE UNCHANGED vars
  BY <1>0, <1>a, <1>b, <1>13, TypeKept DEF vars
<1>14. ASSUME NEW w \in Workers, InitWorker(w) \/ WorkerStep(w) PROVE BaseInv'
  BY <1>1, <1>8, <1>9, <1>11, <1>12, <1>14 DEF WorkerStep
<1>15. ASSUME NEW g \in Procs, BeginCreate(g) \/ CallStep(g) \/ Send(g) \/ CloseDone(g)
       PROVE  BaseInv'
  BY <1>3, <1>5, <1>6, <1>7, <1>15
<1>16. ASSUME NEW w \in Workers, NEW p \in Pubs, NEW evs \in SUBSET Events,
              \E t \in BOOLEAN : handleEvent(w, p, evs, t)
       PROVE  BaseInv'
  BY <1>10, <1>16
<1>17. QED
  BY <1>2, <1>4, <1>13, <1>14, <1>15, <1>16, Zenon DEF Next

(* The dispatcher, its workers, VLS and the calls keep their types. *)
THEOREM TypeCorrect == Spec => []TypeOK
<1>1. BaseInv => TypeOK
  BY DEF BaseInv
<1>2. QED BY <1>1, BaseInit, BaseStep, PTL DEF Spec
-----------------------------------------------------------------------------
(* A step of a goroutine leaves the dispatcher, the tables and the workers *)
(* alone, and a worker's loop leaves the dispatcher and the calls alone.   *)
GoroutineStep(g) ==
  \/ BeginCreate(g) \/ CallStep(g) \/ Send(g) \/ CloseDone(g)
  \/ \E k \in CallKinds, p \in Pubs, m \in Events : Begin(g, k, p, m)

LEMMA GoroutineFrame ==
  ASSUME NEW g \in Procs, GoroutineStep(g)
  PROVE  /\ UNCHANGED <<workers, stopping, appLive, startCh, ipc, spc, stopCh, epoll>>
         /\ UNCHANGED <<owners, sessions, nextHandle, vls, misrouted>>
         /\ UNCHANGED <<waiters, interest, wpc, batch, quiesced>>
<1>1. UNCHANGED callRest
  BY DEF GoroutineStep, CallStep, BeginCreate, Send, CloseDone, Begin, Lookup, Submit, Quiesced,
         Answer, Parked, waitInterruptedError
<1>2. QED BY <1>1 DEF callRest, dispVars, tabVars

WorkerMove(w) ==
  \/ WorkerStep(w) /\ ~WorkerStart(w)
  \/ \E p \in Pubs, evs \in SUBSET Events, t \in BOOLEAN : handleEvent(w, p, evs, t)

(* The order of a worker's places. *)
LEMMA WorkerFrame ==
  ASSUME BaseInv, NEW w \in Workers, WorkerMove(w)
  PROVE  /\ UNCHANGED <<workers, stopping, appLive, startCh, ipc, spc, stopCh, epoll>>
         /\ UNCHANGED <<rr, call, pc, op, ref, done, result>>
         /\ \A v \in Workers : v # w => UNCHANGED <<wpc[v], quiesced[v], opCh[v]>>
         /\ \/ wpc[w] \in Running /\ wpc'[w] \in Running /\ UNCHANGED quiesced
            \/ wpc[w] = "top" /\ stopCh[w] /\ wpc'[w] = "quiesce" /\ UNCHANGED quiesced
            \/ wpc[w] = "quiesce" /\ wpc'[w] = "closing" /\ UNCHANGED quiesced
            \/ wpc[w] = "closing" /\ wpc'[w] \in {"closing", "drain"} /\ UNCHANGED quiesced
            \/ wpc[w] = "drain" /\ wpc'[w] \in {"drain", "drained"} /\ UNCHANGED quiesced
            \/ wpc[w] = "drained" /\ wpc'[w] \in {"parked", "unregister"}
               /\ quiesced' = [quiesced EXCEPT ![w] = TRUE]
            \/ wpc[w] = "unregister" /\ wpc'[w] = "exited" /\ UNCHANGED quiesced
<1>0. /\ wpc = [v \in Workers |-> wpc[v]] /\ opCh = [v \in Workers |-> opCh[v]]
      /\ quiesced = [v \in Workers |-> quiesced[v]]
  BY DEF BaseInv, TypeOK, WorkerType
<1> USE <1>0 DEF dispVars, callVars, loopRest, Running
<1>1. CASE LoopTop(w)
  BY <1>1 DEF LoopTop
<1>2. CASE drainOps(w)
  BY <1>2 DEF drainOps
<1>3. CASE LoopEnd(w)
  BY <1>3 DEF LoopEnd
<1>4. CASE wakeAllWaiters(w)
  BY <1>4 DEF wakeAllWaiters
<1>5. CASE QuiesceClose(w)
  BY <1>5 DEF QuiesceClose
<1>6. CASE QuiesceDrain(w)
  BY <1>6 DEF QuiesceDrain
<1>7. CASE CloseQuiesced(w)
  BY <1>7 DEF CloseQuiesced
<1>8. CASE Unregister(w)
  BY <1>8 DEF Unregister
<1>9. CASE \E p \in Pubs, evs \in SUBSET Events, t \in BOOLEAN : handleEvent(w, p, evs, t)
  <2>1. wpc[w] = "events" /\ UNCHANGED <<loopRest, wpc, opCh>>
    BY <1>9, Zenon DEF handleEvent
  <2>2. QED BY <2>1
<1>10. QED
  BY <1>1, <1>2, <1>3, <1>4, <1>5, <1>6, <1>7, <1>8, <1>9, Zenon DEF WorkerMove, WorkerStep

(* The steps of the system, by who takes them. *)
LEMMA NextCases ==
  ASSUME [Next]_vars
  PROVE  \/ \E w \in Workers : InitWorker(w) \/ WorkerStart(w) \/ WorkerMove(w)
         \/ InitReady \/ beginShutdown \/ StopStep
         \/ \E g \in Procs : GoroutineStep(g)
         \/ UNCHANGED vars
<1>1. CASE \E w \in Workers, p \in Pubs, evs \in SUBSET Events, t \in BOOLEAN :
             handleEvent(w, p, evs, t)
  BY <1>1, Zenon DEF WorkerMove
<1>2. CASE \E w \in Workers : InitWorker(w) \/ WorkerStep(w)
  BY <1>2, Zenon DEF WorkerMove
<1>3. CASE \E g \in Procs : BeginCreate(g) \/ CallStep(g) \/ Send(g) \/ CloseDone(g)
  BY <1>3, Zenon DEF GoroutineStep
<1>4. CASE \E g \in Procs, k \in CallKinds, p \in Pubs, m \in Events : Begin(g, k, p, m)
  BY <1>4, Zenon DEF GoroutineStep
<1>5. QED BY <1>1, <1>2, <1>3, <1>4, Zenon DEF Next

(* AppOK is inductive. *)
LEMMA AppStep == BaseInv /\ AppOK /\ [Next]_vars => AppOK'
<1> SUFFICES ASSUME BaseInv, AppOK, [Next]_vars PROVE AppOK'
  OBVIOUS
<1>0. /\ wpc = [v \in Workers |-> wpc[v]] /\ epoll = [v \in Workers |-> epoll[v]]
      /\ workers \subseteq Workers /\ 0 \in Workers
      /\ quiesced \in [Workers -> BOOLEAN] /\ stopCh \in [Workers -> BOOLEAN]
  BY ConstFacts DEF BaseInv, TypeOK, DispType, WorkerType
<1>1. ASSUME NEW w \in Workers, InitWorker(w) PROVE AppOK'
  <2>1. ipc = "register" /\ w \notin workers /\ spc = "idle" /\ ~appLive
        /\ UNCHANGED <<spc, stopping, stopCh, appLive, epoll, quiesced>>
    BY <1>1 DEF InitWorker, AppOK, initRest
  <2>2. wpc[w] \in {"absent", "failed"} /\ epoll[w] # "ok" /\ ~quiesced[w] /\ wpc[0] # "destroyed"
    BY <1>0, <2>1 DEF AppOK, Running, Over
  <2>3. /\ \/ wpc' = [wpc EXCEPT ![w] = "registered"] /\ workers' = workers \cup {w}
           \/ wpc' = [wpc EXCEPT ![w] = "failed"] /\ workers' = workers
    BY <1>1 DEF InitWorker
  <2>4. \A v \in Workers : /\ spc \in {"idle", "stop"} /\ epoll[v] = "ok" => wpc'[v] \in Running
                           /\ quiesced[v] <=> wpc'[v] \in Over
                           /\ v \in workers' <=> wpc'[v] \notin {"absent", "failed"}
    BY <1>0, <2>1, <2>2, <2>3 DEF AppOK, Running, Over
  <2>5. wpc'[0] # "destroyed"
    BY <1>0, <2>2, <2>3
  <2>6. QED BY <2>1, <2>4, <2>5 DEF AppOK
<1>2. ASSUME NEW w \in Workers, WorkerStart(w) PROVE AppOK'
  <2>1. /\ UNCHANGED <<spc, stopping, stopCh, appLive, quiesced, workers, ipc>>
        /\ wpc[w] = "registered"
    BY <1>2 DEF WorkerStart, initRest
  <2>2. \/ epoll' = [epoll EXCEPT ![w] = "ok"] /\ wpc' = [wpc EXCEPT ![w] = "top"]
        \/ epoll' = [epoll EXCEPT ![w] = "failed"] /\ wpc' = [wpc EXCEPT ![w] = "quiesce"]
        \/ stopCh[w] /\ UNCHANGED epoll /\ wpc' = [wpc EXCEPT ![w] = "quiesce"]
    BY <1>2 DEF WorkerStart
  <2>3. ~appLive /\ spc \notin {"stopped", "destroyed"}
    BY <2>1 DEF AppOK, Running, Over
  <2>4. \A v \in Workers : /\ spc \in {"idle", "stop"} /\ epoll'[v] = "ok" => wpc'[v] \in Running
                           /\ quiesced[v] <=> wpc'[v] \in Over
                           /\ v \in workers <=> wpc'[v] \notin {"absent", "failed"}
    <3> SUFFICES ASSUME NEW v \in Workers
                 PROVE  /\ spc \in {"idle", "stop"} /\ epoll'[v] = "ok" => wpc'[v] \in Running
                        /\ quiesced[v] <=> wpc'[v] \in Over
                        /\ v \in workers <=> wpc'[v] \notin {"absent", "failed"}
      OBVIOUS
    <3>1. CASE v = w
      BY <1>0, <2>1, <2>2, <3>1 DEF AppOK, Running, Over
    <3>2. CASE v # w
      BY <1>0, <2>1, <2>2, <3>2 DEF AppOK
    <3>3. QED BY <3>1, <3>2
  <2>5. wpc'[0] = "destroyed" => wpc[0] = "destroyed"
    BY <1>0, <2>2
  <2>6. QED BY <2>1, <2>3, <2>4, <2>5 DEF AppOK
<1>3. ASSUME NEW w \in Workers, WorkerMove(w) PROVE AppOK'
  <2>1. /\ UNCHANGED <<workers, stopping, appLive, startCh, ipc, spc, stopCh, epoll>>
        /\ \A v \in Workers : v # w => UNCHANGED <<wpc[v], quiesced[v], opCh[v]>>
    BY <1>3, WorkerFrame
  <2>2. quiesced'[w] <=> wpc'[w] \in Over
    <3>1. CASE quiesced' = [quiesced EXCEPT ![w] = TRUE] /\ wpc'[w] \in {"parked", "unregister"}
      <4>1. quiesced'[w]
        BY <1>0, <3>1, Zenon
      <4>2. QED BY <3>1, <4>1 DEF Over
    <3>2. CASE UNCHANGED quiesced /\ (wpc'[w] \in Over <=> wpc[w] \in Over)
      BY <3>2 DEF AppOK
    <3>3. QED BY <1>3, <3>1, <3>2, WorkerFrame DEF Running, Over
  <2>3. /\ spc \in {"idle", "stop"} /\ epoll[w] = "ok" => wpc'[w] \in Running
        /\ w \in workers <=> wpc'[w] \notin {"absent", "failed"}
        /\ wpc'[w] # "destroyed"
        /\ wpc[w] = "exited" => FALSE
        /\ w \in workers /\ quiesced[w] => quiesced'[w] /\ wpc[w] = "unregister"
    BY <1>3, <2>2, WorkerFrame DEF AppOK, Running, Over
  <2>4. spc \in {"stopped", "destroyed"} =>
          \A v \in workers : quiesced'[v] /\ (v # 0 => wpc'[v] = "exited")
    BY <1>0, <2>1, <2>3 DEF AppOK
  <2>5. wpc'[0] = "destroyed" => wpc[0] = "destroyed"
    BY <1>0, <2>1, <2>3
  <2>6. QED BY <1>0, <2>1, <2>2, <2>3, <2>4, <2>5 DEF AppOK
<1>4. CASE InitReady
  BY <1>4 DEF InitReady, initRest, AppOK
<1>5. CASE beginShutdown
  BY <1>5 DEF beginShutdown, stopRest, AppOK
<1>6. CASE Stop
  BY <1>6 DEF Stop, stopRest, AppOK
<1>7. CASE StopReturn
  BY <1>7 DEF StopReturn, stopRest, AppOK
<1>8. CASE appDestroy
  <2>1. UNCHANGED <<workers, ipc, epoll, stopping, appLive, stopCh, quiesced>>
        /\ spc = "stopped" /\ spc' = "destroyed" /\ (0 \in workers => wpc[0] = "parked")
        /\ wpc' = IF 0 \in workers THEN [wpc EXCEPT ![0] = "destroyed"] ELSE wpc
    BY <1>8 DEF appDestroy, stopRest
  <2>2. QED BY <1>0, <2>1 DEF AppOK, Over
<1>9. ASSUME NEW g \in Procs, GoroutineStep(g) PROVE AppOK'
  BY <1>9, GoroutineFrame DEF AppOK
<1>10. CASE UNCHANGED vars
  BY <1>10 DEF vars, dispVars, AppOK
<1>11. QED
  BY <1>1, <1>2, <1>3, <1>4, <1>5, <1>6, <1>7, <1>8, <1>9, <1>10, NextCases, Zenon DEF StopStep

LEMMA AppInit == Init => AppOK
BY ConstFacts DEF Init, AppOK, Running, Over
-----------------------------------------------------------------------------
(* The steps of a goroutine, entry by entry: the call ends, or goes back   *)
(* to its operation after a wait, for one of the reasons there are; or it  *)
(* goes on to the next place of the call.                                  *)
OthersKeep(g) ==
  \A h \in Procs : h # g => UNCHANGED <<call[h], pc[h], op[h], ref[h], resp[h], ready[h]>>

Ended(g) ==
  /\ pc'[g] = "idle" /\ call'[g] = Creation /\ op'[g] = "create" /\ ref'[g] = NoRef
  /\ ready'[g] = 0 /\ resp'[g] = "none"

Resumed(g) ==
  /\ pc'[g] \in {"lookup", "interrupted"} /\ op'[g] = "attempt" /\ ready'[g] = 0
  /\ resp'[g] = "none" /\ UNCHANGED <<call[g], ref[g]>> /\ call[g].kind # "wait"

EndReason(g) ==
  \/ pc[g] = "lookup" /\ owners[call[g].target] = NoRef
  \/ pc[g] = "submit" /\ (stopping \/ ~appLive)
  \/ pc[g] \in {"send", "answer"} /\ quiesced[ref[g][1]]
  \/ pc[g] = "answer" /\ resp[g] # "none" /\ ~(op[g] = "add" /\ resp[g] = "ok")
  \/ pc[g] = "parked" /\ (ready[g] > 0 \/ quiesced[ref[g][1]])
  \/ pc[g] = "interrupted"

EndMove(g) ==
  /\ EndReason(g) /\ UNCHANGED opCh
  /\ Ended(g) \/ (op[g] \in {"add", "cancel"} /\ Resumed(g))

LookupMove(g) ==
  /\ pc[g] = "lookup" /\ pc'[g] = "submit"
  /\ owners[call[g].target] # NoRef /\ ref'[g] = owners[call[g].target]
  /\ UNCHANGED <<opCh, call[g], op[g], resp[g], ready[g]>>

Onward(g) == UNCHANGED <<opCh, call[g], ref[g], ready[g]>>

SubmitMove(g) ==
  /\ pc[g] = "submit" /\ pc'[g] = "send" /\ ~stopping /\ appLive
  /\ Onward(g) /\ UNCHANGED <<op[g], resp[g]>>

SendMove(g) ==
  /\ pc[g] = "send" /\ pc'[g] = "answer"
  /\ opCh' = [opCh EXCEPT ![ref[g][1]] = Append(@, g)]
  /\ UNCHANGED <<call[g], ref[g], ready[g], op[g], resp[g]>>

ParkMove(g) ==
  /\ pc[g] = "answer" /\ op[g] = "add" /\ resp[g] = "ok" /\ pc'[g] = "parked"
  /\ resp'[g] = "none" /\ Onward(g) /\ UNCHANGED op[g]

AgainMove(g) ==
  /\ pc[g] = "answer" /\ op[g] = "attempt" /\ resp[g] = "again" /\ pc'[g] = "lookup"
  /\ op'[g] = "add" /\ resp'[g] = "none" /\ Onward(g)

CancelMove(g) ==
  /\ pc[g] = "parked" /\ pc'[g] = "submit" /\ op'[g] = "cancel"
  /\ Onward(g) /\ UNCHANGED resp[g]

CreateMove(g) ==
  /\ pc[g] = "idle" /\ appLive /\ pc'[g] = "submit" /\ ref'[g] = <<rr, NoRaw>>
  /\ UNCHANGED <<opCh, call[g], op[g], resp[g], ready[g]>>

BeginMove(g) ==
  /\ pc[g] = "idle" /\ appLive /\ pc'[g] = "lookup"
  /\ op'[g] \in {"attempt", "close", "wake", "add"}
  /\ call'[g].kind \in CallKinds /\ op'[g] = FirstOp(call'[g].kind)
  /\ call'[g].target \in Pubs /\ call'[g].target <= nextHandle
  /\ UNCHANGED <<opCh, ref[g], resp[g], ready[g]>>

StayMove(g) == UNCHANGED <<opCh, call[g], pc[g], op[g], ref[g], resp[g], ready[g]>>

GoroutineMove(g) ==
  \/ EndMove(g) \/ LookupMove(g) \/ SubmitMove(g) \/ SendMove(g) \/ ParkMove(g) \/ AgainMove(g)
  \/ CancelMove(g) \/ CreateMove(g) \/ BeginMove(g) \/ StayMove(g)

LEMMA EndMoves ==
  ASSUME BaseInv, NEW g \in Procs,
         \/ \E r : Return(g, r)
         \/ op[g] \in {"add", "cancel"} /\ \E b \in BOOLEAN : WaitOver(g, b)
  PROVE  /\ OthersKeep(g)
         /\ Ended(g) \/ (op[g] \in {"add", "cancel"} /\ Resumed(g))
<1>0. /\ call = [h \in Procs |-> call[h]] /\ pc = [h \in Procs |-> pc[h]]
      /\ op = [h \in Procs |-> op[h]] /\ ref = [h \in Procs |-> ref[h]]
      /\ resp = [h \in Procs |-> resp[h]] /\ ready = [h \in Procs |-> ready[h]]
  BY DEF BaseInv, TypeOK, WaitType, CallType, RespType
<1>1. ASSUME NEW r, Return(g, r) PROVE OthersKeep(g) /\ Ended(g)
  BY <1>0, <1>1 DEF Return, Goto, OthersKeep, Ended
<1>2. ASSUME NEW b \in BOOLEAN, WaitOver(g, b), call[g].kind # "wait"
      PROVE  OthersKeep(g) /\ Resumed(g)
  <2>1. /\ pc' = [pc EXCEPT ![g] = "lookup"] \/ pc' = [pc EXCEPT ![g] = "interrupted"]
        /\ op' = [op EXCEPT ![g] = "attempt"] /\ ready' = [ready EXCEPT ![g] = 0]
        /\ resp' = [resp EXCEPT ![g] = "none"] /\ UNCHANGED <<call, ref>>
    <3>1. CASE b
      BY <1>2, <3>1, Zenon DEF WaitOver, Goto
    <3>2. CASE ~b
      BY <1>2, <3>2, Zenon DEF WaitOver, Goto
    <3>3. QED BY <3>1, <3>2
  <2>2. QED BY <1>0, <1>2, <2>1 DEF OthersKeep, Resumed
<1>3. QED BY <1>1, <1>2, Zenon DEF WaitOver

LEMMA GoroutineMoves ==
  ASSUME BaseInv, NEW g \in Procs, GoroutineStep(g)
  PROVE  OthersKeep(g) /\ GoroutineMove(g)
<1>0. /\ call = [h \in Procs |-> call[h]] /\ pc = [h \in Procs |-> pc[h]]
      /\ op = [h \in Procs |-> op[h]] /\ ref = [h \in Procs |-> ref[h]]
      /\ resp = [h \in Procs |-> resp[h]] /\ ready = [h \in Procs |-> ready[h]]
  BY DEF BaseInv, TypeOK, WaitType, CallType, RespType
<1>a. ASSUME EndReason(g), UNCHANGED opCh,
             \/ \E r : Return(g, r)
             \/ op[g] \in {"add", "cancel"} /\ \E b \in BOOLEAN : WaitOver(g, b)
      PROVE  OthersKeep(g) /\ GoroutineMove(g)
  BY <1>a, EndMoves DEF GoroutineMove, EndMove
<1>b. ASSUME EndReason(g), UNCHANGED opCh, SubmitFailed(g)
      PROVE  OthersKeep(g) /\ GoroutineMove(g)
  <2>1. (ready[g] > 0) \in BOOLEAN
    OBVIOUS
  <2>2. CASE op[g] \in {"add", "cancel"}
    BY <1>a, <1>b, <2>1, <2>2 DEF SubmitFailed
  <2>3. CASE op[g] \notin {"add", "cancel"}
    BY <1>a, <1>b, <2>3 DEF SubmitFailed
  <2>4. QED BY <2>2, <2>3
<1>1. CASE BeginCreate(g)
  <2>1. OthersKeep(g) /\ CreateMove(g)
    BY <1>0, <1>1 DEF BeginCreate, Goto, OthersKeep, CreateMove
  <2>2. QED BY <2>1 DEF GoroutineMove
<1>2. ASSUME NEW k \in CallKinds, NEW p \in Pubs, NEW m \in Events, Begin(g, k, p, m)
      PROVE  OthersKeep(g) /\ GoroutineMove(g)
  <2>1. FirstOp(k) \in {"attempt", "close", "wake", "add"}
    BY Mode2Assumption DEF FirstOp
  <2>2. OthersKeep(g) /\ BeginMove(g)
    BY <1>0, <1>2, <2>1 DEF Begin, Goto, OthersKeep, BeginMove
  <2>3. QED BY <2>2 DEF GoroutineMove
<1>3. CASE Send(g)
  <2>1. OthersKeep(g) /\ SendMove(g)
    BY <1>0, <1>3 DEF Send, Goto, OthersKeep, SendMove
  <2>2. QED BY <2>1 DEF GoroutineMove
<1>4. CASE CloseDone(g)
  BY <1>4 DEF CloseDone, OthersKeep, StayMove, GoroutineMove
<1>5. CASE Lookup(g)
  <2>1. CASE owners[call[g].target] # NoRef
    <3>1. OthersKeep(g) /\ LookupMove(g)
      BY <1>0, <1>5, <2>1 DEF Lookup, Goto, OthersKeep, LookupMove
    <3>2. QED BY <3>1 DEF GoroutineMove
  <2>2. CASE owners[call[g].target] = NoRef
    <3>1. EndReason(g) /\ UNCHANGED opCh
      BY <1>5, <2>2 DEF Lookup, EndReason
    <3>2. QED BY <1>a, <1>5, <2>2, <3>1 DEF Lookup
  <2>3. QED BY <2>1, <2>2
<1>6. CASE Submit(g)
  <2>1. CASE stopping \/ ~appLive
    <3>1. EndReason(g) /\ UNCHANGED opCh
      BY <1>6, <2>1 DEF Submit, EndReason
    <3>2. QED BY <1>b, <1>6, <2>1, <3>1 DEF Submit
  <2>2. CASE ~(stopping \/ ~appLive)
    <3>1. OthersKeep(g) /\ SubmitMove(g)
      BY <1>0, <1>6, <2>2 DEF Submit, Goto, OthersKeep, SubmitMove, Onward
    <3>2. QED BY <3>1 DEF GoroutineMove
  <2>3. QED BY <2>1, <2>2
<1>7. CASE Quiesced(g)
  <2>1. EndReason(g) /\ UNCHANGED opCh
    BY <1>7 DEF Quiesced, EndReason
  <2>2. QED BY <1>b, <1>7, <2>1 DEF Quiesced
<1>8. CASE Answer(g)
  <2>1. pc[g] = "answer" /\ resp[g] # "none" /\ UNCHANGED opCh
    BY <1>8 DEF Answer
  <2>2. CASE op[g] = "add" /\ resp[g] = "ok"
    <3>1. OthersKeep(g) /\ ParkMove(g)
      BY <1>0, <1>8, <2>2 DEF Answer, Goto, OthersKeep, ParkMove, Onward
    <3>2. QED BY <3>1 DEF GoroutineMove
  <2>3. CASE op[g] = "attempt" /\ resp[g] = "again"
    <3>1. OthersKeep(g) /\ AgainMove(g)
      BY <1>0, <1>8, <2>3 DEF Answer, Goto, OthersKeep, AgainMove, Onward
    <3>2. QED BY <3>1 DEF GoroutineMove
  <2>4. CASE ~(op[g] = "add" /\ resp[g] = "ok") /\ ~(op[g] = "attempt" /\ resp[g] = "again")
    <3>1. EndReason(g)
      BY <2>1, <2>4 DEF EndReason
    <3>2. (ready[g] > 0) \in BOOLEAN /\ (resp[g] = "true") \in BOOLEAN
      OBVIOUS
    <3>3. CASE op[g] = "add"
      BY <1>a, <1>8, <2>1, <2>4, <3>1, <3>3 DEF Answer
    <3>4. CASE op[g] = "cancel"
      <4>1. WaitOver(g, ready[g] > 0) \/ WaitOver(g, resp[g] = "true")
        BY <1>8, <3>4 DEF Answer
      <4>2. QED BY <1>a, <2>1, <3>1, <3>2, <3>4, <4>1
    <3>5. CASE op[g] \notin {"add", "cancel"}
      BY <1>a, <1>8, <2>1, <2>4, <3>1, <3>5 DEF Answer
    <3>6. QED BY <3>3, <3>4, <3>5
  <2>5. QED BY <2>2, <2>3, <2>4
<1>9. CASE Parked(g)
  <2>1. pc[g] = "parked" /\ op[g] = "add" /\ UNCHANGED opCh
    BY <1>9 DEF Parked, BaseInv, CallOK
  <2>2. CASE ready[g] > 0 /\ WaitOver(g, TRUE)
    BY <1>a, <2>1, <2>2 DEF EndReason
  <2>3. CASE quiesced[ref[g][1]] /\ WaitOver(g, FALSE)
    BY <1>a, <2>1, <2>3 DEF EndReason
  <2>4. CASE /\ Goto(g, "submit") /\ op' = [op EXCEPT ![g] = "cancel"]
             /\ UNCHANGED <<call, ref, result, ready, done, resp>>
    <3>1. OthersKeep(g) /\ CancelMove(g)
      BY <1>0, <2>1, <2>4 DEF Goto, OthersKeep, CancelMove, Onward
    <3>2. QED BY <3>1 DEF GoroutineMove
  <2>5. QED BY <1>9, <2>2, <2>3, <2>4 DEF Parked
<1>10. CASE waitInterruptedError(g)
  <2>1. EndReason(g) /\ UNCHANGED opCh /\ \E r : Return(g, r)
    BY <1>10 DEF waitInterruptedError, EndReason
  <2>2. QED BY <1>a, <2>1
<1>11. QED
  BY <1>1, <1>2, <1>3, <1>4, <1>5, <1>6, <1>7, <1>8, <1>9, <1>10, Zenon DEF GoroutineStep, CallStep
-----------------------------------------------------------------------------
(* The steps of a worker: it moves on, refuses an operation, runs one, or  *)
(* touches its own sessions and waiters.                                   *)
Took(w) ==
  /\ wpc[w] \in {"ops", "drain"} /\ wpc' = wpc /\ UNCHANGED quiesced
  /\ opCh[w] # <<>> /\ opCh' = [opCh EXCEPT ![w] = Tail(@)]

MovedOn(w) ==
  /\ UNCHANGED <<tabVars, waitVars, opCh, resp>>
  /\ wpc'[w] = "drain" => \A p \in Pubs : sessions[w][p] = NoRaw
  /\ wpc'[w] = "closing" => FALSE

Refused(w) ==
  /\ Took(w) /\ (wpc[w] = "drain" \/ stopping \/ ~appLive)
  /\ Reply(Head(opCh[w]), "closed") /\ UNCHANGED <<tabVars, waitVars>>

Ran(w) ==
  /\ Took(w) /\ wpc[w] = "ops" /\ ~stopping /\ appLive /\ RunOp(w, Head(opCh[w]))

ClosedOne(w, p) ==
  /\ wpc[w] = "closing" /\ wpc' = wpc /\ sessions[w][p] # NoRaw
  /\ RawCall(w, p, sessions[w][p]) /\ vls' = [vls EXCEPT ![w][sessions[w][p]] = NoPub]
  /\ unregisterSession(w, p) /\ UNCHANGED <<nextHandle, waitVars, opCh, resp, quiesced>>

EventSeen(w) ==
  \E p \in Pubs, evs \in SUBSET Events, t \in BOOLEAN : handleEvent(w, p, evs, t)

WorkerActs(w) ==
  \/ MovedOn(w) \/ Refused(w) \/ Ran(w) \/ EventSeen(w) \/ wakeAllWaiters(w)
  \/ \E p \in Pubs : ClosedOne(w, p)

LEMMA WorkerCases ==
  ASSUME BaseInv, NEW w \in Workers, WorkerMove(w)
  PROVE  WorkerActs(w)
<1>0. wpc = [v \in Workers |-> wpc[v]]
  BY DEF BaseInv, TypeOK, WorkerType
<1>1. CASE LoopTop(w)
  BY <1>0, <1>1 DEF LoopTop, WorkerActs, MovedOn
<1>2. CASE drainOps(w)
  <2>1. UNCHANGED quiesced /\ wpc[w] = "ops"
    BY <1>2 DEF drainOps, loopRest
  <2>2. CASE opCh[w] # <<>> /\ opCh' = [opCh EXCEPT ![w] = Tail(@)] /\ UNCHANGED wpc
             /\ (stopping \/ ~appLive) /\ Reply(Head(opCh[w]), "closed")
             /\ UNCHANGED <<tabVars, waitVars>>
    BY <2>1, <2>2 DEF WorkerActs, Refused, Took
  <2>3. CASE opCh[w] # <<>> /\ opCh' = [opCh EXCEPT ![w] = Tail(@)] /\ UNCHANGED wpc
             /\ ~stopping /\ appLive /\ RunOp(w, Head(opCh[w]))
    BY <2>1, <2>3, Zenon DEF WorkerActs, Ran, Took
  <2>4. CASE wpc' = [wpc EXCEPT ![w] = "events"] /\ UNCHANGED <<opCh, tabVars, waitVars, resp>>
    BY <1>0, <2>4 DEF WorkerActs, MovedOn
  <2>5. QED BY <1>2, <2>2, <2>3, <2>4, Zenon DEF drainOps
<1>3. CASE LoopEnd(w)
  BY <1>0, <1>3 DEF LoopEnd, WorkerActs, MovedOn
<1>4. CASE wakeAllWaiters(w)
  BY <1>4 DEF WorkerActs
<1>5. CASE QuiesceClose(w)
  <2>1. UNCHANGED <<quiesced, waitVars, opCh, resp>> /\ wpc[w] = "closing"
    BY <1>5 DEF QuiesceClose, loopRest
  <2>2. ASSUME NEW p \in Pubs, sessions[w][p] # NoRaw, RawCall(w, p, sessions[w][p]),
               vls' = [vls EXCEPT ![w][sessions[w][p]] = NoPub], unregisterSession(w, p),
               UNCHANGED <<nextHandle, wpc>>
        PROVE  ClosedOne(w, p)
    BY <2>1, <2>2, Zenon DEF ClosedOne
  <2>3. CASE (\A p \in Pubs : sessions[w][p] = NoRaw) /\ wpc' = [wpc EXCEPT ![w] = "drain"]
             /\ UNCHANGED tabVars
    BY <1>0, <2>1, <2>3 DEF WorkerActs, MovedOn
  <2>4. QED BY <1>5, <2>2, <2>3, Zenon DEF QuiesceClose, WorkerActs
<1>6. CASE QuiesceDrain(w)
  <2>1. UNCHANGED <<quiesced, tabVars, waitVars>> /\ wpc[w] = "drain"
    BY <1>6 DEF QuiesceDrain, loopRest
  <2>2. CASE opCh[w] # <<>> /\ opCh' = [opCh EXCEPT ![w] = Tail(@)] /\ UNCHANGED wpc
             /\ Reply(Head(opCh[w]), "closed")
    BY <2>1, <2>2 DEF WorkerActs, Refused, Took
  <2>3. CASE wpc' = [wpc EXCEPT ![w] = "drained"] /\ UNCHANGED <<opCh, resp>>
    BY <1>0, <2>1, <2>3 DEF WorkerActs, MovedOn
  <2>4. QED BY <1>6, <2>2, <2>3 DEF QuiesceDrain
<1>7. CASE CloseQuiesced(w)
  BY <1>0, <1>7 DEF CloseQuiesced, WorkerActs, MovedOn
<1>8. CASE Unregister(w)
  BY <1>0, <1>8 DEF Unregister, WorkerActs, MovedOn
<1>9. CASE EventSeen(w)
  BY <1>9 DEF WorkerActs
<1>10. QED
  BY <1>1, <1>2, <1>3, <1>4, <1>5, <1>6, <1>7, <1>8, <1>9, Zenon
     DEF WorkerMove, WorkerStep, EventSeen

(* Starting and stopping leave the calls, the tables and the queues alone. *)
SystemStep ==
  \/ \E w \in Workers : InitWorker(w) \/ WorkerStart(w)
  \/ InitReady \/ beginShutdown \/ StopStep \/ UNCHANGED vars

LEMMA SystemFrame ==
  ASSUME BaseInv, AppOK, SystemStep
  PROVE  /\ UNCHANGED <<call, pc, op, ref, result, owners, sessions, nextHandle, vls, misrouted>>
         /\ UNCHANGED <<waiters, interest, ready, opCh, quiesced, resp>>
         /\ ipc = "live" => ipc' = "live"
         /\ appLive' => appLive \/ ipc # "live"
         /\ \A v \in Workers :
              \/ wpc'[v] = wpc[v]
              \/ wpc[v] \in {"absent", "failed"} /\ wpc'[v] \in {"registered", "failed"}
              \/ wpc[v] = "registered" /\ wpc'[v] \in {"top", "quiesce"}
              \/ wpc[v] = "parked" /\ wpc'[v] = "destroyed"
<1>0. wpc = [v \in Workers |-> wpc[v]]
  BY DEF BaseInv, TypeOK, WorkerType
<1> USE DEF callVars, tabVars, waitVars
<1>1. ASSUME NEW w \in Workers, InitWorker(w)
      PROVE  /\ UNCHANGED initRest /\ ipc = "register" /\ UNCHANGED appLive
             /\ \A v \in Workers : wpc'[v] = wpc[v] \/
                   (wpc[v] \in {"absent", "failed"} /\ wpc'[v] \in {"registered", "failed"})
  BY <1>0, <1>1 DEF InitWorker, AppOK
<1>2. ASSUME NEW w \in Workers, WorkerStart(w)
      PROVE  /\ UNCHANGED <<initRest, ipc, appLive>>
             /\ \A v \in Workers : wpc'[v] = wpc[v] \/
                   (wpc[v] = "registered" /\ wpc'[v] \in {"top", "quiesce"})
  BY <1>0, <1>2 DEF WorkerStart
<1>3. CASE InitReady
  BY <1>3 DEF InitReady, initRest
<1>4. CASE beginShutdown
  BY <1>4 DEF beginShutdown, stopRest
<1>5. CASE StopStep
  <2>1. UNCHANGED <<stopRest, appLive>>
    BY <1>5 DEF StopStep, Stop, StopReturn, appDestroy
  <2>2. \A v \in Workers : wpc'[v] = wpc[v] \/ (wpc[v] = "parked" /\ wpc'[v] = "destroyed")
    BY <1>0, <1>5 DEF StopStep, Stop, StopReturn, appDestroy
  <2>3. QED BY <2>1, <2>2 DEF stopRest
<1>6. CASE UNCHANGED vars
  BY <1>6 DEF vars, dispVars
<1>7. QED
  BY <1>1, <1>2, <1>3, <1>4, <1>5, <1>6 DEF SystemStep, initRest

LEMMA StepCases ==
  ASSUME [Next]_vars
  PROVE  \/ SystemStep \/ (\E w \in Workers : WorkerMove(w)) \/ (\E g \in Procs : GoroutineStep(g))
BY NextCases, Zenon DEF SystemStep

(* An operation answers its caller. *)
Answers == {"ok", "again", "closed", "error", "true", "false"}

LEMMA OpReplies ==
  ASSUME NEW w, NEW g, RunOp(w, g)
  PROVE  \E r \in Answers : Reply(g, r)
<1>1. ASSUME NEW raw, registerSession(w, g, raw) PROVE \E r \in Answers : Reply(g, r)
  BY <1>1, Zenon DEF registerSession, Answers
<1>2. CASE OpCreate(w, g)
  BY <1>1, <1>2, Zenon DEF OpCreate, Answers
<1>3. CASE OpAttempt(w, g)
  BY <1>1, <1>3, Zenon DEF OpAttempt, Answers
<1>4. CASE OpClose(w, g) \/ OpWake(w, g)
  BY <1>4, Zenon DEF OpClose, OpWake, Answers
<1>5. CASE OpAdd(w, g)
  BY <1>5, Zenon DEF OpAdd, Answers
<1>6. CASE OpCancel(w, g)
  BY <1>6, Zenon DEF OpCancel, Answers
<1>7. QED BY <1>2, <1>3, <1>4, <1>5, <1>6 DEF RunOp

(* What taking an operation does to the queue. *)
LEMMA TookQueue ==
  ASSUME BaseInv, NEW w \in Workers, Took(w)
  PROVE  /\ Head(opCh[w]) \in Procs /\ Head(opCh[w]) = opCh[w][1] /\ 1 \in DOMAIN opCh[w]
         /\ \A v \in Workers : v # w => opCh'[v] = opCh[v]
         /\ \A i \in DOMAIN opCh'[w] : i + 1 \in DOMAIN opCh[w] /\ opCh'[w][i] = opCh[w][i + 1]
                                       /\ i \in Nat /\ i # 0
         /\ \A i \in DOMAIN opCh[w] : i = 1 \/ \E j \in DOMAIN opCh'[w] : i = j + 1
<1>1. opCh \in [Workers -> Seq(Procs)]
  BY DEF BaseInv, TypeOK, WorkerType
<1>2. opCh[w] \in Seq(Procs) /\ opCh[w] # <<>> /\ opCh'[w] = Tail(opCh[w])
      /\ \A v \in Workers : v # w => opCh'[v] = opCh[v]
  BY <1>1 DEF Took
<1> DEFINE s == opCh[w]
<1>3. s \in Seq(Procs) /\ s # <<>>
  BY <1>2
<1> HIDE DEF s
<1>4. /\ Head(s) \in Procs /\ Head(s) = s[1] /\ 1 \in DOMAIN s
      /\ \A i \in DOMAIN Tail(s) : i + 1 \in DOMAIN s /\ Tail(s)[i] = s[i + 1] /\ i \in Nat /\ i # 0
      /\ \A i \in DOMAIN s : i = 1 \/ (i - 1 \in DOMAIN Tail(s) /\ i = (i - 1) + 1)
  BY <1>3
<1>5. QED BY <1>2, <1>4 DEF s

LEMMA WorkerQueue ==
  ASSUME BaseInv, NEW w \in Workers, WorkerMove(w)
  PROVE  \/ UNCHANGED <<opCh, resp>>
         \/ Took(w) /\ \E r \in Answers : Reply(Head(opCh[w]), r)
<1>1. CASE Ran(w)
  BY <1>1, OpReplies DEF Ran
<1>2. CASE Refused(w)
  BY <1>2 DEF Refused, Answers
<1>3. CASE MovedOn(w) \/ wakeAllWaiters(w) \/ \E p \in Pubs : ClosedOne(w, p)
  BY <1>3, Zenon DEF MovedOn, wakeAllWaiters, ClosedOne
<1>4. CASE EventSeen(w)
  BY <1>4, Zenon DEF EventSeen, handleEvent
<1>5. QED BY <1>1, <1>2, <1>3, <1>4, WorkerCases, Zenon DEF WorkerActs

(* QueueOK is inductive. *)
LEMMA QueueStep == BaseInv /\ AppOK /\ QueueOK /\ [Next]_vars => QueueOK'
<1> SUFFICES ASSUME BaseInv, AppOK, QueueOK, [Next]_vars PROVE QueueOK'
  OBVIOUS
<1>0. /\ opCh = [v \in Workers |-> opCh[v]] /\ resp = [h \in Procs |-> resp[h]]
      /\ \A g \in Procs : ref[g][1] \in Workers
      /\ \A v \in Workers : opCh[v] \in Seq(Procs) /\ \A i \in DOMAIN opCh[v] : opCh[v][i] \in Procs
  BY DEF BaseInv, TypeOK, WorkerType, CallType, RespType
<1>a. \A v \in Workers : ~quiesced[v] => \A i \in DOMAIN opCh[v] : QueuedOK(v, i)
  BY DEF QueueOK
<1>b. ASSUME NEW v \in Workers, ~quiesced[v], NEW i \in DOMAIN opCh[v]
      PROVE  /\ opCh[v][i] \in Procs /\ pc[opCh[v][i]] = "answer" /\ resp[opCh[v][i]] = "none"
             /\ ref[opCh[v][i]][1] = v
             /\ \A j \in DOMAIN opCh[v] : opCh[v][i] = opCh[v][j] => i = j
  <2>1. QueuedOK(v, i)
    BY <1>a, <1>b
  <2>2. QED BY <1>0, <2>1 DEF QueuedOK
<1>1. CASE SystemStep
  <2>1. UNCHANGED <<pc, ref, opCh, quiesced, resp>>
        /\ \A v \in Workers : wpc[v] \notin {"absent", "failed", "registered"} =>
                                wpc'[v] \notin {"absent", "failed", "registered"}
    BY <1>1, SystemFrame
  <2>2. ASSUME NEW v \in Workers, ~quiesced'[v], NEW i \in DOMAIN opCh'[v]
        PROVE  QueuedOK(v, i)'
    <3>1. QueuedOK(v, i)
      BY <1>a, <2>1, <2>2
    <3>2. QED BY <2>1, <3>1 DEF QueuedOK
  <2>3. ASSUME NEW g \in Procs
        PROVE  PendingOK(g)' /\ SentOK(g)' /\ (pc'[g] # "answer" => resp'[g] = "none")
    <3>1. PendingOK(g) /\ SentOK(g) /\ (pc[g] # "answer" => resp[g] = "none")
      BY DEF QueueOK
    <3>2. PendingOK(g)'
      BY <2>1, <3>1 DEF PendingOK
    <3>3. SentOK(g)'
      BY <1>0, <2>1, <3>1 DEF SentOK
    <3>4. QED BY <2>1, <3>1, <3>2, <3>3
  <2>4. QED BY <2>2, <2>3 DEF QueueOK
<1>2. ASSUME NEW w \in Workers, WorkerMove(w) PROVE QueueOK'
  <2>1. /\ UNCHANGED <<pc, ref>>
        /\ \A v \in Workers : v # w => UNCHANGED <<wpc[v], quiesced[v]>>
        /\ wpc'[w] \notin {"absent", "failed", "registered"}
    BY <1>2, WorkerFrame DEF Running
  <2>2. \A v \in Workers : ~quiesced'[v] => ~quiesced[v]
    <3>1. quiesced'[w] \/ quiesced' = quiesced
      <4>1. quiesced \in [Workers -> BOOLEAN]
        BY DEF BaseInv, TypeOK, WorkerType
      <4>2. CASE quiesced' = [quiesced EXCEPT ![w] = TRUE]
        BY <4>1, <4>2, Zenon
      <4>3. QED BY <1>2, <4>2, WorkerFrame
    <3>2. QED BY <2>1, <3>1
  <2>3. \A g \in Procs : pc[g] \in {"send", "answer"} =>
          wpc'[ref[g][1]] \notin {"absent", "failed", "registered"}
    BY <1>0, <2>1 DEF QueueOK, QueuedOK, SentOK, PendingOK
  <2>4. CASE UNCHANGED <<opCh, resp>>
    <3>1. ASSUME NEW v \in Workers, ~quiesced'[v], NEW i \in DOMAIN opCh'[v]
          PROVE  QueuedOK(v, i)'
      <4>1. QueuedOK(v, i)
        BY <1>a, <2>2, <2>4, <3>1
      <4>2. QED BY <2>1, <2>4, <4>1 DEF QueuedOK
    <3>2. ASSUME NEW h \in Procs PROVE PendingOK(h)' /\ (pc'[h] # "answer" => resp'[h] = "none")
      <4>1. ~quiesced'[ref[h][1]] => ~quiesced[ref[h][1]]
        BY <1>0, <2>2, <3>2
      <4>2. QED BY <2>1, <2>4, <3>2, <4>1, Zenon DEF QueueOK, PendingOK
    <3>3. QED BY <2>1, <2>3, <3>1, <3>2, Zenon DEF QueueOK, SentOK
  <2>5. ASSUME Took(w), NEW r \in Answers, Reply(Head(opCh[w]), r) PROVE QueueOK'
    <3> DEFINE h == Head(opCh[w])
    <3>1. /\ h \in Procs /\ h = opCh[w][1] /\ 1 \in DOMAIN opCh[w]
          /\ \A v \in Workers : v # w => opCh'[v] = opCh[v]
          /\ \A i \in DOMAIN opCh'[w] : i + 1 \in DOMAIN opCh[w] /\ opCh'[w][i] = opCh[w][i + 1]
                                        /\ i \in Nat /\ i # 0
          /\ \A i \in DOMAIN opCh[w] : i = 1 \/ \E j \in DOMAIN opCh'[w] : i = j + 1
      BY <2>5, TookQueue, Zenon
    <3>2. resp'[h] = r /\ r # "none" /\ \A g \in Procs : g # h => resp'[g] = resp[g]
      BY <1>0, <2>5, <3>1 DEF Reply, Answers
    <3>3. ~quiesced[w] /\ ~quiesced'[w] /\ wpc[w] \notin Over
      BY <2>5 DEF Took, AppOK, Over
    <3> HIDE DEF h
    <3>4. pc[h] = "answer" /\ ref[h][1] = w
          /\ \A j \in DOMAIN opCh[w] : opCh[w][j] = h => j = 1
      BY <3>1, <3>3 DEF QueueOK, QueuedOK, SentOK, PendingOK
    <3>5. ASSUME NEW v \in Workers, ~quiesced'[v], NEW i \in DOMAIN opCh'[v]
          PROVE  /\ pc[opCh'[v][i]] = "answer" /\ resp'[opCh'[v][i]] = "none"
                 /\ ref[opCh'[v][i]][1] = v
                 /\ \A j \in DOMAIN opCh'[v] : opCh'[v][i] = opCh'[v][j] => i = j
      <4>1. CASE v = w
        <5>1. i + 1 \in DOMAIN opCh[w] /\ opCh'[w][i] = opCh[w][i + 1] /\ i \in Nat /\ i # 0
          BY <3>1, <3>5, <4>1
        <5>2. opCh[w][i + 1] # h /\ opCh[w][i + 1] \in Procs
          BY <1>0, <3>4, <5>1
        <5>3. \A j \in DOMAIN opCh'[w] : opCh'[w][i] = opCh'[w][j] => i + 1 = j + 1 /\ j \in Nat
          BY <3>1, <3>3, <5>1 DEF QueueOK, QueuedOK, SentOK, PendingOK
        <5>4. QED BY <3>2, <3>3, <4>1, <5>1, <5>2, <5>3 DEF QueueOK, QueuedOK, SentOK, PendingOK
      <4>2. CASE v # w
        <5>1. opCh'[v] = opCh[v] /\ ~quiesced[v]
          BY <2>2, <3>1, <3>5, <4>2
        <5>2. opCh[v][i] \in Procs /\ opCh[v][i] # h
          BY <1>b, <3>4, <3>5, <4>2, <5>1
        <5>3. QED BY <3>2, <3>5, <5>1, <5>2 DEF QueueOK, QueuedOK, SentOK, PendingOK
      <4>3. QED BY <4>1, <4>2
    <3>6. ASSUME NEW g \in Procs, pc[g] = "answer", resp'[g] = "none", ~quiesced'[ref[g][1]]
          PROVE  \E i \in DOMAIN opCh'[ref[g][1]] : opCh'[ref[g][1]][i] = g
      <4>1. g # h /\ resp[g] = "none" /\ ~quiesced[ref[g][1]] /\ ref[g][1] \in Workers
        BY <1>0, <2>2, <3>2, <3>6
      <4>2. PICK i \in DOMAIN opCh[ref[g][1]] : opCh[ref[g][1]][i] = g
        BY <3>6, <4>1 DEF QueueOK, QueuedOK, SentOK, PendingOK
      <4>3. CASE ref[g][1] = w
        <5>1. i # 1
          BY <3>1, <4>1, <4>2, <4>3
        <5>2. PICK j \in DOMAIN opCh'[w] : i = j + 1
          BY <3>1, <4>2, <4>3, <5>1
        <5>3. QED BY <3>1, <4>2, <4>3, <5>2
      <4>4. CASE ref[g][1] # w
        BY <3>1, <4>1, <4>2, <4>4
      <4>5. QED BY <4>3, <4>4
    <3>7. \A g \in Procs : pc[g] # "answer" => resp'[g] = "none"
      BY <3>2, <3>4 DEF QueueOK, QueuedOK, SentOK, PendingOK
    <3>8. QED BY <2>1, <2>3, <3>5, <3>6, <3>7 DEF QueueOK, QueuedOK, SentOK, PendingOK
  <2>6. QED BY <1>2, <2>4, <2>5, WorkerQueue
<1>3. ASSUME NEW g \in Procs, GoroutineStep(g) PROVE QueueOK'
  <2>1. OthersKeep(g) /\ GoroutineMove(g) /\ UNCHANGED <<wpc, quiesced, appLive, stopping>>
    BY <1>3, GoroutineMoves, GoroutineFrame
  <2>2. \A h \in Procs : h # g => UNCHANGED <<pc[h], ref[h], resp[h]>>
    BY <2>1 DEF OthersKeep
  <2>3. appLive => \A v \in Workers : wpc[v] \in Running
    BY DEF AppOK
  <2>4. CASE SendMove(g)
    <3> DEFINE w == ref[g][1]
    <3>1. /\ pc[g] = "send" /\ pc'[g] = "answer" /\ UNCHANGED <<ref[g], resp[g]>> /\ w \in Workers
          /\ opCh'[w] = Append(opCh[w], g) /\ \A v \in Workers : v # w => opCh'[v] = opCh[v]
      BY <1>0, <2>4 DEF SendMove
    <3>2. opCh[w] \in Seq(Procs)
      BY <1>0, <3>1
    <3> HIDE DEF w
    <3>3. /\ DOMAIN opCh'[w] = DOMAIN opCh[w] \cup {Len(opCh[w]) + 1}
          /\ Len(opCh[w]) + 1 \notin DOMAIN opCh[w]
          /\ \A i \in DOMAIN opCh[w] : opCh'[w][i] = opCh[w][i]
          /\ opCh'[w][Len(opCh[w]) + 1] = g
      BY <3>1, <3>2
    <3>4. resp[g] = "none" /\ \A v \in Workers : ~quiesced[v] => \A i \in DOMAIN opCh[v] : opCh[v][i] # g
      BY <3>1 DEF QueueOK, QueuedOK, SentOK, PendingOK
    <3>5. ref[g][1] = w
      BY DEF w
    <3>6. \A v \in Workers : ~quiesced[v] => \A i \in DOMAIN opCh'[v] :
            /\ pc'[opCh'[v][i]] = "answer" /\ resp'[opCh'[v][i]] = "none"
            /\ ref'[opCh'[v][i]][1] = v
            /\ \A j \in DOMAIN opCh'[v] : opCh'[v][i] = opCh'[v][j] => i = j
      <4> SUFFICES ASSUME NEW v \in Workers, ~quiesced[v], NEW i \in DOMAIN opCh'[v]
                   PROVE  /\ pc'[opCh'[v][i]] = "answer" /\ resp'[opCh'[v][i]] = "none"
                          /\ ref'[opCh'[v][i]][1] = v
                          /\ \A j \in DOMAIN opCh'[v] : opCh'[v][i] = opCh'[v][j] => i = j
        OBVIOUS
      <4>1. CASE v # w
        <5>1. i \in DOMAIN opCh[v] /\ opCh'[v] = opCh[v] /\ opCh[v][i] # g
          BY <3>1, <3>4, <4>1
        <5>2. QED BY <1>b, <2>2, <5>1
      <4>2. CASE v = w /\ i = Len(opCh[w]) + 1
        BY <3>1, <3>3, <3>4, <3>5, <4>2
      <4>3. CASE v = w /\ i \in DOMAIN opCh[w]
        <5>1. opCh'[v][i] = opCh[v][i] /\ opCh[v][i] # g /\ v = w
          BY <3>3, <3>4, <4>3
        <5>2. \A j \in DOMAIN opCh'[v] : opCh'[v][i] = opCh'[v][j] => j \in DOMAIN opCh[v]
          BY <3>3, <5>1
        <5>3. QED BY <1>b, <2>2, <3>3, <4>3, <5>1, <5>2
      <4>4. QED BY <3>3, <4>1, <4>2, <4>3
    <3>7. \A h \in Procs : pc'[h] = "answer" /\ resp'[h] = "none" /\ ~quiesced[ref'[h][1]] =>
            \E i \in DOMAIN opCh'[ref'[h][1]] : opCh'[ref'[h][1]][i] = h
      <4> SUFFICES ASSUME NEW h \in Procs, pc'[h] = "answer", resp'[h] = "none", ~quiesced[ref'[h][1]]
                   PROVE  \E i \in DOMAIN opCh'[ref'[h][1]] : opCh'[ref'[h][1]][i] = h
        OBVIOUS
      <4>1. CASE h = g
        BY <3>1, <3>3, <3>5, <4>1
      <4>2. CASE h # g
        <5>1. PICK i \in DOMAIN opCh[ref[h][1]] : opCh[ref[h][1]][i] = h
          BY <2>2, <4>2 DEF QueueOK, QueuedOK, SentOK, PendingOK
        <5>2. i \in DOMAIN opCh'[ref[h][1]] /\ opCh'[ref[h][1]][i] = h
          BY <1>0, <3>1, <3>3, <5>1
        <5>3. QED BY <2>2, <4>2, <5>2
      <4>3. QED BY <4>1, <4>2
    <3>8. QED BY <2>1, <2>2, <3>1, <3>6, <3>7 DEF QueueOK, QueuedOK, SentOK, PendingOK
  <2>5. CASE ~SendMove(g)
    <3>1. /\ UNCHANGED opCh /\ (pc'[g] # "answer" \/ UNCHANGED <<pc[g], ref[g], resp[g]>>)
          /\ pc'[g] # "answer" => resp'[g] = "none"
          /\ pc[g] = "answer" /\ resp[g] = "none" /\ ~quiesced[ref[g][1]] =>
               pc'[g] = "answer" /\ UNCHANGED <<ref[g], resp[g]>>
          /\ pc'[g] = "send" => (pc[g] = "send" \/ appLive) /\ UNCHANGED ref[g]
      BY <2>1, <2>5
         DEF GoroutineMove, EndMove, EndReason, Ended, Resumed, LookupMove, SubmitMove, ParkMove,
             AgainMove, CancelMove, CreateMove, BeginMove, StayMove, Onward, QueueOK
    <3>2. \A v \in Workers : ~quiesced[v] => \A i \in DOMAIN opCh[v] :
            /\ pc'[opCh[v][i]] = "answer" /\ resp'[opCh[v][i]] = "none"
            /\ ref'[opCh[v][i]][1] = v
            /\ \A j \in DOMAIN opCh[v] : opCh[v][i] = opCh[v][j] => i = j
      BY <1>b, <2>2, <3>1
    <3>3. \A h \in Procs : pc'[h] \in {"send", "answer"} =>
            wpc[ref'[h][1]] \notin {"absent", "failed", "registered"}
      <4>1. \A h \in Procs : pc[h] \in {"send", "answer"} =>
              wpc[ref[h][1]] \notin {"absent", "failed", "registered"}
        BY DEF QueueOK, SentOK
      <4>2. QED BY <1>0, <2>2, <2>3, <3>1, <4>1 DEF Running
    <3>4. QED BY <2>1, <2>2, <3>1, <3>2, <3>3 DEF QueueOK, QueuedOK, SentOK, PendingOK
  <2>6. QED BY <2>4, <2>5
<1>4. QED BY <1>1, <1>2, <1>3, StepCases

LEMMA QueueInit == Init => QueueOK
<1>1. ASSUME Init PROVE \A w \in Workers : DOMAIN opCh[w] = {}
  BY <1>1 DEF Init
<1>2. QED BY <1>1 DEF Init, QueueOK, SentOK, PendingOK

(* QuietOK is inductive. *)
LEMMA QuietStep == BaseInv /\ AppOK /\ QuietOK /\ [Next]_vars => QuietOK'
<1> SUFFICES ASSUME BaseInv, AppOK, QuietOK, [Next]_vars, ipc' # "live" PROVE QuietOK'
  BY DEF QuietOK
<1>1. CASE SystemStep
  BY <1>1, SystemFrame DEF QuietOK
<1>2. ASSUME NEW w \in Workers, WorkerMove(w) PROVE QuietOK'
  <2>1. ipc # "live" /\ UNCHANGED <<ipc, appLive, pc>>
    BY <1>2, WorkerFrame
  <2>2. ~appLive
    BY <2>1 DEF AppOK
  <2>3. /\ \A g \in Procs : pc[g] = "idle" /\ ready[g] = 0
        /\ \A p \in Pubs : owners[p] = NoRef /\ \A v \in Workers : waiters[v][p] = {}
    BY <2>1 DEF QuietOK
  <2>4. ready = [g \in Procs |-> ready[g]] /\ owners = [p \in Pubs |-> owners[p]]
        /\ waiters = [v \in Workers |-> waiters[v]]
    BY DEF BaseInv, TypeOK, TabType, WaitType
  <2>5. CASE MovedOn(w) \/ Refused(w)
    BY <2>1, <2>3, <2>5 DEF MovedOn, Refused, tabVars, waitVars, QuietOK
  <2>6. ~Ran(w)
    BY <2>2 DEF Ran
  <2>7. ~EventSeen(w)
    BY <2>3, Zenon DEF EventSeen, handleEvent
  <2>8. CASE wakeAllWaiters(w)
    <3>1. ~ \E x \in UNION {waiters[w][p] : p \in Pubs} : TRUE
      BY <2>3
    <3>2. \A g \in Procs : ready'[g] = ready[g] + 0
      BY <2>8, <3>1 DEF wakeAllWaiters, wakeWaitSet
    <3>3. \A p \in Pubs : \A v \in Workers : waiters'[v][p] = {}
      BY <2>3, <2>4, <2>8 DEF wakeAllWaiters
    <3>4. UNCHANGED owners
      BY <2>8 DEF wakeAllWaiters, tabVars
    <3>5. QED BY <2>1, <2>3, <3>2, <3>3, <3>4 DEF QuietOK
  <2>9. ASSUME NEW p \in Pubs, ClosedOne(w, p) PROVE QuietOK'
    <3>1. UNCHANGED <<waiters, ready>> /\ owners' = [owners EXCEPT ![p] = NoRef]
      BY <2>9 DEF ClosedOne, waitVars, unregisterSession
    <3>2. QED BY <2>1, <2>3, <2>4, <3>1 DEF QuietOK
  <2>10. QED BY <1>2, <2>5, <2>6, <2>7, <2>8, <2>9, WorkerCases, Zenon DEF WorkerActs
<1>3. ASSUME NEW g \in Procs, GoroutineStep(g) PROVE QuietOK'
  <2>1. OthersKeep(g) /\ GoroutineMove(g) /\ UNCHANGED <<ipc, appLive, owners, waiters>>
    BY <1>3, GoroutineMoves, GoroutineFrame
  <2>2. ~appLive /\ pc[g] = "idle"
    BY <2>1 DEF AppOK, QuietOK
  <2>3. StayMove(g)
    BY <2>1, <2>2
       DEF GoroutineMove, EndMove, EndReason, LookupMove, SubmitMove, SendMove, ParkMove, AgainMove,
           CancelMove, CreateMove, BeginMove
  <2>4. QED BY <2>1, <2>3 DEF StayMove, OthersKeep, QuietOK
<1>4. QED BY <1>1, <1>2, <1>3, StepCases

LEMMA QuietInit == Init => QuietOK
BY DEF Init, QuietOK
-----------------------------------------------------------------------------
(* What a worker's step does to the tables, entry by entry. *)
Elsewhere(w, p) ==
  \A v \in Workers, q \in Pubs : v # w \/ q # p =>
    UNCHANGED <<sessions[v][q], waiters[v][q], interest[v][q]>>

OtherOwners(p) == \A q \in Pubs : q # p => owners'[q] = owners[q]

OtherRaws(w, raw) == \A v \in Workers, r \in Raws : v # w \/ r # raw => vls'[v][r] = vls[v][r]

Registered(w, p, raw) ==
  /\ wpc[w] = "ops" /\ UNCHANGED wpc
  /\ p = nextHandle + 1 /\ nextHandle' = p /\ vls[w][raw] = NoPub
  /\ sessions'[w][p] = raw /\ Elsewhere(w, p)
  /\ waiters'[w][p] = waiters[w][p] /\ interest'[w][p] = interest[w][p]
  /\ owners'[p] = <<w, raw>> /\ OtherOwners(p)
  /\ vls'[w][raw] = p /\ OtherRaws(w, raw)

UsedUp ==
  /\ nextHandle >= MaxHandle /\ nextHandle' = nextHandle + 1
  /\ UNCHANGED <<wpc, owners, sessions, vls, waiters, interest>>

Closed(w, p) ==
  /\ UNCHANGED <<wpc, nextHandle>> /\ sessions[w][p] # NoRaw
  /\ sessions'[w][p] = NoRaw /\ waiters'[w][p] = {} /\ interest'[w][p] = {} /\ Elsewhere(w, p)
  /\ owners'[p] = NoRef /\ OtherOwners(p)
  /\ vls'[w][sessions[w][p]] = NoPub /\ OtherRaws(w, sessions[w][p])

Rewaited(w, p) ==
  /\ UNCHANGED <<wpc, owners, sessions, nextHandle, vls>> /\ wpc[w] \in Running
  /\ waiters'[w][p] # {} => sessions[w][p] # NoRaw
  /\ interest'[w][p] = combinedEvents(waiters'[w][p]) /\ Elsewhere(w, p)

Emptied(w) ==
  /\ UNCHANGED <<owners, sessions, nextHandle, vls>> /\ wpc[w] = "quiesce" /\ wpc'[w] = "closing"
  /\ \A p \in Pubs : waiters'[w][p] = {} /\ interest'[w][p] = {}
  /\ \A v \in Workers, p \in Pubs : v # w =>
       UNCHANGED <<wpc[v], waiters[v][p], interest[v][p]>>

Kept(w) ==
  /\ UNCHANGED <<owners, sessions, nextHandle, vls, waiters, interest>>
  /\ \A v \in Workers : v # w => wpc'[v] = wpc[v]
  /\ wpc'[w] \in {"closing", "drain", "drained"} \cup Over =>
       wpc[w] \in {"closing", "drain", "drained"} \cup Over
  /\ wpc'[w] \in {"absent", "failed", "registered", "drain", "drained"} \cup Over =>
       \/ wpc[w] \in {"absent", "failed", "registered", "drain", "drained"} \cup Over
       \/ \A p \in Pubs : sessions[w][p] = NoRaw

TableMove(w) ==
  \/ \E p \in Pubs, raw \in Raws : Registered(w, p, raw)
  \/ \E p \in Pubs : Closed(w, p) \/ Rewaited(w, p)
  \/ UsedUp \/ Emptied(w) \/ Kept(w)

NewlyClosed(g) ==
  resp[g] = "closed" \/ ~appLive \/ (call[g].target # NoPub /\ owners[call[g].target] = NoRef)

LEMMA NoMask == combinedEvents({}) = {}
BY DEF combinedEvents

(* The tables' part of TableInv. *)
TablesOK ==
  /\ \A w \in Workers, p \in Pubs : HandleOK(w, p)
  /\ \A w \in Workers, r \in Raws : vls[w][r] # NoPub => sessions[w][vls[w][r]] = r
  /\ \A p \in Pubs : OwnerOK(p)

LEMMA TableMoveStep ==
  ASSUME BaseInv, TablesOK, NEW w \in Workers, TableMove(w)
  PROVE  TablesOK'
<1>0. /\ nextHandle \in Nat /\ Pubs \subseteq Nat /\ NoPub \notin Pubs /\ NoRaw \notin Raws
      /\ NoRef[2] = NoRaw
      /\ \A v \in Workers, r \in Raws : vls[v][r] \in Pubs \cup {NoPub}
      /\ \A v \in Workers, p \in Pubs : sessions[v][p] \in Raws \cup {NoRaw}
  <2>1. Pubs \subseteq Nat /\ 0 .. HandleSpace - 1 \subseteq Nat
    BY Mode2Assumption DEF Pubs
  <2>2. QED BY <2>1, ConstFacts DEF TypeOK, BaseInv, TabType
<1>h. ASSUME NEW v \in Workers, NEW q \in Pubs PROVE HandleOK(v, q)
  BY DEF TablesOK
<1>o. ASSUME NEW q \in Pubs PROVE OwnerOK(q)
  BY DEF TablesOK
<1>v. ASSUME NEW v \in Workers, NEW r \in Raws, vls[v][r] # NoPub PROVE sessions[v][vls[v][r]] = r
  BY <1>v DEF TablesOK
<1>1. ASSUME NEW p \in Pubs, NEW raw \in Raws, Registered(w, p, raw) PROVE TablesOK'
  <2>1. owners[p] = NoRef /\ \A v \in Workers : sessions[v][p] = NoRaw /\ waiters[v][p] = {}
    <3>1. owners[p] = NoRef
      BY <1>0, <1>o, <1>1 DEF Registered, OwnerOK
    <3>2. QED BY <1>0, <1>h, <3>1 DEF HandleOK
  <2>2. ASSUME NEW v \in Workers, NEW q \in Pubs PROVE HandleOK(v, q)'
    <3>1. HandleOK(v, q)
      BY <1>h
    <3>2. CASE v = w /\ q = p
      BY <1>0, <1>1, <2>1, <3>1, <3>2, NoMask DEF Registered, HandleOK, Over
    <3>3. CASE v # w /\ q = p
      BY <1>0, <1>1, <2>1, <3>1, <3>3 DEF Registered, HandleOK, Over, Elsewhere
    <3>4. CASE q # p
      <4>1. /\ UNCHANGED <<sessions[v][q], waiters[v][q], interest[v][q], owners[q], wpc>>
            /\ sessions[v][q] # NoRaw => vls'[v][sessions[v][q]] = q
        BY <1>0, <1>1, <3>1, <3>4 DEF Registered, Elsewhere, OtherOwners, OtherRaws, HandleOK
      <4>2. QED BY <3>1, <4>1 DEF HandleOK
    <3>5. QED BY <3>2, <3>3, <3>4
  <2>3. ASSUME NEW v \in Workers, NEW r \in Raws, vls'[v][r] # NoPub
        PROVE  sessions'[v][vls'[v][r]] = r
    <3>1. CASE v = w /\ r = raw
      BY <1>1, <3>1 DEF Registered
    <3>2. CASE v # w \/ r # raw
      <4>1. vls'[v][r] = vls[v][r] /\ vls[v][r] \in Pubs /\ sessions[v][vls[v][r]] = r
        BY <1>0, <1>1, <1>v, <2>3, <3>2 DEF Registered, OtherRaws
      <4>2. vls[v][r] # p
        BY <1>0, <2>1, <4>1
      <4>3. QED BY <1>1, <4>1, <4>2 DEF Registered, Elsewhere
    <3>3. QED BY <3>1, <3>2
  <2>4. ASSUME NEW q \in Pubs PROVE OwnerOK(q)'
    BY <1>0, <1>1, <1>o DEF Registered, OtherOwners, OwnerOK
  <2>5. QED BY <2>2, <2>3, <2>4 DEF TablesOK
<1>2. ASSUME NEW p \in Pubs, Closed(w, p) PROVE TablesOK'
  <2>1. /\ HandleOK(w, p) /\ sessions[w][p] \in Raws /\ vls[w][sessions[w][p]] = p
        /\ owners[p] = <<w, sessions[w][p]>>
        /\ \A v \in Workers : v # w => sessions[v][p] = NoRaw
    BY <1>0, <1>h, <1>2 DEF Closed, HandleOK
  <2>2. ASSUME NEW v \in Workers, NEW q \in Pubs PROVE HandleOK(v, q)'
    <3>1. HandleOK(v, q)
      BY <1>h
    <3>2. CASE v = w /\ q = p
      BY <1>0, <1>2, <3>2, NoMask DEF Closed, HandleOK
    <3>3. CASE v # w /\ q = p
      BY <1>0, <1>2, <2>1, <3>1, <3>3 DEF Closed, HandleOK, Elsewhere
    <3>4. CASE q # p
      <4>1. /\ UNCHANGED <<sessions[v][q], waiters[v][q], interest[v][q], owners[q], wpc>>
            /\ sessions[v][q] # NoRaw => vls'[v][sessions[v][q]] = q
        BY <1>0, <1>2, <2>1, <3>1, <3>4 DEF Closed, Elsewhere, OtherOwners, OtherRaws, HandleOK
      <4>2. QED BY <3>1, <4>1 DEF HandleOK
    <3>5. QED BY <3>2, <3>3, <3>4
  <2>3. ASSUME NEW v \in Workers, NEW r \in Raws, vls'[v][r] # NoPub
        PROVE  sessions'[v][vls'[v][r]] = r
    <3>1. v # w \/ r # sessions[w][p]
      BY <1>2, <2>3 DEF Closed
    <3>2. vls'[v][r] = vls[v][r] /\ vls[v][r] \in Pubs /\ sessions[v][vls[v][r]] = r
      BY <1>0, <1>2, <1>v, <2>1, <2>3, <3>1 DEF Closed, OtherRaws
    <3>3. v # w \/ vls[v][r] # p
      BY <3>1, <3>2
    <3>4. QED BY <1>2, <3>2, <3>3 DEF Closed, Elsewhere
  <2>4. ASSUME NEW q \in Pubs PROVE OwnerOK(q)'
    BY <1>0, <1>2, <1>o DEF Closed, OtherOwners, OwnerOK
  <2>5. QED BY <2>2, <2>3, <2>4 DEF TablesOK
<1>3. ASSUME NEW p \in Pubs, Rewaited(w, p) PROVE TablesOK'
  <2>1. ASSUME NEW v \in Workers, NEW q \in Pubs PROVE HandleOK(v, q)'
    <3>1. HandleOK(v, q) /\ UNCHANGED <<wpc, owners, sessions, vls>>
      BY <1>h, <1>3 DEF Rewaited
    <3>2. CASE v = w /\ q = p
      BY <1>3, <3>1, <3>2 DEF Rewaited, HandleOK, Running, Over
    <3>3. CASE v # w \/ q # p
      BY <1>3, <3>1, <3>3 DEF Rewaited, HandleOK, Elsewhere
    <3>4. QED BY <3>2, <3>3
  <2>2. QED BY <1>3, <1>v, <1>o, <2>1 DEF Rewaited, TablesOK, OwnerOK
<1>4. CASE UsedUp
  <2>1. ASSUME NEW v \in Workers, NEW q \in Pubs PROVE HandleOK(v, q)'
    BY <1>h, <1>4 DEF UsedUp, HandleOK
  <2>2. ASSUME NEW q \in Pubs PROVE OwnerOK(q)'
    <3>1. q > nextHandle' => q > nextHandle
      BY <1>0, <1>4 DEF UsedUp
    <3>2. QED BY <1>4, <1>o, <3>1 DEF UsedUp, OwnerOK
  <2>3. QED BY <1>4, <1>v, <2>1, <2>2 DEF UsedUp, TablesOK
<1>5. CASE Emptied(w)
  <2>1. ASSUME NEW v \in Workers, NEW q \in Pubs PROVE HandleOK(v, q)'
    <3>1. HandleOK(v, q) /\ UNCHANGED <<owners, sessions, vls>>
      BY <1>h, <1>5 DEF Emptied
    <3>2. CASE v = w
      BY <1>5, <3>1, <3>2, NoMask DEF Emptied, HandleOK, Over
    <3>3. CASE v # w
      BY <1>5, <3>1, <3>3 DEF Emptied, HandleOK
    <3>4. QED BY <3>2, <3>3
  <2>2. QED BY <1>5, <1>v, <1>o, <2>1 DEF Emptied, TablesOK, OwnerOK
<1>6. CASE Kept(w)
  <2>1. ASSUME NEW v \in Workers, NEW q \in Pubs PROVE HandleOK(v, q)'
    <3>1. HandleOK(v, q) /\ UNCHANGED <<owners, sessions, vls, waiters, interest>>
      BY <1>h, <1>6 DEF Kept
    <3>2. CASE v = w
      BY <1>6, <3>1, <3>2 DEF Kept, HandleOK
    <3>3. CASE v # w
      BY <1>6, <3>1, <3>3 DEF Kept, HandleOK
    <3>4. QED BY <3>2, <3>3
  <2>2. QED BY <1>6, <1>v, <1>o, <2>1 DEF Kept, TablesOK, OwnerOK
<1>7. QED BY <1>1, <1>2, <1>3, <1>4, <1>5, <1>6 DEF TableMove

(* A call that a worker has taken: while the worker still has the session, *)
(* the owner the call looked up is right; otherwise the handle is gone.    *)
LEMMA OpFacts ==
  ASSUME BaseInv, TableInv, NEW w \in Workers, NEW g \in Procs,
         pc[g] = "answer", ref[g][1] = w, op[g] # "create"
  PROVE  /\ call[g].target \in Pubs
         /\ sessions[w][call[g].target] # NoRaw =>
              /\ ref[g][2] = sessions[w][call[g].target] /\ ref[g][2] \in Raws
              /\ vls[w][ref[g][2]] = call[g].target
         /\ ownedRaw(w, g) <=> sessions[w][call[g].target] # NoRaw
         /\ ~ownedRaw(w, g) => owners[call[g].target] = NoRef
<1> DEFINE p == call[g].target
<1>1. p \in Pubs /\ p # NoPub
  <2>1. call[g].target \in Pubs \cup {NoPub}
    BY DEF TypeOK, BaseInv, CallType
  <2>2. QED BY <2>1, ConstFacts DEF BaseInv, CallOK
<1>2. HandleOK(w, p) /\ RefOK(g) /\ OwnerOK(p)
  BY <1>1 DEF TableInv
<1>3. /\ sessions[w][p] \in Raws \cup {NoRaw} /\ NoRef[2] = NoRaw /\ NoRaw \notin Raws
      /\ ref[g] \in Workers \X (Raws \cup {NoRaw})
      /\ owners[p] \in Workers \X (Raws \cup {NoRaw})
  BY <1>1, ConstFacts DEF TypeOK, BaseInv, TabType, CallType
<1> HIDE DEF p
<1>4. ref[g][2] # NoRaw /\ owners[p] \in {NoRef, ref[g]}
  <2>1. ref[g][2] # NoRaw
    BY <1>2 DEF RefOK
  <2>2. ref[g] # NoRef
    BY <1>3, <2>1
  <2>3. QED BY <1>1, <1>2, <2>1, <2>2 DEF RefOK, p
<1>5. sessions[w][p] # NoRaw => ref[g][2] = sessions[w][p] /\ vls[w][ref[g][2]] = p
  <2>1. ASSUME sessions[w][p] # NoRaw PROVE owners[p] = ref[g]
    BY <1>2, <1>3, <1>4, <2>1 DEF HandleOK
  <2>2. QED BY <1>2, <2>1 DEF HandleOK
<1>6. sessions[w][p] = NoRaw => owners[p] = NoRef
  BY <1>2, <1>4 DEF HandleOK
<1>7. QED BY <1>1, <1>3, <1>5, <1>6 DEF ownedRaw, p

LEMMA RightRaw ==
  ASSUME NEW w, NEW p, NEW raw, ~misrouted, vls[w][raw] = p, RawCall(w, p, raw)
  PROVE  ~misrouted'
BY Zenon DEF RawCall

LEMMA SetMove ==
  ASSUME BaseInv, NEW w \in Workers, NEW p \in Pubs, NEW S, NEW intr, SetTo(w, p, S, intr)
  PROVE  /\ waiters'[w][p] = S /\ interest'[w][p] = intr
         /\ \A v \in Workers, q \in Pubs : v # w \/ q # p =>
              UNCHANGED <<waiters[v][q], interest[v][q]>>
<1>1. /\ waiters \in [Workers -> [Pubs -> SUBSET (Procs \X Events)]]
      /\ interest \in [Workers -> [Pubs -> SUBSET Events]]
  BY DEF TypeOK, BaseInv, WaitType
<1>2. QED BY <1>1 DEF SetTo

LEMMA RegisterMove ==
  ASSUME BaseInv, NoWrap, NEW w \in Workers, NEW g \in Procs, NEW raw \in Raws,
         vls[w][raw] = NoPub, registerSession(w, g, raw), wpc[w] = "ops",
         UNCHANGED <<wpc, waiters, interest>>
  PROVE  \/ Reply(g, "ok") /\ \E p \in Pubs : Registered(w, p, raw)
         \/ Reply(g, "error") /\ UsedUp
<1>0. /\ owners \in [Pubs -> Workers \X (Raws \cup {NoRaw})]
      /\ sessions \in [Workers -> [Pubs -> Raws \cup {NoRaw}]]
      /\ vls \in [Workers -> [Raws -> Pubs \cup {NoPub}]]
      /\ nextHandle \in 0 .. HandleSpace - 1
  BY DEF TypeOK, BaseInv, TabType
<1> DEFINE id == (nextHandle + 1) % HandleSpace
<1>1. id = nextHandle + 1 /\ nextHandle' = id /\ id # 0
  <2>1. id = nextHandle + 1
    BY <1>0, ConstFacts DEF NoWrap
  <2>2. nextHandle \in Nat
    BY <1>0, Mode2Assumption
  <2>3. QED BY <2>1, <2>2 DEF registerSession
<1>2. CASE id > MaxHandle
  <2>1. UNCHANGED <<owners, sessions, vls>> /\ Reply(g, "error")
    BY <1>2, Zenon DEF registerSession
  <2>2. nextHandle >= MaxHandle
    <3>1. nextHandle \in Nat /\ MaxHandle \in Nat
      BY <1>0, Mode2Assumption
    <3>2. QED BY <1>1, <1>2, <3>1
  <2>3. QED BY <1>1, <2>1, <2>2 DEF UsedUp
<1>3. CASE ~(id > MaxHandle)
  <2>1. /\ Reply(g, "ok")
        /\ sessions' = [sessions EXCEPT ![w][id] = raw]
        /\ owners' = [owners EXCEPT ![id] = <<w, raw>>]
        /\ vls' = [vls EXCEPT ![w][raw] = id]
    BY <1>1, <1>3, Zenon DEF registerSession
  <2>2. id \in Pubs
    <3>1. nextHandle \in Nat /\ MaxHandle \in Nat
      BY <1>0, Mode2Assumption
    <3>2. QED BY <1>1, <1>3, <3>1 DEF Pubs
  <2> HIDE DEF id
  <2>3. /\ sessions'[w][id] = raw /\ Elsewhere(w, id)
    BY <1>0, <2>1, <2>2 DEF Elsewhere
  <2>4. owners'[id] = <<w, raw>> /\ OtherOwners(id) /\ vls'[w][raw] = id /\ OtherRaws(w, raw)
    BY <1>0, <2>1, <2>2 DEF OtherOwners, OtherRaws
  <2>5. Registered(w, id, raw)
    BY <1>1, <2>3, <2>4 DEF Registered
  <2>6. QED BY <2>1, <2>2, <2>5
<1>4. QED BY <1>2, <1>3

LEMMA CloseMove ==
  ASSUME BaseInv, NEW w \in Workers, NEW p \in Pubs, sessions[w][p] \in Raws,
         vls' = [vls EXCEPT ![w][sessions[w][p]] = NoPub], unregisterSession(w, p),
         UNCHANGED <<wpc, nextHandle>>, waiters'[w][p] = {}, interest'[w][p] = {},
         \A v \in Workers, q \in Pubs : v # w \/ q # p => UNCHANGED <<waiters[v][q], interest[v][q]>>
  PROVE  Closed(w, p)
<1>0. /\ owners \in [Pubs -> Workers \X (Raws \cup {NoRaw})]
      /\ sessions \in [Workers -> [Pubs -> Raws \cup {NoRaw}]]
      /\ vls \in [Workers -> [Raws -> Pubs \cup {NoPub}]]
  BY DEF TypeOK, BaseInv, TabType
<1>1. sessions'[w][p] = NoRaw /\ Elsewhere(w, p)
  BY <1>0 DEF unregisterSession, Elsewhere
<1>2. owners'[p] = NoRef /\ OtherOwners(p)
  BY <1>0 DEF unregisterSession, OtherOwners
<1>3. vls'[w][sessions[w][p]] = NoPub /\ OtherRaws(w, sessions[w][p])
  BY <1>0 DEF OtherRaws
<1>4. QED BY <1>1, <1>2, <1>3, ConstFacts DEF Closed

LEMMA RewaitMove ==
  ASSUME BaseInv, NEW w \in Workers, NEW p \in Pubs, NEW S, NEW intr, SetTo(w, p, S, intr),
         intr = combinedEvents(S), S # {} => sessions[w][p] # NoRaw, wpc[w] \in Running,
         UNCHANGED <<wpc, owners, sessions, nextHandle, vls>>
  PROVE  Rewaited(w, p)
<1>1. waiters'[w][p] = S /\ interest'[w][p] = intr /\ Elsewhere(w, p)
  BY SetMove DEF Elsewhere
<1>2. QED BY <1>1 DEF Rewaited

LEMMA ShrinkMove ==
  ASSUME BaseInv, TableInv, NEW w \in Workers, NEW p \in Pubs, NEW raw, NEW gone,
         Shrink(w, p, raw, gone), sessions[w][p] # NoRaw, vls[w][raw] = p, wpc[w] \in Running,
         UNCHANGED <<wpc, owners, sessions, nextHandle, vls>>
  PROVE  Rewaited(w, p) /\ ~misrouted'
<1> DEFINE left == waiters[w][p] \ gone
<1>1. interest[w][p] = combinedEvents(waiters[w][p]) /\ ~misrouted
  BY DEF TableInv, HandleOK
<1>2. CASE combinedEvents(left) = combinedEvents(waiters[w][p]) /\ SetTo(w, p, left, interest[w][p])
           /\ UNCHANGED misrouted
  BY <1>1, <1>2, RewaitMove
<1>3. CASE SetTo(w, p, left, combinedEvents(left)) /\ RawCall(w, p, raw)
  BY <1>1, <1>3, RewaitMove, RightRaw
<1>4. CASE removeWaiters(w, p) /\ RawCall(w, p, raw)
  <2>1. SetTo(w, p, {}, {}) /\ {} = combinedEvents({})
    BY <1>4, NoMask DEF removeWaiters
  <2>2. QED BY <1>1, <1>4, <2>1, RewaitMove, RightRaw
<1>5. QED BY <1>2, <1>3, <1>4, Zenon DEF Shrink

LEMMA OpMoves ==
  ASSUME BaseInv, TableInv, NoWrap, NEW w \in Workers, NEW g \in Procs,
         pc[g] = "answer", ref[g][1] = w, RunOp(w, g), wpc[w] = "ops", UNCHANGED wpc
  PROVE  /\ TableMove(w) /\ ~misrouted'
         /\ resp'[g] = "closed" => call[g].target # NoPub /\ owners[call[g].target] = NoRef
<1> DEFINE p == call[g].target
<1>0. ~misrouted /\ wpc[w] \in Running /\ resp = [h \in Procs |-> resp[h]]
      /\ \A v \in Workers, q \in Pubs : interest[v][q] = combinedEvents(waiters[v][q])
  <2>1. resp = [h \in Procs |-> resp[h]]
    BY DEF TypeOK, BaseInv, RespType
  <2>2. QED BY <2>1 DEF TableInv, HandleOK, Running
<1>1. op[g] # "create" =>
        /\ p \in Pubs /\ p # NoPub
        /\ sessions[w][p] # NoRaw =>
             ref[g][2] = sessions[w][p] /\ sessions[w][p] \in Raws /\ vls[w][ref[g][2]] = p
        /\ ownedRaw(w, g) <=> sessions[w][p] # NoRaw
        /\ ~ownedRaw(w, g) => owners[p] = NoRef
  BY OpFacts, ConstFacts
<1> DEFINE Goal == /\ TableMove(w) /\ ~misrouted'
                   /\ resp'[g] = "closed" => p # NoPub /\ owners[p] = NoRef
<1>2. ASSUME NEW r, Reply(g, r) PROVE resp'[g] = r
  BY <1>0, <1>2 DEF Reply
<1>3. ASSUME UNCHANGED <<nextHandle, owners, sessions, vls, waiters, interest>>
      PROVE  TableMove(w)
  BY <1>3 DEF TableMove, Kept
<1>4. ASSUME NEW raw \in FreeRaws(w), registerSession(w, g, raw), UNCHANGED <<waiters, interest>>
      PROVE  TableMove(w) /\ resp'[g] # "closed"
  <2>1. raw \in Raws /\ vls[w][raw] = NoPub
    BY DEF FreeRaws
  <2>2. /\ (\E q \in Pubs : Registered(w, q, raw)) \/ UsedUp
        /\ Reply(g, "ok") \/ Reply(g, "error")
    BY <1>4, <2>1, RegisterMove
  <2>3. resp'[g] # "closed"
    BY <1>2, <2>2
  <2>4. QED BY <2>1, <2>2, <2>3 DEF TableMove
<1> HIDE DEF p
<1>5. CASE OpCreate(w, g)
  <2>1. UNCHANGED <<misrouted, waiters, interest>>
    BY <1>5 DEF OpCreate, waitVars
  <2>2. CASE Reply(g, "error") /\ UNCHANGED <<nextHandle, owners, sessions, vls>>
    BY <1>0, <1>2, <1>3, <2>1, <2>2
  <2>3. CASE \E raw \in FreeRaws(w) : registerSession(w, g, raw)
    BY <1>0, <1>4, <2>1, <2>3
  <2>4. QED BY <1>5, <2>2, <2>3 DEF OpCreate
<1>6. CASE op[g] = "attempt" /\ OpAttempt(w, g)
  <2>1. UNCHANGED <<waiters, interest>>
    BY <1>6 DEF OpAttempt, waitVars
  <2>2. CASE ~ownedRaw(w, g) /\ UNCHANGED tabVars
    <3>1. UNCHANGED <<nextHandle, owners, sessions, vls, misrouted>>
      BY <2>2 DEF tabVars
    <3>2. QED BY <1>0, <1>1, <1>3, <1>6, <2>1, <2>2, <3>1 DEF p
  <2>3. CASE ownedRaw(w, g)
    <3>1. ~misrouted'
      <4>1. RawCall(w, p, ref[g][2])
        BY <1>6, <2>3 DEF OpAttempt, p
      <4>2. QED BY <1>0, <1>1, <1>6, <2>3, <4>1, RightRaw
    <3>2. ASSUME NEW r \in {"again", "error", "ok"}, Reply(g, r),
                 UNCHANGED <<nextHandle, owners, sessions, vls>>
          PROVE  Goal
      BY <1>2, <1>3, <2>1, <3>1, <3>2
    <3>3. CASE \E raw \in FreeRaws(w) : registerSession(w, g, raw)
      BY <1>4, <2>1, <3>1, <3>3
    <3>4. QED BY <1>6, <2>3, <3>2, <3>3, Zenon DEF OpAttempt, p
  <2>4. QED BY <1>6, <2>2, <2>3 DEF OpAttempt
<1>7. CASE op[g] = "close" /\ OpClose(w, g)
  <2>1. UNCHANGED nextHandle
    BY <1>7 DEF OpClose
  <2>2. CASE ~ownedRaw(w, g)
    <3>1. UNCHANGED <<owners, sessions, vls, misrouted, waiters, interest>>
      BY <1>7, <2>2 DEF OpClose, waitVars
    <3>2. QED BY <1>0, <1>1, <1>3, <1>7, <2>1, <2>2, <3>1 DEF p
  <2>3. CASE ownedRaw(w, g)
    <3>1. /\ SetTo(w, p, {}, {}) /\ RawCall(w, p, ref[g][2])
          /\ vls' = [vls EXCEPT ![w][ref[g][2]] = NoPub] /\ unregisterSession(w, p)
          /\ Reply(g, "ok") \/ Reply(g, "error")
      BY <1>7, <2>3 DEF OpClose, removeWaiters, p
    <3>2. /\ p \in Pubs /\ sessions[w][p] \in Raws /\ ref[g][2] = sessions[w][p]
          /\ vls[w][ref[g][2]] = p
      BY <1>1, <1>7, <2>3
    <3>3. ~misrouted' /\ resp'[g] # "closed"
      BY <1>0, <1>2, <3>1, <3>2, RightRaw
    <3>4. /\ waiters'[w][p] = {} /\ interest'[w][p] = {}
          /\ \A v \in Workers, q \in Pubs : v # w \/ q # p =>
               UNCHANGED <<waiters[v][q], interest[v][q]>>
      BY <3>1, <3>2, SetMove
    <3>5. Closed(w, p)
      BY <2>1, <3>1, <3>2, <3>4, CloseMove
    <3>6. QED BY <3>2, <3>3, <3>5 DEF TableMove
  <2>4. QED BY <2>2, <2>3
<1>8. CASE op[g] = "wake" /\ OpWake(w, g)
  <2>1. /\ SetTo(w, p, {}, {}) /\ Reply(g, "ok") /\ UNCHANGED <<owners, sessions, nextHandle, vls>>
        /\ waiters[w][p] # {} => RawCall(w, p, ref[g][2])
        /\ waiters[w][p] = {} => UNCHANGED misrouted
    BY <1>8 DEF OpWake, removeWaiters, p
  <2>2. p \in Pubs /\ (waiters[w][p] # {} => vls[w][ref[g][2]] = p)
    <3>1. p \in Pubs
      BY <1>1, <1>8
    <3>2. HandleOK(w, p)
      BY <3>1 DEF TableInv
    <3>3. QED BY <1>1, <1>8, <3>1, <3>2 DEF HandleOK
  <2>3. ~misrouted'
    BY <1>0, <2>1, <2>2, RightRaw
  <2>4. Rewaited(w, p)
    BY <1>0, <2>1, <2>2, RewaitMove, NoMask
  <2>5. QED BY <1>2, <2>1, <2>2, <2>3, <2>4 DEF TableMove
<1>9. CASE op[g] = "add" /\ OpAdd(w, g)
  <2> DEFINE S == waiters[w][p] \cup {Waiter(g)}
  <2>1. UNCHANGED <<owners, sessions, nextHandle, vls>> /\ p \in Pubs
    BY <1>1, <1>9 DEF OpAdd
  <2>2. CASE ~ownedRaw(w, g)
    <3>1. UNCHANGED <<misrouted, waiters, interest>>
      BY <1>9, <2>2 DEF OpAdd
    <3>2. QED BY <1>0, <1>1, <1>3, <1>9, <2>1, <2>2, <3>1 DEF p
  <2>3. CASE ownedRaw(w, g) /\ RawCall(w, p, ref[g][2])
             /\ SetTo(w, p, S, combinedEvents(S)) /\ Reply(g, "ok")
    <3>1. ~misrouted' /\ resp'[g] # "closed"
      BY <1>0, <1>1, <1>2, <1>9, <2>3, RightRaw
    <3>2. Rewaited(w, p)
      BY <1>0, <1>1, <1>9, <2>1, <2>3, RewaitMove
    <3>3. QED BY <2>1, <3>1, <3>2 DEF TableMove
  <2>4. CASE ownedRaw(w, g) /\ RawCall(w, p, ref[g][2]) /\ Reply(g, "error")
             /\ UNCHANGED <<waiters, interest>>
    <3>1. ~misrouted' /\ resp'[g] # "closed"
      BY <1>0, <1>1, <1>2, <1>9, <2>4, RightRaw
    <3>2. QED BY <1>3, <2>1, <2>4, <3>1
  <2>5. CASE ownedRaw(w, g) /\ combinedEvents(waiters[w][p]) = combinedEvents(S)
             /\ SetTo(w, p, S, interest[w][p]) /\ Reply(g, "ok") /\ UNCHANGED misrouted
    <3>1. ~misrouted' /\ resp'[g] # "closed" /\ interest[w][p] = combinedEvents(S)
      BY <1>0, <1>2, <2>1, <2>5
    <3>2. Rewaited(w, p)
      BY <1>0, <1>1, <1>9, <2>1, <2>5, <3>1, RewaitMove
    <3>3. QED BY <2>1, <3>1, <3>2 DEF TableMove
  <2>6. QED BY <1>9, <2>2, <2>3, <2>4, <2>5, Zenon DEF OpAdd, p
<1>10. CASE op[g] = "cancel" /\ OpCancel(w, g)
  <2>1. UNCHANGED <<owners, sessions, nextHandle, vls>> /\ p \in Pubs
    BY <1>1, <1>10 DEF OpCancel
  <2>2. CASE Waiter(g) \in waiters[w][p] /\ Shrink(w, p, ref[g][2], {Waiter(g)}) /\ Reply(g, "false")
    <3>1. sessions[w][p] # NoRaw
      BY <2>1, <2>2 DEF TableInv, HandleOK
    <3>2. Rewaited(w, p) /\ ~misrouted'
      BY <1>0, <1>1, <1>10, <2>1, <2>2, <3>1, ShrinkMove
    <3>3. QED BY <1>2, <2>1, <2>2, <3>2 DEF TableMove
  <2>3. CASE Reply(g, IF ready[g] > 0 THEN "true" ELSE "false")
             /\ UNCHANGED <<misrouted, waiters, interest>>
    <3>1. resp'[g] # "closed"
      BY <1>2, <2>3
    <3>2. QED BY <1>0, <1>3, <2>1, <2>3, <3>1
  <2>4. QED BY <1>10, <2>2, <2>3, Zenon DEF OpCancel, p, waitVars
<1>11. QED BY <1>5, <1>6, <1>7, <1>8, <1>9, <1>10 DEF RunOp, p

LEMMA WorkerTables ==
  ASSUME BaseInv, AppOK, QueueOK, TableInv, NoWrap, NEW w \in Workers, WorkerMove(w)
  PROVE  TableMove(w) /\ ~misrouted' /\ \A g \in Procs : resp'[g] = "closed" => NewlyClosed(g)
<1>0. /\ ~misrouted /\ resp = [h \in Procs |-> resp[h]] /\ NoRaw \notin Raws
      /\ \A p \in Pubs : sessions[w][p] \in Raws \cup {NoRaw}
      /\ \A p \in Pubs : HandleOK(w, p)
  BY ConstFacts DEF TypeOK, BaseInv, TabType, RespType, TableInv
<1>1. CASE MovedOn(w)
  <2>1. UNCHANGED <<owners, sessions, nextHandle, vls, misrouted, waiters, interest, resp>>
    BY <1>1 DEF MovedOn, tabVars, waitVars
  <2>2. Kept(w)
    BY <1>1, <2>1, WorkerFrame DEF MovedOn, Kept, Running, Over
  <2>3. QED BY <1>0, <2>1, <2>2 DEF TableMove, NewlyClosed
<1>2. CASE Refused(w)
  <2>1. UNCHANGED <<owners, sessions, nextHandle, vls, misrouted, waiters, interest, wpc>>
    BY <1>2 DEF Refused, Took, tabVars, waitVars
  <2>2. ~appLive
    BY <1>2 DEF Refused, Took, AppOK, Running
  <2>3. QED BY <1>0, <2>1, <2>2 DEF TableMove, Kept, NewlyClosed
<1>3. CASE Ran(w)
  <2>1. PICK g \in Procs : g = Head(opCh[w])
    BY <1>3, TookQueue DEF Ran
  <2>2. RunOp(w, g) /\ wpc[w] = "ops" /\ UNCHANGED wpc
    BY <1>3, <2>1 DEF Ran, Took
  <2>3. pc[g] = "answer" /\ ref[g][1] = w
    <3>1. ~quiesced[w]
      BY <2>2 DEF AppOK, Over
    <3>2. 1 \in DOMAIN opCh[w] /\ g = opCh[w][1]
      BY <1>3, <2>1, TookQueue DEF Ran
    <3>3. QueuedOK(w, 1)
      BY <3>1, <3>2 DEF QueueOK
    <3>4. QED BY <3>2, <3>3 DEF QueuedOK
  <2>4. /\ TableMove(w) /\ ~misrouted'
        /\ resp'[g] = "closed" => call[g].target # NoPub /\ owners[call[g].target] = NoRef
    BY <2>2, <2>3, OpMoves
  <2>5. PICK r \in Answers : Reply(g, r)
    BY <2>2, OpReplies
  <2>6. \A h \in Procs : h # g => resp'[h] = resp[h]
    BY <1>0, <2>5 DEF Reply
  <2>7. QED BY <2>4, <2>6 DEF NewlyClosed
<1>4. ASSUME NEW p \in Pubs, NEW evs \in SUBSET Events, NEW t \in BOOLEAN, handleEvent(w, p, evs, t)
      PROVE  TableMove(w) /\ ~misrouted' /\ UNCHANGED resp
  <2>1. /\ UNCHANGED <<owners, sessions, nextHandle, vls, wpc, resp>> /\ wpc[w] = "events"
        /\ waiters[w][p] # {}
    BY <1>4, Zenon DEF handleEvent
  <2>2. sessions[w][p] # NoRaw /\ vls[w][sessions[w][p]] = p
    BY <1>0, <2>1 DEF HandleOK
  <2>3. PICK gone : Shrink(w, p, sessions[w][p], gone)
    BY <1>4, <2>2, Zenon DEF handleEvent
  <2>4. Rewaited(w, p) /\ ~misrouted'
    BY <2>1, <2>2, <2>3, ShrinkMove DEF Running
  <2>5. QED BY <2>1, <2>4 DEF TableMove
<1>5. CASE wakeAllWaiters(w)
  <2>1. UNCHANGED <<owners, sessions, nextHandle, vls, misrouted, resp>> /\ wpc[w] = "quiesce"
    BY <1>5 DEF wakeAllWaiters, tabVars
  <2>2. /\ wpc = [v \in Workers |-> wpc[v]] /\ waiters = [v \in Workers |-> waiters[v]]
        /\ interest = [v \in Workers |-> interest[v]]
    BY DEF BaseInv, TypeOK, WorkerType, WaitType
  <2>3. \A p \in Pubs : waiters'[w][p] = {} /\ interest'[w][p] = {}
    <3> SUFFICES ASSUME NEW p \in Pubs PROVE waiters'[w][p] = {} /\ interest'[w][p] = {}
      OBVIOUS
    <3>1. waiters'[w][p] = {} /\ interest'[w][p] = IF sessions[w][p] # NoRaw THEN {} ELSE interest[w][p]
      BY <1>5, <2>2 DEF wakeAllWaiters
    <3>2. sessions[w][p] = NoRaw => interest[w][p] = {}
      BY <1>0, NoMask DEF HandleOK
    <3>3. QED BY <3>1, <3>2
  <2>4. wpc'[w] = "closing" /\ \A v \in Workers, p \in Pubs : v # w =>
          UNCHANGED <<wpc[v], waiters[v][p], interest[v][p]>>
    BY <1>5, <2>2 DEF wakeAllWaiters
  <2>5. Emptied(w)
    BY <2>1, <2>3, <2>4 DEF Emptied
  <2>6. QED BY <1>0, <2>1, <2>5 DEF TableMove, NewlyClosed
<1>6. ASSUME NEW p \in Pubs, ClosedOne(w, p) PROVE TableMove(w) /\ ~misrouted' /\ UNCHANGED resp
  <2>1. /\ wpc[w] = "closing" /\ sessions[w][p] \in Raws /\ vls[w][sessions[w][p]] = p
        /\ waiters[w][p] = {} /\ interest[w][p] = {}
    BY <1>0, <1>6, NoMask DEF ClosedOne, HandleOK
  <2>2. /\ RawCall(w, p, sessions[w][p]) /\ vls' = [vls EXCEPT ![w][sessions[w][p]] = NoPub]
        /\ unregisterSession(w, p) /\ UNCHANGED <<nextHandle, waiters, interest, resp, wpc>>
    BY <1>6 DEF ClosedOne, waitVars
  <2>3. ~misrouted'
    BY <1>0, <2>1, <2>2, RightRaw
  <2>4. Closed(w, p)
    BY <2>1, <2>2, CloseMove
  <2>5. QED BY <2>2, <2>3, <2>4 DEF TableMove
<1>7. CASE EventSeen(w)
  BY <1>4, <1>7, Zenon DEF EventSeen, NewlyClosed
<1>8. CASE \E p \in Pubs : ClosedOne(w, p)
  BY <1>6, <1>8, Zenon DEF NewlyClosed
<1>9. QED BY <1>1, <1>2, <1>3, <1>5, <1>7, <1>8, WorkerCases DEF WorkerActs

(* A handle that has been handed out never gets a second owner. *)
LEMMA OwnersShrink ==
  ASSUME BaseInv, NEW w \in Workers, TableMove(w)
  PROVE  /\ nextHandle' >= nextHandle
         /\ \A p \in Pubs : p <= nextHandle => owners'[p] \in {owners[p], NoRef}
<1>1. nextHandle \in Nat /\ Pubs \subseteq Nat
  <2>1. Pubs \subseteq Nat /\ 0 .. HandleSpace - 1 \subseteq Nat
    BY Mode2Assumption DEF Pubs
  <2>2. QED BY <2>1 DEF TypeOK, BaseInv, TabType
<1>2. ASSUME NEW p \in Pubs, NEW raw \in Raws, Registered(w, p, raw)
      PROVE  /\ nextHandle' >= nextHandle
             /\ \A q \in Pubs : q <= nextHandle => owners'[q] \in {owners[q], NoRef}
  BY <1>1, <1>2 DEF Registered, OtherOwners
<1>3. ASSUME NEW p \in Pubs, Closed(w, p)
      PROVE  /\ nextHandle' >= nextHandle
             /\ \A q \in Pubs : q <= nextHandle => owners'[q] \in {owners[q], NoRef}
  BY <1>1, <1>3 DEF Closed, OtherOwners
<1>4. CASE (\E p \in Pubs : Rewaited(w, p)) \/ Emptied(w) \/ Kept(w)
  BY <1>1, <1>4 DEF Rewaited, Emptied, Kept
<1>5. CASE UsedUp
  BY <1>1, <1>5 DEF UsedUp
<1>6. QED BY <1>2, <1>3, <1>4, <1>5, Zenon DEF TableMove

(* TableInv is inductive as long as the counter does not wrap around. *)
LEMMA TableStep ==
  BaseInv /\ AppOK /\ QueueOK /\ QuietOK /\ TableInv /\ NoWrap /\ [Next]_vars => TableInv'
<1> SUFFICES ASSUME BaseInv, AppOK, QueueOK, QuietOK, TableInv, NoWrap, [Next]_vars PROVE TableInv'
  OBVIOUS
<1>0. /\ TablesOK /\ ~misrouted /\ NoRef[2] = NoRaw /\ Creation.target = NoPub
      /\ \A g \in Procs : call[g].target \in Pubs \cup {NoPub}
      /\ \A g \in Procs : RefOK(g)
  BY ConstFacts DEF TypeOK, BaseInv, CallType, TableInv, TablesOK
<1>1. CASE SystemStep
  <2>1. UNCHANGED <<call, pc, op, ref, owners, sessions, nextHandle, vls, misrouted, waiters, interest,
                    resp>>
    BY <1>1, SystemFrame
  <2>2. ASSUME NEW v \in Workers, NEW q \in Pubs PROVE HandleOK(v, q)'
    <3>1. HandleOK(v, q)
      BY DEF TableInv
    <3>2. /\ wpc'[v] \in {"closing", "drain", "drained"} \cup Over =>
               wpc[v] \in {"closing", "drain", "drained"} \cup Over
          /\ wpc'[v] \in {"absent", "failed", "registered", "drain", "drained"} \cup Over =>
               wpc[v] \in {"absent", "failed", "registered", "drain", "drained"} \cup Over
      BY <1>1, SystemFrame DEF Over
    <3>3. QED BY <2>1, <3>1, <3>2 DEF HandleOK
  <2>3. ASSUME NEW g \in Procs PROVE RefOK(g)'
    <3>1. RefOK(g)
      BY <1>0
    <3>2. appLive' /\ pc[g] = "answer" => appLive
      BY <1>1, SystemFrame DEF QuietOK
    <3>3. QED BY <2>1, <3>1, <3>2 DEF RefOK
  <2>4. QED BY <1>0, <2>1, <2>2, <2>3 DEF TableInv, TablesOK, OwnerOK
<1>2. ASSUME NEW w \in Workers, WorkerMove(w) PROVE TableInv'
  <2>1. TableMove(w) /\ ~misrouted' /\ \A g \in Procs : resp'[g] = "closed" => NewlyClosed(g)
    BY <1>2, WorkerTables
  <2>2. TablesOK'
    BY <1>0, <2>1, TableMoveStep
  <2>3. UNCHANGED <<call, pc, op, ref, appLive>>
    BY <1>2, WorkerFrame
  <2>4. /\ nextHandle' >= nextHandle /\ nextHandle \in Nat /\ nextHandle' \in Nat /\ Pubs \subseteq Nat
        /\ \A p \in Pubs : p <= nextHandle => owners'[p] \in {owners[p], NoRef}
    <3>1. Pubs \subseteq Nat /\ 0 .. HandleSpace - 1 \subseteq Nat
      BY Mode2Assumption DEF Pubs
    <3>2. TypeOK /\ TypeOK'
      BY BaseStep DEF BaseInv
    <3>3. nextHandle \in Nat /\ nextHandle' \in Nat
      BY <3>1, <3>2 DEF TypeOK, TabType
    <3>4. QED BY <2>1, <3>1, <3>3, OwnersShrink
  <2>5. ASSUME NEW g \in Procs PROVE RefOK(g)'
    <3> DEFINE t == call[g].target
    <3>1. RefOK(g) /\ (t = NoPub \/ t \in Pubs) /\ UNCHANGED <<call, pc, op, ref, appLive>>
      BY <1>0, <2>3
    <3>2. t # NoPub => t <= nextHandle' /\ owners'[t] \in {owners[t], NoRef}
      <4>1. ASSUME t # NoPub PROVE t \in Pubs /\ t \in Nat /\ t <= nextHandle
        BY <2>4, <3>1, <4>1 DEF RefOK
      <4> HIDE DEF t
      <4>2. QED BY <2>4, <4>1
    <3>3. pc[g] = "answer" /\ resp'[g] = "closed" => ~appLive \/ (t # NoPub /\ owners[t] = NoRef)
      BY <2>1, <3>1 DEF NewlyClosed, RefOK
    <3>4. QED BY <3>1, <3>2, <3>3 DEF RefOK
  <2>6. QED BY <2>1, <2>2, <2>5 DEF TableInv, TablesOK
<1>3. ASSUME NEW g \in Procs, GoroutineStep(g) PROVE TableInv'
  <2>1. OthersKeep(g) /\ GoroutineMove(g)
    BY <1>3, GoroutineMoves
  <2>2. UNCHANGED <<owners, sessions, nextHandle, vls, misrouted, waiters, interest, wpc, appLive>>
    BY <1>3, GoroutineFrame
  <2>3. TablesOK'
    BY <1>0, <2>2 DEF TablesOK, HandleOK, OwnerOK
  <2>4. ASSUME NEW h \in Procs, h # g PROVE RefOK(h)'
    BY <1>0, <2>1, <2>2, <2>4 DEF OthersKeep, RefOK
  <2>5. RefOK(g)'
    <3>1. /\ RefOK(g) /\ (pc[g] # "answer" => resp[g] = "none")
          /\ (call[g].target = NoPub <=> op[g] = "create")
          /\ pc[g] = "lookup" => op[g] \in {"attempt", "close", "wake", "add"}
          /\ pc[g] = "parked" => op[g] = "add"
          /\ pc[g] = "idle" => ref[g] = NoRef /\ op[g] = "create"
      BY <1>0 DEF QueueOK, BaseInv, CallOK
    <3>2. CASE EndMove(g)
      BY <1>0, <2>2, <3>1, <3>2 DEF EndMove, Ended, Resumed, RefOK
    <3>3. CASE LookupMove(g)
      <4>1. call[g].target \in Pubs
        BY <1>0, <3>1, <3>3 DEF LookupMove
      <4>2. ref'[g][2] # NoRaw
        BY <3>3, <4>1 DEF LookupMove, TableInv, OwnerOK
      <4>3. QED BY <2>2, <3>1, <3>3, <4>2 DEF LookupMove, RefOK
    <3>4. CASE SubmitMove(g) \/ SendMove(g) \/ ParkMove(g) \/ AgainMove(g) \/ CancelMove(g)
      BY <2>2, <3>1, <3>4 DEF SubmitMove, SendMove, ParkMove, AgainMove, CancelMove, Onward, RefOK
    <3>5. CASE CreateMove(g) \/ BeginMove(g)
      BY <1>0, <2>2, <3>1, <3>5 DEF CreateMove, BeginMove, RefOK
    <3>6. CASE StayMove(g)
      BY <2>2, <3>1, <3>6 DEF StayMove, RefOK
    <3>7. QED BY <2>1, <3>2, <3>3, <3>4, <3>5, <3>6 DEF GoroutineMove
  <2>6. QED BY <1>0, <2>2, <2>3, <2>4, <2>5 DEF TableInv, TablesOK
<1>4. QED BY <1>1, <1>2, <1>3, StepCases

LEMMA TableInit == Init => TableInv
<1> SUFFICES ASSUME Init PROVE TableInv
  OBVIOUS
<1>1. \A w \in Workers, p \in Pubs : HandleOK(w, p)
  BY ConstFacts, NoMask DEF Init, HandleOK
<1>2. \A g \in Procs : RefOK(g)
  BY ConstFacts DEF Init, RefOK
<1>3. QED BY <1>1, <1>2 DEF Init, TableInv, OwnerOK
-----------------------------------------------------------------------------
(* What a worker's step does to the wait sets: who joins one has just been *)
(* told so, who leaves one has been woken, and nobody else is woken.       *)
Joined(w, p, g, m) ==
  /\ op[g] = "add" /\ pc[g] = "answer" /\ resp[g] = "none" /\ resp'[g] = "ok" /\ appLive
  /\ call[g].target = p /\ call[g].mask = m /\ ref[g][1] = w

JoinersOnly(w) ==
  \A v \in Workers, p \in Pubs, g \in Procs, m \in Events :
    <<g, m>> \in waiters'[v][p] => <<g, m>> \in waiters[v][p] \/ (v = w /\ Joined(w, p, g, m))

LeaversWoken(w) ==
  \A v \in Workers, p \in Pubs, g \in Procs, m \in Events :
    <<g, m>> \in waiters[v][p] /\ <<g, m>> \notin waiters'[v][p] => v = w /\ ready'[g] # 0

WokenLeft(w) ==
  \A g \in Procs :
    \/ ready'[g] = ready[g]
    \/ /\ ready'[g] # 0
       /\ \E p \in Pubs, m \in Events : <<g, m>> \in waiters[w][p] /\ <<g, m>> \notin waiters'[w][p]

Answered(w, g) ==
  /\ pc[g] = "answer" /\ resp[g] = "none" /\ ref[g][1] = w
  /\ op[g] = "add" /\ resp'[g] = "ok" => Waiter(g) \in waiters'[w][call[g].target]
  /\ appLive /\ op[g] = "cancel" => Waiter(g) \notin waiters'[w][call[g].target]

WaitMove(w) ==
  /\ JoinersOnly(w) /\ LeaversWoken(w) /\ WokenLeft(w)
  /\ \A g \in Procs : resp'[g] = resp[g] \/ Answered(w, g)

LEMMA WakeMove ==
  ASSUME BaseInv, NEW S, wakeWaitSet(S), NEW g \in Procs
  PROVE  /\ (\E x \in S : x[1] = g) => ready'[g] # 0
         /\ ~(\E x \in S : x[1] = g) => ready'[g] = ready[g]
<1>1. ready[g] \in Nat /\ ready'[g] = ready[g] + (IF \E x \in S : x[1] = g THEN 1 ELSE 0)
  BY DEF TypeOK, BaseInv, WaitType, wakeWaitSet
<1>2. QED BY <1>1

LEMMA Members ==
  ASSUME BaseInv, NEW v \in Workers, NEW p \in Pubs
  PROVE  waiters[v][p] \subseteq Procs \X Events
BY DEF TypeOK, BaseInv, WaitType

LEMMA RemovedMove ==
  ASSUME BaseInv, NEW w \in Workers, NEW p \in Pubs, NEW G \in SUBSET waiters[w][p], NEW intr,
         SetTo(w, p, waiters[w][p] \ G, intr), wakeWaitSet(G)
  PROVE  JoinersOnly(w) /\ LeaversWoken(w) /\ WokenLeft(w)
<1>1. /\ waiters'[w][p] = waiters[w][p] \ G
      /\ \A v \in Workers, q \in Pubs : v # w \/ q # p => waiters'[v][q] = waiters[v][q]
  BY SetMove
<1>2. JoinersOnly(w)
  BY <1>1 DEF JoinersOnly
<1>3. LeaversWoken(w)
  <2> SUFFICES ASSUME NEW v \in Workers, NEW q \in Pubs, NEW g \in Procs, NEW m \in Events,
                      <<g, m>> \in waiters[v][q], <<g, m>> \notin waiters'[v][q]
               PROVE  v = w /\ ready'[g] # 0
    BY DEF LeaversWoken
  <2>1. v = w /\ q = p /\ <<g, m>> \in G
    BY <1>1
  <2>2. \E x \in G : x[1] = g
    BY <2>1
  <2>3. QED BY <2>1, <2>2, WakeMove
<1>4. WokenLeft(w)
  <2> SUFFICES ASSUME NEW g \in Procs, ready'[g] # ready[g]
               PROVE  /\ ready'[g] # 0
                      /\ \E q \in Pubs, m \in Events :
                           <<g, m>> \in waiters[w][q] /\ <<g, m>> \notin waiters'[w][q]
    BY DEF WokenLeft
  <2>1. PICK x \in G : x[1] = g
    BY WakeMove
  <2>2. x \in Procs \X Events
    BY Members
  <2>3. x = <<g, x[2]>> /\ x[2] \in Events
    BY <2>1, <2>2
  <2>4. QED BY <1>1, <2>1, <2>3, WakeMove
<1>5. QED BY <1>2, <1>3, <1>4

LEMMA RemoveWait ==
  ASSUME BaseInv, NEW w \in Workers, NEW p \in Pubs, removeWaiters(w, p)
  PROVE  /\ JoinersOnly(w) /\ LeaversWoken(w) /\ WokenLeft(w)
         /\ waiters'[w][p] = {}
<1>1. SetTo(w, p, waiters[w][p] \ waiters[w][p], {}) /\ wakeWaitSet(waiters[w][p])
  <2>1. waiters[w][p] \ waiters[w][p] = {}
    OBVIOUS
  <2>2. QED BY <2>1 DEF removeWaiters
<1>2. waiters'[w][p] = {}
  BY SetMove DEF removeWaiters
<1>3. QED BY <1>1, <1>2, RemovedMove

LEMMA ShrinkWait ==
  ASSUME BaseInv, NEW w \in Workers, NEW p \in Pubs, NEW raw, NEW gone \in SUBSET waiters[w][p],
         Shrink(w, p, raw, gone)
  PROVE  /\ JoinersOnly(w) /\ LeaversWoken(w) /\ WokenLeft(w)
         /\ waiters'[w][p] \intersect gone = {}
<1>1. ASSUME NEW intr, SetTo(w, p, waiters[w][p] \ gone, intr), wakeWaitSet(gone)
      PROVE  /\ JoinersOnly(w) /\ LeaversWoken(w) /\ WokenLeft(w)
             /\ waiters'[w][p] \intersect gone = {}
  <2>1. waiters'[w][p] = waiters[w][p] \ gone
    BY <1>1, SetMove
  <2>2. QED BY <1>1, <2>1, RemovedMove
<1>2. CASE removeWaiters(w, p)
  BY <1>2, RemoveWait
<1>3. QED BY <1>1, <1>2, Zenon DEF Shrink

LEMMA SameWait ==
  ASSUME NEW w, UNCHANGED <<waiters, ready>>
  PROVE  JoinersOnly(w) /\ LeaversWoken(w) /\ WokenLeft(w)
BY DEF JoinersOnly, LeaversWoken, WokenLeft

LEMMA OpWaits ==
  ASSUME BaseInv, NEW w \in Workers, NEW g \in Procs, RunOp(w, g), appLive,
         pc[g] = "answer", resp[g] = "none", ref[g][1] = w
  PROVE  /\ JoinersOnly(w) /\ LeaversWoken(w) /\ WokenLeft(w)
         /\ op[g] = "add" /\ resp'[g] = "ok" => Waiter(g) \in waiters'[w][call[g].target]
         /\ op[g] = "cancel" => Waiter(g) \notin waiters'[w][call[g].target]
<1>0. /\ resp = [h \in Procs |-> resp[h]]
      /\ op[g] # "create" => call[g].target \in Pubs
  <2>1. resp = [h \in Procs |-> resp[h]] /\ call[g].target \in Pubs \cup {NoPub}
    BY DEF TypeOK, BaseInv, CallType, RespType
  <2>2. QED BY <2>1, ConstFacts DEF BaseInv, CallOK
<1>1. CASE op[g] = "create" /\ OpCreate(w, g)
  BY <1>1, SameWait DEF OpCreate, waitVars
<1>2. CASE op[g] = "attempt" /\ OpAttempt(w, g)
  BY <1>2, SameWait DEF OpAttempt, waitVars
<1>3. CASE op[g] = "close" /\ OpClose(w, g)
  BY <1>0, <1>3, SameWait, RemoveWait DEF OpClose, waitVars
<1>4. CASE op[g] = "wake" /\ OpWake(w, g)
  BY <1>0, <1>4, RemoveWait DEF OpWake
<1>5. CASE op[g] = "add" /\ OpAdd(w, g)
  <2>1. PICK p \in Pubs : p = call[g].target
    BY <1>0, <1>5
  <2>2. UNCHANGED ready
    BY <1>5 DEF OpAdd
  <2>3. CASE UNCHANGED waiters /\ (Reply(g, "closed") \/ Reply(g, "error"))
    <3>1. resp'[g] # "ok"
      BY <1>0, <2>3 DEF Reply
    <3>2. QED BY <1>5, <2>2, <2>3, <3>1, SameWait
  <2>4. ASSUME NEW intr, SetTo(w, p, waiters[w][p] \cup {Waiter(g)}, intr), Reply(g, "ok")
        PROVE  /\ JoinersOnly(w) /\ LeaversWoken(w) /\ WokenLeft(w)
               /\ Waiter(g) \in waiters'[w][p]
    <3>1. /\ waiters'[w][p] = waiters[w][p] \cup {Waiter(g)}
          /\ \A v \in Workers, q \in Pubs : v # w \/ q # p => waiters'[v][q] = waiters[v][q]
      BY <2>4, SetMove
    <3>2. resp'[g] = "ok"
      BY <1>0, <2>4 DEF Reply
    <3>3. JoinersOnly(w)
      BY <1>5, <2>1, <3>1, <3>2 DEF JoinersOnly, Joined, Waiter
    <3>4. LeaversWoken(w) /\ WokenLeft(w)
      BY <2>2, <3>1 DEF LeaversWoken, WokenLeft
    <3>5. QED BY <3>1, <3>3, <3>4
  <2>5. \/ UNCHANGED waiters /\ (Reply(g, "closed") \/ Reply(g, "error"))
        \/ \E intr : SetTo(w, p, waiters[w][p] \cup {Waiter(g)}, intr) /\ Reply(g, "ok")
    BY <1>5, <2>1, Zenon DEF OpAdd
  <2>6. QED BY <1>5, <2>1, <2>3, <2>4, <2>5
<1>6. CASE op[g] = "cancel" /\ OpCancel(w, g)
  <2>1. CASE Waiter(g) \in waiters[w][call[g].target]
             /\ Shrink(w, call[g].target, ref[g][2], {Waiter(g)})
    <3>1. PICK p \in Pubs : p = call[g].target
      BY <1>0, <1>6
    <3>2. {Waiter(g)} \in SUBSET waiters[w][p] /\ Shrink(w, p, ref[g][2], {Waiter(g)})
      BY <2>1, <3>1
    <3>3. /\ JoinersOnly(w) /\ LeaversWoken(w) /\ WokenLeft(w)
          /\ waiters'[w][p] \intersect {Waiter(g)} = {}
      BY <3>2, ShrinkWait
    <3>4. QED BY <1>6, <3>1, <3>3
  <2>2. CASE Waiter(g) \notin waiters[w][call[g].target] /\ UNCHANGED waitVars
    BY <1>6, <2>2, SameWait DEF waitVars
  <2>3. QED BY <1>6, <2>1, <2>2 DEF OpCancel
<1>7. QED BY <1>1, <1>2, <1>3, <1>4, <1>5, <1>6 DEF RunOp

LEMMA WorkerWaits ==
  ASSUME BaseInv, AppOK, QueueOK, TableInv, NEW w \in Workers, WorkerMove(w)
  PROVE  WaitMove(w)
<1>0. resp = [h \in Procs |-> resp[h]]
  BY DEF TypeOK, BaseInv, RespType
<1>1. ASSUME Took(w), NEW g \in Procs, g = Head(opCh[w])
      PROVE  pc[g] = "answer" /\ ref[g][1] = w /\ resp[g] = "none"
  <2>1. ~quiesced[w]
    BY <1>1 DEF Took, AppOK, Over
  <2>2. 1 \in DOMAIN opCh[w] /\ g = opCh[w][1]
    BY <1>1, TookQueue
  <2>3. QueuedOK(w, 1)
    BY <2>1, <2>2 DEF QueueOK
  <2>4. QED BY <2>2, <2>3 DEF QueuedOK
<1>2. CASE MovedOn(w)
  BY <1>2, SameWait DEF MovedOn, waitVars, WaitMove
<1>3. CASE Refused(w)
  <2>1. PICK g \in Procs : g = Head(opCh[w])
    BY <1>3, TookQueue DEF Refused
  <2>2. ~appLive /\ UNCHANGED <<waiters, ready>> /\ Reply(g, "closed")
    BY <1>3, <2>1 DEF Refused, Took, AppOK, Running, waitVars
  <2>3. resp'[g] = "closed" /\ \A h \in Procs : h # g => resp'[h] = resp[h]
    BY <1>0, <2>2 DEF Reply
  <2>4. Answered(w, g)
    BY <1>1, <1>3, <2>1, <2>2, <2>3 DEF Refused, Answered
  <2>5. QED BY <2>2, <2>3, <2>4, SameWait DEF WaitMove
<1>4. CASE Ran(w)
  <2>1. PICK g \in Procs : g = Head(opCh[w])
    BY <1>4, TookQueue DEF Ran
  <2>2. RunOp(w, g) /\ appLive /\ pc[g] = "answer" /\ ref[g][1] = w /\ resp[g] = "none"
    BY <1>1, <1>4, <2>1 DEF Ran
  <2>3. PICK r \in Answers : Reply(g, r)
    BY <2>2, OpReplies
  <2>4. \A h \in Procs : h # g => resp'[h] = resp[h]
    BY <1>0, <2>3 DEF Reply
  <2>5. /\ JoinersOnly(w) /\ LeaversWoken(w) /\ WokenLeft(w)
        /\ op[g] = "add" /\ resp'[g] = "ok" => Waiter(g) \in waiters'[w][call[g].target]
        /\ op[g] = "cancel" => Waiter(g) \notin waiters'[w][call[g].target]
    BY <2>2, OpWaits
  <2>6. Answered(w, g)
    BY <2>2, <2>5 DEF Answered
  <2>7. QED BY <2>4, <2>5, <2>6 DEF WaitMove
<1>5. ASSUME NEW p \in Pubs, NEW evs \in SUBSET Events, NEW t \in BOOLEAN, handleEvent(w, p, evs, t)
      PROVE  WaitMove(w)
  <2> DEFINE gone == {x \in waiters[w][p] : t \/ x[2] \in evs}
  <2>1. waiters[w][p] # {} /\ UNCHANGED resp
    BY <1>5, Zenon DEF handleEvent
  <2>2. sessions[w][p] # NoRaw
    BY <2>1 DEF TableInv, HandleOK
  <2>3. Shrink(w, p, sessions[w][p], gone)
    BY <1>5, <2>2, Zenon DEF handleEvent
  <2>4. gone \in SUBSET waiters[w][p]
    OBVIOUS
  <2> HIDE DEF gone
  <2>5. QED BY <2>1, <2>3, <2>4, ShrinkWait DEF WaitMove
<1>6. CASE wakeAllWaiters(w)
  <2> DEFINE S == UNION {waiters[w][p] : p \in Pubs}
  <2>1. waiters = [v \in Workers |-> waiters[v]]
    BY DEF BaseInv, TypeOK, WaitType
  <2>2. /\ \A p \in Pubs : waiters'[w][p] = {}
        /\ \A v \in Workers, p \in Pubs : v # w => waiters'[v][p] = waiters[v][p]
        /\ wakeWaitSet(S) /\ UNCHANGED resp
    BY <1>6, <2>1 DEF wakeAllWaiters
  <2>3. JoinersOnly(w)
    BY <2>2 DEF JoinersOnly
  <2>4. LeaversWoken(w)
    <3> SUFFICES ASSUME NEW v \in Workers, NEW q \in Pubs, NEW g \in Procs, NEW m \in Events,
                        <<g, m>> \in waiters[v][q], <<g, m>> \notin waiters'[v][q]
                 PROVE  v = w /\ ready'[g] # 0
      BY DEF LeaversWoken
    <3>1. v = w
      BY <2>2
    <3>2. <<g, m>> \in S
      BY <3>1
    <3> HIDE DEF S
    <3>3. \E x \in S : x[1] = g
      BY <3>2
    <3>4. QED BY <2>2, <3>1, <3>3, WakeMove
  <2>5. WokenLeft(w)
    <3> SUFFICES ASSUME NEW g \in Procs, ready'[g] # ready[g]
                 PROVE  /\ ready'[g] # 0
                        /\ \E q \in Pubs, m \in Events :
                             <<g, m>> \in waiters[w][q] /\ <<g, m>> \notin waiters'[w][q]
      BY DEF WokenLeft
    <3>1. (\E x \in S : x[1] = g) /\ ready'[g] # 0
      <4> HIDE DEF S
      <4>1. QED BY <2>2, WakeMove
    <3>2. PICK x \in S : x[1] = g
      BY <3>1
    <3>3. PICK q \in Pubs : x \in waiters[w][q]
      BY <3>2
    <3>4. x \in Procs \X Events
      BY <3>3, Members
    <3>5. x = <<g, x[2]>> /\ x[2] \in Events
      BY <3>2, <3>4
    <3>6. QED BY <2>2, <3>1, <3>3, <3>5
  <2>6. QED BY <2>2, <2>3, <2>4, <2>5 DEF WaitMove
<1>7. ASSUME NEW p \in Pubs, ClosedOne(w, p) PROVE WaitMove(w)
  BY <1>7, SameWait DEF ClosedOne, waitVars, WaitMove
<1>8. CASE EventSeen(w)
  BY <1>5, <1>8, Zenon DEF EventSeen
<1>9. QED BY <1>2, <1>3, <1>4, <1>6, <1>7, <1>8, WorkerCases, Zenon DEF WorkerActs

(* WaitInv is inductive. *)
LEMMA WaitStep ==
  BaseInv /\ AppOK /\ QueueOK /\ QuietOK /\ TableInv /\ WaitInv /\ [Next]_vars => WaitInv'
<1> SUFFICES ASSUME BaseInv, AppOK, QueueOK, QuietOK, TableInv, WaitInv, [Next]_vars PROVE WaitInv'
  OBVIOUS
<1>0. ASSUME NEW g \in Procs
      PROVE  ref[g][1] \in Workers /\ call[g].target \in Pubs \cup {NoPub} /\ call[g].mask \in Events
  BY DEF TypeOK, BaseInv, CallType
<1>m. ASSUME NEW w \in Workers, NEW p \in Pubs, NEW g \in Procs, NEW m \in Events,
             <<g, m>> \in waiters[w][p]
      PROVE  /\ ready[g] = 0
             /\ \A v \in Workers, q \in Pubs, n \in Events :
                  <<g, n>> \in waiters[v][q] => v = w /\ q = p /\ n = m
             /\ appLive => /\ call[g].target = p /\ call[g].mask = m /\ ref[g][1] = w
                           /\ Awaiting(g)
  BY <1>m DEF WaitInv, MemberOK
<1>r. ASSUME NEW g \in Procs PROVE ReadyOK(g)
  BY DEF WaitInv
<1>1. CASE SystemStep
  <2>1. UNCHANGED <<call, pc, op, ref, waiters, ready, quiesced, resp>>
        /\ (appLive' => appLive \/ ipc # "live")
    BY <1>1, SystemFrame
  <2>2. ASSUME NEW w \in Workers, NEW p \in Pubs, NEW g \in Procs, NEW m \in Events
        PROVE  MemberOK(w, p, g, m)'
    <3>1. <<g, m>> \in waiters[w][p] => (appLive' => appLive)
      BY <2>1 DEF QuietOK
    <3>2. QED BY <1>m, <2>1, <3>1 DEF MemberOK, Awaiting
  <2>3. ASSUME NEW g \in Procs PROVE ReadyOK(g)'
    <3>1. appLive' /\ ready[g] # 0 => appLive
      BY <2>1 DEF QuietOK
    <3>2. QED BY <1>r, <2>1, <3>1 DEF ReadyOK, Awaiting, Waiter
  <2>4. QED BY <2>2, <2>3 DEF WaitInv
<1>2. ASSUME NEW w \in Workers, WorkerMove(w) PROVE WaitInv'
  <2>1. WaitMove(w) /\ UNCHANGED <<call, pc, op, ref, appLive>>
    BY <1>2, WorkerWaits, WorkerFrame
  <2>2. \A v \in Workers : ~quiesced'[v] => ~quiesced[v]
    <3>1. quiesced'[w] \/ quiesced' = quiesced
      <4>1. quiesced \in [Workers -> BOOLEAN]
        BY DEF BaseInv, TypeOK, WorkerType
      <4>2. CASE quiesced' = [quiesced EXCEPT ![w] = TRUE]
        BY <4>1, <4>2, Zenon
      <4>3. QED BY <1>2, <4>2, WorkerFrame
    <3>2. QED BY <1>2, <3>1, WorkerFrame
  <2>3. ASSUME NEW v \in Workers, NEW p \in Pubs, NEW g \in Procs, NEW m \in Events,
               <<g, m>> \in waiters'[v][p], Joined(w, p, g, m)
        PROVE  /\ ready[g] = 0
               /\ \A u \in Workers, q \in Pubs, n \in Events : <<g, n>> \notin waiters[u][q]
    <3>1. ~Awaiting(g) /\ op[g] # "cancel" /\ appLive
      BY <2>3 DEF Joined, Awaiting
    <3>2. QED BY <1>m, <1>r, <3>1 DEF ReadyOK
  <2>4. ASSUME NEW v \in Workers, NEW p \in Pubs, NEW g \in Procs, NEW m \in Events
        PROVE  MemberOK(v, p, g, m)'
    <3> SUFFICES ASSUME <<g, m>> \in waiters'[v][p]
                 PROVE  /\ ready'[g] = 0
                        /\ \A u \in Workers, q \in Pubs, n \in Events :
                             <<g, n>> \in waiters'[u][q] => u = v /\ q = p /\ n = m
                        /\ appLive => /\ call[g].target = p /\ call[g].mask = m /\ ref[g][1] = v
                                      /\ Awaiting(g)'
      BY <2>1 DEF MemberOK
    <3>1. CASE v = w /\ Joined(w, p, g, m)
      <4>1. /\ ready[g] = 0
            /\ \A u \in Workers, q \in Pubs, n \in Events : <<g, n>> \notin waiters[u][q]
        BY <2>3, <3>1
      <4>2. ready'[g] = 0
        BY <2>1, <4>1 DEF WaitMove, WokenLeft
      <4>3. \A u \in Workers, q \in Pubs, n \in Events :
              <<g, n>> \in waiters'[u][q] => u = w /\ q = p /\ n = m
        BY <2>1, <3>1, <4>1 DEF WaitMove, JoinersOnly, Joined
      <4>4. Awaiting(g)'
        BY <2>1, <3>1 DEF Joined, Awaiting
      <4>5. QED BY <3>1, <4>2, <4>3, <4>4 DEF Joined
    <3>2. CASE <<g, m>> \in waiters[v][p]
      <4>1. /\ ready[g] = 0
            /\ \A u \in Workers, q \in Pubs, n \in Events :
                 <<g, n>> \in waiters[u][q] => u = v /\ q = p /\ n = m
            /\ appLive => /\ call[g].target = p /\ call[g].mask = m /\ ref[g][1] = v
                          /\ Awaiting(g)
        BY <1>m, <3>2
      <4>2. ready'[g] = 0
        BY <2>1, <4>1 DEF WaitMove, WokenLeft
      <4>3. ASSUME NEW u \in Workers, NEW q \in Pubs, NEW n \in Events, <<g, n>> \in waiters'[u][q]
            PROVE  u = v /\ q = p /\ n = m
        <5>1. ~Joined(w, q, g, n)
          BY <2>3, <3>2, <4>3
        <5>2. <<g, n>> \in waiters[u][q]
          BY <2>1, <4>3, <5>1 DEF WaitMove, JoinersOnly
        <5>3. QED BY <4>1, <5>2
      <4>4. ASSUME appLive PROVE Awaiting(g)'
        <5>1. CASE resp'[g] = resp[g]
          BY <2>1, <4>1, <4>4, <5>1 DEF Awaiting
        <5>2. CASE Answered(w, g)
          <6>1. op[g] = "cancel"
            BY <4>1, <4>4, <5>2 DEF Answered, Awaiting
          <6>2. QED BY <4>1, <4>4, <5>2, <6>1 DEF Answered, Waiter
        <5>3. QED BY <2>1, <5>1, <5>2 DEF WaitMove
      <4>5. QED BY <4>1, <4>2, <4>3, <4>4
    <3>3. QED BY <2>1, <3>1, <3>2 DEF WaitMove, JoinersOnly
  <2>5. ASSUME NEW g \in Procs PROVE ReadyOK(g)'
    <3>0. ReadyOK(g) /\ ref[g][1] \in Workers /\ (resp'[g] = resp[g] \/ Answered(w, g))
          /\ UNCHANGED <<call, pc, op, ref, appLive>>
      BY <1>0, <1>r, <2>1 DEF WaitMove
    <3>1. ASSUME ready'[g] = 0, ~quiesced'[ref[g][1]],
                 pc[g] = "parked" \/ (pc[g] = "answer" /\ op[g] = "add" /\ resp'[g] = "ok")
          PROVE  Waiter(g) \in waiters'[ref[g][1]][call[g].target]
      <4>1. CASE resp'[g] = resp[g]
        <5>1. ready[g] = 0
          BY <2>1, <3>1 DEF WaitMove, WokenLeft
        <5>2. ~quiesced[ref[g][1]]
          BY <2>2, <3>0, <3>1
        <5>3. Waiter(g) \in waiters[ref[g][1]][call[g].target]
          BY <3>0, <3>1, <4>1, <5>1, <5>2 DEF ReadyOK
        <5>4. call[g].target \in Pubs
          <6>1. op[g] = "add"
            BY <3>1 DEF BaseInv, CallOK
          <6>2. QED BY <1>0, <6>1 DEF BaseInv, CallOK
        <5>5. QED BY <1>0, <2>1, <3>0, <3>1, <5>3, <5>4 DEF WaitMove, LeaversWoken, Waiter
      <4>2. CASE Answered(w, g)
        BY <3>1, <4>2 DEF Answered
      <4>3. QED BY <3>0, <4>1, <4>2
    <3>2. ASSUME appLive, ready'[g] # 0 PROVE Awaiting(g)' \/ op[g] = "cancel"
      <4>1. Awaiting(g) \/ op[g] = "cancel"
        <5>1. CASE ready'[g] = ready[g]
          BY <3>0, <3>2, <5>1 DEF ReadyOK
        <5>2. CASE \E p \in Pubs, m \in Events : <<g, m>> \in waiters[w][p]
          BY <1>m, <3>2, <5>2
        <5>3. QED BY <2>1, <5>1, <5>2 DEF WaitMove, WokenLeft
      <4>2. QED BY <3>0, <4>1 DEF Awaiting, Answered
    <3>3. QED BY <3>0, <3>1, <3>2 DEF ReadyOK, Waiter
  <2>6. QED BY <2>4, <2>5 DEF WaitInv
<1>3. ASSUME NEW g \in Procs, GoroutineStep(g) PROVE WaitInv'
  <2>1. OthersKeep(g) /\ GoroutineMove(g) /\ UNCHANGED <<waiters, quiesced, appLive>>
    BY <1>3, GoroutineMoves, GoroutineFrame
  <2>2. ASSUME NEW h \in Procs, h # g
        PROVE  /\ \A w \in Workers, p \in Pubs, m \in Events : MemberOK(w, p, h, m)'
               /\ ReadyOK(h)'
    <3>1. UNCHANGED <<call[h], pc[h], op[h], ref[h], resp[h], ready[h]>>
      BY <2>1, <2>2 DEF OthersKeep
    <3>2. \A w \in Workers, p \in Pubs, m \in Events : MemberOK(w, p, h, m)'
      BY <1>m, <2>1, <3>1 DEF MemberOK, Awaiting
    <3>3. ReadyOK(h)'
      BY <1>r, <2>1, <3>1 DEF ReadyOK, Awaiting, Waiter
    <3>4. QED BY <3>2, <3>3
  <2>3. /\ pc[g] # "answer" => resp[g] = "none"
        /\ pc[g] = "lookup" => op[g] \in {"attempt", "close", "wake", "add"}
        /\ pc[g] = "parked" => op[g] = "add"
        /\ pc[g] = "idle" => op[g] = "create"
        /\ appLive => ~stopping /\ ~quiesced[ref[g][1]]
    <3>1. appLive => ~stopping /\ ~quiesced[ref[g][1]]
      BY <1>0 DEF AppOK, Running, Over
    <3>2. QED BY <3>1 DEF QueueOK, BaseInv, CallOK
  <2>4. ready'[g] \in {0, ready[g]}
    BY <2>1
       DEF GoroutineMove, EndMove, Ended, Resumed, LookupMove, SubmitMove, SendMove, ParkMove,
           AgainMove, CancelMove, CreateMove, BeginMove, StayMove, Onward
  <2>5. ASSUME Awaiting(g), ready[g] = 0, appLive
        PROVE  Awaiting(g)' /\ UNCHANGED <<call[g], ref[g]>>
    <3>1. ~EndMove(g)
      BY <2>3, <2>5 DEF EndMove, EndReason, Awaiting
    <3>2. QED
      BY <2>1, <2>3, <2>5, <3>1
         DEF GoroutineMove, LookupMove, SubmitMove, SendMove, ParkMove, AgainMove, CancelMove,
             CreateMove, BeginMove, StayMove, Onward, Awaiting
  <2>6. ASSUME NEW w \in Workers, NEW p \in Pubs, NEW m \in Events PROVE MemberOK(w, p, g, m)'
    <3> SUFFICES ASSUME <<g, m>> \in waiters[w][p]
                 PROVE  /\ ready'[g] = 0
                        /\ \A v \in Workers, q \in Pubs, n \in Events :
                             <<g, n>> \in waiters[v][q] => v = w /\ q = p /\ n = m
                        /\ appLive => /\ call'[g].target = p /\ call'[g].mask = m /\ ref'[g][1] = w
                                      /\ Awaiting(g)'
      BY <2>1 DEF MemberOK
    <3>1. QED BY <1>m, <2>4, <2>5
  <2>7. ReadyOK(g)'
    <3>1. ASSUME ready'[g] = 0, ~quiesced[ref'[g][1]],
                 pc'[g] = "parked" \/ (pc'[g] = "answer" /\ op'[g] = "add" /\ resp'[g] = "ok")
          PROVE  Waiter(g)' \in waiters[ref'[g][1]][call'[g].target]
      <4>1. /\ UNCHANGED <<call[g], ref[g], ready[g]>>
            /\ pc[g] = "parked" \/ (pc[g] = "answer" /\ op[g] = "add" /\ resp[g] = "ok")
        BY <2>1, <2>3, <3>1
           DEF GoroutineMove, EndMove, Ended, Resumed, LookupMove, SubmitMove, SendMove, ParkMove,
               AgainMove, CancelMove, CreateMove, BeginMove, StayMove, Onward
      <4>2. QED BY <1>r, <3>1, <4>1 DEF ReadyOK, Waiter
    <3>2. ASSUME appLive, ready'[g] # 0 PROVE Awaiting(g)' \/ op'[g] = "cancel"
      <4>1. ready'[g] = ready[g] /\ (Awaiting(g) \/ op[g] = "cancel")
        BY <1>r, <2>4, <3>2 DEF ReadyOK
      <4>2. QED
        BY <2>1, <2>3, <3>2, <4>1
           DEF GoroutineMove, EndMove, Ended, Resumed, LookupMove, SubmitMove, SendMove, ParkMove,
               AgainMove, CancelMove, CreateMove, BeginMove, StayMove, Onward, Awaiting
    <3>3. QED BY <2>1, <3>1, <3>2 DEF ReadyOK
  <2>8. QED BY <2>2, <2>6, <2>7 DEF WaitInv
<1>4. QED BY <1>1, <1>2, <1>3, StepCases

LEMMA WaitInit == Init => WaitInv
BY DEF Init, WaitInv, MemberOK, ReadyOK
-----------------------------------------------------------------------------
Inv == BaseInv /\ AppOK /\ QueueOK /\ QuietOK /\ TableInv /\ WaitInv

(* The invariant of the dispatcher: it is inductive as long as the 32-bit  *)
(* handle counter has not wrapped around.                                  *)
THEOREM DispatcherInvariant == Spec /\ []NoWrap => []Inv
<1>1. Init => Inv
  BY BaseInit, AppInit, QueueInit, QuietInit, TableInit, WaitInit DEF Inv
<1>2. Inv /\ NoWrap /\ [Next]_vars => Inv'
  BY BaseStep, AppStep, QueueStep, QuietStep, TableStep, WaitStep DEF Inv
<1>3. QED BY <1>1, <1>2, PTL DEF Spec

(* The dispatcher's owner map, the workers' session tables and wait sets,  *)
(* and VLS agree at every step.                                            *)
THEOREM TablesAgreeHolds == Spec /\ []NoWrap => []TablesAgree
<1>1. Inv => TablesAgree
  BY DEF Inv, BaseInv, TableInv, HandleOK, TablesAgree
<1>2. QED BY <1>1, DispatcherInvariant, PTL

(* No raw VLS call reaches a session it was not meant for, however stale   *)
(* the owner its caller looked up and however soon raw handles are reused. *)
THEOREM RawCallsHitTheirSessionHolds == Spec /\ []NoWrap => []RawCallsHitTheirSession
<1>1. Inv => RawCallsHitTheirSession
  BY DEF Inv, TableInv, RawCallsHitTheirSession
<1>2. QED BY <1>1, DispatcherInvariant, PTL

(* No operation is lost between submit and the worker, and the wait sets   *)
(* hold exactly the goroutines that wait.                                  *)
THEOREM NobodyStrandedHolds == Spec /\ []NoWrap => []NobodyStranded
<1>1. ASSUME Inv PROVE NobodyStranded
  <2>0. ASSUME NEW g \in Procs PROVE ref[g][1] \in Workers
    BY <1>1 DEF TypeOK, Inv, BaseInv, CallType
  <2>1. ASSUME NEW g \in Procs, pc[g] \in {"send", "answer"}, resp[g] = "none", ~quiesced[ref[g][1]]
        PROVE  /\ wpc[ref[g][1]] \notin {"absent", "failed", "unregister", "exited", "parked",
                                         "destroyed"}
               /\ pc[g] = "answer" => \E i \in DOMAIN opCh[ref[g][1]] : opCh[ref[g][1]][i] = g
    <3>1. wpc[ref[g][1]] \notin {"absent", "failed"} \cup Over
      BY <1>1, <2>0, <2>1 DEF Inv, QueueOK, SentOK, AppOK
    <3>2. PendingOK(g)
      BY <1>1 DEF Inv, QueueOK
    <3>3. QED BY <2>1, <3>1, <3>2 DEF PendingOK, Over
  <2>2. ASSUME NEW g \in Procs, pc[g] = "parked", ready[g] = 0, ~quiesced[ref[g][1]]
        PROVE  Waiter(g) \in waiters[ref[g][1]][call[g].target]
    BY <1>1, <2>2 DEF Inv, WaitInv, ReadyOK
  <2>3. ASSUME NEW w \in Workers, NEW p \in Pubs, NEW g \in Procs, NEW m \in Events,
               <<g, m>> \in waiters[w][p]
        PROVE  /\ ready[g] = 0
               /\ appLive => /\ call[g].target = p /\ call[g].mask = m /\ ref[g][1] = w
                             /\ op[g] \in {"add", "cancel"}
                             /\ pc[g] \in {"submit", "send", "answer", "parked"}
    BY <1>1, <2>3 DEF Inv, WaitInv, MemberOK, Awaiting
  <2>4. QED BY <2>1, <2>2, <2>3 DEF NobodyStranded
<1>2. QED BY <1>1, DispatcherInvariant, PTL

(* When the application is destroyed every other worker has unregistered   *)
(* and no session is left anywhere.                                        *)
THEOREM DestroyedLastHolds == Spec /\ []NoWrap => []DestroyedLast
<1>1. ASSUME Inv, wpc[0] = "destroyed" PROVE DestroyedLast
  <2>1. /\ \A w \in workers : quiesced[w] /\ (w # 0 => wpc[w] = "exited")
        /\ workers \subseteq Workers
    BY <1>1 DEF Inv, AppOK, BaseInv, TypeOK, DispType
  <2>2. ASSUME NEW w \in Workers PROVE wpc[w] \in {"absent", "failed"} \cup Over
    BY <1>1, <2>1 DEF Inv, AppOK
  <2>3. ASSUME NEW w \in Workers, NEW p \in Pubs PROVE sessions[w][p] = NoRaw
    BY <1>1, <2>2 DEF Inv, TableInv, HandleOK
  <2>4. ASSUME NEW w \in Workers, NEW r \in Raws PROVE vls[w][r] = NoPub
    <3>1. vls[w][r] \in Pubs \cup {NoPub} /\ NoRaw \notin Raws
      BY <1>1, ConstFacts DEF TypeOK, Inv, BaseInv, TabType
    <3>2. vls[w][r] # NoPub => sessions[w][vls[w][r]] = r
      BY <1>1 DEF Inv, TableInv
    <3>3. QED BY <2>3, <3>1, <3>2
  <2>5. ASSUME NEW p \in Pubs PROVE owners[p] = NoRef
    <3>1. owners[p] \in Workers \X (Raws \cup {NoRaw})
      BY <1>1 DEF TypeOK, Inv, BaseInv, TabType
    <3>2. owners[p][1] \in Workers
      BY <3>1
    <3>3. HandleOK(owners[p][1], p) /\ OwnerOK(p)
      BY <1>1, <3>2 DEF Inv, TableInv
    <3>4. owners[p][2] = NoRaw
      BY <2>3, <3>2, <3>3 DEF HandleOK
    <3>5. QED BY <3>3, <3>4 DEF OwnerOK
  <2>6. QED BY <2>1, <2>4, <2>5 DEF DestroyedLast
<1>2. Inv => DestroyedLast
  BY <1>1 DEF DestroyedLast
<1>3. QED BY <1>2, DispatcherInvariant, PTL

(* The ways in which a call comes to return ErrClosed. *)
LEMMA ClosedReturns ==
  ASSUME BaseInv, NEW g \in Procs, GoroutineStep(g), pc[g] # "idle", pc'[g] = "idle",
         result'[g] = "closed"
  PROVE  \/ pc[g] = "lookup" /\ owners[call[g].target] = NoRef
         \/ stopping \/ ~appLive
         \/ quiesced[ref[g][1]]
         \/ pc[g] = "answer" /\ resp[g] = "closed"
         \/ pc[g] = "interrupted" /\ owners[call[g].target] = NoRef
<1>0. result = [h \in Procs |-> result[h]] /\ pc = [h \in Procs |-> pc[h]]
  BY DEF TypeOK, BaseInv, CallType
<1>1. ASSUME NEW r, Return(g, r) PROVE r = "closed"
  BY <1>0, <1>1 DEF Return
<1>2. ASSUME NEW b, WaitOver(g, b) PROVE FALSE
  <2>1. ~Return(g, IF b THEN "true" ELSE "false")
    BY <1>1
  <2>2. ~Goto(g, IF b THEN "lookup" ELSE "interrupted")
    BY <1>0 DEF Goto
  <2>3. QED BY <1>2, <2>1, <2>2 DEF WaitOver
<1>3. CASE BeginCreate(g) \/ \E k \in CallKinds, p \in Pubs, m \in Events : Begin(g, k, p, m)
  BY <1>3 DEF BeginCreate, Begin
<1>4. CASE Send(g) \/ CloseDone(g)
  BY <1>0, <1>4 DEF Send, CloseDone, Goto
<1>5. CASE Lookup(g)
  BY <1>0, <1>2, <1>5 DEF Lookup, Goto
<1>6. CASE Submit(g)
  BY <1>0, <1>6 DEF Submit, Goto
<1>7. CASE Quiesced(g)
  BY <1>7 DEF Quiesced
<1>8. CASE Answer(g)
  BY <1>0, <1>1, <1>2, <1>8 DEF Answer, Goto
<1>9. CASE Parked(g)
  BY <1>0, <1>2, <1>9 DEF Parked, Goto
<1>10. CASE waitInterruptedError(g)
  <2>1. CASE ~done[g] /\ (owners[call[g].target] = NoRef \/ stopping)
    BY <1>10, <2>1 DEF waitInterruptedError
  <2>2. CASE ~(~done[g] /\ (owners[call[g].target] = NoRef \/ stopping))
    <3>1. Return(g, "canceled")
      BY <1>10, <2>2 DEF waitInterruptedError
    <3>2. QED BY <1>1, <3>1
  <2>3. QED BY <2>1, <2>2
<1>11. QED
  BY <1>3, <1>4, <1>5, <1>6, <1>7, <1>8, <1>9, <1>10, Zenon DEF GoroutineStep, CallStep

(* When a call returns ErrClosed, its session is gone or the application   *)
(* is going down.                                                          *)
LEMMA ClosedTold ==
  ASSUME Inv, [Next]_vars, NEW g \in Procs, pc[g] # "idle", pc'[g] = "idle", result'[g] = "closed",
         appLive, ~stopping
  PROVE  call[g].target # NoPub /\ owners[call[g].target] = NoRef
<1>1. GoroutineStep(g)
  <2>1. CASE SystemStep
    BY <2>1, SystemFrame DEF Inv
  <2>2. ASSUME NEW w \in Workers, WorkerMove(w) PROVE FALSE
    BY <2>2, WorkerFrame DEF Inv
  <2>3. ASSUME NEW h \in Procs, GoroutineStep(h) PROVE h = g
    BY <2>3, GoroutineMoves DEF Inv, OthersKeep
  <2>4. QED BY <2>1, <2>2, <2>3, StepCases
<1>2. ~quiesced[ref[g][1]]
  <2>1. ref[g][1] \in Workers
    BY DEF TypeOK, Inv, BaseInv, CallType
  <2>2. QED BY <2>1 DEF Inv, AppOK, Running, Over
<1>3. \/ pc[g] \in {"lookup", "interrupted"} /\ owners[call[g].target] = NoRef
      \/ pc[g] = "answer" /\ resp[g] = "closed"
  BY <1>1, <1>2, ClosedReturns DEF Inv
<1>4. CASE pc[g] \in {"lookup", "interrupted"} /\ owners[call[g].target] = NoRef
  BY <1>4 DEF Inv, BaseInv, CallOK
<1>5. CASE pc[g] = "answer" /\ resp[g] = "closed"
  BY <1>5 DEF Inv, TableInv, RefOK
<1>6. QED BY <1>3, <1>4, <1>5

(* A call returns ErrClosed only when its session is gone or the           *)
(* application is going down.                                              *)
THEOREM ClosedMeansClosedHolds == Spec /\ []NoWrap => ClosedMeansClosed
<1> DEFINE Told(g) == pc[g] # "idle" /\ pc'[g] = "idle" /\ result'[g] = "closed" =>
                        \/ ~appLive \/ stopping
                        \/ call[g].target # NoPub /\ owners[call[g].target] = NoRef
<1>1. Inv /\ [Next]_vars => [\A g \in Procs : Told(g)]_vars
  BY ClosedTold
<1>2. QED BY <1>1, DispatcherInvariant, PTL DEF Spec, ClosedMeansClosed
-----------------------------------------------------------------------------
(* The dispatcher implements a store of sessions.                          *)

(* The operation of a call is one that a call of its kind makes. *)
KindOK ==
  \A g \in Procs :
    /\ pc[g] = "idle" => call[g] = Creation
    /\ op[g] = "create" => call[g].kind = "create"
    /\ op[g] = "attempt" => call[g].kind \in {"io", "accept"}
    /\ op[g] = "close" => call[g].kind = "close"
    /\ op[g] = "wake" => call[g].kind = "wake"
    /\ op[g] \in {"add", "cancel"} => call[g].kind \in {"io", "accept", "wait"}

LEMMA KindStep == BaseInv /\ AppOK /\ KindOK /\ [Next]_vars => KindOK'
<1> SUFFICES ASSUME BaseInv, AppOK, KindOK, [Next]_vars PROVE KindOK'
  OBVIOUS
<1>1. CASE SystemStep
  BY <1>1, SystemFrame DEF KindOK
<1>2. ASSUME NEW w \in Workers, WorkerMove(w) PROVE KindOK'
  BY <1>2, WorkerFrame DEF KindOK
<1>3. ASSUME NEW g \in Procs, GoroutineStep(g) PROVE KindOK'
  <2>1. OthersKeep(g) /\ GoroutineMove(g)
    BY <1>3, GoroutineMoves
  <2> DEFINE OK(h) == /\ pc[h] = "idle" => call[h] = Creation
                      /\ op[h] = "create" => call[h].kind = "create"
                      /\ op[h] = "attempt" => call[h].kind \in {"io", "accept"}
                      /\ op[h] = "close" => call[h].kind = "close"
                      /\ op[h] = "wake" => call[h].kind = "wake"
                      /\ op[h] \in {"add", "cancel"} => call[h].kind \in {"io", "accept", "wait"}
  <2>2. ASSUME NEW h \in Procs, h # g PROVE OK(h)'
    BY <2>1, <2>2 DEF OthersKeep, KindOK
  <2>3. OK(g)'
    <3>1. OK(g) /\ (pc[g] = "parked" => op[g] = "add")
      BY DEF KindOK, BaseInv, CallOK
    <3>2. CASE EndMove(g)
      <4>1. CASE Ended(g)
        BY <4>1 DEF Ended, Creation
      <4>2. CASE op[g] \in {"add", "cancel"} /\ Resumed(g)
        BY <3>1, <4>2 DEF Resumed
      <4>3. QED BY <3>2, <4>1, <4>2 DEF EndMove
    <3>3. CASE LookupMove(g) \/ SubmitMove(g) \/ SendMove(g) \/ StayMove(g)
      BY <3>1, <3>3 DEF LookupMove, SubmitMove, SendMove, StayMove, Onward
    <3>4. CASE ParkMove(g) \/ AgainMove(g) \/ CancelMove(g) \/ CreateMove(g)
      BY <3>1, <3>4 DEF ParkMove, AgainMove, CancelMove, CreateMove, Onward
    <3>5. CASE BeginMove(g)
      <4>1. /\ pc'[g] = "lookup" /\ call'[g].kind \in {"io", "accept", "close", "wake", "wait"}
            /\ op'[g] = FirstOp(call'[g].kind)
        BY <3>5, Mode2Assumption DEF BeginMove
      <4>2. QED BY <4>1 DEF FirstOp
    <3>6. QED BY <2>1, <3>2, <3>3, <3>4, <3>5 DEF GoroutineMove
  <2>4. QED BY <2>2, <2>3 DEF KindOK
<1>4. QED BY <1>1, <1>2, <1>3, StepCases

LEMMA KindInit == Init => KindOK
BY DEF Init, KindOK, Creation

(* What an operation that a worker runs is to the store: nothing, a        *)
(* refusal, a new session or the lack of one, a use, a close, or a wake.   *)
OpensOne(g) ==
  /\ op[g] = "create" \/ (op[g] = "attempt" /\ call[g].kind = "accept" /\ owners[call[g].target] # NoRef)
  /\ \/ /\ resp'[g] = "ok"
        /\ \E p \in Pubs : /\ p = nextHandle + 1 /\ nextHandle' = p
                           /\ owners'[p] # NoRef /\ OtherOwners(p)
     \/ resp'[g] = "error" /\ UsedUp
     \/ resp'[g] = "error" /\ UNCHANGED <<owners, nextHandle>>

ClosesOne(g) ==
  /\ op[g] = "close" /\ resp'[g] \in {"ok", "error"} /\ owners[call[g].target] # NoRef
  /\ owners'[call[g].target] = NoRef /\ OtherOwners(call[g].target) /\ UNCHANGED nextHandle

UsesOne(g) ==
  /\ op[g] = "attempt" /\ call[g].kind = "io" /\ owners[call[g].target] # NoRef
  /\ resp'[g] \in {"ok", "error"} /\ UNCHANGED <<owners, nextHandle>>

FindsNone(g) ==
  /\ op[g] \in {"attempt", "close"} /\ owners[call[g].target] = NoRef
  /\ resp'[g] = "closed" /\ UNCHANGED <<owners, nextHandle>>

Unseen(g) ==
  op[g] \in {"add", "cancel"} \/ resp'[g] = "again"

OpEffect(g) ==
  \/ OpensOne(g) \/ ClosesOne(g) \/ UsesOne(g) \/ FindsNone(g)
  \/ op[g] = "wake" /\ resp'[g] = "ok" /\ UNCHANGED <<owners, nextHandle>>
  \/ Unseen(g) /\ UNCHANGED <<owners, nextHandle>>

LEMMA OpEffects ==
  ASSUME BaseInv, TableInv, NoWrap, KindOK, NEW w \in Workers, NEW g \in Procs,
         pc[g] = "answer", ref[g][1] = w, RunOp(w, g), wpc[w] = "ops", UNCHANGED wpc
  PROVE  OpEffect(g)
<1> DEFINE t == call[g].target
<1>0. resp = [h \in Procs |-> resp[h]] /\ NoRaw \notin Raws /\ NoRef[2] = NoRaw
  BY ConstFacts DEF TypeOK, BaseInv, RespType
<1>1. op[g] # "create" =>
        /\ t \in Pubs
        /\ ownedRaw(w, g) => sessions[w][t] \in Raws /\ owners[t] # NoRef /\ ref[g][2] = sessions[w][t]
        /\ ~ownedRaw(w, g) => owners[t] = NoRef
  <2>1. ASSUME op[g] # "create", t \in Pubs, sessions[w][t] # NoRaw PROVE owners[t] # NoRef
    BY <1>0, <2>1 DEF TableInv, HandleOK
  <2>2. QED BY <2>1, OpFacts DEF t
<1>2. ASSUME NEW r, Reply(g, r) PROVE resp'[g] = r
  BY <1>0, <1>2 DEF Reply
<1>3. ASSUME NEW raw \in FreeRaws(w), registerSession(w, g, raw), UNCHANGED <<waiters, interest>>
      PROVE  \/ resp'[g] = "ok" /\ \E p \in Pubs : /\ p = nextHandle + 1 /\ nextHandle' = p
                                                   /\ owners'[p] # NoRef /\ OtherOwners(p)
             \/ resp'[g] = "error" /\ UsedUp
  <2>1. raw \in Raws /\ vls[w][raw] = NoPub
    BY <1>3 DEF FreeRaws
  <2>2. CASE Reply(g, "ok") /\ \E p \in Pubs : Registered(w, p, raw)
    <3>1. PICK p \in Pubs : Registered(w, p, raw)
      BY <2>2
    <3>2. owners'[p] # NoRef
      BY <1>0, <2>1, <3>1 DEF Registered
    <3>3. QED BY <1>2, <2>2, <3>1, <3>2 DEF Registered
  <2>3. CASE Reply(g, "error") /\ UsedUp
    BY <1>2, <2>3
  <2>4. QED BY <1>3, <2>1, <2>2, <2>3, RegisterMove
<1>4. CASE op[g] = "create" /\ OpCreate(w, g)
  <2>1. CASE Reply(g, "error") /\ UNCHANGED <<nextHandle, owners, sessions, vls>>
    BY <1>2, <1>4, <2>1 DEF OpEffect, OpensOne
  <2>2. ASSUME NEW raw \in FreeRaws(w), registerSession(w, g, raw) PROVE OpEffect(g)
    <3>1. UNCHANGED <<waiters, interest>>
      BY <1>4 DEF OpCreate, waitVars
    <3>2. QED BY <1>3, <1>4, <2>2, <3>1 DEF OpEffect, OpensOne
  <2>3. QED BY <1>4, <2>1, <2>2, Zenon DEF OpCreate
<1>5. CASE op[g] = "attempt" /\ OpAttempt(w, g)
  <2>1. CASE ~ownedRaw(w, g) /\ Reply(g, "closed") /\ UNCHANGED tabVars
    <3>1. QED BY <1>1, <1>2, <1>5, <2>1 DEF OpEffect, FindsNone, tabVars
  <2>2. ASSUME ownedRaw(w, g), NEW r \in {"again", "error", "ok"}, Reply(g, r),
               r = "ok" => call[g].kind = "io", UNCHANGED <<nextHandle, owners, sessions, vls>>
        PROVE  OpEffect(g)
    <3>1. resp'[g] = r /\ owners[t] # NoRef /\ call[g].kind \in {"io", "accept"}
      BY <1>1, <1>2, <1>5, <2>2 DEF KindOK
    <3>2. QED BY <1>5, <2>2, <3>1 DEF OpEffect, UsesOne, OpensOne, Unseen
  <2>3. ASSUME ownedRaw(w, g), call[g].kind = "accept", NEW raw \in FreeRaws(w),
               registerSession(w, g, raw)
        PROVE  OpEffect(g)
    <3>1. UNCHANGED <<waiters, interest>>
      BY <1>5 DEF OpAttempt, waitVars
    <3>2. QED BY <1>1, <1>3, <1>5, <2>3, <3>1 DEF OpEffect, OpensOne
  <2>4. QED BY <1>5, <2>1, <2>2, <2>3, Zenon DEF OpAttempt
<1>6. CASE op[g] = "close" /\ OpClose(w, g)
  <2>1. CASE ~ownedRaw(w, g) /\ Reply(g, "closed") /\ UNCHANGED <<owners, nextHandle>>
    BY <1>1, <1>2, <1>6, <2>1 DEF OpEffect, FindsNone
  <2>2. CASE /\ ownedRaw(w, g) /\ unregisterSession(w, t) /\ UNCHANGED nextHandle
             /\ Reply(g, "ok") \/ Reply(g, "error")
    <3>1. owners'[t] = NoRef /\ OtherOwners(t)
      <4>1. owners \in [Pubs -> Workers \X (Raws \cup {NoRaw})] /\ t \in Pubs
        BY <1>1, <1>6 DEF TypeOK, BaseInv, TabType
      <4>2. QED BY <2>2, <4>1 DEF unregisterSession, OtherOwners
    <3>2. QED BY <1>1, <1>2, <1>6, <2>2, <3>1 DEF OpEffect, ClosesOne
  <2>3. QED BY <1>6, <2>1, <2>2, Zenon DEF OpClose, t
<1>7. CASE op[g] = "wake" /\ OpWake(w, g)
  BY <1>2, <1>7 DEF OpWake, OpEffect
<1>8. CASE op[g] = "add" /\ OpAdd(w, g)
  BY <1>8 DEF OpAdd, OpEffect, Unseen
<1>9. CASE op[g] = "cancel" /\ OpCancel(w, g)
  BY <1>9 DEF OpCancel, OpEffect, Unseen
<1>10. QED BY <1>4, <1>5, <1>6, <1>7, <1>8, <1>9 DEF RunOp

(* The bars: what of the store stands where in the dispatcher. *)
LEMMA BarParts ==
  ASSUME NEW g \in Procs
  PROVE  /\ RequestBar[g].kind = call[g].kind /\ RequestBar[g].target = call[g].target
         /\ StatusBar[g] = StatusOf(g)
         /\ \A p \in Pubs : p \in LiveBar <=> owners[p] # NoRef
         /\ NoPub \notin LiveBar
<1>1. NoPub \notin Pubs
  BY ConstFacts
<1>2. QED BY <1>1 DEF RequestBar, StatusBar, LiveBar

LEMMA StatusMove ==
  ASSUME NEW g \in Procs, \A h \in Procs : h # g => UNCHANGED <<pc[h], op[h], resp[h]>>
  PROVE  StatusBar' = [StatusBar EXCEPT ![g] = StatusOf(g)']
<1>1. ASSUME NEW h \in Procs, h # g PROVE StatusOf(h)' = StatusOf(h)
  <2>1. pc'[h] = pc[h] /\ op'[h] = op[h] /\ resp'[h] = resp[h]
    BY <1>1
  <2>2. QED BY <2>1 DEF StatusOf
<1>2. QED BY <1>1 DEF StatusBar

LEMMA StatusKept ==
  ASSUME UNCHANGED <<pc, op, resp>>
  PROVE  StatusBar' = StatusBar
BY DEF StatusBar, StatusOf

(* An operation that a worker runs is a step of the store. *)
LEMMA EffectRefines ==
  ASSUME BaseInv, TableInv, KindOK, NEW g \in Procs, OpEffect(g), appLive,
         pc[g] = "answer", resp[g] = "none",
         UNCHANGED <<call, pc, op, result, appLive, ipc>>,
         \A h \in Procs : h # g => resp'[h] = resp[h]
  PROVE  [Store!Next]_(Store!vars)
<1>1. /\ RequestBar' = RequestBar /\ result' = result /\ ModeBar' = ModeBar /\ ModeBar = "up"
  BY DEF RequestBar, ModeBar
<1>2. StatusBar' = [StatusBar EXCEPT ![g] = StatusOf(g)'] /\ StatusBar[g] = "pending"
  <2>1. StatusOf(g) = "pending"
    BY DEF StatusOf
  <2>2. QED BY <2>1, StatusMove, BarParts
<1>3. /\ RequestBar[g].kind = call[g].kind /\ RequestBar[g].target = call[g].target
      /\ \A p \in Pubs : p \in LiveBar <=> owners[p] # NoRef
  BY BarParts
<1>4. op[g] # "create" => call[g].target \in Pubs
  <2>1. call[g].target \in Pubs \cup {NoPub}
    BY DEF TypeOK, BaseInv, CallType
  <2>2. QED BY <2>1 DEF BaseInv, CallOK
<1>5. ASSUME op[g] \notin {"add", "cancel"}, resp'[g] \notin {"none", "again"}
      PROVE  StatusBar' = [StatusBar EXCEPT ![g] = resp'[g]]
  <2>1. StatusOf(g)' = resp'[g]
    BY <1>5 DEF StatusOf
  <2>2. QED BY <1>2, <2>1
<1>6. UNCHANGED <<owners, nextHandle>> => LiveBar' = LiveBar /\ UsedBar' = UsedBar
  BY DEF LiveBar, UsedBar
<1>7. nextHandle \in Nat /\ Pubs \subseteq Nat /\ MaxHandle \in Nat
  <2>1. Pubs \subseteq Nat /\ 0 .. HandleSpace - 1 \subseteq Nat
    BY Mode2Assumption DEF Pubs
  <2>2. QED BY <2>1, Mode2Assumption DEF TypeOK, BaseInv, TabType
<1>8. /\ op[g] = "create" => call[g].kind = "create"
      /\ op[g] = "attempt" => call[g].kind \in {"io", "accept"}
      /\ op[g] = "close" => call[g].kind = "close"
      /\ op[g] = "wake" => call[g].kind = "wake"
  BY DEF KindOK
<1>a. ASSUME NEW a, StatusBar' = [StatusBar EXCEPT ![g] = a] PROVE Store!Effect(g, a)
  BY <1>a, <1>1, <1>2 DEF Store!Effect
<1>9. CASE OpensOne(g)
  <2>1. CASE resp'[g] = "ok" /\ \E p \in Pubs : /\ p = nextHandle + 1 /\ nextHandle' = p
                                               /\ owners'[p] # NoRef /\ OtherOwners(p)
    <3>1. PICK p \in Pubs : p = nextHandle + 1 /\ nextHandle' = p /\ owners'[p] # NoRef /\ OtherOwners(p)
      BY <2>1
    <3>2. LiveBar' = LiveBar \cup {p}
      BY <3>1 DEF LiveBar, OtherOwners
    <3>3. UsedBar' = UsedBar \cup {p} /\ p \in Pubs \ UsedBar
      BY <1>7, <3>1 DEF UsedBar
    <3>4. Store!Effect(g, "ok")
      BY <1>a, <1>5, <1>9, <2>1 DEF OpensOne
    <3>5. RequestBar[g].kind = "create" \/ (RequestBar[g].kind = "accept" /\ RequestBar[g].target \in LiveBar)
      BY <1>3, <1>4, <1>8, <1>9 DEF OpensOne
    <3>6. Store!Open(g)
      BY <3>2, <3>3, <3>4, <3>5 DEF Store!Open, Store!Kind, Store!Target
    <3>7. QED BY <3>6 DEF Store!Next
  <2>2. CASE resp'[g] = "error" /\ (UsedUp \/ UNCHANGED <<owners, nextHandle>>)
    <3>1. LiveBar' = LiveBar /\ UsedBar' = UsedBar
      <4>1. CASE UsedUp
        <5>1. LiveBar' = LiveBar
          BY <4>1 DEF UsedUp, LiveBar
        <5>2. UsedBar = Pubs /\ UsedBar' = Pubs
          BY <1>7, <4>1 DEF UsedUp, UsedBar, Pubs
        <5>3. QED BY <5>1, <5>2
      <4>2. QED BY <1>6, <2>2, <4>1
    <3>2. Store!Effect(g, "error")
      BY <1>a, <1>5, <1>9, <2>2 DEF OpensOne
    <3>3. Store!Use(g)
      BY <1>3, <1>4, <1>8, <1>9, <3>1, <3>2 DEF OpensOne, Store!Use, Store!Kind, Store!Target
    <3>4. QED BY <3>3 DEF Store!Next
  <2>3. QED BY <1>9, <2>1, <2>2 DEF OpensOne
<1>10. CASE ClosesOne(g)
  <2>1. LiveBar' = LiveBar \ {call[g].target} /\ UsedBar' = UsedBar
    BY <1>4, <1>10 DEF ClosesOne, LiveBar, UsedBar, OtherOwners
  <2>2. Store!Effect(g, "ok") \/ Store!Effect(g, "error")
    BY <1>a, <1>5, <1>10 DEF ClosesOne
  <2>3. Store!Close(g)
    BY <1>3, <1>4, <1>8, <1>10, <2>1, <2>2 DEF ClosesOne, Store!Close, Store!Kind, Store!Target
  <2>4. QED BY <2>3 DEF Store!Next
<1>11. CASE UsesOne(g)
  <2>1. Store!Effect(g, "ok") \/ Store!Effect(g, "error")
    BY <1>a, <1>5, <1>11 DEF UsesOne
  <2>2. Store!Use(g)
    BY <1>3, <1>4, <1>6, <1>11, <2>1 DEF UsesOne, Store!Use, Store!Kind, Store!Target
  <2>3. QED BY <2>2 DEF Store!Next
<1>12. CASE FindsNone(g)
  <2>1. StatusBar' = [StatusBar EXCEPT ![g] = "closed"]
    BY <1>5, <1>12 DEF FindsNone
  <2>2. /\ RequestBar[g].kind \notin {"wait", "create"} /\ RequestBar[g].target \notin LiveBar
        /\ LiveBar' = LiveBar /\ UsedBar' = UsedBar
    BY <1>3, <1>4, <1>6, <1>8, <1>12 DEF FindsNone
  <2>3. Store!Refuse(g)
    BY <1>1, <1>2, <2>1, <2>2 DEF Store!Refuse, Store!Gone, Store!Kind, Store!Target
  <2>4. QED BY <2>3 DEF Store!Next
<1>13. CASE op[g] = "wake" /\ resp'[g] = "ok" /\ UNCHANGED <<owners, nextHandle>>
  <2>1. Store!Effect(g, "ok")
    BY <1>a, <1>5, <1>13
  <2>2. Store!Use(g)
    BY <1>3, <1>6, <1>8, <1>13, <2>1 DEF Store!Use, Store!Kind
  <2>3. QED BY <2>2 DEF Store!Next
<1>14. CASE Unseen(g) /\ UNCHANGED <<owners, nextHandle>>
  <2>1. StatusOf(g)' = "pending"
    BY <1>14 DEF Unseen, StatusOf
  <2>2. StatusBar' = StatusBar
    BY <1>2, <2>1 DEF StatusBar
  <2>3. QED BY <1>1, <1>6, <1>14, <2>2 DEF Store!vars
<1>15. QED BY <1>9, <1>10, <1>11, <1>12, <1>13, <1>14 DEF OpEffect

(* A worker's other steps refuse an operation, close what is left in a     *)
(* shutdown, or are not seen. *)
LEMMA WorkerRefines ==
  ASSUME Inv, KindOK, NoWrap, NEW w \in Workers, WorkerMove(w)
  PROVE  [Store!Next]_(Store!vars)
<1>0. BaseInv /\ AppOK /\ QueueOK /\ QuietOK /\ TableInv /\ resp = [h \in Procs |-> resp[h]]
  BY DEF TypeOK, Inv, BaseInv, RespType
<1>1. UNCHANGED <<call, pc, op, result, appLive, ipc>>
  BY <1>0, WorkerFrame
<1>2. RequestBar' = RequestBar /\ ModeBar' = ModeBar /\ result' = result
  BY <1>1 DEF RequestBar, ModeBar
<1>3. ASSUME UNCHANGED <<owners, nextHandle>> PROVE LiveBar' = LiveBar /\ UsedBar' = UsedBar
  BY <1>3 DEF LiveBar, UsedBar
<1>4. CASE UNCHANGED <<owners, nextHandle, resp>>
  <2>1. StatusBar' = StatusBar
    BY <1>1, <1>4, StatusKept
  <2>2. QED BY <1>2, <1>3, <1>4, <2>1 DEF Store!vars
<1>5. CASE MovedOn(w) \/ EventSeen(w) \/ wakeAllWaiters(w)
  <2>1. UNCHANGED <<owners, nextHandle, resp>>
    <3>1. CASE EventSeen(w)
      BY <3>1, Zenon DEF EventSeen, handleEvent
    <3>2. QED BY <1>5, <3>1 DEF MovedOn, wakeAllWaiters, tabVars
  <2>2. QED BY <1>4, <2>1
<1>6. ASSUME Refused(w) \/ Ran(w)
      PROVE  \E g \in Procs : /\ g = Head(opCh[w]) /\ pc[g] = "answer" /\ ref[g][1] = w
                              /\ resp[g] = "none"
  <2>1. PICK g \in Procs : g = Head(opCh[w])
    BY <1>0, <1>6, TookQueue DEF Ran, Refused
  <2>2. ~quiesced[w]
    BY <1>0, <1>6 DEF Ran, Refused, Took, AppOK, Over
  <2>3. 1 \in DOMAIN opCh[w] /\ g = opCh[w][1]
    BY <1>0, <1>6, <2>1, TookQueue DEF Ran, Refused
  <2>4. QueuedOK(w, 1)
    BY <1>0, <2>2, <2>3 DEF QueueOK
  <2>5. QED BY <2>1, <2>3, <2>4 DEF QueuedOK
<1>7. CASE Ran(w)
  <2>1. PICK g \in Procs : g = Head(opCh[w]) /\ pc[g] = "answer" /\ ref[g][1] = w /\ resp[g] = "none"
    BY <1>6, <1>7
  <2>2. RunOp(w, g) /\ wpc[w] = "ops" /\ UNCHANGED wpc /\ appLive
    BY <1>7, <2>1 DEF Ran, Took
  <2>3. OpEffect(g)
    BY <1>0, <2>1, <2>2, OpEffects
  <2>4. PICK r \in Answers : Reply(g, r)
    BY <2>2, OpReplies
  <2>5. \A h \in Procs : h # g => resp'[h] = resp[h]
    BY <1>0, <2>4 DEF Reply
  <2>6. QED BY <1>0, <1>1, <2>1, <2>2, <2>3, <2>5, EffectRefines
<1>8. CASE Refused(w)
  <2>1. PICK g \in Procs : g = Head(opCh[w]) /\ pc[g] = "answer" /\ resp[g] = "none"
    BY <1>6, <1>8
  <2>2. /\ UNCHANGED <<owners, nextHandle>> /\ resp'[g] = "closed"
        /\ \A h \in Procs : h # g => resp'[h] = resp[h]
    BY <1>0, <1>8, <2>1 DEF Refused, Reply, tabVars
  <2>3. ModeBar = "down"
    <3>1. ~appLive
      BY <1>0, <1>8 DEF Refused, Took, AppOK, Running
    <3>2. ipc = "live"
      BY <1>0, <2>1 DEF QuietOK
    <3>3. QED BY <3>1, <3>2 DEF ModeBar
  <2>4. StatusBar' = [StatusBar EXCEPT ![g] = StatusOf(g)'] /\ StatusBar[g] = "pending"
    <3>1. StatusOf(g) = "pending"
      BY <2>1 DEF StatusOf
    <3>2. QED BY <1>1, <2>2, <3>1, StatusMove, BarParts
  <2>5. CASE op[g] \in {"add", "cancel"}
    <3>1. StatusOf(g)' = "pending"
      BY <1>1, <2>1, <2>5 DEF StatusOf
    <3>2. StatusBar' = StatusBar
      BY <2>4, <3>1 DEF StatusBar
    <3>3. QED BY <1>2, <1>3, <2>2, <3>2 DEF Store!vars
  <2>6. CASE op[g] \notin {"add", "cancel"}
    <3>1. StatusOf(g)' = "closed"
      BY <1>1, <2>1, <2>2, <2>6 DEF StatusOf
    <3>2. RequestBar[g].kind # "wait"
      <4>1. op[g] \in {"create", "attempt", "close", "wake"}
        BY <1>0, <2>6 DEF TypeOK, BaseInv, CallType
      <4>2. QED BY <4>1, BarParts DEF KindOK
    <3>3. Store!Refuse(g)
      BY <1>2, <1>3, <2>2, <2>3, <2>4, <3>1, <3>2 DEF Store!Refuse, Store!Gone, Store!Kind
    <3>4. QED BY <3>3 DEF Store!Next
  <2>7. QED BY <2>5, <2>6
<1>9. ASSUME NEW p \in Pubs, ClosedOne(w, p) PROVE [Store!Next]_(Store!vars)
  <2>1. wpc[w] = "closing" /\ sessions[w][p] # NoRaw /\ UNCHANGED <<nextHandle, resp>>
    BY <1>9 DEF ClosedOne
  <2>2. ModeBar = "down"
    <3>1. ~appLive
      BY <1>0, <2>1 DEF AppOK, Running
    <3>2. owners[p] # NoRef
      BY <1>0, <2>1, ConstFacts DEF TableInv, HandleOK
    <3>3. ipc = "live"
      BY <1>0, <3>2 DEF QuietOK
    <3>4. QED BY <3>1, <3>3 DEF ModeBar
  <2>3. LiveBar' \in SUBSET LiveBar /\ UsedBar' = UsedBar
    <3>1. owners \in [Pubs -> Workers \X (Raws \cup {NoRaw})]
      BY <1>0 DEF TypeOK, BaseInv, TabType
    <3>2. \A q \in Pubs : owners'[q] = owners[q] \/ owners'[q] = NoRef
      BY <1>9, <3>1 DEF ClosedOne, unregisterSession
    <3>3. QED BY <2>1, <3>2 DEF LiveBar, UsedBar
  <2>4. StatusBar' = StatusBar
    BY <1>1, <2>1, StatusKept
  <2>5. Store!Sweep
    BY <1>2, <2>2, <2>3, <2>4 DEF Store!Sweep
  <2>6. QED BY <2>5 DEF Store!Next
<1>10. QED BY <1>0, <1>5, <1>7, <1>8, <1>9, WorkerCases DEF WorkerActs

(* appInit and the shutdown change the mode of the store and nothing else. *)
LEMMA SystemRefines ==
  ASSUME Inv, SystemStep
  PROVE  [Store!Next]_(Store!vars)
<1>0. BaseInv /\ AppOK
  BY DEF Inv
<1>1. UNCHANGED <<call, pc, op, resp, result, owners, nextHandle>>
  BY <1>0, SystemFrame
<1>2. /\ RequestBar' = RequestBar /\ StatusBar' = StatusBar /\ result' = result
      /\ LiveBar' = LiveBar /\ UsedBar' = UsedBar
  <2>1. StatusBar' = StatusBar
    BY <1>1, StatusKept
  <2>2. QED BY <1>1, <2>1 DEF RequestBar, LiveBar, UsedBar
<1>3. \/ ModeBar' = ModeBar
      \/ ModeBar = "init" /\ ModeBar' = "up"
      \/ ModeBar # "down" /\ ModeBar' = "down"
  <2>1. ASSUME NEW w \in Workers, InitWorker(w) \/ WorkerStart(w)
        PROVE  ModeBar' = ModeBar \/ (ModeBar # "down" /\ ModeBar' = "down")
    BY <1>0, <2>1 DEF InitWorker, WorkerStart, ModeBar, AppOK
  <2>2. CASE InitReady
    BY <1>0, <2>2 DEF InitReady, ModeBar, AppOK
  <2>3. CASE beginShutdown
    BY <1>0, <2>3 DEF beginShutdown, stopRest, ModeBar
  <2>4. CASE StopStep
    <3>1. UNCHANGED <<stopRest, appLive>>
      BY <2>4 DEF StopStep, Stop, StopReturn, appDestroy
    <3>2. QED BY <3>1 DEF stopRest, ModeBar
  <2>5. CASE UNCHANGED vars
    BY <2>5 DEF vars, dispVars, ModeBar
  <2>6. QED BY <2>1, <2>2, <2>3, <2>4, <2>5 DEF SystemStep
<1>4. CASE ModeBar = "init" /\ ModeBar' = "up"
  BY <1>2, <1>4 DEF Store!GoUp, Store!Next
<1>5. CASE ModeBar # "down" /\ ModeBar' = "down"
  BY <1>2, <1>5 DEF Store!GoDown, Store!Next
<1>6. CASE ModeBar' = ModeBar
  BY <1>2, <1>6 DEF Store!vars
<1>7. QED BY <1>3, <1>4, <1>5, <1>6

(* What a call may return, and when a goroutine's result changes. *)
Outcome(g) ==
  \/ /\ pc[g] = "answer" /\ op[g] \notin {"add", "cancel"} /\ resp[g] \notin {"none", "again"}
     /\ result'[g] = resp[g]
  \/ result'[g] = "closed" /\ call[g].kind # "wait"
  \/ result'[g] = "canceled" /\ pc[g] = "interrupted"
  \/ result'[g] \in {"true", "false"} /\ call[g].kind = "wait"

ResultMove(g) ==
  /\ \A h \in Procs : h # g => result'[h] = result[h]
  /\ result' = [h \in Procs |-> result'[h]]
  /\ pc[g] # "idle" /\ pc'[g] = "idle" => Outcome(g)
  /\ pc[g] # "idle" /\ pc'[g] # "idle" => result'[g] = result[g]
  /\ pc[g] = "idle" => result'[g] = "none" /\ pc'[g] # "idle"

LEMMA ResultMoves ==
  ASSUME BaseInv, KindOK, NEW g \in Procs, GoroutineStep(g)
  PROVE  ResultMove(g)
<1>0. /\ result = [h \in Procs |-> result[h]] /\ pc = [h \in Procs |-> pc[h]]
      /\ op[g] \in {"create", "attempt", "close", "wake", "add", "cancel"}
      /\ resp[g] \in {"none", "ok", "again", "closed", "error", "true", "false"}
  BY DEF TypeOK, BaseInv, CallType, RespType
<1>1. ASSUME NEW r, Return(g, r)
      PROVE  /\ \A h \in Procs : h # g => result'[h] = result[h]
             /\ result' = [h \in Procs |-> result'[h]] /\ result'[g] = r /\ pc'[g] = "idle"
  BY <1>0, <1>1 DEF Return, Goto
<1>2. ASSUME UNCHANGED result, pc[g] # "idle", pc'[g] # "idle" PROVE ResultMove(g)
  BY <1>0, <1>2 DEF ResultMove
<1>3. ASSUME NEW b \in BOOLEAN, WaitOver(g, b), pc[g] # "idle" PROVE ResultMove(g)
  <2>1. CASE call[g].kind = "wait" /\ \E r \in {"true", "false"} : Return(g, r)
    BY <1>1, <1>3, <2>1 DEF ResultMove, Outcome
  <2>2. CASE UNCHANGED result /\ (Goto(g, "lookup") \/ Goto(g, "interrupted"))
    <3>1. pc'[g] # "idle"
      BY <1>0, <2>2 DEF Goto
    <3>2. QED BY <1>2, <1>3, <2>2, <3>1
  <2>3. CASE b
    BY <1>3, <2>1, <2>2, <2>3, Zenon DEF WaitOver
  <2>4. CASE ~b
    BY <1>3, <2>1, <2>2, <2>4, Zenon DEF WaitOver
  <2>5. QED BY <2>3, <2>4
<1>4. ASSUME Return(g, "closed"), call[g].kind # "wait", pc[g] # "idle" PROVE ResultMove(g)
  BY <1>1, <1>4 DEF ResultMove, Outcome
<1>5. op[g] \notin {"add", "cancel"} => call[g].kind # "wait"
  BY <1>0 DEF KindOK
<1>6. (ready[g] > 0) \in BOOLEAN /\ (resp[g] = "true") \in BOOLEAN
  OBVIOUS
<1>7. ASSUME SubmitFailed(g), pc[g] # "idle" PROVE ResultMove(g)
  BY <1>0, <1>3, <1>4, <1>5, <1>6, <1>7 DEF SubmitFailed
<1>8. CASE BeginCreate(g) \/ \E k \in CallKinds, p \in Pubs, m \in Events : Begin(g, k, p, m)
  <2>1. /\ pc[g] = "idle" /\ result' = [result EXCEPT ![g] = "none"]
        /\ Goto(g, "submit") \/ Goto(g, "lookup")
    BY <1>8, Zenon DEF BeginCreate, Begin
  <2>2. QED BY <1>0, <2>1 DEF ResultMove, Goto
<1>9. CASE Send(g) \/ CloseDone(g)
  BY <1>0, <1>2, <1>9 DEF Send, CloseDone, Goto
<1>10. CASE Lookup(g)
  <2>1. op[g] # "add" /\ Return(g, "closed") => ResultMove(g)
    BY <1>4, <1>5, <1>10 DEF Lookup, BaseInv, CallOK
  <2>2. Goto(g, "submit") /\ UNCHANGED result => ResultMove(g)
    BY <1>0, <1>2, <1>10 DEF Lookup, Goto
  <2>3. WaitOver(g, FALSE) => ResultMove(g)
    BY <1>3, <1>10 DEF Lookup
  <2>4. QED BY <1>10, <2>1, <2>2, <2>3, Zenon DEF Lookup
<1>11. CASE Submit(g)
  <2>1. Goto(g, "send") /\ UNCHANGED result => ResultMove(g)
    BY <1>0, <1>2, <1>11 DEF Submit, Goto
  <2>2. SubmitFailed(g) => ResultMove(g)
    BY <1>7, <1>11 DEF Submit
  <2>3. QED BY <1>11, <2>1, <2>2, Zenon DEF Submit
<1>12. CASE Quiesced(g)
  BY <1>7, <1>12 DEF Quiesced
<1>13. CASE Answer(g)
  <2>1. pc[g] = "answer" /\ resp[g] # "none"
    BY <1>13 DEF Answer
  <2>2. (Goto(g, "parked") \/ Goto(g, "lookup")) /\ UNCHANGED result => ResultMove(g)
    BY <1>0, <1>2, <2>1 DEF Goto
  <2>3. ASSUME NEW b \in BOOLEAN, WaitOver(g, b) PROVE ResultMove(g)
    BY <1>3, <2>1, <2>3
  <2>4. op[g] \notin {"add", "cancel"} /\ resp[g] # "again" /\ Return(g, resp[g]) => ResultMove(g)
    BY <1>1, <2>1 DEF ResultMove, Outcome
  <2>5. QED BY <1>6, <1>13, <2>2, <2>3, <2>4 DEF Answer
<1>14. CASE Parked(g)
  <2>1. Goto(g, "submit") /\ UNCHANGED result => ResultMove(g)
    BY <1>0, <1>2, <1>14 DEF Parked, Goto
  <2>2. ASSUME NEW b \in BOOLEAN, WaitOver(g, b) PROVE ResultMove(g)
    BY <1>3, <1>14, <2>2 DEF Parked
  <2>3. QED BY <1>14, <2>1, <2>2, Zenon DEF Parked
<1>15. CASE waitInterruptedError(g)
  <2>1. pc[g] = "interrupted" /\ call[g].kind # "wait"
    BY <1>5, <1>15 DEF waitInterruptedError, BaseInv, CallOK
  <2>2. Return(g, "closed") \/ Return(g, "canceled")
    BY <1>15, Zenon DEF waitInterruptedError
  <2>3. QED BY <1>1, <1>4, <2>1, <2>2 DEF ResultMove, Outcome
<1>16. QED
  BY <1>8, <1>9, <1>10, <1>11, <1>12, <1>13, <1>14, <1>15, Zenon DEF GoroutineStep, CallStep

(* A goroutine begins a call, goes on with it unseen, or returns. *)
LEMMA GoroutineRefines ==
  ASSUME Inv, KindOK, [Next]_vars, NEW g \in Procs, GoroutineStep(g)
  PROVE  [Store!Next]_(Store!vars)
<1>0. BaseInv /\ AppOK /\ QueueOK /\ QuietOK /\ TableInv
  BY DEF Inv
<1>1. UNCHANGED <<owners, nextHandle, appLive, ipc, stopping>>
  BY GoroutineFrame
<1>2. LiveBar' = LiveBar /\ UsedBar' = UsedBar /\ ModeBar' = ModeBar
  BY <1>1 DEF LiveBar, UsedBar, ModeBar
<1>3. OthersKeep(g) /\ GoroutineMove(g) /\ ResultMove(g)
  BY <1>0, GoroutineMoves, ResultMoves
<1>4. StatusBar' = [StatusBar EXCEPT ![g] = StatusOf(g)'] /\ StatusBar[g] = StatusOf(g)
  BY <1>3, StatusMove, BarParts DEF OthersKeep
<1>5. RequestBar' = [RequestBar EXCEPT ![g] = [kind |-> call'[g].kind, target |-> call'[g].target]]
  BY <1>3 DEF OthersKeep, RequestBar
<1>6. result' = [result EXCEPT ![g] = result'[g]]
  <2>1. result = [h \in Procs |-> result[h]]
    BY <1>0 DEF TypeOK, BaseInv, CallType
  <2>2. QED BY <1>3, <2>1 DEF ResultMove
<1>7. /\ RequestBar[g].kind = call[g].kind /\ RequestBar[g].target = call[g].target
      /\ \A p \in Pubs : p \in LiveBar <=> owners[p] # NoRef
  BY BarParts
<1>8. /\ pc[g] # "answer" => resp[g] = "none"
      /\ pc[g] = "idle" => call[g] = Creation /\ op[g] = "create"
      /\ pc[g] = "interrupted" => op[g] = "attempt"
      /\ pc[g] = "parked" => op[g] = "add"
  BY <1>0 DEF QueueOK, BaseInv, CallOK, KindOK
<1>9. CASE pc[g] = "idle"
  <2>1. CreateMove(g) \/ BeginMove(g)
    BY <1>3, <1>9 DEF GoroutineMove, ResultMove, EndMove, EndReason, LookupMove, SubmitMove, SendMove,
                      ParkMove, AgainMove, CancelMove, StayMove
  <2>2. /\ appLive /\ pc'[g] # "idle" /\ resp'[g] = "none" /\ result'[g] = "none"
    BY <1>3, <1>8, <1>9, <2>1 DEF CreateMove, BeginMove, ResultMove
  <2>3. StatusOf(g) = "idle" /\ StatusOf(g)' = "pending" /\ ModeBar = "up"
    BY <1>9, <2>2 DEF StatusOf, ModeBar
  <2>4. \E k \in Store!Kinds : \E t \in IF k = "create" THEN {NoPub} ELSE UsedBar :
          k = call'[g].kind /\ t = call'[g].target
    <3>1. CASE CreateMove(g)
      <4>1. call'[g].kind = "create" /\ call'[g].target = NoPub
        BY <1>8, <1>9, <3>1 DEF CreateMove, Creation
      <4>2. QED BY <4>1 DEF Store!Kinds
    <3>2. CASE BeginMove(g)
      <4>1. call'[g].kind \in {"io", "accept", "close", "wake", "wait"}
        BY <3>2, Mode2Assumption DEF BeginMove
      <4>2. call'[g].target \in UsedBar
        BY <3>2 DEF BeginMove, UsedBar
      <4>3. QED BY <4>1, <4>2 DEF Store!Kinds
    <3>3. QED BY <2>1, <3>1, <3>2
  <2>5. Store!Call(g)
    BY <1>2, <1>4, <1>5, <1>6, <2>2, <2>3, <2>4 DEF Store!Call
  <2>6. QED BY <2>5 DEF Store!Next
<1>10. CASE pc[g] # "idle" /\ pc'[g] = "idle"
  <2>1. Ended(g) /\ Outcome(g)
    <3>1. EndMove(g)
      BY <1>3, <1>10 DEF GoroutineMove, LookupMove, SubmitMove, SendMove, ParkMove, AgainMove,
                         CancelMove, CreateMove, BeginMove, StayMove
    <3>2. QED BY <1>3, <1>10, <3>1 DEF EndMove, Resumed, ResultMove
  <2>2. StatusOf(g) # "idle" /\ StatusOf(g)' = "idle"
    <3>1. StatusOf(g)' = "idle"
      BY <1>10 DEF StatusOf
    <3>2. resp[g] # "idle"
      BY <1>0 DEF TypeOK, BaseInv, RespType
    <3>3. QED BY <1>10, <3>1, <3>2 DEF StatusOf
  <2>3. RequestBar' = [RequestBar EXCEPT ![g] = Store!NoRequest]
    BY <1>5, <2>1 DEF Ended, Creation, Store!NoRequest
  <2>4. result'[g] \in Store!Results /\ Store!MayReturn(g, result'[g])
    <3>1. CASE /\ pc[g] = "answer" /\ op[g] \notin {"add", "cancel"} /\ resp[g] \notin {"none", "again"}
               /\ result'[g] = resp[g]
      <4>1. StatusOf(g) = resp[g] /\ resp[g] \in {"ok", "closed", "error", "true", "false"}
        BY <1>0, <3>1 DEF TypeOK, StatusOf, BaseInv, RespType
      <4>2. QED BY <1>4, <3>1, <4>1 DEF Store!Results, Store!MayReturn
    <3>2. CASE result'[g] = "closed" /\ call[g].kind # "wait"
      <4>1. CASE appLive
        <5>1. call[g].target # NoPub /\ owners[call[g].target] = NoRef
          <6>1. ~stopping
            BY <1>0, <4>1 DEF AppOK
          <6>2. QED BY <1>10, <3>2, <4>1, <6>1, ClosedTold
        <5>2. call[g].target \in Pubs /\ call[g].kind # "create"
          BY <1>0, <5>1 DEF TypeOK, BaseInv, CallType, CallOK, KindOK
        <5>3. Store!Gone(g)
          BY <1>7, <5>1, <5>2 DEF Store!Gone, Store!Kind, Store!Target
        <5>4. QED BY <1>7, <3>2, <5>3 DEF Store!Results, Store!MayReturn, Store!Kind
      <4>2. CASE ~appLive
        <5>1. ModeBar = "down"
          BY <1>0, <1>10, <4>2 DEF QuietOK, ModeBar
        <5>2. QED BY <1>7, <3>2, <5>1 DEF Store!Results, Store!MayReturn, Store!Gone, Store!Kind
      <4>3. QED BY <4>1, <4>2
    <3>3. CASE result'[g] = "canceled" /\ pc[g] = "interrupted"
      <4>1. call[g].kind \in {"io", "accept"} /\ StatusOf(g) = "pending"
        BY <1>8, <3>3 DEF KindOK, StatusOf
      <4>2. QED BY <1>4, <1>7, <3>3, <4>1 DEF Store!Results, Store!MayReturn, Store!Kind
    <3>4. CASE result'[g] \in {"true", "false"} /\ call[g].kind = "wait"
      BY <1>7, <3>4 DEF Store!Results, Store!MayReturn, Store!Kind
    <3>5. QED BY <2>1, <3>1, <3>2, <3>3, <3>4 DEF Outcome
  <2>5. Store!Return(g)
    BY <1>2, <1>4, <1>6, <2>2, <2>3, <2>4 DEF Store!Return
  <2>6. QED BY <2>5 DEF Store!Next
<1>11. CASE pc[g] # "idle" /\ pc'[g] # "idle"
  <2>1. call'[g] = call[g] /\ StatusOf(g)' = StatusOf(g)
    <3>1. CASE EndMove(g)
      <4>1. op[g] \in {"add", "cancel"} /\ Resumed(g)
        BY <1>11, <3>1 DEF EndMove, Ended
      <4>2. StatusOf(g) = "pending" /\ StatusOf(g)' = "pending"
        BY <1>11, <4>1 DEF Resumed, StatusOf
      <4>3. QED BY <4>1, <4>2 DEF Resumed
    <3>2. CASE LookupMove(g) \/ SubmitMove(g) \/ SendMove(g) \/ StayMove(g)
      <4>1. UNCHANGED <<call[g], op[g], resp[g]>>
        BY <3>2 DEF LookupMove, SubmitMove, SendMove, StayMove, Onward
      <4>2. QED BY <1>11, <4>1 DEF StatusOf
    <3>3. CASE ParkMove(g) \/ AgainMove(g) \/ CancelMove(g)
      <4>1. /\ UNCHANGED call[g]
            /\ op[g] \in {"add", "cancel"} \/ resp[g] = "again"
            /\ op'[g] \in {"add", "cancel"}
        BY <1>8, <3>3 DEF ParkMove, AgainMove, CancelMove, Onward
      <4>2. StatusOf(g) = "pending" /\ StatusOf(g)' = "pending"
        BY <1>11, <4>1 DEF StatusOf
      <4>3. QED BY <4>1, <4>2
    <3>4. QED BY <1>3, <1>11, <3>1, <3>2, <3>3 DEF GoroutineMove, CreateMove, BeginMove
  <2>2. result'[g] = result[g]
    BY <1>3, <1>11 DEF ResultMove
  <2>3. StatusBar' = StatusBar /\ RequestBar' = RequestBar /\ result' = result
    <3>1. StatusBar' = StatusBar
      BY <1>4, <2>1 DEF StatusBar
    <3>2. RequestBar' = RequestBar
      BY <1>5, <2>1 DEF RequestBar
    <3>3. result = [h \in Procs |-> result[h]]
      BY <1>0 DEF TypeOK, BaseInv, CallType
    <3>4. result' = result
      BY <1>6, <2>2, <3>3
    <3>5. QED BY <3>1, <3>2, <3>4
  <2>4. QED BY <1>2, <2>3 DEF Store!vars
<1>12. QED BY <1>9, <1>10, <1>11

(* The dispatcher implements the store of sessions, as long as the handle  *)
(* counter has not wrapped around: each call takes effect in one step of   *)
(* the worker that owns the session, and returns what happened.            *)
THEOREM ImplementsSessionStoreHolds == Spec /\ []NoWrap => ImplementsSessionStore
<1>1. Init => Store!Init
  <2>1. SUFFICES ASSUME Init PROVE Store!Init
    OBVIOUS
  <2>2. LiveBar = {}
    BY <2>1 DEF Init, LiveBar
  <2>3. UsedBar = {}
    <3>1. \A p \in Pubs : ~(p <= nextHandle)
      BY <2>1, Mode2Assumption DEF Init, Pubs
    <3>2. QED BY <3>1 DEF UsedBar
  <2>4. ModeBar = "init" /\ result = [g \in Procs |-> "none"]
    BY <2>1 DEF Init, ModeBar
  <2>5. RequestBar = [g \in Procs |-> Store!NoRequest]
    BY <2>1 DEF Init, RequestBar, Creation, Store!NoRequest
  <2>6. StatusBar = [g \in Procs |-> "idle"]
    BY <2>1 DEF Init, StatusBar, StatusOf
  <2>7. QED BY <2>2, <2>3, <2>4, <2>5, <2>6 DEF Store!Init
<1>2. Inv /\ KindOK /\ NoWrap /\ [Next]_vars => [Store!Next]_(Store!vars)
  BY StepCases, SystemRefines, WorkerRefines, GoroutineRefines
<1>3. Inv /\ KindOK /\ [Next]_vars => KindOK'
  BY KindStep DEF Inv
<1>4. QED BY <1>1, <1>2, <1>3, KindInit, DispatcherInvariant, PTL
          DEF Spec, ImplementsSessionStore, Store!Spec
=============================================================================
