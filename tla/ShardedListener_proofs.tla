---------------------- MODULE ShardedListener_proofs ----------------------
(***************************************************************************)
(* Proofs about the sharded listener, for any number of workers,           *)
(* connections and callers and any capacity of acceptC.                    *)
(***************************************************************************)
EXTENDS ShardedListener, FiniteSetTheorems, SequenceTheorems, TLAPS

(* An accept loop: it runs between startAcceptLoops and the wait of        *)
(* closeShardedListener, and holds a session from accept to send.          *)
LoopOK(w) ==
  /\ apc[w] \notin {"off", "done"} => lpc \in {"live", "wait"}
  /\ lpc \in {"create", "reply"} => apc[w] = "off"
  /\ hold[w] # NoPeer => apc[w] \in {"reply", "send", "done"}
  /\ apc[w] \in {"reply", "send"} => hold[w] # NoPeer
  /\ quiesced[w] => stopping
  /\ wpc[w] # "loop" => stopping

(* How far the creation is. *)
MadeOK ==
  /\ lpc \in {"create", "reply"} => made = at - 1
  /\ lpc = "reply" => at <= WorkerCount

(* The raw listener of worker w: what is in the session table is open, and *)
(* while the workers run its state follows from the position of the        *)
(* goroutine that creates and closes.                                      *)
RawOK(w) ==
  /\ key[w] => raw[w] = "open" /\ lpc \notin {"create", "reply", "cleanup", "failed"}
  /\ waiters[w] => key[w]
  /\ ~stopping =>
       /\ lpc = "create" => raw[w] = IF w < at THEN "open" ELSE "none"
       /\ lpc = "reply" => raw[w] = IF w <= at THEN "open" ELSE "none"
       /\ lpc = "cleanup" => (raw[w] = "open" <=> at <= w /\ w <= made)
       /\ lpc \in {"live", "wait", "drain"} => raw[w] = "open"
       /\ lpc = "shards" => (raw[w] = "open" <=> at <= w)
       /\ lpc \in {"failed", "delete", "closed"} => raw[w] # "open"

(* A connection: in one place at most, and in one if it is open and the    *)
(* workers run.                                                            *)
OnQueue(p) == \E i \in 1 .. Len(acceptC) : acceptC[i] = p
Held(p)    == \E w \in Workers : hold[w] = p

PeerOK(p) ==
  /\ \A w \in Workers : p \in pend[w] => w = Home[p] /\ session[p] = "none"
  /\ session[p] = "none" => ~OnQueue(p) /\ ~Held(p) /\ p \notin got
  /\ \A i, j \in 1 .. Len(acceptC) : acceptC[i] = p /\ acceptC[j] = p => i = j
  /\ \A w, v \in Workers : hold[w] = p /\ hold[v] = p => w = v
  /\ OnQueue(p) => ~Held(p) /\ p \notin got
  /\ Held(p) => p \notin got
  /\ session[p] = "open" /\ ~stopping => OnQueue(p) \/ Held(p) \/ p \in got

DrainedOK == lpc \in {"shards", "delete", "closed"} => acceptC = <<>>

Inv ==
  /\ TypeOK /\ MadeOK /\ DrainedOK /\ ~closedTwice
  /\ \A w \in Workers : LoopOK(w) /\ RawOK(w)
  /\ \A p \in Peers : PeerOK(p)
-----------------------------------------------------------------------------
LEMMA ConstFacts ==
  /\ WorkerCount \in Nat /\ WorkerCount > 0 /\ AcceptCap \in Nat /\ AcceptCap > 0
  /\ Workers \subseteq Nat /\ \A w : w \in Workers <=> w \in Nat /\ 1 <= w /\ w <= WorkerCount
  /\ NoPeer \notin Peers /\ Err \notin Peers /\ NoPeer # Err
  /\ \A p \in Peers : Home[p] \in Workers
BY ShardedAssumption DEF Workers

(* The functions of the state. *)
LEMMA Shapes ==
  ASSUME TypeOK
  PROVE  /\ apc = [u \in Workers |-> apc[u]] /\ hold = [u \in Workers |-> hold[u]]
         /\ raw = [u \in Workers |-> raw[u]] /\ pend = [u \in Workers |-> pend[u]]
         /\ wpc = [u \in Workers |-> wpc[u]] /\ session = [p \in Peers |-> session[p]]
         /\ acceptC \in Seq(Peers \cup {Err})
BY DEF TypeOK

LEMMA BoolShapes ==
  ASSUME TypeOK
  PROVE  /\ key \in [Workers -> BOOLEAN] /\ waiters \in [Workers -> BOOLEAN]
         /\ quiesced \in [Workers -> BOOLEAN] /\ ready \in [Workers -> BOOLEAN]
         /\ interest \in [Workers -> BOOLEAN]
BY DEF TypeOK

LEMMA BoolExcept ==
  ASSUME NEW f \in [Workers -> BOOLEAN], NEW w \in Workers, NEW b \in BOOLEAN
  PROVE  /\ [f EXCEPT ![w] = b] \in [Workers -> BOOLEAN]
         /\ [f EXCEPT ![w] = b][w] = b
         /\ \A u \in Workers : u # w => [f EXCEPT ![w] = b][u] = f[u]
BY Zenon

(* The steps, by who takes them. *)
OpenStep == CreateShard \/ ShardReply \/ closeShards \/ startAcceptLoops
ShutStep == Close \/ CloseStep
CallStep(a) == Accept(a) \/ AcceptSelect(a) \/ AcceptDone(a)

LEMMA StepCases ==
  ASSUME [Next]_vars
  PROVE  \/ OpenStep \/ ShutStep \/ Stop \/ UNCHANGED vars
         \/ \E w \in Workers : LoopStep(w)
         \/ \E w \in Workers : WorkerStep(w)
         \/ \E a \in Acceptors : CallStep(a)
         \/ \E p \in Peers : Arrive(p)
BY Zenon DEF Next, OpenStep, ShutStep, CallStep

(* What each of them leaves alone. *)
LEMMA LoopFrame ==
  ASSUME NEW w \in Workers, LoopStep(w)
  PROVE  UNCHANGED <<lpc, at, made, owned, stopCh, stopping, wpc, quiesced, cpc, got, raw, closedTwice>>
BY DEF LoopStep, LoopTop, AcceptOp, AcceptReply, Send, SendErr, AddWaiter, Parked, cancelWaiterRaw,
       loopRest, listenerVars, stopVars, callVars

LEMMA LoopOthers ==
  ASSUME TypeOK, NEW w \in Workers, LoopStep(w), NEW u \in Workers, u # w
  PROVE  UNCHANGED <<apc[u], hold[u], key[u], waiters[u]>>
<1>1. UNCHANGED <<apc[u], hold[u]>>
  BY Shapes DEF LoopStep, LoopTop, AcceptOp, AcceptReply, Send, SendErr, AddWaiter, Parked,
                cancelWaiterRaw, Goto
<1>2. /\ key' = key \/ key' = [key EXCEPT ![w] = TRUE] \/ key' = [key EXCEPT ![w] = FALSE]
      /\ waiters' = waiters \/ waiters' = [waiters EXCEPT ![w] = TRUE] \/ waiters' = [waiters EXCEPT ![w] = FALSE]
  BY DEF LoopStep, LoopTop, AcceptOp, AcceptReply, Send, SendErr, AddWaiter, addWaiterRaw, Parked,
         cancelWaiterRaw, workerVars
<1>b. key \in [Workers -> BOOLEAN] /\ waiters \in [Workers -> BOOLEAN] /\ TRUE \in BOOLEAN /\ FALSE \in BOOLEAN
  BY BoolShapes
<1>k. key'[u] = key[u]
  <2>1. CASE key' = key
    BY <2>1
  <2>2. CASE key' = [key EXCEPT ![w] = TRUE]
    BY <1>b, <2>2, BoolExcept, Zenon
  <2>3. CASE key' = [key EXCEPT ![w] = FALSE]
    BY <1>b, <2>3, BoolExcept, Zenon
  <2>4. QED BY <1>2, <2>1, <2>2, <2>3
<1>w. waiters'[u] = waiters[u]
  <2>1. CASE waiters' = waiters
    BY <2>1
  <2>2. CASE waiters' = [waiters EXCEPT ![w] = TRUE]
    BY <1>b, <2>2, BoolExcept, Zenon
  <2>3. CASE waiters' = [waiters EXCEPT ![w] = FALSE]
    BY <1>b, <2>3, BoolExcept, Zenon
  <2>4. QED BY <1>2, <2>1, <2>2, <2>3
<1>3. UNCHANGED key[u] /\ UNCHANGED waiters[u]
  BY <1>k, <1>w
<1>4. QED BY <1>1, <1>3

LEMMA WorkerFrame ==
  ASSUME NEW w \in Workers, WorkerStep(w)
  PROVE  UNCHANGED <<lpc, at, made, owned, stopCh, stopping, apc, hold, acceptC, cpc, got>>
BY DEF WorkerStep, handleEvent, Quiesce, CloseQuiesced, workerRest, listenerVars, stopVars, callVars

LEMMA CallFrame ==
  ASSUME NEW a \in Acceptors, CallStep(a)
  PROVE  UNCHANGED <<listenerVars, loopVars, stopCh, workerVars, stopVars, vlsVars>>
BY DEF CallStep, Accept, AcceptSelect, AcceptDone, callRest
-----------------------------------------------------------------------------
(* A step of an accept loop. *)
LEMMA LoopItself ==
  ASSUME TypeOK, NEW w \in Workers, LoopOK(w), LoopStep(w)
  PROVE  LoopOK(w)' /\ apc[w] \notin {"off", "done"}
<1>1. /\ UNCHANGED <<lpc, stopping, wpc, quiesced>>
  BY LoopFrame
<1>2. apc[w] \notin {"off", "done"}
  BY DEF LoopStep, LoopTop, AcceptOp, AcceptReply, Send, SendErr, AddWaiter, Parked, cancelWaiterRaw
<1>3. /\ hold'[w] # NoPeer => apc'[w] \in {"reply", "send", "done"}
      /\ apc'[w] \in {"reply", "send"} => hold'[w] # NoPeer
  <2>0. hold[w] \in Peers \cup {NoPeer} /\ (\A p \in pend[w] : p \in Peers) /\ NoPeer \notin Peers
    BY ConstFacts DEF TypeOK
  <2>1. CASE AcceptOp(w)
    BY <2>0, <2>1, Shapes DEF AcceptOp, Goto, LoopOK
  <2>2. CASE AcceptReply(w) \/ Send(w)
    BY <2>0, <2>2, Shapes DEF AcceptReply, Send, Goto, LoopOK
  <2>3. CASE LoopTop(w) \/ SendErr(w) \/ Parked(w)
    BY <2>3, Shapes DEF LoopTop, SendErr, Parked, Goto, LoopOK
  <2>4. CASE AddWaiter(w) \/ cancelWaiterRaw(w)
    BY <2>4, Shapes DEF AddWaiter, cancelWaiterRaw, Goto, LoopOK
  <2>5. QED BY <2>1, <2>2, <2>3, <2>4 DEF LoopStep
<1>4. QED BY <1>1, <1>2, <1>3 DEF LoopOK

LEMMA LoopRaw ==
  ASSUME TypeOK, NEW w \in Workers, LoopOK(w), RawOK(w), LoopStep(w)
  PROVE  RawOK(w)'
<1>1. UNCHANGED <<lpc, at, made, stopping, raw>>
  BY LoopFrame
<1>2. lpc \in {"live", "wait"}
  BY LoopItself DEF LoopOK
<1>3. (key'[w] => raw'[w] = "open") /\ (waiters'[w] => key'[w])
  <2>1. CASE AddWaiter(w) /\ ~stopping
    <3>1. key' = [key EXCEPT ![w] = TRUE]
      BY <2>1 DEF AddWaiter, addWaiterRaw
    <3>2. key'[w]
      BY <3>1, BoolShapes, BoolExcept, Zenon
    <3>3. raw'[w] = "open"
      BY <1>1, <1>2, <2>1 DEF RawOK
    <3>4. QED BY <3>2, <3>3
  <2>2. CASE cancelWaiterRaw(w) /\ ~stopping /\ waiters[w]
    <3>1. key' = [key EXCEPT ![w] = FALSE] /\ waiters' = [waiters EXCEPT ![w] = FALSE]
      BY <2>2 DEF cancelWaiterRaw
    <3>2. ~key'[w] /\ ~waiters'[w]
      BY <3>1, BoolShapes, BoolExcept, Zenon
    <3>3. QED BY <3>2
  <2>3. CASE UNCHANGED <<key, waiters>>
    BY <1>1, <2>3 DEF RawOK
  <2>4. QED BY <2>1, <2>2, <2>3
            DEF LoopStep, LoopTop, AcceptOp, AcceptReply, Send, SendErr, AddWaiter, Parked,
                cancelWaiterRaw, workerVars
<1>4. QED BY <1>1, <1>2, <1>3 DEF RawOK

LEMMA CoreLoop ==
  ASSUME TypeOK, MadeOK, ~closedTwice, \A u \in Workers : LoopOK(u) /\ RawOK(u),
         NEW w \in Workers, LoopStep(w)
  PROVE  MadeOK' /\ ~closedTwice' /\ \A u \in Workers : LoopOK(u)' /\ RawOK(u)'
<1>1. UNCHANGED <<lpc, at, made, stopping, wpc, quiesced, raw, closedTwice>>
  BY LoopFrame
<1>2. LoopOK(w)' /\ RawOK(w)'
  BY LoopItself, LoopRaw
<1>3. ASSUME NEW u \in Workers, u # w PROVE LoopOK(u)' /\ RawOK(u)'
  <2>1. UNCHANGED <<apc[u], hold[u], key[u], waiters[u]>>
    BY <1>3, LoopOthers
  <2>2. LoopOK(u) /\ RawOK(u)
    BY <1>3
  <2>3. LoopOK(u)'
    BY <1>1, <2>1, <2>2 DEF LoopOK
  <2>4. RawOK(u)'
    BY <1>1, <2>1, <2>2 DEF RawOK
  <2>5. QED BY <2>3, <2>4
<1>4. QED BY <1>1, <1>2, <1>3 DEF MadeOK

(* A step of a worker. *)
LEMMA CoreWorker ==
  ASSUME TypeOK, MadeOK, ~closedTwice, \A u \in Workers : LoopOK(u) /\ RawOK(u),
         NEW w \in Workers, WorkerStep(w)
  PROVE  MadeOK' /\ ~closedTwice' /\ \A u \in Workers : LoopOK(u)' /\ RawOK(u)'
<1>1. UNCHANGED <<lpc, at, made, stopping, apc, hold>>
  BY WorkerFrame
<1>b. /\ key \in [Workers -> BOOLEAN] /\ waiters \in [Workers -> BOOLEAN] /\ quiesced \in [Workers -> BOOLEAN]
      /\ TRUE \in BOOLEAN /\ FALSE \in BOOLEAN
  BY BoolShapes
<1>2. MadeOK'
  BY <1>1 DEF MadeOK
<1>3. CASE handleEvent(w)
  <2>1. UNCHANGED <<key, wpc, quiesced, raw, closedTwice>> /\ waiters' = [waiters EXCEPT ![w] = FALSE]
    BY <1>3 DEF handleEvent, stopVars
  <2>2. \A u \in Workers : waiters'[u] => waiters[u]
    BY <1>b, <2>1, BoolExcept, Zenon
  <2>3. QED BY <1>1, <1>2, <2>1, <2>2 DEF LoopOK, RawOK
<1>4. CASE Quiesce(w)
  <2>1. /\ stopping /\ UNCHANGED quiesced /\ wpc' = [wpc EXCEPT ![w] = "drain"]
        /\ waiters' = [waiters EXCEPT ![w] = FALSE] /\ key' = [key EXCEPT ![w] = FALSE]
        /\ rawClose(IF key[w] THEN {w} ELSE {})
    BY <1>4 DEF Quiesce
  <2>2. ~key'[w] /\ ~waiters'[w]
    BY <1>b, <2>1, BoolExcept, Zenon
  <2>3. ASSUME NEW u \in Workers, u # w PROVE key'[u] = key[u] /\ waiters'[u] = waiters[u] /\ raw'[u] = raw[u]
    <3>1. key'[u] = key[u]
      BY <1>b, <2>1, <2>3, BoolExcept, Zenon
    <3>2. waiters'[u] = waiters[u]
      BY <1>b, <2>1, <2>3, BoolExcept, Zenon
    <3>3. raw'[u] = raw[u]
      BY <2>1, <2>3 DEF rawClose
    <3>4. QED BY <3>1, <3>2, <3>3
  <2>4. ~closedTwice'
    <3>1. closedTwice' = (closedTwice \/ \E x \in (IF key[w] THEN {w} ELSE {}) : raw[x] # "open")
      BY <2>1 DEF rawClose
    <3>2. CASE key[w]
      <4>1. raw[w] = "open"
        BY <3>2 DEF RawOK
      <4>2. ~\E x \in (IF key[w] THEN {w} ELSE {}) : raw[x] # "open"
        BY <3>2, <4>1
      <4>3. QED BY <3>1, <4>2, Zenon
    <3>3. CASE ~key[w]
      <4>1. ~\E x \in (IF key[w] THEN {w} ELSE {}) : raw[x] # "open"
        BY <3>3
      <4>2. QED BY <3>1, <4>1, Zenon
    <3>4. QED BY <3>2, <3>3
  <2>5. ASSUME NEW u \in Workers PROVE LoopOK(u)' /\ RawOK(u)'
    <3>1. LoopOK(u) /\ RawOK(u)
      OBVIOUS
    <3>2. LoopOK(u)'
      BY <1>1, <2>1, <3>1 DEF LoopOK
    <3>3. RawOK(u)'
      BY <1>1, <2>1, <2>2, <2>3, <3>1 DEF RawOK
    <3>4. QED BY <3>2, <3>3
  <2>6. QED BY <1>2, <2>4, <2>5
<1>5. CASE CloseQuiesced(w)
  <2>1. UNCHANGED <<key, waiters, raw, closedTwice>> /\ wpc[w] = "drain"
        /\ wpc' = [wpc EXCEPT ![w] = "gone"]
    BY <1>5 DEF CloseQuiesced, workerVars
  <2>2. stopping
    BY <2>1 DEF LoopOK
  <2>3. QED BY <1>1, <1>2, <2>1, <2>2 DEF LoopOK, RawOK
<1>6. QED BY <1>3, <1>4, <1>5 DEF WorkerStep

(* rawClose of the shard at, which is open. *)
LEMMA RawCloseOne ==
  ASSUME TypeOK, NEW w \in Workers, raw[w] = "open", ~closedTwice, rawClose({w})
  PROVE  /\ ~closedTwice' /\ raw'[w] = "closed"
         /\ \A u \in Workers : u # w => raw'[u] = raw[u]
<1>1. closedTwice' = (closedTwice \/ \E x \in {w} : raw[x] # "open")
  BY DEF rawClose
<1>2. ~\E x \in {w} : raw[x] # "open"
  OBVIOUS
<1>3. ~closedTwice'
  BY <1>1, <1>2, Zenon
<1>4. QED BY <1>3 DEF rawClose

(* The steps of newShardedListener. *)
LEMMA CoreOpen ==
  ASSUME TypeOK, MadeOK, ~closedTwice, \A u \in Workers : LoopOK(u) /\ RawOK(u), OpenStep
  PROVE  MadeOK' /\ ~closedTwice' /\ \A u \in Workers : LoopOK(u)' /\ RawOK(u)'
<1>n. at \in Nat /\ made \in Nat /\ at >= 1 /\ made <= WorkerCount /\ WorkerCount \in Nat /\ at <= WorkerCount + 1
      /\ Workers \subseteq Nat /\ \A w : w \in Workers <=> w \in Nat /\ 1 <= w /\ w <= WorkerCount
  BY ConstFacts DEF TypeOK
<1>1. CASE CreateShard
  <2>1. /\ UNCHANGED <<made, apc, hold, key, waiters, stopping, wpc, quiesced, closedTwice>>
        /\ lpc = "create" /\ at <= WorkerCount
        /\ \/ ~stopping /\ raw' = [raw EXCEPT ![at] = "open"] /\ lpc' = "reply" /\ UNCHANGED at
           \/ lpc' = "cleanup" /\ at' = 1 /\ UNCHANGED raw
    BY <1>1 DEF CreateShard, loopVars, workerVars, stopVars
  <2>2. MadeOK'
    BY <1>n, <2>1 DEF MadeOK
  <2>3. ASSUME NEW u \in Workers PROVE LoopOK(u)' /\ RawOK(u)'
    <3>1. LoopOK(u) /\ RawOK(u) /\ u \in Nat /\ u <= WorkerCount /\ u >= 1
      BY <1>n
    <3>2. LoopOK(u)'
      BY <2>1, <3>1 DEF LoopOK
    <3>3. RawOK(u)'
      BY <1>n, <2>1, <3>1, Shapes DEF RawOK, MadeOK
    <3>4. QED BY <3>2, <3>3
  <2>4. QED BY <2>1, <2>2, <2>3
<1>2. CASE ShardReply
  <2>1. /\ UNCHANGED <<apc, hold, key, waiters, stopping, wpc, quiesced, closedTwice, raw>>
        /\ lpc = "reply"
        /\ \/ lpc' = "create" /\ at' = at + 1 /\ made' = at
           \/ quiesced[at] /\ lpc' = "cleanup" /\ at' = 1 /\ UNCHANGED made
    BY <1>2 DEF ShardReply, loopVars, workerVars, stopVars, vlsVars
  <2>2. MadeOK'
    BY <1>n, <2>1 DEF MadeOK
  <2>a. at \in Workers
    BY <1>n, <2>1 DEF MadeOK
  <2>b. quiesced[at] => stopping
    BY <2>a DEF LoopOK
  <2>3. ASSUME NEW u \in Workers PROVE LoopOK(u)' /\ RawOK(u)'
    <3>1. LoopOK(u) /\ RawOK(u) /\ u \in Nat /\ u <= WorkerCount /\ u >= 1
      BY <1>n
    <3>2. LoopOK(u)'
      BY <2>1, <3>1 DEF LoopOK
    <3>3. RawOK(u)'
      BY <1>n, <2>1, <2>b, <3>1 DEF RawOK
    <3>4. QED BY <3>2, <3>3
  <2>4. QED BY <2>1, <2>2, <2>3
<1>3. CASE closeShards
  <2>1. /\ UNCHANGED <<made, apc, hold, key, waiters, stopping, wpc, quiesced>>
        /\ lpc = "cleanup"
        /\ \/ at <= made /\ at' = at + 1 /\ UNCHANGED lpc /\ ~stopping /\ rawClose({at})
           \/ at <= made /\ at' = at + 1 /\ UNCHANGED <<lpc, raw, closedTwice>> /\ stopping
           \/ at > made /\ lpc' = "failed" /\ UNCHANGED <<at, raw, closedTwice>>
    BY <1>3 DEF closeShards, loopVars, workerVars, stopVars
  <2>2. MadeOK'
    BY <1>n, <2>1 DEF MadeOK
  <2>3. CASE at <= made /\ at' = at + 1 /\ UNCHANGED lpc /\ ~stopping /\ rawClose({at})
    <3>1. at \in Workers
      BY <1>n, <2>3
    <3>2. RawOK(at)
      BY <3>1
    <3>3. raw[at] = "open" /\ ~key[at]
      BY <1>n, <2>1, <2>3, <3>2 DEF RawOK
    <3>4. ~closedTwice' /\ raw'[at] = "closed" /\ \A u \in Workers : u # at => raw'[u] = raw[u]
      BY <2>3, <3>1, <3>3, RawCloseOne
    <3>5. ASSUME NEW u \in Workers PROVE LoopOK(u)' /\ RawOK(u)'
      <4>1. LoopOK(u) /\ RawOK(u) /\ u \in Nat /\ u <= WorkerCount /\ u >= 1
        BY <1>n
      <4>2. LoopOK(u)'
        BY <2>1, <2>3, <4>1 DEF LoopOK
      <4>3. RawOK(u)'
        BY <1>n, <2>1, <2>3, <3>3, <3>4, <4>1 DEF RawOK
      <4>4. QED BY <4>2, <4>3
    <3>6. QED BY <2>2, <3>4, <3>5
  <2>4. CASE ~(at <= made /\ at' = at + 1 /\ UNCHANGED lpc /\ ~stopping /\ rawClose({at}))
    <3>1. /\ UNCHANGED <<raw, closedTwice>>
          /\ (lpc' = "failed" /\ at > made) \/ (lpc' = "cleanup" /\ stopping)
      BY <2>1, <2>4
    <3>2. ASSUME NEW u \in Workers PROVE LoopOK(u)' /\ RawOK(u)'
      <4>1. LoopOK(u) /\ RawOK(u) /\ u \in Nat
        BY <1>n
      <4>2. LoopOK(u)'
        BY <2>1, <3>1, <4>1 DEF LoopOK
      <4>3. RawOK(u)'
        BY <1>n, <2>1, <3>1, <4>1 DEF RawOK
      <4>4. QED BY <4>2, <4>3
    <3>3. QED BY <2>2, <3>1, <3>2
  <2>5. QED BY <2>3, <2>4
<1>4. CASE startAcceptLoops
  <2>1. /\ UNCHANGED <<at, made, hold, key, waiters, stopping, wpc, quiesced, raw, closedTwice>>
        /\ lpc = "create" /\ lpc' = "live" /\ at > WorkerCount /\ apc' = [w \in Workers |-> "top"]
    BY <1>4 DEF startAcceptLoops, workerVars, stopVars, vlsVars
  <2>2. MadeOK'
    BY <2>1 DEF MadeOK
  <2>3. ASSUME NEW u \in Workers PROVE LoopOK(u)' /\ RawOK(u)'
    <3>1. LoopOK(u) /\ RawOK(u) /\ u \in Nat /\ u <= WorkerCount
      BY <1>n
    <3>2. LoopOK(u)'
      BY <2>1, <3>1 DEF LoopOK
    <3>3. RawOK(u)'
      BY <1>n, <2>1, <3>1 DEF RawOK
    <3>4. QED BY <3>2, <3>3
  <2>4. QED BY <2>1, <2>2, <2>3
<1>5. QED BY <1>1, <1>2, <1>3, <1>4 DEF OpenStep

(* The steps of closeShardedListener. *)
LEMMA CoreShut ==
  ASSUME TypeOK, MadeOK, ~closedTwice, \A u \in Workers : LoopOK(u) /\ RawOK(u), ShutStep
  PROVE  MadeOK' /\ ~closedTwice' /\ \A u \in Workers : LoopOK(u)' /\ RawOK(u)'
<1>n. at \in Nat /\ at >= 1 /\ WorkerCount \in Nat /\ at <= WorkerCount + 1
      /\ Workers \subseteq Nat /\ \A w : w \in Workers <=> w \in Nat /\ 1 <= w /\ w <= WorkerCount
  BY ConstFacts DEF TypeOK
<1>b. /\ key \in [Workers -> BOOLEAN] /\ waiters \in [Workers -> BOOLEAN] /\ FALSE \in BOOLEAN
  BY BoolShapes
<1>1. CASE Close \/ WaitLoops \/ Drain \/ DeleteOwner
  <2>1. /\ UNCHANGED <<made, apc, hold, key, waiters, stopping, wpc, quiesced, raw, closedTwice>>
        /\ \/ lpc = "live" /\ lpc' = "wait" /\ UNCHANGED at
           \/ lpc = "wait" /\ lpc' = "drain" /\ UNCHANGED at /\ \A w \in Workers : apc[w] = "done"
           \/ lpc = "drain" /\ lpc' = "drain" /\ UNCHANGED at
           \/ lpc = "drain" /\ lpc' = "shards" /\ at' = 1
           \/ lpc = "delete" /\ lpc' = "closed" /\ UNCHANGED at
    BY <1>1 DEF Close, WaitLoops, Drain, DeleteOwner, closeRest, loopVars, workerVars, stopVars, vlsVars
  <2>2. MadeOK'
    BY <2>1 DEF MadeOK
  <2>3. ASSUME NEW u \in Workers PROVE LoopOK(u)' /\ RawOK(u)'
    <3>1. LoopOK(u) /\ RawOK(u) /\ u \in Nat /\ 1 <= u
      BY <1>n
    <3>2. LoopOK(u)'
      BY <2>1, <3>1 DEF LoopOK
    <3>3. RawOK(u)'
      BY <1>n, <2>1, <3>1 DEF RawOK
    <3>4. QED BY <3>2, <3>3
  <2>4. QED BY <2>1, <2>2, <2>3
<1>2. CASE CloseShard
  <2>0. UNCHANGED <<made, apc, hold, stopping, wpc, quiesced>> /\ lpc = "shards"
    BY <1>2 DEF CloseShard, closeRest, loopVars, stopVars
  <2>1. CASE at \in Workers /\ ~stopping
    <3>1. /\ removeWaitersRaw(at) /\ rawClose({at}) /\ at' = at + 1 /\ UNCHANGED lpc
      BY <1>2, <2>1 DEF CloseShard
    <3>2. raw[at] = "open"
      BY <1>n, <2>0, <2>1 DEF RawOK
    <3>x. PICK x \in Workers : x = at
      BY <2>1
    <3>y. x \in Nat /\ at' = x + 1 /\ lpc' = "shards" /\ UNCHANGED stopping
      BY <1>n, <2>0, <3>1, <3>x
    <3>3. ~closedTwice' /\ raw'[x] = "closed" /\ \A u \in Workers : u # x => raw'[u] = raw[u]
      BY <3>1, <3>2, <3>x, RawCloseOne
    <3>k. key' = [key EXCEPT ![x] = FALSE] /\ waiters' = [waiters EXCEPT ![x] = FALSE]
      BY <3>1, <3>x DEF removeWaitersRaw
    <3>4. ~key'[x] /\ ~waiters'[x]
      BY <1>b, <3>k, BoolExcept, Zenon
    <3>5. \A u \in Workers : (u # x => (key'[u] <=> key[u])) /\ (u # x => (waiters'[u] <=> waiters[u]))
      <4>1. ASSUME NEW u \in Workers, u # x PROVE key'[u] <=> key[u]
        BY <1>b, <3>k, <4>1, BoolExcept, Zenon
      <4>2. ASSUME NEW u \in Workers, u # x PROVE waiters'[u] <=> waiters[u]
        BY <1>b, <3>k, <4>2, BoolExcept, Zenon
      <4>3. QED BY <4>1, <4>2
    <3>6. ASSUME NEW u \in Workers PROVE LoopOK(u)' /\ RawOK(u)'
      <4>1. LoopOK(u) /\ RawOK(u) /\ u \in Nat
        BY <1>n
      <4>2. LoopOK(u)'
        BY <2>0, <3>1, <4>1 DEF LoopOK
      <4>3. CASE u = x
        <5>1. raw'[u] = "closed" /\ ~key'[u] /\ ~waiters'[u] /\ ~(x + 1 <= u)
          BY <3>3, <3>4, <3>y, <4>3
        <5>2. RawOK(u)'
          BY <3>y, <5>1 DEF RawOK
        <5>3. QED BY <4>2, <5>2
      <4>4. CASE u # x
        <5>1. raw'[u] = raw[u] /\ (key'[u] <=> key[u]) /\ (waiters'[u] <=> waiters[u])
              /\ (x + 1 <= u <=> x <= u)
          BY <3>3, <3>5, <3>y, <4>1, <4>4
        <5>2. RawOK(u)'
          BY <2>0, <3>x, <3>y, <4>1, <5>1 DEF RawOK
        <5>3. QED BY <4>2, <5>2
      <4>5. QED BY <4>3, <4>4
    <3>7. QED BY <2>0, <3>1, <3>3, <3>6 DEF MadeOK
  <2>2. CASE at \in Workers /\ stopping
    <3>1. UNCHANGED <<lpc, key, waiters, raw, closedTwice>> /\ at' = at + 1
      BY <1>2, <2>2 DEF CloseShard, workerVars
    <3>2. QED BY <2>0, <2>2, <3>1 DEF MadeOK, LoopOK, RawOK
  <2>3. CASE at \notin Workers
    <3>1. UNCHANGED <<at, key, waiters, raw, closedTwice>> /\ lpc' = "delete"
      BY <1>2, <2>3 DEF CloseShard, workerVars
    <3>2. at = WorkerCount + 1
      BY <1>n, <2>3
    <3>3. ASSUME NEW u \in Workers PROVE LoopOK(u)' /\ RawOK(u)'
      <4>1. LoopOK(u) /\ RawOK(u) /\ u \in Nat /\ u <= WorkerCount
        BY <1>n
      <4>2. LoopOK(u)'
        BY <2>0, <3>1, <4>1 DEF LoopOK
      <4>3. RawOK(u)'
        BY <1>n, <2>0, <3>1, <3>2, <4>1 DEF RawOK
      <4>4. QED BY <4>2, <4>3
    <3>4. QED BY <2>0, <3>1, <3>3 DEF MadeOK
  <2>4. QED BY <2>1, <2>2, <2>3
<1>3. QED BY <1>1, <1>2 DEF ShutStep, CloseStep

(* The other steps. *)
LEMMA CoreOthers ==
  ASSUME TypeOK, MadeOK, ~closedTwice, \A u \in Workers : LoopOK(u) /\ RawOK(u),
         Stop \/ UNCHANGED vars \/ (\E a \in Acceptors : CallStep(a)) \/ (\E p \in Peers : Arrive(p))
  PROVE  MadeOK' /\ ~closedTwice' /\ \A u \in Workers : LoopOK(u)' /\ RawOK(u)'
<1>1. /\ UNCHANGED <<lpc, at, made, apc, hold, key, waiters, wpc, quiesced, raw, closedTwice>>
      /\ stopping => stopping'
  <2>1. CASE Stop
    BY <2>1 DEF Stop, workerRest, listenerVars, workerVars
  <2>2. CASE UNCHANGED vars
    BY <2>2 DEF vars, listenerVars, loopVars, workerVars, stopVars, vlsVars
  <2>3. CASE \E a \in Acceptors : CallStep(a)
    BY <2>3, CallFrame DEF listenerVars, loopVars, workerVars, stopVars, vlsVars
  <2>4. CASE \E p \in Peers : Arrive(p)
    BY <2>4 DEF Arrive, listenerVars, loopVars, workerVars, stopVars
  <2>5. QED BY <2>1, <2>2, <2>3, <2>4
<1>2. ASSUME NEW u \in Workers PROVE LoopOK(u)' /\ RawOK(u)'
  <2>1. LoopOK(u) /\ RawOK(u)
    OBVIOUS
  <2>2. LoopOK(u)'
    BY <1>1, <2>1 DEF LoopOK
  <2>3. RawOK(u)'
    BY <1>1, <2>1 DEF RawOK
  <2>4. QED BY <2>2, <2>3
<1>3. QED BY <1>1, <1>2 DEF MadeOK
-----------------------------------------------------------------------------
(* acceptC as a queue of connections. *)
OnceOnQueue(p) == \A i, j \in 1 .. Len(acceptC) : acceptC[i] = p /\ acceptC[j] = p => i = j

LEMMA QueueTail ==
  ASSUME TypeOK, acceptC # <<>>, acceptC' = Tail(acceptC), NEW p \in Peers, OnceOnQueue(p)
  PROVE  /\ OnQueue(p)' => OnQueue(p) /\ Head(acceptC) # p
         /\ OnQueue(p) => OnQueue(p)' \/ Head(acceptC) = p
         /\ Head(acceptC) = p => OnQueue(p)
         /\ OnceOnQueue(p)' /\ Head(acceptC) \in Peers \cup {Err}
<1>1. PICK q \in Seq(Peers \cup {Err}) : q = acceptC
  BY Shapes
<1>2. /\ Len(q) \in Nat /\ Len(q) >= 1 /\ Head(q) = q[1] /\ Head(q) \in Peers \cup {Err}
      /\ Len(acceptC') = Len(q) - 1 /\ \A i \in 1 .. Len(q) - 1 : acceptC'[i] = q[i + 1]
  BY <1>1, HeadTailProperties, LenProperties, EmptySeq
<1>3. OnQueue(p)' <=> \E i \in 1 .. Len(q) - 1 : q[i + 1] = p
  BY <1>2 DEF OnQueue
<1>4. OnQueue(p) <=> \E i \in 1 .. Len(q) : q[i] = p
  BY <1>1 DEF OnQueue
<1>5. \A i, j \in 1 .. Len(q) : q[i] = p /\ q[j] = p => i = j
  BY <1>1 DEF OnceOnQueue
<1>6. OnQueue(p)' => OnQueue(p) /\ Head(q) # p
  <2>1. SUFFICES ASSUME NEW i \in 1 .. Len(q) - 1, q[i + 1] = p PROVE OnQueue(p) /\ Head(q) # p
    BY <1>3
  <2>2. i + 1 \in 1 .. Len(q) /\ 1 \in 1 .. Len(q) /\ i + 1 # 1
    BY <1>2
  <2>3. QED BY <1>2, <1>4, <1>5, <2>1, <2>2
<1>7. OnQueue(p) => OnQueue(p)' \/ Head(q) = p
  <2>1. SUFFICES ASSUME NEW i \in 1 .. Len(q), q[i] = p, i # 1 PROVE OnQueue(p)'
    BY <1>2, <1>4
  <2>2. i - 1 \in 1 .. Len(q) - 1 /\ (i - 1) + 1 = i
    BY <1>2, <2>1
  <2>3. QED BY <1>3, <2>1, <2>2
<1>8. Head(q) = p => OnQueue(p)
  BY <1>2, <1>4
<1>9. OnceOnQueue(p)'
  <2>1. SUFFICES ASSUME NEW i \in 1 .. Len(q) - 1, NEW j \in 1 .. Len(q) - 1, q[i + 1] = p, q[j + 1] = p
                 PROVE  i = j
    BY <1>2 DEF OnceOnQueue
  <2>2. i + 1 \in 1 .. Len(q) /\ j + 1 \in 1 .. Len(q)
    BY <1>2
  <2>3. i + 1 = j + 1
    BY <1>5, <2>1, <2>2
  <2>4. QED BY <2>3
<1>10. QED BY <1>1, <1>2, <1>6, <1>7, <1>8, <1>9

LEMMA QueueAppend ==
  ASSUME TypeOK, NEW x \in Peers \cup {Err}, acceptC' = Append(acceptC, x),
         NEW p \in Peers, OnceOnQueue(p), x = p => ~OnQueue(p)
  PROVE  (OnQueue(p)' <=> OnQueue(p) \/ x = p) /\ OnceOnQueue(p)'
<1>1. PICK q \in Seq(Peers \cup {Err}) : q = acceptC
  BY Shapes
<1>2. /\ Len(q) \in Nat /\ Len(acceptC') = Len(q) + 1 /\ acceptC'[Len(q) + 1] = x
      /\ \A i \in 1 .. Len(q) : acceptC'[i] = q[i]
  BY <1>1, AppendProperties, LenProperties
<1>3. \A i \in 1 .. Len(q) + 1 : i \in 1 .. Len(q) \/ i = Len(q) + 1
  BY <1>2
<1>4. Len(q) + 1 \in 1 .. Len(q) + 1 /\ \A i \in 1 .. Len(q) : i \in 1 .. Len(q) + 1
  BY <1>2
<1>5. OnQueue(p) <=> \E i \in 1 .. Len(q) : q[i] = p
  BY <1>1 DEF OnQueue
<1>6. \A i, j \in 1 .. Len(q) : q[i] = p /\ q[j] = p => i = j
  BY <1>1 DEF OnceOnQueue
<1>7. OnQueue(p)' <=> \E i \in 1 .. Len(q) + 1 : acceptC'[i] = p
  BY <1>2 DEF OnQueue
<1>8. OnQueue(p)' <=> OnQueue(p) \/ x = p
  BY <1>2, <1>3, <1>4, <1>5, <1>7
<1>9. OnceOnQueue(p)'
  <2>1. SUFFICES ASSUME NEW i \in 1 .. Len(q) + 1, NEW j \in 1 .. Len(q) + 1, acceptC'[i] = p, acceptC'[j] = p
                 PROVE  i = j
    BY <1>2 DEF OnceOnQueue
  <2>2. CASE x = p
    BY <1>2, <1>3, <1>5, <2>1, <2>2
  <2>3. CASE x # p
    BY <1>2, <1>3, <1>6, <2>1, <2>3
  <2>4. QED BY <2>2, <2>3
<1>10. QED BY <1>8, <1>9
-----------------------------------------------------------------------------
(* A step that moves no accepted connection. *)
Steady(p) ==
  /\ UNCHANGED <<acceptC, hold, got>>
  /\ \A w \in Workers : p \in pend'[w] => p \in pend[w] \/ (w = Home[p] /\ session[p] = "none")
  /\ session'[p] = session[p] \/ (session'[p] = "closed" /\ session[p] = "open")
  /\ stopping => stopping'

LEMMA PeerSteady ==
  ASSUME NEW p \in Peers, PeerOK(p), Steady(p)
  PROVE  PeerOK(p)'
<1>1. (OnQueue(p)' <=> OnQueue(p)) /\ (Held(p)' <=> Held(p))
  BY DEF Steady, OnQueue, Held
<1>2. \A i, j \in 1 .. Len(acceptC') : acceptC'[i] = p /\ acceptC'[j] = p => i = j
  BY DEF Steady, PeerOK
<1>3. /\ \A w, v \in Workers : hold'[w] = p /\ hold'[v] = p => w = v
      /\ \A w \in Workers : p \in pend'[w] => w = Home[p] /\ session'[p] = "none"
  BY DEF Steady, PeerOK
<1>4. QED BY <1>1, <1>2, <1>3 DEF Steady, PeerOK

(* Which steps those are. *)
LEMMA SteadyOpen ==
  ASSUME TypeOK, OpenStep, NEW p \in Peers
  PROVE  Steady(p)
<1>1. /\ UNCHANGED <<acceptC, hold, got, session, stopping>>
      /\ UNCHANGED pend \/ rawClose({at})
  BY DEF OpenStep, CreateShard, ShardReply, closeShards, startAcceptLoops, loopVars, callVars, stopVars,
         vlsVars
<1>2. QED BY <1>1 DEF Steady, rawClose

LEMMA SteadyShut ==
  ASSUME TypeOK, Close \/ WaitLoops \/ CloseShard \/ DeleteOwner, NEW p \in Peers
  PROVE  Steady(p)
<1>1. /\ UNCHANGED <<acceptC, hold, got, session, stopping>>
      /\ UNCHANGED pend \/ rawClose({at})
  BY DEF Close, WaitLoops, CloseShard, DeleteOwner, closeRest, loopVars, callVars, stopVars, vlsVars
<1>2. QED BY <1>1 DEF Steady, rawClose

LEMMA SteadyWorker ==
  ASSUME TypeOK, NEW w \in Workers, WorkerStep(w), NEW p \in Peers
  PROVE  Steady(p)
<1>1. UNCHANGED <<acceptC, hold, got, stopping>>
  BY WorkerFrame
<1>2. CASE handleEvent(w) \/ CloseQuiesced(w)
  <2>1. UNCHANGED <<pend, session>>
    BY <1>2 DEF handleEvent, CloseQuiesced
  <2>2. QED BY <1>1, <2>1 DEF Steady
<1>3. CASE Quiesce(w)
  <2>1. /\ rawClose(IF key[w] THEN {w} ELSE {})
        /\ session' = [q \in Peers |-> IF session[q] = "open" /\ Home[q] = w THEN "closed" ELSE session[q]]
    BY <1>3 DEF Quiesce
  <2>2. \A u \in Workers : p \in pend'[u] => p \in pend[u]
    BY <2>1 DEF rawClose
  <2>3. session'[p] = session[p] \/ (session'[p] = "closed" /\ session[p] = "open")
    BY <2>1
  <2>4. QED BY <1>1, <2>2, <2>3 DEF Steady
<1>4. QED BY <1>2, <1>3 DEF WorkerStep

LEMMA SteadyLoop ==
  ASSUME NEW w \in Workers, LoopTop(w) \/ AddWaiter(w) \/ Parked(w) \/ cancelWaiterRaw(w), NEW p \in Peers
  PROVE  Steady(p)
<1>1. UNCHANGED <<acceptC, hold, got, pend, session, stopping>>
  BY DEF LoopTop, AddWaiter, Parked, cancelWaiterRaw, loopRest, stopVars, callVars
<1>2. QED BY <1>1 DEF Steady

LEMMA SteadyOthers ==
  ASSUME TypeOK, NEW p \in Peers,
         \/ Stop \/ UNCHANGED vars
         \/ \E a \in Acceptors : Accept(a) \/ AcceptDone(a)
         \/ \E q \in Peers : Arrive(q)
  PROVE  Steady(p)
<1>1. CASE Stop
  BY <1>1 DEF Stop, workerRest, callVars, Steady
<1>2. CASE UNCHANGED vars
  BY <1>2 DEF vars, loopVars, callVars, stopVars, vlsVars, Steady
<1>3. CASE \E a \in Acceptors : Accept(a) \/ AcceptDone(a)
  BY <1>3 DEF Accept, AcceptDone, callRest, loopVars, stopVars, vlsVars, Steady
<1>4. CASE \E q \in Peers : Arrive(q)
  <2>1. PICK q \in Peers : Arrive(q)
    BY <1>4
  <2>2. /\ UNCHANGED <<acceptC, hold, got, session, stopping>> /\ session[q] = "none"
        /\ pend' = [pend EXCEPT ![Home[q]] = @ \cup {q}]
    BY <2>1 DEF Arrive, loopVars, callVars, stopVars
  <2>3. QED BY <2>2, Shapes DEF Steady
<1>5. QED BY <1>1, <1>2, <1>3, <1>4
-----------------------------------------------------------------------------
(* The steps that move one. *)
LEMMA PeerAcceptOp ==
  ASSUME TypeOK, NEW w \in Workers, LoopOK(w), AcceptOp(w), NEW p \in Peers, PeerOK(p)
  PROVE  PeerOK(p)'
<1>0. /\ UNCHANGED <<acceptC, got, stopping>> /\ apc[w] = "accept" /\ NoPeer \notin Peers
      /\ \A q \in pend[w] : q \in Peers
  BY ConstFacts DEF AcceptOp, loopRest, callVars, stopVars, TypeOK
<1>1. hold[w] = NoPeer
  BY <1>0 DEF LoopOK
<1>2. CASE UNCHANGED <<pend, session, hold>>
  <2>1. Steady(p)
    BY <1>0, <1>2 DEF Steady
  <2>2. QED BY <2>1, PeerSteady
<1>3. CASE ~UNCHANGED <<pend, session, hold>>
  <2>1. PICK q \in pend[w] :
          /\ pend' = [pend EXCEPT ![w] = @ \ {q}]
          /\ \/ session' = [session EXCEPT ![q] = "open"] /\ hold' = [hold EXCEPT ![w] = q]
             \/ session' = [session EXCEPT ![q] = "closed"] /\ UNCHANGED hold
    BY <1>3 DEF AcceptOp
  <2>2. q \in Peers
    BY <1>0
  <2>3. /\ OnQueue(p)' <=> OnQueue(p)
        /\ \A i, j \in 1 .. Len(acceptC') : acceptC'[i] = p /\ acceptC'[j] = p => i = j
    BY <1>0 DEF OnQueue, PeerOK
  <2>4. CASE p # q
    <3>1. session'[p] = session[p] /\ \A u \in Workers : p \in pend'[u] => p \in pend[u]
      BY <2>1, <2>4, Shapes
    <3>2. \A u \in Workers : hold'[u] = p <=> hold[u] = p
      BY <1>0, <1>1, <2>1, <2>4, Shapes
    <3>3. Held(p)' <=> Held(p)
      BY <3>2 DEF Held
    <3>4. QED BY <1>0, <2>3, <3>1, <3>2, <3>3 DEF PeerOK
  <2>5. CASE p = q
    <3>1. session[p] = "none" /\ w = Home[p] /\ ~OnQueue(p) /\ ~Held(p) /\ p \notin got
      BY <2>1, <2>5 DEF PeerOK
    <3>2. \A u \in Workers : p \notin pend'[u]
      BY <2>1, <2>5, <3>1, Shapes DEF PeerOK
    <3>3. \A u \in Workers : hold[u] # p
      BY <3>1 DEF Held
    <3>4. \A u \in Workers : hold'[u] = p => u = w
      BY <2>1, <2>5, <3>3, Shapes
    <3>5. session'[p] = "closed" \/ (session'[p] = "open" /\ hold'[w] = p)
      BY <2>1, <2>5, Shapes
    <3>6. session'[p] = "closed" \/ Held(p)'
      BY <3>5 DEF Held
    <3>7. QED BY <1>0, <2>3, <3>1, <3>2, <3>4, <3>5, <3>6 DEF PeerOK
  <2>6. QED BY <2>4, <2>5
<1>4. QED BY <1>2, <1>3

LEMMA PeerAcceptReply ==
  ASSUME TypeOK, NEW w \in Workers, LoopOK(w), AcceptReply(w), NEW p \in Peers, PeerOK(p)
  PROVE  PeerOK(p)'
<1>0. /\ UNCHANGED <<acceptC, got, stopping, pend, session>>
      /\ UNCHANGED hold \/ (quiesced[w] /\ hold' = [hold EXCEPT ![w] = NoPeer])
      /\ NoPeer \notin Peers
  BY ConstFacts DEF AcceptReply, loopRest, callVars, stopVars
<1>1. CASE UNCHANGED hold
  <2>1. Steady(p)
    BY <1>0, <1>1 DEF Steady
  <2>2. QED BY <2>1, PeerSteady
<1>2. CASE quiesced[w] /\ hold' = [hold EXCEPT ![w] = NoPeer]
  <2>1. stopping
    BY <1>2 DEF LoopOK
  <2>2. \A u \in Workers : hold'[u] = p => hold[u] = p
    BY <1>0, <1>2, Shapes
  <2>3. Held(p)' => Held(p)
    BY <2>2 DEF Held
  <2>4. /\ OnQueue(p)' <=> OnQueue(p)
        /\ \A i, j \in 1 .. Len(acceptC') : acceptC'[i] = p /\ acceptC'[j] = p => i = j
    BY <1>0 DEF OnQueue, PeerOK
  <2>5. QED BY <1>0, <2>1, <2>2, <2>3, <2>4 DEF PeerOK
<1>3. QED BY <1>0, <1>1, <1>2

LEMMA PeerSend ==
  ASSUME TypeOK, NEW w \in Workers, LoopOK(w), Send(w), NEW p \in Peers, PeerOK(p)
  PROVE  PeerOK(p)'
<1>0. /\ UNCHANGED <<got, stopping, pend, session>> /\ apc[w] = "send"
      /\ UNCHANGED <<acceptC, hold>>
         \/ (acceptC' = Append(acceptC, hold[w]) /\ hold' = [hold EXCEPT ![w] = NoPeer])
  BY DEF Send, loopRest, callVars, stopVars
<1>1. CASE UNCHANGED <<acceptC, hold>>
  <2>1. Steady(p)
    BY <1>0, <1>1 DEF Steady
  <2>2. QED BY <2>1, PeerSteady
<1>2. CASE acceptC' = Append(acceptC, hold[w]) /\ hold' = [hold EXCEPT ![w] = NoPeer]
  <2>1. hold[w] \in Peers /\ NoPeer \notin Peers
    BY <1>0, ConstFacts DEF LoopOK, TypeOK
  <2>2. hold[w] = p => Held(p)
    BY DEF Held
  <2>3. (hold[w] = p => ~OnQueue(p)) /\ OnceOnQueue(p)
    BY <2>2 DEF PeerOK, OnceOnQueue
  <2>4. (OnQueue(p)' <=> OnQueue(p) \/ hold[w] = p) /\ OnceOnQueue(p)'
    BY <1>2, <2>1, <2>3, QueueAppend
  <2>5. \A i, j \in 1 .. Len(acceptC') : acceptC'[i] = p /\ acceptC'[j] = p => i = j
    BY <2>4 DEF OnceOnQueue
  <2>6. \A u \in Workers : hold'[u] = p <=> (hold[u] = p /\ u # w)
    BY <1>2, <2>1, Shapes
  <2>7. Held(p)' <=> (Held(p) /\ hold[w] # p)
    BY <2>6 DEF Held, PeerOK
  <2>8. QED BY <1>0, <2>2, <2>4, <2>5, <2>6, <2>7 DEF PeerOK
<1>3. QED BY <1>0, <1>1, <1>2

LEMMA PeerSendErr ==
  ASSUME TypeOK, NEW w \in Workers, SendErr(w), NEW p \in Peers, PeerOK(p)
  PROVE  PeerOK(p)'
<1>0. /\ UNCHANGED <<got, stopping, pend, session, hold>> /\ Err \notin Peers
      /\ UNCHANGED acceptC \/ acceptC' = Append(acceptC, Err)
  BY ConstFacts DEF SendErr, loopRest, callVars, stopVars
<1>1. CASE UNCHANGED acceptC
  <2>1. Steady(p)
    BY <1>0, <1>1 DEF Steady
  <2>2. QED BY <2>1, PeerSteady
<1>2. CASE acceptC' = Append(acceptC, Err)
  <2>1. OnceOnQueue(p) /\ Err # p
    BY <1>0 DEF PeerOK, OnceOnQueue
  <2>2. (OnQueue(p)' <=> OnQueue(p)) /\ OnceOnQueue(p)'
    BY <1>2, <2>1, QueueAppend
  <2>3. \A i, j \in 1 .. Len(acceptC') : acceptC'[i] = p /\ acceptC'[j] = p => i = j
    BY <2>2 DEF OnceOnQueue
  <2>4. Held(p)' <=> Held(p)
    BY <1>0 DEF Held
  <2>5. QED BY <1>0, <2>2, <2>3, <2>4 DEF PeerOK
<1>3. QED BY <1>0, <1>1, <1>2

LEMMA PeerSelect ==
  ASSUME TypeOK, NEW a \in Acceptors, AcceptSelect(a), NEW p \in Peers, PeerOK(p)
  PROVE  PeerOK(p)'
<1>0. /\ UNCHANGED <<hold, stopping, pend, session>> /\ Err \notin Peers
      /\ UNCHANGED <<acceptC, got>>
         \/ (acceptC # <<>> /\ acceptC' = Tail(acceptC) /\ got' = got \cup ({Head(acceptC)} \ {Err}))
  BY ConstFacts DEF AcceptSelect, callRest, loopVars, stopVars, vlsVars
<1>1. CASE UNCHANGED <<acceptC, got>>
  <2>1. Steady(p)
    BY <1>0, <1>1 DEF Steady
  <2>2. QED BY <2>1, PeerSteady
<1>2. CASE acceptC # <<>> /\ acceptC' = Tail(acceptC) /\ got' = got \cup ({Head(acceptC)} \ {Err})
  <2>1. OnceOnQueue(p)
    BY DEF PeerOK, OnceOnQueue
  <2>2. /\ OnQueue(p)' => OnQueue(p) /\ Head(acceptC) # p
        /\ OnQueue(p) => OnQueue(p)' \/ Head(acceptC) = p
        /\ Head(acceptC) = p => OnQueue(p)
        /\ OnceOnQueue(p)'
    BY <1>2, <2>1, QueueTail
  <2>3. \A i, j \in 1 .. Len(acceptC') : acceptC'[i] = p /\ acceptC'[j] = p => i = j
    BY <2>2 DEF OnceOnQueue
  <2>4. Held(p)' <=> Held(p)
    BY <1>0 DEF Held
  <2>5. p \in got' <=> p \in got \/ Head(acceptC) = p
    BY <1>0, <1>2
  <2>6. QED BY <1>0, <2>2, <2>3, <2>4, <2>5 DEF PeerOK
<1>3. QED BY <1>0, <1>1, <1>2

LEMMA PeerDrain ==
  ASSUME TypeOK, Drain, NEW p \in Peers, PeerOK(p)
  PROVE  PeerOK(p)'
<1>0. UNCHANGED <<hold, stopping, pend, got>> /\ Err \notin Peers
  BY ConstFacts DEF Drain, closeRest, loopVars, stopVars, callVars
<1>1. CASE acceptC = <<>>
  <2>1. Steady(p)
    BY <1>0, <1>1 DEF Steady, Drain
  <2>2. QED BY <2>1, PeerSteady
<1>2. CASE acceptC # <<>>
  <2>0. /\ acceptC' = Tail(acceptC)
        /\ session' = IF Head(acceptC) # Err /\ ~stopping
                      THEN [session EXCEPT ![Head(acceptC)] = "closed"] ELSE session
    BY <1>2 DEF Drain
  <2>1. OnceOnQueue(p)
    BY DEF PeerOK, OnceOnQueue
  <2>2. /\ OnQueue(p)' => OnQueue(p) /\ Head(acceptC) # p
        /\ OnQueue(p) => OnQueue(p)' \/ Head(acceptC) = p
        /\ Head(acceptC) = p => OnQueue(p)
        /\ OnceOnQueue(p)'
    BY <1>2, <2>0, <2>1, QueueTail
  <2>3. \A i, j \in 1 .. Len(acceptC') : acceptC'[i] = p /\ acceptC'[j] = p => i = j
    BY <2>2 DEF OnceOnQueue
  <2>4. Held(p)' <=> Held(p)
    BY <1>0 DEF Held
  <2>5. /\ Head(acceptC) # p => session'[p] = session[p]
        /\ Head(acceptC) = p /\ ~stopping => session'[p] = "closed"
        /\ session'[p] = session[p] \/ (session'[p] = "closed" /\ Head(acceptC) = p)
    BY <1>0, <2>0, Shapes
  <2>6. Head(acceptC) = p => session[p] # "none"
    BY <2>2 DEF PeerOK
  <2>7. QED BY <1>0, <2>2, <2>3, <2>4, <2>5, <2>6 DEF PeerOK
<1>3. QED BY <1>1, <1>2

LEMMA PeerStep ==
  ASSUME TypeOK, \A w \in Workers : LoopOK(w), [Next]_vars, NEW p \in Peers, PeerOK(p)
  PROVE  PeerOK(p)'
<1>1. CASE OpenStep
  BY <1>1, SteadyOpen, PeerSteady
<1>2. CASE ShutStep
  <2>1. CASE Close \/ WaitLoops \/ CloseShard \/ DeleteOwner
    BY <2>1, SteadyShut, PeerSteady
  <2>2. CASE Drain
    BY <2>2, PeerDrain
  <2>3. QED BY <1>2, <2>1, <2>2 DEF ShutStep, CloseStep
<1>3. ASSUME NEW w \in Workers, LoopStep(w) PROVE PeerOK(p)'
  <2>1. CASE LoopTop(w) \/ AddWaiter(w) \/ Parked(w) \/ cancelWaiterRaw(w)
    BY <2>1, SteadyLoop, PeerSteady
  <2>2. CASE AcceptOp(w) \/ AcceptReply(w) \/ Send(w) \/ SendErr(w)
    BY <2>2, PeerAcceptOp, PeerAcceptReply, PeerSend, PeerSendErr
  <2>3. QED BY <1>3, <2>1, <2>2 DEF LoopStep
<1>4. ASSUME NEW w \in Workers, WorkerStep(w) PROVE PeerOK(p)'
  BY <1>4, SteadyWorker, PeerSteady
<1>5. ASSUME NEW a \in Acceptors, CallStep(a) PROVE PeerOK(p)'
  <2>1. CASE Accept(a) \/ AcceptDone(a)
    BY <2>1, SteadyOthers, PeerSteady
  <2>2. CASE AcceptSelect(a)
    BY <2>2, PeerSelect
  <2>3. QED BY <1>5, <2>1, <2>2 DEF CallStep
<1>6. CASE Stop \/ UNCHANGED vars \/ \E q \in Peers : Arrive(q)
  BY <1>6, SteadyOthers, PeerSteady
<1>7. QED BY <1>1, <1>2, <1>3, <1>4, <1>5, <1>6, StepCases

(* The loops have ended before the drain, and only they put on acceptC. *)
LEMMA DrainedStep ==
  ASSUME TypeOK, DrainedOK, \A w \in Workers : LoopOK(w), [Next]_vars
  PROVE  DrainedOK'
<1>1. CASE OpenStep
  BY <1>1 DEF OpenStep, CreateShard, ShardReply, closeShards, startAcceptLoops, DrainedOK
<1>2. CASE ShutStep
  <2>1. CASE Close \/ WaitLoops
    BY <2>1 DEF Close, WaitLoops, DrainedOK
  <2>2. CASE Drain
    BY <2>2 DEF Drain, DrainedOK
  <2>3. CASE CloseShard \/ DeleteOwner
    BY <2>3 DEF CloseShard, DeleteOwner, DrainedOK
  <2>4. QED BY <1>2, <2>1, <2>2, <2>3 DEF ShutStep, CloseStep
<1>3. ASSUME NEW w \in Workers, LoopStep(w) PROVE DrainedOK'
  <2>1. lpc \in {"live", "wait"} /\ UNCHANGED lpc
    BY <1>3, LoopItself, LoopFrame DEF LoopOK
  <2>2. QED BY <2>1 DEF DrainedOK
<1>4. ASSUME NEW w \in Workers, WorkerStep(w) PROVE DrainedOK'
  BY <1>4, WorkerFrame DEF DrainedOK
<1>5. ASSUME NEW a \in Acceptors, CallStep(a) PROVE DrainedOK'
  <2>1. UNCHANGED lpc /\ (UNCHANGED acceptC \/ acceptC # <<>>)
    BY <1>5 DEF CallStep, Accept, AcceptSelect, AcceptDone, callRest, listenerVars
  <2>2. QED BY <2>1 DEF DrainedOK
<1>6. CASE Stop \/ UNCHANGED vars \/ \E q \in Peers : Arrive(q)
  BY <1>6 DEF Stop, Arrive, vars, workerRest, listenerVars, DrainedOK
<1>7. QED BY <1>1, <1>2, <1>3, <1>4, <1>5, <1>6, StepCases
-----------------------------------------------------------------------------
(* Types. *)
LEMMA TypePositions ==
  ASSUME TypeOK, MadeOK, [Next]_vars
  PROVE  /\ lpc' \in {"create", "reply", "cleanup", "failed", "live", "wait", "drain",
                      "shards", "delete", "closed"}
         /\ at' \in 1 .. WorkerCount + 1 /\ made' \in 0 .. WorkerCount
<1>0. /\ lpc \in {"create", "reply", "cleanup", "failed", "live", "wait", "drain", "shards", "delete", "closed"}
      /\ at \in 1 .. WorkerCount + 1 /\ made \in 0 .. WorkerCount
      /\ WorkerCount \in Nat /\ \A w : w \in Workers <=> w \in Nat /\ 1 <= w /\ w <= WorkerCount
  BY ConstFacts DEF TypeOK
<1>1. CASE CreateShard \/ ShardReply
  BY <1>0, <1>1 DEF CreateShard, ShardReply, MadeOK
<1>2. CASE closeShards \/ startAcceptLoops
  BY <1>0, <1>2 DEF closeShards, startAcceptLoops
<1>3. CASE ShutStep
  BY <1>0, <1>3 DEF ShutStep, CloseStep, Close, WaitLoops, Drain, CloseShard, DeleteOwner, closeRest
<1>4. CASE UNCHANGED <<lpc, at, made>>
  BY <1>0, <1>4
<1>5. ASSUME NEW w \in Workers, LoopStep(w) \/ WorkerStep(w) PROVE UNCHANGED <<lpc, at, made>>
  BY <1>5, LoopFrame, WorkerFrame
<1>6. ASSUME NEW a \in Acceptors, CallStep(a) PROVE UNCHANGED <<lpc, at, made>>
  BY <1>6, CallFrame DEF listenerVars
<1>7. CASE Stop \/ UNCHANGED vars \/ \E p \in Peers : Arrive(p)
  BY <1>4, <1>7 DEF Stop, Arrive, vars, workerRest, listenerVars
<1>8. QED BY <1>1, <1>2, <1>3, <1>4, <1>5, <1>6, <1>7, StepCases DEF OpenStep

LEMMA TypeFlags ==
  ASSUME TypeOK, [Next]_vars
  PROVE  owned' \in BOOLEAN /\ stopCh' \in BOOLEAN /\ stopping' \in BOOLEAN /\ closedTwice' \in BOOLEAN
<1>0. owned \in BOOLEAN /\ stopCh \in BOOLEAN /\ stopping \in BOOLEAN /\ closedTwice \in BOOLEAN
  BY DEF TypeOK
<1>m. (UNCHANGED owned \/ owned' = TRUE \/ owned' = FALSE) /\ (UNCHANGED stopCh \/ stopCh' = TRUE)
      /\ (UNCHANGED stopping \/ stopping' = TRUE)
      /\ (UNCHANGED closedTwice \/ \E ws : rawClose(ws))
  <2>1. CASE OpenStep
    BY <2>1 DEF OpenStep, CreateShard, ShardReply, closeShards, startAcceptLoops, stopVars, vlsVars
  <2>2. CASE ShutStep
    BY <2>2 DEF ShutStep, CloseStep, Close, WaitLoops, Drain, CloseShard, DeleteOwner, closeRest, stopVars,
                vlsVars
  <2>3. ASSUME NEW w \in Workers, LoopStep(w)
        PROVE  UNCHANGED owned /\ UNCHANGED stopCh /\ UNCHANGED stopping /\ UNCHANGED closedTwice
    BY <2>3, LoopFrame
  <2>4. ASSUME NEW w \in Workers, WorkerStep(w)
        PROVE  UNCHANGED owned /\ UNCHANGED stopCh /\ UNCHANGED stopping
               /\ (UNCHANGED closedTwice \/ \E ws : rawClose(ws))
    <3>1. UNCHANGED closedTwice \/ \E ws : rawClose(ws)
      BY <2>4, Zenon DEF WorkerStep, handleEvent, Quiesce, CloseQuiesced
    <3>2. QED BY <2>4, <3>1, WorkerFrame
  <2>5. ASSUME NEW a \in Acceptors, CallStep(a)
        PROVE  UNCHANGED owned /\ UNCHANGED stopCh /\ UNCHANGED stopping /\ UNCHANGED closedTwice
    BY <2>5, CallFrame DEF listenerVars, stopVars, vlsVars
  <2>6. CASE Stop \/ UNCHANGED vars \/ \E p \in Peers : Arrive(p)
    BY <2>6 DEF Stop, Arrive, vars, workerRest, listenerVars, stopVars, vlsVars
  <2>7. QED BY <2>1, <2>2, <2>3, <2>4, <2>5, <2>6, StepCases
<1>1. owned' \in BOOLEAN
  BY <1>0, <1>m, Zenon
<1>2. stopCh' \in BOOLEAN
  BY <1>0, <1>m, Zenon
<1>3. stopping' \in BOOLEAN
  BY <1>0, <1>m, Zenon
<1>4. closedTwice' \in BOOLEAN
  BY <1>0, <1>m, Zenon DEF rawClose
<1>5. QED BY <1>1, <1>2, <1>3, <1>4

(* A function on the workers that a step may change at one worker. *)
Flips(f, g) == g = f \/ \E w \in Workers, b \in BOOLEAN : g = [f EXCEPT ![w] = b]

LEMMA FlipsType ==
  ASSUME NEW f \in [Workers -> BOOLEAN], NEW g, Flips(f, g)
  PROVE  g \in [Workers -> BOOLEAN]
BY BoolExcept, Zenon DEF Flips

LEMMA FlipOne ==
  ASSUME NEW f, NEW g, NEW w \in Workers,
         g = f \/ g = [f EXCEPT ![w] = TRUE] \/ g = [f EXCEPT ![w] = FALSE]
  PROVE  Flips(f, g)
<1>1. TRUE \in BOOLEAN /\ FALSE \in BOOLEAN
  OBVIOUS
<1>2. QED BY <1>1, Zenon DEF Flips

LEMMA FlipLoop ==
  ASSUME NEW w \in Workers, LoopStep(w)
  PROVE  Flips(quiesced, quiesced') /\ Flips(key, key') /\ Flips(waiters, waiters')
         /\ Flips(interest, interest') /\ Flips(ready, ready')
<1>1. UNCHANGED quiesced
  BY LoopFrame
<1>2. UNCHANGED key \/ key' = [key EXCEPT ![w] = TRUE] \/ key' = [key EXCEPT ![w] = FALSE]
  BY DEF LoopStep, LoopTop, AcceptOp, AcceptReply, Send, SendErr, AddWaiter, addWaiterRaw, Parked,
         cancelWaiterRaw, workerVars
<1>3. UNCHANGED waiters \/ waiters' = [waiters EXCEPT ![w] = TRUE] \/ waiters' = [waiters EXCEPT ![w] = FALSE]
  BY DEF LoopStep, LoopTop, AcceptOp, AcceptReply, Send, SendErr, AddWaiter, addWaiterRaw, Parked,
         cancelWaiterRaw, workerVars
<1>4. UNCHANGED interest \/ interest' = [interest EXCEPT ![w] = TRUE]
      \/ interest' = [interest EXCEPT ![w] = FALSE]
  BY DEF LoopStep, LoopTop, AcceptOp, AcceptReply, Send, SendErr, AddWaiter, addWaiterRaw, Parked,
         cancelWaiterRaw, workerVars
<1>5. UNCHANGED ready \/ ready' = [ready EXCEPT ![w] = TRUE] \/ ready' = [ready EXCEPT ![w] = FALSE]
  BY DEF LoopStep, LoopTop, AcceptOp, AcceptReply, Send, SendErr, AddWaiter, Parked, cancelWaiterRaw
<1>6. QED BY <1>1, <1>2, <1>3, <1>4, <1>5, FlipOne

LEMMA FlipWorker ==
  ASSUME TypeOK, NEW w \in Workers, WorkerStep(w)
  PROVE  Flips(quiesced, quiesced') /\ Flips(key, key') /\ Flips(waiters, waiters')
         /\ Flips(interest, interest') /\ Flips(ready, ready')
<1>1. UNCHANGED quiesced \/ quiesced' = [quiesced EXCEPT ![w] = TRUE]
  BY DEF WorkerStep, handleEvent, Quiesce, CloseQuiesced, stopVars
<1>2. UNCHANGED key \/ key' = [key EXCEPT ![w] = FALSE]
  BY DEF WorkerStep, handleEvent, Quiesce, CloseQuiesced, workerVars
<1>3. UNCHANGED waiters \/ waiters' = [waiters EXCEPT ![w] = FALSE]
  BY DEF WorkerStep, handleEvent, Quiesce, CloseQuiesced, workerVars
<1>4. UNCHANGED interest \/ interest' = [interest EXCEPT ![w] = FALSE]
  BY DEF WorkerStep, handleEvent, Quiesce, CloseQuiesced, workerVars
<1>5. Flips(ready, ready')
  <2>1. CASE handleEvent(w) \/ CloseQuiesced(w)
    <3>1. UNCHANGED ready \/ ready' = [ready EXCEPT ![w] = TRUE]
      BY <2>1 DEF handleEvent, CloseQuiesced
    <3>2. QED BY <3>1, FlipOne
  <2>2. CASE Quiesce(w)
    <3>1. ready' = [ready EXCEPT ![w] = ready[w] \/ waiters[w]]
      BY <2>2 DEF Quiesce
    <3>2. (ready[w] \/ waiters[w]) \in BOOLEAN
      OBVIOUS
    <3>3. QED BY <3>1, <3>2, Zenon DEF Flips
  <2>3. QED BY <2>1, <2>2 DEF WorkerStep
<1>6. QED BY <1>1, <1>2, <1>3, <1>4, <1>5, FlipOne

LEMMA FlipOthers ==
  ASSUME TypeOK, OpenStep \/ ShutStep \/ Stop \/ UNCHANGED vars
                 \/ (\E a \in Acceptors : CallStep(a)) \/ (\E p \in Peers : Arrive(p))
  PROVE  Flips(quiesced, quiesced') /\ Flips(key, key') /\ Flips(waiters, waiters')
         /\ Flips(interest, interest') /\ Flips(ready, ready')
<1>1. UNCHANGED quiesced /\ UNCHANGED ready
      /\ (UNCHANGED workerVars \/ (at \in Workers /\ removeWaitersRaw(at)))
  <2>1. CASE OpenStep
    BY <2>1 DEF OpenStep, CreateShard, ShardReply, closeShards, startAcceptLoops, stopVars, loopVars
  <2>2. CASE ShutStep
    BY <2>2 DEF ShutStep, CloseStep, Close, WaitLoops, Drain, CloseShard, DeleteOwner, closeRest, stopVars,
                loopVars
  <2>3. ASSUME NEW a \in Acceptors, CallStep(a)
        PROVE  UNCHANGED quiesced /\ UNCHANGED ready /\ UNCHANGED workerVars
    BY <2>3, CallFrame DEF loopVars, stopVars
  <2>4. CASE Stop \/ UNCHANGED vars \/ \E p \in Peers : Arrive(p)
    BY <2>4 DEF Stop, Arrive, vars, loopVars, stopVars
  <2>5. QED BY <2>1, <2>2, <2>3, <2>4
<1>2. CASE UNCHANGED workerVars
  BY <1>1, <1>2 DEF Flips, workerVars
<1>3. CASE at \in Workers /\ removeWaitersRaw(at)
  <2>1. /\ key' = [key EXCEPT ![at] = FALSE] /\ waiters' = [waiters EXCEPT ![at] = FALSE]
        /\ interest' = [interest EXCEPT ![at] = FALSE]
    BY <1>3 DEF removeWaitersRaw
  <2>2. Flips(key, key') /\ Flips(waiters, waiters') /\ Flips(interest, interest')
    BY <1>3, <2>1, FlipOne
  <2>3. QED BY <1>1, <2>2 DEF Flips
<1>4. QED BY <1>1, <1>2, <1>3

LEMMA TypeBools ==
  ASSUME TypeOK, [Next]_vars
  PROVE  /\ quiesced' \in [Workers -> BOOLEAN] /\ key' \in [Workers -> BOOLEAN]
         /\ waiters' \in [Workers -> BOOLEAN] /\ interest' \in [Workers -> BOOLEAN]
         /\ ready' \in [Workers -> BOOLEAN]
<1>1. Flips(quiesced, quiesced') /\ Flips(key, key') /\ Flips(waiters, waiters')
      /\ Flips(interest, interest') /\ Flips(ready, ready')
  BY StepCases, FlipLoop, FlipWorker, FlipOthers, Zenon
<1>2. QED BY <1>1, FlipsType, BoolShapes

LEMMA TypeQueue ==
  ASSUME TypeOK, \A w \in Workers : LoopOK(w), [Next]_vars
  PROVE  acceptC' \in Seq(Peers \cup {Err}) /\ Len(acceptC') <= AcceptCap
<1>0. acceptC \in Seq(Peers \cup {Err}) /\ Len(acceptC) <= AcceptCap /\ AcceptCap \in Nat
  BY ConstFacts DEF TypeOK
<1>1. CASE UNCHANGED acceptC
  BY <1>0, <1>1
<1>2. CASE acceptC # <<>> /\ acceptC' = Tail(acceptC)
  BY <1>0, <1>2, HeadTailProperties, LenProperties
<1>3. ASSUME NEW x \in Peers \cup {Err}, acceptC' = Append(acceptC, x), Len(acceptC) < AcceptCap
      PROVE  acceptC' \in Seq(Peers \cup {Err}) /\ Len(acceptC') <= AcceptCap
  BY <1>0, <1>3, AppendProperties, LenProperties
<1>4. CASE OpenStep \/ ShutStep
  <2>1. UNCHANGED acceptC \/ (acceptC # <<>> /\ acceptC' = Tail(acceptC))
    BY <1>4 DEF OpenStep, CreateShard, ShardReply, closeShards, startAcceptLoops,
                ShutStep, CloseStep, Close, WaitLoops, Drain, CloseShard, DeleteOwner
  <2>2. QED BY <1>1, <1>2, <2>1
<1>5. ASSUME NEW w \in Workers, LoopStep(w)
      PROVE  acceptC' \in Seq(Peers \cup {Err}) /\ Len(acceptC') <= AcceptCap
  <2>1. \/ UNCHANGED acceptC
        \/ apc[w] = "send" /\ Len(acceptC) < AcceptCap /\ acceptC' = Append(acceptC, hold[w])
        \/ Len(acceptC) < AcceptCap /\ acceptC' = Append(acceptC, Err)
    BY <1>5 DEF LoopStep, LoopTop, AcceptOp, AcceptReply, Send, SendErr, AddWaiter, Parked, cancelWaiterRaw
  <2>2. apc[w] = "send" => hold[w] \in Peers
    BY DEF LoopOK, TypeOK
  <2>3. QED BY <1>1, <1>3, <2>1, <2>2
<1>6. ASSUME NEW w \in Workers, WorkerStep(w) PROVE UNCHANGED acceptC
  BY <1>6, WorkerFrame
<1>7. ASSUME NEW a \in Acceptors, CallStep(a)
      PROVE  UNCHANGED acceptC \/ (acceptC # <<>> /\ acceptC' = Tail(acceptC))
  BY <1>7 DEF CallStep, Accept, AcceptSelect, AcceptDone
<1>8. CASE Stop \/ UNCHANGED vars \/ \E p \in Peers : Arrive(p)
  BY <1>1, <1>8 DEF Stop, Arrive, vars, workerRest
<1>9. QED BY <1>1, <1>2, <1>4, <1>5, <1>6, <1>7, <1>8, StepCases

TypeRest ==
  /\ apc \in [Workers -> {"off", "top", "accept", "reply", "send", "sendErr", "add", "parked", "cancel",
                          "done"}]
  /\ hold \in [Workers -> Peers \cup {NoPeer}]
  /\ wpc \in [Workers -> {"loop", "drain", "gone"}]
  /\ raw \in [Workers -> {"none", "open", "closed"}]
  /\ pend \in [Workers -> SUBSET Peers]
  /\ session \in [Peers -> {"none", "open", "closed"}]
  /\ cpc \in [Acceptors -> {"idle", "select"}]
  /\ got \subseteq Peers

LEMMA RestClose ==
  ASSUME TypeRest, NEW ws, rawClose(ws)
  PROVE  raw' \in [Workers -> {"none", "open", "closed"}] /\ pend' \in [Workers -> SUBSET Peers]
BY DEF TypeRest, rawClose

LEMMA TypeOthers ==
  ASSUME TypeOK, [Next]_vars
  PROVE  TypeRest'
<1>0. TypeRest
  BY DEF TypeOK, TypeRest
<1>1. CASE OpenStep
  <2>1. /\ UNCHANGED <<hold, wpc, session, cpc, got>>
        /\ UNCHANGED apc \/ apc' = [w \in Workers |-> "top"]
        /\ \/ UNCHANGED <<raw, pend>>
           \/ UNCHANGED pend /\ raw' = [raw EXCEPT ![at] = "open"]
           \/ \E ws : rawClose(ws)
    BY <1>1 DEF OpenStep, CreateShard, ShardReply, closeShards, startAcceptLoops, loopVars, stopVars, vlsVars,
                callVars
  <2>2. apc' \in [Workers -> {"off", "top", "accept", "reply", "send", "sendErr", "add", "parked", "cancel",
                              "done"}]
    BY <1>0, <2>1 DEF TypeRest
  <2>3. raw' \in [Workers -> {"none", "open", "closed"}] /\ pend' \in [Workers -> SUBSET Peers]
    <3>1. CASE \E ws : rawClose(ws)
      BY <1>0, <3>1, RestClose
    <3>2. CASE UNCHANGED pend /\ (UNCHANGED raw \/ raw' = [raw EXCEPT ![at] = "open"])
      BY <1>0, <3>2 DEF TypeRest
    <3>3. QED BY <2>1, <3>1, <3>2
  <2>4. QED BY <1>0, <2>1, <2>2, <2>3 DEF TypeRest
<1>2. CASE ShutStep
  <2>1. /\ UNCHANGED <<apc, hold, wpc, cpc, got>>
        /\ UNCHANGED <<raw, pend>> \/ \E ws : rawClose(ws)
        /\ UNCHANGED session \/ session' = [session EXCEPT ![Head(acceptC)] = "closed"]
    BY <1>2 DEF ShutStep, CloseStep, Close, WaitLoops, Drain, CloseShard, DeleteOwner, closeRest, loopVars,
                stopVars, vlsVars, callVars
  <2>2. session' \in [Peers -> {"none", "open", "closed"}]
    BY <1>0, <2>1 DEF TypeRest
  <2>3. raw' \in [Workers -> {"none", "open", "closed"}] /\ pend' \in [Workers -> SUBSET Peers]
    <3>1. CASE \E ws : rawClose(ws)
      BY <1>0, <3>1, RestClose
    <3>2. QED BY <1>0, <2>1, <3>1 DEF TypeRest
  <2>4. QED BY <1>0, <2>1, <2>2, <2>3 DEF TypeRest
<1>3. ASSUME NEW w \in Workers, LoopStep(w) PROVE TypeRest'
  <2>1. UNCHANGED <<wpc, cpc, got, raw>>
    BY <1>3, LoopFrame
  <2>2. apc' \in [Workers -> {"off", "top", "accept", "reply", "send", "sendErr", "add", "parked", "cancel",
                              "done"}]
    <3>1. PICK x \in {"top", "accept", "reply", "send", "sendErr", "add", "parked", "cancel", "done"} :
            apc' = [apc EXCEPT ![w] = x]
      BY <1>3 DEF LoopStep, LoopTop, AcceptOp, AcceptReply, Send, SendErr, AddWaiter, Parked, cancelWaiterRaw,
                  Goto
    <3>2. QED BY <1>0, <3>1 DEF TypeRest
  <2>3. CASE AcceptOp(w)
    <3>1. /\ hold' \in [Workers -> Peers \cup {NoPeer}] /\ pend' \in [Workers -> SUBSET Peers]
          /\ session' \in [Peers -> {"none", "open", "closed"}]
      <4>1. CASE UNCHANGED <<pend, session, hold>>
        BY <1>0, <4>1 DEF TypeRest
      <4>2. CASE ~UNCHANGED <<pend, session, hold>>
        <5>1. PICK q \in pend[w] :
                /\ pend' = [pend EXCEPT ![w] = @ \ {q}]
                /\ \/ session' = [session EXCEPT ![q] = "open"] /\ hold' = [hold EXCEPT ![w] = q]
                   \/ session' = [session EXCEPT ![q] = "closed"] /\ UNCHANGED hold
          BY <2>3, <4>2 DEF AcceptOp
        <5>2. q \in Peers
          BY <1>0, <5>1 DEF TypeRest
        <5>3. pend' \in [Workers -> SUBSET Peers]
          BY <1>0, <5>1 DEF TypeRest
        <5>4. QED BY <1>0, <5>1, <5>2, <5>3 DEF TypeRest
      <4>3. QED BY <4>1, <4>2
    <3>2. QED BY <1>0, <2>1, <2>2, <3>1 DEF TypeRest
  <2>4. CASE ~AcceptOp(w)
    <3>1. UNCHANGED <<pend, session>> /\ (UNCHANGED hold \/ hold' = [hold EXCEPT ![w] = NoPeer])
      BY <1>3, <2>4 DEF LoopStep, LoopTop, AcceptReply, Send, SendErr, AddWaiter, Parked, cancelWaiterRaw
    <3>2. hold' \in [Workers -> Peers \cup {NoPeer}]
      BY <1>0, <3>1 DEF TypeRest
    <3>3. QED BY <1>0, <2>1, <2>2, <3>1, <3>2 DEF TypeRest
  <2>5. QED BY <2>3, <2>4
<1>4. ASSUME NEW w \in Workers, WorkerStep(w) PROVE TypeRest'
  <2>1. UNCHANGED <<apc, hold, cpc, got>>
    BY <1>4, WorkerFrame
  <2>2. wpc' \in [Workers -> {"loop", "drain", "gone"}]
    BY <1>0, <1>4 DEF WorkerStep, handleEvent, Quiesce, CloseQuiesced, stopVars, TypeRest
  <2>3. session' \in [Peers -> {"none", "open", "closed"}]
    BY <1>0, <1>4 DEF WorkerStep, handleEvent, Quiesce, CloseQuiesced, TypeRest
  <2>4. raw' \in [Workers -> {"none", "open", "closed"}] /\ pend' \in [Workers -> SUBSET Peers]
    <3>1. UNCHANGED <<raw, pend>> \/ rawClose(IF key[w] THEN {w} ELSE {})
      BY <1>4 DEF WorkerStep, handleEvent, Quiesce, CloseQuiesced
    <3>2. QED BY <1>0, <3>1, RestClose DEF TypeRest
  <2>5. QED BY <1>0, <2>1, <2>2, <2>3, <2>4 DEF TypeRest
<1>5. ASSUME NEW a \in Acceptors, CallStep(a) PROVE TypeRest'
  <2>1. UNCHANGED <<apc, hold, wpc, raw, pend, session>>
    BY <1>5, CallFrame DEF loopVars, stopVars, vlsVars
  <2>2. cpc' \in [Acceptors -> {"idle", "select"}]
    BY <1>0, <1>5 DEF CallStep, Accept, AcceptSelect, AcceptDone, TypeRest
  <2>3. got' \subseteq Peers
    <3>1. acceptC # <<>> => Head(acceptC) \in Peers \cup {Err}
      BY HeadTailProperties DEF TypeOK
    <3>2. UNCHANGED got \/ (acceptC # <<>> /\ got' = got \cup ({Head(acceptC)} \ {Err}))
      BY <1>5 DEF CallStep, Accept, AcceptSelect, AcceptDone
    <3>3. QED BY <1>0, <3>1, <3>2 DEF TypeRest
  <2>4. QED BY <1>0, <2>1, <2>2, <2>3 DEF TypeRest
<1>6. CASE Stop \/ UNCHANGED vars
  BY <1>0, <1>6 DEF Stop, vars, workerRest, loopVars, stopVars, vlsVars, callVars, TypeRest
<1>7. ASSUME NEW p \in Peers, Arrive(p) PROVE TypeRest'
  <2>1. /\ UNCHANGED <<apc, hold, wpc, raw, session, cpc, got>>
        /\ pend' = [pend EXCEPT ![Home[p]] = @ \cup {p}]
    BY <1>7 DEF Arrive, loopVars, stopVars, callVars
  <2>2. pend' \in [Workers -> SUBSET Peers]
    BY <1>0, <2>1 DEF TypeRest
  <2>3. QED BY <1>0, <2>1, <2>2 DEF TypeRest
<1>8. QED BY <1>1, <1>2, <1>3, <1>4, <1>5, <1>6, <1>7, StepCases
-----------------------------------------------------------------------------
LEMMA InvInit ==
  ASSUME Init
  PROVE  Inv
<1>n. /\ WorkerCount \in Nat /\ WorkerCount > 0 /\ AcceptCap \in Nat
      /\ \A w \in Workers : w \in Nat /\ 1 <= w
  BY ConstFacts
<1>1. TypeOK
  <2>1. lpc = "create" /\ at \in 1 .. WorkerCount + 1 /\ made \in 0 .. WorkerCount
    BY <1>n DEF Init
  <2>2. owned \in BOOLEAN /\ stopCh \in BOOLEAN /\ stopping \in BOOLEAN /\ closedTwice \in BOOLEAN
    BY DEF Init
  <2>3. /\ ready \in [Workers -> BOOLEAN] /\ quiesced \in [Workers -> BOOLEAN]
        /\ key \in [Workers -> BOOLEAN] /\ waiters \in [Workers -> BOOLEAN]
        /\ interest \in [Workers -> BOOLEAN]
    BY Zenon DEF Init
  <2>4. acceptC \in Seq(Peers \cup {Err}) /\ Len(acceptC) <= AcceptCap
    BY <1>n, EmptySeq DEF Init
  <2>5. TypeRest
    BY DEF Init, TypeRest
  <2>6. QED BY <2>1, <2>2, <2>3, <2>4, <2>5 DEF TypeOK, TypeRest
<1>2. MadeOK /\ DrainedOK /\ ~closedTwice
  BY <1>n DEF Init, MadeOK, DrainedOK
<1>3. ASSUME NEW w \in Workers PROVE LoopOK(w) /\ RawOK(w)
  <2>1. LoopOK(w)
    BY <1>n DEF Init, LoopOK
  <2>2. RawOK(w)
    BY <1>n DEF Init, RawOK
  <2>3. QED BY <2>1, <2>2
<1>4. ASSUME NEW p \in Peers PROVE PeerOK(p)
  <2>1. \A i \in 1 .. Len(acceptC) : FALSE
    BY DEF Init
  <2>2. NoPeer # p
    BY ConstFacts
  <2>3. ~OnQueue(p) /\ ~Held(p)
    BY <2>1, <2>2 DEF Init, OnQueue, Held
  <2>4. QED BY <2>1, <2>2, <2>3 DEF Init, PeerOK
<1>5. QED BY <1>1, <1>2, <1>3, <1>4 DEF Inv

LEMMA InvStep ==
  ASSUME Inv, [Next]_vars
  PROVE  Inv'
<1>0. /\ TypeOK /\ MadeOK /\ DrainedOK /\ ~closedTwice /\ (\A w \in Workers : LoopOK(w) /\ RawOK(w))
      /\ \A p \in Peers : PeerOK(p)
  BY DEF Inv
<1>1. TypeOK'
  <2>1. TypeRest'
    BY <1>0, TypeOthers
  <2>2. QED BY <1>0, <2>1, TypePositions, TypeFlags, TypeBools, TypeQueue, Zenon DEF TypeOK, TypeRest
<1>2. MadeOK' /\ ~closedTwice' /\ \A u \in Workers : LoopOK(u)' /\ RawOK(u)'
  BY <1>0, StepCases, CoreOpen, CoreShut, CoreLoop, CoreWorker, CoreOthers, Zenon
<1>3. DrainedOK'
  BY <1>0, DrainedStep
<1>4. \A p \in Peers : PeerOK(p)'
  BY <1>0, PeerStep
<1>5. QED BY <1>1, <1>2, <1>3, <1>4, Zenon DEF Inv

(* The invariant holds for any number of workers, connections and callers  *)
(* and any capacity of acceptC: the state of every raw listener follows    *)
(* from where newShardedListener or closeShardedListener is, and every     *)
(* connection is in one place of the fan-in at most.                       *)
THEOREM ShardedInvariant == Spec => []Inv
<1>1. Init => Inv
  BY InvInit
<1>2. Inv /\ [Next]_vars => Inv'
  BY InvStep
<1>3. QED BY <1>1, <1>2, PTL DEF Spec

(* RawClosedOnce: no raw listener is closed twice, neither by              *)
(* closeShards and closeShardedListener nor by quiesce, and with live      *)
(* workers a failed or closed listener leaves nothing open or registered.  *)
THEOREM RawClosedOnceHolds == Spec => []RawClosedOnce
<1>1. Inv => RawClosedOnce
  <2>1. SUFFICES ASSUME Inv PROVE RawClosedOnce
    OBVIOUS
  <2>2. ASSUME lpc \in {"failed", "closed"}, ~stopping, NEW w \in Workers
        PROVE  raw[w] # "open" /\ ~key[w] /\ ~waiters[w]
    <3>1. RawOK(w)
      BY <2>1 DEF Inv
    <3>2. QED BY <2>2, <3>1 DEF RawOK
  <2>3. QED BY <2>1, <2>2, Zenon DEF Inv, RawClosedOnce
<1>2. QED BY <1>1, ShardedInvariant, PTL

LEMMA AtMostOne ==
  ASSUME NEW S, \A x, y \in S : x = y
  PROVE  Cardinality(S) = IF S = {} THEN 0 ELSE 1
<1>1. CASE S = {}
  BY <1>1, FS_EmptySet
<1>2. CASE S # {}
  <2>1. PICK x : x \in S
    BY <1>2
  <2>2. S = {x}
    BY <2>1
  <2>3. QED BY <1>2, <2>2, FS_Singleton
<1>3. QED BY <1>1, <1>2

(* AcceptedIsSomewhere: an open session that an accept loop took is with   *)
(* the loop, on acceptC or with the application, in exactly one of them    *)
(* while the workers run, and the drain of closeShardedListener is final.  *)
THEOREM AcceptedIsSomewhereHolds == Spec => []AcceptedIsSomewhere
<1>1. Inv => AcceptedIsSomewhere
  <2>1. SUFFICES ASSUME Inv PROVE AcceptedIsSomewhere
    OBVIOUS
  <2>2. TypeOK /\ (lpc \in {"shards", "delete", "closed"} => acceptC = <<>>)
    BY <2>1 DEF Inv, DrainedOK
  <2>3. ASSUME NEW p \in Peers, session[p] = "open"
        PROVE  LET places == Cardinality({i \in DOMAIN acceptC : acceptC[i] = p})
                             + Cardinality({w \in Workers : hold[w] = p})
                             + (IF p \in got THEN 1 ELSE 0)
               IN  places = 1 \/ (stopping /\ places = 0)
    <3> DEFINE Q == {i \in DOMAIN acceptC : acceptC[i] = p}
               H == {w \in Workers : hold[w] = p}
    <3>1. PeerOK(p) /\ DOMAIN acceptC = 1 .. Len(acceptC)
      BY <2>1, <2>2, LenProperties DEF Inv, TypeOK
    <3>2. (Q # {} <=> OnQueue(p)) /\ (H # {} <=> Held(p))
      BY <3>1 DEF OnQueue, Held
    <3>3. (\A x, y \in Q : x = y) /\ (\A x, y \in H : x = y)
      BY <3>1 DEF PeerOK
    <3> HIDE DEF Q, H
    <3>4. Cardinality(Q) = (IF OnQueue(p) THEN 1 ELSE 0) /\ Cardinality(H) = (IF Held(p) THEN 1 ELSE 0)
      BY <3>2, <3>3, AtMostOne
    <3>5. (OnQueue(p) => ~Held(p) /\ p \notin got) /\ (Held(p) => p \notin got)
          /\ (~stopping => OnQueue(p) \/ Held(p) \/ p \in got)
      BY <2>3, <3>1 DEF PeerOK
    <3> HIDE DEF OnQueue, Held
    <3>6. LET places == Cardinality(Q) + Cardinality(H) + (IF p \in got THEN 1 ELSE 0)
          IN  places = 1 \/ (stopping /\ places = 0)
      BY <3>4, <3>5
    <3>7. QED BY <3>6 DEF Q, H
  <2>4. QED BY <2>2, <2>3 DEF AcceptedIsSomewhere
<1>2. QED BY <1>1, ShardedInvariant, PTL
=============================================================================
