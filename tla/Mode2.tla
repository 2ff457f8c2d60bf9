------------------------------- MODULE Mode2 -------------------------------
(***************************************************************************)
(* The Mode 2 dispatcher (internal/vclpoll/mode2.go) and its workers       *)
(* (worker.go). Each worker is a goroutine pinned to one OS thread that    *)
(* owns a VCL worker, an epoll instance and a pool of raw session handles; *)
(* every operation on a session runs as a closure on the worker that       *)
(* created it, submitted over opCh. Public handles are virtual: raw ones   *)
(* are pool indexes that VLS hands out again as soon as they are freed.    *)
(*                                                                         *)
(* A goroutine g of the application makes one dispatcher call after the    *)
(* other. Sharded listeners are a component of their own and not in here.  *)
(***************************************************************************)
EXTENDS Naturals, Sequences, FiniteSets

CONSTANTS WorkerCount,  \* workers are 0..WorkerCount-1; 0 is the bootstrap
          Procs,        \* goroutines that call the dispatcher
          Raws,         \* raw handles of each worker's session pool
          NoRaw,        \* not a raw handle
          MaxHandle,    \* maxVirtualHandle (2^31-1)
          HandleSpace,  \* 2^32, the width of nextHandle
          OpCap,        \* capacity of opCh (256)
          BatchLimit,   \* operations drained per loop (64)
          Events,       \* the masks waited for: "in", "out"
          CallKinds,    \* bound: the calls made, besides create
          AllocBound    \* bound: no create or accept begins beyond it

ASSUME Mode2Assumption ==
  /\ WorkerCount \in Nat \ {0}
  /\ MaxHandle \in Nat /\ HandleSpace \in Nat /\ MaxHandle < HandleSpace
  /\ OpCap \in Nat \ {0} /\ BatchLimit \in Nat \ {0}
  /\ "in" \in Events /\ Events \subseteq {"in", "out"}
  /\ CallKinds \subseteq {"io", "accept", "close", "wake", "wait"}
  /\ AllocBound \in Nat
  /\ NoRaw \notin Raws

Workers == 0 .. WorkerCount - 1
Pubs    == 1 .. MaxHandle
Kinds   == CallKinds \cup {"create"}
NoPub   == 0                      \* no session
NoRef   == <<0, NoRaw>>           \* no entry in owners

(* The arguments of a call: the mask is the one it would wait for. A create *)
(* names no session; neither does a goroutine between two calls.            *)
Creation == [kind |-> "create", target |-> NoPub, mask |-> "in"]

VARIABLES
  (* dispatcher: worker list, owner map, counters, flags, and how far       *)
  (* appInit and the stop/destroy sequence have come                        *)
  workers, owners, rr, nextHandle, stopping, appLive, startCh, ipc, spc,
  (* workers: position, report on the ready channel, operations taken from  *)
  (* opCh in this batch, session table, wait sets, channels                 *)
  wpc, epoll, batch, sessions, waiters, opCh, stopCh, quiesced,
  (* VLS: the public session behind each raw handle, epoll interest, and    *)
  (* whether a raw call ever reached a session it was not meant for         *)
  vls, interest, misrouted,
  (* goroutines: the call, its position, the operation it submits, the      *)
  (* looked-up owner, the answer, the waiter's ready channel and done       *)
  call, pc, op, ref, resp, ready, done, result

dispVars == <<workers, stopping, appLive, startCh, ipc, spc, stopCh, epoll>>
callVars == <<call, pc, op, ref, done, result>>
tabVars  == <<owners, sessions, nextHandle, vls, misrouted>>
waitVars == <<waiters, interest, ready>>
vars == <<dispVars, rr, callVars, tabVars, waitVars, wpc, batch, opCh,
          quiesced, resp>>

(* The types, by the group of variables that change together. *)
DispType ==
  /\ workers \subseteq Workers
  /\ stopping \in BOOLEAN /\ appLive \in BOOLEAN /\ startCh \in BOOLEAN
  /\ ipc \in {"register", "ready", "live", "failing"}
  /\ spc \in {"idle", "stop", "waiting", "stopped", "destroyed"}
  /\ stopCh \in [Workers -> BOOLEAN]
  /\ epoll \in [Workers -> {"none", "ok", "failed"}]

WorkerType ==
  /\ rr \in Workers
  /\ wpc \in [Workers -> {"absent", "failed", "registered", "top", "ops",
                          "events", "quiesce", "closing", "drain", "drained",
                          "unregister", "exited", "parked", "destroyed"}]
  /\ batch \in [Workers -> 0 .. BatchLimit]
  /\ opCh \in [Workers -> Seq(Procs)]
  /\ quiesced \in [Workers -> BOOLEAN]

TabType ==
  /\ owners \in [Pubs -> Workers \X (Raws \cup {NoRaw})]
  /\ nextHandle \in 0 .. HandleSpace - 1
  /\ sessions \in [Workers -> [Pubs -> Raws \cup {NoRaw}]]
  /\ vls \in [Workers -> [Raws -> Pubs \cup {NoPub}]]
  /\ misrouted \in BOOLEAN

WaitType ==
  /\ waiters \in [Workers -> [Pubs -> SUBSET (Procs \X Events)]]
  /\ interest \in [Workers -> [Pubs -> SUBSET Events]]
  /\ ready \in [Procs -> Nat]

CallType ==
  /\ call \in [Procs -> [kind : Kinds, target : Pubs \cup {NoPub}, mask : Events]]
  /\ pc \in [Procs -> {"idle", "lookup", "submit", "send", "answer", "parked",
                       "interrupted"}]
  /\ op \in [Procs -> {"create", "attempt", "close", "wake", "add", "cancel"}]
  /\ ref \in [Procs -> Workers \X (Raws \cup {NoRaw})]
  /\ done \in [Procs -> BOOLEAN]
  /\ result \in [Procs -> {"none", "ok", "closed", "canceled", "error",
                           "true", "false"}]

RespType ==
  resp \in [Procs -> {"none", "ok", "again", "closed", "error", "true", "false"}]

TypeOK == DispType /\ WorkerType /\ TabType /\ WaitType /\ CallType /\ RespType

Init ==
  /\ workers = {} /\ owners = [p \in Pubs |-> NoRef]
  /\ rr = 0 /\ nextHandle = 0
  /\ stopping = FALSE /\ appLive = FALSE /\ startCh = FALSE
  /\ ipc = "register" /\ spc = "idle"
  /\ wpc = [w \in Workers |-> "absent"]
  /\ epoll = [w \in Workers |-> "none"]
  /\ batch = [w \in Workers |-> 0]
  /\ sessions = [w \in Workers |-> [p \in Pubs |-> NoRaw]]
  /\ waiters = [w \in Workers |-> [p \in Pubs |-> {}]]
  /\ opCh = [w \in Workers |-> <<>>]
  /\ stopCh = [w \in Workers |-> FALSE]
  /\ quiesced = [w \in Workers |-> FALSE]
  /\ vls = [w \in Workers |-> [r \in Raws |-> NoPub]]
  /\ interest = [w \in Workers |-> [p \in Pubs |-> {}]]
  /\ misrouted = FALSE
  /\ call = [g \in Procs |-> Creation]
  /\ pc = [g \in Procs |-> "idle"]
  /\ op = [g \in Procs |-> "create"]
  /\ ref = [g \in Procs |-> NoRef]
  /\ resp = [g \in Procs |-> "none"]
  /\ ready = [g \in Procs |-> 0]
  /\ done = [g \in Procs |-> FALSE]
  /\ result = [g \in Procs |-> "none"]

-----------------------------------------------------------------------------
(* appInit: register the workers one after the other, release them, wait   *)
(* for their epoll instances; any failure stops and destroys what exists.  *)

initRest == <<rr, callVars, tabVars, waitVars, batch, opCh, quiesced, resp,
              stopping, spc, stopCh>>

(* One round of the loop: spawn a worker and read its registered channel.  *)
InitWorker(w) ==
  /\ ipc = "register"
  /\ w \notin workers /\ \A v \in Workers : v < w => v \in workers
  /\ \/ /\ wpc' = [wpc EXCEPT ![w] = "registered"]
        /\ workers' = workers \cup {w}
        /\ startCh' = (workers' = Workers)
        /\ ipc' = IF workers' = Workers THEN "ready" ELSE "register"
     \/ /\ wpc' = [wpc EXCEPT ![w] = "failed"]
        /\ startCh' = TRUE
        /\ ipc' = "failing"
        /\ UNCHANGED workers
  /\ UNCHANGED <<initRest, appLive, epoll>>

(* The worker's wait for start or stop, then epoll_create and its report.  *)
WorkerStart_NoQuiesce(w) ==  \* mutant: a failed epoll_create just returns
  /\ wpc[w] = "registered" /\ startCh
  /\ \/ /\ epoll' = [epoll EXCEPT ![w] = "ok"]
        /\ wpc' = [wpc EXCEPT ![w] = "top"]
     \/ /\ epoll' = [epoll EXCEPT ![w] = "failed"]
        /\ wpc' = [wpc EXCEPT ![w] = "exited"]
  /\ UNCHANGED <<initRest, workers, startCh, ipc, appLive>>

WorkerStart(w) ==
  /\ wpc[w] = "registered"
  /\ \/ /\ startCh
        /\ epoll' = [epoll EXCEPT ![w] = "ok"]
        /\ wpc' = [wpc EXCEPT ![w] = "top"]
     \/ /\ startCh
        /\ epoll' = [epoll EXCEPT ![w] = "failed"]
        /\ wpc' = [wpc EXCEPT ![w] = "quiesce"]
     \/ /\ stopCh[w]
        /\ wpc' = [wpc EXCEPT ![w] = "quiesce"]
        /\ UNCHANGED epoll
  /\ UNCHANGED <<initRest, workers, startCh, ipc, appLive>>

(* The ready channels are read in worker order, up to the first failure.   *)
InitReady ==
  /\ ipc = "ready"
  /\ \/ /\ \A w \in Workers : epoll[w] = "ok"
        /\ ipc' = "live"
        /\ appLive' = TRUE
     \/ /\ \E w \in Workers : /\ epoll[w] = "failed"
                              /\ \A v \in Workers : v < w => epoll[v] = "ok"
        /\ ipc' = "failing"
        /\ UNCHANGED appLive
  /\ UNCHANGED <<initRest, workers, startCh, wpc, epoll>>

-----------------------------------------------------------------------------
(* stop and appDestroy. beginShutdown precedes stop on the way out of a    *)
(* live application; a failed appInit stops without it.                    *)

stopRest == <<rr, callVars, tabVars, waitVars, batch, opCh, quiesced, resp,
              workers, ipc, startCh, epoll>>

beginShutdown ==
  /\ ipc = "live" /\ spc = "idle"
  /\ appLive' = FALSE
  /\ spc' = "stop"
  /\ UNCHANGED <<stopRest, stopping, stopCh, wpc>>

Stop ==
  /\ \/ spc = "stop"
     \/ spc = "idle" /\ ipc = "failing"
  /\ stopping' = TRUE
  /\ stopCh' = [w \in Workers |-> w \in workers]
  /\ spc' = "waiting"
  /\ UNCHANGED <<stopRest, appLive, wpc>>

StopReturn_Quiesced ==  \* mutant: does not wait for the unregistrations
  /\ spc = "waiting"
  /\ \A w \in workers : quiesced[w]
  /\ spc' = "stopped"
  /\ UNCHANGED <<stopRest, stopping, appLive, stopCh, wpc>>

StopReturn ==
  /\ spc = "waiting"
  /\ \A w \in workers : quiesced[w] /\ (w # 0 => wpc[w] = "exited")
  /\ spc' = "stopped"
  /\ UNCHANGED <<stopRest, stopping, appLive, stopCh, wpc>>

(* With no worker there is nothing to destroy; otherwise the bootstrap     *)
(* worker runs rawAppDestroy on its own thread.                            *)
appDestroy ==
  /\ spc = "stopped"
  /\ 0 \in workers => wpc[0] = "parked"
  /\ wpc' = IF 0 \in workers THEN [wpc EXCEPT ![0] = "destroyed"] ELSE wpc
  /\ spc' = "destroyed"
  /\ UNCHANGED <<stopRest, stopping, appLive, stopCh>>

-----------------------------------------------------------------------------
(* The calls. Each is a lookup of the owner, one or more submits, and what *)
(* the call makes of the answers.                                          *)

(* What a step of a goroutine leaves alone. *)
callRest == <<dispVars, tabVars, waiters, interest, wpc, batch, quiesced>>

Goto(g, to) == pc' = [pc EXCEPT ![g] = to]

(* A call's arguments, waiter, answer and done channel die with it. *)
Return(g, r) ==
  /\ Goto(g, "idle")
  /\ result' = [result EXCEPT ![g] = r]
  /\ call' = [call EXCEPT ![g] = Creation]
  /\ op' = [op EXCEPT ![g] = "create"]
  /\ ref' = [ref EXCEPT ![g] = NoRef]
  /\ ready' = [ready EXCEPT ![g] = 0]
  /\ done' = [done EXCEPT ![g] = FALSE]
  /\ resp' = [resp EXCEPT ![g] = "none"]

(* create and createConnect take the next worker in turn. Calls that begin *)
(* when appLive is already false are refused by submit and have no effect; *)
(* they are left out, here and in Begin.                                   *)
BeginCreate(g) ==
  /\ pc[g] = "idle" /\ appLive
  /\ nextHandle < AllocBound
  /\ rr' = (rr + 1) % WorkerCount
  /\ ref' = [ref EXCEPT ![g] = <<rr, NoRaw>>]
  /\ Goto(g, "submit")
  /\ result' = [result EXCEPT ![g] = "none"]
  /\ UNCHANGED <<callRest, call, op, opCh, resp, ready, done>>

FirstOp(k) == CASE k \in {"io", "accept"} -> "attempt"
                [] k = "wait" -> "add"
                [] OTHER -> k

(* Every other call is about a handle that has been handed out. readContext *)
(* and acceptFullContext wait for "in", writeContext for "out".             *)
Begin(g, k, p, m) ==
  /\ pc[g] = "idle" /\ appLive
  /\ p <= nextHandle
  /\ k = "accept" => m = "in" /\ nextHandle < AllocBound
  /\ k \in {"close", "wake"} => m = "in"
  /\ call' = [call EXCEPT ![g] = [kind |-> k, target |-> p, mask |-> m]]
  /\ op' = [op EXCEPT ![g] = FirstOp(k)]
  /\ Goto(g, "lookup")
  /\ result' = [result EXCEPT ![g] = "none"]
  /\ UNCHANGED <<callRest, rr, ref, opCh, resp, ready, done>>

(* How pollWaitContext ends, for a caller that only waits and for one that *)
(* retries its operation or works out why the wait was interrupted.        *)
WaitOver(g, ok) ==
  \/ /\ call[g].kind = "wait"
     /\ Return(g, IF ok THEN "true" ELSE "false")
  \/ /\ call[g].kind # "wait"
     /\ Goto(g, IF ok THEN "lookup" ELSE "interrupted")
     /\ op' = [op EXCEPT ![g] = "attempt"]
     /\ ready' = [ready EXCEPT ![g] = 0]
     /\ resp' = [resp EXCEPT ![g] = "none"]
     /\ UNCHANGED <<call, ref, done, result>>

Lookup(g) ==
  /\ pc[g] = "lookup"
  /\ \/ /\ owners[call[g].target] # NoRef
        /\ ref' = [ref EXCEPT ![g] = owners[call[g].target]]
        /\ Goto(g, "submit")
        /\ UNCHANGED <<call, op, result, ready, done, resp>>
     \/ /\ owners[call[g].target] = NoRef
        /\ IF op[g] = "add" THEN WaitOver(g, FALSE)
                            ELSE Return(g, "closed")
  /\ UNCHANGED <<callRest, rr, opCh>>

(* submit returned ErrClosed. A wait whose cancellation could not be       *)
(* delivered looks at its ready channel instead.                           *)
SubmitFailed(g) ==
  CASE op[g] = "add"    -> WaitOver(g, FALSE)
    [] op[g] = "cancel" -> WaitOver(g, ready[g] > 0)
    [] OTHER            -> Return(g, "closed")

Submit(g) ==
  /\ pc[g] = "submit"
  /\ IF stopping \/ ~appLive
     THEN SubmitFailed(g)
     ELSE Goto(g, "send") /\ UNCHANGED <<call, op, ref, result, ready, done, resp>>
  /\ UNCHANGED <<callRest, rr, opCh>>

Send(g) ==
  /\ pc[g] = "send"
  /\ Len(opCh[ref[g][1]]) < OpCap
  /\ opCh' = [opCh EXCEPT ![ref[g][1]] = Append(@, g)]
  /\ Goto(g, "answer")
  /\ UNCHANGED <<callRest, rr, call, op, ref, result, ready, done, resp>>

Quiesced(g) ==
  /\ pc[g] \in {"send", "answer"}
  /\ quiesced[ref[g][1]]
  /\ SubmitFailed(g)
  /\ UNCHANGED <<callRest, rr, opCh>>

Answer(g) ==
  /\ pc[g] = "answer"
  /\ resp[g] # "none"
  /\ \/ /\ op[g] = "add" /\ resp[g] = "ok"
        /\ Goto(g, "parked")
        /\ resp' = [resp EXCEPT ![g] = "none"]
        /\ UNCHANGED <<call, op, ref, result, ready, done>>
     \/ /\ op[g] = "add" /\ resp[g] # "ok"
        /\ WaitOver(g, FALSE)
     \/ /\ op[g] = "cancel" /\ resp[g] = "closed"
        /\ WaitOver(g, ready[g] > 0)
     \/ /\ op[g] = "cancel" /\ resp[g] # "closed"
        /\ WaitOver(g, resp[g] = "true")
     \/ /\ op[g] = "attempt" /\ resp[g] = "again"
        /\ Goto(g, "lookup")
        /\ op' = [op EXCEPT ![g] = "add"]
        /\ resp' = [resp EXCEPT ![g] = "none"]
        /\ UNCHANGED <<call, ref, result, ready, done>>
     \/ /\ op[g] \notin {"add", "cancel"} /\ resp[g] # "again"
        /\ Return(g, resp[g])
  /\ UNCHANGED <<callRest, rr, opCh>>

Parked_NoDone(g) ==  \* mutant: waits without its done channel
  /\ pc[g] = "parked"
  /\ \/ ready[g] > 0 /\ WaitOver(g, TRUE)
     \/ quiesced[ref[g][1]] /\ WaitOver(g, FALSE)
  /\ UNCHANGED <<callRest, rr, opCh>>

(* pollWaitContext's select once the waiter is registered. *)
Parked(g) ==
  /\ pc[g] = "parked"
  /\ \/ ready[g] > 0 /\ WaitOver(g, TRUE)
     \/ quiesced[ref[g][1]] /\ WaitOver(g, FALSE)
     \/ /\ done[g]
        /\ Goto(g, "submit")
        /\ op' = [op EXCEPT ![g] = "cancel"]
        /\ UNCHANGED <<call, ref, result, ready, done, resp>>
  /\ UNCHANGED <<callRest, rr, opCh>>

waitInterruptedError_Closed(g) ==  \* mutant: no lookup before ErrClosed
  /\ pc[g] = "interrupted"
  /\ Return(g, IF done[g] THEN "canceled" ELSE "closed")
  /\ UNCHANGED <<callRest, rr, opCh>>

waitInterruptedError(g) ==
  /\ pc[g] = "interrupted"
  /\ Return(g, IF ~done[g] /\ (owners[call[g].target] = NoRef \/ stopping)
               THEN "closed" ELSE "canceled")
  /\ UNCHANGED <<callRest, rr, opCh>>

(* A deadline, a context or a Close of the connection above closes done. *)
CloseDone(g) ==
  /\ call[g].kind \in {"io", "accept", "wait"} /\ pc[g] # "idle" /\ ~done[g]
  /\ done' = [done EXCEPT ![g] = TRUE]
  /\ UNCHANGED <<callRest, rr, call, pc, op, ref, result, ready, resp, opCh>>

-----------------------------------------------------------------------------
(* The worker loop and the operations it runs for the goroutines.          *)

(* The waiter object of a goroutine's current wait: whose ready channel it *)
(* carries, and its mask.                                                  *)
Waiter(g) == <<g, call[g].mask>>

combinedEvents(S) == {x[2] : x \in S}

wakeWaitSet(S) ==
  ready' = [g \in Procs |->
              ready[g] + (IF \E x \in S : x[1] = g THEN 1 ELSE 0)]

(* A wait set with the epoll interest that goes with it; the empty set is  *)
(* no set.                                                                 *)
SetTo(w, p, S, intr) ==
  /\ waiters' = [waiters EXCEPT ![w][p] = S]
  /\ interest' = [interest EXCEPT ![w][p] = intr]

Reply(g, r) == resp' = [resp EXCEPT ![g] = r]

ownedRaw_Trusting(w, g) == ref[g][2] # NoRaw  \* mutant: trusts the lookup

(* The session is still this worker's and still behind that raw handle. *)
ownedRaw(w, g) == /\ sessions[w][call[g].target] # NoRaw
                  /\ sessions[w][call[g].target] = ref[g][2]

(* A raw call on behalf of session p reaches whoever is behind the handle. *)
RawCall(w, p, raw) == misrouted' = (misrouted \/ vls[w][raw] # p)

loopRest == <<dispVars, rr, callVars, quiesced>>

(* The next virtual handle; when the handle space is used up the raw       *)
(* session is closed again.                                                *)
registerSession(w, g, raw) ==
  LET id == (nextHandle + 1) % HandleSpace
  IN /\ nextHandle' = id
     /\ IF id = 0 \/ id > MaxHandle
        THEN Reply(g, "error") /\ UNCHANGED <<owners, sessions, vls>>
        ELSE /\ Reply(g, "ok")
             /\ sessions' = [sessions EXCEPT ![w][id] = raw]
             /\ owners' = [owners EXCEPT ![id] = <<w, raw>>]
             /\ vls' = [vls EXCEPT ![w][raw] = id]

unregisterSession_Local(w, p) ==  \* mutant: forgets the owner map
  /\ sessions' = [sessions EXCEPT ![w][p] = NoRaw]
  /\ UNCHANGED owners

unregisterSession(w, p) ==
  /\ sessions' = [sessions EXCEPT ![w][p] = NoRaw]
  /\ owners' = [owners EXCEPT ![p] = NoRef]

(* VLS hands out any free index of the worker's pool. *)
FreeRaws(w) == {r \in Raws : vls[w][r] = NoPub}

OpCreate(w, g) ==
  /\ \/ Reply(g, "error") /\ UNCHANGED <<nextHandle, owners, sessions, vls>>
     \/ \E raw \in FreeRaws(w) : registerSession(w, g, raw)
  /\ UNCHANGED <<misrouted, waitVars>>

(* One non-blocking raw call: read, write, shutdown, query or accept. *)
OpAttempt(w, g) ==
  /\ \/ /\ ~ownedRaw(w, g)
        /\ Reply(g, "closed")
        /\ UNCHANGED tabVars
     \/ /\ ownedRaw(w, g)
        /\ RawCall(w, call[g].target, ref[g][2])
        /\ \/ /\ \E r \in {"again", "error", "ok"} :
                   Reply(g, r) /\ (r = "ok" => call[g].kind = "io")
              /\ UNCHANGED <<nextHandle, owners, sessions, vls>>
           \/ /\ call[g].kind = "accept"
              /\ \E raw \in FreeRaws(w) : registerSession(w, g, raw)
  /\ UNCHANGED waitVars

removeWaiters(w, p) ==
  /\ SetTo(w, p, {}, {})
  /\ wakeWaitSet(waiters[w][p])

(* An error of vls_close is reported, but the handle is gone all the same. *)
OpClose(w, g) ==
  /\ \/ /\ ~ownedRaw(w, g)
        /\ Reply(g, "closed")
        /\ UNCHANGED <<owners, sessions, vls, misrouted, waitVars>>
     \/ /\ ownedRaw(w, g)
        /\ removeWaiters(w, call[g].target)
        /\ RawCall(w, call[g].target, ref[g][2])
        /\ vls' = [vls EXCEPT ![w][ref[g][2]] = NoPub]
        /\ unregisterSession(w, call[g].target)
        /\ Reply(g, "ok") \/ Reply(g, "error")
  /\ UNCHANGED nextHandle

(* wakeVLSH takes the waiters without asking ownedRaw. *)
OpWake(w, g) ==
  /\ removeWaiters(w, call[g].target)
  /\ IF waiters[w][call[g].target] # {} THEN RawCall(w, call[g].target, ref[g][2])
                                   ELSE UNCHANGED misrouted
  /\ Reply(g, "ok")
  /\ UNCHANGED <<owners, sessions, nextHandle, vls>>

(* addWaiter: a failed EPOLL_CTL_ADD or MOD is an error for the caller.    *)
(* set.events is the union the interest was last set to.                   *)
OpAdd(w, g) ==
  LET p == call[g].target
      new == combinedEvents(waiters[w][p] \cup {Waiter(g)})
  IN /\ \/ /\ ~ownedRaw(w, g)
           /\ Reply(g, "closed")
           /\ UNCHANGED <<misrouted, waiters, interest>>
        \/ /\ ownedRaw(w, g)
           /\ combinedEvents(waiters[w][p]) # new
           /\ RawCall(w, p, ref[g][2])
           /\ \/ SetTo(w, p, waiters[w][p] \cup {Waiter(g)}, new) /\ Reply(g, "ok")
              \/ Reply(g, "error") /\ UNCHANGED <<waiters, interest>>
        \/ /\ ownedRaw(w, g)
           /\ combinedEvents(waiters[w][p]) = new
           /\ SetTo(w, p, waiters[w][p] \cup {Waiter(g)}, interest[w][p])
           /\ Reply(g, "ok")
           /\ UNCHANGED misrouted
     /\ UNCHANGED <<owners, sessions, nextHandle, vls, ready>>

(* What is left of a wait set when `gone` have been taken out and woken: a *)
(* set with the old mask, nothing or a smaller mask and a raw epoll call,  *)
(* or, when EPOLL_CTL_MOD fails, nobody at all.                            *)
Shrink(w, p, raw, gone) ==
  LET left == waiters[w][p] \ gone
      new == combinedEvents(left)
      old == combinedEvents(waiters[w][p])
  IN \/ /\ new = old
        /\ SetTo(w, p, left, interest[w][p])
        /\ wakeWaitSet(gone)
        /\ UNCHANGED misrouted
     \/ /\ new # old
        /\ SetTo(w, p, left, new)
        /\ wakeWaitSet(gone)
        /\ RawCall(w, p, raw)
     \/ /\ new # old /\ left # {}
        /\ removeWaiters(w, p)
        /\ RawCall(w, p, raw)

OpCancel(w, g) ==
  /\ \/ /\ Waiter(g) \in waiters[w][call[g].target]
        /\ Shrink(w, call[g].target, ref[g][2], {Waiter(g)})
        /\ Reply(g, "false")
     \/ /\ Waiter(g) \notin waiters[w][call[g].target]
        /\ Reply(g, IF ready[g] > 0 THEN "true" ELSE "false")
        /\ UNCHANGED <<misrouted, waitVars>>
  /\ UNCHANGED <<owners, sessions, nextHandle, vls>>

RunOp(w, g) ==
  \/ op[g] = "create" /\ OpCreate(w, g)
  \/ op[g] = "attempt" /\ OpAttempt(w, g)
  \/ op[g] = "close" /\ OpClose(w, g)
  \/ op[g] = "wake" /\ OpWake(w, g)
  \/ op[g] = "add" /\ OpAdd(w, g)
  \/ op[g] = "cancel" /\ OpCancel(w, g)

LoopTop(w) ==
  /\ wpc[w] = "top"
  /\ wpc' = [wpc EXCEPT ![w] = IF stopCh[w] THEN "quiesce" ELSE "ops"]
  /\ batch' = [batch EXCEPT ![w] = 0]
  /\ UNCHANGED <<loopRest, tabVars, waitVars, opCh, resp>>

drainOps_Silent(w) ==  \* mutant: an operation taken after stop gets no answer
  /\ wpc[w] = "ops"
  /\ \/ /\ opCh[w] # <<>> /\ batch[w] < BatchLimit
        /\ opCh' = [opCh EXCEPT ![w] = Tail(@)]
        /\ batch' = [batch EXCEPT ![w] = @ + 1]
        /\ IF stopping \/ ~appLive
           THEN UNCHANGED <<tabVars, waitVars, resp>>
           ELSE RunOp(w, Head(opCh[w]))
        /\ UNCHANGED wpc
     \/ /\ opCh[w] = <<>> \/ batch[w] = BatchLimit
        /\ wpc' = [wpc EXCEPT ![w] = "events"]
        /\ UNCHANGED <<opCh, batch, tabVars, waitVars, resp>>
  /\ UNCHANGED loopRest

drainOps(w) ==
  /\ wpc[w] = "ops"
  /\ \/ /\ opCh[w] # <<>> /\ batch[w] < BatchLimit
        /\ opCh' = [opCh EXCEPT ![w] = Tail(@)]
        /\ batch' = [batch EXCEPT ![w] = @ + 1]
        /\ \/ /\ stopping \/ ~appLive
              /\ Reply(Head(opCh[w]), "closed")
              /\ UNCHANGED <<tabVars, waitVars>>
           \/ /\ ~stopping /\ appLive
              /\ RunOp(w, Head(opCh[w]))
        /\ UNCHANGED wpc
     \/ /\ opCh[w] = <<>> \/ batch[w] = BatchLimit
        /\ wpc' = [wpc EXCEPT ![w] = "events"]
        /\ UNCHANGED <<opCh, batch, tabVars, waitVars, resp>>
  /\ UNCHANGED loopRest

(* epoll_wait (10 ms, or 0 after a full batch) and handleEvent. Only the   *)
(* worker itself touches its wait sets, so an event is taken and handled   *)
(* in one step. A set whose session has gone is deleted without waking who *)
(* is left in it.                                                          *)
handleEvent(w, p, evs, terminal) ==
  /\ wpc[w] = "events"
  /\ interest[w][p] # {} /\ evs \subseteq interest[w][p]
  /\ terminal \/ evs # {}
  /\ waiters[w][p] # {}
  /\ LET gone == {x \in waiters[w][p] : terminal \/ x[2] \in evs}
     IN IF sessions[w][p] # NoRaw
        THEN Shrink(w, p, sessions[w][p], gone)
        ELSE /\ SetTo(w, p, {}, interest[w][p])
             /\ wakeWaitSet(gone)
             /\ UNCHANGED misrouted
  /\ UNCHANGED <<loopRest, owners, sessions, nextHandle, vls, wpc, batch, opCh,
                 resp>>

LoopEnd(w) ==
  /\ wpc[w] = "events"
  /\ wpc' = [wpc EXCEPT ![w] = "top"]
  /\ UNCHANGED <<loopRest, tabVars, waitVars, batch, opCh, resp>>

-----------------------------------------------------------------------------
(* quiesce.                                                                *)

wakeAllWaiters(w) ==
  /\ wpc[w] = "quiesce"
  /\ wpc' = [wpc EXCEPT ![w] = "closing"]
  /\ wakeWaitSet(UNION {waiters[w][p] : p \in Pubs})
  /\ waiters' = [waiters EXCEPT ![w] = [p \in Pubs |-> {}]]
  /\ interest' = [interest EXCEPT ![w] = [p \in Pubs |->
                    IF sessions[w][p] # NoRaw THEN {} ELSE interest[w][p]]]
  /\ UNCHANGED <<loopRest, tabVars, batch, opCh, resp>>

(* Close and unregister session after session, in map order; then the      *)
(* close notifications are drained and the epoll handle is closed.         *)
QuiesceClose(w) ==
  /\ wpc[w] = "closing"
  /\ \/ \E p \in Pubs :
          /\ sessions[w][p] # NoRaw
          /\ RawCall(w, p, sessions[w][p])
          /\ vls' = [vls EXCEPT ![w][sessions[w][p]] = NoPub]
          /\ unregisterSession(w, p)
          /\ UNCHANGED <<nextHandle, wpc>>
     \/ /\ \A p \in Pubs : sessions[w][p] = NoRaw
        /\ wpc' = [wpc EXCEPT ![w] = "drain"]
        /\ UNCHANGED tabVars
  /\ UNCHANGED <<loopRest, waitVars, batch, opCh, resp>>

(* Refuse what is still queued. *)
QuiesceDrain(w) ==
  /\ wpc[w] = "drain"
  /\ \/ /\ opCh[w] # <<>>
        /\ opCh' = [opCh EXCEPT ![w] = Tail(@)]
        /\ Reply(Head(opCh[w]), "closed")
        /\ UNCHANGED wpc
     \/ /\ opCh[w] = <<>>
        /\ wpc' = [wpc EXCEPT ![w] = "drained"]
        /\ UNCHANGED <<opCh, resp>>
  /\ UNCHANGED <<loopRest, tabVars, waitVars, batch>>

(* close(quiesced). A worker other than the bootstrap still unregisters    *)
(* its thread; the bootstrap parks until destroyCh.                        *)
CloseQuiesced(w) ==
  /\ wpc[w] = "drained"
  /\ quiesced' = [quiesced EXCEPT ![w] = TRUE]
  /\ wpc' = [wpc EXCEPT ![w] = IF w = 0 THEN "parked" ELSE "unregister"]
  /\ UNCHANGED <<dispVars, rr, callVars, tabVars, waitVars, batch, opCh, resp>>

(* rawUnregisterWorker; a failure is only counted. *)
Unregister(w) ==
  /\ wpc[w] = "unregister"
  /\ wpc' = [wpc EXCEPT ![w] = "exited"]
  /\ UNCHANGED <<loopRest, tabVars, waitVars, batch, opCh, resp>>

-----------------------------------------------------------------------------
CallStep(g) ==
  \/ Lookup(g) \/ Submit(g) \/ Quiesced(g) \/ Answer(g) \/ Parked(g)
  \/ waitInterruptedError(g)

WorkerStep(w) ==
  \/ WorkerStart(w) \/ LoopTop(w) \/ drainOps(w) \/ LoopEnd(w)
  \/ wakeAllWaiters(w) \/ QuiesceClose(w) \/ QuiesceDrain(w)
  \/ CloseQuiesced(w) \/ Unregister(w)

StopStep == Stop \/ StopReturn \/ appDestroy

Next ==
  \/ \E w \in Workers : InitWorker(w) \/ WorkerStep(w)
  \/ \E w \in Workers, p \in Pubs, evs \in SUBSET Events, t \in BOOLEAN :
       handleEvent(w, p, evs, t)
  \/ InitReady \/ beginShutdown \/ StopStep
  \/ \E g \in Procs : BeginCreate(g) \/ CallStep(g) \/ Send(g) \/ CloseDone(g)
  \/ \E g \in Procs, k \in CallKinds, p \in Pubs, m \in Events : Begin(g, k, p, m)

Spec == Init /\ [][Next]_vars

(* Runnable goroutines run and epoll_wait returns within 10 ms. A goroutine *)
(* blocked on a full opCh is queued first in, first out by the channel, so  *)
(* it is not overtaken for ever: strong fairness of Send. Nobody has to     *)
(* call, cancel or shut down, and no event has to come.                     *)
Fairness ==
  /\ \A w \in Workers : WF_vars(InitWorker(w)) /\ WF_vars(WorkerStep(w))
  /\ WF_vars(InitReady) /\ WF_vars(StopStep)
  /\ \A g \in Procs : WF_vars(CallStep(g)) /\ SF_vars(Send(g))

FairSpec == Spec /\ Fairness
-----------------------------------------------------------------------------
(* Properties.                                                             *)

(* The tables agree: a public handle in the owner map names the worker and *)
(* the raw handle behind which that very session lives, no worker has a    *)
(* session the map does not have, and nothing occupies a raw handle that   *)
(* no public handle names. A wait set belongs to a session its worker      *)
(* still has (handleEvent would delete one without a session and wake      *)
(* nobody), and VLS epoll is told the union of what its members asked for. *)
TablesAgree ==
  /\ TypeOK
  /\ \A p \in Pubs, w \in Workers :
       /\ sessions[w][p] # NoRaw <=> owners[p][2] # NoRaw /\ owners[p][1] = w
       /\ sessions[w][p] # NoRaw => /\ owners[p] = <<w, sessions[w][p]>>
                                    /\ vls[w][sessions[w][p]] = p
       /\ waiters[w][p] # {} => sessions[w][p] # NoRaw
       /\ interest[w][p] = combinedEvents(waiters[w][p])
  /\ \A w \in Workers, r \in Raws :
       vls[w][r] # NoPub => sessions[w][vls[w][r]] = r

(* No raw VLS call ever reaches a session other than the one the caller    *)
(* named, although raw handles are reused at once and the owner a call     *)
(* looked up may be stale when its operation runs.                         *)
RawCallsHitTheirSession == ~misrouted

(* Nobody is stranded. An operation that has been handed over in submit is *)
(* answered, or still in the queue of a worker that goes on to answer it   *)
(* or to close quiesced, which releases who is blocked on a full queue or  *)
(* slipped in behind the last drain. And a worker holds exactly the        *)
(* waiters that are being waited on: a parked goroutine nobody woke is in  *)
(* the wait set of its session, and, while the application is live, one    *)
(* that has returned from its wait, been woken or been cancelled is in     *)
(* none.                                                                   *)
NobodyStranded ==
  /\ \A g \in Procs : LET w == ref[g][1] IN
       /\ pc[g] \in {"send", "answer"} /\ resp[g] = "none" /\ ~quiesced[w] =>
            /\ wpc[w] \notin {"absent", "failed", "unregister", "exited",
                              "parked", "destroyed"}
            /\ pc[g] = "answer" => \E i \in DOMAIN opCh[w] : opCh[w][i] = g
       /\ pc[g] = "parked" /\ ready[g] = 0 /\ ~quiesced[w]
            => Waiter(g) \in waiters[w][call[g].target]
  /\ \A w \in Workers, p \in Pubs, g \in Procs, m \in Events :
       <<g, m>> \in waiters[w][p] =>
         /\ ready[g] = 0
         /\ appLive => /\ call[g].target = p /\ call[g].mask = m
                       /\ ref[g][1] = w
                       /\ op[g] \in {"add", "cancel"}
                       /\ pc[g] \in {"submit", "send", "answer", "parked"}

(* ErrClosed is the truth: when a call returns it, the session the call    *)
(* named is gone or the application is going down.                         *)
ClosedMeansClosed ==
  [][\A g \in Procs :
       pc[g] # "idle" /\ pc'[g] = "idle" /\ result'[g] = "closed" =>
         \/ ~appLive \/ stopping
         \/ call[g].target # NoPub /\ owners[call[g].target] = NoRef]_vars

(* What the callers see of the dispatcher is a store of sessions: its open *)
(* sessions are the handles in the owner map, a handle is used once the    *)
(* counter has passed it, and a call has had its step when a worker has    *)
(* answered an operation that ends it.                                     *)
LiveBar == {p \in Pubs : owners[p] # NoRef}

UsedBar == {p \in Pubs : p <= nextHandle}

ModeBar == CASE appLive -> "up"
             [] ~appLive /\ ipc \in {"register", "ready"} -> "init"
             [] OTHER -> "down"

RequestBar == [g \in Procs |-> [kind |-> call[g].kind, target |-> call[g].target]]

StatusOf(g) ==
  CASE pc[g] = "idle" -> "idle"
    [] pc[g] # "idle" /\ (op[g] \in {"add", "cancel"} \/ resp[g] \in {"none", "again"})
         -> "pending"
    [] OTHER -> resp[g]

StatusBar == [g \in Procs |-> StatusOf(g)]

Store == INSTANCE SessionStore WITH
  Handles <- Pubs, NoHandle <- NoPub, Callers <- Procs,
  live <- LiveBar, used <- UsedBar, mode <- ModeBar,
  request <- RequestBar, status <- StatusBar

(* The dispatcher implements the store: every call takes effect at most    *)
(* once, in one step of the worker that owns the session, on the session   *)
(* it named and only while that is open; handles are never given out       *)
(* twice; sessions vanish only by their close or in a shutdown; and        *)
(* ErrClosed is the truth.                                                 *)
ImplementsSessionStore == Store!Spec

(* The application is destroyed last: every other worker has closed its    *)
(* sessions and unregistered, and no operation is left that would run.     *)
DestroyedLast ==
  wpc[0] = "destroyed" =>
    /\ \A w \in workers \ {0} : wpc[w] = "exited"
    /\ \A w \in Workers : \A r \in Raws : vls[w][r] = NoPub
    /\ \A p \in Pubs : owners[p] = NoRef

(* A cancelled wait ends, whatever its worker is doing, and shutdown ends  *)
(* every call: no goroutine stays parked on a worker that is gone.         *)
CallsEnd ==
  \A g \in Procs :
    /\ call[g].kind = "wait" /\ done[g] ~> pc[g] = "idle"
    /\ stopping /\ pc[g] # "idle" ~> pc[g] = "idle"

(* appInit ends, well or badly, and a stop runs through to the destruction *)
(* of the application, whichever worker failed to start.                   *)
StopCompletes ==
  /\ <>(ipc \in {"live", "failing"})
  /\ (ipc = "failing" \/ spc = "stop") ~> spc = "destroyed"
=============================================================================
