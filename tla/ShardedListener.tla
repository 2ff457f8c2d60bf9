-------------------------- MODULE ShardedListener --------------------------
(***************************************************************************)
(* A Mode 2 listener (internal/vclpoll/shard_listener.go): one VLS         *)
(* listener per worker, one accept goroutine per listener, and a bounded   *)
(* channel acceptC on which all of them hand their sessions to the callers *)
(* of Accept. One listener is created, used and closed while the           *)
(* dispatcher may stop its workers.                                        *)
(*                                                                         *)
(* submit is taken by its promise (module Mode2): the operation runs on    *)
(* the worker in one step unless the dispatcher is stopping, and its       *)
(* answer may be lost once the worker is quiesced.                         *)
(***************************************************************************)
EXTENDS Naturals, Sequences, FiniteSets

CONSTANTS WorkerCount,  \* shards are 1..WorkerCount
          Peers, Home,  \* connections that come in, and VPP's choice of the
                        \* worker whose listener gets each
          Acceptors,    \* goroutines that call acceptFullContext
          AcceptCap,    \* capacity of acceptC (4 per shard in the code)
          NoPeer, Err   \* no connection; an error on acceptC

ASSUME ShardedAssumption ==
  /\ WorkerCount \in Nat \ {0} /\ AcceptCap \in Nat \ {0}
  /\ Home \in [Peers -> 1 .. WorkerCount]
  /\ NoPeer \notin Peers /\ Err \notin Peers /\ NoPeer # Err

Workers == 1 .. WorkerCount

VARIABLES
  (* the goroutine that creates and later closes the listener: position, the *)
  (* shard it is at, the length of shards; the entry in owners               *)
  lpc, at, made, owned,
  (* accept loops: position, the session a loop holds, its ready channel    *)
  apc, hold, ready,
  (* channels *)
  acceptC, stopCh, quiesced,
  (* workers: the entry ^raw in sessions, the wait set under that key, what *)
  (* epoll was told, the stop sequence                                      *)
  key, waiters, interest, stopping, wpc,
  (* VLS: the listeners, their backlogs, the accepted sessions, and whether *)
  (* a raw listener was ever closed twice                                   *)
  raw, pend, session, closedTwice,
  (* callers of acceptFullContext and what the application was given        *)
  cpc, got

listenerVars == <<lpc, at, made, owned>>
loopVars == <<apc, hold, ready>>
workerVars == <<key, waiters, interest>>
stopVars == <<stopping, wpc, quiesced>>
vlsVars == <<raw, pend, session, closedTwice>>
callVars == <<cpc, got>>
vars == <<listenerVars, loopVars, acceptC, stopCh, workerVars, stopVars,
          vlsVars, callVars>>

TypeOK ==
  /\ lpc \in {"create", "reply", "cleanup", "failed", "live", "wait", "drain",
              "shards", "delete", "closed"}
  /\ at \in 1 .. WorkerCount + 1
  /\ made \in 0 .. WorkerCount
  /\ owned \in BOOLEAN
  /\ apc \in [Workers -> {"off", "top", "accept", "reply", "send", "sendErr",
                          "add", "parked", "cancel", "done"}]
  /\ hold \in [Workers -> Peers \cup {NoPeer}]
  /\ ready \in [Workers -> BOOLEAN]
  /\ acceptC \in Seq(Peers \cup {Err}) /\ Len(acceptC) <= AcceptCap
  /\ stopCh \in BOOLEAN
  /\ quiesced \in [Workers -> BOOLEAN]
  /\ key \in [Workers -> BOOLEAN]
  /\ waiters \in [Workers -> BOOLEAN]
  /\ interest \in [Workers -> BOOLEAN]
  /\ stopping \in BOOLEAN
  /\ wpc \in [Workers -> {"loop", "drain", "gone"}]
  /\ raw \in [Workers -> {"none", "open", "closed"}]
  /\ pend \in [Workers -> SUBSET Peers]
  /\ session \in [Peers -> {"none", "open", "closed"}]
  /\ closedTwice \in BOOLEAN
  /\ cpc \in [Acceptors -> {"idle", "select"}]
  /\ got \subseteq Peers

Init ==
  /\ lpc = "create" /\ at = 1 /\ made = 0 /\ owned = FALSE
  /\ apc = [w \in Workers |-> "off"]
  /\ hold = [w \in Workers |-> NoPeer]
  /\ ready = [w \in Workers |-> FALSE]
  /\ acceptC = <<>> /\ stopCh = FALSE
  /\ quiesced = [w \in Workers |-> FALSE]
  /\ key = [w \in Workers |-> FALSE]
  /\ waiters = [w \in Workers |-> FALSE]
  /\ interest = [w \in Workers |-> FALSE]
  /\ stopping = FALSE
  /\ wpc = [w \in Workers |-> "loop"]
  /\ raw = [w \in Workers |-> "none"]
  /\ pend = [w \in Workers |-> {}]
  /\ session = [p \in Peers |-> "none"]
  /\ closedTwice = FALSE
  /\ cpc = [a \in Acceptors |-> "idle"]
  /\ got = {}

-----------------------------------------------------------------------------
(* VLS, as far as listeners use it.                                        *)

(* A connection comes in on the listener of its worker. *)
Arrive(p) ==
  /\ session[p] = "none" /\ raw[Home[p]] = "open" /\ p \notin pend[Home[p]]
  /\ pend' = [pend EXCEPT ![Home[p]] = @ \cup {p}]
  /\ UNCHANGED <<listenerVars, loopVars, acceptC, stopCh, workerVars, stopVars,
                 callVars, raw, session, closedTwice>>

(* rawClose of the listeners of ws; their backlogs are reset. *)
rawClose(ws) ==
  /\ raw' = [w \in Workers |-> IF w \in ws THEN "closed" ELSE raw[w]]
  /\ closedTwice' = (closedTwice \/ \E w \in ws : raw[w] # "open")
  /\ pend' = [w \in Workers |-> IF w \in ws THEN {} ELSE pend[w]]

-----------------------------------------------------------------------------
(* newShardedListener: one listener per worker, in order; if one cannot be *)
(* made, closeShards closes those that were.                               *)

CreateShard ==
  /\ lpc = "create" /\ at <= WorkerCount
  /\ \/ /\ ~stopping
        /\ raw' = [raw EXCEPT ![at] = "open"]
        /\ lpc' = "reply"
        /\ UNCHANGED at
     \/ (* createFn fails, or submit is refused *)
        /\ lpc' = "cleanup" /\ at' = 1
        /\ UNCHANGED raw
  /\ UNCHANGED <<made, owned, loopVars, acceptC, stopCh, workerVars, stopVars,
                 callVars, pend, session, closedTwice>>

(* The answer, or the end of the worker instead of it. *)
ShardReply ==
  /\ lpc = "reply"
  /\ \/ lpc' = "create" /\ at' = at + 1 /\ made' = at
     \/ quiesced[at] /\ lpc' = "cleanup" /\ at' = 1 /\ UNCHANGED made
  /\ UNCHANGED <<owned, loopVars, acceptC, stopCh, workerVars, stopVars,
                 callVars, vlsVars>>

closeShards ==
  /\ lpc = "cleanup"
  /\ \/ /\ at <= made
        /\ at' = at + 1
        /\ \/ ~stopping /\ rawClose({at})
           \/ stopping /\ UNCHANGED <<raw, pend, closedTwice>>
        /\ UNCHANGED lpc
     \/ /\ at > made
        /\ lpc' = "failed"
        /\ UNCHANGED <<at, raw, pend, closedTwice>>
  /\ UNCHANGED <<made, owned, loopVars, acceptC, stopCh, workerVars, stopVars,
                 callVars, session>>

startAcceptLoops ==
  /\ lpc = "create" /\ at > WorkerCount
  /\ lpc' = "live"
  /\ owned' = TRUE
  /\ apc' = [w \in Workers |-> "top"]
  /\ UNCHANGED <<at, made, hold, ready, acceptC, stopCh, workerVars, stopVars,
                 callVars, vlsVars>>

-----------------------------------------------------------------------------
(* acceptLoop of the shard on worker w.                                    *)

loopRest == <<listenerVars, stopCh, stopVars, callVars>>

Goto(w, to) == apc' = [apc EXCEPT ![w] = to]

LoopTop(w) ==
  /\ apc[w] = "top"
  /\ Goto(w, IF stopCh \/ quiesced[w] THEN "done" ELSE "accept")
  /\ UNCHANGED <<loopRest, hold, ready, acceptC, workerVars, raw, pend, session,
                 closedTwice>>

(* The accept operation on the worker: a session, EAGAIN, or an error (VLS, *)
(* exhausted handles, submit refused).                                      *)
AcceptOp(w) ==
  /\ apc[w] = "accept"
  /\ \/ /\ ~stopping
        /\ \E p \in pend[w] :
             /\ pend' = [pend EXCEPT ![w] = @ \ {p}]
             /\ \/ /\ session' = [session EXCEPT ![p] = "open"]
                   /\ hold' = [hold EXCEPT ![w] = p]
                   /\ Goto(w, "reply")
                \/ (* registerSession fails and closes it *)
                   /\ session' = [session EXCEPT ![p] = "closed"]
                   /\ Goto(w, "sendErr")
                   /\ UNCHANGED hold
     \/ /\ ~stopping /\ pend[w] = {}
        /\ Goto(w, "add")
        /\ UNCHANGED <<pend, session, hold>>
     \/ /\ Goto(w, "sendErr")
        /\ UNCHANGED <<pend, session, hold>>
  /\ UNCHANGED <<loopRest, ready, acceptC, workerVars, raw, closedTwice>>

(* submit's second select: the answer, or ErrClosed if the worker is gone, *)
(* in which case its quiesce has closed the session.                       *)
AcceptReply(w) ==
  /\ apc[w] = "reply"
  /\ \/ Goto(w, "send") /\ UNCHANGED hold
     \/ quiesced[w] /\ Goto(w, "sendErr") /\ hold' = [hold EXCEPT ![w] = NoPeer]
  /\ UNCHANGED <<loopRest, ready, acceptC, workerVars, raw, pend, session,
                 closedTwice>>

(* Hand the session over. A stop in between makes the loop return with the *)
(* session still open: hold keeps it.                                      *)
SendDeaf(w) ==  \* mutant: the send does not look at stopCh
  /\ apc[w] = "send"
  /\ Len(acceptC) < AcceptCap
  /\ acceptC' = Append(acceptC, hold[w])
  /\ hold' = [hold EXCEPT ![w] = NoPeer]
  /\ Goto(w, "top")
  /\ UNCHANGED <<loopRest, ready, workerVars, raw, pend, session, closedTwice>>

Send(w) ==
  /\ apc[w] = "send"
  /\ \/ /\ Len(acceptC) < AcceptCap
        /\ acceptC' = Append(acceptC, hold[w])
        /\ hold' = [hold EXCEPT ![w] = NoPeer]
        /\ Goto(w, "top")
     \/ stopCh /\ Goto(w, "done") /\ UNCHANGED <<acceptC, hold>>
  /\ UNCHANGED <<loopRest, ready, workerVars, raw, pend, session, closedTwice>>

(* The loop reports an error and ends; the shard stays open without it. *)
SendErr(w) ==
  /\ apc[w] = "sendErr"
  /\ \/ Len(acceptC) < AcceptCap /\ acceptC' = Append(acceptC, Err)
     \/ stopCh /\ UNCHANGED acceptC
  /\ Goto(w, "done")
  /\ UNCHANGED <<loopRest, hold, ready, workerVars, raw, pend, session,
                 closedTwice>>

addWaiterRaw_ByKey(w) ==  \* mutant: takes the session key for the wait set
  /\ key' = [key EXCEPT ![w] = TRUE]
  /\ waiters' = [waiters EXCEPT ![w] = TRUE]
  /\ interest' = [interest EXCEPT ![w] = @ \/ ~key[w]]

addWaiterRaw(w) ==
  /\ key' = [key EXCEPT ![w] = TRUE]
  /\ \/ /\ waiters' = [waiters EXCEPT ![w] = TRUE]
        /\ interest' = [interest EXCEPT ![w] = TRUE]
     \/ ~waiters[w] /\ UNCHANGED <<waiters, interest>>  \* EPOLL_CTL_ADD fails

(* A new waiter; when it cannot be registered, look at the channels and    *)
(* try to accept again.                                                    *)
AddWaiter(w) ==
  /\ apc[w] = "add"
  /\ ready' = [ready EXCEPT ![w] = FALSE]
  /\ \/ ~stopping /\ addWaiterRaw(w)
     \/ stopping /\ UNCHANGED workerVars
  /\ Goto(w, IF ~stopping /\ waiters'[w] THEN "parked" ELSE "top")
  /\ UNCHANGED <<loopRest, hold, acceptC, raw, pend, session, closedTwice>>

Parked(w) ==
  /\ apc[w] = "parked"
  /\ \/ ready[w] /\ Goto(w, "top")
     \/ stopCh /\ Goto(w, "cancel")
     \/ quiesced[w] /\ Goto(w, "done")
  /\ UNCHANGED <<loopRest, hold, ready, acceptC, workerVars, raw, pend, session,
                 closedTwice>>

(* The operation that takes the waiter out again; submit may refuse it. *)
cancelWaiterRaw(w) ==
  /\ apc[w] = "cancel"
  /\ IF ~stopping /\ waiters[w]
     THEN /\ waiters' = [waiters EXCEPT ![w] = FALSE]
          /\ interest' = [interest EXCEPT ![w] = FALSE]
          /\ key' = [key EXCEPT ![w] = FALSE]
          /\ ready' = [ready EXCEPT ![w] = TRUE]
     ELSE UNCHANGED <<workerVars, ready>>
  /\ Goto(w, "done")
  /\ UNCHANGED <<loopRest, hold, acceptC, raw, pend, session, closedTwice>>

-----------------------------------------------------------------------------
(* Workers.                                                                *)

workerRest == <<listenerVars, apc, hold, acceptC, stopCh, callVars>>

(* An event of the listener. The wait set goes, the key stays. *)
handleEvent(w) ==
  /\ wpc[w] = "loop"
  /\ interest[w] /\ waiters[w] /\ pend[w] # {}
  /\ waiters' = [waiters EXCEPT ![w] = FALSE]
  /\ interest' = [interest EXCEPT ![w] = FALSE]
  /\ ready' = [ready EXCEPT ![w] = TRUE]
  /\ UNCHANGED <<workerRest, key, stopVars, raw, pend, session, closedTwice>>

Stop ==
  /\ ~stopping
  /\ stopping' = TRUE
  /\ UNCHANGED <<workerRest, ready, workerVars, wpc, quiesced, raw, pend,
                 session, closedTwice>>

(* quiesce: wake the waiters, close everything in the session table (a     *)
(* listener only if its key is there), ...                                 *)
Quiesce(w) ==
  /\ stopping /\ wpc[w] = "loop"
  /\ wpc' = [wpc EXCEPT ![w] = "drain"]
  /\ ready' = [ready EXCEPT ![w] = @ \/ waiters[w]]
  /\ waiters' = [waiters EXCEPT ![w] = FALSE]
  /\ interest' = [interest EXCEPT ![w] = FALSE]
  /\ session' = [p \in Peers |-> IF session[p] = "open" /\ Home[p] = w
                                 THEN "closed" ELSE session[p]]
  /\ rawClose(IF key[w] THEN {w} ELSE {})
  /\ key' = [key EXCEPT ![w] = FALSE]
  /\ UNCHANGED <<workerRest, stopping, quiesced>>

(* ... drain, and close the quiesced channel. *)
CloseQuiesced(w) ==
  /\ wpc[w] = "drain"
  /\ wpc' = [wpc EXCEPT ![w] = "gone"]
  /\ quiesced' = [quiesced EXCEPT ![w] = TRUE]
  /\ UNCHANGED <<workerRest, ready, workerVars, stopping, raw, pend, session,
                 closedTwice>>

-----------------------------------------------------------------------------
(* shardedAcceptFullContext.                                               *)

callRest == <<listenerVars, loopVars, stopCh, workerVars, stopVars, vlsVars>>

(* A handle that is no longer in owners is refused. *)
Accept(a) ==
  /\ cpc[a] = "idle" /\ owned
  /\ cpc' = [cpc EXCEPT ![a] = "select"]
  /\ UNCHANGED <<callRest, acceptC, got>>

(* A select takes any case that is ready. *)
AcceptSelect(a) ==
  /\ cpc[a] = "select"
  /\ \/ /\ acceptC # <<>>
        /\ acceptC' = Tail(acceptC)
        /\ got' = got \cup ({Head(acceptC)} \ {Err})
     \/ stopCh /\ UNCHANGED <<acceptC, got>>
  /\ cpc' = [cpc EXCEPT ![a] = "idle"]
  /\ UNCHANGED callRest

(* The case <-done: the caller's context or deadline ends the call. *)
AcceptDone(a) ==
  /\ cpc[a] = "select"
  /\ cpc' = [cpc EXCEPT ![a] = "idle"]
  /\ UNCHANGED <<callRest, acceptC, got>>

-----------------------------------------------------------------------------
(* closeShardedListener.                                                   *)

closeRest == <<made, owned, loopVars, stopVars, callVars>>

Close ==
  /\ lpc = "live"
  /\ stopCh' = TRUE
  /\ lpc' = "wait"
  /\ UNCHANGED <<closeRest, at, acceptC, workerVars, raw, pend, session,
                 closedTwice>>

WaitLoops ==
  /\ lpc = "wait"
  /\ \A w \in Workers : apc[w] = "done"
  /\ lpc' = "drain"
  /\ UNCHANGED <<closeRest, stopCh, at, acceptC, workerVars, raw, pend, session,
                 closedTwice>>

Drain_Leaks ==  \* mutant: empties the channel without closing the sessions
  /\ lpc = "drain"
  /\ IF acceptC # <<>>
     THEN acceptC' = Tail(acceptC) /\ UNCHANGED <<lpc, at>>
     ELSE lpc' = "shards" /\ at' = 1 /\ UNCHANGED acceptC
  /\ UNCHANGED <<closeRest, stopCh, workerVars, raw, pend, session, closedTwice>>

(* Close what nobody accepted; submit refuses when the workers stop, whose *)
(* quiesce then closes the session.                                        *)
Drain ==
  /\ lpc = "drain"
  /\ \/ /\ acceptC # <<>>
        /\ acceptC' = Tail(acceptC)
        /\ session' = IF Head(acceptC) # Err /\ ~stopping
                      THEN [session EXCEPT ![Head(acceptC)] = "closed"]
                      ELSE session
        /\ UNCHANGED <<lpc, at>>
     \/ /\ acceptC = <<>>
        /\ lpc' = "shards" /\ at' = 1
        /\ UNCHANGED <<acceptC, session>>
  /\ UNCHANGED <<closeRest, stopCh, workerVars, raw, pend, closedTwice>>

removeWaitersRaw_KeepsKey(w) ==  \* mutant: the sessions entry stays
  /\ waiters' = [waiters EXCEPT ![w] = FALSE]
  /\ interest' = [interest EXCEPT ![w] = FALSE]
  /\ UNCHANGED key

removeWaitersRaw(w) ==
  /\ waiters' = [waiters EXCEPT ![w] = FALSE]
  /\ interest' = [interest EXCEPT ![w] = FALSE]
  /\ key' = [key EXCEPT ![w] = FALSE]

CloseShard ==
  /\ lpc = "shards"
  /\ \/ /\ at \in Workers /\ ~stopping
        /\ removeWaitersRaw(at)
        /\ rawClose({at})
        /\ at' = at + 1 /\ UNCHANGED lpc
     \/ /\ at \in Workers /\ stopping
        /\ at' = at + 1
        /\ UNCHANGED <<lpc, workerVars, raw, pend, closedTwice>>
     \/ /\ at \notin Workers
        /\ lpc' = "delete"
        /\ UNCHANGED <<at, workerVars, raw, pend, closedTwice>>
  /\ UNCHANGED <<closeRest, acceptC, stopCh, session>>

DeleteOwner ==
  /\ lpc = "delete"
  /\ owned' = FALSE
  /\ lpc' = "closed"
  /\ UNCHANGED <<at, made, loopVars, acceptC, stopCh, workerVars, stopVars,
                 vlsVars, callVars>>

-----------------------------------------------------------------------------
LoopStep(w) ==
  \/ LoopTop(w) \/ AcceptOp(w) \/ AcceptReply(w) \/ Send(w) \/ SendErr(w)
  \/ AddWaiter(w) \/ Parked(w) \/ cancelWaiterRaw(w)

WorkerStep(w) == handleEvent(w) \/ Quiesce(w) \/ CloseQuiesced(w)

CloseStep == WaitLoops \/ Drain \/ CloseShard \/ DeleteOwner

Next ==
  \/ CreateShard \/ ShardReply \/ closeShards \/ startAcceptLoops
  \/ \E w \in Workers : LoopStep(w) \/ WorkerStep(w)
  \/ \E a \in Acceptors : Accept(a) \/ AcceptSelect(a) \/ AcceptDone(a)
  \/ \E p \in Peers : Arrive(p)
  \/ Stop \/ Close \/ CloseStep

Spec == Init /\ [][Next]_vars

(* Runnable goroutines run, workers keep polling and quiesce when told to. *)
(* Nobody has to connect, accept, close or stop.                           *)
Fairness ==
  /\ \A w \in Workers : WF_vars(LoopStep(w)) /\ WF_vars(WorkerStep(w))
  /\ \A a \in Acceptors : WF_vars(AcceptSelect(a))
  /\ WF_vars(CloseStep)

FairSpec == Spec /\ Fairness
-----------------------------------------------------------------------------
(* Properties.                                                             *)

(* Every accepted session that is open is in exactly one place: held by    *)
(* the loop that accepted it, on acceptC, or with the application. None is *)
(* lost on the way through the fan-in or delivered twice, and the drain of *)
(* closeShardedListener is final: it closes what nobody fetched, and       *)
(* nothing is on acceptC after it, where nobody would look again. (A loop  *)
(* that is told to stop while it holds one ends with it: hold keeps naming *)
(* the session the code leaks. Once the workers stop, what submit refuses  *)
(* to close is left to their quiesce.)                                     *)
AcceptedIsSomewhere ==
  /\ TypeOK
  /\ \A p \in Peers : session[p] = "open" =>
       LET places == Cardinality({i \in DOMAIN acceptC : acceptC[i] = p})
                     + Cardinality({w \in Workers : hold[w] = p})
                     + (IF p \in got THEN 1 ELSE 0)
       IN  places = 1 \/ (stopping /\ places = 0)
  /\ lpc \in {"shards", "delete", "closed"} => acceptC = <<>>

(* Every raw listener is closed, and once: its index is free for another   *)
(* session at once, which a second rawClose, by closeShardedListener or by *)
(* the worker that quiesces, would hit. With live workers, a listener that *)
(* failed to open or has been closed leaves nothing behind: no VLS         *)
(* listener, no wait set, no session entry.                                *)
RawClosedOnce ==
  /\ ~closedTwice
  /\ lpc \in {"failed", "closed"} /\ ~stopping =>
       \A w \in Workers : raw[w] # "open" /\ ~key[w] /\ ~waiters[w]

(* A parked loop hears of a connection, also the second and third time it  *)
(* parks, when the entry ^raw is in the session table already.             *)
ParkedLoopWakes ==
  \A w \in Workers :
    apc[w] = "parked" /\ pend[w] # {} ~> apc[w] # "parked" \/ stopping

(* Close returns, with loops anywhere and acceptC full, workers running or *)
(* stopping, and releases every caller of Accept, deadline or not.         *)
CloseReturns ==
  lpc = "wait" ~> lpc = "closed" /\ \A a \in Acceptors : cpc[a] = "idle"
=============================================================================
