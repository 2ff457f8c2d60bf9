-------------------------------- MODULE Dial --------------------------------
(***************************************************************************)
(* dialHappyEyeballs (dialer.go): the goroutine that starts one attempt    *)
(* after the other, each attempt (dialSingleTCP, finishConnect,            *)
(* connectWait) with its error poller, and the cleanup goroutine that      *)
(* closes the connections of the losers.                                   *)
(*                                                                         *)
(* VLS answers a connect at once, later, or never. It may record a failure *)
(* without an event (the case connectWait's error poller is there for).    *)
(* PollWaitContext is taken by its promise (modules Poller and Mode2): it  *)
(* ends when its waiter is woken or its channel closes, and a waiter is    *)
(* woken by an event, by WakeVLSH on its handle, or because it could not   *)
(* be registered.                                                          *)
(***************************************************************************)
EXTENDS Integers, Sequences, FiniteSets

CONSTANTS AttemptCount  \* addresses: attempts are 1..AttemptCount

ASSUME DialAssumption == AttemptCount \in Nat \ {0}

Attempts == 1 .. AttemptCount

VARIABLES
  (* main: position, attempts started, outstanding; the results channel;    *)
  (* results the cleanup goroutine still waits for                          *)
  mpc, nextIdx, outstanding, results, left,
  (* attempts: position, handle, and what woke the waiter                   *)
  apc, handle, woken,
  (* error pollers *)
  ppc,
  (* VLS: the session of an attempt, the owner of a handle (0: none)        *)
  sess, owner,
  (* the caller's context; the context derived from it                      *)
  ctxDone, cancelled

mainVars == <<mpc, nextIdx, outstanding, left, cancelled>>
vars == <<mainVars, results, apc, handle, woken, ppc, sess, owner, ctxDone>>

TypeOK ==
  /\ mpc \in {"start", "select", "won", "failed", "expired"}
  /\ nextIdx \in 0 .. AttemptCount /\ outstanding \in 0 .. AttemptCount
  /\ results \in Seq(Attempts) /\ Len(results) <= AttemptCount
  /\ left \in 0 .. AttemptCount
  /\ apc \in [Attempts -> {"off", "start", "register", "wait", "finish", "conn",
                           "err"}]
  /\ handle \in [Attempts -> 0 .. AttemptCount]
  /\ woken \in [Attempts -> {"no", "own", "stray"}]
  /\ ppc \in [Attempts -> {"off", "tick", "wake", "gone"}]
  /\ sess \in [Attempts -> {"none", "pending", "up", "failed", "silent", "closed"}]
  /\ owner \in [Attempts -> 0 .. AttemptCount]
  /\ ctxDone \in BOOLEAN /\ cancelled \in BOOLEAN

Init ==
  /\ mpc = "start" /\ nextIdx = 0 /\ outstanding = 0
  /\ results = <<>> /\ left = 0
  /\ apc = [i \in Attempts |-> "off"] /\ handle = [i \in Attempts |-> 0]
  /\ woken = [i \in Attempts |-> "no"]
  /\ ppc = [i \in Attempts |-> "off"]
  /\ sess = [i \in Attempts |-> "none"]
  /\ owner = [h \in Attempts |-> 0]
  /\ ctxDone = FALSE /\ cancelled = FALSE

(* The context of the attempts. *)
Done == ctxDone \/ cancelled

-----------------------------------------------------------------------------
(* interleaveAddrs, on a sequence of addresses whose families fam tells.   *)

(* The first loop: the addresses by family. To4 tells the IPv4 ones. *)
AddToFamily(s, a, fam) ==
  [v4 |-> IF fam[a] = 4 THEN Append(s.v4, a) ELSE s.v4,
   v6 |-> IF fam[a] = 4 THEN s.v6 ELSE Append(s.v6, a)]

byFamily(addrs, fam) ==
  LET loop[n \in 0 .. Len(addrs)] ==
        IF n = 0 THEN [v4 |-> <<>>, v6 |-> <<>>]
        ELSE AddToFamily(loop[n - 1], addrs[n], fam)
  IN  loop[Len(addrs)]

Pick_OneFamily(s, st) ==  \* mutant: drains v6 first
  IF st.i < Len(s.v6) THEN "v6" ELSE "v4"

(* The branch of the second loop: the preferred family, or the other. *)
Pick(s, st) ==
  IF (st.preferV6 /\ st.i < Len(s.v6)) \/ st.j >= Len(s.v4) THEN "v6" ELSE "v4"

(* Its body; it runs once for each address. *)
Take(s, st) ==
  IF Pick(s, st) = "v6"
  THEN [i |-> st.i + 1, j |-> st.j, preferV6 |-> ~st.preferV6,
        result |-> Append(st.result, s.v6[st.i + 1])]
  ELSE [i |-> st.i, j |-> st.j + 1, preferV6 |-> ~st.preferV6,
        result |-> Append(st.result, s.v4[st.j + 1])]

interleaveAddrs(addrs, fam) ==
  LET s == byFamily(addrs, fam)
      loop[n \in 0 .. Len(addrs)] ==
        IF n = 0 THEN [i |-> 0, j |-> 0, preferV6 |-> TRUE, result |-> <<>>]
        ELSE Take(s, loop[n - 1])
  IN  loop[Len(addrs)].result

-----------------------------------------------------------------------------
(* VLS and the caller's context.                                           *)

(* The handshake ends: connected, refused, or refused without an event. *)
Outcome(i) ==
  /\ sess[i] = "pending"
  /\ \E how \in {"up", "failed", "silent"} : sess' = [sess EXCEPT ![i] = how]
  /\ UNCHANGED <<mainVars, results, apc, handle, woken, ppc, owner, ctxDone>>

ContextEnds ==
  /\ ~ctxDone
  /\ ctxDone' = TRUE
  /\ UNCHANGED <<mainVars, results, apc, handle, woken, ppc, sess, owner>>

(* SessionConnectError on handle h: no session is an error too. *)
SessionConnectError(h) ==
  IF owner[h] = 0 THEN TRUE ELSE sess[owner[h]] \in {"failed", "silent"}

-----------------------------------------------------------------------------
(* dialSingleTCP of attempt i.                                             *)

attemptRest == <<mainVars, ctxDone>>

(* The result of attempt i; results has room for all of them. *)
Result(i, what) ==
  /\ apc' = [apc EXCEPT ![i] = what]
  /\ woken' = [woken EXCEPT ![i] = "no"]
  /\ results' = Append(results, i)

(* CloseVLSH, or Close of a connection. *)
vlsClose(i) ==
  /\ sess' = [sess EXCEPT ![i] = "closed"]
  /\ owner' = [owner EXCEPT ![handle[i]] = 0]

(* VLS reuses handles. (In Mode 2, vclpoll's own handles are not reused.) *)
FreeHandle ==
  CHOOSE h \in Attempts : owner[h] = 0 /\ \A g \in 1 .. h - 1 : owner[g] # 0

(* ConnectTCP4Start: an error, connected at once, or in progress. *)
connectStart(i) ==
  /\ apc[i] = "start"
  /\ \/ Result(i, "err") /\ UNCHANGED <<handle, owner, sess, ppc>>
     \/ /\ handle' = [handle EXCEPT ![i] = FreeHandle]
        /\ owner' = [owner EXCEPT ![FreeHandle] = i]
        /\ \/ /\ sess' = [sess EXCEPT ![i] = "up"]
              /\ apc' = [apc EXCEPT ![i] = "finish"]
              /\ UNCHANGED ppc
           \/ /\ sess' = [sess EXCEPT ![i] = "pending"]
              /\ apc' = [apc EXCEPT ![i] = "register"]
              /\ ppc' = [ppc EXCEPT ![i] = "tick"]
        /\ UNCHANGED <<woken, results>>
  /\ UNCHANGED attemptRest

(* PollWaitContext: the waiter is registered, or woken because it could    *)
(* not be.                                                                 *)
PollWait(i) ==
  /\ apc[i] = "register"
  /\ apc' = [apc EXCEPT ![i] = "wait"]
  /\ woken' \in {woken, [woken EXCEPT ![i] = "stray"]}
  /\ UNCHANGED <<attemptRest, results, handle, ppc, sess, owner>>

Event(i) ==
  /\ apc[i] = "wait" /\ woken[i] = "no" /\ sess[i] \in {"up", "failed"}
  /\ woken' = [woken EXCEPT ![i] = "own"]
  /\ UNCHANGED <<attemptRest, results, apc, handle, ppc, sess, owner>>

(* PollWaitContext returns false: with or without an error of the session, *)
(* the dial fails.                                                         *)
WaitCancelled(i) ==
  /\ apc[i] = "wait" /\ Done
  /\ vlsClose(i)
  /\ Result(i, "err")
  /\ UNCHANGED <<attemptRest, handle, ppc>>

(* Woken: the session has an error, or it is taken for connected, which it *)
(* need not be if the waiter was woken for no reason of its own.           *)
connectWait(i) ==
  /\ apc[i] = "wait" /\ woken[i] # "no"
  /\ \/ /\ SessionConnectError(handle[i])
        /\ vlsClose(i)
        /\ Result(i, "err")
     \/ /\ ~SessionConnectError(handle[i])
        /\ apc' = [apc EXCEPT ![i] = "finish"]
        /\ UNCHANGED <<results, woken, sess, owner>>
  /\ UNCHANGED <<attemptRest, handle, ppc>>

(* The context is checked once more, then shutdownStarted, which may be    *)
(* set at any time; the connection is registered (module Lifecycle).       *)
finishConnect(i) ==
  /\ apc[i] = "finish"
  /\ \/ vlsClose(i) /\ Result(i, "err")
     \/ ~Done /\ Result(i, "conn") /\ UNCHANGED <<sess, owner>>
  /\ UNCHANGED <<attemptRest, handle, ppc>>

-----------------------------------------------------------------------------
(* The error poller of attempt i.                                          *)

pollerRest == <<mainVars, results, apc, handle, sess, owner, ctxDone>>

(* pollDone is closed once connectWait has returned. *)
pollDone(i) == apc[i] \notin {"register", "wait"}

PollExit(i) ==
  /\ ppc[i] = "tick" /\ (pollDone(i) \/ Done)
  /\ ppc' = [ppc EXCEPT ![i] = "gone"]
  /\ UNCHANGED <<pollerRest, woken>>

(* A tick that finds an error, on a handle whose session may be gone or    *)
(* another's by now; a tick that finds none changes nothing.               *)
PollTick(i) ==
  /\ ppc[i] = "tick"
  /\ SessionConnectError(handle[i])
  /\ ppc' = [ppc EXCEPT ![i] = "wake"]
  /\ UNCHANGED <<pollerRest, woken>>

(* Wakes whoever waits on the handle; a waiter that comes later is missed. *)
WakeVLSH(i) ==
  /\ ppc[i] = "wake"
  /\ LET o == owner[handle[i]]
     IN  woken' = [j \in Attempts |->
                     IF j = o /\ apc[j] = "wait" /\ woken[j] = "no"
                     THEN IF j = i THEN "own" ELSE "stray"
                     ELSE woken[j]]
  /\ ppc' = [ppc EXCEPT ![i] = "gone"]
  /\ UNCHANGED pollerRest

-----------------------------------------------------------------------------
(* dialHappyEyeballs.                                                      *)

mainRest == <<handle, woken, ppc, sess, owner, ctxDone>>

(* Start the next attempt. *)
StartNext ==
  /\ nextIdx' = nextIdx + 1
  /\ apc' = [apc EXCEPT ![nextIdx + 1] = "start"]

MainStart ==
  /\ mpc = "start"
  /\ StartNext
  /\ mpc' = "select" /\ outstanding' = 1
  /\ UNCHANGED <<mainRest, results, left, cancelled>>

(* The end of dialHappyEyeballs; o results are left to the cleanup         *)
(* goroutine.                                                              *)
Return(how, o) ==
  /\ mpc' = how
  /\ left' = o
  /\ cancelled' = TRUE

(* A result: the first connection wins; an error starts the next address   *)
(* at once, and the last error of all is returned.                         *)
MainResult ==
  /\ mpc = "select" /\ results # <<>>
  /\ results' = Tail(results)
  /\ \/ /\ apc[Head(results)] = "conn"
        /\ outstanding' = outstanding - 1
        /\ Return("won", outstanding - 1)
        /\ UNCHANGED <<apc, nextIdx>>
     \/ /\ apc[Head(results)] = "err" /\ nextIdx < AttemptCount
        /\ StartNext
        /\ UNCHANGED <<outstanding, mpc, left, cancelled>>
     \/ /\ apc[Head(results)] = "err" /\ nextIdx = AttemptCount
        /\ outstanding' = outstanding - 1
        /\ IF outstanding = 1 THEN Return("failed", 0)
           ELSE UNCHANGED <<mpc, left, cancelled>>
        /\ UNCHANGED <<apc, nextIdx>>
  /\ UNCHANGED mainRest

MainTimer_NoCount ==  \* mutant: outstanding does not count the attempt
  /\ mpc = "select" /\ nextIdx < AttemptCount
  /\ StartNext
  /\ UNCHANGED <<mainRest, mpc, results, outstanding, left, cancelled>>

(* The fallback delay passes; without an address left that changes nothing *)
(* but the timer.                                                          *)
MainTimer ==
  /\ mpc = "select" /\ nextIdx < AttemptCount
  /\ StartNext
  /\ outstanding' = outstanding + 1
  /\ UNCHANGED <<mainRest, mpc, results, left, cancelled>>

MainDone ==
  /\ mpc = "select" /\ ctxDone
  /\ Return("expired", outstanding)
  /\ UNCHANGED <<mainRest, apc, nextIdx, outstanding, results>>

Cleanup_Drops ==  \* mutant: takes the results without closing anything
  /\ left > 0 /\ results # <<>>
  /\ left' = left - 1
  /\ results' = Tail(results)
  /\ UNCHANGED <<mpc, nextIdx, outstanding, cancelled, mainRest, apc>>

(* The cleanup goroutine closes the connections that lost. *)
Cleanup ==
  /\ left > 0 /\ results # <<>>
  /\ left' = left - 1
  /\ results' = Tail(results)
  /\ IF apc[Head(results)] = "conn" THEN vlsClose(Head(results))
     ELSE UNCHANGED <<sess, owner>>
  /\ UNCHANGED <<mpc, nextIdx, outstanding, cancelled, apc, handle, woken, ppc,
                 ctxDone>>

-----------------------------------------------------------------------------
AttemptStep(i) ==
  \/ connectStart(i) \/ PollWait(i) \/ WaitCancelled(i) \/ connectWait(i)
  \/ finishConnect(i)

PollStep(i) == PollExit(i) \/ PollTick(i) \/ WakeVLSH(i)

Main == MainStart \/ MainResult \/ MainTimer \/ MainDone

Next ==
  \/ Main \/ Cleanup \/ ContextEnds
  \/ \E i \in Attempts : AttemptStep(i) \/ PollStep(i) \/ Event(i) \/ Outcome(i)

Spec == Init /\ [][Next]_vars

(* Runnable goroutines run, timers and tickers fire, and events that exist *)
(* are delivered. No handshake has to end and no context has to expire.    *)
Fairness ==
  /\ WF_vars(Main) /\ WF_vars(Cleanup)
  /\ \A i \in Attempts : WF_vars(AttemptStep(i)) /\ WF_vars(PollStep(i))
                         /\ WF_vars(Event(i))

FairSpec == Spec /\ Fairness
-----------------------------------------------------------------------------
(* Properties.                                                             *)

Returned == mpc \in {"won", "failed", "expired"}

(* Attempts whose result is still to come. *)
Pending == {i \in Attempts : apc[i] \notin {"off", "conn", "err"}}

(* The count of results to come is exact, for the loop and, after it, for  *)
(* the cleanup goroutine: neither waits for a result that will not come or *)
(* leaves one behind, and the dial fails for lack of addresses only when   *)
(* every address has been tried and has failed.                            *)
OutstandingExact ==
  LET n == Cardinality(Pending) + Len(results)
  IN  /\ TypeOK
      /\ mpc = "select" => outstanding = n
      /\ Returned => left = n
      /\ mpc = "failed" => \A i \in Attempts : apc[i] = "err"

(* The interleaving of n addresses, named by their places in the list, is  *)
(* a permutation that keeps the order within a family, starts with IPv6    *)
(* and alternates for as long as both families last.                       *)
FairOrder(n, fam) ==
  LET s == interleaveAddrs([k \in 1 .. n |-> k], fam)
      Count(f) == Cardinality({k \in 1 .. n : fam[k] = f})
      both == IF Count(4) < Count(6) THEN Count(4) ELSE Count(6)
  IN  /\ Len(s) = n /\ {s[k] : k \in 1 .. n} = 1 .. n
      /\ \A k, m \in 1 .. n : k < m /\ fam[s[k]] = fam[s[m]] => s[k] < s[m]
      /\ \A k \in 1 .. 2 * both : fam[s[k]] = IF k % 2 = 1 THEN 6 ELSE 4

(* Every list of up to four addresses is interleaved fairly. *)
InterleaveFair ==
  mpc = "start" => \A n \in 1 .. 4 : \A fam \in [1 .. n -> {4, 6}] : FairOrder(n, fam)

(* When its context ends the dial returns, and when it has returned every  *)
(* other attempt and its error poller end, and no session but the winner's *)
(* stays open behind the application's back. (The end of the context is    *)
(* the last resort of a wait whose only WakeVLSH came too early.)          *)
LosersClosed ==
  ctxDone \/ Returned ~>
    /\ Returned /\ Pending = {} /\ results = <<>>
    /\ \A i \in Attempts : ppc[i] \in {"off", "gone"}
    /\ Cardinality({h \in Attempts : owner[h] # 0}) = IF mpc = "won" THEN 1 ELSE 0
=============================================================================
