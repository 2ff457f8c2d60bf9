-------------------------------- MODULE Conn --------------------------------
(***************************************************************************)
(* One connection, TCP (conn.go) or connected UDP (udpconn.go): Read and   *)
(* Write calls in flight, half close (TCP only), Close, the two resettable *)
(* deadlines and their timers, and the process-wide shutdown flag. The     *)
(* dispatcher below is modelled by what ReadContext and WriteContext       *)
(* promise: a non-blocking attempt, and, when it would block, a wait that  *)
(* readiness, the close of the session or the channel passed as done ends. *)
(***************************************************************************)
EXTENDS Naturals

CONSTANTS Calls,    \* calls of Read or Write
          Setters,  \* calls of SetDeadline and its two variants
          Kinds,    \* the protocols considered
          MaxTime   \* bound: the clock stops here

ASSUME ConnAssumption ==
  /\ Kinds \subseteq {"tcp", "udp"}
  /\ MaxTime \in Nat

Halves == {"read", "write"}
Chans == Nat           \* channels are numbered in the order set() makes them
Times == 0 .. MaxTime  \* 0 as a deadline is the zero time

VARIABLES
  (* deadlineState of each half: when, the identity of the current channel, *)
  (* the closed flag, the timer; every channel that is closed; timer        *)
  (* callbacks that have started and wait for the mutex                     *)
  when, ch, chClosed, timer, closedChs, firing, now,
  (* tcpConn or udpConn *)
  kind, closed, shut, shutdownStarted, tracked,
  (* calls and the half each works on, setters, CloseRead/CloseWrite of each half, Close *)
  half, pc, myCh, result, spc, sT, sSides, hpc, kpc,
  (* the VLS session: open, closed, or gone with the dispatcher; shut down   *)
  (* per half, ready per half                                               *)
  session, vlsShut, ready

dlVars   == <<when, ch, chClosed, timer, closedChs>>
timeVars == <<dlVars, firing, now>>
flagVars == <<kind, closed, shut, shutdownStarted, tracked>>
callVars == <<half, pc, myCh, result>>
setVars  == <<spc, sT, sSides>>
vlsVars  == <<session, vlsShut, ready>>
vars == <<timeVars, flagVars, callVars, setVars, hpc, kpc, vlsVars>>

TypeOK ==
  /\ when \in [Halves -> Times]
  /\ ch \in [Halves -> Chans]
  /\ chClosed \in [Halves -> BOOLEAN]
  /\ timer \in [Halves -> {"none", "armed", "started"}]
  /\ closedChs \in [Halves -> SUBSET Chans]
  /\ firing \in [Halves -> SUBSET Chans]
  /\ now \in Times
  /\ kind \in Kinds /\ half \in [Calls -> Halves]
  /\ closed \in BOOLEAN /\ shutdownStarted \in BOOLEAN /\ tracked \in BOOLEAN
  /\ shut \in [Halves -> BOOLEAN]
  /\ pc \in [Calls -> {"idle", "check", "deadline", "chan", "attempt",
                       "parked", "returned"}]
  /\ myCh \in [Calls -> Chans]
  /\ result \in [Calls -> {"none", "ok", "eof", "closed", "timeout", "error"}]
  /\ spc \in [Setters -> {"idle", "set", "done"}]
  /\ sT \in [Setters -> Times]
  /\ sSides \in [Setters -> SUBSET Halves]
  /\ hpc \in [Halves -> {"idle", "flag", "interrupt", "vls", "done"}]
  /\ kpc \in {"idle", "read", "write", "vls", "untrack", "done"}
  /\ session \in {"open", "closed", "down"}
  /\ vlsShut \in [Halves -> BOOLEAN]
  /\ ready \in [Halves -> BOOLEAN]

Reading(c) == half[c] = "read"
Active == {half[c] : c \in Calls}  \* bound: the halves set, shut and made ready

(* The application may have set a deadline before. *)
Init ==
  /\ kind \in Kinds /\ half \in [Calls -> Halves]
  /\ \E t \in Times : when = [h \in Halves |-> IF h \in Active THEN t ELSE 0]
  /\ ch = [h \in Halves |-> 0]
  /\ chClosed = [h \in Halves |-> FALSE]
  /\ timer = [h \in Halves |-> IF when[h] = 0 THEN "none" ELSE "armed"]
  /\ closedChs = [h \in Halves |-> {}]
  /\ firing = [h \in Halves |-> {}]
  /\ now = 0
  /\ closed = FALSE /\ shutdownStarted = FALSE /\ tracked = TRUE
  /\ shut = [h \in Halves |-> FALSE]
  /\ pc = [c \in Calls |-> "idle"]
  /\ myCh = [c \in Calls |-> 0]
  /\ result = [c \in Calls |-> "none"]
  /\ spc = [s \in Setters |-> "idle"]
  /\ sT = [s \in Setters |-> 0]
  /\ sSides = [s \in Setters |-> {}]
  /\ hpc = [h \in Halves |-> "idle"]
  /\ kpc = "idle"
  /\ session = "open"
  /\ vlsShut = [h \in Halves |-> FALSE]
  /\ ready = [h \in Halves |-> FALSE]

-----------------------------------------------------------------------------
(* deadlineState; each operation runs under its mutex.                     *)

expired(h) == when[h] # 0 /\ now >= when[h]

(* closeCurrentLocked for the halves hs. *)
closeCurrent(hs) ==
  /\ chClosed' = [h \in Halves |-> chClosed[h] \/ h \in hs]
  /\ closedChs' = [h \in Halves |->
                     IF h \in hs THEN closedChs[h] \cup {ch[h]} ELSE closedChs[h]]

set_NoClose(h, t) ==  \* mutant: replaces the channel without closing the old one
  LET past == t # 0 /\ t <= now
  IN /\ when' = [when EXCEPT ![h] = t]
     /\ ch' = [ch EXCEPT ![h] = @ + 1]
     /\ chClosed' = [chClosed EXCEPT ![h] = past]
     /\ closedChs' = [closedChs EXCEPT ![h] = IF past THEN @ \cup {ch[h] + 1} ELSE @]
     /\ timer' = [timer EXCEPT ![h] = IF t # 0 /\ ~past THEN "armed" ELSE "none"]

(* Stop the timer, wake who waits on the old channel, make a new one, and  *)
(* close it at once if t is past.                                          *)
set(h, t) ==
  LET past == t # 0 /\ t <= now
  IN /\ when' = [when EXCEPT ![h] = t]
     /\ ch' = [ch EXCEPT ![h] = @ + 1]
     /\ chClosed' = [chClosed EXCEPT ![h] = past]
     /\ closedChs' = [closedChs EXCEPT ![h] =
                        @ \cup {ch[h]} \cup (IF past THEN {ch[h] + 1} ELSE {})]
     /\ timer' = [timer EXCEPT ![h] = IF t # 0 /\ ~past THEN "armed" ELSE "none"]

interrupt(h) ==
  /\ timer' = [timer EXCEPT ![h] = "none"]
  /\ closeCurrent({h})
  /\ UNCHANGED <<when, ch, firing, now>>

Tick ==
  /\ now < MaxTime
  /\ now' = now + 1
  /\ UNCHANGED <<dlVars, firing, flagVars, callVars, setVars, hpc, kpc, vlsVars>>

(* The AfterFunc goroutine starts; from here on Stop comes too late.       *)
TimerStart(h) ==
  /\ timer[h] = "armed" /\ now >= when[h]
  /\ timer' = [timer EXCEPT ![h] = "started"]
  /\ firing' = [firing EXCEPT ![h] = @ \cup {ch[h]}]
  /\ UNCHANGED <<when, ch, chClosed, closedChs, now, flagVars, callVars,
                 setVars, hpc, kpc, vlsVars>>

TimerFunc_Stale(h, k) ==  \* mutant: does not compare the channel
  /\ k \in firing[h]
  /\ firing' = [firing EXCEPT ![h] = @ \ {k}]
  /\ timer' = [timer EXCEPT ![h] = "none"]
  /\ closeCurrent({h})
  /\ UNCHANGED <<when, ch, now, flagVars, callVars, setVars, hpc, kpc, vlsVars>>

(* It closes the channel only if that is still the current one. *)
TimerFunc(h, k) ==
  /\ k \in firing[h]
  /\ firing' = [firing EXCEPT ![h] = @ \ {k}]
  /\ IF ch[h] = k
     THEN /\ timer' = [timer EXCEPT ![h] = "none"]
          /\ closeCurrent({h})
     ELSE UNCHANGED <<timer, chClosed, closedChs>>
  /\ UNCHANGED <<when, ch, now, flagVars, callVars, setVars, hpc, kpc, vlsVars>>

-----------------------------------------------------------------------------
(* Read and Write. The checks made before the loop are those of its first  *)
(* round; empty buffers return before the loop.                            *)

callRest == <<half, timeVars, flagVars, setVars, hpc, kpc, session, vlsShut>>

Goto(c, to) == pc' = [pc EXCEPT ![c] = to]

Return(c, r) == Goto(c, "returned") /\ result' = [result EXCEPT ![c] = r]

Call(c) ==
  /\ pc[c] = "idle"
  /\ Goto(c, "check")
  /\ UNCHANGED <<callRest, myCh, result, ready>>

Check_Once(c) ==  \* mutant: the half-close flag is read before the loop only
  /\ pc[c] = "check" /\ kind = "tcp"
  /\ \/ (closed \/ shutdownStarted) /\ Return(c, "closed")
     \/ ~closed /\ ~shutdownStarted /\ Goto(c, "deadline") /\ UNCHANGED result
  /\ UNCHANGED <<callRest, myCh, ready>>

(* TCP: the half-close flag first, then closed and shutdownStarted. *)
Check(c) ==
  /\ pc[c] = "check" /\ kind = "tcp"
  /\ \/ shut[half[c]] /\ Return(c, IF Reading(c) THEN "eof" ELSE "closed")
     \/ ~shut[half[c]] /\ (closed \/ shutdownStarted) /\ Return(c, "closed")
     \/ /\ ~shut[half[c]] /\ ~closed /\ ~shutdownStarted
        /\ Goto(c, "deadline")
        /\ UNCHANGED result
  /\ UNCHANGED <<callRest, myCh, ready>>

(* UDP: readStateError and writeStateError, before every attempt. *)
UdpCheck(c) ==
  /\ pc[c] = "check" /\ kind = "udp"
  /\ \/ (closed \/ shutdownStarted) /\ Return(c, "closed")
     \/ ~closed /\ ~shutdownStarted /\ Goto(c, "deadline") /\ UNCHANGED result
  /\ UNCHANGED <<callRest, myCh, ready>>

CheckDeadline(c) ==
  /\ pc[c] = "deadline"
  /\ \/ expired(half[c]) /\ Return(c, "timeout")
     \/ ~expired(half[c]) /\ Goto(c, "chan") /\ UNCHANGED result
  /\ UNCHANGED <<callRest, myCh, ready>>

waitChannel(c) ==
  /\ pc[c] = "chan"
  /\ myCh' = [myCh EXCEPT ![c] = ch[half[c]]]
  /\ Goto(c, "attempt")
  /\ UNCHANGED <<callRest, result, ready>>

(* One non-blocking vls_read or vls_write. An attempt that would block     *)
(* parks; a ready half may be used up or ready for more. A dispatcher that *)
(* is down answers ErrClosed. For a session that is closed, Mode 2 does so *)
(* too, and Mode 3 passes on what VLS says of the handle. (Reuse of the    *)
(* handle is the matter of modules Poller and Mode2.)                      *)
Refused(c) ==
  /\ \/ session \in {"closed", "down"} /\ Return(c, "closed")
     \/ session = "closed" /\ Return(c, "error")
  /\ UNCHANGED ready

Consume(c) ==
  /\ session = "open" /\ ready[half[c]]
  /\ ready' \in {ready, [ready EXCEPT ![half[c]] = FALSE]}

(* TCP: a Write that was accepted in part goes round again. A read returns *)
(* 0 at the end of the stream or after SHUT_RD, a write fails after        *)
(* SHUT_WR.                                                                *)
Attempt(c) ==
  /\ pc[c] = "attempt" /\ kind = "tcp"
  /\ \/ Refused(c)
     \/ /\ Consume(c)
        /\ \/ \E r \in {"ok", "eof", "error"} :
                Return(c, r) /\ (r = "eof" => Reading(c))
           \/ ~Reading(c) /\ Goto(c, "check") /\ UNCHANGED result
     \/ /\ session = "open" /\ ~ready[half[c]]
        /\ IF vlsShut[half[c]]
           THEN Return(c, IF Reading(c) THEN "eof" ELSE "error")
           ELSE Goto(c, "parked") /\ UNCHANGED result
        /\ UNCHANGED ready
  /\ UNCHANGED <<callRest, myCh>>

(* UDP: a datagram goes whole, and an empty one is no end of stream. *)
UdpAttempt(c) ==
  /\ pc[c] = "attempt" /\ kind = "udp"
  /\ \/ Refused(c)
     \/ Consume(c) /\ \E r \in {"ok", "error"} : Return(c, r)
     \/ /\ session = "open" /\ ~ready[half[c]]
        /\ Goto(c, "parked")
        /\ UNCHANGED <<ready, result>>
  /\ UNCHANGED <<callRest, myCh>>

(* The readiness wait. ErrWaitCanceled means: look at the flags again. *)
Woken(c) ==
  /\ pc[c] = "parked"
  /\ ready[half[c]] \/ session # "open"
  /\ Goto(c, "attempt")
  /\ UNCHANGED <<callRest, myCh, result, ready>>

Canceled(c) ==
  /\ pc[c] = "parked"
  /\ myCh[c] \in closedChs[half[c]]
  /\ Goto(c, "check")
  /\ UNCHANGED <<callRest, myCh, result, ready>>

-----------------------------------------------------------------------------
(* SetDeadline, SetReadDeadline, SetWriteDeadline: one check, then set on  *)
(* the read half and on the write half.                                    *)

BeginSet(s, t, hs) ==
  /\ spc[s] = "idle"
  /\ hs # {}
  /\ \/ /\ ~closed /\ ~shutdownStarted
        /\ spc' = [spc EXCEPT ![s] = "set"]
        /\ sT' = [sT EXCEPT ![s] = t]
        /\ sSides' = [sSides EXCEPT ![s] = hs]
     \/ /\ closed \/ shutdownStarted
        /\ spc' = [spc EXCEPT ![s] = "done"]
        /\ UNCHANGED <<sT, sSides>>
  /\ UNCHANGED <<timeVars, flagVars, callVars, hpc, kpc, vlsVars>>

Set(s, h) ==
  /\ spc[s] = "set"
  /\ h \in sSides[s] /\ (h = "write" => "read" \notin sSides[s])
  /\ set(h, sT[s])
  /\ sSides' = [sSides EXCEPT ![s] = @ \ {h}]
  /\ spc' = [spc EXCEPT ![s] = IF sSides'[s] = {} THEN "done" ELSE "set"]
  /\ UNCHANGED <<firing, now, sT, flagVars, callVars, hpc, kpc, vlsVars>>

-----------------------------------------------------------------------------
(* CloseRead and CloseWrite, under their sync.Once.                        *)

halfRest == <<callVars, setVars, kpc, kind, closed, shutdownStarted, tracked>>

CloseHalf(h) ==
  /\ hpc[h] = "idle" /\ kind = "tcp"
  /\ hpc' = [hpc EXCEPT ![h] = IF closed THEN "done" ELSE "flag"]
  /\ UNCHANGED <<halfRest, timeVars, shut, vlsVars>>

HalfFlag(h) ==
  /\ hpc[h] = "flag"
  /\ shut' = [shut EXCEPT ![h] = TRUE]
  /\ hpc' = [hpc EXCEPT ![h] = "interrupt"]
  /\ UNCHANGED <<halfRest, timeVars, vlsVars>>

HalfInterrupt(h) ==
  /\ hpc[h] = "interrupt"
  /\ interrupt(h)
  /\ hpc' = [hpc EXCEPT ![h] = IF shutdownStarted THEN "done" ELSE "vls"]
  /\ UNCHANGED <<halfRest, shut, vlsVars>>

(* vls_shutdown wakes nobody, and it may fail: the error is returned once, *)
(* and the Once keeps CloseRead and CloseWrite from trying again.          *)
HalfVls(h) ==
  /\ hpc[h] = "vls"
  /\ \/ session = "open" /\ vlsShut' = [vlsShut EXCEPT ![h] = TRUE]
     \/ UNCHANGED vlsShut
  /\ hpc' = [hpc EXCEPT ![h] = "done"]
  /\ UNCHANGED <<halfRest, timeVars, shut, session, ready>>

-----------------------------------------------------------------------------
(* Close, under its sync.Once, and the process-wide shutdown around it.    *)

closeRest == <<callVars, setVars, hpc, kind, shut, vlsShut, ready, shutdownStarted>>

Close ==
  /\ kpc = "idle"
  /\ closed' = TRUE
  /\ kpc' = "read"
  /\ UNCHANGED <<closeRest, timeVars, tracked, session>>

CloseInterrupt(h) ==
  /\ kpc = h
  /\ interrupt(h)
  /\ kpc' = IF h = "read" THEN "write" ELSE "vls"
  /\ UNCHANGED <<closeRest, closed, tracked, session>>

CloseVls_Skipped ==  \* mutant: leaves the VLS session to somebody else
  /\ kpc = "vls"
  /\ kpc' = "untrack"
  /\ UNCHANGED <<closeRest, timeVars, closed, tracked, session>>

(* vclpoll.Close wakes the waiters of the session. *)
CloseVls ==
  /\ kpc = "vls"
  /\ session' = IF shutdownStarted THEN session ELSE "closed"
  /\ kpc' = "untrack"
  /\ UNCHANGED <<closeRest, timeVars, closed, tracked>>

CloseUntrack ==
  /\ kpc = "untrack"
  /\ tracked' = FALSE
  /\ kpc' = "done"
  /\ UNCHANGED <<closeRest, timeVars, closed, session>>

StartShutdown ==
  /\ ~shutdownStarted
  /\ shutdownStarted' = TRUE
  /\ UNCHANGED <<timeVars, kind, closed, shut, tracked, callVars, setVars, hpc,
                 kpc, vlsVars>>

(* Shutdown force-closes what is tracked before it stops the dispatcher,   *)
(* which wakes every waiter and refuses every operation.                   *)
Teardown ==
  /\ shutdownStarted /\ kpc = "done" /\ session # "down"
  /\ session' = "down"
  /\ UNCHANGED <<timeVars, flagVars, callVars, setVars, hpc, kpc, vlsShut, ready>>

(* The peer: data or space arrives. *)
Arrive(h) ==
  /\ session = "open" /\ ~ready[h]
  /\ ready' = [ready EXCEPT ![h] = TRUE]
  /\ UNCHANGED <<timeVars, flagVars, callVars, setVars, hpc, kpc, session, vlsShut>>

-----------------------------------------------------------------------------
CallStep(c) ==
  \/ Check(c) \/ UdpCheck(c) \/ CheckDeadline(c) \/ waitChannel(c)
  \/ Attempt(c) \/ UdpAttempt(c) \/ Woken(c) \/ Canceled(c)

HalfStep(h) == HalfFlag(h) \/ HalfInterrupt(h) \/ HalfVls(h)

CloseStep == \/ \E h \in Halves : CloseInterrupt(h)
             \/ CloseVls \/ CloseUntrack

TimerStep(h) == TimerStart(h) \/ \E k \in firing[h] : TimerFunc(h, k)

Next ==
  \/ \E c \in Calls : Call(c) \/ CallStep(c)
  \/ \E s \in Setters, t \in Times, hs \in SUBSET Active : BeginSet(s, t, hs)
  \/ \E s \in Setters, h \in Halves : Set(s, h)
  \/ \E h \in Active : CloseHalf(h) \/ Arrive(h)
  \/ \E h \in Halves : HalfStep(h) \/ TimerStep(h)
  \/ Close \/ CloseStep \/ StartShutdown \/ Teardown \/ Tick

Spec == Init /\ [][Next]_vars

(* Goroutines and timers that can run do. A shutdown that has begun closes *)
(* the connection and tears the dispatcher down. Nothing has to arrive.    *)
Fairness ==
  /\ \A c \in Calls : WF_vars(CallStep(c))
  /\ \A s \in Setters : WF_vars(\E h \in Halves : Set(s, h))
  /\ \A h \in Halves : WF_vars(HalfStep(h)) /\ WF_vars(TimerStep(h))
  /\ WF_vars(CloseStep) /\ WF_vars(Teardown) /\ WF_vars(shutdownStarted /\ Close)

FairSpec == Spec /\ Fairness
-----------------------------------------------------------------------------
(* Properties.                                                             *)

Returned(c) == pc[c] = "returned"

(* The current deadline channel of a half is closed only for a reason that *)
(* the I/O loop recognises: the deadline in force has passed, the half is  *)
(* shut down or the connection is closed. Otherwise Read and Write, which  *)
(* retry when a wait is cancelled, would spin. A timer that was too late   *)
(* to be stopped must not close the channel of the deadline that replaced  *)
(* its own.                                                                *)
NoSpuriousCancel ==
  \A h \in Halves : chClosed[h] => expired(h) \/ shut[h] \/ closed

(* A call never waits on a channel nobody will close any more: a channel   *)
(* that has been replaced is closed, and one whose deadline has passed is  *)
(* closed or about to be, whatever set, interrupt and the timer did in     *)
(* between.                                                                *)
NoDeafWait ==
  /\ TypeOK
  /\ \A c \in Calls : pc[c] \in {"attempt", "parked"} =>
       LET h == half[c]
       IN \/ myCh[c] \in closedChs[h]
          \/ /\ myCh[c] = ch[h]
             /\ when[h] # 0 => timer[h] = "armed" \/ ch[h] \in firing[h]

(* A cancelled wait is retried without a word (mapIOError), so whatever    *)
(* closed the channel must have left something the loop looks at: a call   *)
(* whose channel stays closed would otherwise go round for ever and burn a *)
(* processor. Once no deadline is set any more, every call has had its     *)
(* last cancelled wait, whatever Close, CloseRead, CloseWrite, a failing   *)
(* vls_shutdown, the timers and Shutdown do to it.                         *)
RetriesEnd == \A c \in Calls : <>[][~Canceled(c)]_vars

(* Close ends every Read and Write in flight, also when deadlines are set  *)
(* concurrently and when it runs inside Shutdown and must leave VLS alone; *)
(* and an expired deadline ends a call that waits, unless it is moved.     *)
CallsEnd ==
  \A c \in Calls :
    /\ closed /\ pc[c] # "idle" ~> Returned(c)
    /\ pc[c] = "parked" /\ expired(half[c])
         ~> Returned(c) \/ ~expired(half[c])

(* "After CloseRead, subsequent Read calls return io.EOF and any parked    *)
(* reader is woken."                                                       *)
HalfCloseEnds ==
  \A c \in Calls : hpc[half[c]] = "done" /\ shut[half[c]] /\ pc[c] # "idle"
                     ~> Returned(c)
=============================================================================
