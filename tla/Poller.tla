------------------------------ MODULE Poller ------------------------------
(***************************************************************************)
(* The shared Mode 3 poller of internal/vclpoll/poller.go: one goroutine   *)
(* owns a vls_epoll instance and the map of wait sets; callers of          *)
(* mode3PollWaitContext hand it waiters over regCh and withdraw them over  *)
(* cancelCh; mode3Close uses unregCh as a barrier before it frees a VLS    *)
(* handle, which VLS may hand out again at once; stop() ends the loop.     *)
(*                                                                         *)
(* One wait w stands for one call of mode3PollWaitContext and for the      *)
(* waiter object that call allocates.                                      *)
(***************************************************************************)
EXTENDS Naturals, Sequences, FiniteSets

CONSTANTS Waits,     \* calls of mode3PollWaitContext
          Closers,   \* calls of mode3Close
          Handles,   \* VLS session handles (small pool indexes)
          Masks,     \* event masks a caller asks for, as sets of event bits
          Terminal,  \* the bits of epollErr|epollHup|epollRDHup
          ChanCap,   \* capacity of regCh, cancelCh and unregCh (256)
          MaxGen,    \* how often a handle is handed out again
          NoOne      \* nobody holds startMu

ASSUME PollerAssumption ==
  /\ \A m \in Masks : m # {}
  /\ NoOne \notin Waits
  /\ ChanCap \in Nat \ {0}
  /\ MaxGen \in Nat

VARIABLES
  (* callers *)
  pc, vlsh, events, born, doneCh, ready,
  (* channels *)
  regCh, cancelCh, unregCh,
  (* the poller goroutine: its position, its wait sets (no set is the empty *)
  (* one), their masks, and the events of the last epoll_wait              *)
  ppc, waiters, setEvents, pending,
  (* start, stop *)
  startMu, disabled, stopCh, spc,
  (* VLS: epoll interest, open sessions, incarnation of each handle *)
  interest, open, gen,
  (* closers *)
  cpc, cvlsh

callerVars == <<pc, vlsh, events, born, doneCh>>
startVars  == <<startMu, disabled, stopCh, spc>>
setVars    == <<waiters, setEvents, interest>>
closeVars  == <<cpc, cvlsh, open, gen>>
vars == <<callerVars, ready, regCh, cancelCh, unregCh, ppc, setVars, pending,
          startVars, closeVars>>

Bits == UNION Masks

Returned(w) == pc[w] \in {"true", "false"}

started == ppc \notin {"off", "init"}
stopped == ppc = "stopped"
running == started /\ ~stopped

InChan(ch, x) == \E i \in 1..Len(ch) : ch[i] = x

combinedEvents(S) == UNION {events[w] : w \in S}

TypeOK ==
  /\ pc \in [Waits -> {"idle", "start", "starting", "register", "parked",
                       "cancelling", "true", "false"}]
  /\ vlsh \in [Waits -> Handles]
  /\ events \in [Waits -> Masks]
  /\ born \in [Waits -> 0..MaxGen]
  /\ doneCh \in [Waits -> BOOLEAN]
  /\ ready \in [Waits -> Nat]
  /\ regCh \in Seq(Waits)
  /\ cancelCh \in Seq(Waits)
  /\ unregCh \in Seq(Closers)
  /\ ppc \in {"off", "init", "top", "reg", "cancel", "unreg", "wait", "event",
              "wakeall", "stopdrain", "stopping", "stopped"}
  /\ waiters \in [Handles -> SUBSET Waits]
  /\ setEvents \in [Handles -> SUBSET Bits]
  /\ pending \in [Handles -> SUBSET (Bits \cup Terminal)]
  /\ startMu \in Waits \cup {NoOne}
  /\ disabled \in BOOLEAN
  /\ stopCh \in BOOLEAN
  /\ spc \in {"idle", "waiting", "returned"}
  /\ interest \in [Handles -> SUBSET Bits]
  /\ open \in [Handles -> BOOLEAN]
  /\ gen \in [Handles -> 0..MaxGen]
  /\ cpc \in [Closers -> {"idle", "check", "send", "wait", "closing", "closed"}]
  /\ cvlsh \in [Closers -> Handles]

(* The arguments of the calls are chosen once and for all here; a call     *)
(* that is never made leaves them unused.                                  *)
Init ==
  /\ pc = [w \in Waits |-> "idle"]
  /\ vlsh \in [Waits -> Handles]
  /\ events \in [Waits -> Masks]
  /\ born = [w \in Waits |-> 0]
  /\ doneCh = [w \in Waits |-> FALSE]
  /\ ready = [w \in Waits |-> 0]
  /\ regCh = <<>> /\ cancelCh = <<>> /\ unregCh = <<>>
  /\ ppc = "off"
  /\ waiters = [h \in Handles |-> {}]
  /\ setEvents = [h \in Handles |-> {}]
  /\ pending = [h \in Handles |-> {}]
  /\ startMu = NoOne
  /\ disabled = FALSE
  /\ stopCh = FALSE
  /\ spc = "idle"
  /\ interest = [h \in Handles |-> {}]
  /\ open = [h \in Handles |-> TRUE]
  /\ gen = [h \in Handles |-> 0]
  /\ cpc = [c \in Closers |-> "idle"]
  /\ cvlsh \in [Closers -> Handles]

-----------------------------------------------------------------------------
(* mode3PollWaitContext: the caller's side.                                *)

Goto(w, to) == pc' = [pc EXCEPT ![w] = to]

callRest == <<vlsh, events, doneCh, ready, cancelCh, unregCh, setVars, pending,
              closeVars>>

Closing(h) == \E c \in Closers : cvlsh[c] = h /\ cpc[c] \notin {"idle", "closed"}

(* A goroutine saw EAGAIN on an open session and asks to wait. The done    *)
(* channel it passes is already closed if the session is being closed.     *)
Call(w) ==
  /\ pc[w] = "idle"
  /\ open[vlsh[w]]
  /\ Goto(w, "start")
  /\ born' = [born EXCEPT ![w] = gen[vlsh[w]]]
  /\ doneCh' = [doneCh EXCEPT ![w] = Closing(vlsh[w])]
  /\ UNCHANGED <<vlsh, events, ready, regCh, cancelCh, unregCh, ppc, setVars,
                 pending, startVars, closeVars>>

(* start(): under startMu, refused once disabled; the first caller spawns  *)
(* the loop and keeps the lock until the loop has reported started.        *)
Start_Undisabled(w) ==  \* mutant: never looks at disabled
  /\ pc[w] = "start" /\ startMu = NoOne
  /\ Goto(w, IF ppc = "off" THEN "starting" ELSE "register")
  /\ startMu' = IF ppc = "off" THEN w ELSE NoOne
  /\ ppc' = IF ppc = "off" THEN "init" ELSE ppc
  /\ UNCHANGED <<callRest, born, regCh, disabled, stopCh, spc>>

Start(w) ==
  /\ pc[w] = "start"
  /\ startMu = NoOne
  /\ \/ /\ disabled
        /\ Goto(w, "false")
        /\ UNCHANGED <<startMu, ppc>>
     \/ /\ ~disabled
        /\ ppc = "off"
        /\ Goto(w, "starting")
        /\ startMu' = w
        /\ ppc' = "init"
     \/ /\ ~disabled
        /\ ppc # "off"
        /\ Goto(w, IF running THEN "register" ELSE "false")
        /\ UNCHANGED <<startMu, ppc>>
  /\ UNCHANGED <<callRest, born, regCh, disabled, stopCh, spc>>

StartDone(w) ==
  /\ pc[w] = "starting"
  /\ started
  /\ startMu' = NoOne
  /\ Goto(w, IF running THEN "register" ELSE "false")
  /\ UNCHANGED <<callRest, born, regCh, ppc, disabled, stopCh, spc>>

(* The first select: hand the waiter over, or give up. *)
Register(w) ==
  /\ pc[w] = "register"
  /\ Len(regCh) < ChanCap
  /\ regCh' = Append(regCh, w)
  /\ Goto(w, "parked")
  /\ UNCHANGED <<callRest, born, ppc, startVars>>

GiveUp_True(w) ==  \* mutant: reports readiness instead
  /\ pc[w] = "register" /\ (doneCh[w] \/ stopped)
  /\ Goto(w, "true")
  /\ UNCHANGED <<callRest, born, regCh, ppc, startVars>>

GiveUp(w) ==
  /\ pc[w] = "register"
  /\ doneCh[w] \/ stopped
  /\ Goto(w, "false")
  /\ UNCHANGED <<callRest, born, regCh, ppc, startVars>>

(* The second select, and the one nested in its done case. *)
Ready(w) ==
  /\ pc[w] \in {"parked", "cancelling"}
  /\ ready[w] > 0
  /\ Goto(w, "true")
  /\ UNCHANGED <<callRest, born, regCh, ppc, startVars>>

NoCase(x) == FALSE  \* mutant: the select lacks this case

NoticeDone(w) ==
  /\ pc[w] = "parked"
  /\ doneCh[w]
  /\ Goto(w, "cancelling")
  /\ UNCHANGED <<callRest, born, regCh, ppc, startVars>>

NoticeStopped(w) ==
  /\ pc[w] \in {"parked", "cancelling"}
  /\ stopped
  /\ Goto(w, "false")
  /\ UNCHANGED <<callRest, born, regCh, ppc, startVars>>

SendCancel(w) ==
  /\ pc[w] = "cancelling"
  /\ Len(cancelCh) < ChanCap
  /\ cancelCh' = Append(cancelCh, w)
  /\ Goto(w, "false")
  /\ UNCHANGED <<vlsh, events, doneCh, ready, unregCh, setVars, pending,
                 closeVars, born, regCh, ppc, startVars>>

(* A deadline, a context or a Close closes the done channel of the call. *)
CloseDone(w) ==
  /\ ~doneCh[w]
  /\ pc[w] # "idle" /\ ~Returned(w)
  /\ doneCh' = [doneCh EXCEPT ![w] = TRUE]
  /\ UNCHANGED <<pc, vlsh, events, born, ready, regCh, cancelCh, unregCh, ppc,
                 setVars, pending, startVars, closeVars>>

-----------------------------------------------------------------------------
(* The poller goroutine.                                                   *)

wakeWaitSet_Forgets(S) == UNCHANGED ready  \* mutant: nobody is woken

wakeWaitSet(S) == ready' = [w \in Waits |-> ready[w] + (IF w \in S THEN 1 ELSE 0)]

(* The three ways a wait set changes, with what VLS epoll holds for it.    *)
SetTo_NoMod(h, S, evs, intr) ==  \* mutant: ADD and DEL, but never MOD
  /\ waiters' = [waiters EXCEPT ![h] = S]
  /\ setEvents' = [setEvents EXCEPT ![h] = evs]
  /\ interest' = [interest EXCEPT ![h] = IF @ = {} \/ intr = {} THEN intr ELSE @]

SetTo(h, S, evs, intr) ==
  /\ waiters' = [waiters EXCEPT ![h] = S]
  /\ setEvents' = [setEvents EXCEPT ![h] = evs]
  /\ interest' = [interest EXCEPT ![h] = intr]

dropWaitSet(h) == SetTo(h, {}, {}, {})

(* vls_epoll_ctl may always fail; it can succeed only on an open session,  *)
(* and EPOLL_CTL_MOD only on one the epoll instance holds.                 *)
CanAdd(h) == open[h]
CanMod(h) == open[h] /\ interest[h] # {}

loopRest == <<callerVars, startVars, closeVars>>

(* registerThisThread, epoll_create, then started is closed. *)
LoopStart ==
  /\ ppc = "init"
  /\ ppc' = "top"
  /\ UNCHANGED <<loopRest, ready, regCh, cancelCh, unregCh, setVars, pending>>

LoopTop ==
  /\ ppc = "top"
  /\ ppc' = IF stopCh THEN "wakeall" ELSE "reg"
  /\ UNCHANGED <<loopRest, ready, regCh, cancelCh, unregCh, setVars, pending>>

drainRegistrations ==
  /\ ppc = "reg"
  /\ regCh # <<>>
  /\ regCh' = Tail(regCh)
  /\ LET w == Head(regCh)
         h == vlsh[w]
         newEvents == setEvents[h] \cup events[w]
     IN \/ /\ waiters[h] = {}
           /\ CanAdd(h)
           /\ SetTo(h, {w}, events[w], events[w])
           /\ UNCHANGED ready
        \/ /\ waiters[h] # {}
           /\ newEvents # setEvents[h]
           /\ CanMod(h)
           /\ SetTo(h, waiters[h] \cup {w}, newEvents, newEvents)
           /\ UNCHANGED ready
        \/ /\ waiters[h] # {}
           /\ newEvents = setEvents[h]
           /\ SetTo(h, waiters[h] \cup {w}, newEvents, interest[h])
           /\ UNCHANGED ready
        \/ /\ waiters[h] = {} \/ newEvents # setEvents[h]
           /\ wakeWaitSet({w})
           /\ UNCHANGED setVars
  /\ UNCHANGED <<loopRest, cancelCh, unregCh, ppc, pending>>

(* What drainCancellations and handleEvent do once the waiters `gone` have *)
(* left the set: delete an empty set, else shrink the mask, and drop the   *)
(* whole set when EPOLL_CTL_MOD fails.                                     *)
Shrink_Keeps(h, gone) ==  \* mutant: wakes waiters it does not remove
  /\ wakeWaitSet(gone)
  /\ UNCHANGED setVars

Shrink(h, gone) ==
  LET left == waiters[h] \ gone
      mask == combinedEvents(left)
  IN \/ /\ left = {}
        /\ dropWaitSet(h)
        /\ wakeWaitSet(gone)
     \/ /\ left # {}
        /\ mask = setEvents[h]
        /\ SetTo(h, left, mask, interest[h])
        /\ wakeWaitSet(gone)
     \/ /\ left # {}
        /\ mask # setEvents[h]
        /\ CanMod(h)
        /\ SetTo(h, left, mask, mask)
        /\ wakeWaitSet(gone)
     \/ /\ left # {}
        /\ mask # setEvents[h]
        /\ dropWaitSet(h)
        /\ wakeWaitSet(waiters[h])

drainCancellations_All ==  \* mutant: takes the whole wait set
  /\ ppc = "cancel"
  /\ cancelCh # <<>>
  /\ cancelCh' = Tail(cancelCh)
  /\ LET h == vlsh[Head(cancelCh)] IN Shrink(h, waiters[h])
  /\ UNCHANGED <<loopRest, regCh, unregCh, ppc, pending>>

drainCancellations ==
  /\ ppc = "cancel"
  /\ cancelCh # <<>>
  /\ cancelCh' = Tail(cancelCh)
  /\ LET w == Head(cancelCh)
     IN \/ /\ w \in waiters[vlsh[w]]
           /\ Shrink(vlsh[w], {w})
        \/ /\ w \notin waiters[vlsh[w]]
           /\ UNCHANGED <<setVars, ready>>
  /\ UNCHANGED <<loopRest, regCh, unregCh, ppc, pending>>

(* The set is removed and woken; closing req.done is the closer's move to  *)
(* "closing".                                                              *)
drainUnregistrations ==
  /\ ppc = "unreg"
  /\ unregCh # <<>>
  /\ unregCh' = Tail(unregCh)
  /\ LET c == Head(unregCh)
         h == cvlsh[c]
     IN /\ SetTo(h, {}, {}, IF waiters[h] = {} THEN interest[h] ELSE {})
        /\ wakeWaitSet(waiters[h])
        /\ cpc' = [cpc EXCEPT ![c] = "closing"]
  /\ UNCHANGED <<callerVars, startVars, cvlsh, open, gen, regCh, cancelCh, ppc,
                 pending>>

(* Each drain loop runs until its channel is found empty. *)
NextPhase ==
  /\ \/ ppc = "reg" /\ regCh = <<>> /\ ppc' = "cancel"
     \/ ppc = "cancel" /\ cancelCh = <<>> /\ ppc' = "unreg"
     \/ ppc = "unreg" /\ unregCh = <<>> /\ ppc' = "wait"
     \/ ppc = "event" /\ pending = [h \in Handles |-> {}] /\ ppc' = "top"
  /\ UNCHANGED <<loopRest, ready, regCh, cancelCh, unregCh, setVars, pending>>

(* vls_epoll_wait with its 100 ms timeout: any events, possibly none, of   *)
(* the sessions it holds; terminal ones need no interest bit.              *)
EpollWait ==
  /\ ppc = "wait"
  /\ ppc' = "event"
  /\ pending' \in [Handles -> SUBSET (Bits \cup Terminal)]
  /\ \A h \in Handles :
       pending'[h] # {} => /\ interest[h] # {}
                           /\ pending'[h] \subseteq interest[h] \cup Terminal
  /\ UNCHANGED <<loopRest, ready, regCh, cancelCh, unregCh, setVars>>

handleEvent(h) ==
  /\ ppc = "event"
  /\ pending[h] # {}
  /\ pending' = [pending EXCEPT ![h] = {}]
  /\ \/ /\ waiters[h] # {}
        /\ LET terminal == pending[h] \cap Terminal # {}
           IN Shrink(h, {w \in waiters[h] :
                           terminal \/ events[w] \cap pending[h] # {}})
     \/ /\ waiters[h] = {}
        /\ UNCHANGED <<setVars, ready>>
  /\ UNCHANGED <<loopRest, regCh, cancelCh, unregCh, ppc>>

(* stopCh is closed: wake every wait set, then whatever waits in regCh. *)
wakeAll ==
  /\ ppc = "wakeall"
  /\ ppc' = "stopdrain"
  /\ waiters' = [h \in Handles |-> {}]
  /\ setEvents' = [h \in Handles |-> {}]
  /\ interest' = [h \in Handles |-> IF waiters[h] = {} THEN interest[h] ELSE {}]
  /\ wakeWaitSet(UNION {waiters[h] : h \in Handles})
  /\ UNCHANGED <<loopRest, regCh, cancelCh, unregCh, pending>>

StopDrain ==
  /\ ppc = "stopdrain"
  /\ \/ /\ regCh # <<>>
        /\ regCh' = Tail(regCh)
        /\ wakeWaitSet({Head(regCh)})
        /\ UNCHANGED ppc
     \/ /\ regCh = <<>>
        /\ ppc' = "stopping"
        /\ UNCHANGED <<regCh, ready>>
  /\ UNCHANGED <<loopRest, cancelCh, unregCh, setVars, pending>>

(* running.Store(false) and close(stopped). *)
LoopExit ==
  /\ ppc = "stopping"
  /\ ppc' = "stopped"
  /\ UNCHANGED <<loopRest, ready, regCh, cancelCh, unregCh, setVars, pending>>

PollerStep ==
  \/ LoopStart \/ LoopTop \/ drainRegistrations \/ drainCancellations
  \/ drainUnregistrations \/ NextPhase \/ EpollWait
  \/ \E h \in Handles : handleEvent(h)
  \/ wakeAll \/ StopDrain \/ LoopExit

-----------------------------------------------------------------------------
(* stop(): disable under startMu, close stopCh if the loop was started,    *)
(* then wait for stopped.                                                  *)

stopRest == <<callerVars, ready, regCh, cancelCh, unregCh, ppc, setVars,
              pending, closeVars, startMu>>

Stop ==
  /\ spc = "idle"
  /\ startMu = NoOne
  /\ disabled' = TRUE
  /\ IF started THEN stopCh' = TRUE /\ spc' = "waiting"
                ELSE spc' = "returned" /\ UNCHANGED stopCh
  /\ UNCHANGED stopRest

StopReturn ==
  /\ spc = "waiting"
  /\ stopped
  /\ spc' = "returned"
  /\ UNCHANGED <<stopRest, disabled, stopCh>>

-----------------------------------------------------------------------------
(* mode3Close: pollUnregister, then vls_close; VLS may reuse the handle.   *)

closeRest == <<callerVars, ready, regCh, cancelCh, ppc, waiters, setEvents,
               pending, startVars, cvlsh>>

(* Connections and listeners are closed once, and only after the done      *)
(* channels of the waits in flight on them have been closed.               *)
Close(c) ==
  /\ cpc[c] = "idle"
  /\ open[cvlsh[c]]
  /\ ~Closing(cvlsh[c])
  /\ cpc' = [cpc EXCEPT ![c] = "check"]
  /\ doneCh' = [w \in Waits |-> \/ doneCh[w]
                               \/ /\ vlsh[w] = cvlsh[c]
                                  /\ pc[w] # "idle" /\ ~Returned(w)]
  /\ UNCHANGED <<pc, vlsh, events, born, ready, regCh, cancelCh, unregCh, ppc,
                 setVars, pending, startVars, cvlsh, open, gen>>

pollUnregister(c) ==
  /\ cpc[c] = "check"
  /\ startMu = NoOne
  /\ cpc' = [cpc EXCEPT ![c] = IF ~disabled /\ running THEN "send" ELSE "closing"]
  /\ UNCHANGED <<closeRest, unregCh, interest, open, gen>>

SendUnregister(c) ==
  /\ cpc[c] = "send"
  /\ Len(unregCh) < ChanCap
  /\ unregCh' = Append(unregCh, c)
  /\ cpc' = [cpc EXCEPT ![c] = "wait"]
  /\ UNCHANGED <<closeRest, interest, open, gen>>

UnregisterStopped(c) ==
  /\ cpc[c] \in {"send", "wait"}
  /\ stopped
  /\ cpc' = [cpc EXCEPT ![c] = "closing"]
  /\ UNCHANGED <<closeRest, unregCh, interest, open, gen>>

(* vls_close removes the session from every epoll instance. *)
VlsClose(c) ==
  /\ cpc[c] = "closing"
  /\ cpc' = [cpc EXCEPT ![c] = "closed"]
  /\ open' = [open EXCEPT ![cvlsh[c]] = FALSE]
  /\ interest' = [interest EXCEPT ![cvlsh[c]] = {}]
  /\ UNCHANGED <<closeRest, unregCh, gen>>

(* A new session gets the freed pool index. *)
Reuse(h) ==
  /\ ~open[h]
  /\ gen[h] < MaxGen
  /\ open' = [open EXCEPT ![h] = TRUE]
  /\ gen' = [gen EXCEPT ![h] = @ + 1]
  /\ UNCHANGED <<closeRest, unregCh, interest, cpc>>

-----------------------------------------------------------------------------
WaitStep(w) ==
  \/ Start(w) \/ StartDone(w) \/ Register(w) \/ GiveUp(w) \/ Ready(w)
  \/ NoticeDone(w) \/ NoticeStopped(w) \/ SendCancel(w)

CloseStep(c) ==
  \/ pollUnregister(c) \/ SendUnregister(c) \/ UnregisterStopped(c)
  \/ VlsClose(c)

Next ==
  \/ \E w \in Waits : Call(w) \/ WaitStep(w) \/ CloseDone(w)
  \/ PollerStep
  \/ Stop \/ StopReturn
  \/ \E c \in Closers : Close(c) \/ CloseStep(c)
  \/ \E h \in Handles : Reuse(h)

Spec == Init /\ [][Next]_vars

(* The goroutines run: a runnable one is scheduled, and vls_epoll_wait     *)
(* returns after at most 100 ms. Nobody has to call, cancel, close or stop.*)
Fairness ==
  /\ WF_vars(PollerStep)
  /\ WF_vars(StopReturn)
  /\ \A w \in Waits : WF_vars(WaitStep(w))
  /\ \A c \in Closers : WF_vars(CloseStep(c))

FairSpec == Spec /\ Fairness
-----------------------------------------------------------------------------
(* Properties.                                                             *)

(* The poller never closes a ready channel twice: every path that wakes a  *)
(* waiter (event, cancel, unregister, failed epoll_ctl, stop) takes it out *)
(* of the map or the channel it came from first. A second close panics.    *)
WakeOnce == \A w \in Waits : ready[w] <= 1

(* No waiter is lost between the channel and the map: a parked caller that *)
(* nobody woke is still in regCh or in the wait set of its own handle, so  *)
(* an event, a close or stop can still reach it (or the loop has stopped,  *)
(* which it can see).                                                      *)
NoLostWaiter ==
  \A w \in Waits :
    pc[w] \in {"parked", "cancelling"} /\ ready[w] = 0 /\ ~stopped
      => InChan(regCh, w) \/ w \in waiters[vlsh[w]]

(* The mask the poller remembers for a set is the union of what its        *)
(* waiters asked for, and, on a handle that was never closed, it is what   *)
(* VLS epoll has been told: no waiter is deaf to an event it asked for,    *)
(* whatever EPOLL_CTL_ADD or EPOLL_CTL_MOD failed on the way.              *)
InterestIsUnion ==
  \A h \in Handles :
    /\ setEvents[h] = combinedEvents(waiters[h])
    /\ gen[h] = 0 /\ open[h] => interest[h] = setEvents[h]

(* Once stop() has returned, the poller makes no further VLS call ("no     *)
(* poller VLS call remains in flight"), and none can be started again.     *)
QuietAfterStop == spc = "returned" => ppc \in {"off", "stopped"}

(* Handling one cancellation leaves every other waiter of the session      *)
(* registered, unless the mask had to shrink, EPOLL_CTL_MOD failed and the *)
(* whole set was woken.                                                    *)
CancelIsExact ==
  [][\A h \in Handles : \A u \in waiters[h] :
       /\ Len(cancelCh') < Len(cancelCh)
       /\ u # Head(cancelCh)
       => \/ u \in waiters'[h]
          \/ waiters'[h] = {} /\ setEvents[h] # combinedEvents(waiters[h] \ {Head(cancelCh)})]_vars

(* Somebody is tearing something down: stop(), or a mode3Close. *)
TeardownPending ==
  spc = "waiting" \/ \E c \in Closers : cpc[c] \notin {"idle", "closed"}

(* Whoever enters the poller gets out again, wherever it is in its loop    *)
(* and however full the channels are. A wait ends when its done channel is *)
(* closed, when the poller stops, and when mode3Close queues its barrier   *)
(* while the poller holds the waiter; pollUnregister and stop end in       *)
(* whatever order they meet.                                               *)
CallersReturn ==
  /\ \A w \in Waits :
       (\/ doneCh[w]
        \/ spc # "idle" /\ pc[w] # "idle"
        \/ \E c \in Closers : cpc[c] = "wait" /\ w \in waiters[cvlsh[c]])
         ~> Returned(w)
  /\ TeardownPending ~> ~TeardownPending

(* The poller carries out the abstract readiness wait. *)
RW == INSTANCE ReadinessWait WITH
        result <- [w \in Waits |-> CASE pc[w] = "idle" -> "none"
                                     [] Returned(w) -> pc[w]
                                     [] OTHER -> "waiting"],
        woken <- {w \in Waits : ready[w] > 0},
        cancelled <- {w \in Waits : doneCh[w]},
        down <- disabled

ImplementsReadinessWait == RW!Spec

(* "Callers may destroy/reuse the VLS handle only after this returns": the *)
(* close barrier leaves nothing behind, so a wait on the session that      *)
(* reuses the handle has its events in the epoll set.                      *)
ReusedHandleIsClean ==
  \A h \in Handles : \A w \in waiters[h] :
    open[h] /\ born[w] = gen[h] => events[w] \subseteq interest[h]
=============================================================================
