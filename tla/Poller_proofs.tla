--------------------------- MODULE Poller_proofs ---------------------------
(***************************************************************************)
(* Proofs about the shared poller, for every set of calls and handles.     *)
(***************************************************************************)
EXTENDS Poller, TLAPS

NoDup(s) == \A i, j \in 1..Len(s) : s[i] = s[j] => i = j

(* Sending appends exactly one element to a channel. *)
LEMMA AppendChan ==
  ASSUME NEW S, NEW s \in Seq(S), NEW x \in S
  PROVE  /\ Append(s, x) \in Seq(S)
         /\ \A y : InChan(Append(s, x), y) <=> InChan(s, y) \/ y = x
<1>1. /\ Append(s, x) \in Seq(S)
      /\ Len(Append(s, x)) = Len(s) + 1
      /\ Append(s, x)[Len(s) + 1] = x
      /\ \A i \in 1..Len(s) : Append(s, x)[i] = s[i]
  OBVIOUS
<1>2. Len(s) \in Nat
  OBVIOUS
<1>3. ASSUME NEW y, InChan(Append(s, x), y) PROVE InChan(s, y) \/ y = x
  BY <1>1, <1>2, <1>3 DEF InChan
<1>4. ASSUME NEW y, InChan(s, y) \/ y = x PROVE InChan(Append(s, x), y)
  <2>1. CASE y = x
    <3>1. Len(s) + 1 \in 1..Len(Append(s, x))
      BY <1>1, <1>2
    <3>2. QED BY <1>1, <2>1, <3>1 DEF InChan
  <2>2. CASE InChan(s, y)
    <3>1. PICK i \in 1..Len(s) : s[i] = y
      BY <2>2 DEF InChan
    <3>2. i \in 1..Len(Append(s, x)) /\ Append(s, x)[i] = y
      BY <1>1, <1>2, <3>1
    <3>3. QED BY <3>2 DEF InChan
  <2>3. QED BY <1>4, <2>1, <2>2
<1>5. QED BY <1>1, <1>3, <1>4

(* Sending a new element keeps a channel free of duplicates. *)
LEMMA AppendNoDup ==
  ASSUME NEW S, NEW s \in Seq(S), NEW x \in S, NoDup(s), ~InChan(s, x)
  PROVE  NoDup(Append(s, x))
<1>1. /\ Len(Append(s, x)) = Len(s) + 1 /\ Len(s) \in Nat
      /\ Append(s, x)[Len(s) + 1] = x
      /\ \A i \in 1..Len(s) : Append(s, x)[i] = s[i]
  OBVIOUS
<1>2. SUFFICES ASSUME NEW i \in 1..(Len(s) + 1), NEW j \in 1..(Len(s) + 1),
                      Append(s, x)[i] = Append(s, x)[j]
               PROVE  i = j
  BY <1>1 DEF NoDup
<1>3. CASE i \in 1..Len(s) /\ j \in 1..Len(s)
  BY <1>1, <1>2, <1>3 DEF NoDup
<1>4. CASE i = Len(s) + 1 \/ j = Len(s) + 1
  BY <1>1, <1>2, <1>4 DEF InChan
<1>5. QED BY <1>1, <1>3, <1>4

(* Receiving takes the first element out and nothing else. *)
LEMMA TailChan ==
  ASSUME NEW S, NEW s \in Seq(S), s # <<>>
  PROVE  /\ Tail(s) \in Seq(S)
         /\ Head(s) \in S
         /\ InChan(s, Head(s))
         /\ \A y : InChan(Tail(s), y) => InChan(s, y)
         /\ \A y : InChan(s, y) => y = Head(s) \/ InChan(Tail(s), y)
         /\ NoDup(s) => NoDup(Tail(s)) /\ ~InChan(Tail(s), Head(s))
<1>1. /\ Tail(s) \in Seq(S) /\ Head(s) \in S
      /\ Len(s) \in Nat /\ Len(s) > 0
      /\ Head(s) = s[1]
      /\ Len(Tail(s)) = Len(s) - 1
      /\ \A i \in 1..(Len(s) - 1) : Tail(s)[i] = s[i + 1]
  OBVIOUS
<1>2. InChan(s, Head(s))
  <2>1. 1 \in 1..Len(s) BY <1>1
  <2>2. QED BY <1>1, <2>1 DEF InChan
<1>3. ASSUME NEW y, InChan(Tail(s), y) PROVE InChan(s, y)
  <2>1. PICK i \in 1..(Len(s) - 1) : Tail(s)[i] = y
    BY <1>1, <1>3 DEF InChan
  <2>2. i + 1 \in 1..Len(s) /\ s[i + 1] = y
    BY <1>1, <2>1
  <2>3. QED BY <2>2 DEF InChan
<1>4. ASSUME NEW y, InChan(s, y), y # Head(s) PROVE InChan(Tail(s), y)
  <2>1. PICK i \in 1..Len(s) : s[i] = y
    BY <1>4 DEF InChan
  <2>2. i - 1 \in 1..(Len(s) - 1)
    BY <1>1, <1>4, <2>1
  <2>3. Tail(s)[i - 1] = y
    <3>1. Tail(s)[i - 1] = s[(i - 1) + 1]
      BY <1>1, <2>2
    <3>2. (i - 1) + 1 = i
      BY <2>1
    <3>3. QED BY <2>1, <3>1, <3>2
  <2>4. QED BY <1>1, <2>2, <2>3 DEF InChan
<1>5. ASSUME NoDup(s) PROVE NoDup(Tail(s)) /\ ~InChan(Tail(s), Head(s))
  <2>1. ASSUME NEW i \in 1..(Len(s) - 1) PROVE i + 1 \in 1..Len(s) /\ Tail(s)[i] = s[i + 1]
    BY <1>1, <2>1
  <2>2. NoDup(Tail(s))
    BY <1>1, <1>5, <2>1 DEF NoDup
  <2>3. ASSUME InChan(Tail(s), Head(s)) PROVE FALSE
    <3>1. PICK i \in 1..(Len(s) - 1) : Tail(s)[i] = s[1]
      BY <1>1, <2>3 DEF InChan
    <3>2. 1 \in 1..Len(s) /\ i + 1 \in 1..Len(s) /\ s[i + 1] = s[1]
      BY <1>1, <2>1, <3>1
    <3>3. i + 1 = 1
      BY <1>5, <3>2 DEF NoDup
    <3>4. QED BY <3>1, <3>3
  <2>4. QED BY <2>2, <2>3
<1>6. QED BY <1>1, <1>2, <1>3, <1>4, <1>5
-----------------------------------------------------------------------------
(* The wait sets, the channels and the callers keep their types. *)
THEOREM TypeCorrect == Spec => []TypeOK
<1> USE PollerAssumption
<1>1. Init => TypeOK
  <2> SUFFICES ASSUME Init PROVE TypeOK
    OBVIOUS
  <2>1. doneCh \in [Waits -> BOOLEAN] /\ open \in [Handles -> BOOLEAN]
        /\ disabled \in BOOLEAN /\ stopCh \in BOOLEAN
    BY Zenon DEF Init
  <2>2. QED BY <2>1 DEF Init, TypeOK
<1>2. TypeOK /\ [Next]_vars => TypeOK'
  <2> SUFFICES ASSUME TypeOK, [Next]_vars PROVE TypeOK'
    OBVIOUS
  <2> USE DEF TypeOK
  <2>1. ASSUME NEW w \in Waits, Call(w) PROVE TypeOK'
    <3>1. Closing(vlsh[w]) \in BOOLEAN
      BY DEF Closing
    <3>2. doneCh' \in [Waits -> BOOLEAN]
      BY <2>1, <3>1, Zenon DEF Call
    <3>3. QED BY <2>1, <3>2 DEF Call, Goto, setVars, startVars, closeVars
  <2>2. ASSUME NEW w \in Waits, WaitStep(w) \/ CloseDone(w) PROVE TypeOK'
    <3> USE DEF Goto, callRest, setVars, startVars, closeVars
    <3>1. CASE Start(w)
      <4>1. /\ pc' \in [Waits -> {"idle", "start", "starting", "register",
                                 "parked", "cancelling", "true", "false"}]
            /\ startMu' \in Waits \cup {NoOne}
            /\ ppc' \in {"init", ppc}
        <5>1. CASE disabled
          BY <3>1, <5>1 DEF Start
        <5>2. CASE ~disabled /\ ppc = "off"
          <6>1. Goto(w, "starting") /\ startMu' = w /\ ppc' = "init"
            BY <3>1, <5>2, Zenon DEF Start
          <6>2. QED BY <6>1
        <5>3. CASE ~disabled /\ ppc # "off"
          BY <3>1, <5>3 DEF Start
        <5>4. QED BY <5>1, <5>2, <5>3
      <4>2. QED BY <3>1, <4>1 DEF Start
    <3>2. CASE StartDone(w)  BY <3>2 DEF StartDone
    <3>3. CASE Register(w)   BY <3>3, AppendChan DEF Register
    <3>4. CASE GiveUp(w)     BY <3>4 DEF GiveUp
    <3>5. CASE Ready(w)      BY <3>5 DEF Ready
    <3>6. CASE NoticeDone(w) BY <3>6 DEF NoticeDone
    <3>7. CASE NoticeStopped(w) BY <3>7 DEF NoticeStopped
    <3>8. CASE SendCancel(w) BY <3>8, AppendChan DEF SendCancel
    <3>9. CASE CloseDone(w)  BY <3>9 DEF CloseDone
    <3>10. QED BY <2>2, <3>1, <3>2, <3>3, <3>4, <3>5, <3>6, <3>7, <3>8, <3>9 DEF WaitStep
  <2>3. CASE PollerStep
    <3> USE DEF loopRest, callerVars, setVars, startVars, closeVars
    <3>0. ASSUME NEW S PROVE wakeWaitSet(S) => ready' \in [Waits -> Nat]
      BY DEF wakeWaitSet
    <3>a. ASSUME NEW h \in Handles, NEW S \in SUBSET Waits,
                 NEW e \in SUBSET Bits, NEW i \in SUBSET Bits, SetTo(h, S, e, i)
          PROVE  /\ waiters' \in [Handles -> SUBSET Waits]
                 /\ setEvents' \in [Handles -> SUBSET Bits]
                 /\ interest' \in [Handles -> SUBSET Bits]
      BY <3>a DEF SetTo
    <3>b. ASSUME NEW h \in Handles, NEW gone, Shrink(h, gone)
          PROVE  /\ waiters' \in [Handles -> SUBSET Waits]
                 /\ setEvents' \in [Handles -> SUBSET Bits]
                 /\ interest' \in [Handles -> SUBSET Bits]
                 /\ ready' \in [Waits -> Nat]
      <4>1. waiters[h] \ gone \in SUBSET Waits
        OBVIOUS
      <4>2. combinedEvents(waiters[h] \ gone) \in SUBSET Bits
        BY <4>1 DEF combinedEvents, Bits
      <4>3. {} \in SUBSET Waits /\ {} \in SUBSET Bits /\ interest[h] \in SUBSET Bits
        OBVIOUS
      <4>4. QED BY <3>b, <3>0, <3>a, <4>1, <4>2, <4>3 DEF Shrink, dropWaitSet
    <3>1. CASE LoopStart  BY <3>1 DEF LoopStart
    <3>2. CASE LoopTop    BY <3>2 DEF LoopTop
    <3>3. CASE drainRegistrations
      <4> DEFINE w == Head(regCh)
                 h == vlsh[w]
                 new == setEvents[h] \cup events[w]
      <4>1. w \in Waits /\ Tail(regCh) \in Seq(Waits)
        BY <3>3, TailChan DEF drainRegistrations
      <4>2. h \in Handles /\ events[w] \in SUBSET Bits /\ new \in SUBSET Bits
            /\ interest[h] \in SUBSET Bits /\ {w} \in SUBSET Waits
            /\ waiters[h] \cup {w} \in SUBSET Waits
        BY <4>1 DEF Bits
      <4>3. \/ /\ \E S \in SUBSET Waits : \E e, i \in SUBSET Bits : SetTo(h, S, e, i)
               /\ UNCHANGED ready
            \/ wakeWaitSet({w}) /\ UNCHANGED setVars
        BY <3>3, <4>2, Zenon DEF drainRegistrations
      <4>5. /\ waiters' \in [Handles -> SUBSET Waits]
            /\ setEvents' \in [Handles -> SUBSET Bits]
            /\ interest' \in [Handles -> SUBSET Bits]
            /\ ready' \in [Waits -> Nat]
        <5>1. CASE wakeWaitSet({w}) /\ UNCHANGED setVars
          BY <5>1, <3>0
        <5>2. CASE /\ \E S \in SUBSET Waits : \E e, i \in SUBSET Bits : SetTo(h, S, e, i)
                   /\ UNCHANGED ready
          <6>1. PICK S \in SUBSET Waits, e \in SUBSET Bits, i \in SUBSET Bits : SetTo(h, S, e, i)
            BY <5>2
          <6>2. QED BY <6>1, <5>2, <3>a, <4>2
        <5>3. QED BY <4>3, <5>1, <5>2
      <4>6. QED BY <3>3, <4>1, <4>5 DEF drainRegistrations
    <3>4. CASE drainCancellations
      <4>1. Head(cancelCh) \in Waits /\ Tail(cancelCh) \in Seq(Waits)
        BY <3>4, TailChan DEF drainCancellations
      <4>2. vlsh[Head(cancelCh)] \in Handles
        BY <4>1
      <4>3. /\ waiters' \in [Handles -> SUBSET Waits]
            /\ setEvents' \in [Handles -> SUBSET Bits]
            /\ interest' \in [Handles -> SUBSET Bits]
            /\ ready' \in [Waits -> Nat]
        <5>1. \/ Shrink(vlsh[Head(cancelCh)], {Head(cancelCh)})
              \/ UNCHANGED <<setVars, ready>>
          BY <3>4, Zenon DEF drainCancellations
        <5>2. CASE Shrink(vlsh[Head(cancelCh)], {Head(cancelCh)})
          BY <3>b, <4>2, <5>2, Zenon
        <5>3. CASE UNCHANGED <<setVars, ready>>
          BY <5>3
        <5>4. QED BY <5>1, <5>2, <5>3
      <4>4. QED BY <3>4, <4>1, <4>3 DEF drainCancellations
    <3>5. CASE drainUnregistrations
      <4> DEFINE h == cvlsh[Head(unregCh)]
      <4>1. Head(unregCh) \in Closers /\ Tail(unregCh) \in Seq(Closers)
        BY <3>5, TailChan DEF drainUnregistrations
      <4>2. /\ waiters' \in [Handles -> SUBSET Waits]
            /\ setEvents' \in [Handles -> SUBSET Bits]
            /\ interest' \in [Handles -> SUBSET Bits]
            /\ ready' \in [Waits -> Nat]
        <5>1. h \in Handles /\ (IF waiters[h] = {} THEN interest[h] ELSE {}) \in SUBSET Bits
          BY <4>1
        <5>2. SetTo(h, {}, {}, IF waiters[h] = {} THEN interest[h] ELSE {})
              /\ wakeWaitSet(waiters[h])
          BY <3>5 DEF drainUnregistrations
        <5>3. {} \in SUBSET Waits /\ {} \in SUBSET Bits
          OBVIOUS
        <5>4. QED BY <3>0, <3>a, <5>1, <5>2, <5>3
      <4>3. QED BY <3>5, <4>1, <4>2 DEF drainUnregistrations
    <3>6. CASE NextPhase  BY <3>6 DEF NextPhase
    <3>7. CASE EpollWait  BY <3>7 DEF EpollWait
    <3>8. ASSUME NEW h \in Handles, handleEvent(h) PROVE TypeOK'
      <4>1. pending' \in [Handles -> SUBSET (Bits \cup Terminal)]
        BY <3>8 DEF handleEvent
      <4>2. /\ waiters' \in [Handles -> SUBSET Waits]
            /\ setEvents' \in [Handles -> SUBSET Bits]
            /\ interest' \in [Handles -> SUBSET Bits]
            /\ ready' \in [Waits -> Nat]
        <5>1. (\E gone : Shrink(h, gone)) \/ UNCHANGED <<setVars, ready>>
          BY <3>8, Zenon DEF handleEvent
        <5>2. CASE \E gone : Shrink(h, gone)
          BY <3>b, <5>2, Zenon
        <5>3. CASE UNCHANGED <<setVars, ready>>
          BY <5>3
        <5>4. QED BY <5>1, <5>2, <5>3
      <4>3. QED BY <3>8, <4>1, <4>2 DEF handleEvent
    <3>9. CASE wakeAll
      BY <3>9, <3>0 DEF wakeAll
    <3>10. CASE StopDrain
      <4>1. CASE regCh # <<>>
        <5>0. regCh' = Tail(regCh) /\ wakeWaitSet({Head(regCh)})
          BY <3>10, <4>1, Zenon DEF StopDrain
        <5>1. regCh' \in Seq(Waits) /\ ready' \in [Waits -> Nat]
          BY <5>0, <4>1, <3>0, TailChan
        <5>2. ppc' = ppc
          BY <3>10, <4>1 DEF StopDrain
        <5>3. QED BY <3>10, <5>1, <5>2 DEF StopDrain
      <4>2. CASE regCh = <<>>
        BY <3>10, <4>2 DEF StopDrain
      <4>3. QED BY <4>1, <4>2
    <3>11. CASE LoopExit  BY <3>11 DEF LoopExit
    <3>12. QED
      BY <2>3, <3>1, <3>2, <3>3, <3>4, <3>5, <3>6, <3>7, <3>8, <3>9, <3>10, <3>11
         DEF PollerStep
  <2>4. CASE Stop \/ StopReturn
    <3> USE DEF stopRest, callerVars, setVars, closeVars
    <3>1. CASE StopReturn BY <3>1 DEF StopReturn
    <3>2. CASE Stop
      <4>1. disabled' \in BOOLEAN /\ stopCh' \in BOOLEAN
            /\ spc' \in {"idle", "waiting", "returned"}
        BY <3>2 DEF Stop
      <4>2. QED BY <3>2, <4>1 DEF Stop
    <3>3. QED BY <2>4, <3>1, <3>2
  <2>5. ASSUME NEW c \in Closers, Close(c) \/ CloseStep(c) PROVE TypeOK'
    <3> USE DEF closeRest, callerVars, setVars, startVars
    <3>1. CASE Close(c)             BY <3>1 DEF Close
    <3>2. CASE pollUnregister(c)    BY <3>2 DEF pollUnregister
    <3>3. CASE SendUnregister(c)    BY <3>3, AppendChan DEF SendUnregister
    <3>4. CASE UnregisterStopped(c) BY <3>4 DEF UnregisterStopped
    <3>5. CASE VlsClose(c)          BY <3>5 DEF VlsClose
    <3>6. QED BY <2>5, <3>1, <3>2, <3>3, <3>4, <3>5 DEF CloseStep
  <2>6. ASSUME NEW h \in Handles, Reuse(h) PROVE TypeOK'
    <3>1. open' \in [Handles -> BOOLEAN] /\ gen' \in [Handles -> 0..MaxGen]
      <4>1. gen[h] \in 0..MaxGen /\ gen[h] < MaxGen /\ MaxGen \in Nat
        BY <2>6 DEF Reuse, PollerAssumption
      <4>2. gen[h] + 1 \in 0..MaxGen
        BY <4>1
      <4>3. QED BY <2>6, <4>2 DEF Reuse
    <3>2. QED BY <2>6, <3>1 DEF Reuse, closeRest, callerVars, setVars, startVars
  <2>7. CASE UNCHANGED vars
    BY <2>7 DEF vars, callerVars, setVars, startVars, closeVars
  <2>8. QED BY <2>1, <2>2, <2>3, <2>4, <2>5, <2>6, <2>7 DEF Next
<1>3. QED BY <1>1, <1>2, PTL DEF Spec
-----------------------------------------------------------------------------
(* Why no ready channel is closed twice and no waiter is lost: a waiter is *)
(* nowhere until its caller has sent it, then in exactly one of regCh and  *)
(* the wait set of its own handle, then woken and in neither.              *)
Unsent(w) == pc[w] \in {"idle", "start", "starting", "register"}

Placed(w) == InChan(regCh, w) \/ w \in waiters[vlsh[w]]

PlaceInv(w) ==
  /\ ready[w] \in {0, 1}
  /\ Placed(w) => ready[w] = 0 /\ ~Unsent(w)
  /\ Unsent(w) => ready[w] = 0
  /\ \A h \in Handles : w \in waiters[h] => vlsh[w] = h /\ ~InChan(regCh, w)
  /\ ~Unsent(w) /\ ready[w] = 0 /\ ~stopped /\ ~Returned(w) => Placed(w)

Placement == NoDup(regCh) /\ \A w \in Waits : PlaceInv(w)

(* Steps of the poller: every waiter it held stays placed or is woken and  *)
(* let go of, and nobody else is touched.                                  *)
LEMMA PollerMoves ==
  ASSUME TypeOK, Placement, NoDup(regCh'), UNCHANGED <<pc, vlsh>>, stopped => stopped',
         \A w \in Waits : \A h \in Handles :
            w \in waiters'[h] => vlsh[w] = h /\ ~InChan(regCh', w),
         \A w \in Waits :
            \/ Placed(w)' /\ Placed(w) /\ ready'[w] = ready[w]
            \/ ~Placed(w)' /\ Placed(w) /\ ready'[w] = ready[w] + 1
            \/ ~Placed(w)' /\ ~Placed(w) /\ ready'[w] = ready[w]
  PROVE  Placement'
<1> SUFFICES ASSUME NEW w \in Waits PROVE PlaceInv(w)'
  BY DEF Placement
<1>1. PlaceInv(w)
  BY DEF Placement
<1>2. Unsent(w)' = Unsent(w) /\ Returned(w)' = Returned(w)
  BY DEF Unsent, Returned
<1>3. ready'[w] \in {0, 1} /\ (Placed(w)' => ready'[w] = 0 /\ ~Unsent(w))
      /\ (Unsent(w) => ready'[w] = 0)
  BY <1>1 DEF PlaceInv
<1>4. ~Unsent(w) /\ ready'[w] = 0 /\ ~stopped' /\ ~Returned(w) => Placed(w)'
  BY <1>1 DEF PlaceInv
<1>5. QED BY <1>2, <1>3, <1>4 DEF PlaceInv

(* Shrinking a wait set wakes exactly the waiters that leave it. *)
LEMMA ShrinkMoves ==
  ASSUME TypeOK, Placement, NEW h \in Handles, NEW gone \in SUBSET waiters[h],
         Shrink(h, gone), UNCHANGED <<pc, vlsh, regCh, ppc>>
  PROVE  Placement'
<1>1. PICK out \in SUBSET waiters[h] :
         /\ waiters' = [waiters EXCEPT ![h] = @ \ out]
         /\ wakeWaitSet(out)
  <2>1. CASE waiters[h] \ gone = {}
    <3>1. dropWaitSet(h) /\ wakeWaitSet(gone)
      BY <2>1, Zenon DEF Shrink
    <3>2. waiters' = [waiters EXCEPT ![h] = @ \ gone]
      BY <2>1, <3>1 DEF dropWaitSet, SetTo
    <3>3. QED BY <3>1, <3>2
  <2>2. CASE waiters[h] \ gone # {}
    <3>1. \/ waiters' = [waiters EXCEPT ![h] = @ \ gone] /\ wakeWaitSet(gone)
          \/ waiters' = [waiters EXCEPT ![h] = {}] /\ wakeWaitSet(waiters[h])
      BY <2>2, Zenon DEF Shrink, dropWaitSet, SetTo
    <3>2. CASE waiters' = [waiters EXCEPT ![h] = {}] /\ wakeWaitSet(waiters[h])
      <4>1. waiters' = [waiters EXCEPT ![h] = @ \ waiters[h]]
        BY <3>2
      <4>2. QED BY <3>2, <4>1
    <3>3. QED BY <3>1, <3>2
  <2>3. QED BY <2>1, <2>2
<1>2. \A g \in Handles : waiters'[g] = IF g = h THEN waiters[h] \ out ELSE waiters[g]
  BY <1>1 DEF TypeOK
<1>3. \A w \in Waits : ready'[w] = ready[w] + (IF w \in out THEN 1 ELSE 0)
  BY <1>1 DEF wakeWaitSet
<1>4. \A w \in Waits : PlaceInv(w) /\ vlsh[w] \in Handles /\ ready[w] \in Nat
  BY DEF Placement, TypeOK
<1>5. ASSUME NEW w \in Waits
      PROVE  /\ \A g \in Handles : w \in waiters'[g] => vlsh[w] = g /\ ~InChan(regCh', w)
             /\ w \in out => ~Placed(w)' /\ Placed(w)
             /\ w \notin out => Placed(w)' = Placed(w)
  <2>1. \A g \in Handles : w \in waiters[g] => vlsh[w] = g /\ ~InChan(regCh, w)
    BY <1>4 DEF PlaceInv
  <2>2. InChan(regCh', w) = InChan(regCh, w)
    BY DEF InChan
  <2>3. w \in waiters'[vlsh[w]] <=> w \in waiters[vlsh[w]] /\ w \notin out
    BY <1>1, <1>2, <1>4, <2>1
  <2>4. QED BY <1>1, <1>2, <2>1, <2>2, <2>3 DEF Placed
<1>6. stopped' = stopped /\ NoDup(regCh')
  BY DEF stopped, NoDup, Placement
<1>7. \A w \in Waits :
         \/ Placed(w)' /\ Placed(w) /\ ready'[w] = ready[w]
         \/ ~Placed(w)' /\ Placed(w) /\ ready'[w] = ready[w] + 1
         \/ ~Placed(w)' /\ ~Placed(w) /\ ready'[w] = ready[w]
  BY <1>3, <1>4, <1>5
<1>8. QED BY <1>5, <1>6, <1>7, PollerMoves

(* Every step keeps each waiter in its one place. *)
LEMMA PlacementStep ==
  ASSUME TypeOK, TypeOK', Placement, [Next]_vars
  PROVE  Placement'
<1>0. ASSUME UNCHANGED <<pc, vlsh, regCh, ready, waiters>>, stopped => stopped'
      PROVE  Placement'
  <2>1. \A w \in Waits : InChan(regCh, w)' = InChan(regCh, w)
    BY <1>0 DEF InChan
  <2>2. QED
    BY <1>0, <2>1 DEF Placement, PlaceInv, Placed, Unsent, Returned, NoDup
<1>1. ASSUME NEW w \in Waits, Call(w) \/ WaitStep(w) \/ CloseDone(w)
      PROVE  Placement'
  <2>1. CASE Register(w)
    <3>1. /\ regCh' = Append(regCh, w) /\ pc[w] = "register"
          /\ pc' = [pc EXCEPT ![w] = "parked"]
          /\ UNCHANGED <<vlsh, ready, waiters, ppc>>
      BY <2>1 DEF Register, Goto, callRest, setVars
    <3>2. ~InChan(regCh, w) /\ ready[w] = 0 /\ \A h \in Handles : w \notin waiters[h]
      BY <3>1 DEF Placement, PlaceInv, Placed, Unsent
    <3>3. NoDup(regCh')
      BY <3>1, <3>2, AppendNoDup DEF TypeOK, Placement
    <3>4. \A u \in Waits : InChan(regCh', u) <=> InChan(regCh, u) \/ u = w
      BY <3>1, AppendChan DEF TypeOK
    <3>5. stopped' = stopped
      BY <3>1 DEF stopped
    <3>6. ASSUME NEW u \in Waits PROVE PlaceInv(u)'
      <4>1. PlaceInv(u) BY DEF Placement
      <4>2. CASE u = w
        BY <3>1, <3>2, <3>4, <4>2 DEF PlaceInv, Placed, Unsent, Returned, TypeOK
      <4>3. CASE u # w
        <5>1. pc'[u] = pc[u] BY <3>1, <4>3 DEF TypeOK
        <5>2. InChan(regCh', u) <=> InChan(regCh, u) BY <3>4, <4>3
        <5>3. QED BY <3>1, <3>5, <4>1, <5>1, <5>2 DEF PlaceInv, Placed, Unsent, Returned
      <4>4. QED BY <4>2, <4>3
    <3>7. QED BY <3>3, <3>6 DEF Placement
  <2>2. CASE CloseDone(w)
    BY <2>2, <1>0 DEF CloseDone, setVars, stopped
  <2>3. CASE ~Register(w) /\ ~CloseDone(w)
    <3>1. \/ Call(w) \/ Start(w) \/ StartDone(w) \/ GiveUp(w) \/ Ready(w)
          \/ NoticeDone(w) \/ NoticeStopped(w) \/ SendCancel(w)
      BY <1>1, <2>3 DEF WaitStep
    <3>2. UNCHANGED <<vlsh, regCh, ready, waiters>>
      BY <3>1 DEF Call, Start, StartDone, GiveUp, Ready, NoticeDone, NoticeStopped,
                  SendCancel, callRest, setVars
    <3>3. stopped => stopped'
      BY <3>1 DEF Call, Start, StartDone, GiveUp, Ready, NoticeDone, NoticeStopped,
                  SendCancel, stopped
    <3>4. /\ \A u \in Waits : u # w => pc'[u] = pc[u]
          /\ pc'[w] = "false" \/ (Unsent(w) <=> Unsent(w)')
          /\ (Unsent(w)' => Unsent(w))
          /\ Returned(w)' \/ ~Returned(w)
      BY <3>1 DEF Call, Start, StartDone, GiveUp, Ready, NoticeDone, NoticeStopped,
                  SendCancel, Goto, TypeOK, Unsent, Returned
    <3>5. \A u \in Waits : InChan(regCh, u)' = InChan(regCh, u)
      BY <3>2 DEF InChan
    <3>6. ASSUME NEW u \in Waits PROVE PlaceInv(u)'
      <4>1. PlaceInv(u) /\ (Placed(u)' <=> Placed(u)) /\ ready'[u] = ready[u]
        BY <3>2, <3>5 DEF Placement, Placed
      <4>2. Unsent(u)' => Unsent(u)
        BY <3>4 DEF Unsent
      <4>3. \/ Returned(u)'
            \/ (Unsent(u) <=> Unsent(u)') /\ ~Returned(u)
            \/ (Unsent(u) <=> Unsent(u)') /\ (Returned(u)' <=> Returned(u))
        <5>1. CASE u = w
          BY <3>4, <5>1 DEF Returned, Unsent
        <5>2. CASE u # w
          <6>1. pc'[u] = pc[u] BY <3>4, <5>2
          <6>2. QED BY <6>1 DEF Unsent, Returned
        <5>3. QED BY <5>1, <5>2
      <4>4. QED BY <3>2, <3>3, <3>5, <4>1, <4>2, <4>3 DEF PlaceInv
    <3>7. QED BY <3>2, <3>6 DEF Placement, NoDup
  <2>4. QED BY <2>1, <2>2, <2>3
<1>2. CASE PollerStep
  <2> USE DEF loopRest, callerVars, setVars
  <2>1. CASE LoopStart \/ LoopTop \/ NextPhase \/ EpollWait \/ LoopExit
    BY <2>1, <1>0 DEF LoopStart, LoopTop, NextPhase, EpollWait, LoopExit, stopped
  <2>2. CASE drainRegistrations
    <3> DEFINE w == Head(regCh)
               h == vlsh[w]
    <3>1. regCh # <<>> /\ regCh' = Tail(regCh) /\ UNCHANGED <<pc, vlsh, ppc>>
      BY <2>2 DEF drainRegistrations
    <3>2. /\ w \in Waits /\ InChan(regCh, w) /\ NoDup(regCh') /\ ~InChan(regCh', w)
          /\ \A y : InChan(regCh', y) => InChan(regCh, y)
          /\ \A y : InChan(regCh, y) => y = w \/ InChan(regCh', y)
      BY <3>1, TailChan DEF TypeOK, Placement
    <3>3. h \in Handles
      BY <3>2 DEF TypeOK
    <3>4. \/ waiters' = [waiters EXCEPT ![h] = @ \cup {w}] /\ UNCHANGED ready
          \/ UNCHANGED waiters /\ wakeWaitSet({w})
      <4>1. \/ waiters[h] = {} /\ SetTo(h, {w}, events[w], events[w]) /\ UNCHANGED ready
            \/ (\E e, i : SetTo(h, waiters[h] \cup {w}, e, i)) /\ UNCHANGED ready
            \/ UNCHANGED waiters /\ wakeWaitSet({w})
        BY <2>2, Zenon DEF drainRegistrations
      <4>2. QED BY <4>1 DEF SetTo
    <3>5. \A u \in Waits : PlaceInv(u) /\ vlsh[u] \in Handles /\ ready[u] \in Nat
      BY DEF Placement, TypeOK
    <3>6. ASSUME NEW u \in Waits
          PROVE  /\ u = w => \/ Placed(u)' /\ ready'[u] = ready[u]
                             \/ ~Placed(u)' /\ ready'[u] = ready[u] + 1
                 /\ u # w => (Placed(u)' <=> Placed(u)) /\ ready'[u] = ready[u]
                 /\ \A g \in Handles : u \in waiters'[g] => vlsh[u] = g /\ ~InChan(regCh', u)
      <4>1. \A g \in Handles : u \in waiters[g] => vlsh[u] = g /\ ~InChan(regCh, u)
        BY <3>5 DEF PlaceInv
      <4>2. CASE waiters' = [waiters EXCEPT ![h] = @ \cup {w}] /\ UNCHANGED ready
        <5>1. \A g \in Handles : waiters'[g] = IF g = h THEN waiters[h] \cup {w} ELSE waiters[g]
          BY <4>2 DEF TypeOK
        <5>2. CASE u = w
          <6>0. vlsh'[u] = h /\ u \in waiters'[h] BY <3>1, <3>3, <5>1, <5>2
          <6>1. Placed(u)' BY <6>0 DEF Placed
          <6>2. \A g \in Handles : u \in waiters'[g] => vlsh[u] = g
            BY <4>1, <5>1, <5>2
          <6>3. QED BY <3>2, <4>2, <5>2, <6>1, <6>2
        <5>3. CASE u # w
          <6>1. InChan(regCh', u) <=> InChan(regCh, u) BY <3>2, <5>3, Zenon
          <6>2. \A g \in Handles : u \in waiters'[g] <=> u \in waiters[g]
            BY <5>1, <5>3
          <6>3. vlsh'[u] = vlsh[u] BY <3>1
          <6>4. QED BY <3>5, <4>1, <4>2, <5>3, <6>1, <6>2, <6>3 DEF Placed
        <5>4. QED BY <5>2, <5>3
      <4>3. CASE UNCHANGED waiters /\ wakeWaitSet({w})
        <5>1. ready'[u] = ready[u] + (IF u = w THEN 1 ELSE 0)
          BY <4>3 DEF wakeWaitSet
        <5>2. vlsh'[u] = vlsh[u] BY <3>1
        <5>3. CASE u = w
          <6>1. \A g \in Handles : u \notin waiters'[g]
            BY <3>2, <4>1, <4>3, <5>3
          <6>2. ~Placed(u)' BY <3>2, <3>5, <5>2, <5>3, <6>1 DEF Placed
          <6>3. QED BY <5>1, <5>3, <6>1, <6>2
        <5>4. CASE u # w
          <6>1. InChan(regCh', u) <=> InChan(regCh, u) BY <3>2, <5>4, Zenon
          <6>2. ready'[u] = ready[u] BY <3>5, <5>1, <5>4
          <6>3. QED BY <4>1, <4>3, <5>2, <5>4, <6>1, <6>2 DEF Placed
        <5>5. QED BY <5>3, <5>4
      <4>4. QED BY <3>4, <4>2, <4>3
    <3>7. Placed(w)
      BY <3>2 DEF Placed
    <3>8. stopped' = stopped
      BY <3>1 DEF stopped
    <3>9. QED BY <3>1, <3>2, <3>6, <3>7, <3>8, PollerMoves
  <2>3. CASE drainCancellations
    <3> DEFINE w == Head(cancelCh)
    <3>1. w \in Waits /\ vlsh[w] \in Handles
      BY <2>3, TailChan DEF drainCancellations, TypeOK
    <3>2. UNCHANGED <<pc, vlsh, regCh, ppc>>
      BY <2>3 DEF drainCancellations
    <3>3. \/ w \in waiters[vlsh[w]] /\ Shrink(vlsh[w], {w})
          \/ UNCHANGED <<waiters, ready>>
      BY <2>3, Zenon DEF drainCancellations
    <3>4. CASE w \in waiters[vlsh[w]] /\ Shrink(vlsh[w], {w})
      <4>1. {w} \in SUBSET waiters[vlsh[w]]
        BY <3>4
      <4>2. QED BY <3>1, <3>2, <3>4, <4>1, ShrinkMoves
    <3>5. CASE UNCHANGED <<waiters, ready>>
      BY <3>2, <3>5, <1>0 DEF stopped
    <3>6. QED BY <3>3, <3>4, <3>5
  <2>4. ASSUME NEW h \in Handles, handleEvent(h) PROVE Placement'
    <3>1. UNCHANGED <<pc, vlsh, regCh, ppc>>
      BY <2>4 DEF handleEvent
    <3>2. (\E gone \in SUBSET waiters[h] : Shrink(h, gone)) \/ UNCHANGED <<waiters, ready>>
      <4> DEFINE G == {w \in waiters[h] : \/ pending[h] \cap Terminal # {}
                                         \/ events[w] \cap pending[h] # {}}
      <4>1. G \in SUBSET waiters[h] OBVIOUS
      <4>2. Shrink(h, G) \/ UNCHANGED <<waiters, ready>>
        BY <2>4, Zenon DEF handleEvent
      <4>3. QED BY <4>1, <4>2, Zenon
    <3>3. CASE \E gone \in SUBSET waiters[h] : Shrink(h, gone)
      BY <3>1, <3>3, ShrinkMoves
    <3>4. CASE UNCHANGED <<waiters, ready>>
      BY <3>1, <3>4, <1>0 DEF stopped
    <3>5. QED BY <3>2, <3>3, <3>4
  <2>5. CASE drainUnregistrations
    <3> DEFINE h == cvlsh[Head(unregCh)]
    <3>1. h \in Handles
      BY <2>5, TailChan DEF drainUnregistrations, TypeOK
    <3>2. UNCHANGED <<pc, vlsh, regCh, ppc>>
      BY <2>5 DEF drainUnregistrations
    <3>3. waiters' = [waiters EXCEPT ![h] = {}] /\ wakeWaitSet(waiters[h])
      BY <2>5, Zenon DEF drainUnregistrations, SetTo
    <3>4. \A w \in Waits : /\ vlsh[w] \in Handles /\ ready[w] \in Nat /\ PlaceInv(w)
                           /\ InChan(regCh', w) = InChan(regCh, w)
                           /\ ready'[w] = ready[w] + (IF w \in waiters[h] THEN 1 ELSE 0)
      BY <3>2, <3>3 DEF TypeOK, Placement, wakeWaitSet
    <3>5. \A g \in Handles : waiters'[g] = IF g = h THEN {} ELSE waiters[g]
      BY <3>3 DEF TypeOK
    <3>6. ASSUME NEW w \in Waits
          PROVE  /\ \A g \in Handles : w \in waiters'[g] => vlsh[w] = g /\ ~InChan(regCh', w)
                 /\ w \in waiters[h] => ~Placed(w)' /\ Placed(w)
                 /\ w \notin waiters[h] => (Placed(w)' <=> Placed(w))
      BY <3>1, <3>2, <3>4, <3>5 DEF Placed, PlaceInv
    <3>7. NoDup(regCh') /\ stopped' = stopped
      BY <3>2 DEF stopped, NoDup, Placement
    <3>8. QED BY <3>2, <3>4, <3>6, <3>7, PollerMoves
  <2>6. CASE wakeAll
    <3>1. UNCHANGED <<pc, vlsh, regCh>> /\ ~stopped
      BY <2>6 DEF wakeAll, stopped
    <3>2. waiters' = [h \in Handles |-> {}] /\ wakeWaitSet(UNION {waiters[h] : h \in Handles})
      BY <2>6 DEF wakeAll
    <3>3. ASSUME NEW w \in Waits
          PROVE  /\ vlsh[w] \in Handles /\ ready[w] \in Nat /\ PlaceInv(w)
                 /\ InChan(regCh', w) = InChan(regCh, w)
                 /\ ready'[w] = ready[w] + (IF w \in waiters[vlsh[w]] THEN 1 ELSE 0)
      <4>1. vlsh[w] \in Handles /\ ready[w] \in Nat /\ PlaceInv(w)
        BY DEF TypeOK, Placement
      <4>2. w \in UNION {waiters[h] : h \in Handles} <=> w \in waiters[vlsh[w]]
        BY <4>1 DEF PlaceInv
      <4>3. QED BY <3>1, <3>2, <4>1, <4>2 DEF wakeWaitSet
    <3>4. ASSUME NEW w \in Waits
          PROVE  /\ w \in waiters[vlsh[w]] => ~Placed(w)' /\ Placed(w)
                 /\ w \notin waiters[vlsh[w]] => (Placed(w)' <=> Placed(w))
      BY <3>1, <3>2, <3>3 DEF Placed, PlaceInv
    <3>5. NoDup(regCh') /\ \A w \in Waits : \A h \in Handles : w \notin waiters'[h]
      BY <3>1, <3>2 DEF NoDup, Placement
    <3>6. QED BY <3>1, <3>3, <3>4, <3>5, PollerMoves
  <2>7. CASE StopDrain
    <3>1. CASE regCh = <<>>
      BY <2>7, <3>1, <1>0 DEF StopDrain, stopped
    <3>2. CASE regCh # <<>>
      <4> DEFINE w == Head(regCh)
      <4>1. regCh' = Tail(regCh) /\ wakeWaitSet({w}) /\ UNCHANGED <<pc, vlsh, waiters, ppc>>
        BY <2>7, <3>2, Zenon DEF StopDrain
      <4>2. /\ w \in Waits /\ InChan(regCh, w) /\ NoDup(regCh') /\ ~InChan(regCh', w)
            /\ \A y : InChan(regCh', y) => InChan(regCh, y)
            /\ \A y : InChan(regCh, y) => y = w \/ InChan(regCh', y)
        BY <3>2, <4>1, TailChan DEF TypeOK, Placement
      <4>3. \A u \in Waits : /\ PlaceInv(u) /\ vlsh[u] \in Handles /\ ready[u] \in Nat
                             /\ ready'[u] = ready[u] + (IF u = w THEN 1 ELSE 0)
        BY <4>1 DEF Placement, TypeOK, wakeWaitSet
      <4>4. ASSUME NEW u \in Waits
            PROVE  /\ u = w => ~Placed(u)' /\ Placed(u)
                   /\ u # w => (Placed(u)' <=> Placed(u))
                   /\ \A g \in Handles : u \in waiters'[g] => vlsh[u] = g /\ ~InChan(regCh', u)
        <5>1. vlsh'[u] = vlsh[u] /\ waiters' = waiters BY <4>1
        <5>2. \A g \in Handles : u \in waiters[g] => vlsh[u] = g /\ ~InChan(regCh, u)
          BY <4>3 DEF PlaceInv
        <5>3. CASE u = w
          <6>1. \A g \in Handles : u \notin waiters[g]
            BY <4>2, <5>2, <5>3
          <6>2. QED BY <4>2, <4>3, <5>1, <5>3, <6>1 DEF Placed
        <5>4. CASE u # w
          <6>1. InChan(regCh', u) <=> InChan(regCh, u) BY <4>2, <5>4, Zenon
          <6>2. QED BY <5>1, <5>2, <5>4, <6>1 DEF Placed
        <5>5. QED BY <5>3, <5>4
      <4>5. stopped' = stopped
        BY <4>1 DEF stopped
      <4>6. QED BY <4>1, <4>2, <4>3, <4>4, <4>5, PollerMoves
    <3>3. QED BY <3>1, <3>2
  <2>8. QED
    BY <1>2, <2>1, <2>2, <2>3, <2>4, <2>5, <2>6, <2>7 DEF PollerStep
<1>3. CASE Stop \/ StopReturn
  BY <1>3, <1>0 DEF Stop, StopReturn, stopRest, callerVars, setVars, stopped
<1>4. ASSUME NEW c \in Closers, Close(c) \/ CloseStep(c) PROVE Placement'
  BY <1>4, <1>0 DEF Close, CloseStep, pollUnregister, SendUnregister, UnregisterStopped,
                    VlsClose, closeRest, callerVars, setVars, stopped
<1>5. ASSUME NEW h \in Handles, Reuse(h) PROVE Placement'
  BY <1>5, <1>0 DEF Reuse, closeRest, callerVars, stopped
<1>6. CASE UNCHANGED vars
  BY <1>6, <1>0 DEF vars, callerVars, setVars, stopped
<1>7. QED BY <1>1, <1>2, <1>3, <1>4, <1>5, <1>6 DEF Next

(* Each waiter is in its one place in every reachable state. *)
THEOREM PlacementInvariant == Spec => []Placement
<1>1. Init => Placement
  BY DEF Init, Placement, PlaceInv, Placed, Unsent, NoDup, InChan
<1>2. QED BY <1>1, PlacementStep, TypeCorrect, PTL DEF Spec

(* No ready channel is closed twice: the poller cannot panic there. *)
THEOREM WakeOnceHolds == Spec => []WakeOnce
<1>1. Placement => WakeOnce
  BY DEF Placement, PlaceInv, WakeOnce
<1>2. QED BY <1>1, PlacementInvariant, PTL

(* A parked caller that was not woken can still be reached. *)
THEOREM NoLostWaiterHolds == Spec => []NoLostWaiter
<1>1. Placement => NoLostWaiter
  BY DEF Placement, PlaceInv, Placed, NoLostWaiter, Unsent, Returned
<1>2. QED BY <1>1, PlacementInvariant, PTL
-----------------------------------------------------------------------------
(* Replacing one wait set keeps the masks right when the new mask is the   *)
(* union over the new set and VLS was told, or nothing had to be told.     *)
LEMMA SetToUnion ==
  ASSUME TypeOK, InterestIsUnion, NEW h \in Handles, NEW S \in SUBSET Waits, NEW i,
         SetTo(h, S, combinedEvents(S), i),
         i = combinedEvents(S) \/ (i = interest[h] /\ combinedEvents(S) = setEvents[h]),
         UNCHANGED <<events, open, gen>>
  PROVE  InterestIsUnion'
<1>1. ASSUME NEW g \in Handles
      PROVE  /\ waiters'[g] = IF g = h THEN S ELSE waiters[g]
             /\ setEvents'[g] = IF g = h THEN combinedEvents(S) ELSE setEvents[g]
             /\ interest'[g] = IF g = h THEN i ELSE interest[g]
  BY DEF SetTo, TypeOK
<1>2. \A T : combinedEvents(T)' = combinedEvents(T)
  BY DEF combinedEvents
<1>3. ASSUME NEW g \in Handles
      PROVE  /\ setEvents'[g] = combinedEvents(waiters[g])'
             /\ gen'[g] = 0 /\ open'[g] => interest'[g] = setEvents'[g]
  <2>1. combinedEvents(waiters[g])' = UNION {events[w] : w \in waiters'[g]}
    BY DEF combinedEvents
  <2>2. CASE g = h
    BY <1>1, <2>1, <2>2 DEF InterestIsUnion, combinedEvents
  <2>3. CASE g # h
    BY <1>1, <2>1, <2>3 DEF InterestIsUnion, combinedEvents
  <2>4. QED BY <2>2, <2>3
<1>4. QED BY <1>3 DEF InterestIsUnion

(* Shrinking a set keeps the masks right, whether EPOLL_CTL_MOD works or not. *)
LEMMA ShrinkUnion ==
  ASSUME TypeOK, InterestIsUnion, NEW h \in Handles, NEW gone, Shrink(h, gone),
         UNCHANGED <<events, open, gen>>
  PROVE  InterestIsUnion'
<1>1. combinedEvents({}) = {}
  BY DEF combinedEvents
<1>2. waiters[h] \ gone \in SUBSET Waits /\ {} \in SUBSET Waits
  BY DEF TypeOK
<1>3. \/ SetTo(h, {}, {}, {})
      \/ LET left == waiters[h] \ gone
             mask == combinedEvents(left)
         IN \/ SetTo(h, left, mask, mask)
            \/ mask = setEvents[h] /\ SetTo(h, left, mask, interest[h])
  BY Zenon DEF Shrink, dropWaitSet
<1>4. CASE SetTo(h, {}, {}, {})
  BY <1>1, <1>2, <1>4, SetToUnion
<1>5. CASE SetTo(h, waiters[h] \ gone, combinedEvents(waiters[h] \ gone),
                 combinedEvents(waiters[h] \ gone))
  BY <1>2, <1>5, SetToUnion
<1>6. CASE /\ combinedEvents(waiters[h] \ gone) = setEvents[h]
           /\ SetTo(h, waiters[h] \ gone, combinedEvents(waiters[h] \ gone), interest[h])
  BY <1>2, <1>6, SetToUnion
<1>7. QED BY <1>3, <1>4, <1>5, <1>6

(* Masks and epoll interest follow the wait sets. *)
THEOREM InterestIsUnionHolds == Spec => []InterestIsUnion
<1>1. Init => InterestIsUnion
  BY DEF Init, InterestIsUnion, combinedEvents
<1>2. TypeOK /\ InterestIsUnion /\ [Next]_vars => InterestIsUnion'
  <2> SUFFICES ASSUME TypeOK, InterestIsUnion, [Next]_vars PROVE InterestIsUnion'
    OBVIOUS
  <2>0. ASSUME UNCHANGED <<waiters, setEvents, interest, events, open, gen>>
        PROVE  InterestIsUnion'
    BY <2>0 DEF InterestIsUnion, combinedEvents
  <2>1. ASSUME NEW w \in Waits, Call(w) \/ WaitStep(w) \/ CloseDone(w)
        PROVE  InterestIsUnion'
    BY <2>0, <2>1 DEF Call, WaitStep, CloseDone, Start, StartDone, Register, GiveUp,
         Ready, NoticeDone, NoticeStopped, SendCancel, callRest, setVars, closeVars
  <2>2. CASE PollerStep
    <3> USE DEF loopRest, callerVars, closeVars, setVars
    <3>1. CASE \/ LoopStart \/ LoopTop \/ NextPhase \/ EpollWait \/ StopDrain \/ LoopExit
      BY <2>0, <3>1 DEF LoopStart, LoopTop, NextPhase, EpollWait, StopDrain, LoopExit
    <3>2. CASE drainRegistrations
      <4> DEFINE w == Head(regCh)
                 h == vlsh[w]
                 S == waiters[h] \cup {w}
                 new == setEvents[h] \cup events[w]
      <4>1. w \in Waits
        BY <3>2, TailChan DEF drainRegistrations, TypeOK
      <4>2. h \in Handles /\ S \in SUBSET Waits /\ {w} \in SUBSET Waits
        BY <4>1 DEF TypeOK
      <4>3. combinedEvents({w}) = events[w] /\ combinedEvents(S) = new
        <5>1. combinedEvents({w}) = events[w]
          BY DEF combinedEvents
        <5>2. combinedEvents(S) = combinedEvents(waiters[h]) \cup events[w]
          BY DEF combinedEvents
        <5>3. QED BY <4>2, <5>1, <5>2 DEF InterestIsUnion
      <4>4. UNCHANGED <<events, open, gen>>
        BY <3>2 DEF drainRegistrations
      <4>5. \/ SetTo(h, {w}, events[w], events[w])
            \/ SetTo(h, S, new, new)
            \/ new = setEvents[h] /\ SetTo(h, S, new, interest[h])
            \/ UNCHANGED setVars
        BY <3>2, Zenon DEF drainRegistrations
      <4>6. CASE SetTo(h, {w}, events[w], events[w])
        BY <4>2, <4>3, <4>4, <4>6, SetToUnion
      <4>7. CASE SetTo(h, S, new, new)
        BY <4>2, <4>3, <4>4, <4>7, SetToUnion
      <4>8. CASE new = setEvents[h] /\ SetTo(h, S, new, interest[h])
        BY <4>2, <4>3, <4>4, <4>8, SetToUnion
      <4>9. CASE UNCHANGED setVars
        BY <2>0, <4>4, <4>9
      <4>10. QED BY <4>5, <4>6, <4>7, <4>8, <4>9
    <3>3. CASE drainCancellations
      <4>1. vlsh[Head(cancelCh)] \in Handles
        BY <3>3, TailChan DEF drainCancellations, TypeOK
      <4>2. UNCHANGED <<events, open, gen>>
        BY <3>3 DEF drainCancellations
      <4>3. Shrink(vlsh[Head(cancelCh)], {Head(cancelCh)}) \/ UNCHANGED setVars
        BY <3>3, Zenon DEF drainCancellations
      <4>4. CASE UNCHANGED setVars
        BY <2>0, <4>2, <4>4
      <4>5. CASE Shrink(vlsh[Head(cancelCh)], {Head(cancelCh)})
        BY <4>1, <4>2, <4>5, ShrinkUnion
      <4>6. QED BY <4>3, <4>4, <4>5
    <3>4. ASSUME NEW h \in Handles, handleEvent(h) PROVE InterestIsUnion'
      <4>1. UNCHANGED <<events, open, gen>>
        BY <3>4 DEF handleEvent
      <4>2. (\E gone : Shrink(h, gone)) \/ UNCHANGED setVars
        BY <3>4, Zenon DEF handleEvent
      <4>3. CASE UNCHANGED setVars
        BY <2>0, <4>1, <4>3
      <4>4. CASE \E gone : Shrink(h, gone)
        BY <4>1, <4>4, ShrinkUnion
      <4>5. QED BY <4>2, <4>3, <4>4
    <3>5. CASE drainUnregistrations
      <4> DEFINE h == cvlsh[Head(unregCh)]
      <4>1. h \in Handles /\ {} \in SUBSET Waits
        BY <3>5, TailChan DEF drainUnregistrations, TypeOK
      <4>2. UNCHANGED <<events, open, gen>>
        BY <3>5 DEF drainUnregistrations
      <4>3. SetTo(h, {}, {}, IF waiters[h] = {} THEN interest[h] ELSE {})
        BY <3>5, Zenon DEF drainUnregistrations
      <4>4. combinedEvents({}) = {} /\ (waiters[h] = {} => setEvents[h] = {})
        BY <4>1 DEF combinedEvents, InterestIsUnion
      <4>5. QED BY <4>1, <4>2, <4>3, <4>4, SetToUnion
    <3>6. CASE wakeAll
      BY <3>6 DEF wakeAll, InterestIsUnion, combinedEvents, TypeOK
    <3>7. QED BY <2>2, <3>1, <3>2, <3>3, <3>4, <3>5, <3>6 DEF PollerStep
  <2>3. CASE Stop \/ StopReturn
    BY <2>0, <2>3 DEF Stop, StopReturn, stopRest, callerVars, setVars, closeVars
  <2>4. ASSUME NEW c \in Closers, Close(c) \/ CloseStep(c) PROVE InterestIsUnion'
    <3>1. CASE Close(c) \/ pollUnregister(c) \/ SendUnregister(c) \/ UnregisterStopped(c)
      BY <2>0, <3>1 DEF Close, pollUnregister, SendUnregister, UnregisterStopped,
                        closeRest, callerVars, setVars
    <3>2. CASE VlsClose(c)
      BY <3>2 DEF VlsClose, closeRest, callerVars, InterestIsUnion, combinedEvents, TypeOK
    <3>3. QED BY <2>4, <3>1, <3>2 DEF CloseStep
  <2>5. ASSUME NEW h \in Handles, Reuse(h) PROVE InterestIsUnion'
    BY <2>5 DEF Reuse, closeRest, callerVars, InterestIsUnion, combinedEvents, TypeOK
  <2>6. CASE UNCHANGED vars
    BY <2>0, <2>6 DEF vars, callerVars, setVars, closeVars
  <2>7. QED BY <2>1, <2>2, <2>3, <2>4, <2>5, <2>6 DEF Next
<1>3. QED BY <1>1, <1>2, TypeCorrect, PTL DEF Spec
-----------------------------------------------------------------------------
(* A stop() that returned has either found the loop not started, and no    *)
(* later start() gets past disabled, or has seen it exit.                  *)
StopInv ==
  /\ ppc = "init" => startMu # NoOne
  /\ spc # "idle" => disabled
  /\ QuietAfterStop

(* After stop() has returned the poller makes no VLS call. *)
THEOREM QuietAfterStopHolds == Spec => []QuietAfterStop
<1>1. Init => StopInv
  BY DEF Init, StopInv, QuietAfterStop
<1>2. StopInv /\ [Next]_vars => StopInv'
  <2> SUFFICES ASSUME StopInv, [Next]_vars PROVE StopInv'
    OBVIOUS
  <2> USE DEF StopInv, QuietAfterStop
  <2>1. ASSUME NEW w \in Waits, Call(w) \/ WaitStep(w) \/ CloseDone(w) PROVE StopInv'
    <3> USE DEF startVars, callRest
    <3>1. CASE Start(w)
      BY <3>1, PollerAssumption DEF Start
    <3>2. CASE StartDone(w)
      BY <3>2 DEF StartDone, started
    <3>3. CASE ~Start(w) /\ ~StartDone(w)
      BY <2>1, <3>3 DEF Call, WaitStep, CloseDone, Register, GiveUp, Ready, NoticeDone,
                        NoticeStopped, SendCancel
    <3>4. QED BY <3>1, <3>2, <3>3
  <2>2. CASE PollerStep
    BY <2>2 DEF PollerStep, LoopStart, LoopTop, drainRegistrations, drainCancellations,
       drainUnregistrations, NextPhase, EpollWait, handleEvent, wakeAll, StopDrain,
       LoopExit, loopRest, startVars
  <2>3. CASE Stop \/ StopReturn
    BY <2>3 DEF Stop, StopReturn, stopRest, started, stopped
  <2>4. ASSUME NEW c \in Closers, Close(c) \/ CloseStep(c) PROVE StopInv'
    BY <2>4 DEF Close, CloseStep, pollUnregister, SendUnregister, UnregisterStopped,
                VlsClose, closeRest, startVars
  <2>5. ASSUME NEW h \in Handles, Reuse(h) PROVE StopInv'
    BY <2>5 DEF Reuse, closeRest, startVars
  <2>6. CASE UNCHANGED vars
    BY <2>6 DEF vars, startVars
  <2>7. QED BY <2>1, <2>2, <2>3, <2>4, <2>5, <2>6 DEF Next
<1>3. StopInv => QuietAfterStop
  BY DEF StopInv
<1>4. QED BY <1>1, <1>2, <1>3, PTL DEF Spec
-----------------------------------------------------------------------------
(* Only drainCancellations takes a cancellation from its channel. *)
LEMMA WhoTakesCancel ==
  ASSUME TypeOK, [Next]_vars
  PROVE  drainCancellations \/ ~(Len(cancelCh') < Len(cancelCh))
<1>0. cancelCh \in Seq(Waits) /\ Len(cancelCh) \in Nat
  BY DEF TypeOK
<1>1. ASSUME NEW w \in Waits, Call(w) \/ WaitStep(w) \/ CloseDone(w)
      PROVE  ~(Len(cancelCh') < Len(cancelCh))
  <2>1. CASE SendCancel(w)
    <3>1. cancelCh' = Append(cancelCh, w)
      BY <2>1 DEF SendCancel
    <3>2. Len(cancelCh') = Len(cancelCh) + 1
      BY <1>0, <3>1
    <3>3. QED BY <1>0, <3>2
  <2>2. CASE ~SendCancel(w)
    <3>1. UNCHANGED cancelCh
      BY <1>1, <2>2 DEF Call, WaitStep, CloseDone, Start, StartDone, Register, GiveUp, Ready, NoticeDone,
                        NoticeStopped, callRest
    <3>2. QED BY <1>0, <3>1
  <2>3. QED BY <2>1, <2>2
<1>2. CASE PollerStep
  <2>1. drainCancellations \/ UNCHANGED cancelCh
    BY <1>2 DEF PollerStep, LoopStart, LoopTop, drainRegistrations, drainUnregistrations, NextPhase, EpollWait,
                handleEvent, wakeAll, StopDrain, LoopExit
  <2>2. QED BY <1>0, <2>1
<1>3. CASE Stop \/ StopReturn \/ (\E c \in Closers : Close(c) \/ CloseStep(c)) \/ (\E h \in Handles : Reuse(h))
  <2>1. UNCHANGED cancelCh
    BY <1>3 DEF Stop, StopReturn, Close, CloseStep, pollUnregister, SendUnregister, UnregisterStopped, VlsClose,
                Reuse, stopRest, closeRest
  <2>2. QED BY <1>0, <2>1
<1>4. CASE UNCHANGED vars
  BY <1>0, <1>4 DEF vars
<1>5. QED BY <1>1, <1>2, <1>3, <1>4, Zenon DEF Next

(* What taking out one waiter does to another one of any set. *)
LEMMA ShrinkOne ==
  ASSUME TypeOK, NEW g \in Handles, NEW w, Shrink(g, {w}),
         NEW h \in Handles, NEW u \in waiters[h], u # w
  PROVE  u \in waiters'[h] \/ (waiters'[h] = {} /\ setEvents[h] # combinedEvents(waiters[h] \ {w}))
<1>1. PICK S : /\ waiters' = [waiters EXCEPT ![g] = S]
               /\ \/ S = waiters[g] \ {w}
                  \/ S = {} /\ (waiters[g] \ {w} = {} \/ combinedEvents(waiters[g] \ {w}) # setEvents[g])
  BY Zenon DEF Shrink, dropWaitSet, SetTo
<1>2. waiters'[h] = IF h = g THEN S ELSE waiters[h]
  BY <1>1 DEF TypeOK
<1>3. CASE h # g
  BY <1>2, <1>3
<1>4. CASE h = g /\ S = waiters[g] \ {w}
  BY <1>2, <1>4
<1>5. CASE h = g /\ S = {} /\ (waiters[g] \ {w} = {} \/ combinedEvents(waiters[g] \ {w}) # setEvents[g])
  <2>1. waiters[g] \ {w} # {}
    BY <1>5
  <2>2. QED BY <1>2, <1>5, <2>1
<1>6. QED BY <1>1, <1>3, <1>4, <1>5

(* A cancellation takes its own waiter and no other, unless the smaller    *)
(* mask cannot be told to VLS epoll.                                       *)
THEOREM CancelIsExactHolds == Spec => CancelIsExact
<1> DEFINE Kept == \A h \in Handles : \A u \in waiters[h] :
             /\ Len(cancelCh') < Len(cancelCh)
             /\ u # Head(cancelCh)
             => \/ u \in waiters'[h]
                \/ waiters'[h] = {} /\ setEvents[h] # combinedEvents(waiters[h] \ {Head(cancelCh)})
<1>1. ASSUME TypeOK, [Next]_vars PROVE Kept
  <2>1. SUFFICES ASSUME NEW h \in Handles, NEW u \in waiters[h],
                        Len(cancelCh') < Len(cancelCh), u # Head(cancelCh)
                 PROVE  \/ u \in waiters'[h]
                        \/ waiters'[h] = {} /\ setEvents[h] # combinedEvents(waiters[h] \ {Head(cancelCh)})
    OBVIOUS
  <2>2. drainCancellations
    BY <1>1, <2>1, WhoTakesCancel
  <2>3. Head(cancelCh) \in Waits /\ vlsh[Head(cancelCh)] \in Handles
    BY <1>1, <2>2, TailChan DEF drainCancellations, TypeOK
  <2>4. Shrink(vlsh[Head(cancelCh)], {Head(cancelCh)}) \/ UNCHANGED setVars
    BY <2>2, Zenon DEF drainCancellations
  <2>5. CASE UNCHANGED setVars
    BY <2>5 DEF setVars
  <2>6. CASE Shrink(vlsh[Head(cancelCh)], {Head(cancelCh)})
    BY <1>1, <2>1, <2>3, <2>6, ShrinkOne
  <2>7. QED BY <2>4, <2>5, <2>6
<1>2. TypeOK /\ [Next]_vars => [Kept]_vars
  BY <1>1
<1>3. QED BY <1>2, TypeCorrect, PTL DEF Spec, CancelIsExact, Kept
-----------------------------------------------------------------------------
(* The poller implements the abstract readiness wait. The three mapped     *)
(* variables under names of their own.                                     *)
ResultBar == [w \in Waits |-> CASE pc[w] = "idle" -> "none"
                                [] Returned(w) -> pc[w]
                                [] OTHER -> "waiting"]
WokenBar == {w \in Waits : ready[w] > 0}
CancelledBar == {w \in Waits : doneCh[w]}

(* What the answers rest on: a call is cancelled only between its begin    *)
(* and its end and withdraws only when it is, and the loop ends only after *)
(* stop() has disabled the poller.                                         *)
StopOrder ==
  /\ ppc = "init" => startMu # NoOne
  /\ ppc \in {"wakeall", "stopdrain", "stopping", "stopped"} => stopCh
  /\ stopCh => disabled

AnswerOK(w) ==
  /\ pc[w] = "idle" => ~doneCh[w]
  /\ pc[w] = "cancelling" => doneCh[w]

LEMMA StopOrderStep ==
  ASSUME StopOrder, [Next]_vars
  PROVE  StopOrder'
<1> USE DEF StopOrder
<1>1. ASSUME NEW w \in Waits, Call(w) \/ WaitStep(w) \/ CloseDone(w) PROVE StopOrder'
  <2> USE DEF startVars, callRest
  <2>1. CASE Start(w)
    BY <2>1, PollerAssumption DEF Start
  <2>2. CASE StartDone(w)
    BY <2>2 DEF StartDone, started
  <2>3. CASE ~Start(w) /\ ~StartDone(w)
    BY <1>1, <2>3 DEF Call, WaitStep, CloseDone, Register, GiveUp, Ready, NoticeDone, NoticeStopped, SendCancel
  <2>4. QED BY <2>1, <2>2, <2>3
<1>2. CASE PollerStep
  <2>1. CASE LoopTop
    <3>1. CASE stopCh
      BY <2>1, <3>1 DEF LoopTop, loopRest, startVars
    <3>2. CASE ~stopCh
      BY <2>1, <3>2 DEF LoopTop, loopRest, startVars
    <3>3. QED BY <3>1, <3>2
  <2>2. CASE ~LoopTop
    <3>1. /\ UNCHANGED <<startMu, disabled, stopCh>>
          /\ \/ ppc' = ppc \/ ppc' \in {"top", "cancel", "unreg", "wait", "event"}
             \/ ppc \in {"wakeall", "stopdrain", "stopping"}
      BY <1>2, <2>2 DEF PollerStep, LoopStart, drainRegistrations, drainCancellations, drainUnregistrations,
                        NextPhase, EpollWait, handleEvent, wakeAll, StopDrain, LoopExit, loopRest, startVars
    <3>2. ppc' = "init" => ppc = "init"
      BY <1>2, <2>2 DEF PollerStep, LoopStart, drainRegistrations, drainCancellations, drainUnregistrations,
                        NextPhase, EpollWait, handleEvent, wakeAll, StopDrain, LoopExit
    <3>3. QED BY <3>1, <3>2
  <2>3. QED BY <2>1, <2>2
<1>3. CASE Stop \/ StopReturn
  BY <1>3 DEF Stop, StopReturn, stopRest
<1>4. CASE (\E c \in Closers : Close(c) \/ CloseStep(c)) \/ (\E h \in Handles : Reuse(h)) \/ UNCHANGED vars
  BY <1>4 DEF Close, CloseStep, pollUnregister, SendUnregister, UnregisterStopped, VlsClose, Reuse, closeRest,
              vars, startVars
<1>5. QED BY <1>1, <1>2, <1>3, <1>4, Zenon DEF Next

LEMMA AnswerStep ==
  ASSUME TypeOK, \A u \in Waits : AnswerOK(u), [Next]_vars, NEW u \in Waits
  PROVE  AnswerOK(u)'
<1>0. AnswerOK(u) /\ pc = [v \in Waits |-> pc[v]] /\ doneCh \in [Waits -> BOOLEAN]
  BY DEF TypeOK
<1>1. CASE pc'[u] = pc[u] /\ (doneCh'[u] <=> doneCh[u])
  BY <1>0, <1>1 DEF AnswerOK
<1>2. ASSUME NEW w \in Waits, Call(w) PROVE AnswerOK(u)'
  <2>1. pc' = [pc EXCEPT ![w] = "start"] /\ doneCh' = [doneCh EXCEPT ![w] = Closing(vlsh[w])]
    BY <1>2 DEF Call, Goto
  <2>2. CASE u = w
    BY <1>0, <2>1, <2>2 DEF AnswerOK
  <2>3. CASE u # w
    <3>1. pc'[u] = pc[u]
      BY <1>0, <2>1, <2>3
    <3>2. doneCh'[u] <=> doneCh[u]
      BY <1>0, <2>1, <2>3, Zenon
    <3>3. QED BY <1>1, <3>1, <3>2
  <2>4. QED BY <2>2, <2>3
<1>3. ASSUME NEW w \in Waits, WaitStep(w) PROVE AnswerOK(u)'
  <2>1. UNCHANGED doneCh /\ \E x \in {"starting", "register", "parked", "cancelling", "true", "false"} :
             pc' = [pc EXCEPT ![w] = x] /\ (x = "cancelling" => doneCh[w])
    BY <1>3 DEF WaitStep, Start, StartDone, Register, GiveUp, Ready, NoticeDone, NoticeStopped, SendCancel, Goto,
                callRest
  <2>2. QED BY <1>0, <2>1 DEF AnswerOK
<1>4. ASSUME NEW w \in Waits, CloseDone(w) PROVE AnswerOK(u)'
  <2>1. UNCHANGED pc /\ pc[w] # "idle" /\ doneCh' = [doneCh EXCEPT ![w] = TRUE]
    BY <1>4 DEF CloseDone
  <2>2. u = w => doneCh'[u]
    BY <1>0, <2>1, Zenon
  <2>3. u # w => (doneCh'[u] <=> doneCh[u])
    BY <1>0, <2>1, Zenon
  <2>4. QED BY <1>0, <2>1, <2>2, <2>3 DEF AnswerOK
<1>5. ASSUME NEW c \in Closers, Close(c) PROVE AnswerOK(u)'
  <2>1. UNCHANGED pc /\ doneCh'[u] = (doneCh[u] \/ (vlsh[u] = cvlsh[c] /\ pc[u] # "idle" /\ ~Returned(u)))
    BY <1>5, Zenon DEF Close
  <2>2. (doneCh[u] => doneCh'[u]) /\ (doneCh'[u] => doneCh[u] \/ pc[u] # "idle")
    BY <2>1, Zenon
  <2>3. QED BY <1>0, <2>1, <2>2 DEF AnswerOK
<1>6. CASE UNCHANGED <<pc, doneCh>>
  BY <1>1, <1>6
<1>7. CASE PollerStep
  BY <1>6, <1>7 DEF PollerStep, LoopStart, LoopTop, drainRegistrations, drainCancellations, drainUnregistrations,
              NextPhase, EpollWait, handleEvent, wakeAll, StopDrain, LoopExit, loopRest, callerVars
<1>8. CASE Stop \/ StopReturn \/ (\E c \in Closers : CloseStep(c)) \/ (\E h \in Handles : Reuse(h)) \/ UNCHANGED vars
  BY <1>6, <1>8 DEF Stop, StopReturn, CloseStep, pollUnregister, SendUnregister, UnregisterStopped, VlsClose,
                    Reuse, closeRest, stopRest, vars, callerVars
<1>9. QED BY <1>2, <1>3, <1>4, <1>5, <1>7, <1>8, Zenon DEF Next

Answers == StopOrder /\ \A w \in Waits : AnswerOK(w)

LEMMA AnswersInvariant == Spec => []Answers
<1>1. Init => Answers
  <2>1. SUFFICES ASSUME Init PROVE Answers
    OBVIOUS
  <2>2. StopOrder
    BY <2>1 DEF Init, StopOrder
  <2>3. ASSUME NEW w \in Waits PROVE AnswerOK(w)
    BY <2>1 DEF Init, AnswerOK
  <2>4. QED BY <2>2, <2>3 DEF Answers
<1>2. TypeOK /\ Answers /\ [Next]_vars => Answers'
  BY StopOrderStep, AnswerStep DEF Answers
<1>3. QED BY <1>1, <1>2, TypeCorrect, PTL DEF Spec

(* How a call of the code moves the mapped result. *)
LEMMA ResultMoves ==
  ASSUME TypeOK, NEW w \in Waits, NEW x, pc' = [pc EXCEPT ![w] = x]
  PROVE  /\ pc[w] = "idle" => ResultBar[w] = "none"
         /\ pc[w] \notin {"idle", "true", "false"} => ResultBar[w] = "waiting"
         /\ x \notin {"idle", "true", "false"} => ResultBar' = [ResultBar EXCEPT ![w] = "waiting"]
         /\ x \in {"true", "false"} => ResultBar' = [ResultBar EXCEPT ![w] = x]
<1>0. pc = [v \in Waits |-> pc[v]]
  BY DEF TypeOK
<1>1. \A v \in Waits : ResultBar[v] = IF pc[v] = "idle" THEN "none" ELSE
                                      IF pc[v] \in {"true", "false"} THEN pc[v] ELSE "waiting"
  BY DEF ResultBar, Returned
<1>2. ResultBar = [v \in Waits |-> ResultBar[v]]
  BY DEF ResultBar
<1>3. ResultBar' = [v \in Waits |-> IF pc'[v] = "idle" THEN "none" ELSE
                                    IF pc'[v] \in {"true", "false"} THEN pc'[v] ELSE "waiting"]
  BY DEF ResultBar, Returned
<1>4. \A v \in Waits : pc'[v] = IF v = w THEN x ELSE pc[v]
  BY <1>0
<1>5. /\ pc[w] = "idle" => ResultBar[w] = "none"
      /\ pc[w] \notin {"idle", "true", "false"} => ResultBar[w] = "waiting"
  BY <1>1
<1>6. ASSUME NEW y, (IF x = "idle" THEN "none" ELSE IF x \in {"true", "false"} THEN x ELSE "waiting") = y
      PROVE  ResultBar' = [ResultBar EXCEPT ![w] = y]
  <2>1. ResultBar' = [v \in Waits |-> IF v = w THEN y ELSE ResultBar[v]]
    BY <1>1, <1>3, <1>4, <1>6
  <2>2. QED BY <1>2, <2>1
<1>7. QED BY <1>5, <1>6

(* The abstract actions in terms of the mapped variables. *)
LEMMA BarStutter ==
  ASSUME ResultBar' = ResultBar, WokenBar' = WokenBar, CancelledBar' = CancelledBar, UNCHANGED disabled
  PROVE  UNCHANGED RW!vars
BY DEF RW!vars, ResultBar, WokenBar, CancelledBar

LEMMA BarCall ==
  ASSUME NEW w \in Waits, ResultBar[w] = "none", ResultBar' = [ResultBar EXCEPT ![w] = "waiting"],
         CancelledBar' = CancelledBar \/ CancelledBar' = CancelledBar \cup {w},
         WokenBar' = WokenBar, UNCHANGED disabled
  PROVE  RW!Next
<1>1. RW!Call(w)
  BY DEF RW!Call, ResultBar, WokenBar, CancelledBar
<1>2. QED BY <1>1, Zenon DEF RW!Next

LEMMA BarReturn ==
  ASSUME NEW w \in Waits, ResultBar[w] = "waiting", NEW x,
         ResultBar' = [ResultBar EXCEPT ![w] = x],
         (x = "true" /\ w \in WokenBar) \/ (x = "false" /\ (w \in CancelledBar \/ disabled)),
         CancelledBar' = CancelledBar, WokenBar' = WokenBar, UNCHANGED disabled
  PROVE  RW!Next
<1>1. CASE x = "true" /\ w \in WokenBar
  <2>1. RW!ReturnTrue(w)
    BY <1>1 DEF RW!ReturnTrue, ResultBar, WokenBar, CancelledBar
  <2>2. QED BY <2>1, Zenon DEF RW!Next
<1>2. CASE x = "false" /\ (w \in CancelledBar \/ disabled)
  <2>1. RW!ReturnFalse(w)
    BY <1>2 DEF RW!ReturnFalse, ResultBar, WokenBar, CancelledBar
  <2>2. QED BY <2>1, Zenon DEF RW!Next
<1>3. QED BY <1>1, <1>2

LEMMA BarWake ==
  ASSUME NEW S \in SUBSET Waits, S # {}, \A w \in S : w \notin WokenBar /\ ResultBar[w] # "none",
         WokenBar' = WokenBar \cup S, ResultBar' = ResultBar, CancelledBar' = CancelledBar, UNCHANGED disabled
  PROVE  RW!Next
<1>1. RW!Wake(S)
  BY DEF RW!Wake, ResultBar, WokenBar, CancelledBar
<1>2. QED BY <1>1, Zenon DEF RW!Next

LEMMA BarCancel ==
  ASSUME NEW S \in SUBSET Waits, \A w \in S : ResultBar[w] = "waiting",
         CancelledBar' = CancelledBar \cup S, ResultBar' = ResultBar, WokenBar' = WokenBar, UNCHANGED disabled
  PROVE  RW!Next
<1>1. RW!Cancel(S)
  BY DEF RW!Cancel, ResultBar, WokenBar, CancelledBar
<1>2. QED BY <1>1, Zenon DEF RW!Next

LEMMA BarGoDown ==
  ASSUME ~disabled, disabled' = TRUE,
         ResultBar' = ResultBar, WokenBar' = WokenBar, CancelledBar' = CancelledBar
  PROVE  RW!Next
<1>1. RW!GoDown
  BY DEF RW!GoDown, ResultBar, WokenBar, CancelledBar
<1>2. QED BY <1>1, Zenon DEF RW!Next

(* A mapped variable depends on one variable of the poller. *)
LEMMA BarSame ==
  /\ UNCHANGED pc => ResultBar' = ResultBar
  /\ UNCHANGED ready => WokenBar' = WokenBar
  /\ UNCHANGED doneCh => CancelledBar' = CancelledBar
BY DEF ResultBar, WokenBar, CancelledBar, Returned

(* The result of a call by its position. *)
LEMMA ResultAt ==
  ASSUME NEW w \in Waits
  PROVE  /\ pc[w] # "idle" => ResultBar[w] # "none" \/ pc[w] = "none"
         /\ pc[w] \notin {"idle", "true", "false"} => ResultBar[w] = "waiting"
BY DEF ResultBar, Returned

(* A step of a caller. *)
LEMMA RefineWait ==
  ASSUME TypeOK, Answers, NEW w \in Waits, WaitStep(w)
  PROVE  RW!Next \/ UNCHANGED RW!vars
<1>1. UNCHANGED <<doneCh, ready, disabled>>
  BY DEF WaitStep, Start, StartDone, Register, GiveUp, Ready, NoticeDone, NoticeStopped, SendCancel, callRest,
         startVars
<1>2. pc[w] \notin {"idle", "true", "false"}
  BY DEF WaitStep, Start, StartDone, Register, GiveUp, Ready, NoticeDone, NoticeStopped, SendCancel
<1>3. stopped => disabled
  BY DEF Answers, StopOrder, stopped
<1>4. PICK x \in {"starting", "register", "parked", "cancelling", "true", "false"} :
         /\ pc' = [pc EXCEPT ![w] = x]
         /\ x = "true" => ready[w] > 0
         /\ x = "false" => doneCh[w] \/ disabled
  <2>1. CASE Start(w)
    <3>1. CASE disabled
      <4>1. pc' = [pc EXCEPT ![w] = "false"]
        BY <2>1, <3>1 DEF Start, Goto
      <4>2. QED BY <3>1, <4>1
    <3>2. CASE ~disabled
      <4>1. startMu = NoOne
        BY <2>1 DEF Start
      <4>2. ppc # "init" /\ ~stopped
        BY <1>3, <3>2, <4>1 DEF Answers, StopOrder
      <4>3. ppc # "off" => running
        BY <4>2 DEF running, started
      <4>4. pc' = [pc EXCEPT ![w] = "starting"] \/ pc' = [pc EXCEPT ![w] = "register"]
        BY <2>1, <3>2, <4>3, Zenon DEF Start, Goto
      <4>5. QED BY <4>4
    <3>3. QED BY <3>1, <3>2
  <2>2. CASE StartDone(w)
    <3>1. CASE running
      <4>1. pc' = [pc EXCEPT ![w] = "register"]
        BY <2>2, <3>1 DEF StartDone, Goto
      <4>2. QED BY <4>1
    <3>2. CASE ~running
      <4>1. pc' = [pc EXCEPT ![w] = "false"]
        BY <2>2, <3>2 DEF StartDone, Goto
      <4>2. disabled
        BY <1>3, <2>2, <3>2 DEF StartDone, running
      <4>3. QED BY <4>1, <4>2
    <3>3. QED BY <3>1, <3>2
  <2>3. CASE Register(w) \/ NoticeDone(w) \/ Ready(w)
    BY <2>3 DEF Register, NoticeDone, Ready, Goto
  <2>4. CASE GiveUp(w) \/ NoticeStopped(w)
    BY <1>3, <2>4 DEF GiveUp, NoticeStopped, Goto
  <2>5. CASE SendCancel(w)
    <3>1. pc[w] = "cancelling" /\ pc' = [pc EXCEPT ![w] = "false"]
      BY <2>5 DEF SendCancel, Goto
    <3>2. doneCh[w]
      BY <3>1 DEF Answers, AnswerOK
    <3>3. QED BY <3>1, <3>2
  <2>6. QED BY <2>1, <2>2, <2>3, <2>4, <2>5 DEF WaitStep
<1>5. WokenBar' = WokenBar /\ CancelledBar' = CancelledBar
  BY <1>1, BarSame
<1>6. ResultBar[w] = "waiting"
  BY <1>2, ResultAt
<1>7. CASE x \in {"true", "false"}
  <2>1. ResultBar' = [ResultBar EXCEPT ![w] = x]
    BY <1>4, <1>7, ResultMoves
  <2>2. (x = "true" /\ w \in WokenBar) \/ (x = "false" /\ (w \in CancelledBar \/ disabled))
    BY <1>4, <1>7 DEF WokenBar, CancelledBar
  <2>3. QED BY <1>1, <1>5, <1>6, <2>1, <2>2, BarReturn
<1>8. CASE x \notin {"true", "false"}
  <2>1. ResultBar' = [ResultBar EXCEPT ![w] = "waiting"]
    BY <1>4, <1>8, ResultMoves
  <2>2. ResultBar = [v \in Waits |-> ResultBar[v]]
    BY DEF ResultBar
  <2>3. ResultBar' = ResultBar
    BY <1>6, <2>1, <2>2
  <2>4. QED BY <1>1, <1>5, <2>3, BarStutter
<1>9. QED BY <1>7, <1>8

(* A step of the poller wakes calls that were made and not woken yet. *)
LEMMA RefinePoller ==
  ASSUME TypeOK, TypeOK', Placement, Placement', PollerStep
  PROVE  RW!Next \/ UNCHANGED RW!vars
<1>1. UNCHANGED <<pc, doneCh, disabled>>
  BY DEF PollerStep, LoopStart, LoopTop, drainRegistrations, drainCancellations, drainUnregistrations,
         NextPhase, EpollWait, handleEvent, wakeAll, StopDrain, LoopExit, loopRest, callerVars, startVars
<1>2. UNCHANGED ready \/ \E S : wakeWaitSet(S)
  <2>1. ASSUME NEW h, NEW gone, Shrink(h, gone) PROVE \E S : wakeWaitSet(S)
    BY <2>1, Zenon DEF Shrink
  <2>2. CASE drainCancellations
    <3>1. Shrink(vlsh[Head(cancelCh)], {Head(cancelCh)}) \/ UNCHANGED ready
      BY <2>2, Zenon DEF drainCancellations
    <3>2. QED BY <2>1, <3>1
  <2>3. ASSUME NEW h \in Handles, handleEvent(h) PROVE UNCHANGED ready \/ \E S : wakeWaitSet(S)
    <3>1. (\E gone : Shrink(h, gone)) \/ UNCHANGED ready
      BY <2>3, Zenon DEF handleEvent
    <3>2. QED BY <2>1, <3>1
  <2>4. CASE drainRegistrations
    BY <2>4, Zenon DEF drainRegistrations
  <2>5. CASE drainUnregistrations
    BY <2>5, Zenon DEF drainUnregistrations
  <2>6. CASE wakeAll
    BY <2>6, Zenon DEF wakeAll
  <2>7. CASE StopDrain
    BY <2>7, Zenon DEF StopDrain
  <2>8. CASE LoopStart \/ LoopTop \/ NextPhase \/ EpollWait \/ LoopExit
    BY <2>8 DEF LoopStart, LoopTop, NextPhase, EpollWait, LoopExit
  <2>9. QED BY <2>2, <2>3, <2>4, <2>5, <2>6, <2>7, <2>8, Zenon DEF PollerStep
<1>3. ResultBar' = ResultBar /\ CancelledBar' = CancelledBar
  BY <1>1, BarSame
<1>4. CASE UNCHANGED ready
  BY <1>1, <1>3, <1>4, BarSame, BarStutter
<1>5. CASE \E S : wakeWaitSet(S)
  <2> DEFINE new == {w \in Waits : ready[w] = 0 /\ ready'[w] = 1}
  <2>1. \A w \in Waits : ready'[w] \in {0, 1} /\ ready[w] \in {0, 1} /\ (ready[w] = 1 => ready'[w] = 1)
    <3>1. PICK S : wakeWaitSet(S)
      BY <1>5
    <3>2. \A w \in Waits : ready'[w] = ready[w] + (IF w \in S THEN 1 ELSE 0)
      BY <3>1 DEF wakeWaitSet
    <3>3. \A w \in Waits : ready[w] \in {0, 1} /\ ready'[w] \in {0, 1}
      BY DEF Placement, PlaceInv
    <3>4. QED BY <3>2, <3>3
  <2>2. WokenBar' = WokenBar \cup new
    BY <2>1 DEF WokenBar
  <2>3. \A w \in new : w \notin WokenBar
    BY DEF WokenBar
  <2>4. ASSUME NEW w \in new PROVE ResultBar[w] # "none"
    <3>1. ready'[w] = 1 /\ w \in Waits
      OBVIOUS
    <3>2. ~Unsent(w)'
      BY <3>1 DEF Placement, PlaceInv
    <3>3. pc[w] # "idle" /\ pc[w] # "none"
      BY <1>1, <3>1, <3>2 DEF Unsent, TypeOK
    <3>4. QED BY <3>1, <3>3, ResultAt
  <2>5. CASE new = {}
    <3>1. WokenBar' = WokenBar
      BY <2>2, <2>5
    <3>2. QED BY <1>1, <1>3, <3>1, BarStutter
  <2>6. CASE new # {}
    <3>1. new \in SUBSET Waits
      OBVIOUS
    <3> HIDE DEF new
    <3>2. QED BY <1>1, <1>3, <2>2, <2>3, <2>4, <2>6, <3>1, BarWake
  <2>7. QED BY <2>5, <2>6
<1>6. QED BY <1>2, <1>4, <1>5

LEMMA RefineStep ==
  ASSUME TypeOK, TypeOK', Placement, Placement', Answers, [Next]_vars
  PROVE  RW!Next \/ UNCHANGED RW!vars
<1>1. ASSUME NEW w \in Waits, Call(w) PROVE RW!Next
  <2>1. /\ pc[w] = "idle" /\ pc' = [pc EXCEPT ![w] = "start"] /\ UNCHANGED <<ready, disabled>>
        /\ doneCh' = [doneCh EXCEPT ![w] = Closing(vlsh[w])]
    BY <1>1 DEF Call, Goto, startVars
  <2>2. ResultBar[w] = "none" /\ ResultBar' = [ResultBar EXCEPT ![w] = "waiting"]
    <3>1. "start" \notin {"idle", "true", "false"}
      OBVIOUS
    <3>2. QED BY <2>1, <3>1, ResultMoves, Zenon
  <2>3. ~doneCh[w]
    BY <2>1 DEF Answers, AnswerOK
  <2>4. ASSUME NEW v \in Waits, v # w PROVE doneCh'[v] <=> doneCh[v]
    <3>1. doneCh \in [Waits -> BOOLEAN]
      BY DEF TypeOK
    <3>2. QED BY <2>1, <2>4, <3>1, Zenon
  <2>5. CancelledBar' = CancelledBar \/ CancelledBar' = CancelledBar \cup {w}
    <3>1. CASE doneCh'[w]
      BY <2>3, <2>4, <3>1 DEF CancelledBar
    <3>2. CASE ~doneCh'[w]
      BY <2>3, <2>4, <3>2 DEF CancelledBar
    <3>3. QED BY <3>1, <3>2
  <2>6. QED BY <2>1, <2>2, <2>5, BarSame, BarCall
<1>2. ASSUME NEW w \in Waits, WaitStep(w) PROVE RW!Next \/ UNCHANGED RW!vars
  BY <1>2, RefineWait
<1>3. ASSUME NEW w \in Waits, CloseDone(w) PROVE RW!Next
  <2>1. /\ UNCHANGED <<pc, ready, disabled>> /\ pc[w] \notin {"idle", "true", "false"}
        /\ doneCh' = [doneCh EXCEPT ![w] = TRUE]
    BY <1>3 DEF CloseDone, Returned, startVars
  <2>2. doneCh \in [Waits -> BOOLEAN]
    BY DEF TypeOK
  <2>3. doneCh'[w] /\ \A v \in Waits : v # w => (doneCh'[v] <=> doneCh[v])
    BY <2>1, <2>2, Zenon
  <2>4. CancelledBar' = CancelledBar \cup {w}
    BY <2>3 DEF CancelledBar
  <2>5. \A v \in {w} : ResultBar[v] = "waiting"
    BY <2>1, ResultAt
  <2>6. QED BY <2>1, <2>4, <2>5, BarSame, BarCancel
<1>4. CASE PollerStep
  BY <1>4, RefinePoller
<1>5. CASE Stop
  <2>1. UNCHANGED <<pc, doneCh, ready>> /\ disabled' = TRUE
    BY <1>5 DEF Stop, stopRest, callerVars
  <2>2. CASE disabled
    <3>1. UNCHANGED disabled
      <4>1. disabled = TRUE
        BY <2>2 DEF TypeOK
      <4>2. QED BY <2>1, <4>1
    <3>2. QED BY <2>1, <3>1, BarSame, BarStutter
  <2>3. CASE ~disabled
    BY <2>1, <2>3, BarSame, BarGoDown
  <2>4. QED BY <2>2, <2>3
<1>6. ASSUME NEW c \in Closers, Close(c) PROVE RW!Next
  <2> DEFINE S == {w \in Waits : vlsh[w] = cvlsh[c] /\ pc[w] # "idle" /\ ~Returned(w)}
  <2>1. UNCHANGED <<pc, ready, disabled>>
    BY <1>6 DEF Close, startVars
  <2>2. \A w \in Waits : doneCh'[w] <=> doneCh[w] \/ w \in S
    BY <1>6, Zenon DEF Close
  <2>3. CancelledBar' = CancelledBar \cup S
    BY <2>2 DEF CancelledBar
  <2>4. \A w \in S : ResultBar[w] = "waiting"
    BY ResultAt DEF Returned
  <2>5. S \in SUBSET Waits
    OBVIOUS
  <2> HIDE DEF S
  <2>6. QED BY <2>1, <2>3, <2>4, <2>5, BarSame, BarCancel
<1>7. CASE StopReturn \/ (\E c \in Closers : CloseStep(c)) \/ (\E h \in Handles : Reuse(h)) \/ UNCHANGED vars
  <2>1. UNCHANGED <<pc, doneCh, ready, disabled>>
    BY <1>7 DEF StopReturn, CloseStep, pollUnregister, SendUnregister, UnregisterStopped, VlsClose, Reuse,
                closeRest, stopRest, vars, callerVars, startVars
  <2>2. QED BY <2>1, BarSame, BarStutter
<1>8. QED BY <1>1, <1>2, <1>3, <1>4, <1>5, <1>6, <1>7, Zenon DEF Next

(* The poller carries out the abstract readiness wait: a call returns      *)
(* once, true only after it was woken and false only when its done channel *)
(* is closed or the poller has been told to stop, and is woken at most     *)
(* once, after it was made.                                                *)
THEOREM ImplementsReadinessWaitHolds == Spec => ImplementsReadinessWait
<1>1. Init => RW!Init
  <2>1. SUFFICES ASSUME Init PROVE RW!Init
    OBVIOUS
  <2>2. ResultBar = [w \in Waits |-> "none"] /\ WokenBar = {} /\ CancelledBar = {} /\ disabled = FALSE
    <3>1. WokenBar = {} /\ disabled = FALSE
      BY <2>1 DEF Init, WokenBar
    <3>2. CancelledBar = {}
      BY <2>1 DEF Init, CancelledBar
    <3>3. ResultBar = [w \in Waits |-> "none"]
      <4>1. \A w \in Waits : pc[w] = "idle"
        BY <2>1 DEF Init
      <4>2. QED BY <4>1 DEF ResultBar, Returned
    <3>4. QED BY <3>1, <3>2, <3>3
  <2>3. QED BY <2>2 DEF RW!Init, ResultBar, WokenBar, CancelledBar
<1>2. TypeOK /\ TypeOK' /\ Placement /\ Placement' /\ Answers /\ [Next]_vars => [RW!Next]_(RW!vars)
  BY RefineStep
<1>3. QED BY <1>1, <1>2, TypeCorrect, PlacementInvariant, AnswersInvariant, PTL
          DEF Spec, ImplementsReadinessWait, RW!Spec
=============================================================================
