---------------------------- MODULE Conn_proofs ----------------------------
(***************************************************************************)
(* Proofs about one connection, for any number of calls and deadline       *)
(* setters.                                                                *)
(***************************************************************************)
EXTENDS Conn, TLAPS

(* Setting one entry keeps a Boolean function Boolean. *)
LEMMA BoolExcept ==
  ASSUME NEW S, NEW f \in [S -> BOOLEAN], NEW x \in S, NEW b \in BOOLEAN
  PROVE  [f EXCEPT ![x] = b] \in [S -> BOOLEAN]
BY Zenon

(* interrupt() keeps the types of what it writes. *)
LEMMA InterruptTypes ==
  ASSUME TypeOK, NEW h \in Halves, interrupt(h)
  PROVE  /\ timer' \in [Halves -> {"none", "armed", "started"}]
         /\ chClosed' \in [Halves -> BOOLEAN]
         /\ closedChs' \in [Halves -> SUBSET Chans]
         /\ UNCHANGED <<when, ch, firing, now>>
<1>1. chClosed' \in [Halves -> BOOLEAN]
  BY Zenon DEF interrupt, closeCurrent
<1>2. closedChs' \in [Halves -> SUBSET Chans]
  BY DEF interrupt, closeCurrent, TypeOK
<1>3. QED BY <1>1, <1>2 DEF interrupt, TypeOK

(* Every step keeps the types. *)
LEMMA TypeStep == (Init => TypeOK) /\ (TypeOK /\ [Next]_vars => TypeOK')
<1> USE ConnAssumption DEF Halves, Chans, Times
<1>1. Init => TypeOK
  <2> SUFFICES ASSUME Init PROVE TypeOK
    OBVIOUS
  <2>1. /\ chClosed \in [Halves -> BOOLEAN] /\ shut \in [Halves -> BOOLEAN]
        /\ vlsShut \in [Halves -> BOOLEAN] /\ ready \in [Halves -> BOOLEAN]
    BY Zenon DEF Init
  <2>2. when \in [Halves -> Times]
    BY DEF Init
  <2>3. timer \in [Halves -> {"none", "armed", "started"}]
    BY DEF Init
  <2>4. /\ closedChs \in [Halves -> SUBSET Chans] /\ firing \in [Halves -> SUBSET Chans]
        /\ ch \in [Halves -> Chans] /\ now \in Times /\ hpc \in [Halves -> {"idle"}]
    BY DEF Init
  <2>5. /\ pc \in [Calls -> {"idle"}] /\ myCh \in [Calls -> Chans] /\ result \in [Calls -> {"none"}]
        /\ spc \in [Setters -> {"idle"}] /\ sT \in [Setters -> Times]
        /\ sSides \in [Setters -> SUBSET Halves]
    BY DEF Init
  <2>6. kind \in Kinds /\ half \in [Calls -> Halves]
    BY DEF Init
  <2>7. closed \in BOOLEAN /\ shutdownStarted \in BOOLEAN /\ tracked \in BOOLEAN
        /\ kpc = "idle" /\ session = "open"
    BY DEF Init
  <2>8. QED BY <2>1, <2>2, <2>3, <2>4, <2>5, <2>6, <2>7 DEF TypeOK
<1>2. TypeOK /\ [Next]_vars => TypeOK'
  <2> SUFFICES ASSUME TypeOK, [Next]_vars PROVE TypeOK'
    OBVIOUS
  <2> USE DEF TypeOK, timeVars, dlVars, flagVars, callVars, setVars, vlsVars
  <2>1. ASSUME NEW c \in Calls, Call(c) \/ CallStep(c) PROVE TypeOK'
    <3> USE DEF callRest, Goto, Return
    <3>1. CASE Call(c) BY <3>1 DEF Call
    <3>2. CASE Check(c) BY <3>2 DEF Check
    <3>3. CASE UdpCheck(c) BY <3>3 DEF UdpCheck
    <3>4. CASE CheckDeadline(c) BY <3>4 DEF CheckDeadline
    <3>5. CASE waitChannel(c) BY <3>5 DEF waitChannel
    <3>6. CASE Attempt(c) \/ UdpAttempt(c)
      <4>1. half[c] \in Halves
        BY DEF Halves
      <4>2. CASE Refused(c)
        BY <3>6, <4>2 DEF Attempt, UdpAttempt, Refused
      <4>3. CASE Consume(c)
        <5>1. ready' \in [Halves -> BOOLEAN]
          <6>1. ready \in [Halves -> BOOLEAN]
            OBVIOUS
          <6>2. ready' = ready \/ ready' = [ready EXCEPT ![half[c]] = FALSE]
            BY <4>3, Zenon DEF Consume
          <6>3. [ready EXCEPT ![half[c]] = FALSE] \in [Halves -> BOOLEAN]
            BY <4>1, <6>1, BoolExcept, Zenon
          <6>4. QED BY <6>1, <6>2, <6>3, Zenon
        <5>2. QED BY <3>6, <5>1 DEF Attempt, UdpAttempt, Refused
      <4>4. CASE session = "open" /\ ~ready[half[c]]
        BY <3>6, <4>4 DEF Attempt, UdpAttempt, Refused, Consume
      <4>5. QED BY <3>6, <4>2, <4>3, <4>4, Zenon DEF Attempt, UdpAttempt
    <3>7. CASE Woken(c) BY <3>7 DEF Woken
    <3>8. CASE Canceled(c) BY <3>8 DEF Canceled
    <3>9. QED
      BY <2>1, <3>1, <3>2, <3>3, <3>4, <3>5, <3>6, <3>7, <3>8, Zenon DEF CallStep
  <2>2. ASSUME NEW s \in Setters, NEW t \in Times, NEW hs \in SUBSET Active,
               BeginSet(s, t, hs)
        PROVE  TypeOK'
    BY <2>2 DEF BeginSet, Active
  <2>3. ASSUME NEW s \in Setters, NEW h \in Halves, Set(s, h) PROVE TypeOK'
    BY <2>3 DEF Set, set
  <2>4. ASSUME NEW h \in Halves, CloseHalf(h) PROVE TypeOK'
    BY <2>4 DEF CloseHalf, halfRest
  <2>5. ASSUME NEW h \in Halves, Arrive(h) PROVE TypeOK'
    <3>1. ready' \in [Halves -> BOOLEAN]
      BY <2>5, Zenon DEF Arrive
    <3>2. QED BY <2>5, <3>1 DEF Arrive
  <2>6. ASSUME NEW h \in Halves, HalfStep(h) PROVE TypeOK'
    <3> USE DEF halfRest
    <3>1. CASE HalfFlag(h)
      <4>1. shut' \in [Halves -> BOOLEAN]
        BY <3>1, Zenon DEF HalfFlag
      <4>2. QED BY <3>1, <4>1 DEF HalfFlag
    <3>2. CASE HalfInterrupt(h)
      <4>1. interrupt(h) BY <3>2 DEF HalfInterrupt
      <4>2. QED BY <3>2, <4>1, InterruptTypes DEF HalfInterrupt
    <3>3. CASE HalfVls(h)
      <4>1. vlsShut' \in [Halves -> BOOLEAN]
        <5>1. vlsShut \in [Halves -> BOOLEAN]
          BY DEF TypeOK
        <5>2. [vlsShut EXCEPT ![h] = TRUE] \in [Halves -> BOOLEAN]
          BY <5>1, BoolExcept, Zenon
        <5>3. vlsShut' = [vlsShut EXCEPT ![h] = TRUE] \/ vlsShut' = vlsShut
          BY <3>3 DEF HalfVls
        <5>4. QED BY <5>1, <5>2, <5>3, Zenon
      <4>2. QED BY <3>3, <4>1 DEF HalfVls
    <3>4. QED BY <2>6, <3>1, <3>2, <3>3, Zenon DEF HalfStep
  <2>7. ASSUME NEW h \in Halves, TimerStart(h) PROVE TypeOK'
    BY <2>7 DEF TimerStart
  <2>8. ASSUME NEW h \in Halves, NEW k \in firing[h], TimerFunc(h, k) PROVE TypeOK'
    <3>1. chClosed' \in [Halves -> BOOLEAN]
      <4>1. CASE ch[h] = k
        <5>1. closeCurrent({h})
          BY <2>8, <4>1 DEF TimerFunc
        <5>2. QED BY <5>1, Zenon DEF closeCurrent
      <4>2. CASE ch[h] # k  BY <2>8, <4>2 DEF TimerFunc
      <4>3. QED BY <4>1, <4>2
    <3>2. closedChs' \in [Halves -> SUBSET Chans]
      BY <2>8 DEF TimerFunc, closeCurrent
    <3>3. QED BY <2>8, <3>1, <3>2 DEF TimerFunc
  <2>9. CASE Close \/ CloseStep \/ StartShutdown \/ Teardown \/ Tick
    <3> USE DEF closeRest
    <3>1. CASE Close BY <3>1 DEF Close
    <3>2. ASSUME NEW h \in Halves, CloseInterrupt(h) PROVE TypeOK'
      <4>1. interrupt(h) BY <3>2 DEF CloseInterrupt
      <4>2. QED BY <3>2, <4>1, InterruptTypes DEF CloseInterrupt
    <3>3. CASE CloseVls BY <3>3 DEF CloseVls
    <3>4. CASE CloseUntrack BY <3>4 DEF CloseUntrack
    <3>5. CASE StartShutdown BY <3>5 DEF StartShutdown
    <3>6. CASE Teardown BY <3>6 DEF Teardown
    <3>7. CASE Tick BY <3>7 DEF Tick
    <3>8. QED
      BY <2>9, <3>1, <3>2, <3>3, <3>4, <3>5, <3>6, <3>7, Zenon DEF CloseStep
  <2>10. CASE UNCHANGED vars
    BY <2>10 DEF vars
  <2>11. \A h \in Active : h \in Halves
    BY DEF Active
  <2> HIDE DEF TypeOK
  <2>12. QED
    BY <2>1, <2>2, <2>3, <2>4, <2>5, <2>6, <2>7, <2>8, <2>9, <2>10, <2>11, Zenon
       DEF Next, TimerStep
<1>3. QED BY <1>1, <1>2

(* The deadline, timer, flag and call variables keep their types. *)
THEOREM TypeCorrect == Spec => []TypeOK
BY TypeStep, PTL DEF Spec
-----------------------------------------------------------------------------
(* What set(), interrupt() and the timers keep true of each half: the      *)
(* channels made before the current one are closed, none is closed or      *)
(* about to fire before it is made, a callback under way for the current   *)
(* channel belongs to a deadline that has passed, and a current channel    *)
(* that is open has a timer or a callback if there is a deadline. The      *)
(* flags are set before the interrupts they explain.                       *)
ChannelOK(h) ==
  /\ chClosed[h] <=> ch[h] \in closedChs[h]
  /\ \A k \in Nat : k < ch[h] => k \in closedChs[h]
  /\ \A k \in Nat : k > ch[h] => k \notin closedChs[h] /\ k \notin firing[h]
  /\ timer[h] = "armed" => when[h] # 0
  /\ ch[h] \in firing[h] => expired(h)
  /\ ~chClosed[h] /\ when[h] # 0 => timer[h] = "armed" \/ ch[h] \in firing[h]
  /\ hpc[h] = "interrupt" => shut[h]
  /\ chClosed[h] => expired(h) \/ shut[h] \/ closed

CallChannels ==
  \A c \in Calls : pc[c] \in {"attempt", "parked"} => myCh[c] <= ch[half[c]]

ConnInv ==
  /\ TypeOK
  /\ \A h \in Halves : ChannelOK(h)
  /\ CallChannels
  /\ kpc # "idle" => closed

(* What a step may leave alone without a half noticing. *)
LEMMA HalfUnchanged ==
  ASSUME NEW h \in Halves, ChannelOK(h), TypeOK, TypeOK',
         UNCHANGED <<when[h], ch[h], chClosed[h], timer[h], closedChs[h], firing[h]>>,
         now' \in Nat, now' >= now, shut[h] => shut'[h], closed => closed',
         hpc'[h] # "interrupt" \/ UNCHANGED <<hpc[h], shut[h]>>
  PROVE  ChannelOK(h)'
BY DEF ChannelOK, TypeOK, expired, Times, Chans

(* closeCurrentLocked, for a reason. *)
LEMMA HalfClosed ==
  ASSUME NEW h \in Halves, ChannelOK(h), TypeOK, TypeOK',
         UNCHANGED <<when, ch, now, shut, closed>>,
         chClosed'[h], closedChs'[h] = closedChs[h] \cup {ch[h]},
         firing'[h] \subseteq firing[h],
         timer'[h] # "armed",
         hpc'[h] = "interrupt" => hpc[h] = "interrupt",
         expired(h) \/ shut[h] \/ closed
  PROVE  ChannelOK(h)'
BY DEF ChannelOK, TypeOK, expired, Times, Chans

(* ConnInv is inductive. *)
LEMMA ConnInvStep == ConnInv /\ [Next]_vars => ConnInv'
<1> SUFFICES ASSUME ConnInv, [Next]_vars PROVE ConnInv'
  OBVIOUS
<1>0. TypeOK /\ TypeOK'
  BY TypeStep DEF ConnInv
<1>a. ASSUME UNCHANGED <<dlVars, firing>>, now' \in Nat, now' >= now, closed => closed',
             UNCHANGED <<hpc, shut>>
      PROVE  \A h \in Halves : ChannelOK(h)'
  <2>1. ASSUME NEW h \in Halves PROVE ChannelOK(h)'
    BY <1>0, <1>a, HalfUnchanged DEF ConnInv, dlVars
  <2>2. QED BY <2>1
<1>b. now \in Nat
  BY <1>0, ConnAssumption DEF TypeOK, Times
<1> USE DEF timeVars, flagVars, callVars, setVars, vlsVars
<1>1. ASSUME NEW c \in Calls, Call(c) \/ CallStep(c) PROVE ConnInv'
  <2> USE DEF callRest, Goto, Return
  <2>1. UNCHANGED <<half, timeVars, flagVars, hpc, kpc>>
    BY <1>1 DEF CallStep, Call, Check, UdpCheck, CheckDeadline, waitChannel, Attempt,
                UdpAttempt, Woken, Canceled
  <2>2. \A h \in Halves : ChannelOK(h)'
    BY <1>a, <1>b, <2>1
  <2>3. CallChannels'
    <3>1. SUFFICES ASSUME NEW d \in Calls, pc'[d] \in {"attempt", "parked"}
                   PROVE  myCh'[d] <= ch[half[d]]
      BY <2>1 DEF CallChannels, dlVars
    <3>2. \/ pc[d] \in {"attempt", "parked"} /\ myCh'[d] = myCh[d]
          \/ myCh'[d] = ch[half[d]]
      <4>1. CASE waitChannel(c)
        BY <1>0, <3>1, <4>1 DEF waitChannel, TypeOK
      <4>2. CASE Attempt(c) \/ UdpAttempt(c)
        <5>1. pc[c] = "attempt" /\ UNCHANGED myCh /\ \E to : pc' = [pc EXCEPT ![c] = to]
          BY <4>2 DEF Attempt, UdpAttempt, Refused
        <5>2. QED BY <1>0, <3>1, <5>1 DEF TypeOK
      <4>3. CASE Woken(c)
        BY <1>0, <3>1, <4>3 DEF Woken, TypeOK
      <4>4. CASE Call(c) \/ Check(c) \/ UdpCheck(c) \/ CheckDeadline(c) \/ Canceled(c)
        <5>1. UNCHANGED myCh /\ \E to : pc' = [pc EXCEPT ![c] = to] /\ to \notin {"attempt", "parked"}
          BY <4>4 DEF Call, Check, UdpCheck, CheckDeadline, Canceled
        <5>2. QED BY <1>0, <3>1, <5>1 DEF TypeOK
      <4>5. QED BY <1>1, <4>1, <4>2, <4>3, <4>4 DEF CallStep
    <3>3. ch[half[d]] \in Nat
      BY <1>0 DEF TypeOK, Chans
    <3>4. QED BY <3>2, <3>3 DEF ConnInv, CallChannels
  <2>4. QED BY <1>0, <2>1, <2>2, <2>3 DEF ConnInv
<1>2. ASSUME NEW s \in Setters, NEW t \in Times, NEW hs \in SUBSET Active,
             BeginSet(s, t, hs)
      PROVE  ConnInv'
  <2>1. UNCHANGED <<timeVars, flagVars, callVars, hpc, kpc>>
    BY <1>2 DEF BeginSet
  <2>2. QED BY <1>0, <1>a, <1>b, <2>1 DEF ConnInv, CallChannels, dlVars
<1>3. ASSUME NEW s \in Setters, NEW h \in Halves, Set(s, h) PROVE ConnInv'
  <2>1. UNCHANGED <<firing, now, flagVars, callVars, hpc, kpc>> /\ set(h, sT[s])
    BY <1>3 DEF Set
  <2>2. sT[s] \in Nat /\ ch[h] \in Nat
    BY <1>0, ConnAssumption DEF TypeOK, Times, Chans
  <2>3. ASSUME NEW g \in Halves, g # h PROVE ChannelOK(g)'
    <3>1. UNCHANGED <<when[g], ch[g], chClosed[g], timer[g], closedChs[g], firing[g]>>
      BY <1>0, <2>1, <2>3 DEF set, TypeOK
    <3>2. QED BY <1>0, <1>b, <2>1, <3>1, HalfUnchanged DEF ConnInv
  <2>4. ChannelOK(h)'
    <3>1. when'[h] = sT[s] /\ ch'[h] = ch[h] + 1
      BY <1>0, <2>1 DEF set, TypeOK
    <3>a. chClosed'[h] <=> sT[s] # 0 /\ sT[s] <= now
      <4>1. chClosed \in [Halves -> BOOLEAN]
        BY <1>0 DEF TypeOK
      <4>2. chClosed' = [chClosed EXCEPT ![h] = (sT[s] # 0 /\ sT[s] <= now)]
        BY <2>1 DEF set
      <4>3. QED BY <4>1, <4>2, Zenon
    <3>2. CASE sT[s] # 0 /\ sT[s] <= now
      <4>1. timer'[h] = "none" /\ closedChs'[h] = closedChs[h] \cup {ch[h]} \cup {ch[h] + 1}
        BY <1>0, <2>1, <3>2 DEF set, TypeOK
      <4>2. QED BY <1>b, <2>1, <2>2, <3>1, <3>2, <3>a, <4>1 DEF ChannelOK, ConnInv, expired
    <3>3. CASE sT[s] = 0 \/ sT[s] > now
      <4>1. /\ timer'[h] = (IF sT[s] # 0 THEN "armed" ELSE "none")
            /\ closedChs'[h] = closedChs[h] \cup {ch[h]}
        BY <1>0, <1>b, <2>1, <2>2, <3>3 DEF set, TypeOK
      <4>2. ~chClosed'[h]
        BY <1>b, <2>2, <3>3, <3>a
      <4>3. QED BY <1>b, <2>1, <2>2, <3>1, <3>3, <4>1, <4>2 DEF ChannelOK, ConnInv, expired
    <3>4. QED BY <1>b, <2>2, <3>2, <3>3
  <2>5. CallChannels'
    BY <1>0, <2>1, <2>2 DEF set, ConnInv, CallChannels, TypeOK, Chans
  <2>6. QED BY <1>0, <2>1, <2>3, <2>4, <2>5 DEF ConnInv
<1>4. ASSUME NEW h \in Active, CloseHalf(h) \/ Arrive(h) PROVE ConnInv'
  <2>1. UNCHANGED <<timeVars, flagVars, callVars, kpc>>
    BY <1>4 DEF CloseHalf, Arrive, halfRest
  <2>2. ASSUME NEW g \in Halves PROVE hpc'[g] # "interrupt" \/ hpc'[g] = hpc[g]
    BY <1>0, <1>4, <2>2 DEF CloseHalf, Arrive, TypeOK
  <2>3. ASSUME NEW g \in Halves PROVE ChannelOK(g)'
    BY <1>0, <1>b, <2>1, <2>2, HalfUnchanged DEF ConnInv, dlVars
  <2>4. QED BY <1>0, <2>1, <2>3 DEF ConnInv, CallChannels, dlVars
<1>c. ASSUME NEW h \in Halves, interrupt(h), UNCHANGED <<flagVars, callVars>>,
             shut[h] \/ closed,
             \A g \in Halves : hpc'[g] = hpc[g] \/ hpc'[g] \in {"vls", "done"}
      PROVE  (\A g \in Halves : ChannelOK(g)') /\ CallChannels'
  <2>1. /\ UNCHANGED <<when, ch, firing, now>>
        /\ timer' = [timer EXCEPT ![h] = "none"]
        /\ chClosed' = [g \in Halves |-> chClosed[g] \/ g \in {h}]
        /\ closedChs' = [g \in Halves |-> IF g \in {h} THEN closedChs[g] \cup {ch[g]}
                                          ELSE closedChs[g]]
    BY <1>c DEF interrupt, closeCurrent
  <2>2. ChannelOK(h)'
    <3>1. chClosed'[h]
      BY <2>1, Zenon
    <3>2. closedChs'[h] = closedChs[h] \cup {ch[h]} /\ timer'[h] = "none"
      BY <1>0, <2>1 DEF TypeOK
    <3>3. QED BY <1>0, <1>c, <2>1, <3>1, <3>2, HalfClosed DEF ConnInv
  <2>3. ASSUME NEW g \in Halves, g # h PROVE ChannelOK(g)'
    <3>1. chClosed'[g] = chClosed[g]
      BY <1>0, <2>1, <2>3 DEF TypeOK
    <3>2. closedChs'[g] = closedChs[g] /\ timer'[g] = timer[g]
      BY <1>0, <2>1, <2>3 DEF TypeOK
    <3>3. QED BY <1>0, <1>b, <1>c, <2>1, <3>1, <3>2, HalfUnchanged DEF ConnInv
  <2>4. CallChannels'
    BY <1>c, <2>1 DEF ConnInv, CallChannels
  <2>5. QED BY <2>2, <2>3, <2>4
<1>5. ASSUME NEW h \in Halves, HalfStep(h) PROVE ConnInv'
  <2> USE DEF halfRest
  <2>1. CASE HalfFlag(h)
    <3>1. /\ UNCHANGED <<timeVars, callVars, closed, kpc>>
          /\ shut' = [shut EXCEPT ![h] = TRUE] /\ hpc' = [hpc EXCEPT ![h] = "interrupt"]
      BY <2>1 DEF HalfFlag
    <3>2. shut'[h]
      BY <1>0, <3>1 DEF TypeOK
    <3>3. ChannelOK(h)'
      BY <1>0, <3>1, <3>2 DEF ChannelOK, ConnInv, expired, TypeOK, dlVars
    <3>4. ASSUME NEW g \in Halves, g # h PROVE ChannelOK(g)'
      <4>1. UNCHANGED <<shut[g], hpc[g]>>
        BY <1>0, <3>1, <3>4 DEF TypeOK
      <4>2. UNCHANGED <<when[g], ch[g], chClosed[g], timer[g], closedChs[g], firing[g]>>
        BY <3>1 DEF dlVars
      <4>3. now' \in Nat /\ now' >= now /\ (closed => closed')
        BY <1>b, <3>1
      <4>4. (shut[g] => shut'[g]) /\ UNCHANGED <<hpc[g], shut[g]>>
        BY <4>1
      <4>5. ChannelOK(g)
        BY DEF ConnInv
      <4>6. QED BY <1>0, <4>2, <4>3, <4>4, <4>5, HalfUnchanged
    <3>5. QED BY <1>0, <3>1, <3>3, <3>4 DEF ConnInv, CallChannels, dlVars
  <2>2. CASE HalfInterrupt(h)
    <3>1. /\ UNCHANGED <<flagVars, callVars, kpc>> /\ interrupt(h)
      BY <2>2 DEF HalfInterrupt
    <3>2. shut[h]
      BY <2>2 DEF HalfInterrupt, ConnInv, ChannelOK
    <3>3. \A g \in Halves : hpc'[g] = hpc[g] \/ hpc'[g] \in {"vls", "done"}
      BY <1>0, <2>2 DEF HalfInterrupt, TypeOK
    <3>4. QED BY <1>0, <1>c, <3>1, <3>2, <3>3 DEF ConnInv
  <2>3. CASE HalfVls(h)
    <3>1. UNCHANGED <<timeVars, flagVars, callVars, kpc>>
      BY <2>3 DEF HalfVls
    <3>2. ASSUME NEW g \in Halves PROVE hpc'[g] # "interrupt" \/ hpc'[g] = hpc[g]
      BY <1>0, <2>3, <3>2 DEF HalfVls, TypeOK
    <3>3. ASSUME NEW g \in Halves PROVE ChannelOK(g)'
      BY <1>0, <1>b, <3>1, <3>2, HalfUnchanged DEF ConnInv, dlVars
    <3>4. QED BY <1>0, <3>1, <3>3 DEF ConnInv, CallChannels, dlVars
  <2>4. QED BY <1>5, <2>1, <2>2, <2>3, Zenon DEF HalfStep
<1>6. ASSUME NEW h \in Halves, TimerStart(h) PROVE ConnInv'
  <2>1. /\ UNCHANGED <<when, ch, chClosed, closedChs, now, flagVars, callVars, hpc, kpc>>
        /\ timer' = [timer EXCEPT ![h] = "started"]
        /\ firing' = [firing EXCEPT ![h] = @ \cup {ch[h]}]
        /\ timer[h] = "armed" /\ now >= when[h]
    BY <1>6 DEF TimerStart
  <2>2. ChannelOK(h)'
    BY <1>0, <1>b, <2>1 DEF ChannelOK, ConnInv, expired, TypeOK, Chans
  <2>3. ASSUME NEW g \in Halves, g # h PROVE ChannelOK(g)'
    <3>1. UNCHANGED <<timer[g], firing[g]>>
      BY <1>0, <2>1, <2>3 DEF TypeOK
    <3>2. QED BY <1>0, <1>b, <2>1, <3>1, HalfUnchanged DEF ConnInv
  <2>4. QED BY <1>0, <2>1, <2>2, <2>3 DEF ConnInv, CallChannels
<1>7. ASSUME NEW h \in Halves, NEW k \in firing[h], TimerFunc(h, k) PROVE ConnInv'
  <2>1. /\ UNCHANGED <<when, ch, now, flagVars, callVars, hpc, kpc>>
        /\ firing' = [firing EXCEPT ![h] = @ \ {k}]
    BY <1>7 DEF TimerFunc
  <2>2. \A g \in Halves : g # h => UNCHANGED firing[g]
    BY <1>0, <2>1 DEF TypeOK
  <2>3. firing'[h] = firing[h] \ {k}
    BY <1>0, <2>1 DEF TypeOK
  <2>4. CASE ch[h] = k
    <3>1. /\ timer' = [timer EXCEPT ![h] = "none"]
          /\ chClosed' = [g \in Halves |-> chClosed[g] \/ g \in {h}]
          /\ closedChs' = [g \in Halves |-> IF g \in {h} THEN closedChs[g] \cup {ch[g]}
                                            ELSE closedChs[g]]
      BY <1>7, <2>4 DEF TimerFunc, closeCurrent
    <3>2. expired(h)
      BY <2>4 DEF ConnInv, ChannelOK
    <3>3. ChannelOK(h)'
      <4>1. chClosed'[h]
        BY <3>1, Zenon
      <4>2. closedChs'[h] = closedChs[h] \cup {ch[h]} /\ timer'[h] = "none"
        BY <1>0, <3>1 DEF TypeOK
      <4>3. QED BY <1>0, <2>1, <2>3, <3>2, <4>1, <4>2, HalfClosed DEF ConnInv
    <3>4. ASSUME NEW g \in Halves, g # h PROVE ChannelOK(g)'
      <4>1. chClosed'[g] = chClosed[g] /\ closedChs'[g] = closedChs[g] /\ timer'[g] = timer[g]
        BY <1>0, <3>1, <3>4 DEF TypeOK
      <4>2. QED BY <1>0, <1>b, <2>1, <2>2, <3>4, <4>1, HalfUnchanged DEF ConnInv
    <3>5. QED BY <1>0, <2>1, <3>3, <3>4 DEF ConnInv, CallChannels
  <2>5. CASE ch[h] # k
    <3>1. UNCHANGED <<timer, chClosed, closedChs>>
      BY <1>7, <2>5 DEF TimerFunc
    <3>2. ChannelOK(h)'
      BY <1>0, <2>1, <2>3, <2>5, <3>1 DEF ChannelOK, ConnInv, expired, TypeOK, Chans
    <3>3. ASSUME NEW g \in Halves, g # h PROVE ChannelOK(g)'
      BY <1>0, <1>b, <2>1, <2>2, <3>1, <3>3, HalfUnchanged DEF ConnInv
    <3>4. QED BY <1>0, <2>1, <3>2, <3>3 DEF ConnInv, CallChannels
  <2>6. QED BY <2>4, <2>5
<1>8. CASE Close \/ CloseVls \/ CloseUntrack \/ StartShutdown \/ Teardown \/ Tick
  <2>1. /\ UNCHANGED <<dlVars, firing, callVars, hpc, shut>> /\ now' \in Nat /\ now' >= now
        /\ (closed => closed') /\ (kpc' # "idle" => closed')
    BY <1>8, <1>b DEF Close, CloseVls, CloseUntrack, StartShutdown, Teardown, Tick,
                      closeRest, ConnInv
  <2>2. QED BY <1>0, <1>a, <2>1 DEF ConnInv, CallChannels, dlVars
<1>9. ASSUME NEW h \in Halves, CloseInterrupt(h) PROVE ConnInv'
  <2>1. UNCHANGED <<flagVars, callVars, hpc>> /\ interrupt(h) /\ closed
    BY <1>9 DEF CloseInterrupt, closeRest, ConnInv, Halves
  <2>2. QED BY <1>0, <1>c, <2>1 DEF ConnInv
<1>10. CASE UNCHANGED vars
  BY <1>0, <1>a, <1>b, <1>10 DEF ConnInv, vars, CallChannels, dlVars
<1>11. QED
  BY <1>1, <1>2, <1>3, <1>4, <1>5, <1>6, <1>7, <1>8, <1>9, <1>10, Zenon
     DEF Next, TimerStep, CloseStep

(* ConnInv holds in every state of every behaviour. *)
THEOREM ConnInvariant == Spec => []ConnInv
<1>1. Init => ConnInv
  <2> SUFFICES ASSUME Init PROVE ConnInv
    OBVIOUS
  <2>1. TypeOK
    BY TypeStep
  <2>2. ASSUME NEW h \in Halves PROVE ChannelOK(h)
    <3>1. chClosed[h] = FALSE /\ ch[h] = 0 /\ closedChs[h] = {} /\ firing[h] = {}
          /\ hpc[h] = "idle"
      BY DEF Init
    <3>2. timer[h] = IF when[h] = 0 THEN "none" ELSE "armed"
      BY DEF Init
    <3>3. QED BY <3>1, <3>2 DEF ChannelOK
  <2>3. CallChannels /\ kpc = "idle"
    BY DEF Init, CallChannels
  <2>4. QED BY <2>1, <2>2, <2>3 DEF ConnInv
<1>2. QED BY <1>1, ConnInvStep, PTL DEF Spec

(* The current deadline channel of a half is closed only because its       *)
(* deadline has passed, the half is shut or the connection closed: Read    *)
(* and Write, which retry a cancelled wait, do not spin (conn.go).         *)
THEOREM NoSpuriousCancelHolds == Spec => []NoSpuriousCancel
<1>1. ConnInv => NoSpuriousCancel
  BY DEF ConnInv, ChannelOK, NoSpuriousCancel
<1>2. QED BY <1>1, ConnInvariant, PTL

(* No Read or Write waits on a channel that nobody will close any more,    *)
(* however many setters, timers and closers meet.                          *)
THEOREM NoDeafWaitHolds == Spec => []NoDeafWait
<1>1. ConnInv => NoDeafWait
  <2> SUFFICES ASSUME ConnInv,
                      NEW c \in Calls, pc[c] \in {"attempt", "parked"}
               PROVE  \/ myCh[c] \in closedChs[half[c]]
                      \/ /\ myCh[c] = ch[half[c]]
                         /\ when[half[c]] # 0 =>
                              timer[half[c]] = "armed" \/ ch[half[c]] \in firing[half[c]]
    BY DEF NoDeafWait, ConnInv
  <2>1. half[c] \in Halves /\ myCh[c] \in Nat /\ ch[half[c]] \in Nat
    BY DEF ConnInv, TypeOK, Chans
  <2>2. ChannelOK(half[c]) /\ myCh[c] <= ch[half[c]]
    BY <2>1 DEF ConnInv, CallChannels
  <2>3. QED BY <2>1, <2>2 DEF ChannelOK
<1>2. QED BY <1>1, ConnInvariant, PTL
=============================================================================
