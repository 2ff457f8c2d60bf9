---------------------------- MODULE Dial_proofs ----------------------------
(***************************************************************************)
(* Proofs about dialHappyEyeballs, for any number of addresses: which      *)
(* session a handle stands for, what a waiter was woken for, how many      *)
(* results are still to come, and the order interleaveAddrs gives.         *)
(***************************************************************************)
EXTENDS Dial, FiniteSetTheorems, SequenceTheorems, WellFoundedInduction, TLAPS

(* A handle stands for the session of the attempt that opened it. *)
OwnerOK == \A h \in Attempts :
             owner[h] # 0 => handle[owner[h]] = h /\ apc[owner[h]] \notin {"off", "start"}

Holds(i) == handle[i] \in Attempts /\ owner[handle[i]] = i

(* One attempt: until it has a result its handle is its own, and a wake-up *)
(* that is not a stray one means that the handshake is over.               *)
AttemptOK(i) ==
  /\ apc[i] \in {"register", "wait", "finish"} => Holds(i)
  /\ apc[i] = "off" <=> i > nextIdx
  /\ woken[i] # "no" => apc[i] \in {"wait", "finish"}
  /\ woken[i] = "own" => sess[i] \in {"up", "failed", "silent"}
  /\ ppc[i] = "wake" /\ apc[i] \in {"register", "wait"} => sess[i] \in {"failed", "silent"}
  /\ apc[i] = "finish" /\ woken[i] # "stray" => sess[i] = "up"

(* The results channel: every attempt is in it at most once, after its end, *)
(* and a connection in it is open.                                          *)
ResultsOK ==
  /\ \A k \in 1 .. Len(results) :
       /\ apc[results[k]] \in {"conn", "err"}
       /\ apc[results[k]] = "conn" => Holds(results[k])
  /\ \A k, l \in 1 .. Len(results) : results[k] = results[l] => k = l

(* Until the dial returns no connection has been taken from the channel. *)
NoneTaken ==
  mpc \in {"start", "select"} =>
    \A i \in Attempts : apc[i] = "conn" => \E k \in 1 .. Len(results) : results[k] = i

ToCome == Cardinality(Pending) + Len(results)

CountOK ==
  /\ mpc = "start" => nextIdx = 0 /\ ToCome = 0
  /\ mpc = "select" => outstanding = ToCome
  /\ Returned => left = ToCome
  /\ ~Returned => left = 0
  /\ ToCome <= nextIdx
  /\ mpc = "failed" => \A i \in Attempts : apc[i] = "err"

Inv ==
  /\ TypeOK /\ OwnerOK /\ (\A i \in Attempts : AttemptOK(i))
  /\ ResultsOK /\ NoneTaken /\ CountOK
-----------------------------------------------------------------------------
LEMMA AttemptsFacts ==
  /\ AttemptCount \in Nat /\ AttemptCount > 0
  /\ IsFiniteSet(Attempts) /\ Cardinality(Attempts) = AttemptCount
  /\ Attempts \subseteq Nat /\ 0 \notin Attempts
  /\ \A i : i \in Attempts <=> i \in Nat /\ 1 <= i /\ i <= AttemptCount
<1>1. AttemptCount \in Nat /\ AttemptCount > 0
  BY DialAssumption
<1>2. QED BY <1>1, FS_Interval DEF Attempts

LEMMA PendingFacts ==
  /\ IsFiniteSet(Pending) /\ Cardinality(Pending) \in Nat
  /\ IsFiniteSet(Pending') /\ Cardinality(Pending') \in Nat
<1>1. Pending \in SUBSET Attempts /\ Pending' \in SUBSET Attempts
  BY DEF Pending
<1>2. QED BY <1>1, AttemptsFacts, FS_Subset, FS_CardinalityType

(* A nonempty set of naturals has a least element. *)
LEMMA Least ==
  ASSUME NEW T \in SUBSET Nat, T # {}
  PROVE  \E x \in T : \A y \in T : ~(y < x)
<1> DEFINE R == {ss \in Nat \X Nat : ss[1] < ss[2]}
<1>1. IsWellFoundedOn(R, Nat)
  BY NatLessThanWellFounded, Zenon DEF OpToRel
<1> HIDE DEF R
<1>2. PICK x \in T : \A y \in T : <<y, x>> \notin R
  BY <1>1, WFMin, Zenon
<1>3. \A y \in T : ~(y < x)
  BY <1>2 DEF R
<1>4. QED BY <1>3

(* There are as many handles as attempts, and an attempt that has not      *)
(* started its connect has none: it finds a free one.                      *)
LEMMA FreeHandleExists ==
  ASSUME TypeOK, OwnerOK, NEW i \in Attempts, apc[i] = "start"
  PROVE  FreeHandle \in Attempts /\ owner[FreeHandle] = 0
<1> DEFINE F == {h \in Attempts : owner[h] = 0}
<1>1. F # {}
  <2> SUFFICES ASSUME F = {} PROVE FALSE
    OBVIOUS
  <2> DEFINE T == Attempts \ {i}
  <2>1. IsFiniteSet(T) /\ Cardinality(T) = AttemptCount - 1
    BY AttemptsFacts, FS_RemoveElement
  <2>2. \A h \in Attempts : owner[h] \in T
    BY AttemptsFacts DEF TypeOK, OwnerOK
  <2>3. owner \in [Attempts -> T]
    BY <2>2 DEF TypeOK
  <2>4. Cardinality(T) < Cardinality(Attempts)
    BY <2>1, AttemptsFacts
  <2> HIDE DEF T
  <2>5. PICK x, y \in Attempts : x # y /\ owner[x] = owner[y]
    BY <2>1, <2>3, <2>4, AttemptsFacts, FS_PigeonHole
  <2>6. owner[x] # 0 /\ owner[y] # 0
    OBVIOUS
  <2>7. QED BY <2>5, <2>6 DEF OwnerOK
<1>2. PICK h \in F : \A g \in F : ~(g < h)
  BY <1>1, AttemptsFacts, Least
<1>3. \A g \in 1 .. h - 1 : owner[g] # 0
  BY <1>2, AttemptsFacts
<1>4. \E x \in Attempts : owner[x] = 0 /\ \A g \in 1 .. x - 1 : owner[g] # 0
  BY <1>2, <1>3
<1>5. QED BY <1>4 DEF FreeHandle
-----------------------------------------------------------------------------
(* The kinds of steps. A step of an attempt, of its poller or of VLS is    *)
(* about that attempt; the others are the dial's and the context's.        *)
OneStep(i) == AttemptStep(i) \/ PollStep(i) \/ Event(i) \/ Outcome(i)

LEMMA StepCases ==
  ASSUME [Next]_vars
  PROVE  \/ \E i \in Attempts : OneStep(i)
         \/ Main \/ Cleanup \/ ContextEnds \/ UNCHANGED vars
BY Zenon DEF Next, OneStep

LEMMA Shapes ==
  ASSUME TypeOK
  PROVE  /\ apc = [j \in Attempts |-> apc[j]] /\ handle = [j \in Attempts |-> handle[j]]
         /\ woken = [j \in Attempts |-> woken[j]] /\ ppc = [j \in Attempts |-> ppc[j]]
         /\ sess = [j \in Attempts |-> sess[j]] /\ owner = [j \in Attempts |-> owner[j]]
         /\ results \in Seq(Attempts)
BY DEF TypeOK

(* What the step of one attempt does to the results: nothing, and the      *)
(* attempt is as pending as before, or the attempt is over and in them.    *)
Goes(i) ==
  /\ UNCHANGED results
  /\ apc[i] = apc'[i] \/ (apc[i] \notin {"off", "conn", "err"} /\ apc'[i] \notin {"off", "conn", "err"})

Ends(i) ==
  /\ results' = Append(results, i)
  /\ apc[i] \notin {"off", "conn", "err"} /\ apc'[i] \in {"conn", "err"}

LEMMA OneFrame ==
  ASSUME TypeOK, NEW i \in Attempts, OneStep(i)
  PROVE  /\ UNCHANGED <<mpc, nextIdx, outstanding, left, cancelled, ctxDone>>
         /\ \A j \in Attempts : j # i => UNCHANGED <<apc[j], handle[j], ppc[j], sess[j]>>
         /\ Goes(i) \/ Ends(i)
         /\ DOMAIN apc' = Attempts
<1> USE Shapes DEF attemptRest, pollerRest, mainVars, Goes, Ends
<1>1. CASE connectStart(i)
  BY <1>1 DEF connectStart, Result
<1>2. CASE PollWait(i)
  BY <1>2 DEF PollWait
<1>3. CASE WaitCancelled(i)
  BY <1>3 DEF WaitCancelled, Result, vlsClose
<1>4. CASE connectWait(i)
  BY <1>4 DEF connectWait, Result, vlsClose
<1>5. CASE finishConnect(i)
  BY <1>5 DEF finishConnect, Result, vlsClose
<1>6. CASE PollStep(i)
  BY <1>6 DEF PollStep, PollExit, PollTick, WakeVLSH
<1>7. CASE Event(i) \/ Outcome(i)
  BY <1>7 DEF Event, Outcome
<1>8. QED BY <1>1, <1>2, <1>3, <1>4, <1>5, <1>6, <1>7 DEF OneStep, AttemptStep

(* What it does to the handles: it leaves them, or takes a free one, or    *)
(* gives its own back.                                                     *)
Opens(i) ==
  \E h \in Attempts :
    /\ apc[i] = "start" /\ apc'[i] \in {"register", "finish"}
    /\ owner[h] = 0 /\ owner' = [owner EXCEPT ![h] = i] /\ handle' = [handle EXCEPT ![i] = h]

Shuts(i) ==
  /\ apc[i] \in {"wait", "finish"} /\ apc'[i] = "err"
  /\ owner' = [owner EXCEPT ![handle[i]] = 0] /\ UNCHANGED handle

LEMMA OneHandle ==
  ASSUME TypeOK, OwnerOK, NEW i \in Attempts, OneStep(i)
  PROVE  /\ UNCHANGED <<owner, handle>> \/ Opens(i) \/ Shuts(i)
         /\ apc'[i] = "off" <=> apc[i] = "off"
         /\ apc'[i] = "start" => apc[i] = "start"
         /\ \A j \in Attempts : j # i =>
              \/ woken'[j] = woken[j]
              \/ woken[j] = "no" /\ woken'[j] = "stray" /\ apc[j] = "wait"
<1> USE Shapes DEF attemptRest, pollerRest
<1>1. CASE connectStart(i)
  <2>1. CASE Result(i, "err") /\ UNCHANGED <<handle, owner, sess, ppc>>
    BY <1>1, <2>1 DEF connectStart, Result
  <2>2. CASE ~(Result(i, "err") /\ UNCHANGED <<handle, owner, sess, ppc>>)
    <3>1. FreeHandle \in Attempts /\ owner[FreeHandle] = 0
      BY <1>1, FreeHandleExists DEF connectStart
    <3>2. Opens(i) /\ UNCHANGED woken
      BY <1>1, <2>2, <3>1 DEF connectStart, Opens
    <3>3. QED BY <3>2 DEF Opens
  <2>3. QED BY <2>1, <2>2
<1>2. CASE PollWait(i)
  BY <1>2 DEF PollWait
<1>3. CASE WaitCancelled(i)
  BY <1>3 DEF WaitCancelled, Result, vlsClose, Shuts
<1>4. CASE connectWait(i)
  BY <1>4 DEF connectWait, Result, vlsClose, Shuts
<1>5. CASE finishConnect(i)
  BY <1>5 DEF finishConnect, Result, vlsClose, Shuts
<1>6. CASE PollStep(i)
  BY <1>6 DEF PollStep, PollExit, PollTick, WakeVLSH
<1>7. CASE Event(i) \/ Outcome(i)
  BY <1>7 DEF Event, Outcome
<1>8. QED BY <1>1, <1>2, <1>3, <1>4, <1>5, <1>6, <1>7 DEF OneStep, AttemptStep

LEMMA OwnerOne ==
  ASSUME TypeOK, OwnerOK, NEW i \in Attempts, AttemptOK(i), OneStep(i)
  PROVE  /\ OwnerOK'
         /\ \A j \in Attempts : j # i /\ Holds(j) => Holds(j)'
<1>0. /\ \A j \in Attempts : j # i => UNCHANGED <<apc[j], handle[j]>>
      /\ apc'[i] = "off" <=> apc[i] = "off"
      /\ apc'[i] = "start" => apc[i] = "start"
      /\ UNCHANGED <<owner, handle>> \/ Opens(i) \/ Shuts(i)
  BY OneFrame, OneHandle
<1>t. /\ \A h \in Attempts : owner[h] # 0 => owner[h] \in Attempts
      /\ handle = [j \in Attempts |-> handle[j]] /\ owner = [j \in Attempts |-> owner[j]]
  BY AttemptsFacts, Shapes DEF TypeOK
<1>1. CASE UNCHANGED <<owner, handle>>
  BY <1>0, <1>t, <1>1 DEF OwnerOK, Holds
<1>2. CASE Opens(i)
  <2>1. PICK h \in Attempts :
          /\ apc[i] = "start" /\ apc'[i] \in {"register", "finish"}
          /\ owner[h] = 0 /\ owner' = [owner EXCEPT ![h] = i] /\ handle' = [handle EXCEPT ![i] = h]
    BY <1>2 DEF Opens
  <2>2. \A g \in Attempts : owner[g] # i
    BY <2>1, AttemptsFacts DEF OwnerOK
  <2>3. OwnerOK'
    BY <1>0, <1>t, <2>1, <2>2 DEF OwnerOK
  <2>4. QED BY <1>0, <1>t, <2>1, <2>3, AttemptsFacts DEF Holds
<1>3. CASE Shuts(i)
  <2>1. Holds(i)
    BY <1>3 DEF Shuts, AttemptOK
  <2>2. OwnerOK'
    BY <1>0, <1>t, <1>3 DEF Shuts, OwnerOK
  <2>3. QED BY <1>0, <1>t, <1>3, <2>1, <2>2 DEF Shuts, Holds
<1>4. QED BY <1>0, <1>1, <1>2, <1>3

(* The attempt the step is about. *)
LEMMA AttemptItself ==
  ASSUME TypeOK, OwnerOK, NEW i \in Attempts, AttemptOK(i), OneStep(i)
  PROVE  AttemptOK(i)' /\ (apc'[i] = "conn" /\ apc[i] # "conn" => Holds(i)')
<1>f. UNCHANGED nextIdx
  BY OneFrame
<1>i. i \in Nat /\ nextIdx \in Nat
  BY AttemptsFacts DEF TypeOK
<1> USE Shapes, <1>f DEF attemptRest, pollerRest, AttemptOK
<1>1. CASE connectStart(i)
  <2>1. CASE Result(i, "err") /\ UNCHANGED <<handle, owner, sess, ppc>>
    BY <1>1, <2>1 DEF connectStart, Result
  <2>2. CASE ~(Result(i, "err") /\ UNCHANGED <<handle, owner, sess, ppc>>)
    <3>1. FreeHandle \in Attempts /\ owner[FreeHandle] = 0
      BY <1>1, FreeHandleExists DEF connectStart
    <3>2. Holds(i)'
      BY <1>1, <2>2, <3>1 DEF connectStart, Holds
    <3>3. QED BY <1>1, <2>2, <3>2 DEF connectStart
  <2>3. QED BY <2>1, <2>2
<1>2. CASE PollWait(i)
  BY <1>2 DEF PollWait, Holds
<1>3. CASE WaitCancelled(i)
  BY <1>3 DEF WaitCancelled, Result, vlsClose
<1>4. CASE connectWait(i)
  <2>1. Holds(i)
    BY <1>4 DEF connectWait
  <2>2. CASE SessionConnectError(handle[i])
    BY <1>4, <2>2 DEF connectWait, Result, vlsClose
  <2>3. CASE ~SessionConnectError(handle[i])
    <3>1. sess[i] \notin {"failed", "silent"}
      BY <2>1, <2>3, AttemptsFacts DEF SessionConnectError, Holds
    <3>2. UNCHANGED <<sess, owner, handle, woken, ppc>> /\ apc'[i] = "finish" /\ apc[i] = "wait"
          /\ woken[i] # "no"
      BY <1>4, <2>3 DEF connectWait
    <3>3. woken[i] \in {"no", "own", "stray"}
      BY DEF TypeOK
    <3>4. QED BY <2>1, <3>1, <3>2, <3>3 DEF Holds
  <2>4. QED BY <2>2, <2>3
<1>5. CASE finishConnect(i)
  BY <1>5 DEF finishConnect, Result, vlsClose, Holds
<1>6. CASE PollExit(i)
  BY <1>6 DEF PollExit, Holds
<1>7. CASE PollTick(i)
  <2>1. Holds(i) => sess[i] \in {"failed", "silent"}
    BY <1>7, AttemptsFacts DEF PollTick, SessionConnectError, Holds
  <2>2. QED BY <1>7, <2>1 DEF PollTick, Holds
<1>8. CASE WakeVLSH(i)
  BY <1>8 DEF WakeVLSH, Holds
<1>9. CASE Event(i)
  BY <1>9 DEF Event, Holds
<1>10. CASE Outcome(i)
  BY <1>10 DEF Outcome, Holds
<1>11. QED
  BY <1>1, <1>2, <1>3, <1>4, <1>5, <1>6, <1>7, <1>8, <1>9, <1>10, Zenon
     DEF OneStep, AttemptStep, PollStep

LEMMA AttemptsOne ==
  ASSUME TypeOK, OwnerOK, \A j \in Attempts : AttemptOK(j), NEW i \in Attempts, OneStep(i)
  PROVE  \A j \in Attempts : AttemptOK(j)'
<1>1. AttemptOK(i)'
  BY AttemptItself
<1>2. ASSUME NEW j \in Attempts, j # i PROVE AttemptOK(j)'
  <2>1. UNCHANGED <<nextIdx, apc[j], handle[j], ppc[j], sess[j]>>
    BY <1>2, OneFrame
  <2>2. \/ woken'[j] = woken[j]
        \/ woken[j] = "no" /\ woken'[j] = "stray" /\ apc[j] = "wait"
    BY <1>2, OneHandle
  <2>3. AttemptOK(i) /\ AttemptOK(j)
    BY <1>2
  <2>4. Holds(j) => Holds(j)'
    BY <1>2, <2>3, OwnerOne
  <2>5. QED BY <2>1, <2>2, <2>3, <2>4 DEF AttemptOK
<1>3. QED BY <1>1, <1>2

(* The results of such a step, and their number. *)
LEMMA ResultsOne ==
  ASSUME TypeOK, OwnerOK, \A j \in Attempts : AttemptOK(j), ResultsOK, NoneTaken,
         NEW i \in Attempts, OneStep(i)
  PROVE  ResultsOK' /\ NoneTaken'
<1>1. /\ UNCHANGED mpc /\ \A j \in Attempts : j # i => UNCHANGED apc[j]
      /\ Goes(i) \/ Ends(i)
  BY OneFrame
<1>2. AttemptOK(i) /\ results \in Seq(Attempts)
  BY Shapes
<1>3. \A j \in Attempts : j # i /\ Holds(j) => Holds(j)'
  BY <1>2, OwnerOne
<1>4. apc'[i] = "conn" /\ apc[i] # "conn" => Holds(i)'
  BY <1>2, AttemptItself
<1>5. \A k \in 1 .. Len(results) : results[k] \in Attempts
  BY <1>2
<1>6. CASE Goes(i)
  <2>1. CASE apc[i] = apc'[i]
    <3>1. apc[i] = "conn" /\ Holds(i) => Holds(i)'
      BY <2>1, OneHandle DEF Opens, Shuts, Holds
    <3>2. QED BY <1>1, <1>3, <1>5, <1>6, <2>1, <3>1 DEF Goes, ResultsOK, NoneTaken
  <2>2. CASE apc[i] # apc'[i]
    <3>1. apc[i] \notin {"conn", "err"} /\ apc'[i] \notin {"conn", "err"} /\ UNCHANGED results
      BY <1>6, <2>2 DEF Goes
    <3>2. \A k \in 1 .. Len(results) : results[k] # i
      BY <3>1 DEF ResultsOK
    <3>3. QED BY <1>1, <1>3, <1>5, <3>1, <3>2 DEF ResultsOK, NoneTaken
  <2>3. QED BY <2>1, <2>2
<1>7. CASE Ends(i)
  <2>1. /\ Len(results') = Len(results) + 1 /\ results'[Len(results) + 1] = i
        /\ \A k \in 1 .. Len(results) : results'[k] = results[k]
        /\ Len(results) \in Nat
    BY <1>2, <1>7, AppendProperties DEF Ends
  <2>2. apc[i] \notin {"conn", "err"} /\ apc'[i] \in {"conn", "err"}
    BY <1>7 DEF Ends
  <2>3. \A k \in 1 .. Len(results) : results[k] # i
    BY <2>2 DEF ResultsOK
  <2>4. ASSUME NEW k \in 1 .. Len(results')
        PROVE  /\ apc'[results'[k]] \in {"conn", "err"}
               /\ apc'[results'[k]] = "conn" => Holds(results[k])'
    <3>1. CASE k = Len(results) + 1
      <4>1. results'[k] = i
        BY <2>1, <3>1
      <4>2. QED BY <1>4, <2>2, <4>1 DEF Holds
    <3>2. CASE k \in 1 .. Len(results)
      <4>1. PICK r \in Attempts : r = results[k]
        BY <1>5, <3>2
      <4>2. results'[k] = r /\ r # i
        BY <2>1, <2>3, <3>2, <4>1
      <4>3. UNCHANGED apc[r] /\ (Holds(r) => Holds(r)')
        BY <1>1, <1>3, <4>2
      <4>4. apc[r] \in {"conn", "err"} /\ (apc[r] = "conn" => Holds(r))
        BY <3>2, <4>1 DEF ResultsOK
      <4>5. QED BY <4>2, <4>3, <4>4 DEF Holds
    <3>3. QED BY <2>1, <3>1, <3>2
  <2>5. \A k, l \in 1 .. Len(results') : results'[k] = results'[l] => k = l
    BY <2>1, <2>3 DEF ResultsOK
  <2>6. NoneTaken'
    BY <1>1, <2>1 DEF NoneTaken
  <2>7. QED BY <2>4, <2>5, <2>6 DEF ResultsOK
<1>8. QED BY <1>1, <1>6, <1>7

LEMMA CountOne ==
  ASSUME TypeOK, CountOK, NEW i \in Attempts, OneStep(i)
  PROVE  CountOK'
<1>1. /\ UNCHANGED <<mpc, nextIdx, outstanding, left>>
      /\ \A j \in Attempts : j # i => UNCHANGED apc[j]
      /\ Goes(i) \/ Ends(i)
  BY OneFrame
<1>2. ToCome' = ToCome
  <2>1. CASE Goes(i)
    <3>1. Pending' = Pending
      BY <1>1, <2>1 DEF Goes, Pending
    <3>2. QED BY <2>1, <3>1 DEF Goes, ToCome
  <2>2. CASE Ends(i)
    <3>1. i \in Pending /\ Pending' = Pending \ {i}
      BY <1>1, <2>2 DEF Ends, Pending
    <3>2. Cardinality(Pending') = Cardinality(Pending) - 1
      BY <3>1, PendingFacts, FS_RemoveElement
    <3>3. Len(results') = Len(results) + 1 /\ Len(results) \in Nat
      BY <2>2, Shapes, AppendProperties DEF Ends
    <3>4. QED BY <3>2, <3>3, PendingFacts DEF ToCome
  <2>3. QED BY <1>1, <2>1, <2>2
<1>3. (mpc = "failed" => \A j \in Attempts : apc[j] = "err") =>
        (mpc' = "failed" => \A j \in Attempts : apc'[j] = "err")
  BY <1>1 DEF Goes, Ends
<1>4. QED BY <1>1, <1>2, <1>3 DEF CountOK, Returned
-----------------------------------------------------------------------------
(* The steps of dialHappyEyeballs: each may start the next attempt, and    *)
(* may take a result, which is a connection only when the dial is won.     *)
Starts == nextIdx < AttemptCount /\ StartNext
Takes  == /\ results # <<>> /\ results' = Tail(results)
          /\ mpc' = "won" \/ apc[Head(results)] = "err"

LEMMA MainMoves ==
  ASSUME TypeOK, CountOK, Main
  PROVE  /\ UNCHANGED <<handle, woken, ppc, sess, owner, ctxDone>>
         /\ Starts \/ UNCHANGED <<apc, nextIdx>>
         /\ Takes \/ UNCHANGED results
         /\ mpc \in {"start", "select"} /\ mpc' # "start"
<1> USE DEF mainRest, Starts, Takes
<1>1. CASE MainStart
  BY <1>1, AttemptsFacts DEF MainStart, CountOK
<1>2. CASE MainResult
  BY <1>2 DEF MainResult, Return
<1>3. CASE MainTimer
  BY <1>3 DEF MainTimer
<1>4. CASE MainDone
  BY <1>4 DEF MainDone, Return
<1>5. QED BY <1>1, <1>2, <1>3, <1>4 DEF Main

LEMMA StartMoves ==
  ASSUME TypeOK, \A j \in Attempts : AttemptOK(j), Starts
  PROVE  /\ nextIdx + 1 \in Attempts /\ apc[nextIdx + 1] = "off"
         /\ apc' = [apc EXCEPT ![nextIdx + 1] = "start"] /\ nextIdx' = nextIdx + 1
         /\ \A j \in Attempts : apc[j] # "off" => UNCHANGED apc[j]
         /\ \A j \in Attempts : apc'[j] \notin {"off", "start"} => UNCHANGED apc[j]
         /\ Pending' = Pending \cup {nextIdx + 1} /\ nextIdx + 1 \notin Pending
<1>0. nextIdx \in Nat /\ nextIdx < AttemptCount
  BY AttemptsFacts DEF TypeOK, Starts
<1>1. nextIdx + 1 \in Attempts /\ nextIdx \in Nat
  BY <1>0, AttemptsFacts DEF Attempts
<1>2. AttemptOK(nextIdx + 1)
  BY <1>1
<1>3. apc[nextIdx + 1] = "off"
  BY <1>1, <1>2 DEF AttemptOK
<1>4. apc' = [apc EXCEPT ![nextIdx + 1] = "start"] /\ nextIdx' = nextIdx + 1
  BY DEF Starts, StartNext
<1>5. apc = [j \in Attempts |-> apc[j]]
  BY Shapes
<1>6. Pending' = Pending \cup {nextIdx + 1} /\ nextIdx + 1 \notin Pending
  BY <1>1, <1>3, <1>4, <1>5 DEF Pending
<1>7. QED BY <1>1, <1>3, <1>4, <1>5, <1>6

LEMMA OwnerMain ==
  ASSUME TypeOK, OwnerOK, \A j \in Attempts : AttemptOK(j), CountOK, Main
  PROVE  OwnerOK' /\ \A j \in Attempts : AttemptOK(j)'
<1>1. /\ UNCHANGED <<handle, woken, ppc, sess, owner>>
      /\ Starts \/ UNCHANGED <<apc, nextIdx>>
  BY MainMoves
<1>2. \A h \in Attempts : owner[h] # 0 => owner[h] \in Attempts
  BY AttemptsFacts DEF TypeOK
<1>3. CASE UNCHANGED <<apc, nextIdx>>
  BY <1>1, <1>3 DEF OwnerOK, AttemptOK, Holds
<1>4. CASE Starts
  <2>1. OwnerOK'
    BY <1>1, <1>2, <1>4, StartMoves DEF OwnerOK
  <2>2. ASSUME NEW j \in Attempts PROVE AttemptOK(j)'
    <3>1. AttemptOK(j) /\ j \in Nat /\ nextIdx \in Nat
      BY AttemptsFacts DEF TypeOK
    <3>2. CASE j = nextIdx + 1
      <4>1. apc[j] = "off" /\ apc'[j] = "start" /\ nextIdx' = nextIdx + 1
        BY <1>4, <3>2, StartMoves, Shapes
      <4>2. QED BY <1>1, <3>1, <3>2, <4>1 DEF AttemptOK
    <3>3. CASE j # nextIdx + 1
      <4>1. UNCHANGED apc[j] /\ nextIdx' = nextIdx + 1
        BY <1>4, <3>3, StartMoves, Shapes
      <4>2. QED BY <1>1, <3>1, <3>3, <4>1 DEF AttemptOK, Holds
    <3>4. QED BY <3>2, <3>3
  <2>3. QED BY <2>1, <2>2
<1>5. QED BY <1>1, <1>3, <1>4

LEMMA TailMoves ==
  ASSUME TypeOK, results # <<>>, results' = Tail(results)
  PROVE  /\ Len(results) \in Nat /\ Len(results) > 0 /\ Len(results') = Len(results) - 1
         /\ Head(results) = results[1] /\ Head(results) \in Attempts
         /\ \A k \in 1 .. Len(results') : k + 1 \in 1 .. Len(results) /\ results'[k] = results[k + 1]
<1>1. results \in Seq(Attempts)
  BY Shapes
<1>2. /\ Len(results') = Len(results) - 1 /\ Head(results) \in Attempts
      /\ \A k \in 1 .. Len(results') : results'[k] = results[k + 1]
  BY <1>1, HeadTailProperties
<1>3. Len(results) \in Nat /\ Len(results) > 0 /\ Head(results) = results[1]
  BY <1>1
<1>4. QED BY <1>2, <1>3

LEMMA ResultsMain ==
  ASSUME TypeOK, \A j \in Attempts : AttemptOK(j), ResultsOK, NoneTaken, CountOK, Main
  PROVE  ResultsOK' /\ NoneTaken'
<1>1. /\ UNCHANGED <<handle, owner>>
      /\ Starts \/ UNCHANGED <<apc, nextIdx>>
      /\ Takes \/ UNCHANGED results
      /\ mpc \in {"start", "select"}
  BY MainMoves
<1>2. /\ \A j \in Attempts : apc[j] # "off" => UNCHANGED apc[j]
      /\ \A j \in Attempts : apc'[j] \notin {"off", "start"} => UNCHANGED apc[j]
  BY <1>1, StartMoves
<1>3. \A k \in 1 .. Len(results) : results[k] \in Attempts
  BY Shapes
<1>4. CASE UNCHANGED results
  BY <1>1, <1>2, <1>3, <1>4 DEF ResultsOK, NoneTaken, Holds
<1>5. CASE Takes
  <2>1. /\ Len(results) \in Nat /\ Len(results) > 0 /\ Len(results') = Len(results) - 1
        /\ Head(results) = results[1]
        /\ \A k \in 1 .. Len(results') : k + 1 \in 1 .. Len(results) /\ results'[k] = results[k + 1]
    BY <1>5, TailMoves DEF Takes
  <2>2. ASSUME NEW k \in 1 .. Len(results')
        PROVE  /\ apc'[results'[k]] \in {"conn", "err"}
               /\ apc'[results'[k]] = "conn" => Holds(results[k])'
    <3>1. PICK r \in Attempts : r = results'[k] /\ r = results[k + 1] /\ k + 1 \in 1 .. Len(results)
      BY <1>3, <2>1
    <3>2. apc[r] \in {"conn", "err"} /\ (apc[r] = "conn" => Holds(r))
      BY <3>1 DEF ResultsOK
    <3>3. UNCHANGED apc[r] /\ (Holds(r) => Holds(r)')
      BY <1>1, <1>2, <3>2 DEF Holds
    <3>4. QED BY <3>1, <3>2, <3>3 DEF Holds
  <2>3. \A k, l \in 1 .. Len(results') : results'[k] = results'[l] => k = l
    BY <2>1 DEF ResultsOK
  <2>4. ASSUME NEW i \in Attempts, mpc' \in {"start", "select"}, apc'[i] = "conn"
        PROVE  \E k \in 1 .. Len(results') : results'[k] = i
    <3>1. apc[i] = "conn" /\ apc[results[1]] = "err"
      BY <1>2, <1>5, <2>1, <2>4 DEF Takes
    <3>2. PICK k \in 1 .. Len(results) : results[k] = i
      BY <1>1, <3>1 DEF NoneTaken
    <3>3. k # 1 /\ k - 1 \in 1 .. Len(results')
      BY <2>1, <3>1, <3>2
    <3>4. results'[k - 1] = results[k - 1 + 1]
      BY <2>1, <3>3
    <3>5. QED BY <3>2, <3>3, <3>4
  <2>5. QED BY <2>2, <2>3, <2>4 DEF ResultsOK, NoneTaken
<1>6. QED BY <1>1, <1>4, <1>5

LEMMA CountMain ==
  ASSUME TypeOK, \A j \in Attempts : AttemptOK(j), ResultsOK, NoneTaken, CountOK, Main
  PROVE  CountOK' /\ outstanding' \in 0 .. AttemptCount
<1>n. /\ nextIdx \in Nat /\ nextIdx <= AttemptCount /\ outstanding \in Nat
      /\ outstanding <= AttemptCount /\ left \in Nat /\ AttemptCount \in Nat
      /\ Cardinality(Pending) \in Nat /\ Len(results) \in Nat
  BY AttemptsFacts, PendingFacts, Shapes DEF TypeOK
<1>s. Starts => nextIdx' = nextIdx + 1 /\ nextIdx < AttemptCount
                /\ Cardinality(Pending') = Cardinality(Pending) + 1
  <2> SUFFICES ASSUME Starts
               PROVE  nextIdx' = nextIdx + 1 /\ nextIdx < AttemptCount
                      /\ Cardinality(Pending') = Cardinality(Pending) + 1
    OBVIOUS
  <2>1. nextIdx' = nextIdx + 1 /\ Pending' = Pending \cup {nextIdx + 1} /\ nextIdx + 1 \notin Pending
    BY StartMoves
  <2>2. QED BY <2>1, PendingFacts, FS_AddElement DEF Starts
<1>r. UNCHANGED apc => Pending' = Pending
  BY DEF Pending
<1>1. CASE MainStart
  <2>1. Starts /\ UNCHANGED <<results, left>> /\ mpc' = "select" /\ outstanding' = 1 /\ mpc = "start"
    BY <1>1, AttemptsFacts DEF MainStart, Starts, CountOK
  <2>2. ToCome' = ToCome + 1
    BY <1>n, <1>s, <2>1 DEF ToCome
  <2>3. QED BY <1>n, <1>s, <2>1, <2>2, AttemptsFacts DEF CountOK, Returned, ToCome
<1>2. CASE MainResult
  <2>0. /\ mpc = "select" /\ results # <<>> /\ results' = Tail(results)
        /\ outstanding = ToCome /\ left = 0 /\ ToCome \in Nat /\ ToCome <= nextIdx
    BY <1>2, <1>n DEF MainResult, CountOK, Returned, ToCome
  <2>t. Len(results') = Len(results) - 1 /\ Len(results) > 0 /\ Head(results) = results[1]
    BY <2>0, TailMoves
  <2>p. ToCome > 0
    BY <1>n, <2>t DEF ToCome
  <2>1. CASE apc[Head(results)] = "conn"
    <3>1. outstanding' = outstanding - 1 /\ mpc' = "won" /\ left' = outstanding - 1 /\ UNCHANGED <<apc, nextIdx>>
      BY <1>2, <2>1 DEF MainResult, Return
    <3>2. ToCome' = ToCome - 1
      BY <1>n, <1>r, <2>t, <3>1 DEF ToCome
    <3>3. QED BY <1>n, <2>0, <2>p, <3>1, <3>2 DEF CountOK, Returned
  <2>2. CASE apc[Head(results)] = "err" /\ nextIdx < AttemptCount
    <3>1. Starts /\ UNCHANGED <<outstanding, mpc, left>>
      BY <1>2, <1>n, <2>2 DEF MainResult, Starts
    <3>2. ToCome' = ToCome
      BY <1>n, <1>s, <2>t, <3>1 DEF ToCome
    <3>3. QED BY <1>n, <1>s, <2>0, <3>1, <3>2 DEF CountOK, Returned
  <2>3. CASE apc[Head(results)] = "err" /\ nextIdx = AttemptCount
    <3>1. /\ outstanding' = outstanding - 1 /\ UNCHANGED <<apc, nextIdx>>
          /\ IF outstanding = 1 THEN mpc' = "failed" /\ left' = 0 ELSE UNCHANGED <<mpc, left>>
      BY <1>2, <2>3, <1>n DEF MainResult, Return
    <3>2. ToCome' = ToCome - 1
      BY <1>n, <1>r, <2>t, <3>1 DEF ToCome
    <3>3. ASSUME outstanding = 1, NEW i \in Attempts PROVE apc[i] = "err"
      <4>1. Len(results) = 1 /\ Cardinality(Pending) = 0
        BY <1>n, <2>0, <2>t, <3>3 DEF ToCome
      <4>2. Pending = {}
        BY <4>1, PendingFacts, FS_EmptySet
      <4>3. AttemptOK(i) /\ i <= nextIdx /\ i \in Nat
        BY <2>3, AttemptsFacts
      <4>4. apc[i] # "off"
        BY <1>n, <4>3 DEF AttemptOK
      <4>5. apc[i] \in {"conn", "err"}
        BY <4>2, <4>4 DEF Pending
      <4>6. apc[i] # "conn"
        BY <2>0, <2>t, <2>3, <4>1 DEF NoneTaken
      <4>7. QED BY <4>5, <4>6
    <3>4. QED BY <1>n, <2>0, <2>p, <3>1, <3>2, <3>3 DEF CountOK, Returned
  <2>4. QED BY <1>2, <2>1, <2>2, <2>3 DEF MainResult
<1>3. CASE MainTimer
  <2>1. Starts /\ UNCHANGED <<results, left, mpc>> /\ outstanding' = outstanding + 1 /\ mpc = "select"
    BY <1>3 DEF MainTimer, Starts
  <2>2. ToCome' = ToCome + 1
    BY <1>n, <1>s, <2>1 DEF ToCome
  <2>3. QED BY <1>n, <1>s, <2>1, <2>2 DEF CountOK, Returned, ToCome
<1>4. CASE MainDone
  <2>1. mpc = "select" /\ mpc' = "expired" /\ left' = outstanding /\ UNCHANGED <<apc, nextIdx, outstanding, results>>
    BY <1>4 DEF MainDone, Return
  <2>2. ToCome' = ToCome
    BY <1>r, <2>1 DEF ToCome
  <2>3. QED BY <1>n, <2>1, <2>2 DEF CountOK, Returned
<1>5. QED BY <1>1, <1>2, <1>3, <1>4 DEF Main
-----------------------------------------------------------------------------
(* The cleanup goroutine. *)
LEMMA CleanupStep ==
  ASSUME Inv, Cleanup
  PROVE  /\ OwnerOK' /\ (\A j \in Attempts : AttemptOK(j)')
         /\ ResultsOK' /\ NoneTaken' /\ CountOK'
<1>1. /\ results # <<>> /\ results' = Tail(results) /\ left' = left - 1 /\ left > 0
      /\ UNCHANGED <<mpc, nextIdx, outstanding, apc, handle, woken, ppc>>
      /\ IF apc[Head(results)] = "conn" THEN vlsClose(Head(results)) ELSE UNCHANGED <<sess, owner>>
  BY DEF Cleanup
<1>2. TypeOK /\ OwnerOK /\ (\A j \in Attempts : AttemptOK(j)) /\ ResultsOK /\ CountOK
  BY DEF Inv
<1>3. /\ Len(results) \in Nat /\ Len(results) > 0 /\ Len(results') = Len(results) - 1
      /\ Head(results) = results[1] /\ Head(results) \in Attempts
      /\ \A k \in 1 .. Len(results') : k + 1 \in 1 .. Len(results) /\ results'[k] = results[k + 1]
  BY <1>1, <1>2, TailMoves
<1>4. PICK r \in Attempts : r = Head(results)
  BY <1>3
<1>5. Returned
  BY <1>1, <1>2 DEF CountOK
<1>6. CountOK' /\ NoneTaken'
  <2>1. Pending' = Pending
    BY <1>1 DEF Pending
  <2>2. ToCome' = ToCome - 1 /\ ToCome \in Nat
    BY <1>3, <2>1, PendingFacts DEF ToCome
  <2>3. nextIdx \in Nat /\ left \in Nat
    BY <1>2, AttemptsFacts DEF TypeOK
  <2>4. QED BY <1>1, <1>2, <1>5, <2>2, <2>3 DEF CountOK, NoneTaken, Returned
<1>7. /\ \A j \in Attempts : j # r => UNCHANGED sess[j] /\ (Holds(j) => Holds(j)')
      /\ OwnerOK'
      /\ apc[r] \in {"conn", "err"}
  <2>1. /\ apc[r] = "conn" => Holds(r)
        /\ apc[r] \in {"conn", "err"}
    BY <1>2, <1>3, <1>4 DEF ResultsOK
  <2>2. CASE apc[r] = "conn"
    <3>1. sess' = [sess EXCEPT ![r] = "closed"] /\ owner' = [owner EXCEPT ![handle[r]] = 0]
      BY <1>1, <1>4, <2>2 DEF vlsClose
    <3>2. QED BY <1>1, <1>2, <2>1, <2>2, <3>1, Shapes DEF OwnerOK, Holds
  <2>3. CASE apc[r] # "conn"
    BY <1>1, <1>2, <1>4, <2>1, <2>3 DEF OwnerOK, Holds
  <2>4. QED BY <2>2, <2>3
<1>8. ASSUME NEW j \in Attempts PROVE AttemptOK(j)'
  <2>1. AttemptOK(j)
    BY <1>2
  <2>2. CASE j # r
    BY <1>1, <1>7, <2>1, <2>2 DEF AttemptOK
  <2>3. CASE j = r
    BY <1>1, <1>7, <2>1, <2>3 DEF AttemptOK
  <2>4. QED BY <2>2, <2>3
<1>9. ResultsOK'
  <2>1. ASSUME NEW k \in 1 .. Len(results')
        PROVE  /\ apc'[results'[k]] \in {"conn", "err"}
               /\ apc'[results'[k]] = "conn" => Holds(results[k])'
    <3>0. \A m \in 1 .. Len(results) : results[m] \in Attempts
      BY <1>2, Shapes
    <3>1. PICK q \in Attempts : q = results'[k] /\ q = results[k + 1] /\ k + 1 \in 1 .. Len(results)
      BY <1>3, <3>0
    <3>2. q # r
      BY <1>2, <1>3, <1>4, <3>1 DEF ResultsOK
    <3>3. apc[q] \in {"conn", "err"} /\ (apc[q] = "conn" => Holds(q))
      BY <1>2, <3>1 DEF ResultsOK
    <3>4. Holds(q) => Holds(q)'
      BY <1>7, <3>2
    <3>5. QED BY <1>1, <3>1, <3>3, <3>4 DEF Holds
  <2>2. \A k, l \in 1 .. Len(results') : results'[k] = results'[l] => k = l
    BY <1>2, <1>3 DEF ResultsOK
  <2>3. QED BY <2>1, <2>2 DEF ResultsOK
<1>10. QED BY <1>6, <1>7, <1>8, <1>9
-----------------------------------------------------------------------------
(* Types. The results and the counters are bounded because never more is   *)
(* to come than has been started.                                          *)
TypeRest ==
  /\ apc \in [Attempts -> {"off", "start", "register", "wait", "finish", "conn", "err"}]
  /\ handle \in [Attempts -> 0 .. AttemptCount]
  /\ woken \in [Attempts -> {"no", "own", "stray"}]
  /\ ppc \in [Attempts -> {"off", "tick", "wake", "gone"}]
  /\ sess \in [Attempts -> {"none", "pending", "up", "failed", "silent", "closed"}]
  /\ owner \in [Attempts -> 0 .. AttemptCount]

LEMMA TypeOne ==
  ASSUME TypeOK, OwnerOK, NEW i \in Attempts, OneStep(i)
  PROVE  TypeRest'
<1>0. TypeRest /\ Attempts \subseteq 0 .. AttemptCount /\ 0 \in 0 .. AttemptCount
  BY AttemptsFacts DEF TypeOK, TypeRest
<1> USE <1>0 DEF TypeRest, attemptRest, pollerRest, Result, vlsClose
<1>1. CASE connectStart(i)
  <2>1. FreeHandle \in Attempts
    BY <1>1, FreeHandleExists DEF connectStart
  <2>2. /\ handle' = handle \/ handle' = [handle EXCEPT ![i] = FreeHandle]
        /\ owner' = owner \/ owner' = [owner EXCEPT ![FreeHandle] = i]
        /\ sess' = sess \/ \E x \in {"up", "pending"} : sess' = [sess EXCEPT ![i] = x]
        /\ \E x \in {"err", "finish", "register"} : apc' = [apc EXCEPT ![i] = x]
        /\ woken' = woken \/ woken' = [woken EXCEPT ![i] = "no"]
        /\ ppc' = ppc \/ ppc' = [ppc EXCEPT ![i] = "tick"]
    BY <1>1 DEF connectStart
  <2>3. QED BY <2>1, <2>2
<1>2. CASE PollWait(i)
  BY <1>2 DEF PollWait
<1>3. CASE WaitCancelled(i)
  BY <1>3 DEF WaitCancelled
<1>4. CASE connectWait(i)
  <2>1. /\ handle' = handle /\ ppc' = ppc
        /\ owner' = owner \/ owner' = [owner EXCEPT ![handle[i]] = 0]
        /\ sess' = sess \/ sess' = [sess EXCEPT ![i] = "closed"]
        /\ \E x \in {"err", "conn", "finish"} : apc' = [apc EXCEPT ![i] = x]
        /\ woken' = woken \/ woken' = [woken EXCEPT ![i] = "no"]
    BY <1>4 DEF connectWait
  <2>2. QED BY <2>1
<1>5. CASE finishConnect(i)
  <2>1. /\ handle' = handle /\ ppc' = ppc
        /\ owner' = owner \/ owner' = [owner EXCEPT ![handle[i]] = 0]
        /\ sess' = sess \/ sess' = [sess EXCEPT ![i] = "closed"]
        /\ \E x \in {"err", "conn", "finish"} : apc' = [apc EXCEPT ![i] = x]
        /\ woken' = woken \/ woken' = [woken EXCEPT ![i] = "no"]
    BY <1>5 DEF finishConnect
  <2>2. QED BY <2>1
<1>6. CASE PollStep(i)
  BY <1>6 DEF PollStep, PollExit, PollTick, WakeVLSH
<1>7. CASE Event(i) \/ Outcome(i)
  BY <1>7 DEF Event, Outcome
<1>8. QED BY <1>1, <1>2, <1>3, <1>4, <1>5, <1>6, <1>7 DEF OneStep, AttemptStep

LEMMA TypeOthers ==
  ASSUME Inv, Main \/ Cleanup \/ ContextEnds \/ UNCHANGED vars
  PROVE  TypeRest'
<1>0. TypeRest /\ 0 \in 0 .. AttemptCount
  BY AttemptsFacts DEF Inv, TypeOK, TypeRest
<1>1. CASE Main
  <2>1. /\ UNCHANGED <<handle, woken, ppc, sess, owner>>
        /\ Starts \/ UNCHANGED apc
    BY <1>1, MainMoves DEF Inv
  <2>2. QED BY <1>0, <2>1 DEF TypeRest, Starts, StartNext
<1>2. CASE Cleanup
  BY <1>0, <1>2 DEF TypeRest, Cleanup, vlsClose
<1>3. CASE ContextEnds \/ UNCHANGED vars
  BY <1>0, <1>3 DEF TypeRest, ContextEnds, vars
<1>4. QED BY <1>1, <1>2, <1>3

LEMMA TypeStep ==
  ASSUME Inv, [Next]_vars, CountOK', TypeRest'
  PROVE  TypeOK'
<1>t. TypeOK /\ CountOK /\ (\A j \in Attempts : AttemptOK(j)) /\ ResultsOK /\ NoneTaken /\ OwnerOK
  BY DEF Inv
<1>n. /\ nextIdx \in Nat /\ nextIdx <= AttemptCount /\ AttemptCount \in Nat
      /\ left \in 0 .. AttemptCount /\ outstanding \in 0 .. AttemptCount
  BY <1>t, AttemptsFacts DEF TypeOK
<1>1. /\ nextIdx' \in 0 .. AttemptCount
      /\ results' \in Seq(Attempts)
      /\ mpc' \in {"start", "select", "won", "failed", "expired"}
      /\ outstanding' \in 0 .. AttemptCount
      /\ ctxDone' \in BOOLEAN /\ cancelled' \in BOOLEAN
  <2>0. /\ mpc \in {"start", "select", "won", "failed", "expired"}
        /\ results \in Seq(Attempts) /\ ctxDone \in BOOLEAN /\ cancelled \in BOOLEAN
    BY <1>t DEF TypeOK
  <2>1. ASSUME NEW i \in Attempts, OneStep(i)
        PROVE  UNCHANGED <<mpc, nextIdx, outstanding, cancelled, ctxDone>> /\ results' \in Seq(Attempts)
    <3>1. UNCHANGED <<mpc, nextIdx, outstanding, cancelled, ctxDone>> /\ (Goes(i) \/ Ends(i))
      BY <1>t, <2>1, OneFrame
    <3>2. QED BY <2>0, <3>1, AppendProperties DEF Goes, Ends
  <2>2. CASE Main
    <3>1. /\ Starts \/ UNCHANGED <<apc, nextIdx>>
          /\ Takes \/ UNCHANGED results
          /\ UNCHANGED ctxDone
      BY <1>t, <2>2, MainMoves
    <3>2. outstanding' \in 0 .. AttemptCount
      BY <1>t, <2>2, CountMain
    <3>3. nextIdx' \in 0 .. AttemptCount
      BY <1>n, <3>1 DEF Starts, StartNext
    <3>4. results' \in Seq(Attempts)
      BY <2>0, <3>1, HeadTailProperties DEF Takes
    <3>5. mpc' \in {"start", "select", "won", "failed", "expired"} /\ cancelled' \in {TRUE, cancelled}
      BY <2>0, <2>2 DEF Main, MainStart, MainResult, MainTimer, MainDone, Return
    <3>6. cancelled' \in BOOLEAN
      BY <2>0, <3>5, Zenon
    <3>7. QED BY <2>0, <3>1, <3>2, <3>3, <3>4, <3>5, <3>6, Zenon
  <2>3. CASE Cleanup
    <3>1. results # <<>> /\ results' = Tail(results) /\ UNCHANGED <<mpc, nextIdx, outstanding, cancelled, ctxDone>>
      BY <2>3 DEF Cleanup
    <3>2. results' \in Seq(Attempts)
      BY <2>0, <3>1, HeadTailProperties
    <3>3. nextIdx' \in 0 .. AttemptCount /\ outstanding' \in 0 .. AttemptCount
      BY <1>n, <3>1
    <3>4. QED BY <2>0, <3>1, <3>2, <3>3
  <2>4. CASE ContextEnds \/ UNCHANGED vars
    <3>1. UNCHANGED <<mpc, nextIdx, outstanding, cancelled, results>> /\ ctxDone' \in {TRUE, ctxDone}
      BY <2>4 DEF ContextEnds, vars, mainVars
    <3>2. ctxDone' \in BOOLEAN
      BY <2>0, <3>1, Zenon
    <3>3. nextIdx' \in 0 .. AttemptCount /\ outstanding' \in 0 .. AttemptCount
      BY <1>n, <3>1
    <3>4. QED BY <2>0, <3>1, <3>2, <3>3, Zenon
  <2>5. QED BY <1>n, <2>0, <2>1, <2>2, <2>3, <2>4, StepCases
<1>2. Len(results') <= AttemptCount
  <2>1. Len(results') \in Nat /\ Cardinality(Pending') \in Nat /\ nextIdx' \in Nat /\ nextIdx' <= AttemptCount
    BY <1>1, <1>n, PendingFacts
  <2>2. Cardinality(Pending') + Len(results') <= nextIdx'
    BY DEF CountOK, ToCome
  <2>3. QED BY <1>n, <2>1, <2>2
<1>3. left' \in 0 .. AttemptCount
  <2>1. Len(results') \in Nat /\ Cardinality(Pending') \in Nat /\ nextIdx' \in Nat /\ nextIdx' <= AttemptCount
    BY <1>1, <1>n, PendingFacts
  <2>2. left' = 0 \/ left' = Cardinality(Pending') + Len(results')
    BY DEF CountOK, ToCome
  <2>3. Cardinality(Pending') + Len(results') <= nextIdx'
    BY DEF CountOK, ToCome
  <2>4. QED BY <1>n, <2>1, <2>2, <2>3
<1>4. QED BY <1>1, <1>2, <1>3, Zenon DEF TypeOK, TypeRest
-----------------------------------------------------------------------------
LEMMA InvInit == Init => Inv
<1> SUFFICES ASSUME Init PROVE Inv
  OBVIOUS
<1>1. Pending = {}
  BY DEF Init, Pending
<1>2. ToCome = 0
  BY <1>1, FS_EmptySet DEF Init, ToCome
<1>3. TypeOK
  <2>1. ctxDone \in BOOLEAN /\ cancelled \in BOOLEAN
    BY Zenon DEF Init
  <2>2. /\ nextIdx \in 0 .. AttemptCount /\ outstanding \in 0 .. AttemptCount
        /\ results \in Seq(Attempts) /\ Len(results) <= AttemptCount
        /\ left \in 0 .. AttemptCount
        /\ mpc \in {"start", "select", "won", "failed", "expired"}
    BY AttemptsFacts DEF Init
  <2>3. TypeRest
    BY AttemptsFacts DEF Init, TypeRest
  <2>4. QED BY <2>1, <2>2, <2>3, Zenon DEF TypeOK, TypeRest
<1>4. OwnerOK
  BY DEF Init, OwnerOK
<1>5. ASSUME NEW i \in Attempts PROVE AttemptOK(i)
  BY AttemptsFacts DEF Init, AttemptOK
<1>6. ResultsOK /\ NoneTaken
  BY DEF Init, ResultsOK, NoneTaken
<1>7. CountOK
  BY <1>2 DEF Init, CountOK, Returned
<1>8. QED BY <1>3, <1>4, <1>5, <1>6, <1>7 DEF Inv

(* The invariant of the dial. *)
THEOREM DialInvariant == Spec => []Inv
<1>1. Inv /\ [Next]_vars => Inv'
  <2> SUFFICES ASSUME Inv, [Next]_vars PROVE Inv'
    OBVIOUS
  <2>t. TypeOK /\ OwnerOK /\ (\A j \in Attempts : AttemptOK(j)) /\ ResultsOK /\ NoneTaken /\ CountOK
    BY DEF Inv
  <2>1. /\ OwnerOK' /\ (\A j \in Attempts : AttemptOK(j)') /\ ResultsOK' /\ NoneTaken' /\ CountOK'
        /\ TypeRest'
    <3>1. ASSUME NEW i \in Attempts, OneStep(i)
          PROVE  /\ OwnerOK' /\ (\A j \in Attempts : AttemptOK(j)') /\ ResultsOK' /\ NoneTaken' /\ CountOK'
                 /\ TypeRest'
      <4>1. AttemptOK(i)
        BY <2>t, <3>1
      <4>2. OwnerOK'
        BY <2>t, <3>1, <4>1, OwnerOne
      <4>3. QED BY <2>t, <3>1, <4>2, AttemptsOne, ResultsOne, CountOne, TypeOne
    <3>2. CASE Main
      BY <2>t, <3>2, OwnerMain, ResultsMain, CountMain, TypeOthers
    <3>3. CASE Cleanup
      BY <3>3, CleanupStep, TypeOthers
    <3>4. CASE ContextEnds \/ UNCHANGED vars
      <4>1. UNCHANGED <<mpc, nextIdx, outstanding, left, results, apc, handle, woken, ppc, sess, owner>>
        BY <3>4 DEF ContextEnds, vars, mainVars
      <4>2. Pending' = Pending
        BY <4>1 DEF Pending
      <4>3. CountOK'
        BY <2>t, <4>1, <4>2 DEF CountOK, ToCome, Returned
      <4>4. QED BY <2>t, <3>4, <4>1, <4>3, TypeOthers
                DEF OwnerOK, AttemptOK, ResultsOK, NoneTaken, Holds
    <3>5. QED BY <3>1, <3>2, <3>3, <3>4, StepCases
  <2>2. TypeOK'
    BY <2>1, TypeStep
  <2>3. QED BY <2>1, <2>2 DEF Inv
<1>2. QED BY <1>1, InvInit, PTL DEF Spec

(* The loop and the cleanup goroutine wait for exactly the results that    *)
(* are to come, and the dial fails for lack of addresses only when every   *)
(* address has failed.                                                     *)
THEOREM OutstandingExactHolds == Spec => []OutstandingExact
<1>1. Inv => OutstandingExact
  BY DEF Inv, CountOK, ToCome, OutstandingExact
<1>2. QED BY <1>1, DialInvariant, PTL

-----------------------------------------------------------------------------
(* interleaveAddrs: induction over the rounds of its loops.                *)

(* Induction over the naturals, for membership in a set. *)
LEMMA SetInduction ==
  ASSUME NEW S, 0 \in S, \A n \in Nat : n \in S => n + 1 \in S
  PROVE  \A n \in Nat : n \in S
<1> DEFINE T == {n \in Nat : n \notin S}
<1> SUFFICES ASSUME T # {} PROVE FALSE
  OBVIOUS
<1>1. PICK n \in T : \A m \in T : ~(m < n)
  BY Least
<1>2. n # 0 /\ n - 1 \in Nat /\ n - 1 \notin T
  BY <1>1
<1>3. QED BY <1>1, <1>2

(* f[n] is the state after n rounds of a loop that starts in s0. *)
IsLoop(f, N, s0, step) ==
  f = [n \in 0 .. N |-> IF n = 0 THEN s0 ELSE step[n][f[n - 1]]]

(* A loop of N rounds, each taking the states I[n - 1] to I[n], has a      *)
(* sequence of states: the recursive function that defines it exists.      *)
LEMMA LoopExists ==
  ASSUME NEW N \in Nat, NEW I, NEW s0 \in I[0], NEW step,
         \A n \in 1 .. N : \A x \in I[n - 1] : step[n][x] \in I[n]
  PROVE  \E f : IsLoop(f, N, s0, step) /\ \A n \in 0 .. N : f[n] \in I[n]
<1> DEFINE Def(f, m) == [n \in 0 .. m |-> IF n = 0 THEN s0 ELSE step[n][f[n - 1]]]
           Good(f, m) == f = Def(f, m) /\ \A n \in 0 .. m : f[n] \in I[n]
           P == {m \in Nat : m <= N => \E f : Good(f, m)}
<1>1. 0 \in P
  <2> DEFINE f == [n \in 0 .. 0 |-> s0]
  <2>1. f = Def(f, 0)
    OBVIOUS
  <2>2. \A n \in 0 .. 0 : f[n] \in I[n]
    OBVIOUS
  <2>3. QED BY <2>1, <2>2
<1>2. ASSUME NEW m \in Nat, m \in P, m + 1 <= N PROVE \E g : Good(g, m + 1)
  <2>1. PICK f : Good(f, m)
    BY <1>2
  <2> DEFINE g == [n \in 0 .. m + 1 |-> IF n = m + 1 THEN step[n][f[m]] ELSE f[n]]
  <2>2. \A n \in 0 .. m : g[n] = f[n]
    OBVIOUS
  <2>3. g[m + 1] = step[m + 1][f[m]] /\ f[m] \in I[m]
    BY <2>1
  <2>4. \A n \in 0 .. m : g[n] = IF n = 0 THEN s0 ELSE step[n][g[n - 1]]
    <3>1. \A n \in 0 .. m : f[n] = IF n = 0 THEN s0 ELSE step[n][f[n - 1]]
      BY <2>1
    <3> HIDE DEF g
    <3>2. QED BY <2>2, <3>1
  <2>5. g[m + 1] = step[m + 1][g[m]] /\ g[m + 1] \in I[m + 1]
    BY <2>2, <2>3, <1>2
  <2>6. g = [n \in 0 .. m + 1 |-> g[n]]
    OBVIOUS
  <2> HIDE DEF g
  <2>7. \A n \in 0 .. m + 1 : g[n] = IF n = 0 THEN s0 ELSE step[n][g[n - 1]]
    BY <2>4, <2>5
  <2>8. g = Def(g, m + 1)
    BY <2>6, <2>7
  <2>9. \A n \in 0 .. m + 1 : g[n] \in I[n]
    BY <2>1, <2>2, <2>5
  <2>10. QED BY <2>8, <2>9
<1>3. N \in P
  <2>1. \A m \in Nat : m \in P => m + 1 \in P
    BY <1>2
  <2> HIDE DEF P
  <2>2. QED BY <1>1, <2>1, SetInduction
<1>4. QED BY <1>3 DEF IsLoop

(* Whatever function satisfies the recursion stays in the sets I[n]. *)
LEMMA LoopStays ==
  ASSUME NEW N \in Nat, NEW I, NEW f, f[0] \in I[0],
         \A n \in 1 .. N : f[n - 1] \in I[n - 1] => f[n] \in I[n]
  PROVE  f[N] \in I[N]
<1> DEFINE P == {n \in Nat : n <= N => f[n] \in I[n]}
<1>1. 0 \in P /\ \A n \in Nat : n \in P => n + 1 \in P
  <2>1. ASSUME NEW n \in Nat, n \in P, n + 1 <= N PROVE f[n + 1] \in I[n + 1]
    <3>1. n + 1 \in 1 .. N /\ (n + 1) - 1 = n
      BY <2>1
    <3>2. f[n] \in I[n]
      BY <2>1
    <3>3. QED BY <3>1, <3>2
  <2>2. QED BY <2>1
<1>2. N \in P
  <2> HIDE DEF P
  <2>1. QED BY <1>1, SetInduction
<1>3. QED BY <1>2

(* The list of n addresses, named by their places. *)
Places(n) == [k \in 1 .. n |-> k]

(* The lists of the first m addresses by family: in order, complete, and   *)
(* as long as there are addresses of the family.                           *)
FamilyList(s, f, m, fam) ==
  /\ s \in Seq(1 .. m)
  /\ \A k \in 1 .. Len(s) : fam[s[k]] = f
  /\ \A k, l \in 1 .. Len(s) : k < l => s[k] < s[l]
  /\ \A p \in 1 .. m : fam[p] = f => \E k \in 1 .. Len(s) : s[k] = p
  /\ Len(s) = Cardinality({p \in 1 .. m : fam[p] = f})

Families(m, fam) ==
  {s \in [v4 : Seq(Nat), v6 : Seq(Nat)] :
     /\ FamilyList(s.v4, 4, m, fam) /\ FamilyList(s.v6, 6, m, fam)
     /\ Len(s.v4) + Len(s.v6) = m}

LEMMA ListGrows ==
  ASSUME NEW m \in Nat, NEW fam, NEW f, NEW s, FamilyList(s, f, m, fam)
  PROVE  IF fam[m + 1] = f THEN FamilyList(Append(s, m + 1), f, m + 1, fam)
                           ELSE FamilyList(s, f, m + 1, fam)
<1> DEFINE C(k) == {p \in 1 .. k : fam[p] = f}
<1>0. s \in Seq(1 .. m)
  BY DEF FamilyList
<1>1. /\ Len(s) \in Nat /\ \A k \in 1 .. Len(s) : s[k] \in 1 .. m
  BY <1>0
<1>a. s \in Seq(1 .. m + 1)
  <2>1. s \in [1 .. Len(s) -> 1 .. m + 1]
    BY <1>0, <1>1
  <2>2. QED BY <1>1, <2>1
<1>b. /\ \A k \in 1 .. Len(s) : fam[s[k]] = f
      /\ \A k, l \in 1 .. Len(s) : k < l => s[k] < s[l]
      /\ \A p \in 1 .. m : fam[p] = f => \E k \in 1 .. Len(s) : s[k] = p
      /\ Len(s) = Cardinality(C(m))
  BY DEF FamilyList
<1> HIDE DEF C
<1>2. IsFiniteSet(C(m))
  BY FS_Interval, FS_Subset, 1 \in Int, m \in Int DEF C
<1>3. CASE fam[m + 1] = f
  <2> DEFINE t == Append(s, m + 1)
  <2>1. C(m + 1) = C(m) \cup {m + 1} /\ m + 1 \notin C(m)
    BY <1>3 DEF C
  <2>2. Cardinality(C(m + 1)) = Cardinality(C(m)) + 1
    BY <2>1, <1>2, FS_AddElement
  <2>3. /\ t \in Seq(1 .. m + 1) /\ Len(t) = Len(s) + 1
        /\ t[Len(s) + 1] = m + 1 /\ \A k \in 1 .. Len(s) : t[k] = s[k]
    BY <1>1, <1>a
  <2> HIDE DEF t
  <2>4. \A k \in 1 .. Len(t) : fam[t[k]] = f
    BY <1>1, <1>b, <1>3, <2>3
  <2>5. \A k, l \in 1 .. Len(t) : k < l => t[k] < t[l]
    <3> SUFFICES ASSUME NEW k \in 1 .. Len(t), NEW l \in 1 .. Len(t), k < l PROVE t[k] < t[l]
      OBVIOUS
    <3>1. k \in 1 .. Len(s) /\ t[k] = s[k] /\ s[k] \in 1 .. m
      BY <1>1, <2>3
    <3>2. CASE l = Len(s) + 1
      BY <2>3, <3>1, <3>2
    <3>3. CASE l \in 1 .. Len(s)
      BY <1>b, <2>3, <3>1, <3>3
    <3>4. QED BY <1>1, <2>3, <3>2, <3>3
  <2>6. \A p \in 1 .. m + 1 : fam[p] = f => \E k \in 1 .. Len(t) : t[k] = p
    <3> SUFFICES ASSUME NEW p \in 1 .. m + 1, fam[p] = f PROVE \E k \in 1 .. Len(t) : t[k] = p
      OBVIOUS
    <3>1. CASE p = m + 1
      BY <1>1, <2>3, <3>1
    <3>2. CASE p \in 1 .. m
      BY <1>1, <1>b, <2>3, <3>2
    <3>3. QED BY <3>1, <3>2
  <2>7. Len(t) = Cardinality(C(m + 1))
    BY <1>b, <2>2, <2>3
  <2>8. FamilyList(t, f, m + 1, fam)
    BY <2>3, <2>4, <2>5, <2>6, <2>7 DEF FamilyList, C
  <2>9. QED BY <1>3, <2>8 DEF t
<1>4. CASE fam[m + 1] # f
  <2>1. C(m + 1) = C(m)
    BY <1>4 DEF C
  <2>2. \A p \in 1 .. m + 1 : fam[p] = f => p \in 1 .. m
    BY <1>4
  <2>3. FamilyList(s, f, m + 1, fam)
    BY <1>a, <1>b, <2>1, <2>2 DEF FamilyList, C
  <2>4. QED BY <1>4, <2>3
<1>5. QED BY <1>3, <1>4

(* What the first loop computes. *)
LEMMA ByFamilySorts ==
  ASSUME NEW N \in Nat, NEW fam \in [1 .. N -> {4, 6}]
  PROVE  byFamily(Places(N), fam) \in Families(N, fam)
<1> DEFINE A == Places(N)
           s0 == [v4 |-> <<>>, v6 |-> <<>>]
           I == [n \in 0 .. N |-> Families(n, fam)]
           step == [n \in 1 .. N |-> [x \in Families(n - 1, fam) |-> AddToFamily(x, n, fam)]]
           Def(f) == [n \in 0 .. Len(A) |-> IF n = 0 THEN s0 ELSE AddToFamily(f[n - 1], A[n], fam)]
           loop == CHOOSE f : f = Def(f)
<1>1. Len(A) = N /\ \A n \in 1 .. N : A[n] = n
  BY DEF Places
<1>2. s0 \in I[0]
  <2>1. \A f : {p \in 1 .. 0 : fam[p] = f} = {}
    OBVIOUS
  <2>2. Cardinality({}) = 0
    BY FS_EmptySet
  <2>3. \A f : FamilyList(<<>>, f, 0, fam)
    BY <2>1, <2>2 DEF FamilyList
  <2>4. QED BY <2>3 DEF Families
<1>3. ASSUME NEW n \in 1 .. N, NEW x \in Families(n - 1, fam)
      PROVE  AddToFamily(x, n, fam) \in Families(n, fam)
  <2>1. /\ x.v4 \in Seq(Nat) /\ x.v6 \in Seq(Nat) /\ n \in Nat /\ n - 1 \in Nat /\ (n - 1) + 1 = n
        /\ FamilyList(x.v4, 4, n - 1, fam) /\ FamilyList(x.v6, 6, n - 1, fam)
    BY DEF Families
  <2>a. Len(x.v4) + Len(x.v6) = n - 1 /\ Len(x.v4) \in Nat /\ Len(x.v6) \in Nat
    BY <2>1 DEF Families
  <2>2. CASE fam[n] = 4
    <3>1. AddToFamily(x, n, fam) = [v4 |-> Append(x.v4, n), v6 |-> x.v6]
      BY <2>2 DEF AddToFamily
    <3>2. FamilyList(Append(x.v4, n), 4, n, fam)
      BY <2>1, <2>2, ListGrows
    <3>3. FamilyList(x.v6, 6, n, fam)
      <4>1. fam[(n - 1) + 1] # 6
        BY <2>1, <2>2
      <4>2. QED BY <2>1, <4>1, ListGrows
    <3>4. /\ Append(x.v4, n) \in Seq(Nat) /\ Len(Append(x.v4, n)) = Len(x.v4) + 1
      BY <2>1
    <3>5. Len(Append(x.v4, n)) + Len(x.v6) = n
      <4> DEFINE a == Len(x.v4)  b == Len(x.v6)  c == Len(Append(x.v4, n))
      <4>1. a \in Nat /\ b \in Nat /\ c = a + 1 /\ a + b = n - 1 /\ n \in Nat
        BY <2>1, <2>a, <3>4
      <4> HIDE DEF a, b, c
      <4>2. c + b = n
        BY <4>1
      <4>3. QED BY <4>2 DEF b, c
    <3> HIDE DEF FamilyList
    <3>6. [v4 |-> Append(x.v4, n), v6 |-> x.v6] \in Families(n, fam)
      BY <2>1, <3>2, <3>3, <3>4, <3>5 DEF Families
    <3>7. QED BY <3>1, <3>6
  <2>3. CASE fam[n] = 6
    <3>1. AddToFamily(x, n, fam) = [v4 |-> x.v4, v6 |-> Append(x.v6, n)]
      BY <2>3 DEF AddToFamily
    <3>2. FamilyList(Append(x.v6, n), 6, n, fam)
      BY <2>1, <2>3, ListGrows
    <3>3. FamilyList(x.v4, 4, n, fam)
      <4>1. fam[(n - 1) + 1] # 4
        BY <2>1, <2>3
      <4>2. QED BY <2>1, <4>1, ListGrows
    <3>4. /\ Append(x.v6, n) \in Seq(Nat) /\ Len(Append(x.v6, n)) = Len(x.v6) + 1
      BY <2>1
    <3>5. Len(x.v4) + Len(Append(x.v6, n)) = n
      <4> DEFINE a == Len(x.v4)  b == Len(x.v6)  c == Len(Append(x.v6, n))
      <4>1. a \in Nat /\ b \in Nat /\ c = b + 1 /\ a + b = n - 1 /\ n \in Nat
        BY <2>1, <2>a, <3>4
      <4> HIDE DEF a, b, c
      <4>2. a + c = n
        BY <4>1
      <4>3. QED BY <4>2 DEF a, c
    <3> HIDE DEF FamilyList
    <3>6. [v4 |-> x.v4, v6 |-> Append(x.v6, n)] \in Families(n, fam)
      BY <2>1, <3>2, <3>3, <3>4, <3>5 DEF Families
    <3>7. QED BY <3>1, <3>6
  <2>4. QED BY <2>2, <2>3
<1>4. \E f : f = Def(f)
  <2>1. \A n \in 1 .. N : \A x \in I[n - 1] : step[n][x] \in I[n]
    BY <1>3
  <2>a. \A n \in 1 .. N : \A x \in I[n - 1] : step[n][x] = AddToFamily(x, n, fam)
    OBVIOUS
  <2>2. PICK f : IsLoop(f, N, s0, step) /\ \A n \in 0 .. N : f[n] \in I[n]
    <3> HIDE DEF I, step, s0
    <3>1. QED BY <1>2, <2>1, LoopExists
  <2>3. f = Def(f)
    <3>1. \A n \in 1 .. N : step[n][f[n - 1]] = AddToFamily(f[n - 1], A[n], fam)
      <4>1. ASSUME NEW n \in 1 .. N PROVE n - 1 \in 0 .. N
        OBVIOUS
      <4> HIDE DEF step, I, A
      <4>2. QED BY <1>1, <2>a, <2>2, <4>1
    <3> HIDE DEF step, A, s0
    <3>2. QED BY <1>1, <2>2, <3>1 DEF IsLoop
  <2>4. QED BY <2>3
<1>5. loop = Def(loop)
  BY <1>4
<1>6. loop[0] = s0 /\ \A n \in 1 .. N : loop[n] = AddToFamily(loop[n - 1], n, fam)
  <2> HIDE DEF loop, A, s0
  <2>1. QED BY <1>1, <1>5
<1>7. loop[N] \in I[N]
  <2>1. \A n \in 1 .. N : loop[n - 1] \in I[n - 1] => loop[n] \in I[n]
    <3> HIDE DEF loop
    <3>1. QED BY <1>3, <1>6
  <2> HIDE DEF loop, I, s0
  <2>2. QED BY <1>2, <1>6, <2>1, LoopStays
<1>8. byFamily(A, fam) = loop[N]
  BY <1>1 DEF byFamily
<1>9. QED BY <1>7, <1>8

Shorter(a, b) == IF a < b THEN a ELSE b

(* r holds the first i addresses of u and the first j of w, each family in *)
(* its order.                                                              *)
Merged(r, i, u, j, w, fam) ==
  /\ r \in Seq(Nat) /\ Len(r) = i + j
  /\ \A k \in 1 .. Len(r) : (\E q \in 1 .. i : r[k] = u[q]) \/ (\E q \in 1 .. j : r[k] = w[q])
  /\ \A q \in 1 .. i : \E k \in 1 .. Len(r) : r[k] = u[q]
  /\ \A q \in 1 .. j : \E k \in 1 .. Len(r) : r[k] = w[q]
  /\ \A k, m \in 1 .. Len(r) : k < m /\ fam[r[k]] = fam[r[m]] => r[k] < r[m]

(* The first c pairs of r are an IPv6 and an IPv4 address each. *)
InTurn(r, c, fam) ==
  \A k \in 1 .. Len(r) : k <= 2 * c => fam[r[k]] = IF k % 2 = 1 THEN 6 ELSE 4

(* i of b IPv6 addresses and j of a IPv4 addresses have been taken. *)
IndexOK(i, j, n, preferV6, a, b) ==
  /\ i + j = n /\ i <= b /\ j <= a
  /\ preferV6 <=> n % 2 = 0
  /\ n <= 2 * Shorter(a, b) => i = IF preferV6 THEN j ELSE j + 1

Rounds(n, s, fam) ==
  {st \in [i : Nat, j : Nat, preferV6 : BOOLEAN, result : Seq(Nat)] :
     /\ IndexOK(st.i, st.j, n, st.preferV6, Len(s.v4), Len(s.v6))
     /\ Merged(st.result, st.i, s.v6, st.j, s.v4, fam)
     /\ InTurn(st.result, Shorter(Len(s.v4), Len(s.v6)), fam)}

(* The indices after a round. *)
LEMMA IndexStep ==
  ASSUME NEW a \in Nat, NEW b \in Nat, NEW n \in 0 .. a + b - 1, NEW i \in Nat, NEW j \in Nat,
         NEW preferV6 \in BOOLEAN, IndexOK(i, j, n, preferV6, a, b)
  PROVE  /\ (preferV6 /\ i < b) \/ j >= a =>
              /\ i + 1 \in 1 .. b /\ IndexOK(i + 1, j, n + 1, ~preferV6, a, b)
              /\ n + 1 <= 2 * Shorter(a, b) => (n + 1) % 2 = 1
         /\ ~((preferV6 /\ i < b) \/ j >= a) =>
              /\ j + 1 \in 1 .. a /\ IndexOK(i, j + 1, n + 1, ~preferV6, a, b)
              /\ n + 1 <= 2 * Shorter(a, b) => (n + 1) % 2 # 1
<1> DEFINE c == Shorter(a, b)
<1>1. c \in Nat /\ c <= a /\ c <= b
  BY DEF Shorter
<1>2. /\ i + j = n /\ i <= b /\ j <= a /\ (preferV6 <=> n % 2 = 0)
      /\ n <= 2 * c => i = IF preferV6 THEN j ELSE j + 1
  BY DEF IndexOK
<1>3. n \in Nat /\ n < a + b /\ (n % 2 = 0 <=> (n + 1) % 2 = 1) /\ (n % 2 = 0 <=> (n + 1) % 2 # 0)
  OBVIOUS
<1> HIDE DEF c
<1>4. CASE (preferV6 /\ i < b) \/ j >= a
  <2>1. i + 1 \in 1 .. b
    BY <1>1, <1>2, <1>3, <1>4
  <2>2. n + 1 <= 2 * c => preferV6
    BY <1>1, <1>2, <1>3, <1>4
  <2>3. IndexOK(i + 1, j, n + 1, ~preferV6, a, b)
    BY <1>1, <1>2, <1>3, <2>1, <2>2 DEF IndexOK, c
  <2>4. QED BY <1>3, <1>2, <1>4, <2>1, <2>2, <2>3 DEF c
<1>5. CASE ~((preferV6 /\ i < b) \/ j >= a)
  <2>1. j + 1 \in 1 .. a
    BY <1>1, <1>2, <1>3, <1>5
  <2>2. n + 1 <= 2 * c => ~preferV6
    BY <1>1, <1>2, <1>3, <1>5
  <2>3. IndexOK(i, j + 1, n + 1, ~preferV6, a, b)
    BY <1>1, <1>2, <1>3, <2>1, <2>2 DEF IndexOK, c
  <2>4. QED BY <1>3, <1>2, <1>5, <2>1, <2>2, <2>3 DEF c
<1>6. QED BY <1>4, <1>5

(* A round that takes the next address of a family. *)
LEMMA MergedGrows ==
  ASSUME NEW N \in Nat, NEW fam, NEW f, NEW g, f # g, NEW u, NEW w,
         FamilyList(u, f, N, fam), FamilyList(w, g, N, fam),
         NEW i \in Nat, NEW j \in Nat, j <= Len(w), i + 1 \in 1 .. Len(u),
         NEW r, Merged(r, i, u, j, w, fam)
  PROVE  Merged(Append(r, u[i + 1]), i + 1, u, j, w, fam)
<1> DEFINE x == u[i + 1]  t == Append(r, x)  n == i + j
<1>1. u \in Seq(1 .. N) /\ w \in Seq(1 .. N)
  BY DEF FamilyList
<1>a. Len(u) \in Nat /\ Len(w) \in Nat
  BY <1>1
<1>2. /\ Len(u) \in Nat /\ Len(w) \in Nat
      /\ \A k \in 1 .. Len(u) : fam[u[k]] = f
      /\ \A k \in 1 .. Len(w) : fam[w[k]] = g
      /\ \A k, l \in 1 .. Len(u) : k < l => u[k] < u[l]
  BY <1>a DEF FamilyList
<1>3. /\ r \in Seq(Nat) /\ Len(r) = n /\ n \in Nat
      /\ \A k \in 1 .. n : (\E q \in 1 .. i : r[k] = u[q]) \/ (\E q \in 1 .. j : r[k] = w[q])
      /\ \A q \in 1 .. i : \E k \in 1 .. n : r[k] = u[q]
      /\ \A q \in 1 .. j : \E k \in 1 .. n : r[k] = w[q]
      /\ \A k, m \in 1 .. n : k < m /\ fam[r[k]] = fam[r[m]] => r[k] < r[m]
  BY DEF Merged
<1>4. x \in Nat /\ fam[x] = f
  BY <1>1, <1>2
<1>5. /\ t \in Seq(Nat) /\ Len(t) = n + 1 /\ t[n + 1] = x
      /\ \A k \in 1 .. n : t[k] = r[k]
  BY <1>3, <1>4
<1> HIDE DEF t, n
<1>6. ASSUME NEW k \in 1 .. n + 1
      PROVE  (\E q \in 1 .. i + 1 : t[k] = u[q]) \/ (\E q \in 1 .. j : t[k] = w[q])
  <2>1. CASE k = n + 1
    BY <1>5, <2>1
  <2>2. CASE k \in 1 .. n
    <3>1. CASE \E q \in 1 .. i : r[k] = u[q]
      BY <1>5, <2>2, <3>1
    <3>2. CASE \E q \in 1 .. j : r[k] = w[q]
      BY <1>5, <2>2, <3>2
    <3>3. QED BY <1>3, <2>2, <3>1, <3>2
  <2>3. QED BY <1>3, <2>1, <2>2
<1>7. ASSUME NEW q \in 1 .. i + 1 PROVE \E k \in 1 .. n + 1 : t[k] = u[q]
  <2>1. CASE q = i + 1
    BY <1>3, <1>5, <2>1
  <2>2. CASE q \in 1 .. i
    BY <1>3, <1>5, <2>2
  <2>3. QED BY <2>1, <2>2
<1>8. ASSUME NEW q \in 1 .. j PROVE \E k \in 1 .. n + 1 : t[k] = w[q]
  <2>1. PICK k \in 1 .. n : r[k] = w[q]
    BY <1>3
  <2>2. QED BY <1>3, <1>5, <2>1
<1>9. ASSUME NEW k \in 1 .. n + 1, NEW m \in 1 .. n + 1, k < m, fam[t[k]] = fam[t[m]]
      PROVE  t[k] < t[m]
  <2>1. k \in 1 .. n /\ t[k] = r[k]
    BY <1>3, <1>5, <1>9
  <2>2. CASE m = n + 1
    <3>1. fam[r[k]] = f
      BY <1>4, <1>5, <1>9, <2>1, <2>2
    <3>2. PICK q \in 1 .. i : r[k] = u[q]
      <4>1. ASSUME NEW q \in 1 .. j PROVE r[k] # w[q]
        <5>1. q \in 1 .. Len(w)
          BY <1>2
        <5>2. fam[w[q]] = g
          BY <1>2, <5>1
        <5>3. QED BY <3>1, <5>2
      <4>2. QED BY <1>3, <2>1, <4>1
    <3>3. q \in 1 .. Len(u) /\ q < i + 1
      BY <1>2
    <3>4. QED BY <1>2, <1>5, <2>1, <2>2, <3>2, <3>3
  <2>3. CASE m \in 1 .. n
    BY <1>3, <1>5, <1>9, <2>1, <2>3
  <2>4. QED BY <1>3, <2>2, <2>3
<1>10. Len(t) = (i + 1) + j
  BY <1>3, <1>5 DEF n
<1>11. QED BY <1>5, <1>6, <1>7, <1>8, <1>9, <1>10 DEF Merged, t

LEMMA MergedSwap ==
  ASSUME NEW r, NEW i \in Nat, NEW u, NEW j \in Nat, NEW w, NEW fam, Merged(r, i, u, j, w, fam)
  PROVE  Merged(r, j, w, i, u, fam)
<1>1. i + j = j + i
  OBVIOUS
<1>2. QED BY <1>1 DEF Merged

LEMMA InTurnGrows ==
  ASSUME NEW r \in Seq(Nat), NEW x \in Nat, NEW c, NEW fam, InTurn(r, c, fam),
         Len(r) + 1 <= 2 * c => fam[x] = IF (Len(r) + 1) % 2 = 1 THEN 6 ELSE 4
  PROVE  InTurn(Append(r, x), c, fam)
<1> DEFINE t == Append(r, x)  n == Len(r)
<1>1. Len(t) = n + 1 /\ n \in Nat /\ t[n + 1] = x /\ \A k \in 1 .. n : t[k] = r[k]
  OBVIOUS
<1> HIDE DEF t
<1>2. ASSUME NEW k \in 1 .. n + 1, k <= 2 * c
      PROVE  fam[t[k]] = IF k % 2 = 1 THEN 6 ELSE 4
  <2>1. CASE k = n + 1
    BY <1>1, <1>2, <2>1
  <2>2. CASE k \in 1 .. n
    BY <1>1, <1>2, <2>2 DEF InTurn
  <2>3. QED BY <1>1, <2>1, <2>2
<1>3. QED BY <1>1, <1>2 DEF InTurn, t

(* A round of the second loop. *)
LEMMA TakeRound ==
  ASSUME NEW N \in Nat, NEW n \in 0 .. N - 1, NEW fam, NEW s \in Families(N, fam),
         NEW st \in Rounds(n, s, fam)
  PROVE  Take(s, st) \in Rounds(n + 1, s, fam)
<1> DEFINE i == st.i  j == st.j  p == st.preferV6  r == st.result  u == s.v6  w == s.v4
           c == Shorter(Len(w), Len(u))
<1>1. /\ u \in Seq(Nat) /\ w \in Seq(Nat) /\ FamilyList(u, 6, N, fam) /\ FamilyList(w, 4, N, fam)
      /\ Len(w) + Len(u) = N
  BY DEF Families
<1>2. /\ i \in Nat /\ j \in Nat /\ p \in BOOLEAN /\ r \in Seq(Nat)
      /\ IndexOK(i, j, n, p, Len(w), Len(u)) /\ Merged(r, i, u, j, w, fam) /\ InTurn(r, c, fam)
  BY DEF Rounds
<1>3. Len(u) \in Nat /\ Len(w) \in Nat
  BY <1>1
<1>4. i + j = n /\ i <= Len(u) /\ j <= Len(w) /\ Len(r) = n
  BY <1>2 DEF IndexOK, Merged
<1>b. /\ (p /\ i < Len(u)) \/ j >= Len(w)
         => Take(s, st) = [i |-> i + 1, j |-> j, preferV6 |-> ~p, result |-> Append(r, u[i + 1])]
      /\ ~((p /\ i < Len(u)) \/ j >= Len(w))
         => Take(s, st) = [i |-> i, j |-> j + 1, preferV6 |-> ~p, result |-> Append(r, w[j + 1])]
  BY DEF Take, Pick
<1>c. ASSUME NEW i1 \in Nat, NEW j1 \in Nat, NEW p1 \in BOOLEAN, NEW r1 \in Seq(Nat),
             IndexOK(i1, j1, n + 1, p1, Len(w), Len(u)), Merged(r1, i1, u, j1, w, fam),
             InTurn(r1, c, fam)
      PROVE  [i |-> i1, j |-> j1, preferV6 |-> p1, result |-> r1] \in Rounds(n + 1, s, fam)
  BY <1>c DEF Rounds
<1> HIDE DEF i, j, p, r, u, w, c
<1>5. /\ \A k \in 1 .. Len(u) : u[k] \in Nat /\ fam[u[k]] = 6
      /\ \A k \in 1 .. Len(w) : w[k] \in Nat /\ fam[w[k]] = 4
  <2>1. \A k \in 1 .. Len(u) : u[k] \in Nat
    BY <1>1
  <2>2. \A k \in 1 .. Len(w) : w[k] \in Nat
    BY <1>1
  <2>3. QED BY <1>1, <2>1, <2>2 DEF FamilyList
<1>a. n \in 0 .. Len(w) + Len(u) - 1 /\ n \in Nat
  BY <1>1, <1>3
<1>d. /\ (p /\ i < Len(u)) \/ j >= Len(w) =>
           /\ i + 1 \in 1 .. Len(u) /\ IndexOK(i + 1, j, n + 1, ~p, Len(w), Len(u))
           /\ n + 1 <= 2 * c => (n + 1) % 2 = 1
      /\ ~((p /\ i < Len(u)) \/ j >= Len(w)) =>
           /\ j + 1 \in 1 .. Len(w) /\ IndexOK(i, j + 1, n + 1, ~p, Len(w), Len(u))
           /\ n + 1 <= 2 * c => (n + 1) % 2 # 1
  BY <1>a, <1>2, <1>3, IndexStep, Zenon DEF c
<1>6. CASE (p /\ i < Len(u)) \/ j >= Len(w)
  <2> DEFINE x == u[i + 1]
  <2>1. Take(s, st) = [i |-> i + 1, j |-> j, preferV6 |-> ~p, result |-> Append(r, x)]
    BY <1>6, <1>b
  <2>2. /\ i + 1 \in 1 .. Len(u) /\ IndexOK(i + 1, j, n + 1, ~p, Len(w), Len(u))
        /\ n + 1 <= 2 * c => (n + 1) % 2 = 1
    BY <1>d, <1>6
  <2>3. Merged(Append(r, x), i + 1, u, j, w, fam)
    BY <1>1, <1>2, <1>4, <2>2, 6 # 4, MergedGrows
  <2>4. InTurn(Append(r, x), c, fam)
    BY <1>2, <1>4, <1>5, <2>2, InTurnGrows
  <2>5. x \in Nat /\ Append(r, x) \in Seq(Nat) /\ i + 1 \in Nat /\ (~p) \in BOOLEAN
    BY <1>2, <1>5, <2>2
  <2>6. QED BY <1>2, <1>c, <2>1, <2>2, <2>3, <2>4, <2>5
<1>7. CASE ~((p /\ i < Len(u)) \/ j >= Len(w))
  <2> DEFINE x == w[j + 1]
  <2>1. Take(s, st) = [i |-> i, j |-> j + 1, preferV6 |-> ~p, result |-> Append(r, x)]
    BY <1>7, <1>b
  <2>2. /\ j + 1 \in 1 .. Len(w) /\ IndexOK(i, j + 1, n + 1, ~p, Len(w), Len(u))
        /\ n + 1 <= 2 * c => (n + 1) % 2 # 1
    BY <1>d, <1>7
  <2>3. Merged(Append(r, x), i, u, j + 1, w, fam)
    <3>1. Merged(r, j, w, i, u, fam)
      BY <1>2, MergedSwap
    <3>2. Merged(Append(r, x), j + 1, w, i, u, fam)
      BY <1>1, <1>2, <1>4, <2>2, <3>1, 6 # 4, MergedGrows
    <3>3. QED BY <1>2, <3>2, MergedSwap
  <2>4. InTurn(Append(r, x), c, fam)
    BY <1>2, <1>4, <1>5, <2>2, InTurnGrows
  <2>5. x \in Nat /\ Append(r, x) \in Seq(Nat) /\ j + 1 \in Nat /\ (~p) \in BOOLEAN
    BY <1>2, <1>5, <2>2
  <2>6. QED BY <1>2, <1>c, <2>1, <2>2, <2>3, <2>4, <2>5
<1>8. QED BY <1>6, <1>7

(* What the second loop computes. *)
LEMMA InterleaveMerges ==
  ASSUME NEW N \in Nat, NEW fam \in [1 .. N -> {4, 6}]
  PROVE  \E s \in Families(N, fam) : \E st \in Rounds(N, s, fam) :
           interleaveAddrs(Places(N), fam) = st.result
<1> DEFINE A == Places(N)
           s == byFamily(A, fam)
           s0 == [i |-> 0, j |-> 0, preferV6 |-> TRUE, result |-> <<>>]
           I == [n \in 0 .. N |-> Rounds(n, s, fam)]
           step == [n \in 1 .. N |-> [x \in Rounds(n - 1, s, fam) |-> Take(s, x)]]
           Def(f) == [n \in 0 .. Len(A) |-> IF n = 0 THEN s0 ELSE Take(s, f[n - 1])]
           loop == CHOOSE f : f = Def(f)
<1>1. Len(A) = N
  BY DEF Places
<1>s. s \in Families(N, fam)
  BY ByFamilySorts
<1>2. s0 \in I[0]
  <2>1. Len(s.v4) \in Nat /\ Len(s.v6) \in Nat
    BY <1>s DEF Families
  <2> HIDE DEF s
  <2>2. IndexOK(0, 0, 0, TRUE, Len(s.v4), Len(s.v6))
    BY <2>1 DEF IndexOK
  <2>3. Merged(<<>>, 0, s.v6, 0, s.v4, fam)
    BY DEF Merged
  <2>4. InTurn(<<>>, Shorter(Len(s.v4), Len(s.v6)), fam)
    BY DEF InTurn
  <2>5. s0 \in [i : Nat, j : Nat, preferV6 : BOOLEAN, result : Seq(Nat)]
    OBVIOUS
  <2>6. s0 \in Rounds(0, s, fam)
    BY <2>2, <2>3, <2>4, <2>5 DEF Rounds
  <2>7. QED BY <2>6
<1>3. ASSUME NEW n \in 1 .. N, NEW x \in Rounds(n - 1, s, fam)
      PROVE  Take(s, x) \in Rounds(n, s, fam)
  <2>1. n - 1 \in 0 .. N - 1 /\ (n - 1) + 1 = n
    OBVIOUS
  <2> HIDE DEF s
  <2>2. QED BY <1>s, <2>1, TakeRound
<1>4. \E f : f = Def(f)
  <2> HIDE DEF s
  <2>1. \A n \in 1 .. N : \A x \in I[n - 1] : step[n][x] \in I[n]
    BY <1>3
  <2>2. \A n \in 1 .. N : \A x \in I[n - 1] : step[n][x] = Take(s, x)
    OBVIOUS
  <2>3. PICK f : IsLoop(f, N, s0, step) /\ \A n \in 0 .. N : f[n] \in I[n]
    <3> HIDE DEF I, step, s0
    <3>1. QED BY <1>2, <2>1, LoopExists
  <2>4. f = Def(f)
    <3>1. \A n \in 1 .. N : step[n][f[n - 1]] = Take(s, f[n - 1])
      <4>1. ASSUME NEW n \in 1 .. N PROVE n - 1 \in 0 .. N
        OBVIOUS
      <4> HIDE DEF step, I
      <4>2. QED BY <2>2, <2>3, <4>1
    <3> HIDE DEF step, A, s0
    <3>2. QED BY <1>1, <2>3, <3>1 DEF IsLoop
  <2>5. QED BY <2>4
<1>5. loop = Def(loop)
  BY <1>4
<1>6. loop[0] = s0 /\ \A n \in 1 .. N : loop[n] = Take(s, loop[n - 1])
  <2> HIDE DEF loop, A, s0, s
  <2>1. QED BY <1>1, <1>5
<1>7. loop[N] \in I[N]
  <2>1. \A n \in 1 .. N : loop[n - 1] \in I[n - 1] => loop[n] \in I[n]
    <3> HIDE DEF loop, s
    <3>1. QED BY <1>3, <1>6
  <2> HIDE DEF loop, I, s0
  <2>2. QED BY <1>2, <1>6, <2>1, LoopStays
<1>8. interleaveAddrs(A, fam) = loop[N].result
  BY <1>1 DEF interleaveAddrs
<1>9. loop[N] \in Rounds(N, s, fam)
  BY <1>7
<1>10. QED BY <1>s, <1>8, <1>9

(* interleaveAddrs is fair for a list of any length: a permutation of the  *)
(* addresses that keeps the order within a family, starts with IPv6 and    *)
(* alternates for as long as both families last.                           *)
THEOREM InterleavingIsFair ==
  \A n \in Nat : \A fam \in [1 .. n -> {4, 6}] : FairOrder(n, fam)
<1> SUFFICES ASSUME NEW n \in Nat, NEW fam \in [1 .. n -> {4, 6}] PROVE FairOrder(n, fam)
  OBVIOUS
<1> DEFINE r == interleaveAddrs([k \in 1 .. n |-> k], fam)
           C(f) == Cardinality({k \in 1 .. n : fam[k] = f})
           both == IF C(4) < C(6) THEN C(4) ELSE C(6)
<1>1. PICK s \in Families(n, fam) : \E st \in Rounds(n, s, fam) : r = st.result
  BY InterleaveMerges DEF Places
<1>2. PICK st \in Rounds(n, s, fam) : r = st.result
  BY <1>1
<1> DEFINE u == s.v6  w == s.v4  i == st.i  j == st.j
<1> HIDE DEF r, C
<1>3. /\ FamilyList(u, 6, n, fam) /\ FamilyList(w, 4, n, fam) /\ Len(w) + Len(u) = n
      /\ Len(u) \in Nat /\ Len(w) \in Nat
  BY DEF Families
<1>4. /\ i \in Nat /\ j \in Nat /\ IndexOK(i, j, n, st.preferV6, Len(w), Len(u))
      /\ Merged(r, i, u, j, w, fam) /\ InTurn(r, Shorter(Len(w), Len(u)), fam)
  BY <1>2 DEF Rounds
<1> HIDE DEF u, w, i, j
<1>5. i = Len(u) /\ j = Len(w)
  BY <1>3, <1>4 DEF IndexOK
<1>6. Shorter(Len(w), Len(u)) = both /\ both \in Nat /\ 2 * both <= n
  BY <1>3 DEF Shorter, FamilyList, C
<1>7. Len(r) = n
  BY <1>4, <1>5, <1>3 DEF Merged
<1>8. {r[k] : k \in 1 .. n} = 1 .. n
  <2>1. ASSUME NEW k \in 1 .. n PROVE r[k] \in 1 .. n
    <3>1. (\E q \in 1 .. i : r[k] = u[q]) \/ (\E q \in 1 .. j : r[k] = w[q])
      BY <1>4, <1>7 DEF Merged
    <3>2. u \in Seq(1 .. n) /\ w \in Seq(1 .. n)
      BY <1>3 DEF FamilyList
    <3>3. CASE \E q \in 1 .. i : r[k] = u[q]
      BY <1>5, <3>2, <3>3
    <3>4. CASE \E q \in 1 .. j : r[k] = w[q]
      BY <1>5, <3>2, <3>4
    <3>5. QED BY <3>1, <3>3, <3>4
  <2>2. ASSUME NEW p \in 1 .. n PROVE \E k \in 1 .. n : r[k] = p
    <3>1. CASE fam[p] = 6
      <4>1. PICK q \in 1 .. Len(u) : u[q] = p
        BY <1>3, <3>1 DEF FamilyList
      <4>2. QED BY <1>4, <1>5, <1>7, <4>1 DEF Merged
    <3>2. CASE fam[p] = 4
      <4>1. PICK q \in 1 .. Len(w) : w[q] = p
        BY <1>3, <3>2 DEF FamilyList
      <4>2. QED BY <1>4, <1>5, <1>7, <4>1 DEF Merged
    <3>3. QED BY <3>1, <3>2
  <2>3. QED BY <2>1, <2>2
<1>9. \A k, m \in 1 .. n : k < m /\ fam[r[k]] = fam[r[m]] => r[k] < r[m]
  BY <1>4, <1>7 DEF Merged
<1>10. \A k \in 1 .. 2 * both : fam[r[k]] = IF k % 2 = 1 THEN 6 ELSE 4
  BY <1>4, <1>6, <1>7 DEF InTurn
<1>11. QED BY <1>7, <1>8, <1>9, <1>10 DEF FairOrder, r, C

(* In particular for the lists of up to four addresses that TLC looks at. *)
THEOREM InterleaveFairHolds == Spec => []InterleaveFair
<1>1. InterleaveFair
  BY InterleavingIsFair DEF InterleaveFair
<1>2. QED BY <1>1, PTL
=============================================================================
