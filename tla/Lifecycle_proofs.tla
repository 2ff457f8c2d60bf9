-------------------------- MODULE Lifecycle_proofs --------------------------
(***************************************************************************)
(* Proofs about the registry and Shutdown, for any listeners, dials and    *)
(* accepts, in both modes and for every drain timeout.                     *)
(***************************************************************************)
EXTENDS Lifecycle, FiniteSetTheorems, TLAPS

(* The dials between beginDial and endDial are the ones that are counted. *)
Dialling == {o \in Dials : pc[o] \in {"vls", "wait", "finish", "abort", "add", "track", "end"}}

CountOK == pendingDials = Cardinality(Dialling)

(* The phases of Shutdown. *)
PhaseOK ==
  /\ shutdownStarted <=> spc # "idle"
  /\ todo # {} => spc \in {"closelisteners", "closeconns"}
  /\ appLive <=> spc \notin {"stop", "destroy", "done"}
  /\ destroyed <=> spc = "done"

(* Shutdown has o still to come, or in the list it is working through. *)
Ahead(o) ==
  \/ spc \in {"idle", "listeners"}
  \/ o \in Conns /\ spc \in {"closelisteners", "drain", "draining", "conns"}
  \/ o \in todo

(* One object: where its constructor and its Close are says whether it is  *)
(* in the registry.                                                        *)
ObjectOK(o) ==
  /\ pc[o] = "track" => o \in registry /\ ~tracked[o]
  /\ tracked[o] => pc[o] \in {"end", "notify", "returned"}
  /\ pc[o] = "returned" => tracked[o]
  /\ tracked[o] /\ kpc[o] \in {"open", "flag", "vls", "untrack"} => o \in registry
  /\ kpc[o] # "open" /\ ~shutdownStarted => pc[o] = "returned"
  /\ kpc[o] \in {"notify", "done"} /\ ~shutdownStarted => o \notin registry
  /\ pc[o] \in {"idle", "begin", "vls"} => session[o] = "none"
  /\ o \in Dials /\ pc[o] \in {"end", "notify", "returned", "failed"} /\ appLive
       /\ session[o] = "open" /\ kpc[o] = "open" => o \in registry
  /\ kpc[o] = "vls" => pc[o] = "returned" /\ Ahead(o)
  /\ pc[o] \in {"begin", "wait", "finish", "abort", "end", "notify"} => o \in Dials

LateOK == "Close" \notin late /\ (mode2 => late = {})

Inv == TypeOK /\ CountOK /\ PhaseOK /\ (\A o \in Objects : ObjectOK(o)) /\ LateOK
-----------------------------------------------------------------------------
(* The steps, by what they are about: one object, or the whole process. *)
ObjectStep(o) ==
  \/ Call(o) \/ Accept(o) \/ AcceptError(o) \/ connectWait(o) \/ MakeStep(o)
  \/ Close(o) \/ CloseStep(o)

LEMMA BoolExcept ==
  ASSUME NEW S, NEW f \in [S -> BOOLEAN], NEW x, NEW b \in BOOLEAN
  PROVE  [f EXCEPT ![x] = b] \in [S -> BOOLEAN]
BY Zenon

(* What a step about one object leaves alone. *)
LEMMA ObjectFrame ==
  ASSUME TypeOK, NEW o \in Objects, ObjectStep(o)
  PROVE  /\ UNCHANGED <<shutdownStarted, spc, todo, timeout, mode2, appLive, destroyed, from>>
         /\ \A u \in Objects : u # o =>
              /\ UNCHANGED <<pc[u], kpc[u], session[u], tracked[u]>>
              /\ u \in registry' <=> u \in registry
<1>0. /\ pc = [u \in Objects |-> pc[u]] /\ kpc = [u \in Objects |-> kpc[u]]
      /\ session = [u \in Objects |-> session[u]] /\ tracked = [u \in Objects |-> tracked[u]]
  BY DEF TypeOK
<1> USE <1>0 DEF downVars, appVars, regVars, Goto, KGoto
<1>1. CASE Call(o)
  BY <1>1 DEF Call, makeRest
<1>2. CASE Accept(o) \/ AcceptError(o) \/ AcceptFailed(o)
  BY <1>2 DEF Accept, AcceptError, AcceptFailed, makeRest
<1>3. CASE connectWait(o) \/ finishConnect(o)
  BY <1>3 DEF connectWait, finishConnect, makeRest
<1>4. CASE beginDial(o) \/ endDial(o) \/ EndNotify(o)
  BY <1>4 DEF beginDial, endDial, EndNotify, makeRest
<1>5. CASE VlsCreate(o) \/ Abort(o)
  BY <1>5 DEF VlsCreate, Abort, makeRest
<1>6. CASE Add(o) \/ Track(o)
  BY <1>6 DEF Add, Track, makeRest
<1>7. CASE Close(o) \/ CloseCheck(o) \/ CloseVls(o)
  BY <1>7 DEF Close, CloseCheck, CloseVls, closeRest
<1>8. CASE CloseUntrack(o) \/ CloseNotify(o)
  BY <1>8 DEF CloseUntrack, CloseNotify, closeRest
<1>9. QED
  BY <1>1, <1>2, <1>3, <1>4, <1>5, <1>6, <1>7, <1>8, Zenon DEF ObjectStep, MakeStep, CloseStep

LEMMA StepCases ==
  ASSUME [Next]_vars
  PROVE  (\E o \in Objects : ObjectStep(o)) \/ Shutdown \/ ShutdownStep \/ UNCHANGED vars
BY Zenon DEF Next, ObjectStep

(* What Shutdown's steps leave alone. *)
LEMMA ShutdownFrame ==
  ASSUME Shutdown \/ ShutdownStep \/ UNCHANGED vars
  PROVE  UNCHANGED <<pc, from, tracked, kpc, late, timeout, registry, pendingDials, mode2>>
BY DEF Shutdown, ShutdownStep, Snapshot, CloseNext, waitDrain, Drained, BeginShutdown, StopPoller,
       AppDestroy, shutRest, regVars, objVars, appVars, downVars, vars
-----------------------------------------------------------------------------
(* The phases. *)
LEMMA PhaseStep == TypeOK /\ PhaseOK /\ [Next]_vars => PhaseOK'
<1> SUFFICES ASSUME TypeOK, PhaseOK, [Next]_vars PROVE PhaseOK'
  OBVIOUS
<1>1. ASSUME NEW o \in Objects, ObjectStep(o) PROVE PhaseOK'
  BY <1>1, ObjectFrame DEF PhaseOK
<1>2. CASE Shutdown
  BY <1>2 DEF Shutdown, appVars, PhaseOK
<1>3. CASE Snapshot \/ CloseNext
  BY <1>3 DEF Snapshot, CloseNext, appVars, PhaseOK
<1>4. CASE waitDrain \/ Drained
  BY <1>4 DEF waitDrain, Drained, appVars, PhaseOK
<1>5. CASE BeginShutdown
  BY <1>5 DEF BeginShutdown, PhaseOK
<1>6. CASE StopPoller \/ AppDestroy
  BY <1>6 DEF StopPoller, AppDestroy, appVars, PhaseOK
<1>7. CASE UNCHANGED vars
  BY <1>7 DEF vars, downVars, appVars, PhaseOK
<1>8. QED BY <1>1, <1>2, <1>3, <1>4, <1>5, <1>6, <1>7, StepCases DEF ShutdownStep
-----------------------------------------------------------------------------
(* One object. *)
LEMMA ObjectKept ==
  ASSUME TypeOK, PhaseOK, NEW o \in Objects, ObjectOK(o), ObjectStep(o)
  PROVE  ObjectOK(o)'
<1>0. /\ pc = [u \in Objects |-> pc[u]] /\ kpc = [u \in Objects |-> kpc[u]]
      /\ session = [u \in Objects |-> session[u]] /\ tracked \in [Objects -> BOOLEAN]
  BY DEF TypeOK
<1>f. UNCHANGED <<shutdownStarted, spc, todo, appLive, mode2>>
  BY ObjectFrame
<1>r. todo # {} => shutdownStarted
  BY DEF PhaseOK
<1> USE <1>0, <1>f DEF ObjectOK, Ahead, Goto, KGoto, regVars, downVars, appVars
<1>1. CASE Call(o)
  BY <1>1 DEF Call, makeRest
<1>2. CASE Accept(o) \/ AcceptError(o) \/ AcceptFailed(o)
  BY <1>2 DEF Accept, AcceptError, AcceptFailed, makeRest
<1>3. CASE connectWait(o) \/ finishConnect(o)
  BY <1>3 DEF connectWait, finishConnect, makeRest
<1>4. CASE beginDial(o)
  BY <1>4 DEF beginDial, makeRest
<1>5. CASE endDial(o) \/ EndNotify(o)
  BY <1>5 DEF endDial, EndNotify, makeRest
<1>6. CASE VlsCreate(o)
  BY <1>6 DEF VlsCreate, makeRest
<1>7. CASE Abort(o)
  BY <1>7 DEF Abort, Refused, makeRest
<1>8. CASE Add(o)
  BY <1>8 DEF Add, makeRest
<1>9. CASE Track(o)
  <2>1. tracked'[o]
    BY <1>9, Zenon DEF Track
  <2>2. UNCHANGED <<kpc, registry, session>> /\ pc[o] = "track" /\ pc'[o] \in {"end", "returned"}
        /\ (IF o \in Dials THEN pc'[o] = "end" ELSE pc'[o] = "returned")
    BY <1>9 DEF Track, makeRest
  <2>3. QED BY <2>1, <2>2
<1>10. CASE Close(o)
  BY <1>r, <1>10 DEF Close, closeRest
<1>11. CASE CloseCheck(o)
  BY <1>11 DEF CloseCheck, closeRest, PhaseOK
<1>12. CASE CloseVls(o)
  BY <1>12 DEF CloseVls, closeRest
<1>13. CASE CloseUntrack(o)
  BY <1>13 DEF CloseUntrack, closeRest
<1>14. CASE CloseNotify(o)
  BY <1>14 DEF CloseNotify, closeRest
<1>15. QED
  BY <1>1, <1>2, <1>3, <1>4, <1>5, <1>6, <1>7, <1>8, <1>9, <1>10, <1>11, <1>12, <1>13, <1>14, Zenon
     DEF ObjectStep, MakeStep, CloseStep

LEMMA ObjectsStep ==
  TypeOK /\ PhaseOK /\ (\A o \in Objects : ObjectOK(o)) /\ [Next]_vars => \A o \in Objects : ObjectOK(o)'
<1> SUFFICES ASSUME TypeOK, PhaseOK, \A o \in Objects : ObjectOK(o), [Next]_vars,
                    NEW o \in Objects
             PROVE  ObjectOK(o)'
  OBVIOUS
<1>o. ObjectOK(o)
  OBVIOUS
<1>1. ASSUME NEW u \in Objects, ObjectStep(u) PROVE ObjectOK(o)'
  <2>1. CASE u = o
    BY <1>o, <1>1, <2>1, ObjectKept
  <2>2. CASE u # o
    <3>1. /\ UNCHANGED <<shutdownStarted, spc, todo, appLive>>
          /\ UNCHANGED <<pc[o], kpc[o], session[o], tracked[o]>>
          /\ o \in registry' <=> o \in registry
      BY <1>1, <2>2, ObjectFrame
    <3>2. QED BY <1>o, <3>1 DEF ObjectOK, Ahead
  <2>3. QED BY <2>1, <2>2
<1>f. Shutdown \/ ShutdownStep \/ UNCHANGED vars => UNCHANGED <<pc, kpc, tracked, registry>>
  BY ShutdownFrame
<1>2. CASE Shutdown
  <2>1. UNCHANGED <<session, appLive, todo>> /\ spc = "idle" /\ spc' = "listeners" /\ shutdownStarted'
        /\ UNCHANGED <<pc, kpc, tracked, registry>>
    BY <1>f, <1>2 DEF Shutdown, appVars
  <2>2. QED BY <1>o, <2>1 DEF ObjectOK, Ahead
<1>3. CASE Snapshot
  <2>1. UNCHANGED <<session, appLive, shutdownStarted, pc, kpc, tracked, registry>>
    BY <1>f, <1>3 DEF Snapshot, appVars, ShutdownStep
  <2>2. \/ spc = "listeners" /\ todo' = registry \cap Listens /\ spc' = "closelisteners"
        \/ spc = "conns" /\ todo' = registry \cap Conns /\ spc' = "closeconns"
    BY <1>3 DEF Snapshot
  <2>3. kpc[o] = "vls" => Ahead(o)'
    BY <1>o, <2>1, <2>2 DEF ObjectOK, Ahead, PhaseOK, Objects
  <2>4. QED BY <1>o, <2>1, <2>3 DEF ObjectOK
<1>4. CASE CloseNext
  <2>1. UNCHANGED <<session, appLive, shutdownStarted, pc, kpc, tracked, registry>>
    BY <1>f, <1>4 DEF CloseNext, appVars, ShutdownStep
  <2>2. kpc[o] = "vls" => Ahead(o)'
    <3>1. CASE UNCHANGED spc /\ \E u \in todo : kpc[u] = "done" /\ todo' = todo \ {u}
      BY <1>o, <3>1 DEF ObjectOK, Ahead
    <3>2. CASE todo = {} /\ UNCHANGED todo /\ spc \in {"closelisteners", "closeconns"}
               /\ spc' = CASE spc = "closeconns" -> "begin"
                           [] timeout = "none" -> "conns"
                           [] OTHER -> "drain"
      <4>1. spc = "closelisteners" => spc' \in {"conns", "drain"}
        BY <3>2
      <4>2. QED BY <1>o, <3>2, <4>1 DEF ObjectOK, Ahead
    <3>3. QED BY <1>4, <3>1, <3>2, Zenon DEF CloseNext
  <2>3. QED BY <1>o, <2>1, <2>2 DEF ObjectOK
<1>5. CASE waitDrain \/ Drained
  <2>1. UNCHANGED <<session, appLive, shutdownStarted, pc, kpc, tracked, registry, todo>>
        /\ spc \in {"drain", "draining"} /\ spc' \in {"draining", "conns"}
    BY <1>f, <1>5 DEF waitDrain, Drained, appVars, regVars, ShutdownStep
  <2>2. QED BY <1>o, <2>1 DEF ObjectOK, Ahead
<1>6. CASE BeginShutdown \/ StopPoller \/ AppDestroy
  <2>1. UNCHANGED <<shutdownStarted, pc, kpc, tracked, registry, todo>>
        /\ spc \in {"begin", "stop", "destroy"}
    BY <1>f, <1>6 DEF BeginShutdown, StopPoller, AppDestroy, ShutdownStep
  <2>2. kpc[o] # "vls"
    BY <1>o, <2>1 DEF ObjectOK, Ahead, PhaseOK
  <2>3. (appLive' => appLive) /\ (session'[o] # session[o] => session'[o] = "closed" /\ session[o] = "open")
    <3>1. session = [u \in Objects |-> session[u]]
      BY DEF TypeOK
    <3>2. QED BY <1>6, <3>1 DEF BeginShutdown, StopPoller, AppDestroy, appVars
  <2>4. QED BY <1>o, <2>1, <2>2, <2>3 DEF ObjectOK
<1>7. CASE UNCHANGED vars
  BY <1>o, <1>7 DEF vars, regVars, downVars, objVars, appVars, ObjectOK, Ahead
<1>8. QED BY <1>1, <1>2, <1>3, <1>4, <1>5, <1>6, <1>7, StepCases DEF ShutdownStep
-----------------------------------------------------------------------------
(* The dials that are counted. *)
LEMMA CountMoves ==
  ASSUME TypeOK, NEW o \in Objects, ObjectOK(o), ObjectStep(o)
  PROVE  \/ UNCHANGED pendingDials /\ Dialling' = Dialling
         \/ pendingDials' = pendingDials + 1 /\ o \notin Dialling /\ Dialling' = Dialling \cup {o}
         \/ pendingDials' = pendingDials - 1 /\ o \in Dialling /\ Dialling' = Dialling \ {o}
<1> DEFINE C == {"vls", "wait", "finish", "abort", "add", "track", "end"}
<1>0. pc = [u \in Objects |-> pc[u]] /\ Dials \subseteq Objects
  BY DEF TypeOK, Objects, Conns
<1>f. \A u \in Objects : u # o => pc'[u] = pc[u]
  BY ObjectFrame
<1>k. ASSUME UNCHANGED pendingDials, o \in Dials => (pc[o] \in C <=> pc'[o] \in C)
      PROVE  UNCHANGED pendingDials /\ Dialling' = Dialling
  BY <1>0, <1>f, <1>k DEF Dialling
<1>1. CASE beginDial(o)
  <2>1. pendingDials' = pendingDials + 1 /\ pc[o] = "begin" /\ pc'[o] = "vls" /\ o \in Dials
    BY <1>0, <1>1 DEF beginDial, Goto, ObjectOK
  <2>2. QED BY <1>0, <1>f, <2>1 DEF Dialling
<1>2. CASE endDial(o)
  <2>1. pendingDials' = pendingDials - 1 /\ pc[o] = "end" /\ pc'[o] = "notify" /\ o \in Dials
    BY <1>0, <1>2 DEF endDial, Goto, ObjectOK
  <2>2. QED BY <1>0, <1>f, <2>1 DEF Dialling
<1>3. CASE Call(o)
  <2>1. UNCHANGED pendingDials /\ pc[o] = "idle" /\ (o \in Dials => pc'[o] \in {"failed", "begin"})
    BY <1>0, <1>3 DEF Call, Goto, regVars
  <2>2. QED BY <1>k, <2>1
<1>4. CASE Accept(o) \/ AcceptError(o) \/ AcceptFailed(o)
  <2>1. UNCHANGED pendingDials /\ o \notin Dials
    BY <1>4, LifecycleAssumption DEF Accept, AcceptError, AcceptFailed, regVars
  <2>2. QED BY <1>k, <2>1
<1>5. CASE connectWait(o) \/ finishConnect(o)
  <2>1. UNCHANGED pendingDials /\ pc[o] \in C /\ pc'[o] \in C
    BY <1>0, <1>5 DEF connectWait, finishConnect, Goto, regVars
  <2>2. QED BY <1>k, <2>1
<1>6. CASE VlsCreate(o) \/ Abort(o)
  <2>1. UNCHANGED pendingDials /\ pc[o] \in C /\ (o \in Dials => pc'[o] \in C)
    BY <1>0, <1>6 DEF VlsCreate, Abort, Goto, regVars
  <2>2. QED BY <1>k, <2>1
<1>7. CASE Add(o) \/ Track(o)
  <2>1. UNCHANGED pendingDials /\ pc[o] \in C /\ (o \in Dials => pc'[o] \in C)
    BY <1>0, <1>7 DEF Add, Track, Goto, regVars
  <2>2. QED BY <1>k, <2>1
<1>8. CASE EndNotify(o)
  <2>1. UNCHANGED pendingDials /\ pc[o] = "notify" /\ pc'[o] \in {"returned", "failed"}
    BY <1>0, <1>8 DEF EndNotify, Goto
  <2>2. QED BY <1>k, <2>1
<1>9. CASE Close(o) \/ CloseStep(o)
  <2>1. UNCHANGED <<pendingDials, pc>>
    BY <1>9 DEF Close, CloseStep, CloseCheck, CloseVls, CloseUntrack, CloseNotify, closeRest, regVars
  <2>2. QED BY <1>k, <2>1
<1>10. QED
  BY <1>1, <1>2, <1>3, <1>4, <1>5, <1>6, <1>7, <1>8, <1>9, Zenon DEF ObjectStep, MakeStep

LEMMA CountStep ==
  TypeOK /\ CountOK /\ (\A o \in Objects : ObjectOK(o)) /\ [Next]_vars => CountOK'
<1> SUFFICES ASSUME TypeOK, CountOK, \A o \in Objects : ObjectOK(o), [Next]_vars PROVE CountOK'
  OBVIOUS
<1>1. IsFiniteSet(Dialling)
  BY LifecycleAssumption, FS_Subset DEF Dialling
<1>2. Cardinality(Dialling) \in Nat
  BY <1>1, FS_CardinalityType
<1>3. ASSUME NEW o \in Objects, ObjectStep(o) PROVE CountOK'
  <2>1. CASE UNCHANGED pendingDials /\ Dialling' = Dialling
    BY <2>1 DEF CountOK
  <2>2. CASE pendingDials' = pendingDials + 1 /\ o \notin Dialling /\ Dialling' = Dialling \cup {o}
    <3>1. Cardinality(Dialling \cup {o}) = Cardinality(Dialling) + 1
      BY <1>1, <2>2, FS_AddElement
    <3>2. QED BY <2>2, <3>1 DEF CountOK
  <2>3. CASE pendingDials' = pendingDials - 1 /\ o \in Dialling /\ Dialling' = Dialling \ {o}
    <3>1. Cardinality(Dialling \ {o}) = Cardinality(Dialling) - 1
      BY <1>1, <2>3, FS_RemoveElement
    <3>2. QED BY <2>3, <3>1 DEF CountOK
  <2>4. QED BY <1>3, <2>1, <2>2, <2>3, CountMoves
<1>4. CASE Shutdown \/ ShutdownStep \/ UNCHANGED vars
  <2>1. UNCHANGED <<pc, pendingDials>>
    BY <1>4, ShutdownFrame
  <2>2. QED BY <2>1 DEF CountOK, Dialling
<1>5. QED BY <1>3, <1>4, StepCases

LEMMA CountBound == CountOK' => pendingDials' \in 0 .. Cardinality(Dials)
<1>1. IsFiniteSet(Dialling') /\ Cardinality(Dialling') <= Cardinality(Dials)
  <2>1. Dialling' \subseteq Dials
    BY DEF Dialling
  <2>2. QED BY <2>1, LifecycleAssumption, FS_Subset
<1>2. Cardinality(Dialling') \in Nat /\ Cardinality(Dials) \in Nat
  BY <1>1, LifecycleAssumption, FS_CardinalityType
<1>3. QED BY <1>1, <1>2 DEF CountOK
-----------------------------------------------------------------------------
(* The types. *)
TypeRest ==
  /\ registry \subseteq Objects
  /\ drainedCh \in {"nil", "open", "closed"}
  /\ shutdownStarted \in BOOLEAN
  /\ spc \in {"idle", "listeners", "closelisteners", "drain", "draining",
              "conns", "closeconns", "begin", "stop", "destroy", "done"}
  /\ todo \subseteq Objects
  /\ timeout \in Timeouts
  /\ pc \in [Objects -> {"idle", "begin", "vls", "wait", "finish", "abort",
                         "add", "track", "end", "notify", "returned", "failed"}]
  /\ from \in [Accepts -> Listens]
  /\ tracked \in [Objects -> BOOLEAN]
  /\ kpc \in [Objects -> {"open", "flag", "vls", "untrack", "notify", "done"}]
  /\ session \in [Objects -> {"none", "open", "closed"}]
  /\ mode2 \in Modes /\ appLive \in BOOLEAN /\ destroyed \in BOOLEAN
  /\ late \subseteq {"create", "connectWait", "Abort", "Close"}

LEMMA TypeSplit ==
  /\ TypeOK <=> TypeRest /\ pendingDials \in 0 .. Cardinality(Dials)
  /\ TypeOK' <=> TypeRest' /\ pendingDials' \in 0 .. Cardinality(Dials)
BY Zenon DEF TypeOK, TypeRest

LEMMA TypeStep == TypeOK /\ [Next]_vars => TypeRest'
<1> SUFFICES ASSUME TypeRest, [Next]_vars PROVE TypeRest'
  BY TypeSplit
<1>0. TypeRest
  OBVIOUS
<1>1. ASSUME NEW o \in Objects, MakeStep(o) \/ Call(o) \/ Accept(o) \/ AcceptError(o) \/ connectWait(o)
      PROVE  TypeRest'
  <2>1. UNCHANGED <<makeRest>>
    BY <1>1
       DEF MakeStep, Call, Accept, AcceptError, connectWait, beginDial, VlsCreate, AcceptFailed,
           finishConnect, Abort, Add, Track, endDial, EndNotify
  <2>2. tracked' \in [Objects -> BOOLEAN]
    <3>1. UNCHANGED tracked \/ tracked' = [tracked EXCEPT ![o] = TRUE]
      BY <1>1, Zenon
         DEF MakeStep, Call, Accept, AcceptError, connectWait, beginDial, VlsCreate, AcceptFailed,
             finishConnect, Abort, Add, Track, endDial, EndNotify
    <3>2. QED BY <1>0, <3>1, BoolExcept, Zenon DEF TypeRest
  <2>3. /\ registry' \subseteq Objects /\ drainedCh' \in {"nil", "open", "closed"}
        /\ late' \subseteq {"create", "connectWait", "Abort", "Close"}
    BY <1>0, <1>1
       DEF TypeRest, MakeStep, Call, Accept, AcceptError, connectWait, beginDial, VlsCreate,
           AcceptFailed, finishConnect, Abort, Add, Track, endDial, EndNotify, regVars, VlsCall,
           notifyIfDrained
  <2>4. session' \in [Objects -> {"none", "open", "closed"}]
    BY <1>0, <1>1
       DEF TypeRest, MakeStep, Call, Accept, AcceptError, connectWait, beginDial, VlsCreate,
           AcceptFailed, finishConnect, Abort, Add, Track, endDial, EndNotify
  <2>5. pc' \in [Objects -> {"idle", "begin", "vls", "wait", "finish", "abort",
                             "add", "track", "end", "notify", "returned", "failed"}]
    BY <1>0, <1>1
       DEF TypeRest, MakeStep, Call, Accept, AcceptError, connectWait, beginDial, VlsCreate,
           AcceptFailed, finishConnect, Abort, Add, Track, endDial, EndNotify, Goto
  <2>6. QED BY <1>0, <2>1, <2>2, <2>3, <2>4, <2>5, Zenon DEF TypeRest, makeRest, downVars, appVars
<1>2. ASSUME NEW o \in Objects, Close(o) \/ CloseStep(o) PROVE TypeRest'
  <2>1. UNCHANGED closeRest
    BY <1>2 DEF Close, CloseStep, CloseCheck, CloseVls, CloseUntrack, CloseNotify
  <2>2. /\ registry' \subseteq Objects /\ drainedCh' \in {"nil", "open", "closed"}
        /\ late' \subseteq {"create", "connectWait", "Abort", "Close"}
    BY <1>0, <1>2
       DEF TypeRest, Close, CloseStep, CloseCheck, CloseVls, CloseUntrack, CloseNotify, regVars,
           VlsCall, notifyIfDrained
  <2>3. /\ session' \in [Objects -> {"none", "open", "closed"}]
        /\ kpc' \in [Objects -> {"open", "flag", "vls", "untrack", "notify", "done"}]
    BY <1>0, <1>2
       DEF TypeRest, Close, CloseStep, CloseCheck, CloseVls, CloseUntrack, CloseNotify, KGoto
  <2>4. QED BY <1>0, <2>1, <2>2, <2>3, Zenon DEF TypeRest, closeRest, downVars, appVars
<1>3. CASE Shutdown \/ ShutdownStep \/ UNCHANGED vars
  <2>1. UNCHANGED <<pc, from, tracked, kpc, late, timeout, registry, mode2>>
    BY <1>3, ShutdownFrame
  <2>2. shutdownStarted' \in BOOLEAN /\ appLive' \in BOOLEAN /\ destroyed' \in BOOLEAN
    BY <1>0, <1>3, Zenon
       DEF TypeRest, Shutdown, ShutdownStep, Snapshot, CloseNext, waitDrain, Drained, BeginShutdown,
           StopPoller, AppDestroy, appVars, downVars, vars
  <2>3. /\ todo' \subseteq Objects /\ drainedCh' \in {"nil", "open", "closed"}
        /\ spc' \in {"idle", "listeners", "closelisteners", "drain", "draining",
                     "conns", "closeconns", "begin", "stop", "destroy", "done"}
    BY <1>0, <1>3
       DEF TypeRest, Shutdown, ShutdownStep, Snapshot, CloseNext, waitDrain, Drained, BeginShutdown,
           StopPoller, AppDestroy, regVars, downVars, vars
  <2>4. session' \in [Objects -> {"none", "open", "closed"}]
    BY <1>0, <1>3
       DEF TypeRest, Shutdown, ShutdownStep, Snapshot, CloseNext, waitDrain, Drained, BeginShutdown,
           StopPoller, AppDestroy, vars
  <2>5. QED BY <1>0, <2>1, <2>2, <2>3, <2>4, Zenon DEF TypeRest
<1>4. QED BY <1>1, <1>2, <1>3, StepCases, Zenon DEF ObjectStep
-----------------------------------------------------------------------------
(* Calls of a destroyed application. *)
LEMMA LateStep ==
  PhaseOK /\ (\A o \in Objects : ObjectOK(o)) /\ TypeOK /\ LateOK /\ [Next]_vars => LateOK'
<1> SUFFICES ASSUME PhaseOK, \A o \in Objects : ObjectOK(o), TypeOK, LateOK, [Next]_vars PROVE LateOK'
  OBVIOUS
<1>1. ASSUME NEW by, by # "Close" \/ ~destroyed, VlsCall(by)
      PROVE  "Close" \notin late' /\ (mode2 => late' = {})
  <2>1. mode2 /\ destroyed => Refused
    BY DEF PhaseOK, Refused
  <2>2. QED BY <1>1, <2>1 DEF VlsCall, LateOK
<1>2. ASSUME NEW o \in Objects, ObjectStep(o) PROVE LateOK'
  <2>1. UNCHANGED mode2
    BY <1>2, ObjectFrame
  <2>2. CASE CloseVls(o)
    <3>1. ObjectOK(o) /\ kpc[o] = "vls" /\ VlsCall("Close")
      BY <2>2 DEF CloseVls
    <3>2. ~destroyed
      BY <3>1 DEF ObjectOK, Ahead, PhaseOK
    <3>3. QED BY <1>1, <2>1, <3>1, <3>2 DEF LateOK
  <2>3. CASE VlsCall("create") \/ VlsCall("connectWait") \/ VlsCall("Abort")
    BY <1>1, <2>1, <2>3 DEF LateOK
  <2>4. CASE UNCHANGED late
    BY <2>1, <2>4 DEF LateOK
  <2>5. QED
    BY <1>2, <2>2, <2>3, <2>4, Zenon
       DEF ObjectStep, MakeStep, CloseStep, Call, Accept, AcceptError, connectWait, beginDial,
           VlsCreate, AcceptFailed, finishConnect, Abort, Add, Track, endDial, EndNotify, Close,
           CloseCheck, CloseUntrack, CloseNotify
<1>3. CASE Shutdown \/ ShutdownStep \/ UNCHANGED vars
  BY <1>3, ShutdownFrame DEF LateOK
<1>4. QED BY <1>2, <1>3, StepCases

LEMMA InvInit == Init => Inv
<1> SUFFICES ASSUME Init PROVE Inv
  OBVIOUS
<1>1. Dialling = {}
  BY DEF Init, Dialling, Objects, Conns
<1>2. CountOK
  BY <1>1, FS_EmptySet DEF Init, CountOK
<1>3. TypeOK
  <2>1. Cardinality(Dials) \in Nat
    BY LifecycleAssumption, FS_CardinalityType
  <2>2. tracked \in [Objects -> BOOLEAN]
    <3>1. \A o \in Objects : (o \in Established) \in BOOLEAN
      OBVIOUS
    <3>2. QED BY <3>1, Zenon DEF Init
  <2>3. /\ pc \in [Objects -> {"idle", "begin", "vls", "wait", "finish", "abort",
                              "add", "track", "end", "notify", "returned", "failed"}]
        /\ kpc \in [Objects -> {"open", "flag", "vls", "untrack", "notify", "done"}]
        /\ session \in [Objects -> {"none", "open", "closed"}]
    BY DEF Init
  <2>4. /\ registry \subseteq Objects /\ todo \subseteq Objects
        /\ pendingDials \in 0 .. Cardinality(Dials)
    BY <2>1, LifecycleAssumption DEF Init, Objects
  <2>5. /\ shutdownStarted \in BOOLEAN /\ appLive \in BOOLEAN /\ destroyed \in BOOLEAN
        /\ from \in [Accepts -> Listens] /\ timeout \in Timeouts /\ mode2 \in Modes
    BY Zenon DEF Init
  <2>6. /\ drainedCh \in {"nil", "open", "closed"}
        /\ spc \in {"idle", "listeners", "closelisteners", "drain", "draining",
                    "conns", "closeconns", "begin", "stop", "destroy", "done"}
        /\ late \subseteq {"create", "connectWait", "Abort", "Close"}
    BY DEF Init
  <2>7. QED BY <2>2, <2>3, <2>4, <2>5, <2>6, Zenon DEF TypeOK
<1>4. PhaseOK
  BY DEF Init, PhaseOK
<1>5. ASSUME NEW o \in Objects PROVE ObjectOK(o)
  <2>1. tracked[o] <=> o \in Established
    BY DEF Init
  <2>2. QED BY <2>1 DEF Init, ObjectOK
<1>6. QED BY <1>2, <1>3, <1>4, <1>5 DEF Init, LateOK, Inv

(* The invariant of the registry and of Shutdown. *)
THEOREM LifecycleInvariant == Spec => []Inv
<1>1. Inv /\ [Next]_vars => Inv'
  <2> SUFFICES ASSUME Inv, [Next]_vars PROVE Inv'
    OBVIOUS
  <2>1. TypeOK /\ CountOK /\ PhaseOK /\ (\A o \in Objects : ObjectOK(o)) /\ LateOK
    BY DEF Inv
  <2>2. CountOK' /\ PhaseOK' /\ (\A o \in Objects : ObjectOK(o)') /\ LateOK'
    BY <2>1, CountStep, PhaseStep, ObjectsStep, LateStep
  <2>3. TypeOK'
    BY <2>1, <2>2, TypeStep, TypeSplit, CountBound
  <2>4. QED BY <2>2, <2>3 DEF Inv
<1>2. QED BY <1>1, InvInit, PTL DEF Spec

(* Shutdown sees what exists: what was handed out and not closed is in the *)
(* registry, a dial is counted or registered without a gap, and what was   *)
(* closed is not in the registry any more.                                 *)
THEOREM RegistryIsLiveHolds == Spec => []RegistryIsLive
<1>1. ASSUME Inv PROVE RegistryIsLive
  <2>1. ASSUME NEW o \in Objects
        PROVE  ObjectOK(o) /\ pc[o] \in {"idle", "begin", "vls", "wait", "finish", "abort", "add",
                                         "track", "end", "notify", "returned", "failed"}
    BY <1>1 DEF Inv, TypeOK
  <2>2. Dials \subseteq Objects
    BY DEF Objects, Conns
  <2>3. ASSUME NEW o \in Dials, appLive, session[o] = "open", kpc[o] = "open"
        PROVE  o \in registry \/ pc[o] \in {"wait", "finish", "abort", "add", "track", "end"}
    BY <2>1, <2>2, <2>3 DEF ObjectOK
  <2>4. ASSUME NEW o \in Objects
        PROVE  /\ pc[o] = "returned" /\ kpc[o] = "open" => o \in registry
               /\ kpc[o] = "done" /\ ~shutdownStarted => o \notin registry
    BY <2>1 DEF ObjectOK
  <2>5. QED BY <1>1, <2>3, <2>4 DEF Inv, RegistryIsLive
<1>2. QED BY <1>1, LifecycleInvariant, PTL

(* Close never calls a destroyed application, and in Mode 2 nobody does. *)
THEOREM CloseStaysOutHolds == Spec => []CloseStaysOut
<1>1. Inv => CloseStaysOut
  BY DEF Inv, LateOK, CloseStaysOut
<1>2. QED BY <1>1, LifecycleInvariant, PTL
-----------------------------------------------------------------------------
(* An object the application has: Shutdown has it before it, or its Close  *)
(* has taken it out of the registry.                                       *)
Kept(o) == pc[o] = "returned" /\ (Ahead(o) \/ kpc[o] \in {"notify", "done"})

LEMMA KeptStep ==
  ASSUME NEW o \in Objects, Inv, Kept(o), [Next]_vars
  PROVE  Kept(o)'
<1>0. /\ TypeOK /\ PhaseOK /\ ObjectOK(o)
      /\ pc = [u \in Objects |-> pc[u]] /\ kpc = [u \in Objects |-> kpc[u]]
  BY DEF Inv, TypeOK
<1>o. o \in Conns \/ o \in Listens
  BY DEF Objects
<1>1. ASSUME NEW u \in Objects, ObjectStep(u) PROVE Kept(o)'
  <2>1. UNCHANGED <<spc, todo>> /\ (u # o => UNCHANGED <<pc[o], kpc[o]>>)
    BY <1>0, <1>1, ObjectFrame
  <2>2. CASE u # o
    BY <2>1, <2>2 DEF Kept, Ahead
  <2>3. CASE u = o
    <3>1. pc'[o] = "returned"
      BY <1>0, <1>1, <2>3
         DEF Kept, ObjectStep, MakeStep, CloseStep, Call, Accept, AcceptError, connectWait, beginDial,
             VlsCreate, AcceptFailed, finishConnect, Abort, Add, Track, endDial, EndNotify, Close,
             CloseCheck, CloseVls, CloseUntrack, CloseNotify, closeRest
    <3>2. kpc[o] \in {"notify", "done"} => kpc'[o] \in {"notify", "done"}
      BY <1>0, <1>1, <2>3
         DEF Kept, ObjectStep, MakeStep, CloseStep, Call, Accept, AcceptError, connectWait, beginDial,
             VlsCreate, AcceptFailed, finishConnect, Abort, Add, Track, endDial, EndNotify, Close,
             CloseCheck, CloseVls, CloseUntrack, CloseNotify, KGoto
    <3>3. QED BY <2>1, <3>1, <3>2 DEF Kept, Ahead
  <2>4. QED BY <2>2, <2>3
<1>2. ASSUME Shutdown \/ ShutdownStep \/ UNCHANGED vars PROVE Kept(o)'
  <2>1. UNCHANGED <<pc, kpc>>
    BY <1>2, ShutdownFrame
  <2>2. CASE kpc[o] \in {"notify", "done"}
    BY <2>1, <2>2 DEF Kept
  <2>3. CASE kpc[o] \notin {"notify", "done"}
    <3>1. o \in registry /\ Ahead(o)
      BY <1>0, <2>3 DEF Kept, ObjectOK, TypeOK
    <3>2. CASE Shutdown
      BY <2>1, <3>1, <3>2 DEF Kept, Shutdown, Ahead
    <3>3. CASE Snapshot
      BY <1>0, <1>o, <2>1, <3>1, <3>3 DEF Kept, Snapshot, Ahead, PhaseOK
    <3>4. CASE CloseNext
      <4>1. o \in todo => o \in todo'
        BY <2>3, <3>4 DEF CloseNext
      <4>2. CASE o \in todo
        BY <2>1, <4>1, <4>2 DEF Kept, Ahead
      <4>3. CASE o \in Conns /\ spc = "closelisteners"
        BY <2>1, <3>4, <4>3 DEF Kept, Ahead, CloseNext
      <4>4. QED BY <3>1, <3>4, <4>2, <4>3 DEF Ahead, CloseNext
    <3>5. CASE waitDrain \/ Drained
      BY <1>0, <2>1, <3>1, <3>5 DEF Kept, waitDrain, Drained, Ahead, PhaseOK
    <3>6. CASE BeginShutdown \/ StopPoller \/ AppDestroy
      BY <1>0, <3>1, <3>6 DEF BeginShutdown, StopPoller, AppDestroy, Ahead, PhaseOK
    <3>7. CASE UNCHANGED vars
      BY <2>1, <3>1, <3>7 DEF Kept, vars, downVars, Ahead
    <3>8. QED BY <1>2, <3>2, <3>3, <3>4, <3>5, <3>6, <3>7 DEF ShutdownStep
  <2>4. QED BY <2>2, <2>3
<1>3. QED BY <1>1, <1>2, StepCases

(* What the application had when Shutdown was called is closed and out of *)
(* the registry when the dispatcher is torn down.                         *)
THEOREM NothingForgottenHolds == Spec => NothingForgotten
<1>1. ASSUME NEW o \in Objects
      PROVE  Spec => [](spc = "idle" /\ pc[o] = "returned" =>
                          [](spc = "begin" => kpc[o] \in {"notify", "done"}))
  <2>1. spc = "idle" /\ pc[o] = "returned" => Kept(o)
    BY DEF Kept, Ahead
  <2>2. Inv /\ Kept(o) /\ [Next]_vars => Kept(o)'
    BY <1>1, KeptStep
  <2>3. Inv /\ Kept(o) => (spc = "begin" => kpc[o] \in {"notify", "done"})
    BY DEF Inv, PhaseOK, Kept, Ahead
  <2>4. QED BY <2>1, <2>2, <2>3, LifecycleInvariant, PTL DEF Spec
<1>2. QED BY <1>1 DEF NothingForgotten
=============================================================================
