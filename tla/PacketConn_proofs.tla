------------------------- MODULE PacketConn_proofs -------------------------
(***************************************************************************)
(* Proofs about a packetConn, for any sessions and peer addresses, any     *)
(* number of datagrams and any capacity of incoming.                       *)
(***************************************************************************)
EXTENDS PacketConn, FiniteSetTheorems, SequenceTheorems, TLAPS

Items == (Sessions \X Nat) \cup {<<Err, 0>>}

(* The accept loop holds a session that has no read loop yet. *)
AcceptOK ==
  apc = "insert" => aheld \in Sessions /\ rpc[aheld] = "off" /\ sess[aheld] \notin {"none", "pend"}

(* Close waits for the loops before it touches the map. *)
CloseOK ==
  /\ cpc \in {"peers", "listener", "done"} =>
       apc = "done" /\ \A s \in Sessions : rpc[s] \in {"off", "done"}
  /\ isNil => cpc \in {"listener", "done"}
  /\ ~panicked

(* One session: somebody refers to it for as long as it is open. *)
SessionOK(s) ==
  /\ rpc[s] # "off" => sess[s] \notin {"none", "pend"}
  /\ sess[s] \in {"open", "reset"} /\ rpc[s] = "off" => apc = "insert" /\ aheld = s
  /\ rpc[s] \in {"top", "read", "send", "sendErr", "remove"}
       \/ (rpc[s] = "done" /\ sess[s] \in {"open", "reset"})
     => s \in displaced \/ peers[KeyOf[s]] = s
  /\ rheld[s] > 0 <=> rpc[s] = "send"
  /\ cpc \in {"listener", "done"} /\ sess[s] \in {"open", "reset"} => s \in displaced

(* One session's datagrams. *)
OrderOK(s) ==
  /\ \A i \in 1 .. Len(incoming) :
       incoming[i][1] = s => incoming[i][2] = delivered[s] + Queued(s, i)
  /\ rheld[s] > 0 => rheld[s] = delivered[s] + Queued(s, Len(incoming)) + 1
  /\ \/ took[s] = delivered[s] + Queued(s, Len(incoming)) + (IF rheld[s] > 0 THEN 1 ELSE 0)
     \/ rpc[s] = "done"

CountsOK == sent \in [Sessions -> Nat] /\ took \in [Sessions -> Nat]

Inv ==
  /\ TypeOK /\ CountsOK /\ AcceptOK /\ CloseOK
  /\ \A s \in Sessions : SessionOK(s)
  /\ \A s \in Sessions : OrderOK(s)
-----------------------------------------------------------------------------
(* Constants. *)
LEMMA ConstFacts ==
  /\ Sessions \subseteq Nat /\ None \notin Sessions /\ Err \notin Sessions
  /\ \A s \in Sessions : KeyOf[s] \in Keys /\ Msgs[s] \in Nat
  /\ IncomingCap \in Nat /\ IncomingCap > 0
BY PacketConnAssumption DEF Sessions

LEMMA Shapes ==
  ASSUME TypeOK
  PROVE  /\ rpc = [u \in Sessions |-> rpc[u]] /\ rheld = [u \in Sessions |-> rheld[u]]
         /\ sess = [u \in Sessions |-> sess[u]] /\ peers = [k \in Keys |-> peers[k]]
         /\ delivered = [u \in Sessions |-> delivered[u]]
         /\ incoming \in Seq(Items)
BY DEF TypeOK, Items

(* The steps, by who takes them. *)
SessionStep(s) == ReadLoop(s) \/ PeerSends(s) \/ PeerResets(s)
AcceptStep == AcceptLoop \/ AcceptError
CallerStep ==
  Caller \/ ReadFrom \/ ReadCancelled \/ WriteTo \/ WriteCancelled \/ Writable
CloserStep == Closer \/ Close

LEMMA StepCases ==
  ASSUME [Next]_vars
  PROVE  \/ \E s \in Sessions : SessionStep(s)
         \/ AcceptStep \/ CallerStep \/ CloserStep \/ UNCHANGED vars
BY Zenon DEF Next, SessionStep, AcceptStep, CallerStep, CloserStep

LEMMA SessionFrame ==
  ASSUME TypeOK, NEW s \in Sessions, SessionStep(s)
  PROVE  /\ UNCHANGED <<apc, aheld, isNil, panicked, displaced, cpc, pc, wsess, delivered, listening>>
         /\ \A u \in Sessions : u # s => UNCHANGED <<rpc[u], rheld[u], sess[u]>>
         /\ \A u \in Sessions : u # s /\ peers[KeyOf[u]] = u => peers'[KeyOf[u]] = u
<1>k. \A u \in Sessions : KeyOf[u] \in Keys
  BY ConstFacts
<1> USE Shapes, <1>k DEF loopRest, loopVars, mapVars, callVars
<1>1. CASE ReadTop(s) \/ Read(s)
  BY <1>1 DEF ReadTop, Read
<1>2. CASE ReadSendErr(s) \/ ReadSend(s)
  BY <1>2 DEF ReadSendErr, ReadSend
<1>3. CASE removePeer(s)
  BY <1>3 DEF removePeer
<1>4. CASE RemoveClose(s)
  BY <1>4 DEF RemoveClose
<1>5. CASE PeerSends(s) \/ PeerResets(s)
  BY <1>5 DEF PeerSends, PeerResets
<1>6. QED BY <1>1, <1>2, <1>3, <1>4, <1>5, Zenon DEF SessionStep, ReadLoop

LEMMA CallerFrame ==
  ASSUME CallerStep
  PROVE  UNCHANGED <<netVars, loopVars, mapVars, cpc>>
BY DEF CallerStep, Caller, ReadSelect, WriteLookup, Write, WriteWoken, ReadFrom, ReadCancelled,
       WriteTo, WriteCancelled, Writable, callRest

LEMMA CloserFrame ==
  ASSUME CloserStep
  PROVE  UNCHANGED <<apc, aheld, rpc, rheld, incoming, pc, wsess, delivered, sent, took, peers, panicked, displaced>>
BY DEF CloserStep, Closer, Close, CloseStop, CloseWait, ClosePeers, CloseListener, closeRest,
       loopVars, callVars, mapVars

LEMMA AcceptFrame ==
  ASSUME AcceptStep
  PROVE  UNCHANGED <<cpc, pc, wsess, delivered, sent, took, listening, isNil, rheld>>
BY DEF AcceptStep, AcceptLoop, AcceptTop, Accept, AcceptError, AcceptSendErr, InsertPeer, acceptRest,
       callVars, mapVars
-----------------------------------------------------------------------------
(* The session a step is about. *)
LEMMA SessionItself ==
  ASSUME TypeOK, NEW s \in Sessions, SessionOK(s), CloseOK, SessionStep(s)
  PROVE  /\ SessionOK(s)'
         /\ rpc[s] = "off" => rpc'[s] = "off"
         /\ rpc[s] \in {"off", "done"} => UNCHANGED rpc[s]
         /\ sess[s] \notin {"none", "pend"} => sess'[s] \notin {"none", "pend"}
<1>k. KeyOf[s] \in Keys /\ s # None
  BY ConstFacts
<1>f. UNCHANGED <<apc, aheld, displaced, cpc>>
  BY SessionFrame
<1>n. rheld[s] \in Nat /\ took[s] \in Nat
  BY ConstFacts DEF TypeOK
<1>c. cpc \in {"listener", "done"} => rpc[s] \in {"off", "done"}
  BY DEF CloseOK
<1> USE Shapes, <1>k, <1>f, <1>n DEF SessionOK, loopRest, loopVars, mapVars, callVars
<1>1. CASE ReadTop(s)
  BY <1>1, <1>c DEF ReadTop
<1>2. CASE Read(s)
  BY <1>2, <1>c DEF Read
<1>3. CASE ReadSendErr(s)
  BY <1>3, <1>c DEF ReadSendErr
<1>4. CASE ReadSend(s)
  BY <1>4, <1>c DEF ReadSend
<1>5. CASE removePeer(s)
  BY <1>5, <1>c DEF removePeer
<1>6. CASE RemoveClose(s)
  BY <1>6, <1>c DEF RemoveClose
<1>7. CASE PeerSends(s)
  BY <1>7 DEF PeerSends
<1>8. CASE PeerResets(s)
  BY <1>8 DEF PeerResets
<1>9. QED BY <1>1, <1>2, <1>3, <1>4, <1>5, <1>6, <1>7, <1>8, Zenon DEF SessionStep, ReadLoop

LEMMA CoreSession ==
  ASSUME TypeOK, AcceptOK, CloseOK, \A u \in Sessions : SessionOK(u),
         NEW s \in Sessions, SessionStep(s)
  PROVE  AcceptOK' /\ CloseOK' /\ \A u \in Sessions : SessionOK(u)'
<1>1. /\ UNCHANGED <<apc, aheld, isNil, panicked, displaced, cpc>>
      /\ \A u \in Sessions : u # s => UNCHANGED <<rpc[u], rheld[u], sess[u]>>
      /\ \A u \in Sessions : u # s /\ peers[KeyOf[u]] = u => peers'[KeyOf[u]] = u
  BY SessionFrame
<1>2. /\ SessionOK(s)'
      /\ rpc[s] = "off" => rpc'[s] = "off"
      /\ rpc[s] \in {"off", "done"} => UNCHANGED rpc[s]
      /\ sess[s] \notin {"none", "pend"} => sess'[s] \notin {"none", "pend"}
  BY SessionItself
<1>3. ASSUME NEW u \in Sessions, u # s PROVE SessionOK(u)'
  <2>1. SessionOK(u)
    BY <1>3
  <2>2. QED BY <1>1, <1>3, <2>1 DEF SessionOK
<1>4. AcceptOK'
  BY <1>1, <1>2 DEF AcceptOK
<1>5. CloseOK'
  <2>1. ASSUME cpc \in {"peers", "listener", "done"}, NEW u \in Sessions PROVE rpc'[u] \in {"off", "done"}
    BY <1>1, <1>2, <2>1 DEF CloseOK
  <2>2. QED BY <1>1, <2>1 DEF CloseOK
<1>6. QED BY <1>2, <1>3, <1>4, <1>5

LEMMA CoreAccept ==
  ASSUME TypeOK, AcceptOK, CloseOK, \A u \in Sessions : SessionOK(u), AcceptStep
  PROVE  AcceptOK' /\ CloseOK' /\ \A u \in Sessions : SessionOK(u)'
<1>f. UNCHANGED <<cpc, isNil, rheld>>
  BY AcceptFrame
<1>1. CASE AcceptTop \/ AcceptError \/ AcceptSendErr
  <2>1. /\ UNCHANGED <<aheld, rpc, peers, panicked, displaced, sess>>
        /\ apc \in {"top", "accept", "sendErr"} /\ apc' # "insert"
    BY <1>1 DEF AcceptTop, AcceptError, AcceptSendErr, AcceptFailed, mapVars
  <2>2. QED BY <1>f, <2>1 DEF AcceptOK, CloseOK, SessionOK
<1>2. CASE Accept
  <2>0. UNCHANGED <<rpc, peers, panicked, displaced>> /\ apc = "accept"
    BY <1>2 DEF Accept, mapVars
  <2>1. CASE UNCHANGED <<sess, aheld>> /\ apc' # "insert"
    BY <1>f, <2>0, <2>1 DEF AcceptOK, CloseOK, SessionOK
  <2>2. CASE ~(UNCHANGED <<sess, aheld>> /\ apc' # "insert")
    <3>1. PICK s \in Sessions : sess[s] = "pend" /\ sess' = [sess EXCEPT ![s] = "open"]
                               /\ aheld' = s /\ apc' = "insert"
      BY <1>2, <2>2 DEF Accept, AcceptFailed
    <3>2. rpc[s] = "off"
      BY <3>1 DEF SessionOK
    <3>3. AcceptOK' /\ CloseOK'
      BY <1>f, <2>0, <3>1, <3>2, Shapes DEF AcceptOK, CloseOK
    <3>4. ASSUME NEW u \in Sessions PROVE SessionOK(u)'
      <4>1. SessionOK(u)
        OBVIOUS
      <4>2. CASE u = s
        BY <1>f, <2>0, <3>1, <3>2, <4>1, <4>2, Shapes DEF SessionOK, CloseOK
      <4>3. CASE u # s
        BY <1>f, <2>0, <3>1, <4>1, <4>3, Shapes DEF SessionOK
      <4>4. QED BY <4>2, <4>3
    <3>5. QED BY <3>3, <3>4
  <2>3. QED BY <2>1, <2>2
<1>3. CASE InsertPeer
  <2>1. PICK h \in Sessions : h = aheld /\ rpc[h] = "off" /\ sess[h] \notin {"none", "pend"}
    BY <1>3 DEF InsertPeer, AcceptOK
  <2>2. /\ apc = "insert" /\ apc' = "top" /\ UNCHANGED sess
        /\ peers' = [peers EXCEPT ![KeyOf[h]] = h]
        /\ displaced' = displaced \cup ({peers[KeyOf[h]]} \ {None})
        /\ panicked' = isNil
        /\ rpc' = [rpc EXCEPT ![h] = "top"]
    BY <1>3, <2>1 DEF InsertPeer
  <2>3. cpc \notin {"peers", "listener", "done"} /\ ~isNil
    BY <2>2 DEF CloseOK
  <2>4. AcceptOK' /\ CloseOK'
    <3>1. ~panicked'
      BY <2>2, <2>3, Zenon
    <3>2. QED BY <1>f, <2>2, <2>3, <3>1 DEF AcceptOK, CloseOK
  <2>5. ASSUME NEW u \in Sessions PROVE SessionOK(u)'
    <3>1. SessionOK(u) /\ KeyOf[u] \in Keys /\ KeyOf[h] \in Keys /\ u # None
      BY ConstFacts
    <3>2. CASE u = h
      BY <1>f, <2>1, <2>2, <2>3, <3>1, <3>2, Shapes DEF SessionOK
    <3>3. CASE u # h
      <4>1. sess[u] \in {"open", "reset"} => rpc[u] # "off"
        BY <2>1, <3>1, <3>3 DEF SessionOK
      <4>2. QED BY <1>f, <2>1, <2>2, <2>3, <3>1, <3>3, <4>1, Shapes DEF SessionOK
    <3>4. QED BY <3>2, <3>3
  <2>6. QED BY <2>4, <2>5
<1>4. QED BY <1>1, <1>2, <1>3 DEF AcceptStep, AcceptLoop

LEMMA CoreCloser ==
  ASSUME TypeOK, AcceptOK, CloseOK, \A u \in Sessions : SessionOK(u), CloserStep
  PROVE  AcceptOK' /\ CloseOK' /\ \A u \in Sessions : SessionOK(u)'
<1>f. UNCHANGED <<apc, aheld, rpc, rheld, peers, panicked, displaced>>
  BY CloserFrame
<1>1. CASE Close \/ CloseStop \/ CloseWait
  <2>1. /\ UNCHANGED <<sess, isNil>> /\ cpc \notin {"listener", "done"} /\ cpc' \in {"stop", "wait", "peers"}
        /\ cpc' = "peers" => apc = "done" /\ \A s \in Sessions : rpc[s] \in {"off", "done"}
    BY <1>1 DEF Close, CloseStop, CloseWait, mapVars
  <2>2. AcceptOK' /\ CloseOK'
    BY <1>f, <2>1 DEF AcceptOK, CloseOK
  <2>3. QED BY <1>f, <2>1, <2>2 DEF SessionOK
<1>2. CASE ClosePeers
  <2>1. /\ sess' = [s \in Sessions |-> IF s = peers[KeyOf[s]] THEN "closed" ELSE sess[s]]
        /\ cpc = "peers" /\ cpc' = "listener"
    BY <1>2 DEF ClosePeers
  <2>2. apc = "done" /\ \A s \in Sessions : rpc[s] \in {"off", "done"}
    BY <2>1 DEF CloseOK
  <2>3. AcceptOK' /\ CloseOK'
    BY <1>f, <2>1, <2>2 DEF AcceptOK, CloseOK
  <2>4. ASSUME NEW u \in Sessions PROVE SessionOK(u)'
    <3>1. SessionOK(u)
      OBVIOUS
    <3>2. QED BY <1>f, <2>1, <2>2, <3>1 DEF SessionOK
  <2>5. QED BY <2>3, <2>4
<1>3. CASE CloseListener
  <2>1. /\ cpc = "listener" /\ cpc' = "done" /\ UNCHANGED isNil
        /\ \A s \in Sessions : UNCHANGED sess[s] \/ (sess[s] = "pend" /\ sess'[s] = "closed")
    BY <1>3, Shapes DEF CloseListener, mapVars
  <2>2. apc = "done" /\ \A s \in Sessions : rpc[s] \in {"off", "done"}
    BY <2>1 DEF CloseOK
  <2>3. AcceptOK' /\ CloseOK'
    BY <1>f, <2>1, <2>2 DEF AcceptOK, CloseOK
  <2>4. ASSUME NEW u \in Sessions PROVE SessionOK(u)'
    <3>1. SessionOK(u)
      OBVIOUS
    <3>2. QED BY <1>f, <2>1, <2>2, <3>1 DEF SessionOK
  <2>5. QED BY <2>3, <2>4
<1>4. QED BY <1>1, <1>2, <1>3 DEF CloserStep, Closer
-----------------------------------------------------------------------------
(* Counting the datagrams of a session in a queue. *)
Cnt(q, s, i) == Cardinality({j \in 1 .. i : q[j][1] = s})

LEMMA CntNat ==
  ASSUME NEW q, NEW s, NEW i \in Nat
  PROVE  Cnt(q, s, i) \in Nat /\ IsFiniteSet({j \in 1 .. i : q[j][1] = s})
<1>1. {j \in 1 .. i : q[j][1] = s} \in SUBSET (1 .. i) /\ IsFiniteSet(1 .. i)
  BY FS_Interval
<1>2. IsFiniteSet({j \in 1 .. i : q[j][1] = s})
  BY <1>1, FS_Subset
<1>3. QED BY <1>2, FS_CardinalityType DEF Cnt

LEMMA CntAppend ==
  ASSUME NEW q \in Seq(Items), NEW e \in Items, NEW s
  PROVE  /\ \A i \in 0 .. Len(q) : Cnt(Append(q, e), s, i) = Cnt(q, s, i)
         /\ Cnt(Append(q, e), s, Len(q) + 1) = Cnt(q, s, Len(q)) + (IF e[1] = s THEN 1 ELSE 0)
<1> DEFINE p == Append(q, e)
<1>1. /\ Len(q) \in Nat /\ p[Len(q) + 1] = e
      /\ \A j \in 1 .. Len(q) : p[j] = q[j]
  BY AppendProperties
<1> HIDE DEF p
<1>2. ASSUME NEW i \in 0 .. Len(q) PROVE Cnt(p, s, i) = Cnt(q, s, i)
  <2>1. {j \in 1 .. i : p[j][1] = s} = {j \in 1 .. i : q[j][1] = s}
    BY <1>1
  <2>2. QED BY <2>1 DEF Cnt
<1>3. Cnt(p, s, Len(q) + 1) = Cnt(q, s, Len(q)) + (IF e[1] = s THEN 1 ELSE 0)
  <2> DEFINE A == {j \in 1 .. Len(q) : q[j][1] = s}
  <2>1. IsFiniteSet(A) /\ Cnt(q, s, Len(q)) = Cardinality(A) /\ Cardinality(A) \in Nat
    BY <1>1, CntNat DEF Cnt
  <2>2. Len(q) + 1 \notin A
    BY <1>1
  <2>3. CASE e[1] = s
    <3>1. {j \in 1 .. (Len(q) + 1) : p[j][1] = s} = A \cup {Len(q) + 1}
      BY <1>1, <2>3
    <3>2. QED BY <2>1, <2>2, <2>3, <3>1, FS_AddElement DEF Cnt
  <2>4. CASE e[1] # s
    <3>1. {j \in 1 .. (Len(q) + 1) : p[j][1] = s} = A
      BY <1>1, <2>4
    <3>2. Cnt(p, s, Len(q) + 1) = Cardinality(A)
      BY <3>1, Zenon DEF Cnt
    <3>3. QED BY <2>1, <2>4, <3>2
  <2>5. QED BY <2>3, <2>4
<1>4. QED BY <1>2, <1>3 DEF p

LEMMA CntTail ==
  ASSUME NEW q \in Seq(Items), q # <<>>, NEW s, NEW i \in 0 .. Len(q) - 1
  PROVE  Cnt(q, s, i + 1) = Cnt(Tail(q), s, i) + (IF q[1][1] = s THEN 1 ELSE 0)
<1> DEFINE t == Tail(q)
           A == {j \in 1 .. i : t[j][1] = s}
           B == {j \in 2 .. (i + 1) : q[j][1] = s}
<1>1. Len(q) \in Nat /\ i \in Nat /\ Len(t) = Len(q) - 1 /\ \A j \in 1 .. Len(t) : t[j] = q[j + 1]
  BY HeadTailProperties
<1> HIDE DEF t
<1>2. IsFiniteSet(A) /\ Cnt(t, s, i) = Cardinality(A) /\ Cardinality(A) \in Nat
  BY <1>1, CntNat DEF Cnt
<1>3. ExistsBijection(A, B)
  <2> DEFINE f == [j \in A |-> j + 1]
  <2>1. f \in [A -> B]
    BY <1>1
  <2>2. \A x, y \in A : f[x] = f[y] => x = y
    BY <1>1
  <2>3. \A y \in B : \E x \in A : f[x] = y
    <3> SUFFICES ASSUME NEW y \in B PROVE \E x \in A : f[x] = y
      OBVIOUS
    <3>1. y - 1 \in 1 .. i /\ y - 1 \in 1 .. Len(t) /\ y - 1 + 1 = y
      BY <1>1
    <3>2. t[y - 1] = q[y]
      BY <1>1, <3>1
    <3>3. y - 1 \in A
      BY <3>1, <3>2
    <3>4. QED BY <3>1, <3>3
  <2> HIDE DEF A, B, f
  <2>4. f \in Bijection(A, B)
    BY <2>1, <2>2, <2>3 DEF Bijection, Injection, IsInjective, Surjection
  <2>5. QED BY <2>4 DEF ExistsBijection
<1>4. IsFiniteSet(B) /\ Cardinality(B) = Cardinality(A)
  BY <1>2, <1>3, FS_Bijection
<1>5. 1 \notin B
  OBVIOUS
<1>6. CASE q[1][1] = s
  <2>1. {j \in 1 .. (i + 1) : q[j][1] = s} = B \cup {1}
    BY <1>1, <1>6
  <2>2. QED BY <1>2, <1>4, <1>5, <1>6, <2>1, FS_AddElement DEF Cnt, t
<1>7. CASE q[1][1] # s
  <2>1. {j \in 1 .. (i + 1) : q[j][1] = s} = B
    BY <1>1, <1>7
  <2>2. Cnt(q, s, i + 1) = Cardinality(B)
    BY <2>1, Zenon DEF Cnt
  <2>3. Cnt(q, s, i + 1) = Cnt(t, s, i) /\ Cnt(t, s, i) \in Nat
    BY <1>2, <1>4, <2>2, Zenon
  <2> HIDE DEF A, B
  <2>4. QED BY <1>7, <2>3 DEF t
<1>8. QED BY <1>6, <1>7

LEMMA QueuedIsCnt ==
  \A s, i : Queued(s, i) = Cnt(incoming, s, i) /\ Queued(s, i)' = Cnt(incoming', s, i)
BY DEF Queued, Cnt

LEMMA AppendKeeps ==
  ASSUME TypeOK, NEW s \in Sessions, OrderOK(s), NEW e \in Items, e[1] # s,
         incoming' = Append(incoming, e),
         UNCHANGED <<delivered[s], rheld[s], took[s]>>, rpc[s] = "done" => rpc'[s] = "done"
  PROVE  OrderOK(s)'
<1>1. incoming \in Seq(Items) /\ Len(incoming) \in Nat
  BY Shapes
<1>2. /\ Len(incoming') = Len(incoming) + 1 /\ incoming'[Len(incoming) + 1] = e
      /\ \A i \in 1 .. Len(incoming) : incoming'[i] = incoming[i]
  BY <1>1, AppendProperties
<1>3. /\ \A i \in 0 .. Len(incoming) : Queued(s, i)' = Queued(s, i)
      /\ Cnt(incoming', s, Len(incoming) + 1) = Queued(s, Len(incoming))
  <2>1. /\ \A i \in 0 .. Len(incoming) : Cnt(incoming', s, i) = Cnt(incoming, s, i)
        /\ Cnt(incoming', s, Len(incoming) + 1) = Cnt(incoming, s, Len(incoming)) + 0
    BY <1>1, CntAppend
  <2>2. Cnt(incoming, s, Len(incoming)) \in Nat
    BY <1>1, CntNat
  <2>3. QED BY <2>1, <2>2, QueuedIsCnt
<1>4. Queued(s, Len(incoming))' = Queued(s, Len(incoming))
  <2>1. Queued(s, Len(incoming))' = Cnt(incoming', s, Len(incoming'))
    BY DEF Queued, Cnt
  <2>2. QED BY <1>2, <1>3, <2>1
<1>5. ASSUME NEW i \in 1 .. Len(incoming'), incoming'[i][1] = s
      PROVE  incoming'[i][2] = delivered'[s] + Queued(s, i)'
  <2>1. i \in 1 .. Len(incoming)
    BY <1>1, <1>2, <1>5
  <2>2. incoming'[i] = incoming[i] /\ Queued(s, i)' = Queued(s, i)
    BY <1>2, <1>3, <2>1
  <2>3. QED BY <1>5, <2>1, <2>2 DEF OrderOK
<1>6. QED BY <1>4, <1>5 DEF OrderOK

LEMMA SameKeeps ==
  ASSUME NEW s \in Sessions, OrderOK(s), UNCHANGED incoming,
         UNCHANGED <<delivered[s], rheld[s], took[s]>>, rpc[s] = "done" => rpc'[s] = "done"
  PROVE  OrderOK(s)'
<1>1. \A i : Queued(s, i)' = Queued(s, i)
  BY DEF Queued
<1>2. Queued(s, Len(incoming))' = Queued(s, Len(incoming))
  BY DEF Queued
<1>3. QED BY <1>1, <1>2 DEF OrderOK

LEMMA PlusAssoc == \A a, b \in Nat : a + b + 1 = a + (b + 1)
OBVIOUS

(* The read loop of s sends what it holds. *)
LEMMA SendKeeps ==
  ASSUME TypeOK, NEW s \in Sessions, OrderOK(s), rheld[s] > 0, rpc[s] # "done",
         incoming' = Append(incoming, <<s, rheld[s]>>),
         UNCHANGED <<delivered[s], took[s]>>, rheld'[s] = 0
  PROVE  OrderOK(s)'
<1>1. /\ incoming \in Seq(Items) /\ Len(incoming) \in Nat /\ <<s, rheld[s]>> \in Items
      /\ delivered[s] \in Nat /\ rheld[s] \in Nat
  BY Shapes DEF TypeOK, Items
<1>2. /\ Len(incoming') = Len(incoming) + 1 /\ incoming'[Len(incoming) + 1] = <<s, rheld[s]>>
      /\ \A i \in 1 .. Len(incoming) : incoming'[i] = incoming[i]
  BY <1>1, AppendProperties
<1>n. Queued(s, Len(incoming)) \in Nat
  BY <1>1, CntNat, QueuedIsCnt
<1>3. /\ \A i \in 0 .. Len(incoming) : Queued(s, i)' = Queued(s, i)
      /\ Cnt(incoming', s, Len(incoming) + 1) = Queued(s, Len(incoming)) + 1
  <2>1. /\ \A i \in 0 .. Len(incoming) : Cnt(incoming', s, i) = Cnt(incoming, s, i)
        /\ Cnt(incoming', s, Len(incoming) + 1) = Cnt(incoming, s, Len(incoming)) + 1
    BY <1>1, CntAppend
  <2>3. QED BY <2>1, QueuedIsCnt
<1>4. Queued(s, Len(incoming))' = Queued(s, Len(incoming)) + 1
  <2>1. Queued(s, Len(incoming))' = Cnt(incoming', s, Len(incoming'))
    BY DEF Queued, Cnt
  <2>2. QED BY <1>2, <1>3, <2>1
<1>5. ASSUME NEW i \in 1 .. Len(incoming'), incoming'[i][1] = s
      PROVE  incoming'[i][2] = delivered'[s] + Queued(s, i)'
  <2>1. CASE i \in 1 .. Len(incoming)
    <3>1. incoming'[i] = incoming[i] /\ Queued(s, i)' = Queued(s, i)
      BY <1>2, <1>3, <2>1
    <3>2. QED BY <1>5, <2>1, <3>1 DEF OrderOK
  <2>2. CASE i = Len(incoming) + 1
    <3>1. incoming'[i][2] = rheld[s]
      BY <1>2, <2>2
    <3>2. Queued(s, i)' = Queued(s, Len(incoming)) + 1
      BY <1>3, <2>2, QueuedIsCnt
    <3>3. rheld[s] = delivered[s] + Queued(s, Len(incoming)) + 1
      BY DEF OrderOK
    <3>4. delivered'[s] = delivered[s]
      OBVIOUS
    <3>5. delivered'[s] + (Queued(s, Len(incoming)) + 1) = rheld[s]
      BY <1>1, <1>n, <3>3, <3>4, PlusAssoc, Zenon
    <3>6. QED BY <3>1, <3>2, <3>5, Zenon
  <2>3. QED BY <1>1, <1>2, <2>1, <2>2
<1>6. took'[s] = delivered'[s] + Queued(s, Len(incoming))' + 0
  BY <1>1, <1>n, <1>4 DEF OrderOK
<1>7. QED BY <1>5, <1>6 DEF OrderOK

(* ReadFrom takes the first of incoming. *)
LEMMA DeliverKeeps ==
  ASSUME TypeOK, NEW s \in Sessions, OrderOK(s), Deliver,
         UNCHANGED <<rheld, took, rpc>>
  PROVE  OrderOK(s)'
<1>1. /\ incoming \in Seq(Items) /\ incoming # <<>> /\ incoming' = Tail(incoming)
      /\ delivered[s] \in Nat /\ delivered = [u \in Sessions |-> delivered[u]]
      /\ Err \notin Sessions
  BY Shapes, ConstFacts DEF TypeOK, Deliver
<1>2. /\ Len(incoming) \in Nat /\ Len(incoming) > 0 /\ Len(incoming') = Len(incoming) - 1
      /\ Head(incoming) = incoming[1]
      /\ \A i \in 1 .. Len(incoming') : incoming'[i] = incoming[i + 1]
  BY <1>1, HeadTailProperties
<1> DEFINE d == IF incoming[1][1] = s THEN 1 ELSE 0
<1>3. \A i \in 0 .. Len(incoming) - 1 : Queued(s, i + 1) = Queued(s, i)' + d /\ Queued(s, i)' \in Nat
  <2> SUFFICES ASSUME NEW i \in 0 .. Len(incoming) - 1
               PROVE  Queued(s, i + 1) = Queued(s, i)' + d /\ Queued(s, i)' \in Nat
    OBVIOUS
  <2>1. Cnt(incoming, s, i + 1) = Cnt(incoming', s, i) + d
    BY <1>1, CntTail
  <2>i. i \in Nat
    BY <1>2
  <2>2. Cnt(incoming', s, i) \in Nat
    BY <2>i, CntNat
  <2>3. QED BY <2>1, <2>2, QueuedIsCnt
<1>4. Queued(s, 0)' = 0
  <2>1. {j \in 1 .. 0 : incoming'[j][1] = s} = {}
    OBVIOUS
  <2>2. QED BY <2>1, FS_EmptySet DEF Queued
<1>5. delivered'[s] = delivered[s] + d
  <2>1. CASE incoming[1][1] = s
    <3>1. Queued(s, 1) = 1
      BY <1>2, <1>3, <1>4, <2>1
    <3>2. 1 \in 1 .. Len(incoming)
      BY <1>2
    <3>3. incoming[1][2] = delivered[s] + Queued(s, 1)
      BY <2>1, <3>2 DEF OrderOK
    <3>4. delivered'[s] = incoming[1][2]
      BY <1>1, <1>2, <2>1 DEF Deliver
    <3>5. QED BY <2>1, <3>1, <3>3, <3>4
  <2>2. CASE incoming[1][1] # s
    <3>1. delivered'[s] = delivered[s]
      BY <1>1, <1>2, <2>2 DEF Deliver
    <3>2. QED BY <1>1, <2>2, <3>1
  <2>3. QED BY <2>1, <2>2
<1>6. ASSUME NEW i \in 1 .. Len(incoming'), incoming'[i][1] = s
      PROVE  incoming'[i][2] = delivered'[s] + Queued(s, i)'
  <2>1. i + 1 \in 1 .. Len(incoming) /\ i \in 0 .. Len(incoming) - 1 /\ incoming'[i] = incoming[i + 1]
    BY <1>2
  <2>2. incoming[i + 1][2] = delivered[s] + Queued(s, i + 1)
    BY <1>6, <2>1 DEF OrderOK
  <2>3. Queued(s, i + 1) = Queued(s, i)' + d /\ Queued(s, i)' \in Nat
    BY <1>3, <2>1
  <2>4. QED BY <1>1, <1>5, <2>1, <2>2, <2>3
<1>7. /\ Queued(s, Len(incoming)) = Queued(s, Len(incoming))' + d
      /\ Queued(s, Len(incoming))' \in Nat
  <2>1. Queued(s, Len(incoming))' = Cnt(incoming', s, Len(incoming) - 1)
    BY <1>2 DEF Queued, Cnt
  <2>2. Len(incoming) - 1 \in 0 .. Len(incoming) - 1 /\ Len(incoming) - 1 + 1 = Len(incoming)
    BY <1>2
  <2>3. QED BY <1>3, <2>1, <2>2, QueuedIsCnt
<1>8. /\ rheld[s] > 0 => rheld[s] = delivered[s] + Queued(s, Len(incoming)) + 1
      /\ \/ took[s] = delivered[s] + Queued(s, Len(incoming)) + (IF rheld[s] > 0 THEN 1 ELSE 0)
         \/ rpc[s] = "done"
  BY DEF OrderOK
<1>9. delivered[s] + Queued(s, Len(incoming)) = delivered'[s] + Queued(s, Len(incoming))'
  BY <1>1, <1>5, <1>7
<1>10. QED BY <1>6, <1>8, <1>9 DEF OrderOK

LEMMA OrderStep ==
  ASSUME Inv, [Next]_vars, NEW u \in Sessions
  PROVE  OrderOK(u)'
<1>0. TypeOK /\ CountsOK /\ AcceptOK /\ CloseOK /\ SessionOK(u) /\ OrderOK(u)
  BY DEF Inv
<1>e. <<Err, 0>> \in Items /\ <<Err, 0>>[1] # u
  BY ConstFacts DEF Items
<1>1. ASSUME NEW s \in Sessions, SessionStep(s) PROVE OrderOK(u)'
  <2>f. /\ UNCHANGED delivered /\ (s # u => UNCHANGED <<rpc[u], rheld[u]>>)
    BY <1>0, <1>1, SessionFrame
  <2>q. Queued(u, Len(incoming)) \in Nat
    <3>1. Len(incoming) \in Nat
      BY <1>0, Shapes
    <3>2. QED BY <3>1, CntNat, QueuedIsCnt
  <2>s. /\ rheld[u] \in Nat /\ delivered[u] \in Nat /\ Queued(u, Len(incoming)) \in Nat
        /\ sent \in [Sessions -> Nat] /\ took \in [Sessions -> Nat]
    BY <1>0, <2>q DEF TypeOK, CountsOK
  <2>h. rheld[u] > 0 <=> rpc[u] = "send"
    BY <1>0 DEF SessionOK
  <2> USE Shapes, <1>0 DEF loopRest, loopVars, callVars
  <2>1. CASE ReadTop(s) \/ removePeer(s) \/ RemoveClose(s) \/ PeerSends(s) \/ PeerResets(s)
    <3>1. UNCHANGED <<incoming, rheld, took>> /\ (rpc[u] = "done" => rpc'[u] = "done")
      BY <2>1 DEF ReadTop, removePeer, RemoveClose, PeerSends, PeerResets
    <3>2. QED BY <2>f, <3>1, SameKeeps
  <2>2. CASE Read(s)
    <3>1. CASE s # u
      <4>1. UNCHANGED <<incoming, took[u]>>
        BY <2>2, <2>s, <3>1 DEF Read
      <4>2. QED BY <2>f, <3>1, <4>1, SameKeeps
    <3>2. CASE s = u /\ UNCHANGED <<took, rheld>>
      <4>1. UNCHANGED incoming /\ rpc[u] = "read"
        BY <2>2, <3>2 DEF Read
      <4>2. QED BY <2>f, <3>2, <4>1, SameKeeps
    <3>3. CASE s = u /\ ~UNCHANGED <<took, rheld>>
      <4>1. /\ UNCHANGED incoming /\ rpc[u] = "read" /\ took'[u] = took[u] + 1
            /\ rheld'[u] = took[u] + 1 /\ rpc'[u] = "send"
        BY <2>2, <2>s, <3>3 DEF Read
      <4>2. took[u] = delivered[u] + Queued(u, Len(incoming)) /\ took[u] \in Nat
        BY <2>s, <2>h, <4>1 DEF OrderOK
      <4>3. /\ \A i : Queued(u, i)' = Queued(u, i)
            /\ Queued(u, Len(incoming))' = Queued(u, Len(incoming))
        BY <4>1 DEF Queued
      <4>4. /\ rheld'[u] = delivered'[u] + Queued(u, Len(incoming))' + 1
            /\ took'[u] = delivered'[u] + Queued(u, Len(incoming))' + 1
            /\ rheld'[u] > 0
        BY <2>f, <2>s, <4>1, <4>2, <4>3
      <4>5. \A i \in 1 .. Len(incoming') : incoming'[i][1] = u => incoming'[i][2] = delivered'[u] + Queued(u, i)'
        BY <2>f, <4>1, <4>3 DEF OrderOK
      <4>6. QED BY <4>4, <4>5 DEF OrderOK
    <3>4. QED BY <3>1, <3>2, <3>3
  <2>3. CASE ReadSendErr(s)
    <3>1. /\ incoming' = Append(incoming, <<Err, 0>>) /\ UNCHANGED <<rheld, took>>
          /\ rpc[u] = "done" => rpc'[u] = "done"
      BY <2>3 DEF ReadSendErr
    <3>2. QED BY <1>e, <2>f, <3>1, AppendKeeps
  <2>4. CASE ReadSend(s)
    <3>0. UNCHANGED took /\ (rpc[u] = "done" => rpc'[u] = "done") /\ rpc[s] = "send"
          /\ rheld' = [rheld EXCEPT ![s] = 0]
      BY <2>4 DEF ReadSend
    <3>1. CASE s # u /\ UNCHANGED incoming
      BY <2>f, <3>0, <3>1, SameKeeps
    <3>2. CASE s # u /\ ~UNCHANGED incoming
      <4>1. incoming' = Append(incoming, <<s, rheld[s]>>)
        BY <2>4, <3>2 DEF ReadSend
      <4>2. <<s, rheld[s]>> \in Items /\ <<s, rheld[s]>>[1] # u
        BY <3>2 DEF Items, TypeOK
      <4>3. QED BY <2>f, <3>0, <3>2, <4>1, <4>2, AppendKeeps
    <3>3. CASE s = u /\ UNCHANGED incoming
      <4>1. rpc'[u] = "done" /\ rheld'[u] = 0
        BY <2>4, <3>3, <3>0, AppendProperties DEF ReadSend, Items, TypeOK
      <4>2. /\ \A i : Queued(u, i)' = Queued(u, i)
        BY <3>3 DEF Queued
      <4>3. QED BY <2>f, <3>3, <4>1, <4>2 DEF OrderOK
    <3>4. CASE s = u /\ ~UNCHANGED incoming
      <4>1. incoming' = Append(incoming, <<u, rheld[u]>>) /\ rheld'[u] = 0
        BY <2>4, <3>0, <3>4 DEF ReadSend
      <4>2. rheld[u] > 0 /\ rpc[u] # "done"
        BY <2>h, <3>0, <3>4
      <4>3. QED BY <2>f, <3>0, <4>1, <4>2, SendKeeps
    <3>5. QED BY <3>1, <3>2, <3>3, <3>4
  <2>5. QED BY <1>1, <2>1, <2>2, <2>3, <2>4, Zenon DEF SessionStep, ReadLoop
<1>2. CASE AcceptStep
  <2>1. UNCHANGED <<delivered, took, rheld>>
    BY <1>2, AcceptFrame
  <2>2. rpc[u] = "done" => rpc'[u] = "done"
    BY <1>0, <1>2, Shapes
       DEF AcceptStep, AcceptLoop, AcceptTop, Accept, AcceptError, AcceptSendErr, InsertPeer, AcceptOK
  <2>3. UNCHANGED incoming \/ incoming' = Append(incoming, <<Err, 0>>)
    BY <1>2 DEF AcceptStep, AcceptLoop, AcceptTop, Accept, AcceptError, AcceptSendErr, InsertPeer
  <2>4. QED BY <1>0, <1>e, <2>1, <2>2, <2>3, SameKeeps, AppendKeeps
<1>3. CASE CallerStep
  <2>1. UNCHANGED <<took, rpc, rheld>>
    BY <1>3, CallerFrame DEF netVars, loopVars
  <2>2. Deliver \/ UNCHANGED <<incoming, delivered>>
    BY <1>3 DEF CallerStep, Caller, ReadSelect, WriteLookup, Write, WriteWoken, ReadFrom, ReadCancelled,
                WriteTo, WriteCancelled, Writable
  <2>3. QED BY <1>0, <2>1, <2>2, DeliverKeeps, SameKeeps
<1>4. CASE CloserStep \/ UNCHANGED vars
  <2>1. UNCHANGED <<took, rpc, rheld, incoming, delivered>>
    BY <1>4, CloserFrame DEF vars, netVars, loopVars, callVars
  <2>2. QED BY <1>0, <2>1, SameKeeps
<1>5. QED BY <1>1, <1>2, <1>3, <1>4, StepCases
-----------------------------------------------------------------------------
(* Types, in groups that the steps touch together. *)
TypeMap == peers \in [Keys -> Sessions \cup {None}] /\ displaced \subseteq Sessions
TypeFlags == isNil \in BOOLEAN /\ panicked \in BOOLEAN /\ listening \in BOOLEAN
TypeQueue ==
  /\ incoming \in Seq(Items) /\ Len(incoming) <= IncomingCap
  /\ delivered \in [Sessions -> Nat]
TypeLoops ==
  /\ apc \in {"top", "accept", "insert", "sendErr", "done"}
  /\ aheld \in Sessions \cup {None}
  /\ rpc \in [Sessions -> {"off", "top", "read", "send", "sendErr", "remove", "close", "done"}]
  /\ rheld \in [Sessions -> Nat]
  /\ sess \in [Sessions -> {"none", "pend", "open", "reset", "closed"}]
TypeCalls ==
  /\ cpc \in {"open", "stop", "wait", "peers", "listener", "done"}
  /\ pc \in {"idle", "select", "lookup", "write", "parked"}
  /\ wsess \in Sessions \cup {None}
TypeCounts ==
  /\ sent \in [Sessions -> Nat] /\ took \in [Sessions -> Nat]
  /\ \A s \in Sessions : sent[s] <= Msgs[s] /\ took[s] <= sent[s]

LEMMA TypeSplit ==
  /\ TypeOK /\ CountsOK <=>
       TypeMap /\ TypeFlags /\ TypeQueue /\ TypeLoops /\ TypeCalls /\ TypeCounts
  /\ (TypeOK /\ CountsOK)' <=>
       (TypeMap /\ TypeFlags /\ TypeQueue /\ TypeLoops /\ TypeCalls /\ TypeCounts)'
<1>1. CountsOK => ((\A s \in Sessions : sent[s] \in 0 .. Msgs[s] /\ took[s] \in 0 .. sent[s])
                   <=> \A s \in Sessions : sent[s] <= Msgs[s] /\ took[s] <= sent[s])
  BY ConstFacts DEF CountsOK
<1>2. CountsOK' => ((\A s \in Sessions : sent'[s] \in 0 .. Msgs[s] /\ took'[s] \in 0 .. sent'[s])
                   <=> \A s \in Sessions : sent'[s] <= Msgs[s] /\ took'[s] <= sent'[s])
  BY ConstFacts DEF CountsOK
<1>3. TypeOK /\ CountsOK <=>
       TypeMap /\ TypeFlags /\ TypeQueue /\ TypeLoops /\ TypeCalls /\ TypeCounts
  BY <1>1, Zenon DEF TypeOK, CountsOK, TypeMap, TypeFlags, TypeQueue, TypeLoops, TypeCalls, TypeCounts, Items
<1>4. (TypeOK /\ CountsOK)' <=>
       (TypeMap /\ TypeFlags /\ TypeQueue /\ TypeLoops /\ TypeCalls /\ TypeCounts)'
  BY <1>2, Zenon DEF TypeOK, CountsOK, TypeMap, TypeFlags, TypeQueue, TypeLoops, TypeCalls, TypeCounts, Items
<1>5. QED BY <1>3, <1>4

LEMMA TypeSession ==
  ASSUME TypeMap, TypeFlags, TypeQueue, TypeLoops, TypeCalls, TypeCounts, TypeOK, CountsOK,
         NEW s \in Sessions, SessionStep(s)
  PROVE  (TypeMap /\ TypeFlags /\ TypeQueue /\ TypeLoops /\ TypeCalls /\ TypeCounts)'
<1>1. UNCHANGED <<apc, aheld, isNil, panicked, displaced, cpc, pc, wsess, delivered, listening>>
  BY SessionFrame
<1>2. TypeFlags' /\ TypeCalls'
  BY <1>1, Zenon DEF TypeFlags, TypeCalls
<1>3. peers' = peers \/ peers' = [peers EXCEPT ![KeyOf[s]] = IF @ = s THEN None ELSE @]
  BY DEF SessionStep, ReadLoop, ReadTop, Read, ReadSendErr, ReadSend, removePeer, RemoveClose,
         PeerSends, PeerResets, mapVars
<1>4. TypeMap'
  BY <1>1, <1>3, ConstFacts DEF TypeMap
<1>5. UNCHANGED incoming \/ \E e \in Items : incoming' = Append(incoming, e) /\ Len(incoming) < IncomingCap
  <2>1. <<s, rheld[s]>> \in Items /\ <<Err, 0>> \in Items
    BY DEF TypeLoops, Items
  <2>2. QED BY <2>1
       DEF SessionStep, ReadLoop, ReadTop, Read, ReadSendErr, ReadSend, removePeer, RemoveClose,
           PeerSends, PeerResets
<1>6. TypeQueue'
  <2>1. CASE UNCHANGED incoming
    BY <1>1, <2>1 DEF TypeQueue
  <2>2. ASSUME NEW e \in Items, incoming' = Append(incoming, e), Len(incoming) < IncomingCap PROVE TypeQueue'
    <3>1. incoming \in Seq(Items) /\ Len(incoming) \in Nat /\ IncomingCap \in Nat
      BY ConstFacts DEF TypeQueue
    <3>2. incoming' \in Seq(Items) /\ Len(incoming') = Len(incoming) + 1
      BY <2>2, <3>1, AppendProperties
    <3>3. Len(incoming') <= IncomingCap
      BY <2>2, <3>1, <3>2
    <3>4. QED BY <1>1, <3>2, <3>3 DEF TypeQueue
  <2>3. QED BY <1>5, <2>1, <2>2
<1>7. TypeCounts'
  <2>1. /\ sent' = sent \/ (sent' = [sent EXCEPT ![s] = @ + 1] /\ sent[s] < Msgs[s] /\ UNCHANGED took)
        /\ took' = took \/ (took' = [took EXCEPT ![s] = @ + 1] /\ took[s] < sent[s] /\ UNCHANGED sent)
    BY DEF SessionStep, ReadLoop, ReadTop, Read, ReadSendErr, ReadSend, removePeer, RemoveClose,
         PeerSends, PeerResets, loopRest
  <2>2. QED BY <2>1, ConstFacts DEF TypeCounts
<1>8. TypeLoops'
  <2>1. took[s] + 1 \in Nat
    BY DEF TypeCounts
  <2>2. rheld' = rheld \/ rheld' = [rheld EXCEPT ![s] = took[s] + 1] \/ rheld' = [rheld EXCEPT ![s] = 0]
    BY DEF SessionStep, ReadLoop, ReadTop, Read, ReadSendErr, ReadSend, removePeer, RemoveClose,
         PeerSends, PeerResets, loopVars
  <2>3. \/ rpc' = rpc
        \/ \E x \in {"off", "top", "read", "send", "sendErr", "remove", "close", "done"} :
             rpc' = [rpc EXCEPT ![s] = x]
    BY DEF SessionStep, ReadLoop, ReadTop, Read, ReadSendErr, ReadSend, removePeer, RemoveClose,
         PeerSends, PeerResets, loopVars
  <2>4. \/ sess' = sess
        \/ \E x \in {"none", "pend", "open", "reset", "closed"} : sess' = [sess EXCEPT ![s] = x]
    BY DEF SessionStep, ReadLoop, ReadTop, Read, ReadSendErr, ReadSend, removePeer, RemoveClose,
         PeerSends, PeerResets, TypeLoops
  <2>5. QED BY <1>1, <2>1, <2>2, <2>3, <2>4 DEF TypeLoops
<1>9. QED BY <1>2, <1>4, <1>6, <1>7, <1>8

LEMMA TypeAccept ==
  ASSUME TypeMap, TypeFlags, TypeQueue, TypeLoops, TypeCalls, TypeCounts, AcceptOK, AcceptStep
  PROVE  (TypeMap /\ TypeFlags /\ TypeQueue /\ TypeLoops /\ TypeCalls /\ TypeCounts)'
<1>1. UNCHANGED <<cpc, pc, wsess, delivered, sent, took, listening, isNil, rheld>>
  BY AcceptFrame
<1>2. TypeCalls' /\ TypeCounts'
  BY <1>1, Zenon DEF TypeCalls, TypeCounts
<1>3. TypeFlags'
  <2>1. panicked' \in {panicked, isNil}
    BY DEF AcceptStep, AcceptLoop, AcceptTop, Accept, AcceptError, AcceptSendErr, InsertPeer, mapVars
  <2>2. QED BY <1>1, <2>1, Zenon DEF TypeFlags
<1>4. TypeQueue'
  <2>1. UNCHANGED incoming \/ (incoming' = Append(incoming, <<Err, 0>>) /\ Len(incoming) < IncomingCap)
    BY DEF AcceptStep, AcceptLoop, AcceptTop, Accept, AcceptError, AcceptSendErr, InsertPeer
  <2>2. incoming \in Seq(Items) /\ Len(incoming) \in Nat /\ IncomingCap \in Nat /\ <<Err, 0>> \in Items
    BY ConstFacts DEF TypeQueue, Items
  <2>3. CASE UNCHANGED incoming
    BY <1>1, <2>3 DEF TypeQueue
  <2>4. CASE incoming' = Append(incoming, <<Err, 0>>) /\ Len(incoming) < IncomingCap
    <3>2. incoming' \in Seq(Items) /\ Len(incoming') = Len(incoming) + 1
      BY <2>2, <2>4, AppendProperties
    <3>3. Len(incoming') <= IncomingCap
      BY <2>2, <2>4, <3>2
    <3>4. QED BY <1>1, <3>2, <3>3 DEF TypeQueue
  <2>5. QED BY <2>1, <2>3, <2>4
<1>5. TypeMap' /\ TypeLoops'
  <2>1. CASE AcceptTop \/ AcceptError \/ AcceptSendErr
    BY <1>1, <2>1 DEF AcceptTop, AcceptError, AcceptSendErr, AcceptFailed, mapVars, TypeMap, TypeLoops
  <2>2. CASE Accept
    <3>1. /\ UNCHANGED <<peers, displaced, rpc>>
          /\ apc' \in {"done", "sendErr", "insert"} /\ aheld' \in Sessions \cup {aheld}
          /\ sess' = sess \/ \E s \in Sessions : sess' = [sess EXCEPT ![s] = "open"]
      BY <2>2 DEF Accept, AcceptFailed, mapVars
    <3>2. QED BY <1>1, <3>1 DEF TypeMap, TypeLoops
  <2>3. CASE InsertPeer
    <3>1. PICK h \in Sessions : h = aheld
      BY <2>3 DEF InsertPeer, AcceptOK
    <3>2. /\ apc' = "top" /\ aheld' = None /\ UNCHANGED sess
          /\ peers' = [peers EXCEPT ![KeyOf[h]] = h]
          /\ displaced' = displaced \cup ({peers[KeyOf[h]]} \ {None})
          /\ rpc' = [rpc EXCEPT ![h] = "top"]
      BY <2>3, <3>1 DEF InsertPeer
    <3>3. TypeMap'
      BY <3>2, ConstFacts DEF TypeMap
    <3>4. TypeLoops'
      BY <1>1, <3>2 DEF TypeLoops
    <3>5. QED BY <3>3, <3>4
  <2>4. QED BY <2>1, <2>2, <2>3 DEF AcceptStep, AcceptLoop
<1>6. QED BY <1>2, <1>3, <1>4, <1>5

LEMMA TypeCaller ==
  ASSUME TypeMap, TypeFlags, TypeQueue, TypeLoops, TypeCalls, TypeCounts, CallerStep
  PROVE  (TypeMap /\ TypeFlags /\ TypeQueue /\ TypeLoops /\ TypeCalls /\ TypeCounts)'
<1>1. UNCHANGED <<netVars, loopVars, mapVars, cpc>>
  BY CallerFrame
<1>2. TypeMap' /\ TypeFlags' /\ TypeLoops' /\ TypeCounts'
  BY <1>1, Zenon DEF TypeMap, TypeFlags, TypeLoops, TypeCounts, netVars, loopVars, mapVars
<1>3. TypeCalls'
  <2>1. wsess' \in {wsess, None} \/ \E k \in Keys : wsess' = peers[k]
    BY DEF CallerStep, Caller, ReadSelect, WriteLookup, Write, WriteWoken, ReadFrom, ReadCancelled,
           WriteTo, WriteCancelled, Writable, WriteReturn
  <2>2. pc' \in {"idle", "select", "lookup", "write", "parked"}
    BY DEF CallerStep, Caller, ReadSelect, Deliver, WriteLookup, Write, WriteWoken, ReadFrom, ReadCancelled,
           WriteTo, WriteCancelled, Writable, WriteReturn
  <2>3. QED BY <1>1, <2>1, <2>2 DEF TypeCalls, TypeMap
<1>4. TypeQueue'
  <2>1. Deliver \/ UNCHANGED <<incoming, delivered>>
    BY DEF CallerStep, Caller, ReadSelect, WriteLookup, Write, WriteWoken, ReadFrom, ReadCancelled,
           WriteTo, WriteCancelled, Writable
  <2>2. CASE UNCHANGED <<incoming, delivered>>
    BY <2>2 DEF TypeQueue
  <2>3. CASE Deliver
    <3>1. /\ incoming # <<>> /\ incoming' = Tail(incoming)
          /\ delivered' = IF Head(incoming)[1] = Err THEN delivered
                          ELSE [delivered EXCEPT ![Head(incoming)[1]] = Head(incoming)[2]]
      BY <2>3 DEF Deliver
    <3>2. incoming \in Seq(Items) /\ Len(incoming) \in Nat /\ Len(incoming) <= IncomingCap /\ IncomingCap \in Nat
      BY ConstFacts DEF TypeQueue
    <3>3. Head(incoming) \in Items /\ incoming' \in Seq(Items) /\ Len(incoming') = Len(incoming) - 1
      BY <3>1, <3>2, HeadTailProperties
    <3>4. Len(incoming') <= IncomingCap
      BY <3>2, <3>3
    <3>5. PICK x : x = Head(incoming)
      OBVIOUS
    <3>6. x[1] = Err \/ (x[1] \in Sessions /\ x[2] \in Nat)
      BY <3>3, <3>5 DEF Items
    <3>7. delivered \in [Sessions -> Nat]
      BY DEF TypeQueue
    <3>8. delivered' \in [Sessions -> Nat]
      BY <3>1, <3>5, <3>6, <3>7
    <3>9. QED BY <3>3, <3>4, <3>8 DEF TypeQueue
  <2>4. QED BY <2>1, <2>2, <2>3
<1>5. QED BY <1>2, <1>3, <1>4

LEMMA TypeCloser ==
  ASSUME TypeMap, TypeFlags, TypeQueue, TypeLoops, TypeCalls, TypeCounts, CloserStep
  PROVE  (TypeMap /\ TypeFlags /\ TypeQueue /\ TypeLoops /\ TypeCalls /\ TypeCounts)'
<1>1. UNCHANGED <<apc, aheld, rpc, rheld, incoming, pc, wsess, delivered, sent, took, peers, panicked, displaced>>
  BY CloserFrame
<1>2. TypeMap' /\ TypeQueue' /\ TypeCounts'
  BY <1>1, Zenon DEF TypeMap, TypeQueue, TypeCounts
<1>3. cpc' \in {"open", "stop", "wait", "peers", "listener", "done"}
  BY DEF CloserStep, Closer, Close, CloseStop, CloseWait, ClosePeers, CloseListener
<1>4. TypeCalls'
  BY <1>1, <1>3 DEF TypeCalls
<1>5. TypeFlags'
  <2>1. isNil' \in {isNil, TRUE}
    BY DEF CloserStep, Closer, Close, CloseStop, CloseWait, ClosePeers, CloseListener, mapVars
  <2>2. listening' \in BOOLEAN
    <3>1. CASE CloseListener
      BY <3>1, Zenon DEF CloseListener
    <3>2. CASE ~CloseListener
      <4>1. listening' = listening
        BY <3>2 DEF CloserStep, Closer, Close, CloseStop, CloseWait, ClosePeers
      <4>2. QED BY <4>1, Zenon DEF TypeFlags
    <3>3. QED BY <3>1, <3>2
  <2>3. QED BY <1>1, <2>1, <2>2, Zenon DEF TypeFlags
<1>6. TypeLoops'
  <2>1. sess' \in [Sessions -> {"none", "pend", "open", "reset", "closed"}]
    <3>1. CASE Close \/ CloseStop \/ CloseWait
      BY <3>1 DEF Close, CloseStop, CloseWait, TypeLoops
    <3>2. CASE ClosePeers
      BY <3>2 DEF ClosePeers, TypeLoops
    <3>3. CASE CloseListener
      BY <3>3 DEF CloseListener, TypeLoops
    <3>4. QED BY <3>1, <3>2, <3>3 DEF CloserStep, Closer
  <2>2. QED BY <1>1, <2>1 DEF TypeLoops
<1>7. QED BY <1>2, <1>4, <1>5, <1>6
-----------------------------------------------------------------------------
LEMMA InvInit == Init => Inv
<1> SUFFICES ASSUME Init PROVE Inv
  OBVIOUS
<1>1. TypeFlags
  BY Zenon DEF Init, TypeFlags
<1>2. TypeMap /\ TypeLoops /\ TypeCalls
  BY DEF Init, TypeMap, TypeLoops, TypeCalls
<1>3. TypeQueue /\ TypeCounts
  BY ConstFacts DEF Init, TypeQueue, TypeCounts
<1>4. AcceptOK /\ CloseOK
  BY DEF Init, AcceptOK, CloseOK
<1>5. ASSUME NEW s \in Sessions PROVE SessionOK(s)
  BY DEF Init, SessionOK
<1>6. ASSUME NEW s \in Sessions PROVE OrderOK(s)
  <2>1. Len(incoming) = 0 /\ delivered[s] = 0 /\ rheld[s] = 0 /\ took[s] = 0
    BY DEF Init
  <2>2. {j \in 1 .. 0 : incoming[j][1] = s} = {}
    OBVIOUS
  <2>3. Queued(s, Len(incoming)) = 0
    BY <2>1, <2>2, FS_EmptySet DEF Queued
  <2>4. QED BY <2>1, <2>3 DEF OrderOK
<1>7. QED BY <1>1, <1>2, <1>3, <1>4, <1>5, <1>6, TypeSplit DEF Inv

(* The invariant of a packetConn. *)
THEOREM PacketConnInvariant == Spec => []Inv
<1>1. Inv /\ [Next]_vars => Inv'
  <2> SUFFICES ASSUME Inv, [Next]_vars PROVE Inv'
    OBVIOUS
  <2>0. /\ TypeOK /\ CountsOK /\ AcceptOK /\ CloseOK /\ \A u \in Sessions : SessionOK(u)
        /\ TypeMap /\ TypeFlags /\ TypeQueue /\ TypeLoops /\ TypeCalls /\ TypeCounts
    BY TypeSplit DEF Inv
  <2>1. ASSUME NEW u \in Sessions PROVE OrderOK(u)'
    BY <2>1, OrderStep
  <2>2. /\ (TypeMap /\ TypeFlags /\ TypeQueue /\ TypeLoops /\ TypeCalls /\ TypeCounts)'
        /\ AcceptOK' /\ CloseOK' /\ \A u \in Sessions : SessionOK(u)'
    <3>1. ASSUME NEW s \in Sessions, SessionStep(s)
          PROVE  /\ (TypeMap /\ TypeFlags /\ TypeQueue /\ TypeLoops /\ TypeCalls /\ TypeCounts)'
                 /\ AcceptOK' /\ CloseOK' /\ \A u \in Sessions : SessionOK(u)'
      BY <2>0, <3>1, TypeSession, CoreSession
    <3>2. CASE AcceptStep
      BY <2>0, <3>2, TypeAccept, CoreAccept
    <3>3. CASE CallerStep
      <4>1. UNCHANGED <<sess, apc, aheld, rpc, rheld, peers, isNil, panicked, displaced, cpc>>
        BY <3>3, CallerFrame DEF netVars, loopVars, mapVars
      <4>2. QED BY <2>0, <3>3, <4>1, TypeCaller DEF AcceptOK, CloseOK, SessionOK
    <3>4. CASE CloserStep
      BY <2>0, <3>4, TypeCloser, CoreCloser
    <3>5. CASE UNCHANGED vars
      BY <2>0, <3>5 DEF vars, netVars, loopVars, mapVars, callVars, TypeMap, TypeFlags, TypeQueue,
                        TypeLoops, TypeCalls, TypeCounts, AcceptOK, CloseOK, SessionOK
    <3>6. QED BY <3>1, <3>2, <3>3, <3>4, <3>5, StepCases
  <2>3. QED BY <2>1, <2>2, TypeSplit DEF Inv
<1>2. QED BY <1>1, InvInit, PTL DEF Spec

(* WriteTo finds a peer through its newest session for as long as that is  *)
(* read, and the accept loop never writes to the map after Close has set   *)
(* it to nil.                                                              *)
THEOREM NewestIsReachableHolds == Spec => []NewestIsReachable
<1>1. Inv => NewestIsReachable
  BY DEF Inv, CloseOK, SessionOK, NewestIsReachable
<1>2. QED BY <1>1, PacketConnInvariant, PTL

(* Close leaves no session open that was not replaced in the peers map. *)
THEOREM NothingLeftOpenHolds == Spec => []NothingLeftOpen
<1>1. Inv => NothingLeftOpen
  BY DEF Inv, SessionOK, NothingLeftOpen
<1>2. QED BY <1>1, PacketConnInvariant, PTL

(* The datagrams of a session come out of ReadFrom in order and without a  *)
(* gap, for every capacity of incoming.                                    *)
THEOREM InOrderHolds == Spec => []InOrder
<1>1. ASSUME Inv PROVE InOrder
  <2>1. DOMAIN incoming = 1 .. Len(incoming)
    BY <1>1 DEF Inv, TypeOK
  <2>2. QED BY <1>1, <2>1 DEF Inv, OrderOK, InOrder
<1>2. QED BY <1>1, PacketConnInvariant, PTL
=============================================================================
