----------------------------- MODULE PacketConn -----------------------------
(***************************************************************************)
(* A packetConn (packetconn.go): one accept loop that makes a session for  *)
(* every peer, one read loop per session, the bounded channel incoming on  *)
(* which they hand datagrams and errors to ReadFrom, WriteTo through the   *)
(* peers map, and Close. One goroutine calls ReadFrom and WriteTo.         *)
(*                                                                         *)
(* VLS is taken by what vclpoll promises: AcceptFullContext, ReadContext   *)
(* and WriteContext return at once or wait for the session or for their    *)
(* channel. Two inputs come from other modules: a deadline (module Conn)   *)
(* may expire or be replaced at any time, which closes the channel a call  *)
(* waits on, and shutdownStarted (module Lifecycle) may be found set at    *)
(* any time. Nothing here relies on either of them happening.              *)
(***************************************************************************)
EXTENDS Naturals, Sequences, FiniteSets

CONSTANTS SessionCount, \* VLS sessions of peers, numbered as they come
          Keys, KeyOf,  \* peer addresses, and the address of each session
          Msgs,         \* bound: datagrams each session carries
          IncomingCap,  \* capacity of incoming (64 in the code)
          None, Err     \* no session; an error on incoming

ASSUME PacketConnAssumption ==
  /\ SessionCount \in Nat /\ IncomingCap \in Nat \ {0}
  /\ KeyOf \in [1 .. SessionCount -> Keys] /\ Msgs \in [1 .. SessionCount -> Nat]
  /\ None \notin 1 .. SessionCount /\ Err \notin 1 .. SessionCount

Sessions == 1 .. SessionCount

VARIABLES
  (* the peers map (nil at the end) and incoming; a write to the nil map    *)
  peers, isNil, incoming, panicked,
  (* accept loop: position and the session it got                           *)
  apc, aheld,
  (* read loops: position and the number of the datagram held               *)
  rpc, rheld,
  (* position of Close; the caller: position, WriteTo's session             *)
  cpc, pc, wsess,
  (* VLS: the sessions, datagrams sent and read, and the listener           *)
  sess, sent, took, listening,
  (* datagrams ReadFrom has returned; sessions replaced in peers            *)
  delivered, displaced

netVars == <<sess, sent, took, listening>>
loopVars == <<apc, aheld, rpc, rheld>>
mapVars == <<peers, isNil, panicked, displaced>>
callVars == <<pc, wsess, delivered>>
vars == <<netVars, loopVars, mapVars, incoming, cpc, callVars>>

(* What Close does first: the flag, then the channel. *)
closed == cpc # "open"
stopCh == cpc \notin {"open", "stop"}

TypeOK ==
  /\ peers \in [Keys -> Sessions \cup {None}] /\ isNil \in BOOLEAN
  /\ incoming \in Seq((Sessions \X Nat) \cup {<<Err, 0>>})
  /\ Len(incoming) <= IncomingCap
  /\ panicked \in BOOLEAN
  /\ apc \in {"top", "accept", "insert", "sendErr", "done"}
  /\ aheld \in Sessions \cup {None}
  /\ rpc \in [Sessions -> {"off", "top", "read", "send", "sendErr", "remove",
                           "close", "done"}]
  /\ rheld \in [Sessions -> Nat]
  /\ cpc \in {"open", "stop", "wait", "peers", "listener", "done"}
  /\ pc \in {"idle", "select", "lookup", "write", "parked"}
  /\ wsess \in Sessions \cup {None}
  /\ sess \in [Sessions -> {"none", "pend", "open", "reset", "closed"}]
  /\ \A s \in Sessions : sent[s] \in 0 .. Msgs[s] /\ took[s] \in 0 .. sent[s]
  /\ listening \in BOOLEAN
  /\ delivered \in [Sessions -> Nat]
  /\ displaced \subseteq Sessions

(* newPacketConn, with the listener bound and the accept loop started. *)
Init ==
  /\ peers = [k \in Keys |-> None] /\ isNil = FALSE
  /\ incoming = <<>> /\ panicked = FALSE
  /\ apc = "top" /\ aheld = None
  /\ rpc = [s \in Sessions |-> "off"] /\ rheld = [s \in Sessions |-> 0]
  /\ cpc = "open" /\ pc = "idle" /\ wsess = None
  /\ sess = [s \in Sessions |-> "none"]
  /\ sent = [s \in Sessions |-> 0] /\ took = [s \in Sessions |-> 0]
  /\ listening = TRUE
  /\ delivered = [s \in Sessions |-> 0] /\ displaced = {}

-----------------------------------------------------------------------------
(* Peers: a first datagram makes a session, others follow, the peer or the *)
(* network resets it.                                                      *)

PeerSends(s) ==
  /\ listening /\ sess[s] \in {"none", "pend", "open"} /\ sent[s] < Msgs[s]
  /\ s > 1 => sess[s - 1] # "none"
  /\ sess' = [sess EXCEPT ![s] = IF @ = "none" THEN "pend" ELSE @]
  /\ sent' = [sent EXCEPT ![s] = @ + 1]
  /\ UNCHANGED <<took, listening, loopVars, mapVars, incoming, cpc, callVars>>

PeerResets(s) ==
  /\ sess[s] = "open"
  /\ sess' = [sess EXCEPT ![s] = "reset"]
  /\ UNCHANGED <<sent, took, listening, loopVars, mapVars, incoming, cpc, callVars>>

-----------------------------------------------------------------------------
(* acceptLoop.                                                             *)

acceptRest == <<cpc, callVars, sent, took,
                listening>>

AcceptTop ==
  /\ apc = "top"
  /\ apc' = IF stopCh THEN "done" ELSE "accept"
  /\ UNCHANGED <<acceptRest, aheld, rpc, rheld, mapVars, incoming, sess>>

(* An error is passed on unless it is ErrClosed or Close has begun. *)
AcceptFailed == apc' \in {"done"} \cup (IF stopCh THEN {} ELSE {"sendErr"})

(* AcceptFullContext: a session, or an error, at the latest when stopCh    *)
(* closes.                                                                 *)
Accept ==
  /\ apc = "accept"
  /\ \/ \E s \in Sessions : /\ sess[s] = "pend"
                            /\ sess' = [sess EXCEPT ![s] = "open"]
                            /\ aheld' = s
                            /\ apc' = "insert"
     \/ stopCh /\ AcceptFailed /\ UNCHANGED <<sess, aheld>>
  /\ UNCHANGED <<acceptRest, rpc, rheld, mapVars, incoming>>

AcceptError ==
  /\ apc = "accept"
  /\ AcceptFailed
  /\ UNCHANGED <<acceptRest, aheld, rpc, rheld, mapVars, incoming, sess>>

(* The send has no case for stopCh. *)
AcceptSendErr ==
  /\ apc = "sendErr" /\ Len(incoming) < IncomingCap
  /\ incoming' = Append(incoming, <<Err, 0>>)
  /\ apc' = "done"
  /\ UNCHANGED <<acceptRest, aheld, rpc, rheld, mapVars, sess>>

(* The entry for the key is overwritten; the session that had it goes on   *)
(* being read.                                                             *)
InsertPeer ==
  /\ apc = "insert"
  /\ peers' = [peers EXCEPT ![KeyOf[aheld]] = aheld]
  /\ displaced' = displaced \cup ({peers[KeyOf[aheld]]} \ {None})
  /\ panicked' = isNil
  /\ rpc' = [rpc EXCEPT ![aheld] = "top"]
  /\ apc' = "top" /\ aheld' = None
  /\ UNCHANGED <<acceptRest, isNil, rheld, incoming, sess>>

-----------------------------------------------------------------------------
(* peerReadLoop of session s.                                              *)

loopRest == <<apc, aheld, isNil, panicked, displaced, cpc, callVars, sent, listening>>

ReadTop(s) ==
  /\ rpc[s] = "top"
  /\ rpc' = [rpc EXCEPT ![s] = IF stopCh THEN "done" ELSE "read"]
  /\ UNCHANGED <<loopRest, rheld, peers, incoming, sess, took>>

(* ReadContext: the next datagram, or an error, which is passed on unless  *)
(* it is ErrClosed or Close has begun.                                     *)
Read(s) ==
  /\ rpc[s] = "read"
  /\ \/ /\ sess[s] = "open" /\ took[s] < sent[s]
        /\ took' = [took EXCEPT ![s] = @ + 1]
        /\ rheld' = [rheld EXCEPT ![s] = took[s] + 1]
        /\ rpc' = [rpc EXCEPT ![s] = "send"]
     \/ /\ stopCh \/ sess[s] # "open"
        /\ \/ rpc' = [rpc EXCEPT ![s] = "remove"]
           \/ ~stopCh /\ rpc' = [rpc EXCEPT ![s] = "sendErr"]
        /\ UNCHANGED <<took, rheld>>
  /\ UNCHANGED <<loopRest, peers, incoming, sess>>

ReadSendErr(s) ==
  /\ rpc[s] = "sendErr" /\ Len(incoming) < IncomingCap
  /\ incoming' = Append(incoming, <<Err, 0>>)
  /\ rpc' = [rpc EXCEPT ![s] = "remove"]
  /\ UNCHANGED <<loopRest, rheld, peers, sess, took>>

ReadSend_Drops(s) ==  \* mutant: a full channel drops the datagram
  /\ rpc[s] = "send"
  /\ incoming' = IF Len(incoming) < IncomingCap
                 THEN Append(incoming, <<s, rheld[s]>>) ELSE incoming
  /\ rpc' = [rpc EXCEPT ![s] = "top"]
  /\ rheld' = [rheld EXCEPT ![s] = 0]
  /\ UNCHANGED <<loopRest, peers, sess, took>>

ReadSend_Deaf(s) ==  \* mutant: the send has no case for stopCh
  /\ rpc[s] = "send"
  /\ Len(incoming) < IncomingCap
  /\ incoming' = Append(incoming, <<s, rheld[s]>>)
  /\ rpc' = [rpc EXCEPT ![s] = "top"]
  /\ rheld' = [rheld EXCEPT ![s] = 0]
  /\ UNCHANGED <<loopRest, peers, sess, took>>

ReadSend(s) ==
  /\ rpc[s] = "send"
  /\ \/ /\ Len(incoming) < IncomingCap
        /\ incoming' = Append(incoming, <<s, rheld[s]>>)
        /\ rpc' = [rpc EXCEPT ![s] = "top"]
     \/ stopCh /\ rpc' = [rpc EXCEPT ![s] = "done"] /\ UNCHANGED incoming
  /\ rheld' = [rheld EXCEPT ![s] = 0]
  /\ UNCHANGED <<loopRest, peers, sess, took>>

removePeer_ByKey(s) ==  \* mutant: deletes whatever session the key has now
  /\ rpc[s] = "remove"
  /\ peers' = [peers EXCEPT ![KeyOf[s]] = None]
  /\ rpc' = [rpc EXCEPT ![s] = "close"]
  /\ UNCHANGED <<loopRest, rheld, incoming, sess, took>>

(* removePeer: the map entry if it is still this session's, ... *)
removePeer(s) ==
  /\ rpc[s] = "remove"
  /\ peers' = [peers EXCEPT ![KeyOf[s]] = IF @ = s THEN None ELSE @]
  /\ rpc' = [rpc EXCEPT ![s] = "close"]
  /\ UNCHANGED <<loopRest, rheld, incoming, sess, took>>

(* ... then the session. *)
RemoveClose(s) ==
  /\ rpc[s] = "close"
  /\ sess' = [sess EXCEPT ![s] = "closed"]
  /\ rpc' = [rpc EXCEPT ![s] = "done"]
  /\ UNCHANGED <<loopRest, rheld, peers, incoming, took>>

-----------------------------------------------------------------------------
(* ReadFrom.                                                               *)

callRest == <<netVars, loopVars, mapVars, cpc>>

ReadFrom ==
  /\ pc = "idle" /\ ~closed
  /\ pc' = "select"
  /\ UNCHANGED <<callRest, incoming, wsess, delivered>>

(* The next of incoming: an error, or a datagram and where it came from. *)
Deliver ==
  /\ incoming # <<>>
  /\ incoming' = Tail(incoming)
  /\ delivered' = IF Head(incoming)[1] = Err THEN delivered
                  ELSE [delivered EXCEPT ![Head(incoming)[1]] = Head(incoming)[2]]
  /\ pc' = "idle"

ReadSelect ==
  /\ pc = "select"
  /\ Deliver \/ (stopCh /\ pc' = "idle" /\ UNCHANGED <<incoming, delivered>>)
  /\ UNCHANGED <<callRest, wsess>>

(* The deadline's channel: the call times out or starts over, and then     *)
(* finds out about Close.                                                  *)
ReadCancelled ==
  /\ pc = "select"
  /\ pc' = "idle"
  /\ UNCHANGED <<callRest, incoming, wsess, delivered>>

-----------------------------------------------------------------------------
(* WriteTo. The session is looked up once and used until the call ends.    *)

WriteTo ==
  /\ pc = "idle" /\ ~closed
  /\ pc' = "lookup"
  /\ UNCHANGED <<callRest, incoming, wsess, delivered>>

(* An unknown peer gets ErrUnknownPeer. *)
WriteLookup ==
  /\ pc = "lookup"
  /\ \E k \in Keys :
       LET ps == IF isNil THEN None ELSE peers[k]
       IN  wsess' = ps /\ pc' = IF ps = None THEN "idle" ELSE "write"
  /\ UNCHANGED <<callRest, incoming, delivered>>

(* The end of the call; the session is forgotten. *)
WriteReturn == pc' = "idle" /\ wsess' = None

(* WriteContext: done, no longer a session, or no room. *)
Write ==
  /\ pc = "write"
  /\ \/ WriteReturn
     \/ sess[wsess] = "open" /\ pc' = "parked" /\ UNCHANGED wsess
  /\ UNCHANGED <<callRest, incoming, delivered>>

(* The session ended. *)
WriteWoken ==
  /\ pc = "parked" /\ sess[wsess] # "open"
  /\ WriteReturn
  /\ UNCHANGED <<callRest, incoming, delivered>>

(* Room at last. *)
Writable ==
  /\ pc = "parked" /\ sess[wsess] = "open"
  /\ WriteReturn
  /\ UNCHANGED <<callRest, incoming, delivered>>

(* The deadline's channel: mapIOError says retry, the flags say why. *)
WriteCancelled ==
  /\ pc = "parked"
  /\ \/ WriteReturn
     \/ ~closed /\ pc' = "write" /\ UNCHANGED wsess
  /\ UNCHANGED <<callRest, incoming, delivered>>

-----------------------------------------------------------------------------
(* Close, by the application or by Shutdown.                               *)

closeRest == <<loopVars, incoming, callVars, sent, took>>

Close ==
  /\ cpc = "open"
  /\ cpc' = "stop"
  /\ UNCHANGED <<closeRest, mapVars, sess, listening>>

(* close(stopCh), and the interrupts, which cancel a call that waits. *)
CloseStop ==
  /\ cpc = "stop"
  /\ cpc' = "wait"
  /\ UNCHANGED <<closeRest, mapVars, sess, listening>>

CloseWait ==
  /\ cpc = "wait"
  /\ apc = "done" /\ \A s \in Sessions : rpc[s] \in {"off", "done"}
  /\ cpc' = "peers"
  /\ UNCHANGED <<closeRest, mapVars, sess, listening>>

ClosePeers_NilFirst ==  \* mutant: forgets the map before it closes the peers
  /\ cpc = "peers"
  /\ isNil' = TRUE
  /\ cpc' = "listener"
  /\ UNCHANGED <<closeRest, peers, panicked, displaced, sess, listening>>

ClosePeers ==
  /\ cpc = "peers"
  /\ sess' = [s \in Sessions |-> IF s = peers[KeyOf[s]] THEN "closed" ELSE sess[s]]
  /\ isNil' = TRUE
  /\ cpc' = "listener"
  /\ UNCHANGED <<closeRest, peers, panicked, displaced, listening>>

(* During a shutdown the listener is left to AppDestroy. *)
CloseListener ==
  /\ cpc = "listener"
  /\ \E shutdownStarted \in BOOLEAN :
       /\ listening' = shutdownStarted
       /\ sess' = [s \in Sessions |-> IF ~shutdownStarted /\ sess[s] = "pend"
                                      THEN "closed" ELSE sess[s]]
  /\ cpc' = "done"
  /\ UNCHANGED <<closeRest, mapVars>>

-----------------------------------------------------------------------------
AcceptLoop == AcceptTop \/ Accept \/ AcceptSendErr \/ InsertPeer
ReadLoop(s) ==
  \/ ReadTop(s) \/ Read(s) \/ ReadSendErr(s) \/ ReadSend(s)
  \/ removePeer(s) \/ RemoveClose(s)
Caller ==
  ReadSelect \/ WriteLookup \/ Write \/ WriteWoken
Closer ==
  CloseStop \/ CloseWait \/ ClosePeers \/ CloseListener

Next ==
  \/ AcceptLoop \/ AcceptError \/ Caller \/ Closer
  \/ \E s \in Sessions : ReadLoop(s) \/ PeerSends(s) \/ PeerResets(s)
  \/ ReadFrom \/ ReadCancelled \/ WriteTo \/ WriteCancelled \/ Writable \/ Close

Spec == Init /\ [][Next]_vars

(* Runnable goroutines run. No peer has to send, nobody has to call, no    *)
(* deadline has to expire.                                                 *)
Fairness ==
  /\ WF_vars(AcceptLoop) /\ \A s \in Sessions : WF_vars(ReadLoop(s))
  /\ WF_vars(Caller) /\ WF_vars(Closer)

FairSpec == Spec /\ Fairness
-----------------------------------------------------------------------------
(* Properties.                                                             *)

(* The peers map names whom WriteTo must reach. The accept loop never      *)
(* writes to it once Close has set it to nil, which would panic, whatever  *)
(* AcceptFullContext returns during Close; and a peer is found through its *)
(* newest session for as long as that session is read: an older session of *)
(* the same address that ends does not take the entry of the new one with  *)
(* it.                                                                     *)
NewestIsReachable ==
  /\ TypeOK
  /\ ~panicked
  /\ \A s \in Sessions :
       rpc[s] \in {"top", "read", "send", "sendErr"} /\ s \notin displaced
         => peers[KeyOf[s]] = s

(* The datagrams of session s among the first i of incoming. *)
Queued(s, i) == Cardinality({j \in 1 .. i : incoming[j][1] = s})

(* Datagrams of one session reach ReadFrom in order and without a gap,     *)
(* however full incoming was, until Close stops the loops: the k-th of a   *)
(* session in incoming is the k-th after the last one delivered, the one   *)
(* its read loop holds comes next, and no other has been read.             *)
InOrder ==
  \A s \in Sessions :
    LET mine == Queued(s, Len(incoming))
    IN  /\ \A i \in DOMAIN incoming :
             incoming[i][1] = s => incoming[i][2] = delivered[s] + Queued(s, i)
        /\ rheld[s] > 0 => rheld[s] = delivered[s] + mine + 1
        /\ took[s] = delivered[s] + mine + (IF rheld[s] > 0 THEN 1 ELSE 0)
           \/ rpc[s] = "done"

(* Close leaves no session open, except those that were replaced in the    *)
(* peers map: nothing refers to them any more and the code leaks them.     *)
NothingLeftOpen ==
  cpc = "done" =>
    \A s \in Sessions : sess[s] \in {"open", "reset"} => s \in displaced

(* A loop that has an error to report waits for room in incoming and does  *)
(* not look at stopCh.                                                     *)
Stuck ==
  /\ Len(incoming) = IncomingCap
  /\ apc = "sendErr" \/ \E s \in Sessions : rpc[s] = "sendErr"

(* Close returns, and ends the ReadFrom or WriteTo that waits, even one    *)
(* whose deadline channel is fresh again, unless a loop is stuck with an   *)
(* error behind a full incoming, or WriteTo waits on a session that was    *)
(* replaced in the peers map.                                              *)
CloseReturns ==
  cpc = "wait" ~> \/ cpc = "done" /\ (pc = "idle" \/ wsess \in displaced)
                  \/ Stuck
=============================================================================
