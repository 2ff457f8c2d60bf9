----------------------------- MODULE Lifecycle -----------------------------
(***************************************************************************)
(* The process-wide lifecycle: the registry of open listeners, connections *)
(* and pending dials (lifecycle.go), the calls that enter objects in it    *)
(* (Listen, AcceptContext, DialContext), the Close that takes them out,    *)
(* and Shutdown (shutdown.go), which drains the registry, closes what is   *)
(* left and destroys the VCL application under whoever still uses it.      *)
(*                                                                         *)
(* An object is named after the call that makes it. One VLS call runs      *)
(* under the read side of vlsMu, which AppDestroy takes for writing, so it *)
(* is one step. PacketConns are not in here.                               *)
(***************************************************************************)
EXTENDS Naturals, FiniteSets

CONSTANTS Listens,      \* calls of Listen
          Established,  \* those that returned before the behaviour starts
          Dials,        \* calls of DialContext
          Accepts,      \* calls of AcceptContext
          Timeouts,     \* drain timeouts: "none" < 0, "forever" = 0, "timed"
          Modes         \* the dispatchers: TRUE is Mode 2, FALSE Mode 3

ASSUME LifecycleAssumption ==
  /\ Established \subseteq Listens
  /\ Listens \cap Dials = {} /\ Listens \cap Accepts = {} /\ Dials \cap Accepts = {}
  /\ Accepts # {} => Listens # {}
  /\ IsFiniteSet(Dials)
  /\ Timeouts \subseteq {"none", "timed", "forever"}
  /\ Modes \subseteq BOOLEAN

Conns   == Dials \cup Accepts
Objects == Listens \cup Conns

VARIABLES
  (* the registry: its maps, the dial counter, the channel of waitDrain *)
  registry, pendingDials, drainedCh,
  (* shutdown: the flag, its position, the snapshot it is working through *)
  shutdownStarted, spc, todo, timeout,
  (* constructors: position, the listener an accept is made on *)
  pc, from,
  (* objects: the tracked flag, how far Close has come *)
  tracked, kpc,
  (* VLS: the dispatcher in use, sessions, the appLive flag, the            *)
  (* application, and the operations that called VLS after its destruction  *)
  mode2, session, appLive, destroyed, late

regVars  == <<registry, pendingDials, drainedCh>>
downVars == <<shutdownStarted, spc, todo, timeout>>
objVars  == <<tracked, kpc>>
appVars  == <<mode2, appLive, destroyed>>
vars == <<regVars, downVars, pc, from, objVars, session, appVars, late>>

TypeOK ==
  /\ registry \subseteq Objects
  /\ pendingDials \in 0 .. Cardinality(Dials)
  /\ drainedCh \in {"nil", "open", "closed"}
  /\ shutdownStarted \in BOOLEAN
  /\ spc \in {"idle", "listeners", "closelisteners", "drain", "draining",
              "conns", "closeconns", "begin", "stop", "destroy", "done"}
  /\ todo \subseteq Objects
  /\ timeout \in Timeouts
  /\ pc \in [Objects -> {"idle", "begin", "vls", "wait", "finish", "abort",
                         "add", "track", "end", "notify", "returned", "failed"}]
  /\ from \in [Accepts -> Listens]
  /\ tracked \in [Objects -> BOOLEAN]
  /\ kpc \in [Objects -> {"open", "flag", "vls", "untrack", "notify", "done"}]
  /\ session \in [Objects -> {"none", "open", "closed"}]
  /\ mode2 \in Modes /\ appLive \in BOOLEAN /\ destroyed \in BOOLEAN
  /\ late \subseteq {"create", "connectWait", "Abort", "Close"}

Init ==
  /\ registry = Established
  /\ pendingDials = 0
  /\ drainedCh = "nil"
  /\ shutdownStarted = FALSE /\ spc = "idle" /\ todo = {}
  /\ timeout \in Timeouts
  /\ pc = [o \in Objects |-> IF o \in Established THEN "returned" ELSE "idle"]
  /\ from \in [Accepts -> Listens]
  /\ tracked = [o \in Objects |-> o \in Established]
  /\ kpc = [o \in Objects |-> "open"]
  /\ session = [o \in Objects |-> IF o \in Established THEN "open" ELSE "none"]
  /\ mode2 \in Modes /\ appLive = TRUE /\ destroyed = FALSE /\ late = {}

-----------------------------------------------------------------------------
(* The registry.                                                           *)

drainedLocked == registry = {} /\ pendingDials = 0

notifyIfDrained ==
  drainedCh' = IF drainedLocked /\ drainedCh = "open" THEN "closed" ELSE drainedCh

(* A call into VLS. Mode 2 refuses it in submit once appLive is false; the *)
(* Mode 3 calls that create, query and close sessions do not look.         *)
Refused == mode2 /\ ~appLive
VlsCall(by) == late' = IF destroyed /\ ~Refused THEN late \cup {by} ELSE late

-----------------------------------------------------------------------------
(* Listen, DialContext and AcceptContext, up to their return.              *)

makeRest == <<downVars, from, kpc, appVars>>

Goto(o, to) == pc' = [pc EXCEPT ![o] = to]

(* The first thing each of them does is to look at shutdownStarted. *)
Call(o) ==
  /\ pc[o] = "idle"
  /\ o \in Accepts => pc[from[o]] = "returned"
  /\ LET refused == shutdownStarted \/ (o \in Accepts /\ kpc[from[o]] # "open")
     IN Goto(o, IF refused THEN "failed" ELSE IF o \in Dials THEN "begin" ELSE "vls")
  /\ UNCHANGED <<makeRest, regVars, tracked, session, late>>

beginDial(o) ==
  /\ pc[o] = "begin"
  /\ pendingDials' = pendingDials + 1
  /\ Goto(o, "vls")
  /\ UNCHANGED <<makeRest, registry, drainedCh, tracked, session, late>>

(* The call that makes the session: a listen with the query of its address, *)
(* or the start of a connect. It may fail.                                  *)
VlsCreate(o) ==
  /\ pc[o] = "vls" /\ o \notin Accepts
  /\ VlsCall("create")
  /\ \/ /\ ~Refused /\ ~destroyed
        /\ session' = [session EXCEPT ![o] = "open"]
        /\ Goto(o, IF o \in Dials THEN "wait" ELSE "add")
     \/ /\ Goto(o, IF o \in Dials THEN "end" ELSE "failed")
        /\ UNCHANGED session
  /\ UNCHANGED <<makeRest, regVars, tracked>>

(* acceptFullContext looks at appLive, under vlsMu, before each vls_accept. *)
Accept(o) ==
  /\ pc[o] = "vls" /\ o \in Accepts
  /\ appLive /\ session[from[o]] = "open"
  /\ session' = [session EXCEPT ![o] = "open"]
  /\ Goto(o, "add")
  /\ UNCHANGED <<makeRest, regVars, tracked, late>>

(* The wait in between ends when the listener is closed, which closes the   *)
(* channel of mergedDone, or when the dispatcher stops.                     *)
AcceptFailed(o) ==
  /\ pc[o] = "vls" /\ o \in Accepts
  /\ kpc[from[o]] # "open" \/ ~appLive
  /\ Goto(o, "failed")
  /\ UNCHANGED <<makeRest, regVars, tracked, session, late>>

(* The caller's context, the other channel of mergedDone, or VLS ends it.   *)
AcceptError(o) ==
  /\ pc[o] = "vls" /\ o \in Accepts
  /\ Goto(o, "failed")
  /\ UNCHANGED <<makeRest, regVars, tracked, session, late>>

(* connectWait: the peer answers, or the context or the dispatcher ends the *)
(* wait; SessionConnectError is asked either way. finishConnect then looks  *)
(* at the context and at shutdownStarted.                                   *)
connectWait(o) ==
  /\ pc[o] = "wait"
  /\ VlsCall("connectWait")
  /\ (~Refused /\ Goto(o, "finish")) \/ Goto(o, "abort")
  /\ UNCHANGED <<makeRest, regVars, tracked, session>>

finishConnect(o) ==
  /\ pc[o] = "finish"
  /\ Goto(o, "abort") \/ (~shutdownStarted /\ Goto(o, "add"))
  /\ UNCHANGED <<makeRest, regVars, tracked, session, late>>

(* CloseVLSH. *)
Abort(o) ==
  /\ pc[o] = "abort"
  /\ VlsCall("Abort")
  /\ session' = [session EXCEPT ![o] = IF Refused THEN @ ELSE "closed"]
  /\ Goto(o, "end")
  /\ UNCHANGED <<makeRest, regVars, tracked>>

Add_EndsFirst(o) ==  \* mutant: the dial is over before its conn is registered
  /\ pc[o] = "add"
  /\ registry' = IF o \in Dials THEN registry ELSE registry \cup {o}
  /\ Goto(o, "track")
  /\ UNCHANGED <<makeRest, pendingDials, drainedCh, tracked, session, late>>

(* addListener, addConn. *)
Add(o) ==
  /\ pc[o] = "add"
  /\ registry' = registry \cup {o}
  /\ Goto(o, "track")
  /\ UNCHANGED <<makeRest, pendingDials, drainedCh, tracked, session, late>>

Track(o) ==
  /\ pc[o] = "track"
  /\ tracked' = [tracked EXCEPT ![o] = TRUE]
  /\ Goto(o, IF o \in Dials THEN "end" ELSE "returned")
  /\ UNCHANGED <<makeRest, regVars, session, late>>

(* The deferred endDial: the counter, then notifyIfDrained. *)
endDial(o) ==
  /\ pc[o] = "end"
  /\ pendingDials' = pendingDials - 1
  /\ Goto(o, "notify")
  /\ UNCHANGED <<makeRest, registry, drainedCh, tracked, session, late>>

EndNotify_Missing(o) ==  \* mutant: endDial only counts
  /\ pc[o] = "notify"
  /\ Goto(o, IF tracked[o] THEN "returned" ELSE "failed")
  /\ UNCHANGED <<makeRest, regVars, tracked, session, late>>

EndNotify(o) ==
  /\ pc[o] = "notify"
  /\ notifyIfDrained
  /\ Goto(o, IF tracked[o] THEN "returned" ELSE "failed")
  /\ UNCHANGED <<makeRest, registry, pendingDials, tracked, session, late>>

-----------------------------------------------------------------------------
(* Close of a listener or a connection: the body of its sync.Once, run by  *)
(* whoever comes first; everybody else waits in Do until it is done.       *)

closeRest == <<downVars, pc, from, tracked, appVars>>

KGoto(o, to) == kpc' = [kpc EXCEPT ![o] = to]

(* closed is set, which wakes who waits on the object. The application can *)
(* close what it was given, Shutdown what it finds in the registry.        *)
Close(o) ==
  /\ kpc[o] = "open"
  /\ pc[o] = "returned" \/ o \in todo
  /\ KGoto(o, "flag")
  /\ UNCHANGED <<closeRest, regVars, session, late>>

CloseCheck_Always(o) ==  \* mutant: does not look at shutdownStarted
  /\ kpc[o] = "flag"
  /\ KGoto(o, "vls")
  /\ UNCHANGED <<closeRest, regVars, session, late>>

(* During a shutdown the session is left to the dispatcher. *)
CloseCheck(o) ==
  /\ kpc[o] = "flag"
  /\ KGoto(o, IF shutdownStarted THEN "untrack" ELSE "vls")
  /\ UNCHANGED <<closeRest, regVars, session, late>>

CloseVls(o) ==
  /\ kpc[o] = "vls"
  /\ VlsCall("Close")
  /\ session' = [session EXCEPT ![o] = IF Refused THEN @ ELSE "closed"]
  /\ KGoto(o, "untrack")
  /\ UNCHANGED <<closeRest, regVars>>

(* removeListener, removeConn: only what is marked as tracked is removed.  *)
CloseUntrack(o) ==
  /\ kpc[o] = "untrack"
  /\ registry' = IF tracked[o] THEN registry \ {o} ELSE registry
  /\ KGoto(o, IF tracked[o] THEN "notify" ELSE "done")
  /\ UNCHANGED <<closeRest, pendingDials, drainedCh, session, late>>

CloseNotify(o) ==
  /\ kpc[o] = "notify"
  /\ notifyIfDrained
  /\ KGoto(o, "done")
  /\ UNCHANGED <<closeRest, registry, pendingDials, session, late>>

-----------------------------------------------------------------------------
(* ShutdownWithTimeout, under its sync.Once.                               *)

shutRest == <<pc, from, objVars, late, timeout>>

Shutdown ==
  /\ spc = "idle"
  /\ shutdownStarted' = TRUE
  /\ spc' = "listeners"
  /\ UNCHANGED <<shutRest, regVars, todo, session, appVars>>

(* snapshotListeners, later snapshotConns; then Close one after the other. *)
Snapshot ==
  /\ \/ spc = "listeners" /\ todo' = registry \cap Listens /\ spc' = "closelisteners"
     \/ spc = "conns" /\ todo' = registry \cap Conns /\ spc' = "closeconns"
  /\ UNCHANGED <<shutRest, shutdownStarted, regVars, session, appVars>>

CloseNext_Unwaited ==  \* mutant: a Close that somebody else runs is not awaited
  /\ spc \in {"closelisteners", "closeconns"}
  /\ \/ \E o \in todo : kpc[o] # "open" /\ todo' = todo \ {o} /\ UNCHANGED spc
     \/ /\ todo = {}
        /\ spc' = CASE spc = "closeconns" -> "begin"
                    [] timeout = "none" -> "conns"
                    [] OTHER -> "drain"
        /\ UNCHANGED todo
  /\ UNCHANGED <<shutRest, shutdownStarted, regVars, session, appVars>>

CloseNext ==
  /\ spc \in {"closelisteners", "closeconns"}
  /\ \/ \E o \in todo : kpc[o] = "done" /\ todo' = todo \ {o} /\ UNCHANGED spc
     \/ /\ todo = {}
        /\ spc' = CASE spc = "closeconns" -> "begin"
                    [] timeout = "none" -> "conns"
                    [] OTHER -> "drain"
        /\ UNCHANGED todo
  /\ UNCHANGED <<shutRest, shutdownStarted, regVars, session, appVars>>

(* waitDrain up to its select. *)
waitDrain ==
  /\ spc = "drain"
  /\ drainedCh' = IF drainedLocked THEN drainedCh ELSE "open"
  /\ spc' = IF drainedLocked THEN "conns" ELSE "draining"
  /\ UNCHANGED <<shutRest, shutdownStarted, registry, pendingDials, todo, session,
                 appVars>>

(* Its select: the channel, or the timer. *)
Drained ==
  /\ spc = "draining"
  /\ drainedCh = "closed" \/ timeout = "timed"
  /\ spc' = "conns"
  /\ UNCHANGED <<shutRest, shutdownStarted, regVars, todo, session, appVars>>

BeginShutdown ==
  /\ spc = "begin"
  /\ appLive' = FALSE
  /\ spc' = "stop"
  /\ UNCHANGED <<shutRest, shutdownStarted, regVars, todo, session, mode2, destroyed>>

(* Mode 2 workers close every session they own before they stop. *)
StopPoller ==
  /\ spc = "stop"
  /\ session' = [o \in Objects |-> IF mode2 /\ session[o] = "open"
                                   THEN "closed" ELSE session[o]]
  /\ spc' = "destroy"
  /\ UNCHANGED <<shutRest, shutdownStarted, regVars, todo, appVars>>

AppDestroy ==
  /\ spc = "destroy"
  /\ destroyed' = TRUE
  /\ session' = [o \in Objects |-> IF session[o] = "open" THEN "closed" ELSE session[o]]
  /\ spc' = "done"
  /\ UNCHANGED <<shutRest, shutdownStarted, regVars, todo, mode2, appLive>>

-----------------------------------------------------------------------------
MakeStep(o) ==
  \/ beginDial(o) \/ VlsCreate(o) \/ AcceptFailed(o) \/ finishConnect(o)
  \/ Abort(o) \/ Add(o) \/ Track(o) \/ endDial(o)
  \/ EndNotify(o)

CloseStep(o) ==
  \/ CloseCheck(o) \/ CloseVls(o) \/ CloseUntrack(o) \/ CloseNotify(o)

ShutdownStep ==
  \/ Snapshot \/ CloseNext \/ waitDrain \/ Drained \/ BeginShutdown \/ StopPoller
  \/ AppDestroy

Next ==
  \/ \E o \in Objects :
       \/ Call(o) \/ Accept(o) \/ AcceptError(o) \/ connectWait(o) \/ MakeStep(o)
       \/ Close(o) \/ CloseStep(o)
  \/ Shutdown \/ ShutdownStep

Spec == Init /\ [][Next]_vars

(* Goroutines that can run do, and the drain timer fires. No connection    *)
(* has to come in, no peer has to answer a dial, nobody has to call Close  *)
(* or Shutdown; but Shutdown closes what it has in its list.               *)
Fairness ==
  /\ WF_vars(ShutdownStep)
  /\ \A o \in Objects :
       /\ WF_vars(MakeStep(o)) /\ WF_vars(CloseStep(o))
       /\ WF_vars(o \in todo /\ Close(o))

FairSpec == Spec /\ Fairness
-----------------------------------------------------------------------------
(* Properties.                                                             *)

(* What holds of ShutdownWithTimeout's "no application goroutine will      *)
(* re-enter VLS with a live handle": in Mode 2 nobody calls a destroyed    *)
(* application, because submit refuses first; and in both modes Close,     *)
(* which looks at shutdownStarted and calls VLS without a lock in between, *)
(* stays out, because Shutdown finds the object in the registry and waits  *)
(* in its sync.Once. (A Mode 3 dial or Listen that passed its check before *)
(* Shutdown set the flag does call one.)                                   *)
CloseStaysOut == "Close" \notin late /\ (mode2 => late = {})

(* Shutdown sees what exists. While the dispatcher is up, a dial that has  *)
(* a session is counted as pending or its connection is in the registry    *)
(* until the connection is closed: there is no gap between the two in      *)
(* which a drain could be reported. An object that was handed out and not  *)
(* closed is in the registry, and, as long as no Shutdown interferes, one  *)
(* whose Close has returned is not.                                        *)
RegistryIsLive ==
  /\ TypeOK
  /\ \A o \in Dials :
       appLive /\ session[o] = "open" /\ kpc[o] = "open" =>
         o \in registry \/ pc[o] \in {"wait", "finish", "abort", "add", "track", "end"}
  /\ \A o \in Objects :
       /\ pc[o] = "returned" /\ kpc[o] = "open" => o \in registry
       /\ kpc[o] = "done" /\ ~shutdownStarted => o \notin registry

(* What the application had when Shutdown was called is closed and out of  *)
(* the registry before the dispatcher is torn down: by the application or  *)
(* by Shutdown, also when both close it at the same time.                  *)
NothingForgotten ==
  \A o \in Objects :
    [](spc = "idle" /\ pc[o] = "returned" =>
         [](spc = "begin" => kpc[o] \in {"notify", "done"}))

(* waitDrain "blocks until every tracked object is closed or the deadline  *)
(* passes".                                                                *)
DrainEnds ==
  spc = "draining" /\ (\A o \in Objects : pc[o] \in {"idle", "failed"} \/ kpc[o] = "done")
    ~> spc # "draining"

(* Unless it was told to wait for ever, Shutdown comes to its end,         *)
(* whatever the application has open or is doing to it. waitDrain does not *)
(* miss the last removal or the last endDial, although the counter changes *)
(* without the lock and each notification is a step of its own: it does    *)
(* not go on waiting for a registry that stays empty. And "Each Close      *)
(* wakes blocked AcceptContext callers".                                   *)
ShutdownEnds ==
  /\ shutdownStarted /\ timeout # "forever" ~> destroyed
  /\ spc = "draining" /\ drainedLocked ~> spc # "draining" \/ ~drainedLocked
  /\ \A o \in Accepts : pc[o] = "vls" /\ kpc[from[o]] # "open" ~> pc[o] # "vls"

=============================================================================
