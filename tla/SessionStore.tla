---------------------------- MODULE SessionStore ----------------------------
(***************************************************************************)
(* What a dispatcher promises the goroutines that call it, whatever the    *)
(* threads, queues and raw handles behind it: a store of sessions in which *)
(* a call takes effect in one step between its beginning and its return.   *)
(* A handle stands for one session for ever, a session ends by a close of  *)
(* its own or with the application, a call has its effect only on a        *)
(* session that is open at that moment, and what a call returns is what    *)
(* happened: ErrClosed only when the session is gone or the application    *)
(* is going down.                                                          *)
(***************************************************************************)
CONSTANTS Handles, NoHandle, Callers

VARIABLES live,     \* the open sessions
          used,     \* the handles given out so far
          mode,     \* of the application: "init", "up", "down"
          request,  \* what each caller asks for
          status,   \* "idle", "pending", or the answer of the step it had
          result    \* what each caller's last call returned

vars == <<live, used, mode, request, status, result>>

Kinds == {"create", "accept", "io", "close", "wake", "wait"}

Results == {"ok", "error", "closed", "canceled", "true", "false"}

NoRequest == [kind |-> "create", target |-> NoHandle]

Init ==
  /\ live = {} /\ used = {}
  /\ mode = "init"
  /\ request = [g \in Callers |-> NoRequest]
  /\ status = [g \in Callers |-> "idle"]
  /\ result = [g \in Callers |-> "none"]

Kind(g)   == request[g].kind
Target(g) == request[g].target

(* A call is about a handle that has been given out, unless it asks for    *)
(* one.                                                                    *)
Call(g) ==
  /\ status[g] = "idle" /\ mode = "up"
  /\ status' = [status EXCEPT ![g] = "pending"]
  /\ \E k \in Kinds : \E t \in IF k = "create" THEN {NoHandle} ELSE used :
       request' = [request EXCEPT ![g] = [kind |-> k, target |-> t]]
  /\ result' = [result EXCEPT ![g] = "none"]
  /\ UNCHANGED <<live, used, mode>>

(* The one step in which a call is carried out. *)
Effect(g, answer) ==
  /\ status[g] = "pending" /\ mode = "up"
  /\ status' = [status EXCEPT ![g] = answer]
  /\ UNCHANGED <<mode, request, result>>

(* A new session, of its own or accepted from a listener that is open. *)
Open(g) ==
  /\ Kind(g) = "create" \/ (Kind(g) = "accept" /\ Target(g) \in live)
  /\ Effect(g, "ok")
  /\ \E h \in Handles \ used :
       live' = live \cup {h} /\ used' = used \cup {h}

Close(g) ==
  /\ Kind(g) = "close" /\ Target(g) \in live
  /\ Effect(g, "ok") \/ Effect(g, "error")
  /\ live' = live \ {Target(g)}
  /\ UNCHANGED used

(* Input or output on an open session; a failed create or accept; a wake,  *)
(* which nobody needs to be waiting for.                                   *)
Use(g) ==
  /\ \/ Kind(g) = "io" /\ Target(g) \in live /\ (Effect(g, "ok") \/ Effect(g, "error"))
     \/ Kind(g) = "accept" /\ Target(g) \in live /\ Effect(g, "error")
     \/ Kind(g) = "create" /\ Effect(g, "error")
     \/ Kind(g) = "wake" /\ Effect(g, "ok")
  /\ UNCHANGED <<live, used>>

Gone(g) == mode = "down" \/ (Kind(g) # "create" /\ Target(g) \notin live)

Refuse(g) ==
  /\ status[g] = "pending" /\ Kind(g) # "wait" /\ Gone(g)
  /\ status' = [status EXCEPT ![g] = "closed"]
  /\ UNCHANGED <<live, used, mode, request, result>>

(* An answered call may still lose its answer to the end of the            *)
(* application; a call without one may be told that its session is gone,   *)
(* be cancelled, or, when it only waits, return.                           *)
MayReturn(g, r) ==
  \/ r = status[g] /\ status[g] # "pending"
  \/ r = "closed" /\ Kind(g) # "wait" /\ Gone(g)
  \/ r = "canceled" /\ Kind(g) \in {"io", "accept"} /\ status[g] = "pending"
  \/ r \in {"true", "false"} /\ Kind(g) = "wait"

Return(g) ==
  /\ status[g] # "idle"
  /\ status' = [status EXCEPT ![g] = "idle"]
  /\ request' = [request EXCEPT ![g] = NoRequest]
  /\ \E r \in Results : MayReturn(g, r) /\ result' = [result EXCEPT ![g] = r]
  /\ UNCHANGED <<live, used, mode>>

GoUp ==
  /\ mode = "init"
  /\ mode' = "up"
  /\ UNCHANGED <<live, used, request, status, result>>

GoDown ==
  /\ mode # "down"
  /\ mode' = "down"
  /\ UNCHANGED <<live, used, request, status, result>>

(* The sessions that are left end with the application. *)
Sweep ==
  /\ mode = "down"
  /\ live' \in SUBSET live
  /\ UNCHANGED <<used, mode, request, status, result>>

Next ==
  \/ \E g \in Callers :
       Call(g) \/ Open(g) \/ Close(g) \/ Use(g) \/ Refuse(g) \/ Return(g)
  \/ GoUp \/ GoDown \/ Sweep

Spec == Init /\ [][Next]_vars
=============================================================================
