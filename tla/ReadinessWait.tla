--------------------------- MODULE ReadinessWait ---------------------------
(***************************************************************************)
(* What a readiness wait promises its caller, whichever component carries  *)
(* it out: a call of PollWaitContext returns once; it returns true only    *)
(* after it has been woken and false only when its done channel is closed  *)
(* or the component is going down; and it is woken at most once (a second  *)
(* close of the ready channel is a panic).                                 *)
(***************************************************************************)
CONSTANT Waits

VARIABLES result,     \* what each call has returned so far
          woken,      \* calls whose ready channel is closed
          cancelled,  \* calls whose done channel is closed
          down        \* the component has been told to stop

vars == <<result, woken, cancelled, down>>

Results == {"none", "waiting", "true", "false"}

Init ==
  /\ result = [w \in Waits |-> "none"]
  /\ woken = {}
  /\ cancelled = {}
  /\ down = FALSE

(* A call may be made with a done channel that is already closed. *)
Call(w) ==
  /\ result[w] = "none"
  /\ result' = [result EXCEPT ![w] = "waiting"]
  /\ cancelled' \in {cancelled, cancelled \cup {w}}
  /\ UNCHANGED <<woken, down>>

(* One step may wake several calls, but never one that is already woken or *)
(* was never made.                                                         *)
Wake(S) ==
  /\ S # {}
  /\ \A w \in S : w \notin woken /\ result[w] # "none"
  /\ woken' = woken \cup S
  /\ UNCHANGED <<result, cancelled, down>>

(* Closing a session cancels every call that waits on it. *)
Cancel(S) ==
  /\ \A w \in S : result[w] = "waiting"
  /\ cancelled' = cancelled \cup S
  /\ UNCHANGED <<result, woken, down>>

GoDown ==
  /\ ~down
  /\ down' = TRUE
  /\ UNCHANGED <<result, woken, cancelled>>

ReturnTrue(w) ==
  /\ result[w] = "waiting"
  /\ w \in woken
  /\ result' = [result EXCEPT ![w] = "true"]
  /\ UNCHANGED <<woken, cancelled, down>>

ReturnFalse(w) ==
  /\ result[w] = "waiting"
  /\ w \in cancelled \/ down
  /\ result' = [result EXCEPT ![w] = "false"]
  /\ UNCHANGED <<woken, cancelled, down>>

Next ==
  \/ GoDown
  \/ \E S \in SUBSET Waits : Wake(S) \/ Cancel(S)
  \/ \E w \in Waits :
       Call(w) \/ ReturnTrue(w) \/ ReturnFalse(w)

Spec == Init /\ [][Next]_vars
=============================================================================
