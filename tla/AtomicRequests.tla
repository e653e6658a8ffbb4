--------------------------- MODULE AtomicRequests ---------------------------
(***************************************************************************)
(* What the unit of work promises its callers, whatever it does inside:    *)
(* a request is answered once, the writes of a request answered "ok" all   *)
(* take effect in one step, and those of any other request never do.       *)
(***************************************************************************)
EXTENDS Integers

CONSTANTS Requests, Legs

VARIABLES durable, reply

vars == <<durable, reply>>

WritesOf(r) == {r} \X (1 .. Legs)

Init ==
  /\ durable = {}
  /\ reply = [r \in Requests |-> "none"]

Answer(r, a) ==
  /\ reply[r] = "none"
  /\ reply' = [reply EXCEPT ![r] = a]
  /\ UNCHANGED durable

Apply(r) ==
  /\ reply[r] = "ok"
  /\ WritesOf(r) \cap durable = {}
  /\ durable' = durable \cup WritesOf(r)
  /\ UNCHANGED reply

Next == \E r \in Requests : Answer(r, "ok") \/ Answer(r, "error") \/ Apply(r)

Spec == Init /\ [][Next]_vars

(* Nothing answered "ok" waits for ever to take effect.                    *)
LiveSpec == Spec /\ \A r \in Requests : WF_vars(Apply(r))
=============================================================================
