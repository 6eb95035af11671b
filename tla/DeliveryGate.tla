----------------------------- MODULE DeliveryGate -----------------------------
(***************************************************************************)
(* What the guard promises its caller, without saying how: every output    *)
(* submitted for delivery is decided once, by whether its claims are sound *)
(* on the candidates it was submitted with, and by nothing else.  The mode *)
(* decides only whether a refusal is acted on.  No judge, no await and no  *)
(* other run appears here.                                                 *)
(***************************************************************************)

CONSTANTS
  Runs,       \* the calls of a guard's run method
  Requests,   \* what may be submitted: [mode, chunks, claims]
  Sound(_, _) \* whether these claims are grounded, given these candidates

VARIABLES
  submitted,  \* per run, what was submitted for delivery, or Nothing
  delivery    \* per run, the decision the caller was given, or Pending

vars == <<submitted, delivery>>

Nothing == [mode |-> "none"]
Pending == [decision |-> "undecided"]

Init ==
  /\ submitted = [r \in Runs |-> Nothing]
  /\ delivery = [r \in Runs |-> Pending]

Submit(r, request) ==
  /\ submitted[r] = Nothing
  /\ submitted' = [submitted EXCEPT ![r] = request]
  /\ UNCHANGED delivery

Decide(r) ==
  /\ submitted[r] # Nothing
  /\ delivery[r] = Pending
  /\ LET sound == Sound(submitted[r].claims, submitted[r].chunks)
     IN  delivery' = [delivery EXCEPT ![r] =
           [decision  |-> IF sound THEN "allow" ELSE "block",
            delivered |-> submitted[r].mode = "monitor" \/ sound]]
  /\ UNCHANGED submitted

Next == \E r \in Runs : Decide(r) \/ \E request \in Requests : Submit(r, request)

Spec == Init /\ [][Next]_vars
===============================================================================
