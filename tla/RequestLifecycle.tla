-------------------------- MODULE RequestLifecycle --------------------------
(***************************************************************************)
(* What a session promises to the callers of its requests, with messages,  *)
(* agents, and failing connections left out: a request is opened once,     *)
(* gets at most one outcome, and ends once, with that outcome or because   *)
(* its caller gave it up.                                                  *)
(***************************************************************************)
CONSTANTS Ids, Outcomes, None

VARIABLE call   \* request -> its state and what it has been answered

Unopened == [state |-> "unopened", outcome |-> None]
Init == call = [r \in Ids |-> Unopened]

Open(r) ==
  /\ call[r].state = "unopened"
  /\ call' = [call EXCEPT ![r].state = "open"]

\* Outcomes are there; the callers have not looked at them yet.
Decide(S) ==
  /\ \A r \in S :
       /\ call[r].state = "open" /\ call[r].outcome = None
       /\ call'[r].outcome \in Outcomes
       /\ call'[r] = [call[r] EXCEPT !.outcome = call'[r].outcome]
  /\ \A r \in Ids \ S : call'[r] = call[r]

Settle(r) ==
  /\ call[r].state = "open" /\ call[r].outcome # None
  /\ call' = [call EXCEPT ![r].state = "settled"]

\* The request could not be sent: it has an outcome and ends in one step.
Refuse(r) ==
  /\ call[r].state = "open" /\ call[r].outcome = None
  /\ call'[r].outcome \in Outcomes
  /\ call' = [call EXCEPT ![r].state = "settled", ![r].outcome = call'[r].outcome]

GiveUp(r) ==
  /\ call[r].state = "open"
  /\ call' = [call EXCEPT ![r].state = "halted"]

\* The host is started again, with requests of its own.
Restart == call' = [r \in Ids |-> Unopened]

Next ==
  \/ \E r \in Ids : Open(r) \/ Settle(r) \/ Refuse(r) \/ GiveUp(r)
  \/ \E S \in (SUBSET Ids) \ {{}} : Decide(S)
  \/ Restart

Spec == Init /\ [][Next]_call
=============================================================================
