-------------------------- MODULE DurableWorkflow --------------------------
(***************************************************************************)
(* What durable execution promises, with the mechanism left out: a         *)
(* workflow is a list of effect results, each recorded once and for good,  *)
(* and one final status.  Crashes, replays, restarts and lost appends do   *)
(* not appear: the detailed specification DurableExecution has to hide     *)
(* them behind stuttering steps.                                           *)
(***************************************************************************)
EXTENDS Naturals, Sequences

CONSTANTS
  Programs,          \* deployable versions of the workflow and its middleware
  Effects,           \* effect descriptors a program can yield
  Results,           \* results of effects: ok with a value, or error
  Finals,            \* final statuses: ok with a value, error, cancelled
  Running,           \* the status of a workflow that has none yet
  Yields(_, _, _),   \* Yields(p, h, e): after results h, program p yields e
  Returns(_, _, _)   \* Returns(p, h, s): after results h, p returns status s

VARIABLES
  program,   \* the version deployed now
  changed,   \* another version was deployed before it
  log,       \* the results recorded so far, in order
  status     \* Running, or the final status

vars == <<program, changed, log, status>>

Init ==
  /\ program \in Programs
  /\ changed = FALSE
  /\ log = <<>>
  /\ status = Running

\* A new version is deployed; nothing recorded changes.
Deploy(p) ==
  /\ program' = p
  /\ changed' = TRUE
  /\ UNCHANGED <<log, status>>

\* The result of the one effect the program waits for is recorded.
Record(r) ==
  /\ status = Running
  /\ \E e \in Effects : Yields(program, log, e)
  /\ log' = Append(log, r)
  /\ UNCHANGED <<program, changed, status>>

\* The program returned, and its value is recorded.
Return(s) ==
  /\ status = Running
  /\ Returns(program, log, s)
  /\ status' = s
  /\ UNCHANGED <<program, changed, log>>

\* A version deployed over the log of another may return before it has used
\* all of it; nothing detects that.
ReturnEarly(s) ==
  /\ status = Running /\ changed
  /\ \E n \in 0..Len(log) : Returns(program, SubSeq(log, 1, n), s)
  /\ status' = s
  /\ UNCHANGED <<program, changed, log>>

\* The run is abandoned: a cancellation, or an error outside the program.
Abandon(s) ==
  /\ status = Running
  /\ s.status # "ok"
  /\ status' = s
  /\ UNCHANGED <<program, changed, log>>

Next ==
  \/ \E p \in Programs : Deploy(p)
  \/ \E r \in Results : Record(r)
  \/ \E s \in Finals : Return(s) \/ ReturnEarly(s) \/ Abandon(s)

Spec == Init /\ [][Next]_vars
=============================================================================
