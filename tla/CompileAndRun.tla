---------------------------- MODULE CompileAndRun ----------------------------
(***************************************************************************)
(* A workflow is compiled, and the host runs what the compiler emitted:    *)
(* it performs the effect the evaluator waits for and resumes it with the  *)
(* answer.  The reference is the source itself, run with the same answers. *)
(***************************************************************************)
EXTENDS Emit

CONSTANTS Programs,    \* the workflow bodies compiled
          MaxAnswers   \* effects answered in one run
VARIABLES program,     \* the body
          stage,       \* "source", "rejected" or "compiled"
          ir,          \* what the compiler emitted, or NoExpr
          error,       \* the code of the error it threw, or ""
          answers      \* the answers given so far
vars == <<program, stage, ir, error, answers>>

Init == /\ program \in Programs
        /\ stage = "source"
        /\ ir = NoExpr
        /\ error = ""
        /\ answers = <<>>

\* generateWorkflowModule / compileOne: one error ends the compilation.
Produce(r) ==
  /\ stage' = IF r.err = "" THEN "compiled" ELSE "rejected"
  /\ ir' = IF r.err = "" THEN r.ir ELSE NoExpr
  /\ error' = r.err
Compile ==
  /\ stage = "source"
  /\ Produce(CompileBody(program))
  /\ UNCHANGED <<program, answers>>

Compiled == Eval(ir, <<>>, answers, Start)
\* driveKernel: the answer of the effect the evaluator waits for.
Resume(ok, n) ==
  /\ stage = "compiled"
  /\ Len(answers) < MaxAnswers
  /\ Compiled.t = "pending"
  /\ answers' = Append(answers, [ok |-> ok, n |-> n])
  /\ UNCHANGED <<program, stage, ir, error>>

Next == Compile \/ \E n \in {0, 1} : Resume(TRUE, n) \/ Resume(FALSE, 7)
Spec == Init /\ [][Next]_vars

(***************************************************************************)
(* Properties                                                              *)
(***************************************************************************)
\* The compiled workflow waits for the same effect with the same data, or
\* ends the same way with the same value, as the source (the value is compared
\* where the source returns one).
Agree(want, got) ==
  CASE want.t = "return" -> got.t = "ok" /\ got.v = want.v
    [] want.t = "next" -> got.t = "ok"
    [] OTHER -> got.t = want.t /\ got.v = want.v
SameBehaviour == stage = "compiled" => Agree(Behaviour(program, answers), Compiled)

\* What the compiler accepts never joins a task twice or something that is no
\* task, provides no value outside a resource, and none of its resources ends
\* without having provided one (processSpawn, the join and provide checks).
HandlesUsedWell == stage = "compiled" =>
  /\ Compiled.t # "provided"
  /\ ~(Compiled.t = "crash" /\ Compiled.v \in {Str("join"), Str("resource")})

\* S1, a setup statement after the body, is reported for such a program only
\* (blocking-scope specification S4, S5: in any order, several transports).
ScopeBodies == LET all == Range(Statements(program, TRUE))
               IN {st.e.bs[1] : st \in {st \in all : HasExpr(st) /\ st.e.k = "bodied" /\ st.e.id = "scope"}}
SetupInAnyOrder == error = "S1" =>
  \E b \in ScopeBodies : \E i, j \in DOMAIN b : i < j /\ ~IsSetup(b[i]) /\ IsSetup(b[j])
==============================================================================
