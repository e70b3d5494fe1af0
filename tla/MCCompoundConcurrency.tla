----------------------- MODULE MCCompoundConcurrency -----------------------
(***************************************************************************)
(* Small workflows for CompoundConcurrency: trees of at most five          *)
(* coroutines.                                                             *)
(***************************************************************************)
EXTENDS CompoundConcurrency

MCTasks == {<<>>, <<0>>, <<1>>, <<0, 0>>, <<0, 1>>}

Effect(e) == [kind |-> "effect", effect |-> e]
Done(r) == [kind |-> "done", result |-> r]
Throw(x) == [kind |-> "throw", error |-> x]
All(n) == [kind |-> "all", width |-> n]
Race(n) == [kind |-> "race", width |-> n]
Timebox == [kind |-> "timebox"]
Scope == [kind |-> "scope"]
BadScope == [kind |-> "badScope"]
SpawnChild == [kind |-> "spawn"]
JoinChild(c) == [kind |-> "join", child |-> c]

\* fetch and other may fail, never is not answered.
MCAnswers(e) ==
  CASE e = "never" -> {}
    [] e \in {"fetch", "other"} -> {Ok(e), Error(e)}
    [] OTHER -> {Ok(e)}

\* Effects in sequence; the first error ends the kernel.
Run(effects, h) ==
  IF h # <<>> /\ h[Len(h)].status = "error" THEN Throw(h[Len(h)].error)
  ELSE IF Len(h) < Len(effects) THEN Effect(effects[Len(h) + 1])
  ELSE Done(h[Len(h)])
\* A first step, an effect that depends on whether it succeeded (a try around
\* the first step), and the end, which returns the first result.
Then(first, h) ==
  CASE h = <<>> -> first
    [] Len(h) = 1 -> IF h[1].status = "ok" THEN Effect("next") ELSE Effect("recover")
    [] OTHER -> IF h[2].status # "ok" THEN Throw(h[2].error)
                ELSE IF h[1].status = "ok" THEN Done(h[1]) ELSE Done(Ok("recovered"))

\* Two effects against one, and a longer path if the one wins.
RaceStep(t, h) ==
  CASE t = <<>> -> IF Len(h) = 2 /\ h[1] = Ok("fetch") THEN Effect("more") ELSE Then(Race(2), h)
    [] t = <<0>> -> Run(<<"other", "slow">>, h)
    [] OTHER -> Run(<<"fetch">>, h)
AllStep(t, h) ==
  CASE t = <<>> -> Then(All(2), h)
    [] t = <<0>> -> Run(<<"fetch">>, h)
    [] OTHER -> Run(<<"other">>, h)
\* A race of an all of two against one effect.
NestedStep(t, h) ==
  CASE t = <<>> -> IF h = <<>> THEN Race(2) ELSE IF Len(h) = 1 THEN Effect("next") ELSE Done(h[1])
    [] t = <<0>> -> IF h = <<>> THEN All(2) ELSE Done(h[1])
    [] t = <<1>> -> Run(<<"fetch">>, h)
    [] OTHER -> Run(<<"slow">>, h)
ScopeStep(t, h) ==
  CASE t = <<>> -> Then(Scope, h)
    [] OTHER -> Run(<<"fetch", "slow">>, h)
TimeboxStep(t, h, effect) ==
  CASE t = <<>> -> Then(Timebox, h)
    [] OTHER -> Run(<<effect>>, h)
\* spawn of a child that may fail, an effect, join.
SpawnStep(t, h) ==
  CASE t = <<>> /\ h = <<>> -> SpawnChild
    [] t = <<>> /\ Len(h) = 1 -> Effect("next")
    [] t = <<>> /\ Len(h) = 2 -> JoinChild(<<0>>)
    [] t = <<>> /\ Len(h) = 3 -> Done(h[3])
    [] OTHER -> Run(<<"fetch">>, h)
\* Two joins of one child.
TwiceStep(t, h) ==
  CASE t = <<>> /\ h = <<>> -> SpawnChild
    [] t = <<>> /\ h # <<>> -> JoinChild(<<0>>)
    [] OTHER -> Run(<<"slow">>, h)
\* A child nobody joins.
UnjoinedStep(t, h) ==
  CASE t = <<>> /\ h = <<>> -> SpawnChild
    [] t = <<>> /\ h # <<>> -> IF Len(h) = 1 THEN Effect("next") ELSE Done(h[2])
    [] OTHER -> Run(<<"slow">>, h)
\* A scope whose body spawns a child that fails; the error is caught.
CaughtStep(t, h) ==
  CASE t = <<>> -> Then(Scope, h)
    [] t = <<0>> -> IF h = <<>> THEN SpawnChild
                    ELSE IF Len(h) = 1 THEN Effect("slow") ELSE Done(h[2])
    [] OTHER -> Run(<<"fetch">>, h)
\* all([]), a scope that cannot be bound, race([]).
EmptyStep(t, h) ==
  CASE h = <<>> -> All(0) [] Len(h) = 1 -> BadScope
    [] Len(h) = 2 -> Effect("next") [] OTHER -> Race(0)

MCKernelStep(p, t, h) ==
  CASE p = "race" -> RaceStep(t, h)
    [] p = "all" -> AllStep(t, h)
    [] p = "nested" -> NestedStep(t, h)
    [] p = "scope" -> ScopeStep(t, h)
    [] p = "timebox" -> TimeboxStep(t, h, "fetch")
    [] p = "deadline" -> TimeboxStep(t, h, "never")
    [] p = "spawnFails" -> SpawnStep(t, h)
    [] p = "twice" -> TwiceStep(t, h)
    [] p = "unjoined" -> UnjoinedStep(t, h)
    [] p = "caught" -> CaughtStep(t, h)
    [] p = "empty" -> EmptyStep(t, h)
=============================================================================
