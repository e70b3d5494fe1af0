------------------------ MODULE MCDurableExecution ------------------------
(***************************************************************************)
(* Small workflows for DurableExecution.  A program is a pair of a kernel  *)
(* (the workflow) and the max-priority middleware installed around it.     *)
(***************************************************************************)
EXTENDS DurableExecution

MCIds == {"fetch", "store", "__config", "stream.next"}
MCRuntimeDirect == {"__config", "stream.next"}
MCNonCanonical == {"__config"}
MCPayloads == {"x", "y", "sub"}
MCCapabilities == {"sub"}
MCValues == {"x", "y", "sub"}
MCErrors == {"DivergenceError", "SubscriptionCapabilityError", "AppendError", "AgentError"}

Eff(id, data) == [id |-> id, data |-> data]

\* fetch; if it fails, store in the handler of a try; else read the config and
\* store what was fetched.
MainKernel(h) ==
  CASE h = <<>> -> Yield(Eff("fetch", "x"))
    [] Len(h) = 1 -> IF h[1].status = "ok" THEN Yield(Eff("__config", "x"))
                     ELSE Yield(Eff("store", "y"))
    [] Len(h) = 2 -> IF h[1].status = "ok" THEN Yield(Eff("store", h[1].value))
                     ELSE IF h[2].status = "ok" THEN Done("y") ELSE Throw(h[2].error)
    [] OTHER -> IF h[3].status = "ok" THEN Done(h[1].value) ELSE Throw(h[3].error)

\* The same without the config read.
ShortKernel(h) ==
  CASE h = <<>> -> Yield(Eff("fetch", "x"))
    [] Len(h) = 1 -> IF h[1].status = "ok" THEN Yield(Eff("store", h[1].value))
                     ELSE Throw(h[1].error)
    [] OTHER -> Done("x")

\* Only the fetch.
EarlyKernel(h) == IF h = <<>> THEN Yield(Eff("fetch", "x")) ELSE Done("y")

\* Takes an item of a subscription, and then hands the subscription itself to
\* an agent, or returns it.
StreamKernel(h, last) ==
  IF h = <<>> THEN Yield(Eff("stream.next", "sub")) ELSE last

MCKernelStep(p, h) ==
  CASE p \in {"plain", "rewrite", "rewriteOther", "cache", "retry"} -> MainKernel(h)
    [] p = "noConfig" -> ShortKernel(h)
    [] p = "early" -> EarlyKernel(h)
    [] p = "leak" -> StreamKernel(h, Yield(Eff("store", "sub")))
    [] p = "escape" -> StreamKernel(h, Done("sub"))

Flip(r) ==
  IF r.status # "ok" THEN r ELSE Ok(IF r.value = "x" THEN "y" ELSE "x")
Pass(e, answers) == IF answers = <<>> THEN Next_(e) ELSE Return(answers[1])

\* rewrite: sends fetch(x) on as fetch(y) and changes the answer on the way
\* out; cache: answers fetch itself; retry: asks again after one error.
MCMaxStep(p, e, answers) ==
  CASE p = "rewrite" /\ e.id = "fetch" ->
         IF answers = <<>> THEN Next_(Eff("fetch", "y")) ELSE Return(Flip(answers[1]))
    [] p = "rewriteOther" /\ e.id = "fetch" ->
         IF answers = <<>> THEN Next_(Eff("fetch", "sub")) ELSE Return(answers[1])
    [] p = "cache" /\ e.id = "fetch" -> Return(Ok("x"))
    [] p = "retry" ->
         IF Len(answers) = 1 /\ answers[1].status = "error" THEN Next_(e)
         ELSE IF answers = <<>> THEN Next_(e) ELSE Return(answers[Len(answers)])
    [] OTHER -> Pass(e, answers)

MCAnswers(e) ==
  CASE e.id = "fetch" -> {Ok("x"), Ok("y"), Error("AgentError")}
    [] e.id = "store" -> {Ok("x"), Error("AgentError")}
    [] OTHER -> {Ok("x")}
=============================================================================
