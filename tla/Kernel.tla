------------------------------- MODULE Kernel -------------------------------
(***************************************************************************)
(* The Tisyn IR and its evaluator (packages/ir, packages/kernel).          *)
(*                                                                         *)
(* The evaluator of the code is a generator that yields a descriptor for   *)
(* each external operation and is resumed with its result.  Eval computes  *)
(* what that generator does when its first effects are answered by the     *)
(* sequence A: the value, the error, or the effect it then waits for.      *)
(*                                                                         *)
(* Names are tuples: a fresh name of the compiler cannot be one of the     *)
(* program's, but a versioned name can (see Emit).                         *)
(***************************************************************************)
EXTENDS Naturals, Sequences, SequencesExt, TLC

(* Values *)
Number(n)  == [v |-> "int", n |-> n]
Bool(b) == [v |-> "bool", n |-> IF b THEN 1 ELSE 0]
Str(s)  == [v |-> "str", s |-> s]
Null    == [v |-> "null"]
Obj(f)  == [v |-> "obj", f |-> f]
Arr(vs) == [v |-> "arr", a |-> vs]
Task(id, r) == [v |-> "task", id |-> id, r |-> r]
(* Messages are numbers: those a program throws are below 100. *)
ErrorValue(m) == [v |-> "error", m |-> m]
UnboundVariable == ErrorValue(100)
NotCallable     == ErrorValue(101)
ArityMismatch   == ErrorValue(102)
TypeError       == ErrorValue(103)

Truthy(v) == v # Null /\ v # Str("") /\ (v.v \in {"int", "bool"} => v.n # 0)

(* IR *)
Lit(v)          == [op |-> "lit", v |-> v]
Ref(x)          == [op |-> "ref", x |-> x]
Fn(ps, b)       == [op |-> "fn", params |-> ps, body |-> b]
Let(x, v, b)    == [op |-> "let", x |-> x, val |-> v, body |-> b]
If(c, a, b)     == [op |-> "if", cond |-> c, then |-> a, else |-> b]
While(c, b)     == [op |-> "while", cond |-> c, body |-> b]
Call(f, as)     == [op |-> "call", fn |-> f, args |-> as]
Get(o, key)     == [op |-> "get", obj |-> o, key |-> key]
Binary(o, a, b) == [op |-> o, a |-> a, b |-> b]
Not(a)          == [op |-> "not", arg |-> a]
Construct(f)    == [op |-> "construct", fields |-> f]
ArrayNode(es)   == [op |-> "array", items |-> es]
\* Objects whose fields, arrays whose items are put together.
MergeObjects(es) == [op |-> "merge-objects", parts |-> es]
ConcatArrays(es) == [op |-> "concat-arrays", parts |-> es]
Throw(m)        == [op |-> "throw", msg |-> m]
Effect(id, d)   == [op |-> "effect", id |-> id, data |-> d]
Compound(id, bs, d) == [op |-> "compound", id |-> id, bodies |-> bs, data |-> d]
NoExpr == [op |-> "none"]
Try(b, p, c, f, fp) ==
  [op |-> "try", body |-> b, param |-> p, catch |-> c, fin |-> f, payload |-> fp]

\* The keys of objects, in lexicographic order.
KeyOrder == <<"__tag", "__value", "a", "b", "x", "y">>

(* What an evaluation ends with, and the state it leaves: n answers used,  *)
(* the tasks spawned and joined, the handlers around the effects of the    *)
(* scopes it is in, and (for the source) the variables.                    *)
Done(t, v, s) == [t |-> t, v |-> v, s |-> s]
Start == [n |-> 0, tasks |-> 0, joined |-> {}, env |-> <<>>, around |-> <<>>]
Then(r, F(_, _)) == IF r.t = "ok" THEN F(r.v, r.s) ELSE r

(* The host's answer, in the shape the effect's id gives it. *)
Shaped(id, a) ==
  CASE id = "stream.subscribe" -> Str("subscription")
    [] id = "stream.next" -> Obj([done |-> Bool(a.n = 0), value |-> IF a.n = 0 THEN Null ELSE Number(a.n)])
    [] OTHER -> Number(a.n)
Perform(id, data, A, s) ==
  IF s.n = Len(A) THEN Done("pending", [id |-> id, data |-> data], s)
  ELSE LET a == A[s.n + 1] IN
       IF a.ok THEN Done("ok", Shaped(id, a), [s EXCEPT !.n = @ + 1])
       ELSE Done("error", ErrorValue(a.n), [s EXCEPT !.n = @ + 1])

(* The runtime's compound operations on bodies 1..n, in one order it may   *)
(* schedule them: a child runs to its end before its parent goes on.       *)
Crashed(r) == IF r.t = "error" THEN [r EXCEPT !.t = "crash"] ELSE r
RunAll(n, Run(_, _), s) ==
  FoldLeft(LAMBDA r, i: Then(r, LAMBDA vs, t:
             Then(Crashed(Run(i, t)), LAMBDA v, u: Done("ok", Arr(Append(vs.a, v)), u))),
           Done("ok", Arr(<<>>), s), [i \in 1..n |-> i])
Orchestrate(id, n, d, Run(_, _), s) ==
  CASE id = "all" -> RunAll(n, Run, s)
    [] id = "race" -> Crashed(Run(1, s))
    [] id = "scope" -> LET r == Run(1, IF d.v = "fn" THEN [s EXCEPT !.around = Append(@, d)] ELSE s)
                       IN [r EXCEPT !.s.around = s.around]
    [] id = "timebox" -> Then(Run(1, s), LAMBDA v, t: Done("ok", Obj([status |-> Str("completed"), value |-> v]), t))
    [] id = "spawn" -> LET r == Crashed(Run(1, [s EXCEPT !.tasks = @ + 1])) IN
         Then(r, LAMBDA v, t: Done("ok", Task(s.tasks, v), t))
    [] id = "join" -> IF d.v # "task" \/ d.id \in s.joined THEN Done("crash", Str("join"), s)
                      ELSE Done("ok", d.r, [s EXCEPT !.joined = @ \union {d.id}])
    [] id = "provide" -> Done("provided", d, s)
    [] id = "resource" -> LET r == Run(1, s) IN
         IF r.t = "provided" THEN Done("ok", r.v, r.s)
         ELSE IF r.t = "ok" THEN Done("crash", Str("resource"), r.s) ELSE r

(* Arithmetic and comparison of evaluated operands. *)
Apply(op, a, b, s) ==
  IF op = "eq" THEN Done("ok", Bool(a = b), s)
  ELSE IF a.v # "int" \/ b.v # "int" THEN Done("error", TypeError, s)
  ELSE Done("ok", Number(a.n + b.n), s)

RECURSIVE Eval(_, _, _, _), Dispatch(_, _, _, _), EvalArgs(_, _, _, _, _), EvalWhile(_, _, _, _, _), EvalFields(_, _, _, _, _)
\* An effect goes to the innermost handler, whose own dispatch goes outwards.
Dispatch(id, d, A, s) ==
  CASE id = "dispatch" -> Dispatch(d.a[1].s, d.a[2], A, s)
    [] id # "dispatch" /\ s.around = <<>> -> Perform(id, d, A, s)
    [] OTHER -> LET f == Last(s.around)
                    r == Eval(f.body, (f.params[1] :> Str(id)) @@ (f.params[2] :> d), A, [s EXCEPT !.around = Front(@)])
                IN [r EXCEPT !.s.around = s.around]

EvalTry(e, env, A, s) ==
  LET r1 == Eval(e.body, env, A, s)
      r2 == IF r1.t = "error" /\ e.catch # NoExpr
            THEN Eval(e.catch, IF e.param = <<>> THEN env ELSE (e.param :> r1.v) @@ env, A, r1.s)
            ELSE r1
      fenv == IF e.payload # <<>> /\ r2.t = "ok" THEN (e.payload :> r2.v) @@ env ELSE env
  IN IF r2.t \notin {"ok", "error"} \/ e.fin = NoExpr THEN r2
     ELSE LET r3 == Eval(e.fin, fenv, A, r2.s) IN
          IF r3.t = "ok" THEN [r2 EXCEPT !.s = r3.s] ELSE r3

EvalCall(e, env, A, s) ==
  Then(Eval(e.fn, env, A, s), LAMBDA f, t:
    IF f.v # "fn" THEN Done("error", NotCallable, t)
    ELSE Then(EvalArgs(e.args, <<>>, env, A, t), LAMBDA vs, u:
      IF Len(vs) # Len(f.params) THEN Done("error", ArityMismatch, u)
      ELSE Eval(f.body, [x \in {f.params[i] : i \in DOMAIN vs} |-> vs[CHOOSE i \in DOMAIN vs : f.params[i] = x]] @@ env, A, u)))

EvalGet(e, env, A, s) ==
  Then(Eval(e.obj, env, A, s), LAMBDA v, t:
    Done("ok", IF v.v = "obj" /\ e.key \in DOMAIN v.f THEN v.f[e.key] ELSE Null, t))
\* and, or give an operand back, not gives a Boolean.
EvalLogical(e, env, A, s) ==
  Then(Eval(IF e.op = "not" THEN e.arg ELSE e.a, env, A, s), LAMBDA a, t:
    CASE e.op = "not" -> Done("ok", Bool(~Truthy(a)), t)
      [] (e.op = "and" /\ Truthy(a)) \/ (e.op = "or" /\ ~Truthy(a)) -> Eval(e.b, env, A, t)
      [] OTHER -> Done("ok", a, t))
\* Each part must have the kind the operation joins; the last field wins.
EvalParts(e, kind, acc, Add(_, _), env, A, s) ==
  FoldLeft(LAMBDA r, part: Then(r, LAMBDA sum, t: Then(Eval(part, env, A, t), LAMBDA v, u:
             IF v.v # kind THEN Done("error", TypeError, u) ELSE Done("ok", Add(sum, v), u))),
           Done("ok", acc, s), e.parts)
EvalConcatArrays(e, env, A, s) == EvalParts(e, "arr", Arr(<<>>), LAMBDA a, b: Arr(a.a \o b.a), env, A, s)
EvalMergeObjects(e, env, A, s) == EvalParts(e, "obj", Obj(<<>>), LAMBDA a, b: Obj(b.f @@ a.f), env, A, s)
EvalArray(e, env, A, s) == Then(EvalArgs(e.items, <<>>, env, A, s), LAMBDA vs, t: Done("ok", Arr(vs), t))
EvalThrow(e, env, A, s) == Then(Eval(e.msg, env, A, s), LAMBDA m, t: Done("error", ErrorValue(m.n), t))

Eval(e, env, A, s) ==
  CASE e.op = "lit" -> Done("ok", e.v, s)
    [] e.op = "ref" -> IF e.x \in DOMAIN env THEN Done("ok", env[e.x], s)
                       ELSE Done("error", UnboundVariable, s)
    [] e.op = "fn" -> Done("ok", [v |-> "fn", params |-> e.params, body |-> e.body], s)
    [] e.op = "let" -> Then(Eval(e.val, env, A, s), LAMBDA v, t: Eval(e.body, (e.x :> v) @@ env, A, t))
    [] e.op = "if" -> Then(Eval(e.cond, env, A, s), LAMBDA v, t:
         IF Truthy(v) THEN Eval(e.then, env, A, t)
         ELSE IF e.else = NoExpr THEN Done("ok", Null, t) ELSE Eval(e.else, env, A, t))
    [] e.op = "while" -> EvalWhile(e, Null, env, A, s)
    [] e.op = "call" -> EvalCall(e, env, A, s)
    [] e.op = "get" -> EvalGet(e, env, A, s)
    [] e.op \in {"add", "eq"} -> Then(Eval(e.a, env, A, s), LAMBDA a, t:
         Then(Eval(e.b, env, A, t), LAMBDA b, u: Apply(e.op, a, b, u)))
    [] e.op \in {"and", "or", "not"} -> EvalLogical(e, env, A, s)
    [] e.op = "construct" -> EvalFields(e.fields, <<>>, env, A, s)
    [] e.op = "array" -> EvalArray(e, env, A, s)
    [] e.op = "concat-arrays" -> EvalConcatArrays(e, env, A, s)
    [] e.op = "merge-objects" -> EvalMergeObjects(e, env, A, s)
    [] e.op = "throw" -> EvalThrow(e, env, A, s)
    [] e.op = "try" -> EvalTry(e, env, A, s)
    [] e.op = "effect" -> Then(Eval(e.data, env, A, s), LAMBDA v, t: Dispatch(e.id, v, A, t))
    [] e.op = "compound" -> Then(Eval(e.data, env, A, s), LAMBDA d, t:
         Orchestrate(e.id, Len(e.bodies), d, LAMBDA i, u: Eval(e.bodies[i], env, A, u), t))

EvalArgs(as, vs, env, A, s) ==
  IF as = <<>> THEN Done("ok", vs, s)
  ELSE Then(Eval(Head(as), env, A, s), LAMBDA v, t: EvalArgs(Tail(as), Append(vs, v), env, A, t))

EvalWhile(e, last, env, A, s) ==
  Then(Eval(e.cond, env, A, s), LAMBDA c, t:
    IF ~Truthy(c) THEN Done("ok", last, t)
    ELSE Then(Eval(e.body, env, A, t), LAMBDA v, u: EvalWhile(e, v, env, A, u)))

\* The fields are evaluated in the lexicographic order of their keys.
EvalFields(fs, f, env, A, s) ==
  IF DOMAIN fs = DOMAIN f THEN Done("ok", Obj(f), s)
  ELSE LET k == SelectSeq(KeyOrder, LAMBDA key: key \in DOMAIN fs \ DOMAIN f)[1] IN
       Then(Eval(fs[k], env, A, s), LAMBDA v, t: EvalFields(fs, (k :> v) @@ f, env, A, t))
=============================================================================
