--------------------------- MODULE WorkflowSource ---------------------------
(***************************************************************************)
(* The authored language: the statements and expressions of a workflow     *)
(* body the compiler accepts, and what a generator function with that body *)
(* does in JavaScript.  This is the reference the compiler is judged by;   *)
(* nothing of it is code of the repository.                                *)
(***************************************************************************)
EXTENDS Kernel, SequencesExt

(* Expressions; the ones from Perf on are written behind yield*. *)
Num(n)           == [k |-> "num", n |-> n]
Var(x)           == [k |-> "var", x |-> x]
Oper(o, a, b)    == [k |-> "oper", o |-> o, l |-> a, r |-> b]
Negated(a)       == [k |-> "negated", l |-> a]
Ternary(c, a, b) == [k |-> "ternary", c |-> c, l |-> a, r |-> b]
Arrow(p, e)      == [k |-> "arrow", x |-> p, l |-> e]
Prop(e, key)     == [k |-> "prop", l |-> e, key |-> key]
\* Literals: fields or items in the order they are written, some spread.
Field(key, e)    == [key |-> key, e |-> e, spread |-> FALSE]
Item(e)          == [e |-> e, spread |-> FALSE]
Spread(e)        == [e |-> e, spread |-> TRUE]
ObjectOf(ps)     == [k |-> "object", ps |-> ps]
ArrayOf(ps)      == [k |-> "array", ps |-> ps]
Apply1(f, a)     == [k |-> "apply", x |-> f, l |-> a]
Perf(id, a)      == [k |-> "perform", id |-> id, l |-> a]
JoinOf(x)        == [k |-> "join", x |-> x]
Provide(a)       == [k |-> "provide", l |-> a]
Bodied(id, bs)   == [k |-> "bodied", id |-> id, bs |-> bs]
AllOf(bs)   == Bodied("all", bs)
RaceOf(bs)  == Bodied("race", bs)
Spawn(b)    == Bodied("spawn", <<b>>)
Scoped(b)   == Bodied("scope", <<b>>)
Timebox(b)  == Bodied("timebox", <<b>>)
Resource(b) == Bodied("resource", <<b>>)
\* form: "ok", or what is wrong with the argument; every, limit: its interval and timeout.
ConvergeOf(form, probe, x, until, limit, every) ==
  [k |-> "converge", form |-> form, bs |-> <<probe>>, x |-> x, l |-> until, limit |-> limit, every |-> every]
Converge(probe, x, until) == ConvergeOf("ok", probe, x, until, Num(1), Num(1))
UseAgent(agent)  == [k |-> "useAgent", id |-> agent]
Method(x, m, a)  == [k |-> "method", x |-> x, m |-> m, l |-> a]
NextOf(a)        == [k |-> "next", l |-> a]    \* next(id, a) in a dispatch handler
Forbidden(code) == [k |-> "forbidden", code |-> code]

(* Statements *)
Decl(kind, x, e) == [k |-> "decl", kind |-> kind, x |-> x, e |-> e]
Const(x, e)      == Decl("const", x, e)
LetIs(x, e)      == Decl("let", x, e)
Assign(x, e)     == [k |-> "assign", x |-> x, e |-> e]
Do(e)            == [k |-> "do", e |-> e]
Return(e)        == [k |-> "return", e |-> e]
ThrowNew(e)      == [k |-> "throw", e |-> e]
IfElse(c, a, b)  == [k |-> "if", e |-> c, then |-> a, else |-> b, elsed |-> TRUE]
IfOnly(c, a)     == [k |-> "if", e |-> c, then |-> a, else |-> <<>>, elsed |-> FALSE]
WhileDo(c, b)    == [k |-> "while", e |-> c, body |-> b]
\* form: "each", or how its head differs from const x of yield* each(c).
ForOf(form, x, c, b) == [k |-> "each", form |-> form, x |-> x, e |-> c, body |-> b]
ForEach(x, c, b) == ForOf("each", x, c, b)
Break            == [k |-> "break"]
BlockOf(b)       == [k |-> "block", body |-> b]
TryDo(b, p, c, hasCatch, f, hasFinally) ==
  [k |-> "try", body |-> b, x |-> p, catch |-> c, caught |-> hasCatch, fin |-> f, final |-> hasFinally]
TryCatch(b, p, c)  == TryDo(b, p, c, TRUE, <<>>, FALSE)
TryFinally(b, f)   == TryDo(b, "", <<>>, FALSE, f, TRUE)
TryBoth(b, p, c, f) == TryDo(b, p, c, TRUE, f, TRUE)
\* What may stand at the head of a scope: a transport, a dispatch handler.
UseTransport(agent) == [k |-> "use", id |-> agent]
AroundEffects(b) == [k |-> "around", body |-> b]
True == [k |-> "true"]

(* The lists of statements directly inside a statement, and those of the   *)
(* functions written inside an expression.                                 *)
Inner(st) == CASE st.k = "if" -> <<st.then, st.else>>
               [] st.k \in {"while", "each", "block"} -> <<st.body>>
               [] st.k = "try" -> <<st.body, st.catch, st.fin>>
               [] OTHER -> <<>>
RECURSIVE Functions(_)
Functions(e) ==
  CASE e.k \in {"bodied", "converge"} -> e.bs
    [] e.k = "oper" -> Functions(e.l) \o Functions(e.r)
    [] e.k = "ternary" -> Functions(e.c) \o Functions(e.l) \o Functions(e.r)
    [] e.k \in {"negated", "perform", "provide", "apply", "arrow", "method", "next", "prop"} -> Functions(e.l)
    [] e.k \in {"object", "array"} -> FlattenSeq([i \in DOMAIN e.ps |-> Functions(e.ps[i].e)])
    [] OTHER -> <<>>
HasExpr(st) == st.k \in {"decl", "assign", "do", "return", "throw", "if", "while", "each"}

(* All statements of ss at any depth, those of functions inside its        *)
(* expressions too when fns holds.                                         *)
RECURSIVE Statements(_, _)
Statements(ss, fns) ==
  FlattenSeq([i \in DOMAIN ss |->
    LET own == Inner(ss[i]) \o (IF fns /\ HasExpr(ss[i]) THEN Functions(ss[i].e) ELSE <<>>)
    IN <<ss[i]>> \o FlattenSeq([b \in DOMAIN own |-> Statements(own[b], fns)])])
SomeStatement(ss, fns, P(_)) == LET all == Statements(ss, fns) IN \E i \in DOMAIN all : P(all[i])

(* The names a list of statements declares itself. *)
Declared(ss) == {ss[i].x : i \in {i \in DOMAIN ss : ss[i].k = "decl"}}

(***************************************************************************)
(* What the program does: as Eval, with the variables in the state.        *)
(***************************************************************************)
RECURSIVE Value(_, _, _), Literal(_, _, _, _), Route(_, _, _, _), Exec(_, _, _), Loop(_, _, _), Stream(_, _, _), Poll(_, _, _)
Fall(s) == Done("next", Null, s)
After(r, F(_, _)) == IF r.t = "next" THEN F(r.v, r.s) ELSE r
Bind(x, v, s) == [s EXCEPT !.env = (x :> v) @@ @]

(* Leaving a block, the names it declared mean again what they meant. *)
Leave(ss, xs, r, s) ==
  [r EXCEPT !.s.env = [x \in DOMAIN s.env |-> IF x \in Declared(ss) \union xs THEN s.env[x] ELSE r.s.env[x]]]
RunBlock(ss, A, s) == Leave(ss, {}, Exec(ss, A, s), s)
(* A function body: what it returns is its value. *)
FunctionBody(ss, A, s) ==
  LET r == RunBlock(ss, A, s) IN IF r.t \in {"next", "return"} THEN [r EXCEPT !.t = "ok"] ELSE r

\* An effect and the handlers around it; a handler sees only its parameters.
Route(id, d, A, s) ==
  IF s.around = <<>> THEN Perform(id, d, A, s)
  ELSE LET t == [s EXCEPT !.around = Front(@), !.env = ("id" :> Str(id)) @@ ("data" :> d)]
           r == FunctionBody(Last(s.around).body, A, t)
       IN [r EXCEPT !.s.around = s.around, !.s.env = s.env]

Value(e, A, s) ==
  CASE e.k = "num" -> Done("ok", Number(e.n), s)
    [] e.k = "true" -> Done("ok", Bool(TRUE), s)
    [] e.k = "var" -> IF e.x \in DOMAIN s.env THEN Done("ok", s.env[e.x], s) ELSE Done("error", UnboundVariable, s)
    [] e.k = "oper" -> Then(Value(e.l, A, s), LAMBDA a, t:
         IF (e.o = "and" /\ ~Truthy(a)) \/ (e.o = "or" /\ Truthy(a)) THEN Done("ok", a, t)
         ELSE Then(Value(e.r, A, t), LAMBDA b, u: IF e.o \in {"and", "or"} THEN Done("ok", b, u) ELSE Apply(e.o, a, b, u)))
    [] e.k = "negated" -> Then(Value(e.l, A, s), LAMBDA a, t: Done("ok", Bool(~Truthy(a)), t))
    [] e.k = "ternary" -> Then(Value(e.c, A, s), LAMBDA a, t: Value(IF Truthy(a) THEN e.l ELSE e.r, A, t))
    [] e.k = "arrow" -> Done("ok", [v |-> "arrow", x |-> e.x, l |-> e.l], s)
    [] e.k = "prop" -> Then(Value(e.l, A, s), LAMBDA o, t: Done("ok", o.f[e.key], t))
    [] e.k = "object" -> Literal(e.ps, Obj(<<>>), A, s)
    [] e.k = "array" -> Literal(e.ps, Arr(<<>>), A, s)
    [] e.k = "apply" -> Then(Value(e.l, A, s), LAMBDA a, t:
         LET f == t.env[e.x]
             r == Value(f.l, A, Bind(f.x, a, t)) IN [r EXCEPT !.s.env = t.env])
    [] e.k = "perform" -> Then(Value(e.l, A, s), LAMBDA a, t: Route(e.id, a, A, t))
    [] e.k = "next" -> Then(Value(e.l, A, s), LAMBDA a, t: Route(s.env["id"].s, a, A, t))
    [] e.k = "useAgent" -> Done("ok", Str(e.id), s)
    [] e.k = "method" -> Then(Value(e.l, A, s), LAMBDA a, t: Route(t.env[e.x].s, a, A, t))
    [] e.k = "join" -> Orchestrate("join", 0, s.env[e.x], LAMBDA i, t: t, s)
    [] e.k = "provide" -> Then(Value(e.l, A, s), LAMBDA a, t: Done("provided", a, t))
    [] e.k = "bodied" -> Orchestrate(e.id, Len(e.bs), Null, LAMBDA i, t: FunctionBody(e.bs[i], A, t), s)
    [] e.k = "converge" -> Then(Then(Value(e.limit, A, s), LAMBDA limit, t: Poll(e, A, t)), LAMBDA v, t:
         Done("ok", Obj([status |-> Str("completed"), value |-> v]), t))

\* The value of a literal whose parts are ps, after those that gave acc.
Literal(ps, acc, A, s) ==
  IF ps = <<>> THEN Done("ok", acc, s)
  ELSE Then(Value(Head(ps).e, A, s), LAMBDA v, t: Literal(Tail(ps),
         CASE acc.v = "obj" -> Obj((IF Head(ps).spread THEN v.f ELSE Head(ps).key :> v) @@ acc.f)
           [] acc.v = "arr" -> Arr(acc.a \o (IF Head(ps).spread THEN v.a ELSE <<v>>)), A, t))

Poll(e, A, s) ==
  Then(FunctionBody(e.bs[1], A, s), LAMBDA v, t:
    Then(Value(e.l, A, Bind(e.x, v, t)), LAMBDA ok, u:
      IF Truthy(ok) THEN Done("ok", v, [u EXCEPT !.env = t.env])
      ELSE Then(Value(e.every, A, [u EXCEPT !.env = t.env]), LAMBDA i, w:
             Then(Route("sleep", i, A, w), LAMBDA r, z: Poll(e, A, z)))))

Loop(st, A, s) ==
  Then(Value(st.e, A, s), LAMBDA c, t:
    IF ~Truthy(c) THEN Fall(t) ELSE After(RunBlock(st.body, A, t), LAMBDA v, u: Loop(st, A, u)))

Stream(st, A, s) ==
  Then(Route("stream.next", Str("subscription"), A, s), LAMBDA item, t:
    IF Truthy(item.f.done) THEN Fall(t)
    ELSE After(Leave(st.body, {st.x}, Exec(st.body, A, Bind(st.x, item.f.value, t)), t),
               LAMBDA v, u: Stream(st, A, u)))

ExecTry(st, A, s) ==
  LET r1 == RunBlock(st.body, A, s)
      r2 == IF r1.t = "error" /\ st.caught
            THEN Leave(st.catch, {st.x}, Exec(st.catch, A, Bind(st.x, r1.v, r1.s)), r1.s) ELSE r1
  IN IF r2.t \notin {"next", "return", "error"} \/ ~st.final THEN r2
     ELSE LET r3 == RunBlock(st.fin, A, r2.s) IN IF r3.t = "next" THEN [r2 EXCEPT !.s = r3.s] ELSE r3

Step(st, A, s) ==
  CASE st.k \in {"decl", "assign"} -> Then(Value(st.e, A, s), LAMBDA v, t: Fall(Bind(st.x, v, t)))
    [] st.k = "do" -> Then(Value(st.e, A, s), LAMBDA v, t: Fall(t))
    [] st.k = "return" -> Then(Value(st.e, A, s), LAMBDA v, t: Done("return", v, t))
    [] st.k = "throw" -> Then(Value(st.e, A, s), LAMBDA v, t: Done("error", ErrorValue(v.n), t))
    [] st.k = "if" -> Then(Value(st.e, A, s), LAMBDA c, t: RunBlock(IF Truthy(c) THEN st.then ELSE st.else, A, t))
    [] st.k = "while" -> Loop(st, A, s)
    [] st.k = "each" -> Then(Value(st.e, A, s), LAMBDA c, t:
         Then(Route("stream.subscribe", c, A, t), LAMBDA h, u: Stream(st, A, u)))
    [] st.k = "use" -> Fall(s)
    [] st.k = "around" -> Fall([s EXCEPT !.around = Append(@, st)])
    [] st.k = "block" -> RunBlock(st.body, A, s)
    [] st.k = "try" -> ExecTry(st, A, s)

Exec(ss, A, s) ==
  IF ss = <<>> THEN Fall(s) ELSE After(Step(Head(ss), A, s), LAMBDA v, t: Exec(Tail(ss), A, t))

(* What the workflow does when its first effects are answered by A. *)
Behaviour(program, A) == Exec(program, A, Start)
=============================================================================
