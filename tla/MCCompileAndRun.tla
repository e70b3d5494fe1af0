--------------------------- MODULE MCCompileAndRun ---------------------------
(***************************************************************************)
(* Families of programs small enough to compile and run all of them: one   *)
(* compound statement, or one inside another, between the declarations of  *)
(* two variables and an end; task handles used twice; functions run as     *)
(* children.  Conditions are effects, so that the answers decide the path. *)
(***************************************************************************)
EXTENDS CompileAndRun

Ask(id)     == Perf(id, Num(1))
Tell(id, x) == Perf(id, Var(x))
Cond   == Ask("c")
Vars   == <<LetIs("x", Num(0)), LetIs("y", Num(0))>>
SetX   == Assign("x", Ask("a"))
ShowX  == Do(Tell("a", "x"))
RetX   == Return(Var("x"))
GoOn   == Assign("x", Tell("d", "x"))

Compounds(A, B) ==
  {IfElse(Cond, a, b) : a \in A, b \in B} \union {IfElse(Cond, b, a) : a \in A, b \in B}
  \union {IfOnly(Cond, a) : a \in A} \union {WhileDo(Cond, a) : a \in A}
  \union {BlockOf(a) : a \in A} \union {ForEach("i", Num(1), a) : a \in A}
  \union {TryCatch(a, "e", b) : a \in A, b \in B} \union {TryCatch(b, "e", a) : a \in A, b \in B}
  \union {TryFinally(a, b) : a \in A, b \in B}

Clauses == { <<>>, <<ShowX>>, <<SetX>>, <<SetX, Assign("y", Ask("b"))>>,
             <<Const("z", Ask("a")), Assign("x", Var("z"))>>,
             <<RetX>>, <<SetX, RetX>>, <<Assign("y", Ask("a")), ThrowNew(Num(1))>> }
Ends == { <<>>, <<RetX>>, <<Do(Tell("d", "x")), Return(Var("y"))>>, <<GoOn, RetX>> }
Flat == {Vars \o <<s>> \o e : s \in Compounds(Clauses, Clauses), e \in Ends}

Few == {<<ShowX>>, <<SetX>>, <<RetX>>}
Around(S) == {<<s>> : s \in S} \union {<<Do(Tell("f", "x")), s>> : s \in S}
             \union {<<s, Do(Tell("f", "x"))>> : s \in S} \union {<<s, Assign("x", Ask("f"))>> : s \in S}
Nested == {Vars \o <<s>> \o e : s \in Compounds(Around(Compounds(Few, Few)), Few), e \in {<<RetX>>, <<GoOn, RetX>>}}

(***************************************************************************)
(* Programs the compiler is known to change (README): a program is Kept    *)
(* when none of these is in it.                                            *)
(***************************************************************************)
Sets(ss) == {x \in {"x", "y"} : Assigns(ss, x)}
SetsBelow(st) == UNION {Sets(Inner(st)[b]) : b \in DOMAIN Inner(st)}
IsLoop(st) == st.k \in {"while", "each"}
Fallible(st) == st.k = "throw" \/ (HasExpr(st) /\ st.e.k \notin {"num", "var"})
Packs(st) == st.k = "try" /\ (ContainsReturn(st.body) \/ ContainsReturn(st.catch))

\* A clause that fails loses what it assigned before.
Loses(ss) == LET all == Statements(ss, FALSE) IN
  \/ \E i, j \in DOMAIN all : i < j /\ all[i].k = "assign" /\ Fallible(all[j])
  \/ \E i \in DOMAIN all : IsLoop(all[i]) /\ Sets(all[i].body) # {}
\* A return below the end of a branch is lost, below a statement of a loop it
\* is not seen.
ReturnsLast(ss) == ContainsReturn(ss) => Last(ss).k = "return" /\ ~ContainsReturn(Front(ss))
SeesReturns(ss) == \A i \in DOMAIN ss : ContainsReturn(<<ss[i]>>) => ss[i].k \in {"return", "if"}

KindBelow(st, kind) ==
  CASE Packs(st) \/ (st.k = "each" /\ ContainsReturn(st.body)) -> "packed"
    [] st.k = "if" /\ kind = "packed" -> "packed"
    [] st.k = "if" /\ kind # "packed" -> "terminal"
    [] st.k \in {"each", "try"} /\ SetsBelow(st) # {} -> "terminal"
    [] OTHER -> "plain"
RECURSIVE Kept(_, _, _)
Kept(ss, kind, later) ==
  \A i \in DOMAIN ss :
    LET st == ss[i]
        rest == SubSeq(ss, i + 1, Len(ss))
        after == later \union Sets(rest)
        clauses == {Inner(st)[b] : b \in DOMAIN Inner(st)}
    IN /\ \A b \in clauses : Kept(b, KindBelow(st, kind), after)
       /\ st.k = "block" => Sets(st.body) = {} /\ ~ContainsReturn(st.body)
       /\ st.k \in {"if", "try"} => (Cardinality(SetsBelow(st)) > 1 => after = {})
       /\ st.k = "try" => ~Loses(st.body) /\ (st.final => ~Loses(st.catch))
       /\ st.k = "if" => \A b \in clauses : ReturnsLast(b)
       /\ st.k = "if" /\ kind = "packed" => rest = <<>> /\ (st.elsed \/ ~ContainsReturn(st.then))
       /\ Packs(st) /\ kind = "packed" => SetsBelow(st) = {}
       /\ IsLoop(st) => SeesReturns(st.body)
       /\ st.k = "each" => kind = "plain"

(***************************************************************************)
(* Task handles, used twice in every pair of ways.                         *)
(***************************************************************************)
Join == Do(JoinOf("t"))
Uses == { Join, Const("r", JoinOf("t")), IfOnly(Cond, <<Join>>), IfElse(Cond, <<Join>>, <<Join>>),
          IfElse(Cond, <<>>, <<Join>>), IfElse(Cond, <<Join, Return(Num(1))>>, <<>>), WhileDo(Cond, <<Join>>), WhileDo(Cond, <<Join, Return(Num(1))>>),
          TryCatch(<<Join>>, "e", <<>>), TryCatch(<<Join>>, "e", <<Join>>), TryFinally(<<>>, <<Join>>), TryFinally(<<Join>>, <<>>),
          Const("u", Var("t")), Do(AllOf(<<<<Join>>, <<>>>>)), Do(Timebox(<<Join>>)), Do(Scoped(<<Join>>)),
          ForEach("i", Num(1), <<Join>>), BlockOf(<<Join>>), Const("s", Spawn(<<Join>>)),
          BlockOf(<<Const("t", Ask("a")), Join>>), Do(Resource(<<Join, Do(Provide(Num(1)))>>)),
          Assign("x", Var("t")), Do(JoinOf("x")), SetX }
\* In a loop the compiler looks at a join once, and after a finally clause it
\* has forgotten the clause's joins.
Joins(ss) == SomeStatement(ss, TRUE, LAMBDA st: HasExpr(st) /\ st.e.k = "join")
JoinsSeen(st) == /\ st.k = "try" => ~Joins(st.fin)
                 /\ IsLoop(st) => ~Joins(st.body) \/ Last(st.body).k = "return"
Handles == {Vars \o <<Const("t", Spawn(f)), a, b>> : f \in {<<>>, <<Return(Ask("a"))>>}, a \in Uses, b \in Uses}
           \union {Vars \o <<LetIs("t", Spawn(<<>>)), a>> : a \in Uses}

(***************************************************************************)
(* Functions run as children, resources, converge, arrows.  A body whose   *)
(* value is used ends with a return: without one the compiled body's value *)
(* is its last statement's.                                                *)
(***************************************************************************)
Children1 == { <<>>, <<Return(Ask("a"))>>, <<Const("z", Ask("a")), Return(Var("z"))>>, <<ThrowNew(Num(1))>>,
               <<IfOnly(Cond, <<RetX>>), Return(Ask("a"))>>, <<TryCatch(<<Do(Ask("a"))>>, "e", <<>>), RetX>>,
               <<LetIs("z", Num(0)), IfOnly(Cond, <<Assign("z", Ask("a"))>>), Return(Var("z"))>> }
Give == Do(Provide(Num(1)))
Resources == { <<>>, <<Return(Num(1))>>, <<Give>>, <<Give, Do(Ask("a"))>>, <<Do(Ask("a")), Do(Provide(Var("x")))>>,
               <<TryFinally(<<Give>>, <<Do(Ask("a"))>>)>>, <<TryFinally(<<Give>>, <<>>), Do(Ask("a"))>>,
               <<TryFinally(<<Give, Do(Ask("b"))>>, <<>>)>>, <<TryCatch(<<Do(Ask("b"))>>, "e", <<Give>>)>>,
               <<IfElse(Cond, <<Give>>, <<Give>>)>>, <<IfOnly(Cond, <<ThrowNew(Num(1))>>), Give>>,
               <<WhileDo(Cond, <<Give>>)>>, <<Give, Give>>, <<BlockOf(<<Give>>)>>, <<Const("r", Resource(<<Give>>)), Give>>,
               <<Do(AllOf(<<<<Give>>>>))>>, <<Do(Scoped(<<Give>>))>>, <<ForEach("i", Num(1), <<Do(Ask("a"))>>), Give>> }
Tests == {Var("p"), Oper("eq", Var("p"), Num(1)), Oper("eq", Var("p"), Var("x")), Negated(Var("p"))}
Operations == {Bodied(id, <<a>>) : id \in {"all", "race", "scope", "timebox", "spawn"}, a \in Children1}
              \union {Bodied(id, <<a, b>>) : id \in {"all", "race"}, a \in Children1, b \in Children1}
              \union {Converge(a, "p", u) : a \in Children1, u \in Tests}
              \union {Resource(r) : r \in Resources}
Lambdas == {Var("p"), Var("x"), Oper("add", Var("p"), Var("x")), Oper("or", Var("x"), Var("p")), Ternary(Var("p"), Var("x"), Var("p"))}
Functional ==
  {Vars \o <<Const("r", e), Return(Var("r"))>> : e \in Operations}
  \union {Vars \o <<Const("f", Arrow("p", b)), Assign("y", Ask("a")), Return(Apply1("f", a))>> : b \in Lambdas, a \in {Var("y"), Ask("b")}}
\* Literals.  Of several effects in one object the fields are written in the
\* order of their keys, in which the kernel evaluates them.
Pure == {Num(1), Var("x")}
Both(a, b) == ObjectOf(<<Field("a", a), Field("b", b)>>)
Literals ==
  {Both(a, b) : a \in Pure \union {Ask("a")}, b \in Pure \union {Ask("b")}}
  \union {ObjectOf(<<Field("b", Var("y")), Field("a", Ask("a"))>>), ObjectOf(<<>>), ObjectOf(<<Spread(Both(Num(0), Ask("b")))>>)}
  \union {ObjectOf(<<Field("x", a), Spread(Both(Num(0), Ask("b"))), Field("b", b), Field("y", Num(1))>>) : a \in Pure \union {Ask("a")}, b \in Pure}
  \union {ArrayOf(<<Item(a), Item(b)>>) : a \in Pure \union {Ask("a")}, b \in Pure \union {Ask("b")}}
  \union {ArrayOf(<<>>), ArrayOf(<<Spread(AllOf(<< <<Return(Num(1))>>, <<Return(Ask("a"))>> >>)), Item(Var("x"))>>),
          ArrayOf(<<Item(Ask("a")), Item(Num(1)), Spread(ArrayOf(<<Item(Ask("b"))>>)), Spread(ArrayOf(<<>>)), Item(Num(0))>>)}
Written ==
  {Vars \o <<SetX, Const("o", l), Assign("x", Ask("d")), Return(Var("o"))>> : l \in Literals}
  \union {Vars \o <<SetX, Return(Prop(Both(a, Ask("b")), k))>> : a \in Pure, k \in {"a", "b"}}
  \union {Vars \o <<Const("t", Spawn(<<>>)), Return(l)>> : l \in {Both(Var("t"), Num(1)), ArrayOf(<<Item(Var("t"))>>)}}
Forms == {"mutable", "destructured", "reserved", "plainEach", "otherSource", "twoSources"}
BadLoops == {Vars \o <<ForOf(f, "i", Num(1), b)>> : f \in Forms, b \in {<<>>, <<SetX>>}}
            \union {Vars \o <<ForEach("i", Num(1), b)>> : b \in {<<Break>>, <<IfOnly(Cond, <<Break>>)>>, <<ForEach("j", Num(1), <<>>)>>}}
Probe == <<Return(Ask("a"))>>
Converges ==
  {ConvergeOf(f, Probe, "p", Var("p"), Num(1), Num(1)) : f \in DOMAIN ConvergeError}
  \union {ConvergeOf("ok", Probe, "p", u, l, i) : u \in {Var("p"), Ask("b")}, l \in {Var("x"), Ask("b")}, i \in {Var("y"), Ask("b")}}
Shapes == BadLoops \union {Vars \o <<SetX, Const("r", e), Return(Var("r"))>> : e \in Converges}
Rejected ==
  { Vars \o <<Give>>, Vars \o <<Do(Forbidden("E018"))>>, Vars \o <<Assign("q", Num(1))>>,
    Vars \o <<Const("q", Num(1)), Assign("q", Num(2))>>, Vars \o <<TryFinally(<<>>, <<RetX>>)>>,
    Vars \o <<TryFinally(<<>>, <<SetX>>)>>, Vars \o <<TryCatch(<<>>, "", <<>>)>> }

(***************************************************************************)
(* Scopes: a handler around the effects of the body, agents and their      *)
(* handles.                                                                *)
(***************************************************************************)
Data == Var("data")
Handlers == { <<>>, <<Return(NextOf(Data))>>, <<Return(Data)>>, <<Return(NextOf(Oper("add", Data, Num(1))))>>,
              <<Const("v", NextOf(Data)), Return(Oper("add", Var("v"), Num(1)))>>,
              <<IfOnly(Data, <<ThrowNew(Num(1))>>), Return(NextOf(Data))>>,
              <<IfElse(Negated(Data), <<Return(NextOf(Num(1)))>>, <<Return(Ternary(Data, Num(1), Num(0)))>>)>>,
              <<Const("v", NextOf(Data)), IfOnly(Var("v"), <<Return(Data)>>), ThrowNew(Num(2))>>,
              <<Const("v", NextOf(Data)), Return(NextOf(Var("v")))>>, <<Do(NextOf(Data))>>, <<Return(Var("x"))>>,
              <<IfElse(Data, <<Return(Num(1))>>, <<>>), Return(Num(2))>>, <<LetIs("v", Num(1)), Return(Data)>> }
InScope == { <<s, Return(Var("z"))>> : s \in {Const("z", Tell("a", "x")), Const("z", Ask("unknown"))} }
           \union {<<TryCatch(<<Do(Ask("a"))>>, "e", <<Do(Ask("b"))>>), Return(Ask("d"))>>, <<Const("t", Spawn(<<Return(Ask("a"))>>)), Return(JoinOf("t"))>>}
H(m) == Const("z", Method("h", m, Var("x")))
HandleUses == { <<Const("h", UseAgent("A")), H("m"), Return(Var("z"))>>, <<Const("h", UseAgent("B")), H("m")>>, <<LetIs("h", UseAgent("A"))>>,
                <<Const("h", UseAgent("A")), H("n")>>, <<H("m")>>, <<Const("h", UseAgent("A")), Do(AllOf(<<<<H("m")>>>>)), RetX>>,
                <<Const("h", UseAgent("A")), Do(Spawn(<<H("m")>>))>>,
                <<IfOnly(Cond, <<Const("h", UseAgent("A")), H("m"), Return(Var("z"))>>), RetX>>,
                <<Const("h", UseAgent("A")), Const("r", Scoped(<<UseTransport("B"), Const("k", UseAgent("B")), Return(Method("k", "m", Num(1)))>>)), H("m"), Return(Var("r"))>>,
                <<Const("h", UseAgent("A")), Const("r", Scoped(<<H("m")>>)), RetX>> }
InScopes(b) == Vars \o <<Const("r", Scoped(b)), Do(Ask("b")), Return(Var("r"))>>
Scopes == {InScopes(<<AroundEffects(m)>> \o b) : m \in Handlers, b \in InScope}
          \union {InScopes(<<AroundEffects(m), Const("q", Scoped(<<AroundEffects(n)>> \o b)), Return(Ask("q"))>>) :
                     m \in Handlers, n \in Handlers, b \in InScope}
          \union {InScopes(<<UseTransport(a)>> \o b) : a \in {"A", "C"}, b \in HandleUses}
          \union {InScopes(b) : b \in HandleUses}
          \union {Vars \o b : b \in HandleUses}

KeptPrograms == {p \in Flat \union Nested : Kept(p, "plain", {})}
                \union {p \in Handles : \A i \in DOMAIN p : JoinsSeen(p[i])} \union Functional \union Written \union Shapes \union Rejected \union Scopes

\* Two variables joined after a try, and one assigned again: left out above.
JoinedPair == {Vars \o <<TryFinally(<<SetX, Assign("y", Ask("b"))>>, <<>>), GoOn, RetX>>}

\* A scope with two transports.
TwoTransports == {InScopes(<<UseTransport("A"), UseTransport("B"), RetX>>)}
==============================================================================
