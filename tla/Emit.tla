-------------------------------- MODULE Emit --------------------------------
(***************************************************************************)
(* The compiler's core (packages/compiler/src/emit.ts): statements become  *)
(* nested Lets, every assignment to a let a new version of its name, and   *)
(* control flow is joined over the versions its branches leave.            *)
(*                                                                         *)
(* The code mutates its context: a stack of frames, each a map from names  *)
(* to bindings, shared by whoever holds the context and copied where it    *)
(* clones.  Here a context c names a stack in the heap h, and every        *)
(* operation returns its expression e and the heap it leaves.  An error is *)
(* thrown to the caller of the compiler: the first one stays in h.err.     *)
(***************************************************************************)
EXTENDS WorkflowSource, FiniteSets, FiniteSetsExt

\* Binding: kind, version, state of a task handle, seen from a child's scope.
Binding(kind, cap) == [kind |-> kind, ver |-> 0, cap |-> cap, captured |-> FALSE]
Handle(b) == b.cap # "none"

\* The contracts of the workflow, each with one method of one argument.
Agents == {"A", "B"}
EmptyHeap == [stacks |-> <<<< <<>> >>>>, handles |-> <<>>, fresh |-> 0, err |-> ""]
\* handles: the map of agent handles in h.handles, 0 outside a scope.
Root == [id |-> 1, resource |-> FALSE, stream |-> FALSE, handles |-> 0, bound |-> {}]
With(e, h) == [e |-> e, h |-> h]
Fail(h, code) == IF h.err = "" THEN [h EXCEPT !.err = code] ELSE h
Reject(h, code) == With(Lit(Null), Fail(h, code))
FreshName(kind, h) == <<kind, h.fresh, 0>>
Used(h) == [h EXCEPT !.fresh = @ + 1]
Discard == <<"discard", 0, 0>>

Frames(c, h) == h.stacks[c.id]
PushFrame(f, c, h) == [h EXCEPT !.stacks[c.id] = Append(@, f)]
PopFrame(c, h) == [h EXCEPT !.stacks[c.id] = Front(@)]

\* The innermost frame that binds x, 0 when none does.
Owner(x, fs) == Max({0} \union {i \in DOMAIN fs : x \in DOMAIN fs[i]})
Tracked(x, c, h) == Owner(x, Frames(c, h)) # 0
Lookup(x, c, h) == Frames(c, h)[Owner(x, Frames(c, h))][x]
IsLet(x, c, h) == Tracked(x, c, h) /\ Lookup(x, c, h).kind = "let"
Declare(x, b, c, h) ==
  LET fs == Frames(c, h) IN [h EXCEPT !.stacks[c.id][Len(fs)] = (x :> b) @@ @]
Update(x, b, c, h) == [h EXCEPT !.stacks[c.id][Owner(x, Frames(c, h))][x] = b]

\* A const keeps its name, and "x_1" is also the name of a version of x.
PlainName(x) == IF x = "x_1" THEN <<"x", 1>> ELSE <<x>>
VersionedName(x, b) == IF b.kind = "let" THEN <<x, b.ver>> ELSE PlainName(x)
Resolve(x, c, h) == IF Tracked(x, c, h) THEN VersionedName(x, Lookup(x, c, h)) ELSE PlainName(x)
Bump(x, c, h) == LET b == Lookup(x, c, h) IN Update(x, [b EXCEPT !.ver = @ + 1], c, h)
Refs(xs, c, h) == [x \in xs |-> Ref(Resolve(x, c, h))]

\* A copy of c's stack; in the copy for a child no handle may be used.
Copy(c, h) == [c EXCEPT !.id = Len(h.stacks) + 1]
Cloned(c, h) == [h EXCEPT !.stacks = Append(@, Frames(c, h))]
Captured(fs) == [i \in DOMAIN fs |-> [x \in DOMAIN fs[i] |->
                  IF Handle(fs[i][x]) THEN [fs[i][x] EXCEPT !.captured = TRUE] ELSE fs[i][x]]]
ClonedForChild(c, h) == [h EXCEPT !.stacks = Append(@, Captured(Frames(c, h)))]

\* Every let in scope, and its version in the outermost frame that has it.
LetVars(c, h) == LET fs == Frames(c, h) IN
  UNION {{x \in DOMAIN fs[i] : fs[i][x].kind = "let"} : i \in DOMAIN fs}
Snapshot(c, h) == LET fs == Frames(c, h) IN
  [x \in LetVars(c, h) |->
     fs[Min({i \in DOMAIN fs : x \in DOMAIN fs[i] /\ fs[i][x].kind = "let"})][x].ver]
Version(x, c, h) == IF IsLet(x, c, h) THEN Lookup(x, c, h).ver ELSE 1000
Changed(snap, c, h) == {x \in DOMAIN snap : Version(x, c, h) # snap[x]}
BumpAll(xs, c, h) == FoldSet(LAMBDA x, g: Bump(x, c, g), h, xs)

\* Mutant: the state of the first branch kept whatever the second's.
FirstBranchDecides(fs, f1, f2) ==
  [i \in DOMAIN fs |-> [x \in DOMAIN fs[i] |->
     IF Handle(fs[i][x]) /\ i \in DOMAIN f1 /\ x \in DOMAIN f1[i] THEN [fs[i][x] EXCEPT !.cap = f1[i][x].cap] ELSE fs[i][x]]]
\* After two branches a handle has the state both gave it, or neither.
JoinHandles(fs, f1, f2) ==
  [i \in DOMAIN fs |-> [x \in DOMAIN fs[i] |->
     IF /\ Handle(fs[i][x])
        /\ i \in DOMAIN f1 /\ i \in DOMAIN f2
        /\ x \in DOMAIN f1[i] /\ x \in DOMAIN f2[i]
        /\ Handle(f1[i][x]) /\ Handle(f2[i][x])
     THEN [fs[i][x] EXCEPT !.cap = IF f1[i][x].cap = f2[i][x].cap THEN f1[i][x].cap ELSE "indeterminate"]
     ELSE fs[i][x]]]
Joined(f1, f2, c, h) == [h EXCEPT !.stacks[c.id] = JoinHandles(@, f1, f2)]

(***************************************************************************)
(* What a statement list is compiled into.  A list ends with a             *)
(* continuation k: nothing, the values of the joined variables, a packed   *)
(* outcome, the next turn of a loop, or the rest of an enclosing list.     *)
(***************************************************************************)
NoCont == [m |-> "null"]
Plain == [m |-> "plain", vars |-> {}, k |-> NoCont]
Terminal(k) == [m |-> "terminal", vars |-> {}, k |-> k]
Packed(xs, k) == [m |-> "packed", vars |-> xs, k |-> k]
Outcome(tag, v, refs) == Construct([f \in {"__tag"} |-> Lit(Str(tag))] @@ [f \in {"__value"} |-> v] @@ refs)
JoinValue(refs) == IF Cardinality(DOMAIN refs) = 1 THEN refs[CHOOSE x \in DOMAIN refs : TRUE] ELSE Construct(refs)

\* Let each variable of xs, under its present name, be the field of r.
Unpack(xs, r, body, c, h) ==
  FoldSet(LAMBDA x, b: Let(Resolve(x, c, h), Get(Ref(r), x), b), body, xs)

\* All recursion goes through Continue: a list, an expression and the turn of
\* a loop are continuations as well, and are compiled as defined at the end.
RECURSIVE Continue(_, _)
Emit(ss, c, h, L) == Continue([m |-> "rest", ss |-> ss, c |-> c, L |-> L], h)
X(e, c, h) == Continue([m |-> "value", e |-> e, c |-> c], h)
LoopStatements(ss, lp, c, h, bound) ==
  Continue([m |-> "turn", ss |-> ss, lp |-> lp, c |-> c, bound |-> bound], h)

\* A block's statements in a frame of their own, and in none.
Popped(c, r) == With(r.e, PopFrame(c, r.h))
EmitBlock(ss, c, h) == Popped(c, Emit(ss, c, PushFrame(<<>>, c, h), Plain))
BranchToExpr(ss, xs, c, h) == Emit(ss, c, h, Terminal([m |-> "join", vars |-> xs, c |-> c]))
BranchPacked(ss, xs, c, h) == Emit(ss, c, h, Packed(xs, [m |-> "fallthrough", vars |-> xs, c |-> c]))

(***************************************************************************)
(* Which statements end their list, and which lists hold a return.         *)
(***************************************************************************)
RECURSIVE AlwaysTerminates(_), AlwaysReturns(_), BodyContainsReturn(_)
SomeTerminates(ss) == \E i \in DOMAIN ss : AlwaysTerminates(ss[i])
AlwaysTerminates(st) ==
  \/ st.k \in {"return", "throw"}
  \/ st.k = "block" /\ SomeTerminates(st.body)
  \/ st.k = "if" /\ st.elsed /\ SomeTerminates(st.then) /\ SomeTerminates(st.else)
  \/ st.k = "try" /\ SomeTerminates(st.body) /\ (st.caught => SomeTerminates(st.catch))
ListReturns(ss) ==
  \E i \in DOMAIN ss : AlwaysReturns(ss[i]) /\ \A j \in 1..(i - 1) : ~AlwaysTerminates(ss[j])
AlwaysReturns(st) ==
  \/ st.k = "return"
  \/ st.k = "block" /\ ListReturns(st.body)
  \/ st.k = "if" /\ st.elsed /\ ListReturns(st.then) /\ ListReturns(st.else)
  \/ /\ st.k = "try" /\ ~(st.final /\ SomeTerminates(st.fin))
     /\ ListReturns(st.body) /\ (st.caught => ListReturns(st.catch))
ContainsReturn(ss) == SomeStatement(ss, FALSE, LAMBDA st: st.k = "return")
BodyContainsReturn(ss) ==
  \E i \in DOMAIN ss :
    \/ ss[i].k = "return"
    \/ ss[i].k = "block" /\ BodyContainsReturn(ss[i].body)
    \/ ss[i].k = "if" /\ (BodyContainsReturn(ss[i].then) \/ BodyContainsReturn(ss[i].else))
Assigns(ss, x) == SomeStatement(ss, TRUE, LAMBDA st: st.k = "assign" /\ st.x = x)
AssignedLets(ss, c, h) == {x \in LetVars(c, h) : IsLet(x, c, h) /\ Assigns(ss, x)}

(***************************************************************************)
(* Statements without branches.                                            *)
(***************************************************************************)
Bound(name, r, rest) == LET k == Continue(rest, r.h) IN With(Let(name, r.e, k.e), k.h)
IsLast(rest) == rest.m = "rest" /\ rest.ss = <<>>
\* A plain list returns its last statement's value; the others discard it.
Discarded(r, rest, L) == IF L.m = "plain" /\ IsLast(rest) THEN r ELSE Bound(Discard, r, rest)

ReturnStatement(st, c, h, L) ==
  LET r == X(st.e, c, h) IN
  IF L.m = "packed" THEN With(Outcome("return", r.e, Refs(L.vars, c, r.h)), r.h) ELSE r

\* Mutant: the new version current while the value is compiled.
BumpBeforeValue(st, rest, c, h) ==
  IF ~IsLet(st.x, c, h) THEN Reject(h, "E003")
  ELSE LET r == X(st.e, c, Bump(st.x, c, h)) IN Bound(Resolve(st.x, c, r.h), r, rest)
LetReassignment(st, rest, c, h) ==
  IF ~IsLet(st.x, c, h) THEN Reject(h, "E003")
  ELSE LET r  == X(st.e, c, h)
           h1 == Bump(st.x, c, r.h)
       IN Bound(Resolve(st.x, c, h1), With(r.e, h1), rest)

\* const x = yield* useAgent(agent): remembered, and nothing is emitted.
AgentHandle(st, rest, c, h) ==
  CASE c.handles = 0 -> Reject(h, "UA1")
    [] c.handles # 0 /\ st.kind # "const" -> Reject(h, "UA2")
    [] c.handles # 0 /\ st.kind = "const" /\ st.e.id \notin c.bound -> Reject(h, "UA3")
    [] OTHER -> Continue(rest, [h EXCEPT !.handles[c.handles] = (st.x :> st.e.id) @@ @])
VariableStatement(st, rest, c, h) ==
  LET spawned == st.e.k = "bodied" /\ st.e.id = "spawn"
      r  == X(st.e, c, h)
      h1 == Declare(st.x, Binding(st.kind, IF spawned THEN "active" ELSE "none"), c, r.h)
  IN IF st.e.k = "useAgent" THEN AgentHandle(st, rest, c, h)
     ELSE IF spawned /\ st.kind = "let" THEN Reject(h, "CV-E5")
     ELSE Bound(IF st.kind = "let" THEN <<st.x, 0>> ELSE PlainName(st.x), With(r.e, h1), rest)

ThrowStatement(st, c, h) == LET r == X(st.e, c, h) IN With(Throw(r.e), r.h)
NestedBlock(st, rest, c, h, L) ==
  IF L.m = "plain" THEN Discarded(EmitBlock(st.body, c, h), rest, L)
  ELSE Popped(c, Emit(st.body, c, PushFrame(<<>>, c, h), [L EXCEPT !.k = rest]))

(***************************************************************************)
(* If.  A branch that ends the list is compiled aside and the rest goes    *)
(* into the other one; when neither ends it, the variables either changed  *)
(* are joined and the rest follows.                                        *)
(***************************************************************************)
InClone(ss, c, h) == EmitBlock(ss, Copy(c, h), Cloned(c, h))
NoElse(h) == With(NoExpr, h)
IfNode(cond, a, b) == With(If(cond, a.e, b.e), b.h)
OnCopy(ss, c, h, L) == Emit(ss, Copy(c, h), Cloned(c, h), L)
DryRun(ss, c, h) == OnCopy(ss, c, h, Plain).h

\* c's handles after a branch on the copy made at h1, and one on the copy made
\* at h2 (on none: c as it was).
JoinedCopies(both, c, h1, h2, h) ==
  Joined(Frames(Copy(c, h1), h), IF both THEN Frames(Copy(c, h2), h) ELSE Frames(c, h1), c, h)
\* The variables changed on those copies.
ChangedCopies(both, c, h1, h2, h) ==
  [vars |-> Changed(Snapshot(c, h1), Copy(c, h1), h) \union (IF both THEN Changed(Snapshot(c, h1), Copy(c, h2), h) ELSE {}),
   h |-> h]

\* One joined variable is bound to e; several are fields of it, and are
\* named after the rest was compiled.
Only(xs) == CHOOSE x \in xs : TRUE
Unpacked(xs, r, e, c, k) == With(Let(r, e, Unpack(xs, r, k.e, c, k.h)), k.h)
BindJoined(xs, e, rest, c, h) ==
  IF Cardinality(xs) = 1 THEN Bound(Resolve(Only(xs), c, h), With(e, h), rest)
  ELSE Unpacked(xs, FreshName("j", h), e, c, Continue(rest, Used(h)))

\* What the two branches change, compiled on copies that are thrown away.
IfJoinVars(st, c, h) ==
  LET h1 == DryRun(st.then, c, h) IN
  ChangedCopies(st.elsed, c, h, h1, IF st.elsed THEN DryRun(st.else, c, h1) ELSE h1)

ElseValue(st, xs, c, h, h1) ==
  IF st.elsed THEN BranchToExpr(st.else, xs, Copy(c, h1), Cloned(c, h1))
  ELSE With(JoinValue([x \in xs |-> Ref(<<x, Snapshot(c, h)[x]>>)]), h1)
BindBranches(both, cond, a, b, xs, rest, c, h) ==
  BindJoined(xs, If(cond, a.e, b.e), rest, c, JoinedCopies(both, c, h, a.h, BumpAll(xs, c, b.h)))
JoinBranches(st, cond, xs, rest, c, h) ==
  LET a == BranchToExpr(st.then, xs, Copy(c, h), Cloned(c, h))
  IN BindBranches(st.elsed, cond, a, ElseValue(st, xs, c, h, a.h), xs, rest, c, h)

\* Nothing changed: the branches are compiled aside for their handles.
BranchesJoined(both, cond, a, b, c, h) == With(If(cond, a.e, b.e), JoinedCopies(both, c, h, a.h, b.h))
AsideBranches(st, cond, c, h) ==
  LET a == InClone(st.then, c, h)
  IN BranchesJoined(st.elsed, cond, a, IF st.elsed THEN InClone(st.else, c, a.h) ELSE NoElse(a.h), c, h)

BranchesFor(st, cond, j, rest, c, L) ==
  IF j.vars = {} THEN Discarded(AsideBranches(st, cond, c, j.h), rest, L)
  ELSE JoinBranches(st, cond, j.vars, rest, c, j.h)
NeitherTerminates(st, cond, rest, c, h, L) == BranchesFor(st, cond, IfJoinVars(st, c, h), rest, c, L)

\* One case for each way the branches may end the list.
ThenEnds(st) == SomeTerminates(st.then)
ElseEnds(st) == st.elsed /\ SomeTerminates(st.else)

IfStatementOn(st, cond, rest, c, h, L) ==
  CASE ThenEnds(st) /\ (ElseEnds(st) \/ ~st.elsed) ->
         LET a == InClone(st.then, c, h)
         IN IfNode(cond, a, IF ElseEnds(st) THEN InClone(st.else, c, a.h)
                            ELSE IF IsLast(rest) THEN NoElse(a.h) ELSE Continue(rest, a.h))
    [] ThenEnds(st) /\ st.elsed /\ ~ElseEnds(st) ->
         LET a == InClone(st.then, c, h)
         IN IfNode(cond, a, IF IsLast(rest) THEN EmitBlock(st.else, c, a.h) ELSE Emit(st.else, c, a.h, Terminal(rest)))
    [] ~ThenEnds(st) /\ ElseEnds(st) ->
         LET h1 == Cloned(c, h)
             a  == IF IsLast(rest) THEN EmitBlock(st.then, c, h1) ELSE Emit(st.then, c, h1, Terminal(rest))
         IN IfNode(cond, a, EmitBlock(st.else, Copy(c, h), a.h))
    [] OTHER -> NeitherTerminates(st, cond, rest, c, h, L)
IfStatement(st, rest, c, h, L) ==
  LET cond == X(st.e, c, h) IN IfStatementOn(st, cond.e, rest, c, cond.h, L)

\* In a branch, whose own end is its continuation.
IfInListOn(st, cond, rest, c, h, L) ==
  CASE ThenEnds(st) /\ (ElseEnds(st) \/ ~st.elsed) ->
         LET a == EmitBlock(st.then, c, h)
         IN IfNode(cond, a, IF ElseEnds(st) THEN EmitBlock(st.else, c, a.h) ELSE Continue(rest, a.h))
    [] ThenEnds(st) /\ st.elsed /\ ~ElseEnds(st) ->
         LET a == InClone(st.then, c, h) IN IfNode(cond, a, Emit(st.else, c, a.h, Terminal(rest)))
    [] ~ThenEnds(st) /\ ElseEnds(st) ->
         LET a == Emit(st.then, c, Cloned(c, h), Terminal(rest)) IN IfNode(cond, a, EmitBlock(st.else, Copy(c, h), a.h))
    [] OTHER -> NeitherTerminates(st, cond, rest, c, h, L)
IfStatementInList(st, rest, c, h, L) ==
  LET cond == X(st.e, c, h) IN IfInListOn(st, cond.e, rest, c, cond.h, L)

\* In a branch whose outcomes are packed.  When neither branch ends it, the
\* variables they assign are joined, or each branch takes the rest with it.
BothTakeRest(st, cond, a, rest, c, h, L) ==
  IF st.elsed THEN BranchesJoined(TRUE, cond, a, OnCopy(st.else, c, a.h, L), c, h)
  ELSE IfNode(cond, a, Continue(rest, JoinedCopies(FALSE, c, h, h, a.h)))
PackedBranchesFor(st, cond, j, rest, c, L) ==
  IF j.vars # {} THEN JoinBranches(st, cond, j.vars, rest, c, j.h)
  ELSE BothTakeRest(st, cond, OnCopy(st.then, c, j.h, L), rest, c, j.h, L)
PackedBranchesGoOn(st, cond, rest, c, h, L) ==
  PackedBranchesFor(st, cond, IfJoinVars(st, c, h), rest, c, [L EXCEPT !.k = rest])
IfInPackedListOn(st, cond, rest, c, h, L) ==
  LET AndRest == [L EXCEPT !.k = rest] IN
  CASE ThenEnds(st) /\ ElseEnds(st) ->
         LET a == OnCopy(st.then, c, h, L) IN IfNode(cond, a, OnCopy(st.else, c, a.h, L))
    [] ThenEnds(st) /\ ~st.elsed ->
         LET a == OnCopy(st.then, c, h, L)
         IN IfNode(cond, a, With(Outcome("fallthrough", Lit(Null), Refs(L.vars, c, a.h)), a.h))
    [] ThenEnds(st) /\ st.elsed /\ ~ElseEnds(st) ->
         LET a == OnCopy(st.then, c, h, L) IN IfNode(cond, a, Emit(st.else, c, a.h, AndRest))
    [] ~ThenEnds(st) /\ ElseEnds(st) ->
         LET a == Emit(st.then, c, Cloned(c, h), AndRest) IN IfNode(cond, a, Emit(st.else, Copy(c, h), a.h, L))
    [] OTHER -> PackedBranchesGoOn(st, cond, rest, c, h, L)
IfStatementInListPacked(st, rest, c, h, L) ==
  LET cond == X(st.e, c, h) IN IfInPackedListOn(st, cond.e, rest, c, cond.h, L)

(***************************************************************************)
(* Try.  Its clauses are plain bodies when no variable changes and none    *)
(* returns, joins of the variables changed, or packed outcomes that say    *)
(* whether the clause returned.                                            *)
(***************************************************************************)
FinallyAssigns(st, c, h) == \E x \in LetVars(c, h) : IsLet(x, c, h) /\ Assigns(st.fin, x)
TryChecks(st, c, h) ==
  LET h1 == IF ContainsReturn(st.fin) THEN Fail(h, "E033") ELSE h
      h2 == IF st.caught /\ st.x = "" THEN Fail(h1, "E034") ELSE h1
  IN IF st.final /\ FinallyAssigns(st, c, h) THEN Fail(h2, "E035") ELSE h2
CatchFrame(st) == st.x :> Binding("const", "none")
OpenCatch(st, c, h) == PushFrame(CatchFrame(st), Copy(c, h), Cloned(c, h))
TryJoinVars(st, c, h) ==
  LET h1 == DryRun(st.body, c, h) IN
  ChangedCopies(st.caught, c, h, h1, IF st.caught THEN Emit(st.catch, Copy(c, h1), OpenCatch(st, c, h1), Plain).h ELSE h1)

Clause(kind, ss, xs, c, h) ==
  CASE kind = "body" -> EmitBlock(ss, c, h)
    [] kind = "join" -> BranchToExpr(ss, xs, c, h)
    [] kind = "packed" -> BranchPacked(ss, xs, c, h)
CatchClause(kind, st, xs, c, h) ==
  IF ~st.caught THEN NoElse(h) ELSE Clause(kind, st.catch, xs, Copy(c, h), OpenCatch(st, c, h))

\* The finally clause sees the joined variables through the payload when the
\* try succeeded; when it failed the payload is unbound and they are as before.
ReadPayload(payload, old, h) == Try(Ref(payload), FreshName("err_fp", h), old, NoExpr, <<>>)
WithPayload(kind, xs, before, payload, b, c, h) ==
  CASE xs = {} -> b
    [] Cardinality(xs) = 1 /\ kind = "join" ->
         With(Let(Resolve(Only(xs), c, h), ReadPayload(payload, before[Only(xs)], b.h), b.e), Used(b.h))
    [] OTHER ->
         LET eff == FreshName("fp_eff", b.h)
         IN With(Let(eff, ReadPayload(payload, Construct(before), b.h), Unpack(xs, eff, b.e, c, h)), Used(b.h))
FinallyClause(kind, st, xs, before, payload, c, h) ==
  IF ~st.final THEN NoElse(h) ELSE WithPayload(kind, xs, before, payload, InClone(st.fin, c, h), c, h)

\* The expression, clause by clause, each compiled in what the one before left.
TryNode(st, body, catch, fin, payload) ==
  With(Try(body.e, IF st.caught THEN PlainName(st.x) ELSE <<>>, catch.e, fin.e, payload), fin.h)
TryFrom(kind, st, xs, body, catch, c, h) ==
  LET payload == IF st.final /\ xs # {} THEN FreshName("fp", h) ELSE <<>>
  IN TryNode(st, body, catch, FinallyClause(kind, st, xs, Refs(xs, c, catch.h), payload, c, Used(h)), payload)
TryCatchOf(kind, st, xs, body, catch, c) == TryFrom(kind, st, xs, body, catch, c, BumpAll(xs, c, catch.h))
TryBodyOf(kind, st, xs, body, c) == TryCatchOf(kind, st, xs, body, CatchClause(kind, st, xs, c, body.h), c)
TryExpr(kind, st, xs, c, h) ==
  TryBodyOf(kind, st, xs, IF kind = "body" THEN EmitBlock(st.body, c, h) ELSE Clause(kind, st.body, xs, Copy(c, h), Cloned(c, h)), c)

\* What a packed clause or loop returned, in the form the list around it needs.
Returned(r, L, c, h) ==
  LET value == Get(Ref(r), "__value")
  IN IF L.m = "packed" THEN Outcome("return", value, Refs(L.vars, c, h)) ELSE value
IfReturned(r, returned, goOn) == If(Binary("eq", Get(Ref(r), "__tag"), Lit(Str("return"))), returned, goOn)
\* After a packed try: return what it returned, or go on with the rest.
FieldsOf(xs, r, c, k) == With(Unpack(xs, r, k.e, c, k.h), k.h)
WithFields(xs, r, rest, c, h) ==
  IF Cardinality(xs) = 1 THEN Bound(Resolve(Only(xs), c, h), With(Get(Ref(r), Only(xs)), h), rest)
  ELSE FieldsOf(xs, r, c, Continue(rest, h))
ReturnOrGoOn(st, r, e, returned, k, h) ==
  IF AlwaysReturns(st) THEN With(Let(r, e, returned), h) ELSE With(Let(r, e, IfReturned(r, returned, k.e)), k.h)
PackedDispatch(st, xs, try, rest, c, L) ==
  LET r == FreshName("r", try.h)
      h == Used(try.h)
  IN ReturnOrGoOn(st, r, try.e, Returned(r, L, c, h), WithFields(xs, r, rest, c, h), h)

TryKind(st, xs) ==
  CASE ContainsReturn(st.body) \/ (st.caught /\ ContainsReturn(st.catch)) -> "packed"
    [] xs = {} -> "body"
    [] OTHER -> "join"
AfterTry(kind, st, xs, t, rest, c, L) ==
  CASE kind = "body" -> Discarded(t, rest, L)
    [] kind = "join" -> BindJoined(xs, t.e, rest, c, t.h)
    [] kind = "packed" -> PackedDispatch(st, xs, t, rest, c, L)
TryOf(kind, st, xs, rest, c, h, L) == AfterTry(kind, st, xs, TryExpr(kind, st, xs, c, h), rest, c, L)
TryStatement(st, rest, c, h, L) ==
  LET j == TryJoinVars(st, c, TryChecks(st, c, h)) IN TryOf(TryKind(st, j.vars), st, j.vars, rest, c, j.h, L)

(***************************************************************************)
(* Loops.  A loop that returns or assigns an outer let is a recursive      *)
(* function of the variables it carries; any other is a While node, or for *)
(* a stream a function of nothing.                                         *)
(***************************************************************************)
LoopRefs(lp, c, h) == [i \in DOMAIN lp.carried |-> Ref(Resolve(lp.carried[i], c, h))]
Carried(lp, e) == [x \in Range(lp.carried) |-> e[CHOOSE i \in DOMAIN lp.carried : lp.carried[i] = x]]

\* The call of the loop, and what its caller makes of the result.
CallSite(lp, fn, args, rest, c, h, L) ==
  LET call == Call(Ref(lp.loop), args)
      last == IsLast(rest) /\ L.m # "packed"
      res  == FreshName("loop_result", h)
      h1   == BumpAll(Range(lp.carried), c, Used(h))
      k    == Continue(rest, h1)
      goOn == Unpack(Range(lp.carried), res, k.e, c, h1)
      In(e, g) == With(Let(lp.loop, fn, e), g)
  IN CASE lp.pack \/ lp.carried # <<>> ->
            IF last THEN In(Let(res, call, Get(Ref(res), "__value")), h1)
            ELSE IF lp.pack \/ L.m = "packed"
            THEN In(Let(res, call, IfReturned(res, Returned(res, L, c, h1), goOn)), k.h)
            ELSE In(Let(res, call, goOn), k.h)
       [] last -> In(call, h)
       [] OTHER -> LET n == Continue(rest, h) IN In(Let(Discard, call, n.e), n.h)

\* A turn's end: call the loop again with the variables as they are now.
NextTurn(lp, bound, c, h) ==
  Call(Ref(lp.loop), LoopRefs(lp, c, h) \o
       (IF lp.last = <<>> THEN <<>> ELSE <<IF bound = <<>> THEN Lit(Null) ELSE Ref(bound)>>))

LoopReturn(st, lp, c, h) ==
  LET r == X(st.e, c, h) IN
  IF lp.pack THEN With(Outcome("return", r.e, Carried(lp, LoopRefs(lp, c, r.h))), r.h) ELSE r
\* The rest of the body goes into both branches, each on a copy.
LoopIf(st, ss, lp, c, h0) ==
  LET cond == X(st.e, c, h0)
      Branch(b, h) == LoopStatements(IF SomeTerminates(b) THEN b ELSE b \o ss, lp, Copy(c, h), Cloned(c, h), <<>>)
      a == Branch(st.then, cond.h)
      b == Branch(IF st.elsed THEN st.else ELSE <<>>, a.h)
  IN With(If(cond.e, a.e, b.e), b.h)
LoopList(ss, lp, c, h, bound) ==
  IF ss = <<>> THEN With(NextTurn(lp, bound, c, h), h)
  ELSE LET st == Head(ss)
           Turn(b) == [m |-> "turn", ss |-> Tail(ss), lp |-> lp, c |-> c, bound |-> b]
       IN CASE st.k = "return" -> LoopReturn(st, lp, c, h)
            [] st.k = "decl" -> VariableStatement(st, Turn(IF st.kind = "let" THEN <<st.x, 0>> ELSE PlainName(st.x)), c, h)
            [] st.k = "assign" ->
                 LET n == IF IsLet(st.x, c, h) THEN <<st.x, Lookup(st.x, c, h).ver + 1>> ELSE <<>>
                 IN LetReassignment(st, Turn(n), c, h)
            [] st.k = "if" -> LoopIf(st, Tail(ss), lp, c, h)
            [] st.k = "do" -> Bound(Discard, X(st.e, c, h), Turn(Discard))
            [] st.k = "throw" -> ThrowStatement(st, c, h)
            [] OTHER -> Reject(h, "E999")

LoopBody(st, lp, c, h) ==
  IF st.e.k = "true" THEN LoopStatements(st.body, lp, c, h, <<>>)
  ELSE LET cond == X(st.e, c, h)
           body == LoopStatements(st.body, lp, c, cond.h, <<>>)
           fields == [f \in {"__value"} |-> Ref(lp.last)] @@ Carried(lp, [i \in DOMAIN lp.carried |-> Ref(lp.params[i])])
           exit == IF lp.pack THEN Construct([f \in {"__tag"} |-> Lit(Str("exit"))] @@ fields)
                   ELSE IF lp.carried # <<>> THEN Construct(fields) ELSE Ref(lp.last)
       IN With(If(cond.e, body.e, exit), body.h)

WhileCaseB(st, rest, carried, c, h, L) ==
  LET loop == FreshName("loop", h)
      last == IF st.e.k = "true" THEN <<>> ELSE FreshName("last", h)
      params == [i \in DOMAIN carried |-> Resolve(carried[i], c, h)] \o (IF last = <<>> THEN <<>> ELSE <<last>>)
      args == [i \in DOMAIN carried |-> Ref(params[i])] \o (IF last = <<>> THEN <<>> ELSE <<Lit(Null)>>)
      isLast == IsLast(rest) /\ L.m # "packed"
      pack == BodyContainsReturn(st.body) /\ (last # <<>> \/ ~isLast \/ carried # <<>>)
      lp == [loop |-> loop, carried |-> carried, params |-> params, last |-> last, pack |-> pack]
      cf == Copy(c, h)
      body == LoopBody(st, lp, cf, Cloned(c, Used(h)))
  IN CallSite(lp, Fn(params, body.e), args, rest, c, Joined(Frames(cf, body.h), Frames(c, h), c, body.h), L)

WhileStatement(st, rest, c, h, L) ==
  LET carried == SetToSeq(AssignedLets(st.body, c, h))
      cond == X(st.e, c, h)
      cb   == Copy(c, cond.h)
      body == Emit(st.body, cb, Cloned(c, cond.h), Plain)
      loop == With(While(cond.e, body.e), Joined(Frames(cb, body.h), Frames(c, h), c, body.h))
  IN IF carried # <<>> \/ BodyContainsReturn(st.body) THEN WhileCaseB(st, rest, carried, c, h, L)
     ELSE Discarded(loop, rest, L)

\* for (const x of yield* each(source)): subscribe once, then take items.
Subscribed(sub, source, e) == Let(sub, Effect("stream.subscribe", source), e)
NextItem(sub, item, x, done, body) ==
  Let(item, Effect("stream.next", Ref(sub)),
      If(Get(Ref(item), "done"), done, Let(PlainName(x), Get(Ref(item), "value"), body)))
InStream(c, h) == [Copy(c, h) EXCEPT !.stream = TRUE]
OpenItem(st, c, h) == PushFrame(st.x :> Binding("const", "none"), Copy(c, h), Cloned(c, h))

ForOfEachCaseA(st, source, rest, c, h, L) ==
  LET sub  == FreshName("sub", h)
      loop == FreshName("loop", h)
      cb   == InStream(c, h)
      body == Emit(st.body, cb, OpenItem(st, c, Used(h)), Plain)
      h1   == Joined(Front(Frames(cb, body.h)), Frames(c, h), c, PopFrame(cb, body.h))
      turn == Let(Discard, body.e, Call(Ref(loop), <<>>))
      fn   == Fn(<<>>, NextItem(sub, FreshName("item", h), st.x, Lit(Null), turn))
      call == Call(Ref(loop), <<>>)
      In(e) == Subscribed(sub, source, Let(loop, fn, e))
  IN IF L.m = "packed" THEN Bound(Discard, With(In(call), h1), rest)
     ELSE IF IsLast(rest) THEN With(In(call), h1)
     ELSE LET k == Continue(rest, h1) IN With(In(Let(Discard, call, k.e)), k.h)

\* The body of such a loop, whose end is the next call of the loop.
ForOfLoopBody(st, carried, pack, again, c, h) ==
  Emit(st.body, again.c, OpenItem(st, c, h), IF pack THEN Packed(Range(carried), again) ELSE Terminal(again))

\* The subscription, the loop and its call.
ForOfCallSite(sub, source, lp, fn, args, rest, c, h, L) ==
  LET site == CallSite(lp, fn, args, rest, c, h, L) IN With(Subscribed(sub, source, site.e), site.h)

ForOfEachCaseB(st, source, rest, carried, c, h, L) ==
  LET sub  == FreshName("sub", h)
      loop == FreshName("loop", h)
      isLast == IsLast(rest) /\ L.m # "packed"
      pack == BodyContainsReturn(st.body) /\ (~isLast \/ carried # <<>>)
      params == [i \in DOMAIN carried |-> Resolve(carried[i], c, h)]
      args == [i \in DOMAIN carried |-> Ref(params[i])]
      lp   == [loop |-> loop, carried |-> carried, params |-> params, last |-> <<>>, pack |-> pack]
      cf   == InStream(c, h)
      again == [m |-> "call", loop |-> loop, args |-> carried, c |-> cf]
      body == ForOfLoopBody(st, carried, pack, again, c, Used(h))
      h1   == Joined(Front(Frames(cf, body.h)), Frames(c, h), c, PopFrame(cf, body.h))
      fields == [f \in {"__value"} |-> Lit(Null)] @@ Carried(lp, args)
      done == IF pack THEN Construct([f \in {"__tag"} |-> Lit(Str("exit"))] @@ fields)
              ELSE IF carried # <<>> THEN Construct(fields) ELSE Lit(Null)
      fn   == Fn(params, NextItem(sub, FreshName("item", h), st.x, done, body.e))
  IN ForOfCallSite(sub, source, lp, fn, args, rest, c, h1, L)

\* The one form of for-of that is compiled: not in another, with such a head,
\* and without break or continue.
HeadError == [mutable |-> "E-STREAM-001", destructured |-> "E-STREAM-002", reserved |-> "E028",
              plainEach |-> "E-STREAM-003", otherSource |-> "E013", twoSources |-> "E-STREAM-004"]
BodyContainsBreak(ss) == SomeStatement(ss, FALSE, LAMBDA st: st.k = "break")
ValidateForOfEach(st, c, h) ==
  CASE c.stream -> Fail(h, "E-STREAM-006")
    [] ~c.stream /\ st.form # "each" -> Fail(h, HeadError[st.form])
    [] ~c.stream /\ st.form = "each" /\ BodyContainsBreak(st.body) -> Fail(h, "E020")
    [] OTHER -> h
ForOfEach(st, rest, c, h, L) ==
  LET source  == X(st.e, c, ValidateForOfEach(st, c, h))
      carried == SetToSeq(AssignedLets(st.body, c, h))
  IN IF carried # <<>> \/ BodyContainsReturn(st.body)
     THEN ForOfEachCaseB(st, source.e, rest, carried, c, source.h, L)
     ELSE ForOfEachCaseA(st, source.e, rest, c, source.h, L)

(***************************************************************************)
(* Expressions, and the operations behind yield*.                          *)
(***************************************************************************)
Pair(a, b, c, h, F(_, _)) == LET l == X(a, c, h)  r == X(b, c, l.h) IN With(F(l.e, r.e), r.h)
RefTo(e, c, h) ==
  IF Tracked(e.x, c, h) /\ Handle(Lookup(e.x, c, h)) THEN Reject(h, "CV-E1")
  ELSE With(Ref(Resolve(e.x, c, h)), h)
YieldTask(e, c, h) ==
  LET b == IF Tracked(e.x, c, h) THEN Lookup(e.x, c, h) ELSE Binding("const", "none") IN
  CASE ~Handle(b) -> Reject(h, "E010")
    [] Handle(b) /\ b.captured -> Reject(h, "CV-E1")
    [] Handle(b) /\ ~b.captured /\ b.cap = "completed" -> Reject(h, "CV-E3")
    [] Handle(b) /\ ~b.captured /\ b.cap = "indeterminate" -> Reject(h, "CV-E4")
    [] OTHER -> With(Compound("join", <<>>, Ref(Resolve(e.x, c, h))), Update(e.x, [b EXCEPT !.cap = "completed"], c, h))

RECURSIVE Children(_, _, _)
Children(bs, c, h) ==
  IF bs = <<>> THEN [es |-> <<>>, h |-> h]
  ELSE LET r == EmitBlock(Head(bs), c, h)
           s == Children(Tail(bs), c, r.h)
       IN [es |-> <<r.e>> \o s.es, h |-> s.h]
Concurrency(e, c, h) == LET r == Children(e.bs, c, h) IN With(Compound(e.id, r.es, Lit(Null)), r.h)
\* Children with a stack of their own; timebox, spawn and resource bodies.
ChildBody(e, c, h) ==
  LET r == EmitBlock(e.bs[1], [Copy(c, h) EXCEPT !.handles = 0], ClonedForChild(c, h))
  IN With(Compound(e.id, <<r.e>>, Lit(Null)), r.h)

\* A dispatch handler: a restricted list over its parameters and constants,
\* which calls next at most once.
RECURSIVE MExpr(_, _, _), Middleware(_, _, _, _)
MPair(a, b, refs, h, F(_, _)) == LET l == MExpr(a, refs, h)  r == MExpr(b, refs, l.h) IN With(F(l.e, r.e), r.h)
MExpr(e, refs, h) ==
  CASE e.k = "num" -> With(Lit(Number(e.n)), h)
    [] e.k = "var" -> IF e.x \in refs THEN With(Ref(PlainName(e.x)), h) ELSE Reject(h, "EA8")
    [] e.k = "oper" -> MPair(e.l, e.r, refs, h, LAMBDA a, b: Binary(e.o, a, b))
    [] e.k = "negated" -> LET r == MExpr(e.l, refs, h) IN With(Not(r.e), r.h)
    [] e.k = "ternary" -> LET t == MExpr(e.c, refs, h) IN MPair(e.l, e.r, refs, t.h, LAMBDA a, b: If(t.e, a, b))
    [] OTHER -> Reject(h, "EA3")
CallNext(e, refs, called, h) ==
  IF called THEN Reject(h, "EA5")
  ELSE MPair(Var("id"), e.l, refs, h, LAMBDA i, d: Effect("dispatch", ArrayNode(<<i, d>>)))
Part(e, refs, called, h) == IF e.k = "next" THEN CallNext(e, refs, called, h) ELSE MExpr(e, refs, h)
Asks(st) == HasExpr(st) /\ st.e.k = "next"
LetIn(x, r, k) == With(Let(x, r.e, k.e), k.h)
MIf(st, more, refs, called, t) ==
  LET a == Middleware(st.then, refs, called, t.h)
  IN IF st.elsed /\ more # <<>> THEN Reject(a.h, "EA3")
     ELSE IfNode(t.e, a, Middleware(IF st.elsed THEN st.else ELSE more, refs, called, a.h))
MStatement(st, more, refs, called, h) ==
  CASE st.k = "return" -> Part(st.e, refs, called, h)
    [] st.k = "decl" /\ st.kind = "const" ->
         LET r == Part(st.e, refs, called, h)
         IN LetIn(PlainName(st.x), r, Middleware(more, refs \union {st.x}, called \/ Asks(st), r.h))
    [] st.k = "if" -> MIf(st, more, refs, called, Part(st.e, refs, called, h))
    [] st.k = "throw" -> LET r == Part(st.e, refs, called, h) IN With(Throw(r.e), r.h)
    [] st.k = "do" -> Reject(h, "EA6")
    [] OTHER -> Reject(h, "EA3")
Middleware(ss, refs, called, h) ==
  IF ss = <<>> THEN With(Lit(Null), h) ELSE MStatement(Head(ss), Tail(ss), refs, called, h)
EffectsAround(st, h) ==
  LET r == Middleware(st.body, {"id", "data", "next"}, FALSE, h)
  IN With(Fn(<<PlainName("id"), PlainName("data")>>, r.e), r.h)

\* A scope begins with its setup, a transport or a handler; a second setup
\* statement is taken for one after the body.
IsSetup(st) == st.k \in {"use", "around"}
Setup(st, h) ==
  CASE st.k = "use" -> With(Lit(Null), IF st.id \in Agents THEN h ELSE Fail(h, "UT1"))
    [] st.k = "around" -> EffectsAround(st, h)
    [] OTHER -> With(Lit(Null), h)
SetUp(ss) == ss # <<>> /\ IsSetup(ss[1])
ScopeStatements(ss, c, h) ==
  EmitBlock(IF SetUp(ss) THEN Tail(ss) ELSE ss,
            [c EXCEPT !.handles = Len(h.handles) + 1, !.bound = IF SetUp(ss) /\ ss[1].k = "use" THEN {ss[1].id} ELSE {}],
            [h EXCEPT !.handles = Append(@, <<>>)])
ScopeNode(handler, body) == With(Compound("scope", <<body.e>>, handler.e), body.h)
ScopeOf(ss, handler, c) ==
  ScopeNode(handler, ScopeStatements(ss, c, IF SetUp(ss) /\ Len(ss) > 1 /\ IsSetup(ss[2]) THEN Fail(handler.h, "S1") ELSE handler.h))
ScopedBody(e, c, h) == ScopeOf(e.bs[1], IF SetUp(e.bs[1]) THEN Setup(e.bs[1][1], h) ELSE With(Lit(Null), h), c)
\* handle.m(a), and Agent().m(a).
HandleCall(e, c, h) ==
  LET known == c.handles # 0 /\ e.x \in DOMAIN h.handles[c.handles]
      r == X(e.l, c, h)
  IN CASE ~known -> Reject(h, "E999")
       [] known /\ e.m # "m" -> Reject(h, "H4")
       [] OTHER -> With(Effect(h.handles[c.handles][e.x], r.e), r.h)
AgentEffect(e, c, h) ==
  IF e.id = "unknown" THEN Reject(h, "E999") ELSE LET r == X(e.l, c, h) IN With(Effect(e.id, r.e), r.h)

IsProvide(st) == st.k = "do" /\ st.e.k = "provide"
\* Where provide may stand in a resource's body: last, or last in the body of
\* a try at its top.  Below a try only its catch and finally are looked at.
RECURSIVE Strays(_)
Strays(st) ==
  CASE IsProvide(st) -> TRUE
    [] st.k = "try" -> \E b \in {2, 3} : \E i \in DOMAIN Inner(st)[b] : Strays(Inner(st)[b][i])
    [] OTHER -> \E b \in DOMAIN Inner(st) : \E i \in DOMAIN Inner(st)[b] : Strays(Inner(st)[b][i])
ProvidePlaces(ss) ==
  {i \in DOMAIN ss : IsProvide(ss[i]) \/ (ss[i].k = "try" /\ \E j \in DOMAIN ss[i].body : IsProvide(ss[i].body[j]))}
CheckProvide(ss, h) ==
  LET ps == ProvidePlaces(ss) IN
  CASE \E i \in DOMAIN ss : Strays(ss[i]) /\ i \notin ps -> Fail(h, "P5")
    [] ps = {} -> Fail(h, "RS4")
    [] \E i \in ps : i # Len(ss) -> Fail(h, "P6")
    [] \E i \in ps : ss[i].k = "try" /\ \E j \in DOMAIN ss[i].body : IsProvide(ss[i].body[j]) /\ j # Len(ss[i].body) -> Fail(h, "P6")
    [] OTHER -> h
TimeboxBody(e, c, h) == ChildBody(e, c, h)
ResourceBody(e, c, h) ==
  IF c.resource THEN Reject(h, "RS7")
  ELSE ChildBody(e, [c EXCEPT !.resource = TRUE], CheckProvide(e.bs[1], h))
ProvideValue(e, c, h) ==
  IF ~c.resource THEN Reject(h, "P2")
  ELSE LET r == X(e.l, c, h) IN With(Compound("provide", <<>>, r.e), r.h)

\* converge takes an object of a limit, an interval, a generator and an arrow of
\* one parameter, and waits for no effect but those of the generator.
ConvergeError == [noObject |-> "E-CONV-07", noTimeout |-> "E-CONV-06", noInterval |-> "E-CONV-05",
                  noProbe |-> "E-CONV-01", noUntil |-> "E-CONV-02", untilBlock |-> "E-CONV-03"]
RECURSIVE ContainsYieldStar(_)
ContainsYieldStar(e) ==
  CASE e.k \in {"num", "true", "var", "forbidden"} -> FALSE
    [] e.k \in {"negated", "arrow", "apply", "prop"} -> ContainsYieldStar(e.l)
    [] e.k = "oper" -> ContainsYieldStar(e.l) \/ ContainsYieldStar(e.r)
    [] e.k = "ternary" -> ContainsYieldStar(e.c) \/ ContainsYieldStar(e.l) \/ ContainsYieldStar(e.r)
    [] e.k \in {"object", "array"} -> \E i \in DOMAIN e.ps : ContainsYieldStar(e.ps[i].e)
    [] OTHER -> TRUE
ConvergeChecks(e, h) ==
  CASE e.form # "ok" -> Fail(h, ConvergeError[e.form])
    [] e.form = "ok" /\ ContainsYieldStar(e.l) -> Fail(h, "E-CONV-04")
    [] e.form = "ok" /\ ~ContainsYieldStar(e.l) /\ ContainsYieldStar(e.limit) -> Fail(h, "E-CONV-09")
    [] e.form = "ok" /\ ~ContainsYieldStar(e.l) /\ ~ContainsYieldStar(e.limit) /\ ContainsYieldStar(e.every) ->
         Fail(h, "E-CONV-08")
    [] OTHER -> h

\* converge: a timebox around a function that probes, tests, sleeps and calls
\* itself again.
ConvergeLoop(e, limit, every, c, h) ==
  LET h0 == ClonedForChild(c, h)
      cb == [Copy(c, h) EXCEPT !.handles = 0]
      cu == Copy(cb, h0)
      test == X(e.l, cu, PushFrame(e.x :> Binding("const", "none"), cu, Cloned(cb, h0)))
      probe == EmitBlock(e.bs[1], Copy(cb, test.h), Cloned(cb, test.h))
      until == FreshName("until", probe.h)
      poll  == FreshName("poll", probe.h)
      seen  == FreshName("probe", probe.h)
      again == Let(Discard, Effect("sleep", every), Call(Ref(poll), <<>>))
      turn  == Let(seen, probe.e, If(Call(Ref(until), <<Ref(seen)>>), Ref(seen), again))
  IN With(Compound("timebox",
            <<Let(until, Fn(<<PlainName(e.x)>>, test.e), Let(poll, Fn(<<>>, turn), Call(Ref(poll), <<>>)))>>,
            limit), Used(probe.h))
ConvergeWith(e, limit, every, c) == ConvergeLoop(e, limit.e, every.e, c, every.h)
ConvergeEvery(e, limit, c) == ConvergeWith(e, limit, X(e.every, c, limit.h), c)
ConvergeTimebox(e, c, h) == ConvergeEvery(e, X(e.limit, c, ConvergeChecks(e, h)), c)

YieldStar(e, c, h) ==
  CASE e.k = "perform" -> AgentEffect(e, c, h)
    [] e.k = "method" -> HandleCall(e, c, h)
    [] e.k = "useAgent" -> Reject(h, "E010")
    [] e.k = "join" -> YieldTask(e, c, h)
    [] e.k = "provide" -> ProvideValue(e, c, h)
    [] e.k = "converge" -> ConvergeTimebox(e, c, h)
    [] e.k = "bodied" ->
         CASE e.id \in {"all", "race"} -> Concurrency(e, c, h)
           [] e.id = "scope" -> ScopedBody(e, c, h)
           [] e.id = "resource" -> ResourceBody(e, c, h)
           [] e.id = "timebox" -> TimeboxBody(e, c, h)
           [] e.id = "spawn" -> ChildBody(e, c, h)

BinaryExpression(e, c, h) == Pair(e.l, e.r, c, h, LAMBDA a, b: Binary(e.o, a, b))
PrefixUnary(e, c, h) == LET r == X(e.l, c, h) IN With(Not(r.e), r.h)
\* A literal without a spread is one object or array; with one, the runs of
\* other parts between the spreads are, and they are put together.
LiteralParts(ps, c, h) ==
  FoldLeft(LAMBDA r, p: LET x == X(p.e, c, r.h) IN [ps |-> Append(r.ps, [p EXCEPT !.e = x.e]), h |-> x.h],
           [ps |-> <<>>, h |-> h], ps)
Segments(ps) ==
  LET First(i) == i = 1 \/ ps[i].spread \/ ps[i - 1].spread
      from == SetToSortSeq({i \in DOMAIN ps : First(i)}, <)
  IN [j \in DOMAIN from |-> SubSeq(ps, from[j], IF j = Len(from) THEN Len(ps) ELSE from[j + 1] - 1)]
Literally(ps, Node(_), Join(_)) ==
  LET Part1(seg) == IF seg[1].spread THEN seg[1].e ELSE Node(seg)
      segs == Segments(ps)
  IN IF \E i \in DOMAIN ps : ps[i].spread THEN Join([j \in DOMAIN segs |-> Part1(segs[j])]) ELSE Node(ps)
Fields(ps) == Construct([k \in {ps[i].key : i \in DOMAIN ps} |-> ps[Max({i \in DOMAIN ps : ps[i].key = k})].e])
Items(ps) == ArrayNode([i \in DOMAIN ps |-> ps[i].e])
ObjectLiteral(e, c, h) == LET r == LiteralParts(e.ps, c, h) IN With(Literally(r.ps, Fields, MergeObjects), r.h)
ArrayLiteral(e, c, h) == LET r == LiteralParts(e.ps, c, h) IN With(Literally(r.ps, Items, ConcatArrays), r.h)
PropertyAccess(e, c, h) == LET r == X(e.l, c, h) IN With(Get(r.e, e.key), r.h)
\* The parameter of an arrow is not declared: it hides nothing.
ArrowFunction(e, c, h) == LET r == X(e.l, c, h) IN With(Fn(<<PlainName(e.x)>>, r.e), r.h)
CallExpression(e, c, h) == LET r == X(e.l, c, h) IN With(Call(Ref(PlainName(e.x)), <<r.e>>), r.h)
UnsupportedExpression(e, h) == Reject(h, e.code)
Expression(e, c, h) ==
  CASE e.k = "num" -> With(Lit(Number(e.n)), h)
    [] e.k = "true" -> With(Lit(Bool(TRUE)), h)
    [] e.k = "var" -> RefTo(e, c, h)
    [] e.k = "oper" -> BinaryExpression(e, c, h)
    [] e.k = "negated" -> PrefixUnary(e, c, h)
    [] e.k = "ternary" -> LET t == X(e.c, c, h) IN Pair(e.l, e.r, c, t.h, LAMBDA a, b: If(t.e, a, b))
    [] e.k = "prop" -> PropertyAccess(e, c, h)
    [] e.k = "object" -> ObjectLiteral(e, c, h)
    [] e.k = "array" -> ArrayLiteral(e, c, h)
    [] e.k = "arrow" -> ArrowFunction(e, c, h)
    [] e.k = "apply" -> CallExpression(e, c, h)
    [] e.k = "forbidden" -> UnsupportedExpression(e, h)
    [] OTHER -> YieldStar(e, c, h)

\* The statements whose compilation depends on where the list stands: alone,
\* in a branch, in a branch whose outcomes are packed.
TryStatementInPackedBranch(st, rest, c, h, L) == TryStatement(st, rest, c, h, L)
WhileStatementInPackedBranch(st, rest, c, h, L) == WhileStatement(st, rest, c, h, L)
ForOfEachPacked(st, rest, c, h, L) == ForOfEach(st, rest, c, h, L)
InPlainList(st, rest, c, h, L) ==
  CASE st.k = "if" -> IfStatement(st, rest, c, h, L)
    [] st.k = "while" -> WhileStatement(st, rest, c, h, L)
    [] st.k = "try" -> TryStatement(st, rest, c, h, L)
    [] st.k = "each" -> ForOfEach(st, rest, c, h, L)
InBranch(st, rest, c, h, L) ==
  CASE st.k = "if" -> IfStatementInList(st, rest, c, h, L)
    [] st.k \in {"while", "try"} -> Reject(h, "E999")
    [] st.k = "each" -> ForOfEach(st, rest, c, h, L)
InPackedBranch(st, rest, c, h, L) ==
  CASE st.k = "if" -> IfStatementInListPacked(st, rest, c, h, L)
    [] st.k = "while" -> WhileStatementInPackedBranch(st, rest, c, h, L)
    [] st.k = "try" -> TryStatementInPackedBranch(st, rest, c, h, L)
    [] st.k = "each" -> ForOfEachPacked(st, rest, c, h, L)

\* A list: its first statement, with the rest of it as a continuation.
StatementList(ss, c, h, L) ==
  IF ss = <<>> THEN Continue(L.k, h)
  ELSE LET st == Head(ss)
           rest == [m |-> "rest", ss |-> Tail(ss), c |-> c, L |-> L]
       IN CASE st.k = "return" -> ReturnStatement(st, c, h, L)
            [] st.k = "decl" -> VariableStatement(st, rest, c, h)
            [] st.k = "assign" -> LetReassignment(st, rest, c, h)
            [] st.k = "do" -> Discarded(X(st.e, c, h), rest, L)
            [] st.k = "throw" -> ThrowStatement(st, c, h)
            [] st.k = "use" -> Discarded(With(Call(Ref(<<"useTransport">>), <<Ref(<<st.id>>)>>), h), rest, L)
            [] st.k \in {"around", "break"} -> Reject(h, "E999")
            [] st.k = "block" -> NestedBlock(st, rest, c, h, L)
            [] st.k \in {"if", "while", "try", "each"} ->
                 CASE L.m = "plain" -> InPlainList(st, rest, c, h, L)
                   [] L.m = "terminal" -> InBranch(st, rest, c, h, L)
                   [] L.m = "packed" -> InPackedBranch(st, rest, c, h, L)

Continue(k, h) ==
  CASE k.m = "null" -> With(Lit(Null), h)
    [] k.m = "join" -> With(JoinValue(Refs(k.vars, k.c, h)), h)
    [] k.m = "fallthrough" -> With(Outcome("fallthrough", Lit(Null), Refs(k.vars, k.c, h)), h)
    [] k.m = "call" -> With(Call(Ref(k.loop), [i \in DOMAIN k.args |-> Ref(Resolve(k.args[i], k.c, h))]), h)
    [] k.m = "rest" -> StatementList(k.ss, k.c, h, k.L)
    [] k.m = "value" -> Expression(k.e, k.c, h)
    [] k.m = "turn" -> LoopList(k.ss, k.lp, k.c, h, k.bound)

\* A workflow's body: its IR, or the code of the error the compiler throws.
IrOrError(r) == [ir |-> r.e, err |-> r.h.err]
CompileBody(ss) == IrOrError(EmitBlock(ss, Root, EmptyHeap))
=============================================================================
