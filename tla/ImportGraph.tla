----------------------------- MODULE ImportGraph -----------------------------
(***************************************************************************)
(* From a set of source files to linked IR (packages/compiler: graph,      *)
(* reachability, compile-symbols, naming, compile-graph, codegen).  The    *)
(* imports are followed from the roots, the functions called from exported *)
(* workflows are found, compiled, named, and either written to an artifact *)
(* or linked for one exported workflow.                                    *)
(*                                                                         *)
(* A file is [banner, decls, imports, exports, dynamic, reExport]; paths   *)
(* are numbers, in lexicographic order, and bare specifiers come last; a name  *)
(* is a tuple, <<"f">> for f of the source.                                *)
(* The body of a function is given as IR, with an effect named after the   *)
(* contract it calls; what emission makes of it is the matter of Emit.     *)
(***************************************************************************)
EXTENDS Kernel, FiniteSets

CONSTANTS Projects    \* [files, roots, generated, export]: what is compiled
VARIABLES project,
          stage,      \* traverse, reach, compile, name, link, done or failed
          error,      \* the code of the CompileError thrown
          todo,       \* roots not yet traversed
          stack,      \* modules being traversed, with the imports still to follow
          visited, modules,
          worklist, reachable,
          order,      \* reachable functions still to compile
          symbols,    \* compiled symbols, in emission order
          output      \* bindings by name
front == <<project, todo, stack, visited, modules>>
vars == <<front, stage, error, worklist, reachable, order, symbols, output>>

IsBare(path) == path > 9
COMPILER_INTRINSICS == {<<n>> : n \in {"resource", "provide", "scoped", "spawn", "all", "race", "sleep"}}
Fail(code) == stage' = "failed" /\ error' = code

(***************************************************************************)
(* One file                                                                *)
(***************************************************************************)
IsGenerator(d) == d.kind \in {"generator", "constGenerator"} /\ ~d.async
IsHelper(d) == d.kind \in {"function", "constFunction"} /\ ~d.async
NamesOf(ds) == {d.name : d \in ds}
Kinds(file) == {d.kind : d \in Range(file.decls)}

\* async functions are not extracted, but count for the category.
Category(path, file) ==
  CASE path \in project.generated \/ file.banner -> "generated"
    [] Kinds(file) \intersect {"generator", "constGenerator"} # {} -> "workflow-implementation"
    [] "contract" \in Kinds(file) -> "contract-declaration"
    [] Kinds(file) \intersect {"function", "constFunction"} # {} -> "workflow-implementation"
    [] OTHER -> "external"

\* The rejections in the order in which they are found; the first is thrown.
Rejections(file) ==
  LET ofImport(i) == CASE i.form \in {"default", "namespace"} -> <<"E-IMPORT-007">>
                       [] i.form = "extensionless" -> <<"E-IMPORT-002">>
                       [] OTHER -> <<>>
  IN FlattenSeq([i \in DOMAIN file.imports |-> ofImport(file.imports[i])])
     \o (IF file.dynamic THEN <<"E-IMPORT-006">> ELSE <<>>)
     \o (IF file.reExport THEN <<"E-IMPORT-007">> ELSE <<>>)

ValueImports(file) ==
  FlattenSeq([i \in DOMAIN file.imports |->
    LET imp == file.imports[i] IN
    IF imp.form # "named" THEN <<>>
    ELSE LET values == SelectSeq(imp.names, LAMBDA n: ~n.type)
         IN [k \in DOMAIN values |-> [imported |-> values[k].imported, local |-> values[k].local, from |-> imp.from]]])

\* Direct exports and export lists; a later one of the same name wins.
ExportMap(file) ==
  LET direct == SelectSeq(file.decls, LAMBDA d: d.exported)
      all == [i \in DOMAIN direct |-> <<direct[i].name, direct[i].name>>] \o file.exports
  IN FoldLeft(LAMBDA f, e: (e[1] :> e[2]) @@ f, <<>>, all)

Boundary(category) == [category |-> category, traversed |-> FALSE, decls |-> {}, generators |-> {},
                       helpers |-> {}, contracts |-> {}, exports |-> <<>>, imports |-> <<>>, consts |-> {}]
Info(path, file) ==
  LET category == Category(path, file)
      decls == IF category = "external" THEN {} ELSE Range(file.decls)
      generators == NamesOf({d \in decls : IsGenerator(d)})
      helpers == NamesOf({d \in decls : IsHelper(d)})
  IN [category |-> category, traversed |-> TRUE, decls |-> decls, generators |-> generators,
      helpers |-> helpers, contracts |-> NamesOf({d \in decls : d.kind = "contract"}),
      exports |-> ExportMap(file), imports |-> ValueImports(file),
      consts |-> IF category = "generated" THEN Range(ExportMap(file)) \ (generators \union helpers) ELSE {}]
Boundaries(file) ==
  LET types == {i.from : i \in {i \in Range(file.imports) : i.form = "type" /\ ~IsBare(i.from)}}
      bare == {i.from : i \in {i \in Range(ValueImports(file)) : IsBare(i.from)}}
  IN [p \in types |-> Boundary("type-only")] @@ [p \in bare |-> Boundary("external")]

(***************************************************************************)
(* Traversal (buildGraph, traverseModule)                                  *)
(***************************************************************************)
Init == /\ project \in Projects
        /\ stage = "traverse" /\ error = ""
        /\ todo = project.roots /\ stack = <<>>
        /\ visited = {} /\ modules = <<>>
        /\ worklist = {} /\ reachable = {} /\ order = <<>>
        /\ symbols = <<>> /\ output = <<>>

Follows(info) == info.category \in {"workflow-implementation", "contract-declaration"}
Relative(info) == SelectSeq([i \in DOMAIN info.imports |-> info.imports[i].from], LAMBDA p: ~IsBare(p))

\* traverseModule up to the recursion; below is the stack under its frame.
Traverse(path, below) ==
  LET file == project.files[path]
      info == Info(path, file)
  IN IF path \in visited THEN stack' = below /\ UNCHANGED <<modules, visited, stage, error>>
     ELSE /\ visited' = visited \union {path}
          /\ CASE path \notin DOMAIN project.files -> Fail("E-IMPORT-003") /\ UNCHANGED <<stack, modules>>
               [] path \in DOMAIN project.files /\ Rejections(file) # <<>> ->
                    Fail(Rejections(file)[1]) /\ UNCHANGED <<stack, modules>>
               [] OTHER ->
                    /\ modules' = (path :> info) @@ modules @@ Boundaries(file)
                    /\ stack' = IF Follows(info) THEN Append(below, [path |-> path, todo |-> Relative(info)]) ELSE below
                    /\ UNCHANGED <<stage, error>>

Rest == <<worklist, reachable, order, symbols, output>>
TraverseRoot ==
  /\ stage = "traverse" /\ stack = <<>> /\ todo # <<>>
  /\ todo' = Tail(todo)
  /\ Traverse(Head(todo), <<>>)
  /\ UNCHANGED <<project, Rest>>
FollowImport ==
  /\ stage = "traverse" /\ stack # <<>> /\ Last(stack).todo # <<>>
  /\ LET top == Last(stack) IN
     Traverse(Head(top.todo), Append(Front(stack), [top EXCEPT !.todo = Tail(@)]))
  /\ UNCHANGED <<project, todo, Rest>>
\* After the recursion: every name imported is exported by its module.
Missing(info) == {i \in Range(info.imports) :
  i.from \in DOMAIN modules /\ modules[i.from].traversed /\ i.imported \notin DOMAIN modules[i.from].exports}
LeaveModule ==
  /\ stage = "traverse" /\ stack # <<>> /\ Last(stack).todo = <<>>
  /\ IF Missing(modules[Last(stack).path]) # {} THEN Fail("E-IMPORT-005") /\ UNCHANGED stack
     ELSE stack' = Front(stack) /\ UNCHANGED <<stage, error>>
  /\ UNCHANGED <<project, todo, visited, modules, Rest>>

(***************************************************************************)
(* What a function calls (findCallTargets) and what is reached             *)
(***************************************************************************)
Kids(e) ==
  CASE e.op = "fn" -> <<e.body>>
    [] e.op = "let" -> <<e.val, e.body>>
    [] e.op = "call" -> <<e.fn>> \o e.args
    [] e.op = "try" -> <<e.body, e.catch, e.fin>>
    [] e.op = "effect" -> <<e.data>>
    [] OTHER -> <<>>
\* The names a node binds in its i-th part.
Binds(e, i) ==
  CASE e.op = "fn" -> Range(e.params)
    [] e.op = "let" /\ i = 2 -> {e.x}
    [] e.op = "try" /\ i = 2 -> {e.param}
    [] OTHER -> {}

RECURSIVE CalledNames(_), FreeRefs(_, _)
\* Callees that are identifiers, whatever binds them, in the order of the source.
CalledNames(e) ==
  (IF e.op = "call" /\ e.fn.op = "ref" THEN <<e.fn.x>> ELSE IF e.op = "effect" THEN <<e.id>> ELSE <<>>)
  \o FlattenSeq([i \in DOMAIN Kids(e) |-> CalledNames(Kids(e)[i])])
\* collectFreeRefs, for which try binds nothing.
FreeRefs(e, bound) ==
  IF e.op = "ref" THEN {e.x} \ bound
  ELSE UNION {FreeRefs(Kids(e)[i], bound \union (IF e.op = "try" THEN {} ELSE Binds(e, i))) : i \in DOMAIN Kids(e)}

Locals(info) == info.generators \union info.helpers \union info.consts
Function(key) ==
  LET info == modules[key[1]] IN
  {d \in info.decls : d.name = key[2] /\ d.name \in info.generators \union info.helpers}
ImportsOf(info, name) == SelectSeq(info.imports, LAMBDA i: i.local = name)

\* The function a called name stands for, as a set, or the error it is.
TargetOf(path, name) ==
  LET info == modules[path]
      imp == ImportsOf(info, name)[1]
      target == modules[imp.from]
  IN CASE name \in Locals(info) -> {<<path, name>>}
       [] name \notin Locals(info) /\ ImportsOf(info, name) = <<>> -> {}
       [] OTHER -> IF target.category = "external" \/ imp.imported \notin DOMAIN target.exports THEN {}
                   ELSE {<<imp.from, target.exports[imp.imported]>>}
External(path, name) ==
  LET imp == ImportsOf(modules[path], name)[1] IN
  IF name \in Locals(modules[path]) \/ ImportsOf(modules[path], name) = <<>>
     \/ modules[imp.from].category # "external" THEN {}
  ELSE IF modules[imp.from].traversed THEN {"E-IMPORT-004"}
  ELSE IF name \in COMPILER_INTRINSICS THEN {} ELSE {"E-IMPORT-001"}

\* A name is looked up where it comes first.
Names(key) ==
  FoldLeft(LAMBDA q, n: IF Contains(q, n) THEN q ELSE Append(q, n), <<>>,
           FlattenSeq(SetToSeq({CalledNames(d.body) : d \in Function(key)})))
Callees(key) == FlattenSeq([i \in DOMAIN Names(key) |-> SetToSeq(TargetOf(key[1], Names(key)[i]))])
\* Mutant: only the module's own functions are looked up.
OwnTargets(key) == {t \in Range(Callees(key)) : t[1] = key[1]}
Targets(key) == Range(Callees(key))

Entrypoints ==
  {<<p, g>> \in UNION {{p} \X modules[p].generators : p \in DOMAIN modules} :
     modules[p].category = "workflow-implementation" /\ g \in Range(modules[p].exports)}
StartReach ==
  /\ stage = "traverse" /\ stack = <<>> /\ todo = <<>>
  /\ IF Entrypoints = {} THEN Fail("E-GRAPH-001") ELSE stage' = "reach" /\ UNCHANGED error
  /\ worklist' = Entrypoints /\ reachable' = Entrypoints
  /\ UNCHANGED <<front, order, symbols, output>>
\* The worklist of the code is a stack; here any of it may come next.
Reach(key) ==
  /\ stage = "reach" /\ key \in worklist
  /\ LET errors == UNION {External(key[1], n) : n \in Range(Names(key))}
         new == Targets(key) \ reachable
     IN \/ \E e \in errors : Fail(e) /\ UNCHANGED <<worklist, reachable>>
        \/ /\ errors = {}
           /\ worklist' = (worklist \ {key}) \union new
           /\ reachable' = reachable \union new
           /\ UNCHANGED <<stage, error>>
  /\ UNCHANGED <<front, order, symbols, output>>

(***************************************************************************)
(* Emission order (computeEmitOrder): Tarjan's components, reversed, so    *)
(* that callers come before what they call.                                *)
(***************************************************************************)
Sorted(S) == FoldSet(LAMBDA k, q: Append(q, k), <<>>, S)
RECURSIVE StrongConnect(_, _), ClosedIsLower(_, _)
Entered(v, s) ==
  LET n == Cardinality(DOMAIN s.index)
  IN [s EXCEPT !.index = (v :> n) @@ @, !.low = (v :> n) @@ @, !.stack = Append(@, v)]
Lower(v, t, m) == [t EXCEPT !.low[v] = IF m < @ THEN m ELSE @]
\* The calls of v in the order in which they were found.
Adjacent(v) == SelectSeq(Callees(v), LAMBDA w: w \in reachable)
\* A component is complete when its first member is left.
Left(v, s) ==
  LET from == CHOOSE i \in DOMAIN s.stack : s.stack[i] = v
  IN IF s.low[v] # s.index[v] THEN s
     ELSE [s EXCEPT !.stack = SubSeq(@, 1, from - 1),
                    !.sccs = Append(@, Sorted(Range(SubSeq(s.stack, from, Len(s.stack)))))]
\* Mutant: a function whose component is complete lowers its callers too.
ClosedIsLower(v, s) ==
  LET visit(t, w) == IF w \notin DOMAIN t.index THEN LET u == ClosedIsLower(w, t) IN Lower(v, u, u.low[w])
                     ELSE Lower(v, t, t.index[w])
  IN Left(v, FoldLeft(visit, Entered(v, s), Adjacent(v)))
StrongConnect(v, s) ==
  LET visit(t, w) == IF w \notin DOMAIN t.index THEN LET u == StrongConnect(w, t) IN Lower(v, u, u.low[w])
                     ELSE IF w \in Range(t.stack) THEN Lower(v, t, t.index[w]) ELSE t
  IN Left(v, FoldLeft(visit, Entered(v, s), Adjacent(v)))
EmitOrder ==
  FlattenSeq(Reverse(FoldLeft(LAMBDA s, v: IF v \in DOMAIN s.index THEN s ELSE StrongConnect(v, s),
    [index |-> <<>>, low |-> <<>>, stack |-> <<>>, sccs |-> <<>>], Sorted(reachable)).sccs))

StartCompile ==
  /\ stage = "reach" /\ worklist = {}
  /\ stage' = "compile" /\ order' = EmitOrder
  /\ UNCHANGED <<front, error, worklist, reachable, symbols, output>>

(***************************************************************************)
(* Compilation (compileReachableSymbols)                                   *)
(***************************************************************************)
\* The contracts a module sees: its own and those it imports, by their names
\* in the module.
Contracts(path) ==
  LET info == modules[path]
      seen == {i \in Range(info.imports) : i.from \in DOMAIN modules
                 /\ i.imported \in DOMAIN modules[i.from].exports
                 /\ modules[i.from].exports[i.imported] \in modules[i.from].contracts}
  IN [n \in {i.local : i \in seen} |-> LET i == CHOOSE i \in seen : i.local = n
                                      IN <<i.from, modules[i.from].exports[i.imported]>>]
     @@ [n \in info.contracts |-> <<path, n>>]

RECURSIVE Effects(_), Emitted(_, _)
Effects(e) == (IF e.op = "effect" THEN {e.id} ELSE {}) \union UNION {Effects(Kids(e)[i]) : i \in DOMAIN Kids(e)}
\* The body with each part replaced by F of it.
Mapped(e, F(_, _)) ==
  CASE e.op = "fn" -> [e EXCEPT !.body = F(e.body, 1)]
    [] e.op = "let" -> [e EXCEPT !.val = F(e.val, 1), !.body = F(e.body, 2)]
    [] e.op = "call" -> [e EXCEPT !.fn = F(e.fn, 1), !.args = [i \in DOMAIN e.args |-> F(e.args[i], i + 1)]]
    [] e.op = "try" -> [e EXCEPT !.body = F(e.body, 1), !.catch = F(e.catch, 2), !.fin = F(e.fin, 3)]
    [] e.op = "effect" -> [e EXCEPT !.data = F(e.data, 1)]
    [] OTHER -> e
Emitted(e, contracts) ==
  LET parts == Mapped(e, LAMBDA x, i: Emitted(x, contracts))
  IN IF e.op = "effect" THEN [parts EXCEPT !.id = contracts[e.id]] ELSE parts

\* The first name under which a function is exported.
ExportedAs(path, name) ==
  LET file == project.files[path]
      listed == SelectSeq(file.exports, LAMBDA x: x[2] = name)
      direct == \E d \in Range(file.decls) : d.name = name /\ d.exported
  IN IF direct THEN <<name>> ELSE IF listed # <<>> THEN <<listed[1][1]>> ELSE <<>>

\* A function that uses a contract its module does not see, or anything else
\* emission rejects, ends the compilation.
Compile ==
  /\ stage = "compile" /\ order # <<>>
  /\ order' = Tail(order)
  /\ LET key == Head(order)
         contracts == Contracts(key[1])
         skipped == modules[key[1]].category = "generated" \/ Function(key) = {}
         d == CHOOSE d \in Function(key) : TRUE
         ok == d.compiles /\ Effects(d.body) \subseteq DOMAIN contracts
     IN CASE skipped -> UNCHANGED <<stage, error, symbols>>
          [] ~skipped /\ ok ->
               /\ symbols' = Append(symbols,
                    [key |-> key, generator |-> IsGenerator(d), exported |-> ExportedAs(key[1], key[2]), name |-> <<>>,
                     ir |-> Fn(d.params, Emitted(d.body, contracts))])
               /\ UNCHANGED <<stage, error>>
          [] OTHER -> Fail(IF IsGenerator(d) THEN "E999" ELSE "E-HELPER-001") /\ UNCHANGED symbols
  /\ UNCHANGED <<front, worklist, reachable, output>>

(***************************************************************************)
(* Names (assignEmittedNames and the checks for conflicts)                 *)
(***************************************************************************)
\* Mutant: what is not exported keeps its own name.
SourceName(sym) == IF sym.exported # <<>> THEN sym.exported[1] ELSE sym.key[2]
EmittedName(sym) ==
  IF sym.exported # <<>> THEN sym.exported[1]
  ELSE <<"m", Cardinality({p \in DOMAIN modules : p < sym.key[1]}), sym.key[2]>>
Exported == {sym \in Range(symbols) : sym.exported # <<>>}
Compiled(path) == {sym \in Range(symbols) : sym.key[1] = path}
Declared == UNION {{p} \X modules[p].contracts : p \in DOMAIN modules}
Conflicts ==
  \/ \E a, b \in Exported : a # b /\ a.exported = b.exported
  \/ \E a, b \in Declared : a # b /\ a[2] = b[2]
  \/ \E a \in Exported, b \in Declared : a.exported[1] = b[2]
\* What was compiled decides what a module without generators is.
Reclassified(info, compiled) ==
  CASE ~info.traversed -> info.category
    [] info.category = "workflow-implementation" /\ info.generators = {} /\ ~compiled -> "external"
    [] info.category = "contract-declaration" /\ compiled -> "workflow-implementation"
    [] OTHER -> info.category
Name ==
  /\ stage = "compile" /\ order = <<>>
  /\ modules' = [p \in DOMAIN modules |->
       [modules[p] EXCEPT !.category = Reclassified(modules[p], Compiled(p) # {})]]
  /\ symbols' = [i \in DOMAIN symbols |-> [symbols[i] EXCEPT !.name = EmittedName(symbols[i])]]
  /\ IF Conflicts THEN Fail("E-NAME-001") ELSE stage' = "link" /\ UNCHANGED error
  /\ UNCHANGED <<project, todo, stack, visited, worklist, reachable, order, output>>

(***************************************************************************)
(* The artifact (generateGraphCode), and the bindings for one workflow     *)
(* (compileGraphForRuntime)                                                *)
(***************************************************************************)
SymbolOf(key) == CHOOSE sym \in Range(symbols) : sym.key = key
Keys == {sym.key : sym \in Range(symbols)}
Artifact ==
  /\ stage = "link"
  /\ stage' = "written"
  /\ output' = [n \in {sym.name : sym \in Range(symbols)} |->
                 LET sym == CHOOSE sym \in Range(symbols) : sym.name = n
                 IN [key |-> sym.key, ir |-> sym.ir]]
  /\ UNCHANGED <<front, error, worklist, reachable, order, symbols>>

\* The compiled function an identifier of a module stands for, if any.
Linked(path, x) ==
  LET imps == ImportsOf(modules[path], x)
      target == modules[imps[1].from]
  IN IF <<path, x>> \in Keys THEN {<<path, x>>}
     ELSE IF imps = <<>> \/ imps[1].imported \notin DOMAIN target.exports THEN {}
     ELSE {<<imps[1].from, target.exports[imps[1].imported]>>} \intersect Keys
RECURSIVE Closure(_)
Closure(keys) ==
  LET more == UNION {UNION {Linked(k[1], x) : x \in FreeRefs(SymbolOf(k).ir, {})} : k \in keys}
  IN IF more \subseteq keys THEN keys ELSE Closure(keys \union more)

RuntimeName(key) ==
  LET sym == SymbolOf(key) IN IF sym.exported # <<>> THEN <<"rtexport", sym.name>> ELSE sym.name
NameMap(path, keys) ==
  LET imps == {i \in Range(modules[path].imports) : Linked(path, i.local) \intersect keys # {}}
  IN [x \in {i.local : i \in imps} |-> RuntimeName(CHOOSE k \in Linked(path, x) : TRUE)]
     @@ [x \in {k[2] : k \in {k \in keys : k[1] = path}} |-> RuntimeName(<<path, x>>)]

RECURSIVE RewriteAll(_, _, _), RewriteRefs(_, _, _)
\* Mutant: names that are bound inside are rewritten too.
RewriteAll(e, map, bound) ==
  IF e.op = "ref" THEN (IF e.x \in DOMAIN map THEN [e EXCEPT !.x = map[e.x]] ELSE e)
  ELSE Mapped(e, LAMBDA x, i: RewriteAll(x, map, bound))
RewriteRefs(e, map, bound) ==
  IF e.op = "ref" THEN (IF e.x \in DOMAIN map \ bound THEN [e EXCEPT !.x = map[e.x]] ELSE e)
  ELSE Mapped(e, LAMBDA x, i: RewriteRefs(x, map, bound \union Binds(e, i)))

LinkFor(name) ==
  /\ stage = "link"
  /\ LET selected == {sym \in Exported : sym.exported[1] = name}
         keys == Closure({sym.key : sym \in selected})
     IN IF selected = {} THEN Fail("E-GRAPH-002") /\ UNCHANGED output
        ELSE /\ stage' = "linked" /\ UNCHANGED error
             /\ output' = [n \in {RuntimeName(k) : k \in keys} |->
                            LET k == CHOOSE k \in keys : RuntimeName(k) = n
                            IN [key |-> k, ir |-> RewriteRefs(SymbolOf(k).ir, NameMap(k[1], keys), {})]]
  /\ UNCHANGED <<front, worklist, reachable, order, symbols>>

Ended == {"written", "linked", "failed"}
Finished == stage \in Ended /\ UNCHANGED vars
Next == \/ Finished \/ TraverseRoot \/ FollowImport \/ LeaveModule
        \/ StartReach \/ (\E key \in worklist : Reach(key)) \/ StartCompile
        \/ Compile \/ Name \/ Artifact \/ LinkFor(project.export)
Spec == Init /\ [][Next]_vars

(***************************************************************************)
(* Properties                                                              *)
(***************************************************************************)
TypeOK == /\ stage \in {"traverse", "reach", "compile", "link"} \union Ended
          /\ (error # "") = (stage = "failed")
          /\ worklist \subseteq reachable
          /\ {p \in DOMAIN modules : modules[p].traversed} \subseteq visited
          /\ DOMAIN output # {} => stage \in {"written", "linked"}

\* A cycle of imports never puts a module on the stack twice (traverseModule
\* and its visited set).
OnStackOnce == \A i, j \in DOMAIN stack : stack[i].path = stack[j].path => i = j

\* When traversal is over each import of a value from a file, of a module that
\* is not itself a boundary, leads to a module that exports it, in whatever
\* order cycles made the modules known (E-IMPORT-005).
ImportsResolved ==
  stage \notin {"traverse", "failed"} =>
    \A p \in DOMAIN modules : modules[p].traversed /\ Follows(modules[p]) =>
      \A i \in Range(modules[p].imports) : ~IsBare(i.from) =>
        i.from \in DOMAIN modules /\ modules[i.from].traversed /\ i.imported \in DOMAIN modules[i.from].exports

\* No two functions share an emitted name, although helpers of different
\* modules may share theirs (EN2).
NamesUnique ==
  stage \in {"link", "written", "linked"} => \A i, j \in DOMAIN symbols : symbols[i].name = symbols[j].name => i = j

\* What a phase leaves to the next: modules complete, symbols told apart.
PhasesInv == TypeOK /\ OnStackOnce /\ ImportsResolved /\ NamesUnique

\* The meaning of an identifier in a file, by the rules of the language.
Denotes(path, x, bound) ==
  LET file == project.files[path]
      imps == ImportsOf([imports |-> ValueImports(file)], x)
  IN CASE x \in bound -> {<<"local">>}
       [] x \notin bound /\ x \in NamesOf(Range(file.decls)) -> {<<path, x>>}
       [] OTHER -> IF imps = <<>> \/ IsBare(imps[1].from) THEN {}
                   ELSE {<<imps[1].from, ExportMap(project.files[imps[1].from])[imps[1].imported]>>}
RECURSIVE Calls(_, _, _), SameLinks(_, _, _, _)
\* The functions called in e, which has the names bound.
Calls(e, path, bound) ==
  (IF e.op = "call" /\ e.fn.op = "ref" THEN Denotes(path, e.fn.x, bound) \ {<<"local">>} ELSE {})
  \union UNION {Calls(Kids(e)[i], path, bound \union Binds(e, i)) : i \in DOMAIN Kids(e)}
CallsOf(key) == UNION {Calls(d.body, key[1], Range(d.params)) : d \in Function(key)}

\* Whatever the worklist's order, every function a reachable function calls
\* is reachable, through aliases and cycles, and everything else that is
\* reachable is named by one that is (ER2, ER3).
ReachableIsCalled ==
  stage \notin {"traverse", "reach", "failed"} =>
    /\ \A k \in reachable : CallsOf(k) \subseteq reachable
    /\ \A k \in reachable \ Entrypoints : \E c \in reachable : k \in Targets(c)

\* When compilation starts every reachable function is in the order, once.
\* Functions that call each other, directly or not, stand together with no
\* other between them, and the calls from one such group to another all go the
\* same way, whatever cycles the calls make and in whatever order they come
\* (Tarjan's components, computeEmitOrder).
RECURSIVE Below(_)
Below(keys) == LET more == UNION {Targets(k) : k \in keys} IN IF more \subseteq keys THEN keys ELSE Below(keys \union more)
Grouped(q) ==
  LET below == [k \in reachable |-> Below({k})]
      Together(a, b) == a \in below[b] /\ b \in below[a]
      Across(i, j) == q[j] \in Targets(q[i]) /\ ~Together(q[i], q[j])
  IN /\ Range(q) = reachable /\ IsInjective(q)
     /\ \A i, j \in DOMAIN q : i < j /\ Together(q[i], q[j]) =>
          \A k \in i .. j : Together(q[i], q[k])
     /\ \/ \A i, j \in DOMAIN q : Across(i, j) => i < j
        \/ \A i, j \in DOMAIN q : Across(i, j) => i > j
GroupsInOrder == [][stage = "reach" /\ stage' = "compile" => Grouped(order')]_vars

\* The functions an expression of the output refers to.
Bound(x, bound) == IF x \in bound THEN {<<"local">>} ELSE IF x \in DOMAIN output THEN {output[x].key} ELSE {}
Runs(keys) == {k \in keys : k = <<"local">> \/ (Function(k) # {} /\ modules[k[1]].category # "generated")}
SameLinks(e, g, path, bound) ==
  IF e.op = "ref" THEN Bound(g.x, bound) = Runs(Denotes(path, e.x, bound))
  ELSE \A i \in DOMAIN Kids(e) : SameLinks(Kids(e)[i], Kids(g)[i], path, bound \union Binds(e, i))
LinksKept == \A n \in DOMAIN output :
  \A d \in Function(output[n].key) : SameLinks(d.body, output[n].ir.body, output[n].key[1], Range(d.params))
\* In what is handed to the kernel each reference is bound to what it denotes
\* in the source: the same local, or the binding of the same function, whatever
\* modules, aliases and local variables share its name; what is not compiled, of
\* a generated module or async, stays free (rewriteRefs, buildModuleNameMaps).
LinkedRight == stage = "linked" => LinksKept
\* The same of the artifact that is written out (16.3).
WrittenRight == stage = "written" => LinksKept
==============================================================================
