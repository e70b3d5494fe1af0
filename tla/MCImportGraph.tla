---------------------------- MODULE MCImportGraph ----------------------------
(***************************************************************************)
(* Small projects for ImportGraph: up to three files that import from each *)
(* other in cycles and under aliases, with functions and local variables   *)
(* that share two names; and one project for each way to fail.             *)
(***************************************************************************)
EXTENDS ImportGraph

M == <<"main">>
F == <<"f">>
G == <<"g">>
S == <<"Service">>
All == <<"all">>
Run(n) == Call(Ref(n), <<>>)
Both(a, b) == Let(<<"_">>, a, b)
Nothing == Lit(Null)
\* What is called, with locals that share the names of functions.
Bodies(n, m) == {Run(n), Both(Run(n), Run(m)), Let(n, Run(m), Run(n)), Let(<<"z">>, Fn(<<n>>, Run(n)), Run(m)),
                 Try(Run(n), <<"e">>, Run(m), NoExpr, <<>>), Try(Run(m), n, Run(n), NoExpr, <<>>),
                 Call(Run(m), <<Run(n)>>)}

Decl(kind, name, body, exported) ==
  [kind |-> kind, name |-> name, params |-> <<>>, body |-> body, exported |-> exported, async |-> FALSE, compiles |-> TRUE]
Named(from, pairs) ==
  [form |-> "named", from |-> from, names |-> [i \in DOMAIN pairs |-> [imported |-> pairs[i][1], local |-> pairs[i][2], type |-> FALSE]]]
File(decls, imports) ==
  [banner |-> FALSE, decls |-> decls, imports |-> imports, exports |-> <<>>, dynamic |-> FALSE, reExport |-> FALSE]
Project(files, roots) == [files |-> files, roots |-> roots, generated |-> {}, export |-> M]

Main(body) == Decl("generator", M, body, TRUE)

\* Two files: main calls f and g, of its own file or of the other, where each
\* has them in its own way.
SecondFiles ==
  {[File(<<Decl(kind, F, b, FALSE), Decl("constFunction", G, c, FALSE)>>, <<Named(1, <<<<M, <<"back">>>>>>)>>)
     EXCEPT !.exports = x] :
     kind \in {"function", "constGenerator"}, b \in Bodies(G, F) \union {Run(<<"back">>)}, c \in {Nothing, Run(F)},
     x \in {<<<<F, F>>>>, <<<<G, F>>, <<F, G>>>>}}
FirstFiles(body) ==
  {File(<<Main(body), Decl("function", G, g, FALSE)>>, <<Named(2, <<<<F, F>>>>)>>) : g \in {Nothing, Run(F), Run(G)}}
  \union {File(<<Main(body), [Decl("function", G, Run(F), FALSE) EXCEPT !.params = <<F>>]>>, <<Named(2, <<<<F, F>>>>)>>)}
  \union {File(<<Main(body), Decl("function", F, Nothing, FALSE)>>, <<Named(2, <<<<F, G>>>>)>>)}
Pairs == {Project((1 :> a) @@ (2 :> b), <<1>>) :
            a \in UNION {FirstFiles(body) : body \in Bodies(F, G)}, b \in SecondFiles}

\* Three files, of which any may import any other, and two roots.
Third(n, from) == File(<<Decl("function", F, Run(<<"h">>), TRUE), Decl("function", <<"own">>, Nothing, FALSE),
                         Decl("function", G, Both(Run(<<"own">>), Run(<<"h">>)), n = 2)>>, <<Named(from, <<<<F, <<"h">>>>>>)>>)
Rings == {Project((1 :> File(<<Main(Both(Run(F), Run(G)))>>, <<Named(a, <<<<F, F>>>>), Named(b, <<<<F, G>>>>)>>))
                    @@ (2 :> [Third(2, c) EXCEPT !.decls[1].exported = FALSE, !.exports = <<<<F, F>>>>])
                    @@ (3 :> Third(3, d)), roots) :
            a \in {2, 3}, b \in {2, 3}, c \in {2, 3}, d \in {2, 3}, roots \in {<<1>>, <<2, 1>>, <<3, 1, 2>>}}

\* One file, whose functions make up to two calls each, in either order.
H == <<"h">>
InTurn(calls) == CASE Len(calls) = 0 -> Nothing [] Len(calls) = 1 -> Run(calls[1]) [] OTHER -> Both(Run(calls[1]), Run(calls[2]))
Calling == {<<>>} \union {<<a>> : a \in {F, G, H}} \union ({F, G, H} \X {F, G, H} \ {<<a, a>> : a \in {F, G, H}})
Webs == {Project(1 :> File(<<Main(InTurn(m)), Decl("function", F, InTurn(f), FALSE), Decl("function", G, InTurn(g), FALSE),
                             Decl("function", H, InTurn(h), FALSE)>>, <<>>), <<1>>) :
           m \in {<<F>>, <<F, H>>}, f \in Calling, g \in Calling \union {<<M>>}, h \in {<<>>, <<F>>, <<G, F>>, <<F, G>>}}

\* One defect each.
Good == File(<<Main(Both(Run(F), Effect(S, Run(F))))>>, <<Named(2, <<<<F, F>>, <<S, S>>>>)>>)
Other == File(<<Decl("function", F, Nothing, TRUE), Decl("contract", S, Nothing, TRUE)>>, <<>>)
Two(a, b) == Project((1 :> a) @@ (2 :> b), <<1>>)
With(imp) == [Good EXCEPT !.imports = Append(@, imp)]
Form(form, from) == [form |-> form, from |-> from, names |-> <<>>]
Defects ==
  {Two(Good, Other), Project(1 :> Good, <<1>>), Project(1 :> Other, <<1>>), [Two(Good, Other) EXCEPT !.export = F],
   [Two(Good, Other) EXCEPT !.export = G], [Two(Good, Other) EXCEPT !.generated = {2}], Two(Good, [Other EXCEPT !.banner = TRUE])}
  \union {[r EXCEPT !.files[3].decls[1].exported = FALSE] : r \in Rings}
  \union {Two(With(Form(form, 3)), Other) : form \in {"default", "namespace", "extensionless", "type", "side"}}
  \union {Two([Good EXCEPT !.dynamic = TRUE], Other), Two(Good, [Other EXCEPT !.reExport = TRUE]),
          Two(Good, [Other EXCEPT !.decls[1].exported = FALSE]), Two(Good, [Other EXCEPT !.decls[1].compiles = FALSE]),
          Two(Good, [Other EXCEPT !.decls[1].async = TRUE]), Two([Good EXCEPT !.decls[1].async = TRUE], Other),
          Two([Good EXCEPT !.decls[1].compiles = FALSE], Other), Two(Good, File(<<Decl("const", F, Nothing, TRUE)>>, <<>>)),
          Two([Good EXCEPT !.imports = <<Named(2, <<<<F, F>>>>)>>], Other),
          Two([Good EXCEPT !.decls = Append(@, Decl("contract", S, Nothing, FALSE)), !.imports = <<Named(2, <<<<F, F>>>>)>>], Other),
          Two([Good EXCEPT !.decls = Append(@, Decl("function", <<"p">>, Nothing, TRUE))],
              [Other EXCEPT !.decls = Append(@, Decl("generator", <<"p">>, Nothing, TRUE))]),
          Two([Good EXCEPT !.exports = <<<<S, M>>>>], Other)}
  \union {Two([With(Named(10, <<<<n, n>>>>)) EXCEPT !.decls[1].body = Both(Run(F), Run(n))], Other) : n \in {All, G}}
  \union {Two([With(Named(3, <<<<G, G>>>>)) EXCEPT !.decls[1].body = Run(G)], Other)}
  \union {Project((1 :> [With(Named(3, <<<<G, G>>>>)) EXCEPT !.decls[1].body = Run(G)]) @@ (2 :> Other)
                  @@ (3 :> File(<<Decl("const", G, Nothing, TRUE)>>, <<>>)), <<1>>)}

MCProjects == Pairs \union Rings \union Webs \union Defects
Linking == Pairs
==============================================================================
