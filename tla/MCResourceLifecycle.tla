------------------------ MODULE MCResourceLifecycle ------------------------
(***************************************************************************)
(* Instances of ResourceLifecycle for TLC.                                 *)
(***************************************************************************)
EXTENDS ResourceLifecycle

Scripts == {<<"acquire", "inline">>, <<"inline", "effect", "acquire">>}
Body(init, spawns, cleanup) == [init |-> init, spawns |-> spawns, cleanup |-> cleanup]
\* Only what an operation acquires has a body that matters.
Plain == Body("provide", FALSE, "none")
MCBodies == {Plain, Body("provide", TRUE, "effect"), Body("provide", FALSE, "fail"),
             Body("fail", TRUE, "none")}
BodiesOf(s) ==
  {f \in [1 .. Len(s) -> MCBodies] : \A i \in 1 .. Len(s) : s[i] = "effect" => f[i] = Plain}
MCPrograms ==
  UNION {{[script |-> s, catches |-> c, body |-> b] : c \in BOOLEAN, b \in BodiesOf(s)} : s \in Scripts}
=============================================================================
