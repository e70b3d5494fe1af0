--------------------------- MODULE MCInlineLanes ---------------------------
(***************************************************************************)
(* Instances of InlineLanes for TLC: programs of four operations, each in  *)
(* any place.                                                              *)
(***************************************************************************)
EXTENDS InlineLanes

Does(kinds, refs) == [where : Places, do : kinds, ref : refs]
Makes(kind) == Does({kind}, {0})
\* Two handles are made and used, two tasks are spawned and joined, and a
\* handle is used between subscriptions.
Crossing == {<<a, b, c, d>> : a, b \in Makes("subscribe"), c \in Does({"next"}, {1, 2}), d \in Does({"next", "send"}, {1})}
Joining == {<<a, b, c, d>> : a \in Makes("spawn"), b \in Makes("spawn"), c, d \in Does({"join"}, {1, 2})}
Between == {<<a, b, c, d>> : a \in Makes("subscribe"), b \in Does({"next"}, {1}), c \in Makes("subscribe"), d \in Does({"next"}, {3})}
MCPrograms == Crossing \union Joining \union Between
SubscribePrograms == {<<a, b, c>> : a, b, c \in [where : {"caller", "lane"}, do : {"subscribe"}, ref : {0}]}
=============================================================================
