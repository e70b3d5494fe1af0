------------------------- MODULE MCProtocolSession -------------------------
(***************************************************************************)
(* Instances of ProtocolSession for TLC.  Posts that overtake each other   *)
(* cost states, so that the SSE transport has a bound of its own.          *)
(***************************************************************************)
EXTENDS ProtocolSession

SessionsPerKind == [k \in Kinds |-> IF k = "channel" THEN 2 ELSE 1]

\* Two ends that keep order show what reports need.
OneReport == [k \in Kinds |-> IF k = "sse" THEN 0 ELSE 1]
NoReport == [k \in Kinds |-> 0]

TwoSessions == [k \in Kinds |-> 2]
OneSession == [k \in Kinds |-> 1]
TwoRequests == [k \in Kinds |-> 2]
OneRequest == [k \in Kinds |-> 1]
=============================================================================
