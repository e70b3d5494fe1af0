------------------------ MODULE ProtocolSessionProofs ------------------------
(***************************************************************************)
(* Proofs about ProtocolSession, for any number of sessions, requests,     *)
(* faults and reports, over each kind of transport: its types, that it     *)
(* implements the life of requests, and, for an agent that serves one      *)
(* session, that answers, reports and cancellations find their requests.   *)
(***************************************************************************)
EXTENDS ProtocolSession, SequenceTheorems, TLAPS

-----------------------------------------------------------------------------
(* Facts about the data *)

LEMMA AppendFact ==
  ASSUME NEW S, NEW s \in Seq(S), NEW e \in S
  PROVE  /\ Append(s, e) \in Seq(S)
         /\ Len(Append(s, e)) = Len(s) + 1
         /\ Append(s, e)[Len(s) + 1] = e
         /\ \A i \in 1 .. Len(s) : Append(s, e)[i] = s[i]
OBVIOUS

LEMMA TailFact ==
  ASSUME NEW S, NEW s \in Seq(S), s # <<>>
  PROVE  /\ Tail(s) \in Seq(S) /\ Len(s) > 0
         /\ Len(Tail(s)) = Len(s) - 1
         /\ \A i \in 1 .. Len(Tail(s)) : Tail(s)[i] = s[i + 1]
         /\ Head(s) = s[1] /\ Head(s) \in S
OBVIOUS

\* The first messages of a connection that breaks.
LEMMA PrefixFact ==
  ASSUME NEW S, NEW s \in Seq(S), NEW n \in 0 .. Len(s)
  PROVE  /\ SubSeq(s, 1, n) \in Seq(S) /\ Len(SubSeq(s, 1, n)) = n
         /\ \A i \in 1 .. n : SubSeq(s, 1, n)[i] = s[i]
OBVIOUS

LEMMA ConcatFact ==
  ASSUME NEW S, NEW s \in Seq(S), NEW more \in Seq(S), NEW e \in S, NEW n \in Nat, Len(more) = n,
         \A i \in 1 .. n : more[i] = e, NEW t, t = s \o more
  PROVE  /\ t \in Seq(S) /\ Len(t) = Len(s) + n
         /\ \A i \in 1 .. Len(s) : t[i] = s[i]
         /\ \A i \in Len(s) + 1 .. Len(t) : t[i] = e
<1>0. s \o more \in Seq(S) /\ Len(s \o more) = Len(s) + Len(more)
  BY ConcatProperties
<1>1. t \in Seq(S) /\ Len(t) = Len(s) + n /\ Len(s) \in Nat
  <2>1. Len(s) \in Nat OBVIOUS
  <2> QED BY <1>0, <2>1, Zenon
<1>2. \A i \in 1 .. Len(s) : t[i] = s[i] OBVIOUS
<1>3. \A i \in Len(s) + 1 .. Len(t) : i - Len(s) \in 1 .. n /\ t[i] = more[i - Len(s)]
  BY <1>1
<1> QED BY <1>1, <1>2, <1>3

\* A message sent once or more.
LEMMA RepeatFact ==
  ASSUME NEW S, NEW s \in Seq(S), NEW e \in S, NEW n \in Nat, NEW t,
         t = s \o [i \in 1 .. n |-> e]
  PROVE  /\ t \in Seq(S) /\ Len(t) = Len(s) + n
         /\ \A i \in 1 .. Len(s) : t[i] = s[i]
         /\ \A i \in Len(s) + 1 .. Len(t) : t[i] = e
<1> DEFINE more == [i \in 1 .. n |-> e]
<1>1. more \in Seq(S) /\ Len(more) = n /\ \A i \in 1 .. n : more[i] = e
  OBVIOUS
<1>2. t = s \o more OBVIOUS
<1> HIDE DEF more
<1> QED BY <1>1, <1>2

\* The largest bound of all transports bounds each of them.
LEMMA LargestFact ==
  ASSUME NEW f \in [Kinds -> Nat], NEW k \in Kinds
  PROVE  Largest(f) \in Nat /\ f[k] <= Largest(f)
<1> USE SessionBounds
<1>1. \E m \in Kinds : \A j \in Kinds : f[j] <= f[m]
  <2>1. PICK a \in Kinds : "channel" \in Kinds => a = "channel" OBVIOUS
  <2>2. PICK b \in Kinds : f[a] <= f[b] /\ ("process" \in Kinds => f["process"] <= f[b])
    <3>1. CASE "process" \in Kinds /\ f[a] <= f["process"] BY <3>1
    <3>2. CASE ~("process" \in Kinds /\ f[a] <= f["process"]) BY <3>2
    <3> QED BY <3>1, <3>2
  <2>3. PICK c \in Kinds : f[b] <= f[c] /\ ("sse" \in Kinds => f["sse"] <= f[c])
    <3>1. CASE "sse" \in Kinds /\ f[b] <= f["sse"] BY <3>1
    <3>2. CASE ~("sse" \in Kinds /\ f[b] <= f["sse"]) BY <3>2
    <3> QED BY <3>1, <3>2
  <2>4. \A j \in Kinds : f[j] <= f[c]
    <3> TAKE j \in Kinds
    <3>1. j \in {"channel", "process", "sse"} OBVIOUS
    <3> QED BY <3>1, <2>1, <2>2, <2>3
  <2> QED BY <2>4
<1>2. \E n \in {f[j] : j \in Kinds} : \A j \in Kinds : f[j] <= n BY <1>1
<1>3. Largest(f) \in {f[j] : j \in Kinds} /\ \A j \in Kinds : f[j] <= Largest(f)
  BY <1>2 DEF Largest
<1> QED BY <1>3

-----------------------------------------------------------------------------
(* Type correctness *)

HostOK ==
  /\ kind \in Kinds /\ faults \in 0 .. MaxFaults
  /\ host \in [sess : 1 .. MaxSessions[kind], phase : {"connecting", "open", "failed", "closed"},
               receiver : {"init", "loop", "ended"}, next : 0 .. MaxRequests[kind],
               made : 0 .. MaxRequests[kind]]
  /\ host.next <= host.made
  /\ host.receiver = "init" => host.phase = "connecting"
  /\ host.phase = "connecting" => host.next = 0
CallersOK ==
  /\ req \in [Ids -> Request]
  /\ \A r \in Ids : r >= host.next => req[r] = Idle
  /\ pending \subseteq {r \in Ids : req[r].pc \in Open /\ req[r].terminal = NoOutcome}
WireOK ==
  /\ posts \subseteq HostMessages /\ inbox \in Seq(HostMessages)
  /\ down \in Seq(AgentMessages)
  /\ link \in {"open", "closed"}
Entries == UNION {[D -> Tags] : D \in SUBSET Ids}
AgentOK ==
  agent \in [loop : {"running", "stopped", "failed"}, conn : 0 .. host.sess,
             inflight : Entries, handlers : SUBSET Handlers, stale : SUBSET (1 .. host.sess)]

LEMMA TypeParts ==
  /\ TypeOK <=> HostOK /\ CallersOK /\ WireOK /\ AgentOK
  /\ TypeOK' <=> HostOK' /\ CallersOK' /\ WireOK' /\ AgentOK'
BY DEF TypeOK, HostOK, CallersOK, WireOK, AgentOK, Entries

\* Ids, tags and messages that the actions make are within the types.
LEMMA TypeFacts ==
  ASSUME HostOK
  PROVE  /\ host.sess \in 1 .. Largest(MaxSessions) /\ 0 \in Ids /\ Ids \subseteq Nat
         /\ MaxRequests[kind] <= Largest(MaxRequests)
         /\ MaxSessions[kind] <= Largest(MaxSessions)
         /\ Largest(MaxSessions) \in Nat /\ Largest(MaxRequests) \in Nat
         /\ MaxSessions[kind] \in Nat /\ MaxRequests[kind] \in Nat
         /\ \A r \in Ids : Tag(r) \in Tags
<1>1. /\ MaxSessions[kind] <= Largest(MaxSessions) /\ Largest(MaxSessions) \in Nat
      /\ MaxRequests[kind] <= Largest(MaxRequests) /\ Largest(MaxRequests) \in Nat
  BY SessionBounds, LargestFact DEF HostOK
<1>2. MaxRequests[kind] \in Nat \ {0} /\ MaxSessions[kind] \in Nat \ {0}
  BY SessionBounds DEF HostOK
<1>3. host.sess \in 1 .. Largest(MaxSessions) BY <1>1, <1>2 DEF HostOK
<1> QED BY <1>1, <1>2, <1>3 DEF Ids, Tag, Tags

LEMMA MessageFacts ==
  ASSUME HostOK
  PROVE  /\ \A type \in {"initialize", "execute", "badMiddleware", "cancel", "shutdown"}, r \in Ids :
              ToAgent(type, r) \in HostMessages
         /\ \A type \in {"result", "refused", "progress"}, r \in Ids, tag \in Tags,
              n \in 0 .. Largest(MaxProgress) : ToHost(type, r, tag, n) \in AgentMessages
         /\ \A type \in {"initialized", "initError", "malformed"} :
              ToHost(type, 0, <<0, 0>>, 0) \in AgentMessages
BY TypeFacts DEF ToAgent, ToHost, HostMessages, AgentMessages

\* What the fields of a message are.
LEMMA FieldFacts ==
  /\ \A type, r : /\ ToAgent(type, r).type = type /\ ToAgent(type, r).id = r
                  /\ ToAgent(type, r).sess = host.sess
  /\ \A type, r, tag, n : /\ ToHost(type, r, tag, n).type = type
                          /\ ToHost(type, r, tag, n).id = r
                          /\ ToHost(type, r, tag, n).tag = tag
                          /\ ToHost(type, r, tag, n).sent = n
BY DEF ToAgent, ToHost

LEMMA OutcomeFacts ==
  /\ NoOutcome \notin Outcomes /\ Failure \in Outcomes /\ Failure # NoOutcome
  /\ NoOutcome.type = "none" /\ Failure.type = "error"
  /\ Idle \in Request /\ Idle.terminal = NoOutcome /\ Idle.pc = "idle"
  /\ Idle.queued = 0 /\ Idle.seen = 0
BY DEF NoOutcome, Failure, Outcomes, Idle, Request

\* A message of the host is on its way.
LEMMA PostType ==
  ASSUME WireOK, NEW msg \in HostMessages, Post(msg)
  PROVE  posts' \subseteq HostMessages /\ inbox' \in Seq(HostMessages)
BY AppendFact DEF WireOK, Post

\* Messages of the agent are on their way, or lost.
LEMMA DownType ==
  ASSUME WireOK, NEW msg \in AgentMessages, NEW n \in Nat,
         down' = Down([i \in 1 .. n |-> msg])
  PROVE  down' \in Seq(AgentMessages)
<1>1. CASE Reaches
  BY <1>1, RepeatFact DEF WireOK, Down
<1>2. CASE ~Reaches
  BY <1>2 DEF WireOK, Down
<1> QED BY <1>1, <1>2

LEMMA OneMessage ==
  ASSUME NEW msg
  PROVE  <<msg>> = [i \in 1 .. 1 |-> msg]
OBVIOUS

LEMMA AgentFails ==
  ASSUME AgentOK, WireOK, UNCHANGED host, ServerFails \/ Stopped
  PROVE  AgentOK' /\ link' \in {"open", "closed"} /\ down' = down
<1>1. << >> \in Entries
  <2>1. << >> \in [{} -> Tags] OBVIOUS
  <2> QED BY <2>1 DEF Entries
<1> HIDE DEF Entries
<1> QED BY <1>1 DEF AgentOK, WireOK, ServerFails, Stopped

LEMMA ReplyType ==
  ASSUME AgentOK, WireOK, UNCHANGED host, NEW msg \in AgentMessages, NEW next, Reply(msg, next),
         next \in [loop : {"running", "stopped", "failed"}, conn : 0 .. host.sess,
                   inflight : Entries, handlers : SUBSET Handlers,
                   stale : SUBSET (1 .. host.sess)]
  PROVE  AgentOK' /\ link' \in {"open", "closed"} /\ down' \in Seq(AgentMessages)
<1>1. CASE CanSend
  <2>1. down' = Down([i \in 1 .. 1 |-> msg]) /\ agent' = next /\ link' = link
    BY <1>1, OneMessage DEF Reply
  <2> QED BY <2>1, DownType DEF AgentOK, WireOK
<1>2. CASE ~CanSend
  BY <1>2, AgentFails DEF Reply, WireOK
<1> QED BY <1>1, <1>2

\* The table of the handlers that run.
LEMMA EntryFacts ==
  ASSUME NEW f \in Entries, NEW r \in Ids
  PROVE  /\ Without(f, r) \in Entries /\ DOMAIN Without(f, r) = DOMAIN f \ {r}
         /\ \A i \in DOMAIN f \ {r} : Without(f, r)[i] = f[i]
         /\ \A tag \in Tags : /\ With(f, r, tag) \in Entries
                              /\ DOMAIN With(f, r, tag) = DOMAIN f \union {r}
                              /\ With(f, r, tag)[r] = tag
                              /\ \A i \in DOMAIN f \ {r} : With(f, r, tag)[i] = f[i]
         /\ DOMAIN f \subseteq Ids
<1>1. PICK D \in SUBSET Ids : f \in [D -> Tags] BY DEF Entries
<1>2. Without(f, r) \in [D \ {r} -> Tags] BY <1>1 DEF Without
<1>3. ASSUME NEW tag \in Tags PROVE With(f, r, tag) \in [D \union {r} -> Tags]
  BY <1>1 DEF With
<1>4. /\ Without(f, r) \in Entries /\ DOMAIN Without(f, r) = DOMAIN f \ {r}
      /\ \A i \in DOMAIN f \ {r} : Without(f, r)[i] = f[i]
  <2>1. D \ {r} \in SUBSET Ids OBVIOUS
  <2> QED BY <1>1, <1>2, <2>1 DEF Entries, Without
<1>5. ASSUME NEW tag \in Tags
      PROVE  /\ With(f, r, tag) \in Entries /\ DOMAIN With(f, r, tag) = DOMAIN f \union {r}
             /\ With(f, r, tag)[r] = tag
             /\ \A i \in DOMAIN f \ {r} : With(f, r, tag)[i] = f[i]
  <2>1. D \union {r} \in SUBSET Ids OBVIOUS
  <2> QED BY <1>1, <1>3, <2>1 DEF Entries, With
<1> QED BY <1>1, <1>4, <1>5

LEMMA EntryAdded ==
  ASSUME NEW f \in Entries, NEW r \in Ids, NEW tag \in Tags
  PROVE  /\ DOMAIN With(f, r, tag) = DOMAIN f \union {r}
         /\ With(f, r, tag)[r] = tag
         /\ \A i \in DOMAIN f \ {r} : With(f, r, tag)[i] = f[i]
BY DEF With

LEMMA TypeInit == Init => TypeOK
<1> SUFFICES ASSUME Init PROVE TypeOK
  OBVIOUS
<1>1. HostOK
  BY SessionBounds DEF Init, HostOK, FreshHost
<1>2. CallersOK BY OutcomeFacts DEF Init, CallersOK
<1>3. WireOK
  <2>1. ToAgent("initialize", 0) \in HostMessages BY <1>1, TypeFacts, MessageFacts
  <2> QED BY <2>1 DEF Init, WireOK
<1>4. AgentOK
  <2>1. << >> \in Entries
    <3>1. << >> \in [{} -> Tags] OBVIOUS
    <3> QED BY <3>1 DEF Entries
  <2> HIDE DEF Entries
  <2> QED BY <1>1, <2>1 DEF Init, AgentOK, FreshAgent, FreshHost
<1> QED BY <1>1, <1>2, <1>3, <1>4, TypeParts

LEMMA RejectType ==
  ASSUME HostOK, CallersOK, RejectAll, host'.next = host.next
  PROVE  CallersOK'
<1>1. ASSUME NEW r \in Ids
      PROVE  /\ req'[r] = IF r \in pending THEN [req[r] EXCEPT !.terminal = Failure] ELSE req[r]
             /\ req'[r] \in Request /\ (r >= host.next => r \notin pending)
  BY OutcomeFacts DEF RejectAll, CallersOK, Request, Open
<1> QED BY <1>1 DEF RejectAll, CallersOK

\* One request more.
LEMMA ExecuteHost ==
  ASSUME HostOK, host.phase = "open", host.made < MaxRequests[kind],
         host' = [host EXCEPT !.next = @ + 1, !.made = @ + 1], UNCHANGED <<kind, faults>>
  PROVE  HostOK'
<1>1. /\ MaxRequests[kind] \in Nat /\ kind \in Kinds /\ faults \in 0 .. MaxFaults
      /\ host \in [sess : 1 .. MaxSessions[kind],
                   phase : {"connecting", "open", "failed", "closed"},
                   receiver : {"init", "loop", "ended"}, next : 0 .. MaxRequests[kind],
                   made : 0 .. MaxRequests[kind]]
      /\ host.next <= host.made /\ host.receiver # "init"
  BY TypeFacts DEF HostOK
<1>2. host' = [sess |-> host.sess, phase |-> host.phase, receiver |-> host.receiver,
               next |-> host.next + 1, made |-> host.made + 1]
  BY <1>1
<1>3. host.next + 1 \in 0 .. MaxRequests[kind] BY <1>1
<1>4. host.made + 1 \in 0 .. MaxRequests[kind] BY <1>1
<1> QED BY <1>1, <1>2, <1>3, <1>4 DEF HostOK

\* The session ends, or fails to open.
LEMMA EndHost ==
  ASSUME HostOK, NEW phase \in {"failed", "closed"},
         host' = [host EXCEPT !.phase = phase, !.receiver = "ended"],
         kind' = kind, faults' \in 0 .. MaxFaults
  PROVE  HostOK' /\ host'.sess = host.sess /\ host'.next = host.next
<1>1. host' = [sess |-> host.sess, phase |-> phase, receiver |-> "ended",
               next |-> host.next, made |-> host.made]
  BY DEF HostOK
<1> QED BY <1>1 DEF HostOK

\* The connection is given up, or a new one begins.
LEMMA FreshWire ==
  ASSUME WireOK, link' \in {"open", "closed"}, down' = <<>>,
         \/ UNCHANGED <<posts, inbox>>
         \/ UNCHANGED posts /\ inbox' = <<>>
         \/ \E hello \in HostMessages :
              \/ posts' = posts \union {hello} /\ UNCHANGED inbox
              \/ inbox' = <<hello>> /\ UNCHANGED posts
  PROVE  WireOK'
<1> HIDE DEF HostMessages, AgentMessages
<1>1. posts' \subseteq HostMessages BY DEF WireOK
<1>2. inbox' \in Seq(HostMessages)
  <2>1. ASSUME NEW hello \in HostMessages PROVE <<hello>> \in Seq(HostMessages)
    OBVIOUS
  <2>2. <<>> \in Seq(HostMessages) OBVIOUS
  <2> QED BY <2>1, <2>2 DEF WireOK
<1>3. down' \in Seq(AgentMessages) OBVIOUS
<1> QED BY <1>1, <1>2, <1>3 DEF WireOK

LEMMA ReportBounds ==
  ASSUME HostOK
  PROVE  /\ Largest(MaxProgress) \in Nat /\ MaxProgress[kind] \in Nat
         /\ MaxProgress[kind] <= Largest(MaxProgress) /\ 0 \in 0 .. Largest(MaxProgress)
<1>1. kind \in Kinds /\ MaxProgress \in [Kinds -> Nat] BY SessionBounds DEF HostOK
<1> QED BY <1>1, LargestFact

LEMMA TypeStep == TypeOK /\ [Next]_vars => TypeOK'
<1> SUFFICES ASSUME TypeOK, [Next]_vars PROVE TypeOK'
  OBVIOUS
<1>0. HostOK /\ CallersOK /\ WireOK /\ AgentOK BY TypeParts
<1>a. /\ MaxRequests[kind] \in Nat /\ MaxSessions[kind] \in Nat /\ MaxFaults \in Nat
      /\ 0 \in Ids /\ Ids \subseteq Nat
      /\ host.sess \in 1 .. Largest(MaxSessions) /\ Largest(MaxSessions) \in Nat
      /\ MaxSessions[kind] <= Largest(MaxSessions)
  BY <1>0, TypeFacts, SessionBounds
<1>c. /\ Largest(MaxProgress) \in Nat /\ MaxProgress[kind] \in Nat
      /\ MaxProgress[kind] <= Largest(MaxProgress) /\ 0 \in 0 .. Largest(MaxProgress)
  BY <1>0, ReportBounds
<1>b. /\ \A type \in {"initialize", "execute", "badMiddleware", "cancel", "shutdown"}, r \in Ids :
           ToAgent(type, r) \in HostMessages
      /\ \A type \in {"result", "refused", "progress"}, r \in Ids, tag \in Tags,
           n \in 0 .. Largest(MaxProgress) : ToHost(type, r, tag, n) \in AgentMessages
      /\ \A type \in {"initialized", "initError", "malformed"} :
           ToHost(type, 0, <<0, 0>>, 0) \in AgentMessages
  BY <1>0, MessageFacts
<1> USE <1>a, OutcomeFacts
<1>1. ASSUME NEW r \in Ids, Execute(r) PROVE TypeOK'
  <2>0. /\ host.phase = "open" /\ host.made < MaxRequests[kind]
        /\ host' = [host EXCEPT !.next = @ + 1, !.made = @ + 1] /\ UNCHANGED <<kind, faults>>
    BY <1>1 DEF Execute
  <2>1. HostOK' BY <1>0, <2>0, ExecuteHost
  <2>2. /\ r = host.next /\ host'.next = host.next + 1 /\ pending' = pending \union {r}
        /\ \E pc \in {"sending", "waiting"} : req' = [req EXCEPT ![r].pc = pc]
    BY <1>0, <1>1 DEF Execute, HostOK
  <2>3. CallersOK'
    BY <1>0, <2>2 DEF CallersOK, Request, Open
  <2>4. WireOK' BY <1>0, <1>b, <1>1, PostType DEF Execute, WireOK
  <2>5. AgentOK' BY <1>0, <1>1, <2>2 DEF Execute, AgentOK, HostOK
  <2> QED BY <2>1, <2>3, <2>4, <2>5, TypeParts
<1>2. ASSUME NEW r \in Ids, Settle(r) \/ TakeProgress(r) PROVE TypeOK'
  <2>1. CallersOK' BY <1>0, <1>2 DEF Settle, TakeProgress, CallersOK, Request, Open
  <2> QED BY <1>0, <1>2, <2>1, TypeParts
    DEF Settle, TakeProgress, HostOK, WireOK, AgentOK, Entries
<1>3. ASSUME NEW r \in Ids, Halt(r) PROVE TypeOK'
  <2>1. CallersOK' BY <1>0, <1>3 DEF Halt, Cleanup, CallersOK, Request, Open
  <2>2. WireOK' BY <1>0, <1>b, <1>3, PostType DEF Halt, Cleanup, WireOK
  <2> QED BY <1>0, <1>3, <2>1, <2>2, TypeParts DEF Halt, HostOK, AgentOK, Entries
<1>4. ASSUME NEW r \in Ids, HaltPost(r) PROVE TypeOK'
  <2>1. CallersOK' BY <1>0, <1>4 DEF HaltPost, CallersOK, Request, Open
  <2>2. WireOK' BY <1>0, <1>b, <1>4 DEF HaltPost, WireOK
  <2> QED BY <1>0, <1>4, <2>1, <2>2, TypeParts DEF HaltPost, HostOK, AgentOK, Entries
<1>5. CASE Receive
  <2>1. /\ down # <<>> /\ down' = Tail(down) /\ host.receiver # "ended"
        /\ UNCHANGED <<kind, posts, inbox, link, agent, faults>>
    BY <1>5 DEF Receive
  <2>2. WireOK' /\ Head(down) \in AgentMessages BY <1>0, <1>b, <2>1, TailFact DEF WireOK
  <2>3. HostOK' /\ CallersOK' /\ host'.sess = host.sess
    <3>1. CASE Initialized(Head(down))
      BY <1>0, <1>5, <3>1 DEF Receive, Initialized, HostOK, CallersOK
    <3>2. CASE Head(down).type = "malformed" /\ Routed(Head(down))
      <4>1. host' = [host EXCEPT !.receiver = "ended"] /\ RejectAll BY <3>2 DEF Routed
      <4> QED BY <1>0, <2>1, <4>1, RejectType DEF HostOK
    <3>3. CASE Head(down).type # "malformed" /\ Routed(Head(down))
      <4>1. CASE /\ Head(down).type \in {"result", "refused"} /\ Head(down).id \in pending
                 /\ Answered(Head(down).id, [type |-> Head(down).type, tag |-> Head(down).tag,
                                             sent |-> Head(down).sent])
        <5>1. Head(down).tag \in Tags /\ Head(down).sent \in 0 .. Largest(MaxProgress)
          BY <2>2, <4>1 DEF AgentMessages
        <5>2. [type |-> Head(down).type, tag |-> Head(down).tag, sent |-> Head(down).sent]
                \in Outcomes
          BY <4>1, <5>1 DEF Outcomes
        <5>3. CallersOK' BY <1>0, <2>1, <3>3, <4>1, <5>2, ZenonT(40)
          DEF Routed, Answered, CallersOK, Request, Open
        <5> QED BY <1>0, <2>1, <3>3, <5>3 DEF Routed, HostOK
      <4>2. CASE /\ Head(down).type = "progress" /\ Head(down).id \in pending
                 /\ req' = [req EXCEPT ![Head(down).id].queued = @ + 1] /\ UNCHANGED pending
        <5>1. CallersOK' BY <1>0, <3>3, <4>2 DEF Routed, CallersOK, Request, Open
        <5> QED BY <1>0, <2>1, <3>3, <5>1 DEF Routed, HostOK
      <4>3. CASE UNCHANGED <<req, pending>>
        BY <1>0, <2>1, <3>3, <4>3 DEF Routed, HostOK, CallersOK
      <4> QED BY <3>3, <4>1, <4>2, <4>3 DEF Routed
    <3> QED BY <1>5, <3>1, <3>2, <3>3 DEF Receive
  <2> QED BY <1>0, <2>1, <2>2, <2>3, TypeParts DEF AgentOK, Entries
<1>6. CASE ReceiveEnd
  <2>1. HostOK' /\ host'.sess = host.sess /\ host'.next = host.next
    BY <1>0, <1>6 DEF ReceiveEnd, HostOK
  <2>2. CallersOK'
    <3>1. CASE RejectAll BY <1>0, <2>1, <3>1, RejectType
    <3>2. CASE UNCHANGED <<req, pending>> BY <1>0, <2>1, <3>2 DEF CallersOK
    <3> QED BY <1>6, <3>1, <3>2 DEF ReceiveEnd
  <2> QED BY <1>0, <1>6, <2>1, <2>2, TypeParts DEF ReceiveEnd, WireOK, AgentOK, Entries
<1>7. ASSUME NEW msg \in posts, PostArrives(msg) PROVE TypeOK'
  <2>1. msg \in HostMessages BY <1>0 DEF WireOK
  <2>2. WireOK' BY <1>0, <1>7, <2>1, AppendFact DEF PostArrives, WireOK
  <2>3. CallersOK'
    <3>1. msg.id \in Ids BY <2>1 DEF HostMessages
    <3>2. UNCHANGED <<host, pending>> BY <1>7 DEF PostArrives
    <3>3. CASE Sent(msg)
      <4>1. req[msg.id].pc = "sending" /\ req' = [req EXCEPT ![msg.id].pc = "waiting"]
        BY <1>7, <3>3 DEF PostArrives, Sent
      <4> QED BY <1>0, <3>1, <3>2, <4>1 DEF CallersOK, Request, Open
    <3>4. CASE ~ Sent(msg)
      BY <1>0, <1>7, <3>2, <3>4 DEF PostArrives, CallersOK
    <3> QED BY <3>3, <3>4
  <2> QED BY <1>0, <1>7, <2>2, <2>3, TypeParts DEF PostArrives, HostOK, AgentOK, Entries
<1>8. ASSUME NEW msg \in posts, PostFails(msg) PROVE TypeOK'
  <2>1. msg \in HostMessages /\ msg.id \in Ids BY <1>0 DEF WireOK, HostMessages
  <2>2. inbox' \in Seq(HostMessages)
    BY <1>0, <1>8, <2>1, AppendFact DEF PostFails, WireOK
  <2>3. posts' \subseteq HostMessages
    BY <1>0, <1>b, <1>8, <2>1 DEF PostFails, WireOK
  <2>4. HostOK' /\ host'.sess = host.sess /\ host'.next = host.next
    <3>1. /\ faults < MaxFaults /\ faults' = faults + 1 /\ UNCHANGED kind
          /\ \/ host' = host
             \/ /\ host' = [host EXCEPT !.phase = "failed", !.receiver = "ended"]
      BY <1>8 DEF PostFails
    <3>2. faults' \in 0 .. MaxFaults BY <1>0, <3>1 DEF HostOK
    <3>3. CASE host' = host BY <1>0, <3>1, <3>2, <3>3 DEF HostOK
    <3> QED BY <1>0, <3>1, <3>2, <3>3, EndHost
  <2>5. CallersOK'
    <3>1. CASE Sent(msg)
      <4>1. req[msg.id].pc = "sending" BY <3>1 DEF Sent
      <4> DEFINE o == IF req[msg.id].terminal = NoOutcome THEN Failure
                      ELSE req[msg.id].terminal
      <4>2. /\ pending' = pending \ {msg.id}
            /\ req' = [req EXCEPT ![msg.id].pc = "settled", ![msg.id].terminal = o]
        BY <1>8, <3>1 DEF PostFails
      <4>3. o \in Outcomes \union {NoOutcome} BY <1>0, <2>1 DEF CallersOK, Request
      <4> HIDE DEF o
      <4> QED BY <1>0, <2>1, <2>4, <4>1, <4>2, <4>3 DEF CallersOK, Request, Open
    <3>2. CASE ~Sent(msg)
      BY <1>0, <1>8, <2>4, <3>2 DEF PostFails, CallersOK
    <3> QED BY <3>1, <3>2
  <2> QED BY <1>0, <1>8, <2>2, <2>3, <2>4, <2>5, TypeParts
    DEF PostFails, WireOK, AgentOK, Entries
<1>9. CASE CloseSession
  <2>1. HostOK' /\ host'.sess = host.sess /\ host'.next = host.next
    BY <1>0, <1>9 DEF CloseSession, HostOK
  <2>2. WireOK' BY <1>0, <1>b, <1>9, PostType DEF CloseSession, WireOK
  <2> QED BY <1>0, <1>9, <2>1, <2>2, TypeParts DEF CloseSession, CallersOK, AgentOK, Entries
<1>10. ASSUME Disconnected, UNCHANGED posts, host'.sess = host.sess PROVE WireOK' /\ AgentOK'
  <2>1. WireOK'
    <3>1. link' = "closed" /\ down' = <<>> /\ (inbox' = inbox \/ inbox' = <<>>)
      BY <1>10 DEF Disconnected
    <3> QED BY <1>0, <1>10, <3>1, FreshWire
  <2>2. << >> \in Entries
    <3>1. << >> \in [{} -> Tags] OBVIOUS
    <3> QED BY <3>1 DEF Entries
  <2> HIDE DEF Entries
  <2>3. AgentOK'
    BY <1>0, <1>10, <2>2 DEF Disconnected, FreshAgent, AgentOK, HostOK
  <2> QED BY <2>1, <2>3
<1>11. CASE Disconnect
  <2>1. WireOK' /\ AgentOK' BY <1>10, <1>11 DEF Disconnect
  <2> QED BY <1>0, <1>11, <2>1, TypeParts DEF Disconnect, HostOK, CallersOK
<1>12. CASE HostDies
  <2>0. /\ host' = [host EXCEPT !.phase = "closed", !.receiver = "ended"]
        /\ faults < MaxFaults /\ faults' = faults + 1 /\ UNCHANGED kind
    BY <1>12 DEF HostDies
  <2>1. HostOK' /\ host'.sess = host.sess
    <3>1. faults' \in 0 .. MaxFaults BY <1>0, <2>0 DEF HostOK
    <3> QED BY <1>0, <2>0, <3>1, EndHost
  <2>2. CallersOK' BY <1>12 DEF HostDies, CallersOK
  <2>3. WireOK' /\ AgentOK'
    <3>1. CASE Disconnected BY <1>10, <1>12, <2>1, <3>1 DEF HostDies
    <3>2. CASE UNCHANGED <<link, down, agent, inbox>>
      BY <1>0, <1>12, <2>1, <3>2 DEF HostDies, WireOK, AgentOK, Entries
    <3> QED BY <1>12, <3>1, <3>2 DEF HostDies
  <2> QED BY <2>1, <2>2, <2>3, TypeParts
<1>13. CASE Connect
  <2> DEFINE n == host.sess + 1
             hello == [type |-> "initialize", id |-> 0, sess |-> n]
  <2>1. HostOK' /\ host'.sess = n
    BY <1>0, <1>13 DEF Connect, FreshHost, HostOK
  <2>2. CallersOK' BY <1>13 DEF Connect, CallersOK
  <2>3. hello \in HostMessages
    BY <1>0, <1>13 DEF Connect, HostMessages, HostOK
  <2> HIDE DEF hello
  <2>4. WireOK'
    <3>1. /\ down' = <<>> /\ link' = "open"
          /\ \/ posts' = posts \union {hello} /\ inbox' = inbox
             \/ posts' = posts /\ inbox' = <<hello>>
      BY <1>13 DEF Connect, hello
    <3> QED BY <1>0, <2>3, <3>1, FreshWire
  <2>5. << >> \in Entries
    <3>1. << >> \in [{} -> Tags] OBVIOUS
    <3> QED BY <3>1 DEF Entries
  <2> HIDE DEF Entries
  <2>6. AgentOK'
    <3>1. \/ agent' = [agent EXCEPT !.conn = host.sess + 1]
          \/ agent' = FreshAgent
      BY <1>13 DEF Connect
    <3>2. host.sess \in Nat /\ host.sess >= 1 BY <1>0 DEF HostOK
    <3>3. 0 .. host.sess \subseteq 0 .. n /\ SUBSET (1 .. host.sess) \subseteq SUBSET (1 .. n)
          /\ n \in 0 .. n /\ 1 \in 0 .. n
      BY <3>2
    <3> QED BY <1>0, <2>1, <2>5, <3>1, <3>3 DEF FreshAgent, AgentOK
  <2> QED BY <2>1, <2>2, <2>4, <2>6, TypeParts
<1>14. CASE Serve
  <2> DEFINE msg == Head(inbox)
  <2>1. /\ inbox # <<>> /\ inbox' = Tail(inbox)
        /\ UNCHANGED <<kind, host, req, pending, posts, faults>>
        /\ \/ ServeInitialize(msg) \/ ServeBadMiddleware(msg) \/ ServeExecute(msg)
           \/ ServeCancel(msg) \/ ServeShutdown(msg)
    BY <1>14 DEF Serve
  <2>2. inbox' \in Seq(HostMessages) /\ msg \in HostMessages
    BY <1>0, <2>1, TailFact DEF WireOK
  <2> HIDE DEF msg
  <2>3. msg.id \in Ids /\ <<msg.sess, msg.id>> \in Tags
    BY <2>2 DEF HostMessages, Tags
  <2>4. 0 \in 0 .. Largest(MaxProgress) BY <1>c
  <2> HIDE DEF Entries
  <2>5. agent.inflight \in Entries BY <1>0 DEF AgentOK
  <2>6. AgentOK' /\ link' \in {"open", "closed"} /\ down' \in Seq(AgentMessages)
    <3>1. CASE ServeInitialize(msg)
      <4>1. PICK type \in {"initialized", "initError"} :
              Reply(ToHost(type, 0, <<0, 0>>, 0), agent)
        BY <3>1 DEF ServeInitialize
      <4> QED BY <1>0, <1>b, <2>1, <4>1, ReplyType DEF AgentOK
    <3>2. CASE ServeBadMiddleware(msg)
      BY <1>0, <1>b, <2>1, <2>3, <2>4, <3>2, ReplyType DEF ServeBadMiddleware, AgentOK
    <3>3. CASE ServeExecute(msg)
      <4> DEFINE tag == <<msg.sess, msg.id>>
                 noted == With(agent.inflight, msg.id, tag)
                 h == [id |-> msg.id, tag |-> tag, sent |-> 0]
      <4>1. noted \in Entries BY <2>3, <2>5, EntryFacts
      <4>2. h \in Handlers BY <2>3, <2>4 DEF Handlers
      <4>3. \/ /\ agent' = [agent EXCEPT !.inflight = noted, !.handlers = @ \union {h}]
               /\ UNCHANGED <<down, link>>
            \/ Reply(ToHost("result", msg.id, tag, 0), [agent EXCEPT !.inflight = noted])
        BY <3>3 DEF ServeExecute
      <4>4. ToHost("result", msg.id, tag, 0) \in AgentMessages BY <1>0, <1>b, <2>3, <2>4
      <4> HIDE DEF noted, h, tag
      <4>5. CASE /\ agent' = [agent EXCEPT !.inflight = noted, !.handlers = @ \union {h}]
                 /\ UNCHANGED <<down, link>>
        BY <1>0, <2>1, <4>1, <4>2, <4>5 DEF AgentOK, WireOK
      <4>6. CASE Reply(ToHost("result", msg.id, tag, 0), [agent EXCEPT !.inflight = noted])
        BY <1>0, <2>1, <4>1, <4>4, <4>6, ReplyType DEF AgentOK
      <4> QED BY <4>3, <4>5, <4>6
    <3>4. CASE ServeCancel(msg)
      <4>1. Without(agent.inflight, msg.id) \in Entries BY <2>3, <2>5, EntryFacts
      <4> QED BY <1>0, <2>1, <3>4, <4>1 DEF ServeCancel, AgentOK, WireOK
    <3>5. CASE ServeShutdown(msg)
      BY <1>0, <2>1, <3>5, AgentFails DEF ServeShutdown, WireOK
    <3> QED BY <2>1, <3>1, <3>2, <3>3, <3>4, <3>5
  <2>7. WireOK' BY <1>0, <2>1, <2>2, <2>6 DEF WireOK
  <2> QED BY <1>0, <2>1, <2>6, <2>7, TypeParts DEF HostOK, CallersOK
<1>15. CASE ServeEnd
  <2>1. AgentOK' /\ WireOK' BY <1>0, <1>15, AgentFails DEF ServeEnd, WireOK
  <2> QED BY <1>0, <1>15, <2>1, TypeParts DEF ServeEnd, HostOK, CallersOK
<1>16. ASSUME NEW h \in agent.handlers, HandlerEnds(h) \/ HandlerReports(h) PROVE TypeOK'
  <2> HIDE DEF Entries
  <2>1. /\ h.id \in Ids /\ h.tag \in Tags /\ h.sent \in 0 .. Largest(MaxProgress)
        /\ agent.inflight \in Entries /\ h \in Handlers
    BY <1>0 DEF AgentOK, Handlers
  <2>2. UNCHANGED <<kind, host, req, pending, posts, inbox>>
    BY <1>16 DEF HandlerEnds, HandlerReports
  <2>3. faults' \in 0 .. MaxFaults
    BY <1>0, <1>16, SessionBounds DEF HandlerEnds, HandlerReports, HostOK
  <2>4. AgentOK' /\ link' \in {"open", "closed"} /\ down' \in Seq(AgentMessages)
    <3>1. CASE CanSend /\ HandlerEnds(h)
      <4>1. PICK n \in {1, 2} :
              /\ down' = Down([i \in 1 .. n |-> ToHost("result", h.id, h.tag, h.sent)])
              /\ agent' = [agent EXCEPT !.inflight = Without(@, h.id), !.handlers = @ \ {h}]
              /\ UNCHANGED link
        BY <3>1 DEF HandlerEnds
      <4>2. ToHost("result", h.id, h.tag, h.sent) \in AgentMessages BY <1>0, <1>b, <2>1
      <4>3. down' \in Seq(AgentMessages) BY <1>0, <4>1, <4>2, DownType
      <4>4. Without(agent.inflight, h.id) \in Entries BY <2>1, EntryFacts
      <4> QED BY <1>0, <2>2, <4>1, <4>3, <4>4 DEF AgentOK, WireOK
    <3>2. CASE ~CanSend /\ HandlerEnds(h)
      <4>1. ServerFails BY <3>2 DEF HandlerEnds
      <4> QED BY <1>0, <2>2, <4>1, AgentFails DEF WireOK
    <3>3. CASE HandlerReports(h)
      <4> DEFINE more == [h EXCEPT !.sent = @ + 1]
      <4>1. more \in Handlers /\ h.sent + 1 \in 0 .. Largest(MaxProgress)
        BY <1>c, <2>1, <3>3 DEF HandlerReports, Handlers
      <4>2. ToHost("progress", h.id, h.tag, h.sent + 1) \in AgentMessages BY <1>0, <1>b, <2>1, <4>1
      <4>3. /\ down' = Down(<<ToHost("progress", h.id, h.tag, h.sent + 1)>>)
            /\ agent' = [agent EXCEPT !.handlers = (@ \ {h}) \union {more}]
            /\ UNCHANGED link
        BY <3>3 DEF HandlerReports
      <4>4. down' \in Seq(AgentMessages)
        BY <1>0, <4>2, <4>3, DownType, OneMessage
      <4> HIDE DEF more
      <4> QED BY <1>0, <2>2, <4>1, <4>3, <4>4 DEF AgentOK, WireOK
    <3> QED BY <1>16, <3>1, <3>2, <3>3
  <2>5. WireOK' BY <1>0, <2>2, <2>4 DEF WireOK
  <2> QED BY <1>0, <2>2, <2>3, <2>4, <2>5, TypeParts DEF HostOK, CallersOK
<1>17. ASSUME NEW n \in agent.stale, CloseEvent(n) PROVE TypeOK'
  <2> HIDE DEF Entries
  <2>1. AgentOK'
    <3>1. agent' = [agent EXCEPT !.stale = @ \ {n}, !.conn = 0] /\ UNCHANGED host
      BY <1>17 DEF CloseEvent
    <3>2. 0 \in 0 .. host.sess BY <1>0 DEF HostOK
    <3> QED BY <1>0, <3>1, <3>2 DEF AgentOK
  <2> QED BY <1>0, <1>17, <2>1, TypeParts DEF CloseEvent, HostOK, CallersOK, WireOK
<1>18. CASE LinkBreaks
  <2> HIDE DEF Entries
  <2>1. AgentOK'
    <3>1. /\ UNCHANGED host
          /\ \/ agent' = [agent EXCEPT !.stale = @ \union {host.sess}]
             \/ agent' = [agent EXCEPT !.stale = @]
      BY <1>18 DEF LinkBreaks
    <3>2. host.sess \in 1 .. host.sess BY <1>0 DEF HostOK
    <3> QED BY <1>0, <3>1, <3>2 DEF AgentOK
  <2>2. WireOK' BY <1>0, <1>18, PrefixFact DEF LinkBreaks, WireOK
  <2>3. HostOK' /\ CallersOK'
    BY <1>0, <1>18, SessionBounds DEF LinkBreaks, HostOK, CallersOK
  <2> QED BY <2>1, <2>2, <2>3, TypeParts
<1>19. CASE AgentGarbles
  <2>1. WireOK' BY <1>0, <1>b, <1>19, AppendFact DEF AgentGarbles, WireOK
  <2>2. HostOK' /\ CallersOK' /\ AgentOK'
    BY <1>0, <1>19, SessionBounds DEF AgentGarbles, HostOK, CallersOK, AgentOK, Entries
  <2> QED BY <2>1, <2>2, TypeParts
<1>20. CASE UNCHANGED vars
  BY <1>0, <1>20, TypeParts DEF vars, HostOK, CallersOK, WireOK, AgentOK, Entries
<1> QED
  BY <1>1, <1>2, <1>3, <1>4, <1>5, <1>6, <1>7, <1>8, <1>9, <1>11, <1>12, <1>13, <1>14,
     <1>15, <1>16, <1>17, <1>18, <1>19, <1>20
  DEF Next

\* The state of the session, the messages and the agent stay within their
\* types, for every number of sessions, requests, faults and reports.
THEOREM TypeCorrect == Spec => []TypeOK
<1>1. Init => TypeOK BY TypeInit
<1>2. TypeOK /\ [Next]_vars => TypeOK' BY TypeStep
<1> QED BY <1>1, <1>2, PTL DEF Spec

-----------------------------------------------------------------------------
(* Refinement: the life of requests *)

\* Where a request is in its life.
StateOf(pc) ==
  CASE pc = "idle" -> "unopened" [] pc \in Open -> "open" [] OTHER -> pc

LEMMA StateFacts ==
  /\ StateOf("idle") = "unopened" /\ StateOf("sending") = "open"
  /\ StateOf("waiting") = "open" /\ StateOf("settled") = "settled"
  /\ StateOf("halted") = "halted"
BY DEF StateOf, Open

LEMMA CallFacts ==
  /\ Calls = [r \in Ids |-> [state |-> StateOf(req[r].pc), outcome |-> req[r].terminal]]
  /\ Calls' = [r \in Ids |-> [state |-> StateOf(req'[r].pc), outcome |-> req'[r].terminal]]
BY DEF Calls, StateOf

\* Nothing a caller sees of its request changes.
LEMMA SameCalls ==
  ASSUME \A r \in Ids : StateOf(req'[r].pc) = StateOf(req[r].pc)
                        /\ req'[r].terminal = req[r].terminal
  PROVE  Calls' = Calls
BY CallFacts

\* One request moves.
LEMMA OneCall ==
  ASSUME NEW r \in Ids, NEW pc, NEW o,
         req'[r].pc = pc, req'[r].terminal = o,
         \A q \in Ids \ {r} : req'[q] = req[q]
  PROVE  /\ Calls' = [Calls EXCEPT ![r].state = StateOf(pc), ![r].outcome = o]
         /\ o = req[r].terminal => Calls' = [Calls EXCEPT ![r].state = StateOf(pc)]
<1> DEFINE moved == [q \in Ids |-> IF q = r THEN [state |-> StateOf(pc), outcome |-> o]
                                 ELSE Calls[q]]
<1>1. Calls' = moved
  <2>1. \A q \in Ids : [state |-> StateOf(req'[q].pc), outcome |-> req'[q].terminal] = moved[q]
    BY CallFacts
  <2> HIDE DEF moved
  <2>2. moved = [q \in Ids |-> moved[q]] BY DEF moved
  <2> QED BY <2>1, <2>2, CallFacts
<1>2. Calls[r] = [state |-> StateOf(req[r].pc), outcome |-> req[r].terminal] BY CallFacts
<1>3. DOMAIN Calls = Ids /\ Calls = [q \in Ids |-> Calls[q]] BY CallFacts
<1> HIDE DEF Calls
<1>4. moved = [Calls EXCEPT ![r].state = StateOf(pc), ![r].outcome = o]
  BY <1>2, <1>3
<1>5. ASSUME o = req[r].terminal PROVE moved = [Calls EXCEPT ![r].state = StateOf(pc)]
  BY <1>2, <1>3, <1>5
<1> QED BY <1>1, <1>4, <1>5

\* One request moves, and its outcome stays.
LEMMA OneState ==
  ASSUME NEW r \in Ids, NEW pc, req'[r].pc = pc, req'[r].terminal = req[r].terminal,
         \A q \in Ids \ {r} : req'[q] = req[q]
  PROVE  Calls' = [Calls EXCEPT ![r].state = StateOf(pc)]
<1> DEFINE o == req[r].terminal
<1>1. req'[r].terminal = o OBVIOUS
<1> HIDE DEF o, Calls
<1>2. o = req[r].terminal => Calls' = [Calls EXCEPT ![r].state = StateOf(pc)]
  BY <1>1, OneCall
<1> QED BY <1>2 DEF o

\* The host is started again.
LEMMA RestartedCalls ==
  ASSUME req' = [r \in Ids |-> Idle]
  PROVE  Life!Restart
BY OutcomeFacts, StateFacts, CallFacts DEF Life!Restart, Life!Unopened

\* All requests that wait have failed.
LEMMA RejectedCalls ==
  ASSUME CallersOK, RejectAll
  PROVE  Calls' = Calls \/ \E S \in (SUBSET Ids) \ {{}} : Life!Decide(S)
<1>1. pending \subseteq Ids /\ \A r \in pending : req[r].pc \in Open /\ req[r].terminal = NoOutcome
  BY DEF CallersOK
<1>2. ASSUME NEW r \in Ids \ pending PROVE req'[r] = req[r]
  BY DEF RejectAll
<1>3. ASSUME NEW r \in pending
      PROVE  req'[r].pc = req[r].pc /\ req'[r].terminal = Failure
  BY <1>1 DEF RejectAll, CallersOK, Request
<1>4. CASE pending = {} BY <1>2, <1>4, SameCalls
<1>5. CASE pending # {}
  <2>1. ASSUME NEW r \in pending
        PROVE  /\ Calls[r].state = "open" /\ Calls[r].outcome = NoOutcome
               /\ Calls'[r] = [Calls[r] EXCEPT !.outcome = Failure]
    <3>1. r \in Ids BY <1>1
    <3>2. StateOf(req[r].pc) = "open" /\ StateOf(req'[r].pc) = "open"
      BY <1>1, <1>3, StateFacts DEF Open
    <3>3. Calls[r] = [state |-> "open", outcome |-> NoOutcome]
      BY <1>1, <3>1, <3>2, CallFacts
    <3>4. Calls'[r] = [state |-> "open", outcome |-> Failure]
      BY <1>3, <3>1, <3>2, CallFacts
    <3> QED BY <3>3, <3>4
  <2>2. ASSUME NEW r \in Ids \ pending PROVE Calls'[r] = Calls[r]
    BY <1>2, CallFacts
  <2>3. \A r \in pending :
          Calls'[r].outcome = Failure /\ Calls'[r] = [Calls[r] EXCEPT !.outcome = Failure]
    <3> SUFFICES ASSUME NEW r \in pending
                 PROVE  Calls'[r].outcome = Failure
                        /\ Calls'[r] = [Calls[r] EXCEPT !.outcome = Failure]
      OBVIOUS
    <3>1. r \in Ids BY <1>1
    <3> QED BY <2>1, <3>1, <1>3, CallFacts
  <2> HIDE DEF Calls
  <2>4. Life!Decide(pending)
    BY <2>1, <2>2, <2>3, OutcomeFacts DEF Life!Decide
  <2> QED BY <1>1, <1>5, <2>4
<1> QED BY <1>4, <1>5

\* A request is answered.
LEMMA AnsweredCall ==
  ASSUME CallersOK, NEW r \in pending, NEW o \in Outcomes, Answered(r, o)
  PROVE  Life!Decide({r})
<1>1. r \in Ids /\ req[r].pc \in Open /\ req[r].terminal = NoOutcome /\ req \in [Ids -> Request]
  BY DEF CallersOK
<1>2. /\ req'[r].pc = req[r].pc /\ req'[r].terminal = o
      /\ \A q \in Ids \ {r} : req'[q] = req[q]
  BY <1>1 DEF Answered, Request
<1>3. /\ Calls[r].state = "open" /\ Calls[r].outcome = NoOutcome
      /\ Calls'[r] = [Calls[r] EXCEPT !.outcome = o]
  BY <1>1, <1>2, CallFacts, StateFacts DEF Open
<1>4. \A q \in Ids \ {r} : Calls'[q] = Calls[q] BY <1>2, CallFacts
<1>5. Calls'[r].outcome = o BY <1>1, <1>2, CallFacts
<1> HIDE DEF Calls
<1> QED BY <1>3, <1>4, <1>5 DEF Life!Decide

LEMMA LifeStep == TypeOK /\ [Next]_vars => [Life!Next]_Calls
<1> SUFFICES ASSUME TypeOK, [Next]_vars PROVE Life!Next \/ Calls' = Calls
  OBVIOUS
<1> USE OutcomeFacts, StateFacts
<1>0. /\ HostOK /\ CallersOK /\ WireOK /\ Ids \subseteq Nat /\ req \in [Ids -> Request]
      /\ \A r \in Ids : Calls[r].outcome = req[r].terminal
                        /\ Calls[r].state = StateOf(req[r].pc)
  BY TypeParts, TypeFacts, CallFacts DEF CallersOK
<1>1. ASSUME NEW r \in Ids, Execute(r) PROVE Life!Next
  <2>1. req[r] = Idle BY <1>0, <1>1 DEF Execute, CallersOK
  <2>2. PICK pc \in Open : req' = [req EXCEPT ![r].pc = pc] BY <1>1 DEF Execute, Open
  <2>3. /\ req'[r].pc = pc /\ req'[r].terminal = NoOutcome
        /\ \A q \in Ids \ {r} : req'[q] = req[q]
    BY <1>0, <2>1, <2>2 DEF Request
  <2>4. StateOf(pc) = "open" BY DEF Open
  <2>5. Calls' = [Calls EXCEPT ![r].state = "open"]
    <3>1. req'[r].terminal = req[r].terminal BY <2>1, <2>3
    <3>2. Calls' = [Calls EXCEPT ![r].state = StateOf(pc)] BY <2>3, <3>1, OneState
    <3> QED BY <2>4, <3>2
  <2>6. Life!Open(r) BY <1>0, <2>1, <2>5 DEF Life!Open
  <2> QED BY <2>6 DEF Life!Next
<1>2. ASSUME NEW r \in Ids, Settle(r) PROVE Life!Next
  <2>1. /\ req[r].pc = "waiting" /\ req[r].terminal # NoOutcome
        /\ req'[r].pc = "settled" /\ req'[r].terminal = req[r].terminal
        /\ \A q \in Ids \ {r} : req'[q] = req[q]
    BY <1>0, <1>2 DEF Settle, Request
  <2>2. Calls' = [Calls EXCEPT ![r].state = "settled"] BY <2>1, OneState
  <2>3. Life!Settle(r) BY <1>0, <2>1, <2>2 DEF Life!Settle
  <2> QED BY <2>3 DEF Life!Next
<1>3. ASSUME NEW r \in Ids, TakeProgress(r) PROVE Calls' = Calls
  BY <1>0, <1>3, SameCalls DEF TakeProgress, Request
<1>4. ASSUME NEW r \in Ids, Halt(r) \/ HaltPost(r) PROVE Life!Next
  <2>1. /\ req[r].pc \in Open
        /\ req'[r].pc = "halted" /\ req'[r].terminal = req[r].terminal
        /\ \A q \in Ids \ {r} : req'[q] = req[q]
    BY <1>0, <1>4 DEF Halt, HaltPost, Request, Open
  <2>2. StateOf(req[r].pc) = "open" BY <2>1 DEF Open
  <2>3. Calls' = [Calls EXCEPT ![r].state = "halted"] BY <2>1, OneState
  <2>4. Life!GiveUp(r) BY <1>0, <2>1, <2>2, <2>3 DEF Life!GiveUp
  <2> QED BY <2>4 DEF Life!Next
<1>5. CASE Receive
  <2>1. down # <<>> BY <1>5 DEF Receive
  <2>2. Head(down) \in AgentMessages BY <1>0, <2>1, TailFact DEF WireOK
  <2>3. CASE Initialized(Head(down)) BY <2>3, SameCalls DEF Initialized
  <2>4. CASE RejectAll BY <1>0, <2>4, RejectedCalls DEF Life!Next
  <2>5. CASE /\ Head(down).type \in {"result", "refused"} /\ Head(down).id \in pending
             /\ Answered(Head(down).id, [type |-> Head(down).type, tag |-> Head(down).tag,
                                         sent |-> Head(down).sent])
    <3>1. Head(down).tag \in Tags /\ Head(down).sent \in 0 .. Largest(MaxProgress)
      BY <2>2, <2>5 DEF AgentMessages
    <3>2. [type |-> Head(down).type, tag |-> Head(down).tag, sent |-> Head(down).sent]
            \in Outcomes
      BY <2>5, <3>1 DEF Outcomes
    <3>3. Life!Decide({Head(down).id}) BY <1>0, <2>5, <3>2, AnsweredCall
    <3>4. {Head(down).id} \in (SUBSET Ids) \ {{}} BY <1>0, <2>5 DEF CallersOK
    <3> QED BY <3>3, <3>4 DEF Life!Next
  <2>6. CASE /\ Head(down).id \in pending
             /\ req' = [req EXCEPT ![Head(down).id].queued = @ + 1]
    <3>1. Head(down).id \in Ids BY <1>0, <2>6 DEF CallersOK
    <3> QED BY <1>0, <2>6, <3>1, SameCalls DEF Request
  <2>7. CASE UNCHANGED <<req, pending>> BY <2>7, SameCalls
  <2> QED BY <1>5, <2>3, <2>4, <2>5, <2>6, <2>7 DEF Receive, Routed
<1>6. CASE ReceiveEnd
  BY <1>0, <1>6, RejectedCalls, SameCalls DEF ReceiveEnd, Life!Next
<1>7. ASSUME NEW msg \in posts, PostArrives(msg) PROVE Calls' = Calls
  <2>1. msg.id \in Ids BY <1>0 DEF WireOK, HostMessages
  <2> QED BY <1>0, <1>7, <2>1, SameCalls DEF PostArrives, Sent, Request
<1>8. ASSUME NEW msg \in posts, PostFails(msg) PROVE Life!Next \/ Calls' = Calls
  <2>1. msg.id \in Ids BY <1>0 DEF WireOK, HostMessages
  <2>2. CASE ~ Sent(msg) BY <1>8, <2>2, SameCalls DEF PostFails
  <2>3. CASE Sent(msg)
    <3> DEFINE r == msg.id
               o == IF req[r].terminal = NoOutcome THEN Failure ELSE req[r].terminal
    <3>1. req[r].pc = "sending" BY <2>3 DEF Sent
    <3>2. req' = [req EXCEPT ![r].pc = "settled", ![r].terminal = o]
      BY <1>8, <2>3 DEF PostFails
    <3> HIDE DEF o, r
    <3>3. /\ req'[r].pc = "settled" /\ req'[r].terminal = o
          /\ \A q \in Ids \ {r} : req'[q] = req[q]
      BY <1>0, <2>1, <3>2 DEF Request, r
    <3>4. CASE req[r].terminal = NoOutcome
      <4>1. o \in Outcomes BY <3>4 DEF o
      <4>2. Calls' = [Calls EXCEPT ![r].state = "settled", ![r].outcome = o]
        BY <2>1, <3>3, OneCall DEF r
      <4>3. Calls'[r].outcome = o BY <2>1, <3>3, CallFacts DEF r
      <4>4. Calls[r].state = "open" /\ Calls[r].outcome = NoOutcome
        BY <2>1, <3>1, <3>4, CallFacts, StateFacts DEF r
      <4> HIDE DEF Calls
      <4>5. Life!Refuse(r) BY <4>1, <4>2, <4>3, <4>4 DEF Life!Refuse
      <4>6. r \in Ids BY <2>1 DEF r
      <4> QED BY <4>5, <4>6 DEF Life!Next
    <3>5. CASE req[r].terminal # NoOutcome
      <4>1. o = req[r].terminal BY <3>5 DEF o
      <4>2. Calls' = [Calls EXCEPT ![r].state = "settled"]
        BY <2>1, <3>3, <4>1, OneState DEF r
      <4>3. Life!Settle(r) BY <1>0, <2>1, <3>1, <3>5, <4>2 DEF Life!Settle, r
      <4> QED BY <2>1, <4>3 DEF Life!Next, r
    <3> QED BY <3>4, <3>5
  <2> QED BY <2>2, <2>3
<1>9. CASE HostDies \/ Connect
  BY <1>9, RestartedCalls DEF HostDies, Connect, Life!Next
<1>10. CASE CloseSession \/ Disconnect \/ Serve \/ ServeEnd \/ LinkBreaks \/ AgentGarbles
  BY <1>10, SameCalls DEF CloseSession, Disconnect, Serve, ServeEnd, LinkBreaks, AgentGarbles
<1>11. ASSUME NEW h \in agent.handlers, HandlerEnds(h) \/ HandlerReports(h)
       PROVE  Calls' = Calls
  BY <1>11, SameCalls DEF HandlerEnds, HandlerReports
<1>12. ASSUME NEW n \in agent.stale, CloseEvent(n) PROVE Calls' = Calls
  BY <1>12, SameCalls DEF CloseEvent
<1>13. CASE UNCHANGED vars BY <1>13, SameCalls DEF vars
<1> QED BY <1>1, <1>2, <1>3, <1>4, <1>5, <1>6, <1>7, <1>8, <1>9, <1>10, <1>11, <1>12, <1>13
  DEF Next

\* The session implements the life of requests: whatever crosses, repeats, is
\* lost, or comes late, a request gets at most one outcome and ends once.
THEOREM LifecycleImplemented == Spec => ImplementsLifecycle
<1> SUFFICES Spec => Life!Spec
  BY DEF ImplementsLifecycle
<1>1. Init => Life!Init
  BY OutcomeFacts, StateFacts, CallFacts DEF Init, Life!Init, Life!Unopened
<1>2. TypeOK /\ [Next]_vars => [Life!Next]_Calls BY LifeStep
<1> QED BY <1>1, <1>2, TypeCorrect, PTL DEF Spec, Life!Spec

-----------------------------------------------------------------------------
(* What happens to the messages *)

\* The conjuncts of SessionInv, for an agent that serves one session.
Own == OwnAgent /\ HostOK /\ CallersOK /\ WireOK /\ AgentOK /\ Correlated /\ Once

\* Nothing is asked for twice, and what is asked for was asked before.
NoneAsked ==
  /\ \A r \in Ids : Asked(r)' => Asked(r)
  /\ AskedOnce'
  /\ \A msg \in posts' : msg.sess = host.sess
  /\ \A i \in 1 .. Len(inbox') : inbox'[i].sess = host.sess
  /\ Ordered => posts' = {}

LEMMA OwnTypes ==
  ASSUME Own
  PROVE  /\ posts \subseteq HostMessages /\ inbox \in Seq(HostMessages)
         /\ down \in Seq(AgentMessages) /\ Len(inbox) \in Nat /\ Len(down) \in Nat
         /\ \A i \in 1 .. Len(inbox) : inbox[i] \in HostMessages
         /\ \A i \in 1 .. Len(down) : down[i] \in AgentMessages
         /\ \A msg \in HostMessages : msg.id \in Ids
         /\ host.next \in Nat /\ host.sess \in Nat /\ host.sess >= 1 /\ Ids \subseteq Nat
         /\ \A h \in agent.handlers : h \in Handlers /\ h.id \in Ids /\ h.sent \in Nat
         /\ req \in [Ids -> Request] /\ pending \subseteq Ids
         /\ \A r \in Ids : Got(r) \in Nat
<1>1. /\ HostOK /\ WireOK /\ CallersOK /\ AgentOK BY DEF Own
<1>2. Largest(MaxProgress) \in Nat BY <1>1, ReportBounds
<1>3. /\ host.next \in Nat /\ host.sess \in Nat /\ host.sess >= 1 /\ Ids \subseteq Nat
  BY <1>1, TypeFacts DEF HostOK
<1>4. \A h \in agent.handlers : h \in Handlers /\ h.id \in Ids /\ h.sent \in Nat
  BY <1>1, <1>2 DEF AgentOK, Handlers
<1>5. \A r \in Ids : Got(r) \in Nat BY <1>1 DEF CallersOK, Request, Got
<1>6. \A msg \in HostMessages : msg.id \in Ids BY DEF HostMessages
<1> QED BY <1>1, <1>3, <1>4, <1>5, <1>6 DEF WireOK, CallersOK

LEMMA SameMessages ==
  ASSUME Own, UNCHANGED <<posts, inbox>>
  PROVE  NoneAsked
BY DEF Own, NoneAsked, Correlated, Once, AskedOnce, Asked

\* The host sends a message.
LEMMA PostFacts ==
  ASSUME Own, NEW msg \in HostMessages, Post(msg), msg.sess = host.sess,
         \A r \in Ids : Starts(msg, r) => ~ Asked(r)
  PROVE  /\ \A r \in Ids : Asked(r)' => Asked(r) \/ Starts(msg, r)
         /\ AskedOnce'
         /\ \A m \in posts' : m.sess = host.sess
         /\ \A i \in 1 .. Len(inbox') : inbox'[i].sess = host.sess
         /\ Ordered => posts' = {}
<1> USE OwnTypes
<1>0. Correlated /\ Once /\ AskedOnce BY DEF Own, Once
<1>1. CASE ~ Ordered
  <2>1. posts' = posts \union {msg} /\ inbox' = inbox BY <1>1 DEF Post
  <2>2. AskedOnce' BY <1>0, <2>1 DEF AskedOnce, Asked
  <2> QED BY <1>0, <1>1, <2>1, <2>2 DEF Correlated, Asked
<1>2. CASE Ordered /\ link = "open"
  <2>1. posts' = posts /\ posts = {} /\ inbox' = Append(inbox, msg)
    BY <1>0, <1>2 DEF Post, Once
  <2>2. /\ Len(inbox') = Len(inbox) + 1 /\ inbox'[Len(inbox) + 1] = msg
        /\ \A i \in 1 .. Len(inbox) : inbox'[i] = inbox[i]
    BY <2>1, AppendFact
  <2>3. \A i \in 1 .. Len(inbox') : i \in 1 .. Len(inbox) \/ i = Len(inbox) + 1
    BY <2>2
  <2>4. \A i \in 1 .. Len(inbox') : inbox'[i].sess = host.sess
    BY <1>0, <2>2, <2>3 DEF Correlated
  <2>5. ASSUME NEW r \in Ids, Asked(r)' PROVE Asked(r) \/ Starts(msg, r)
    BY <2>1, <2>2, <2>3, <2>5 DEF Asked
  <2>6. AskedOnce'
    <3>1. ASSUME NEW r \in Ids, NEW i \in 1 .. Len(inbox'), NEW j \in 1 .. Len(inbox'),
                 Starts(inbox'[i], r), Starts(inbox'[j], r)
          PROVE  i = j
      BY <1>0, <2>2, <2>3, <3>1 DEF AskedOnce, Asked
    <3> QED BY <2>1, <3>1 DEF AskedOnce
  <2> QED BY <2>1, <2>4, <2>5, <2>6
<1>3. CASE Ordered /\ link # "open"
  BY <1>0, <1>3 DEF Post, Once, Correlated, AskedOnce, Asked
<1> QED BY <1>1, <1>2, <1>3

\* The host sends a message that asks for nothing.
LEMMA PostNothing ==
  ASSUME Own, NEW msg \in HostMessages, Post(msg), msg.sess = host.sess,
         msg.type \notin {"execute", "badMiddleware"}
  PROVE  NoneAsked
BY PostFacts DEF NoneAsked, Starts

\* A post arrives, or is dropped, and a cancel may be posted.
LEMMA ArriveFacts ==
  ASSUME Own, NEW msg \in posts, NEW more \in SUBSET HostMessages,
         posts' = (posts \ {msg}) \union more,
         inbox' = inbox \/ inbox' = Append(inbox, msg),
         \A m \in more : m.sess = host.sess /\ m.type = "cancel"
  PROVE  NoneAsked
<1> USE OwnTypes
<1>0. Correlated /\ Once /\ AskedOnce /\ ~ Ordered BY DEF Own, Once
<1>1. \A m \in more, r \in Ids : ~ Starts(m, r) BY DEF Starts
<1>2. \A m \in posts' : m.sess = host.sess BY <1>0 DEF Correlated
<1>3. CASE inbox' = inbox
  <2>1. AskedOnce' BY <1>0, <1>1, <1>3 DEF AskedOnce
  <2>2. \A r \in Ids : Asked(r)' => Asked(r) BY <1>1, <1>3 DEF Asked
  <2> QED BY <1>0, <1>2, <1>3, <2>1, <2>2 DEF NoneAsked, Correlated
<1>4. CASE inbox' = Append(inbox, msg)
  <2>1. msg \in HostMessages OBVIOUS
  <2>2. /\ Len(inbox') = Len(inbox) + 1 /\ inbox'[Len(inbox) + 1] = msg
        /\ \A i \in 1 .. Len(inbox) : inbox'[i] = inbox[i]
    BY <1>4, <2>1, AppendFact
  <2>3. \A i \in 1 .. Len(inbox') : i \in 1 .. Len(inbox) \/ i = Len(inbox) + 1
    BY <2>2
  <2>4. \A i \in 1 .. Len(inbox') : inbox'[i].sess = host.sess
    BY <1>0, <2>2, <2>3 DEF Correlated
  <2>5. \A r \in Ids : Asked(r)' => Asked(r) BY <1>1, <2>2, <2>3 DEF Asked
  <2>6. AskedOnce'
    <3>1. ASSUME NEW r \in Ids, NEW i \in 1 .. Len(inbox'), NEW j \in 1 .. Len(inbox'),
                 Starts(inbox'[i], r), Starts(inbox'[j], r)
          PROVE  i = j
      BY <1>0, <2>2, <2>3, <3>1 DEF AskedOnce
    <3>2. ASSUME NEW r \in Ids, NEW m \in posts', NEW i \in 1 .. Len(inbox')
          PROVE  ~ (Starts(m, r) /\ Starts(inbox'[i], r))
      BY <1>0, <1>1, <2>2, <2>3 DEF AskedOnce
    <3>3. ASSUME NEW r \in Ids, NEW m \in posts', NEW o \in posts', Starts(m, r), Starts(o, r)
          PROVE  m = o
      BY <1>0, <1>1, <3>3 DEF AskedOnce
    <3> QED BY <3>1, <3>2, <3>3 DEF AskedOnce
  <2> QED BY <1>0, <1>2, <2>4, <2>5, <2>6 DEF NoneAsked
<1> QED BY <1>3, <1>4

\* The agent reads a message: what it asks for is not asked for any more.
LEMMA ReadFacts ==
  ASSUME Own, inbox # <<>>, inbox' = Tail(inbox), UNCHANGED posts
  PROVE  /\ NoneAsked /\ Head(inbox) = inbox[1] /\ Head(inbox) \in HostMessages
         /\ Head(inbox).sess = host.sess /\ Len(inbox) > 0
         /\ Len(inbox') = Len(inbox) - 1
         /\ \A i \in 1 .. Len(inbox') : inbox'[i] = inbox[i + 1]
         /\ \A r \in Ids : Starts(Head(inbox), r) => Asked(r) /\ ~ Asked(r)'
<1> USE OwnTypes
<1>0. Correlated /\ Once /\ AskedOnce BY DEF Own, Once
<1>1. /\ Head(inbox) = inbox[1] /\ Head(inbox) \in HostMessages /\ Len(inbox) > 0
      /\ Len(inbox') = Len(inbox) - 1
      /\ \A i \in 1 .. Len(inbox') : inbox'[i] = inbox[i + 1]
  BY TailFact
<1>2. \A i \in 1 .. Len(inbox') : i + 1 \in 1 .. Len(inbox) /\ i + 1 # 1 /\ 1 \in 1 .. Len(inbox)
  BY <1>1
<1>3. 1 \in 1 .. Len(inbox) BY <1>1
<1>4. \A i \in 1 .. Len(inbox') : inbox'[i].sess = host.sess
  BY <1>0, <1>1, <1>2 DEF Correlated
<1>5. \A r \in Ids : Asked(r)' => Asked(r) BY <1>1, <1>2 DEF Asked
<1>6. AskedOnce'
  <2>1. ASSUME NEW r \in Ids, NEW i \in 1 .. Len(inbox'), NEW j \in 1 .. Len(inbox'),
               Starts(inbox'[i], r), Starts(inbox'[j], r)
        PROVE  i = j
    <3>1. i + 1 = j + 1 BY <1>0, <1>1, <1>2, <2>1 DEF AskedOnce
    <3> QED BY <3>1
  <2> QED BY <1>0, <1>1, <1>2, <2>1 DEF AskedOnce
<1>7. ASSUME NEW r \in Ids, Starts(Head(inbox), r) PROVE Asked(r) /\ ~ Asked(r)'
  BY <1>0, <1>1, <1>2, <1>3, <1>7 DEF AskedOnce, Asked
<1> QED BY <1>0, <1>1, <1>3, <1>4, <1>5, <1>6, <1>7 DEF NoneAsked, Correlated, Once

\* Messages of the agent, when what it sends is one message, once or twice.
LEMMA SendFacts ==
  ASSUME Own, NEW msg \in AgentMessages, NEW n \in {1, 2},
         down' = Down([i \in 1 .. n |-> msg])
  PROVE  /\ Len(down') \in Nat /\ Len(down') >= Len(down)
         /\ \A i \in 1 .. Len(down) : i \in 1 .. Len(down') /\ down'[i] = down[i]
         /\ \A i \in 1 .. Len(down') : i \in 1 .. Len(down) \/ (i > Len(down) /\ down'[i] = msg)
         /\ Reaches => Len(down') = Len(down) + n
         /\ ~ Reaches => down' = down
<1>0. n \in Nat /\ n >= 1 OBVIOUS
<1>1. down \in Seq(AgentMessages) /\ Len(down) \in Nat BY OwnTypes
<1>2. CASE Reaches
  <2>1. down' = down \o [i \in 1 .. n |-> msg] BY <1>2 DEF Down
  <2>2. /\ down' \in Seq(AgentMessages) /\ Len(down') = Len(down) + n
        /\ \A i \in 1 .. Len(down) : down'[i] = down[i]
        /\ \A i \in Len(down) + 1 .. Len(down') : down'[i] = msg
    <3> DEFINE more == [i \in 1 .. n |-> msg]
    <3>1. more \in Seq(AgentMessages) /\ Len(more) = n /\ \A i \in 1 .. n : more[i] = msg
      BY <1>0
    <3>2. down' = down \o more BY <2>1
    <3> HIDE DEF more
    <3>3. /\ down' \in Seq(AgentMessages) /\ Len(down') = Len(down) + n
          /\ \A i \in 1 .. Len(down) : down'[i] = down[i]
          /\ \A i \in Len(down) + 1 .. Len(down') : down'[i] = msg
      <4>1. \A t : t = down \o more =>
              /\ t \in Seq(AgentMessages) /\ Len(t) = Len(down) + n
              /\ \A i \in 1 .. Len(down) : t[i] = down[i]
              /\ \A i \in Len(down) + 1 .. Len(t) : t[i] = msg
        BY <1>0, <1>1, <3>1, ConcatFact
      <4> QED BY <3>2, <4>1
    <3> QED BY <3>3
  <2>3. Len(down') \in Nat /\ Len(down') >= Len(down) BY <1>0, <1>1, <2>2
  <2>4. \A i \in 1 .. Len(down') :
          i \in 1 .. Len(down) \/ (i > Len(down) /\ i \in Len(down) + 1 .. Len(down'))
    BY <1>1, <2>3
  <2>5. \A i \in 1 .. Len(down) : i \in 1 .. Len(down') BY <1>1, <2>3
  <2> QED BY <1>2, <2>2, <2>3, <2>4, <2>5
<1>3. CASE ~ Reaches
  <2>1. down' = down BY <1>3 DEF Down
  <2>2. Len(down') = Len(down) BY <2>1
  <2>3. Len(down') \in Nat /\ Len(down') >= Len(down) BY <1>1, <2>2
  <2>4. \A i \in 1 .. Len(down) : i \in 1 .. Len(down') /\ down'[i] = down[i] BY <2>1
  <2>5. \A i \in 1 .. Len(down') : i \in 1 .. Len(down) BY <2>1
  <2> QED BY <1>3, <2>1, <2>3, <2>4, <2>5
<1> QED BY <1>2, <1>3

\* A message that is asked for anew has an id that was not given before.
Fresh ==
  /\ \A r \in Ids : Asked(r)' => r < host.next' /\ (Asked(r) \/ r >= host.next)
  /\ AskedOnce'
  /\ \A msg \in posts' : msg.sess = host.sess
  /\ \A i \in 1 .. Len(inbox') : inbox'[i].sess = host.sess
  /\ Ordered => posts' = {}

\* What is sent to the host was sent before, or is about no request.
NothingSent ==
  \A i \in 1 .. Len(down') :
    \/ \E j \in 1 .. Len(down) : down'[i] = down[j]
    \/ \A r \in Ids : ~ Answers(down'[i], r) /\ ~ Reports(down'[i], r)

\* Handlers and their entries were there before.
NothingRuns ==
  /\ agent.handlers' \subseteq agent.handlers
  /\ \A h \in agent.handlers' : h.id \in DOMAIN agent.inflight'
  /\ \A r \in DOMAIN agent.inflight' :
       r \in DOMAIN agent.inflight /\ agent.inflight'[r] = agent.inflight[r]

\* Callers get no answer that is not theirs, and wait as the transport has it.
CallersKept ==
  /\ OwnAnswer'
  /\ Ordered => \A r \in Ids : req'[r].pc # "sending"

\* The host goes on with its session.
SessionKept == UNCHANGED kind /\ host'.sess = host.sess /\ host'.next >= host.next

LEMMA FreshFacts ==
  ASSUME Own, NoneAsked, SessionKept, host'.next \in Nat
  PROVE  Fresh
<1>1. \A r \in Ids : Asked(r) => r < host.next BY DEF Own, Correlated
<1>2. \A r \in Ids : r < host.next => r < host'.next BY OwnTypes DEF SessionKept
<1> QED BY <1>1, <1>2 DEF NoneAsked, Fresh

LEMMA KeepsOnce ==
  ASSUME Own, Fresh, NothingSent, NothingRuns, CallersKept, SessionKept, host'.next \in Nat
  PROVE  Correlated' /\ Once'
<1> USE OwnTypes
<1>0. Correlated /\ Once BY DEF Own
<1>1. \A r \in Ids : r < host.next => r < host'.next /\ (Asked(r)' => Asked(r))
  BY DEF SessionKept, Fresh
<1>2. \A r : Tag(r)' = Tag(r) BY DEF SessionKept, Tag
<1>3. Ordered' = Ordered BY DEF SessionKept, Ordered
<1>4. ASSUME NEW i \in 1 .. Len(down'), NEW r \in Ids,
             Answers(down'[i], r) \/ Reports(down'[i], r)
      PROVE  /\ r < host'.next /\ down'[i].tag = Tag(r) /\ ~ Asked(r)'
  <2>1. PICK j \in 1 .. Len(down) : down'[i] = down[j] BY <1>4 DEF NothingSent
  <2>2. Answers(down[j], r) \/ Reports(down[j], r) BY <1>4, <2>1
  <2>3. r < host.next /\ down[j].tag = Tag(r) /\ ~ Asked(r)
    BY <1>0, <2>2 DEF Correlated, Once
  <2> QED BY <1>1, <2>1, <2>3
<1>5. ASSUME NEW h \in agent'.handlers
      PROVE  /\ h.id < host'.next /\ h.tag = Tag(h.id) /\ h.id \in DOMAIN agent'.inflight
             /\ ~ Asked(h.id)' /\ \A i \in 1 .. Len(down') : ~ Answers(down'[i], h.id)
  <2>1. h \in agent.handlers /\ h.id \in Ids BY DEF NothingRuns
  <2>2. h.id < host.next /\ h.tag = Tag(h.id) /\ ~ Asked(h.id) BY <1>0, <2>1 DEF Correlated, Once
  <2>3. ASSUME NEW i \in 1 .. Len(down'), Answers(down'[i], h.id) PROVE FALSE
    <3>1. PICK j \in 1 .. Len(down) : down'[i] = down[j] BY <2>1, <2>3 DEF NothingSent
    <3> QED BY <1>0, <2>1, <2>3, <3>1 DEF Once
  <2> QED BY <1>1, <2>1, <2>2, <2>3 DEF NothingRuns
<1>6. \A r \in DOMAIN agent'.inflight : agent'.inflight[r] = Tag(r)
  BY <1>0 DEF Correlated, NothingRuns
<1>7. Correlated'
  <2>1. \A r \in Ids : Asked(r)' => r < host'.next BY DEF Fresh
  <2>2. /\ \A msg \in posts' : msg.sess = host'.sess
        /\ \A i \in 1 .. Len(inbox') : inbox'[i].sess = host'.sess
    BY DEF Fresh, SessionKept
  <2>3. OwnAnswer' BY DEF CallersKept
  <2> QED BY <1>2, <1>4, <1>5, <1>6, <2>1, <2>2, <2>3 DEF Correlated
<1>8. Once'
  <2>1. \A h, g \in agent'.handlers : h.id = g.id => h = g BY <1>0 DEF Once, NothingRuns
  <2>2. AskedOnce' /\ (Ordered' => posts' = {} /\ \A r \in Ids : req'[r].pc # "sending")
    BY <1>3 DEF Fresh, CallersKept
  <2> QED BY <1>4, <1>5, <2>1, <2>2 DEF Once
<1> QED BY <1>7, <1>8

\* What leaves the messages to the host alone, or drops some.
LEMMA DownKept ==
  ASSUME Own
  PROVE  /\ UNCHANGED down => NothingSent
         /\ down' = <<>> => NothingSent
         /\ down # <<>> /\ down' = Tail(down) => NothingSent
         /\ \A n \in 0 .. Len(down) : down' = SubSeq(down, 1, n) => NothingSent
<1> USE OwnTypes
<1>1. UNCHANGED down => NothingSent BY DEF NothingSent
<1>2. down' = <<>> => NothingSent BY DEF NothingSent
<1>3. ASSUME down # <<>>, down' = Tail(down) PROVE NothingSent
  <2>1. /\ Len(down') = Len(down) - 1
        /\ \A i \in 1 .. Len(down') : down'[i] = down[i + 1] /\ i + 1 \in 1 .. Len(down)
    BY <1>3, TailFact
  <2> QED BY <2>1 DEF NothingSent
<1>4. ASSUME NEW n \in 0 .. Len(down), down' = SubSeq(down, 1, n) PROVE NothingSent
  <2>1. Len(down') = n /\ \A i \in 1 .. n : down'[i] = down[i] /\ i \in 1 .. Len(down)
    BY <1>4, PrefixFact
  <2> QED BY <2>1 DEF NothingSent
<1> QED BY <1>1, <1>2, <1>3, <1>4

\* What leaves the handlers alone, or ends all of them.
LEMMA AgentKept ==
  ASSUME Own
  PROVE  /\ UNCHANGED <<agent.handlers, agent.inflight>> => NothingRuns
         /\ agent.handlers' = {} /\ agent.inflight' = << >> => NothingRuns
         /\ ServerFails \/ Stopped => NothingRuns
<1>1. UNCHANGED <<agent.handlers, agent.inflight>> => NothingRuns
  BY DEF Own, Once, NothingRuns
<1>2. agent.handlers' = {} /\ agent.inflight' = << >> => NothingRuns
  BY DEF NothingRuns
<1>3. ServerFails \/ Stopped => agent'.handlers = {} /\ agent'.inflight = << >>
  BY DEF Own, AgentOK, ServerFails, Stopped
<1> QED BY <1>1, <1>2, <1>3

\* What gives the callers no answer of the agent.
LEMMA NoAnswers ==
  ASSUME Own, SessionKept,
         \A r \in Ids : \/ req'[r].terminal = req[r].terminal
                        \/ req'[r].terminal \in {Failure, NoOutcome},
         \A r \in Ids : req'[r].pc = req[r].pc \/ (Ordered => req'[r].pc # "sending")
  PROVE  CallersKept
<1>1. OwnAnswer BY DEF Own, Correlated
<1>2. \A r : Tag(r)' = Tag(r) BY DEF SessionKept, Tag
<1>3. OwnAnswer' BY <1>1, <1>2, OutcomeFacts DEF OwnAnswer
<1> QED BY <1>3 DEF Own, Once, CallersKept

\* A post is dropped, and a cancel may be posted.
LEMMA DropFacts ==
  ASSUME Own, ~ Ordered, NEW more \in SUBSET HostMessages, posts' \subseteq posts \union more,
         inbox' = inbox, \A m \in more : m.sess = host.sess /\ m.type = "cancel"
  PROVE  NoneAsked
<1> USE OwnTypes
<1>0. Correlated /\ Once /\ AskedOnce BY DEF Own, Once
<1>1. \A m \in more, r \in Ids : ~ Starts(m, r) BY DEF Starts
<1>2. \A m \in posts' : m.sess = host.sess BY <1>0 DEF Correlated
<1>3. AskedOnce' BY <1>0, <1>1 DEF AskedOnce
<1>4. \A r \in Ids : Asked(r)' => Asked(r) BY <1>1 DEF Asked
<1> QED BY <1>0, <1>2, <1>3, <1>4 DEF NoneAsked, Correlated

\* The host is left alone, and so is what it sends.
HostAlone == UNCHANGED <<kind, host, req, posts>> /\ NoneAsked

LEMMA AloneFacts ==
  ASSUME Own, HostAlone
  PROVE  SessionKept /\ CallersKept /\ Fresh /\ host'.next \in Nat
<1> USE OwnTypes
<1>1. SessionKept /\ host'.next \in Nat BY DEF HostAlone, SessionKept
<1>2. CallersKept BY <1>1, NoAnswers DEF HostAlone
<1>3. Fresh BY <1>1, FreshFacts DEF HostAlone
<1> QED BY <1>1, <1>2, <1>3

\* What the agent does, in terms of the messages and handlers that are new.
LEMMA AgentOnce ==
  ASSUME Own, HostAlone,
         \A i \in 1 .. Len(down'), r \in Ids :
           Answers(down'[i], r) \/ Reports(down'[i], r) =>
             \/ \E j \in 1 .. Len(down) : down'[i] = down[j]
             \/ r < host.next /\ down'[i].tag = Tag(r) /\ ~ Asked(r)',
         \A h \in agent'.handlers :
           /\ h.id < host.next /\ h.tag = Tag(h.id) /\ h.id \in DOMAIN agent'.inflight
           /\ ~ Asked(h.id)' /\ \A i \in 1 .. Len(down') : ~ Answers(down'[i], h.id),
         \A h, g \in agent'.handlers : h.id = g.id => h = g,
         \A r \in DOMAIN agent'.inflight : agent'.inflight[r] = Tag(r)
  PROVE  Correlated' /\ Once'
<1> USE OwnTypes
<1>0. Correlated /\ Once BY DEF Own
<1>1. SessionKept /\ CallersKept /\ Fresh /\ UNCHANGED <<kind, host>>
  BY AloneFacts DEF HostAlone
<1>2. Ordered' = Ordered /\ \A r : Tag(r)' = Tag(r) BY <1>1 DEF Ordered, Tag
<1>3. ASSUME NEW i \in 1 .. Len(down'), NEW r \in Ids,
             Answers(down'[i], r) \/ Reports(down'[i], r)
      PROVE  r < host'.next /\ down'[i].tag = Tag(r) /\ ~ Asked(r)'
  <2>1. CASE \E j \in 1 .. Len(down) : down'[i] = down[j]
    <3>1. PICK j \in 1 .. Len(down) : down'[i] = down[j] BY <2>1
    <3>2. Answers(down[j], r) \/ Reports(down[j], r) BY <1>3, <3>1
    <3>3. r < host.next /\ down[j].tag = Tag(r) /\ ~ Asked(r)
      BY <1>0, <3>2 DEF Correlated, Once
    <3>4. ~ Asked(r)' BY <3>3 DEF HostAlone, NoneAsked
    <3> QED BY <1>1, <3>1, <3>3, <3>4
  <2> QED BY <1>1, <1>3, <2>1
<1>4. Correlated'
  <2>1. \A r \in Ids : Asked(r)' => r < host'.next BY <1>1 DEF Fresh
  <2>2. /\ \A msg \in posts' : msg.sess = host'.sess
        /\ \A i \in 1 .. Len(inbox') : inbox'[i].sess = host'.sess
    BY <1>1 DEF Fresh
  <2>3. OwnAnswer' BY <1>1 DEF CallersKept
  <2>4. \A h \in agent'.handlers : h.id < host'.next /\ h.tag = Tag(h.id) BY <1>1
  <2> QED BY <1>2, <1>3, <2>1, <2>2, <2>3, <2>4 DEF Correlated
<1>5. Once'
  <2>1. AskedOnce' /\ (Ordered' => posts' = {} /\ \A r \in Ids : req'[r].pc # "sending")
    BY <1>1, <1>2 DEF Fresh, CallersKept
  <2> QED BY <1>3, <2>1 DEF Once
<1> QED BY <1>4, <1>5

\* Nothing is sent or run that was not there.
LEMMA QuietOnce ==
  ASSUME Own, HostAlone, NothingSent, NothingRuns
  PROVE  Correlated' /\ Once'
BY AloneFacts, KeepsOnce

\* A handler is answered: nothing of its request is left but the answers.
LEMMA EndsOnce ==
  ASSUME Own, NEW h \in agent.handlers, HandlerEnds(h)
  PROVE  Correlated' /\ Once'
<1> USE OwnTypes
<1>0. Correlated /\ Once /\ AgentOK /\ HostOK BY DEF Own
<1>1. HostAlone BY SameMessages DEF HandlerEnds, HostAlone
<1>2. CASE CanSend
  <2> DEFINE msg == ToHost("result", h.id, h.tag, h.sent)
  <2>1. PICK n \in {1, 2} :
          /\ down' = Down([i \in 1 .. n |-> msg])
          /\ agent' = [agent EXCEPT !.inflight = Without(@, h.id), !.handlers = @ \ {h}]
    BY <1>2 DEF HandlerEnds
  <2>2. msg.type = "result" /\ msg.id = h.id /\ msg.tag = h.tag BY FieldFacts
  <2>3. msg \in AgentMessages
    BY <1>0, MessageFacts DEF Handlers
  <2> HIDE DEF msg
  <2>4. \A i \in 1 .. Len(down') :
          (i \in 1 .. Len(down) /\ down'[i] = down[i]) \/ down'[i] = msg
    BY <2>1, <2>3, SendFacts
  <2>5. agent.inflight \in Entries BY <1>0 DEF AgentOK
  <2>6. /\ agent'.handlers = agent.handlers \ {h}
        /\ DOMAIN agent'.inflight = DOMAIN agent.inflight \ {h.id}
        /\ \A r \in DOMAIN agent'.inflight : agent'.inflight[r] = agent.inflight[r]
    <3>1. /\ agent'.inflight = Without(agent.inflight, h.id)
          /\ agent'.handlers = agent.handlers \ {h}
      BY <1>0, <2>1 DEF AgentOK
    <3>2. /\ DOMAIN Without(agent.inflight, h.id) = DOMAIN agent.inflight \ {h.id}
          /\ \A r \in DOMAIN agent.inflight \ {h.id} :
               Without(agent.inflight, h.id)[r] = agent.inflight[r]
      BY <2>5, EntryFacts
    <3> QED BY <3>1, <3>2
  <2>7. \A r \in Ids : ~ Asked(r) => ~ Asked(r)' BY <1>1 DEF HostAlone, NoneAsked
  <2>8. ASSUME NEW i \in 1 .. Len(down'), NEW r \in Ids,
               Answers(down'[i], r) \/ Reports(down'[i], r)
        PROVE  \/ \E j \in 1 .. Len(down) : down'[i] = down[j]
               \/ r < host.next /\ down'[i].tag = Tag(r) /\ ~ Asked(r)'
    <3>1. CASE down'[i] = msg
      <4>1. r = h.id BY <2>2, <2>8, <3>1 DEF Answers, Reports
      <4> QED BY <1>0, <2>2, <2>7, <3>1, <4>1 DEF Correlated, Once
    <3> QED BY <2>4, <3>1
  <2>9. ASSUME NEW g \in agent'.handlers
        PROVE  /\ g.id < host.next /\ g.tag = Tag(g.id) /\ g.id \in DOMAIN agent'.inflight
               /\ ~ Asked(g.id)' /\ \A i \in 1 .. Len(down') : ~ Answers(down'[i], g.id)
    <3>1. g \in agent.handlers /\ g # h /\ g.id # h.id BY <1>0, <2>6 DEF Once
    <3>2. \A i \in 1 .. Len(down') : ~ Answers(down'[i], g.id)
      BY <1>0, <2>2, <2>4, <3>1 DEF Once, Answers
    <3> QED BY <1>0, <2>6, <2>7, <3>1, <3>2 DEF Correlated, Once
  <2>10. \A g, k \in agent'.handlers : g.id = k.id => g = k BY <1>0, <2>6 DEF Once
  <2>11. \A r \in DOMAIN agent'.inflight : agent'.inflight[r] = Tag(r)
    BY <1>0, <2>6 DEF Correlated
  <2> QED BY <1>1, <2>8, <2>9, <2>10, <2>11, AgentOnce
<1>3. CASE ~ CanSend
  <2>1. ServerFails BY <1>3 DEF HandlerEnds
  <2>2. NothingSent /\ NothingRuns BY <2>1, DownKept, AgentKept DEF ServerFails
  <2> QED BY <1>1, <2>2, QuietOnce
<1> QED BY <1>2, <1>3

\* A handler reports: its request has no answer before or after it.
LEMMA ReportsOnce ==
  ASSUME Own, NEW h \in agent.handlers, HandlerReports(h)
  PROVE  Correlated' /\ Once'
<1> USE OwnTypes
<1>0. Correlated /\ Once /\ AgentOK /\ HostOK BY DEF Own
<1>1. HostAlone BY SameMessages DEF HandlerReports, HostAlone
<1> DEFINE msg == ToHost("progress", h.id, h.tag, h.sent + 1)
           more == [h EXCEPT !.sent = @ + 1]
<1>2. /\ down' = Down(<<msg>>) /\ h.sent < MaxProgress[kind]
      /\ agent' = [agent EXCEPT !.handlers = (@ \ {h}) \union {more}]
  BY DEF HandlerReports
<1>3. msg.type = "progress" /\ msg.id = h.id /\ msg.tag = h.tag BY FieldFacts
<1>4. more.id = h.id /\ more.tag = h.tag BY DEF Handlers
<1>5. msg \in AgentMessages
  <2>1. h.sent + 1 \in 0 .. Largest(MaxProgress) BY <1>0, <1>2, ReportBounds
  <2> QED BY <1>0, <2>1, MessageFacts DEF Handlers
<1>6. agent'.handlers = (agent.handlers \ {h}) \union {more} /\ agent'.inflight = agent.inflight
  BY <1>0, <1>2 DEF AgentOK
<1> HIDE DEF msg, more
<1>7. \A i \in 1 .. Len(down') :
        (i \in 1 .. Len(down) /\ down'[i] = down[i]) \/ down'[i] = msg
  BY <1>2, <1>5, OneMessage, SendFacts
<1>8. \A r \in Ids : ~ Asked(r) => ~ Asked(r)' BY <1>1 DEF HostAlone, NoneAsked
<1>9. ASSUME NEW i \in 1 .. Len(down'), NEW r \in Ids,
             Answers(down'[i], r) \/ Reports(down'[i], r)
      PROVE  \/ \E j \in 1 .. Len(down) : down'[i] = down[j]
             \/ r < host.next /\ down'[i].tag = Tag(r) /\ ~ Asked(r)'
  <2>1. CASE down'[i] = msg
    <3>1. r = h.id BY <1>3, <1>9, <2>1 DEF Answers, Reports
    <3> QED BY <1>0, <1>3, <1>8, <2>1, <3>1 DEF Correlated, Once
  <2> QED BY <1>7, <2>1
<1>10. ASSUME NEW g \in agent'.handlers
       PROVE  /\ g.id < host.next /\ g.tag = Tag(g.id) /\ g.id \in DOMAIN agent'.inflight
              /\ ~ Asked(g.id)' /\ \A i \in 1 .. Len(down') : ~ Answers(down'[i], g.id)
  <2>1. PICK k \in agent.handlers : g.id = k.id /\ g.tag = k.tag BY <1>4, <1>6
  <2>2. \A i \in 1 .. Len(down') : ~ Answers(down'[i], k.id)
    BY <1>0, <1>3, <1>7 DEF Once, Answers
  <2> QED BY <1>0, <1>6, <1>8, <2>1, <2>2 DEF Correlated, Once
<1>11. \A g, k \in agent'.handlers : g.id = k.id => g = k BY <1>0, <1>4, <1>6 DEF Once
<1>12. \A r \in DOMAIN agent'.inflight : agent'.inflight[r] = Tag(r)
  BY <1>0, <1>6 DEF Correlated
<1> QED BY <1>1, <1>9, <1>10, <1>11, <1>12, AgentOnce

\* The agent reads a message.
LEMMA ServeOnce ==
  ASSUME Own, Serve
  PROVE  Correlated' /\ Once'
<1> USE OwnTypes
<1>0. Correlated /\ Once /\ AgentOK /\ HostOK BY DEF Own
<1>d. inbox # <<>> /\ inbox' = Tail(inbox) /\ UNCHANGED posts BY DEF Serve
<1>e. PICK msg \in HostMessages : msg = Head(inbox) BY <1>d, ReadFacts
<1>1. /\ inbox # <<>> /\ inbox' = Tail(inbox) /\ UNCHANGED <<kind, host, req, posts>>
      /\ \/ ServeInitialize(msg) \/ ServeBadMiddleware(msg) \/ ServeExecute(msg)
         \/ ServeCancel(msg) \/ ServeShutdown(msg)
  BY <1>e DEF Serve
<1>2. /\ NoneAsked /\ msg \in HostMessages /\ msg.sess = host.sess
      /\ \A r \in Ids : Starts(msg, r) => Asked(r) /\ ~ Asked(r)'
  BY <1>d, <1>e, ReadFacts
<1>3. HostAlone BY <1>1, <1>2 DEF HostAlone
<1>4. msg.id \in Ids /\ <<msg.sess, msg.id>> = Tag(msg.id) /\ Tag(msg.id) \in Tags
  BY <1>0, <1>2, TypeFacts DEF Tag
<1>5. agent.inflight \in Entries BY <1>0 DEF AgentOK
<1>a. /\ DOMAIN Without(agent.inflight, msg.id) = DOMAIN agent.inflight \ {msg.id}
      /\ \A i \in DOMAIN agent.inflight \ {msg.id} :
           Without(agent.inflight, msg.id)[i] = agent.inflight[i]
      /\ DOMAIN With(agent.inflight, msg.id, Tag(msg.id)) = DOMAIN agent.inflight \union {msg.id}
      /\ With(agent.inflight, msg.id, Tag(msg.id))[msg.id] = Tag(msg.id)
      /\ \A i \in DOMAIN agent.inflight \ {msg.id} :
           With(agent.inflight, msg.id, Tag(msg.id))[i] = agent.inflight[i]
  <2>1. /\ DOMAIN Without(agent.inflight, msg.id) = DOMAIN agent.inflight \ {msg.id}
        /\ \A i \in DOMAIN agent.inflight \ {msg.id} :
             Without(agent.inflight, msg.id)[i] = agent.inflight[i]
        /\ \A tag \in Tags :
             /\ DOMAIN With(agent.inflight, msg.id, tag) = DOMAIN agent.inflight \union {msg.id}
             /\ With(agent.inflight, msg.id, tag)[msg.id] = tag
             /\ \A i \in DOMAIN agent.inflight \ {msg.id} :
                  With(agent.inflight, msg.id, tag)[i] = agent.inflight[i]
    <3>1. /\ DOMAIN Without(agent.inflight, msg.id) = DOMAIN agent.inflight \ {msg.id}
          /\ \A i \in DOMAIN agent.inflight \ {msg.id} :
               Without(agent.inflight, msg.id)[i] = agent.inflight[i]
      BY <1>4, <1>5, EntryFacts
    <3>2. ASSUME NEW tag \in Tags
          PROVE  /\ DOMAIN With(agent.inflight, msg.id, tag) = DOMAIN agent.inflight \union {msg.id}
                 /\ With(agent.inflight, msg.id, tag)[msg.id] = tag
                 /\ \A i \in DOMAIN agent.inflight \ {msg.id} :
                      With(agent.inflight, msg.id, tag)[i] = agent.inflight[i]
      BY <1>4, <1>5, EntryAdded, ZenonT(40)
    <3> QED BY <3>1, <3>2
  <2> QED BY <1>4, <2>1
<1>b. \A r \in DOMAIN agent.inflight : agent.inflight[r] = Tag(r) BY <1>0 DEF Correlated
<1>c. \A r \in Ids : Starts(msg, r) => r < host.next
  <2>1. \A r \in Ids : Asked(r) => r < host.next BY <1>0 DEF Correlated
  <2> QED BY <1>2, <2>1
<1>6. \A r \in Ids : ~ Asked(r) => ~ Asked(r)' BY <1>2 DEF NoneAsked
<1>7. 0 \in 0 .. Largest(MaxProgress) BY <1>0, ReportBounds
<1>8. ASSUME ServerFails \/ Stopped PROVE Correlated' /\ Once'
  <2>1. NothingSent /\ NothingRuns BY <1>8, DownKept, AgentKept DEF ServerFails, Stopped
  <2> QED BY <1>3, <2>1, QuietOnce
\* What is read is answered at once, and may be noted as running.
<1>9. ASSUME NEW ans \in AgentMessages, down' = Down(<<ans>>), msg.type \in {"execute", "badMiddleware"},
             ans.type \in {"result", "refused"}, ans.id = msg.id, ans.tag = Tag(msg.id),
             agent'.handlers = agent.handlers,
             \/ agent'.inflight = agent.inflight
             \/ agent'.inflight = With(agent.inflight, msg.id, Tag(msg.id))
      PROVE  Correlated' /\ Once'
  <2>1. Starts(msg, msg.id) BY <1>9 DEF Starts
  <2>2. Asked(msg.id) /\ ~ Asked(msg.id)' /\ msg.id < host.next 
    BY <1>2, <1>4, <1>c, <2>1
  <2>3. \A i \in 1 .. Len(down') :
          (i \in 1 .. Len(down) /\ down'[i] = down[i]) \/ down'[i] = ans
    BY <1>9, OneMessage, SendFacts
  <2>4. /\ DOMAIN agent.inflight \subseteq DOMAIN agent'.inflight
        /\ \A r \in DOMAIN agent'.inflight : agent'.inflight[r] = Tag(r)
    <3>1. CASE agent'.inflight = agent.inflight BY <1>0, <3>1 DEF Correlated
    <3>2. CASE agent'.inflight = With(agent.inflight, msg.id, Tag(msg.id))
      BY <1>a, <1>b, <3>2
    <3> QED BY <1>9, <3>1, <3>2
  <2>5. ASSUME NEW i \in 1 .. Len(down'), NEW r \in Ids,
               Answers(down'[i], r) \/ Reports(down'[i], r)
        PROVE  \/ \E j \in 1 .. Len(down) : down'[i] = down[j]
               \/ r < host.next /\ down'[i].tag = Tag(r) /\ ~ Asked(r)'
    <3>1. CASE down'[i] = ans
      <4>1. r = msg.id BY <1>9, <2>5, <3>1 DEF Answers, Reports
      <4>2. down'[i].tag = Tag(r) BY <1>9, <3>1, <4>1
      <4>3. r < host.next /\ ~ Asked(r)' BY <2>2, <4>1
      <4> QED BY <4>2, <4>3
    <3> QED BY <2>3, <3>1
  <2>6. ASSUME NEW g \in agent'.handlers
        PROVE  /\ g.id < host.next /\ g.tag = Tag(g.id) /\ g.id \in DOMAIN agent'.inflight
               /\ ~ Asked(g.id)' /\ \A i \in 1 .. Len(down') : ~ Answers(down'[i], g.id)
    <3>1. g \in agent.handlers /\ g.id # msg.id BY <1>0, <1>9, <2>2 DEF Once
    <3>2. \A i \in 1 .. Len(down') : ~ Answers(down'[i], g.id)
      <4>1. \A i \in 1 .. Len(down) : ~ Answers(down[i], g.id) BY <1>0, <3>1 DEF Once
      <4>2. ~ Answers(ans, g.id) BY <1>9, <3>1 DEF Answers
      <4> QED BY <2>3, <4>1, <4>2
    <3> QED BY <1>0, <1>6, <2>4, <3>1, <3>2 DEF Correlated, Once
  <2>7. \A g, k \in agent'.handlers : g.id = k.id => g = k BY <1>0, <1>9 DEF Once
  <2> QED BY <1>3, <2>4, <2>5, <2>6, <2>7, AgentOnce
<1>10. CASE ServeInitialize(msg)
  <2>1. PICK type \in {"initialized", "initError"} :
          Reply(ToHost(type, 0, <<0, 0>>, 0), agent)
    BY <1>10 DEF ServeInitialize
  <2> DEFINE ans == ToHost(type, 0, <<0, 0>>, 0)
  <2>2. ans \in AgentMessages /\ ans.type = type BY <1>0, MessageFacts, FieldFacts
  <2>3. CASE CanSend
    <3>1. down' = Down(<<ans>>) /\ agent' = agent BY <2>1, <2>3 DEF Reply
    <3> HIDE DEF ans
    <3>2. \A i \in 1 .. Len(down') :
            (i \in 1 .. Len(down) /\ down'[i] = down[i]) \/ down'[i] = ans
      BY <2>2, <3>1, OneMessage, SendFacts
    <3>3. NothingSent BY <2>2, <3>2 DEF NothingSent, Answers, Reports
    <3>4. NothingRuns BY <3>1, AgentKept
    <3> QED BY <1>3, <3>3, <3>4, QuietOnce
  <2>4. CASE ~ CanSend BY <1>8, <2>1, <2>4 DEF Reply
  <2> QED BY <2>3, <2>4
<1>11. CASE ServeBadMiddleware(msg)
  <2> DEFINE ans == ToHost("refused", msg.id, Tag(msg.id), 0)
  <2>1. msg.type = "badMiddleware" /\ Reply(ans, agent)
    BY <1>4, <1>11 DEF ServeBadMiddleware
  <2>2. ans \in AgentMessages /\ ans.type = "refused" /\ ans.id = msg.id /\ ans.tag = Tag(msg.id)
    BY <1>0, <1>4, <1>7, MessageFacts, FieldFacts
  <2> HIDE DEF ans
  <2>3. CASE CanSend
    <3>1. down' = Down(<<ans>>) /\ agent' = agent BY <2>1, <2>3 DEF Reply
    <3> QED BY <1>9, <2>1, <2>2, <3>1
  <2>4. CASE ~ CanSend BY <1>8, <2>1, <2>4 DEF Reply
  <2> QED BY <2>3, <2>4
<1>12. CASE ServeExecute(msg)
  <2> DEFINE noted == With(agent.inflight, msg.id, Tag(msg.id))
             new == [id |-> msg.id, tag |-> Tag(msg.id), sent |-> 0]
             ans == ToHost("result", msg.id, Tag(msg.id), 0)
  <2>1. /\ msg.type = "execute"
        /\ \/ /\ agent' = [agent EXCEPT !.inflight = noted, !.handlers = @ \union {new}]
              /\ UNCHANGED down
           \/ Reply(ans, [agent EXCEPT !.inflight = noted])
    BY <1>4, <1>12 DEF ServeExecute
  <2>2. ans \in AgentMessages /\ ans.type = "result" /\ ans.id = msg.id /\ ans.tag = Tag(msg.id)
    BY <1>0, <1>4, <1>7, MessageFacts, FieldFacts
  <2>3. new.id = msg.id /\ new.tag = Tag(msg.id) OBVIOUS
  <2>4. /\ DOMAIN noted = DOMAIN agent.inflight \union {msg.id}
        /\ \A r \in DOMAIN noted : noted[r] = Tag(r)
    BY <1>a, <1>b
  <2> HIDE DEF noted, new, ans
  <2>5. CASE /\ agent' = [agent EXCEPT !.inflight = noted, !.handlers = @ \union {new}]
             /\ UNCHANGED down
    <3>1. agent'.handlers = agent.handlers \union {new} /\ agent'.inflight = noted
      BY <1>0, <2>5 DEF AgentOK
    <3>2. Starts(msg, msg.id) BY <2>1 DEF Starts
    <3>3. Asked(msg.id) /\ ~ Asked(msg.id)' /\ msg.id < host.next 
      BY <1>2, <1>4, <1>c, <3>2
    <3>4. ASSUME NEW g \in agent'.handlers
          PROVE  /\ g.id < host.next /\ g.tag = Tag(g.id) /\ g.id \in DOMAIN agent'.inflight
                 /\ ~ Asked(g.id)' /\ \A i \in 1 .. Len(down') : ~ Answers(down'[i], g.id)
      <4>1. CASE g \in agent.handlers
        BY <1>0, <1>6, <2>4, <2>5, <3>1, <4>1 DEF Correlated, Once
      <4>2. CASE g = new
        <5>1. \A i \in 1 .. Len(down) : ~ Answers(down[i], msg.id)
          BY <1>0, <1>4, <3>3 DEF Once
        <5>2. \A i \in 1 .. Len(down') : ~ Answers(down'[i], g.id) BY <2>3, <2>5, <4>2, <5>1
        <5>3. /\ g.id < host.next /\ g.tag = Tag(g.id) /\ g.id \in DOMAIN agent'.inflight
              /\ ~ Asked(g.id)'
          BY <2>3, <2>4, <3>1, <3>3, <4>2
        <5> QED BY <5>2, <5>3
      <4> QED BY <3>1, <4>1, <4>2
    <3>5. \A g, k \in agent'.handlers : g.id = k.id => g = k
      <4>1. \A g \in agent.handlers : g.id # msg.id BY <1>0, <3>3 DEF Once
      <4> QED BY <1>0, <2>3, <3>1, <4>1 DEF Once
    <3>6. \A i \in 1 .. Len(down') : \E j \in 1 .. Len(down) : down'[i] = down[j] BY <2>5
    <3>7. \A r \in DOMAIN agent'.inflight : agent'.inflight[r] = Tag(r) BY <2>4, <3>1
    <3> QED BY <1>3, <3>4, <3>5, <3>6, <3>7, AgentOnce
  <2>6. CASE Reply(ans, [agent EXCEPT !.inflight = noted])
    <3>1. CASE CanSend
      <4>1. down' = Down(<<ans>>) /\ agent' = [agent EXCEPT !.inflight = noted]
        BY <2>6, <3>1 DEF Reply
      <4>2. agent'.handlers = agent.handlers /\ agent'.inflight = noted
        BY <1>0, <4>1 DEF AgentOK
      <4> QED BY <1>9, <2>1, <2>2, <4>1, <4>2 DEF noted
    <3>2. CASE ~ CanSend BY <1>8, <2>6, <3>2 DEF Reply
    <3> QED BY <3>1, <3>2
  <2> QED BY <2>1, <2>5, <2>6
<1>13. CASE ServeCancel(msg)
  <2>1. /\ agent'.inflight = Without(agent.inflight, msg.id) /\ UNCHANGED down
        /\ agent'.handlers = {h \in agent.handlers : ~ (msg.id \in DOMAIN agent.inflight
                                                       /\ h.tag = agent.inflight[msg.id])}
    BY <1>0, <1>13 DEF ServeCancel, AgentOK
  <2>2. /\ DOMAIN agent'.inflight = DOMAIN agent.inflight \ {msg.id}
        /\ \A r \in DOMAIN agent.inflight \ {msg.id} : agent'.inflight[r] = agent.inflight[r]
    BY <1>a, <2>1
  <2>3. \A h \in agent'.handlers : h \in agent.handlers /\ h.id # msg.id
    BY <1>0, <2>1 DEF Correlated, Once
  <2>4. \A h \in agent'.handlers : h.id \in DOMAIN agent'.inflight BY <1>0, <2>2, <2>3 DEF Once
  <2>5. NothingRuns BY <2>2, <2>3, <2>4 DEF NothingRuns
  <2> QED BY <1>3, <2>1, <2>5, QuietOnce, DownKept
<1>14. CASE ServeShutdown(msg) BY <1>8, <1>14 DEF ServeShutdown
<1> QED BY <1>1, <1>10, <1>11, <1>12, <1>13, <1>14

\* Of a request that is asked for now and was not before, nothing has come.
AskedLess == \A r \in Ids : Asked(r)' => Asked(r) \/ Got(r)' = 0

LEMMA OnceStep ==
  ASSUME Own, TypeOK', [Next]_vars, OwnAgent'
  PROVE  Correlated' /\ Once' /\ AskedLess
<1> USE OwnTypes
<1>0. Correlated /\ Once /\ HostOK /\ CallersOK /\ WireOK /\ AgentOK BY DEF Own
<1>a. HostOK' /\ CallersOK' BY TypeParts
<1>b. host'.next \in Nat
  BY <1>a, SessionBounds DEF HostOK
<1>c. NoneAsked /\ NothingSent /\ NothingRuns /\ CallersKept /\ SessionKept
        => Correlated' /\ Once' /\ AskedLess
  BY <1>b, FreshFacts, KeepsOnce DEF NoneAsked, AskedLess
<1>d. /\ \A type \in {"initialize", "execute", "badMiddleware", "cancel", "shutdown"}, r \in Ids :
           /\ ToAgent(type, r) \in HostMessages /\ ToAgent(type, r).sess = host.sess
           /\ ToAgent(type, r).id = r /\ ToAgent(type, r).type = type
      /\ 0 \in Ids
  BY <1>0, MessageFacts, FieldFacts, TypeFacts
<1>e. UNCHANGED <<agent.handlers, agent.inflight>> => NothingRuns BY AgentKept
<1>f. UNCHANGED down => NothingSent BY DownKept
<1>g. /\ UNCHANGED host => host'.sess = host.sess /\ host'.next >= host.next
      /\ UNCHANGED <<kind, host>> => SessionKept
  BY DEF SessionKept
<1>h. ASSUME SessionKept,
             \A r \in Ids : \/ req'[r].terminal = req[r].terminal
                            \/ req'[r].terminal \in {Failure, NoOutcome},
             \A r \in Ids : req'[r].pc = req[r].pc \/ (Ordered => req'[r].pc # "sending")
      PROVE  CallersKept
  BY <1>h, NoAnswers
<1>1. ASSUME NEW r \in Ids, Execute(r) PROVE Correlated' /\ Once' /\ AskedLess
  <2>1. /\ r = host.next /\ UNCHANGED <<kind, down, agent>>
        /\ host' = [host EXCEPT !.next = @ + 1, !.made = @ + 1]
        /\ req' = [req EXCEPT ![r].pc = IF Ordered THEN "waiting" ELSE "sending"]
    BY <1>1 DEF Execute
  <2>2. host'.sess = host.sess /\ host'.next = host.next + 1 BY <1>0, <2>1 DEF HostOK
  <2>3. PICK type \in {"execute", "badMiddleware"} : Post(ToAgent(type, r))
    BY <1>1 DEF Execute
  <2>4. \A q \in Ids : Starts(ToAgent(type, r), q) => q = r BY <1>d DEF Starts
  <2>5. \A q \in Ids : Asked(q) => q < host.next BY <1>0 DEF Correlated
  <2>6. \A q \in Ids : Starts(ToAgent(type, r), q) => ~ Asked(q) BY <2>1, <2>4, <2>5
  <2>7. /\ \A q \in Ids : Asked(q)' => Asked(q) \/ Starts(ToAgent(type, r), q)
        /\ AskedOnce'
        /\ \A m \in posts' : m.sess = host.sess
        /\ \A i \in 1 .. Len(inbox') : inbox'[i].sess = host.sess
        /\ Ordered => posts' = {}
    BY <1>d, <2>3, <2>6, PostFacts
  <2>8. \A q \in Ids : Asked(q)' => q < host'.next /\ (Asked(q) \/ q >= host.next)
    BY <2>1, <2>2, <2>4, <2>5, <2>7
  <2>9. Fresh BY <2>7, <2>8 DEF Fresh
  <2>10. SessionKept BY <2>1, <2>2 DEF SessionKept
  <2>11. /\ \A q \in Ids : req'[q].terminal = req[q].terminal
         /\ \A q \in Ids : req'[q].pc = req[q].pc \/ (Ordered => req'[q].pc # "sending")
    BY <2>1 DEF Request
  <2>12. CallersKept BY <1>h, <2>10, <2>11
  <2>13. AskedLess
    <3>1. req[r] = Idle BY <1>0, <2>1 DEF CallersOK
    <3>2. Got(r)' = 0 BY <2>1, <3>1, OutcomeFacts DEF Got, Request
    <3> QED BY <2>4, <2>7, <3>2 DEF AskedLess
  <2> QED BY <1>b, <1>e, <1>f, <2>1, <2>9, <2>10, <2>12, <2>13, KeepsOnce
<1>2. ASSUME NEW r \in Ids, Settle(r) \/ TakeProgress(r) PROVE Correlated' /\ Once' /\ AskedLess
  <2>1. UNCHANGED <<kind, host, posts, inbox, down, agent>>
    BY <1>2 DEF Settle, TakeProgress
  <2>2. /\ \A q \in Ids : req'[q].terminal = req[q].terminal
        /\ \A q \in Ids : req'[q].pc = req[q].pc \/ req'[q].pc # "sending"
    <3>1. \/ req' = [req EXCEPT ![r].pc = "settled"]
          \/ req' = [req EXCEPT ![r].queued = @ - 1, ![r].seen = @ + 1]
      BY <1>2 DEF Settle, TakeProgress
    <3>2. CASE req' = [req EXCEPT ![r].pc = "settled"] BY <3>2 DEF Request
    <3>3. CASE req' = [req EXCEPT ![r].queued = @ - 1, ![r].seen = @ + 1]
      <4>1. \A q \in Ids : /\ req'[q].terminal = req[q].terminal
                            /\ req'[q].pc = req[q].pc
        BY <3>3 DEF Request
      <4> QED BY <4>1
    <3> QED BY <3>1, <3>2, <3>3
  <2> QED BY <1>c, <1>e, <1>f, <1>g, <1>h, <2>1, <2>2, SameMessages
<1>3. ASSUME NEW r \in Ids, Halt(r) PROVE Correlated' /\ Once' /\ AskedLess
  <2>1. UNCHANGED <<kind, host, down, agent>> /\ req' = [req EXCEPT ![r].pc = "halted"]
    BY <1>3 DEF Halt
  <2>2. /\ \A q \in Ids : req'[q].terminal = req[q].terminal
        /\ \A q \in Ids : req'[q].pc = req[q].pc \/ req'[q].pc # "sending"
    BY <2>1 DEF Request
  <2>3. NoneAsked
    <3>1. CASE UNCHANGED <<posts, inbox>> BY <3>1, SameMessages
    <3>2. CASE Post(ToAgent("cancel", r)) BY <1>d, <3>2, PostNothing, ZenonT(40)
    <3> QED BY <1>3, <3>1, <3>2 DEF Halt, Cleanup
  <2> QED BY <1>c, <1>e, <1>f, <1>g, <1>h, <2>1, <2>2, <2>3
<1>4. ASSUME NEW r \in Ids, HaltPost(r) PROVE Correlated' /\ Once' /\ AskedLess
  <2>1. /\ UNCHANGED <<kind, host, down, inbox, agent>> /\ req' = [req EXCEPT ![r].pc = "halted"]
        /\ req[r].pc = "sending"
    BY <1>4 DEF HaltPost
  <2>2. /\ \A q \in Ids : req'[q].terminal = req[q].terminal
        /\ \A q \in Ids : req'[q].pc = req[q].pc \/ req'[q].pc # "sending"
    BY <2>1 DEF Request
  <2>3. ~ Ordered BY <1>0, <2>1 DEF Once
  <2>4. PICK lost \in SUBSET {m \in posts : m.id = r /\ m.sess = host.sess} :
          posts' = (posts \ lost) \union (IF r \in pending THEN {ToAgent("cancel", r)} ELSE {})
    BY <1>4 DEF HaltPost
  <2>5. posts' \subseteq posts \union {ToAgent("cancel", r)} BY <2>4
  <2>6. NoneAsked
    <3> DEFINE more == {ToAgent("cancel", r)}
    <3>1. more \in SUBSET HostMessages /\ \A m \in more : m.sess = host.sess /\ m.type = "cancel"
      BY <1>d
    <3>2. posts' \subseteq posts \union more BY <2>5
    <3> HIDE DEF more
    <3> QED BY <2>1, <2>3, <3>1, <3>2, DropFacts
  <2> QED BY <1>c, <1>e, <1>f, <1>g, <1>h, <2>1, <2>2, <2>6
<1>5. CASE Receive
  <2>1. /\ UNCHANGED <<kind, posts, inbox, agent>> /\ down # <<>> /\ down' = Tail(down)
    BY <1>5 DEF Receive
  <2>2. Head(down) = down[1] /\ 1 \in 1 .. Len(down) /\ Head(down) \in AgentMessages
    BY <2>1, TailFact
  <2>3. SessionKept
    <3>1. \/ host' = [host EXCEPT !.phase = "open", !.receiver = "loop"]
          \/ host' = [host EXCEPT !.phase = "failed", !.receiver = "ended"]
          \/ host' = [host EXCEPT !.receiver = "ended"]
          \/ host' = host
      BY <1>5 DEF Receive, Initialized, Routed
    <3>2. host'.sess = host.sess /\ host'.next = host.next BY <1>0, <3>1 DEF HostOK
    <3> QED BY <2>1, <3>2 DEF SessionKept
  <2>4. CallersKept
    <3>1. CASE UNCHANGED req BY <1>h, <2>3, <3>1
    <3>2. CASE RejectAll
      <4>1. /\ \A q \in Ids : req'[q].terminal \in {req[q].terminal, Failure}
            /\ \A q \in Ids : req'[q].pc = req[q].pc
        BY <3>2 DEF RejectAll, Request
      <4> QED BY <1>h, <2>3, <4>1
    <3>3. CASE /\ Head(down).type = "progress" /\ Head(down).id \in pending
               /\ req' = [req EXCEPT ![Head(down).id].queued = @ + 1]
      <4>1. /\ \A q \in Ids : req'[q].terminal = req[q].terminal
            /\ \A q \in Ids : req'[q].pc = req[q].pc
        BY <3>3 DEF Request
      <4> QED BY <1>h, <2>3, <4>1
    <3>4. CASE /\ Head(down).type \in {"result", "refused"} /\ Head(down).id \in pending
               /\ Answered(Head(down).id, [type |-> Head(down).type, tag |-> Head(down).tag,
                                           sent |-> Head(down).sent])
      <4> DEFINE r == Head(down).id
                 o == [type |-> Head(down).type, tag |-> Head(down).tag, sent |-> Head(down).sent]
      <4>1. r \in Ids /\ o.tag = Head(down).tag BY <3>4
      <4>2. Answers(down[1], r) BY <2>2, <3>4 DEF Answers
      <4>3. o.tag = Tag(r) BY <1>0, <2>2, <4>1, <4>2 DEF Correlated
      <4>4. req' = [req EXCEPT ![r].terminal = o] BY <3>4 DEF Answered
      <4> HIDE DEF o, r
      <4>5. /\ \A q \in Ids : q # r => req'[q].terminal = req[q].terminal
            /\ req'[r].terminal = o
            /\ \A q \in Ids : req'[q].pc = req[q].pc
        BY <4>1, <4>4 DEF Request
      <4>6. \A q : Tag(q)' = Tag(q) BY <2>3 DEF SessionKept, Tag
      <4>7. OwnAnswer' BY <1>0, <4>3, <4>5, <4>6 DEF Correlated, OwnAnswer
      <4> QED BY <1>0, <4>5, <4>7 DEF CallersKept, Once
    <3> QED BY <1>5, <3>1, <3>2, <3>3, <3>4 DEF Receive, Initialized, Routed
  <2> QED BY <1>c, <1>e, <2>1, <2>3, <2>4, SameMessages, DownKept
<1>6. CASE ReceiveEnd
  <2>1. UNCHANGED <<kind, posts, inbox, down, agent>> BY <1>6 DEF ReceiveEnd
  <2>2. SessionKept
    <3>1. \/ host' = [host EXCEPT !.phase = "failed", !.receiver = "ended"]
          \/ host' = [host EXCEPT !.receiver = "ended"]
      BY <1>6 DEF ReceiveEnd
    <3>2. host'.sess = host.sess /\ host'.next = host.next BY <1>0, <3>1 DEF HostOK
    <3> QED BY <2>1, <3>2 DEF SessionKept
  <2>3. /\ \A q \in Ids : req'[q].terminal \in {req[q].terminal, Failure}
        /\ \A q \in Ids : req'[q].pc = req[q].pc
    BY <1>6, ZenonT(40) DEF ReceiveEnd, RejectAll, Request
  <2> QED BY <1>c, <1>e, <1>f, <1>h, <2>1, <2>2, <2>3, SameMessages
<1>7. ASSUME NEW msg \in posts, PostArrives(msg) PROVE Correlated' /\ Once' /\ AskedLess
  <2>1. /\ UNCHANGED <<kind, host, down, agent>> /\ posts' = posts \ {msg}
        /\ inbox' = Append(inbox, msg)
        /\ req' = req \/ req' = [req EXCEPT ![msg.id].pc = "waiting"]
    BY <1>7 DEF PostArrives
  <2>0. msg.id \in Ids OBVIOUS
  <2>2. /\ \A q \in Ids : req'[q].terminal = req[q].terminal
        /\ \A q \in Ids : req'[q].pc = req[q].pc \/ req'[q].pc # "sending"
    <3>1. CASE req' = req BY <3>1
    <3>2. CASE req' = [req EXCEPT ![msg.id].pc = "waiting"] BY <2>0, <3>2 DEF Request
    <3> QED BY <2>1, <3>1, <3>2
  <2>3. NoneAsked
    <3> DEFINE more == {}
    <3>1. posts' = (posts \ {msg}) \union more /\ more \in SUBSET HostMessages
          /\ \A m \in more : m.sess = host.sess /\ m.type = "cancel"
      BY <2>1
    <3> HIDE DEF more
    <3> QED BY <2>1, <3>1, ArriveFacts
  <2> QED BY <1>c, <1>e, <1>f, <1>g, <1>h, <2>1, <2>2, <2>3
<1>8. ASSUME NEW msg \in posts, PostFails(msg) PROVE Correlated' /\ Once' /\ AskedLess
  <2>0. msg.id \in Ids /\ msg \in HostMessages OBVIOUS
  <2>1. /\ UNCHANGED <<kind, down, agent>> /\ (inbox' = inbox \/ inbox' = Append(inbox, msg))
        /\ \/ posts' = (posts \ {msg}) \union {}
           \/ posts' = (posts \ {msg}) \union {ToAgent("cancel", msg.id)}
        /\ \/ UNCHANGED req
           \/ req' = [req EXCEPT ![msg.id].pc = "settled", ![msg.id].terminal =
                        IF @ = NoOutcome THEN Failure ELSE @]
    BY <1>8 DEF PostFails
  <2>2. SessionKept BY <1>0, <1>8 DEF PostFails, SessionKept, HostOK
  <2>3. /\ \A q \in Ids : req'[q].terminal \in {req[q].terminal, Failure}
        /\ \A q \in Ids : req'[q].pc = req[q].pc \/ req'[q].pc # "sending"
    <3>1. CASE UNCHANGED req BY <3>1
    <3>2. CASE req' = [req EXCEPT ![msg.id].pc = "settled", ![msg.id].terminal =
                         IF @ = NoOutcome THEN Failure ELSE @]
      BY <2>0, <3>2, SMTT(40) DEF Request
    <3> QED BY <2>1, <3>1, <3>2
  <2>4. CASE posts' = (posts \ {msg}) \union {}
    <3> DEFINE more == {}
    <3>1. posts' = (posts \ {msg}) \union more /\ more \in SUBSET HostMessages
          /\ \A m \in more : m.sess = host.sess /\ m.type = "cancel"
      BY <2>4
    <3> HIDE DEF more
    <3>2. NoneAsked BY <2>1, <3>1, ArriveFacts
    <3> QED BY <1>c, <1>e, <1>f, <1>h, <2>1, <2>2, <2>3, <3>2
  <2>5. CASE posts' = (posts \ {msg}) \union {ToAgent("cancel", msg.id)}
    <3> DEFINE more == {ToAgent("cancel", msg.id)}
    <3>1. more \in SUBSET HostMessages /\ \A m \in more : m.sess = host.sess /\ m.type = "cancel"
      BY <1>d, <2>0
    <3>2. posts' = (posts \ {msg}) \union more BY <2>5
    <3> HIDE DEF more
    <3>3. NoneAsked BY <2>1, <3>1, <3>2, ArriveFacts
    <3> QED BY <1>c, <1>e, <1>f, <1>h, <2>1, <2>2, <2>3, <3>3
  <2> QED BY <2>1, <2>4, <2>5
<1>9. CASE CloseSession
  <2>1. UNCHANGED <<kind, req, down, agent>> /\ Post(ToAgent("shutdown", 0))
    BY <1>9 DEF CloseSession
  <2>2. SessionKept BY <1>0, <1>9 DEF CloseSession, SessionKept, HostOK
  <2>3. NoneAsked BY <1>d, <2>1, PostNothing, ZenonT(40)
  <2> QED BY <1>c, <1>e, <1>f, <1>h, <2>1, <2>2, <2>3
<1>10. ASSUME Disconnected, UNCHANGED posts PROVE NoneAsked /\ NothingSent /\ NothingRuns
  <2>1. down' = <<>> BY <1>10 DEF Disconnected
  <2>2. CASE Persistent
    <3>1. UNCHANGED inbox /\ UNCHANGED <<agent.handlers, agent.inflight>>
      BY <1>0, <1>10, <2>2 DEF Disconnected, AgentOK
    <3> QED BY <1>10, <1>e, <2>1, <3>1, SameMessages, DownKept
  <2>3. CASE ~ Persistent
    <3>1. inbox' = <<>> /\ agent'.handlers = {} /\ agent'.inflight = << >>
      BY <1>10, <2>3 DEF Disconnected, FreshAgent
    <3>2. NoneAsked
      <4>1. posts = {} BY <1>0, <2>3 DEF Once, Ordered, Persistent
      <4> QED BY <1>10, <3>1, <4>1 DEF NoneAsked, Asked, AskedOnce
    <3> QED BY <2>1, <3>1, <3>2, AgentKept, DownKept
  <2> QED BY <2>2, <2>3
<1>11. CASE Disconnect
  BY <1>c, <1>g, <1>h, <1>10, <1>11 DEF Disconnect
<1>12. CASE HostDies
  <2>1. UNCHANGED <<kind, posts>> /\ req' = [r \in Ids |-> Idle] BY <1>12 DEF HostDies
  <2>2. SessionKept BY <1>0, <1>12 DEF HostDies, SessionKept, HostOK
  <2>3. CallersKept BY <1>h, <2>1, <2>2, OutcomeFacts
  <2>4. NoneAsked /\ NothingSent /\ NothingRuns
    <3>1. CASE Disconnected BY <1>10, <2>1, <3>1
    <3>2. CASE UNCHANGED <<link, down, agent, inbox>>
      BY <1>e, <1>f, <2>1, <3>2, SameMessages
    <3> QED BY <1>12, <3>1, <3>2 DEF HostDies
  <2> QED BY <1>c, <2>2, <2>3, <2>4
<1>13. CASE Connect
  <2>1. kind' = kind /\ host'.sess = host.sess + 1 /\ host'.next = 0
    BY <1>13 DEF Connect, FreshHost
  <2>2. ~ Persistent
    <3>1. host'.sess # 1 BY <2>1
    <3> QED BY <2>1, <3>1 DEF OwnAgent, Persistent
  <2>3. posts = {} BY <1>0, <2>2 DEF Once, Ordered, Persistent
  <2> DEFINE hello == [type |-> "initialize", id |-> 0, sess |-> host.sess + 1]
  <2>4. /\ agent'.handlers = {} /\ agent'.inflight = << >> /\ inbox' = <<hello>> /\ posts' = {}
        /\ req' = [r \in Ids |-> Idle] /\ down' = <<>>
    BY <1>13, <2>2, <2>3 DEF Connect, FreshAgent
  <2>5. Len(inbox') = 1 /\ inbox'[1] = hello BY <2>4
  <2>6. hello.type = "initialize" /\ hello.sess = host'.sess BY <2>1
  <2> HIDE DEF hello
  <2>7. \A r \in Ids : ~ Asked(r)' BY <2>4, <2>5, <2>6 DEF Asked, Starts
  <2>8. AskedOnce' BY <2>4, <2>5, <2>6 DEF AskedOnce, Starts
  <2>9. OwnAnswer' BY <2>4, OutcomeFacts DEF OwnAnswer
  <2>10. \A r \in Ids : req'[r].pc # "sending" BY <2>4, OutcomeFacts
  <2>11. Correlated' BY <2>4, <2>5, <2>6, <2>7, <2>9 DEF Correlated
  <2>12. Once' BY <2>4, <2>7, <2>8, <2>10 DEF Once
  <2> QED BY <2>7, <2>11, <2>12 DEF AskedLess
<1>14. CASE Serve
  <2>1. NoneAsked BY <1>14, ReadFacts DEF Serve
  <2> QED BY <1>14, <2>1, ServeOnce DEF NoneAsked, AskedLess
<1>15. CASE ServeEnd
  <2>1. UNCHANGED <<kind, host, req, posts, inbox>> /\ Stopped BY <1>15 DEF ServeEnd
  <2>2. UNCHANGED down BY <2>1 DEF Stopped
  <2> QED BY <1>c, <1>f, <1>g, <1>h, <2>1, <2>2, SameMessages, AgentKept
<1>16. ASSUME NEW h \in agent.handlers, HandlerEnds(h) \/ HandlerReports(h)
       PROVE  Correlated' /\ Once' /\ AskedLess
  <2>1. NoneAsked BY <1>16, SameMessages DEF HandlerEnds, HandlerReports
  <2> QED BY <1>16, <2>1, EndsOnce, ReportsOnce DEF NoneAsked, AskedLess
<1>17. ASSUME NEW n \in agent.stale, CloseEvent(n) PROVE Correlated' /\ Once' /\ AskedLess
  <2>1. UNCHANGED <<kind, host, req, posts, inbox, down, agent.handlers, agent.inflight>>
    BY <1>0, <1>17 DEF CloseEvent, AgentOK
  <2> QED BY <1>c, <1>e, <1>f, <1>g, <1>h, <2>1, SameMessages
<1>18. CASE LinkBreaks
  <2>1. UNCHANGED <<kind, host, req, posts, inbox, agent.handlers, agent.inflight>>
    BY <1>0, <1>18 DEF LinkBreaks, AgentOK
  <2>2. NothingSent BY <1>18, DownKept DEF LinkBreaks
  <2> QED BY <1>c, <1>e, <1>g, <1>h, <2>1, <2>2, SameMessages
<1>19. CASE AgentGarbles
  <2>1. UNCHANGED <<kind, host, req, posts, inbox, agent>> BY <1>19 DEF AgentGarbles
  <2>2. NothingSent
    <3> DEFINE msg == ToHost("malformed", 0, <<0, 0>>, 0)
    <3>1. down' = Append(down, msg) BY <1>19 DEF AgentGarbles
    <3>2. msg.type = "malformed" /\ msg \in AgentMessages BY <1>0, FieldFacts, MessageFacts
    <3> HIDE DEF msg
    <3>3. /\ Len(down') = Len(down) + 1 /\ down'[Len(down) + 1] = msg
          /\ \A i \in 1 .. Len(down) : down'[i] = down[i]
      BY <3>1, <3>2, AppendFact
    <3>4. \A i \in 1 .. Len(down') : i \in 1 .. Len(down) \/ down'[i] = msg BY <3>3
    <3>5. \A r \in Ids : ~ Answers(msg, r) /\ ~ Reports(msg, r) BY <3>2 DEF Answers, Reports
    <3> QED BY <3>3, <3>4, <3>5 DEF NothingSent
  <2> QED BY <1>c, <1>e, <1>g, <1>h, <2>1, <2>2, SameMessages
<1>20. CASE UNCHANGED vars
  BY <1>c, <1>e, <1>f, <1>g, <1>h, <1>20, SameMessages DEF vars
<1> QED
  BY <1>1, <1>2, <1>3, <1>4, <1>5, <1>6, <1>7, <1>8, <1>9, <1>11, <1>12, <1>13,
     <1>14, <1>15, <1>16, <1>17, <1>18, <1>19, <1>20
  DEF Next

-----------------------------------------------------------------------------
(* The order of the reports *)

LEMMA SentNat ==
  ASSUME Own
  PROVE  \A i \in 1 .. Len(down) : down[i].sent \in Nat
<1>1. \A msg \in AgentMessages : msg.sent \in Nat BY SessionBounds DEF AgentMessages
<1> QED BY <1>1, OwnTypes

\* ReportedBefore and InOrder after a step.
Later(r, n, i) ==
  n = Got(r)' \/ \E j \in 1 .. i - 1 : Reports(down'[j], r) /\ down'[j].sent = n
LaterReport(r, i) ==
  /\ down'[i].sent > Got(r)' /\ Later(r, down'[i].sent - 1, i)
  /\ \A j \in 1 .. i - 1 : Reports(down'[j], r) => down'[j].sent < down'[i].sent
LaterAnswer(r, i) ==
  /\ down'[i].type = "result" => down'[i].sent >= Got(r)' /\ Later(r, down'[i].sent, i)
  /\ \A j \in 1 .. Len(down') : Reports(down'[j], r) => j < i /\ down'[j].sent <= down'[i].sent
LaterHandler(r, h) ==
  /\ h.sent >= Got(r)' /\ Later(r, h.sent, Len(down') + 1)
  /\ \A j \in 1 .. Len(down') : Reports(down'[j], r) => down'[j].sent <= h.sent

LEMMA LaterOrder ==
  ASSUME NEW r \in Ids,
         \A i \in 1 .. Len(down') : Reports(down'[i], r) => LaterReport(r, i),
         \A i \in 1 .. Len(down') : Answers(down'[i], r) => LaterAnswer(r, i),
         \A h \in agent'.handlers : h.id = r /\ link' = "open" => LaterHandler(r, h)
  PROVE  InOrder(r)'
BY DEF InOrder, ReportedBefore, Later, LaterReport, LaterAnswer, LaterHandler

\* The host takes the first k of the agent's messages, a broken connection
\* drops the last ones, and handlers may go: what is left is in order.
LEMMA ShiftOrder ==
  ASSUME Own, NEW r \in Ids, InOrder(r), NEW k \in {0, 1},
         Len(down') \in Nat, Len(down') + k <= Len(down),
         \A i \in 1 .. Len(down') : down'[i] = down[i + k],
         link' = "open" => /\ link = "open" /\ Len(down') + k = Len(down)
                           /\ agent'.handlers \subseteq agent.handlers,
         k = 1 /\ Reports(down[1], r) => Got(r)' = Got(r) + 1,
         ~ (k = 1 /\ Reports(down[1], r)) => Got(r)' = Got(r)
  PROVE  InOrder(r)'
<1> DEFINE g == Got(r)
<1>1. g \in Nat /\ Len(down) \in Nat BY OwnTypes
<1>a. Got(r)' \in Nat /\ Got(r)' >= g BY <1>1
<1>2. \A i \in 1 .. Len(down) : down[i].sent \in Nat BY SentNat
<1>3. \A i \in 1 .. Len(down') : i + k \in 1 .. Len(down) BY <1>1
<1>4. \A i \in 1 .. Len(down) : Reports(down[i], r) =>
        /\ down[i].sent > g /\ ReportedBefore(r, down[i].sent - 1, i)
        /\ \A j \in 1 .. i - 1 : Reports(down[j], r) => down[j].sent < down[i].sent
  BY DEF InOrder
<1>5. \A i \in 1 .. Len(down) : Answers(down[i], r) =>
        /\ down[i].type = "result" => down[i].sent >= g /\ ReportedBefore(r, down[i].sent, i)
        /\ \A j \in 1 .. Len(down) : Reports(down[j], r) => j < i /\ down[j].sent <= down[i].sent
  BY DEF InOrder
<1>6. \A h \in agent.handlers : h.id = r /\ link = "open" =>
        /\ h.sent >= g /\ ReportedBefore(r, h.sent, Len(down) + 1)
        /\ \A j \in 1 .. Len(down) : Reports(down[j], r) => down[j].sent <= h.sent
  BY DEF InOrder
<1>7. ASSUME k = 1, Reports(down[1], r)
      PROVE  1 \in 1 .. Len(down) /\ down[1].sent = Got(r)'
  <2>1. 1 \in 1 .. Len(down) BY <1>1, <1>7
  <2>2. down[1].sent - 1 = g BY <1>4, <1>7, <2>1 DEF ReportedBefore
  <2> QED BY <1>1, <1>2, <1>7, <2>1, <2>2, SMTT(40)
<1>8. ASSUME NEW m \in Nat, NEW i \in 1 .. Len(down') + 1, m >= Got(r)',
             ReportedBefore(r, m, i + k)
      PROVE  Later(r, m, i)
  <2>1. CASE m = g
    BY <1>1, <1>8, <2>1 DEF Later
  <2>2. ASSUME NEW j \in 1 .. i + k - 1, Reports(down[j], r), down[j].sent = m
        PROVE  Later(r, m, i)
    <3>1. CASE k = 1 /\ j = 1 BY <1>7, <2>2, <3>1 DEF Later
    <3>2. CASE ~ (k = 1 /\ j = 1)
      <4>1. j - k \in 1 .. i - 1 /\ j - k \in 1 .. Len(down') /\ (j - k) + k = j BY <3>2
      <4>2. down'[j - k] = down[j] BY <4>1
      <4> QED BY <2>2, <4>1, <4>2 DEF Later, Reports
    <3> QED BY <3>1, <3>2
  <2> QED BY <1>8, <2>1, <2>2 DEF ReportedBefore
<1> HIDE DEF g
<1>b. \A j \in 1 .. Len(down') : Reports(down'[j], r) => Reports(down[j + k], r)
  OBVIOUS
<1>9. ASSUME NEW i \in 1 .. Len(down'), Reports(down'[i], r) PROVE LaterReport(r, i)
  <2>1. i + k \in 1 .. Len(down) /\ down'[i] = down[i + k] /\ Reports(down[i + k], r)
    BY <1>3, <1>9
  <2>2. down[i + k].sent > Got(r)'
    <3>1. CASE k = 1 /\ Reports(down[1], r)
      <4>1. 1 \in 1 .. (i + k) - 1 BY <3>1
      <4>2. down[1].sent < down[i + k].sent BY <1>4, <2>1, <3>1, <4>1
      <4>3. down[1].sent = Got(r)' BY <1>7, <3>1
      <4> QED BY <1>a, <1>2, <2>1, <4>2, <4>3
    <3>2. CASE ~ (k = 1 /\ Reports(down[1], r))
      BY <1>4, <2>1, <3>2 DEF g
    <3> QED BY <3>1, <3>2
  <2>3. down[i + k].sent - 1 \in Nat /\ down[i + k].sent - 1 >= Got(r)'
    BY <1>a, <1>2, <2>1, <2>2
  <2>4. ReportedBefore(r, down[i + k].sent - 1, i + k) BY <1>4, <2>1
  <2>5. i \in 1 .. Len(down') + 1 OBVIOUS
  <2>6. Later(r, down[i + k].sent - 1, i) BY <1>8, <2>3, <2>4, <2>5
  <2>7. ASSUME NEW j \in 1 .. i - 1, Reports(down'[j], r) PROVE down'[j].sent < down'[i].sent
    <3>1. j \in 1 .. Len(down') /\ j + k \in 1 .. (i + k) - 1 OBVIOUS
    <3>2. down'[j] = down[j + k] BY <3>1
    <3> QED BY <1>4, <2>1, <2>7, <3>1, <3>2
  <2> QED BY <2>1, <2>2, <2>6, <2>7 DEF LaterReport
<1>10. ASSUME NEW i \in 1 .. Len(down'), Answers(down'[i], r) PROVE LaterAnswer(r, i)
  <2>1. i + k \in 1 .. Len(down) /\ down'[i] = down[i + k] /\ Answers(down[i + k], r)
    BY <1>3, <1>10
  <2>2. ASSUME down[i + k].type = "result"
        PROVE  down[i + k].sent >= Got(r)' /\ Later(r, down[i + k].sent, i)
    <3>1. down[i + k].sent >= g /\ ReportedBefore(r, down[i + k].sent, i + k) BY <1>5, <2>1, <2>2
    <3>2. down[i + k].sent >= Got(r)'
      <4>1. CASE k = 1 /\ Reports(down[1], r)
        <5>1. down[1].sent <= down[i + k].sent BY <1>5, <1>7, <2>1, <4>1
        <5> QED BY <1>7, <4>1, <5>1
      <4>2. CASE ~ (k = 1 /\ Reports(down[1], r)) BY <3>1, <4>2 DEF g
      <4> QED BY <4>1, <4>2
    <3>3. i \in 1 .. Len(down') + 1 /\ down[i + k].sent \in Nat BY <1>2, <2>1
    <3> QED BY <1>8, <3>1, <3>2, <3>3
  <2>3. ASSUME NEW j \in 1 .. Len(down'), Reports(down'[j], r)
        PROVE  j < i /\ down'[j].sent <= down'[i].sent
    <3>1. j + k \in 1 .. Len(down) /\ down'[j] = down[j + k] /\ Reports(down[j + k], r)
      BY <1>3, <2>3
    <3>2. j + k < i + k /\ down[j + k].sent <= down[i + k].sent BY <1>5, <2>1, <3>1
    <3> QED BY <2>1, <3>1, <3>2
  <2> QED BY <2>1, <2>2, <2>3 DEF LaterAnswer
<1>11. ASSUME NEW h \in agent'.handlers, h.id = r, link' = "open" PROVE LaterHandler(r, h)
  <2>1. /\ h \in agent.handlers /\ link = "open" /\ Len(down') + k = Len(down) /\ h.sent \in Nat
    BY <1>11, OwnTypes
  <2>2. /\ h.sent >= g /\ ReportedBefore(r, h.sent, Len(down) + 1)
        /\ \A j \in 1 .. Len(down) : Reports(down[j], r) => down[j].sent <= h.sent
    BY <1>6, <1>11, <2>1
  <2>3. h.sent >= Got(r)'
    <3>1. CASE k = 1 /\ Reports(down[1], r)
      <4>1. down[1].sent <= h.sent BY <1>7, <2>2, <3>1
      <4> QED BY <1>7, <3>1, <4>1
    <3>2. CASE ~ (k = 1 /\ Reports(down[1], r)) BY <2>2, <3>2 DEF g
    <3> QED BY <3>1, <3>2
  <2>4. Len(down') + 1 \in 1 .. Len(down') + 1 /\ (Len(down') + 1) + k = Len(down) + 1
    BY <2>1
  <2>5. Later(r, h.sent, Len(down') + 1) BY <1>8, <2>1, <2>2, <2>3, <2>4
  <2>6. ASSUME NEW j \in 1 .. Len(down'), Reports(down'[j], r) PROVE down'[j].sent <= h.sent
    <3>1. j + k \in 1 .. Len(down) /\ down'[j] = down[j + k] /\ Reports(down[j + k], r)
      BY <1>3, <2>6
    <3> QED BY <2>2, <3>1
  <2> QED BY <2>3, <2>5, <2>6 DEF LaterHandler
<1> QED BY <1>9, <1>10, <1>11, LaterOrder

\* A message is added, once or more, or lost.
Added(msg) ==
  /\ Len(down') \in Nat /\ Len(down') >= Len(down)
  /\ \A i \in 1 .. Len(down) : i \in 1 .. Len(down') /\ down'[i] = down[i]
  /\ \A i \in 1 .. Len(down') : i \in 1 .. Len(down) \/ (i > Len(down) /\ down'[i] = msg)

LEMMA AddedBefore ==
  ASSUME Own, NEW r \in Ids, NEW msg, Added(msg), Got(r)' = Got(r), NEW n, NEW i \in Nat,
         NEW k \in Nat, k <= i, k <= Len(down) + 1, ReportedBefore(r, n, k)
  PROVE  Later(r, n, i)
<1>1. CASE n = Got(r) BY <1>1 DEF Later
<1>2. ASSUME NEW j \in 1 .. k - 1, Reports(down[j], r), down[j].sent = n PROVE Later(r, n, i)
  <2>1. j \in 1 .. Len(down) /\ j \in 1 .. i - 1 BY OwnTypes
  <2>2. down'[j] = down[j] BY <2>1 DEF Added
  <2> QED BY <1>2, <2>1, <2>2 DEF Later
<1> QED BY <1>1, <1>2 DEF ReportedBefore

\* A handler that goes on stays ahead of its reports.
LEMMA AddedHandler ==
  ASSUME Own, NEW r \in Ids, InOrder(r), NEW msg, Added(msg), Got(r)' = Got(r),
         ~ Reports(msg, r), NEW h \in agent.handlers, h.id = r, link = "open"
  PROVE  LaterHandler(r, h)
<1>1. Len(down) \in Nat /\ Len(down') \in Nat /\ Len(down') >= Len(down)
  BY OwnTypes DEF Added
<1>2. /\ h.sent >= Got(r) /\ ReportedBefore(r, h.sent, Len(down) + 1)
      /\ \A j \in 1 .. Len(down) : Reports(down[j], r) => down[j].sent <= h.sent
  BY DEF InOrder
<1>3. Later(r, h.sent, Len(down') + 1)
  <2>1. /\ Len(down) + 1 <= Len(down') + 1 /\ Len(down) + 1 \in Nat /\ Len(down') + 1 \in Nat
        /\ Len(down) + 1 <= Len(down) + 1
    BY <1>1
  <2> QED BY <1>2, <2>1, AddedBefore
<1>4. \A j \in 1 .. Len(down') : Reports(down'[j], r) => down'[j].sent <= h.sent
  BY <1>2 DEF Added
<1> QED BY <1>2, <1>3, <1>4 DEF LaterHandler

LEMMA AddedOrder ==
  ASSUME Own, NEW r \in Ids, InOrder(r), NEW msg, Added(msg), Got(r)' = Got(r),
         Reports(msg, r) =>
           /\ Len(down') <= Len(down) + 1 /\ msg.sent > Got(r)
           /\ ReportedBefore(r, msg.sent - 1, Len(down) + 1)
           /\ \A j \in 1 .. Len(down) : /\ Reports(down[j], r) => down[j].sent < msg.sent
                                        /\ ~ Answers(down[j], r),
         Answers(msg, r) =>
           /\ msg.type = "result" =>
                msg.sent >= Got(r) /\ ReportedBefore(r, msg.sent, Len(down) + 1)
           /\ \A j \in 1 .. Len(down) : Reports(down[j], r) => down[j].sent <= msg.sent,
         \A h \in agent'.handlers : h.id = r /\ link' = "open" => LaterHandler(r, h)
  PROVE  InOrder(r)'
<1>1. Len(down) \in Nat /\ Len(down') \in Nat /\ Len(down') >= Len(down)
  BY OwnTypes DEF Added
<1>2. \A i \in 1 .. Len(down') : i \in 1 .. Len(down) \/ (i > Len(down) /\ down'[i] = msg)
  BY DEF Added
<1>3. \A i \in 1 .. Len(down) : i \in 1 .. Len(down') /\ down'[i] = down[i] BY DEF Added
<1>4. ~ (Reports(msg, r) /\ Answers(msg, r)) BY DEF Reports, Answers
<1>5. ASSUME NEW i \in 1 .. Len(down'), Reports(down'[i], r) PROVE LaterReport(r, i)
  <2>1. CASE i \in 1 .. Len(down)
    <3>1. /\ down[i].sent > Got(r) /\ ReportedBefore(r, down[i].sent - 1, i)
          /\ \A j \in 1 .. i - 1 : Reports(down[j], r) => down[j].sent < down[i].sent
          /\ down'[i] = down[i]
      BY <1>3, <1>5, <2>1 DEF InOrder
    <3>2. i \in Nat /\ i <= i /\ i <= Len(down) + 1 BY <1>1, <2>1
    <3>3. Later(r, down[i].sent - 1, i) BY <3>1, <3>2, AddedBefore
    <3>4. \A j \in 1 .. i - 1 : down'[j] = down[j] BY <1>1, <1>3, <2>1
    <3> QED BY <3>1, <3>3, <3>4 DEF LaterReport
  <2>2. CASE i \notin 1 .. Len(down)
    <3>1. i = Len(down) + 1 /\ down'[i] = msg /\ Reports(msg, r) BY <1>1, <1>2, <1>5, <2>2
    <3>2. i \in Nat /\ Len(down) + 1 <= i /\ Len(down) + 1 \in Nat /\ Len(down) + 1 <= Len(down) + 1
      BY <1>1, <3>1
    <3>3. Later(r, msg.sent - 1, i) BY <3>1, <3>2, AddedBefore
    <3>4. \A j \in 1 .. i - 1 : down'[j] = down[j] /\ j \in 1 .. Len(down) BY <1>1, <1>3, <3>1
    <3> QED BY <3>1, <3>3, <3>4 DEF LaterReport
  <2> QED BY <2>1, <2>2
<1>6. ASSUME NEW i \in 1 .. Len(down'), Answers(down'[i], r) PROVE LaterAnswer(r, i)
  <2>1. CASE i \in 1 .. Len(down)
    <3>1. /\ down[i].type = "result" => down[i].sent >= Got(r) /\ ReportedBefore(r, down[i].sent, i)
          /\ \A j \in 1 .. Len(down) : Reports(down[j], r) => j < i /\ down[j].sent <= down[i].sent
          /\ down'[i] = down[i] /\ Answers(down[i], r)
      BY <1>3, <1>6, <2>1 DEF InOrder
    <3>2. i \in Nat /\ i <= i /\ i <= Len(down) + 1 BY <1>1, <2>1
    <3>3. down[i].type = "result" => Later(r, down[i].sent, i) BY <3>1, <3>2, AddedBefore
    <3>4. ~ Reports(msg, r) BY <2>1, <3>1
    <3>5. \A j \in 1 .. Len(down') :
            Reports(down'[j], r) => j < i /\ down'[j].sent <= down'[i].sent
      BY <1>2, <1>3, <3>1, <3>4
    <3> QED BY <3>1, <3>3, <3>5 DEF LaterAnswer
  <2>2. CASE i \notin 1 .. Len(down)
    <3>1. i > Len(down) /\ down'[i] = msg /\ Answers(msg, r) BY <1>2, <1>6, <2>2
    <3>2. i \in Nat /\ Len(down) + 1 <= i /\ Len(down) + 1 \in Nat /\ Len(down) + 1 <= Len(down) + 1
      BY <1>1, <3>1
    <3>3. msg.type = "result" => Later(r, msg.sent, i) BY <3>1, <3>2, AddedBefore
    <3>4. \A j \in 1 .. Len(down') :
            Reports(down'[j], r) => j < i /\ down'[j].sent <= down'[i].sent
      BY <1>1, <1>2, <1>3, <1>4, <3>1
    <3> QED BY <3>1, <3>3, <3>4 DEF LaterAnswer
  <2> QED BY <2>1, <2>2
<1> QED BY <1>5, <1>6, LaterOrder

\* Nothing is taken by the callers or given to them.
CallersSame ==
  \A r \in Ids : /\ Got(r)' = Got(r)
                 /\ req'[r].terminal \in {req[r].terminal, Failure, NoOutcome}

LEMMA CountedSame ==
  ASSUME Reported, AskedLess, CallersSame
  PROVE  \A r \in Ids : /\ req'[r].terminal.type = "result" => req'[r].terminal.sent = Got(r)'
                        /\ Asked(r)' => Got(r)' = 0
BY OutcomeFacts DEF Reported, AskedLess, CallersSame

\* Nothing is sent.
LEMMA KeptOrder ==
  ASSUME Own, NEW r \in Ids, InOrder(r), UNCHANGED down, Got(r)' = Got(r),
         link' = "open" => link = "open" /\ agent'.handlers \subseteq agent.handlers
  PROVE  InOrder(r)'
<1>1. PICK k \in {0, 1} : k = 0 OBVIOUS
<1>2. /\ Len(down') \in Nat /\ Len(down') + k <= Len(down)
      /\ \A i \in 1 .. Len(down') : down'[i] = down[i + k]
      /\ link' = "open" => /\ link = "open" /\ Len(down') + k = Len(down)
                           /\ agent'.handlers \subseteq agent.handlers
  BY <1>1, OwnTypes
<1> QED BY <1>1, <1>2, ShiftOrder

LEMMA QuietReported ==
  ASSUME Own, Reported, AskedLess, CallersSame, UNCHANGED down,
         pending' \subseteq pending,
         link' = "open" => link = "open" /\ agent'.handlers \subseteq agent.handlers
  PROVE  Reported'
<1>1. ASSUME NEW r \in pending' PROVE InOrder(r)'
  <2>1. r \in Ids /\ InOrder(r) /\ Got(r)' = Got(r)
    BY <1>1, OwnTypes DEF Reported, CallersSame
  <2> QED BY <2>1, KeptOrder
<1> QED BY <1>1, CountedSame DEF Reported

\* A message is sent, once or more.
LEMMA SentReported ==
  ASSUME Own, Reported, AskedLess, UNCHANGED <<req, pending, link>>, NEW msg, Added(msg),
         ~ Reaches => UNCHANGED down, link = "open" => Reaches,
         link = "open" => \A r \in pending :
           /\ Reports(msg, r) =>
                /\ Len(down') <= Len(down) + 1 /\ msg.sent > Got(r)
                /\ ReportedBefore(r, msg.sent - 1, Len(down) + 1)
                /\ \A j \in 1 .. Len(down) : /\ Reports(down[j], r) => down[j].sent < msg.sent
                                             /\ ~ Answers(down[j], r)
           /\ Answers(msg, r) =>
                /\ msg.type = "result" =>
                     msg.sent >= Got(r) /\ ReportedBefore(r, msg.sent, Len(down) + 1)
                /\ \A j \in 1 .. Len(down) : Reports(down[j], r) => down[j].sent <= msg.sent
           /\ \A h \in agent'.handlers : h.id = r => LaterHandler(r, h)
  PROVE  Reported'
<1>1. CallersSame BY DEF CallersSame, Got
<1>2. ASSUME NEW r \in pending' PROVE InOrder(r)'
  <2>1. r \in Ids /\ r \in pending /\ InOrder(r) /\ Got(r)' = Got(r)
    BY <1>1, <1>2, OwnTypes DEF Reported, CallersSame
  <2>2. CASE link = "open"
    <3>1. /\ Reports(msg, r) =>
                /\ Len(down') <= Len(down) + 1 /\ msg.sent > Got(r)
                /\ ReportedBefore(r, msg.sent - 1, Len(down) + 1)
                /\ \A j \in 1 .. Len(down) : /\ Reports(down[j], r) => down[j].sent < msg.sent
                                             /\ ~ Answers(down[j], r)
          /\ Answers(msg, r) =>
                /\ msg.type = "result" =>
                     msg.sent >= Got(r) /\ ReportedBefore(r, msg.sent, Len(down) + 1)
                /\ \A j \in 1 .. Len(down) : Reports(down[j], r) => down[j].sent <= msg.sent
          /\ \A h \in agent'.handlers : h.id = r => LaterHandler(r, h)
      BY <2>1, <2>2
    <3> QED BY <2>1, <3>1, AddedOrder
  <2>3. CASE link # "open"
    <3>1. UNCHANGED down BY <2>3 DEF Reaches
    <3>2. /\ Len(down') \in Nat /\ Len(down') + 0 <= Len(down)
          /\ \A i \in 1 .. Len(down') : down'[i] = down[i + 0]
      BY <3>1, OwnTypes
    <3> QED BY <2>1, <2>3, <3>2, ShiftOrder
  <2> QED BY <2>2, <2>3
<1> QED BY <1>1, <1>2, CountedSame DEF Reported

\* An agent of its own hears of the connection as long as it can send.
LEMMA ReachFact ==
  ASSUME Own, CanSend, link = "open"
  PROVE  Reaches
BY DEF Own, OwnAgent, Persistent, CanSend, Reaches, AgentOK, HostOK

\* What ends all handlers or a connection of its own leaves the order.
LEMMA EndsReported ==
  ASSUME Own, Reported, AskedLess, UNCHANGED <<req, pending>>, ServerFails \/ Stopped
  PROVE  Reported'
<1>1. agent'.handlers = {} /\ UNCHANGED down /\ (link' = "open" => link = "open")
  BY DEF Own, AgentOK, ServerFails, Stopped
<1>2. CallersSame BY DEF CallersSame, Got
<1> QED BY <1>1, <1>2, QuietReported

\* The host takes a message.
LEMMA ReceiveReported ==
  ASSUME Own, Reported, AskedLess, Receive
  PROVE  Reported'
<1> USE OwnTypes
<1>0. Correlated /\ Once /\ HostOK /\ CallersOK BY DEF Own
<1>1. /\ UNCHANGED <<posts, inbox, agent, link>> /\ down # <<>> /\ down' = Tail(down)
      /\ IF host.receiver = "init" THEN Initialized(Head(down)) ELSE Routed(Head(down))
  BY DEF Receive
<1>2. PICK msg \in AgentMessages : msg = Head(down) BY <1>1, TailFact
<1>3. /\ msg = down[1] /\ 1 \in 1 .. Len(down) /\ Len(down') = Len(down) - 1
      /\ \A i \in 1 .. Len(down') : down'[i] = down[i + 1]
  BY <1>1, <1>2, TailFact
<1>4. ASSUME NEW r \in Ids, r \in pending,
             Reports(msg, r) => Got(r)' = Got(r) + 1, ~ Reports(msg, r) => Got(r)' = Got(r)
      PROVE  InOrder(r)'
  <2>1. InOrder(r) BY <1>4 DEF Reported
  <2>2. PICK k \in {0, 1} : k = 1 OBVIOUS
  <2>3. /\ Len(down') \in Nat /\ Len(down') + k <= Len(down)
        /\ \A i \in 1 .. Len(down') : down'[i] = down[i + k]
        /\ link' = "open" => /\ link = "open" /\ Len(down') + k = Len(down)
                             /\ agent'.handlers \subseteq agent.handlers
        /\ (k = 1 /\ Reports(down[1], r) => Got(r)' = Got(r) + 1)
        /\ (~ (k = 1 /\ Reports(down[1], r)) => Got(r)' = Got(r))
    BY <1>1, <1>3, <1>4, <2>2
  <2> QED BY <2>1, <2>3, ShiftOrder
<1>5. CASE UNCHANGED <<req, pending>> /\ \A r \in pending : ~ Reports(msg, r)
  <2>1. CallersSame BY <1>5 DEF CallersSame, Got
  <2>2. \A r \in pending' : InOrder(r)' BY <1>4, <1>5, <2>1 DEF CallersSame
  <2> QED BY <2>1, <2>2, CountedSame DEF Reported
<1>6. CASE RejectAll
  <2>1. CallersSame BY <1>6 DEF RejectAll, CallersSame, Got, Request
  <2>2. pending' = {} BY <1>6 DEF RejectAll
  <2> QED BY <2>1, <2>2, CountedSame DEF Reported
<1>7. CASE /\ msg.type = "progress" /\ msg.id \in pending
           /\ req' = [req EXCEPT ![msg.id].queued = @ + 1] /\ UNCHANGED pending
  <2>1. msg.id \in Ids /\ Reports(msg, msg.id) BY <1>7 DEF Reports
  <2>2. /\ \A r \in Ids : r # msg.id => req'[r] = req[r]
        /\ req'[msg.id].queued = req[msg.id].queued + 1 /\ req'[msg.id].seen = req[msg.id].seen
        /\ req'[msg.id].terminal = req[msg.id].terminal
    BY <1>7, <2>1 DEF Request
  <2>3. /\ Got(msg.id)' = Got(msg.id) + 1 /\ \A r \in Ids : r # msg.id => Got(r)' = Got(r)
    <3>1. \A r \in Ids : r # msg.id => Got(r)' = Got(r) BY <2>2 DEF Got
    <3>2. req[msg.id].queued \in Nat /\ req[msg.id].seen \in Nat BY <2>1 DEF Request
    <3>3. req'[msg.id].queued + req'[msg.id].seen = (req[msg.id].queued + req[msg.id].seen) + 1
      <4>1. \A q, s \in Nat : (q + 1) + s = (q + s) + 1 OBVIOUS
      <4> QED BY <2>2, <3>2, <4>1, ZenonT(40)
    <3> QED BY <2>1, <3>1, <3>3 DEF Got
  <2>4. \A r \in Ids : Reports(msg, r) <=> r = msg.id BY <2>1 DEF Reports
  <2>5. \A r \in pending' : InOrder(r)' BY <1>4, <1>7, <2>3, <2>4
  <2>6. req[msg.id].terminal.type # "result"
    BY <1>0, <1>7, OutcomeFacts DEF CallersOK
  <2>7. ~ Asked(msg.id) BY <1>0, <1>3, <2>1 DEF Once
  <2>8. ASSUME NEW r \in Ids
        PROVE  /\ req'[r].terminal.type = "result" => req'[r].terminal.sent = Got(r)'
               /\ Asked(r)' => Got(r)' = 0
    <3>1. CASE r = msg.id BY <2>2, <2>6, <2>7, <3>1 DEF AskedLess
    <3>2. CASE r # msg.id BY <2>2, <2>3, <3>2 DEF AskedLess, Reported
    <3> QED BY <3>1, <3>2
  <2> QED BY <2>5, <2>8 DEF Reported
<1>8. CASE /\ msg.type \in {"result", "refused"} /\ msg.id \in pending
           /\ Answered(msg.id, [type |-> msg.type, tag |-> msg.tag, sent |-> msg.sent])
  <2> DEFINE o == [type |-> msg.type, tag |-> msg.tag, sent |-> msg.sent]
  <2>1. msg.id \in Ids /\ Answers(msg, msg.id) /\ \A r \in Ids : ~ Reports(msg, r)
    BY <1>8 DEF Answers, Reports
  <2>2. req' = [req EXCEPT ![msg.id].terminal = o] /\ pending' = pending \ {msg.id}
    BY <1>8 DEF Answered
  <2>3. o.type = msg.type /\ o.sent = msg.sent OBVIOUS
  <2> HIDE DEF o
  <2>4. /\ \A r \in Ids : /\ r # msg.id => req'[r].terminal = req[r].terminal
                          /\ req'[r].queued = req[r].queued /\ req'[r].seen = req[r].seen
        /\ req'[msg.id].terminal = o
    BY <2>1, <2>2 DEF Request
  <2>5. \A r \in Ids : Got(r)' = Got(r) BY <2>4 DEF Got
  <2>6. \A r \in pending' : InOrder(r)' BY <1>4, <2>1, <2>2, <2>5
  <2>7. msg.type = "result" => msg.sent = Got(msg.id)
    <3>1. InOrder(msg.id) BY <1>8 DEF Reported
    <3>2. msg.type = "result" => ReportedBefore(msg.id, msg.sent, 1)
      BY <1>3, <2>1, <3>1 DEF InOrder
    <3> QED BY <3>2 DEF ReportedBefore
  <2>8. ASSUME NEW r \in Ids
        PROVE  /\ req'[r].terminal.type = "result" => req'[r].terminal.sent = Got(r)'
               /\ Asked(r)' => Got(r)' = 0
    <3>1. Asked(r)' => Got(r)' = 0 BY <2>5 DEF AskedLess, Reported
    <3>2. CASE r = msg.id BY <2>3, <2>4, <2>5, <2>7, <3>1, <3>2
    <3>3. CASE r # msg.id BY <2>4, <2>5, <3>1, <3>3 DEF Reported
    <3> QED BY <3>2, <3>3
  <2> QED BY <2>6, <2>8 DEF Reported
<1>9. CASE host.receiver = "init"
  <2>1. Initialized(msg) BY <1>1, <1>2, <1>9
  <2>2. pending = {}
    <3>1. host.next = 0 BY <1>0, <1>9 DEF HostOK
    <3>2. \A r \in Ids : req[r] = Idle BY <1>0, <3>1 DEF CallersOK
    <3> QED BY <1>0, <3>2, OutcomeFacts DEF CallersOK, Open
  <2> QED BY <1>5, <2>1, <2>2 DEF Initialized
<1>10. CASE Routed(msg)
  <2>1. CASE UNCHANGED <<req, pending>> /\ msg.type = "progress"
             /\ msg.id \notin pending
    BY <1>5, <2>1 DEF Reports
  <2>2. CASE UNCHANGED <<req, pending>> /\ msg.type # "progress" BY <1>5, <2>2 DEF Reports
  <2> QED BY <1>6, <1>7, <1>8, <1>10, <2>1, <2>2 DEF Routed
<1> QED BY <1>1, <1>2, <1>9, <1>10

LEMMA SendAdded ==
  ASSUME Own, NEW msg \in AgentMessages
  PROVE  /\ \A n \in {1, 2} : down' = Down([i \in 1 .. n |-> msg]) => Added(msg)
         /\ down' = Down(<<msg>>) => Added(msg)
         /\ down' = Down(<<msg>>) => Len(down') <= Len(down) + 1
         /\ down' = Down(<<msg>>) /\ Reaches =>
              Len(down) + 1 \in 1 .. Len(down') /\ down'[Len(down) + 1] = msg
<1> USE OwnTypes
<1>1. ASSUME NEW n \in {1, 2}, down' = Down([i \in 1 .. n |-> msg]) PROVE Added(msg)
  BY <1>1, SendFacts DEF Added
<1>2. ASSUME down' = Down(<<msg>>)
      PROVE  Added(msg) /\ Len(down') <= Len(down) + 1
             /\ (Reaches => Len(down) + 1 \in 1 .. Len(down') /\ down'[Len(down) + 1] = msg)
  <2>1. PICK n \in {1, 2} : n = 1 OBVIOUS
  <2>2. down' = Down([i \in 1 .. n |-> msg]) BY <1>2, <2>1, OneMessage
  <2>3. Added(msg) BY <1>1, <2>2
  <2>4. (Reaches => Len(down') = Len(down) + n) /\ (~ Reaches => down' = down)
    BY <2>2, SendFacts
  <2>5. Len(down') <= Len(down) + 1
    <3>1. CASE Reaches BY <2>1, <2>4, <3>1
    <3>2. CASE ~ Reaches
      <4>1. Len(down') = Len(down) BY <2>4, <3>2
      <4> QED BY <4>1
    <3> QED BY <3>1, <3>2
  <2>6. Reaches => Len(down) + 1 \in 1 .. Len(down') /\ down'[Len(down) + 1] = msg
    <3>1. Reaches => Len(down) + 1 \in 1 .. Len(down') BY <2>1, <2>4
    <3>2. Len(down) + 1 \notin 1 .. Len(down) OBVIOUS
    <3> QED BY <2>3, <3>1, <3>2 DEF Added
  <2> QED BY <2>3, <2>5, <2>6
<1> QED BY <1>1, <1>2

\* A handler gives its result, which counts its reports.
LEMMA EndsReportedToo ==
  ASSUME Own, Reported, AskedLess, NEW h \in agent.handlers, HandlerEnds(h)
  PROVE  Reported'
<1> USE OwnTypes
<1>0. Correlated /\ Once /\ AgentOK /\ HostOK BY DEF Own
<1>1. UNCHANGED <<req, pending>> BY DEF HandlerEnds
<1>2. CASE CanSend
  <2> DEFINE msg == ToHost("result", h.id, h.tag, h.sent)
  <2>1. PICK n \in {1, 2} :
          /\ down' = Down([i \in 1 .. n |-> msg]) /\ UNCHANGED link
          /\ agent' = [agent EXCEPT !.inflight = Without(@, h.id), !.handlers = @ \ {h}]
    BY <1>2 DEF HandlerEnds
  <2>2. msg.type = "result" /\ msg.id = h.id /\ msg.sent = h.sent BY FieldFacts
  <2>3. msg \in AgentMessages BY <1>0, MessageFacts DEF Handlers
  <2> HIDE DEF msg
  <2>4. Added(msg) BY <2>1, <2>3, SendAdded
  <2>5. agent'.handlers = agent.handlers \ {h} BY <1>0, <2>1 DEF AgentOK
  <2>6. ~ Reaches => UNCHANGED down BY <2>1 DEF Down
  <2>7. link = "open" => Reaches BY <1>2, ReachFact
  <2>8. ASSUME link = "open", NEW r \in pending
        PROVE  /\ ~ Reports(msg, r)
               /\ Answers(msg, r) =>
                    /\ msg.type = "result" =>
                         msg.sent >= Got(r) /\ ReportedBefore(r, msg.sent, Len(down) + 1)
                    /\ \A j \in 1 .. Len(down) : Reports(down[j], r) => down[j].sent <= msg.sent
               /\ \A g \in agent'.handlers : g.id = r => LaterHandler(r, g)
    <3>1. InOrder(r) /\ r \in Ids BY DEF Reported
    <3>2. ~ Reports(msg, r) BY <2>2 DEF Reports
    <3>3. Got(r)' = Got(r) BY <1>1 DEF Got
    <3>4. \A g \in agent'.handlers : g.id = r => LaterHandler(r, g)
      BY <2>4, <2>5, <2>8, <3>1, <3>2, <3>3, AddedHandler
    <3>5. Answers(msg, r) => r = h.id BY <2>2 DEF Answers
    <3> QED BY <2>2, <2>8, <3>1, <3>2, <3>4, <3>5 DEF InOrder
  <2> QED BY <1>1, <2>1, <2>4, <2>6, <2>7, <2>8, SentReported
<1>3. CASE ~ CanSend BY <1>1, <1>3, EndsReported DEF HandlerEnds
<1> QED BY <1>2, <1>3

\* A handler reports: the report is the next one.
LEMMA ReportsReported ==
  ASSUME Own, Reported, AskedLess, NEW h \in agent.handlers, HandlerReports(h)
  PROVE  Reported'
<1> USE OwnTypes
<1>0. Correlated /\ Once /\ AgentOK /\ HostOK BY DEF Own
<1> DEFINE msg == ToHost("progress", h.id, h.tag, h.sent + 1)
           more == [h EXCEPT !.sent = @ + 1]
<1>1. /\ down' = Down(<<msg>>) /\ h.sent < MaxProgress[kind] /\ CanSend
      /\ agent' = [agent EXCEPT !.handlers = (@ \ {h}) \union {more}]
      /\ UNCHANGED <<req, pending, link>>
  BY DEF HandlerReports
<1>2. msg.type = "progress" /\ msg.id = h.id /\ msg.sent = h.sent + 1 BY FieldFacts
<1>3. more.id = h.id /\ more.sent = h.sent + 1 BY DEF Handlers
<1>4. msg \in AgentMessages
  <2>1. h.sent + 1 \in 0 .. Largest(MaxProgress) BY <1>0, <1>1, ReportBounds
  <2> QED BY <1>0, <2>1, MessageFacts DEF Handlers
<1>5. agent'.handlers = (agent.handlers \ {h}) \union {more} BY <1>0, <1>1 DEF AgentOK
<1> HIDE DEF msg, more
<1>6. /\ Added(msg) /\ Len(down') <= Len(down) + 1
      /\ Reaches => Len(down) + 1 \in 1 .. Len(down') /\ down'[Len(down) + 1] = msg
  BY <1>1, <1>4, SendAdded
<1>7. ~ Reaches => UNCHANGED down BY <1>1 DEF Down
<1>8. link = "open" => Reaches BY <1>1, ReachFact
<1>9. ASSUME link = "open", NEW r \in pending
      PROVE  /\ Reports(msg, r) =>
                  /\ Len(down') <= Len(down) + 1 /\ msg.sent > Got(r)
                  /\ ReportedBefore(r, msg.sent - 1, Len(down) + 1)
                  /\ \A j \in 1 .. Len(down) : /\ Reports(down[j], r) => down[j].sent < msg.sent
                                               /\ ~ Answers(down[j], r)
             /\ ~ Answers(msg, r)
             /\ \A g \in agent'.handlers : g.id = r => LaterHandler(r, g)
  <2>1. InOrder(r) /\ r \in Ids BY DEF Reported
  <2>2. ~ Answers(msg, r) /\ (Reports(msg, r) <=> r = h.id) BY <1>2 DEF Reports, Answers
  <2>3. Got(r)' = Got(r) /\ Got(r) \in Nat BY <1>1, <2>1 DEF Got
  <2>4. CASE r = h.id
    <3>1. /\ h.sent >= Got(r) /\ ReportedBefore(r, h.sent, Len(down) + 1)
          /\ \A j \in 1 .. Len(down) : Reports(down[j], r) => down[j].sent <= h.sent
      BY <1>9, <2>1, <2>4 DEF InOrder
    <3>2. \A j \in 1 .. Len(down) : ~ Answers(down[j], r) BY <1>0, <2>4 DEF Once
    <3>3. \A j \in 1 .. Len(down) : down[j].sent \in Nat BY SentNat
    <3>4. h.sent \in Nat /\ msg.sent - 1 = h.sent BY <1>2
    <3>5. \A j \in 1 .. Len(down) : Reports(down[j], r) => down[j].sent < msg.sent
      BY <1>2, <3>1, <3>3, <3>4
    <3>6. \A g \in agent'.handlers : g.id = r => g = more BY <1>0, <1>5, <2>4 DEF Once
    <3>7. LaterHandler(r, more)
      <4>1. more.sent >= Got(r)' BY <1>3, <2>3, <3>1, <3>4
      <4>2. Later(r, more.sent, Len(down') + 1)
        <5>1. Len(down) + 1 \in 1 .. (Len(down') + 1) - 1 BY <1>6, <1>8, <1>9 DEF Added
        <5>2. down'[Len(down) + 1] = msg BY <1>6, <1>8, <1>9
        <5> QED BY <1>2, <1>3, <2>2, <2>4, <5>1, <5>2 DEF Later
      <4>3. \A j \in 1 .. Len(down') : Reports(down'[j], r) => down'[j].sent <= more.sent
        <5>1. \A j \in 1 .. Len(down) : Reports(down[j], r) => down[j].sent <= more.sent
          <6>1. \A a, b \in Nat : a <= b => a <= b + 1 OBVIOUS
          <6> QED BY <1>3, <3>1, <3>3, <3>4, <6>1
        <5>2. msg.sent <= more.sent BY <1>2, <1>3, <3>4
        <5> QED BY <1>6, <5>1, <5>2 DEF Added
      <4> QED BY <4>1, <4>2, <4>3 DEF LaterHandler
    <3>8. msg.sent > Got(r) BY <1>2, <2>3, <3>1, <3>4
    <3> QED BY <1>6, <2>2, <3>1, <3>2, <3>4, <3>5, <3>6, <3>7, <3>8
  <2>5. CASE r # h.id
    <3>1. \A g \in agent'.handlers : g.id = r => g \in agent.handlers BY <1>3, <1>5, <2>5
    <3>2. \A g \in agent'.handlers : g.id = r => LaterHandler(r, g)
      BY <1>6, <1>9, <2>1, <2>2, <2>3, <2>5, <3>1, AddedHandler
    <3> QED BY <2>2, <2>5, <3>2
  <2> QED BY <2>4, <2>5
<1> QED BY <1>1, <1>6, <1>7, <1>8, <1>9, SentReported

\* The agent reads a message: a request that is asked for has no reports yet.
LEMMA ServeReported ==
  ASSUME Own, Reported, AskedLess, Serve
  PROVE  Reported'
<1> USE OwnTypes
<1>0. Correlated /\ Once /\ AgentOK /\ HostOK BY DEF Own
<1>d. inbox # <<>> /\ inbox' = Tail(inbox) /\ UNCHANGED <<req, pending, posts>> BY DEF Serve
<1>e. PICK msg \in HostMessages : msg = Head(inbox) BY <1>d, ReadFacts
<1>1. \/ ServeInitialize(msg) \/ ServeBadMiddleware(msg) \/ ServeExecute(msg)
      \/ ServeCancel(msg) \/ ServeShutdown(msg)
  BY <1>e DEF Serve
<1>2. /\ msg.sess = host.sess /\ \A r \in Ids : Starts(msg, r) => Asked(r)
  BY <1>d, <1>e, ReadFacts
<1>3. \A r \in Ids : Got(r)' = Got(r) BY <1>d DEF Got
<1>4. msg.id \in Ids /\ <<msg.sess, msg.id>> = Tag(msg.id) /\ Tag(msg.id) \in Tags
  BY <1>0, <1>2, TypeFacts DEF Tag
<1>5. CallersSame BY <1>d DEF CallersSame, Got
<1>6. ASSUME ServerFails \/ Stopped PROVE Reported' BY <1>d, <1>6, EndsReported
<1>7. 0 \in 0 .. Largest(MaxProgress) BY <1>0, ReportBounds
\* A message that is no report is sent.
<1>8. ASSUME NEW ans \in AgentMessages, down' = Down(<<ans>>), CanSend, UNCHANGED link,
             agent'.handlers = agent.handlers,
             \A r \in Ids : ~ Reports(ans, r),
             \A r \in Ids : Answers(ans, r) => r = msg.id /\ ans.sent = 0,
             (\E r \in Ids : Answers(ans, r)) => msg.type \in {"execute", "badMiddleware"}
      PROVE  Reported'
  <2>1. Added(ans) BY <1>8, SendAdded
  <2>2. ~ Reaches => UNCHANGED down BY <1>8 DEF Down
  <2>3. link = "open" => Reaches BY <1>8, ReachFact
  <2>4. ASSUME link = "open", NEW r \in pending
        PROVE  /\ ~ Reports(ans, r)
               /\ Answers(ans, r) =>
                    /\ ans.type = "result" =>
                         ans.sent >= Got(r) /\ ReportedBefore(r, ans.sent, Len(down) + 1)
                    /\ \A j \in 1 .. Len(down) : Reports(down[j], r) => down[j].sent <= ans.sent
               /\ \A g \in agent'.handlers : g.id = r => LaterHandler(r, g)
    <3>1. InOrder(r) /\ r \in Ids /\ ~ Reports(ans, r) BY <1>8 DEF Reported
    <3>2. \A g \in agent'.handlers : g.id = r => LaterHandler(r, g)
      BY <1>3, <1>8, <2>1, <2>4, <3>1, AddedHandler
    <3>3. ASSUME Answers(ans, r)
          PROVE  /\ Got(r) = 0 /\ ans.sent = 0
                 /\ \A j \in 1 .. Len(down) : ~ Reports(down[j], r)
      <4>1. Starts(msg, r) /\ ans.sent = 0 BY <1>8, <3>1, <3>3 DEF Starts
      <4>2. Asked(r) BY <1>2, <3>1, <4>1
      <4>3. Got(r) = 0 BY <3>1, <4>2 DEF Reported
      <4>4. \A j \in 1 .. Len(down) : ~ Reports(down[j], r) BY <1>0, <3>1, <4>2 DEF Once
      <4> QED BY <4>1, <4>3, <4>4
    <3>4. Answers(ans, r) => ans.sent >= Got(r) /\ ReportedBefore(r, ans.sent, Len(down) + 1)
      BY <3>3 DEF ReportedBefore
    <3> QED BY <3>1, <3>2, <3>3, <3>4
  <2> QED BY <1>d, <1>8, <2>1, <2>2, <2>3, <2>4, SentReported
<1>9. CASE ServeInitialize(msg)
  <2>1. PICK type \in {"initialized", "initError"} :
          Reply(ToHost(type, 0, <<0, 0>>, 0), agent)
    BY <1>9 DEF ServeInitialize
  <2> DEFINE ans == ToHost(type, 0, <<0, 0>>, 0)
  <2>2. ans \in AgentMessages /\ ans.type = type BY <1>0, MessageFacts, FieldFacts
  <2>3. \A r \in Ids : ~ Reports(ans, r) /\ ~ Answers(ans, r) BY <2>2 DEF Reports, Answers
  <2>4. CASE CanSend
    <3>1. down' = Down(<<ans>>) /\ agent' = agent /\ UNCHANGED link BY <2>1, <2>4 DEF Reply
    <3> HIDE DEF ans
    <3> QED BY <1>8, <2>2, <2>3, <2>4, <3>1
  <2>5. CASE ~ CanSend BY <1>6, <2>1, <2>5 DEF Reply
  <2> QED BY <2>4, <2>5
<1>10. CASE ServeBadMiddleware(msg)
  <2> DEFINE ans == ToHost("refused", msg.id, Tag(msg.id), 0)
  <2>1. msg.type = "badMiddleware" /\ Reply(ans, agent)
    BY <1>4, <1>10 DEF ServeBadMiddleware
  <2>2. ans \in AgentMessages /\ ans.type = "refused" /\ ans.id = msg.id /\ ans.sent = 0
    BY <1>0, <1>4, <1>7, MessageFacts, FieldFacts
  <2>3. \A r \in Ids : ~ Reports(ans, r) /\ (Answers(ans, r) => r = msg.id /\ ans.sent = 0)
    BY <2>2 DEF Reports, Answers
  <2> HIDE DEF ans
  <2>4. CASE CanSend
    <3>1. down' = Down(<<ans>>) /\ agent' = agent /\ UNCHANGED link BY <2>1, <2>4 DEF Reply
    <3> QED BY <1>8, <2>1, <2>2, <2>3, <2>4, <3>1
  <2>5. CASE ~ CanSend BY <1>6, <2>1, <2>5 DEF Reply
  <2> QED BY <2>4, <2>5
<1>11. CASE ServeExecute(msg)
  <2> DEFINE noted == With(agent.inflight, msg.id, Tag(msg.id))
             new == [id |-> msg.id, tag |-> Tag(msg.id), sent |-> 0]
             ans == ToHost("result", msg.id, Tag(msg.id), 0)
  <2>1. /\ msg.type = "execute"
        /\ \/ /\ agent' = [agent EXCEPT !.inflight = noted, !.handlers = @ \union {new}]
              /\ UNCHANGED <<down, link>>
           \/ Reply(ans, [agent EXCEPT !.inflight = noted])
    BY <1>4, <1>11 DEF ServeExecute
  <2>2. ans \in AgentMessages /\ ans.type = "result" /\ ans.id = msg.id /\ ans.sent = 0
    BY <1>0, <1>4, <1>7, MessageFacts, FieldFacts
  <2>3. new.id = msg.id /\ new.sent = 0 OBVIOUS
  <2>4. \A r \in Ids : ~ Reports(ans, r) /\ (Answers(ans, r) => r = msg.id /\ ans.sent = 0)
    BY <2>2 DEF Reports, Answers
  <2> HIDE DEF noted, new, ans
  <2>5. CASE /\ agent' = [agent EXCEPT !.inflight = noted, !.handlers = @ \union {new}]
             /\ UNCHANGED <<down, link>>
    <3>1. agent'.handlers = agent.handlers \union {new} BY <1>0, <2>5 DEF AgentOK
    <3>2. ASSUME NEW r \in pending' PROVE InOrder(r)'
      <4>1. r \in Ids /\ InOrder(r) /\ Got(r)' = Got(r) BY <1>d, <1>3, <3>2 DEF Reported
      <4>2. ASSUME r = msg.id
            PROVE  Got(r) = 0 /\ \A j \in 1 .. Len(down) : ~ Reports(down[j], r)
        <5>1. Asked(r) BY <1>2, <2>1, <4>1, <4>2 DEF Starts
        <5>2. Got(r) = 0 BY <4>1, <5>1 DEF Reported
        <5>3. \A j \in 1 .. Len(down) : ~ Reports(down[j], r) BY <1>0, <4>1, <5>1 DEF Once
        <5> QED BY <5>2, <5>3
      <4>3. \A n, i : Later(r, n, i) <=> ReportedBefore(r, n, i)
        BY <2>5, <4>1 DEF Later, ReportedBefore
      <4>4. ASSUME NEW g \in agent'.handlers, g.id = r, link' = "open" PROVE LaterHandler(r, g)
        <5>1. CASE g \in agent.handlers
          BY <2>5, <4>1, <4>3, <4>4, <5>1 DEF InOrder, LaterHandler
        <5>2. CASE g = new
          <6>1. Got(r) = 0 /\ \A j \in 1 .. Len(down) : ~ Reports(down[j], r)
            BY <2>3, <4>2, <4>4, <5>2
          <6> QED BY <2>3, <2>5, <4>1, <5>2, <6>1 DEF LaterHandler, Later
        <5> QED BY <3>1, <5>1, <5>2
      <4>5. \A i \in 1 .. Len(down') : Reports(down'[i], r) => LaterReport(r, i)
        BY <2>5, <4>1, <4>3 DEF InOrder, LaterReport
      <4>6. \A i \in 1 .. Len(down') : Answers(down'[i], r) => LaterAnswer(r, i)
        BY <2>5, <4>1, <4>3 DEF InOrder, LaterAnswer
      <4> QED BY <4>1, <4>4, <4>5, <4>6, LaterOrder
    <3> QED BY <1>5, <3>2, CountedSame DEF Reported
  <2>6. CASE Reply(ans, [agent EXCEPT !.inflight = noted])
    <3>1. CASE CanSend
      <4>1. /\ down' = Down(<<ans>>) /\ agent' = [agent EXCEPT !.inflight = noted]
            /\ UNCHANGED link
        BY <2>6, <3>1 DEF Reply
      <4>2. agent'.handlers = agent.handlers BY <1>0, <4>1 DEF AgentOK
      <4> QED BY <1>8, <2>1, <2>2, <2>4, <3>1, <4>1, <4>2
    <3>2. CASE ~ CanSend BY <1>6, <2>6, <3>2 DEF Reply
    <3> QED BY <3>1, <3>2
  <2> QED BY <2>1, <2>5, <2>6
<1>12. CASE ServeCancel(msg)
  <2>1. agent'.handlers \subseteq agent.handlers /\ UNCHANGED <<down, link>>
    BY <1>0, <1>12 DEF ServeCancel, AgentOK
  <2> QED BY <1>d, <1>5, <2>1, QuietReported
<1>13. CASE ServeShutdown(msg) BY <1>6, <1>13 DEF ServeShutdown
<1> QED BY <1>1, <1>9, <1>10, <1>11, <1>12, <1>13

LEMMA ReportedStep ==
  ASSUME Own, Reported, AskedLess, [Next]_vars
  PROVE  Reported'
<1> USE OwnTypes
<1>0. Correlated /\ Once /\ AgentOK /\ HostOK /\ CallersOK BY DEF Own
<1>a. UNCHANGED agent => agent'.handlers \subseteq agent.handlers OBVIOUS
<1>b. UNCHANGED req => CallersSame BY DEF CallersSame, Got
<1>c. ASSUME pending' = {}, req' = [r \in Ids |-> Idle] PROVE Reported'
  <2>1. \A r \in Ids : Got(r)' = 0 /\ req'[r].terminal.type = "none"
    BY <1>c, OutcomeFacts DEF Got
  <2> QED BY <1>c, <2>1 DEF Reported
<1>1. ASSUME NEW r \in Ids, Execute(r) PROVE Reported'
  <2>1. /\ r = host.next /\ UNCHANGED <<down, link, agent>> /\ pending' = pending \union {r}
        /\ req' = [req EXCEPT ![r].pc = IF Ordered THEN "waiting" ELSE "sending"]
    BY <1>1 DEF Execute
  <2>2. CallersSame BY <2>1 DEF CallersSame, Got, Request
  <2>3. InOrder(r)'
    <3>1. \A i \in 1 .. Len(down) : ~ Reports(down[i], r) /\ ~ Answers(down[i], r)
      BY <1>0, <2>1 DEF Correlated
    <3>2. \A h \in agent.handlers : h.id # r BY <1>0, <2>1 DEF Correlated
    <3> QED BY <2>1, <3>1, <3>2, LaterOrder
  <2>4. ASSUME NEW q \in pending, q # r PROVE InOrder(q)'
    <3>1. q \in Ids /\ InOrder(q) /\ Got(q)' = Got(q) BY <2>2 DEF CallersSame, Reported
    <3> QED BY <2>1, <3>1, KeptOrder
  <2> QED BY <2>1, <2>2, <2>3, <2>4, CountedSame DEF Reported
<1>2. ASSUME NEW r \in Ids, Settle(r) PROVE Reported'
  <2>1. CallersSame BY <1>2 DEF Settle, CallersSame, Got, Request
  <2> QED BY <1>a, <1>2, <2>1, QuietReported DEF Settle
<1>3. ASSUME NEW r \in Ids, TakeProgress(r) PROVE Reported'
  <2>1. /\ req[r].queued > 0 /\ req' = [req EXCEPT ![r].queued = @ - 1, ![r].seen = @ + 1]
    BY <1>3 DEF TakeProgress
  <2>2. /\ \A q \in Ids : req'[q].terminal = req[q].terminal
        /\ \A q \in Ids : q # r => req'[q] = req[q]
        /\ req'[r].queued = req[r].queued - 1 /\ req'[r].seen = req[r].seen + 1
    BY <2>1 DEF Request
  <2>3. Got(r)' = Got(r)
    <3>1. \A q, n \in Nat : q > 0 => (q - 1) + (n + 1) = q + n OBVIOUS
    <3>2. req[r].queued \in Nat /\ req[r].seen \in Nat BY DEF Request
    <3> QED BY <2>1, <2>2, <3>1, <3>2 DEF Got
  <2>4. CallersSame BY <2>2, <2>3 DEF CallersSame, Got
  <2> QED BY <1>a, <1>3, <2>4, QuietReported DEF TakeProgress
<1>4. ASSUME NEW r \in Ids, Halt(r) \/ HaltPost(r) PROVE Reported'
  <2>1. /\ req' = [req EXCEPT ![r].pc = "halted"] /\ UNCHANGED <<down, link, agent>>
        /\ pending' \subseteq pending
    BY <1>4 DEF Halt, HaltPost, Cleanup
  <2>2. CallersSame BY <2>1 DEF CallersSame, Got, Request
  <2> QED BY <1>a, <2>1, <2>2, QuietReported
<1>5. CASE Receive BY <1>5, ReceiveReported
<1>6. CASE ReceiveEnd
  <2>1. UNCHANGED <<down, link, agent>> /\ pending' \subseteq pending
    BY <1>6 DEF ReceiveEnd, RejectAll
  <2>2. CallersSame
    <3>1. CASE RejectAll BY <3>1 DEF RejectAll, CallersSame, Got, Request
    <3> QED BY <1>b, <1>6, <3>1 DEF ReceiveEnd
  <2> QED BY <1>a, <2>1, <2>2, QuietReported
<1>7. ASSUME NEW msg \in posts, PostArrives(msg) PROVE Reported'
  <2>0. msg.id \in Ids OBVIOUS
  <2>1. /\ UNCHANGED <<down, link, agent, pending>>
        /\ req' = req \/ req' = [req EXCEPT ![msg.id].pc = "waiting"]
    BY <1>7 DEF PostArrives
  <2>2. CASE req' = [req EXCEPT ![msg.id].pc = "waiting"]
    <3>1. CallersSame BY <2>0, <2>2 DEF CallersSame, Got, Request
    <3> QED BY <1>a, <2>1, <3>1, QuietReported
  <2> QED BY <1>a, <1>b, <2>1, <2>2, QuietReported
<1>8. ASSUME NEW msg \in posts, PostFails(msg) PROVE Reported'
  <2>0. msg.id \in Ids OBVIOUS
  <2>1. /\ UNCHANGED <<down, link, agent>> /\ pending' \subseteq pending
        /\ \/ UNCHANGED req
           \/ req' = [req EXCEPT ![msg.id].pc = "settled", ![msg.id].terminal =
                        IF @ = NoOutcome THEN Failure ELSE @]
    BY <1>8 DEF PostFails
  <2>2. CASE req' = [req EXCEPT ![msg.id].pc = "settled", ![msg.id].terminal =
                        IF @ = NoOutcome THEN Failure ELSE @]
    <3>1. CallersSame BY <2>0, <2>2, SMTT(40) DEF CallersSame, Got, Request
    <3> QED BY <1>a, <2>1, <3>1, QuietReported
  <2> QED BY <1>a, <1>b, <2>1, <2>2, QuietReported
<1>9. CASE CloseSession
  BY <1>a, <1>b, <1>9, QuietReported DEF CloseSession
<1>10. CASE Disconnect
  <2>1. pending = {} BY <1>0, <1>10 DEF Disconnect, Over, CallersOK
  <2>2. UNCHANGED <<req, pending>> BY <1>10 DEF Disconnect
  <2> QED BY <1>b, <2>1, <2>2, CountedSame DEF Reported
<1>11. CASE HostDies \/ Connect BY <1>c, <1>11 DEF HostDies, Connect
<1>12. CASE Serve BY <1>12, ServeReported
<1>13. CASE ServeEnd BY <1>13, EndsReported DEF ServeEnd
<1>14. ASSUME NEW h \in agent.handlers, HandlerEnds(h) \/ HandlerReports(h) PROVE Reported'
  BY <1>14, EndsReportedToo, ReportsReported
<1>15. ASSUME NEW n \in agent.stale, CloseEvent(n) PROVE Reported'
  <2>1. agent'.handlers = agent.handlers /\ UNCHANGED <<req, pending, down, link>>
    BY <1>0, <1>15 DEF CloseEvent, AgentOK
  <2> QED BY <1>b, <2>1, QuietReported
<1>16. CASE LinkBreaks
  <2>1. UNCHANGED <<req, pending>> /\ link' = "closed" BY <1>16 DEF LinkBreaks
  <2>2. PICK n \in 0 .. Len(down) : down' = SubSeq(down, 1, n) BY <1>16 DEF LinkBreaks
  <2>3. Len(down') = n /\ \A i \in 1 .. n : down'[i] = down[i] BY <2>2, PrefixFact
  <2>4. ASSUME NEW r \in pending' PROVE InOrder(r)'
    <3>1. r \in Ids /\ InOrder(r) /\ Got(r)' = Got(r) BY <2>1, <2>4 DEF Got, Reported
    <3>2. PICK k \in {0, 1} : k = 0 OBVIOUS
    <3>3. /\ Len(down') \in Nat /\ Len(down') + k <= Len(down)
          /\ \A i \in 1 .. Len(down') : down'[i] = down[i + k]
      BY <2>3, <3>2
    <3> QED BY <2>1, <3>1, <3>2, <3>3, ShiftOrder
  <2> QED BY <1>b, <2>1, <2>4, CountedSame DEF Reported
<1>17. CASE AgentGarbles
  <2> DEFINE msg == ToHost("malformed", 0, <<0, 0>>, 0)
  <2>1. /\ down' = Append(down, msg) /\ link = "open" /\ kind = "process"
        /\ UNCHANGED <<req, pending, link, agent>>
    BY <1>17 DEF AgentGarbles
  <2>2. msg.type = "malformed" /\ msg \in AgentMessages BY <1>0, FieldFacts, MessageFacts
  <2> HIDE DEF msg
  <2>3. /\ Len(down') = Len(down) + 1 /\ down'[Len(down) + 1] = msg
        /\ \A i \in 1 .. Len(down) : down'[i] = down[i]
    BY <2>1, <2>2, AppendFact
  <2>4. Added(msg) BY <2>3 DEF Added
  <2>5. \A r \in Ids : ~ Reports(msg, r) /\ ~ Answers(msg, r) BY <2>2 DEF Reports, Answers
  <2>6. Reaches BY <2>1 DEF Reaches
  <2>7. ASSUME link = "open", NEW r \in pending
        PROVE  \A h \in agent'.handlers : h.id = r => LaterHandler(r, h)
    <3>1. r \in Ids /\ InOrder(r) /\ Got(r)' = Got(r) BY <2>1, <2>7 DEF Got, Reported
    <3> QED BY <2>1, <2>2, <2>4, <2>5, <2>7, <3>1, AddedHandler
  <2> QED BY <2>1, <2>2, <2>4, <2>5, <2>6, <2>7, SentReported
<1>18. CASE UNCHANGED vars BY <1>a, <1>b, <1>18, QuietReported DEF vars
<1> QED
  BY <1>1, <1>2, <1>3, <1>4, <1>5, <1>6, <1>7, <1>8, <1>9, <1>10, <1>11, <1>12, <1>13,
     <1>14, <1>15, <1>16, <1>17, <1>18
  DEF Next

-----------------------------------------------------------------------------
(* Requests nobody waits for *)

LEMMA StopSame ==
  ASSUME Own, Stoppable, UNCHANGED inbox, pending \subseteq pending', Guarded' => Guarded,
         \A h \in agent'.handlers : \E g \in agent.handlers : g.id = h.id
  PROVE  Stoppable'
<1>1. \A r, i : Stopping(r, i)' <=> Stopping(r, i) BY DEF Stopping
<1> QED BY <1>1 DEF Stoppable

\* A message of the host is added that stops what nobody waits for any more.
LEMMA StopMore ==
  ASSUME Own, Guarded' => Guarded, Stoppable, UNCHANGED agent, NEW msg \in HostMessages,
         inbox' = Append(inbox, msg),
         \A r \in pending : r \in pending' \/ (msg.type = "cancel" /\ msg.id = r),
         \A r \in Ids : Starts(msg, r) => r \in pending'
  PROVE  Stoppable'
<1> USE OwnTypes
<1>1. /\ Len(inbox') = Len(inbox) + 1 /\ inbox'[Len(inbox) + 1] = msg
      /\ \A i \in 1 .. Len(inbox) : inbox'[i] = inbox[i]
  BY AppendFact
<1>2. ASSUME NEW r \in Ids, NEW i \in 1 .. Len(inbox) + 1, Stopping(r, i) PROVE Stopping(r, i)'
  <2>1. PICK j \in i .. Len(inbox) :
          inbox[j].type = "shutdown" \/ (inbox[j].type = "cancel" /\ inbox[j].id = r)
    BY <1>2 DEF Stopping
  <2>2. j \in 1 .. Len(inbox) /\ j \in i .. Len(inbox') BY <1>1, <2>1
  <2> QED BY <1>1, <2>1, <2>2 DEF Stopping
<1>3. ASSUME NEW r \in Ids, msg.type = "cancel", msg.id = r, NEW i \in 1 .. Len(inbox) + 1
      PROVE  Stopping(r, i)'
  <2>1. Len(inbox) + 1 \in i .. Len(inbox') BY <1>1, <1>3
  <2> QED BY <1>1, <1>3, <2>1 DEF Stopping
<1>4. 1 \in 1 .. Len(inbox) + 1 OBVIOUS
<1>5. ASSUME Guarded', NEW h \in agent'.handlers PROVE h.id \in pending' \/ Stopping(h.id, 1)'
  <2>1. h.id \in Ids /\ (h.id \in pending \/ Stopping(h.id, 1)) BY <1>5 DEF Stoppable
  <2>2. PICK r \in Ids : r = h.id BY <2>1
  <2> QED BY <1>2, <1>3, <1>4, <2>1, <2>2
<1>6. ASSUME Guarded', NEW r \in Ids, NEW i \in 1 .. Len(inbox'), Starts(inbox'[i], r)
      PROVE  r \in pending' \/ Stopping(r, i)'
  <2>1. CASE i \in 1 .. Len(inbox)
    <3>1. r \in pending \/ Stopping(r, i) BY <1>1, <1>6, <2>1 DEF Stoppable
    <3>2. i \in 1 .. Len(inbox) + 1 BY <2>1
    <3> QED BY <1>2, <1>3, <3>1, <3>2
  <2>2. CASE i \notin 1 .. Len(inbox)
    <3>1. i = Len(inbox) + 1 BY <1>1, <2>2
    <3> QED BY <1>1, <1>6, <3>1
  <2> QED BY <2>1, <2>2
<1> QED BY <1>5, <1>6 DEF Stoppable

\* The session is closed: the message that says so stops everything.
LEMMA StopAll ==
  ASSUME Own, UNCHANGED agent, NEW msg \in HostMessages, inbox' = Append(inbox, msg),
         msg.type = "shutdown"
  PROVE  Stoppable'
<1> USE OwnTypes
<1>1. Len(inbox') = Len(inbox) + 1 /\ inbox'[Len(inbox) + 1] = msg BY AppendFact
<1>2. \A i \in 1 .. Len(inbox') : Len(inbox) + 1 \in i .. Len(inbox') BY <1>1
<1>3. \A r, i : i \in 1 .. Len(inbox') => Stopping(r, i)' BY <1>1, <1>2 DEF Stopping
<1>4. 1 \in 1 .. Len(inbox') BY <1>1
<1> QED BY <1>3, <1>4 DEF Stoppable

\* The agent has read a message: those after it stop what it does not stop.
LEMMA StopLess ==
  ASSUME Own, Guarded' => Guarded, Stoppable, UNCHANGED pending, inbox # <<>>,
         inbox' = Tail(inbox), Head(inbox).type # "shutdown",
         \A h \in agent'.handlers :
           /\ h.id \in Ids /\ ~ (Head(inbox).type = "cancel" /\ Head(inbox).id = h.id)
           /\ (\E g \in agent.handlers : g.id = h.id) \/ Starts(Head(inbox), h.id)
  PROVE  Stoppable'
<1> USE OwnTypes
<1>1. /\ Len(inbox') = Len(inbox) - 1 /\ Len(inbox) > 0 /\ Head(inbox) = inbox[1]
      /\ \A i \in 1 .. Len(inbox') : inbox'[i] = inbox[i + 1]
  BY TailFact
<1>2. ASSUME NEW r \in Ids, NEW i \in 1 .. Len(inbox), Stopping(r, i),
             i > 1 \/ ~ (inbox[1].type = "cancel" /\ inbox[1].id = r),
             NEW k \in 1 .. Len(inbox), k = (IF i > 1 THEN i - 1 ELSE 1)
      PROVE  Stopping(r, k)'
  <2>1. PICK j \in i .. Len(inbox) :
          inbox[j].type = "shutdown" \/ (inbox[j].type = "cancel" /\ inbox[j].id = r)
    BY <1>2 DEF Stopping
  <2>2. j # 1 BY <1>1, <1>2, <2>1
  <2>3. j - 1 \in k .. Len(inbox') /\ j - 1 \in 1 .. Len(inbox') /\ (j - 1) + 1 = j
    BY <1>1, <1>2, <2>1, <2>2
  <2>4. inbox'[j - 1] = inbox[j] BY <1>1, <2>3
  <2> QED BY <2>1, <2>3, <2>4 DEF Stopping
<1>3. 1 \in 1 .. Len(inbox) BY <1>1
<1>4. ASSUME Guarded', NEW h \in agent'.handlers PROVE h.id \in pending' \/ Stopping(h.id, 1)'
  <2>1. PICK r \in Ids : r = h.id OBVIOUS
  <2>2. ~ (inbox[1].type = "cancel" /\ inbox[1].id = r)
        /\ (r \in pending \/ Stopping(r, 1))
    BY <1>1, <1>3, <1>4, <2>1 DEF Stoppable
  <2>3. Stopping(r, 1) => Stopping(r, 1)' BY <1>2, <1>3, <2>2
  <2> QED BY <2>1, <2>2, <2>3
<1>5. ASSUME Guarded', NEW r \in Ids, NEW i \in 1 .. Len(inbox'), Starts(inbox'[i], r)
      PROVE  r \in pending' \/ Stopping(r, i)'
  <2>1. i + 1 \in 1 .. Len(inbox) /\ i \in 1 .. Len(inbox) /\ i + 1 > 1 /\ (i + 1) - 1 = i
    BY <1>1
  <2>2. r \in pending \/ Stopping(r, i + 1) BY <1>1, <1>5, <2>1 DEF Stoppable
  <2>3. Stopping(r, i + 1) => Stopping(r, i)' BY <1>2, <2>1
  <2> QED BY <2>2, <2>3
<1> QED BY <1>4, <1>5 DEF Stoppable

LEMMA StopStep ==
  ASSUME Own, Stoppable, [Next]_vars
  PROVE  Stoppable'
<1> USE OwnTypes
<1>0. Correlated /\ Once /\ AgentOK /\ HostOK /\ CallersOK BY DEF Own
<1>a. \A h \in agent.handlers : \E g \in agent.handlers : g.id = h.id OBVIOUS
<1>b. UNCHANGED <<kind, host, link>> => (Guarded' => Guarded) BY DEF Guarded, Ordered
<1>c. UNCHANGED <<kind, host, link, pending, inbox, agent>> => Stoppable'
  BY <1>a, <1>b, StopSame
<1>d. link' # "open" => Stoppable' BY DEF Stoppable, Guarded
<1>e. ~ Ordered /\ UNCHANGED kind => Stoppable' BY DEF Stoppable, Guarded, Ordered
<1>f. ~ (host'.receiver = "loop" \/ host'.phase = "closed") => Stoppable'
  BY DEF Stoppable, Guarded
<1>g. /\ \A type \in {"initialize", "execute", "badMiddleware", "cancel", "shutdown"}, r \in Ids :
           /\ ToAgent(type, r) \in HostMessages
           /\ ToAgent(type, r).id = r /\ ToAgent(type, r).type = type
      /\ 0 \in Ids
  BY <1>0, MessageFacts, FieldFacts, TypeFacts
<1>h. Guarded => Ordered /\ link = "open" BY DEF Guarded
<1>i. ASSUME ServerFails \/ Stopped, UNCHANGED kind PROVE Stoppable'
  <2>1. CASE Ordered
    <3>1. link' = "closed" BY <1>i, <2>1 DEF ServerFails, Stopped, Ordered
    <3> QED BY <1>d, <3>1
  <2> QED BY <1>e, <1>i, <2>1
<1>1. ASSUME NEW r \in Ids, Execute(r) PROVE Stoppable'
  <2>1. PICK type \in {"execute", "badMiddleware"} : Post(ToAgent(type, r)) BY <1>1 DEF Execute
  <2>2. PICK msg \in HostMessages : msg = ToAgent(type, r) BY <1>g
  <2>3. /\ pending' = pending \union {r} /\ UNCHANGED <<kind, link, agent>>
        /\ host' = [host EXCEPT !.next = @ + 1, !.made = @ + 1]
    BY <1>1 DEF Execute
  <2>4. Guarded' => Guarded BY <1>0, <2>3 DEF Guarded, Ordered, HostOK
  <2>5. CASE Ordered /\ link = "open"
    <3>1. inbox' = Append(inbox, msg) BY <2>1, <2>2, <2>5 DEF Post
    <3>2. \A q \in Ids : Starts(msg, q) => q \in pending' BY <1>g, <2>2, <2>3 DEF Starts
    <3> QED BY <2>3, <2>4, <3>1, <3>2, StopMore
  <2> QED BY <1>d, <1>e, <2>3, <2>5
<1>2. ASSUME NEW r \in Ids, Settle(r) \/ TakeProgress(r) PROVE Stoppable'
  BY <1>2, <1>c DEF Settle, TakeProgress
<1>3. ASSUME NEW r \in Ids, Halt(r) PROVE Stoppable'
  <2>1. UNCHANGED <<kind, host, link, agent>> /\ pending' = pending \ {r}
    BY <1>3 DEF Halt, Cleanup
  <2>2. CASE r \in pending /\ Ordered /\ link = "open"
    <3>1. PICK msg \in HostMessages : msg = ToAgent("cancel", r) BY <1>g
    <3>2. inbox' = Append(inbox, msg) BY <1>3, <2>2, <3>1 DEF Halt, Cleanup, Post
    <3>3. msg.type = "cancel" /\ msg.id = r BY <1>g, <3>1
    <3>4. \A q \in Ids : ~ Starts(msg, q) BY <3>3 DEF Starts
    <3> QED BY <1>b, <2>1, <3>2, <3>3, <3>4, StopMore
  <2>3. CASE r \notin pending
    <3>1. UNCHANGED inbox /\ pending' = pending BY <1>3, <2>1, <2>3 DEF Halt, Cleanup
    <3> QED BY <1>c, <2>1, <3>1
  <2> QED BY <1>d, <1>e, <2>1, <2>2, <2>3
<1>4. ASSUME NEW r \in Ids, HaltPost(r) PROVE Stoppable'
  <2>1. req[r].pc = "sending" /\ UNCHANGED kind BY <1>4 DEF HaltPost
  <2> QED BY <1>0, <1>e, <2>1 DEF Once
<1>5. CASE Receive
  <2>1. /\ UNCHANGED <<kind, posts, inbox, agent, link>> /\ down # <<>>
        /\ host.phase \in {"connecting", "open"}
        /\ IF host.receiver = "init" THEN Initialized(Head(down)) ELSE Routed(Head(down))
    BY <1>5 DEF Receive
  <2>2. PICK msg \in AgentMessages : msg = Head(down) BY <2>1, TailFact
  <2>3. msg = down[1] /\ 1 \in 1 .. Len(down) BY <2>1, <2>2, TailFact
  <2>4. CASE host.receiver = "init"
    <3>1. host.next = 0 BY <1>0, <2>4 DEF HostOK
    <3>2. agent.handlers = {}
      <4>1. \A h \in agent.handlers : h.id < 0 /\ h.id \in Nat BY <1>0, <3>1 DEF Correlated
      <4> QED BY <4>1
    <3>3. \A r \in Ids : ~ Asked(r) BY <1>0, <3>1 DEF Correlated
    <3>4. \A r \in Ids, i \in 1 .. Len(inbox) : ~ Starts(inbox[i], r) BY <3>3 DEF Asked
    <3> QED BY <2>1, <3>2, <3>4 DEF Stoppable
  <2>5. CASE host.receiver # "init" /\ msg.type = "malformed"
    <3>1. host' = [host EXCEPT !.receiver = "ended"] BY <2>1, <2>2, <2>5 DEF Routed
    <3>2. host'.receiver = "ended" /\ host'.phase # "closed" BY <1>0, <2>1, <3>1 DEF HostOK
    <3> QED BY <1>f, <3>2
  <2>6. CASE host.receiver # "init" /\ msg.type # "malformed"
    <3>1. UNCHANGED host BY <2>1, <2>2, <2>6 DEF Routed
    <3>2. CASE UNCHANGED pending BY <1>c, <2>1, <3>1, <3>2
    <3>3. CASE /\ msg.type \in {"result", "refused"} /\ msg.id \in pending
               /\ pending' = pending \ {msg.id}
      <4>1. Answers(down[1], msg.id) /\ msg.id \in Ids BY <2>3, <3>3 DEF Answers
      <4>2. ~ Asked(msg.id) BY <1>0, <2>3, <4>1 DEF Once
      <4>3. \A h \in agent.handlers : h.id # msg.id BY <1>0, <2>3, <4>1 DEF Once
      <4>4. \A i \in 1 .. Len(inbox) : ~ Starts(inbox[i], msg.id) BY <4>2 DEF Asked
      <4>5. Guarded' => Guarded BY <1>b, <2>1, <3>1
      <4>6. \A r, i : Stopping(r, i)' <=> Stopping(r, i) BY <2>1 DEF Stopping
      <4>7. ASSUME Guarded', NEW h \in agent'.handlers PROVE h.id \in pending' \/ Stopping(h.id, 1)'
        BY <2>1, <3>3, <4>3, <4>5, <4>6, <4>7 DEF Stoppable
      <4>8. ASSUME Guarded', NEW r \in Ids, NEW i \in 1 .. Len(inbox'), Starts(inbox'[i], r)
            PROVE  r \in pending' \/ Stopping(r, i)'
        BY <2>1, <3>3, <4>4, <4>5, <4>6, <4>8 DEF Stoppable
      <4> QED BY <4>7, <4>8 DEF Stoppable
    <3> QED BY <2>1, <2>2, <2>6, <3>2, <3>3 DEF Routed, Answered
  <2> QED BY <2>4, <2>5, <2>6
<1>6. CASE ReceiveEnd BY <1>6, <1>d DEF ReceiveEnd
<1>7. ASSUME NEW msg \in posts, PostArrives(msg) \/ PostFails(msg) PROVE Stoppable'
  <2>1. ~ Ordered BY <1>0 DEF Once
  <2> QED BY <1>7, <1>e, <2>1 DEF PostArrives, PostFails
<1>8. CASE CloseSession
  <2>1. UNCHANGED <<kind, link, agent>> /\ Post(ToAgent("shutdown", 0)) BY <1>8 DEF CloseSession
  <2>2. CASE Ordered /\ link = "open"
    <3>1. PICK msg \in HostMessages : msg = ToAgent("shutdown", 0) BY <1>g
    <3>2. inbox' = Append(inbox, msg) /\ msg.type = "shutdown"
      BY <1>g, <2>1, <2>2, <3>1 DEF Post
    <3> QED BY <2>1, <3>2, StopAll
  <2> QED BY <1>d, <1>e, <2>1, <2>2
<1>9. CASE Disconnect \/ HostDies
  <2>1. link' # "open" BY <1>9 DEF Disconnect, HostDies, Disconnected
  <2> QED BY <1>d, <2>1
<1>10. CASE Connect BY <1>10, <1>f DEF Connect, FreshHost
<1>11. CASE Serve
  <2>1. /\ inbox # <<>> /\ inbox' = Tail(inbox) /\ UNCHANGED <<kind, host, req, pending, posts>>
    BY <1>11 DEF Serve
  <2>2. PICK msg \in HostMessages : msg = Head(inbox) BY <2>1, ReadFacts
  <2>3. \/ ServeInitialize(msg) \/ ServeBadMiddleware(msg) \/ ServeExecute(msg)
        \/ ServeCancel(msg) \/ ServeShutdown(msg)
    BY <1>11, <2>2 DEF Serve
  <2>4. msg.id \in Ids /\ msg.sess = host.sess BY <2>1, <2>2, ReadFacts
  <2>5. ASSUME agent'.handlers = agent.handlers, UNCHANGED link,
               msg.type \in {"initialize", "execute", "badMiddleware"}
        PROVE  Stoppable'
    BY <1>b, <2>1, <2>2, <2>5, StopLess
  <2>6. ASSUME NEW ans, NEW next, Reply(ans, next), next.handlers = agent.handlers,
               msg.type \in {"initialize", "execute", "badMiddleware"}
        PROVE  Stoppable'
    <3>1. CASE CanSend BY <2>5, <2>6, <3>1 DEF Reply
    <3>2. CASE ~ CanSend BY <1>i, <2>1, <2>6, <3>2 DEF Reply
    <3> QED BY <3>1, <3>2
  <2>7. CASE ServeInitialize(msg) BY <2>6, <2>7 DEF ServeInitialize
  <2>8. CASE ServeBadMiddleware(msg) BY <2>6, <2>8 DEF ServeBadMiddleware
  <2>9. CASE ServeExecute(msg)
    <3> DEFINE noted == With(agent.inflight, msg.id, <<msg.sess, msg.id>>)
               new == [id |-> msg.id, tag |-> <<msg.sess, msg.id>>, sent |-> 0]
               ans == ToHost("result", msg.id, <<msg.sess, msg.id>>, 0)
    <3>1. /\ msg.type = "execute" /\ new.id = msg.id
          /\ \/ /\ agent' = [agent EXCEPT !.inflight = noted, !.handlers = @ \union {new}]
                /\ UNCHANGED <<down, link>>
             \/ Reply(ans, [agent EXCEPT !.inflight = noted])
      BY <2>9 DEF ServeExecute
    <3> HIDE DEF noted, new, ans
    <3>2. CASE /\ agent' = [agent EXCEPT !.inflight = noted, !.handlers = @ \union {new}]
               /\ UNCHANGED <<down, link>>
      <4>1. agent'.handlers = agent.handlers \union {new} BY <1>0, <3>2 DEF AgentOK
      <4>2. Starts(msg, msg.id) BY <3>1 DEF Starts
      <4>3. \A h \in agent'.handlers :
              /\ h.id \in Ids
              /\ (\E g \in agent.handlers : g.id = h.id) \/ Starts(msg, h.id)
        BY <2>4, <3>1, <4>1, <4>2
      <4> QED BY <1>b, <2>1, <2>2, <3>1, <3>2, <4>3, StopLess
    <3>3. CASE Reply(ans, [agent EXCEPT !.inflight = noted])
      <4>1. [agent EXCEPT !.inflight = noted].handlers = agent.handlers BY <1>0 DEF AgentOK
      <4> QED BY <2>6, <3>1, <3>3, <4>1
    <3> QED BY <3>1, <3>2, <3>3
  <2>10. CASE ServeCancel(msg)
    <3>1. /\ msg.type = "cancel" /\ UNCHANGED link
          /\ agent'.handlers = {h \in agent.handlers : ~ (msg.id \in DOMAIN agent.inflight
                                                          /\ h.tag = agent.inflight[msg.id])}
      BY <1>0, <2>10 DEF ServeCancel, AgentOK
    <3>2. \A h \in agent'.handlers : h \in agent.handlers /\ h.id # msg.id
      BY <1>0, <3>1 DEF Correlated, Once
    <3> QED BY <1>b, <2>1, <2>2, <3>1, <3>2, StopLess
  <2>11. CASE ServeShutdown(msg) BY <1>i, <2>1, <2>11 DEF ServeShutdown
  <2> QED BY <2>3, <2>7, <2>8, <2>9, <2>10, <2>11
<1>12. CASE ServeEnd BY <1>12, <1>i DEF ServeEnd
<1>13. ASSUME NEW h \in agent.handlers, HandlerEnds(h) PROVE Stoppable'
  <2>1. CASE CanSend
    <3>1. /\ agent' = [agent EXCEPT !.inflight = Without(@, h.id), !.handlers = @ \ {h}]
          /\ UNCHANGED <<kind, host, link, pending, inbox>>
      BY <1>13, <2>1 DEF HandlerEnds
    <3>2. agent'.handlers \subseteq agent.handlers BY <1>0, <3>1 DEF AgentOK
    <3> QED BY <1>b, <3>1, <3>2, StopSame
  <2>2. CASE ~ CanSend BY <1>i, <1>13, <2>2 DEF HandlerEnds
  <2> QED BY <2>1, <2>2
<1>14. ASSUME NEW h \in agent.handlers, HandlerReports(h) PROVE Stoppable'
  <2>1. /\ agent' = [agent EXCEPT !.handlers = (@ \ {h}) \union {[h EXCEPT !.sent = @ + 1]}]
        /\ UNCHANGED <<kind, host, link, pending, inbox>>
    BY <1>14 DEF HandlerReports
  <2>2. [h EXCEPT !.sent = @ + 1].id = h.id BY DEF Handlers
  <2>3. \A k \in agent'.handlers : \E g \in agent.handlers : g.id = k.id
    BY <1>0, <2>1, <2>2 DEF AgentOK
  <2> QED BY <1>b, <2>1, <2>3, StopSame
<1>15. ASSUME NEW n \in agent.stale, CloseEvent(n) PROVE Stoppable'
  <2>1. /\ UNCHANGED <<kind, host, link, pending, inbox>> /\ agent'.handlers = agent.handlers
    BY <1>0, <1>15 DEF CloseEvent, AgentOK
  <2> QED BY <1>b, <2>1, StopSame
<1>16. CASE LinkBreaks BY <1>16, <1>d DEF LinkBreaks
<1>17. CASE AgentGarbles BY <1>17, <1>c DEF AgentGarbles
<1>18. CASE UNCHANGED vars BY <1>18, <1>c DEF vars
<1> QED
  BY <1>1, <1>2, <1>3, <1>4, <1>5, <1>6, <1>7, <1>8, <1>9, <1>10, <1>11, <1>12, <1>13,
     <1>14, <1>15, <1>16, <1>17, <1>18
  DEF Next

-----------------------------------------------------------------------------
(* The theorems *)

\* A session of an agent that serves no other one stays its agent's only one.
LEMMA OwnStays ==
  ASSUME TypeOK, [Next]_vars, OwnAgent'
  PROVE  OwnAgent
<1>0. HostOK /\ host.sess \in Nat /\ host.sess >= 1 BY TypeParts, TypeFacts DEF HostOK
<1>1. UNCHANGED <<kind, host>> => OwnAgent BY DEF OwnAgent, Persistent
<1>2. ASSUME UNCHANGED kind, host'.sess = host.sess PROVE OwnAgent
  BY <1>2 DEF OwnAgent, Persistent
<1>3. CASE Connect
  <2>1. kind' = kind /\ host'.sess = host.sess + 1 BY <1>3 DEF Connect, FreshHost
  <2>2. host.sess + 1 # 1 BY <1>0
  <2> QED BY <2>1, <2>2 DEF OwnAgent, Persistent
<1>4. ASSUME NEW r \in Ids, Execute(r) PROVE OwnAgent
  <2>1. UNCHANGED kind /\ host' = [host EXCEPT !.next = @ + 1, !.made = @ + 1]
    BY <1>4 DEF Execute
  <2> QED BY <1>0, <1>2, <2>1 DEF HostOK
<1>5. ASSUME UNCHANGED kind,
             \/ host' = [host EXCEPT !.phase = "open", !.receiver = "loop"]
             \/ host' = [host EXCEPT !.phase = "failed", !.receiver = "ended"]
             \/ host' = [host EXCEPT !.phase = "closed", !.receiver = "ended"]
             \/ host' = [host EXCEPT !.receiver = "ended"]
             \/ host' = host
      PROVE  OwnAgent
  BY <1>0, <1>2, <1>5 DEF HostOK
<1>6. CASE Receive BY <1>5, <1>6 DEF Receive, Initialized, Routed
<1>7. CASE ReceiveEnd \/ CloseSession \/ HostDies
  BY <1>5, <1>7 DEF ReceiveEnd, CloseSession, HostDies
<1>8. ASSUME NEW msg \in posts, PostFails(msg) PROVE OwnAgent
  BY <1>5, <1>8 DEF PostFails
<1>9. ASSUME NEW msg \in posts, PostArrives(msg) PROVE OwnAgent BY <1>1, <1>9 DEF PostArrives
<1>10. ASSUME NEW r \in Ids, Settle(r) \/ TakeProgress(r) \/ Halt(r) \/ HaltPost(r) PROVE OwnAgent
  BY <1>1, <1>10 DEF Settle, TakeProgress, Halt, HaltPost
<1>11. CASE Disconnect \/ Serve \/ ServeEnd \/ LinkBreaks \/ AgentGarbles \/ UNCHANGED vars
  BY <1>1, <1>11 DEF Disconnect, Serve, ServeEnd, LinkBreaks, AgentGarbles, vars
<1>12. ASSUME NEW h \in agent.handlers, HandlerEnds(h) \/ HandlerReports(h) PROVE OwnAgent
  BY <1>1, <1>12 DEF HandlerEnds, HandlerReports
<1>13. ASSUME NEW n \in agent.stale, CloseEvent(n) PROVE OwnAgent BY <1>1, <1>13 DEF CloseEvent
<1> QED
  BY <1>3, <1>4, <1>6, <1>7, <1>8, <1>9, <1>10, <1>11, <1>12, <1>13 DEF Next

LEMMA OwnParts ==
  TypeOK /\ OwnAgent /\ Correlated /\ Once => Own
BY TypeParts DEF Own

LEMMA SessionInit == Init => SessionInv
<1> SUFFICES ASSUME Init PROVE SessionInv
  OBVIOUS
<1>1. TypeOK BY TypeInit
<1>2. /\ agent.handlers = {} /\ agent.inflight = << >> /\ pending = {} /\ down = <<>>
      /\ req = [r \in Ids |-> Idle] /\ host.next = 0 /\ host.phase = "connecting"
      /\ host.receiver = "init"
  BY DEF Init, FreshAgent, FreshHost
<1>3. /\ \A msg \in posts : msg.type = "initialize" /\ msg.sess = host.sess
      /\ \A i \in 1 .. Len(inbox) : inbox[i].type = "initialize" /\ inbox[i].sess = host.sess
      /\ Ordered => posts = {}
  BY FieldFacts DEF Init, Ordered
<1>4. \A r \in Ids : ~ Asked(r) BY <1>3 DEF Asked, Starts
<1>5. \A r \in Ids : req[r].terminal.type = "none" /\ req[r].pc = "idle" BY <1>2, OutcomeFacts
<1>6. OwnAnswer BY <1>5 DEF OwnAnswer
<1>7. Correlated BY <1>2, <1>3, <1>4, <1>6 DEF Correlated
<1>8. AskedOnce BY <1>3 DEF AskedOnce, Starts
<1>9. Once BY <1>2, <1>3, <1>4, <1>5, <1>8 DEF Once
<1>10. Reported BY <1>2, <1>4, <1>5 DEF Reported
<1>11. Stoppable BY <1>2, <1>3 DEF Stoppable, Guarded
<1> QED BY <1>1, <1>7, <1>9, <1>10, <1>11 DEF SessionInv

LEMMA SessionStep == SessionInv /\ [Next]_vars => SessionInv'
<1> SUFFICES ASSUME SessionInv, [Next]_vars PROVE SessionInv'
  OBVIOUS
<1>1. TypeOK /\ TypeOK' BY TypeStep DEF SessionInv
<1>2. ASSUME OwnAgent' PROVE Correlated' /\ Once' /\ Reported' /\ Stoppable'
  <2>1. OwnAgent BY <1>1, <1>2, OwnStays
  <2>2. Own /\ Reported /\ Stoppable BY <1>1, <2>1, OwnParts DEF SessionInv
  <2>3. Correlated' /\ Once' /\ AskedLess BY <1>1, <1>2, <2>2, OnceStep
  <2>4. Reported' BY <2>2, <2>3, ReportedStep
  <2>5. Stoppable' BY <2>2, StopStep
  <2> QED BY <2>3, <2>4, <2>5
<1> QED BY <1>1, <1>2 DEF SessionInv

\* Messages, handlers and callers of a session agree, whatever is lost,
\* repeated or late: the invariant that the theorems below rest on.
THEOREM SessionCorrect == Spec => []SessionInv
BY SessionInit, SessionStep, PTL DEF Spec

\* The answer a caller gets is that of the handler that ran its request.
THEOREM OwnAnswerHolds == Spec => []OwnAnswerOfOwnAgent
<1>1. SessionInv => OwnAnswerOfOwnAgent BY DEF SessionInv, Correlated, OwnAnswerOfOwnAgent
<1> QED BY <1>1, SessionCorrect, PTL

\* A handler runs only as long as its caller waits or the message that stops it
\* is under way, over transports that keep the order of messages.
THEOREM NoOrphansHolds == Spec => []NoOrphans
<1>1. SessionInv => NoOrphans
  <2> SUFFICES ASSUME SessionInv, Ordered, link = "open",
                      host.receiver = "loop" \/ host.phase = "closed", NEW h \in agent.handlers
               PROVE  h.id \in pending \/ \E i \in 1 .. Len(inbox) : Stops(h, inbox[i])
    BY DEF NoOrphans
  <2>1. OwnAgent BY DEF OwnAgent, Persistent, Ordered
  <2>2. h.id \in pending \/ Stopping(h.id, 1) BY <2>1 DEF SessionInv, Stoppable, Guarded
  <2> QED BY <2>2 DEF Stopping, Stops
<1> QED BY <1>1, SessionCorrect, PTL

\* A caller that has its result has nothing queued.
Drained ==
  \A r \in Ids : req[r].pc = "settled" /\ req[r].terminal.type = "result" => req[r].queued = 0

LEMMA DrainedFacts ==
  /\ TypeOK /\ OwnAgent /\ Reported => (NoProgressLost <=> Drained)
  /\ TypeOK' /\ OwnAgent' /\ Reported' => (NoProgressLost' <=> Drained')
<1>1. ASSUME TypeOK, OwnAgent, Reported PROVE NoProgressLost <=> Drained
  <2>1. \A r \in Ids : req[r].queued \in Nat /\ req[r].seen \in Nat BY <1>1 DEF TypeOK, Request
  <2>2. \A r \in Ids : req[r].terminal.type = "result" =>
          req[r].terminal.sent = req[r].queued + req[r].seen
    BY <1>1 DEF Reported, Got
  <2>3. \A q, n \in Nat : n = q + n <=> q = 0 OBVIOUS
  <2> QED BY <1>1, <2>1, <2>2, <2>3 DEF NoProgressLost, Drained
<1>2. ASSUME TypeOK', OwnAgent', Reported' PROVE NoProgressLost' <=> Drained'
  <2>1. \A r \in Ids : req'[r].queued \in Nat /\ req'[r].seen \in Nat
    BY <1>2 DEF TypeOK, Request
  <2>2. \A r \in Ids : req'[r].terminal.type = "result" =>
          req'[r].terminal.sent = req'[r].queued + req'[r].seen
    BY <1>2 DEF Reported, Got
  <2>3. \A q, n \in Nat : n = q + n <=> q = 0 OBVIOUS
  <2> QED BY <1>2, <2>1, <2>2, <2>3 DEF NoProgressLost, Drained
<1> QED BY <1>1, <1>2

LEMMA DrainedStep ==
  ASSUME Own, Reported, Drained, [Next]_vars
  PROVE  Drained'
<1> USE OwnTypes
<1>0. CallersOK BY DEF Own
<1>a. UNCHANGED req => Drained' BY DEF Drained
<1>b. req' = [r \in Ids |-> Idle] => Drained' BY OutcomeFacts DEF Drained
<1>c. ASSUME NEW r \in Ids, NEW pc \in {"sending", "waiting", "halted"},
             req' = [req EXCEPT ![r].pc = pc]
      PROVE  Drained'
  BY <1>c DEF Drained, Request
<1>1. ASSUME NEW r \in Ids, Execute(r) PROVE Drained'
  BY <1>1, <1>c DEF Execute
<1>2. ASSUME NEW r \in Ids, Settle(r) PROVE Drained'
  <2>1. req' = [req EXCEPT ![r].pc = "settled"] /\ req[r].queued = 0 BY <1>2 DEF Settle
  <2> QED BY <2>1 DEF Drained, Request
<1>3. ASSUME NEW r \in Ids, TakeProgress(r) PROVE Drained'
  <2>1. /\ req' = [req EXCEPT ![r].queued = @ - 1, ![r].seen = @ + 1] /\ req[r].pc = "waiting"
    BY <1>3 DEF TakeProgress
  <2> QED BY <2>1 DEF Drained, Request
<1>4. ASSUME NEW r \in Ids, Halt(r) \/ HaltPost(r) PROVE Drained'
  BY <1>4, <1>c DEF Halt, HaltPost
<1>5. ASSUME RejectAll PROVE Drained'
  BY <1>5, OutcomeFacts DEF RejectAll, Drained, Request
<1>6. CASE Receive
  <2>1. CASE /\ Head(down).type = "progress" /\ Head(down).id \in pending
             /\ req' = [req EXCEPT ![Head(down).id].queued = @ + 1]
    <3>1. Head(down).id \in Ids /\ req[Head(down).id].pc # "settled"
      BY <1>0, <2>1 DEF CallersOK, Open
    <3> QED BY <2>1, <3>1 DEF Drained, Request
  <2>2. CASE /\ Head(down).type \in {"result", "refused"} /\ Head(down).id \in pending
             /\ Answered(Head(down).id, [type |-> Head(down).type, tag |-> Head(down).tag,
                                         sent |-> Head(down).sent])
    <3>1. Head(down).id \in Ids /\ req[Head(down).id].pc # "settled"
      BY <1>0, <2>2 DEF CallersOK, Open
    <3> QED BY <2>2, <3>1 DEF Answered, Drained, Request
  <2> QED BY <1>a, <1>5, <1>6, <2>1, <2>2 DEF Receive, Initialized, Routed
<1>7. CASE ReceiveEnd BY <1>a, <1>5, <1>7 DEF ReceiveEnd
<1>8. ASSUME NEW msg \in posts, PostArrives(msg) PROVE Drained'
  <2>1. msg.id \in Ids OBVIOUS
  <2> QED BY <1>a, <1>8, <1>c, <2>1 DEF PostArrives
<1>9. ASSUME NEW msg \in posts, PostFails(msg), Sent(msg) PROVE Drained'
  <2>1. msg.id \in Ids /\ Starts(msg, msg.id) BY <1>9 DEF Sent, Starts
  <2>2. req[msg.id].queued = 0
    <3>1. Asked(msg.id) BY <2>1 DEF Asked
    <3>2. Got(msg.id) = 0 BY <2>1, <3>1 DEF Reported
    <3>3. req[msg.id].queued \in Nat /\ req[msg.id].seen \in Nat BY <2>1 DEF Request
    <3>4. \A a, b \in Nat : a + b = 0 => a = 0 OBVIOUS
    <3> QED BY <3>2, <3>3, <3>4 DEF Got
  <2>3. req' = [req EXCEPT ![msg.id].pc = "settled", ![msg.id].terminal =
                  IF @ = NoOutcome THEN Failure ELSE @]
    BY <1>9 DEF PostFails
  <2> QED BY <2>1, <2>2, <2>3 DEF Drained, Request
<1>10. ASSUME NEW msg \in posts, PostFails(msg), ~ Sent(msg) PROVE Drained'
  BY <1>a, <1>10 DEF PostFails
<1>11. CASE HostDies \/ Connect BY <1>b, <1>11 DEF HostDies, Connect
<1>12. CASE CloseSession \/ Disconnect \/ Serve \/ ServeEnd \/ LinkBreaks \/ AgentGarbles
            \/ UNCHANGED vars
  BY <1>a, <1>12 DEF CloseSession, Disconnect, Serve, ServeEnd, LinkBreaks, AgentGarbles, vars
<1>13. ASSUME NEW h \in agent.handlers, HandlerEnds(h) \/ HandlerReports(h) PROVE Drained'
  BY <1>a, <1>13 DEF HandlerEnds, HandlerReports
<1>14. ASSUME NEW n \in agent.stale, CloseEvent(n) PROVE Drained'
  BY <1>a, <1>14 DEF CloseEvent
<1> QED
  BY <1>1, <1>2, <1>3, <1>4, <1>6, <1>7, <1>8, <1>9, <1>10, <1>11, <1>12, <1>13, <1>14 DEF Next

\* A caller has seen every report of its handler when it gets the result.
THEOREM NoProgressLostHolds == Spec => []NoProgressLost
<1>1. Init => NoProgressLost
  <2>1. Init => \A r \in Ids : req[r].pc = "idle" BY OutcomeFacts DEF Init
  <2> QED BY <2>1 DEF NoProgressLost
<1>2. SessionInv /\ SessionInv' /\ NoProgressLost /\ [Next]_vars => NoProgressLost'
  <2> SUFFICES ASSUME SessionInv, SessionInv', NoProgressLost, [Next]_vars, OwnAgent'
               PROVE  NoProgressLost'
    BY DEF NoProgressLost
  <2>1. TypeOK /\ TypeOK' /\ Reported' BY DEF SessionInv
  <2>2. OwnAgent BY <2>1, OwnStays
  <2>3. Own /\ Reported BY <2>1, <2>2, OwnParts DEF SessionInv
  <2>4. Drained BY <2>1, <2>2, <2>3, DrainedFacts
  <2>5. Drained' BY <2>3, <2>4, DrainedStep
  <2> QED BY <2>1, <2>5, DrainedFacts
<1> QED BY <1>1, <1>2, SessionCorrect, PTL DEF Spec
=============================================================================
