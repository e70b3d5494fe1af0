-------------------------- MODULE ProtocolSession --------------------------
(***************************************************************************)
(* A host session (createSession, installAgentTransport) and the agent's   *)
(* protocol server (createProtocolServer) over one transport.  Requests    *)
(* are answered, cancelled, and reported on concurrently; connections      *)
(* break, hosts crash and connect again.                                   *)
(***************************************************************************)
EXTENDS Naturals, Sequences, FiniteSets

CONSTANTS
  Kinds,        \* which transports: subset of {"channel", "process", "sse"}
  MaxSessions,  \* sessions opened one after the other, for each transport
  MaxRequests,  \* requests of all sessions together, for each transport
  MaxFaults,    \* broken connections, failed posts, crashed hosts, repeated answers
  MaxProgress   \* progress reports of one handler, for each transport

ASSUME SessionBounds ==
  /\ Kinds \subseteq {"channel", "process", "sse"}
  /\ MaxSessions \in [Kinds -> Nat \ {0}] /\ MaxRequests \in [Kinds -> Nat \ {0}]
  /\ MaxFaults \in Nat /\ MaxProgress \in [Kinds -> Nat]

VARIABLES
  kind,    \* the transport
  host,    \* the session: its number, phase, receiver loop and requestCounter
  req,     \* request id -> what its caller sees
  pending, \* request ids that the receiver loop still answers
  posts,   \* host messages under way, for transports that do not order them
  inbox,   \* host messages the agent has received and not read
  down,    \* agent messages on their way to the host
  link,    \* "open" or "closed": the stream of agent messages
  agent,   \* protocol server: loop, inflight, handlers, and the SSE response
  faults

vars == <<kind, host, req, pending, posts, inbox, down, link, agent, faults>>

-----------------------------------------------------------------------------
(* Requests and messages *)

Largest(f) == CHOOSE n \in {f[k] : k \in Kinds} : \A k \in Kinds : f[k] <= n
Ids == 0 .. Largest(MaxRequests) - 1

\* A request by its session and its id: what an answer is really about.
Tag(r) == <<host.sess, r>>
Tags == (1 .. Largest(MaxSessions)) \X Ids

NoOutcome == [type |-> "none", tag |-> <<0, 0>>, sent |-> 0]
Failure == [type |-> "error", tag |-> <<0, 0>>, sent |-> 0]
Outcomes == {Failure} \union [type : {"result", "refused"}, tag : Tags, sent : 0 .. Largest(MaxProgress)]

Idle == [pc |-> "idle", terminal |-> NoOutcome, queued |-> 0, seen |-> 0]
Open == {"sending", "waiting"}

\* A host message carries the session it is of only for the properties.
ToAgent(type, r) == [type |-> type, id |-> r, sess |-> host.sess]
\* An agent message carries the handler it is of, and its place among the
\* reports of that handler, only for the properties.
ToHost(type, r, tag, n) == [type |-> type, id |-> r, tag |-> tag, sent |-> n]

\* Channels of the same process, pipes and sockets keep the order of messages
\* and drop what is sent when they are closed; posts overtake each other.
Ordered == kind # "sse"
\* The agent outlives the connection.
Persistent == kind = "sse"

Post(msg) ==
  IF Ordered
    THEN /\ inbox' = IF link = "open" THEN Append(inbox, msg) ELSE inbox
         /\ UNCHANGED posts
    ELSE posts' = posts \union {msg} /\ UNCHANGED inbox

-----------------------------------------------------------------------------
(* The host *)

FreshAgent ==
  [loop |-> "running", inflight |-> << >>, handlers |-> {}, conn |-> 1, stale |-> {}]
FreshHost(n, made) ==
  [sess |-> n, phase |-> "connecting", receiver |-> "init", next |-> 0, made |-> made]

\* createSession has subscribed and sent initialize.
Init ==
  /\ kind \in Kinds
  /\ host = FreshHost(1, 0)
  /\ req = [r \in Ids |-> Idle]
  /\ pending = {}
  /\ posts = IF kind = "sse" THEN {ToAgent("initialize", 0)} ELSE {}
  /\ inbox = IF kind = "sse" THEN <<>> ELSE <<ToAgent("initialize", 0)>>
  /\ down = <<>> /\ link = "open"
  /\ agent = FreshAgent
  /\ faults = 0

\* An effect is dispatched: the id comes from the session's own counter.
\* Middleware that is not a valid function is refused by the agent.
Execute(r) ==
  /\ host.phase = "open" /\ r = host.next /\ host.made < MaxRequests[kind]
  /\ host' = [host EXCEPT !.next = @ + 1, !.made = @ + 1]
  /\ pending' = pending \union {r}
  /\ req' = [req EXCEPT ![r].pc = IF Ordered THEN "waiting" ELSE "sending"]
  /\ \E type \in {"execute", "badMiddleware"} : Post(ToAgent(type, r))
  /\ UNCHANGED <<kind, down, link, agent, faults>>

\* Mutant: a result is taken and the request stays pending.
AnswerKept(r, outcome) ==
  /\ req' = [req EXCEPT ![r].terminal = outcome]
  /\ UNCHANGED pending
\* Mutant: the oldest pending request gets the answer, whatever its id.
AnswerOldest(r, outcome) ==
  LET o == CHOOSE o \in pending : \A p \in pending : o <= p
  IN /\ pending' = pending \ {o}
     /\ req' = [req EXCEPT ![o].terminal = outcome]
\* onResult and onProtocolError.
Answered(r, outcome) ==
  /\ pending' = pending \ {r}
  /\ req' = [req EXCEPT ![r].terminal = outcome]

\* Mutant: the requests that wait are left waiting.
RejectNone == UNCHANGED <<req, pending>>
\* The stream of the agent's messages is over: every pending request fails.
RejectAll ==
  /\ pending' = {}
  /\ req' = [r \in Ids |->
               IF r \in pending THEN [req[r] EXCEPT !.terminal = Failure] ELSE req[r]]

\* The first message must be the answer to initialize.
Initialized(msg) ==
  /\ IF msg.type = "initialized"
       THEN host' = [host EXCEPT !.phase = "open", !.receiver = "loop"]
       ELSE host' = [host EXCEPT !.phase = "failed", !.receiver = "ended"]
  /\ UNCHANGED <<req, pending>>

Routed(msg) ==
  IF msg.type = "malformed" THEN RejectAll /\ host' = [host EXCEPT !.receiver = "ended"]
  ELSE /\ UNCHANGED host
       /\ CASE msg.type \in {"result", "refused"} /\ msg.id \in pending ->
                 Answered(msg.id, [type |-> msg.type, tag |-> msg.tag, sent |-> msg.sent])
            [] msg.type = "progress" /\ msg.id \in pending ->
                 req' = [req EXCEPT ![msg.id].queued = @ + 1] /\ UNCHANGED pending
            [] OTHER -> UNCHANGED <<req, pending>>

\* The receiver loop takes one message.
Receive ==
  /\ host.phase \in {"connecting", "open"} /\ host.receiver # "ended" /\ down # <<>>
  /\ down' = Tail(down)
  /\ IF host.receiver = "init" THEN Initialized(Head(down)) ELSE Routed(Head(down))
  /\ UNCHANGED <<kind, posts, inbox, link, agent, faults>>

\* The receiver loop finds the stream at its end.
ReceiveEnd ==
  /\ host.phase \in {"connecting", "open"} /\ host.receiver # "ended"
  /\ down = <<>> /\ link = "closed"
  /\ IF host.receiver = "init"
       THEN host' = [host EXCEPT !.phase = "failed", !.receiver = "ended"] /\ UNCHANGED <<req, pending>>
       ELSE host' = [host EXCEPT !.receiver = "ended"] /\ RejectAll
  /\ UNCHANGED <<kind, posts, inbox, down, link, agent, faults>>

\* The caller takes a progress report.
TakeProgress(r) ==
  /\ req[r].pc = "waiting" /\ req[r].queued > 0
  /\ req' = [req EXCEPT ![r].queued = @ - 1, ![r].seen = @ + 1]
  /\ UNCHANGED <<kind, host, pending, posts, inbox, down, link, agent, faults>>

\* Mutant: the outcome is returned without the progress before it.
SettleEarly(r) ==
  /\ req[r].pc = "waiting" /\ req[r].terminal # NoOutcome
  /\ req' = [req EXCEPT ![r].pc = "settled"]
  /\ UNCHANGED <<kind, host, pending, posts, inbox, down, link, agent, faults>>
\* The caller takes the outcome, after all progress (signal.close is queued
\* behind what was sent).
Settle(r) ==
  /\ req[r].pc = "waiting" /\ req[r].terminal # NoOutcome /\ req[r].queued = 0
  /\ req' = [req EXCEPT ![r].pc = "settled"]
  /\ UNCHANGED <<kind, host, pending, posts, inbox, down, link, agent, faults>>

\* The finally of execute: only a request nobody has answered is cancelled.
Cleanup(r) ==
  /\ pending' = pending \ {r}
  /\ IF r \in pending THEN Post(ToAgent("cancel", r)) ELSE UNCHANGED <<posts, inbox>>

\* The caller is halted.
Halt(r) ==
  /\ host.phase \in {"open", "closed"} /\ req[r].pc = "waiting"
  /\ req' = [req EXCEPT ![r].pc = "halted"]
  /\ Cleanup(r)
  /\ UNCHANGED <<kind, host, down, link, agent, faults>>
\* It is halted while its post is under way: the post is aborted, and may
\* have reached the agent or not.
HaltPost(r) ==
  /\ host.phase \in {"open", "closed"} /\ req[r].pc = "sending"
  /\ req' = [req EXCEPT ![r].pc = "halted"]
  /\ pending' = pending \ {r}
  /\ \E lost \in SUBSET {m \in posts : m.id = r /\ m.sess = host.sess} :
       posts' = (posts \ lost) \union
                  (IF r \in pending THEN {ToAgent("cancel", r)} ELSE {})
  /\ UNCHANGED <<kind, host, inbox, down, link, agent, faults>>

Sent(msg) == msg.type \in {"execute", "badMiddleware"} /\ msg.sess = host.sess
             /\ req[msg.id].pc = "sending"
\* A post arrives and is acknowledged; the messages of crashed hosts too.
PostArrives(msg) ==
  /\ msg \in posts /\ posts' = posts \ {msg}
  /\ inbox' = Append(inbox, msg)
  /\ req' = IF Sent(msg) THEN [req EXCEPT ![msg.id].pc = "waiting"] ELSE req
  /\ UNCHANGED <<kind, host, pending, down, link, agent, faults>>
\* A post fails, before or after it arrived: initialize and execute throw,
\* for others the error is dropped.
PostFails(msg) ==
  /\ msg \in posts /\ faults < MaxFaults /\ faults' = faults + 1
  /\ \E arrived \in BOOLEAN : inbox' = IF arrived THEN Append(inbox, msg) ELSE inbox
  /\ IF Sent(msg)
       THEN /\ pending' = pending \ {msg.id}
            /\ req' = [req EXCEPT ![msg.id].pc = "settled", ![msg.id].terminal =
                         IF @ = NoOutcome THEN Failure ELSE @]
            /\ posts' = (posts \ {msg}) \union
                          (IF msg.id \in pending THEN {ToAgent("cancel", msg.id)} ELSE {})
       ELSE posts' = posts \ {msg} /\ UNCHANGED <<req, pending>>
  /\ host' = IF msg.type = "initialize" /\ msg.sess = host.sess /\ host.phase = "connecting"
             THEN [host EXCEPT !.phase = "failed", !.receiver = "ended"] ELSE host
  /\ UNCHANGED <<kind, down, link, agent>>

\* The scope of the session ends.
CloseSession ==
  /\ host.phase = "open"
  /\ host' = [host EXCEPT !.phase = "closed", !.receiver = "ended"]
  /\ Post(ToAgent("shutdown", 0))
  /\ UNCHANGED <<kind, req, pending, down, link, agent, faults>>

Over == host.phase \in {"closed", "failed"} /\ \A r \in Ids : req[r].pc \notin Open
\* An agent that is part of the connection ends with it (destroyScope, the
\* child process is killed).
Disconnected ==
  /\ link' = "closed"
  /\ down' = <<>>
  /\ IF Persistent
       THEN agent' = [agent EXCEPT !.stale = @ \union {host.sess}] /\ UNCHANGED inbox
       ELSE agent' = [FreshAgent EXCEPT !.loop = "stopped"] /\ inbox' = <<>>

\* The transport is released after the session.
Disconnect ==
  /\ Over /\ link = "open"
  /\ Disconnected
  /\ UNCHANGED <<kind, host, req, pending, posts, faults>>

\* The host's process dies: nothing more is sent; posts under way may arrive.
HostDies ==
  /\ faults < MaxFaults /\ faults' = faults + 1
  /\ host.phase \in {"connecting", "open"}
  /\ host' = [host EXCEPT !.phase = "closed", !.receiver = "ended"]
  /\ req' = [r \in Ids |-> Idle] /\ pending' = {}
  /\ IF link = "open" THEN Disconnected ELSE UNCHANGED <<link, down, agent, inbox>>
  /\ UNCHANGED <<kind, posts>>

\* A host connects: a channel or a process comes with an agent of its own,
\* an SSE endpoint takes the response of the new connection for all it sends.
Connect ==
  /\ Over /\ link = "closed" /\ host.sess < MaxSessions[kind]
  /\ LET n == host.sess + 1
         hello == [type |-> "initialize", id |-> 0, sess |-> n]
     IN /\ host' = FreshHost(n, host.made)
        /\ IF Persistent
             THEN /\ agent' = [agent EXCEPT !.conn = n]
                  /\ posts' = posts \union {hello} /\ UNCHANGED inbox
             ELSE agent' = FreshAgent /\ inbox' = <<hello>> /\ UNCHANGED posts
  /\ req' = [r \in Ids |-> Idle] /\ pending' = {}
  /\ down' = <<>> /\ link' = "open"
  /\ UNCHANGED <<kind, faults>>

-----------------------------------------------------------------------------
(* The agent *)

\* send of the SSE adapter throws once a close event has cleared its response.
CanSend == kind = "sse" => agent.conn # 0
\* What is sent on a connection that is gone is lost.
Reaches == link = "open" /\ (kind = "sse" => agent.conn = host.sess)
Down(msgs) == IF Reaches THEN down \o msgs ELSE down

\* An error nobody catches ends the server loop and its handlers.
ServerFails ==
  /\ agent' = [agent EXCEPT !.loop = "failed", !.handlers = {}, !.inflight = << >>]
  /\ link' = IF kind = "sse" THEN link ELSE "closed"
  /\ UNCHANGED down

Reply(msg, next) ==
  IF CanSend THEN down' = Down(<<msg>>) /\ agent' = next /\ UNCHANGED link ELSE ServerFails

ServeInitialize(msg) ==
  /\ msg.type = "initialize"
  /\ \E type \in {"initialized", "initError"} : Reply(ToHost(type, 0, <<0, 0>>, 0), agent)

ServeBadMiddleware(msg) ==
  /\ msg.type = "badMiddleware"
  /\ Reply(ToHost("refused", msg.id, <<msg.sess, msg.id>>, 0), agent)

Without(f, r) == [i \in DOMAIN f \ {r} |-> f[i]]
With(f, r, tag) == [i \in DOMAIN f \union {r} |-> IF i = r THEN tag ELSE f[i]]

\* A handler is spawned and entered in inflight, or, if it needs nothing that
\* takes time, has answered before its entry is made.
ServeExecute(msg) ==
  LET tag == <<msg.sess, msg.id>>
      noted == With(agent.inflight, msg.id, tag)
  IN /\ msg.type = "execute"
     /\ \/ /\ agent' = [agent EXCEPT !.inflight = noted,
                          !.handlers = @ \union {[id |-> msg.id, tag |-> tag, sent |-> 0]}]
           /\ UNCHANGED <<down, link>>
        \/ Reply(ToHost("result", msg.id, tag, 0), [agent EXCEPT !.inflight = noted])

\* Mutant: the entry goes and the handler stays.
ServeCancelLazily(msg) ==
  /\ msg.type = "cancel"
  /\ agent' = [agent EXCEPT !.inflight = Without(@, msg.id)]
  /\ UNCHANGED <<down, link>>
\* The handler entered for the id is halted, if there is one.
ServeCancel(msg) ==
  /\ msg.type = "cancel"
  /\ agent' = [agent EXCEPT !.inflight = Without(@, msg.id),
                 !.handlers = {h \in @ : ~ (msg.id \in DOMAIN agent.inflight
                                            /\ h.tag = agent.inflight[msg.id])}]
  /\ UNCHANGED <<down, link>>

\* The loop ends, and with it its handlers; then a channel is closed, a
\* process ends, and an SSE response stays open.
Stopped ==
  /\ agent' = [agent EXCEPT !.loop = "stopped", !.handlers = {}, !.inflight = << >>]
  /\ link' = IF kind = "sse" THEN link ELSE "closed"
  /\ UNCHANGED down
ServeShutdown(msg) == msg.type = "shutdown" /\ Stopped

Serve ==
  /\ agent.loop = "running" /\ inbox # <<>>
  /\ inbox' = Tail(inbox)
  /\ LET msg == Head(inbox)
     IN \/ ServeInitialize(msg) \/ ServeBadMiddleware(msg) \/ ServeExecute(msg)
        \/ ServeCancel(msg) \/ ServeShutdown(msg)
  /\ UNCHANGED <<kind, host, req, pending, posts, faults>>
\* The messages of the host end.
ServeEnd ==
  /\ agent.loop = "running" /\ inbox = <<>> /\ kind = "process" /\ link = "closed"
  /\ Stopped
  /\ UNCHANGED <<kind, host, req, pending, posts, inbox, faults>>

\* A handler ends: its entry goes, its answer is sent, and by an agent that
\* does not keep the rules more than once.  A send that throws is answered by
\* a send that throws.
HandlerEnds(h) ==
  /\ h \in agent.handlers
  /\ IF CanSend
       THEN \E n \in {1, 2} :
              /\ faults' = faults + (n - 1) /\ faults' <= MaxFaults
              /\ down' = Down([i \in 1 .. n |-> ToHost("result", h.id, h.tag, h.sent)])
              /\ agent' = [agent EXCEPT !.inflight = Without(@, h.id), !.handlers = @ \ {h}]
              /\ UNCHANGED link
       ELSE ServerFails /\ UNCHANGED faults
  /\ UNCHANGED <<kind, host, req, pending, posts, inbox>>
HandlerReports(h) ==
  /\ h \in agent.handlers /\ h.sent < MaxProgress[kind] /\ CanSend
  /\ down' = Down(<<ToHost("progress", h.id, h.tag, h.sent + 1)>>)
  /\ agent' = [agent EXCEPT !.handlers = (@ \ {h}) \union {[h EXCEPT !.sent = @ + 1]}]
  /\ UNCHANGED <<kind, host, req, pending, posts, inbox, link, faults>>

\* The close event of an SSE response: it clears whichever is current.
CloseEvent(n) ==
  /\ n \in agent.stale
  /\ agent' = [agent EXCEPT !.stale = @ \ {n}, !.conn = 0]
  /\ UNCHANGED <<kind, host, req, pending, posts, inbox, down, link, faults>>

-----------------------------------------------------------------------------
(* Faults of the connection *)

LinkBreaks ==
  /\ kind # "channel" /\ link = "open" /\ faults < MaxFaults /\ faults' = faults + 1
  /\ link' = "closed"
  /\ \E n \in 0 .. Len(down) : down' = SubSeq(down, 1, n)
  /\ agent' = [agent EXCEPT !.stale = IF Persistent THEN @ \union {host.sess} ELSE @]
  /\ UNCHANGED <<kind, host, req, pending, posts, inbox>>
\* Something else than a message of the protocol is printed.
AgentGarbles ==
  /\ kind = "process" /\ agent.loop = "running" /\ link = "open"
  /\ faults < MaxFaults /\ faults' = faults + 1
  /\ down' = Append(down, ToHost("malformed", 0, <<0, 0>>, 0))
  /\ UNCHANGED <<kind, host, req, pending, posts, inbox, link, agent>>

-----------------------------------------------------------------------------
Receiver == Receive \/ ReceiveEnd
Deliver == \E msg \in posts : PostArrives(msg)
Caller(r) == Settle(r) \/ TakeProgress(r)
Handler == \E h \in agent.handlers : HandlerEnds(h)

Next ==
  \/ \E r \in Ids : Execute(r) \/ Settle(r) \/ TakeProgress(r) \/ Halt(r) \/ HaltPost(r)
  \/ Receive \/ ReceiveEnd
  \/ \E msg \in posts : PostArrives(msg) \/ PostFails(msg)
  \/ CloseSession \/ Disconnect \/ HostDies \/ Connect
  \/ Serve \/ ServeEnd
  \/ \E h \in agent.handlers : HandlerEnds(h) \/ HandlerReports(h)
  \/ \E n \in agent.stale : CloseEvent(n)
  \/ LinkBreaks \/ AgentGarbles

\* A scope that ends halts what runs in it.
Unwind(r) == host.phase = "closed" /\ (Halt(r) \/ HaltPost(r))

\* Messages arrive, loops go on, handlers end, callers of a session that is
\* closed are halted; nobody has to break, crash, or dispatch.
Fairness ==
  /\ WF_vars(Receiver) /\ WF_vars(Deliver) /\ WF_vars(Serve) /\ WF_vars(Handler)
  /\ \A r \in Ids : WF_vars(Caller(r) \/ Unwind(r))

Spec == Init /\ [][Next]_vars /\ Fairness

-----------------------------------------------------------------------------
(* Properties *)

HostMessages ==
  [type : {"initialize", "execute", "badMiddleware", "cancel", "shutdown"},
   id : Ids, sess : 1 .. Largest(MaxSessions)]
AgentMessages ==
  [type : {"initialized", "initError", "malformed"}, id : {0}, tag : {<<0, 0>>}, sent : {0}]
    \union [type : {"result", "refused", "progress"}, id : Ids, tag : Tags,
            sent : 0 .. Largest(MaxProgress)]
Handlers == [id : Ids, tag : Tags, sent : 0 .. Largest(MaxProgress)]
Request == [pc : {"idle", "sending", "waiting", "settled", "halted"},
            terminal : Outcomes \union {NoOutcome}, queued : Nat, seen : Nat]

TypeOK ==
  /\ kind \in Kinds /\ faults \in 0 .. MaxFaults
  /\ host \in [sess : 1 .. MaxSessions[kind], phase : {"connecting", "open", "failed", "closed"},
               receiver : {"init", "loop", "ended"}, next : 0 .. MaxRequests[kind],
               made : 0 .. MaxRequests[kind]]
  /\ host.next <= host.made
  /\ host.receiver = "init" => host.phase = "connecting"
  /\ host.phase = "connecting" => host.next = 0
  /\ req \in [Ids -> Request]
  /\ \A r \in Ids : r >= host.next => req[r] = Idle
  /\ pending \subseteq {r \in Ids : req[r].pc \in Open /\ req[r].terminal = NoOutcome}
  /\ posts \subseteq HostMessages /\ inbox \in Seq(HostMessages)
  /\ down \in Seq(AgentMessages)
  /\ link \in {"open", "closed"}
  /\ agent \in [loop : {"running", "stopped", "failed"}, conn : 0 .. host.sess,
                inflight : UNION {[D -> Tags] : D \in SUBSET Ids},
                handlers : SUBSET Handlers, stale : SUBSET (1 .. host.sess)]

\* An agent that outlives its first connection is shared by sessions whose ids
\* are the same; the properties that this breaks are stated without it.
OwnAgent == Persistent => host.sess = 1

\* A caller gets the answer of the handler that ran its request, whatever
\* answers cross, repeat, or come late (pending, correlated by id).
OwnAnswer ==
  \A r \in Ids : req[r].terminal.type \in {"result", "refused"} =>
    req[r].terminal.tag = Tag(r)
OwnAnswerOfOwnAgent == OwnAgent => OwnAnswer

\* A caller has seen every progress report of its handler when it gets the
\* result (progress is valid until the result, and queued before it).
NoProgressLost ==
  OwnAgent => \A r \in Ids :
    req[r].pc = "settled" /\ req[r].terminal.type = "result"
      => req[r].seen = req[r].terminal.sent

\* Where messages keep their order, a handler runs only as long as its caller
\* waits, or the message that stops it is under way (cancel on interruption).
Stops(h, msg) == msg.type = "shutdown" \/ (msg.type = "cancel" /\ msg.id = h.id)
NoOrphans ==
  Ordered /\ link = "open" /\ (host.receiver = "loop" \/ host.phase = "closed")
    => \A h \in agent.handlers :
         h.id \in pending \/ \E i \in 1 .. Len(inbox) : Stops(h, inbox[i])

-----------------------------------------------------------------------------
(* The inductive invariant behind the safety properties, for an agent that
   serves one session *)

Starts(msg, r) == msg.type \in {"execute", "badMiddleware"} /\ msg.id = r
Answers(msg, r) == msg.type \in {"result", "refused"} /\ msg.id = r
Reports(msg, r) == msg.type = "progress" /\ msg.id = r

\* The message that asks for the request has not been read by the agent.
Asked(r) ==
  \/ \E msg \in posts : Starts(msg, r)
  \/ \E i \in 1 .. Len(inbox) : Starts(inbox[i], r)

\* Whatever is under way is of this session, and about a request it has made.
Correlated ==
  /\ \A msg \in posts : msg.sess = host.sess
  /\ \A i \in 1 .. Len(inbox) : inbox[i].sess = host.sess
  /\ \A r \in Ids : Asked(r) => r < host.next
  /\ \A i \in 1 .. Len(down), r \in Ids :
       Answers(down[i], r) \/ Reports(down[i], r) => r < host.next /\ down[i].tag = Tag(r)
  /\ \A h \in agent.handlers : h.id < host.next /\ h.tag = Tag(h.id)
  /\ \A r \in DOMAIN agent.inflight : agent.inflight[r] = Tag(r)
  /\ OwnAnswer

\* A request is asked for once, and is then a handler or has answers.
AskedOnce ==
  /\ \A r \in Ids, msg, other \in posts : Starts(msg, r) /\ Starts(other, r) => msg = other
  /\ \A r \in Ids, i, j \in 1 .. Len(inbox) :
       Starts(inbox[i], r) /\ Starts(inbox[j], r) => i = j
  /\ \A r \in Ids, msg \in posts, i \in 1 .. Len(inbox) :
       ~ (Starts(msg, r) /\ Starts(inbox[i], r))
Once ==
  /\ Ordered => posts = {} /\ \A r \in Ids : req[r].pc # "sending"
  /\ AskedOnce
  /\ \A h, g \in agent.handlers : h.id = g.id => h = g
  /\ \A h \in agent.handlers :
       /\ h.id \in DOMAIN agent.inflight /\ ~ Asked(h.id)
       /\ \A i \in 1 .. Len(down) : ~ Answers(down[i], h.id)
  /\ \A i \in 1 .. Len(down), r \in Ids :
       Answers(down[i], r) \/ Reports(down[i], r) => ~ Asked(r)

\* The reports of a request that waits are on their way in order, without a
\* gap, and before its answer.
Got(r) == req[r].queued + req[r].seen
ReportedBefore(r, n, i) ==
  n = Got(r) \/ \E j \in 1 .. i - 1 : Reports(down[j], r) /\ down[j].sent = n
InOrder(r) ==
  /\ \A i \in 1 .. Len(down) : Reports(down[i], r) =>
       /\ down[i].sent > Got(r) /\ ReportedBefore(r, down[i].sent - 1, i)
       /\ \A j \in 1 .. i - 1 : Reports(down[j], r) => down[j].sent < down[i].sent
  /\ \A i \in 1 .. Len(down) : Answers(down[i], r) =>
       /\ down[i].type = "result" => down[i].sent >= Got(r) /\ ReportedBefore(r, down[i].sent, i)
       /\ \A j \in 1 .. Len(down) : Reports(down[j], r) => j < i /\ down[j].sent <= down[i].sent
  /\ \A h \in agent.handlers : h.id = r /\ link = "open" =>
       /\ h.sent >= Got(r) /\ ReportedBefore(r, h.sent, Len(down) + 1)
       /\ \A j \in 1 .. Len(down) : Reports(down[j], r) => down[j].sent <= h.sent
Reported ==
  /\ \A r \in pending : InOrder(r)
  /\ \A r \in Ids :
       /\ req[r].terminal.type = "result" => req[r].terminal.sent = Got(r)
       /\ Asked(r) => Got(r) = 0

\* A request nobody waits for is stopped: as a handler, and as a message still
\* to be read.
Stopping(r, i) ==
  \E j \in i .. Len(inbox) :
    inbox[j].type = "shutdown" \/ (inbox[j].type = "cancel" /\ inbox[j].id = r)
Guarded == Ordered /\ link = "open" /\ (host.receiver = "loop" \/ host.phase = "closed")
Stoppable ==
  Guarded =>
    /\ \A h \in agent.handlers : h.id \in pending \/ Stopping(h.id, 1)
    /\ \A r \in Ids, i \in 1 .. Len(inbox) :
         Starts(inbox[i], r) => r \in pending \/ Stopping(r, i)

SessionInv ==
  /\ TypeOK
  /\ OwnAgent => Correlated /\ Once /\ Reported /\ Stoppable

\* Every request made while the receiver runs ends, if handlers do, and every
\* session opens or fails: with an answer, or when the connection breaks.
Waits(r) == req[r].pc \in Open
AnsweredWhileReceiving ==
  /\ \A r \in Ids : Waits(r) /\ host.receiver = "loop" /\ OwnAgent ~> ~ Waits(r)
  /\ host.phase = "connecting" /\ OwnAgent ~> host.phase # "connecting"

\* The same of every request (agent specification, 3.4: the host times out).
EveryRequestEnds == \A r \in Ids : Waits(r) ~> ~ Waits(r)

\* The session implements the life of requests.
Calls ==
  [r \in Ids |->
    [state |-> CASE req[r].pc = "idle" -> "unopened"
                 [] req[r].pc \in Open -> "open"
                 [] OTHER -> req[r].pc,
     outcome |-> req[r].terminal]]
Life == INSTANCE RequestLifecycle WITH None <- NoOutcome, call <- Calls
ImplementsLifecycle == Life!Spec
=============================================================================
