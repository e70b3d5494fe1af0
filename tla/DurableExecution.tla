-------------------------- MODULE DurableExecution --------------------------
(***************************************************************************)
(* One coroutine of execute(): the driver that steps a workflow's kernel,  *)
(* sends the effects it yields through the middleware chain, journals each *)
(* result before the kernel sees it, and, after a crash or a restart,      *)
(* replays the journal.                                                    *)
(*                                                                         *)
(* packages/runtime/src/execute.ts: execute, driveKernel and               *)
(* dispatchStandardEffect.  packages/durable-streams/src: ReplayIndex,     *)
(* InMemoryStream, FileStream.                                             *)
(*                                                                         *)
(* The kernel and the max-priority middleware are deterministic functions  *)
(* of what they have been told so far; handlers answer anything they may.  *)
(***************************************************************************)
EXTENDS Integers, Sequences, FiniteSets

CONSTANTS
  Programs,            \* versions of the workflow and of its middleware
  Ids,                 \* effect ids (type and name)
  Payloads,            \* effect data; sha stands for the data it is a hash of
  RuntimeDirect,       \* ids that bypass the chain: __config, stream.*
  NonCanonical,        \* those of them journaled without a sha
  Capabilities,        \* payloads and values that hold a subscription handle
  Values,              \* values effects and workflows return
  Errors,              \* names of errors effects and workflows raise
  KernelStep(_, _),    \* program, results consumed -> what the kernel does next
  MaxStep(_, _, _),    \* program, effect, answers of next() -> what max does
  Answers(_),          \* effect -> results its handler may return
  NoSha,               \* the sha of a description that has none
  Asynchronous,        \* TRUE: FileStream; FALSE: InMemoryStream
  MaxRuns,             \* bound: calls of execute
  MaxFaults,           \* bound: appends that fail
  MaxDeploys           \* bound: changes of program between runs

ASSUME ConstantsAssumption ==
  /\ NonCanonical \subseteq RuntimeDirect
  /\ NoSha \notin Payloads
  /\ {"DivergenceError", "SubscriptionCapabilityError", "AppendError"} \subseteq Errors
  /\ Asynchronous \in BOOLEAN
  /\ MaxRuns \in Nat /\ MaxFaults \in Nat /\ MaxDeploys \in Nat

VARIABLES
  program,    \* the version the next step runs
  yields,     \* durable Yield events of the coroutine, in order
  closes,     \* durable Close events; each knows how many Yields precede it
  torn,       \* the journal file ends in a partial line
  inflight,   \* events handed to append() that are not durable yet
  pc,         \* where the driver is
  index,      \* ReplayIndex: the Yields and the last Close read at start
  cursor,     \* its cursor
  consumed,   \* results the kernel has been resumed with in this run
  journal,    \* the in-memory journal execute returns
  closed,     \* driveKernel's flag that gates ensure()
  chain,      \* the dispatch in progress
  awaited,    \* the event whose append the driver awaits
  outcome,    \* what execute returned
  runs, faults, deploys

durable == <<yields, closes, torn>>
counters == <<runs, faults, deploys>>
vars == <<program, durable, inflight, pc, index, cursor, consumed, journal,
          closed, chain, awaited, outcome, counters>>

-----------------------------------------------------------------------------
(* Effects, descriptions, results and events *)

Effect == [id : Ids, data : Payloads]
Description == [id : Ids, sha : Payloads \union {NoSha}]

Ok(v) == [status |-> "ok", value |-> v]
Error(x) == [status |-> "error", error |-> x]
Cancelled == [status |-> "cancelled"]
NoClose == [status |-> "none"]
Result == {Ok(v) : v \in Values} \union {Error(x) : x \in Errors}
Final == Result \union {Cancelled}
ASSUME AnswersAssumption == \A e \in Effect : Answers(e) \subseteq Result

Outcome == Final \union {[status |-> s] : s \in {"none", "halted", "threw", "malformed"}}

YieldEvent(d, r) == [type |-> "yield", description |-> d, result |-> r]
CloseEvent(r) == [type |-> "close", result |-> r]
YieldEvents == {YieldEvent(d, r) : d \in Description, r \in Result}
CloseEvents == {CloseEvent(r) : r \in Final}

Yield(e) == [kind |-> "yield", effect |-> e]
Done(v) == [kind |-> "done", value |-> v]
Throw(x) == [kind |-> "throw", error |-> x]
Next_(e) == [kind |-> "next", effect |-> e]
Return(r) == [kind |-> "return", result |-> r]

(* The durable identity of a chain-dispatched or payload-sensitive effect,
   and of a runtime-direct one (its sha omitted when non-canonicalizable). *)
Identity(e) == [id |-> e.id, sha |-> e.data]
DirectIdentity(e) ==
  IF e.id \in NonCanonical THEN [id |-> e.id, sha |-> NoSha] ELSE Identity(e)
Matches(stored, e) == stored = Identity(e)
\* Mutant: the sha of a non-canonicalizable effect is compared too.
ShaAlwaysCompared(stored, e) == Matches(stored, e)
DirectMatches(stored, e) ==
  IF e.id \in NonCanonical THEN stored.id = e.id ELSE Matches(stored, e)

-----------------------------------------------------------------------------
(* ReplayIndex *)

BuildIndex ==
  [yields |-> yields,
   close  |-> IF closes = <<>> THEN NoClose ELSE closes[Len(closes)].result]
HasEntry == cursor < Len(index.yields)
PeekYield == index.yields[cursor + 1]
HasClose == index.close # NoClose

-----------------------------------------------------------------------------
(* Endings shared by several steps *)

Idle == [kind |-> "idle"]

\* The coroutine records its Close, unless the journal it started from has
\* one already (maybeAppendCloseToStream); `at' is where it awaits the append.
\* Mutant: the Close is appended whether or not the journal has one.
AlwaysAppendClose(result, at) ==
  /\ closed' = TRUE
  /\ chain' = Idle
  /\ inflight' = inflight \union {CloseEvent(result)}
  /\ awaited' = CloseEvent(result)
  /\ pc' = at
  /\ UNCHANGED <<journal, outcome>>
CloseWith(result, at) ==
  /\ closed' = TRUE
  /\ chain' = Idle
  /\ IF HasClose
     THEN /\ journal' = Append(journal, CloseEvent(result))
          /\ outcome' = IF at = "halting" THEN [status |-> "halted"] ELSE result
          /\ pc' = "exited"
          /\ UNCHANGED <<inflight, awaited>>
     ELSE /\ inflight' = inflight \union {CloseEvent(result)}
          /\ awaited' = CloseEvent(result)
          /\ pc' = at
          /\ UNCHANGED <<journal, outcome>>

\* driveKernel's catch: Close(error), then return the error, or rethrow a
\* DivergenceError that execute turns into the same error result.
Fail(x) == CloseWith(Error(x), "failing")

\* The kernel is resumed with a stored result.
ResumeFromStored ==
  /\ journal' = Append(journal, PeekYield)
  /\ consumed' = Append(consumed, PeekYield.result)
  /\ cursor' = cursor + 1

\* The Yield is handed to append(); the kernel waits (persist-before-resume).
\* Mutant: the kernel is resumed while the append is in flight.
ResumeBeforePersist(event) ==
  /\ inflight' = inflight \union {event}
  /\ consumed' = Append(consumed, event.result)
  /\ journal' = Append(journal, event)
  /\ chain' = Idle
  /\ pc' = "kernel"
  /\ UNCHANGED awaited
Persist(event) ==
  /\ inflight' = inflight \union {event}
  /\ awaited' = event
  /\ chain' = Idle
  /\ pc' = "append"
  /\ UNCHANGED <<consumed, journal>>

-----------------------------------------------------------------------------
(* execute: read the journal, build the index, start the kernel *)

Init ==
  /\ program \in Programs
  /\ yields = <<>> /\ closes = <<>> /\ torn = FALSE
  /\ inflight = {}
  /\ pc = "down"
  /\ index = [yields |-> <<>>, close |-> NoClose]
  /\ cursor = 0 /\ consumed = <<>> /\ journal = <<>>
  /\ closed = FALSE /\ chain = Idle
  /\ awaited = CloseEvent(Cancelled)
  /\ outcome = [status |-> "none"]
  /\ runs = 0 /\ faults = 0 /\ deploys = 0

\* A host starts the workflow, for the first time or again.  A coroutine whose
\* journal says it was cancelled returns at once; a torn journal is refused.
Boot ==
  /\ pc \in {"down", "exited"} /\ inflight = {}
  /\ runs < MaxRuns /\ runs' = runs + 1
  /\ index' = BuildIndex
  /\ cursor' = 0 /\ consumed' = <<>> /\ chain' = Idle
  /\ IF torn
     THEN /\ pc' = "exited" /\ outcome' = [status |-> "malformed"]
          /\ closed' = FALSE /\ journal' = <<>>
     ELSE IF index'.close = Cancelled
     THEN /\ pc' = "exited" /\ outcome' = Cancelled
          /\ closed' = TRUE /\ journal' = <<CloseEvent(Cancelled)>>
     ELSE /\ pc' = "kernel" /\ outcome' = [status |-> "none"]
          /\ closed' = FALSE /\ journal' = <<>>
  /\ UNCHANGED <<program, durable, inflight, awaited, faults, deploys>>

\* Between two runs the workflow or its middleware is changed.
Deploy ==
  /\ pc \in {"down", "exited"}
  /\ deploys < MaxDeploys /\ deploys' = deploys + 1
  /\ program' \in Programs \ {program}
  /\ UNCHANGED <<durable, inflight, pc, index, cursor, consumed, journal, closed,
                 chain, awaited, outcome, runs, faults>>

-----------------------------------------------------------------------------
(* The kernel yields an effect: dispatchStandardEffect *)

KernelIs(step) == pc = "kernel" /\ KernelStep(program, consumed) = step

\* The guard both paths share: nothing stored, but the journal has a Close.
\* Mutant: the guard is dropped.
IgnoreClose == FALSE
PastClose == ~HasEntry /\ HasClose
YieldPastClose ==
  /\ \E e \in Effect : KernelIs(Yield(e))
  /\ PastClose
  /\ Fail("DivergenceError")
  /\ UNCHANGED <<program, durable, index, cursor, consumed, counters>>

\* A runtime-direct effect with a stored entry.
YieldDirectStored ==
  \E e \in Effect :
    /\ KernelIs(Yield(e)) /\ e.id \in RuntimeDirect /\ HasEntry
    /\ IF DirectMatches(PeekYield.description, e)
       THEN /\ ResumeFromStored
            /\ UNCHANGED <<inflight, pc, closed, chain, awaited, outcome>>
       ELSE /\ Fail("DivergenceError")
            /\ UNCHANGED <<cursor, consumed>>
    /\ UNCHANGED <<program, durable, index, counters>>

\* A runtime-direct effect at the frontier runs live.
YieldDirectLive ==
  \E e \in Effect :
    /\ KernelIs(Yield(e)) /\ e.id \in RuntimeDirect
    /\ ~HasEntry /\ ~PastClose
    /\ chain' = [kind |-> "direct", effect |-> e]
    /\ pc' = "direct"
    /\ UNCHANGED <<program, durable, inflight, index, cursor, consumed, journal,
                   closed, awaited, outcome, counters>>

DirectReturns ==
  /\ pc = "direct"
  /\ \E r \in Answers(chain.effect) :
       Persist(YieldEvent(DirectIdentity(chain.effect), r))
  /\ UNCHANGED <<program, durable, index, cursor, closed, outcome, counters>>

\* An agent effect enters the chain.  At the frontier a payload that holds a
\* subscription handle is refused (RV2); a stored entry skips that check.
YieldChain ==
  \E e \in Effect :
    /\ KernelIs(Yield(e)) /\ e.id \notin RuntimeDirect /\ ~PastClose
    /\ IF ~HasEntry /\ e.data \in Capabilities
       THEN /\ Fail("SubscriptionCapabilityError")
       ELSE /\ chain' = [kind |-> "chain", effect |-> e, entry |-> HasEntry,
                         start |-> cursor, answers |-> <<>>,
                         boundary |-> Identity(e)]
            /\ pc' = "max"
            /\ UNCHANGED <<inflight, journal, closed, awaited, outcome>>
    /\ UNCHANGED <<program, durable, index, cursor, consumed, counters>>

MaxIs(step) ==
  pc = "max" /\ MaxStep(program, chain.effect, chain.answers) = step
Answer(r) == [chain EXCEPT !.answers = Append(@, r)]

\* max calls next(): the replay lane looks at the cursor.  Nothing stored:
\* note the boundary and delegate to the handler.
LaneLive ==
  \E e \in Effect :
    /\ MaxIs(Next_(e)) /\ ~HasEntry
    /\ chain' = [chain EXCEPT !.boundary = Identity(e)]
    /\ pc' = "handler"
    /\ UNCHANGED <<program, durable, inflight, index, cursor, consumed, journal,
                   closed, awaited, outcome, counters>>

HandlerReturns ==
  /\ pc = "handler"
  /\ \E r \in Answers([id |-> chain.boundary.id, data |-> chain.boundary.sha]) :
       chain' = Answer(r)
  /\ pc' = "max"
  /\ UNCHANGED <<program, durable, inflight, index, cursor, consumed, journal,
                 closed, awaited, outcome, counters>>

\* A stored entry for the same boundary: substitute the stored result.
\* Mutant: the entry is substituted but not consumed.
LaneReplayWithoutConsuming ==
  \E e \in Effect :
    /\ MaxIs(Next_(e)) /\ HasEntry /\ Matches(PeekYield.description, e)
    /\ journal' = Append(journal, PeekYield)
    /\ chain' = Answer(PeekYield.result)
    /\ UNCHANGED <<program, durable, inflight, pc, index, cursor, consumed,
                   closed, awaited, outcome, counters>>
LaneReplay ==
  \E e \in Effect :
    /\ MaxIs(Next_(e)) /\ HasEntry /\ Matches(PeekYield.description, e)
    /\ cursor' = cursor + 1
    /\ journal' = Append(journal, PeekYield)
    /\ chain' = Answer(PeekYield.result)
    /\ UNCHANGED <<program, durable, inflight, pc, index, consumed, closed,
                   awaited, outcome, counters>>

\* A stored entry for another boundary: DivergenceError into the middleware.
LaneDiverge ==
  \E e \in Effect :
    /\ MaxIs(Next_(e)) /\ HasEntry /\ ~Matches(PeekYield.description, e)
    /\ chain' = Answer(Error("DivergenceError"))
    /\ UNCHANGED <<program, durable, inflight, pc, index, cursor, consumed,
                   journal, closed, awaited, outcome, counters>>

Replayed == cursor > chain.start
MaxReturns(r) == MaxIs(Return(r))

\* The lane substituted: the kernel gets the stored result exactly, whatever
\* the middleware made of it on the way out.
\* Mutant: the kernel gets what the chain returned.
ReplayedResultOfChain ==
  \E r \in Result :
    /\ MaxReturns(r) /\ chain.entry /\ Replayed
    /\ consumed' = Append(consumed, r)
    /\ chain' = Idle /\ pc' = "kernel"
    /\ UNCHANGED <<program, durable, inflight, index, cursor, journal, closed,
                   awaited, outcome, counters>>
ChainReplayed ==
  /\ \E r \in Result : MaxReturns(r)
  /\ chain.entry /\ Replayed
  /\ consumed' = Append(consumed, index.yields[chain.start + 1].result)
  /\ chain' = Idle /\ pc' = "kernel"
  /\ UNCHANGED <<program, durable, inflight, index, cursor, journal, closed,
                 awaited, outcome, counters>>

\* The chain returned or threw with the entry still unconsumed: the stored
\* result stands if the source descriptor is the stored one.
ChainNotReplayed ==
  /\ \E r \in Result : MaxReturns(r)
  /\ chain.entry /\ ~Replayed
  /\ IF Matches(PeekYield.description, chain.effect)
     THEN /\ ResumeFromStored
          /\ chain' = Idle /\ pc' = "kernel"
          /\ UNCHANGED <<inflight, closed, awaited, outcome>>
     ELSE /\ Fail("DivergenceError")
          /\ UNCHANGED <<cursor, consumed>>
  /\ UNCHANGED <<program, durable, index, counters>>

\* Nothing was stored: journal the boundary (the source when next() was never
\* called) with what the chain returned.
ChainLive ==
  \E r \in Result :
    /\ MaxReturns(r) /\ ~chain.entry
    /\ Persist(YieldEvent(chain.boundary, r))
    /\ UNCHANGED <<program, durable, index, cursor, closed, outcome, counters>>

-----------------------------------------------------------------------------
(* The kernel finishes *)

\* A close value may not hold a subscription handle (RV3).
KernelReturns ==
  /\ \E v \in Values :
       /\ KernelIs(Done(v))
       /\ IF v \in Capabilities THEN Fail("SubscriptionCapabilityError")
          ELSE CloseWith(Ok(v), "closing")
  /\ UNCHANGED <<program, durable, index, cursor, consumed, counters>>

KernelThrows ==
  /\ \E x \in Errors : KernelIs(Throw(x)) /\ Fail(x)
  /\ UNCHANGED <<program, durable, index, cursor, consumed, counters>>

-----------------------------------------------------------------------------
(* The durable stream *)

Awaiting(event) == pc \in {"append", "closing", "failing", "halting"} /\ awaited = event

\* An append completes; the driver that awaited it goes on.
YieldDurable(event) ==
  /\ event \in inflight /\ event.type = "yield"
  /\ inflight' = inflight \ {event}
  /\ yields' = Append(yields, event)
  /\ IF Awaiting(event)
     THEN /\ pc' = "kernel"
          /\ consumed' = Append(consumed, event.result)
          /\ journal' = Append(journal, event)
     ELSE UNCHANGED <<pc, consumed, journal>>
  /\ UNCHANGED <<program, closes, torn, index, cursor, closed, chain, awaited,
                 outcome, counters>>

CloseDurable(event) ==
  /\ event \in inflight /\ event.type = "close"
  /\ inflight' = inflight \ {event}
  /\ closes' = Append(closes, [result |-> event.result, after |-> Len(yields)])
  /\ IF Awaiting(event)
     THEN /\ pc' = "exited"
          /\ journal' = Append(journal, event)
          /\ outcome' = IF pc = "halting" THEN [status |-> "halted"] ELSE event.result
     ELSE UNCHANGED <<pc, journal, outcome>>
  /\ UNCHANGED <<program, yields, torn, index, cursor, consumed, closed, chain,
                 awaited, counters>>

\* An awaited append fails.  A failed Yield, or a failed Close(ok), is caught
\* by driveKernel, which closes with the error; a failed Close(error) or
\* Close(cancelled) escapes execute.
AppendFails ==
  /\ faults < MaxFaults /\ faults' = faults + 1
  /\ \E event \in inflight :
       /\ Awaiting(event)
       /\ IF pc \in {"append", "closing"}
          THEN LET close == CloseEvent(Error("AppendError")) IN
               /\ closed' = TRUE
               /\ inflight' = (inflight \ {event}) \union {close}
               /\ awaited' = close
               /\ pc' = "failing"
               /\ UNCHANGED outcome
          ELSE /\ inflight' = inflight \ {event}
               /\ pc' = "exited"
               /\ outcome' = [status |-> "threw"]
               /\ UNCHANGED <<closed, awaited>>
  /\ UNCHANGED <<program, durable, index, cursor, consumed, journal, chain,
                 runs, deploys>>

-----------------------------------------------------------------------------
(* Cancellation and crash *)

\* The scope that runs execute is halted.  ensure() records Close(cancelled)
\* unless a Close is on its way.  With FileStream an append in flight is not
\* taken back; with InMemoryStream no append can be interrupted.
\* Mutant: ensure() is not gated by the flag.
HaltAlwaysCloses ==
  /\ pc \in {"max", "handler", "direct"}
            \union IF Asynchronous THEN {"append", "closing", "failing"} ELSE {}
  /\ CloseWith(Cancelled, "halting")
  /\ UNCHANGED <<program, durable, index, cursor, consumed, counters>>
\* Mutant: ensure() leaves no Close.
HaltNeverCloses ==
  /\ pc \in {"max", "handler", "direct"}
            \union IF Asynchronous THEN {"append", "closing", "failing"} ELSE {}
  /\ pc' = "exited" /\ outcome' = [status |-> "halted"] /\ chain' = Idle
  /\ UNCHANGED <<program, durable, inflight, index, cursor, consumed, journal, closed,
                 awaited, counters>>
Halt ==
  /\ pc \in {"max", "handler", "direct"}
            \union IF Asynchronous THEN {"append", "closing", "failing"} ELSE {}
  /\ IF closed
     THEN /\ pc' = "exited" /\ outcome' = [status |-> "halted"]
          /\ chain' = Idle
          /\ UNCHANGED <<inflight, journal, closed, awaited>>
     ELSE CloseWith(Cancelled, "halting")
  /\ UNCHANGED <<program, durable, index, cursor, consumed, counters>>

\* The host dies.  What was in flight is lost, and may leave half a line.
Crash ==
  /\ runs < MaxRuns
  /\ pc \notin {"down", "exited"} \/ inflight # {}
  /\ pc' = "down"
  /\ inflight' = {}
  /\ torn' \in IF Asynchronous /\ inflight # {} THEN BOOLEAN ELSE {torn}
  /\ chain' = Idle /\ outcome' = [status |-> "none"]
  /\ UNCHANGED <<program, yields, closes, index, cursor, consumed, journal,
                 closed, awaited, counters>>

-----------------------------------------------------------------------------
Driver ==
  \/ YieldPastClose \/ YieldDirectStored \/ YieldDirectLive \/ YieldChain
  \/ LaneLive \/ LaneReplay \/ LaneDiverge
  \/ ChainReplayed \/ ChainNotReplayed \/ ChainLive
  \/ KernelReturns \/ KernelThrows
Handler == DirectReturns \/ HandlerReturns
Storage == \E event \in inflight : YieldDurable(event) \/ CloseDurable(event)
Fault == Crash \/ Halt \/ AppendFails \/ Deploy

Next == Boot \/ Driver \/ Handler \/ Storage \/ Fault

Spec == Init /\ [][Next]_vars

\* Handlers answer, appends complete, a host is started again after a crash:
\* what recovery needs from the world.  Crashes are bounded, not prevented.
Fairness == WF_vars(Boot) /\ WF_vars(Driver) /\ WF_vars(Handler) /\ WF_vars(Storage)
FairSpec == Spec /\ Fairness

-----------------------------------------------------------------------------
(* Properties *)

Pcs == {"down", "kernel", "max", "handler", "direct", "append", "closing",
        "failing", "halting", "exited"}
DirectDispatch == [kind : {"direct"}, effect : Effect]
ChainDispatch ==
  [kind : {"chain"}, effect : Effect, entry : BOOLEAN, start : Nat,
   answers : Seq(Result), boundary : [id : Ids, sha : Payloads]]

\* Middleware that calls next() at most once per dispatch.
SingleNext ==
  \A p \in Programs, e, b \in Effect, r \in Result : MaxStep(p, e, <<r>>) # Next_(b)

\* Types of the state of execute, its journal and its replay index.
TypeOK ==
  /\ program \in Programs
  /\ yields \in Seq(YieldEvents)
  /\ closes \in Seq([result : Final, after : Nat])
  /\ torn \in BOOLEAN
  /\ inflight \in SUBSET (YieldEvents \union CloseEvents)
  /\ pc \in Pcs
  /\ index \in [yields : Seq(YieldEvents), close : Final \union {NoClose}]
  /\ cursor \in Nat
  /\ consumed \in Seq(Result)
  /\ journal \in Seq(YieldEvents \union CloseEvents)
  /\ closed \in BOOLEAN
  /\ chain \in {Idle} \union DirectDispatch \union ChainDispatch
  /\ pc = "direct" => chain \in DirectDispatch
  /\ pc \in {"max", "handler"} =>
       chain \in ChainDispatch /\ (chain.entry => chain.start < Len(index.yields))
  /\ awaited \in YieldEvents \union CloseEvents
  /\ outcome \in Outcome
  /\ runs \in Nat /\ faults \in Nat /\ deploys \in Nat

\* Persist-before-resume, across crashes: whatever the kernel has been told in
\* this run is what the durable journal says at the same positions.
PersistBeforeResume ==
  /\ Len(consumed) <= Len(yields)
  /\ \A i \in 1..Len(consumed) : consumed[i] = yields[i].result

\* The durable yield rule: a handler runs only for the effect after the last
\* durable Yield, and never once the coroutine has a durable Close.
DurableYieldRule ==
  pc \in {"handler", "direct"} => Len(yields) = Len(consumed) /\ closes = <<>>

\* What may still land behind a Close: the one append that a halt has left in
\* flight (FileStream.append is not taken back), behind a Close(cancelled).  No
\* later run adds to a closed journal, and no failed or finished workflow has an
\* append behind its Close.
OnlyAbandonedFollows ==
  \A i \in 1..Len(closes) :
    \/ closes[i].after = Len(yields)
    \/ closes[i].after + 1 = Len(yields) /\ closes[i].result = Cancelled

\* A coroutine's Close appears after all its Yields.
CloseIsLast == \A i \in 1..Len(closes) : closes[i].after = Len(yields)

\* Nothing but crashes and cancellation disturbed the workflow.
Undisturbed == faults = 0 /\ deploys = 0
StreamEvents ==
  yields \o [i \in 1..Len(closes) |-> CloseEvent(closes[i].result)]

\* The journal a run returns is the durable stream, event for event, however
\* much of it was replayed.
ExactReplay ==
  pc = "exited" /\ outcome \in Result /\ Undisturbed => journal = StreamEvents

\* A coroutine with a durable Close yields that result on every later run.
ClosedResultReplayed ==
  pc = "exited" /\ closes # <<>> /\ outcome \in Final /\ Undisturbed
    => outcome = closes[Len(closes)].result

\* A run of the same program over its own journal never diverges.
NoFalseDivergence ==
  pc = "exited" /\ Undisturbed => outcome # Error("DivergenceError")

\* Once the replay lane has found that the stored entry is for another request
\* than the one at the boundary, the kernel is not resumed with that entry.
LaneDivergenceIsFatal ==
  [][~(/\ pc = "max" /\ pc' = "kernel"
       /\ Error("DivergenceError") \in {chain.answers[i] : i \in DOMAIN chain.answers})]_vars

\* Every workflow gets its durable Close in the end, whatever crashes and halts
\* come between, unless its journal was torn or the append of a Close failed.
EventuallyClosed == <>[](closes # <<>> \/ torn \/ outcome.status = "threw")

-----------------------------------------------------------------------------
(* The inductive invariant behind the safety properties, for middleware that
   calls next() at most once per dispatch *)

Running == {"kernel", "max", "handler", "direct", "append", "closing", "failing", "halting"}
Stepping == {"kernel", "max", "handler", "direct", "append"}
Closing == {"closing", "failing", "halting"}

\* The part of the replay index the kernel has gone through.
Position == IF Len(consumed) < Len(index.yields) THEN Len(consumed) ELSE Len(index.yields)

\* The index is what the journal began with; Closes appear only at the end.
IndexInv ==
  pc \in Running =>
    /\ Len(index.yields) <= Len(yields)
    /\ \A i \in 1..Len(index.yields) : index.yields[i] = yields[i]
    /\ index.close = NoClose <=> closes = <<>>

\* The cursor follows the kernel, one dispatch ahead at most.
PositionInv ==
  /\ pc = "kernel" => cursor = Position
  /\ pc \in {"max", "handler"} =>
       /\ chain.start = Position
       /\ chain.entry <=> Len(consumed) < Len(index.yields)
       /\ Len(chain.answers) <= 1
       /\ chain.answers = <<>> => cursor = chain.start
       /\ cursor = chain.start \/ (chain.entry /\ cursor = chain.start + 1)
  /\ pc = "handler" => chain.answers = <<>> /\ ~chain.entry
  /\ pc \in {"direct", "append"} =>
       Len(consumed) >= Len(index.yields) /\ cursor = Position

\* Past the index, the journal holds exactly what the kernel has consumed.
LengthInv ==
  pc \in Stepping =>
    Len(yields) = IF Len(consumed) < Len(index.yields) THEN Len(index.yields)
                  ELSE Len(consumed)

\* What is in flight, and when a Close may still be written.
FlightInv ==
  /\ pc \in {"kernel", "max", "handler", "direct"} => inflight = {}
  /\ pc = "append" => inflight = {awaited} /\ awaited.type = "yield"
  /\ pc \in {"handler", "direct", "append"} \union Closing => index.close = NoClose
  /\ pc = "max" /\ ~chain.entry => index.close = NoClose
  /\ pc \in Closing => closed /\ awaited \in inflight /\ awaited.type = "close"
  /\ pc \in {"closing", "failing"} => inflight = {awaited}
  /\ \A event \in inflight : event.type = "close" => event = awaited /\ closes = <<>>
  /\ Len(closes) <= 1
  /\ ~Asynchronous /\ (\E event \in inflight : event.type = "yield") => pc = "append"

\* TypeOK, PersistBeforeResume and what makes them inductive: the driver, its
\* cursor, its index, the journal and the appends in flight agree.
JournalInv ==
  /\ TypeOK /\ IndexInv /\ PositionInv /\ LengthInv /\ FlightInv
  /\ PersistBeforeResume
  /\ ~Asynchronous => CloseIsLast

-----------------------------------------------------------------------------
(* The inductive invariant behind the replay properties: the journal is what
   the program would write again *)

\* What the first n Yields tell the kernel.
Told(n) == [i \in 1..n |-> yields[i].result]

\* After the results h, program p asks for what the description d names.
Journals(p, h, d) ==
  \E e \in Effect :
    /\ KernelStep(p, h) = Yield(e)
    /\ \/ e.id \in RuntimeDirect /\ d = DirectIdentity(e)
       \/ /\ e.id \notin RuntimeDirect
          /\ \/ \E b \in Effect : MaxStep(p, e, <<>>) = Next_(b) /\ d = Identity(b)
             \/ \E r \in Result : MaxStep(p, e, <<>>) = Return(r) /\ d = Identity(e)

\* After the results h, program p hands a subscription handle to an agent.
Leaks(p, h) ==
  \E e \in Effect : /\ KernelStep(p, h) = Yield(e)
                    /\ e.id \notin RuntimeDirect /\ e.data \in Capabilities

\* After the results h, program p closes its coroutine with s.
Ends(p, h, s) ==
  \/ \E v \in Values :
       /\ KernelStep(p, h) = Done(v)
       /\ s = IF v \in Capabilities THEN Error("SubscriptionCapabilityError") ELSE Ok(v)
  \/ \E x \in Errors : KernelStep(p, h) = Throw(x) /\ s = Error(x)
  \/ Leaks(p, h) /\ s = Error("SubscriptionCapabilityError")

\* The dispatch in progress is of the effect the kernel waits for, its boundary
\* is where the middleware has sent it, and over a journal of the same program
\* a stored entry has answered it.
DispatchInv ==
  /\ pc \in {"max", "handler", "direct"} =>
       /\ KernelStep(program, consumed) = Yield(chain.effect)
       /\ chain.effect.id \in RuntimeDirect <=> pc = "direct"
  /\ pc \in {"max", "handler"} /\ ~chain.entry =>
       IF pc = "max" /\ chain.answers = <<>>
       THEN chain.boundary = Identity(chain.effect)
       ELSE \E b \in Effect : /\ MaxStep(program, chain.effect, <<>>) = Next_(b)
                              /\ chain.boundary = Identity(b)
  /\ pc = "append" => Journals(program, consumed, awaited.description)
  /\ pc = "max" /\ chain.entry /\ chain.answers # <<>> /\ deploys = 0 => Replayed

\* Every Yield, durable or in flight, is the program's own next one.
RecordedInv ==
  /\ \A event, other \in inflight :
       event.type = "yield" /\ other.type = "yield" => event = other
  /\ deploys = 0 =>
       /\ \A i \in 1..Len(yields) : Journals(program, Told(i - 1), yields[i].description)
       /\ \A event \in inflight : event.type = "yield" =>
            Journals(program, Told(Len(yields)), event.description)

\* A Close other than cancelled ends the program's own list of Yields.
EndedBy(s) ==
  Undisturbed /\ s # Cancelled =>
    /\ Ends(program, Told(Len(yields)), s)
    /\ \A event \in inflight : event.type # "yield"
EndedInv ==
  /\ \A event \in inflight : event.type = "close" => EndedBy(event.result)
  /\ \A i \in 1..Len(closes) : EndedBy(closes[i].result)

\* A run that goes on did not start from a cancelled coroutine, and it closes
\* when the kernel has seen the whole journal.
ClosingInv ==
  /\ pc \in Running /\ index.close # NoClose =>
       index.close # Cancelled /\ index.close = closes[Len(closes)].result
  /\ pc = "closing" =>
       \E v \in Values : KernelStep(program, consumed) = Done(v) /\ awaited.result = Ok(v)
  /\ pc \in {"closing", "failing"} =>
       awaited.result \in Result /\ (Undisturbed => Len(consumed) = Len(yields))

\* The in-memory journal is the durable one up to where the kernel, or the
\* dispatch in progress, has come.
JournalIs(n) == Len(journal) = n /\ \A i \in 1..n : journal[i] = yields[i]
MirrorInv ==
  /\ pc \in {"kernel", "handler", "direct", "append", "closing"} => JournalIs(Len(consumed))
  /\ pc = "failing" /\ Undisturbed => JournalIs(Len(consumed))
  /\ pc = "max" => JournalIs(Len(consumed) + (cursor - chain.start))

\* What a run that has ended returned, and has in its journal.
Leaking == Leaks(program, Told(Len(yields)))
ReturnedInv ==
  pc = "exited" =>
    /\ outcome = Cancelled => closes # <<>> /\ closes[Len(closes)].result = Cancelled
    /\ outcome \in Result => inflight = {}
    /\ outcome \in Result /\ Undisturbed /\ ~Leaking =>
         /\ closes # <<>> /\ outcome = closes[Len(closes)].result
         /\ Len(journal) = Len(yields) + 1
         /\ \A i \in 1..Len(yields) : journal[i] = yields[i]
         /\ journal[Len(yields) + 1] = CloseEvent(outcome)

\* JournalInv, and that the journal is what the program would write again:
\* every replayed entry answers the question the program asks, and every run
\* that returns ends where the journal ends.
ReplayInv ==
  /\ JournalInv /\ DispatchInv /\ RecordedInv /\ EndedInv /\ ClosingInv
  /\ MirrorInv /\ ReturnedInv

-----------------------------------------------------------------------------
(* Refinement *)

KernelYields(p, h, e) == KernelStep(p, h) = Yield(e)
KernelEnds(p, h, s) ==
  \/ \E v \in Values : KernelStep(p, h) = Done(v) /\ s = Ok(v)
  \/ \E x \in Errors : KernelStep(p, h) = Throw(x) /\ s = Error(x)

\* The results recorded, and the status, if the coroutine has closed.
Recorded == Told(Len(yields))
Status == IF closes = <<>> THEN NoClose ELSE closes[Len(closes)].result

Workflow == INSTANCE DurableWorkflow WITH
  Effects <- Effect, Results <- Result, Finals <- Final, Running <- NoClose,
  Yields <- KernelYields, Returns <- KernelEnds,
  changed <- deploys > 0, log <- Recorded, status <- Status

\* With a stream whose appends cannot be interrupted, the driver awaits the
\* Close of a workflow that returned.
AwaitedReturn ==
  ~Asynchronous =>
    \A event \in inflight :
      event.type = "close" /\ event.result.status = "ok" => pc = "closing"

\* The driver with its crashes and replays implements the workflow that
\* records each result once.
ImplementsWorkflow == Workflow!Spec
=============================================================================
