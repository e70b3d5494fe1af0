# Tisyn in TLA+

Tisyn runs workflows written as a JSON expression tree. A kernel (a generator)
evaluates the tree and yields effects; a runtime dispatches the effects to
agents through middleware, journals every result before the kernel sees it, and
after a crash replays the journal instead of asking the agents again. Workflows
are written as TypeScript generators that a compiler turns into such a tree.
This directory models the parts of the repository where that promise can be
broken: order of events, crashes, cancellation, replay, messages that cross, and
the translation from what the author wrote to what the kernel runs.

All paths below are relative to `packages/` of the repository.

## Inventory

| Component | State | Operations | What is hard | What makes it correct |
|---|---|---|---|---|
| Execution of one coroutine (`runtime/src/execute.ts`: `execute`, `driveKernel`, `dispatchStandardEffect`, `maybeAppendCloseToStream`) | replay index and its cursors, in-memory journal, `closed` flag, the dispatch in progress | start, yield, replay or dispatch, journal, close, halt | crash between any two steps; halt during an append; middleware that calls `next()` never, once, or again; a program changed between runs | the kernel knows only what is durable; nothing journaled is dispatched again; one Close, after all Yields; replay gives the same journal |
| Durable streams (`durable-streams/src`) | the list or file of events | `append`, `readAll` | an append abandoned by a halt still happens; half a line after a crash | a prefix-closed, ordered record |
| Compound concurrency (`execute.ts`: `orchestrateAll`, `orchestrateRace`, `orchestrateTimebox`, `orchestrateScope`, spawn and join in `driveKernel`) | children, their results, winner, join table, id counter | fork, settle, halt siblings, join | who settles first; crash during the halting of siblings; replay of a decision that is not journaled | same result on replay; children closed before their parent; no child left waiting |
| Resources (`execute.ts`: `orchestrateResourceChild`, `teardownResourceChildren`) | provided value, teardown and cleanup signals | init, provide, teardown, cleanup | failure in init or cleanup; reverse order | cleanup runs exactly once, in reverse order, before the parent's Close |
| Nested and inline invocation (`execute.ts`: `buildDispatchContext`, `driveInlineBody`; `effects/src/invoke*.ts`) | id allocator, lanes, subscription counters | `invoke`, `invokeInline`, token allocation | allocation must repeat exactly on replay | ids and tokens are unique and reproducible |
| Kernel (`kernel/src`) | environment, generator stack | `evaluate`, `try/catch/finally` | errors thrown into the generator | deterministic in its results |
| Middleware (`context-api/src`, `effects/src/dispatch.ts`) | groups per scope | `around`, `invoke`, `extend` | order across scopes and lanes | max, then replay, then min |
| Agents (`agent/src`) | bindings per scope | `use`, `dispatch`, facades | binding visibility | an effect reaches the nearest binding |
| Transport (`transport/src`, `protocol/src`) | pending requests, in-flight tasks, channels | execute, progress, result, cancel, shutdown; SSE post | late, lost and crossing messages, closing | each request settles once; nothing runs after cancel |
| Configuration (`config/src`, `runtime/src/config.ts`), CLI (`cli/src`) | resolved configuration, start-up order | validate, resolve, run | shutdown order | resources released on every exit |
| Compiler, one function (`compiler/src/emit.ts`) | scopes with versions of each `let`, capabilities of task handles, a counter of fresh names | one function per statement and expression | which version a reference means after a branch, a loop, a clause that returned; handles joined twice | the compiled workflow does what the source does |
| Compiler, many files (`graph.ts`, `reachability.ts`, `compile-symbols.ts`, `naming.ts`, `compile-graph.ts`) | modules visited, functions reached, emission order, names | traverse imports, find called functions, order, compile, name, link | cycles, aliases, same names in several modules, shadowing | everything called is compiled once, and a reference means the same function before and after |
| IR, validation, DSL (`ir`, `validate`, `dsl`) | none | constructors, a check of shape, a parser | recursion over syntax | output is valid IR |
| Specification registry (`spec`, `spec-workflows`) | registry | queries | acyclicity | consistent relations |
| Adapters (`claude-code`, `codex`, `code-agent`) | external sessions | prompt, resume, cancel | late answers of external programs | one answer per request |

### How they interact

`execute` reads the whole stream, builds the replay index, and drives the kernel.
Compound effects make children with their own coroutine ids, cursors and Closes
in the same stream. A standard effect enters the middleware chain: user
middleware (max), the replay lane, framework handlers (min). A handler is often
`install-remote.ts`, which sends the effect over a transport session to an agent.
Middleware may call `invoke`, which runs a child coroutine, or `invokeInline`, which
runs a body as a lane of the coroutine it was called for: the lane has ids of its
own and shares the owner's subscriptions, tasks and resources. The kernel runs what
the compiler emitted for the exported workflow, with the functions it calls bound in
its environment.

## Modules

| Module | Models |
|---|---|
| `DurableWorkflow` | what durable execution promises: a log of results, each recorded once, and one final status |
| `DurableExecution` | one coroutine of `execute`, its journal, faults and restarts |
| `MCDurableExecution` | small workflows and middleware for it |
| `DurableExecutionProofs` | its invariants, proved |
| `DurableReplayProofs` | replay is exact, and the refinement of `DurableWorkflow`, proved |
| `CompoundConcurrency` | the tree of coroutines of one `execute`: all, race, timebox, scope, spawn, join |
| `MCCompoundConcurrency` | small workflows for it |
| `CompoundConcurrencyProofs` | its invariants: one Close each, children first, silence after a Close, branches decide: proved |
| `CompoundReplayProofs` | in calm trees every replay tells each kernel what it was told: proved |
| `ResourceLifecycle` | an owner, the resources it acquires directly or through lanes, the tasks of their init phases |
| `MCResourceLifecycle` | small owners and resources for it |
| `ResourceLifecycleProofs` | one Close each, tasks end with their init phase, effects journaled once: proved |
| `ResourceOrderProofs` | the journal determines a run; order of cleanup, the owner's Close last: proved |
| `InlineLanes` | the ids, subscription tokens and task tables of lanes, invoked children and resource bodies |
| `MCInlineLanes` | programs of three and four operations for it |
| `InlineLanesProofs` | ids, places and tokens are functions of the program: proved |
| `RequestLifecycle` | what a session promises: a request is opened once, has at most one outcome, ends once |
| `ProtocolSession` | host session, agent server and the transport between them; implements `RequestLifecycle` |
| `MCProtocolSession` | bounds for it |
| `ProtocolSessionProofs` | its invariants and the refinement of `RequestLifecycle`, proved |
| `Kernel` | IR expressions and the evaluator |
| `WorkflowSource` | the authored statements and expressions, and what a generator with them does; no code of the repository, hence external |
| `Emit` | `emit.ts`: from statements to IR |
| `CompileAndRun` | composes the three: compile a body, run it with the answers of its effects, compare with the source |
| `MCCompileAndRun` | the families of bodies compiled |
| `ImportGraph` | from files to linked bindings |
| `MCImportGraph` | small projects for it |

### DurableExecution

State. `program` is the workflow with its middleware, so that a redeployment is
one assignment. The stream is split into `yields` and `closes` of the coroutine;
a Close remembers how many Yields it follows, so the order of the two is kept.
`inflight` holds the events given to `append` that are not durable yet; with
`Asynchronous` (FileStream) they survive a halt of the driver and complete in any
order, without it (InMemoryStream) an append cannot be interrupted. `index` and
`cursor` are the ReplayIndex, `journal` the list `execute` returns, `closed` the
flag of `driveKernel`, `chain` the dispatch in progress, `consumed` what the
kernel has been given in this run.

The kernel and the max middleware are constants, `KernelStep(program, results)`
and `MaxStep(program, effect, answers)`: both re-execute on replay and have to be
deterministic, everything else the code does holds for any such functions.
Handlers answer anything in `Answers(effect)`. A payload stands for its own hash
(`payloadSha` is taken to be injective).

Actions. `Boot` reads the journal; `YieldPastClose`, `YieldDirectStored`,
`YieldDirectLive`, `YieldChain` are the branches of `dispatchStandardEffect`
before the chain; `LaneLive`, `LaneReplay`, `LaneDiverge` those of the replay
lane; `ChainReplayed`, `ChainNotReplayed`, `ChainLive` those after it;
`KernelReturns` and `KernelThrows` the ends of `driveKernel`; `YieldDurable`,
`CloseDurable` and `AppendFails` the stream; `Halt` is cancellation with
`ensure()`, `Crash` the death of the process, `Deploy` a changed program. A
process that exits normally waits for its pending writes, hence
`Boot` only with nothing in flight; a crash loses them and may leave half a line.

### CompoundConcurrency

State. A coroutine id is the path of child numbers from the root, as in the code
(`root.0.1`); `task` gives each its place in `driveKernel`: the step its kernel is
at, the effect dispatched, the compound operation or join awaited, `leaving` an
orchestrator's scope, `closing` its own, `halting`, `ended`. `hist` is what its
kernel has been resumed with in this run, `cursor` its place in the replay index,
`count` the `childSpawnCount`, `base` the first child of the current operation,
`settled` the resolved or rejected operation. All coroutines share `stream`; its
first `mark` events are the ReplayIndex of this run: the index of a coroutine is the
list of its Yields among them, so that the place of a Yield (`Place`) is the number of
Yields of its coroutine before it, and `cursor` finds an entry when it is below their
number (`Entries`). An event remembers the `hist` of its coroutine when it was recorded,
for the properties only.

A kernel is the constant `KernelStep(program, coroutine, hist)`. How one effect is
dispatched and replayed is the subject of `DurableExecution`, so `Dispatch`,
`Answer`, `Replay` and `Diverge` are short here, and an append is durable when it
is called.

Actions. `Fork`, `AllOfNone`, `RaceOfNone`, `BindFails`, `Spawn`, `Join`,
`JoinRefused`, `Joined` are the branches of `driveKernel` for compound effects;
`Outcome` is what each orchestrator makes of a result that has arrived, `Resume`
the exit from its scope; `Return` and `Conclude` end a kernel, `Finish` returns
from `driveKernel` to whoever called it; `HaltChild` and `Halted` are the teardown
of a scope and `ensure()`; `Halt` cancels `execute`, `Execute` calls it again.

Scheduling. Effection runs everything that can run before it returns to the event
loop: handlers answer (`Answer`) only when every coroutine waits (`Quiet`), except
that with `Asynchronous` (FileStream) a coroutine that awaits the append of its
Close waits too. Replay is synchronous. The order in which the scope of several
children is torn down is left open, as is the order in which coroutines that can
go on do so: `runtime/src/substrate-conformance.test.ts` does not
rely on either.

### ResourceLifecycle

State. `owner` is the place of `driveKernel`, its outcome and `resourceChildren`;
`child[i]` the phase and the result of `orchestrateResourceChild` for the i-th
operation, `task[i]` the task its init spawned; `stream` the journal, of which the
first `old` events are the ReplayIndex, `pos` the cursors. A Yield carries its place
`n` in the list of its coroutine, so that `PeekYield` (the stored result at the
cursor) and `PreClose` (`getClose`) can say what the index holds without filtering
the journal. A cleanup is one effect that may fail.

Actions. `Perform`, `Acquire`, `Provided`, `Refused`, `Answer` and `Return` are the
owner's; `InitEffect`, `Provide`, `InitFails`, `InitDiverges`, `TaskEnds` the init
phase; `Signal` and `CleanedUp` are `teardownResourceChildren`, `CleanupEffect`,
`CleanupReturns`, `CleanupFails` and `CleanupEnds` what it waits for; `ScopeFails`,
`ChildHalted` and `OwnerHalted` are cancellation and `CloseOwner` the end. `Execute`
is a crash at any point and the next run.

An acquisition may be refused (`provideReject`). A direct one throws the error into the
kernel, which leaves at once unless it catches it. An inline one throws it into the lane,
and what the middleware around the lane does not catch (`Thrown`) arrives in the catch of
`dispatchStandardEffect`: `Answer` stores it as the owner's Yield(error), or takes what is
stored, and only then is the owner torn down. Before the lane is entered the dispatch is
refused if the owner is closed and has nothing stored (`Overrun`). With `Atomic` an execution that is
being halted completes its Closes; without it a crash may come in between, and
`OwnerClosesLast` is violated: a replay meets the owner open and a resource closed
as cancelled, and gives the owner a result that no run had.

### InlineLanes

An operation has a place: the caller, an inline lane, a nested lane, an invoked
child or the init of a resource; it subscribes, takes an item, spawns, joins, or
sends a handle to an agent. `count` is the caller's allocator, `counters` the
subscription counters by owner, `subs` the sources by token, `joined` the set all
lanes share. `JournalId` and `OwnerOf`, of a place and the caller's number, are what
`buildDispatchContext` hands down. An entry of the journal carries its place `n` in the
list of its coroutine, so that `StoredOf` can say what the cursor is at (`peekYield`)
without filtering the journal; `used` has the cursors. Everything in memory is lost in `Execute`; the replay must rebuild it.

### ProtocolSession

State. `host` is one `createSession`: its phase, its receiver loop and the
request counter, which starts at 0 in every session; `req` what each caller has
been given, `pending` the map of the receiver; `agent` the loop of
`createProtocolServer`, its in-flight map and the handlers that run. A `kind` tells
the transports apart: channels of one process, child processes whose pipes break
both ways, and SSE with POST, whose posts overtake each other, whose answers go to
whatever event stream is current, and whose agent lives on when a host dies.

Actions. `Execute`, `Settle`, `TakeProgress`, `Halt` are the caller's; `Receive` and
`ReceiveEnd` the receiver; `Serve`, `ServeEnd`, `HandlerEnds`, `HandlerReports` the
agent; `PostArrives`, `PostFails`, `LinkBreaks`, `Disconnect`, `CloseEvent`,
`AgentGarbles`, `HostDies`, `Connect` the transport and its faults. A request that
the code sends and marks pending in one run of Effection is one step; the POST of a
request is awaited and is two.

### Kernel, WorkflowSource, Emit, CompileAndRun

`Kernel` has the IR as records and `Eval(e, env, A, s)`, which evaluates with the
answers `A` until it ends or waits for an effect that has none. `Orchestrate` gives
the compound operations the simplest schedule the runtime allows (a child runs to
its end before its parent goes on); other schedules are the subject of
`CompoundConcurrency`.

`Emit` follows `emit.ts` function by function. The scope stack is a heap, because the
code copies stacks and mutates the copies: a context `c` names a stack of frames in
`h`, `Copy` and `Cloned` are `cloneScopeStack`, and `h` also has the counter of fresh
names and the first error thrown. The continuation of a list (`rest`, `terminal`)
is data (`m`: rest of a list, join of variables, packed fallthrough, next call of a
loop), which `Continue` runs; so are a list, an expression and the turn of a loop, so
that all recursion of the compiler goes through `Continue`. `L` says in which of the three ways a list is emitted:
plain, with a terminal, or packed.

`WorkflowSource` executes the same statements as JavaScript would, with versions and
joins left out. It is the reference: nothing in it is read off the compiler.
`CompileAndRun` compiles a body, or rejects it, and then answers one effect
after the other; after each answer the compiled expression and the source must wait
for the same effect with the same data, or have ended in the same way.

### ImportGraph

A file is its declarations, imports and exports; a function's body is IR, so that
what a reference means can be computed (`Denotes`) and compared. `TraverseRoot`,
`Traverse`, `FollowImport` and `LeaveModule` are `traverseModule` with its recursion
as a stack; `StartReach` and `Reach` are `computeReachability`; `EmitOrder` is
`computeEmitOrder` with Tarjan's algorithm, which visits what a function calls in the
order in which `findCallTargets` met the calls in its body (`Callees`); `Compile`, `Name`,
`Artifact`, `LinkFor` are the later phases. Every `CompileError` ends in `failed`.

## Runs

All runs but `ImportGraph.cfg` turn deadlock checking off: a workflow that has
used up its runs, its requests or its answers stops. `ImportGraph` has to reach an
artifact or an error, and is checked for it. Configurations marked *by hand* are not
among the runs of `PROJECT.json`; each shows a disagreement with TLC in seconds.
Bounds of `MCDurableExecution`: `MaxRuns` calls of `execute`, `MaxFaults` failed
appends, `MaxDeploys` redeployments. Workflows have up to three effects, one of
them runtime-direct, with an error path that is caught: enough for a journal to be
empty, partly replayed, exactly exhausted and closed. Three runs let a run that
was replaying be interrupted and replayed again.

| Run | Shows |
|---|---|
| `DurableMemory.cfg` | Over InMemoryStream, with seven programs and a redeployment at any point between runs: persist-before-resume, the durable yield rule, the Close last, exact replay, the recorded result is returned again, no false divergence, refinement of `DurableWorkflow`. |
| `DurableFile.cfg` | Over FileStream: the inductive invariant of the proofs (`ReplayInv`, with `JournalInv` and one Close in it), that nothing lands behind a Close but one Yield a halt has abandoned, behind a Close(cancelled) (`OnlyAbandonedFollows`), and that every workflow gets its Close in the end. |
| `DurableFileCloseOrder.cfg` | By hand: `Close(cancelled)` can land before the Yield whose append the halt abandoned (kernel specification, O4). |
| `DurableRetry.cfg` | By hand: middleware that retries after a replayed error dispatches an effect that has a durable Yield (compound specification, 10.6.2). |
| `DurableMaskedDivergence.cfg` | By hand: a divergence raised by the replay lane is discarded when the source descriptor matches (scoped-effects specification, 9.5.3). |

Runs of `MCCompoundConcurrency` are bounded by `MaxRuns`, one halt (`MaxHalts`)
and the ids in `Tasks`: trees of up to five coroutines and depth two, of two
branches each. Two branches are enough for a winner and a loser, a failure and a
sibling still running, and a subtree of two inside a losing branch; three runs let
a run be cut short while it replays and while it is torn down.

| Run | Shows |
|---|---|
| `CompoundMemory.cfg` | Over InMemoryStream, race, all, a race of an all, scope, spawn with join and a failing child, a second join, and the empty forms: replay resumes every kernel with what the journal was written for, no divergence, the journal determines every compound result, `execute` returns. |
| `CompoundFile.cfg` | Over FileStream, with timebox, and with crashes in the middle of halting: the inductive invariant of the proofs (`TreeInv`, with one Close each in it), nothing of a coroutine after its Close, children's Closes first, and that what an operation comes to is the end of one of its own branches, no failure lost and none made up. These hold even in the runs where replay goes wrong. |
| `TimeboxReplay.cfg` | Violation: a timebox that timed out cannot be replayed; its caller gets a TypeError (timebox specification, TB-RP5; test plan RPL-02). |
| `RaceTie.cfg` | By hand: the winner of a race may be another one on replay (compound specification, I-6). |
| `CompoundCatch.cfg` | By hand: an error of all or race cannot be caught (compound specification, 11.2). |
| `SpawnClose.cfg` | By hand: a parent closes before a child that was not joined (kernel specification, O5; spawn specification, J3). |
| `HaltCrash.cfg` | By hand: a crash while a race is being halted leaves a journal on which it hangs (compound specification, 10.6.1). |

`CompoundMemory` leaves out what is shown to fail: timebox, programs that
catch the failure of a spawned child, and crashes while a coroutine that has
children is being halted (`CrashInHalt`). A crash while the losers of a race are
halted is in it, as long as they have no children of their own.

`NoFalseDivergence`, `ExactReplay` and `ClosedResultReplayed` are about runs without
a failed append or a redeployment: a failed append closes the journal with an
error after which the re-executed workflow diverges, and so does a
changed program. They also need middleware with one `next()` per dispatch and no
payload refused at the frontier; `DurableRetry.cfg` and the program `leak` (see *Disagreements found*)
show what happens without.

The refinement says that a changed program may also return before the log is
used up (`ReturnEarly`): nothing in the code detects that.

The other components:

| Run | Shows |
|---|---|
| `ResourceLifecycle.cfg` | Owners with two resources, one acquired through a lane, that provide or fail, spawn a task, clean up with an effect or fail in it; one halt, one restart at any step: cleanup in reverse order and after the last thing the owner stores (`NoUseAfterCleanup`: an effect, or the error of a refused inline acquisition), the owner's Close last, tasks end with init and one Close each (`LifecycleInv`), every run ends. 337,000 states. |
| `InlineLanes.cfg` | Programs of four operations in all places, run twice with a crash anywhere: ids unique (`IdsUnique`), the inductive invariant of the proofs (`LanesInv`, with tokens unique and one join per task in it), items from the right source, handles shared within an owner and confined to it (`HandlesScoped`). 110,000 states. |
| `SubscriptionTokens.cfg` | Violation: a subscribe that fails uses up a token in the live run and none on replay, so two subscriptions get one token (inline invocation specification, `Unique, non-colliding tokens`). |
| `ProtocolSession.cfg` | All three kinds of transport, two requests, a fault, a report of each handler over channels and pipes, and, for channels, a second session: the inductive invariant of the proofs (`SessionInv`), own answers, one outcome, all progress before the result, no handler without a caller, requests answered while the receiver runs, refinement of `RequestLifecycle`. 294,000 states. |
| `StaleAnswer.cfg` | By hand: request ids restart with every session while an agent behind HTTP lives on, so its late answer settles a request of the next session (`OwnAnswer`; agent specification, correlation by id). |
| `ExecuteAfterEnd.cfg` | By hand: a request made after the receiver has ended is never answered or rejected (`EveryRequestEnds`; agent specification, 3.4). |
| `CompileAndRun.cfg` | About 5,500 bodies, up to four answers each (`MaxAnswers`): same effects with the same data, same end, for nested statements, handles, children, scopes, streams, converge, and object and array literals with spreads; handles are joined once or the body is rejected. 57,000 states. |
| `JoinedPair.cfg` | Violation: two variables assigned in a try and one of them assigned again after it; the emitted expression refers to a version that is not bound. |
| `ScopeSetup.cfg` | By hand: `useTransport` after a statement of the body is compiled as a call of a sub-workflow (`SetupInAnyOrder`; blocking-scope specification, S5). |
| `ImportGraph.cfg` | Projects of one to three files with cycles of imports and of calls, four functions with up to two calls each in either order, aliases, one name for several functions, parameters, locals and catch variables that shadow, and one project for each way to be rejected, a missing export across a cycle of imports among them: a module is traversed once, imported names exist, names are unique (`PhasesInv`), exactly what is called is compiled, each group of mutually recursive functions is emitted in one piece and the calls between groups all go one way (`GroupsInOrder`), linked references mean what they meant.. |

Why these bounds are enough. Order of cleanup needs two resources; a third adds no
new pair (and the proofs are for any number). A token or an id collides between two operations; four let each be used
after both are made, and a crash between. Two requests are enough for an answer
to reach the wrong one; one fault of any kind at any step, since a connection that
broke stays broken until the next session. For the compiler, a statement in a
statement, with either clause before or after another one, is what its joins and
packings are written for (a terminal of a terminal); four answers take a loop
through its second turn. Import cycles of length three and components
of two functions are the smallest with a low link that is not one's own; four functions
with up to two calls each, in either order (`Webs`), also give a component that is complete
while its callers are still on the stack.

Fairness. `EventuallyClosed` assumes that handlers answer, appends complete or
fail, the driver goes on, and a host restarts the workflow after a crash. The
number of crashes is bounded, no fairness is asked of halts, crashes or failures.
Without handlers answering, no workflow ends; the code has no timeout of its own.
`EventuallyReturns` of `CompoundConcurrency` assumes the same: each coroutine goes
on (Effection's reducer starves nobody) and a handler that has an answer gives it;
nobody has to halt or to crash.
`EventuallyClosed` of `ResourceLifecycle` assumes that some coroutine goes on while
one can, which is all Effection's loop promises and is enough here; `InlineLanes` has only
safety properties. `AnsweredWhileReceiving` of `ProtocolSession` assumes that messages
under way arrive, the loops of both ends go on, handlers end, and callers look at
their answers; the code has no timeout for a handler that never ends. A connection
does not have to break, a host does not have to connect.

## Disagreements found

Three are runs of the project and listed in `PROJECT.json` as findings: the replay
of a timed-out timebox, the subscription token of a failed subscribe, and the
versions of two joined variables. The others:

Runtime. A timebox over a file breaks TB-R6: the timeout decides although the body
closes ok while the timeout's Close is being appended. In the same way all
propagates the first error to arrive, not the one of lowest index (I-17; comment at
`execute.ts:1429`). `ReplayConsistent` fails for the program `caught`: a spawned
child's error becomes a TypeError on replay (spawn specification, RR7). With
`CrashInHalt`, `JournalDecides` fails for the program `all`: branches replayed as
cancelled count as completed and the parent gets undefined values (compound
specification, 7.2.3). In `DurableExecution`, `ClosedResultReplayed` fails for the
program `leak`: a workflow closed by a refused payload (RV2) returns DivergenceError
when it is run again, not its recorded error (10.6.3). Those with a configuration
*by hand* are in the tables above.

Compiler, one function. `Kept` and `JoinsSeen` in `MCCompileAndRun` leave the following
out of the families, each because the compiled workflow does something else than the
source: a nested block that assigns outer variables or returns; two or more variables
joined after an if or a try and assigned again; in a clause compiled packed (because
something in it returns), an `if` that is not last or has no `else`; a return below the
end of a branch; a return inside try, while or for inside a loop body; a packed try in a
packed try with joined variables; variables assigned in a clause before it fails, which
keep their old values (for finally documented in the compiler specification, 584);
a for-of at the end of a branch with a continuation; a join in the body of a while loop
without a return, accepted; a join in a finally clause, forgotten. Left out by the way
the families are built: names declared in a block that are used after it; child bodies
without a return, whose value is that of their last statement; a constant named like a
version (`x_1`); arrows that read a variable assigned later; middleware whose `if`
without else falls through; `provide` hidden in an `if` inside the try of a resource, or
after an early return; `useAgent` in a spawned body inside a scope, rejected with UA1
although the spawn specification (SP11) accepts it. The kernel evaluates the
fields of an object in lexicographic order, not in the order written (documented), so that
`{ b: yield* m(), a: yield* n() }` performs `n` first: in an object with several effects
the families write the fields in the order of their keys. Spreading what is no object is a
TypeError in the kernel and nothing in JavaScript; only objects are spread.

Compiler, many files. The emission order has callers before callees (`computeEmitOrder`
reverses the components, which Tarjan's algorithm finds callees first), while the compiler
specification (16.3) wants the bindings a binding refers to before it. No
program notices: every binding is a function, whose references are looked up when it is
called. `GroupsInOrder` therefore asks that the groups be in one piece and in some order
of the calls, and not in which direction. A function that is passed on without being called is not
compiled. A call of an imported async function or constant compiles and is unbound at run
time. An agent factory imported from a generated module is rejected with E-IMPORT-001
(against GM7, GM8), and its contracts are not seen (GM5). Reachability ignores
scopes: a parameter named like an import counts as a call of it. Of several export names
of a function only the first is linked. `collectFreeRefs` takes a catch parameter for
free; `rewriteRefs` does not bind a finally payload. The artifact written by
`generateGraphCode` does not rename references, so that a helper emitted under a
new name and an aliased import are unbound in it (`WrittenRight`; compiler specification,
16.3). `LinkedRight` therefore is about the bindings linked for the runtime.

## Proofs

`DurableExecutionProofs` proves, for every program set, kernel, middleware, number of
runs and faults: `TypeOK` (no assumption), and under `SingleNext` (a middleware calls
`next()` at most once per dispatch) `JournalInv` and from it `PersistBeforeResume`,
`DurableYieldRule`, `OnlyAbandonedFollows`, and, for streams whose appends cannot be
interrupted, `CloseIsLast`. `SingleNext` is necessary: the yield rule is violated in
`DurableRetry.cfg`, whose middleware calls `next()` twice; every program of the passing
runs satisfies it.

`PersistBeforeResume` is not inductive. That a replayed result is the journal's needs:
the index is a prefix of the journal (`IndexInv`), the cursor is at the kernel's
position, one ahead while the lane has substituted (`PositionInv`), the journal has grown
past the index by exactly what the kernel consumed (`LengthInv`), and at most one Yield
is in flight, none with a Close in the index (`FlightInv`). `JournalInv` is their
conjunction. `OnlyAbandonedFollows` needs one more (`AbandonedInv`): a Yield in flight that
nobody awaits was left by a halt, whose Close(cancelled) is in flight with it or ended
the journal as it is. Each ending of a step shared by actions (`CloseWith`, `ResumeFromStored`,
`Persist`) has a lemma; `PartsStep` has a step per action.

`DurableReplayProofs` proves, still for all parameters and `SingleNext`: `ReplayInv`,
from it `ExactReplay`, `ClosedResultReplayed`, `NoFalseDivergence`, and, for streams
whose appends cannot be interrupted, that `DurableExecution` implements
`DurableWorkflow`. `JournalInv` says that memory and stream agree; exact replay also
needs that the stream is what the program would write again. `RecordedInv` and `EndedInv`
say it of every Yield and Close, durable or in flight, `DispatchInv` of the dispatch in
progress (whose journaled boundary is where the middleware sent it), `MirrorInv` that the
in-memory journal is the durable one up to where the kernel has come, `ReturnedInv` what
a run that ended leaves behind. Two conditions are stated in the theorems. `~Leaking`:
the program does not leak a subscription handle at the end of its journal; the program
`leak` shows that the condition is exact, for the refusal (RV2) is checked at the
frontier only and what it wrote replays as a DivergenceError. And `NoFalseDivergence`
excepts a program that itself throws that error. The refinement needs a stream whose
appends cannot be interrupted: over a file a halt may write Close before a Yield in
flight (`DurableFileCloseOrder.cfg`), and no log that only grows until it is closed does
that.

`ProtocolSessionProofs` proves for every kind of transport, number of requests, sessions,
faults and reports: `TypeOK`, `SessionInv`, and from it `OwnAnswerOfOwnAgent`,
`NoProgressLost`, `NoOrphans`; and that the session implements `RequestLifecycle`.
`SessionInv` speaks of an agent started for its session (`OwnAgent`), since
`StaleAnswer.cfg` shows what another one does. None of the three properties is inductive.
The answer of one's own needs that a message under way carries the request it was made
for (`Correlated`), and this that an id is asked once and answered once: `Once` says that
a request message not yet read, a handler and an answer exclude each other. No lost
progress needs that the reports of a request are on their way in order, without a gap and
before its answer, from those the caller has to those the handler has sent (`Reported`).
No orphans needs `Stoppable`: what nobody waits for, a handler or a request still to be
read, has a cancel or a shutdown behind it in the inbox, provided the transport keeps the
order. The refinement needs only `TypeOK`.

`CompoundConcurrencyProofs` proves, for every tree of ids, program, kernel, answer,
number of runs and halts, with and without asynchronous appends and crashes in the middle
of a teardown: `TreeInv`, and from it `ChildrenCloseFirst`, `SilentAfterClose` and `BranchDecides`. The only assumption used is `TasksAssumption`:
ids are paths of numbers and contain their prefixes.

None of these properties is inductive. One Close per coroutine rests on a flag kept in memory and on an index
as old as the run, so `CloseInv` relates both to the stream: a Close the index does not
know belongs to a coroutine that is closed or has ended, so whoever is neither may
consult the index. That a newborn coroutine has no such Close needs `BirthInv`: ids are
allocated in order and none is born twice in a run. `ChildrenCloseFirst` needs
`ScopeInv`: outside a compound effect the branches of all earlier ones have ended, within
it only the present ones may run, and one that has ended has its Close (`CloseInv`).
`ShapeInv` is the types these need. Every action either moves some coroutines and extends
the log (`LogStep`) or makes children (`Bears`); a lemma each says that such a step keeps
the invariant, and `StepKeepsInv` has a case per action. `SilentAfterClose` follows from
`TreeInv` and one more part, `UnclosedWait`: an effect is dispatched only by a coroutine
the index has no Close of, and `CloseInv` excludes a Close that is newer than the index.
`BranchDecides` needs `DecideInv`: while an operation waits none of its branches has
ended in a way that decides it (`OperationInv`), and what a coroutine has returned is in
its Close unless the index had one, while one that is being halted has returned nothing
(`EndInv`). A first version of `BranchDecides` asked for the Close of the branch in every
case and could not be proved: a branch that replays another way than it went (a timebox
in it) returns something else than its Close says, and one halted by the failure of a
child it spawned is recorded as cancelled and throws that failure.

`CompoundReplayProofs` proves `ReplayCorrect`, and from it `ReplayConsistent`,
`NoDivergence` and `JournalDecides`, for every tree of ids, kernel, answer, number of
runs and of halts. The three are false of the code in general: `TimeboxReplay.cfg` and
`RaceTie.cfg` show runs that replay differently, as does the program `caught`, and with a
crash between the halts of a tree so does `all` (see Disagreements found). So the
theorems have two hypotheses. `~CrashInHalt`: the process does not die between the halts
of one tree. And `[]Calm`, on behaviours: a coroutine about to step performs an effect,
`all`, `scope` or `spawn`, joins a task it may join, returns a value, or throws an error
of the program's own, the last only in the root or in the body of a scope (which has no
sibling to cancel). Excluded are races, timeboxes, branches of `all` and tasks that fail,
misused joins and scopes whose set-up fails; halts, crashes and restarts are not. The
programs `scope` and `unjoined` are calm.

None of the three is inductive, since the journal of one run is compared with the memory
of the next. The invariant `ReplayInv` is `TreeInv` together with four parts. `HistInv`:
what a kernel was told, in this run or as an event remembers it, is explained by the
journal (`Answered`, by the kind of the operation: the entry at its place, or the Closes
of its children); any two such histories of a coroutine are prefixes of one another; the
places of a coroutine are filled without a gap. `Kern`: the cursor and the number of
children are functions of the history (`Taken`, `Made`), since the kernel is
deterministic. `Waits` and `Ends` say what an operation in progress waits for and what a
coroutine that is ending was told. `Cancels`: a coroutine closed as cancelled has a
parent that is closed or being halted, which is why nobody replays it. `CalmStep` is what
one action may do to one coroutine; the proof shows it of every action (lemmas named for
them), and then that such a step keeps the invariant. `ReplayInv` is no invariant of a
run, since `Calm` is a hypothesis about whole behaviours; TLC has checked both as
invariants of a version of the model with calm programs only (nested `all`, `scope`,
`spawn` and `join`; three runs, one halt; 1.2 million states). The only assumption on
constants is again `TasksAssumption`.

Writing these proofs corrected the model in one place: two guards of the CASE in `Role`
overlapped for the first branch of an operation that is no timebox, and such a CASE may
have either value (TLC takes the first); it is an IF now.

`ResourceLifecycleProofs` proves, for every program, number of runs and halts, and with
`Atomic` or without: `LifecycleInv`. Its parts `OneClose` and `TasksEndWithInit` are not
inductive: both are about a journal that outlives the memory. `NotedInv` says that the
Yields of a coroutine are numbered in their order without a gap, and that whatever this
run added to the journal it has noted in memory, so that a coroutine which consults an
index as old as the run consults enough. `TaskInv` says when a task runs, `BornInv` that
a resource comes to be when its owner comes to it.

`ResourceOrderProofs` proves, for every program and number of runs and halts,
`ResourceInv`, and under `Atomic` from it `CleanupOrder`, `NoUseAfterCleanup` and
`OwnerClosesLast`. These relate events of different runs: the cleanup may be in the
journal from one run and the effect come from the next. So the invariant has to say that
no later run goes another way than an earlier one went. `PathInv` is about the journal
alone: it determines, for each operation, whether the owner went on (`Passed`), left with
an error (`Left`), and so where it ended (`Ended`); an answer to an inline operation says
that its resource was provided or refused (`Heard`), an answer other than an error that it was acquired; a first effect of a resource is there
only when the owner passed everything before, a cleanup only when the owner's way is
decided (`Decided`) and all that was acquired later is closed (`Later`). `RunInv` says
that memory agrees with it: `OwnerInv` where the owner is and which resources it holds,
in ascending order; `ChildInv` what the journal has of a child in each phase, with the
consequence that `InitDiverges` is never enabled over such a stream; `PlaceInv` that only
the child being acquired is in its init phase and only the last one held in its cleanup;
`HaltInv` that a resource closed as cancelled belongs to an owner that is being halted or
was. The proof shows for each action what it may add to the journal (`PathLaw`), that
such an addition keeps `PathInv`, and then that the run that made it keeps `RunInv`.
`Atomic` is necessary: without it a crash between the cancelled Close of a resource and
that of its owner violates `OwnerClosesLast` (set `Atomic = FALSE` in
`ResourceLifecycle.cfg`). TLC has checked `ResourceInv` on the programs of that run; the
run itself lists the four properties, which are quicker to evaluate.

`InlineLanesProofs` proves, for every program and number of runs, `LanesInv`, and from it
`IdsUnique`, and, without sources that refuse, `ReadsOwnSource`, `HandlesScoped` and
`TokensUnique`. None of them is inductive: each compares what this run made with what an
earlier run left in the journal. The argument is that a run is only a walk through the
program: the caller's number at an operation is how many operations before it allocate
one (`Number`), so its id (`IdAt`), owner, task, place in the list of its coroutine
(`PlaceAt`) and token (`TokenAt`) are functions of the program, and two runs cannot
disagree about them. `WayInv` says that the counters of this run are what these functions
say, and that the cursor consumed only what is there; `JournalInv` that the journal holds
the operations in their order, each once, under its id and place, and all up to the last,
so that an operation is replayed exactly if it is in the journal; `ResultInv` and
`SentInv` what an operation of each kind may have come to; `MemoryInv` that what this run
holds is in the journal or follows from the program. These (`SharedInv`) need no
hypothesis. `TokenInv`, that the counter of an owner is how many subscriptions it has
made, needs `~FailingSources`, and the condition is exact: with it left out
`TokensUnique` is violated in `SubscriptionTokens.cfg`. The lemmas about counting the
elements of a set below an operation (`Before`) are stated once, and so is the
injectivity of `IdAt` and `TokenAt`.

Only model-checked: `ReplayConsistent`, `NoDivergence` and `JournalDecides` of
`CompoundConcurrency` for the programs of its runs that are not calm; all properties of
`CompileAndRun` and `ImportGraph`; and liveness (`EventuallyClosed` of `DurableExecution`
and of `ResourceLifecycle`, `EventuallyReturns`, `AnsweredWhileReceiving`), which is out
of the prover's reach. `Kernel`, `WorkflowSource`, `Emit` and what uses them are
recursive over expressions and statements: what they compute for every tree needs
induction over data and cannot be proved with the provers used.

## Plan

Done: DurableWorkflow, DurableExecution, CompoundConcurrency, ResourceLifecycle,
InlineLanes, ProtocolSession with RequestLifecycle, Emit with Kernel, ImportGraph; proofs
for DurableExecution, CompoundConcurrency, ResourceLifecycle, InlineLanes and
ProtocolSession. Next, in
this order:

1. `ReplayConsistent` for the trees that are not calm but replay exactly: failing branches
   whose siblings are closed, races decided by an entry.
2. ContextApi: groups of middleware across scopes and lanes, agents bound in them.
3. An abstract specification of CompoundConcurrency (each node settles once, after its
   children).
4. Template literals in Emit; validation of what it emits.
5. Configuration, CLI start-up and shutdown, adapters, specification registry.

## Not modelled

Printers, tokenizers and parsers (no state, no interleaving); the wording of errors; the
values inside payloads beyond equality and the presence of a subscription handle;
configuration, command line, adapters, specification registry and test code. In
CompoundConcurrency: the transports and middleware a scope installs, children of
inline bodies, and appends in flight when their writer is halted (those are in
DurableExecution). In ResourceLifecycle: resources of resources and middleware installed
by an init phase. In InlineLanes: streams that end, and overlays. In ProtocolSession:
the validation of message shapes, and transports started on demand. In Emit: template
literals, computed keys, arithmetic other than one operator, checks of forms no
accepted program has (each with its error code), types. In Kernel: arithmetic other than
addition and equality, and strings put together. In ImportGraph: the text of
artifacts, type imports beyond being ignored, `tsconfig` paths.
