------------------------ MODULE CompoundConcurrency ------------------------
(***************************************************************************)
(* The coroutines of one call of execute(): a tree that grows by all,      *)
(* race, timebox, scope and spawn, journals into one stream, is torn down  *)
(* by winners, failures and halts, and is rebuilt from the stream when     *)
(* execute is called again.                                                *)
(*                                                                         *)
(* packages/runtime/src/execute.ts: driveKernel, orchestrateAll,           *)
(* orchestrateRace, orchestrateTimebox, orchestrateScope.                  *)
(*                                                                         *)
(* A coroutine id is the path of child numbers from the root.  A kernel is *)
(* a function of the results it has been resumed with.  How one standard   *)
(* effect is dispatched and replayed is the subject of DurableExecution;   *)
(* here it is an answer, and an append is durable when it is called.       *)
(***************************************************************************)
EXTENDS Integers, Sequences, FiniteSets

CONSTANTS
  Programs,            \* workflows
  Tasks,               \* bound: the coroutine ids they may allocate
  KernelStep(_, _, _), \* program, coroutine, results consumed -> what it does next
  Answers(_),          \* effect -> results its handler may return
  Asynchronous,        \* TRUE: FileStream; FALSE: InMemoryStream
  CrashInHalt,         \* a crash may strike while a coroutine with children is halted
  MaxRuns,             \* bound: calls of execute
  MaxHalts             \* bound: halts of execute by its caller

Root == <<>>
ASSUME TasksAssumption ==
  /\ Root \in Tasks
  /\ \A t \in Tasks : t \in Seq(Nat) /\ (t # Root => SubSeq(t, 1, Len(t) - 1) \in Tasks)
ASSUME BoundsAssumption == Asynchronous \in BOOLEAN /\ CrashInHalt \in BOOLEAN
                            /\ MaxRuns \in Nat /\ MaxHalts \in Nat

VARIABLES
  program,  \* the workflow
  stream,   \* the durable events of all coroutines
  mark,     \* how many of them this run found in the stream (its ReplayIndex)
  task,     \* coroutine id -> its state in this run
  runs, halts

vars == <<program, stream, mark, task, runs, halts>>

-----------------------------------------------------------------------------
(* Results and events *)

Ok(v) == [status |-> "ok", value |-> v]
Error(x) == [status |-> "error", error |-> x]
Cancelled == [status |-> "cancelled"]
Collected(rs) == [status |-> "ok", values |-> rs]      \* the array all returns
Completed(r) == [status |-> "ok", completed |-> r]     \* timebox, body in time
TimedOut == [status |-> "ok", timeout |-> TRUE]        \* timebox, deadline first
Handle(c) == [status |-> "ok", handle |-> c]           \* spawn
Undefined == [status |-> "undefined"]                  \* .value of a cancelled result
Threw(x) == [status |-> "threw", error |-> x]          \* driveKernel throws
Pending == [status |-> "pending"]

YieldEvent(t, e, r, h) ==
  [type |-> "yield", co |-> t, effect |-> e, result |-> r, hist |-> h]
CloseEvent(t, r, h) ==
  [type |-> "close", co |-> t, result |-> r, hist |-> h]

\* What the journal holds of a coroutine, as positions; the index has the first
\* mark events.  The place of a Yield is the number of its coroutine's before it.
YieldsOf(t) == {i \in 1 .. Len(stream) : stream[i].co = t /\ stream[i].type = "yield"}
Place(i) == Cardinality({j \in YieldsOf(stream[i].co) : j < i})
Closes(t) == {i \in 1 .. Len(stream) : stream[i].co = t /\ stream[i].type = "close"}
HasClose(t) == \E i \in Closes(t) : i <= mark
WasCancelled(t) == \E i \in Closes(t) : i <= mark /\ stream[i].result = Cancelled

-----------------------------------------------------------------------------
(* The tree *)

Child(t, k) == Append(t, k)
Parent(t) == SubSeq(t, 1, Len(t) - 1)

\* Mutant: a cancelled coroutine steps its kernel again.
FreshAlwaysSteps(t, role) ==
  [pc |-> "step", role |-> role, closed |-> FALSE, hist |-> <<>>, cursor |-> 0, base |-> 0, count |-> 0,
   kind |-> "none", joined |-> {}, awaits |-> t, settled |-> Pending, result |-> Pending]
\* driveKernel begins: a coroutine whose journal ends in Close(cancelled)
\* returns at once, any other steps its kernel.
Fresh(t, role) ==
  [pc |-> IF WasCancelled(t) THEN "closing" ELSE "step", role |-> role,
   closed |-> WasCancelled(t), hist |-> <<>>, cursor |-> 0, base |-> 0, count |-> 0,
   kind |-> "none", joined |-> {}, awaits |-> t, settled |-> Pending,
   result |-> IF WasCancelled(t) THEN Cancelled ELSE Pending]
Unborn ==
  [pc |-> "unborn", role |-> "none", closed |-> FALSE, hist |-> <<>>, cursor |-> 0,
   base |-> 0, count |-> 0, kind |-> "none", joined |-> {}, awaits |-> Root,
   settled |-> Pending, result |-> Pending]

Children(t) == {Child(t, k) : k \in 0 .. task[t].count - 1}
Branches(t) == {Child(t, k) : k \in task[t].base .. task[t].count - 1}

\* The timeout child of a timebox runs a kernel the runtime makes: sleep.
TimeoutStep(h) ==
  CASE h = <<>> -> [kind |-> "effect", effect |-> "sleep"]
    [] h # <<>> /\ h[1].status = "ok" -> [kind |-> "done", result |-> h[1]]
    [] OTHER -> [kind |-> "throw", error |-> h[1].error]
StepOf(t) ==
  IF task[t].role = "timeout" THEN TimeoutStep(task[t].hist)
  ELSE KernelStep(program, t, task[t].hist)
At(t, kinds) == task[t].pc = "step" /\ StepOf(t).kind \in kinds

Resumed(rec, r) == [rec EXCEPT !.hist = Append(@, r), !.pc = "step"]

-----------------------------------------------------------------------------
(* Ends of a coroutine *)

\* Mutant: the Close is appended whether or not the index has one.
ConcludeAgain(t, r) ==
  /\ task' = [task EXCEPT ![t].pc = "closing", ![t].closed = TRUE, ![t].result = r]
  /\ stream' = Append(stream, CloseEvent(t, r, task[t].hist))
\* driveKernel records its Close, unless the index has one.  It has still to
\* close its scope.  A DivergenceError is recorded and thrown on.
Conclude(t, r) ==
  /\ task' = [task EXCEPT ![t].pc = "closing", ![t].closed = TRUE,
                ![t].result = IF r = Error("DivergenceError") THEN Threw(r.error) ELSE r]
  /\ stream' = IF HasClose(t) THEN stream ELSE Append(stream, CloseEvent(t, r, task[t].hist))

\* What an orchestrator resolves or rejects with once a branch has returned r,
\* given the results of all branches; Pending if it goes on waiting.  A result
\* that is neither ok nor cancelled is taken for an error; reading the error of
\* a cancelled one is a TypeError.
ErrorOf(r) == IF r = Cancelled THEN Error("TypeError") ELSE r
Values(results) ==
  Collected([k \in DOMAIN results |->
    IF results[k].status = "ok" THEN results[k] ELSE Undefined])
Returned(results) == \A k \in DOMAIN results : results[k] # Pending

\* Mutant: a failed branch only leaves a hole in the array.
AllWithHoles(results, r) == IF Returned(results) THEN Values(results) ELSE Pending
AllOutcome(results, r) ==
  IF r.status = "error" THEN r
  ELSE IF Returned(results) THEN Values(results) ELSE Pending

\* Mutant: any branch that does not fail wins.
RaceTakesCancelled(results, r) ==
  CASE r.status = "ok" -> r
    [] r = Cancelled -> Ok("undefined")
    [] OTHER -> Pending
\* Mutant: nobody looks whether there is still a branch that may win.
RaceWithoutLosers(results, r) == IF r.status = "ok" THEN r ELSE Pending
RaceOutcome(results, r) ==
  IF r.status = "ok" THEN r
  ELSE IF \A k \in DOMAIN results : results[k].status = "error" THEN results[1]
  ELSE Pending

\* Mutant: whatever way the body ends it has completed.
TimeboxOfAnyEnd(role, r) == IF role = "body" THEN Completed(r) ELSE TimedOut
TimeboxOutcome(role, r) ==
  IF r.status # "ok" THEN ErrorOf(r)
  ELSE IF role = "body" THEN Completed(r) ELSE TimedOut

\* ts is the tree in which the branch c of p has just ended.
Outcome(ts, p, c) ==
  LET r == ts[c].result
      results == [k \in 1 .. ts[p].count - ts[p].base |->
                    LET b == ts[Child(p, ts[p].base + k - 1)] IN
                    IF b.pc = "ended" THEN b.result ELSE Pending]
  IN CASE ts[p].kind = "all" -> AllOutcome(results, r)
       [] ts[p].kind = "race" -> RaceOutcome(results, r)
       [] ts[p].kind = "timebox" -> TimeboxOutcome(ts[c].role, r)
       [] ts[p].kind = "scope" -> ErrorOf(r)

\* The tree after c has ended and its result has reached its parent.  A branch
\* that throws fails its orchestrator's scope, whatever it had settled on; a
\* spawned child that fails halts its parent, which will throw in turn.
Report(ts, c) ==
  LET p == Parent(c)
      r == ts[c].result
      spawned == ts[c].role = "spawned"
      fails == r.status = "threw" \/ (spawned /\ r.status = "error")
  IN CASE fails /\ spawned /\ ts[p].pc \notin {"halting", "ended"} ->
            [ts EXCEPT ![p].pc = "halting", ![p].result = Threw(r.error)]
       [] fails /\ ~spawned /\ ts[p].pc \in {"compound", "leaving"} ->
            [ts EXCEPT ![p].pc = "leaving", ![p].settled = Error(r.error)]
       [] ~fails /\ ~spawned /\ ts[p].pc = "compound" /\ Outcome(ts, p, c) # Pending ->
            [ts EXCEPT ![p].pc = "leaving", ![p].settled = Outcome(ts, p, c)]
       [] OTHER -> ts
Ended(t) == [task EXCEPT ![t].pc = "ended"]
Reported(t) == IF t = Root THEN Ended(t) ELSE Report(Ended(t), t)

-----------------------------------------------------------------------------
(* Standard effects *)

Entries(t) == {i \in YieldsOf(t) : i <= mark /\ Place(i) = task[t].cursor}
HasEntry(t) == Entries(t) # {}
Entry(t) == stream[CHOOSE i \in Entries(t) : TRUE]

Replay(t) ==
  /\ At(t, {"effect"}) /\ HasEntry(t) /\ Entry(t).effect = StepOf(t).effect
  /\ task' = [task EXCEPT ![t] = [Resumed(@, Entry(t).result) EXCEPT !.cursor = task[t].cursor + 1]]
  /\ UNCHANGED <<program, stream, mark, runs, halts>>

\* Another effect than the journaled one, or an effect after the Close.
Diverge(t) ==
  /\ At(t, {"effect"})
  /\ IF HasEntry(t) THEN Entry(t).effect # StepOf(t).effect ELSE HasClose(t)
  /\ Conclude(t, Error("DivergenceError"))
  /\ UNCHANGED <<program, mark, runs, halts>>

\* Mutant: no look at the Close before going live.
DispatchPastClose(t) ==
  /\ At(t, {"effect"}) /\ ~HasEntry(t)
  /\ task' = [task EXCEPT ![t].pc = "dispatched"]
  /\ UNCHANGED <<program, stream, mark, runs, halts>>
Dispatch(t) ==
  /\ At(t, {"effect"}) /\ ~HasEntry(t) /\ ~HasClose(t)
  /\ task' = [task EXCEPT ![t].pc = "dispatched"]
  /\ UNCHANGED <<program, stream, mark, runs, halts>>

\* Effects are answered from outside the runtime, which first does all it can:
\* it steps and replays kernels, closes scopes and halts branches in one go.
\* Only where a coroutine awaits the append of its Close to a file can an
\* answer come in between.
AwaitsAppend(t) ==
  \/ task[t].pc = "closing" /\ ~HasClose(t)
  \/ task[t].pc = "halting"
  \/ task[t].pc = "leaving" /\ \E c \in Branches(t) : task[c].pc = "halting"
Waiting(t) ==
  \/ task[t].pc \in {"unborn", "dispatched", "compound", "ended"}
  \/ task[t].pc = "joining" /\ task[task[t].awaits].pc # "ended"
Quiet == \A t \in Tasks : Waiting(t) \/ (Asynchronous /\ AwaitsAppend(t))

Answer(t) ==
  /\ task[t].pc = "dispatched" /\ Quiet
  /\ LET e == StepOf(t).effect IN
     \E r \in Answers(e) :
       /\ stream' = Append(stream, YieldEvent(t, e, r, task[t].hist))
       /\ task' = [task EXCEPT ![t] = Resumed(@, r)]
  /\ UNCHANGED <<program, mark, runs, halts>>

-----------------------------------------------------------------------------
(* Compound effects *)

\* all, race, timebox and scope make n branches and wait.
Width(step) ==
  CASE step.kind = "timebox" -> 2
    [] step.kind = "scope" -> 1
    [] OTHER -> step.width
Role(step, k) ==
  IF step.kind # "timebox" THEN "branch" ELSE IF k = 0 THEN "body" ELSE "timeout"
Fork(t) ==
  /\ At(t, {"all", "race", "timebox", "scope"})
  /\ LET step == StepOf(t)
         first == task[t].count
         born == {Child(t, k) : k \in first .. first + Width(step) - 1}
     IN /\ Width(step) \in Nat \ {0} /\ born \subseteq Tasks
        /\ task' = [c \in Tasks |->
          IF c = t THEN [task[t] EXCEPT !.pc = "compound", !.kind = step.kind,
                           !.settled = Pending, !.base = first, !.count = first + Width(step)]
          ELSE IF c \in born THEN Fresh(c, Role(step, c[Len(c)] - first))
          ELSE task[c]]
  /\ UNCHANGED <<program, stream, mark, runs, halts>>

AllOfNone(t) ==
  /\ At(t, {"all"}) /\ StepOf(t).width = 0
  /\ task' = [task EXCEPT ![t] = Resumed(@, Collected(<<>>))]
  /\ UNCHANGED <<program, stream, mark, runs, halts>>
RaceOfNone(t) ==
  /\ At(t, {"race"}) /\ StepOf(t).width = 0
  /\ Conclude(t, Error("RuntimeBugError"))
  /\ UNCHANGED <<program, mark, runs, halts>>

\* A scope one of whose bindings cannot be evaluated: the child's Close is
\* written for it and its kernel never runs.
BindFails(t) ==
  /\ At(t, {"badScope"}) /\ Child(t, task[t].count) \in Tasks
  /\ LET c == Child(t, task[t].count)
         r == Error("ScopeBindingEffectError")
     IN /\ task' = [task EXCEPT
             ![t] = [Resumed(@, r) EXCEPT !.count = task[t].count + 1],
             ![c] = [Fresh(c, "branch") EXCEPT !.pc = "ended", !.result = r]]
        /\ stream' = IF HasClose(c) THEN stream ELSE Append(stream, CloseEvent(c, r, <<>>))
  /\ UNCHANGED <<program, mark, runs, halts>>

Spawn(t) ==
  /\ At(t, {"spawn"}) /\ Child(t, task[t].count) \in Tasks
  /\ LET c == Child(t, task[t].count) IN
     task' = [task EXCEPT ![t] = [Resumed(@, Handle(c)) EXCEPT !.count = task[t].count + 1],
                          ![c] = Fresh(c, "spawned")]
  /\ UNCHANGED <<program, stream, mark, runs, halts>>

\* A handle can be joined once, by the coroutine that spawned it.
Joinable(t, c) == c \in Children(t) \ task[t].joined /\ task[c].role = "spawned"
Join(t) ==
  /\ At(t, {"join"}) /\ Joinable(t, StepOf(t).child)
  /\ task' = [task EXCEPT ![t].pc = "joining", ![t].awaits = StepOf(t).child,
                          ![t].joined = @ \union {StepOf(t).child}]
  /\ UNCHANGED <<program, stream, mark, runs, halts>>
JoinRefused(t) ==
  /\ At(t, {"join"}) /\ ~Joinable(t, StepOf(t).child)
  /\ Conclude(t, Error("RuntimeBugError"))
  /\ UNCHANGED <<program, mark, runs, halts>>
Joined(t) ==
  /\ task[t].pc = "joining" /\ task[task[t].awaits].pc = "ended"
  /\ LET r == task[task[t].awaits].result IN
     \/ /\ r.status = "ok"
        /\ task' = [task EXCEPT ![t] = Resumed(@, r)]
        /\ UNCHANGED stream
     \/ r = Cancelled /\ Conclude(t, Error("TypeError"))
  /\ UNCHANGED <<program, mark, runs, halts>>

\* Mutant: the parent goes on as soon as the operation has settled.
ResumeAtOnce(t) ==
  /\ task[t].pc = "leaving"
  /\ task' = [task EXCEPT ![t] = Resumed(@, task[t].settled)]
  /\ UNCHANGED <<program, stream, mark, runs, halts>>
\* The orchestrator's scope is closed: scope and timebox hand the kernel value
\* or error, all and race fail the coroutine with their error.
Resume(t) ==
  /\ task[t].pc = "leaving" /\ \A c \in Branches(t) : task[c].pc = "ended"
  /\ IF task[t].settled.status = "ok" \/ task[t].kind \in {"timebox", "scope"}
     THEN /\ task' = [task EXCEPT ![t] = Resumed(@, task[t].settled)]
          /\ UNCHANGED stream
     ELSE Conclude(t, task[t].settled)
  /\ UNCHANGED <<program, mark, runs, halts>>

-----------------------------------------------------------------------------
(* Return and halt *)

Return(t) ==
  /\ At(t, {"done", "throw"})
  /\ Conclude(t, IF StepOf(t).kind = "done" THEN StepOf(t).result
                 ELSE Error(StepOf(t).error))
  /\ UNCHANGED <<program, mark, runs, halts>>

\* The Close is written and the scope is closed: driveKernel returns.  When a
\* child that failed is being joined, its parent wakes up to the error, and
\* whether it then returns it or is torn down with it is up to the scheduler.
ScopeClosed(t) == \A c \in Children(t) : task[c].pc = "ended"
Finish(t) ==
  /\ task[t].pc = "closing" /\ ScopeClosed(t)
  /\ LET r == task[t].result
         p == Parent(t)
         wakes == /\ t # Root /\ task[t].role = "spawned"
                  /\ r.status \in {"error", "threw"}
                  /\ task[p].pc = "joining" /\ task[p].awaits = t
         close == Error(r.error)
     IN \/ /\ ~wakes
           /\ task' = Reported(t)
           /\ UNCHANGED stream
        \/ /\ wakes
           /\ \E result \in {Threw(r.error)} \union
                             {x \in {close} : r.error # "DivergenceError"} :
                task' = [Ended(t) EXCEPT ![p].pc = "closing", ![p].closed = TRUE,
                           ![p].result = result]
           /\ stream' = IF HasClose(p) THEN stream
                        ELSE Append(stream, CloseEvent(p, close, task[p].hist))
  /\ UNCHANGED <<program, mark, runs, halts>>

\* A scope that is closing halts what still runs in it, in no fixed order.
Doomed(t) ==
  CASE task[t].pc = "leaving" -> Branches(t)
    [] task[t].pc \in {"closing", "halting"} -> Children(t)
    [] OTHER -> {}
HaltChild(t) ==
  /\ t # Root /\ t \in Doomed(Parent(t)) /\ task[t].pc \notin {"unborn", "halting", "ended"}
  /\ task' = [task EXCEPT ![t].pc = "halting", ![t].result = Cancelled]
  /\ UNCHANGED <<program, stream, mark, runs, halts>>

\* ensure(): a halted coroutine that has not recorded its Close is cancelled.
Halted(t) ==
  /\ task[t].pc = "halting" /\ ScopeClosed(t)
  /\ stream' = IF task[t].closed \/ HasClose(t) THEN stream
               ELSE Append(stream, CloseEvent(t, Cancelled, task[t].hist))
  /\ task' = IF task[t].result = Cancelled THEN Ended(t) ELSE Reported(t)
  /\ UNCHANGED <<program, mark, runs, halts>>

Halt ==
  /\ halts < MaxHalts /\ halts' = halts + 1
  /\ task[Root].pc \notin {"halting", "ended"}
  /\ task' = [task EXCEPT ![Root].pc = "halting", ![Root].result = Cancelled]
  /\ UNCHANGED <<program, stream, mark, runs>>

-----------------------------------------------------------------------------
(* Runs *)

BootTasks == [t \in Tasks |-> IF t = Root THEN Fresh(Root, "root") ELSE Unborn]

Init ==
  /\ program \in Programs
  /\ stream = <<>> /\ mark = 0
  /\ task = BootTasks
  /\ runs = 1 /\ halts = 0

\* execute is called again on the stream, after it returned or after the
\* process died; what has been appended is all that is left.
InHaltOfTree == \E t \in Tasks : task[t].pc = "halting" /\ task[t].count > 0
Execute ==
  /\ runs < MaxRuns /\ runs' = runs + 1
  /\ CrashInHalt \/ ~InHaltOfTree
  /\ mark' = Len(stream)
  /\ UNCHANGED <<program, stream, halts>>
  /\ task' = BootTasks'

Step(t) ==
  \/ Replay(t) \/ Diverge(t) \/ Dispatch(t)
  \/ Fork(t) \/ AllOfNone(t) \/ RaceOfNone(t) \/ BindFails(t)
  \/ Spawn(t) \/ Join(t) \/ JoinRefused(t) \/ Joined(t)
  \/ Resume(t) \/ Return(t) \/ Finish(t)
  \/ HaltChild(t) \/ Halted(t)
Next == (\E t \in Tasks : Step(t) \/ Answer(t)) \/ Halt \/ Execute

\* Coroutines go on and handlers answer; nobody has to halt or to crash.
Fairness == \A t \in Tasks : WF_vars(Step(t)) /\ WF_vars(Answer(t))
Spec == Init /\ [][Next]_vars /\ Fairness

-----------------------------------------------------------------------------
(* Properties *)

\* A coroutine that runs again is told what it was told when it recorded its
\* events: no replay resumes a kernel with another winner, another array or
\* another error than the one behind the journal (the ReplayIndex of every
\* coroutine against driveKernel's resumptions).
Agree(h, g) == \A i \in 1 .. Len(h) : i <= Len(g) => h[i] = g[i]
ReplayConsistent ==
  \A i \in 1 .. Len(stream) :
    LET e == stream[i] IN
    Agree(IF e.type = "yield" THEN Append(e.hist, e.result) ELSE e.hist, task[e.co].hist)

\* Whenever a coroutine records an event, the children its compound effects
\* made have recorded theirs: their Closes are already in the stream (the
\* scoped() around every orchestrator is left before the parent goes on).
Recorded(t) == stream' # stream /\ stream'[Len(stream')].co = t
ChildrenCloseFirst ==
  [][\A t \in Tasks : Recorded(t) =>
       \A c \in Children(t) : task[c].role # "spawned" => Closes(c) # {}]_vars

\* The same of the children made by spawn (O5 of the kernel specification).
SpawnedCloseFirst ==
  [][\A t \in Tasks :
       Recorded(t) /\ stream'[Len(stream')].type = "close" =>
       \A c \in Children(t) : Closes(c) # {}]_vars

\* Nothing of a coroutine follows its Close, also not when a replay that went
\* another way makes it live again (the close guard before live dispatch).
SilentAfterClose ==
  \A t \in Tasks : \A i \in Closes(t) :
    \A j \in i + 1 .. Len(stream) : stream[j].co # t \/ stream[j].type = "close"

\* An unchanged workflow never diverges from its journal.
NoDivergence == \A t \in Tasks : task[t].result # Threw("DivergenceError")

\* When a compound effect answers its kernel, the journal alone determines the
\* answer: all has one ok Close per branch, in source order; of a race exactly
\* one branch closed ok; a scope gives its child's result.
CloseOf(t) == stream[CHOOSE i \in Closes(t) : TRUE].result
Winners(t) == {c \in Branches(t) : CloseOf(c).status = "ok"}
Determined(t) ==
  LET settled == task[t].settled IN
  CASE task[t].kind = "all" ->
         settled = Collected([k \in 1 .. task[t].count - task[t].base |->
                     CloseOf(Child(t, task[t].base + k - 1))]) /\ Winners(t) = Branches(t)
    [] task[t].kind = "race" -> \E c \in Branches(t) : Winners(t) = {c} /\ settled = CloseOf(c)
    [] task[t].kind = "scope" ->
         \A c \in Branches(t) : settled = CloseOf(c)
    [] OTHER -> TRUE
JournalDecides ==
  [][\A t \in Tasks :
       task[t].pc = "leaving" /\ task'[t].pc = "step" /\ runs' = runs => Determined(t)]_vars

\* However failures, timeouts, halts and replays coincide, what an operation comes
\* to is the doing of one of its own branches: it fails with what that one threw
\* or failed with, a race only if all have failed; all succeeds if none of its
\* branches failed, a race, scope or timebox with the child that returned ok.
\* What the branch returned is in its Close, unless an earlier run wrote that
\* (orchestrateAll, orchestrateRace, orchestrateTimebox, orchestrateScope).
OnRecord(c) == HasClose(c) \/ CloseOf(c) = task[c].result
Failed(c) == task[c].result.status \in {"error", "threw"}
DecidedBy(t, c) ==
  LET kind == task[t].kind
      settled == task[t].settled
      r == task[c].result
  IN /\ task[c].pc = "ended" /\ (r.status \in {"ok", "error"} => OnRecord(c))
     /\ \/ r.status = "threw" /\ settled = Error(r.error)
        \/ /\ r.status = "error" /\ settled = r
           /\ kind = "race" => \A b \in Branches(t) : task[b].pc = "ended" /\ Failed(b)
        \/ /\ kind = "all" /\ settled.status = "ok"
           /\ \A b \in Branches(t) : task[b].pc = "ended" /\ ~ Failed(b)
        \/ kind \in {"race", "scope"} /\ r.status = "ok" /\ settled = r
        \/ /\ kind = "timebox" /\ r.status = "ok"
           /\ settled = IF task[c].role = "body" THEN Completed(r) ELSE TimedOut
        \/ kind \in {"timebox", "scope"} /\ r.status # "ok" /\ settled = ErrorOf(r)
BranchDecides ==
  \A t \in Tasks : task[t].pc = "leaving" => \E c \in Branches(t) : DecidedBy(t, c)

\* An error of all or race reaches the kernel, whose try may catch it: what a
\* coroutine closes with is an error its own kernel threw.
ErrorsReachKernel ==
  \A i \in 1 .. Len(stream) :
    LET e == stream[i] IN
    e.type = "close" /\ e.result.status = "error" =>
      KernelStep(program, e.co, e.hist).kind = "throw"

\* Once handlers answer and execute is not called again it returns: no
\* coroutine waits for a child that will never report.
EventuallyReturns == <>[](task[Root].pc = "ended")

-----------------------------------------------------------------------------
(* Why it holds *)

\* What driveKernel's flag and place say about the Closes in the stream: an
\* ended or closed coroutine has its Close, and a Close the index does not know
\* has been written by a coroutine that is closed or has ended.
CloseInv ==
  \A t \in Tasks :
    /\ task[t].pc = "closing" => task[t].closed
    /\ task[t].closed => task[t].pc \in {"closing", "halting", "ended"}
    /\ task[t].closed \/ task[t].pc = "ended" => Closes(t) # {}
    /\ \A i \in Closes(t) : i > mark => task[t].closed \/ task[t].pc = "ended"
    /\ \A i, j \in Closes(t) : i = j

\* Ids are allocated in order, and what is not yet allocated is not born.
BirthInv ==
  /\ task[Root].pc # "unborn"
  /\ \A t \in Tasks : task[t].pc = "unborn" => task[t].count = 0
  /\ \A c \in Tasks \ {Root} :
       c[Len(c)] >= task[Parent(c)].count => task[c].pc = "unborn"

\* Of the children of a coroutine's compound effects only the branches of the
\* present one may run.
ScopeInv ==
  \A t \in Tasks : \A c \in Children(t) :
    /\ c \in Tasks
    /\ task[c].role # "spawned" =>
         /\ task[t].pc \in {"step", "dispatched", "joining"} => task[c].pc = "ended"
         /\ task[t].pc \in {"compound", "leaving"} =>
              c \in Branches(t) \/ task[c].pc = "ended"

ShapeInv ==
  /\ stream \in Seq({stream[i] : i \in 1 .. Len(stream)})
  /\ mark \in 0 .. Len(stream)
  /\ DOMAIN task = Tasks
  /\ \A t \in Tasks :
       /\ DOMAIN task[t] = DOMAIN Unborn
       /\ task[t].count \in Nat /\ task[t].base \in 0 .. task[t].count

\* The inductive invariant: the flags, the tree and the stream agree, whatever
\* kernels do, handlers answer and runs are cut short (driveKernel).
TreeInv == ShapeInv /\ CloseInv /\ BirthInv /\ ScopeInv
=============================================================================
