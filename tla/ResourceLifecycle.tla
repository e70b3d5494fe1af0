------------------------- MODULE ResourceLifecycle -------------------------
(***************************************************************************)
(* A coroutine (driveKernel) that acquires resources, directly or through  *)
(* the inline lanes of its middleware, and the coroutines that run the     *)
(* resources (orchestrateResourceChild): init until provide, a wait for    *)
(* the signal of the owner, cleanup.  Effects are journaled and replayed;  *)
(* processes crash and executions are halted at any step.                  *)
(***************************************************************************)
EXTENDS Naturals, Sequences, FiniteSets, SequencesExt

CONSTANTS
  Programs,   \* what the owner and the bodies of its resources do
  MaxRuns,    \* executions of the same workflow over one journal
  MaxHalts,   \* executions halted by their caller
  Atomic      \* appends take no time (InMemoryStream), so that an execution
              \* that is being halted is never interrupted

\* A program is [script, catches, body]: script is a sequence of the owner's
\* operations, catches tells whether an acquisition that fails is caught where it
\* was made (by the workflow, or by the middleware around an inline lane), and
\* body[i] describes the resource acquired by the i-th operation.
Ops == {"acquire", "effect", "inline"}
Bodies == [init : {"provide", "fail"}, spawns : BOOLEAN, cleanup : {"effect", "none", "fail"}]
ASSUME ResourceBounds ==
  /\ \A p \in Programs : /\ p.script \in Seq(Ops) /\ p.catches \in BOOLEAN
                         /\ p.body \in [1 .. Len(p.script) -> Bodies]
  /\ MaxRuns \in Nat \ {0} /\ MaxHalts \in Nat /\ Atomic \in BOOLEAN

VARIABLES
  program,
  stream,     \* the journal
  old,        \* its length when this run started: what the ReplayIndex holds
  pos,        \* coroutine -> entries it has consumed or made in this run
  owner,      \* where it is, its outcome, resourceChildren, and whether its
              \* scope has failed
  child,      \* resource -> [phase, result]
  task,       \* resource -> the task spawned by its init
  run, halts

vars == <<program, stream, old, pos, owner, child, task, run, halts>>

-----------------------------------------------------------------------------
Steps == 1 .. Len(program.script)
Caller == <<"owner", 0>>
Res(i) == <<"resource", i>>
Task(i) == <<"task", i>>

\* The Yields of a coroutine are a list, and an event carries its place in it.
YieldEvent(id, n, result) == [type |-> "yield", id |-> id, n |-> n, result |-> result]
CloseEvent(id, result) == [type |-> "close", id |-> id, n |-> 0, result |-> result]
Results == {"ok", "error", "diverged"}
Closings == Results \union {"cancelled"}

Journaled(event) == \E m \in 1 .. Len(stream) : stream[m] = event
\* The ReplayIndex: peekYield, the result at the cursor, and getClose.
Stored(event) == \E m \in 1 .. old : stream[m] = event
PeekYield(id) == {r \in Results : Stored(YieldEvent(id, pos[id] + 1, r))}
PreClose(id) ==
  IF \E r \in Closings : Stored(CloseEvent(id, r))
    THEN CHOOSE r \in Closings : Stored(CloseEvent(id, r))
    ELSE "none"

\* Mutant: the Close is written again by every run.
CloseAgain(id, result, events) == Append(events, CloseEvent(id, result))
\* maybeAppendCloseToStream: a Close that the journal held is not written again.
Close(id, result, events) ==
  IF PreClose(id) = "none" THEN Append(events, CloseEvent(id, result)) ELSE events

\* One effect of a coroutine: its stored result, or a new one that is stored.
\* A coroutine that was closed with fewer effects diverges.
Effect(id, result) ==
  /\ pos' = [pos EXCEPT ![id] = @ + 1]
  /\ \/ result \in PeekYield(id) /\ UNCHANGED stream
     \/ /\ PeekYield(id) = {}
        /\ IF PreClose(id) # "none"
             THEN result = "diverged" /\ UNCHANGED stream
             ELSE /\ result \in {"ok", "error"}
                  /\ stream' = Append(stream, YieldEvent(id, pos[id] + 1, result))

Unborn == [phase |-> "unborn", result |-> "none"]
Closed(result) == [phase |-> "closed", result |-> result]

\* What a run starts with.
Fresh(p) ==
  /\ pos = [id \in {<<"owner", 0>>} \union ({"resource"} \X (1 .. Len(p.script))) |-> 0]
  /\ owner = [pc |-> 1, at |-> "op", outcome |-> "ok", resources |-> <<>>, broken |-> FALSE]
  /\ child = [i \in 1 .. Len(p.script) |-> Unborn]
  /\ task = [i \in 1 .. Len(p.script) |-> "unborn"]

Init ==
  /\ program \in Programs
  /\ stream = <<>> /\ old = 0
  /\ Fresh(program)
  /\ run = 1 /\ halts = 0

-----------------------------------------------------------------------------
(* The owner *)

Op == program.script[owner.pc]
AtOp == owner.at = "op" /\ owner.pc \in Steps
Advance == [owner EXCEPT !.pc = @ + 1, !.at = "op"]
\* The kernel returns or throws: resources are torn down before the Close.
Leave(outcome) == [owner EXCEPT !.at = "teardown", !.outcome = outcome]

\* A dispatch goes beyond the journal of a closed coroutine: it is refused
\* before any middleware runs.
Overrun(id) == PeekYield(id) = {} /\ PreClose(id) # "none"

Perform ==
  /\ AtOp /\ (Op = "effect" \/ (Op = "inline" /\ Overrun(Caller)))
  /\ \E result \in Results :
       /\ Effect(Caller, result)
       /\ owner' = IF result = "ok" THEN Advance ELSE Leave(result)
  /\ UNCHANGED <<program, old, child, task, run, halts>>

\* A resource is yielded by the kernel, or by the body of an inline lane in
\* the middleware around an effect.  A child that an earlier run saw
\* cancelled is not started again.
Acquire ==
  /\ AtOp /\ (Op = "acquire" \/ (Op = "inline" /\ ~ Overrun(Caller)))
  /\ owner' = [owner EXCEPT !.at = "acquiring"]
  /\ IF PreClose(Res(owner.pc)) = "cancelled"
       THEN child' = [child EXCEPT ![owner.pc] = Closed("cancelled")] /\ UNCHANGED task
       ELSE /\ child' = [child EXCEPT ![owner.pc].phase = "init"]
            /\ task' = [task EXCEPT ![owner.pc] =
                          IF program.body[owner.pc].spawns /\ PreClose(Task(owner.pc)) # "cancelled"
                            THEN "running" ELSE "unborn"]
  /\ UNCHANGED <<program, stream, old, pos, run, halts>>

\* An inline acquisition is followed by the effect it was made for.
AfterAcquisition ==
  IF Op = "inline" THEN [owner EXCEPT !.at = "answering"] ELSE Advance

\* Mutant: an inline lane keeps its resources to itself.
RegisterOwn(o, i) == IF Op = "inline" THEN o ELSE [o EXCEPT !.resources = Append(@, i)]
\* The registration target of direct and of inline acquisitions is the same.
Register(o, i) == [o EXCEPT !.resources = Append(@, i)]

Provided ==
  /\ owner.at = "acquiring" /\ child[owner.pc].phase = "provided"
  /\ owner' = Register(AfterAcquisition, owner.pc)
  /\ UNCHANGED <<program, stream, old, pos, child, task, run, halts>>

\* provideReject: the kernel, or the lane's, gets the error at its yield.  Of an
\* inline acquisition the middleware is left with it, if it does not catch it.
Refused ==
  /\ owner.at = "acquiring" /\ child[owner.pc].phase = "closed"
  /\ owner' = IF program.catches \/ Op = "inline" THEN AfterAcquisition ELSE Leave("error")
  /\ UNCHANGED <<program, stream, old, pos, child, task, run, halts>>

\* The refusal that the middleware around the lane has let through.
Thrown == child[owner.pc].phase = "closed" /\ ~ program.catches

\* The effect of the middleware that held the lane: its error is stored as a
\* result of the owner's, unless one is stored already.
Answer ==
  /\ owner.at = "answering"
  /\ \E result \in Results :
       /\ Thrown /\ PeekYield(Caller) = {} => result = "error"
       /\ Effect(Caller, result)
       /\ owner' = IF result = "ok" THEN Advance ELSE Leave(result)
  /\ UNCHANGED <<program, old, child, task, run, halts>>

Return ==
  /\ owner.at = "op" /\ owner.pc \notin Steps
  /\ owner' = Leave("ok")
  /\ UNCHANGED <<program, stream, old, pos, child, task, run, halts>>

\* Mutant: a refusal that the middleware lets through is torn down before it is
\* stored.
SignalEarly ==
  /\ owner.at = "teardown" \/ (owner.at = "answering" /\ Thrown)
  /\ owner.resources # <<>> /\ child[Last(owner.resources)].phase = "provided"
  /\ child' = [child EXCEPT ![Last(owner.resources)].phase = "cleanup"]
  /\ UNCHANGED <<program, stream, old, pos, owner, task, run, halts>>
\* Mutant: nobody waits for the cleanup of the one before.
SignalAll ==
  /\ owner.at = "teardown" /\ owner.resources # <<>>
  /\ child' = [i \in DOMAIN child |->
                 IF child[i].phase = "provided" THEN [child[i] EXCEPT !.phase = "cleanup"]
                 ELSE child[i]]
  /\ child' # child
  /\ UNCHANGED <<program, stream, old, pos, owner, task, run, halts>>
\* teardownResourceChildren: the last resource is signalled,
Signal ==
  /\ owner.at = "teardown" /\ owner.resources # <<>>
  /\ child[Last(owner.resources)].phase = "provided"
  /\ child' = [child EXCEPT ![Last(owner.resources)].phase = "cleanup"]
  /\ UNCHANGED <<program, stream, old, pos, owner, task, run, halts>>
\* and its cleanup awaited.
CleanedUp ==
  /\ owner.at = "teardown" /\ owner.resources # <<>>
  /\ child[Last(owner.resources)].phase = "closed"
  /\ owner' = [owner EXCEPT !.resources = Front(@)]
  /\ UNCHANGED <<program, stream, old, pos, child, task, run, halts>>

CloseOwner ==
  /\ owner.at = "teardown" /\ owner.resources = <<>>
  /\ owner' = [owner EXCEPT !.at = "closed"]
  /\ stream' = Close(Caller, owner.outcome, stream)
  /\ UNCHANGED <<program, old, pos, child, task, run, halts>>

-----------------------------------------------------------------------------
(* A resource: init *)

\* Tasks of the init phase are halted when its scope is left.
TaskHalted(i, events) ==
  IF task[i] = "running" THEN Close(Task(i), "cancelled", events) ELSE events
Halting(i) == [task EXCEPT ![i] = IF @ = "running" THEN "halted" ELSE @]

\* One effect on the way to provide.  A task whose failure is replayed fails
\* before the phase gets any further.
InitEffect(i) ==
  /\ child[i].phase = "init" /\ ~ (task[i] = "running" /\ PreClose(Task(i)) = "error")
  /\ \E result \in Results :
       /\ Effect(Res(i), result)
       /\ child' = [child EXCEPT ![i].phase =
            IF result = "ok" /\ program.body[i].init = "provide" THEN "providing"
            ELSE IF result = "diverged" THEN "fatal" ELSE "failing"]
  /\ UNCHANGED <<program, old, owner, task, run, halts>>

\* provide leaves the scope of the init phase, then resumes the owner.
Provide(i) ==
  /\ child[i].phase = "providing"
  /\ stream' = TaskHalted(i, stream) /\ task' = Halting(i)
  /\ child' = [child EXCEPT ![i].phase = "provided"]
  /\ UNCHANGED <<program, old, pos, owner, run, halts>>

\* Mutant: nobody tells the owner.
InitFailsSilently(i) ==
  /\ child[i].phase = "failing"
  /\ stream' = Close(Res(i), "error", TaskHalted(i, stream)) /\ task' = Halting(i)
  /\ child' = [child EXCEPT ![i] = [phase |-> "forgotten", result |-> "error"]]
  /\ UNCHANGED <<program, old, pos, owner, run, halts>>
\* The init phase throws, ends without provide, or yields a resource of its
\* own: the child is closed and the owner told.
InitFails(i) ==
  /\ child[i].phase = "failing"
  /\ stream' = Close(Res(i), "error", TaskHalted(i, stream)) /\ task' = Halting(i)
  /\ child' = [child EXCEPT ![i] = Closed("error")]
  /\ UNCHANGED <<program, old, pos, owner, run, halts>>

\* It diverges from the journal: the error fails the scope of the owner, who
\* is never answered.
InitDiverges(i) ==
  /\ child[i].phase = "fatal"
  /\ stream' = Close(Res(i), "error", TaskHalted(i, stream)) /\ task' = Halting(i)
  /\ child' = [child EXCEPT ![i] = [phase |-> "dead", result |-> "error"]]
  /\ owner' = [owner EXCEPT !.broken = TRUE]
  /\ UNCHANGED <<program, old, pos, run, halts>>

\* A task of the init phase ends, or fails and takes the phase with it; a
\* replayed one ends as it did.
TaskEnds(i) ==
  /\ task[i] = "running" /\ child[i].phase = "init"
  /\ task' = [task EXCEPT ![i] = "ended"]
  /\ \E result \in {"ok", "error"} :
       /\ PreClose(Task(i)) \in {"none", result}
       /\ stream' = Close(Task(i), result, stream)
       /\ child' = IF result = "ok" THEN child ELSE [child EXCEPT ![i].phase = "failing"]
  /\ UNCHANGED <<program, old, pos, owner, run, halts>>

-----------------------------------------------------------------------------
(* A resource: cleanup *)

CleanupDone(i) ==
  /\ child' = [child EXCEPT ![i] = Closed("ok")]
  /\ stream' = Close(Res(i), "ok", stream)
  /\ UNCHANGED <<pos, owner>>

\* The cleanup has no effect, or has had it.
CleanupReturns(i) ==
  /\ child[i].phase = "cleanup" /\ program.body[i].cleanup = "none"
  /\ CleanupDone(i)
  /\ UNCHANGED <<program, old, task, run, halts>>
CleanupEffect(i) ==
  /\ child[i].phase = "cleanup" /\ program.body[i].cleanup = "effect"
  /\ \E result \in Results :
       /\ Effect(Res(i), result)
       /\ child' = [child EXCEPT ![i].phase = IF result = "ok" THEN "cleaned" ELSE "spoilt"]
  /\ UNCHANGED <<program, old, owner, task, run, halts>>
CleanupEnds(i) ==
  /\ child[i].phase = "cleaned"
  /\ CleanupDone(i)
  /\ UNCHANGED <<program, old, task, run, halts>>

\* The cleanup fails: the child is closed with the error and the owner is
\* resumed, while the error goes on to fail the owner's scope.
CleanupFails(i) ==
  /\ \/ child[i].phase = "spoilt"
     \/ child[i].phase = "cleanup" /\ program.body[i].cleanup = "fail"
  /\ child' = [child EXCEPT ![i] = Closed("error")]
  /\ stream' = Close(Res(i), "error", stream)
  /\ owner' = [owner EXCEPT !.broken = TRUE]
  /\ UNCHANGED <<program, old, pos, task, run, halts>>

-----------------------------------------------------------------------------
(* Halting, crashing, running again *)

Live(id) ==
  /\ \A r \in Results : ~ Journaled(YieldEvent(id, pos[id] + 1, r))
  /\ PreClose(id) = "none"
\* Something waits for an answer of the world: what is replayed does not.
Suspended ==
  \/ ((AtOp /\ Op = "effect") \/ (owner.at = "answering" /\ ~ Thrown)) /\ Live(Caller)
  \/ \E i \in Steps :
       /\ \/ child[i].phase = "init"
          \/ child[i].phase = "cleanup" /\ program.body[i].cleanup = "effect"
       /\ Live(Res(i))
Halt ==
  /\ Suspended /\ owner.at \notin {"halting", "closed"} /\ halts < MaxHalts /\ halts' = halts + 1
  /\ owner' = [owner EXCEPT !.at = "halting"]
  /\ UNCHANGED <<program, stream, old, pos, child, task, run>>

\* The scope of the owner fails with one of its children.
ScopeFails ==
  /\ owner.broken /\ owner.at \notin {"halting", "closed"}
  /\ owner' = [owner EXCEPT !.at = "halting"]
  /\ UNCHANGED <<program, stream, old, pos, child, task, run, halts>>

Alive(i) == child[i].phase \notin {"unborn", "closed", "dead"}
\* ensure(): a child that is halted is closed as cancelled, without cleanup.
ChildHalted(i) ==
  /\ owner.at = "halting" /\ Alive(i)
  /\ stream' = Close(Res(i), "cancelled", TaskHalted(i, stream)) /\ task' = Halting(i)
  /\ child' = [child EXCEPT ![i] = Closed("cancelled")]
  /\ UNCHANGED <<program, old, pos, owner, run, halts>>
OwnerHalted ==
  /\ owner.at = "halting" /\ \A i \in Steps : ~ Alive(i)
  /\ owner' = [owner EXCEPT !.at = "closed"]
  /\ stream' = Close(Caller, "cancelled", stream)
  /\ UNCHANGED <<program, old, pos, child, task, run, halts>>

\* The process dies, or execute is called again on the journal; an owner that
\* was cancelled is not started again.
Execute ==
  /\ run < MaxRuns /\ run' = run + 1
  /\ Atomic => owner.at # "halting"
  /\ old' = Len(stream)
  /\ pos' = [id \in DOMAIN pos |-> 0]
  /\ child' = [i \in Steps |-> Unborn] /\ task' = [i \in Steps |-> "unborn"]
  /\ owner' = [pc |-> 1, outcome |-> "ok", resources |-> <<>>, broken |-> FALSE,
               at |-> IF Journaled(CloseEvent(Caller, "cancelled")) THEN "closed" ELSE "op"]
  /\ UNCHANGED <<program, stream, halts>>

Work ==
  \/ Perform \/ Acquire \/ Provided \/ Refused \/ Answer \/ Return
  \/ Signal \/ CleanedUp \/ CloseOwner \/ ScopeFails \/ OwnerHalted
  \/ \E i \in Steps : \/ InitEffect(i) \/ Provide(i) \/ InitFails(i) \/ InitDiverges(i)
                       \/ TaskEnds(i) \/ CleanupReturns(i) \/ CleanupEffect(i)
                       \/ CleanupEnds(i) \/ CleanupFails(i) \/ ChildHalted(i)
Next == Work \/ Halt \/ Execute

\* Effects are answered and coroutines go on; nobody has to crash or halt.
Spec == Init /\ [][Next]_vars /\ WF_vars(Work)

-----------------------------------------------------------------------------
(* Properties *)

Ids == {Caller} \union {Res(i) : i \in Steps}
Coroutines == Ids \union {Task(i) : i \in Steps}
Events == [type : {"yield"}, id : Ids, n : Nat \ {0}, result : {"ok", "error"}]
            \union [type : {"close"}, id : Coroutines, n : {0}, result : Closings]
Phases == {"unborn", "init", "providing", "failing", "fatal", "provided", "cleanup", "cleaned",
           "spoilt", "closed", "dead"}
TypeOK ==
  /\ program \in Programs
  /\ stream \in Seq(Events) /\ old \in 0 .. Len(stream)
  /\ pos \in [Ids -> Nat]
  /\ owner \in [pc : 1 .. Len(program.script) + 1, outcome : Results, broken : BOOLEAN,
                at : {"op", "acquiring", "answering", "teardown", "halting", "closed"},
                resources : Seq(Steps)]
  /\ owner.at \in {"acquiring", "answering"} => owner.pc \in Steps
  /\ child \in [Steps -> [phase : Phases, result : Closings \union {"none"}]]
  /\ task \in [Steps -> {"unborn", "running", "ended", "halted"}]

IsYield(n, id) == stream[n].type = "yield" /\ stream[n].id = id
IsClose(n, id) == stream[n].type = "close" /\ stream[n].id = id

\* The second effect of a resource is the one of its cleanup.
Cleans(i, n) == IsYield(n, Res(i)) /\ \E m \in 1 .. n - 1 : IsYield(m, Res(i))
ClosedBy(id, n) == \E m \in 1 .. n : IsClose(m, id)
Started(i) == \E n \in 1 .. Len(stream) : IsYield(n, Res(i))

\* Whatever crashes between, the journal shows the cleanup of a resource only
\* after every resource acquired later was closed (reverse creation order).
CleanupOrder ==
  \A n \in 1 .. Len(stream), i, j \in Steps :
    Cleans(i, n) /\ i < j /\ Started(j) => ClosedBy(Res(j), n)

\* An owner's effects all come before any cleanup of what it uses.
NoUseAfterCleanup ==
  \A m, n \in 1 .. Len(stream), i \in Steps :
    Cleans(i, m) /\ IsYield(n, Caller) => n < m

\* When the owner is closed, every resource it started, also through an inline
\* lane, is closed before, and nothing comes after.
OwnerClosesLast ==
  \A n \in 1 .. Len(stream) : IsClose(n, Caller) =>
    /\ n = Len(stream)
    /\ \A i \in Steps : Started(i) => ClosedBy(Res(i), n)

\* The tasks of an init phase are closed before the resource is used or
\* cleaned up (children before resource).
TasksEndWithInit ==
  /\ \A i \in Steps : child[i].phase \in {"provided", "cleanup", "cleaned"} => task[i] # "running"
  /\ \A n \in 1 .. Len(stream), i \in Steps :
       stream[n].id = Task(i) => ~ ClosedBy(Res(i), n)
\* No coroutine is closed twice, however often it is run.
OneClose ==
  \A m, n \in 1 .. Len(stream), id \in Coroutines : IsClose(m, id) /\ IsClose(n, id) => m = n

\* Every run ends, whatever init or cleanup fails.
EventuallyClosed == <>[](owner.at = "closed")

-----------------------------------------------------------------------------
(* The inductive invariant: what holds however a run is interrupted *)

Answered(id, n) == \E r \in Results : Journaled(YieldEvent(id, n, r))
IsClosed(id) == \E r \in Closings : Journaled(CloseEvent(id, r))

\* The Yields of a coroutine are numbered in the order of the journal, and what
\* this run has added it has also noted in memory.
NotedInv ==
  /\ \A m, n \in 1 .. Len(stream), id \in Ids :
       IsYield(m, id) /\ IsYield(n, id) /\ m < n => stream[m].n < stream[n].n
  /\ \A m \in 1 .. Len(stream), id \in Ids :
       IsYield(m, id) => \A n \in 1 .. stream[m].n : Answered(id, n)
  /\ \A id \in Ids : PreClose(id) = "none" => \A n \in 1 .. pos[id] : Answered(id, n)
  /\ \A m \in old + 1 .. Len(stream) :
       /\ \A id \in Ids : IsYield(m, id) => stream[m].n <= pos[id]
       /\ IsClose(m, Caller) => owner.at = "closed"
       /\ \A i \in Steps :
            /\ IsClose(m, Res(i)) => child[i].phase \in {"closed", "dead"}
            /\ IsClose(m, Task(i)) => task[i] \in {"ended", "halted"}

\* A task runs in the init phase only, and is closed before its resource.
InitPhases == {"init", "providing", "failing", "fatal"}
TaskInv ==
  \A i \in Steps :
    /\ task[i] = "running" => child[i].phase \in InitPhases /\ program.body[i].spawns
    /\ child[i].phase = "unborn" => task[i] = "unborn"
    /\ program.body[i].spawns /\ child[i].phase # "unborn" /\ task[i] # "running"
         => IsClosed(Task(i))
    /\ program.body[i].spawns /\ IsClosed(Res(i)) => IsClosed(Task(i))
    /\ IsClosed(Task(i)) => program.body[i].spawns

\* A resource comes to be when the owner comes to it.
BornInv ==
  \A i \in Steps :
    i > owner.pc \/ (i = owner.pc /\ owner.at = "op") => child[i].phase = "unborn"

LifecycleInv == TypeOK /\ TasksEndWithInit /\ OneClose /\ NotedInv /\ TaskInv /\ BornInv

-----------------------------------------------------------------------------
(* The inductive invariant: the journal determines the run *)

Performs(k) == program.script[k] # "acquire"
Acquires(k) == program.script[k] # "effect"
\* The owner's effects before an operation.
Before(k) == Cardinality({j \in 1 .. k - 1 : Performs(j)})
Done(k, result) == Journaled(YieldEvent(Caller, Before(k) + 1, result))

\* What the journal says of an acquisition.
InitOk(k) == Journaled(YieldEvent(Res(k), 1, "ok")) /\ program.body[k].init = "provide"
TaskFailed(k) == Journaled(CloseEvent(Task(k), "error"))
InitFailed(k) == TaskFailed(k) \/ (Answered(Res(k), 1) /\ ~ InitOk(k))
WasProvided(k) ==
  InitOk(k) /\ ~ TaskFailed(k) /\ (program.body[k].spawns => IsClosed(Task(k)))
WasRefused(k) == InitFailed(k) /\ Journaled(CloseEvent(Res(k), "error"))
Heard(k) == WasProvided(k) \/ WasRefused(k)
Acquired(k) == WasProvided(k) \/ (program.catches /\ WasRefused(k))

\* What it says of an operation of the owner: it went on, or left with it.
Passed(k) == (Acquires(k) => Acquired(k)) /\ (Performs(k) => Done(k, "ok"))
Left(k) ==
  \/ Acquires(k) /\ ~ Performs(k) /\ ~ program.catches /\ WasRefused(k)
  \/ Performs(k) /\ Done(k, "error")
Ended(e) == (\A k \in 1 .. e - 1 : Passed(k)) /\ (e \in Steps => Left(e))
\* The owner's way is in the journal to its end.
Decided == \E e \in 1 .. Len(program.script) + 1 : Ended(e)

\* All that was acquired after a resource is closed.
Later(i) == \A j \in Steps : i < j /\ Answered(Res(j), 1) => IsClosed(Res(j))
CleanedUpBy(i) ==
  \/ Answered(Res(i), 2) \/ Journaled(CloseEvent(Res(i), "ok"))
  \/ WasProvided(i) /\ Journaled(CloseEvent(Res(i), "error"))
PathInv ==
  /\ \A k \in Steps : Answered(Res(k), 1) => Acquires(k) /\ \A j \in 1 .. k - 1 : Passed(j)
  /\ \A k \in Steps : Performs(k) /\ Acquires(k) =>
       /\ Answered(Caller, Before(k) + 1) => Heard(k)
       /\ Done(k, "ok") => Acquired(k)
  /\ \A i \in Steps : CleanedUpBy(i) => WasProvided(i) /\ Later(i) /\ Decided
  /\ \A i \in Steps :
       /\ ~ Journaled(CloseEvent(Res(i), "diverged"))
       /\ Journaled(CloseEvent(Res(i), "ok")) \/ Journaled(CloseEvent(Res(i), "error")) =>
            InitFailed(i) \/ (WasProvided(i)
                               /\ (program.body[i].cleanup = "effect" => Answered(Res(i), 2)))
  /\ \A m \in 1 .. Len(stream) : IsClose(m, Caller) =>
       /\ m = Len(stream)
       /\ \A i \in Steps : Answered(Res(i), 1) => IsClosed(Res(i))
       /\ stream[m].result = "cancelled" \/ Decided

\* Where a run is, and what its children have come to.
Cancelled(id) == Journaled(CloseEvent(id, "cancelled"))
Over == Cancelled(Caller)
Working == {"cleanup", "cleaned", "spoilt"}
Settled == {"unborn", "provided", "closed"} \union Working
Held(i) == \E a \in 1 .. Len(owner.resources) : owner.resources[a] = i
OwnerInv ==
  /\ \A k \in 1 .. owner.pc - 1 : Passed(k)
  /\ owner.at \in {"op", "acquiring", "answering"} => pos[Caller] = Before(owner.pc)
  /\ owner.at \in {"acquiring", "answering"} => Acquires(owner.pc)
  /\ owner.at = "answering" => Performs(owner.pc) /\ Heard(owner.pc)
  /\ owner.at = "teardown" => Ended(owner.pc)
  /\ owner.broken => Ended(owner.pc) /\ owner.at \in {"teardown", "halting", "closed"}
  /\ owner.at = "halting" => \A i \in Steps : Answered(Res(i), 1) => child[i].phase # "unborn"
  /\ \A a, b \in 1 .. Len(owner.resources) : a < b => owner.resources[a] < owner.resources[b]
  /\ \A a \in 1 .. Len(owner.resources) :
       /\ owner.resources[a] <= owner.pc
       /\ owner.at \in {"op", "acquiring"} => owner.resources[a] < owner.pc
\* A child by its phase.
ChildInv(i) ==
  LET phase == child[i].phase
  IN /\ phase \notin {"fatal", "dead"}
     /\ phase # "unborn" => Acquires(i)
     /\ phase \in {"unborn", "init"} => pos[Res(i)] = 0
     /\ phase = "init" /\ task[i] # "running" => ~ TaskFailed(i)
     /\ phase = "providing" => InitOk(i) /\ ~ TaskFailed(i)
     /\ phase \in {"provided"} \union Working => WasProvided(i)
     /\ phase \in {"providing", "provided", "cleanup"} => pos[Res(i)] = 1
     /\ phase \in Working => Later(i) /\ Ended(owner.pc)
     /\ phase \in {"cleaned", "spoilt"} => Answered(Res(i), 2)
     /\ phase = "failing" => InitFailed(i)
     /\ phase = "closed" => IsClosed(Res(i))
\* A child by its place in the script.
PlaceInv(i) ==
  LET phase == child[i].phase
  IN /\ i < owner.pc /\ Acquires(i) => phase # "unborn"
     /\ i = owner.pc /\ Acquires(i) /\ owner.at \in {"acquiring", "answering", "teardown"} =>
          phase # "unborn"
     /\ phase \notin Settled => i = owner.pc /\ owner.at \in {"acquiring", "halting"}
     /\ phase = "closed" /\ i = owner.pc /\ owner.at \in {"acquiring", "answering"} =>
          WasRefused(i)
     /\ phase \in Working => owner.at \in {"teardown", "halting"}
     /\ phase = "provided" /\ owner.at \notin {"halting", "closed"} =>
          Held(i) \/ (i = owner.pc /\ owner.at = "acquiring")
     /\ phase \in Working /\ owner.at = "teardown" =>
          owner.resources # <<>> /\ i = Last(owner.resources)
\* A cancelled resource belongs to a run that is being halted, or was.
HaltInv ==
  /\ \A i \in Steps : Cancelled(Res(i)) =>
       Over \/ (owner.at = "halting" /\ ~ Stored(CloseEvent(Res(i), "cancelled")))
  /\ Over => owner.at = "closed"
  /\ owner.at = "closed" => \A i \in Steps : ~ Alive(i)
RunInv ==
  /\ HaltInv
  /\ ~ Over => OwnerInv /\ \A i \in Steps : ChildInv(i) /\ PlaceInv(i)

ResourceInv == LifecycleInv /\ (Atomic => PathInv /\ RunInv)
=============================================================================
