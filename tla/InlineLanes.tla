----------------------------- MODULE InlineLanes -----------------------------
(***************************************************************************)
(* The operations that middleware runs for a coroutine through             *)
(* invokeInline, nested invokeInline and invoke, and through resources:    *)
(* which ids they journal under, whose subscription counter and task table *)
(* they share, and what a replay makes of both.                            *)
(***************************************************************************)
EXTENDS Naturals, Sequences, FiniteSets, SequencesExt

CONSTANTS
  Programs,       \* sequences of operations
  FailingSources, \* whether a stream may refuse to be subscribed to
  MaxRuns

\* An operation is [where, do, ref]: subscribe to a source, take the next
\* item of the subscription made by operation ref, spawn a task, join the
\* task spawned by ref, or hand the handle of ref to an agent.
Places == {"caller", "lane", "nested", "invoke", "resource"}
Kinds == {"subscribe", "next", "spawn", "join", "send"}
Operations == [where : Places, do : Kinds, ref : Nat]
ASSUME LaneBounds ==
  /\ \A p \in Programs : p \in Seq(Operations)
  /\ FailingSources \in BOOLEAN /\ MaxRuns \in Nat \ {0}

VARIABLES
  program, stream, old,
  pc,       \* the next operation; past the end when the run is over
  count,    \* childSpawnCount of the caller
  used,     \* entries consumed or made, by coroutine
  counters, \* subscriptionCounters, by owner
  subs,     \* token -> the source it stands for
  got,      \* operation -> what the program got from it in this run
  joined,   \* joinedTasks of the caller
  run

vars == <<program, stream, old, pc, count, used, counters, subs, got, joined, run>>

-----------------------------------------------------------------------------
(* Identities *)

\* A child id is its parent's id and the parent's counter.
Child(id, n) == Append(id, n)
Caller == <<>>

\* Mutant: a nested lane is numbered by the caller.
JournalIdFlat(where, n) == IF where = "caller" THEN Caller ELSE Child(Caller, 0)
\* The coroutine that an operation is journaled under, n being the caller's
\* counter: a lane and a child take its number, a nested lane the first of a lane.
JournalId(where, n) ==
  CASE where = "caller" -> Caller
    [] where = "nested" -> Child(Child(Caller, n), 0)
    [] OTHER -> Child(Caller, n)

\* Lanes hand down the owner they have; children of their own are owners.
OwnerOf(where, n) == IF where \in {"invoke", "resource"} THEN JournalId(where, n) ELSE Caller

\* allocateChildId: one number for every lane and every child.
CountAfter(where) == IF where = "caller" THEN count ELSE count + 1

\* The task spawned by an operation is a child of its lane.
TaskOf(where, n) == IF where = "caller" THEN Child(Caller, n) ELSE Child(JournalId(where, n), 0)
CountAfterSpawn(where) == count + 1

-----------------------------------------------------------------------------
(* The journal *)

At(f, id) == IF id \in DOMAIN f THEN f[id] ELSE 0
Set(f, id, v) == [i \in DOMAIN f \union {id} |-> IF i = id THEN v ELSE f[i]]
\* The Yields of a coroutine are a list, and an entry carries its place in it.
Place(id) == At(used, id) + 1
\* The ReplayIndex holds what was journaled before this run; peekYield.
StoredOf(id) == {m \in 1 .. old : stream[m].id = id /\ stream[m].n = Place(id)}
Replays(id) == StoredOf(id) # {}
StoredEntry(id) == stream[CHOOSE m \in StoredOf(id) : TRUE]

Op == program[pc]
Nothing == [type |-> "nothing"]
Refused == [type |-> "refused"]
Failed == [type |-> "error"]
Handle(token) == [type |-> "handle", token |-> token]
Item(source) == [type |-> "item", source |-> source]
TaskHandle(id) == [type |-> "task", id |-> id]

Sent(value) == [type |-> "sent", what |-> value.type]

\* A standard effect has its result, from the journal or now.
Result(id, value) == IF Replays(id) THEN StoredEntry(id).result ELSE value
Results(id, value) ==
  /\ got' = [got EXCEPT ![pc] = Result(id, value)]
  /\ used' = Set(used, id, Place(id))
  /\ stream' = IF Replays(id) THEN stream
               ELSE Append(stream, [id |-> id, n |-> Place(id), op |-> pc, result |-> value])

\* A handle is no value that a coroutine may be closed with (RV3); a resource
\* provides it.
Kept(where, value) ==
  IF where = "invoke" /\ value.type = "handle" THEN Failed ELSE value

-----------------------------------------------------------------------------
(* Operations *)

Tokens(owner) == <<owner, At(counters, owner)>>
\* Mutant: a replayed subscription takes no token.
ReplayLeavesCounter(id, owner, value) == UNCHANGED counters
\* A replayed subscription advances the counter, if it had been made.
ReplayAdvances(id, owner, value) ==
  counters' = IF value.type = "handle" THEN Set(counters, owner, At(counters, owner) + 1) ELSE counters

\* stream.subscribe: the token is taken before the source is asked.
Subscribe ==
  /\ pc \in DOMAIN program /\ Op.do = "subscribe"
  /\ LET id == JournalId(Op.where, count) owner == OwnerOf(Op.where, count)
     IN IF Replays(id)
          THEN LET value == StoredEntry(id).result
               IN /\ subs' = IF value.type = "handle" THEN Set(subs, value.token, pc) ELSE subs
                  /\ ReplayAdvances(id, owner, value)
                  /\ Results(id, value)
          ELSE /\ counters' = Set(counters, owner, At(counters, owner) + 1)
               /\ \/ /\ subs' = Set(subs, Tokens(owner), pc)
                     /\ Results(id, Handle(Tokens(owner)))
                  \/ FailingSources /\ UNCHANGED subs /\ Results(id, Failed)
  /\ pc' = pc + 1 /\ count' = CountAfter(Op.where)
  /\ UNCHANGED <<program, old, joined, run>>

\* What an operation gets of the one it refers to.
Held(k) ==
  LET ref == program[k].ref
  IN IF ref \in 1 .. k - 1 THEN Kept(program[ref].where, got[ref]) ELSE Nothing

\* Mutant: any handle will do.
AnyoneReads(owner, token) == TRUE
\* A handle may be used by its owner and the descendants of its owner.
MayRead(owner, token) == IsPrefix(token[1], owner)

\* stream.next; an argument that is no handle, the handle of somebody else,
\* and a token without a subscription are errors of the effect.
TakeNext ==
  /\ pc \in DOMAIN program /\ Op.do = "next"
  /\ LET held == Held(pc)
     IN Results(JournalId(Op.where, count),
          IF held.type = "handle" /\ MayRead(OwnerOf(Op.where, count), held.token)
             /\ held.token \in DOMAIN subs
          THEN Item(subs[held.token]) ELSE Failed)
  /\ pc' = pc + 1 /\ count' = CountAfter(Op.where)
  /\ UNCHANGED <<program, old, counters, subs, joined, run>>

\* spawn: the task is entered in the caller's table.
Spawn ==
  /\ pc \in DOMAIN program /\ Op.do = "spawn"
  /\ got' = [got EXCEPT ![pc] = TaskHandle(TaskOf(Op.where, count))]
  /\ pc' = pc + 1 /\ count' = CountAfterSpawn(Op.where)
  /\ UNCHANGED <<program, stream, old, used, counters, subs, joined, run>>

\* Mutant: every lane has its own joinedTasks.
JoinedHere(where, id) == where = "caller" /\ id \in joined
\* joinedTasks is shared by the caller and its lanes.
AlreadyJoined(where, id) == id \in joined

\* join: a second one, and one without a task, end the run with an error.  A
\* child that was invoked, or a resource, has a table of its own.
Join ==
  /\ pc \in DOMAIN program /\ Op.do = "join"
  /\ LET held == Held(pc)
     IN IF /\ held.type = "task" /\ Op.where \notin {"invoke", "resource"}
           /\ program[Op.ref].where \notin {"invoke", "resource"}
           /\ ~ AlreadyJoined(Op.where, held.id)
          THEN /\ got' = [got EXCEPT ![pc] = held] /\ joined' = joined \union {held.id}
               /\ pc' = pc + 1
          ELSE /\ got' = [got EXCEPT ![pc] = Refused] /\ UNCHANGED joined
               /\ pc' = Len(program) + 1
  /\ count' = CountAfter(Op.where)
  /\ UNCHANGED <<program, stream, old, used, counters, subs, run>>

\* An agent effect whose data contains a handle throws, and stores nothing.
ContainsSubscriptionHandle(value) == value.type = "handle"
Send ==
  /\ pc \in DOMAIN program /\ Op.do = "send"
  /\ LET id == JournalId(Op.where, count) held == Held(pc)
     IN IF ContainsSubscriptionHandle(held) /\ ~ Replays(id)
          THEN /\ got' = [got EXCEPT ![pc] = Refused] /\ pc' = Len(program) + 1
               /\ UNCHANGED <<stream, used>>
          ELSE /\ Results(id, Sent(held)) /\ pc' = pc + 1
  /\ count' = CountAfter(Op.where)
  /\ UNCHANGED <<program, old, counters, subs, joined, run>>

-----------------------------------------------------------------------------
Fresh(p) ==
  /\ pc = 1 /\ count = 0 /\ used = << >> /\ counters = << >> /\ subs = << >>
  /\ got = [i \in DOMAIN p |-> Nothing] /\ joined = {}

Init == program \in Programs /\ stream = <<>> /\ old = 0 /\ Fresh(program) /\ run = 1

\* The process dies, or execute is called again, with nothing but the journal.
Execute ==
  /\ run < MaxRuns /\ run' = run + 1 /\ old' = Len(stream)
  /\ pc' = 1 /\ count' = 0 /\ used' = << >> /\ counters' = << >> /\ subs' = << >>
  /\ got' = [i \in DOMAIN program |-> Nothing] /\ joined' = {}
  /\ UNCHANGED <<program, stream>>

Next == Subscribe \/ TakeNext \/ Spawn \/ Join \/ Send \/ Execute
Spec == Init /\ [][Next]_vars /\ WF_vars(Subscribe \/ TakeNext \/ Spawn \/ Join \/ Send)

-----------------------------------------------------------------------------
(* Properties *)

Owned == {"invoke", "resource"}
Handles == {i \in DOMAIN got : got[i].type = "handle"}

\* No two subscriptions of a run have the same token, also those that a replay
\* restored and those made after it.
TokensUnique == \A i, j \in Handles : got[i] = got[j] => i = j

\* An item comes from the stream that its handle was made for, whoever takes
\* it and whether or not the process has died in between.
ReadsOwnSource ==
  \A i \in DOMAIN got : got[i].type = "item" => got[i].source = program[i].ref

\* A handle is not used outside of the coroutine that owns it.
HandlesConfined ==
  \A i \in DOMAIN got : got[i].type = "item" => program[program[i].ref].where \notin Owned

\* A subscription made by the caller or in a lane of it.
SharedSource(i) ==
  LET ref == program[i].ref
  IN ref \in 1 .. i - 1 /\ program[ref].do = "subscribe" /\ program[ref].where \notin Owned
\* A handle is good in every lane of the coroutine it was made for, and in the
\* children it is handed down to, also after a replay.
LanesShareHandles ==
  \A i \in DOMAIN got :
    program[i].do = "next" /\ SharedSource(i) /\ got[i] # Nothing => got[i].type = "item"

\* No handle reaches an agent; and what the journal says was sent is of the
\* kind that the program, run again, holds.
HandlesStayHere ==
  \A i \in DOMAIN got :
    got[i].type = "sent" => got[i].what # "handle" /\ got[i].what = Held(i).type

\* What may be done with a handle is decided by who owns it, not by who has it.
HandlesScoped == HandlesConfined /\ LanesShareHandles /\ HandlesStayHere

\* A task is joined once by the caller and all lanes together.
JoinedOnce ==
  \A i, j \in DOMAIN got :
    program[i].do = "join" /\ program[j].do = "join" /\ got[i].type = "task" /\ got[i] = got[j]
      => i = j

\* A lane, a child and a task never share an id, in one run or over several:
\* what is stored under an id other than the caller's is of one operation.
IdsUnique ==
  /\ \A e, f \in 1 .. Len(stream) :
       stream[e].id = stream[f].id /\ stream[e].id # Caller => stream[e].op = stream[f].op
  /\ \A i, j \in DOMAIN got : got[i].type = "task" /\ program[i].do = "spawn" /\ i # j =>
       /\ got[i] # got[j] \/ program[j].do = "join"
       /\ \A e \in 1 .. Len(stream) : stream[e].id # got[i].id

-----------------------------------------------------------------------------
(* The inductive invariant: an operation's id, place and token are a       *)
(* function of the program                                                 *)

CallerIds == Seq(Nat)
Values ==
  [type : {"nothing", "refused", "error"}] \union [type : {"handle"}, token : CallerIds \X Nat]
    \union [type : {"item"}, source : Nat] \union [type : {"task"}, id : CallerIds]
    \union [type : {"sent"}, what : {"nothing", "refused", "error", "handle", "item", "task", "sent"}]
Entries == [id : CallerIds, n : Nat \ {0}, op : Nat, result : Values]
TypeOK ==
  /\ program \in Seq(Operations) /\ stream \in Seq(Entries) /\ old \in 0 .. Len(stream)
  /\ pc \in 1 .. Len(program) + 1 /\ count \in Nat /\ run \in Nat
  /\ \A id \in DOMAIN used : id \in CallerIds /\ used[id] \in Nat
  /\ \A o \in DOMAIN counters : counters[o] \in Nat
  /\ \A t \in DOMAIN subs : subs[t] \in DOMAIN program
  /\ got \in [DOMAIN program -> Values]
  /\ joined \subseteq CallerIds

\* How many of some operations come before one.
Before(S, k) == Cardinality(S \cap (1 .. k - 1))
Journals(k) == program[k].do \in {"subscribe", "next", "send"}
Allocating == {k \in DOMAIN program : program[k].where # "caller" \/ program[k].do = "spawn"}
OfCaller == {k \in DOMAIN program : program[k].where = "caller" /\ Journals(k)}
Number(k) == Before(Allocating, k)
IdAt(k) == JournalId(program[k].where, Number(k))
OwnerAt(k) == OwnerOf(program[k].where, Number(k))
TaskAt(k) == TaskOf(program[k].where, Number(k))
PlaceAt(k) == IF program[k].where = "caller" THEN Before(OfCaller, k) + 1 ELSE 1

\* The run has allocated and consumed what the operations before need.
WayInv ==
  /\ pc \in DOMAIN program => count = Number(pc) /\ At(used, Caller) = Before(OfCaller, pc)
  /\ \A id \in DOMAIN used \ {Caller} :
       \E k \in DOMAIN program : k < pc /\ k \in Allocating /\ id = IdAt(k)
  /\ \A id \in DOMAIN used : \A n \in 1 .. used[id] :
       \E m \in 1 .. Len(stream) : stream[m].id = id /\ stream[m].n = n

\* The journal holds the operations in their order, each once and under its id,
\* and all up to the last.
JournalInv ==
  /\ \A m \in 1 .. Len(stream) :
       LET k == stream[m].op
       IN /\ k \in DOMAIN program /\ Journals(k)
          /\ stream[m].id = IdAt(k) /\ stream[m].n = PlaceAt(k)
          /\ \A j \in DOMAIN program : j < k /\ Journals(j) => \E l \in 1 .. m - 1 : stream[l].op = j
          /\ \A l \in 1 .. m - 1 : stream[l].op < k
          /\ \A n \in 1 .. stream[m].n - 1 :
               \E l \in 1 .. m - 1 : stream[l].id = stream[m].id /\ stream[l].n = n
  /\ \A m \in old + 1 .. Len(stream) : stream[m].op < pc

\* What an operation may have come to, by its kind.
ResultOk(k, result) ==
  /\ program[k].do = "subscribe" =>
       result = Failed \/ (result.type = "handle" /\ result.token[1] = OwnerAt(k))
  /\ program[k].do = "next" =>
       \/ result = Failed
       \/ /\ result.type = "item" /\ program[k].ref \in 1 .. k - 1
          /\ program[program[k].ref].where \notin Owned
  /\ program[k].do = "send" => result.type = "sent" /\ result.what # "handle"
ResultInv == \A m \in 1 .. Len(stream) : ResultOk(stream[m].op, stream[m].result)

\* What was sent is what the journal has of the operation referred to.
SentInv ==
  \A m \in 1 .. Len(stream) :
    LET k == stream[m].op
        ref == program[k].ref
        what == stream[m].result.what
    IN program[k].do = "send" =>
         /\ ref \notin 1 .. k - 1 => what = "nothing"
         /\ ref \in 1 .. k - 1 /\ ~ Journals(ref) => what = "task"
         /\ ref \in 1 .. k - 1 =>
              \A l \in 1 .. Len(stream) :
                stream[l].op = ref => what = Kept(program[ref].where, stream[l].result).type

\* What this run holds is in the journal, or follows from the program.
Performed(k) == got[k] \notin {Nothing, Refused}
MemoryInv ==
  /\ \A k \in DOMAIN program :
       /\ k >= pc => got[k] = Nothing
       /\ k < pc /\ pc \in DOMAIN program => Performed(k)
       /\ got[k] = Refused => program[k].do \in {"join", "send"}
       /\ Performed(k) /\ Journals(k) =>
            \E m \in 1 .. Len(stream) : stream[m].op = k /\ stream[m].result = got[k]
       /\ Performed(k) /\ program[k].do = "spawn" => got[k] = TaskHandle(TaskAt(k))
       /\ Performed(k) /\ program[k].do = "join" => got[k].type = "task" /\ got[k].id \in joined
  /\ JoinedOnce /\ HandlesStayHere

\* The lanes of a caller share its ids, its places and its tasks,
SharedInv == TypeOK /\ WayInv /\ JournalInv /\ ResultInv /\ SentInv /\ MemoryInv

\* and, without sources that fail, its tokens.
SubscribedBy(o) == {k \in DOMAIN program : program[k].do = "subscribe" /\ OwnerAt(k) = o}
TokenAt(k) == <<OwnerAt(k), Before(SubscribedBy(OwnerAt(k)), k)>>
TokenOk(k, result) ==
  /\ program[k].do = "subscribe" => result = Handle(TokenAt(k))
  /\ program[k].do = "next" /\ result.type = "item" => result.source = program[k].ref
  /\ program[k].do = "next" /\ SharedSource(k) => result.type = "item"
TokenInv ==
  /\ pc \in DOMAIN program =>
       \A k \in DOMAIN program : At(counters, OwnerAt(k)) = Before(SubscribedBy(OwnerAt(k)), pc)
  /\ \A m \in 1 .. Len(stream) : TokenOk(stream[m].op, stream[m].result)
  /\ \A k \in DOMAIN program : program[k].do = "subscribe" /\ Performed(k) =>
       TokenAt(k) \in DOMAIN subs /\ subs[TokenAt(k)] = k

LanesInv == SharedInv /\ (~ FailingSources => TokenInv)
=============================================================================
