---------------------- MODULE CompoundConcurrencyProofs ----------------------
(***************************************************************************)
(* Proofs about CompoundConcurrency: a coroutine closes once, after the    *)
(* children of its compound effects, which decide them, and is silent      *)
(* after it, for every workflow, every number of runs, and crashes and     *)
(* halts at any point.                                                     *)
(***************************************************************************)
EXTENDS CompoundConcurrency, SequenceTheorems, FiniteSetTheorems, TLAPS

-----------------------------------------------------------------------------
(* Ids and the stream *)

\* A child's id determines its parent and its number.
LEMMA ChildFacts ==
  ASSUME NEW t \in Tasks, NEW k \in Nat
  PROVE  /\ Child(t, k) # Root /\ Child(t, k) # t
         /\ Parent(Child(t, k)) = t
         /\ Child(t, k)[Len(Child(t, k))] = k
<1> DEFINE c == Append(t, k)
<1>1. t \in Seq(Nat)
  BY TasksAssumption
<1>2. /\ c \in Seq(Nat) /\ c # <<>> /\ Len(c) = Len(t) + 1
      /\ \A i \in 1 .. Len(t) : c[i] = t[i]
      /\ c[Len(t) + 1] = k
  BY <1>1, AppendProperties
<1>3. Len(t) \in Nat /\ c # t
  BY <1>1, <1>2, LenProperties
<1> DEFINE p == SubSeq(c, 1, Len(t))
<1>4. \A i \in 1 .. Len(t) : c[i] \in Nat
  BY <1>1, <1>2, ElementOfSeq
<1>5. /\ p \in Seq(Nat) /\ Len(p) = Len(t)
      /\ \A i \in 1 .. Len(t) : p[i] = c[i]
  <2> HIDE DEF c
  <2>1. /\ p \in Seq(Nat)
        /\ Len(p) = IF 1 <= Len(t) THEN Len(t) - 1 + 1 ELSE 0
        /\ \A i \in 1 .. Len(t) - 1 + 1 : p[i] = c[1 + i - 1]
    BY <1>3, <1>4, SubSeqProperties
  <2> QED
    BY <2>1, <1>3
<1>6. p = t
  <2> HIDE DEF p, c
  <2> QED BY <1>1, <1>2, <1>5, SeqEqual
<1>7. Len(c) - 1 = Len(t)
  BY <1>2, <1>3
<1>8. Parent(c) = t
  BY <1>6, <1>7 DEF Parent
<1>9. c[Len(c)] = k
  BY <1>2
<1> QED
  BY <1>2, <1>3, <1>8, <1>9 DEF Child, Root

\* Every coroutine but the root is a child of another one.
LEMMA ParentFacts ==
  ASSUME NEW c \in Tasks, c # Root
  PROVE  /\ Parent(c) \in Tasks /\ Parent(c) # c
         /\ c[Len(c)] \in Nat
         /\ c = Child(Parent(c), c[Len(c)])
<1>1. c \in Seq(Nat) /\ Parent(c) \in Tasks
  BY TasksAssumption DEF Parent
<1>2. PICK s \in Seq(Nat), k \in Nat : c = Append(s, k)
  BY <1>1, SequenceEmptyOrAppend DEF Root
<1>3. /\ Len(c) = Len(s) + 1 /\ Len(s) \in Nat
      /\ \A i \in 1 .. Len(s) : c[i] = s[i]
      /\ c[Len(s) + 1] = k
  BY <1>2, AppendProperties, LenProperties
<1>4. Parent(c) = s
  <2>1. \A i \in 1 .. Len(s) : c[i] \in Nat
    BY <1>2, <1>3, ElementOfSeq
  <2>2. /\ SubSeq(c, 1, Len(s)) \in Seq(Nat)
        /\ Len(SubSeq(c, 1, Len(s))) = IF 1 <= Len(s) THEN Len(s) - 1 + 1 ELSE 0
        /\ \A i \in 1 .. Len(s) - 1 + 1 : SubSeq(c, 1, Len(s))[i] = c[1 + i - 1]
    BY <1>3, <2>1, SubSeqProperties
  <2>3. /\ Len(SubSeq(c, 1, Len(s))) = Len(s)
        /\ \A i \in 1 .. Len(s) : SubSeq(c, 1, Len(s))[i] = s[i]
    BY <1>3, <2>2
  <2>4. SubSeq(c, 1, Len(s)) = s
    BY <2>2, <2>3, SeqEqual
  <2> QED
    BY <1>3, <2>4 DEF Parent
<1> QED
  BY <1>1, <1>2, <1>3, <1>4, LenProperties DEF Child

\* Appending keeps the stream a sequence and adds one event at its end.
LEMMA AppendFacts ==
  ASSUME stream \in Seq({stream[i] : i \in 1 .. Len(stream)}),
         NEW e, stream' = Append(stream, e)
  PROVE  /\ Len(stream) \in Nat
         /\ stream' \in Seq({stream[i] : i \in 1 .. Len(stream)})'
         /\ Len(stream') = Len(stream) + 1
         /\ stream'[Len(stream) + 1] = e
         /\ \A i \in 1 .. Len(stream) : stream'[i] = stream[i]
<1> DEFINE S == {stream[i] : i \in 1 .. Len(stream)} \union {e}
           T == {stream'[i] : i \in 1 .. Len(stream')}
<1>1. stream \in Seq(S) /\ e \in S
  <2>1. {stream[i] : i \in 1 .. Len(stream)} \subseteq S
    OBVIOUS
  <2> QED
    BY <2>1, SeqMonotonic
<1>2. /\ stream' \in Seq(S) /\ Len(stream') = Len(stream) + 1
      /\ stream'[Len(stream) + 1] = e
      /\ \A i \in 1 .. Len(stream) : stream'[i] = stream[i]
      /\ Len(stream) \in Nat
  <2> HIDE DEF S
  <2> QED
    BY <1>1, AppendProperties, LenProperties
<1>3. stream' \in Seq(T)
  <2>1. S \subseteq T
    <3>1. \A i \in 1 .. Len(stream) : i \in 1 .. Len(stream') /\ stream[i] = stream'[i]
      BY <1>2
    <3>2. Len(stream) + 1 \in 1 .. Len(stream')
      BY <1>2
    <3> QED
      BY <1>2, <3>1, <3>2
  <2> QED
    <3> HIDE DEF S, T
    <3> QED BY <1>2, <2>1, SeqMonotonic
<1> QED
  BY <1>2, <1>3

\* An appended event is a Close of nobody but its own coroutine.
LEMMA ClosesOfAppend ==
  ASSUME ShapeInv, NEW e, stream' = Append(stream, e), NEW u
  PROVE  Closes(u)' = IF e.co = u /\ e.type = "close"
                      THEN Closes(u) \union {Len(stream) + 1} ELSE Closes(u)
<1>1. /\ Len(stream) \in Nat /\ Len(stream') = Len(stream) + 1
      /\ stream'[Len(stream) + 1] = e
      /\ \A i \in 1 .. Len(stream) : stream'[i] = stream[i]
  BY AppendFacts DEF ShapeInv
<1>2. 1 .. Len(stream') = (1 .. Len(stream)) \union {Len(stream) + 1}
  BY <1>1
<1> QED
  BY <1>1, <1>2 DEF Closes

-----------------------------------------------------------------------------
(* What a step does to the stream *)

\* The first Close of a coroutine, which is closed or ended by the same step.
FirstClose(u) ==
  /\ Closes(u) = {}
  /\ \E i \in Nat : i > mark /\ Closes(u)' = {i}
  /\ task'[u].closed \/ task'[u].pc = "ended"
\* A step records at most first Closes, and leaves the index alone.
LogStep ==
  /\ stream' \in Seq({stream[i] : i \in 1 .. Len(stream)})'
  /\ mark' = mark /\ mark' \in 0 .. Len(stream')
  /\ \A u \in Tasks : Closes(u)' = Closes(u) \/ FirstClose(u)

\* A step that leaves the stream alone.
LEMMA LogOfNone ==
  ASSUME ShapeInv, UNCHANGED <<stream, mark>>
  PROVE  LogStep
BY DEF ShapeInv, LogStep, Closes

\* A step that appends a Yield.
LEMMA LogOfYield ==
  ASSUME ShapeInv, NEW t, NEW e, NEW r, NEW h,
         stream' = Append(stream, YieldEvent(t, e, r, h)), UNCHANGED mark
  PROVE  LogStep
<1>1. YieldEvent(t, e, r, h).type # "close"
  BY DEF YieldEvent
<1>2. \A u \in Tasks : Closes(u)' = Closes(u)
  BY <1>1, ClosesOfAppend
<1>3. /\ Len(stream) \in Nat /\ Len(stream') = Len(stream) + 1
      /\ stream' \in Seq({stream[i] : i \in 1 .. Len(stream)})'
  BY AppendFacts DEF ShapeInv
<1>4. mark' = mark /\ mark' \in 0 .. Len(stream')
  BY <1>3 DEF ShapeInv
<1> QED
  BY <1>2, <1>3, <1>4 DEF LogStep

\* A step by which a coroutine that has not closed yet records its Close
\* unless the index has one (maybeAppendCloseToStream).
LEMMA LogOfClose ==
  ASSUME ShapeInv, CloseInv, NEW t \in Tasks, NEW r, NEW h,
         ~ task[t].closed, task[t].pc # "ended",
         task'[t].closed \/ task'[t].pc = "ended",
         stream' = IF HasClose(t) THEN stream ELSE Append(stream, CloseEvent(t, r, h)),
         UNCHANGED mark
  PROVE  LogStep /\ Closes(t)' # {}
<1>1. CASE HasClose(t)
  <2>1. stream' = stream /\ Closes(t) # {} /\ Closes(t)' = Closes(t)
    BY <1>1 DEF HasClose, Closes
  <2> QED
    BY <2>1, LogOfNone
<1>2. CASE ~ HasClose(t)
  <2>1. stream' = Append(stream, CloseEvent(t, r, h))
    BY <1>2
  <2>2. Closes(t) = {}
    BY <1>2 DEF CloseInv, HasClose, ShapeInv, Closes
  <2>3. CloseEvent(t, r, h).co = t /\ CloseEvent(t, r, h).type = "close"
    BY DEF CloseEvent
  <2>4. /\ Closes(t)' = {Len(stream) + 1}
        /\ \A u \in Tasks : u # t => Closes(u)' = Closes(u)
    BY <2>1, <2>2, <2>3, ClosesOfAppend
  <2>5. /\ Len(stream) \in Nat /\ Len(stream') = Len(stream) + 1
        /\ stream' \in Seq({stream[i] : i \in 1 .. Len(stream)})'
    BY <2>1, AppendFacts DEF ShapeInv
  <2>6. mark \in Nat /\ mark <= Len(stream)
    BY <2>5 DEF ShapeInv
  <2>7. FirstClose(t)
    BY <2>2, <2>4, <2>5, <2>6 DEF FirstClose
  <2> QED
    BY <2>4, <2>5, <2>6, <2>7 DEF LogStep
<1> QED
  BY <1>1, <1>2

-----------------------------------------------------------------------------
(* What a step does to a coroutine *)

AtWork == {"step", "dispatched", "joining"}
\* A coroutine that is not created by the step and creates no child in it.
Move(u) ==
  /\ DOMAIN task'[u] = DOMAIN Unborn
  /\ task'[u].role = task[u].role
  /\ task'[u].count = task[u].count /\ task'[u].base = task[u].base
  /\ \/ task'[u].pc = task[u].pc /\ task'[u].closed = task[u].closed
     \/ /\ task[u].pc \notin {"unborn", "ended"} /\ task'[u].pc = "halting"
        /\ task'[u].closed = task[u].closed
     \/ /\ task[u].pc \in AtWork /\ task'[u].pc \in AtWork
        /\ task'[u].closed = task[u].closed
     \/ /\ task[u].pc \in {"compound", "leaving"} /\ task'[u].pc = "leaving"
        /\ task'[u].closed = task[u].closed
     \/ /\ task[u].pc = "leaving" /\ \A c \in Branches(u) : task[c].pc = "ended"
        /\ task'[u].pc = "step" /\ task'[u].closed = task[u].closed
     \/ /\ task[u].pc \in AtWork \union {"leaving"}
        /\ task'[u].pc = "closing" /\ task'[u].closed /\ Closes(u)' # {}
     \/ /\ task[u].pc \in {"closing", "halting"} /\ task'[u].pc = "ended"
        /\ task'[u].closed = task[u].closed /\ Closes(u)' # {}

\* The invariant survives every step made of such moves.
LEMMA MovesKeepInv ==
  ASSUME TreeInv, LogStep, DOMAIN task' = Tasks, \A u \in Tasks : Move(u)
  PROVE  TreeInv'
<1> USE DEF TreeInv
<1>1. ShapeInv'
  BY DEF ShapeInv, LogStep, Move
<1>2. CloseInv'
  <2> SUFFICES ASSUME NEW u \in Tasks
               PROVE  /\ task'[u].pc = "closing" => task'[u].closed
                      /\ task'[u].closed => task'[u].pc \in {"closing", "halting", "ended"}
                      /\ task'[u].closed \/ task'[u].pc = "ended" => Closes(u)' # {}
                      /\ \A i \in Closes(u)' : i > mark' => task'[u].closed \/ task'[u].pc = "ended"
                      /\ \A i, j \in Closes(u)' : i = j
    BY DEF CloseInv
  <2>1. Move(u) /\ mark' = mark /\ (Closes(u)' = Closes(u) \/ FirstClose(u))
    BY DEF LogStep
  <2>2. task'[u].pc = "closing" => task'[u].closed
    BY <2>1 DEF Move, CloseInv, AtWork
  <2>3. task'[u].closed => task'[u].pc \in {"closing", "halting", "ended"}
    BY <2>1 DEF Move, CloseInv, AtWork
  <2>4. task'[u].closed \/ task'[u].pc = "ended" => Closes(u)' # {}
    BY <2>1 DEF Move, CloseInv, AtWork, FirstClose
  <2>5. \A i \in Closes(u)' : i > mark' => task'[u].closed \/ task'[u].pc = "ended"
    BY <2>1 DEF Move, CloseInv, AtWork, FirstClose
  <2>6. \A i, j \in Closes(u)' : i = j
    BY <2>1 DEF CloseInv, FirstClose
  <2> QED
    BY <2>2, <2>3, <2>4, <2>5, <2>6
<1>3. BirthInv'
  <2>1. \A u \in Tasks : /\ task'[u].pc = "unborn" <=> task[u].pc = "unborn"
                        /\ task'[u].count = task[u].count
    BY DEF Move, AtWork
  <2> QED
    BY <2>1, ParentFacts, TasksAssumption DEF BirthInv
<1>4. ScopeInv'
  <2> SUFFICES ASSUME NEW t \in Tasks, NEW c \in Children(t)'
               PROVE  /\ c \in Tasks
                      /\ task'[c].role # "spawned" =>
                           /\ task'[t].pc \in AtWork => task'[c].pc = "ended"
                           /\ task'[t].pc \in {"compound", "leaving"} =>
                                c \in Branches(t)' \/ task'[c].pc = "ended"
    BY DEF ScopeInv, AtWork
  <2>1. Children(t)' = Children(t) /\ Branches(t)' = Branches(t) /\ Move(t)
    BY DEF Children, Branches, Move
  <2>2. c \in Tasks /\ c \in Children(t) /\ Move(c)
    BY <2>1 DEF ScopeInv
  <2>3. task[c].pc = "ended" => task'[c].pc = "ended"
    BY <2>2 DEF Move, AtWork
  <2>4. ASSUME task'[c].role # "spawned", task'[t].pc \in AtWork
        PROVE  task'[c].pc = "ended"
    <3>1. task[c].role # "spawned"
      BY <2>2, <2>4 DEF Move
    <3>2. \/ task[t].pc \in AtWork
          \/ task[t].pc = "leaving" /\ \A b \in Branches(t) : task[b].pc = "ended"
      BY <2>1, <2>4 DEF Move, AtWork
    <3> QED
      BY <2>2, <2>3, <3>1, <3>2 DEF ScopeInv, AtWork
  <2>5. ASSUME task'[c].role # "spawned", task'[t].pc \in {"compound", "leaving"}
        PROVE  c \in Branches(t)' \/ task'[c].pc = "ended"
    <3>1. task[c].role # "spawned" /\ task[t].pc \in {"compound", "leaving"}
      BY <2>1, <2>2, <2>5 DEF Move, AtWork
    <3> QED
      BY <2>1, <2>2, <2>3, <3>1 DEF ScopeInv
  <2> QED
    BY <2>2, <2>4, <2>5
<1> QED
  BY <1>1, <1>2, <1>3, <1>4

-----------------------------------------------------------------------------
(* Who records *)

\* A coroutine whose structured children have ended, all or but the branches
\* the present operation has not made yet.
MayRecord(t) ==
  \/ task[t].pc \in AtWork \union {"unborn"}
  \/ task[t].pc = "leaving" /\ \A c \in Branches(t) : task[c].pc = "ended"
  \/ \A c \in Children(t) : task[c].pc = "ended"
RecordStep == \A t \in Tasks : Recorded(t) => MayRecord(t)

\* The event a step appends is recorded by its own coroutine.
LEMMA RecordOfAppend ==
  ASSUME ShapeInv, NEW e, stream' = Append(stream, e), NEW u, Recorded(u)
  PROVE  u = e.co
BY AppendFacts DEF ShapeInv, Recorded

\* What driveKernel's close does, wherever it is reached.
LEMMA ConcludeKeepsInv ==
  ASSUME TreeInv, NEW t \in Tasks, NEW r, Conclude(t, r), UNCHANGED mark,
         \/ task[t].pc \in AtWork
         \/ task[t].pc = "leaving" /\ \A c \in Branches(t) : task[c].pc = "ended"
  PROVE  TreeInv' /\ RecordStep
<1> USE DEF TreeInv
<1>1. /\ DOMAIN task' = Tasks
      /\ \A u \in Tasks \ {t} : task'[u] = task[u]
      /\ DOMAIN task'[t] = DOMAIN Unborn
      /\ task'[t].pc = "closing" /\ task'[t].closed = TRUE
      /\ task'[t].role = task[t].role /\ task'[t].count = task[t].count
      /\ task'[t].base = task[t].base
  BY DEF Conclude, ShapeInv, Unborn
<1>2. ~ task[t].closed /\ task[t].pc # "ended"
  BY DEF CloseInv, AtWork
<1>3. stream' = IF HasClose(t) THEN stream ELSE Append(stream, CloseEvent(t, r, task[t].hist))
  BY DEF Conclude
<1>4. LogStep /\ Closes(t)' # {}
  BY <1>1, <1>2, <1>3, LogOfClose
<1>5. \A u \in Tasks : Move(u)
  BY <1>1, <1>4 DEF Move, ShapeInv
<1>6. RecordStep
  <2> SUFFICES ASSUME NEW u \in Tasks, Recorded(u) PROVE MayRecord(u)
    BY DEF RecordStep
  <2>1. stream' = Append(stream, CloseEvent(t, r, task[t].hist))
    BY <1>3 DEF Recorded
  <2>2. u = t
    BY <2>1, RecordOfAppend DEF CloseEvent
  <2> QED
    BY <2>2 DEF MayRecord
<1> QED
  BY <1>1, <1>4, <1>5, <1>6, MovesKeepInv

\* A step of one coroutine that records nothing.
LEMMA SilentMoveKeepsInv ==
  ASSUME TreeInv, NEW t \in Tasks, UNCHANGED <<stream, mark>>,
         DOMAIN task' = Tasks, \A u \in Tasks \ {t} : task'[u] = task[u], Move(t)
  PROVE  TreeInv' /\ RecordStep
<1>1. LogStep
  BY LogOfNone DEF TreeInv
<1>2. \A u \in Tasks : Move(u)
  BY DEF Move, TreeInv, ShapeInv
<1>3. RecordStep
  BY DEF RecordStep, Recorded
<1> QED
  BY <1>1, <1>2, <1>3, MovesKeepInv

-----------------------------------------------------------------------------
(* The actions *)

LEMMA ReplayKeepsInv ==
  ASSUME TreeInv, NEW t \in Tasks, Replay(t)
  PROVE  TreeInv' /\ RecordStep
<1>1. /\ DOMAIN task' = Tasks /\ \A u \in Tasks \ {t} : task'[u] = task[u]
      /\ Move(t)
  BY DEF Replay, At, Resumed, TreeInv, ShapeInv, Unborn, Move, AtWork
<1> QED
  BY <1>1, SilentMoveKeepsInv DEF Replay

LEMMA DispatchKeepsInv ==
  ASSUME TreeInv, NEW t \in Tasks, Dispatch(t)
  PROVE  TreeInv' /\ RecordStep
<1>1. /\ DOMAIN task' = Tasks /\ \A u \in Tasks \ {t} : task'[u] = task[u]
      /\ Move(t)
  BY DEF Dispatch, At, TreeInv, ShapeInv, Unborn, Move, AtWork
<1> QED
  BY <1>1, SilentMoveKeepsInv DEF Dispatch

LEMMA AllOfNoneKeepsInv ==
  ASSUME TreeInv, NEW t \in Tasks, AllOfNone(t)
  PROVE  TreeInv' /\ RecordStep
<1>1. /\ DOMAIN task' = Tasks /\ \A u \in Tasks \ {t} : task'[u] = task[u]
      /\ Move(t)
  BY DEF AllOfNone, At, Resumed, TreeInv, ShapeInv, Unborn, Move, AtWork
<1> QED
  BY <1>1, SilentMoveKeepsInv DEF AllOfNone

LEMMA JoinKeepsInv ==
  ASSUME TreeInv, NEW t \in Tasks, Join(t)
  PROVE  TreeInv' /\ RecordStep
<1>1. /\ DOMAIN task' = Tasks /\ \A u \in Tasks \ {t} : task'[u] = task[u]
      /\ Move(t)
  BY DEF Join, At, TreeInv, ShapeInv, Unborn, Move, AtWork
<1> QED
  BY <1>1, SilentMoveKeepsInv DEF Join

LEMMA JoinedKeepsInv ==
  ASSUME TreeInv, NEW t \in Tasks, Joined(t)
  PROVE  TreeInv' /\ RecordStep
<1> DEFINE r == task[task[t].awaits].result
<1>1. CASE task' = [task EXCEPT ![t] = Resumed(@, r)] /\ UNCHANGED stream
  <2>1. /\ DOMAIN task' = Tasks /\ \A u \in Tasks \ {t} : task'[u] = task[u]
        /\ Move(t)
    BY <1>1 DEF Joined, Resumed, TreeInv, ShapeInv, Unborn, Move, AtWork
  <2> QED
    BY <1>1, <2>1, SilentMoveKeepsInv DEF Joined
<1>2. CASE Conclude(t, Error("TypeError"))
  BY <1>2, ConcludeKeepsInv DEF Joined, AtWork
<1> QED
  BY <1>1, <1>2 DEF Joined

LEMMA ResumeKeepsInv ==
  ASSUME TreeInv, NEW t \in Tasks, Resume(t)
  PROVE  TreeInv' /\ RecordStep
<1>1. CASE task' = [task EXCEPT ![t] = Resumed(@, task[t].settled)] /\ UNCHANGED stream
  <2>1. /\ DOMAIN task' = Tasks /\ \A u \in Tasks \ {t} : task'[u] = task[u]
        /\ Move(t)
    BY <1>1 DEF Resume, Resumed, TreeInv, ShapeInv, Unborn, Move
  <2> QED
    BY <1>1, <2>1, SilentMoveKeepsInv DEF Resume
<1>2. CASE Conclude(t, task[t].settled)
  BY <1>2, ConcludeKeepsInv DEF Resume
<1> QED
  BY <1>1, <1>2 DEF Resume

\* The other ends of a kernel: divergence, misuse of race and join, return.
LEMMA EndsKeepInv ==
  ASSUME TreeInv, NEW t \in Tasks,
         Diverge(t) \/ RaceOfNone(t) \/ JoinRefused(t) \/ Return(t)
  PROVE  TreeInv' /\ RecordStep
<1>1. task[t].pc \in AtWork /\ UNCHANGED mark
  BY DEF Diverge, RaceOfNone, JoinRefused, Return, At, AtWork
<1>2. PICK r : Conclude(t, r)
  BY DEF Diverge, RaceOfNone, JoinRefused, Return
<1> QED
  BY <1>1, <1>2, ConcludeKeepsInv

LEMMA AnswerKeepsInv ==
  ASSUME TreeInv, NEW t \in Tasks, Answer(t)
  PROVE  TreeInv' /\ RecordStep
<1>1. PICK e, r : /\ stream' = Append(stream, YieldEvent(t, e, r, task[t].hist))
                  /\ task' = [task EXCEPT ![t] = Resumed(@, r)]
  BY DEF Answer
<1>2. task[t].pc = "dispatched" /\ UNCHANGED mark
  BY DEF Answer
<1>3. LogStep
  BY <1>1, <1>2, LogOfYield DEF TreeInv
<1>4. DOMAIN task' = Tasks /\ \A u \in Tasks : Move(u)
  BY <1>1, <1>2 DEF Resumed, TreeInv, ShapeInv, Unborn, Move, AtWork
<1>5. RecordStep
  <2>1. ASSUME NEW u, Recorded(u) PROVE u = t
    BY <1>1, <2>1, RecordOfAppend DEF TreeInv, YieldEvent
  <2> QED
    BY <1>2, <2>1 DEF RecordStep, MayRecord, AtWork
<1> QED
  BY <1>3, <1>4, <1>5, MovesKeepInv

LEMMA HaltChildKeepsInv ==
  ASSUME TreeInv, NEW t \in Tasks, HaltChild(t)
  PROVE  TreeInv' /\ RecordStep
<1>1. /\ DOMAIN task' = Tasks /\ \A u \in Tasks \ {t} : task'[u] = task[u]
      /\ Move(t)
  BY DEF HaltChild, TreeInv, ShapeInv, Unborn, Move
<1> QED
  BY <1>1, SilentMoveKeepsInv DEF HaltChild

\* The coroutine a child reports to has been created before it.
LEMMA ParentIsBorn ==
  ASSUME TreeInv, NEW t \in Tasks, t # Root, task[t].pc # "unborn"
  PROVE  task[Parent(t)].pc # "unborn"
<1>1. t[Len(t)] \in Nat /\ Parent(t) \in Tasks
  BY ParentFacts
<1>2. ~ (t[Len(t)] >= task[Parent(t)].count)
  BY DEF TreeInv, BirthInv
<1>3. task[Parent(t)].pc = "unborn" => task[Parent(t)].count = 0
  BY <1>1 DEF TreeInv, BirthInv
<1> QED
  BY <1>1, <1>2, <1>3

\* The end of a coroutine, which has its Close.
LEMMA EndMoves ==
  ASSUME ShapeInv, NEW t \in Tasks, task[t].pc \in {"closing", "halting"},
         task'[t] = [task[t] EXCEPT !.pc = "ended"], Closes(t)' # {}
  PROVE  Move(t)
<1>1. DOMAIN task[t] = DOMAIN Unborn
  BY DEF ShapeInv
<1>2. /\ DOMAIN task'[t] = DOMAIN Unborn /\ task'[t].pc = "ended"
      /\ task'[t].role = task[t].role /\ task'[t].closed = task[t].closed
      /\ task'[t].count = task[t].count /\ task'[t].base = task[t].base
  BY <1>1 DEF Unborn
<1> QED
  BY <1>2 DEF Move

\* The end of a coroutine, and what its result does to its parent.
LEMMA ReportedMoves ==
  ASSUME TreeInv, NEW t \in Tasks, task[t].pc \in {"closing", "halting"},
         task' \in {Ended(t), Reported(t)}, Closes(t)' # {}
  PROVE  DOMAIN task' = Tasks /\ \A u \in Tasks : Move(u)
<1> USE DEF TreeInv
<1>1. /\ DOMAIN Ended(t) = Tasks /\ \A u \in Tasks \ {t} : Ended(t)[u] = task[u]
      /\ Ended(t)[t] = [task[t] EXCEPT !.pc = "ended"]
  BY DEF Ended, ShapeInv
<1>2. CASE task' = Ended(t)
  <2>1. Move(t)
    BY <1>1, <1>2, EndMoves
  <2>2. \A u \in Tasks \ {t} : Move(u)
    BY <1>1, <1>2 DEF Move, ShapeInv
  <2> QED
    BY <1>1, <1>2, <2>1, <2>2
<1>3. CASE task' = Reported(t) /\ t # Root /\ task' # Ended(t)
  <2> DEFINE p == Parent(t)
  <2>1. p \in Tasks /\ p # t /\ task[p].pc # "unborn"
    BY <1>3, ParentFacts, ParentIsBorn
  <2>2. \/ /\ Ended(t)[p].pc \notin {"halting", "ended"}
           /\ \E r : task' = [Ended(t) EXCEPT ![p].pc = "halting", ![p].result = r]
        \/ /\ Ended(t)[p].pc \in {"compound", "leaving"}
           /\ \E r : task' = [Ended(t) EXCEPT ![p].pc = "leaving", ![p].settled = r]
    BY <1>3 DEF Reported, Report
  <2>3. task[p].pc = Ended(t)[p].pc
    BY <1>1, <2>1
  <2>4. /\ DOMAIN task' = Tasks /\ \A u \in Tasks \ {t, p} : task'[u] = task[u]
        /\ task'[t] = [task[t] EXCEPT !.pc = "ended"]
    BY <1>1, <2>1, <2>2
  <2>5. Move(t)
    BY <2>4, EndMoves
  <2>6. Move(p)
    <3>1. CASE /\ Ended(t)[p].pc \notin {"halting", "ended"}
               /\ \E r : task' = [Ended(t) EXCEPT ![p].pc = "halting", ![p].result = r]
      <4>1. PICK r : task' = [Ended(t) EXCEPT ![p].pc = "halting", ![p].result = r]
        BY <3>1
      <4>2. task'[p] = [task[p] EXCEPT !.pc = "halting", !.result = r]
        BY <1>1, <2>1, <4>1
      <4> QED
        BY <2>1, <2>3, <3>1, <4>2 DEF Move, ShapeInv, Unborn
    <3>2. CASE /\ Ended(t)[p].pc \in {"compound", "leaving"}
               /\ \E r : task' = [Ended(t) EXCEPT ![p].pc = "leaving", ![p].settled = r]
      <4>1. PICK r : task' = [Ended(t) EXCEPT ![p].pc = "leaving", ![p].settled = r]
        BY <3>2
      <4>2. task'[p] = [task[p] EXCEPT !.pc = "leaving", !.settled = r]
        BY <1>1, <2>1, <4>1
      <4> QED
        BY <2>1, <2>3, <3>2, <4>2 DEF Move, ShapeInv, Unborn
    <3> QED
      BY <2>2, <3>1, <3>2
  <2>7. \A u \in Tasks \ {t, p} : Move(u)
    BY <2>4 DEF Move, ShapeInv
  <2> QED
    BY <2>4, <2>5, <2>6, <2>7
<1> QED
  BY <1>2, <1>3 DEF Reported

LEMMA HaltedKeepsInv ==
  ASSUME TreeInv, NEW t \in Tasks, Halted(t)
  PROVE  TreeInv' /\ RecordStep
<1> USE DEF TreeInv
<1>1. /\ task[t].pc = "halting" /\ UNCHANGED mark
      /\ task' \in {Ended(t), Reported(t)}
      /\ \A c \in Children(t) : task[c].pc = "ended"
  BY DEF Halted, ScopeClosed
<1>2. task'[t].pc = "ended"
  <2>1. /\ Ended(t)[t].pc = "ended" /\ Ended(t) \in [Tasks -> {Ended(t)[u] : u \in Tasks}]
        /\ DOMAIN Ended(t) = Tasks
    BY DEF Ended, ShapeInv, Unborn
  <2>2. CASE t # Root
    <3>1. Parent(t) # t
      BY <2>2, ParentFacts
    <3> QED
      BY <1>1, <2>1, <3>1 DEF Reported, Report
  <2> QED
    BY <1>1, <2>1, <2>2 DEF Reported
<1>3. LogStep /\ Closes(t)' # {}
  <2>1. CASE task[t].closed
    <3>1. stream' = stream
      BY <2>1 DEF Halted
    <3> QED
      BY <1>1, <2>1, <3>1, LogOfNone DEF CloseInv, Closes
  <2>2. CASE ~ task[t].closed
    <3>1. stream' = IF HasClose(t) THEN stream
                    ELSE Append(stream, CloseEvent(t, Cancelled, task[t].hist))
      BY <2>2 DEF Halted
    <3> QED
      BY <1>1, <1>2, <2>2, <3>1, LogOfClose
  <2> QED
    BY <2>1, <2>2
<1>4. DOMAIN task' = Tasks /\ \A u \in Tasks : Move(u)
  BY <1>1, <1>3, ReportedMoves
<1>5. RecordStep
  <2> SUFFICES ASSUME NEW u \in Tasks, Recorded(u) PROVE MayRecord(u)
    BY DEF RecordStep
  <2>1. stream' = Append(stream, CloseEvent(t, Cancelled, task[t].hist))
    BY DEF Recorded, Halted
  <2>2. u = t
    BY <2>1, RecordOfAppend DEF CloseEvent
  <2> QED
    BY <1>1, <2>2 DEF MayRecord
<1> QED
  BY <1>3, <1>4, <1>5, MovesKeepInv

LEMMA FinishKeepsInv ==
  ASSUME TreeInv, NEW t \in Tasks, Finish(t)
  PROVE  TreeInv' /\ RecordStep
<1> USE DEF TreeInv
<1> DEFINE p == Parent(t)
           e == task[t].result.error
<1>1. task[t].pc = "closing" /\ UNCHANGED mark /\ Closes(t) # {}
  BY DEF Finish, CloseInv
<1>2. CASE task' = Reported(t) /\ UNCHANGED stream
  <2>1. LogStep /\ Closes(t)' # {}
    BY <1>1, <1>2, LogOfNone DEF Closes
  <2>2. DOMAIN task' = Tasks /\ \A u \in Tasks : Move(u)
    BY <1>1, <1>2, <2>1, ReportedMoves
  <2>3. RecordStep
    BY <1>2 DEF RecordStep, Recorded
  <2> QED
    BY <2>1, <2>2, <2>3, MovesKeepInv
<1>3. ASSUME t # Root, task[p].pc = "joining",
             \E r : task' = [Ended(t) EXCEPT ![p].pc = "closing", ![p].closed = TRUE,
                                              ![p].result = r],
             stream' = IF HasClose(p) THEN stream
                       ELSE Append(stream, CloseEvent(p, Error(e), task[p].hist))
      PROVE  TreeInv' /\ RecordStep
  <2>1. p \in Tasks /\ p # t
    BY <1>3, ParentFacts
  <2>2. PICK r : task' = [Ended(t) EXCEPT ![p].pc = "closing", ![p].closed = TRUE,
                                          ![p].result = r]
    BY <1>3
  <2>3. /\ DOMAIN Ended(t) = Tasks /\ \A u \in Tasks \ {t} : Ended(t)[u] = task[u]
        /\ Ended(t)[t] = [task[t] EXCEPT !.pc = "ended"]
    BY DEF Ended, ShapeInv
  <2>4. /\ DOMAIN task' = Tasks /\ \A u \in Tasks \ {t, p} : task'[u] = task[u]
        /\ task'[t] = [task[t] EXCEPT !.pc = "ended"]
        /\ task'[p] = [task[p] EXCEPT !.pc = "closing", !.closed = TRUE, !.result = r]
    BY <2>1, <2>2, <2>3
  <2>5. task'[p].closed /\ ~ task[p].closed
    <3>1. DOMAIN task[p] = DOMAIN Unborn
      BY <2>1 DEF ShapeInv
    <3>2. task'[p].closed
      BY <2>4, <3>1 DEF Unborn
    <3>3. ~ task[p].closed
      BY <1>3, <2>1 DEF CloseInv
    <3> QED
      BY <3>2, <3>3
  <2>6. LogStep /\ Closes(p)' # {}
    BY <1>1, <1>3, <2>1, <2>5, LogOfClose
  <2>7. Closes(t)' # {}
    BY <1>1, <2>6 DEF LogStep, FirstClose
  <2>8. \A u \in Tasks : Move(u)
    <3>1. Move(t)
      BY <1>1, <2>4, <2>7, EndMoves
    <3>2. Move(p)
      BY <1>3, <2>1, <2>4, <2>6, ZenonT(40) DEF Move, ShapeInv, Unborn, AtWork
    <3>3. \A u \in Tasks \ {t, p} : Move(u)
      BY <2>4 DEF Move, ShapeInv
    <3> QED
      BY <3>1, <3>2, <3>3
  <2>9. RecordStep
    <3> SUFFICES ASSUME NEW u \in Tasks, Recorded(u) PROVE MayRecord(u)
      BY DEF RecordStep
    <3>1. stream' = Append(stream, CloseEvent(p, Error(e), task[p].hist))
      BY <1>3 DEF Recorded
    <3>2. u = p
      BY <3>1, RecordOfAppend DEF CloseEvent
    <3> QED
      BY <1>3, <3>2 DEF MayRecord, AtWork
  <2> QED
    BY <2>4, <2>6, <2>8, <2>9, MovesKeepInv
<1> QED
  BY <1>2, <1>3 DEF Finish

LEMMA HaltKeepsInv ==
  ASSUME TreeInv, Halt
  PROVE  TreeInv' /\ RecordStep
<1>1. Root \in Tasks
  BY TasksAssumption
<1>2. /\ DOMAIN task' = Tasks /\ \A u \in Tasks \ {Root} : task'[u] = task[u]
      /\ Move(Root)
  BY <1>1 DEF Halt, TreeInv, ShapeInv, BirthInv, Unborn, Move
<1> QED
  BY <1>1, <1>2, SilentMoveKeepsInv DEF Halt

-----------------------------------------------------------------------------
(* Births *)

\* A coroutine as driveKernel begins, or one whose Close was written for it.
Newborn(c) ==
  /\ DOMAIN task'[c] = DOMAIN Unborn
  /\ task'[c].count = 0 /\ task'[c].base = 0
  /\ \/ task'[c].pc = "step" /\ ~ task'[c].closed
     \/ task'[c].pc = "closing" /\ task'[c].closed /\ Closes(c)' # {}
     \/ task'[c].pc = "ended" /\ Closes(c)' # {}

\* t creates n children and waits for them, or goes on beside them.
Bears(t, n) ==
  /\ DOMAIN task' = Tasks /\ DOMAIN task'[t] = DOMAIN Unborn
  /\ task[t].pc = "step" /\ task'[t].role = task[t].role
  /\ task'[t].closed = task[t].closed
  /\ task'[t].count = task[t].count + n
  /\ \A k \in task[t].count .. task[t].count + n - 1 :
       Child(t, k) \in Tasks /\ Newborn(Child(t, k))
  /\ \/ task'[t].pc = "compound" /\ task'[t].base = task[t].count
     \/ /\ task'[t].pc = "step" /\ task'[t].base = task[t].base
        /\ \A k \in task[t].count .. task[t].count + n - 1 :
             task'[Child(t, k)].role = "spawned" \/ task'[Child(t, k)].pc = "ended"
  /\ \A u \in Tasks :
       (\A k \in task[t].count .. task[t].count + n - 1 : u # Child(t, k)) /\ u # t
         => task'[u] = task[u]

LEMMA BirthsKeepInv ==
  ASSUME TreeInv, NEW t \in Tasks, NEW n \in Nat, Bears(t, n), LogStep
  PROVE  TreeInv'
<1> USE DEF TreeInv
<1> DEFINE first == task[t].count
           born == {Child(t, k) : k \in first .. first + n - 1}
<1>1. first \in Nat /\ born \subseteq Tasks /\ \A c \in born : Newborn(c)
  BY DEF Bears, ShapeInv
<1>2. \A u \in Tasks \ (born \union {t}) : task'[u] = task[u]
  BY DEF Bears
<1>3. \A c \in born : /\ task[c].pc = "unborn" /\ ~ task[c].closed /\ task[c].count = 0
                     /\ c # t /\ c # Root
  <2> SUFFICES ASSUME NEW k \in first .. first + n - 1
               PROVE  /\ task[Child(t, k)].pc = "unborn" /\ ~ task[Child(t, k)].closed
                      /\ task[Child(t, k)].count = 0
                      /\ Child(t, k) # t /\ Child(t, k) # Root
    OBVIOUS
  <2>1. k \in Nat /\ Child(t, k) \in Tasks /\ k >= task[t].count
    BY <1>1
  <2>2. task[Child(t, k)].pc = "unborn" /\ Child(t, k) # t /\ Child(t, k) # Root
    BY <2>1, ChildFacts DEF BirthInv
  <2> QED
    BY <2>1, <2>2 DEF BirthInv, CloseInv
<1>4. ShapeInv'
  <2>1. stream' \in Seq({stream[i] : i \in 1 .. Len(stream)})' /\ mark' \in 0 .. Len(stream')
    BY DEF LogStep
  <2>2. \A u \in Tasks : /\ DOMAIN task'[u] = DOMAIN Unborn
                        /\ task'[u].count \in Nat /\ task'[u].base \in 0 .. task'[u].count
    <3>1. task'[t].count \in Nat /\ task'[t].base \in 0 .. task'[t].count
      BY DEF Bears, ShapeInv
    <3>2. \A c \in born : task'[c].count \in Nat /\ task'[c].base \in 0 .. task'[c].count
      BY <1>1 DEF Newborn
    <3> HIDE DEF born
    <3> QED
      BY <1>1, <1>2, <3>1, <3>2 DEF Bears, ShapeInv, Newborn
  <2> QED
    BY <2>1, <2>2 DEF ShapeInv, Bears
<1>5. CloseInv'
  <2> SUFFICES ASSUME NEW u \in Tasks
               PROVE  /\ task'[u].pc = "closing" => task'[u].closed
                      /\ task'[u].closed => task'[u].pc \in {"closing", "halting", "ended"}
                      /\ task'[u].closed \/ task'[u].pc = "ended" => Closes(u)' # {}
                      /\ \A i \in Closes(u)' : i > mark' => task'[u].closed \/ task'[u].pc = "ended"
                      /\ \A i, j \in Closes(u)' : i = j
    BY DEF CloseInv
  <2> HIDE DEF born
  <2>1. mark' = mark /\ (Closes(u)' = Closes(u) \/ FirstClose(u))
    BY DEF LogStep
  <2>2. \A i, j \in Closes(u)' : i = j
    BY <2>1 DEF CloseInv, FirstClose
  <2>3. CASE u = t
    BY <2>1, <2>2, <2>3 DEF Bears, CloseInv, FirstClose
  <2>4. CASE u \in born
    <3>1. \A i \in Closes(u) : ~ (i > mark)
      BY <1>3, <2>4 DEF CloseInv
    <3> QED
      BY <1>1, <2>1, <2>2, <2>4, <3>1 DEF Newborn, FirstClose
  <2>5. CASE u \notin born \union {t}
    BY <1>2, <2>1, <2>2, <2>5 DEF CloseInv, FirstClose
  <2> QED
    BY <2>3, <2>4, <2>5
<1>6. BirthInv'
  <2>1. \A u \in Tasks : task'[u].pc = "unborn" => u \notin born /\ u # t /\ task'[u] = task[u]
    <3> HIDE DEF born
    <3> QED BY <1>1, <1>2 DEF Bears, Newborn
  <2>2. \A u \in Tasks : task'[u].pc = "unborn" => task'[u].count = 0
    BY <2>1 DEF BirthInv
  <2>3. task'[Root].pc # "unborn"
    BY <1>3, <2>1, TasksAssumption DEF BirthInv
  <2>4. ASSUME NEW c \in Tasks \ {Root}, c[Len(c)] >= task'[Parent(c)].count
        PROVE  task'[c].pc = "unborn"
    <3>1. /\ Parent(c) \in Tasks /\ c[Len(c)] \in Nat /\ c = Child(Parent(c), c[Len(c)])
      BY ParentFacts
    <3>2. task'[Parent(c)].count >= task[Parent(c)].count
      <4> HIDE DEF born
      <4>1. CASE Parent(c) = t
        BY <4>1 DEF Bears, ShapeInv
      <4>2. CASE Parent(c) \in born
        BY <1>1, <1>3, <4>2 DEF Newborn
      <4>3. CASE Parent(c) \notin born \union {t}
        BY <1>2, <3>1, <4>3 DEF ShapeInv
      <4> QED BY <4>1, <4>2, <4>3
    <3>3. task[c].pc = "unborn"
      <4>1. c[Len(c)] >= task[Parent(c)].count
        <5>1. task[Parent(c)].count \in Nat /\ task'[Parent(c)].count \in Nat
          BY <1>4, <3>1 DEF ShapeInv
        <5> QED
          BY <2>4, <3>1, <3>2, <5>1
      <4> QED
        BY <4>1 DEF BirthInv
    <3>4. c \notin born
      <4> SUFFICES ASSUME NEW k \in first .. first + n - 1, c = Child(t, k)
                   PROVE  FALSE
        OBVIOUS
      <4>1. k \in Nat
        BY <1>1
      <4>2. Parent(c) = t /\ c[Len(c)] = k
        BY <4>1, ChildFacts
      <4>3. k >= first + n
        BY <2>4, <4>2 DEF Bears
      <4> QED
        BY <1>1, <4>1, <4>3
    <3>5. c # t
      BY <3>3 DEF Bears
    <3> HIDE DEF born
    <3> QED
      BY <1>2, <3>3, <3>4, <3>5
  <2> QED
    BY <2>2, <2>3, <2>4 DEF BirthInv
<1>7. ScopeInv'
  <2> SUFFICES ASSUME NEW u \in Tasks, NEW c \in Children(u)'
               PROVE  /\ c \in Tasks
                      /\ task'[c].role # "spawned" =>
                           /\ task'[u].pc \in AtWork => task'[c].pc = "ended"
                           /\ task'[u].pc \in {"compound", "leaving"} =>
                                c \in Branches(u)' \/ task'[c].pc = "ended"
    BY DEF ScopeInv, AtWork
  <2>1. CASE u = t
    <3>1. c \in Children(t) \/ c \in born
      BY <1>1, <2>1 DEF Bears, Children
    <3>2. CASE c \in born
      <4>1. \/ task'[t].pc = "compound" /\ c \in Branches(t)'
            \/ /\ task'[t].pc = "step"
               /\ task'[c].role = "spawned" \/ task'[c].pc = "ended"
        BY <1>1, <3>2 DEF Bears, Branches
      <4> HIDE DEF born
      <4> QED
        BY <1>1, <2>1, <3>2, <4>1 DEF Bears, AtWork
    <3>3. CASE c \in Children(t) /\ c \notin born
      <4>1. c \in Tasks /\ (task[c].role # "spawned" => task[c].pc = "ended")
        BY <3>3 DEF ScopeInv, Bears
      <4>2. c # t
        BY <3>3, ChildFacts, <1>1 DEF Children
      <4> HIDE DEF born
      <4> QED
        BY <1>2, <2>1, <3>3, <4>1, <4>2
    <3> QED
      BY <3>1, <3>2, <3>3
  <2>2. CASE u \in born
    <3>1. task'[u].count = 0
      <4> HIDE DEF born
      <4> QED BY <1>1, <2>2 DEF Newborn
    <3> QED
      BY <3>1 DEF Children
  <2>3. CASE u \notin born \union {t}
    <3>1. task'[u] = task[u]
      <4> HIDE DEF born
      <4> QED BY <1>2, <2>3
    <3>2. Children(u)' = Children(u) /\ Branches(u)' = Branches(u)
      BY <3>1 DEF Children, Branches
    <3>3. c \in Tasks /\ c \notin born
      <4>1. c \in Tasks
        BY <3>2 DEF ScopeInv
      <4>2. c \notin born
        <5> SUFFICES ASSUME NEW k \in first .. first + n - 1, c = Child(t, k) PROVE FALSE
          OBVIOUS
        <5>1. k \in Nat
          BY <1>1
        <5>2. PICK j \in 0 .. task[u].count - 1 : c = Child(u, j)
          BY <3>2 DEF Children
        <5>3. j \in Nat
          BY <5>2 DEF ShapeInv
        <5>4. Parent(c) = t /\ Parent(c) = u
          BY <5>1, <5>2, <5>3, ChildFacts
        <5> QED
          BY <2>3, <5>4
      <4> QED
        BY <4>1, <4>2
    <3>4. CASE c = t
      BY <1>1, <3>1, <3>2, <3>4 DEF ScopeInv, Bears, AtWork
    <3>5. CASE c # t
      <4>1. c \in Tasks /\ task'[c] = task[c]
        <5> HIDE DEF born
        <5> QED BY <1>2, <3>3, <3>5
      <4> QED
        BY <3>1, <3>2, <4>1 DEF ScopeInv, AtWork
    <3> QED
      BY <3>4, <3>5
  <2> QED
    BY <2>1, <2>2, <2>3
<1> QED
  BY <1>4, <1>5, <1>6, <1>7

\* A coroutine as driveKernel begins with it.
LEMMA FreshFacts ==
  ASSUME NEW c, NEW role
  PROVE  /\ DOMAIN Fresh(c, role) = DOMAIN Unborn
         /\ Fresh(c, role).count = 0 /\ Fresh(c, role).base = 0
         /\ Fresh(c, role).role = role
         /\ \/ Fresh(c, role).pc = "step" /\ ~ Fresh(c, role).closed
            \/ /\ Fresh(c, role).pc = "closing" /\ Fresh(c, role).closed
               /\ Closes(c) # {}
<1>1. WasCancelled(c) => Closes(c) # {}
  BY DEF WasCancelled
<1> QED
  BY <1>1 DEF Fresh, Unborn

LEMMA ForkKeepsInv ==
  ASSUME TreeInv, NEW t \in Tasks, Fork(t)
  PROVE  TreeInv' /\ RecordStep
<1> USE DEF TreeInv
<1> DEFINE step == StepOf(t)
           first == task[t].count
           born == {Child(t, k) : k \in first .. first + Width(step) - 1}
<1>1. /\ Width(step) \in Nat /\ born \subseteq Tasks /\ first \in Nat
      /\ task[t].pc = "step" /\ UNCHANGED <<stream, mark>>
      /\ task' = [c \in Tasks |->
          IF c = t THEN [task[t] EXCEPT !.pc = "compound", !.kind = step.kind,
                           !.settled = Pending, !.base = first, !.count = first + Width(step)]
          ELSE IF c \in born THEN Fresh(c, Role(step, c[Len(c)] - first))
          ELSE task[c]]
  BY DEF Fork, At, ShapeInv
<1>2. \A k \in first .. first + Width(step) - 1 :
        k \in Nat /\ Child(t, k) \in born /\ Child(t, k) \in Tasks
  BY <1>1
<1>3. \A k \in first .. first + Width(step) - 1 : Newborn(Child(t, k))
  <2> SUFFICES ASSUME NEW k \in first .. first + Width(step) - 1
               PROVE  Newborn(Child(t, k))
    OBVIOUS
  <2>1. Child(t, k) # t
    BY <1>2, ChildFacts
  <2>2. PICK role : task'[Child(t, k)] = Fresh(Child(t, k), role)
    <3> HIDE DEF born
    <3> QED BY <1>1, <1>2, <2>1
  <2>3. Closes(Child(t, k))' = Closes(Child(t, k))
    BY <1>1 DEF Closes
  <2> QED
    BY <2>2, <2>3, FreshFacts DEF Newborn
<1>4. /\ DOMAIN task' = Tasks
      /\ task'[t] = [task[t] EXCEPT !.pc = "compound", !.kind = step.kind,
                        !.settled = Pending, !.base = first, !.count = first + Width(step)]
      /\ \A u \in Tasks : u \notin born /\ u # t => task'[u] = task[u]
  <2> HIDE DEF born, first, step
  <2> QED BY <1>1
<1>5. Bears(t, Width(step))
  <2>1. \A u \in Tasks : (\A k \in first .. first + Width(step) - 1 : u # Child(t, k)) => u \notin born
    OBVIOUS
  <2>2. /\ DOMAIN task'[t] = DOMAIN Unborn /\ task'[t].role = task[t].role
        /\ task'[t].closed = task[t].closed /\ task'[t].count = first + Width(step)
        /\ task'[t].pc = "compound" /\ task'[t].base = first
    BY <1>4 DEF ShapeInv, Unborn
  <2> HIDE DEF born, step
  <2> QED
    BY <1>1, <1>2, <1>3, <1>4, <2>1, <2>2 DEF Bears
<1>6. LogStep
  BY <1>1, LogOfNone
<1>7. TreeInv'
  <2> HIDE DEF step
  <2> QED BY <1>1, <1>5, <1>6, BirthsKeepInv
<1> QED
  BY <1>1, <1>7 DEF RecordStep, Recorded

\* Two coroutines change.
LEMMA ExceptTwo ==
  ASSUME NEW f, NEW a \in DOMAIN f, NEW b \in DOMAIN f, a # b, NEW x, NEW y
  PROVE  LET g == [f EXCEPT ![a] = x, ![b] = y]
         IN /\ DOMAIN g = DOMAIN f /\ g[a] = x /\ g[b] = y
            /\ \A u \in DOMAIN f \ {a, b} : g[u] = f[u]
  OBVIOUS

LEMMA SpawnKeepsInv ==
  ASSUME TreeInv, NEW t \in Tasks, Spawn(t)
  PROVE  TreeInv' /\ RecordStep
<1> USE DEF TreeInv
<1> SUFFICES ASSUME NEW c, c = Child(t, task[t].count)
             PROVE  TreeInv' /\ RecordStep
  OBVIOUS
<1>1. /\ task[t].pc = "step" /\ c \in Tasks /\ c # t /\ task[t].count \in Nat
      /\ UNCHANGED <<stream, mark>>
  <2>1. task[t].count \in Nat
    BY DEF ShapeInv
  <2>2. c # t
    BY <2>1, ChildFacts
  <2> QED
    BY <2>1, <2>2 DEF Spawn, At
<1>2. /\ DOMAIN task' = Tasks /\ \A u \in Tasks \ {t, c} : task'[u] = task[u]
      /\ task'[t] = [Resumed(task[t], Handle(c)) EXCEPT !.count = task[t].count + 1]
      /\ task'[c] = Fresh(c, "spawned")
  <2> DEFINE x == [Resumed(task[t], Handle(c)) EXCEPT !.count = task[t].count + 1]
             y == Fresh(c, "spawned")
  <2>1. task' = [task EXCEPT ![t] = x, ![c] = y]
    BY DEF Spawn
  <2>2. DOMAIN task = Tasks
    BY DEF ShapeInv
  <2> HIDE DEF x, y
  <2>3. DOMAIN task' = Tasks /\ task'[t] = x /\ task'[c] = y
        /\ \A u \in Tasks \ {t, c} : task'[u] = task[u]
    BY <1>1, <2>1, <2>2, ExceptTwo
  <2> QED
    BY <2>3 DEF x, y
<1>3. /\ DOMAIN task'[t] = DOMAIN Unborn /\ task'[t].role = task[t].role
      /\ task'[t].closed = task[t].closed /\ task'[t].count = task[t].count + 1
      /\ task'[t].pc = "step" /\ task'[t].base = task[t].base
  BY <1>2 DEF Resumed, ShapeInv, Unborn
<1>4. Newborn(c) /\ task'[c].role = "spawned"
  <2>1. Closes(c)' = Closes(c)
    BY <1>1 DEF Closes
  <2> QED
    BY <1>2, <2>1, FreshFacts DEF Newborn
<1>5. \A k \in task[t].count .. task[t].count + 1 - 1 : k = task[t].count
  BY <1>1
<1>6. Bears(t, 1)
  BY <1>1, <1>2, <1>3, <1>4, <1>5 DEF Bears
<1>7. TreeInv'
  BY <1>1, <1>6, LogOfNone, BirthsKeepInv
<1> QED
  BY <1>1, <1>7 DEF RecordStep, Recorded

LEMMA BindFailsKeepsInv ==
  ASSUME TreeInv, NEW t \in Tasks, BindFails(t)
  PROVE  TreeInv' /\ RecordStep
<1> USE DEF TreeInv
<1> SUFFICES ASSUME NEW c, c = Child(t, task[t].count)
             PROVE  TreeInv' /\ RecordStep
  OBVIOUS
<1> DEFINE r == Error("ScopeBindingEffectError")
<1>1. /\ task[t].pc = "step" /\ c \in Tasks /\ c # t /\ task[t].count \in Nat
      /\ UNCHANGED mark
      /\ stream' = IF HasClose(c) THEN stream ELSE Append(stream, CloseEvent(c, r, <<>>))
  <2>1. task[t].count \in Nat
    BY DEF ShapeInv
  <2>2. c # t
    BY <2>1, ChildFacts
  <2> QED
    BY <2>1, <2>2 DEF BindFails, At
<1>2. /\ DOMAIN task' = Tasks /\ \A u \in Tasks \ {t, c} : task'[u] = task[u]
      /\ task'[t] = [Resumed(task[t], r) EXCEPT !.count = task[t].count + 1]
      /\ task'[c] = [Fresh(c, "branch") EXCEPT !.pc = "ended", !.result = r]
  <2> DEFINE x == [Resumed(task[t], r) EXCEPT !.count = task[t].count + 1]
             y == [Fresh(c, "branch") EXCEPT !.pc = "ended", !.result = r]
  <2>1. task' = [task EXCEPT ![t] = x, ![c] = y]
    BY DEF BindFails
  <2>2. DOMAIN task = Tasks
    BY DEF ShapeInv
  <2> HIDE DEF r, x, y
  <2>3. DOMAIN task' = Tasks /\ task'[t] = x /\ task'[c] = y
        /\ \A u \in Tasks \ {t, c} : task'[u] = task[u]
    BY <1>1, <2>1, <2>2, ExceptTwo
  <2> QED
    BY <2>3 DEF x, y
<1>3. /\ DOMAIN task'[t] = DOMAIN Unborn /\ task'[t].role = task[t].role
      /\ task'[t].closed = task[t].closed /\ task'[t].count = task[t].count + 1
      /\ task'[t].pc = "step" /\ task'[t].base = task[t].base
  BY <1>2 DEF Resumed, ShapeInv, Unborn
<1>4. /\ DOMAIN task'[c] = DOMAIN Unborn /\ task'[c].pc = "ended"
      /\ task'[c].count = 0 /\ task'[c].base = 0
  BY <1>2, FreshFacts DEF Unborn
<1>5. task[c].pc = "unborn" /\ ~ task[c].closed
  <2>1. task[c].pc = "unborn"
    BY <1>1, ChildFacts DEF BirthInv
  <2> QED
    BY <1>1, <2>1 DEF CloseInv
<1>6. LogStep /\ Closes(c)' # {}
  BY <1>1, <1>4, <1>5, LogOfClose
<1>7. \A k \in task[t].count .. task[t].count + 1 - 1 : k = task[t].count
  BY <1>1
<1>8. Bears(t, 1)
  <2>1. Newborn(c)
    BY <1>4, <1>6 DEF Newborn
  <2>2. \A k \in task[t].count .. task[t].count + 1 - 1 : Child(t, k) = c
    BY <1>7
  <2>3. \A u \in Tasks :
          (\A k \in task[t].count .. task[t].count + 1 - 1 : u # Child(t, k)) => u # c
    BY <1>1
  <2> HIDE DEF r
  <2> QED
    BY <1>1, <1>2, <1>3, <1>4, <2>1, <2>2, <2>3 DEF Bears
<1>9. RecordStep
  <2> SUFFICES ASSUME NEW u \in Tasks, Recorded(u) PROVE MayRecord(u)
    BY DEF RecordStep
  <2>1. stream' = Append(stream, CloseEvent(c, r, <<>>))
    BY <1>1 DEF Recorded
  <2>2. u = c
    BY <2>1, RecordOfAppend DEF CloseEvent
  <2> QED
    BY <1>5, <2>2 DEF MayRecord
<1> QED
  BY <1>6, <1>8, <1>9, BirthsKeepInv

-----------------------------------------------------------------------------
(* Runs *)

\* The state in which a run begins.
Boot ==
  /\ stream \in Seq({stream[i] : i \in 1 .. Len(stream)}) /\ mark = Len(stream)
  /\ task = BootTasks
  /\ \A t \in Tasks : \A i, j \in Closes(t) : i = j

LEMMA BootFacts == Boot => TreeInv
<1> SUFFICES ASSUME Boot PROVE TreeInv
  OBVIOUS
<1> USE DEF Boot
<1>1. Len(stream) \in Nat
  BY LenProperties
<1>2. /\ DOMAIN task = Tasks /\ Root \in Tasks
      /\ task[Root] = Fresh(Root, "root")
      /\ \A t \in Tasks \ {Root} : task[t] = Unborn
  BY TasksAssumption DEF BootTasks
<1>3. /\ DOMAIN task[Root] = DOMAIN Unborn
      /\ task[Root].count = 0 /\ task[Root].base = 0
      /\ \/ task[Root].pc = "step" /\ ~ task[Root].closed
         \/ task[Root].pc = "closing" /\ task[Root].closed /\ Closes(Root) # {}
  BY <1>2, FreshFacts
<1>4. \A t \in Tasks \ {Root} :
        /\ DOMAIN task[t] = DOMAIN Unborn
        /\ task[t].count = 0 /\ task[t].base = 0
        /\ task[t].pc = "unborn" /\ ~ task[t].closed
  BY <1>2 DEF Unborn
<1>5. ShapeInv
  BY <1>1, <1>2, <1>3, <1>4 DEF ShapeInv
<1>6. CloseInv
  <2>1. \A t \in Tasks : \A i \in Closes(t) : ~ (i > mark)
    BY <1>1 DEF Closes
  <2> QED
    BY <1>3, <1>4, <2>1 DEF CloseInv
<1>7. BirthInv
  BY <1>3, <1>4 DEF BirthInv
<1>8. ScopeInv
  BY <1>3, <1>4 DEF ScopeInv, Children
<1> QED
  BY <1>5, <1>6, <1>7, <1>8 DEF TreeInv

LEMMA BootFactsNext == Boot' => TreeInv'
  BY BootFacts, PTL

LEMMA ExecuteKeepsInv ==
  ASSUME TreeInv, Execute
  PROVE  TreeInv' /\ RecordStep
<1>1. stream' = stream /\ mark' = Len(stream) /\ task' = BootTasks'
  BY DEF Execute
<1>2. \A t \in Tasks : \A i, j \in Closes(t)' : i = j
  BY <1>1 DEF TreeInv, CloseInv, Closes
<1>3. stream' \in Seq({stream'[i] : i \in 1 .. Len(stream')})
  BY <1>1 DEF TreeInv, ShapeInv
<1>4. Boot'
  BY <1>1, <1>2, <1>3 DEF Boot
<1> QED
  BY <1>1, <1>4, BootFactsNext DEF RecordStep, Recorded

\* TreeInv is inductive, and only coroutines whose children have ended record.
LEMMA StepKeepsInv ==
  ASSUME TreeInv, [Next]_vars
  PROVE  TreeInv' /\ RecordStep
<1>1. CASE UNCHANGED vars
  BY <1>1 DEF vars, TreeInv, ShapeInv, CloseInv, BirthInv, ScopeInv, Closes,
    Children, Branches, RecordStep, Recorded
<1>2. ASSUME NEW t \in Tasks, Step(t) \/ Answer(t)
      PROVE  TreeInv' /\ RecordStep
  BY <1>2, ReplayKeepsInv, DispatchKeepsInv, AllOfNoneKeepsInv, JoinKeepsInv,
    JoinedKeepsInv, ResumeKeepsInv, EndsKeepInv, AnswerKeepsInv, HaltChildKeepsInv,
    HaltedKeepsInv, FinishKeepsInv, ForkKeepsInv, SpawnKeepsInv, BindFailsKeepsInv
    DEF Step
<1>3. CASE Halt
  BY <1>3, HaltKeepsInv
<1>4. CASE Execute
  BY <1>4, ExecuteKeepsInv
<1> QED
  BY <1>1, <1>2, <1>3, <1>4 DEF Next

-----------------------------------------------------------------------------
(* Theorems *)

\* The flags of the coroutines, the tree and the stream agree in every
\* reachable state (driveKernel, maybeAppendCloseToStream).
THEOREM TreeCorrect == Spec => []TreeInv
<1>1. Init => TreeInv
  <2> SUFFICES ASSUME Init PROVE TreeInv
    OBVIOUS
  <2>1. stream = <<>> /\ mark = 0 /\ task = BootTasks
    BY DEF Init
  <2>2. stream \in Seq({stream[i] : i \in 1 .. Len(stream)}) /\ Len(stream) = 0
    BY <2>1, EmptySeq
  <2>3. \A t \in Tasks : \A i, j \in Closes(t) : i = j
    BY <2>2 DEF Closes
  <2> QED
    BY <2>1, <2>2, <2>3, BootFacts DEF Boot
<1>2. TreeInv /\ [Next]_vars => TreeInv'
  BY StepKeepsInv
<1> QED
  BY <1>1, <1>2, PTL DEF Spec

\* When a coroutine records an event, all children its compound effects made
\* have recorded their Closes (the scoped() around every orchestrator).
THEOREM ChildrenCloseFirstHolds == Spec => ChildrenCloseFirst
<1>1. TreeInv /\ [Next]_vars =>
        [\A t \in Tasks : Recorded(t) =>
           \A c \in Children(t) : task[c].role # "spawned" => Closes(c) # {}]_vars
  <2> SUFFICES ASSUME TreeInv, [Next]_vars, NEW t \in Tasks, Recorded(t),
                      NEW c \in Children(t), task[c].role # "spawned"
               PROVE  Closes(c) # {}
    OBVIOUS
  <2>1. MayRecord(t)
    BY StepKeepsInv DEF RecordStep
  <2>2. task[t].pc # "unborn"
    BY DEF TreeInv, BirthInv, Children
  <2>3. c \in Tasks /\ task[c].pc = "ended"
    BY <2>1, <2>2 DEF MayRecord, AtWork, TreeInv, ScopeInv
  <2> QED
    BY <2>3 DEF TreeInv, CloseInv
<1> QED
  BY <1>1, TreeCorrect, PTL DEF Spec, ChildrenCloseFirst

-----------------------------------------------------------------------------
(* Silence after the Close *)

\* Who waits for an answer has no Close in the index.
UnclosedWait == \A t \in Tasks : task[t].pc = "dispatched" => ~ HasClose(t)

\* A step records a Close, or the answer a coroutine waits for.
SilentStep ==
  \/ UNCHANGED stream
  \/ \E e : stream' = Append(stream, e) /\
       (e.type = "close" \/ (e.co \in Tasks /\ task[e.co].pc = "dispatched"))
\* Only Dispatch makes a coroutine wait.
WaitStep == \A t \in Tasks : task'[t].pc = "dispatched" =>
              task[t].pc = "dispatched" \/ ~ HasClose(t)

LEMMA ConcludeIsSilent ==
  ASSUME TreeInv, NEW t \in Tasks, NEW r, Conclude(t, r)
  PROVE  SilentStep /\ WaitStep
<1>1. SilentStep
  BY DEF Conclude, CloseEvent, SilentStep
<1>2. \A u \in Tasks : task'[u].pc = "dispatched" => task[u].pc = "dispatched"
  BY DEF Conclude, TreeInv, ShapeInv, Unborn
<1> QED
  BY <1>1, <1>2 DEF WaitStep

\* A child's report does not make its parent wait for an answer.
LEMMA ReportIsSilent ==
  ASSUME TreeInv, NEW t \in Tasks
  PROVE  \A u \in Tasks : /\ Ended(t)[u].pc = "dispatched" => task[u].pc = "dispatched"
                          /\ Reported(t)[u].pc = "dispatched" => task[u].pc = "dispatched"
<1>1. /\ DOMAIN Ended(t) = Tasks /\ \A u \in Tasks \ {t} : Ended(t)[u] = task[u]
      /\ DOMAIN Ended(t)[t] = DOMAIN Unborn /\ Ended(t)[t].pc = "ended"
  BY DEF Ended, TreeInv, ShapeInv, Unborn
<1>2. \A u \in Tasks : /\ DOMAIN Ended(t)[u] = DOMAIN Unborn
                       /\ Ended(t)[u].pc = "dispatched" => task[u].pc = "dispatched"
  BY <1>1 DEF TreeInv, ShapeInv
<1>3. CASE t = Root
  BY <1>2, <1>3 DEF Reported
<1>4. CASE t # Root
  <2>1. PICK p : p = Parent(t) /\ p \in Tasks
    BY <1>4, ParentFacts
  <2>2. Reported(t) = Report(Ended(t), t)
    BY <1>4 DEF Reported
  <2>3. \/ Reported(t) = Ended(t)
        \/ \E r : Reported(t) = [Ended(t) EXCEPT ![p].pc = "halting", ![p].result = r]
        \/ \E r : Reported(t) = [Ended(t) EXCEPT ![p].pc = "leaving", ![p].settled = r]
    BY <2>1, <2>2 DEF Report
  <2>4. ASSUME NEW r, Reported(t) = [Ended(t) EXCEPT ![p].pc = "halting", ![p].result = r]
        PROVE  \A u \in Tasks : Reported(t)[u].pc = "dispatched" => task[u].pc = "dispatched"
    BY <1>1, <1>2, <2>1, <2>4 DEF Unborn
  <2>5. ASSUME NEW r, Reported(t) = [Ended(t) EXCEPT ![p].pc = "leaving", ![p].settled = r]
        PROVE  \A u \in Tasks : Reported(t)[u].pc = "dispatched" => task[u].pc = "dispatched"
    BY <1>1, <1>2, <2>1, <2>5 DEF Unborn
  <2> QED
    BY <1>2, <2>3, <2>4, <2>5
<1> QED
  BY <1>3, <1>4

\* Every step but a new run: the one action that begins a wait looks for the
\* Close first.
LEMMA StepIsSilent ==
  ASSUME TreeInv, NEW t \in Tasks, Step(t) \/ Answer(t)
  PROVE  SilentStep /\ WaitStep
<1> USE DEF TreeInv, ShapeInv
<1>1. CASE Diverge(t) \/ RaceOfNone(t) \/ JoinRefused(t) \/ Return(t)
  BY <1>1, ConcludeIsSilent DEF Diverge, RaceOfNone, JoinRefused, Return
<1>2. CASE Replay(t) \/ AllOfNone(t) \/ Join(t)
  <2>1. UNCHANGED stream
    BY <1>2 DEF Replay, AllOfNone, Join
  <2>2. /\ \A u \in Tasks \ {t} : task'[u] = task[u]
        /\ task'[t].pc \in {"step", "joining"}
    BY <1>2 DEF Replay, AllOfNone, Join, Resumed, Unborn
  <2> QED
    BY <2>1, <2>2 DEF SilentStep, WaitStep
<1>3. CASE Dispatch(t)
  <2>1. UNCHANGED stream /\ ~ HasClose(t)
    BY <1>3 DEF Dispatch
  <2>2. \A u \in Tasks \ {t} : task'[u] = task[u]
    BY <1>3 DEF Dispatch
  <2> QED
    BY <2>1, <2>2 DEF SilentStep, WaitStep
<1>4. CASE Joined(t)
  <2>1. CASE Conclude(t, Error("TypeError"))
    BY <2>1, ConcludeIsSilent
  <2>2. PICK r : r = task[task[t].awaits].result
    OBVIOUS
  <2>3. CASE task' = [task EXCEPT ![t] = Resumed(@, r)] /\ UNCHANGED stream
    <3>1. \A u \in Tasks : task'[u].pc = "dispatched" => task[u].pc = "dispatched"
      BY <2>3 DEF Resumed, Unborn
    <3> QED
      BY <2>3, <3>1 DEF SilentStep, WaitStep
  <2> QED
    BY <1>4, <2>1, <2>2, <2>3 DEF Joined
<1>5. CASE Resume(t)
  <2>1. CASE Conclude(t, task[t].settled)
    BY <2>1, ConcludeIsSilent
  <2>2. CASE task' = [task EXCEPT ![t] = Resumed(@, task[t].settled)] /\ UNCHANGED stream
    <3>1. \A u \in Tasks : task'[u].pc = "dispatched" => task[u].pc = "dispatched"
      BY <2>2 DEF Resumed, Unborn
    <3> QED
      BY <2>2, <3>1 DEF SilentStep, WaitStep
  <2> QED
    BY <1>5, <2>1, <2>2 DEF Resume
<1>6. CASE Fork(t)
  <2>1. UNCHANGED stream
    BY <1>6 DEF Fork
  <2>2. \A u \in Tasks : task'[u].pc = "dispatched" => task[u].pc = "dispatched"
    BY <1>6 DEF Fork, Fresh, Unborn
  <2> QED
    BY <2>1, <2>2 DEF SilentStep, WaitStep
<1>7. CASE Spawn(t)
  <2>1. PICK c \in Tasks : c = Child(t, task[t].count)
    BY <1>7 DEF Spawn
  <2>2. /\ UNCHANGED stream
        /\ task' = [task EXCEPT ![t] = [Resumed(@, Handle(c)) EXCEPT !.count = task[t].count + 1],
                                ![c] = Fresh(c, "spawned")]
    BY <1>7, <2>1 DEF Spawn
  <2>3. \A u \in Tasks : task'[u].pc = "dispatched" => task[u].pc = "dispatched"
    BY <2>2 DEF Resumed, Fresh, Unborn
  <2> QED
    BY <2>2, <2>3 DEF SilentStep, WaitStep
<1>8. CASE BindFails(t)
  <2>1. PICK c, r : /\ c \in Tasks /\ c = Child(t, task[t].count)
                    /\ r = Error("ScopeBindingEffectError")
    BY <1>8 DEF BindFails
  <2>2. /\ stream' = stream \/ stream' = Append(stream, CloseEvent(c, r, <<>>))
        /\ task' = [task EXCEPT
             ![t] = [Resumed(@, r) EXCEPT !.count = task[t].count + 1],
             ![c] = [Fresh(c, "branch") EXCEPT !.pc = "ended", !.result = r]]
    BY <1>8, <2>1 DEF BindFails
  <2>3. \A u \in Tasks : task'[u].pc = "dispatched" => task[u].pc = "dispatched"
    BY <2>1, <2>2 DEF Resumed, Fresh, Unborn
  <2>4. CloseEvent(c, r, <<>>).type = "close"
    BY DEF CloseEvent
  <2> QED
    BY <2>2, <2>3, <2>4 DEF SilentStep, WaitStep
<1>9. CASE HaltChild(t)
  <2>1. UNCHANGED stream
    BY <1>9 DEF HaltChild
  <2>2. \A u \in Tasks : task'[u].pc = "dispatched" => task[u].pc = "dispatched"
    BY <1>9 DEF HaltChild, Unborn
  <2> QED
    BY <2>1, <2>2 DEF SilentStep, WaitStep
<1>10. CASE Halted(t)
  <2>1. SilentStep
    BY <1>10 DEF Halted, SilentStep, CloseEvent
  <2>2. task' \in {Ended(t), Reported(t)}
    BY <1>10 DEF Halted
  <2> QED
    BY <2>1, <2>2, ReportIsSilent DEF WaitStep
<1>11. CASE Finish(t)
  <2>1. CASE task' = Reported(t) /\ UNCHANGED stream
    BY <2>1, ReportIsSilent DEF SilentStep, WaitStep
  <2>2. CASE ~ (task' = Reported(t) /\ UNCHANGED stream)
    <3>1. t # Root
      BY <1>11, <2>2 DEF Finish
    <3>2. PICK p, close : /\ p \in Tasks \ {t} /\ p = Parent(t)
                          /\ close = Error(task[t].result.error)
      BY <3>1, ParentFacts
    <3>3. \E r : /\ task' = [Ended(t) EXCEPT ![p].pc = "closing", ![p].closed = TRUE,
                               ![p].result = r]
                 /\ stream' = IF HasClose(p) THEN stream
                              ELSE Append(stream, CloseEvent(p, close, task[p].hist))
      BY <1>11, <2>2, <3>2 DEF Finish
    <3>4. PICK r : task' = [Ended(t) EXCEPT ![p].pc = "closing", ![p].closed = TRUE,
                              ![p].result = r]
      BY <3>3
    <3>5. \A u \in Tasks : Ended(t)[u].pc = "dispatched" => task[u].pc = "dispatched"
      BY ReportIsSilent
    <3>6. /\ DOMAIN Ended(t) = Tasks /\ Ended(t)[p] = task[p]
          /\ \A u \in Tasks \ {p} : task'[u] = Ended(t)[u]
      BY <3>2, <3>4 DEF Ended
    <3>7. \A u \in Tasks : task'[u].pc = "dispatched" => task[u].pc = "dispatched"
      BY <3>2, <3>4, <3>5, <3>6 DEF Unborn
    <3>8. CloseEvent(p, close, task[p].hist).type = "close"
      BY DEF CloseEvent
    <3> QED
      BY <3>3, <3>7, <3>8 DEF SilentStep, WaitStep
  <2> QED
    BY <2>1, <2>2
<1>12. CASE Answer(t)
  <2>1. PICK e, r : /\ stream' = Append(stream, YieldEvent(t, e, r, task[t].hist))
                    /\ task' = [task EXCEPT ![t] = Resumed(@, r)]
    BY <1>12 DEF Answer
  <2>2. SilentStep
    BY <1>12, <2>1 DEF SilentStep, YieldEvent, Answer
  <2>3. \A u \in Tasks : task'[u].pc = "dispatched" => task[u].pc = "dispatched"
    BY <2>1 DEF Resumed, Unborn
  <2> QED
    BY <2>2, <2>3 DEF WaitStep
<1> QED
  BY <1>1, <1>2, <1>3, <1>4, <1>5, <1>6, <1>7, <1>8, <1>9, <1>10, <1>11, <1>12 DEF Step

\* Silence lasts: nobody who has a Close waits for an answer.
LEMMA SilenceLasts ==
  ASSUME TreeInv, SilentAfterClose, UnclosedWait, SilentStep
  PROVE  SilentAfterClose'
<1>1. Len(stream) \in Nat
  BY LenProperties DEF TreeInv, ShapeInv
<1>2. CASE UNCHANGED stream
  BY <1>2 DEF SilentAfterClose, Closes
<1>3. ASSUME NEW e, stream' = Append(stream, e),
             e.type = "close" \/ (e.co \in Tasks /\ task[e.co].pc = "dispatched")
      PROVE  SilentAfterClose'
  <2>1. /\ Len(stream') = Len(stream) + 1 /\ stream'[Len(stream) + 1] = e
        /\ \A i \in 1 .. Len(stream) : stream'[i] = stream[i]
    BY <1>3, AppendFacts DEF TreeInv, ShapeInv
  <2> SUFFICES ASSUME NEW t \in Tasks, NEW i \in Closes(t)', NEW j \in i + 1 .. Len(stream')
               PROVE  stream'[j].co # t \/ stream'[j].type = "close"
    BY DEF SilentAfterClose
  <2>2. i \in 1 .. Len(stream) /\ i \in Closes(t)
    BY <1>1, <2>1 DEF Closes
  <2>3. CASE j \in i + 1 .. Len(stream)
    BY <1>1, <2>1, <2>2, <2>3 DEF SilentAfterClose
  <2>4. CASE j = Len(stream) + 1
    <3>1. ASSUME task[t].pc = "dispatched" PROVE Closes(t) = {}
      <4>1. i \in Nat /\ mark \in Nat /\ ~ (i <= mark)
        BY <1>1, <2>2, <3>1 DEF TreeInv, UnclosedWait, HasClose, ShapeInv
      <4>2. task[t].closed \/ task[t].pc = "ended"
        BY <2>2, <4>1 DEF TreeInv, CloseInv
      <4> QED
        BY <3>1, <4>2 DEF TreeInv, CloseInv
    <3> QED
      BY <1>3, <2>1, <2>2, <2>4, <3>1
  <2> QED
    BY <1>1, <2>1, <2>2, <2>3, <2>4
<1> QED
  BY <1>2, <1>3 DEF SilentStep

\* Nothing of a coroutine follows its Close, also not when a replay that went
\* another way makes it live again (the close guard before live dispatch).
THEOREM SilentAfterCloseHolds == Spec => []SilentAfterClose
<1>1. Init => SilentAfterClose /\ UnclosedWait
  <2> SUFFICES ASSUME Init PROVE SilentAfterClose /\ UnclosedWait
    OBVIOUS
  <2>1. SilentAfterClose
    BY DEF Init, SilentAfterClose, Closes
  <2>2. UnclosedWait
    BY DEF Init, UnclosedWait, BootTasks, Fresh, Unborn
  <2> QED
    BY <2>1, <2>2
<1>2. TreeInv /\ SilentAfterClose /\ UnclosedWait /\ [Next]_vars
        => SilentAfterClose' /\ UnclosedWait'
  <2> SUFFICES ASSUME TreeInv, SilentAfterClose, UnclosedWait, [Next]_vars
               PROVE  SilentAfterClose' /\ UnclosedWait'
    OBVIOUS
  <2>1. CASE Execute
    <3>1. UNCHANGED stream /\ task' = BootTasks'
      BY <2>1 DEF Execute
    <3>2. \A t \in Tasks : task'[t].pc # "dispatched"
      BY <3>1 DEF BootTasks, Fresh, Unborn
    <3> QED
      BY <3>1, <3>2 DEF SilentAfterClose, UnclosedWait, Closes
  <2>2. CASE ~ Execute
    <3>1. SilentStep /\ WaitStep /\ UNCHANGED mark
      <4>1. CASE UNCHANGED vars
        BY <4>1 DEF vars, SilentStep, WaitStep
      <4>2. CASE Halt
        <5>1. \A u \in Tasks : task'[u].pc = "dispatched" => task[u].pc = "dispatched"
          BY <4>2 DEF Halt, TreeInv, ShapeInv, Unborn
        <5> QED
          BY <4>2, <5>1 DEF Halt, SilentStep, WaitStep
      <4>3. ASSUME NEW t \in Tasks, Step(t) \/ Answer(t)
            PROVE  SilentStep /\ WaitStep /\ UNCHANGED mark
        <5>1. UNCHANGED mark
          BY <4>3 DEF Step, Answer, Replay, Diverge, Dispatch, Fork, AllOfNone,
            RaceOfNone, BindFails, Spawn, Join, JoinRefused, Joined, Resume, Return,
            Finish, HaltChild, Halted
        <5> QED
          BY <4>3, <5>1, StepIsSilent
      <4> QED
        BY <2>2, <4>1, <4>2, <4>3 DEF Next
    <3>2. \A t \in Tasks : HasClose(t)' <=> HasClose(t)
      <4>1. CASE UNCHANGED stream
        BY <3>1, <4>1 DEF HasClose, Closes
      <4>2. ASSUME NEW e, stream' = Append(stream, e)
            PROVE  \A t \in Tasks : HasClose(t)' <=> HasClose(t)
        <5>1. Len(stream) \in Nat /\ mark \in 0 .. Len(stream)
          BY LenProperties DEF TreeInv, ShapeInv
        <5>2. \A t \in Tasks : Closes(t)' \in {Closes(t), Closes(t) \union {Len(stream) + 1}}
          BY <4>2, ClosesOfAppend DEF TreeInv
        <5>3. ASSUME NEW t \in Tasks PROVE HasClose(t)' <=> HasClose(t)
          <6>1. \A i \in Closes(t) : i \in Closes(t)'
            BY <5>2
          <6>2. \A i \in Closes(t)' : i <= mark => i \in Closes(t)
            BY <5>1, <5>2
          <6> QED
            BY <3>1, <6>1, <6>2 DEF HasClose
        <5> QED
          BY <5>3
      <4> QED
        BY <3>1, <4>1, <4>2 DEF SilentStep
    <3>3. UnclosedWait'
      BY <3>1, <3>2 DEF UnclosedWait, WaitStep
    <3> QED
      BY <3>1, <3>3, SilenceLasts
  <2> QED
    BY <2>1, <2>2
<1> QED
  BY <1>1, <1>2, TreeCorrect, PTL DEF Spec

-----------------------------------------------------------------------------
(* Who decides *)

\* While an operation waits, none of its branches has ended in a way that would
\* have decided it.
Undecided(t, r) ==
  r.status # "threw" /\ (task[t].kind = "all" => r.status # "error")
OperationInv(t) ==
  /\ task[t].pc \in {"compound", "leaving"} =>
       \A c \in Branches(t) : task[c].role # "spawned"
  /\ task[t].pc = "compound" =>
       /\ task[t].kind \in {"all", "race", "timebox", "scope"}
       /\ \A c \in Branches(t) : task[c].pc = "ended" => Undecided(t, task[c].result)
\* What a coroutine has returned is on record; who is halted has not returned.
EndInv(t) ==
  /\ task[t].pc \in {"closing", "ended"} /\ task[t].result.status \in {"ok", "error"} =>
       OnRecord(t)
  /\ task[t].pc = "halting" => task[t].result.status \notin {"ok", "error"}
Decided(t) == task[t].pc = "leaving" => \E c \in Branches(t) : DecidedBy(t, c)
DecideInv == \A t \in Tasks : OperationInv(t) /\ EndInv(t) /\ Decided(t)

LogGrows == mark' = mark /\ (stream' = stream \/ \E e : stream' = Append(stream, e))
\* A coroutine that has ended stays so, and who waits for branches makes none.
Turn(u) ==
  /\ task[u].pc # "ended"
  /\ \/ task'[u].role = task[u].role
     \/ u # Root /\ task[Parent(u)].pc = "step"
  /\ EndInv(u)'
  /\ task'[u].pc \in {"compound", "leaving"} => OperationInv(u)' /\ Decided(u)'
\* No branch ends without deciding what its end decides.
Arrivals(u) ==
  \A c \in Branches(u) :
    task'[c].pc = "ended" => task[c].pc = "ended" \/ Undecided(u, task'[c].result)
DecideStep ==
  /\ LogGrows
  /\ \A u \in Tasks : \/ Turn(u)
                      \/ task'[u] = task[u] /\ (task[u].pc = "compound" => Arrivals(u))

\* A Close stays what it is.
LEMMA RecordStays ==
  ASSUME TreeInv, TreeInv', LogGrows, NEW u \in Tasks, Closes(u) # {}
  PROVE  /\ Closes(u)' = Closes(u) /\ CloseOf(u)' = CloseOf(u)
         /\ HasClose(u)' <=> HasClose(u)
<1>1. CASE stream' = stream
  BY <1>1 DEF LogGrows, Closes, CloseOf, HasClose
<1>2. ASSUME NEW e, stream' = Append(stream, e)
      PROVE  /\ Closes(u)' = Closes(u) /\ CloseOf(u)' = CloseOf(u)
             /\ HasClose(u)' <=> HasClose(u)
  <2>1. \A i \in 1 .. Len(stream) : stream'[i] = stream[i]
    BY <1>2, AppendFacts DEF TreeInv, ShapeInv
  <2>2. Closes(u)' \in {Closes(u), Closes(u) \union {Len(stream) + 1}}
    BY <1>2, ClosesOfAppend DEF TreeInv
  <2>3. \A i, j \in Closes(u)' : i = j
    BY DEF TreeInv, CloseInv
  <2>4. Closes(u)' = Closes(u)
    BY <2>2, <2>3
  <2>5. (CHOOSE i \in Closes(u) : TRUE) \in 1 .. Len(stream)
    BY DEF Closes
  <2> QED
    BY <2>1, <2>4, <2>5 DEF CloseOf, HasClose, LogGrows
<1> QED
  BY <1>1, <1>2 DEF LogGrows

LEMMA ReturnStays ==
  ASSUME TreeInv, TreeInv', LogGrows, NEW u \in Tasks, EndInv(u), task'[u] = task[u]
  PROVE  EndInv(u)'
<1>1. task[u].pc \in {"closing", "ended"} => Closes(u) # {}
  BY DEF TreeInv, CloseInv
<1> QED
  BY <1>1, RecordStays DEF EndInv, OnRecord

\* The branches of an operation are coroutines whose parent waits for them.
LEMMA BranchFacts ==
  ASSUME TreeInv, NEW t \in Tasks, NEW c \in Branches(t)
  PROVE  c \in Tasks /\ c # Root /\ Parent(c) = t /\ c # t
<1>1. PICK k \in task[t].base .. task[t].count - 1 : c = Child(t, k)
  BY DEF Branches
<1>2. task[t].count \in Nat /\ task[t].base \in Nat
  BY DEF TreeInv, ShapeInv
<1>3. k \in Nat /\ k \in 0 .. task[t].count - 1
  BY <1>2
<1>4. c \in Children(t)
  BY <1>1, <1>3 DEF Children
<1> QED
  BY <1>1, <1>3, <1>4, ChildFacts DEF TreeInv, ScopeInv

LEMMA DecisionStays ==
  ASSUME TreeInv, TreeInv', DecideInv, DecideStep
  PROVE  DecideInv'
<1> SUFFICES ASSUME NEW t \in Tasks
             PROVE  OperationInv(t)' /\ EndInv(t)' /\ Decided(t)'
  BY DEF DecideInv
<1>1. LogGrows /\ OperationInv(t) /\ EndInv(t) /\ Decided(t)
  BY DEF DecideStep, DecideInv
<1>2. CASE Turn(t)
  BY <1>2 DEF Turn, OperationInv, Decided
<1>3. CASE task'[t] = task[t] /\ (task[t].pc = "compound" => Arrivals(t))
  <2>1. EndInv(t)'
    BY <1>1, <1>3, ReturnStays
  <2>2. Branches(t)' = Branches(t)
    BY <1>3 DEF Branches
  <2>3. ASSUME NEW c \in Branches(t), task[t].pc \in {"compound", "leaving"}
        PROVE  /\ task'[c].role = task[c].role
               /\ task[c].pc = "ended" => task'[c] = task[c] /\ EndInv(c)'
    <3>1. c \in Tasks /\ Parent(c) = t
      BY BranchFacts
    <3> QED
      BY <1>1, <2>3, <3>1, ReturnStays DEF DecideStep, DecideInv, Turn
  <2>4. OperationInv(t)'
    BY <1>1, <1>3, <2>2, <2>3 DEF OperationInv, Arrivals, Undecided
  <2>5. ASSUME task[t].pc = "leaving" PROVE \E c \in Branches(t) : DecidedBy(t, c)'
    <3>1. PICK c \in Branches(t) : DecidedBy(t, c)
      BY <1>1, <2>5 DEF Decided
    <3>2. /\ task[c].pc = "ended" /\ task'[c] = task[c] /\ EndInv(c)'
          /\ \A b \in Branches(t) : task[b].pc = "ended" => task'[b] = task[b]
      BY <2>3, <2>5, <3>1 DEF DecidedBy
    <3>3. task'[c].result.status \in {"ok", "error"} => OnRecord(c)'
      BY <3>2 DEF EndInv
    <3>4. \A b \in Branches(t) : task[b].pc = "ended" => (Failed(b)' <=> Failed(b))
      BY <3>2 DEF Failed
    <3> QED
      BY <1>3, <2>2, <3>1, <3>2, <3>3, <3>4 DEF DecidedBy
  <2> QED
    BY <1>3, <2>1, <2>2, <2>4, <2>5 DEF Decided
<1> QED
  BY <1>2, <1>3 DEF DecideStep

\* One coroutine changes, and neither ends nor comes to wait for branches.
LEMMA SoloDecides ==
  ASSUME DecideInv, NEW t \in Tasks, LogGrows, \A u \in Tasks \ {t} : task'[u] = task[u],
         task[t].pc # "ended", task'[t].role = task[t].role, EndInv(t)',
         task'[t].pc \notin {"compound", "leaving", "ended"}, TreeInv
  PROVE  DecideStep
<1>1. Turn(t)
  BY DEF Turn
<1>2. ASSUME NEW u \in Tasks PROVE Arrivals(u)
  BY BranchFacts DEF Arrivals
<1> QED
  BY <1>1, <1>2 DEF DecideStep

\* A Close that a step records, or that the index has.
LEMMA CloseRecorded ==
  ASSUME TreeInv, NEW t \in Tasks, NEW r, NEW h, mark' = mark,
         ~ task[t].closed, task[t].pc # "ended",
         stream' = IF HasClose(t) THEN stream ELSE Append(stream, CloseEvent(t, r, h))
  PROVE  LogGrows /\ (HasClose(t)' \/ CloseOf(t)' = r)
<1>1. CASE HasClose(t)
  BY <1>1 DEF LogGrows, HasClose, Closes
<1>2. CASE ~ HasClose(t)
  <2> DEFINE e == CloseEvent(t, r, h)
  <2>1. stream' = Append(stream, e) /\ e.co = t /\ e.type = "close" /\ e.result = r
    BY <1>2 DEF CloseEvent
  <2>2. Closes(t) = {}
    <3>1. \A i \in Closes(t) : i \in Int /\ mark \in Int
      BY DEF Closes, TreeInv, ShapeInv
    <3> QED
      BY <1>2, <3>1 DEF HasClose, TreeInv, CloseInv
  <2> HIDE DEF e
  <2>3. Closes(t)' = {Len(stream) + 1}
    BY <2>1, <2>2, ClosesOfAppend DEF TreeInv
  <2>4. stream'[Len(stream) + 1] = e
    BY <2>1, AppendFacts DEF TreeInv, ShapeInv
  <2> QED
    BY <2>1, <2>3, <2>4 DEF LogGrows, CloseOf
<1> QED
  BY <1>1, <1>2

LEMMA ConcludeDecides ==
  ASSUME TreeInv, DecideInv, NEW t \in Tasks, NEW r, Conclude(t, r), UNCHANGED mark,
         task[t].pc \in {"step", "joining", "leaving"}
  PROVE  DecideStep
<1>1. DOMAIN task = Tasks /\ DOMAIN task[t] = DOMAIN Unborn /\ ~ task[t].closed
  BY DEF TreeInv, ShapeInv, CloseInv
<1>2. /\ \A u \in Tasks \ {t} : task'[u] = task[u]
      /\ task'[t].pc = "closing" /\ task'[t].role = task[t].role
      /\ task'[t].result = IF r = Error("DivergenceError") THEN Threw(r.error) ELSE r
  BY <1>1 DEF Conclude, Unborn
<1>3. LogGrows /\ (HasClose(t)' \/ CloseOf(t)' = r)
  BY <1>1, CloseRecorded DEF Conclude
<1>4. EndInv(t)'
  <2>1. task'[t].result = r \/ task'[t].result.status = "threw"
    BY <1>2 DEF Threw
  <2> QED
    BY <1>2, <1>3, <2>1 DEF EndInv, OnRecord
<1> QED
  BY <1>2, <1>3, <1>4, SoloDecides

\* The actions by which one coroutine goes on, ends its kernel or is halted.
LEMMA GoesOnDecides ==
  ASSUME TreeInv, DecideInv, NEW t \in Tasks,
         Replay(t) \/ Dispatch(t) \/ AllOfNone(t) \/ Join(t) \/ Answer(t) \/ HaltChild(t)
  PROVE  DecideStep
<1>1. DOMAIN task = Tasks /\ DOMAIN task[t] = DOMAIN Unborn
  BY DEF TreeInv, ShapeInv
<1>2. /\ LogGrows /\ task[t].pc # "ended" /\ \A u \in Tasks \ {t} : task'[u] = task[u]
      /\ \/ \E r, n : task'[t] = [Resumed(task[t], r) EXCEPT !.cursor = n]
         \/ \E r : task'[t] = Resumed(task[t], r)
         \/ task'[t] = [task[t] EXCEPT !.pc = "dispatched"]
         \/ \E c, j : task'[t] = [task[t] EXCEPT !.pc = "joining", !.awaits = c, !.joined = j]
         \/ task'[t] = [task[t] EXCEPT !.pc = "halting", !.result = Cancelled]
  <2>1. CASE Replay(t)
    <3>1. \E r, n : task' = [task EXCEPT ![t] = [Resumed(@, r) EXCEPT !.cursor = n]]
      BY <2>1 DEF Replay
    <3> QED
      BY <1>1, <2>1, <3>1 DEF Replay, At, LogGrows
  <2>2. CASE Dispatch(t)
    BY <1>1, <2>2 DEF Dispatch, At, LogGrows
  <2>3. CASE AllOfNone(t)
    BY <1>1, <2>3 DEF AllOfNone, At, LogGrows
  <2>4. CASE Join(t)
    BY <1>1, <2>4 DEF Join, At, LogGrows
  <2>5. CASE Answer(t)
    <3>1. PICK e, r : /\ task[t].pc = "dispatched" /\ mark' = mark
                      /\ stream' = Append(stream, YieldEvent(t, e, r, task[t].hist))
                      /\ task' = [task EXCEPT ![t] = Resumed(@, r)]
      BY <2>5 DEF Answer
    <3> QED
      BY <1>1, <3>1 DEF LogGrows
  <2>6. CASE HaltChild(t)
    BY <1>1, <2>6 DEF HaltChild, LogGrows
  <2> QED
    BY <2>1, <2>2, <2>3, <2>4, <2>5, <2>6
<1>3. /\ task'[t].role = task[t].role
      /\ \/ task'[t].pc \in {"step", "dispatched", "joining"}
         \/ task'[t].pc = "halting" /\ task'[t].result = Cancelled
  BY <1>1, <1>2 DEF Resumed, Unborn
<1>4. EndInv(t)'
  BY <1>3 DEF EndInv, Cancelled
<1> QED
  BY <1>2, <1>3, <1>4, SoloDecides

LEMMA ConcludesDecides ==
  ASSUME TreeInv, DecideInv, NEW t \in Tasks,
         Diverge(t) \/ RaceOfNone(t) \/ JoinRefused(t) \/ Return(t)
  PROVE  DecideStep
<1>1. UNCHANGED mark /\ task[t].pc = "step" /\ \E r : Conclude(t, r)
  BY DEF Diverge, RaceOfNone, JoinRefused, Return, At
<1> QED
  BY <1>1, ConcludeDecides

LEMMA ResumeDecides ==
  ASSUME TreeInv, DecideInv, NEW t \in Tasks, Resume(t) \/ Joined(t)
  PROVE  DecideStep
<1>1. UNCHANGED mark /\ task[t].pc \in {"leaving", "joining"}
  BY DEF Resume, Joined
<1>2. \/ \E r : Conclude(t, r)
      \/ UNCHANGED stream /\ \E r : task' = [task EXCEPT ![t] = Resumed(@, r)]
  BY DEF Resume, Joined
<1>3. CASE \E r : Conclude(t, r)
  BY <1>1, <1>3, ConcludeDecides
<1>4. ASSUME NEW r, UNCHANGED stream, task' = [task EXCEPT ![t] = Resumed(@, r)]
      PROVE  DecideStep
  <2>1. DOMAIN task = Tasks /\ DOMAIN task[t] = DOMAIN Unborn
    BY DEF TreeInv, ShapeInv
  <2>2. /\ \A u \in Tasks \ {t} : task'[u] = task[u]
        /\ task'[t].pc = "step" /\ task'[t].role = task[t].role
    BY <1>4, <2>1 DEF Resumed, Unborn
  <2> QED
    BY <1>1, <1>4, <2>2, SoloDecides DEF LogGrows, EndInv
<1> QED
  BY <1>2, <1>3, <1>4

\* A coroutine just created.
LEMMA FreshDecides ==
  ASSUME NEW c \in Tasks, NEW role, task'[c] = Fresh(c, role)
  PROVE  /\ task'[c].pc \in {"step", "closing"} /\ task'[c].role = role
         /\ EndInv(c)'
<1>1. /\ task'[c].pc = "step" \/ (task'[c].pc = "closing" /\ task'[c].result = Cancelled)
      /\ task'[c].role = role
  BY DEF Fresh
<1> QED
  BY <1>1 DEF EndInv, Cancelled

\* Nobody's branch is born or changed into one that has ended.
LEMMA NoArrivals ==
  ASSUME TreeInv, NEW t \in Tasks,
         \A c \in Tasks : task'[c].pc = "ended" =>
           task[c].pc = "ended" \/ (c # Root /\ Parent(c) = t)
  PROVE  \A u \in Tasks \ {t} : Arrivals(u)
BY BranchFacts DEF Arrivals

LEMMA NumberFree ==
  ASSUME TreeInv, NEW t \in Tasks, NEW k \in Nat, k >= task[t].count, Child(t, k) \in Tasks
  PROVE  /\ task[Child(t, k)].pc = "unborn" /\ ~ task[Child(t, k)].closed
         /\ Child(t, k) # Root /\ Child(t, k) # t /\ Parent(Child(t, k)) = t
<1>1. /\ Child(t, k) # Root /\ Child(t, k) # t /\ Parent(Child(t, k)) = t
      /\ Child(t, k)[Len(Child(t, k))] = k
  BY ChildFacts
<1> QED
  BY <1>1 DEF TreeInv, BirthInv, CloseInv

LEMMA SpawnDecides ==
  ASSUME TreeInv, DecideInv, NEW t \in Tasks, Spawn(t)
  PROVE  DecideStep
<1> SUFFICES ASSUME NEW c, c = Child(t, task[t].count) PROVE DecideStep
  OBVIOUS
<1>1. /\ DOMAIN task = Tasks /\ DOMAIN task[t] = DOMAIN Unborn
      /\ task[t].pc = "step" /\ task[t].count \in Nat /\ c \in Tasks
  BY DEF Spawn, At, TreeInv, ShapeInv
<1>2. task[c].pc = "unborn" /\ c # Root /\ c # t /\ Parent(c) = t
  BY <1>1, NumberFree
<1>3. /\ task'[t] = [Resumed(task[t], Handle(c)) EXCEPT !.count = task[t].count + 1]
      /\ task'[c] = Fresh(c, "spawned")
      /\ \A u \in Tasks \ {t, c} : task'[u] = task[u]
  <2> DEFINE x == [Resumed(task[t], Handle(c)) EXCEPT !.count = task[t].count + 1]
             y == Fresh(c, "spawned")
  <2>1. task' = [task EXCEPT ![t] = x, ![c] = y]
    BY DEF Spawn
  <2> HIDE DEF x, y
  <2>2. task'[t] = x /\ task'[c] = y /\ \A u \in Tasks \ {t, c} : task'[u] = task[u]
    BY <1>1, <1>2, <2>1, ExceptTwo
  <2> QED
    BY <2>2 DEF x, y
<1>4. task'[t].pc = "step" /\ task'[t].role = task[t].role
  BY <1>1, <1>3 DEF Resumed, Unborn
<1>5. task'[c].pc \in {"step", "closing"} /\ EndInv(c)'
  BY <1>1, <1>3, FreshDecides
<1>6. Turn(t) /\ Turn(c)
  BY <1>1, <1>2, <1>4, <1>5 DEF Turn, EndInv
<1>7. \A u \in Tasks \ {t} : Arrivals(u)
  <2>1. \A u \in Tasks : task'[u].pc = "ended" => task[u].pc = "ended"
    BY <1>3, <1>4, <1>5
  <2> QED
    BY <2>1, NoArrivals
<1>8. LogGrows
  BY DEF Spawn, LogGrows
<1> QED
  BY <1>3, <1>6, <1>7, <1>8 DEF DecideStep

LEMMA BindFailsDecides ==
  ASSUME TreeInv, DecideInv, NEW t \in Tasks, BindFails(t)
  PROVE  DecideStep
<1> DEFINE r == Error("ScopeBindingEffectError")
<1> SUFFICES ASSUME NEW c, c = Child(t, task[t].count) PROVE DecideStep
  OBVIOUS
<1>1. /\ DOMAIN task = Tasks /\ DOMAIN task[t] = DOMAIN Unborn
      /\ task[t].pc = "step" /\ task[t].count \in Nat /\ c \in Tasks
  BY DEF BindFails, At, TreeInv, ShapeInv
<1>2. task[c].pc = "unborn" /\ ~ task[c].closed /\ c # Root /\ c # t /\ Parent(c) = t
  BY <1>1, NumberFree
<1>3. /\ task'[t] = [Resumed(task[t], r) EXCEPT !.count = task[t].count + 1]
      /\ task'[c] = [Fresh(c, "branch") EXCEPT !.pc = "ended", !.result = r]
      /\ \A u \in Tasks \ {t, c} : task'[u] = task[u]
  <2> DEFINE x == [Resumed(task[t], r) EXCEPT !.count = task[t].count + 1]
             y == [Fresh(c, "branch") EXCEPT !.pc = "ended", !.result = r]
  <2>1. task' = [task EXCEPT ![t] = x, ![c] = y]
    BY DEF BindFails
  <2> HIDE DEF x, y, r
  <2>2. task'[t] = x /\ task'[c] = y /\ \A u \in Tasks \ {t, c} : task'[u] = task[u]
    BY <1>1, <1>2, <2>1, ExceptTwo
  <2> QED
    BY <2>2 DEF x, y
<1>4. task'[t].pc = "step" /\ task'[t].role = task[t].role
  BY <1>1, <1>3 DEF Resumed, Unborn
<1>5. task'[c].pc = "ended" /\ task'[c].result = r
  BY <1>3 DEF Fresh
<1>6. LogGrows /\ (HasClose(c)' \/ CloseOf(c)' = r)
  BY <1>1, <1>2, CloseRecorded DEF BindFails
<1>7. EndInv(c)'
  BY <1>5, <1>6 DEF EndInv, OnRecord
<1>8. Turn(t) /\ Turn(c)
  BY <1>1, <1>2, <1>4, <1>5, <1>7 DEF Turn, EndInv
<1>9. \A u \in Tasks \ {t} : Arrivals(u)
  <2>1. \A u \in Tasks : task'[u].pc = "ended" => task[u].pc = "ended" \/ u = c
    BY <1>3, <1>4
  <2> QED
    BY <1>2, <2>1, NoArrivals
<1> QED
  BY <1>3, <1>6, <1>8, <1>9 DEF DecideStep

LEMMA ForkDecides ==
  ASSUME TreeInv, DecideInv, NEW t \in Tasks, Fork(t)
  PROVE  DecideStep
<1> DEFINE step == StepOf(t)
           first == task[t].count
           born == {Child(t, k) : k \in first .. first + Width(step) - 1}
<1>1. /\ Width(step) \in Nat /\ born \subseteq Tasks /\ first \in Nat
      /\ task[t].pc = "step" /\ UNCHANGED <<stream, mark>>
      /\ step.kind \in {"all", "race", "timebox", "scope"}
      /\ task' = [c \in Tasks |->
          IF c = t THEN [task[t] EXCEPT !.pc = "compound", !.kind = step.kind,
                           !.settled = Pending, !.base = first, !.count = first + Width(step)]
          ELSE IF c \in born THEN Fresh(c, Role(step, c[Len(c)] - first))
          ELSE task[c]]
  BY DEF Fork, At, TreeInv, ShapeInv
<1>2. DOMAIN task = Tasks /\ DOMAIN task[t] = DOMAIN Unborn
  BY DEF TreeInv, ShapeInv
<1>3. \A c \in born : c \in Tasks /\ task[c].pc = "unborn" /\ c # Root /\ c # t /\ Parent(c) = t
  <2> SUFFICES ASSUME NEW k \in first .. first + Width(step) - 1
               PROVE  /\ Child(t, k) \in Tasks /\ task[Child(t, k)].pc = "unborn"
                      /\ Child(t, k) # Root /\ Child(t, k) # t /\ Parent(Child(t, k)) = t
    OBVIOUS
  <2>1. k \in Nat /\ k >= task[t].count /\ Child(t, k) \in born
    BY <1>1
  <2> HIDE DEF born
  <2> QED
    BY <1>1, <2>1, NumberFree
<1> HIDE DEF born
<1>4. /\ task'[t] = [task[t] EXCEPT !.pc = "compound", !.kind = step.kind,
                       !.settled = Pending, !.base = first, !.count = first + Width(step)]
      /\ \A c \in born : task'[c] = Fresh(c, Role(step, c[Len(c)] - first))
      /\ \A u \in Tasks : u # t /\ u \notin born => task'[u] = task[u]
  <2> HIDE DEF step, first
  <2> QED
    BY <1>1, <1>3
<1>5. /\ task'[t].pc = "compound" /\ task'[t].kind = step.kind /\ task'[t].role = task[t].role
      /\ task'[t].base = first /\ task'[t].count = first + Width(step)
  BY <1>2, <1>4 DEF Unborn
<1>6. \A c \in born : /\ task'[c].pc \in {"step", "closing"} /\ EndInv(c)'
                      /\ task'[c].role # "spawned"
  <2> SUFFICES ASSUME NEW c \in born
               PROVE  /\ task'[c].pc \in {"step", "closing"} /\ EndInv(c)'
                      /\ task'[c].role # "spawned"
    OBVIOUS
  <2>1. PICK role : role = Role(step, c[Len(c)] - first)
    OBVIOUS
  <2>2. role # "spawned"
    BY <2>1 DEF Role
  <2>3. c \in Tasks /\ task'[c] = Fresh(c, role)
    BY <1>3, <1>4, <2>1
  <2> QED
    BY <2>2, <2>3, FreshDecides
<1>7. Branches(t)' = born
  <2> HIDE DEF step
  <2>1. first + Width(step) - 1 = task'[t].count - 1
    BY <1>1, <1>5
  <2> QED
    BY <1>5, <2>1, Zenon DEF Branches, born
<1>8. OperationInv(t)'
  BY <1>1, <1>5, <1>6, <1>7 DEF OperationInv
<1>9. Turn(t) /\ \A c \in born : Turn(c)
  BY <1>1, <1>3, <1>5, <1>6, <1>8 DEF Turn, EndInv, Decided
<1>10. \A u \in Tasks \ {t} : Arrivals(u)
  BY <1>3, <1>4, <1>5, <1>6, NoArrivals
<1>11. LogGrows
  BY <1>1 DEF LogGrows
<1> QED
  BY <1>4, <1>9, <1>10, <1>11 DEF DecideStep

\* An operation that has settled.
LEMMA SettledFields ==
  ASSUME NEW p, NEW y, DOMAIN task[p] = DOMAIN Unborn,
         task'[p] = [task[p] EXCEPT !.pc = "leaving", !.settled = y]
  PROVE  /\ task'[p].settled = y /\ task'[p].kind = task[p].kind
         /\ task'[p].base = task[p].base /\ task'[p].count = task[p].count
BY DEF Unborn

\* What an orchestrator makes of the end of its branch t is what t came to, or
\* all of the branches.
LEMMA OutcomeDecides ==
  ASSUME TreeInv, TreeInv', DecideInv, LogGrows, NEW p \in Tasks, NEW t \in Branches(p),
         task[p].pc = "compound", task[t].pc \in {"closing", "halting"},
         ~ task[t].result.status = "threw", Outcome(Ended(t), p, t) # Pending,
         task'[t] = [task[t] EXCEPT !.pc = "ended"], EndInv(t)',
         \A u \in Tasks \ {t, p} : task'[u] = task[u],
         task'[p].settled = Outcome(Ended(t), p, t), task'[p].kind = task[p].kind,
         task'[p].base = task[p].base, task'[p].count = task[p].count
  PROVE  Decided(p)'
<1> DEFINE made == Outcome(Ended(t), p, t)
           r == task[t].result
           n == task[p].count - task[p].base
           branch(k) == Child(p, task[p].base + k - 1)
<1>1. /\ t \in Tasks /\ p # t
      /\ DOMAIN task = Tasks /\ \A u \in Tasks : DOMAIN task[u] = DOMAIN Unborn
      /\ task[p].count \in Nat /\ task[p].base \in Nat
  BY BranchFacts DEF TreeInv, ShapeInv
<1>2. /\ DOMAIN Ended(t) = Tasks /\ Ended(t)[t] = [task[t] EXCEPT !.pc = "ended"]
      /\ \A u \in Tasks \ {t} : Ended(t)[u] = task[u]
  BY <1>1 DEF Ended
<1>3. \A u \in Tasks \ {t, p} : task'[u] = task[u]
  OBVIOUS
<1>4. /\ task'[p].settled = made /\ task'[p].kind = task[p].kind
      /\ task'[p].base = task[p].base /\ task'[p].count = task[p].count
      /\ task'[t].pc = "ended" /\ task'[t].result = r /\ task'[t].role = task[t].role
  BY <1>1 DEF Unborn
<1>5. Branches(p)' = Branches(p)
  BY <1>4 DEF Branches
<1>6. \A b \in Branches(p) : b \in Tasks /\ b # p
  BY BranchFacts
<1>7. /\ \A b \in Branches(p) : \E k \in 1 .. n : b = branch(k)
      /\ \A k \in 1 .. n : branch(k) \in Branches(p)
  <2>1. ASSUME NEW b \in Branches(p) PROVE \E k \in 1 .. n : b = branch(k)
    <3>1. PICK i \in task[p].base .. task[p].count - 1 : b = Child(p, i)
      BY DEF Branches
    <3>2. i - task[p].base + 1 \in 1 .. n /\ task[p].base + (i - task[p].base + 1) - 1 = i
      BY <1>1
    <3> QED
      BY <3>1, <3>2
  <2>2. ASSUME NEW k \in 1 .. n PROVE branch(k) \in Branches(p)
    <3>1. task[p].base + k - 1 \in task[p].base .. task[p].count - 1
      BY <1>1
    <3> QED
      BY <3>1 DEF Branches
  <2> QED
    BY <2>1, <2>2
<1> DEFINE results == [k \in 1 .. n |->
                         LET b == Ended(t)[branch(k)] IN
                         IF b.pc = "ended" THEN b.result ELSE Pending]
<1>8. \A k \in 1 .. n :
        \/ task'[branch(k)].pc = "ended" /\ results[k] = task'[branch(k)].result
        \/ results[k] = Pending
  <2> SUFFICES ASSUME NEW k \in 1 .. n
               PROVE  \/ task'[branch(k)].pc = "ended" /\ results[k] = task'[branch(k)].result
                      \/ results[k] = Pending
    OBVIOUS
  <2>1. PICK b : b = branch(k)
    OBVIOUS
  <2>2. b \in Tasks /\ b # p
    BY <1>6, <1>7, <2>1
  <2>3. Ended(t)[b].pc = task'[b].pc /\ Ended(t)[b].result = task'[b].result
    BY <1>2, <1>3, <2>2
  <2>4. results[k] = IF Ended(t)[b].pc = "ended" THEN Ended(t)[b].result ELSE Pending
    BY <2>1
  <2> QED
    BY <2>1, <2>3, <2>4
<1>9. /\ Ended(t)[t].result = r /\ Ended(t)[t].role = task[t].role
      /\ Ended(t)[p] = task[p]
  BY <1>1, <1>2 DEF Unborn
<1>10. made = CASE task[p].kind = "all" -> AllOutcome(results, r)
                   [] task[p].kind = "race" -> RaceOutcome(results, r)
                   [] task[p].kind = "timebox" -> TimeboxOutcome(task[t].role, r)
                   [] task[p].kind = "scope" -> ErrorOf(r)
  BY <1>9 DEF Outcome
<1> HIDE DEF made, results, r, branch, n
<1>11. r.status \in {"ok", "error"} => OnRecord(t)'
  BY <1>4 DEF EndInv
<1>12. task[p].kind \in {"all", "race", "timebox", "scope"}
  BY DEF DecideInv, OperationInv
<1>13. r.status # "threw" /\ made # Pending
  BY DEF r, made
<1>14. SUFFICES \E c \in Branches(p) : DecidedBy(p, c)'
  BY <1>5 DEF Decided
<1>15. CASE task[p].kind = "all"
  <2>1. made = AllOutcome(results, r)
    BY <1>10, <1>15
  <2>2. CASE r.status = "error"
    <3>1. made = r
      BY <2>1, <2>2 DEF AllOutcome
    <3>2. DecidedBy(p, t)'
      BY <1>4, <1>11, <1>15, <2>2, <3>1 DEF DecidedBy
    <3> QED
      BY <3>2
  <2>3. CASE r.status # "error"
    <3>1. Returned(results) /\ made = Values(results)
      BY <1>13, <2>1, <2>3 DEF AllOutcome
    <3>2. made.status = "ok"
      BY <3>1 DEF Values, Collected
    <3>3. ASSUME NEW b \in Branches(p) PROVE task'[b].pc = "ended" /\ ~ Failed(b)'
      <4>1. PICK k \in 1 .. n : b = branch(k)
        BY <1>7
      <4>2. results[k] # Pending
        BY <3>1 DEF Returned, results
      <4>3. task'[b].pc = "ended"
        BY <1>8, <4>1, <4>2
      <4>4. CASE b = t
        BY <1>4, <1>13, <2>3, <4>3, <4>4 DEF Failed
      <4>5. CASE b # t
        <5>1. task'[b] = task[b]
          BY <1>3, <1>6, <4>5
        <5>2. Undecided(p, task[b].result)
          BY <4>3, <5>1 DEF DecideInv, OperationInv
        <5> QED
          BY <1>15, <4>3, <5>1, <5>2 DEF Undecided, Failed
      <4> QED
        BY <4>4, <4>5
    <3>4. DecidedBy(p, t)'
      BY <1>4, <1>5, <1>11, <1>15, <3>2, <3>3 DEF DecidedBy
    <3> QED
      BY <3>4
  <2> QED
    BY <2>2, <2>3
<1>16. CASE task[p].kind = "race"
  <2>1. made = RaceOutcome(results, r)
    BY <1>10, <1>16
  <2>2. CASE r.status = "ok"
    <3>1. made = r
      BY <2>1, <2>2 DEF RaceOutcome
    <3>2. DecidedBy(p, t)'
      BY <1>4, <1>11, <1>16, <2>2, <3>1 DEF DecidedBy
    <3> QED
      BY <3>2
  <2>3. CASE r.status # "ok"
    <3>1. /\ \A k \in 1 .. n : results[k].status = "error"
          /\ made = results[1]
      BY <1>13, <2>1, <2>3 DEF RaceOutcome, results
    <3>2. ASSUME NEW k \in 1 .. n
          PROVE  /\ task'[branch(k)].pc = "ended" /\ results[k] = task'[branch(k)].result
                 /\ task'[branch(k)].result.status = "error"
      <4>1. results[k].status = "error" /\ Pending.status = "pending"
        BY <3>1 DEF Pending
      <4>2. results[k] # Pending
        BY <4>1
      <4> QED
        BY <1>8, <4>1, <4>2
    <3>3. \A b \in Branches(p) : task'[b].pc = "ended" /\ Failed(b)'
      BY <1>7, <3>2 DEF Failed
    <3>4. 1 \in 1 .. n
      BY <1>1, <1>7 DEF n
    <3>5. PICK c \in Branches(p) : c = branch(1)
      BY <1>7, <3>4
    <3>6. EndInv(c)'
      <4>1. CASE c = t
        BY <4>1
      <4>2. CASE c # t
        BY <1>3, <1>6, <4>2, ReturnStays DEF DecideInv
      <4> QED
        BY <4>1, <4>2
    <3>7. /\ task'[c].pc = "ended" /\ task'[c].result.status = "error"
          /\ made = task'[c].result
      BY <3>1, <3>2, <3>4, <3>5
    <3>8. DecidedBy(p, c)'
      BY <1>4, <1>5, <3>3, <3>6, <3>7 DEF DecidedBy, EndInv
    <3> QED
      BY <3>8
  <2> QED
    BY <2>2, <2>3
<1>17. CASE task[p].kind \in {"timebox", "scope"}
  <2>1. \/ r.status # "ok" /\ made = ErrorOf(r)
        \/ r.status = "ok" /\ task[p].kind = "scope" /\ made = r
        \/ /\ r.status = "ok" /\ task[p].kind = "timebox"
           /\ made = IF task[t].role = "body" THEN Completed(r) ELSE TimedOut
    BY <1>10, <1>17 DEF TimeboxOutcome, ErrorOf, Cancelled
  <2>2. DecidedBy(p, t)'
    BY <1>4, <1>11, <1>17, <2>1 DEF DecidedBy
  <2> QED
    BY <2>2
<1> QED
  BY <1>12, <1>15, <1>16, <1>17

\* A coroutine ends and tells its parent, if it was not halted: the operation of
\* the parent is decided, or the end decides nothing; the parent of a spawned
\* child that failed is halted.
LEMMA EndingDecides ==
  ASSUME TreeInv, TreeInv', DecideInv, LogGrows, NEW t \in Tasks,
         \/ task[t].pc = "closing" /\ task' = Reported(t)
         \/ /\ task[t].pc = "halting"
            /\ task' = IF task[t].result = Cancelled THEN Ended(t) ELSE Reported(t)
  PROVE  DecideStep
<1> DEFINE r == task[t].result
           p == Parent(t)
<1>1. DOMAIN task = Tasks /\ \A u \in Tasks : DOMAIN task[u] = DOMAIN Unborn
  BY DEF TreeInv, ShapeInv
<1>2. /\ DOMAIN Ended(t) = Tasks /\ Ended(t)[t] = [task[t] EXCEPT !.pc = "ended"]
      /\ \A u \in Tasks \ {t} : Ended(t)[u] = task[u]
  BY <1>1 DEF Ended
<1>3. /\ Ended(t)[t].pc = "ended" /\ Ended(t)[t].result = r
      /\ Ended(t)[t].role = task[t].role
  BY <1>1, <1>2 DEF Unborn
<1>4. task[t].pc \in {"closing", "ended"} => Closes(t) # {}
  BY DEF TreeInv, CloseInv
<1>5. ASSUME task'[t] = [task[t] EXCEPT !.pc = "ended"]
      PROVE  EndInv(t)' /\ Turn(t) /\ task'[t].pc = "ended" /\ task'[t].result = r
  <2>1. task'[t].pc = "ended" /\ task'[t].result = r /\ task'[t].role = task[t].role
    BY <1>1, <1>5 DEF Unborn
  <2>2. CASE task[t].pc = "closing"
    <3>1. OnRecord(t) => OnRecord(t)'
      BY <1>4, <2>1, <2>2, RecordStays DEF OnRecord
    <3> QED
      BY <2>1, <2>2, <3>1 DEF DecideInv, EndInv, Turn
  <2>3. CASE task[t].pc = "halting"
    BY <2>1, <2>3 DEF DecideInv, EndInv, Turn
  <2> QED
    BY <2>1, <2>2, <2>3
\* The parent is left alone: then the end decides nothing.
<1>6. ASSUME task' = Ended(t),
             t # Root /\ task[p].pc = "compound" /\ t \in Branches(p) => Undecided(p, r)
      PROVE  DecideStep
  <2>1. Turn(t) /\ task'[t].result = r
    BY <1>2, <1>5, <1>6
  <2>2. ASSUME NEW u \in Tasks, task[u].pc = "compound" PROVE Arrivals(u)
    BY <1>2, <1>6, <2>1, <2>2, BranchFacts DEF Arrivals
  <2> QED
    BY <1>2, <1>6, <2>1, <2>2 DEF DecideStep
\* The parent changes: it is halted, or its operation is decided.
<1>7. ASSUME t # Root, NEW x, task' = [Ended(t) EXCEPT ![p] = x], Turn(p), x.pc # "ended"
      PROVE  DecideStep
  <2>1. p \in Tasks /\ p # t
    BY <1>7, ParentFacts
  <2>2. /\ task'[t] = [task[t] EXCEPT !.pc = "ended"] /\ task'[p] = x
        /\ \A u \in Tasks \ {t, p} : task'[u] = task[u]
    BY <1>2, <1>7, <2>1
  <2>3. Turn(t)
    BY <1>5, <2>2
  <2>4. \A u \in Tasks : task'[u].pc = "ended" => task[u].pc = "ended" \/ u = t
    BY <1>7, <2>2
  <2>5. \A u \in Tasks \ {p} : Arrivals(u)
    BY <1>7, <2>1, <2>4, NoArrivals
  <2> QED
    BY <1>7, <2>2, <2>3, <2>5 DEF DecideStep
<1>8. CASE task' = Ended(t) /\ (t = Root \/ r = Cancelled)
  BY <1>6, <1>8 DEF Undecided, Cancelled
<1>9. CASE t # Root /\ task' = Report(Ended(t), t)
  <2> DEFINE ts == Ended(t)
             spawned == task[t].role = "spawned"
             fails == r.status = "threw" \/ (spawned /\ r.status = "error")
             stops == fails /\ spawned /\ task[p].pc \notin {"halting", "ended"}
             throws == fails /\ ~ spawned /\ task[p].pc \in {"compound", "leaving"}
             settles == ~ fails /\ ~ spawned /\ task[p].pc = "compound" /\ Outcome(ts, p, t) # Pending
  <2>1. p \in Tasks /\ p # t /\ task[p].pc # "unborn"
    BY <1>9, ParentFacts, ParentIsBorn
  <2>2. ts[p] = task[p]
    BY <1>2, <2>1
  <2>3. task' = CASE stops -> [ts EXCEPT ![p].pc = "halting", ![p].result = Threw(r.error)]
                  [] throws -> [ts EXCEPT ![p].pc = "leaving", ![p].settled = Error(r.error)]
                  [] settles -> [ts EXCEPT ![p].pc = "leaving", ![p].settled = Outcome(ts, p, t)]
                  [] OTHER -> ts
    BY <1>3, <1>9, <2>2 DEF Report
  <2>4. ~ spawned /\ task[p].pc \in {"compound", "leaving"} => t \in Branches(p)
    <3>1. t = Child(p, t[Len(t)]) /\ t[Len(t)] \in Nat
      BY <1>9, ParentFacts
    <3>2. t[Len(t)] < task[p].count /\ task[p].count \in Nat
      <4>1. t \in Tasks \ {Root} /\ task[t].pc # "unborn" /\ task[p].count \in Nat
        BY <1>9, <2>1 DEF TreeInv, ShapeInv
      <4>2. ~ (t[Len(t)] >= task[p].count)
        BY <4>1 DEF TreeInv, BirthInv
      <4> QED
        BY <3>1, <4>1, <4>2
    <3>3. t[Len(t)] \in 0 .. task[p].count - 1
      BY <3>1, <3>2
    <3>4. t \in Children(p)
      BY <3>1, <3>3 DEF Children
    <3> QED
      BY <2>1, <3>4 DEF TreeInv, ScopeInv
  <2>5. CASE stops
    <3> DEFINE x == [task[p] EXCEPT !.pc = "halting", !.result = Threw(r.error)]
    <3>1. task' = [ts EXCEPT ![p].pc = "halting", ![p].result = Threw(r.error)]
      BY <2>3, <2>5
    <3>2. task' = [ts EXCEPT ![p] = x]
      BY <1>2, <2>1, <2>2, <3>1
    <3>3. x.pc = "halting" /\ x.role = task[p].role /\ x.result.status = "threw"
      BY <1>1, <2>1 DEF Unborn, Threw
    <3> HIDE DEF x
    <3>4. task'[p] = x
      BY <1>2, <2>1, <3>2
    <3>5. Turn(p)
      BY <2>5, <3>3, <3>4 DEF Turn, EndInv
    <3> QED
      BY <1>7, <1>9, <3>2, <3>3, <3>5
  <2>6. ASSUME throws \/ settles, NEW y,
               task' = [ts EXCEPT ![p].pc = "leaving", ![p].settled = y], Decided(p)'
        PROVE  DecideStep
    <3> DEFINE x == [task[p] EXCEPT !.pc = "leaving", !.settled = y]
    <3>1. task' = [ts EXCEPT ![p] = x]
      BY <1>2, <2>1, <2>2, <2>6
    <3>2. /\ x.pc = "leaving" /\ x.role = task[p].role
          /\ x.base = task[p].base /\ x.count = task[p].count
      BY <1>1, <2>1 DEF Unborn
    <3> HIDE DEF x
    <3>3. task'[p] = x /\ \A u \in Tasks \ {p} : task'[u].role = task[u].role
      BY <1>2, <1>3, <2>1, <3>1
    <3>4. Branches(p)' = Branches(p)
      BY <3>2, <3>3 DEF Branches
    <3>5. \A c \in Branches(p) : c \in Tasks /\ c # p
      BY <2>1, BranchFacts
    <3>6. OperationInv(p)'
      <4>1. \A c \in Branches(p) : task[c].role # "spawned"
        BY <2>1, <2>6 DEF OperationInv, DecideInv
      <4>2. \A c \in Branches(p)' : task'[c].role # "spawned"
        BY <3>3, <3>4, <3>5, <4>1
      <4> QED
        BY <3>2, <3>3, <4>2 DEF OperationInv
    <3>7. Turn(p)
      BY <2>6, <3>2, <3>3, <3>6 DEF Turn, EndInv
    <3> QED
      BY <1>7, <1>9, <3>1, <3>2, <3>7
  <2>7. CASE throws
    <3>1. task' = [ts EXCEPT ![p].pc = "leaving", ![p].settled = Error(r.error)]
      BY <2>3, <2>7
    <3>2. /\ task'[p] = [task[p] EXCEPT !.pc = "leaving", !.settled = Error(r.error)]
          /\ task'[t] = [task[t] EXCEPT !.pc = "ended"]
      BY <1>2, <2>1, <2>2, <3>1
    <3>3. /\ task'[p].settled = Error(r.error) /\ task'[p].base = task[p].base
          /\ task'[p].count = task[p].count
          /\ task'[t].pc = "ended" /\ task'[t].result = r
      BY <1>1, <2>1, <3>2 DEF Unborn
    <3>4. t \in Branches(p)'
      BY <2>4, <2>7, <3>3 DEF Branches
    <3>5. DecidedBy(p, t)'
      BY <2>7, <3>3 DEF DecidedBy
    <3>6. Decided(p)'
      BY <3>4, <3>5 DEF Decided
    <3> QED
      BY <2>6, <2>7, <3>1, <3>6
  <2>8. CASE settles
    <3>1. task' = [ts EXCEPT ![p].pc = "leaving", ![p].settled = Outcome(ts, p, t)]
      BY <2>3, <2>8
    <3>2. task'[t] = [task[t] EXCEPT !.pc = "ended"]
      BY <1>2, <2>1, <3>1
    <3>3. EndInv(t)'
      BY <1>5, <3>2
    <3>5. PICK y : /\ y = Outcome(ts, p, t)
                   /\ task'[p] = [task[p] EXCEPT !.pc = "leaving", !.settled = y]
      BY <1>2, <2>1, <2>2, <3>1
    <3>6. /\ task'[p].settled = Outcome(ts, p, t) /\ task'[p].kind = task[p].kind
          /\ task'[p].base = task[p].base /\ task'[p].count = task[p].count
      BY <1>1, <2>1, <3>5, SettledFields
    <3>7. \A u \in Tasks \ {t, p} : task'[u] = task[u]
      BY <1>2, <2>1, <3>1
    <3>8. Decided(p)'
      BY <1>9, <2>1, <2>4, <2>8, <3>2, <3>3, <3>6, <3>7, OutcomeDecides
    <3> QED
      BY <2>6, <2>8, <3>1, <3>8
  <2>9. CASE ~ stops /\ ~ throws /\ ~ settles
    <3>1. task' = ts
      BY <2>3, <2>9
    <3>2. ASSUME task[p].pc = "compound", t \in Branches(p) PROVE Undecided(p, r)
      <4>1. ~ spawned
        BY <2>1, <3>2 DEF DecideInv, OperationInv
      <4>2. r.status # "threw" /\ Outcome(ts, p, t) = Pending
        BY <2>9, <3>2, <4>1
      <4>3. ASSUME task[p].kind = "all", r.status = "error" PROVE FALSE
        <5>1. Outcome(ts, p, t) = r
          BY <1>3, <2>2, <4>3 DEF Outcome, AllOutcome
        <5> QED
          BY <4>2, <4>3, <5>1 DEF Pending
      <4> QED
        BY <4>2, <4>3 DEF Undecided
    <3> QED
      BY <1>6, <3>1, <3>2
  <2> QED
    BY <2>5, <2>7, <2>8, <2>9
<1> QED
  BY <1>8, <1>9 DEF Reported

LEMMA FinishDecides ==
  ASSUME TreeInv, TreeInv', DecideInv, NEW t \in Tasks, Finish(t)
  PROVE  DecideStep
<1> DEFINE p == Parent(t)
           e == task[t].result.error
<1>1. task[t].pc = "closing" /\ UNCHANGED mark
  BY DEF Finish
<1>2. CASE task' = Reported(t) /\ UNCHANGED stream
  BY <1>1, <1>2, EndingDecides DEF LogGrows
<1>3. ASSUME t # Root, task[p].pc = "joining",
             NEW r, r = Threw(e) \/ r = Error(e),
             task' = [Ended(t) EXCEPT ![p].pc = "closing", ![p].closed = TRUE, ![p].result = r],
             stream' = IF HasClose(p) THEN stream
                       ELSE Append(stream, CloseEvent(p, Error(e), task[p].hist))
      PROVE  DecideStep
  <2>1. p \in Tasks /\ p # t /\ DOMAIN task = Tasks /\ DOMAIN task[t] = DOMAIN Unborn
        /\ DOMAIN task[p] = DOMAIN Unborn /\ ~ task[p].closed
    BY <1>3, ParentFacts DEF TreeInv, ShapeInv, CloseInv
  <2>2. /\ task'[t] = [task[t] EXCEPT !.pc = "ended"]
        /\ task'[p] = [task[p] EXCEPT !.pc = "closing", !.closed = TRUE, !.result = r]
        /\ \A u \in Tasks \ {t, p} : task'[u] = task[u]
    BY <1>3, <2>1 DEF Ended
  <2>3. /\ task'[t].pc = "ended" /\ task'[t].result = task[t].result
        /\ task'[t].role = task[t].role
    BY <2>1, <2>2 DEF Unborn
  <2>4. task'[p].pc = "closing" /\ task'[p].result = r /\ task'[p].role = task[p].role
    BY <2>1, <2>2 DEF Unborn
  <2>5. LogGrows /\ (HasClose(p)' \/ CloseOf(p)' = Error(e))
    BY <1>1, <1>3, <2>1, CloseRecorded
  <2>6. Turn(t)
    <3>1. Closes(t) # {}
      BY <1>1 DEF TreeInv, CloseInv
    <3>2. OnRecord(t) => OnRecord(t)'
      BY <2>3, <2>5, <3>1, RecordStays DEF OnRecord
    <3> QED
      BY <1>1, <2>3, <3>2 DEF DecideInv, EndInv, Turn
  <2>7. Turn(p)
    <3>1. EndInv(p)'
      BY <1>3, <2>4, <2>5 DEF EndInv, OnRecord, Threw
    <3> QED
      BY <1>3, <2>4, <3>1 DEF Turn
  <2>8. \A u \in Tasks \ {p} : Arrivals(u)
    <3>1. \A u \in Tasks : task'[u].pc = "ended" => task[u].pc = "ended" \/ u = t
      BY <2>2, <2>4
    <3> QED
      BY <1>3, <2>1, <3>1, NoArrivals
  <2> QED
    BY <2>2, <2>5, <2>6, <2>7, <2>8 DEF DecideStep
<1> QED
  BY <1>2, <1>3 DEF Finish

LEMMA HaltedDecides ==
  ASSUME TreeInv, TreeInv', DecideInv, NEW t \in Tasks, Halted(t)
  PROVE  DecideStep
<1>1. LogGrows
  BY DEF Halted, LogGrows
<1> QED
  BY <1>1, EndingDecides DEF Halted

LEMMA StepDecides ==
  ASSUME TreeInv, DecideInv, [Next]_vars, ~ Execute
  PROVE  DecideInv'
<1>1. TreeInv'
  BY StepKeepsInv
<1>2. CASE UNCHANGED vars
  <2>1. /\ UNCHANGED <<stream, mark, task>> /\ \A t \in Tasks : Arrivals(t)
    BY <1>2 DEF vars, Arrivals
  <2> QED
    BY <1>1, <2>1, DecisionStays DEF DecideStep, LogGrows
<1>3. CASE Halt
  <2>1. Root \in Tasks /\ DOMAIN task = Tasks /\ DOMAIN task[Root] = DOMAIN Unborn
    BY TasksAssumption DEF TreeInv, ShapeInv
  <2>2. /\ LogGrows /\ task[Root].pc # "ended"
        /\ \A u \in Tasks \ {Root} : task'[u] = task[u]
        /\ task'[Root] = [task[Root] EXCEPT !.pc = "halting", !.result = Cancelled]
    BY <1>3, <2>1 DEF Halt, LogGrows
  <2>3. /\ task'[Root].pc = "halting" /\ task'[Root].result = Cancelled
        /\ task'[Root].role = task[Root].role
    BY <2>1, <2>2 DEF Unborn
  <2>4. EndInv(Root)'
    BY <2>3 DEF EndInv, Cancelled
  <2> QED
    BY <1>1, <2>1, <2>2, <2>3, <2>4, SoloDecides, DecisionStays
<1>4. ASSUME NEW t \in Tasks, Step(t) \/ Answer(t) PROVE DecideStep
  BY <1>1, <1>4, GoesOnDecides, ConcludesDecides, ResumeDecides, SpawnDecides,
     BindFailsDecides, ForkDecides, FinishDecides, HaltedDecides DEF Step
<1> QED
  BY <1>1, <1>2, <1>3, <1>4, DecisionStays DEF Next

\* Whatever a kernel does, however its runs are cut short and replayed, what ends
\* an operation is the end of one of its own branches (orchestrateAll,
\* orchestrateRace, orchestrateTimebox, orchestrateScope).
THEOREM BranchDecidesHolds == Spec => []BranchDecides
<1> DEFINE Booted == task = BootTasks
<1>1. Booted => DecideInv
  <2> SUFFICES ASSUME Booted, NEW t \in Tasks
               PROVE  OperationInv(t) /\ EndInv(t) /\ Decided(t)
    BY DEF DecideInv
  <2>1. \/ task[t].pc \in {"unborn", "step"}
        \/ task[t].pc = "closing" /\ task[t].result = Cancelled
    BY DEF BootTasks, Fresh, Unborn
  <2> QED
    BY <2>1 DEF OperationInv, EndInv, Decided, Cancelled
<1>2. Booted' => DecideInv'
  <2> HIDE DEF Booted
  <2> QED
    BY <1>1, PTL
<1>3. Init => DecideInv
  BY <1>1 DEF Init
<1>4. TreeInv /\ DecideInv /\ [Next]_vars => DecideInv'
  BY <1>2, StepDecides DEF Execute
<1>5. DecideInv => BranchDecides
  BY DEF DecideInv, Decided, BranchDecides
<1> QED
  BY <1>3, <1>4, <1>5, TreeCorrect, PTL DEF Spec
=============================================================================
