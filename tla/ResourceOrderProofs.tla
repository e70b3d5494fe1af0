------------------------ MODULE ResourceOrderProofs ------------------------
(***************************************************************************)
(* Proofs about the order of ResourceLifecycle, for any programs, runs and *)
(* halts, over a stream whose appends take no time: the journal determines *)
(* how far a run comes, so that resources are cleaned up in reverse order, *)
(* nothing is used after its cleanup, and the owner closes last.           *)
(***************************************************************************)
EXTENDS ResourceLifecycleProofs, FiniteSetTheorems

-----------------------------------------------------------------------------
(* The places of the owner's effects *)

LEMMA BeforeFacts ==
  ASSUME TypeOK
  PROVE  /\ Before(1) = 0
         /\ \A k \in Steps : /\ Before(k) \in Nat
                             /\ Before(k + 1) = IF Performs(k) THEN Before(k) + 1 ELSE Before(k)
         /\ \A j, k \in Steps : Performs(j) /\ Performs(k) /\ Before(j) = Before(k) => j = k
<1> DEFINE Of(k) == {j \in 1 .. k - 1 : Performs(j)}
<1>1. Len(program.script) \in Nat /\ Steps = 1 .. Len(program.script)
  BY ProgramFacts DEF Steps
<1>2. \A k \in Nat : IsFiniteSet(Of(k)) /\ Before(k) = Cardinality(Of(k)) /\ Before(k) \in Nat
  <2> TAKE k \in Nat
  <2>1. IsFiniteSet(1 .. k - 1) BY FS_Interval
  <2>2. Of(k) \subseteq 1 .. k - 1 OBVIOUS
  <2>3. IsFiniteSet(Of(k)) BY <2>1, <2>2, FS_Subset
  <2>4. Before(k) = Cardinality(Of(k)) BY DEF Before
  <2> HIDE DEF Of
  <2> QED BY <2>3, <2>4, FS_CardinalityType
<1>3. Before(1) = 0
  <2>1. Of(1) = {} OBVIOUS
  <2>2. Before(1) = Cardinality(Of(1)) BY <1>2
  <2> HIDE DEF Of
  <2> QED BY <2>1, <2>2, FS_EmptySet
<1>4. ASSUME NEW k \in Steps
      PROVE  Before(k + 1) = IF Performs(k) THEN Before(k) + 1 ELSE Before(k)
  <2>1. k \in Nat /\ k + 1 \in Nat BY <1>1
  <2>2. CASE Performs(k)
    <3>0. 1 .. (k + 1) - 1 = (1 .. k - 1) \union {k} /\ k \notin 1 .. k - 1 BY <1>1
    <3>1. Of(k + 1) = Of(k) \union {k} /\ k \notin Of(k) BY <3>0, <2>2
    <3>2. /\ Before(k) = Cardinality(Of(k)) /\ Before(k + 1) = Cardinality(Of(k + 1))
          /\ IsFiniteSet(Of(k))
      BY <1>2, <2>1
    <3> HIDE DEF Of
    <3> QED BY <3>1, <3>2, <2>2, FS_AddElement
  <2>3. CASE ~ Performs(k)
    <3>1. Of(k + 1) = Of(k) BY <2>1, <2>3
    <3>2. Before(k) = Cardinality(Of(k)) /\ Before(k + 1) = Cardinality(Of(k + 1))
      BY <1>2, <2>1
    <3> HIDE DEF Of
    <3> QED BY <3>1, <3>2, <2>3
  <2> QED BY <2>2, <2>3
<1>5. ASSUME NEW j \in Steps, NEW k \in Steps, Performs(j), j < k
      PROVE  Before(j) < Before(k)
  <2>1. j \in Nat /\ k \in Nat /\ j + 1 \in Nat BY <1>1
  <2>2. Of(j + 1) \subseteq Of(k) BY <2>1, <1>5
  <2>3. Cardinality(Of(j + 1)) <= Cardinality(Of(k))
    <3>1. IsFiniteSet(Of(k)) BY <1>2, <2>1
    <3> HIDE DEF Of
    <3> QED BY <3>1, <2>2, FS_Subset
  <2>4. Before(j + 1) = Before(j) + 1 BY <1>4, <1>5
  <2>5. Before(j + 1) = Cardinality(Of(j + 1)) /\ Before(k) = Cardinality(Of(k))
        /\ Before(j) \in Nat /\ Before(k) \in Nat
    BY <1>2, <2>1
  <2> HIDE DEF Of
  <2> QED BY <2>3, <2>4, <2>5
<1>6. ASSUME NEW j \in Steps, NEW k \in Steps, Performs(j), Performs(k), Before(j) = Before(k)
      PROVE  j = k
  <2>0. j \in Nat /\ k \in Nat BY <1>1
  <2>1. Before(j) \in Nat /\ Before(k) \in Nat
    <3> HIDE DEF Of
    <3> QED BY <2>0, <1>2
  <2>2. ~ (j < k) /\ ~ (k < j) BY <1>5, <1>6, <2>1, <2>0
  <2> QED BY <2>0, <2>2
<1>7. \A k \in Steps : Before(k) \in Nat
  <2>1. Steps \subseteq Nat BY <1>1
  <2> HIDE DEF Of
  <2> QED BY <1>2, <2>1
<1> HIDE DEF Of
<1> QED BY <1>3, <1>4, <1>6, <1>7

-----------------------------------------------------------------------------
(* What is in the journal is there once *)

UniqueYield ==
  \A id \in Ids : \A n, r, s :
    Journaled(YieldEvent(id, n, r)) /\ Journaled(YieldEvent(id, n, s)) => r = s
UniqueClose ==
  \A id \in Coroutines : \A r, s :
    Journaled(CloseEvent(id, r)) /\ Journaled(CloseEvent(id, s)) => r = s

LEMMA Unique == LifecycleInv => UniqueYield /\ UniqueClose
<1> SUFFICES ASSUME LifecycleInv PROVE UniqueYield /\ UniqueClose
  OBVIOUS
<1>1. TypeOK /\ NotedInv /\ OneClose /\ Len(stream) \in Nat BY DEF LifecycleInv, TypeOK
<1>2. ASSUME NEW id \in Ids, NEW n, NEW r, NEW s,
             Journaled(YieldEvent(id, n, r)), Journaled(YieldEvent(id, n, s))
      PROVE  r = s
  <2>1. PICK a \in 1 .. Len(stream) : stream[a] = YieldEvent(id, n, r) BY <1>2 DEF Journaled
  <2>2. PICK b \in 1 .. Len(stream) : stream[b] = YieldEvent(id, n, s) BY <1>2 DEF Journaled
  <2>3. IsYield(a, id) /\ IsYield(b, id) /\ stream[a].n = n /\ stream[b].n = n
    BY <2>1, <2>2, EventFacts DEF IsYield
  <2>4. n \in Nat
    <3>1. stream[a] \in Events BY <1>1 DEF TypeOK
    <3> QED BY <3>1, <2>3, EventFacts
  <2>5. ~ (a < b) /\ ~ (b < a) BY <2>3, <2>4, <1>1 DEF NotedInv
  <2>6. a = b BY <2>5, <1>1
  <2> QED BY <2>1, <2>2, <2>6, EventFacts
<1>3. ASSUME NEW id \in Coroutines, NEW r, NEW s,
             Journaled(CloseEvent(id, r)), Journaled(CloseEvent(id, s))
      PROVE  r = s
  <2>1. PICK a \in 1 .. Len(stream) : stream[a] = CloseEvent(id, r) BY <1>3 DEF Journaled
  <2>2. PICK b \in 1 .. Len(stream) : stream[b] = CloseEvent(id, s) BY <1>3 DEF Journaled
  <2>3. IsClose(a, id) /\ IsClose(b, id) BY <2>1, <2>2, EventFacts DEF IsClose
  <2>4. a = b BY <2>3, <1>1 DEF OneClose
  <2> QED BY <2>1, <2>2, <2>4, EventFacts
<1> QED BY <1>2, <1>3 DEF UniqueYield, UniqueClose

LEMMA UniqueNext ==
  ASSUME LifecycleInv'
  PROVE  UniqueYield' /\ UniqueClose'
<1>1. (LifecycleInv => UniqueYield /\ UniqueClose)' BY Unique, PTL
<1> QED BY <1>1

-----------------------------------------------------------------------------
(* What a run reads from its index *)

\* A coroutine replays as long as there is an answer at its place.
LEMMA PeekFact ==
  ASSUME LifecycleInv, NEW id \in Ids
  PROVE  /\ PeekYield(id) = {} <=> ~ Answered(id, pos[id] + 1)
         /\ \A r \in PeekYield(id) :
              Journaled(YieldEvent(id, pos[id] + 1, r)) /\ r \in {"ok", "error"}
<1>1. TypeOK /\ NotedInv BY DEF LifecycleInv
<1>2. /\ pos[id] \in Nat /\ old \in Nat /\ Len(stream) \in Nat
      /\ \A m \in 1 .. Len(stream) : stream[m] \in Events
  BY <1>1 DEF TypeOK
<1>3. ASSUME NEW r \in PeekYield(id)
      PROVE  Journaled(YieldEvent(id, pos[id] + 1, r)) /\ r \in {"ok", "error"}
  <2>1. Journaled(YieldEvent(id, pos[id] + 1, r)) BY <1>1, StoredFact DEF PeekYield
  <2>2. PICK m \in 1 .. Len(stream) : stream[m] = YieldEvent(id, pos[id] + 1, r)
    BY <2>1 DEF Journaled
  <2>3. stream[m] \in Events /\ stream[m].type = "yield" /\ stream[m].result = r
    BY <2>2, <1>2, EventFacts
  <2> QED BY <2>1, <2>3, EventFacts
<1>4. ASSUME PeekYield(id) # {} PROVE Answered(id, pos[id] + 1)
  BY <1>3, <1>4 DEF Answered, PeekYield
<1>5. ASSUME Answered(id, pos[id] + 1) PROVE PeekYield(id) # {}
  <2>1. PICK m \in 1 .. Len(stream) : IsYield(m, id) /\ stream[m].n = pos[id] + 1
    BY <1>5, <1>1, AnsweredFact
  <2>2. m <= old
    <3>1. CASE m > old
      <4>1. m \in old + 1 .. Len(stream) BY <3>1, <1>2
      <4>2. stream[m].n <= pos[id] BY <4>1, <2>1, <1>1 DEF NotedInv
      <4> QED BY <4>2, <2>1, <1>2
    <3> QED BY <3>1, <1>2
  <2>3. stream[m] = YieldEvent(id, pos[id] + 1, stream[m].result) /\ stream[m].result \in Results
    BY <1>2, <2>1, EventFacts DEF IsYield, Results
  <2>4. stream[m].result \in PeekYield(id) BY <2>2, <2>3, <1>2 DEF PeekYield, Stored
  <2> QED BY <2>4
<1> QED BY <1>3, <1>4, <1>5

\* What is closed in the journal, but not by this run, is closed in the index.
LEMMA ClosedInIndex ==
  ASSUME LifecycleInv, NEW id \in Coroutines, NEW r, Journaled(CloseEvent(id, r)),
         id = Caller => owner.at # "closed",
         \A i \in Steps : /\ id = Res(i) => ~ ClosedNow(i)
                          /\ id = Task(i) => ~ TaskOver(i)
  PROVE  PreClose(id) = r /\ Stored(CloseEvent(id, r)) /\ r \in Closings
<1>1. TypeOK /\ NotedInv /\ UniqueClose BY Unique DEF LifecycleInv
<1>2. Len(stream) \in Nat /\ old \in 0 .. Len(stream) /\ \A m \in 1 .. Len(stream) : stream[m] \in Events
  BY <1>1 DEF TypeOK
<1>3. PICK m \in 1 .. Len(stream) : stream[m] = CloseEvent(id, r) BY DEF Journaled
<1>4. IsClose(m, id) /\ stream[m].result = r /\ r \in Closings
  BY <1>2, <1>3, EventFacts DEF IsClose
<1>5. m <= old
  <2>1. CASE m > old
    <3>1. m \in old + 1 .. Len(stream) BY <2>1, <1>2
    <3>2. /\ id = Caller => owner.at = "closed"
          /\ \A i \in Steps : /\ id = Res(i) => ClosedNow(i)
                              /\ id = Task(i) => TaskOver(i)
      BY <3>1, <1>4, <1>1 DEF NotedInv, ClosedNow, TaskOver
    <3>3. id = Caller \/ \E i \in Steps : id = Res(i) \/ id = Task(i) BY IdFacts
    <3> QED BY <3>2, <3>3
  <2> QED BY <2>1, <1>2
<1>6. Stored(CloseEvent(id, r)) BY <1>3, <1>5, <1>2 DEF Stored
<1>7. PreClose(id) # "none" /\ Stored(CloseEvent(id, PreClose(id)))
  BY <1>4, <1>6, PreCloseFacts
<1>8. Journaled(CloseEvent(id, PreClose(id))) BY <1>7, <1>1, StoredFact
<1>9. PreClose(id) = r BY <1>8, <1>1 DEF UniqueClose
<1> QED BY <1>4, <1>6, <1>9

LEMMA PreCloseStored ==
  ASSUME TypeOK, NEW id, PreClose(id) # "none"
  PROVE  /\ Stored(CloseEvent(id, PreClose(id))) /\ Journaled(CloseEvent(id, PreClose(id)))
         /\ IsClosed(id) /\ PreClose(id) \in Closings
<1>1. "none" \notin Closings BY DEF Closings, Results
<1>2. Stored(CloseEvent(id, PreClose(id))) /\ PreClose(id) \in Closings BY <1>1, PreCloseFacts
<1>3. Journaled(CloseEvent(id, PreClose(id))) BY <1>2, StoredFact
<1> QED BY <1>2, <1>3 DEF IsClosed

\* The three ways of an effect: replayed, past the end of a closed coroutine,
\* or new.
LEMMA EffectShape ==
  ASSUME LifecycleInv, NEW id \in Ids, NEW r \in Results, Effect(id, r)
  PROVE  /\ pos'[id] = pos[id] + 1
         /\ \A other \in Ids : other # id => pos'[other] = pos[other]
         /\ \/ /\ stream' = stream /\ r \in {"ok", "error"}
               /\ Journaled(YieldEvent(id, pos[id] + 1, r))
            \/ /\ stream' = stream /\ r = "diverged"
               /\ ~ Answered(id, pos[id] + 1) /\ PreClose(id) # "none"
            \/ /\ stream' = Append(stream, YieldEvent(id, pos[id] + 1, r)) /\ r \in {"ok", "error"}
               /\ ~ Answered(id, pos[id] + 1) /\ PreClose(id) = "none"
<1>1. pos \in [Ids -> Nat] BY DEF LifecycleInv, TypeOK
<1>2. pos'[id] = pos[id] + 1 /\ \A other \in Ids : other # id => pos'[other] = pos[other]
  BY <1>1 DEF Effect
<1>3. \/ r \in PeekYield(id) /\ stream' = stream
      \/ /\ PeekYield(id) = {}
         /\ \/ PreClose(id) # "none" /\ r = "diverged" /\ stream' = stream
            \/ /\ PreClose(id) = "none" /\ r \in {"ok", "error"}
               /\ stream' = Append(stream, YieldEvent(id, pos[id] + 1, r))
  BY DEF Effect
<1> QED BY <1>2, <1>3, PeekFact

-----------------------------------------------------------------------------
(* What the journal says stays said *)

Grows == program' = program /\ \A e : Journaled(e) => Journaled(e)'

LEMMA SameScript ==
  ASSUME program' = program
  PROVE  /\ Steps' = Steps /\ Ids' = Ids /\ Coroutines' = Coroutines
         /\ \A k : /\ Performs(k)' <=> Performs(k)
                   /\ Acquires(k)' <=> Acquires(k)
                   /\ Before(k)' = Before(k)
BY DEF Steps, Ids, Coroutines, Performs, Acquires, Before

LEMMA SaidOfChild ==
  ASSUME LifecycleInv, LifecycleInv', Grows, NEW k \in Steps
  PROVE  /\ \A n : Answered(Res(k), n) => Answered(Res(k), n)'
         /\ IsClosed(Res(k)) => IsClosed(Res(k))'
         /\ IsClosed(Task(k)) => IsClosed(Task(k))'
         /\ InitOk(k) => InitOk(k)'
         /\ TaskFailed(k) => TaskFailed(k)'
         /\ InitFailed(k) => InitFailed(k)'
         /\ WasProvided(k) => WasProvided(k)'
         /\ WasRefused(k) => WasRefused(k)'
         /\ Heard(k) => Heard(k)'
         /\ Acquired(k) => Acquired(k)'
<1>1. program' = program /\ Steps' = Steps /\ Ids' = Ids /\ Coroutines' = Coroutines
      /\ Res(k) \in Ids /\ Task(k) \in Coroutines
  BY SameScript, IdFacts DEF Grows
<1>2. UniqueYield' /\ UniqueClose' /\ TaskInv /\ TaskInv'
  BY UniqueNext DEF LifecycleInv
<1>3. /\ \A n : Answered(Res(k), n) => Answered(Res(k), n)'
      /\ IsClosed(Res(k)) => IsClosed(Res(k))'
      /\ IsClosed(Task(k)) => IsClosed(Task(k))'
  BY DEF Grows, Answered, IsClosed
<1>4. InitOk(k) => InitOk(k)' BY <1>1 DEF Grows, InitOk
<1>5. TaskFailed(k) => TaskFailed(k)' BY DEF Grows, TaskFailed
<1>6. ASSUME InitFailed(k) PROVE InitFailed(k)'
  <2>1. CASE TaskFailed(k) BY <2>1, <1>5 DEF InitFailed
  <2>2. CASE Answered(Res(k), 1) /\ ~ InitOk(k)
    <3>1. PICK r \in Results : Journaled(YieldEvent(Res(k), 1, r)) BY <2>2 DEF Answered
    <3>2. CASE program.body[k].init # "provide"
      <4>1. ~ InitOk(k)' BY <3>2, <1>1 DEF InitOk
      <4> QED BY <4>1, <2>2, <1>3 DEF InitFailed
    <3>3. CASE program.body[k].init = "provide"
      <4>1. r # "ok" BY <3>1, <3>3, <2>2 DEF InitOk
      <4>2. Journaled(YieldEvent(Res(k), 1, r))' BY <3>1 DEF Grows
      <4>3. ~ Journaled(YieldEvent(Res(k), 1, "ok"))'
        BY <4>1, <4>2, <1>1, <1>2 DEF UniqueYield
      <4>4. ~ InitOk(k)' BY <4>3 DEF InitOk
      <4> QED BY <4>4, <2>2, <1>3 DEF InitFailed
    <3> QED BY <3>2, <3>3
  <2> QED BY <2>1, <2>2, <1>6 DEF InitFailed
<1>7. ASSUME WasProvided(k) PROVE WasProvided(k)'
  <2>1. InitOk(k)' /\ (program.body[k].spawns => IsClosed(Task(k))')
    BY <1>7, <1>3, <1>4 DEF WasProvided
  <2>2. ASSUME TaskFailed(k)' PROVE FALSE
    <3>1. Journaled(CloseEvent(Task(k), "error"))' BY <2>2 DEF TaskFailed
    <3>2. IsClosed(Task(k))' BY <3>1 DEF IsClosed, Closings, Results
    <3>3. program.body[k].spawns BY <3>2, <1>1, <1>2 DEF TaskInv
    <3>4. PICK r \in Closings : Journaled(CloseEvent(Task(k), r))
      BY <3>3, <1>7 DEF WasProvided, IsClosed
    <3>5. Journaled(CloseEvent(Task(k), r))' BY <3>4 DEF Grows
    <3>6. r = "error" BY <3>1, <3>5, <1>1, <1>2 DEF UniqueClose
    <3> QED BY <3>4, <3>6, <1>7 DEF WasProvided, TaskFailed
  <2> QED BY <2>1, <2>2, <1>1 DEF WasProvided
<1>8. WasRefused(k) => WasRefused(k)' BY <1>6 DEF WasRefused, Grows
<1>9. (Heard(k) => Heard(k)') /\ (Acquired(k) => Acquired(k)')
  BY <1>1, <1>7, <1>8 DEF Heard, Acquired
<1> QED BY <1>3, <1>4, <1>5, <1>6, <1>7, <1>8, <1>9

LEMMA SaidOfOwner ==
  ASSUME LifecycleInv, LifecycleInv', Grows
  PROVE  /\ \A k \in Steps : (Passed(k) => Passed(k)') /\ (Left(k) => Left(k)')
         /\ \A e \in 1 .. Len(program.script) + 1 : Ended(e) => Ended(e)'
         /\ Decided => Decided'
         /\ \A r : Journaled(CloseEvent(Caller, r)) => Journaled(CloseEvent(Caller, r))'
         /\ IsClosed(Caller) => IsClosed(Caller)'
<1>1. /\ program' = program /\ Steps' = Steps
      /\ \A k : /\ Performs(k)' <=> Performs(k)
                /\ Acquires(k)' <=> Acquires(k)
                /\ Before(k)' = Before(k)
  BY SameScript DEF Grows
<1>2. \A k, r : Done(k, r) => Done(k, r)'
  BY <1>1 DEF Done, Grows, YieldEvent
<1>3. \A k \in Steps : (Passed(k) => Passed(k)') /\ (Left(k) => Left(k)')
  <2> TAKE k \in Steps
  <2>1. (Acquired(k) => Acquired(k)') /\ (WasRefused(k) => WasRefused(k)') BY SaidOfChild
  <2> QED BY <2>1, <1>1, <1>2 DEF Passed, Left
<1>4. ASSUME NEW e \in 1 .. Len(program.script) + 1, Ended(e) PROVE Ended(e)'
  <2>1. \A k \in 1 .. e - 1 : k \in Steps
    BY ProgramFacts DEF Steps, LifecycleInv
  <2>2. \A k \in 1 .. e - 1 : Passed(k)' BY <2>1, <1>3, <1>4 DEF Ended
  <2>3. e \in Steps => Left(e)' BY <1>3, <1>4 DEF Ended
  <2> QED BY <2>2, <2>3, <1>1 DEF Ended
<1>5. Decided => Decided' BY <1>1, <1>4 DEF Decided
<1> QED BY <1>3, <1>4, <1>5 DEF Grows, IsClosed

-----------------------------------------------------------------------------
(* How far a run can be *)

Awake == LifecycleInv /\ PathInv /\ RunInv /\ ~ Over

LEMMA AwakeFacts ==
  ASSUME Awake
  PROVE  /\ LifecycleInv /\ TypeOK /\ NotedInv /\ TaskInv /\ BornInv /\ PathInv /\ HaltInv /\ OwnerInv
         /\ \A i \in Steps : ChildInv(i) /\ PlaceInv(i)
         /\ UniqueYield /\ UniqueClose
         /\ Len(program.script) \in Nat /\ Steps = 1 .. Len(program.script)
         /\ owner.pc \in 1 .. Len(program.script) + 1
BY Unique, ProgramFacts DEF Awake, LifecycleInv, RunInv, TypeOK, Steps

LEMMA PassedNotLeft ==
  ASSUME LifecycleInv, NEW k \in Steps, Passed(k), Left(k)
  PROVE  FALSE
<1>1. UniqueYield /\ Caller \in Ids BY Unique, IdFacts
<1>2. CASE Acquires(k) /\ ~ Performs(k) /\ ~ program.catches /\ WasRefused(k)
  BY <1>2 DEF Passed, Acquired, WasProvided, WasRefused, InitFailed
<1>3. CASE Performs(k) /\ Done(k, "error")
  BY <1>1, <1>3 DEF Passed, Done, UniqueYield
<1> QED BY <1>2, <1>3 DEF Left

\* A run is never ahead of the owner's way in the journal.
LEMMA Frontier ==
  ASSUME Awake, NEW e \in 1 .. Len(program.script) + 1, Ended(e)
  PROVE  /\ owner.pc <= e
         /\ owner.pc < e => Passed(owner.pc)
         /\ owner.pc = e /\ owner.pc \in Steps => Left(owner.pc)
<1>1. /\ LifecycleInv /\ OwnerInv /\ Len(program.script) \in Nat /\ Steps = 1 .. Len(program.script)
      /\ owner.pc \in 1 .. Len(program.script) + 1
  BY AwakeFacts
<1>2. owner.pc <= e
  <2>1. CASE e < owner.pc
    <3>1. e \in Steps /\ e \in 1 .. owner.pc - 1 BY <2>1, <1>1
    <3>2. Passed(e) /\ Left(e) BY <3>1, <1>1 DEF OwnerInv, Ended
    <3> QED BY <3>1, <3>2, <1>1, PassedNotLeft
  <2> QED BY <2>1, <1>1
<1>3. ASSUME owner.pc < e PROVE Passed(owner.pc)
  <2>1. owner.pc \in 1 .. e - 1 BY <1>1, <1>3
  <2> QED BY <2>1 DEF Ended
<1> QED BY <1>2, <1>3 DEF Ended

\* What a run has acquired, the journal of a decided owner has answered.
LEMMA BornDecided ==
  ASSUME Awake, Decided, NEW i \in Steps, child[i].phase # "unborn"
  PROVE  WasProvided(i) \/ WasRefused(i)
<1>1. PICK e \in 1 .. Len(program.script) + 1 : Ended(e) BY DEF Decided
<1>2. /\ PathInv /\ BornInv /\ ChildInv(i) /\ Steps = 1 .. Len(program.script)
      /\ owner.pc \in 1 .. Len(program.script) + 1 /\ Len(program.script) \in Nat
  BY AwakeFacts
<1>3. owner.pc <= e BY <1>1, Frontier
<1>4. i <= owner.pc BY <1>2 DEF BornInv
<1>5. Acquires(i) BY <1>2 DEF ChildInv
<1>6. CASE i < e
  <2>1. i \in 1 .. e - 1 BY <1>6, <1>2
  <2>2. Passed(i) BY <2>1, <1>1 DEF Ended
  <2> QED BY <2>2, <1>5 DEF Passed, Acquired
<1>7. CASE i = e
  <2>1. Left(i) BY <1>7, <1>1 DEF Ended
  <2>2. CASE WasRefused(i) BY <2>2
  <2>3. CASE Performs(i) /\ Done(i, "error")
    <3>1. Answered(Caller, Before(i) + 1) BY <2>3 DEF Done, Answered, Results
    <3>2. Heard(i) BY <3>1, <2>3, <1>2, <1>5 DEF PathInv
    <3> QED BY <3>2 DEF Heard
  <2> QED BY <2>1, <2>2, <2>3 DEF Left
<1> QED BY <1>2, <1>3, <1>4, <1>6, <1>7

LEMMA CallerClosed ==
  ASSUME Awake, IsClosed(Caller)
  PROVE  /\ Decided
         /\ \A i \in Steps : Answered(Res(i), 1) => IsClosed(Res(i))
<1>1. TypeOK /\ PathInv BY AwakeFacts
<1>2. PICK m \in 1 .. Len(stream) : IsClose(m, Caller) BY <1>1, IsClosedFact
<1>3. stream[m].result # "cancelled"
  <2>1. ASSUME stream[m].result = "cancelled" PROVE FALSE
    <3>1. stream[m] \in Events BY <1>1 DEF TypeOK
    <3>2. stream[m] = CloseEvent(Caller, "cancelled") BY <3>1, <2>1, <1>2, EventFacts DEF IsClose
    <3> QED BY <3>2 DEF Journaled, Awake, Over, Cancelled
  <2> QED BY <2>1
<1> QED BY <1>1, <1>2, <1>3 DEF PathInv

LEMMA BornClosed ==
  ASSUME Awake, IsClosed(Caller), NEW i \in Steps, child[i].phase # "unborn"
  PROVE  IsClosed(Res(i))
<1>1. Decided /\ (Answered(Res(i), 1) => IsClosed(Res(i))) BY CallerClosed
<1>2. CASE WasProvided(i)
  <2>1. Answered(Res(i), 1) BY <1>2 DEF WasProvided, InitOk, Answered, Results
  <2> QED BY <2>1, <1>1
<1>3. CASE WasRefused(i)
  BY <1>3 DEF WasRefused, IsClosed, Closings, Results
<1> QED BY <1>1, <1>2, <1>3, BornDecided

\* Nothing is added for a child of an owner that was closed.
LEMMA NothingLate ==
  ASSUME Awake, NEW i \in Steps, child[i].phase \notin {"unborn", "closed", "dead"},
         IsClosed(Caller)
  PROVE  /\ PreClose(Res(i)) # "none"
         /\ task[i] = "running" => PreClose(Task(i)) # "none"
<1>1. LifecycleInv /\ TaskInv BY AwakeFacts
<1>2. IsClosed(Res(i)) BY BornClosed
<1>3. "none" \notin Closings BY DEF Closings, Results
<1>4. PreClose(Res(i)) # "none"
  <2>1. PICK r \in Closings : Journaled(CloseEvent(Res(i), r)) BY <1>2 DEF IsClosed
  <2>2. Res(i) \in Coroutines /\ Res(i) # Caller /\ (\A j \in Steps : Res(i) # Task(j))
        /\ \A j \in Steps : Res(i) = Res(j) => i = j
    BY IdFacts
  <2>3. ~ ClosedNow(i) BY DEF ClosedNow
  <2>4. PreClose(Res(i)) = r BY <1>1, <2>1, <2>2, <2>3, ClosedInIndex
  <2> QED BY <2>4, <2>1, <1>3
<1>5. ASSUME task[i] = "running" PROVE PreClose(Task(i)) # "none"
  <2>1. IsClosed(Task(i)) BY <1>5, <1>1, <1>2 DEF TaskInv
  <2>2. PICK r \in Closings : Journaled(CloseEvent(Task(i), r)) BY <2>1 DEF IsClosed
  <2>3. Task(i) \in Coroutines /\ Task(i) # Caller /\ (\A j \in Steps : Task(i) # Res(j))
        /\ \A j \in Steps : Task(i) = Task(j) => i = j
    BY IdFacts
  <2>4. ~ TaskOver(i) BY <1>5 DEF TaskOver
  <2>5. PreClose(Task(i)) = r BY <1>1, <2>2, <2>3, <2>4, ClosedInIndex
  <2> QED BY <2>5, <2>2, <1>3
<1> QED BY <1>4, <1>5

\* What is closed of a child that goes on was closed by an earlier run.
LEMMA ResIndex ==
  ASSUME LifecycleInv, NEW i \in Steps, ~ ClosedNow(i), NEW r, Journaled(CloseEvent(Res(i), r))
  PROVE  PreClose(Res(i)) = r /\ Stored(CloseEvent(Res(i), r)) /\ r \in Closings
<1>1. Res(i) \in Coroutines /\ Res(i) # Caller /\ (\A j \in Steps : Res(i) # Task(j))
      /\ \A j \in Steps : Res(i) = Res(j) => i = j
  BY IdFacts
<1> QED BY <1>1, ClosedInIndex

LEMMA TaskIndex ==
  ASSUME LifecycleInv, NEW i \in Steps, ~ TaskOver(i), NEW r, Journaled(CloseEvent(Task(i), r))
  PROVE  PreClose(Task(i)) = r /\ Stored(CloseEvent(Task(i), r)) /\ r \in Closings
<1>1. Task(i) \in Coroutines /\ Task(i) # Caller /\ (\A j \in Steps : Task(i) # Res(j))
      /\ \A j \in Steps : Task(i) = Task(j) => i = j
  BY IdFacts
<1> QED BY <1>1, ClosedInIndex

-----------------------------------------------------------------------------
(* What a run has not heard is not in the journal: no effect diverges *)

LEMMA LiveCaller ==
  ASSUME Awake, owner.pc \in Steps, Performs(owner.pc),
         ~ Answered(Caller, Before(owner.pc) + 1)
  PROVE  ~ Decided /\ ~ IsClosed(Caller) /\ PreClose(Caller) = "none"
<1>1. /\ OwnerInv /\ TypeOK /\ Len(program.script) \in Nat /\ owner.pc \in 1 .. Len(program.script) + 1
  BY AwakeFacts
<1>2. ASSUME NEW e \in 1 .. Len(program.script) + 1, Ended(e) PROVE FALSE
  <2>1. \A r \in Results : ~ Done(owner.pc, r) BY DEF Done, Answered
  <2>2. ~ Passed(owner.pc) BY <2>1 DEF Passed, Results
  <2>3. owner.pc <= e /\ ~ (owner.pc < e) BY <2>2, <1>2, Frontier
  <2>4. owner.pc = e BY <2>3, <1>1
  <2>5. Left(owner.pc) BY <2>4, <1>2, Frontier
  <2> QED BY <2>1, <2>5 DEF Left, Results
<1>3. ~ Decided BY <1>2 DEF Decided
<1>4. ~ IsClosed(Caller) BY <1>3, CallerClosed
<1> QED BY <1>1, <1>3, <1>4, PreClosedIsClosed

LEMMA LiveInit ==
  ASSUME Awake, NEW i \in Steps, child[i].phase = "init", ~ Answered(Res(i), 1),
         PreClose(Res(i)) = "none"
  PROVE  ~ Decided /\ ~ IsClosed(Caller)
<1>1. LifecycleInv BY AwakeFacts
<1>2. ASSUME Decided PROVE FALSE
  <2>1. WasProvided(i) \/ WasRefused(i) BY <1>2, BornDecided
  <2>2. ~ WasProvided(i) BY DEF WasProvided, InitOk, Answered, Results
  <2>3. Journaled(CloseEvent(Res(i), "error")) BY <2>1, <2>2 DEF WasRefused
  <2>4. ~ ClosedNow(i) BY DEF ClosedNow
  <2>5. PICK r : r = "error" OBVIOUS
  <2>6. PreClose(Res(i)) = r BY <2>3, <2>4, <2>5, <1>1, ResIndex
  <2> QED BY <2>5, <2>6
<1> QED BY <1>2, CallerClosed

\* A run that goes on has no child that an earlier run saw cancelled, and what
\* the journal says of a closed child is complete.
LEMMA PreClosedChild ==
  ASSUME Awake, NEW i \in Steps, PreClose(Res(i)) # "none"
  PROVE  /\ PreClose(Res(i)) \in {"ok", "error"}
         /\ Journaled(CloseEvent(Res(i), PreClose(Res(i))))
         /\ PreClose(Res(i)) = "ok" => WasProvided(i)
         /\ InitFailed(i) \/ (WasProvided(i)
                               /\ (program.body[i].cleanup = "effect" => Answered(Res(i), 2)))
<1>1. TypeOK /\ PathInv /\ HaltInv BY AwakeFacts
<1>2. PICK r : r = PreClose(Res(i)) OBVIOUS
<1>3. Stored(CloseEvent(Res(i), r)) /\ Journaled(CloseEvent(Res(i), r)) /\ r \in Closings
  BY <1>1, <1>2, PreCloseStored
<1>4. r # "cancelled"
  <2>1. ASSUME r = "cancelled" PROVE FALSE
    BY <2>1, <1>1, <1>3 DEF HaltInv, Cancelled, Awake
  <2> QED BY <2>1
<1>5. r # "diverged" BY <1>1, <1>3 DEF PathInv
<1>6. r \in {"ok", "error"} BY <1>3, <1>4, <1>5 DEF Closings, Results
<1>7. InitFailed(i) \/ (WasProvided(i) /\ (program.body[i].cleanup = "effect" => Answered(Res(i), 2)))
  BY <1>1, <1>3, <1>6 DEF PathInv
<1>8. r = "ok" => WasProvided(i) BY <1>1, <1>3 DEF PathInv, CleanedUpBy
<1> QED BY <1>2, <1>3, <1>6, <1>7, <1>8

LEMMA NotFailed ==
  ASSUME Awake, NEW i \in Steps, child[i].phase = "init",
         ~ (task[i] = "running" /\ PreClose(Task(i)) = "error")
  PROVE  /\ ~ TaskFailed(i)
         /\ ~ Answered(Res(i), 1) => PreClose(Res(i)) = "none"
<1>1. LifecycleInv /\ ChildInv(i) BY AwakeFacts
<1>2. ~ TaskFailed(i)
  <2>1. CASE task[i] = "running"
    <3>1. ASSUME TaskFailed(i) PROVE FALSE
      <4>1. Journaled(CloseEvent(Task(i), "error")) BY <3>1 DEF TaskFailed
      <4>2. ~ TaskOver(i) BY <2>1 DEF TaskOver
      <4>3. PICK r : r = "error" OBVIOUS
      <4>4. PreClose(Task(i)) = r BY <4>1, <4>2, <4>3, <1>1, TaskIndex
      <4> QED BY <4>3, <4>4, <2>1
    <3> QED BY <3>1
  <2>2. CASE task[i] # "running" BY <2>2, <1>1 DEF ChildInv
  <2> QED BY <2>1, <2>2
<1>3. ASSUME ~ Answered(Res(i), 1), PreClose(Res(i)) # "none" PROVE FALSE
  <2>1. InitFailed(i) \/ WasProvided(i) BY <1>3, PreClosedChild
  <2>2. ~ WasProvided(i) BY <1>3 DEF WasProvided, InitOk, Answered, Results
  <2> QED BY <2>1, <2>2, <1>2, <1>3 DEF InitFailed
<1> QED BY <1>2, <1>3

LEMMA CleanupReplays ==
  ASSUME Awake, NEW i \in Steps, child[i].phase = "cleanup",
         program.body[i].cleanup = "effect", ~ Answered(Res(i), 2)
  PROVE  PreClose(Res(i)) = "none"
<1>1. ChildInv(i) BY AwakeFacts
<1>2. WasProvided(i) BY <1>1 DEF ChildInv, Working
<1>3. ~ InitFailed(i) BY <1>2 DEF WasProvided, InitFailed
<1> QED BY <1>3, PreClosedChild

\* An effect that does not diverge is answered.
LEMMA EffectDone ==
  ASSUME LifecycleInv, NEW id \in Ids, NEW r \in Results, Effect(id, r),
         NEW p, p = pos[id] + 1, ~ Answered(id, p) => PreClose(id) = "none"
  PROVE  /\ r \in {"ok", "error"} /\ Journaled(YieldEvent(id, p, r))'
         /\ pos'[id] = p /\ \A other \in Ids : other # id => pos'[other] = pos[other]
         /\ \/ stream' = stream
            \/ /\ stream' = Append(stream, YieldEvent(id, p, r))
               /\ ~ Answered(id, p) /\ PreClose(id) = "none"
<1>1. /\ pos'[id] = p /\ \A other \in Ids : other # id => pos'[other] = pos[other]
  BY EffectShape
<1>2. \/ stream' = stream /\ r \in {"ok", "error"} /\ Journaled(YieldEvent(id, p, r))
      \/ stream' = stream /\ ~ Answered(id, p) /\ PreClose(id) # "none"
      \/ /\ stream' = Append(stream, YieldEvent(id, p, r)) /\ r \in {"ok", "error"}
         /\ ~ Answered(id, p) /\ PreClose(id) = "none"
  BY EffectShape
<1>3. CASE stream' = stream /\ r \in {"ok", "error"} /\ Journaled(YieldEvent(id, p, r))
  <2>1. Journaled(YieldEvent(id, p, r))' BY <1>3 DEF Journaled, YieldEvent
  <2> QED BY <2>1, <1>1, <1>3
<1>4. CASE /\ stream' = Append(stream, YieldEvent(id, p, r)) /\ r \in {"ok", "error"}
           /\ ~ Answered(id, p) /\ PreClose(id) = "none"
  <2>1. PICK e : e = YieldEvent(id, p, r) OBVIOUS
  <2>2. stream \in Seq(Events) /\ Len(stream) \in Nat /\ pos[id] \in Nat
    BY DEF LifecycleInv, TypeOK
  <2>3. e \in Events BY <2>1, <2>2, <1>4, EventFacts
  <2>4. Len(stream') = Len(stream) + 1 /\ stream'[Len(stream) + 1] = e
    BY <2>1, <2>2, <2>3, <1>4, AppendFact
  <2>5. Journaled(e)' BY <2>2, <2>4 DEF Journaled
  <2>6. Journaled(YieldEvent(id, p, r))' BY <2>1, <2>5 DEF Journaled, YieldEvent
  <2> QED BY <2>6, <1>1, <1>4
<1> QED BY <1>2, <1>3, <1>4

-----------------------------------------------------------------------------
(* What a step may add to the journal *)

\* The effect that a resource is provided by.
NewStart(m) ==
  \E k \in Steps, r \in Results :
    /\ stream'[m] = YieldEvent(Res(k), 1, r) /\ child[k].phase = "init"
    /\ Acquires(k) /\ (\A j \in 1 .. k - 1 : Passed(j)) /\ ~ Decided
\* An effect of the owner.
NewAnswer(m) ==
  \E r \in Results :
    /\ stream'[m] = YieldEvent(Caller, Before(owner.pc) + 1, r)
    /\ owner.pc \in Steps /\ Performs(owner.pc)
    /\ Acquires(owner.pc) => Heard(owner.pc) /\ (r = "ok" => Acquired(owner.pc))
    /\ ~ Decided
\* The effect of a cleanup.
NewCleanup(m) ==
  \E k \in Steps, r \in Results :
    stream'[m] = YieldEvent(Res(k), 2, r) /\ WasProvided(k) /\ Later(k) /\ Decided
NewTaskClose(m) ==
  \E k \in Steps, r \in Closings :
    stream'[m] = CloseEvent(Task(k), r) /\ (r = "error" => child'[k].phase = "failing")
NewChildClose(m) ==
  \E k \in Steps, r \in Closings :
    /\ stream'[m] = CloseEvent(Res(k), r)
    /\ \/ r = "cancelled" /\ owner.at = "halting" /\ owner'.at = "halting" /\ PreClose(Res(k)) = "none"
       \/ r = "error" /\ InitFailed(k)
       \/ /\ r \in {"ok", "error"} /\ WasProvided(k) /\ Later(k) /\ Decided
          /\ program.body[k].cleanup = "effect" => Answered(Res(k), 2)
NewOwnerClose(m) ==
  \E r \in Closings :
    /\ stream'[m] = CloseEvent(Caller, r) /\ m = Len(stream')
    /\ \A i \in Steps : Answered(Res(i), 1) => IsClosed(Res(i))
    /\ r = "cancelled" \/ Decided
PathLaw ==
  /\ IsClosed(Caller) => Added = {}
  /\ \A m \in Added : \/ NewStart(m) \/ NewAnswer(m) \/ NewCleanup(m)
                      \/ NewTaskClose(m) \/ NewChildClose(m) \/ NewOwnerClose(m)

\* What was added, by its event.
LEMMA ByEvent ==
  ASSUME PathLaw, NEW m \in Added
  PROVE  /\ \A k \in Steps : \A r : stream'[m] = YieldEvent(Res(k), 1, r) =>
              /\ child[k].phase = "init"
              /\ Acquires(k) /\ (\A j \in 1 .. k - 1 : Passed(j)) /\ ~ Decided
         /\ \A n, r : stream'[m] = YieldEvent(Caller, n, r) =>
              /\ n = Before(owner.pc) + 1 /\ owner.pc \in Steps /\ Performs(owner.pc)
              /\ Acquires(owner.pc) => Heard(owner.pc) /\ (r = "ok" => Acquired(owner.pc))
              /\ ~ Decided
         /\ \A k \in Steps : \A n, r : stream'[m] = YieldEvent(Res(k), n, r) /\ n # 1 =>
              n = 2 /\ WasProvided(k) /\ Later(k) /\ Decided
         /\ \A k \in Steps : \A r : stream'[m] = CloseEvent(Task(k), r) =>
              (r = "error" => child'[k].phase = "failing")
         /\ \A k \in Steps : \A r : stream'[m] = CloseEvent(Res(k), r) =>
              \/ r = "cancelled" /\ owner.at = "halting" /\ owner'.at = "halting" /\ PreClose(Res(k)) = "none"
              \/ r = "error" /\ InitFailed(k)
              \/ /\ r \in {"ok", "error"} /\ WasProvided(k) /\ Later(k) /\ Decided
                 /\ program.body[k].cleanup = "effect" => Answered(Res(k), 2)
         /\ \A r : stream'[m] = CloseEvent(Caller, r) =>
              /\ m = Len(stream')
              /\ \A i \in Steps : Answered(Res(i), 1) => IsClosed(Res(i))
              /\ r = "cancelled" \/ Decided
<1>1. \/ NewStart(m) \/ NewAnswer(m) \/ NewCleanup(m)
      \/ NewTaskClose(m) \/ NewChildClose(m) \/ NewOwnerClose(m)
  BY DEF PathLaw
<1>2. ASSUME stream'[m].type = "yield", stream'[m].id # Caller
      PROVE  \/ NewStart(m) /\ stream'[m].n = 1
             \/ NewCleanup(m) /\ stream'[m].n = 2
  BY <1>1, <1>2, EventFacts DEF NewStart, NewAnswer, NewCleanup, NewTaskClose, NewChildClose, NewOwnerClose
<1>3. ASSUME NEW k \in Steps, NEW r, stream'[m] = YieldEvent(Res(k), 1, r)
      PROVE  /\ child[k].phase = "init"
             /\ Acquires(k) /\ (\A j \in 1 .. k - 1 : Passed(j)) /\ ~ Decided
  <2>1. stream'[m].type = "yield" /\ stream'[m].id = Res(k) /\ stream'[m].n = 1 /\ Res(k) # Caller
    BY <1>3, EventFacts, IdFacts
  <2>2. NewStart(m) BY <1>2, <2>1
  <2>3. PICK l \in Steps, s \in Results :
          /\ stream'[m] = YieldEvent(Res(l), 1, s) /\ child[l].phase = "init"
          /\ Acquires(l) /\ (\A j \in 1 .. l - 1 : Passed(j)) /\ ~ Decided
    BY <2>2 DEF NewStart
  <2>4. Res(l) = Res(k) BY <2>1, <2>3, EventFacts
  <2>5. l = k BY <2>4, IdFacts
  <2> QED BY <2>3, <2>5
<1>4. ASSUME NEW n, NEW r, stream'[m] = YieldEvent(Caller, n, r)
      PROVE  /\ n = Before(owner.pc) + 1 /\ owner.pc \in Steps /\ Performs(owner.pc)
             /\ Acquires(owner.pc) => Heard(owner.pc) /\ (r = "ok" => Acquired(owner.pc))
             /\ ~ Decided
  <2>1. /\ stream'[m].type = "yield" /\ stream'[m].id = Caller /\ stream'[m].n = n
        /\ stream'[m].result = r
    BY <1>4, EventFacts
  <2>2. NewAnswer(m)
    BY <1>1, <2>1, EventFacts, IdFacts
      DEF NewStart, NewCleanup, NewTaskClose, NewChildClose, NewOwnerClose
  <2>3. PICK s \in Results :
          /\ stream'[m] = YieldEvent(Caller, Before(owner.pc) + 1, s)
          /\ owner.pc \in Steps /\ Performs(owner.pc)
          /\ Acquires(owner.pc) => Heard(owner.pc) /\ (s = "ok" => Acquired(owner.pc))
          /\ ~ Decided
    BY <2>2 DEF NewAnswer
  <2>4. n = Before(owner.pc) + 1 /\ s = r BY <2>1, <2>3, EventFacts
  <2> QED BY <2>3, <2>4
<1>5. ASSUME NEW k \in Steps, NEW n, NEW r, stream'[m] = YieldEvent(Res(k), n, r), n # 1
      PROVE  n = 2 /\ WasProvided(k) /\ Later(k) /\ Decided
  <2>1. stream'[m].type = "yield" /\ stream'[m].id = Res(k) /\ stream'[m].n = n /\ Res(k) # Caller
    BY <1>5, EventFacts, IdFacts
  <2>2. NewCleanup(m) /\ n = 2 BY <1>2, <1>5, <2>1
  <2>3. PICK l \in Steps, s \in Results :
          stream'[m] = YieldEvent(Res(l), 2, s) /\ WasProvided(l) /\ Later(l) /\ Decided
    BY <2>2 DEF NewCleanup
  <2>4. Res(l) = Res(k) BY <2>1, <2>3, EventFacts
  <2>5. l = k BY <2>4, IdFacts
  <2> QED BY <2>2, <2>3, <2>5
<1>6. ASSUME NEW k \in Steps, NEW r, stream'[m] = CloseEvent(Task(k), r)
      PROVE  r = "error" => child'[k].phase = "failing"
  <2>1. stream'[m].type = "close" /\ stream'[m].id = Task(k) /\ stream'[m].result = r
    BY <1>6, EventFacts
  <2>2. NewTaskClose(m)
    BY <1>1, <2>1, EventFacts, IdFacts
      DEF NewStart, NewAnswer, NewCleanup, NewChildClose, NewOwnerClose
  <2>3. PICK l \in Steps, s \in Closings :
          stream'[m] = CloseEvent(Task(l), s) /\ (s = "error" => child'[l].phase = "failing")
    BY <2>2 DEF NewTaskClose
  <2>4. Task(l) = Task(k) /\ s = r BY <2>1, <2>3, EventFacts
  <2>5. l = k BY <2>4, IdFacts
  <2> QED BY <2>3, <2>4, <2>5
<1>7. ASSUME NEW k \in Steps, NEW r, stream'[m] = CloseEvent(Res(k), r)
      PROVE  \/ r = "cancelled" /\ owner.at = "halting" /\ owner'.at = "halting" /\ PreClose(Res(k)) = "none"
             \/ r = "error" /\ InitFailed(k)
             \/ /\ r \in {"ok", "error"} /\ WasProvided(k) /\ Later(k) /\ Decided
                /\ program.body[k].cleanup = "effect" => Answered(Res(k), 2)
  <2>1. stream'[m].type = "close" /\ stream'[m].id = Res(k) /\ stream'[m].result = r
    BY <1>7, EventFacts
  <2>2. NewChildClose(m)
    BY <1>1, <2>1, EventFacts, IdFacts
      DEF NewStart, NewAnswer, NewCleanup, NewTaskClose, NewOwnerClose
  <2>3. PICK l \in Steps, s \in Closings :
          /\ stream'[m] = CloseEvent(Res(l), s)
          /\ \/ s = "cancelled" /\ owner.at = "halting" /\ owner'.at = "halting" /\ PreClose(Res(l)) = "none"
             \/ s = "error" /\ InitFailed(l)
             \/ /\ s \in {"ok", "error"} /\ WasProvided(l) /\ Later(l) /\ Decided
                /\ program.body[l].cleanup = "effect" => Answered(Res(l), 2)
    BY <2>2 DEF NewChildClose
  <2>4. Res(l) = Res(k) /\ s = r BY <2>1, <2>3, EventFacts
  <2>5. l = k BY <2>4, IdFacts
  <2> QED BY <2>3, <2>4, <2>5
<1>8. ASSUME NEW r, stream'[m] = CloseEvent(Caller, r)
      PROVE  /\ m = Len(stream')
             /\ \A i \in Steps : Answered(Res(i), 1) => IsClosed(Res(i))
             /\ r = "cancelled" \/ Decided
  <2>1. stream'[m].type = "close" /\ stream'[m].id = Caller /\ stream'[m].result = r
    BY <1>8, EventFacts
  <2>2. NewOwnerClose(m)
    BY <1>1, <2>1, EventFacts, IdFacts
      DEF NewStart, NewAnswer, NewCleanup, NewTaskClose, NewChildClose
  <2> QED BY <2>1, <2>2, EventFacts DEF NewOwnerClose
<1> QED BY <1>3, <1>4, <1>5, <1>6, <1>7, <1>8

LEMMA AddedJournaled ==
  ASSUME TypeOK, TypeOK', Kept
  PROVE  /\ \A e : Journaled(e)' <=> Journaled(e) \/ \E m \in Added : stream'[m] = e
         /\ \A id, n : Answered(id, n)' =>
              Answered(id, n) \/ \E m \in Added, r \in Results : stream'[m] = YieldEvent(id, n, r)
         /\ \A id : IsClosed(id)' =>
              IsClosed(id) \/ \E m \in Added, r \in Closings : stream'[m] = CloseEvent(id, r)
<1>1. Len(stream) \in Nat /\ Len(stream') \in Nat BY DEF TypeOK
<1>2. \A e : Journaled(e)' <=> Journaled(e) \/ \E m \in Added : stream'[m] = e
  BY <1>1 DEF Journaled, Added, Kept
<1>3. ASSUME NEW id, NEW n, Answered(id, n)'
      PROVE  Answered(id, n) \/ \E m \in Added, r \in Results : stream'[m] = YieldEvent(id, n, r)
  <2>1. PICK r \in Results : Journaled(YieldEvent(id, n, r))' BY <1>3 DEF Answered
  <2>2. PICK e : e = YieldEvent(id, n, r) OBVIOUS
  <2>3. Journaled(e)' BY <2>1, <2>2 DEF Journaled, YieldEvent
  <2>4. Journaled(e) \/ \E m \in Added : stream'[m] = e BY <2>3, <1>2
  <2> QED BY <2>2, <2>4 DEF Answered
<1>4. ASSUME NEW id, IsClosed(id)'
      PROVE  IsClosed(id) \/ \E m \in Added, r \in Closings : stream'[m] = CloseEvent(id, r)
  <2>1. PICK r \in Closings : Journaled(CloseEvent(id, r))' BY <1>4 DEF IsClosed
  <2>2. PICK e : e = CloseEvent(id, r) OBVIOUS
  <2>3. Journaled(e)' BY <2>1, <2>2 DEF Journaled, CloseEvent
  <2>4. Journaled(e) \/ \E m \in Added : stream'[m] = e BY <2>3, <1>2
  <2> QED BY <2>2, <2>4 DEF IsClosed
<1> QED BY <1>2, <1>3, <1>4

\* Nothing is started once the owner's way is decided.
LEMMA LaterKept ==
  ASSUME TypeOK, TypeOK', Lawful, PathLaw, Decided, NEW i \in Steps, Later(i)
  PROVE  Later(i)'
<1>1. Steps' = Steps /\ Kept BY SameProgram DEF Lawful
<1>2. ASSUME NEW j \in Steps, i < j, Answered(Res(j), 1)' PROVE IsClosed(Res(j))'
  <2>1. \A m \in Added : \A r : stream'[m] # YieldEvent(Res(j), 1, r) BY ByEvent
  <2>2. Answered(Res(j), 1) BY <2>1, <1>1, <1>2, AddedJournaled
  <2>3. IsClosed(Res(j)) BY <2>2, <1>2 DEF Later
  <2> QED BY <2>3, <1>1, KeptFacts DEF Lawful
<1> QED BY <1>1, <1>2 DEF Later

LEMMA LawfulGrows ==
  ASSUME TypeOK, TypeOK', Lawful
  PROVE  Grows /\ Steps' = Steps /\ Ids' = Ids
<1>1. Kept /\ program' = program BY DEF Lawful
<1> QED BY <1>1, AddedJournaled, SameProgram DEF Grows

\* The journal goes on to say how far the owner came, and who is cleaned up.
LEMMA PathKept ==
  ASSUME Awake, LifecycleInv', Lawful, PathLaw
  PROVE  PathInv'
<1>1. /\ LifecycleInv /\ TypeOK /\ TypeOK' /\ PathInv /\ Len(stream) \in Nat /\ Len(stream') \in Nat
      /\ Grows /\ Steps' = Steps /\ program' = program /\ Kept /\ Steps \subseteq Nat
      /\ UniqueYield' /\ UniqueClose'
      /\ \A k : /\ Performs(k)' <=> Performs(k)
                /\ Acquires(k)' <=> Acquires(k)
                /\ Before(k)' = Before(k)
  BY AwakeFacts, LawfulGrows, UniqueNext, SameScript DEF LifecycleInv, Lawful, Steps, TypeOK
<1>2. \A k \in Steps : \A j \in 1 .. k - 1 : j \in Steps
  BY AwakeFacts
<1>3. ASSUME NEW k \in Steps, Answered(Res(k), 1)'
      PROVE  Acquires(k) /\ \A j \in 1 .. k - 1 : Passed(j)'
  <2>1. Acquires(k) /\ \A j \in 1 .. k - 1 : Passed(j)
    <3>1. CASE Answered(Res(k), 1) BY <3>1, <1>1 DEF PathInv
    <3>2. CASE \E m \in Added, r \in Results : stream'[m] = YieldEvent(Res(k), 1, r)
      BY <3>2, ByEvent
    <3> QED BY <3>1, <3>2, <1>3, <1>1, AddedJournaled
  <2> QED BY <2>1, <1>1, <1>2, SaidOfOwner
<1>4. ASSUME NEW k \in Steps, Performs(k), Acquires(k)
      PROVE  /\ Answered(Caller, Before(k) + 1)' => Heard(k)'
             /\ Done(k, "ok")' => Acquired(k)'
  <2>1. PICK p : p = Before(k) + 1 OBVIOUS
  <2>2. ASSUME NEW r \in Results, NEW m \in Added, stream'[m] = YieldEvent(Caller, p, r)
        PROVE  Heard(k) /\ (r = "ok" => Acquired(k))
    <3>1. /\ p = Before(owner.pc) + 1 /\ owner.pc \in Steps /\ Performs(owner.pc)
          /\ Acquires(owner.pc) => Heard(owner.pc) /\ (r = "ok" => Acquired(owner.pc))
      BY <2>2, <1>1, ByEvent
    <3>2. Before(owner.pc) \in Nat /\ Before(k) \in Nat BY <3>1, <1>1, BeforeFacts
    <3>3. Before(owner.pc) = Before(k) BY <3>1, <3>2, <2>1
    <3>4. k = owner.pc BY <3>1, <3>3, <1>1, <1>4, BeforeFacts
    <3> QED BY <3>1, <3>4, <1>4
  <2>3. ASSUME Answered(Caller, p)' PROVE Heard(k)
    <3>1. CASE Answered(Caller, p) BY <3>1, <2>1, <1>1, <1>4 DEF PathInv
    <3>2. CASE \E m \in Added, r \in Results : stream'[m] = YieldEvent(Caller, p, r)
      BY <3>2, <2>2
    <3> QED BY <3>1, <3>2, <2>3, <1>1, AddedJournaled
  <2>4. ASSUME NEW r \in Results, r = "ok", Journaled(YieldEvent(Caller, p, r))' PROVE Acquired(k)
    <3>1. PICK e : e = YieldEvent(Caller, p, r) OBVIOUS
    <3>2. Journaled(e)' BY <3>1, <2>4 DEF Journaled, YieldEvent
    <3>3. CASE Journaled(e)
      <4>1. Done(k, "ok") BY <3>1, <3>3, <2>1, <2>4 DEF Done
      <4> QED BY <4>1, <1>1, <1>4 DEF PathInv
    <3>4. CASE \E m \in Added : stream'[m] = e BY <3>1, <3>4, <2>2, <2>4
    <3> QED BY <3>2, <3>3, <3>4, <1>1, AddedJournaled
  <2>5. Answered(Caller, Before(k) + 1)' => Answered(Caller, p)'
    BY <2>1, <1>1 DEF Answered, Journaled, YieldEvent
  <2>6. ASSUME Done(k, "ok")' PROVE Acquired(k)
    <3>1. PICK r \in Results : r = "ok" BY DEF Results
    <3>2. Journaled(YieldEvent(Caller, p, r))'
      BY <3>1, <2>1, <2>6, <1>1 DEF Done, Journaled, YieldEvent, Caller
    <3> QED BY <3>1, <3>2, <2>4
  <2> QED BY <2>3, <2>5, <2>6, <1>1, SaidOfChild
<1>5. ASSUME NEW i \in Steps, CleanedUpBy(i)'
      PROVE  WasProvided(i)' /\ Later(i)' /\ Decided'
  <2>1. WasProvided(i) /\ Later(i) /\ Decided
    <3>1. CASE CleanedUpBy(i) BY <3>1, <1>1 DEF PathInv
    <3>2. CASE ~ CleanedUpBy(i) /\ Answered(Res(i), 2)'
      <4>1. ~ Answered(Res(i), 2) BY <3>2 DEF CleanedUpBy
      <4>2. PICK m \in Added, r \in Results : stream'[m] = YieldEvent(Res(i), 2, r)
        BY <4>1, <3>2, <1>1, AddedJournaled
      <4> QED BY <4>2, ByEvent
    <3>3. CASE ~ CleanedUpBy(i) /\ Journaled(CloseEvent(Res(i), "ok"))'
      <4>1. ~ Journaled(CloseEvent(Res(i), "ok")) BY <3>3 DEF CleanedUpBy
      <4>2. PICK e : e = CloseEvent(Res(i), "ok") OBVIOUS
      <4>3. Journaled(e)' /\ ~ Journaled(e) BY <4>1, <4>2, <3>3 DEF Journaled, CloseEvent
      <4>4. PICK m \in Added : stream'[m] = CloseEvent(Res(i), "ok")
        BY <4>2, <4>3, <1>1, AddedJournaled
      <4> QED BY <4>4, ByEvent
    <3>4. CASE ~ CleanedUpBy(i) /\ WasProvided(i)' /\ Journaled(CloseEvent(Res(i), "error"))'
      <4>1. ~ InitFailed(i)
        <5>1. ~ InitFailed(i)' BY <3>4 DEF WasProvided, InitFailed
        <5> QED BY <5>1, <1>1, SaidOfChild
      <4>2. PICK e : e = CloseEvent(Res(i), "error") OBVIOUS
      <4>3. Journaled(e)' BY <4>2, <3>4 DEF Journaled, CloseEvent
      <4>4. ~ Journaled(e)
        <5>1. ASSUME Journaled(CloseEvent(Res(i), "error")) PROVE FALSE
          <6>1. WasProvided(i) BY <5>1, <4>1, <1>1 DEF PathInv
          <6> QED BY <6>1, <5>1, <3>4 DEF CleanedUpBy
        <5> QED BY <5>1, <4>2
      <4>5. PICK m \in Added : stream'[m] = CloseEvent(Res(i), "error")
        BY <4>2, <4>3, <4>4, <1>1, AddedJournaled
      <4> QED BY <4>1, <4>5, ByEvent
    <3> QED BY <3>1, <3>2, <3>3, <3>4, <1>5 DEF CleanedUpBy
  <2> QED BY <2>1, <1>1, SaidOfChild, SaidOfOwner, LaterKept
<1>6. ASSUME NEW i \in Steps
      PROVE  /\ ~ Journaled(CloseEvent(Res(i), "diverged"))'
             /\ Journaled(CloseEvent(Res(i), "ok"))' \/ Journaled(CloseEvent(Res(i), "error"))' =>
                  InitFailed(i)' \/ (WasProvided(i)'
                                      /\ (program.body[i].cleanup = "effect" => Answered(Res(i), 2)'))
  <2>1. ASSUME NEW r \in {"ok", "error", "diverged"}, Journaled(CloseEvent(Res(i), r))'
        PROVE  /\ r # "diverged"
               /\ InitFailed(i) \/ (WasProvided(i)
                                     /\ (program.body[i].cleanup = "effect" => Answered(Res(i), 2)))
    <3>1. PICK e : e = CloseEvent(Res(i), r) OBVIOUS
    <3>2. Journaled(e)' BY <3>1, <2>1 DEF Journaled, CloseEvent
    <3>3. CASE Journaled(CloseEvent(Res(i), r)) BY <3>3, <1>1 DEF PathInv
    <3>4. CASE \E m \in Added : stream'[m] = CloseEvent(Res(i), r)
      <4>1. PICK m \in Added : stream'[m] = CloseEvent(Res(i), r) BY <3>4
      <4>2. r # "cancelled" BY <2>1
      <4> QED BY <4>1, <4>2, ByEvent
    <3> QED BY <3>1, <3>2, <3>3, <3>4, <1>1, AddedJournaled
  <2>2. PICK r1, r2, r3 : r1 = "ok" /\ r2 = "error" /\ r3 = "diverged" OBVIOUS
  <2>3. ~ Journaled(CloseEvent(Res(i), "diverged"))'
    <3>1. ~ Journaled(CloseEvent(Res(i), r3))' BY <2>1, <2>2
    <3> QED BY <3>1, <2>2 DEF Journaled, CloseEvent
  <2>4. ASSUME Journaled(CloseEvent(Res(i), "ok"))' \/ Journaled(CloseEvent(Res(i), "error"))'
        PROVE  InitFailed(i) \/ (WasProvided(i)
                                  /\ (program.body[i].cleanup = "effect" => Answered(Res(i), 2)))
    <3>1. Journaled(CloseEvent(Res(i), r1))' \/ Journaled(CloseEvent(Res(i), r2))'
      BY <2>2, <2>4 DEF Journaled, CloseEvent
    <3> QED BY <3>1, <2>1, <2>2
  <2> QED BY <2>3, <2>4, <1>1, SaidOfChild
<1>7. ASSUME NEW m \in 1 .. Len(stream'), IsClose(m, Caller)'
      PROVE  /\ m = Len(stream')
             /\ \A i \in Steps : Answered(Res(i), 1)' => IsClosed(Res(i))'
             /\ stream'[m].result = "cancelled" \/ Decided'
  <2>1. CASE m \in Added
    <3>1. stream'[m] \in Events
      <4>1. Events' = Events BY <1>1, SameProgram
      <4> QED BY <4>1, <1>1 DEF TypeOK
    <3>2. stream'[m] = CloseEvent(Caller, stream'[m].result) BY <3>1, <1>7, EventFacts DEF IsClose
    <3>3. /\ m = Len(stream')
          /\ \A i \in Steps : Answered(Res(i), 1) => IsClosed(Res(i))
          /\ stream'[m].result = "cancelled" \/ Decided
      BY <2>1, <3>2, ByEvent
    <3>4. Decided => Decided' BY <1>1, SaidOfOwner
    <3>5. ASSUME NEW i \in Steps, Answered(Res(i), 1)' PROVE IsClosed(Res(i))'
      <4>1. ~ \E n \in Added, r \in Results : stream'[n] = YieldEvent(Res(i), 1, r)
        <5>1. ASSUME NEW n \in Added, NEW r \in Results, stream'[n] = YieldEvent(Res(i), 1, r)
              PROVE  FALSE
          <6>1. IsYield(n, Res(i))' BY <5>1, EventFacts DEF IsYield, Res
          <6>2. n = Len(stream) + 1 /\ n = Len(stream')
            BY <5>1, EventFacts, IdFacts DEF Lawful, YieldLaw
          <6>3. m = n BY <6>2, <2>1, <1>1 DEF Added
          <6> QED BY <6>3, <3>2, <5>1, EventFacts
        <5> QED BY <5>1
      <4>2. Answered(Res(i), 1) BY <4>1, <3>5, <1>1, AddedJournaled
      <4> QED BY <4>2, <3>3, <1>1, SaidOfChild
    <3> QED BY <3>3, <3>4, <3>5
  <2>2. CASE m \in 1 .. Len(stream)
    <3>1. IsClose(m, Caller) /\ stream'[m] = stream[m] BY <2>2, <1>1, <1>7, KeptFacts DEF Lawful, Kept
    <3>2. IsClosed(Caller) BY <3>1, <2>2, <1>1, IsClosedFact
    <3>3. Added = {} BY <3>2 DEF PathLaw
    <3>4. Len(stream') = Len(stream)
      <4>1. Len(stream') \notin Added /\ Len(stream') >= Len(stream) BY <3>3, <1>1 DEF Kept
      <4> QED BY <4>1, <1>1 DEF Added
    <3>5. m = Len(stream) /\ (stream[m].result = "cancelled" \/ Decided) BY <3>1, <2>2, <1>1 DEF PathInv
    <3>6. ASSUME NEW i \in Steps, Answered(Res(i), 1)' PROVE IsClosed(Res(i))'
      <4>1. Answered(Res(i), 1) BY <3>3, <3>6, <1>1, AddedJournaled
      <4>2. IsClosed(Res(i)) BY <4>1, <3>2, CallerClosed
      <4> QED BY <4>2, <1>1, SaidOfChild
    <3> QED BY <3>1, <3>4, <3>5, <3>6, <1>1, SaidOfOwner
  <2> QED BY <2>1, <2>2, <1>1 DEF Added
<1>8. /\ \A k \in Steps' : Answered(Res(k), 1)' => Acquires(k)' /\ \A j \in 1 .. k - 1 : Passed(j)'
      /\ \A k \in Steps' : Performs(k)' /\ Acquires(k)' =>
           /\ Answered(Caller, Before(k) + 1)' => Heard(k)'
           /\ Done(k, "ok")' => Acquired(k)'
      /\ \A i \in Steps' : CleanedUpBy(i)' => WasProvided(i)' /\ Later(i)' /\ Decided'
  BY <1>1, <1>3, <1>4, <1>5
<1>9. \A i \in Steps' :
       /\ ~ Journaled(CloseEvent(Res(i), "diverged"))'
       /\ Journaled(CloseEvent(Res(i), "ok"))' \/ Journaled(CloseEvent(Res(i), "error"))' =>
            InitFailed(i)' \/ (WasProvided(i)'
                               /\ (program'.body[i].cleanup = "effect" => Answered(Res(i), 2)'))
  BY <1>1, <1>6
<1>10. \A m \in 1 .. Len(stream') : IsClose(m, Caller)' =>
       /\ m = Len(stream')
       /\ \A i \in Steps' : Answered(Res(i), 1)' => IsClosed(Res(i))'
       /\ stream'[m].result = "cancelled" \/ Decided'
  BY <1>1, <1>7
<1> QED BY <1>8, <1>9, <1>10 DEF PathInv

-----------------------------------------------------------------------------
(* The order of the journal *)

LEMMA StartedFacts ==
  LifecycleInv => \A i \in Steps :
    /\ Started(i) <=> Answered(Res(i), 1)
    /\ \A n \in 1 .. Len(stream) : Cleans(i, n) => stream[n].n > 1 /\ Answered(Res(i), 2)
<1> SUFFICES ASSUME LifecycleInv, NEW i \in Steps
             PROVE  /\ Started(i) <=> Answered(Res(i), 1)
                    /\ \A n \in 1 .. Len(stream) :
                         Cleans(i, n) => stream[n].n > 1 /\ Answered(Res(i), 2)
  OBVIOUS
<1>1. /\ TypeOK /\ NotedInv /\ Res(i) \in Ids /\ Len(stream) \in Nat
      /\ \A m \in 1 .. Len(stream) : stream[m] \in Events
  BY IdFacts DEF LifecycleInv, TypeOK
<1>2. ASSUME NEW n \in 1 .. Len(stream), IsYield(n, Res(i))
      PROVE  stream[n].n \in Nat \ {0} /\ \A p \in 1 .. stream[n].n : Answered(Res(i), p)
  BY <1>1, <1>2, EventFacts DEF NotedInv, IsYield
<1>3. Started(i) => Answered(Res(i), 1)
  <2>1. \A n \in Nat \ {0} : 1 \in 1 .. n OBVIOUS
  <2> QED BY <1>2, <2>1 DEF Started
<1>4. Answered(Res(i), 1) => Started(i) BY <1>1, AnsweredFact DEF Started
<1>5. ASSUME NEW n \in 1 .. Len(stream), Cleans(i, n)
      PROVE  stream[n].n > 1 /\ Answered(Res(i), 2)
  <2>1. PICK m \in 1 .. n - 1 : IsYield(m, Res(i)) BY <1>5 DEF Cleans
  <2>2. m \in 1 .. Len(stream) /\ m < n /\ IsYield(n, Res(i)) BY <2>1, <1>1, <1>5 DEF Cleans
  <2>3. stream[m].n < stream[n].n BY <2>1, <2>2, <1>1 DEF NotedInv
  <2>4. stream[m].n \in Nat \ {0} /\ stream[n].n \in Nat \ {0} BY <2>1, <2>2, <1>2
  <2>5. stream[n].n > 1 /\ 2 \in 1 .. stream[n].n BY <2>3, <2>4
  <2> QED BY <2>2, <2>5, <1>2
<1> QED BY <1>3, <1>4, <1>5

LEMMA StartedNext ==
  ASSUME LifecycleInv'
  PROVE  \A i \in Steps' :
           /\ Started(i)' <=> Answered(Res(i), 1)'
           /\ \A n \in 1 .. Len(stream') : Cleans(i, n)' => stream'[n].n > 1 /\ Answered(Res(i), 2)'
<1>1. (LifecycleInv => \A i \in Steps :
         /\ Started(i) <=> Answered(Res(i), 1)
         /\ \A n \in 1 .. Len(stream) : Cleans(i, n) => stream[n].n > 1 /\ Answered(Res(i), 2))'
  BY StartedFacts, PTL
<1> QED BY <1>1

\* A cleanup belongs to a decided owner, and to a resource whose later ones are
\* closed or not started.
LEMMA CleansDecided ==
  ASSUME Awake, LifecycleInv', Lawful, PathLaw,
         NEW i \in Steps, NEW n \in 1 .. Len(stream'), Cleans(i, n)'
  PROVE  /\ Later(i) /\ Decided
         /\ n \in 1 .. Len(stream) => Cleans(i, n)
<1>1. /\ LifecycleInv /\ TypeOK /\ TypeOK' /\ PathInv /\ Len(stream) \in Nat /\ Len(stream') \in Nat
      /\ Steps' = Steps /\ Events' = Events
  <2>1. /\ LifecycleInv /\ TypeOK /\ PathInv BY AwakeFacts
  <2>2. TypeOK' BY DEF LifecycleInv
  <2>3. Steps' = Steps /\ Events' = Events BY SameProgram DEF Lawful
  <2>4. Len(stream) \in Nat /\ Len(stream') \in Nat BY <2>1, <2>2 DEF TypeOK
  <2> QED BY <2>1, <2>2, <2>3, <2>4
<1>2. PICK m \in 1 .. n - 1 : IsYield(m, Res(i))' /\ IsYield(n, Res(i))'
  BY DEF Cleans, Res
<1>3. CASE n \in 1 .. Len(stream)
  <2>1. m \in 1 .. Len(stream) BY <1>3, <1>1
  <2>2. IsYield(m, Res(i)) /\ IsYield(n, Res(i)) BY <2>1, <1>1, <1>2, <1>3, KeptFacts DEF Lawful
  <2>3. Cleans(i, n) BY <2>2 DEF Cleans
  <2>4. CleanedUpBy(i) BY <2>3, <1>1, <1>3, StartedFacts DEF CleanedUpBy
  <2> QED BY <2>3, <2>4, <1>1 DEF PathInv
<1>4. CASE n \in Added
  <2>1. stream'[n].n > 1 BY <1>1, StartedNext
  <2>2. stream'[n] \in Events BY <1>1 DEF TypeOK
  <2>3. stream'[n] = YieldEvent(Res(i), stream'[n].n, stream'[n].result) /\ stream'[n].n \in Nat
    BY <2>2, <1>2, EventFacts DEF IsYield
  <2>4. stream'[n].n # 1 BY <2>1, <2>3
  <2>5. n \notin 1 .. Len(stream) BY <1>4, <1>1 DEF Added
  <2> QED BY <2>3, <2>4, <2>5, <1>4, ByEvent
<1> QED BY <1>1, <1>3, <1>4 DEF Added

LEMMA OrderKept ==
  ASSUME Awake, LifecycleInv', Lawful, PathLaw, CleanupOrder, NoUseAfterCleanup
  PROVE  CleanupOrder' /\ NoUseAfterCleanup'
<1>1. /\ LifecycleInv /\ TypeOK /\ TypeOK' /\ Len(stream) \in Nat /\ Len(stream') \in Nat
      /\ Steps' = Steps /\ Events' = Events /\ Kept
  BY AwakeFacts, SameProgram DEF LifecycleInv, Lawful, TypeOK
<1>2. ASSUME NEW n \in 1 .. Len(stream'), NEW i \in Steps, NEW j \in Steps,
             Cleans(i, n)', i < j, Started(j)'
      PROVE  ClosedBy(Res(j), n)'
  <2>1. Later(i) /\ Decided BY <1>2, CleansDecided
  <2>2. Answered(Res(j), 1)
    <3>1. Answered(Res(j), 1)' BY <1>1, <1>2, StartedNext
    <3>2. \A m \in Added : \A r : stream'[m] # YieldEvent(Res(j), 1, r) BY <2>1, ByEvent
    <3> QED BY <3>1, <3>2, <1>1, AddedJournaled
  <2>3. PICK m \in 1 .. Len(stream) : m <= n /\ IsClose(m, Res(j))
    <3>1. CASE n \in 1 .. Len(stream)
      <4>1. Cleans(i, n) /\ Started(j) BY <3>1, <2>2, <1>1, <1>2, CleansDecided, StartedFacts
      <4>2. ClosedBy(Res(j), n) BY <4>1, <3>1, <1>2 DEF CleanupOrder
      <4> QED BY <4>2, <3>1, <1>1 DEF ClosedBy
    <3>2. CASE n > Len(stream)
      <4>1. IsClosed(Res(j)) BY <2>1, <2>2, <1>2 DEF Later
      <4>2. PICK m \in 1 .. Len(stream) : IsClose(m, Res(j)) BY <4>1, <1>1, IsClosedFact
      <4> QED BY <4>2, <3>2, <1>1
    <3> QED BY <3>1, <3>2, <1>1
  <2>4. IsClose(m, Res(j))' BY <2>3, <1>1, KeptFacts DEF Lawful
  <2>5. m \in 1 .. n BY <2>3, <1>1
  <2> QED BY <2>4, <2>5 DEF ClosedBy
<1>3. ASSUME NEW m \in 1 .. Len(stream'), NEW n \in 1 .. Len(stream'), NEW i \in Steps,
             Cleans(i, m)', IsYield(n, Caller)'
      PROVE  n < m
  <2>1. Decided BY <1>3, CleansDecided
  <2>2. n \in 1 .. Len(stream)
    <3>1. ASSUME n \in Added PROVE FALSE
      <4>1. stream'[n] \in Events BY <1>1 DEF TypeOK
      <4>2. stream'[n] = YieldEvent(Caller, stream'[n].n, stream'[n].result)
        BY <4>1, <1>3, EventFacts DEF IsYield
      <4> QED BY <4>2, <3>1, <2>1, ByEvent
    <3> QED BY <3>1, <1>1 DEF Added
  <2>3. IsYield(n, Caller) BY <2>2, <1>1, <1>3, KeptFacts DEF Lawful
  <2>4. CASE m \in 1 .. Len(stream)
    <3>1. Cleans(i, m) BY <2>4, <1>3, CleansDecided
    <3> QED BY <3>1, <2>2, <2>3, <2>4 DEF NoUseAfterCleanup
  <2>5. CASE m > Len(stream) BY <2>2, <2>5, <1>1
  <2> QED BY <2>4, <2>5, <1>1
<1>4. CleanupOrder' BY <1>1, <1>2 DEF CleanupOrder
<1>5. NoUseAfterCleanup' BY <1>1, <1>3 DEF NoUseAfterCleanup
<1> QED BY <1>4, <1>5

LEMMA LastFromPath == LifecycleInv /\ PathInv => OwnerClosesLast
<1> SUFFICES ASSUME LifecycleInv, PathInv, NEW n \in 1 .. Len(stream), IsClose(n, Caller)
             PROVE  /\ n = Len(stream)
                    /\ \A i \in Steps : Started(i) => ClosedBy(Res(i), n)
  BY DEF OwnerClosesLast
<1>1. n = Len(stream) /\ \A i \in Steps : Answered(Res(i), 1) => IsClosed(Res(i))
  BY DEF PathInv
<1>2. ASSUME NEW i \in Steps, Started(i) PROVE ClosedBy(Res(i), n)
  <2>1. IsClosed(Res(i)) BY <1>1, <1>2, StartedFacts
  <2>2. TypeOK BY DEF LifecycleInv
  <2>3. \E m \in 1 .. Len(stream) : IsClose(m, Res(i)) BY <2>1, <2>2, IsClosedFact
  <2> QED BY <2>3, <1>1 DEF ClosedBy
<1> QED BY <1>1, <1>2

-----------------------------------------------------------------------------
(* What each step adds *)

LEMMA YieldAdded ==
  ASSUME TypeOK, NEW id \in Ids, NEW p \in Nat \ {0}, NEW r \in {"ok", "error"},
         stream' = Append(stream, YieldEvent(id, p, r))
  PROVE  \A m \in Added : stream'[m] = YieldEvent(id, p, r)
<1>1. PICK e : e = YieldEvent(id, p, r) OBVIOUS
<1>2. e \in Events /\ stream \in Seq(Events) /\ Len(stream) \in Nat BY <1>1, EventFacts DEF TypeOK
<1>3. Len(stream') = Len(stream) + 1 /\ stream'[Len(stream) + 1] = e
  BY <1>1, <1>2, AppendFact
<1> QED BY <1>1, <1>2, <1>3 DEF Added

LEMMA CloseAdded ==
  ASSUME TypeOK, NEW id \in Coroutines, NEW r \in Closings, stream' = Close(id, r, stream)
  PROVE  /\ \A m \in Added : stream'[m] = CloseEvent(id, r) /\ PreClose(id) = "none" /\ m = Len(stream')
         /\ PreClose(id) = "none" => Journaled(CloseEvent(id, r))'
<1>1. stream \in Seq(Events) /\ Len(stream) \in Nat BY DEF TypeOK
<1>2. /\ stream' \in Seq(Events) /\ Len(stream') \in {Len(stream), Len(stream) + 1}
      /\ \A m \in Len(stream) + 1 .. Len(stream') : stream'[m] = CloseEvent(id, r) /\ PreClose(id) = "none"
      /\ PreClose(id) = "none" => Len(stream') = Len(stream) + 1
  <2>1. stream \in Seq(Events) BY <1>1
  <2> QED BY <2>1, CloseFact, SMT
<1>3. \A m \in Added : m = Len(stream') BY <1>1, <1>2 DEF Added
<1>4. PreClose(id) = "none" => Len(stream') \in Added /\ Len(stream') \in 1 .. Len(stream')
  BY <1>1, <1>2 DEF Added
<1> QED BY <1>2, <1>3, <1>4 DEF Added, Journaled, CloseEvent

LEMMA ClosesAdded ==
  ASSUME TypeOK, NEW i \in Steps, NEW r \in Closings,
         stream' = Close(Res(i), r, TaskHalted(i, stream))
  PROVE  /\ \A m \in Added :
              \/ /\ stream'[m] = CloseEvent(Task(i), "cancelled")
                 /\ task[i] = "running" /\ PreClose(Task(i)) = "none"
              \/ stream'[m] = CloseEvent(Res(i), r) /\ PreClose(Res(i)) = "none"
         /\ PreClose(Res(i)) = "none" => Journaled(CloseEvent(Res(i), r))'
<1>0. PICK mid : mid = TaskHalted(i, stream) OBVIOUS
<1>1. stream \in Seq(Events) /\ Len(stream) \in Nat /\ Res(i) \in Coroutines /\ Task(i) \in Coroutines
  BY IdFacts DEF TypeOK
<1>2. /\ mid \in Seq(Events) /\ Len(mid) \in {Len(stream), Len(stream) + 1}
      /\ \A m \in Len(stream) + 1 .. Len(mid) :
           /\ mid[m] = CloseEvent(Task(i), "cancelled") /\ PreClose(Task(i)) = "none"
           /\ task[i] = "running"
  <2>1. CASE task[i] = "running"
    <3>1. PICK r0 : r0 = "cancelled" OBVIOUS
    <3>2. mid = Close(Task(i), r0, stream) /\ r0 \in Closings
      BY <1>0, <2>1, <3>1 DEF TaskHalted, Closings
    <3>3. stream \in Seq(Events) /\ Task(i) \in Coroutines BY <1>1
    <3>4. mid \in Seq(Events) /\ Len(mid) \in {Len(stream), Len(stream) + 1}
      BY <3>2, <3>3, CloseFact, SMT
    <3>5. \A m \in Len(stream) + 1 .. Len(mid) :
            mid[m] = CloseEvent(Task(i), r0) /\ PreClose(Task(i)) = "none"
      BY <3>2, <3>3, CloseFact, SMT
    <3> QED BY <3>1, <3>4, <3>5, <2>1
  <2>2. CASE task[i] # "running" BY <1>0, <1>1, <2>2 DEF TaskHalted
  <2> QED BY <2>1, <2>2
<1>3. /\ stream' \in Seq(Events) /\ Len(stream') \in {Len(mid), Len(mid) + 1}
      /\ \A m \in 1 .. Len(mid) : stream'[m] = mid[m]
      /\ \A m \in Len(mid) + 1 .. Len(stream') : stream'[m] = CloseEvent(Res(i), r) /\ PreClose(Res(i)) = "none"
      /\ PreClose(Res(i)) = "none" => Len(stream') = Len(mid) + 1
  <2>1. Res(i) \in Coroutines /\ mid \in Seq(Events) /\ stream' = Close(Res(i), r, mid)
    BY <1>0, <1>1, <1>2
  <2> QED BY <2>1, CloseFact, SMT
<1>4. ASSUME NEW m \in Added
      PROVE  \/ /\ stream'[m] = CloseEvent(Task(i), "cancelled")
                /\ task[i] = "running" /\ PreClose(Task(i)) = "none"
             \/ stream'[m] = CloseEvent(Res(i), r) /\ PreClose(Res(i)) = "none"
  BY <1>1, <1>2, <1>3 DEF Added
<1>5. ASSUME PreClose(Res(i)) = "none" PROVE Journaled(CloseEvent(Res(i), r))'
  <2>1. Len(stream') \in Len(mid) + 1 .. Len(stream') /\ Len(stream') \in 1 .. Len(stream')
    BY <1>1, <1>2, <1>3, <1>5
  <2> QED BY <2>1, <1>3 DEF Journaled, CloseEvent
<1> QED BY <1>4, <1>5

LEMMA StillPath ==
  ASSUME TypeOK, stream' = stream
  PROVE  PathLaw
<1>1. Added = {} BY DEF Added, TypeOK
<1> QED BY <1>1 DEF PathLaw

\* An effect of the owner is answered, and new only while it goes on.
\* An answer of the owner's: no effect is refused, and the middleware that goes
\* on has what it asked for.
LEMMA CallerHeard ==
  ASSUME Awake, Perform \/ Answer
  PROVE  /\ owner.pc \in Steps /\ Performs(owner.pc) /\ owner.at \in {"op", "answering"}
         /\ pos[Caller] = Before(owner.pc)
         /\ Acquires(owner.pc) => Heard(owner.pc) /\ owner.at = "answering"
         /\ Acquires(owner.pc) => Acquired(owner.pc) \/ Thrown
<1>1. /\ LifecycleInv /\ TypeOK /\ OwnerInv /\ Caller \in Ids /\ Steps = 1 .. Len(program.script)
      /\ \A i \in Steps : ChildInv(i) /\ PlaceInv(i)
  BY AwakeFacts, IdFacts
<1>2. CASE Perform
  <2>1. AtOp /\ Performs(owner.pc) BY <1>2 DEF Perform, Op, Performs
  <2>2. owner.at = "op" /\ owner.pc \in Steps /\ pos[Caller] = Before(owner.pc)
    BY <2>1, <1>1 DEF AtOp, OwnerInv
  <2>3. ~ Overrun(Caller)
    <3>1. ASSUME Overrun(Caller) PROVE FALSE
      <4>1. ~ Answered(Caller, Before(owner.pc) + 1) BY <3>1, <2>2, <1>1, PeekFact DEF Overrun
      <4> QED BY <4>1, <3>1, <2>1, <2>2, LiveCaller DEF Overrun
    <3> QED BY <3>1
  <2>4. ~ Acquires(owner.pc) BY <2>3, <1>2 DEF Perform, Op, Acquires
  <2> QED BY <2>1, <2>2, <2>4
<1>3. CASE Answer
  <2>1. /\ owner.at = "answering" /\ owner.pc \in Steps /\ pos[Caller] = Before(owner.pc)
        /\ Performs(owner.pc) /\ Acquires(owner.pc) /\ Heard(owner.pc)
    BY <1>1, <1>3 DEF Answer, OwnerInv, TypeOK
  <2>2. child[owner.pc].phase \in {"provided", "closed"}
    <3>1. PICK k \in Steps : k = owner.pc BY <2>1
    <3>2. child[k].phase # "unborn" /\ child[k].phase \in Settled /\ child[k].phase \notin Working
      BY <3>1, <2>1, <1>1 DEF PlaceInv
    <3> QED BY <3>1, <3>2 DEF Settled
  <2>3. Acquired(owner.pc) \/ Thrown
    BY <2>1, <2>2, <1>1 DEF Thrown, Acquired, ChildInv, PlaceInv
  <2> QED BY <2>1, <2>3
<1> QED BY <1>2, <1>3

LEMMA CallerStep ==
  ASSUME Awake, Perform \/ Answer, NEW p, p = Before(owner.pc) + 1
  PROVE  /\ PathLaw
         /\ owner.pc \in Steps /\ Performs(owner.pc)
         /\ Acquires(owner.pc) => owner.at = "answering"
         /\ pos'[Caller] = p /\ \A i \in Steps : pos'[Res(i)] = pos[Res(i)]
         /\ \E r \in {"ok", "error"} :
              /\ Journaled(YieldEvent(Caller, p, r))'
              /\ Acquires(owner.pc) /\ r = "ok" => Acquired(owner.pc)
              /\ owner' = IF r = "ok" THEN Advance ELSE Leave(r)
<1>1. /\ LifecycleInv /\ TypeOK /\ PathInv /\ Caller \in Ids
      /\ \A i \in Steps : Res(i) \in Ids /\ Res(i) # Caller
  BY AwakeFacts, IdFacts
<1>2. /\ owner.pc \in Steps /\ Performs(owner.pc) /\ owner.at \in {"op", "answering"}
      /\ Acquires(owner.pc) => Heard(owner.pc) /\ owner.at = "answering"
      /\ Acquires(owner.pc) => Acquired(owner.pc) \/ Thrown
  BY CallerHeard
<1>3. pos[Caller] = Before(owner.pc) /\ Before(owner.pc) \in Nat
  BY <1>1, <1>2, CallerHeard, BeforeFacts
<1>4. PICK r \in Results :
        /\ Effect(Caller, r)
        /\ Answer /\ Thrown /\ PeekYield(Caller) = {} => r = "error"
        /\ owner' = IF r = "ok" THEN Advance ELSE Leave(r)
  <2>1. CASE Answer BY <2>1 DEF Answer
  <2>2. CASE Perform /\ ~ Answer BY <2>2 DEF Perform
  <2> QED BY <2>1, <2>2
<1>5. ~ Answered(Caller, p) => ~ Decided /\ ~ IsClosed(Caller) /\ PreClose(Caller) = "none"
  BY <1>2, LiveCaller
<1>6. /\ r \in {"ok", "error"} /\ Journaled(YieldEvent(Caller, p, r))'
      /\ pos'[Caller] = p /\ \A other \in Ids : other # Caller => pos'[other] = pos[other]
      /\ \/ stream' = stream
         \/ stream' = Append(stream, YieldEvent(Caller, p, r)) /\ ~ Answered(Caller, p)
  BY <1>1, <1>3, <1>4, <1>5, EffectDone
<1>7. Acquires(owner.pc) /\ r = "ok" => Acquired(owner.pc)
  <2>1. ASSUME Acquires(owner.pc), r = "ok", Thrown PROVE Acquired(owner.pc)
    <3>1. Answer BY <2>1, <1>2 DEF Perform, AtOp
    <3>2. PeekYield(Caller) # {} BY <3>1, <2>1, <1>4
    <3>3. r \in PeekYield(Caller) BY <3>2, <1>4 DEF Effect
    <3>4. Journaled(YieldEvent(Caller, pos[Caller] + 1, r)) BY <3>3, <1>1, PeekFact
    <3>5. Done(owner.pc, "ok") BY <3>4, <2>1, <1>3 DEF Done
    <3> QED BY <3>5, <2>1, <1>1, <1>2 DEF PathInv
  <2> QED BY <2>1, <1>2
<1>8. PathLaw
  <2>1. CASE stream' = stream BY <2>1, <1>1, StillPath
  <2>2. CASE stream' = Append(stream, YieldEvent(Caller, p, r)) /\ ~ Answered(Caller, p)
    <3>1. p \in Nat \ {0} BY <1>3
    <3>2. \A m \in Added : stream'[m] = YieldEvent(Caller, p, r)
      BY <3>1, <2>2, <1>1, <1>6, YieldAdded
    <3>3. r \in Results BY <1>4
    <3>4. ~ Decided /\ ~ IsClosed(Caller) BY <2>2, <1>5
    <3>5. \A m \in Added : NewAnswer(m) BY <3>2, <3>3, <3>4, <1>2, <1>7 DEF NewAnswer
    <3> QED BY <3>4, <3>5 DEF PathLaw
  <2> QED BY <2>1, <2>2, <1>6
<1> QED BY <1>1, <1>2, <1>4, <1>6, <1>7, <1>8

\* The effect of an init phase.
LEMMA InitEffectStep ==
  ASSUME Awake, NEW i \in Steps, InitEffect(i)
  PROVE  /\ PathLaw /\ ~ TaskFailed(i)
         /\ pos'[Res(i)] = 1 /\ \A id \in Ids : id # Res(i) => pos'[id] = pos[id]
         /\ \E r \in {"ok", "error"} :
              /\ Journaled(YieldEvent(Res(i), 1, r))'
              /\ child' = [child EXCEPT ![i].phase =
                   IF r = "ok" /\ program.body[i].init = "provide" THEN "providing" ELSE "failing"]
<1>1. /\ LifecycleInv /\ TypeOK /\ OwnerInv /\ ChildInv(i) /\ PlaceInv(i) /\ Res(i) \in Ids
      /\ child[i].phase = "init" /\ ~ (task[i] = "running" /\ PreClose(Task(i)) = "error")
  BY AwakeFacts, IdFacts DEF InitEffect
<1>2. pos[Res(i)] = 0 BY <1>1 DEF ChildInv
<1>3. PICK r \in Results :
        /\ Effect(Res(i), r)
        /\ child' = [child EXCEPT ![i].phase =
              IF r = "ok" /\ program.body[i].init = "provide" THEN "providing"
              ELSE IF r = "diverged" THEN "fatal" ELSE "failing"]
  BY DEF InitEffect
<1>4. ~ TaskFailed(i) /\ (~ Answered(Res(i), 1) => PreClose(Res(i)) = "none")
  BY <1>1, NotFailed
<1>5. PICK p : p = 1 OBVIOUS
<1>6. p = pos[Res(i)] + 1 /\ (~ Answered(Res(i), p) => PreClose(Res(i)) = "none")
  BY <1>2, <1>4, <1>5
<1>7. /\ r \in {"ok", "error"} /\ Journaled(YieldEvent(Res(i), p, r))'
      /\ pos'[Res(i)] = p /\ \A other \in Ids : other # Res(i) => pos'[other] = pos[other]
      /\ \/ stream' = stream
         \/ /\ stream' = Append(stream, YieldEvent(Res(i), p, r))
            /\ ~ Answered(Res(i), p) /\ PreClose(Res(i)) = "none"
  BY <1>1, <1>3, <1>6, EffectDone
<1>8. PathLaw
  <2>1. CASE stream' = stream BY <2>1, <1>1, StillPath
  <2>2. CASE /\ stream' = Append(stream, YieldEvent(Res(i), p, r))
             /\ ~ Answered(Res(i), p) /\ PreClose(Res(i)) = "none"
    <3>1. \A m \in Added : stream'[m] = YieldEvent(Res(i), p, r)
      <4>1. p \in Nat \ {0} BY <1>5
      <4> QED BY <4>1, <2>2, <1>1, <1>7, YieldAdded
    <3>2. ~ Decided /\ ~ IsClosed(Caller) BY <2>2, <1>1, <1>5, LiveInit
    <3>3. i = owner.pc /\ Acquires(i)
      BY <1>1 DEF PlaceInv, ChildInv, Settled, Working
    <3>4. \A j \in 1 .. i - 1 : Passed(j) BY <3>3, <1>1 DEF OwnerInv
    <3>5. \A m \in Added : NewStart(m)
      BY <3>1, <3>2, <3>3, <3>4, <1>1, <1>3, <1>5 DEF NewStart
    <3> QED BY <3>2, <3>5 DEF PathLaw
  <2> QED BY <2>1, <2>2, <1>7
<1>9. Journaled(YieldEvent(Res(i), 1, r))' BY <1>5, <1>7 DEF Journaled, YieldEvent
<1>10. child' = [child EXCEPT ![i].phase =
         IF r = "ok" /\ program.body[i].init = "provide" THEN "providing" ELSE "failing"]
  <2>1. r # "diverged" BY <1>7
  <2> QED BY <2>1, <1>3
<1> QED BY <1>4, <1>5, <1>7, <1>8, <1>9, <1>10

LEMMA WorkingFacts ==
  ASSUME Awake, NEW i \in Steps, child[i].phase \in Working
  PROVE  WasProvided(i) /\ Later(i) /\ Ended(owner.pc) /\ Decided /\ owner.at \in {"teardown", "halting"}
<1>1. ChildInv(i) /\ PlaceInv(i) /\ owner.pc \in 1 .. Len(program.script) + 1 BY AwakeFacts
<1>2. WasProvided(i) /\ Later(i) /\ Ended(owner.pc) BY <1>1 DEF ChildInv
<1>3. owner.at \in {"teardown", "halting"} BY <1>1 DEF PlaceInv
<1> QED BY <1>1, <1>2, <1>3 DEF Decided

\* The effect of a cleanup.
LEMMA CleanupEffectStep ==
  ASSUME Awake, NEW i \in Steps, CleanupEffect(i)
  PROVE  /\ PathLaw /\ Answered(Res(i), 2)'
         /\ pos'[Res(i)] = 2 /\ \A id \in Ids : id # Res(i) => pos'[id] = pos[id]
<1>1. /\ LifecycleInv /\ TypeOK /\ ChildInv(i) /\ Res(i) \in Ids
      /\ child[i].phase = "cleanup" /\ program.body[i].cleanup = "effect"
  BY AwakeFacts, IdFacts DEF CleanupEffect
<1>2. pos[Res(i)] = 1 BY <1>1 DEF ChildInv
<1>3. PICK r \in Results : Effect(Res(i), r) BY DEF CleanupEffect
<1>4. PICK p : p = 2 OBVIOUS
<1>5. p = pos[Res(i)] + 1 /\ (~ Answered(Res(i), p) => PreClose(Res(i)) = "none")
  BY <1>1, <1>2, <1>4, CleanupReplays
<1>6. /\ r \in {"ok", "error"} /\ Journaled(YieldEvent(Res(i), p, r))'
      /\ pos'[Res(i)] = p /\ \A other \in Ids : other # Res(i) => pos'[other] = pos[other]
      /\ \/ stream' = stream
         \/ /\ stream' = Append(stream, YieldEvent(Res(i), p, r))
            /\ ~ Answered(Res(i), p) /\ PreClose(Res(i)) = "none"
  BY <1>1, <1>3, <1>5, EffectDone
<1>7. PathLaw
  <2>1. CASE stream' = stream BY <2>1, <1>1, StillPath
  <2>2. CASE /\ stream' = Append(stream, YieldEvent(Res(i), p, r))
             /\ ~ Answered(Res(i), p) /\ PreClose(Res(i)) = "none"
    <3>1. \A m \in Added : stream'[m] = YieldEvent(Res(i), p, r)
      <4>1. p \in Nat \ {0} BY <1>4
      <4> QED BY <4>1, <2>2, <1>1, <1>6, YieldAdded
    <3>2. WasProvided(i) /\ Later(i) /\ Decided BY <1>1, WorkingFacts DEF Working
    <3>3. ~ IsClosed(Caller)
      <4>1. child[i].phase \notin {"unborn", "closed", "dead"} BY <1>1
      <4> QED BY <4>1, <2>2, NothingLate
    <3>4. \A m \in Added : NewCleanup(m) BY <3>1, <3>2, <1>3, <1>4 DEF NewCleanup
    <3> QED BY <3>3, <3>4 DEF PathLaw
  <2> QED BY <2>1, <2>2, <1>6
<1>8. Answered(Res(i), 2)' BY <1>3, <1>4, <1>6 DEF Answered, Journaled, YieldEvent
<1> QED BY <1>4, <1>6, <1>7, <1>8


\* A child is closed: halted, refused, or cleaned up.
LEMMA ChildClosePath ==
  ASSUME Awake, NEW i \in Steps, child[i].phase \notin {"unborn", "closed", "dead"}, NEW r \in Closings,
         stream' = Close(Res(i), r, TaskHalted(i, stream)),
         \/ r = "cancelled" /\ owner.at = "halting" /\ owner'.at = "halting"
         \/ r = "error" /\ InitFailed(i)
         \/ /\ r \in {"ok", "error"} /\ WasProvided(i) /\ Later(i) /\ Decided
            /\ program.body[i].cleanup = "effect" => Answered(Res(i), 2)
  PROVE  PathLaw
<1>1. TypeOK BY AwakeFacts
<1>2. \A m \in Added :
        \/ /\ stream'[m] = CloseEvent(Task(i), "cancelled")
           /\ task[i] = "running" /\ PreClose(Task(i)) = "none"
        \/ stream'[m] = CloseEvent(Res(i), r) /\ PreClose(Res(i)) = "none"
  BY <1>1, ClosesAdded
<1>3. IsClosed(Caller) => Added = {} BY <1>2, NothingLate
<1>4. ASSUME NEW m \in Added PROVE NewTaskClose(m) \/ NewChildClose(m)
  <2>1. CASE stream'[m] = CloseEvent(Task(i), "cancelled")
    <3>1. "cancelled" \in Closings BY DEF Closings
    <3> QED BY <2>1, <3>1 DEF NewTaskClose
  <2>2. CASE stream'[m] = CloseEvent(Res(i), r) /\ PreClose(Res(i)) = "none"
    BY <2>2 DEF NewChildClose
  <2> QED BY <2>1, <2>2, <1>2
<1> QED BY <1>3, <1>4 DEF PathLaw

LEMMA ProvidePath ==
  ASSUME Awake, NEW i \in Steps, Provide(i)
  PROVE  PathLaw
<1>1. TypeOK /\ stream' = TaskHalted(i, stream) /\ child[i].phase = "providing" /\ Task(i) \in Coroutines
  BY AwakeFacts, IdFacts DEF Provide
<1>2. CASE task[i] = "running"
  <2>1. PICK r : r = "cancelled" OBVIOUS
  <2>2. r \in Closings /\ stream' = Close(Task(i), r, stream)
    BY <1>1, <1>2, <2>1 DEF TaskHalted, Closings
  <2>3. \A m \in Added : stream'[m] = CloseEvent(Task(i), r) /\ PreClose(Task(i)) = "none"
    BY <1>1, <2>2, CloseAdded
  <2>4. child[i].phase \notin {"unborn", "closed", "dead"} BY <1>1
  <2>5. IsClosed(Caller) => Added = {} BY <2>3, <2>4, <1>2, NothingLate
  <2>6. \A m \in Added : NewTaskClose(m) BY <2>1, <2>2, <2>3 DEF NewTaskClose
  <2> QED BY <2>5, <2>6 DEF PathLaw
<1>3. CASE task[i] # "running" BY <1>1, <1>3, StillPath DEF TaskHalted
<1> QED BY <1>2, <1>3

LEMMA TaskEndsPath ==
  ASSUME Awake, NEW i \in Steps, TaskEnds(i)
  PROVE  PathLaw
<1>1. TypeOK /\ child[i].phase = "init" /\ task[i] = "running" /\ Task(i) \in Coroutines
  BY AwakeFacts, IdFacts DEF TaskEnds
<1>2. PICK r \in {"ok", "error"} :
        /\ stream' = Close(Task(i), r, stream)
        /\ child' = IF r = "ok" THEN child ELSE [child EXCEPT ![i].phase = "failing"]
  BY DEF TaskEnds
<1>3. r \in Closings BY DEF Closings, Results
<1>4. \A m \in Added : stream'[m] = CloseEvent(Task(i), r) /\ PreClose(Task(i)) = "none"
  BY <1>1, <1>2, <1>3, CloseAdded
<1>5. child[i].phase \notin {"unborn", "closed", "dead"} BY <1>1
<1>6. IsClosed(Caller) => Added = {} BY <1>1, <1>4, <1>5, NothingLate
<1>7. r = "error" => child'[i].phase = "failing" BY <1>1, <1>2 DEF TypeOK
<1>8. \A m \in Added : NewTaskClose(m) BY <1>3, <1>4, <1>7 DEF NewTaskClose
<1> QED BY <1>6, <1>8 DEF PathLaw

LEMMA OwnerClosePath ==
  ASSUME Awake, NEW r \in Closings, stream' = Close(Caller, r, stream), owner.at # "closed",
         \A i \in Steps : Answered(Res(i), 1) => IsClosed(Res(i)),
         r = "cancelled" \/ Decided
  PROVE  PathLaw
<1>1. LifecycleInv /\ TypeOK /\ Caller \in Coroutines BY AwakeFacts, IdFacts
<1>2. \A m \in Added : stream'[m] = CloseEvent(Caller, r) /\ PreClose(Caller) = "none" /\ m = Len(stream')
  BY <1>1, CloseAdded
<1>3. ASSUME IsClosed(Caller) PROVE PreClose(Caller) # "none"
  <2>1. PICK s \in Closings : Journaled(CloseEvent(Caller, s)) BY <1>3 DEF IsClosed
  <2>2. \A i \in Steps : Caller # Res(i) /\ Caller # Task(i) BY IdFacts
  <2>3. PreClose(Caller) = s BY <1>1, <2>1, <2>2, ClosedInIndex
  <2> QED BY <2>1, <2>3 DEF Closings, Results
<1>4. IsClosed(Caller) => Added = {} BY <1>2, <1>3
<1>5. \A m \in Added : NewOwnerClose(m) BY <1>2 DEF NewOwnerClose
<1> QED BY <1>4, <1>5 DEF PathLaw

\* Nothing was started beyond the operation that an owner ended with.
LEMMA EndReached ==
  ASSUME Awake, Ended(owner.pc), NEW i \in Steps, Answered(Res(i), 1)
  PROVE  /\ i <= owner.pc /\ Acquires(i)
         /\ owner.at = "teardown" => child[i].phase # "unborn"
<1>1. /\ LifecycleInv /\ PathInv /\ PlaceInv(i) /\ Steps = 1 .. Len(program.script)
      /\ owner.pc \in 1 .. Len(program.script) + 1 /\ Len(program.script) \in Nat
  BY AwakeFacts
<1>2. Acquires(i) /\ \A j \in 1 .. i - 1 : Passed(j) BY <1>1 DEF PathInv
<1>3. ASSUME i > owner.pc PROVE FALSE
  <2>1. owner.pc \in Steps /\ owner.pc \in 1 .. i - 1 BY <1>1, <1>3
  <2>2. Passed(owner.pc) BY <1>2, <2>1
  <2>3. Left(owner.pc) BY <2>1 DEF Ended
  <2> QED BY <1>1, <2>1, <2>2, <2>3, PassedNotLeft
<1>4. i <= owner.pc BY <1>1, <1>3
<1>5. i < owner.pc \/ i = owner.pc BY <1>1, <1>4
<1> QED BY <1>1, <1>2, <1>4, <1>5 DEF PlaceInv

\* Nothing is left to clean up.
LEMMA TornDown ==
  ASSUME Awake, owner.at = "teardown", owner.resources = <<>>, NEW i \in Steps
  PROVE  child[i].phase \in {"unborn", "closed"}
<1>1. PlaceInv(i) BY AwakeFacts
<1>2. child[i].phase \in Settled BY <1>1 DEF PlaceInv
<1>3. child[i].phase \notin Working BY <1>1 DEF PlaceInv
<1>4. ~ Held(i)
  <2>1. 1 .. Len(owner.resources) = {} OBVIOUS
  <2> QED BY <2>1 DEF Held
<1>5. child[i].phase # "provided" BY <1>1, <1>4 DEF PlaceInv
<1> QED BY <1>2, <1>3, <1>5 DEF Settled

LEMMA CloseOwnerPath ==
  ASSUME Awake, CloseOwner
  PROVE  PathLaw
<1>1. /\ OwnerInv /\ TypeOK /\ owner.pc \in 1 .. Len(program.script) + 1
      /\ \A i \in Steps : ChildInv(i)
  BY AwakeFacts
<1>2. owner.at = "teardown" /\ owner.resources = <<>> /\ stream' = Close(Caller, owner.outcome, stream)
  BY DEF CloseOwner
<1>3. Ended(owner.pc) BY <1>1, <1>2 DEF OwnerInv
<1>4. Decided BY <1>1, <1>3 DEF Decided
<1>5. ASSUME NEW i \in Steps, Answered(Res(i), 1) PROVE IsClosed(Res(i))
  <2>1. child[i].phase # "unborn" BY <1>2, <1>3, <1>5, EndReached
  <2>2. child[i].phase = "closed" BY <2>1, <1>2, TornDown
  <2> QED BY <2>2, <1>1 DEF ChildInv
<1>6. PICK r : r = owner.outcome OBVIOUS
<1>7. r \in Closings /\ stream' = Close(Caller, r, stream) /\ owner.at # "closed"
  BY <1>1, <1>2, <1>6 DEF TypeOK, Closings
<1> QED BY <1>4, <1>5, <1>7, OwnerClosePath

LEMMA OwnerHaltedPath ==
  ASSUME Awake, OwnerHalted
  PROVE  PathLaw
<1>1. OwnerInv /\ TypeOK /\ \A i \in Steps : ChildInv(i) BY AwakeFacts
<1>2. /\ owner.at = "halting" /\ stream' = Close(Caller, "cancelled", stream)
      /\ \A i \in Steps : ~ Alive(i)
  BY DEF OwnerHalted
<1>3. ASSUME NEW i \in Steps, Answered(Res(i), 1) PROVE IsClosed(Res(i))
  <2>1. child[i].phase # "unborn" BY <1>1, <1>2, <1>3 DEF OwnerInv
  <2>2. child[i].phase = "closed" BY <2>1, <1>1, <1>2 DEF Alive, ChildInv
  <2> QED BY <2>2, <1>1 DEF ChildInv
<1>4. PICK r : r = "cancelled" OBVIOUS
<1>5. r \in Closings /\ stream' = Close(Caller, r, stream) /\ owner.at # "closed"
  BY <1>2, <1>4 DEF Closings
<1> QED BY <1>3, <1>4, <1>5, OwnerClosePath

LEMMA CleanupPath ==
  ASSUME Awake, NEW i \in Steps, CleanupReturns(i) \/ CleanupEnds(i) \/ CleanupFails(i)
  PROVE  /\ PathLaw /\ child[i].phase \in Working
         /\ PreClose(Res(i)) = "none" => IsClosed(Res(i))'
<1>1. TypeOK /\ TaskInv /\ ChildInv(i) BY AwakeFacts
<1>2. child[i].phase \in Working
  BY DEF CleanupReturns, CleanupEnds, CleanupFails, Working
<1>3. WasProvided(i) /\ Later(i) /\ Decided BY <1>2, WorkingFacts
<1>4. program.body[i].cleanup = "effect" => Answered(Res(i), 2)
  BY <1>1 DEF CleanupReturns, CleanupEnds, CleanupFails, ChildInv
<1>5. PICK r \in {"ok", "error"} : stream' = Close(Res(i), r, stream)
  BY DEF CleanupReturns, CleanupEnds, CleanupFails, CleanupDone
<1>6. task[i] # "running" BY <1>1, <1>2 DEF TaskInv, InitPhases, Working
<1>7. r \in Closings /\ stream' = Close(Res(i), r, TaskHalted(i, stream))
  BY <1>5, <1>6 DEF Closings, Results, TaskHalted
<1>8. child[i].phase \notin {"unborn", "closed", "dead"} BY <1>2 DEF Working
<1>9. PathLaw BY <1>3, <1>4, <1>5, <1>7, <1>8, ChildClosePath
<1>10. PreClose(Res(i)) = "none" => Journaled(CloseEvent(Res(i), r))' BY <1>1, <1>7, ClosesAdded
<1> QED BY <1>2, <1>7, <1>9, <1>10 DEF IsClosed, Journaled, CloseEvent

LEMMA InitFailsPath ==
  ASSUME Awake, NEW i \in Steps, InitFails(i)
  PROVE  PathLaw
<1>1. ChildInv(i) /\ child[i].phase = "failing" /\ child[i].phase \notin {"unborn", "closed", "dead"}
  BY AwakeFacts DEF InitFails
<1>2. InitFailed(i) BY <1>1 DEF ChildInv
<1>3. PICK r : r = "error" OBVIOUS
<1>4. r \in Closings /\ stream' = Close(Res(i), r, TaskHalted(i, stream))
  BY <1>3 DEF InitFails, Closings, Results
<1> QED BY <1>1, <1>2, <1>3, <1>4, ChildClosePath

LEMMA ChildHaltedPath ==
  ASSUME Awake, NEW i \in Steps, ChildHalted(i)
  PROVE  PathLaw
<1>1. /\ owner.at = "halting" /\ owner'.at = "halting"
      /\ child[i].phase \notin {"unborn", "closed", "dead"}
  BY DEF ChildHalted, Alive
<1>2. PICK r : r = "cancelled" OBVIOUS
<1>3. r \in Closings /\ stream' = Close(Res(i), r, TaskHalted(i, stream))
  BY <1>2 DEF ChildHalted, Closings
<1> QED BY <1>1, <1>2, <1>3, ChildClosePath

LEMMA WorkPath ==
  ASSUME Awake, Work \/ Halt
  PROVE  PathLaw
<1>0. TypeOK /\ \A i \in Steps : ChildInv(i) BY AwakeFacts
<1>1. CASE Perform \/ Answer
  <2>1. PICK p : p = Before(owner.pc) + 1 OBVIOUS
  <2> QED BY <1>1, <2>1, CallerStep
<1>2. CASE Acquire \/ Provided \/ Refused \/ Return \/ Signal \/ CleanedUp \/ Halt \/ ScopeFails
  <2>1. stream' = stream
    BY <1>2 DEF Acquire, Provided, Refused, Return, Signal, CleanedUp, Halt, ScopeFails
  <2> QED BY <2>1, <1>0, StillPath
<1>3. CASE CloseOwner BY <1>3, CloseOwnerPath
<1>4. CASE OwnerHalted BY <1>4, OwnerHaltedPath
<1>5. ASSUME NEW i \in Steps, \/ InitEffect(i) \/ Provide(i) \/ InitFails(i) \/ InitDiverges(i)
                              \/ TaskEnds(i) \/ CleanupReturns(i) \/ CleanupEffect(i)
                              \/ CleanupEnds(i) \/ CleanupFails(i) \/ ChildHalted(i)
      PROVE  PathLaw
  <2>1. ~ InitDiverges(i) BY <1>0 DEF InitDiverges, ChildInv
  <2> QED BY <2>1, <1>5, InitEffectStep, ProvidePath, InitFailsPath, TaskEndsPath, CleanupPath,
             CleanupEffectStep, ChildHaltedPath
<1> QED BY <1>1, <1>2, <1>3, <1>4, <1>5 DEF Work

\* An execution that has ended does nothing.
LEMMA Idle ==
  ASSUME LifecycleInv, HaltInv, Work \/ Halt
  PROVE  ~ Over /\ owner.at # "closed"
<1>1. ASSUME owner.at = "closed" PROVE FALSE
  <2>1. \A i \in Steps : ~ Alive(i) BY <1>1 DEF HaltInv
  <2>2. \A i \in Steps :
          ~ (\/ InitEffect(i) \/ Provide(i) \/ InitFails(i) \/ InitDiverges(i) \/ TaskEnds(i)
             \/ CleanupReturns(i) \/ CleanupEffect(i) \/ CleanupEnds(i) \/ CleanupFails(i)
             \/ ChildHalted(i))
    BY <2>1 DEF Alive, InitEffect, Provide, InitFails, InitDiverges, TaskEnds, CleanupReturns,
          CleanupEffect, CleanupEnds, CleanupFails, ChildHalted
  <2>3. ~ (\/ Perform \/ Acquire \/ Provided \/ Refused \/ Answer \/ Return \/ Signal \/ CleanedUp
           \/ CloseOwner \/ ScopeFails \/ OwnerHalted \/ Halt)
    BY <1>1 DEF Perform, Acquire, AtOp, Provided, Refused, Answer, Return, Signal, CleanedUp,
          CloseOwner, ScopeFails, OwnerHalted, Halt
  <2> QED BY <2>2, <2>3 DEF Work
<1> QED BY <1>1 DEF HaltInv


-----------------------------------------------------------------------------
(* What a step leaves as it was *)

Going == Awake /\ LifecycleInv' /\ Lawful /\ PathLaw /\ PathInv'

LEMMA GoingFacts ==
  ASSUME Going
  PROVE  /\ Awake /\ TypeOK /\ TypeOK' /\ Lawful /\ PathLaw /\ Kept /\ Grows /\ program' = program
         /\ Steps' = Steps /\ UniqueYield' /\ UniqueClose'
         /\ \A k : (Performs(k)' <=> Performs(k)) /\ (Acquires(k)' <=> Acquires(k)) /\ Before(k)' = Before(k)
         /\ TaskInv' /\ \A e : Stored(e)' <=> Stored(e)
         /\ \A i \in Steps : child'[i].phase = "unborn" => child[i].phase = "unborn"
<1>1. Awake /\ LifecycleInv' /\ Lawful /\ PathLaw BY DEF Going
<1>2. TypeOK /\ TypeOK' /\ TaskInv' BY <1>1, AwakeFacts DEF LifecycleInv
<1>3. Grows /\ program' = program /\ Kept /\ old' = old BY <1>1, <1>2, LawfulGrows DEF Lawful
<1>4. UniqueYield' /\ UniqueClose' BY <1>1, UniqueNext
<1>5. \A e : Stored(e)' <=> Stored(e) BY <1>2, <1>3, IndexKept
<1>6. \A i \in Steps : child'[i].phase = "unborn" => child[i].phase = "unborn"
  BY <1>1 DEF Lawful, MemoryLaw
<1> QED BY <1>1, <1>2, <1>3, <1>4, <1>5, <1>6, SameScript

\* What the journal said of the children and the owner it still says.
LEMMA GoingSays ==
  ASSUME Going
  PROVE  /\ \A i \in Steps :
              /\ \A n : Answered(Res(i), n) => Answered(Res(i), n)'
              /\ IsClosed(Res(i)) => IsClosed(Res(i))'
              /\ InitOk(i) => InitOk(i)'
              /\ InitFailed(i) => InitFailed(i)'
              /\ WasProvided(i) => WasProvided(i)'
              /\ WasRefused(i) => WasRefused(i)'
              /\ Heard(i) => Heard(i)'
              /\ Acquired(i) => Acquired(i)'
         /\ \A k \in Steps : (Passed(k) => Passed(k)') /\ (Left(k) => Left(k)')
         /\ \A e \in 1 .. Len(program.script) + 1 : Ended(e) => Ended(e)'
<1>1. Grows /\ LifecycleInv /\ LifecycleInv' BY GoingFacts, AwakeFacts DEF Going
<1> QED BY <1>1, SaidOfChild, SaidOfOwner

\* A task fails with its phase.
LEMMA TaskFailedKept ==
  ASSUME Going, NEW i \in Steps, ~ TaskFailed(i), child'[i].phase # "failing"
  PROVE  ~ TaskFailed(i)'
<1>1. TypeOK /\ TypeOK' /\ Kept /\ PathLaw BY GoingFacts
<1>2. SUFFICES ASSUME TaskFailed(i)' PROVE FALSE
  OBVIOUS
<1>3. PICK r : r = "error" OBVIOUS
<1>4. PICK e : e = CloseEvent(Task(i), r) OBVIOUS
<1>5. Journaled(e)' /\ ~ Journaled(e)
  BY <1>2, <1>3, <1>4 DEF TaskFailed, Journaled, CloseEvent, Task
<1>6. PICK m \in Added : stream'[m] = e BY <1>1, <1>5, AddedJournaled
<1>7. stream'[m] = CloseEvent(Task(i), r) BY <1>4, <1>6
<1>8. r = "error" => child'[i].phase = "failing" BY <1>1, <1>7, ByEvent
<1> QED BY <1>3, <1>8

LEMMA ChildStays ==
  ASSUME Going, NEW i \in Steps, child'[i] = child[i], task'[i] = task[i],
         pos'[Res(i)] = pos[Res(i)], child[i].phase \in Working => owner'.pc = owner.pc
  PROVE  ChildInv(i)'
<1>1. /\ Awake /\ TypeOK /\ TypeOK' /\ Lawful /\ PathLaw /\ ChildInv(i)
      /\ owner.pc \in 1 .. Len(program.script) + 1
      /\ Acquires(i)' <=> Acquires(i)
  BY GoingFacts, AwakeFacts
<1>2. /\ \A n : Answered(Res(i), n) => Answered(Res(i), n)'
      /\ IsClosed(Res(i)) => IsClosed(Res(i))'
      /\ InitOk(i) => InitOk(i)'
      /\ InitFailed(i) => InitFailed(i)'
      /\ WasProvided(i) => WasProvided(i)'
      /\ \A e \in 1 .. Len(program.script) + 1 : Ended(e) => Ended(e)'
  BY GoingSays
<1>3. child[i].phase # "failing" /\ ~ TaskFailed(i) => ~ TaskFailed(i)'
  BY TaskFailedKept
<1>4. child[i].phase \in Working => Later(i)' /\ Ended(owner.pc)'
  <2>1. ASSUME child[i].phase \in Working PROVE Later(i)' /\ Ended(owner.pc)'
    <3>1. Later(i) /\ Decided /\ Ended(owner.pc) BY <2>1, <1>1, WorkingFacts
    <3>2. Later(i)' BY <3>1, <1>1, LaterKept
    <3>3. owner'.pc = owner.pc BY <2>1
    <3> QED BY <3>1, <3>2, <3>3, <1>1, <1>2
  <2> QED BY <2>1
<1> QED BY <1>1, <1>2, <1>3, <1>4 DEF ChildInv, Working

LEMMA OwnerStays ==
  ASSUME Going, owner'.pc = owner.pc, owner'.at = owner.at, owner'.resources = owner.resources,
         pos'[Caller] = pos[Caller],
         owner'.broken => owner.broken \/ (Ended(owner.pc) /\ owner.at \in {"teardown", "halting"})
  PROVE  OwnerInv'
<1>1. /\ Awake /\ TypeOK /\ OwnerInv /\ Steps' = Steps /\ PathLaw /\ TypeOK' /\ Kept
      /\ owner.pc \in 1 .. Len(program.script) + 1 /\ Steps = 1 .. Len(program.script)
      /\ Len(program.script) \in Nat
      /\ \A k : (Performs(k)' <=> Performs(k)) /\ (Acquires(k)' <=> Acquires(k)) /\ Before(k)' = Before(k)
  BY GoingFacts, AwakeFacts
<1>2. /\ \A k \in Steps : Passed(k) => Passed(k)'
      /\ \A k \in Steps : Heard(k) => Heard(k)'
      /\ \A e \in 1 .. Len(program.script) + 1 : Ended(e) => Ended(e)'
  BY GoingSays
<1>3. \A k \in 1 .. owner'.pc - 1 : Passed(k)' BY <1>1, <1>2 DEF OwnerInv
<1>4. /\ owner'.at \in {"op", "acquiring", "answering"} => pos'[Caller] = Before(owner.pc)'
      /\ owner'.at \in {"acquiring", "answering"} => Acquires(owner.pc)'
      /\ owner'.at = "answering" => Performs(owner.pc)' /\ Heard(owner.pc)'
      /\ owner'.at = "teardown" => Ended(owner.pc)'
      /\ owner'.broken => Ended(owner.pc)' /\ owner'.at \in {"teardown", "halting", "closed"}
  BY <1>1, <1>2 DEF OwnerInv, TypeOK
<1>5. ASSUME owner'.at = "halting", NEW i \in Steps, Answered(Res(i), 1)' PROVE child'[i].phase # "unborn"
  <2>1. CASE Answered(Res(i), 1)
    BY <2>1, <1>1, <1>5, GoingFacts DEF OwnerInv
  <2>2. CASE ~ Answered(Res(i), 1)
    <3>1. PICK p : p = 1 OBVIOUS
    <3>2. Answered(Res(i), p)' /\ ~ Answered(Res(i), p) BY <1>5, <2>2, <3>1 DEF Answered, Journaled, YieldEvent
    <3>3. PICK m \in Added, r \in Results : stream'[m] = YieldEvent(Res(i), p, r)
      BY <3>2, <1>1, AddedJournaled
    <3>4. child[i].phase = "init" BY <3>1, <3>3, <1>1, ByEvent
    <3> QED BY <3>4, GoingFacts
  <2> QED BY <2>1, <2>2
<1>6. /\ \A a, b \in 1 .. Len(owner'.resources) : a < b => owner'.resources[a] < owner'.resources[b]
      /\ \A a \in 1 .. Len(owner'.resources) :
           /\ owner'.resources[a] <= owner'.pc
           /\ owner'.at \in {"op", "acquiring"} => owner'.resources[a] < owner'.pc
  BY <1>1 DEF OwnerInv
<1> QED BY <1>1, <1>3, <1>4, <1>5, <1>6 DEF OwnerInv

LEMMA PlaceMoves ==
  ASSUME Going, NEW i \in Steps,
         owner'.pc = owner.pc, owner'.at = owner.at, owner'.resources = owner.resources,
         child'[i].phase = "unborn" => child[i].phase = "unborn",
         child'[i].phase \notin Settled => child[i].phase \notin Settled,
         child'[i].phase = "closed" /\ i = owner.pc /\ owner.at \in {"acquiring", "answering"} =>
            WasRefused(i)',
         child'[i].phase \in Working => child[i].phase \in Working,
         child'[i].phase = "provided" => child[i].phase \notin Settled \/ child[i].phase = "provided"
  PROVE  PlaceInv(i)'
<1>1. PlaceInv(i) /\ (Acquires(i)' <=> Acquires(i)) BY GoingFacts, AwakeFacts
<1>2. Held(i)' <=> Held(i) BY DEF Held
<1> QED BY <1>1, <1>2 DEF PlaceInv

LEMMA PlaceStays ==
  ASSUME Going, NEW i \in Steps,
         owner'.pc = owner.pc, owner'.at = owner.at, owner'.resources = owner.resources,
         child'[i] = child[i]
  PROVE  PlaceInv(i)'
<1>1. PlaceInv(i) /\ (WasRefused(i) => WasRefused(i)') BY GoingFacts, AwakeFacts, GoingSays
<1>2. child'[i].phase = "closed" /\ i = owner.pc /\ owner.at \in {"acquiring", "answering"} =>
        WasRefused(i)'
  BY <1>1 DEF PlaceInv
<1> QED BY <1>2, PlaceMoves

\* A child is closed as cancelled by a halt, which goes on until the owner is
\* closed.
LEMMA HaltStays ==
  ASSUME Going, owner'.at # "closed", owner.at = "halting" => owner'.at = "halting"
  PROVE  HaltInv' /\ ~ Over'
<1>1. /\ Awake /\ TypeOK /\ TypeOK' /\ Kept /\ Lawful /\ PathLaw /\ HaltInv /\ Steps' = Steps
      /\ \A e : Stored(e)' <=> Stored(e)
  BY GoingFacts, AwakeFacts
<1>2. PICK r : r = "cancelled" OBVIOUS
<1>3. ASSUME Over' PROVE FALSE
  <2>1. PICK e : e = CloseEvent(Caller, r) OBVIOUS
  <2>2. Journaled(e)' BY <1>2, <1>3, <2>1 DEF Over, Cancelled, Journaled, CloseEvent, Caller
  <2>3. ~ Journaled(e) BY <1>1, <1>2, <2>1 DEF Awake, Over, Cancelled
  <2>4. PICK m \in Added : stream'[m] = e BY <1>1, <2>2, <2>3, AddedJournaled
  <2>5. stream'[m].type = "close" /\ stream'[m].id = Caller BY <2>1, <2>4, EventFacts
  <2>6. Caller \in Coroutines BY IdFacts
  <2> QED BY <1>1, <2>5, <2>6 DEF Lawful, CloseLaw
<1>4. ASSUME NEW i \in Steps, Cancelled(Res(i))'
      PROVE  owner'.at = "halting" /\ ~ Stored(CloseEvent(Res(i), "cancelled"))'
  <2>1. PICK e : e = CloseEvent(Res(i), r) OBVIOUS
  <2>2. Journaled(e)' BY <1>2, <1>4, <2>1 DEF Cancelled, Journaled, CloseEvent, Res
  <2>3. CASE Journaled(e)
    <3>1. Cancelled(Res(i)) BY <2>1, <2>3, <1>2 DEF Cancelled
    <3>2. owner.at = "halting" /\ ~ Stored(e) BY <3>1, <1>1, <1>2, <2>1 DEF HaltInv, Awake
    <3>3. ~ Stored(e)' BY <3>2, <1>1
    <3> QED BY <3>2, <3>3, <2>1, <1>2 DEF Stored, CloseEvent, Res
  <2>4. CASE ~ Journaled(e)
    <3>1. PICK m \in Added : stream'[m] = CloseEvent(Res(i), r)
      BY <1>1, <2>1, <2>2, <2>4, AddedJournaled
    <3>2. owner'.at = "halting" BY <3>1, <1>1, <1>2, ByEvent
    <3>3. ~ Stored(e) BY <2>4, <1>1, StoredFact
    <3>4. ~ Stored(e)' BY <3>3, <1>1
    <3> QED BY <3>2, <3>4, <2>1, <1>2 DEF Stored, CloseEvent, Res
  <2> QED BY <2>3, <2>4
<1>5. HaltInv' BY <1>1, <1>3, <1>4 DEF HaltInv
<1> QED BY <1>3, <1>5


-----------------------------------------------------------------------------
(* The steps of a child *)

\* A step of one child leaves the others and the place of the owner.
LEMMA OneChild ==
  ASSUME Going, NEW i \in Steps, owner.at # "closed",
         owner'.pc = owner.pc, owner'.at = owner.at, owner'.resources = owner.resources,
         owner'.broken => owner.broken \/ (Ended(owner.pc) /\ owner.at \in {"teardown", "halting"}),
         \A id \in Ids : id # Res(i) => pos'[id] = pos[id],
         \A j \in Steps : j # i => child'[j] = child[j] /\ task'[j] = task[j],
         ChildInv(i)', PlaceInv(i)'
  PROVE  RunInv'
<1>1. Steps' = Steps BY GoingFacts
<1>2. HaltInv' BY HaltStays
<1>3. OwnerInv'
  <2>1. pos'[Caller] = pos[Caller] BY IdFacts
  <2> QED BY <2>1, OwnerStays
<1>4. ASSUME NEW j \in Steps PROVE ChildInv(j)' /\ PlaceInv(j)'
  <2>1. CASE j = i BY <2>1
  <2>2. CASE j # i
    <3>1. child'[j] = child[j] /\ task'[j] = task[j] BY <2>2
    <3>2. pos'[Res(j)] = pos[Res(j)] BY <2>2, IdFacts
    <3> QED BY <3>1, <3>2, ChildStays, PlaceStays
  <2> QED BY <2>1, <2>2
<1> QED BY <1>1, <1>2, <1>3, <1>4 DEF RunInv

LEMMA InitEffectRun ==
  ASSUME Going, NEW i \in Steps, InitEffect(i)
  PROVE  RunInv'
<1>1. /\ Awake /\ TypeOK /\ HaltInv /\ ChildInv(i) /\ PlaceInv(i) /\ child[i].phase = "init"
      /\ program' = program /\ owner' = owner /\ task' = task /\ Alive(i)
      /\ UniqueYield' /\ Steps' = Steps /\ Res(i) \in Ids /\ Ids' = Ids
      /\ (Acquires(i)' <=> Acquires(i))
  BY GoingFacts, AwakeFacts, IdFacts, SameProgram DEF InitEffect, Alive
<1>2. /\ ~ TaskFailed(i)
      /\ pos'[Res(i)] = 1 /\ \A id \in Ids : id # Res(i) => pos'[id] = pos[id]
  BY <1>1, InitEffectStep
<1>3. PICK r \in {"ok", "error"} :
        /\ Journaled(YieldEvent(Res(i), 1, r))'
        /\ child' = [child EXCEPT ![i].phase =
             IF r = "ok" /\ program.body[i].init = "provide" THEN "providing" ELSE "failing"]
  BY <1>1, InitEffectStep
<1>4. /\ child'[i].phase = IF r = "ok" /\ program.body[i].init = "provide" THEN "providing" ELSE "failing"
      /\ \A j \in Steps : j # i => child'[j] = child[j]
  BY <1>1, <1>3 DEF TypeOK
<1>5. owner.at # "closed" BY <1>1 DEF HaltInv
<1>6. InitOk(i)' <=> r = "ok" /\ program.body[i].init = "provide"
  <2>1. ASSUME Journaled(YieldEvent(Res(i), 1, "ok"))' PROVE r = "ok"
    <3>1. PICK p : p = 1 OBVIOUS
    <3>2. PICK s : s = "ok" OBVIOUS
    <3>3. Journaled(YieldEvent(Res(i), p, s))' /\ Journaled(YieldEvent(Res(i), p, r))'
      BY <2>1, <1>3, <3>1, <3>2 DEF Journaled, YieldEvent, Res
    <3>4. r = s BY <3>3, <1>1 DEF UniqueYield, YieldEvent, Journaled
    <3> QED BY <3>2, <3>4
  <2> QED BY <2>1, <1>1, <1>3 DEF InitOk
<1>7. ChildInv(i)'
  <2>1. CASE r = "ok" /\ program.body[i].init = "provide"
    <3>1. child'[i].phase = "providing" BY <2>1, <1>4
    <3>2. ~ TaskFailed(i)' BY <3>1, <1>2, TaskFailedKept
    <3> QED BY <3>1, <3>2, <2>1, <1>1, <1>2, <1>6 DEF ChildInv, Working
  <2>2. CASE ~ (r = "ok" /\ program.body[i].init = "provide")
    <3>1. child'[i].phase = "failing" BY <2>2, <1>4
    <3>2. Answered(Res(i), 1)'
      BY <1>3 DEF Answered, Results, Journaled, YieldEvent, Res
    <3>3. InitFailed(i)' BY <3>2, <2>2, <1>6 DEF InitFailed
    <3> QED BY <3>1, <3>3, <1>1 DEF ChildInv, Working
  <2> QED BY <2>1, <2>2
<1>8. PlaceInv(i)'
  <2>1. child'[i].phase \in {"providing", "failing"} BY <1>4
  <2>2. child[i].phase \notin Settled BY <1>1 DEF Settled, Working
  <2> QED BY <2>1, <2>2, <1>1, PlaceMoves DEF Settled, Working
<1> QED BY <1>1, <1>2, <1>4, <1>5, <1>7, <1>8, OneChild

LEMMA ProvideRun ==
  ASSUME Going, NEW i \in Steps, Provide(i)
  PROVE  RunInv'
<1>1. /\ Awake /\ TypeOK /\ HaltInv /\ ChildInv(i) /\ PlaceInv(i) /\ child[i].phase = "providing"
      /\ program' = program /\ owner' = owner /\ pos' = pos /\ Alive(i) /\ TaskInv'
      /\ Steps' = Steps /\ (Acquires(i)' <=> Acquires(i)) /\ task' = Halting(i)
      /\ child' = [child EXCEPT ![i].phase = "provided"]
  BY GoingFacts, AwakeFacts DEF Provide, Alive
<1>2. /\ child'[i].phase = "provided" /\ task'[i] # "running"
      /\ \A j \in Steps : j # i => child'[j] = child[j] /\ task'[j] = task[j]
  BY <1>1 DEF TypeOK, Halting
<1>3. owner.at # "closed" BY <1>1 DEF HaltInv
<1>4. WasProvided(i)'
  <2>1. InitOk(i) /\ ~ TaskFailed(i) BY <1>1 DEF ChildInv
  <2>2. InitOk(i)' BY <2>1, GoingSays
  <2>3. ~ TaskFailed(i)' BY <2>1, <1>2, TaskFailedKept
  <2>4. program'.body[i].spawns => IsClosed(Task(i))' BY <1>1, <1>2 DEF TaskInv
  <2> QED BY <2>2, <2>3, <2>4 DEF WasProvided
<1>5. ChildInv(i)' BY <1>1, <1>2, <1>4 DEF ChildInv, Working
<1>6. PlaceInv(i)'
  <2>1. child[i].phase \notin Settled BY <1>1 DEF Settled, Working
  <2> QED BY <2>1, <1>1, <1>2, PlaceMoves DEF Settled, Working
<1> QED BY <1>1, <1>2, <1>3, <1>5, <1>6, OneChild

LEMMA TaskEndsRun ==
  ASSUME Going, NEW i \in Steps, TaskEnds(i)
  PROVE  RunInv'
<1>1. /\ Awake /\ LifecycleInv /\ TypeOK /\ HaltInv /\ ChildInv(i) /\ PlaceInv(i) /\ child[i].phase = "init"
      /\ program' = program /\ owner' = owner /\ pos' = pos /\ Alive(i) /\ task[i] = "running"
      /\ Steps' = Steps /\ (Acquires(i)' <=> Acquires(i)) /\ task' = [task EXCEPT ![i] = "ended"]
      /\ Grows /\ Task(i) \in Coroutines
  BY GoingFacts, AwakeFacts, IdFacts DEF TaskEnds, Alive
<1>2. PICK r \in {"ok", "error"} :
        /\ PreClose(Task(i)) \in {"none", r}
        /\ stream' = Close(Task(i), r, stream)
        /\ child' = IF r = "ok" THEN child ELSE [child EXCEPT ![i].phase = "failing"]
  BY DEF TaskEnds
<1>3. /\ child'[i].phase = IF r = "ok" THEN "init" ELSE "failing"
      /\ \A j \in Steps : j # i => child'[j] = child[j] /\ task'[j] = task[j]
  BY <1>1, <1>2 DEF TypeOK
<1>4. owner.at # "closed" BY <1>1 DEF HaltInv
<1>5. ChildInv(i)'
  <2>1. CASE r = "ok"
    <3>1. ASSUME TaskFailed(i) PROVE FALSE
      <4>1. PICK s : s = "error" OBVIOUS
      <4>2. Journaled(CloseEvent(Task(i), s)) BY <3>1, <4>1 DEF TaskFailed
      <4>3. ~ TaskOver(i) BY <1>1 DEF TaskOver
      <4>4. PreClose(Task(i)) = s BY <4>2, <4>3, <1>1, TaskIndex
      <4> QED BY <4>1, <4>4, <2>1, <1>2
    <3>2. child'[i].phase = "init" BY <2>1, <1>3
    <3>3. ~ TaskFailed(i)' BY <3>1, <3>2, TaskFailedKept
    <3> QED BY <3>2, <3>3, <1>1 DEF ChildInv, Working
  <2>2. CASE r = "error"
    <3>1. child'[i].phase = "failing" BY <2>2, <1>3
    <3>2. Journaled(CloseEvent(Task(i), r))'
      <4>1. CASE PreClose(Task(i)) = "none"
        <5>1. r \in Closings BY DEF Closings, Results
        <5> QED BY <5>1, <4>1, <1>1, <1>2, CloseAdded
      <4>2. CASE PreClose(Task(i)) # "none"
        <5>1. PICK e : e = CloseEvent(Task(i), r) OBVIOUS
        <5>2. PreClose(Task(i)) = r BY <4>2, <1>2
        <5>3. Journaled(e) BY <5>1, <5>2, <4>2, <1>1, PreCloseStored
        <5>4. Journaled(e)' BY <5>3, <1>1 DEF Grows
        <5> QED BY <5>1, <5>4 DEF Journaled, CloseEvent, Task
      <4> QED BY <4>1, <4>2
    <3>3. InitFailed(i)'
      BY <3>2, <2>2 DEF InitFailed, TaskFailed, Journaled, CloseEvent, Task
    <3> QED BY <3>1, <3>3, <1>1 DEF ChildInv, Working
  <2> QED BY <2>1, <2>2
<1>6. PlaceInv(i)'
  <2>1. child[i].phase \notin Settled /\ child'[i].phase \in {"init", "failing"}
    BY <1>1, <1>3 DEF Settled, Working
  <2> QED BY <2>1, <1>1, <1>2, PlaceMoves DEF Settled, Working
<1> QED BY <1>1, <1>3, <1>4, <1>5, <1>6, OneChild

\* A child that is closed: by its end, or by a halt.
LEMMA ClosedRun ==
  ASSUME Going, NEW i \in Steps, Alive(i), child'[i].phase = "closed",
         \A j \in Steps : j # i => child'[j] = child[j] /\ task'[j] = task[j],
         owner'.pc = owner.pc, owner'.at = owner.at, owner'.resources = owner.resources,
         owner'.broken => owner.broken \/ (Ended(owner.pc) /\ owner.at \in {"teardown", "halting"}),
         pos' = pos, IsClosed(Res(i))',
         i = owner.pc /\ owner.at \in {"acquiring", "answering"} => WasRefused(i)'
  PROVE  RunInv'
<1>1. /\ HaltInv /\ ChildInv(i) /\ PlaceInv(i) /\ (Acquires(i)' <=> Acquires(i))
  BY GoingFacts, AwakeFacts
<1>2. owner.at # "closed" BY <1>1 DEF HaltInv
<1>3. ChildInv(i)' BY <1>1 DEF ChildInv, Working, Alive
<1>4. PlaceInv(i)' BY PlaceMoves DEF Settled, Working
<1> QED BY <1>2, <1>3, <1>4, OneChild

LEMMA InitFailsRun ==
  ASSUME Going, NEW i \in Steps, InitFails(i)
  PROVE  RunInv'
<1>1. /\ Awake /\ TypeOK /\ ChildInv(i) /\ child[i].phase = "failing"
      /\ owner' = owner /\ pos' = pos /\ Alive(i) /\ task' = Halting(i) /\ Grows
      /\ child' = [child EXCEPT ![i] = Closed("error")]
      /\ stream' = Close(Res(i), "error", TaskHalted(i, stream))
  BY GoingFacts, AwakeFacts DEF InitFails, Alive
<1>2. /\ child'[i].phase = "closed"
      /\ \A j \in Steps : j # i => child'[j] = child[j] /\ task'[j] = task[j]
  BY <1>1 DEF TypeOK, Closed, Halting
<1>3. InitFailed(i) BY <1>1 DEF ChildInv
<1>4. PICK r : r = "error" OBVIOUS
<1>5. Journaled(CloseEvent(Res(i), r))'
  <2>1. CASE PreClose(Res(i)) = "none"
    <3>1. r \in Closings /\ stream' = Close(Res(i), r, TaskHalted(i, stream))
      BY <1>1, <1>4 DEF Closings, Results
    <3> QED BY <3>1, <2>1, <1>1, ClosesAdded
  <2>2. CASE PreClose(Res(i)) # "none"
    <3>1. ~ WasProvided(i) BY <1>3 DEF WasProvided, InitFailed
    <3>2. PreClose(Res(i)) = r BY <3>1, <2>2, <1>1, <1>4, PreClosedChild
    <3>3. PICK e : e = CloseEvent(Res(i), r) OBVIOUS
    <3>4. Journaled(e) BY <3>2, <3>3, <2>2, <1>1, PreCloseStored
    <3>5. Journaled(e)' BY <3>4, <1>1 DEF Grows
    <3> QED BY <3>3, <3>5 DEF Journaled, CloseEvent, Res
  <2> QED BY <2>1, <2>2
<1>6. WasRefused(i)'
  <2>1. InitFailed(i)' BY <1>3, GoingSays
  <2> QED BY <2>1, <1>4, <1>5 DEF WasRefused, Journaled, CloseEvent, Res
<1>7. IsClosed(Res(i))'
  BY <1>4, <1>5 DEF IsClosed, Closings, Results, Journaled, CloseEvent, Res
<1> QED BY <1>1, <1>2, <1>6, <1>7, ClosedRun

\* What was closed before is not closed again.
LEMMA PreClosedStays ==
  ASSUME Going, NEW i \in Steps, PreClose(Res(i)) # "none"
  PROVE  IsClosed(Res(i))'
<1>1. TypeOK BY GoingFacts
<1>2. IsClosed(Res(i)) BY <1>1, PreClosedIsClosed
<1> QED BY <1>2, GoingSays

LEMMA ChildHaltedRun ==
  ASSUME Going, NEW i \in Steps, ChildHalted(i)
  PROVE  RunInv'
<1>1. /\ Awake /\ TypeOK /\ owner.at = "halting"
      /\ owner' = owner /\ pos' = pos /\ Alive(i) /\ task' = Halting(i)
      /\ child' = [child EXCEPT ![i] = Closed("cancelled")]
      /\ stream' = Close(Res(i), "cancelled", TaskHalted(i, stream))
  BY GoingFacts DEF ChildHalted
<1>2. /\ child'[i].phase = "closed"
      /\ \A j \in Steps : j # i => child'[j] = child[j] /\ task'[j] = task[j]
  BY <1>1 DEF TypeOK, Closed, Halting
<1>3. IsClosed(Res(i))'
  <2>1. CASE PreClose(Res(i)) = "none"
    <3>1. PICK r : r = "cancelled" OBVIOUS
    <3>2. r \in Closings /\ stream' = Close(Res(i), r, TaskHalted(i, stream))
      BY <1>1, <3>1 DEF Closings
    <3>3. Journaled(CloseEvent(Res(i), r))' BY <3>2, <2>1, <1>1, ClosesAdded
    <3> QED BY <3>2, <3>3 DEF IsClosed, Journaled, CloseEvent, Res
  <2>2. CASE PreClose(Res(i)) # "none" BY <2>2, PreClosedStays
  <2> QED BY <2>1, <2>2
<1> QED BY <1>1, <1>2, <1>3, ClosedRun

LEMMA CleanupRun ==
  ASSUME Going, NEW i \in Steps, CleanupReturns(i) \/ CleanupEnds(i) \/ CleanupFails(i)
  PROVE  RunInv'
<1>1. /\ Awake /\ TypeOK /\ pos' = pos /\ task' = task /\ owner \in [pc : 1 .. Len(program.script) + 1,
           outcome : Results, broken : BOOLEAN,
           at : {"op", "acquiring", "answering", "teardown", "halting", "closed"},
           resources : Seq(Steps)]
      /\ owner' = owner \/ owner' = [owner EXCEPT !.broken = TRUE]
  BY GoingFacts DEF CleanupReturns, CleanupEnds, CleanupFails, CleanupDone, TypeOK
<1>2. child[i].phase \in Working /\ (PreClose(Res(i)) = "none" => IsClosed(Res(i))')
  BY <1>1, CleanupPath
<1>3. /\ child'[i].phase = "closed"
      /\ \A j \in Steps : j # i => child'[j] = child[j] /\ task'[j] = task[j]
  BY <1>1 DEF TypeOK, CleanupReturns, CleanupEnds, CleanupFails, CleanupDone, Closed
<1>4. Ended(owner.pc) /\ owner.at \in {"teardown", "halting"} BY <1>1, <1>2, WorkingFacts
<1>5. IsClosed(Res(i))' BY <1>2, PreClosedStays
<1>6. owner'.pc = owner.pc /\ owner'.at = owner.at /\ owner'.resources = owner.resources
  BY <1>1
<1>7. Alive(i) BY <1>2 DEF Alive, Working
<1> QED BY <1>1, <1>3, <1>4, <1>5, <1>6, <1>7, ClosedRun

LEMMA CleanupEffectRun ==
  ASSUME Going, NEW i \in Steps, CleanupEffect(i)
  PROVE  RunInv'
<1>1. /\ Awake /\ TypeOK /\ PathLaw /\ TypeOK' /\ Lawful /\ HaltInv /\ ChildInv(i) /\ PlaceInv(i)
      /\ child[i].phase = "cleanup" /\ owner' = owner /\ task' = task
      /\ (Acquires(i)' <=> Acquires(i)) /\ owner.pc \in 1 .. Len(program.script) + 1
  BY GoingFacts, AwakeFacts DEF CleanupEffect
<1>2. /\ Answered(Res(i), 2)'
      /\ \A id \in Ids : id # Res(i) => pos'[id] = pos[id]
  BY <1>1, CleanupEffectStep
<1>3. /\ child'[i].phase \in {"cleaned", "spoilt"}
      /\ \A j \in Steps : j # i => child'[j] = child[j] /\ task'[j] = task[j]
  BY <1>1 DEF TypeOK, CleanupEffect
<1>4. /\ child[i].phase \in Working BY <1>1 DEF Working
<1>5. WasProvided(i) /\ Later(i) /\ Decided /\ Ended(owner.pc) BY <1>1, <1>4, WorkingFacts
<1>6. WasProvided(i)' /\ Later(i)' /\ Ended(owner.pc)'
  <2>1. WasProvided(i)' BY <1>5, GoingSays
  <2>2. Later(i)' BY <1>1, <1>5, LaterKept
  <2>3. Ended(owner.pc)' BY <1>1, <1>5, GoingSays
  <2> QED BY <2>1, <2>2, <2>3
<1>7. ChildInv(i)' BY <1>1, <1>2, <1>3, <1>6 DEF ChildInv, Working
<1>8. PlaceInv(i)' BY <1>1, <1>3, <1>4, PlaceMoves DEF Settled, Working
<1>9. owner.at # "closed" BY <1>1 DEF HaltInv, Alive
<1> QED BY <1>1, <1>2, <1>3, <1>7, <1>8, <1>9, OneChild


-----------------------------------------------------------------------------
(* The steps of the owner *)

\* Until it leaves, nothing is cleaned up.
LEMMA GoesOn ==
  ASSUME Awake, owner.at \in {"op", "acquiring", "answering"}
  PROVE  /\ ~ owner.broken
         /\ \A i \in Steps :
              /\ child[i].phase \notin Working
              /\ child[i].phase \notin Settled => i = owner.pc /\ owner.at = "acquiring"
              /\ child[i].phase = "provided" => Held(i) \/ (i = owner.pc /\ owner.at = "acquiring")
BY AwakeFacts DEF OwnerInv, PlaceInv

\* What the children have come to, when only the owner moves.
LEMMA ChildrenStay ==
  ASSUME Going, child' = child, task' = task, \A i \in Steps : pos'[Res(i)] = pos[Res(i)],
         \A i \in Steps : child[i].phase \in Working => owner'.pc = owner.pc
  PROVE  \A i \in Steps : ChildInv(i)'
BY ChildStays

\* An operation is passed.
LEMMA Advances ==
  ASSUME Going, owner.at \in {"op", "acquiring", "answering"}, owner.pc \in Steps,
         child' = child, task' = task, \A i \in Steps : pos'[Res(i)] = pos[Res(i)],
         owner'.pc = owner.pc + 1, owner'.at = "op", owner'.broken = owner.broken,
         pos'[Caller] = Before(owner.pc + 1),
         NEW k, k = owner.pc, Passed(k)',
         Acquires(k) => owner.at # "op" /\ child[k].phase \in {"provided", "closed"},
         \/ owner'.resources = owner.resources
         \/ owner'.resources = Append(owner.resources, k) /\ owner.at = "acquiring",
         child[k].phase = "provided" /\ owner.at = "acquiring" =>
            owner'.resources = Append(owner.resources, k)
  PROVE  RunInv'
<1>1. /\ Awake /\ TypeOK /\ OwnerInv /\ Steps' = Steps /\ BornInv
      /\ owner.pc \in 1 .. Len(program.script) + 1 /\ Steps = 1 .. Len(program.script)
      /\ Len(program.script) \in Nat /\ owner.resources \in Seq(Steps)
      /\ \A j : (Performs(j)' <=> Performs(j)) /\ (Acquires(j)' <=> Acquires(j)) /\ Before(j)' = Before(j)
      /\ \A i \in Steps : ChildInv(i) /\ PlaceInv(i)
  BY GoingFacts, AwakeFacts DEF TypeOK
<1>2. /\ ~ owner.broken
      /\ \A i \in Steps :
              /\ child[i].phase \notin Working
              /\ child[i].phase \notin Settled => i = owner.pc /\ owner.at = "acquiring"
              /\ child[i].phase = "provided" => Held(i) \/ (i = owner.pc /\ owner.at = "acquiring")
  BY <1>1, GoesOn
<1>3. HaltInv' BY HaltStays
<1>4. \A i \in Steps : ChildInv(i)' BY <1>2, ChildrenStay
<1>5. PICK p : p = owner'.pc OBVIOUS
<1>6. p = k + 1 /\ k \in Steps /\ k \in Nat BY <1>1, <1>5
<1>7. \A j \in 1 .. owner'.pc - 1 : Passed(j)'
  <2>1. \A j \in 1 .. k - 1 : Passed(j) /\ j \in Steps BY <1>1, <1>6 DEF OwnerInv
  <2>2. Passed(k)' OBVIOUS
  <2>3. \A j \in 1 .. k - 1 : Passed(j)' BY <2>1, GoingSays
  <2>4. \A j \in 1 .. k : j \in 1 .. k - 1 \/ j = k BY <1>6
  <2>5. owner'.pc - 1 = k BY <1>5, <1>6
  <2> QED BY <2>2, <2>3, <2>4, <2>5
<1>8. pos'[Caller] = Before(owner.pc)'
  <2>1. pos'[Caller] = Before(p) BY <1>5
  <2>2. Before(p)' = Before(p) BY <1>1
  <2> QED BY <2>1, <2>2, <1>5
<1>9. /\ \A a, b \in 1 .. Len(owner'.resources) : a < b => owner'.resources[a] < owner'.resources[b]
      /\ \A a \in 1 .. Len(owner'.resources) :
           owner'.resources[a] <= owner'.pc /\ owner'.resources[a] < owner'.pc
      /\ \A a \in 1 .. Len(owner.resources) :
           a \in 1 .. Len(owner'.resources) /\ owner'.resources[a] = owner.resources[a]
  <2>0. \A q \in Seq(Steps) : \A a \in 1 .. Len(q) : q[a] \in Steps OBVIOUS
  <2>1. /\ \A a, b \in 1 .. Len(owner.resources) : a < b => owner.resources[a] < owner.resources[b]
        /\ \A a \in 1 .. Len(owner.resources) :
             /\ owner.resources[a] <= owner.pc
             /\ owner.at \in {"op", "acquiring"} => owner.resources[a] < owner.pc
             /\ owner.resources[a] \in Steps
    <3>1. OwnerInv /\ owner.resources \in Seq(Steps) BY <1>1
    <3>2. \A a \in 1 .. Len(owner.resources) : owner.resources[a] \in Steps BY <3>1, <2>0
    <3>3. /\ \A a, b \in 1 .. Len(owner.resources) : a < b => owner.resources[a] < owner.resources[b]
          /\ \A a \in 1 .. Len(owner.resources) :
               /\ owner.resources[a] <= owner.pc
               /\ owner.at \in {"op", "acquiring"} => owner.resources[a] < owner.pc
      BY <3>1 DEF OwnerInv
    <3> QED BY <3>2, <3>3
  <2>2. PICK s \in Seq(Steps) : s = owner.resources BY <1>1
  <2>3. /\ Len(s) \in Nat /\ Steps \subseteq Nat /\ owner'.pc = k + 1
        /\ \A a, b \in 1 .. Len(s) : a < b => s[a] < s[b]
        /\ \A a \in 1 .. Len(s) :
             s[a] \in Steps /\ s[a] <= k /\ (owner.at = "acquiring" => s[a] < k)
    BY <2>1, <2>2, <1>1, <1>5, <1>6
  <2>4. CASE owner'.resources = s
    <3>1. \A a \in 1 .. Len(s) : s[a] <= k + 1 /\ s[a] < k + 1 
      <4>1. \A x, y \in Nat : x <= y => x <= y + 1 /\ x < y + 1 OBVIOUS
      <4>2. \A a \in 1 .. Len(s) : s[a] \in Nat /\ s[a] <= k BY <2>3
      <4> QED BY <4>1, <4>2, <1>6
    <3> QED BY <3>1, <2>2, <2>3, <2>4
  <2>5. CASE owner'.resources = Append(s, k) /\ owner.at = "acquiring"
    <3>1. PICK t : t = Append(s, k) OBVIOUS
    <3>2. /\ Len(t) = Len(s) + 1 /\ t[Len(s) + 1] = k
          /\ \A a \in 1 .. Len(s) : t[a] = s[a]
      BY <3>1, <1>6, AppendFact
    <3>3. \A a \in 1 .. Len(t) : a \in 1 .. Len(s) \/ a = Len(s) + 1 BY <3>2, <2>3
    <3>4. \A a, b \in 1 .. Len(t) : a < b => t[a] < t[b]
      <4>1. SUFFICES ASSUME NEW a \in 1 .. Len(t), NEW b \in 1 .. Len(t), a < b PROVE t[a] < t[b]
        OBVIOUS
      <4>2. a \in 1 .. Len(s) BY <4>1, <3>2, <2>3
      <4>3. CASE b \in 1 .. Len(s) BY <4>1, <4>2, <4>3, <3>2, <2>3
      <4>4. CASE b = Len(s) + 1 BY <4>2, <4>4, <3>2, <2>3, <2>5
      <4> QED BY <4>3, <4>4, <3>3
    <3>5. \A a \in 1 .. Len(t) : t[a] <= k + 1 /\ t[a] < k + 1
      <4>1. SUFFICES ASSUME NEW a \in 1 .. Len(t) PROVE t[a] <= k + 1 /\ t[a] < k + 1
        OBVIOUS
      <4>2. CASE a \in 1 .. Len(s)
        <5>1. \A x, y \in Nat : x <= y => x <= y + 1 /\ x < y + 1 OBVIOUS
        <5>2. t[a] \in Nat /\ t[a] <= k BY <4>2, <3>2, <2>3
        <5> QED BY <5>1, <5>2, <1>6
      <4>3. CASE a = Len(s) + 1 BY <4>3, <3>2, <1>6
      <4> QED BY <4>2, <4>3, <3>3
    <3>6. \A a \in 1 .. Len(s) : a \in 1 .. Len(t) /\ t[a] = s[a] BY <3>2, <2>3
    <3> QED BY <3>1, <3>4, <3>5, <3>6, <2>2, <2>3, <2>5
  <2> QED BY <2>2, <2>4, <2>5
<1>10. OwnerInv' BY <1>1, <1>2, <1>7, <1>8, <1>9 DEF OwnerInv
<1>11. ASSUME NEW i \in Steps PROVE PlaceInv(i)'
  <2>1. i < owner'.pc /\ Acquires(i) => child'[i].phase # "unborn"
    <3>1. i < owner'.pc => i < owner.pc \/ i = owner.pc BY <1>1
    <3> QED BY <3>1, <1>1 DEF PlaceInv
  <2>2. child'[i].phase \notin Working BY <1>2
  <2>3. child'[i].phase \in Settled
    <3>1. Acquires(i) => child[i].phase \in Settled \/ i # owner.pc BY DEF Settled
    <3>2. child[i].phase # "unborn" => Acquires(i) BY <1>1 DEF ChildInv
    <3> QED BY <3>1, <3>2, <1>2 DEF Settled
  <2>4. child'[i].phase = "provided" => Held(i)'
    <3>1. ASSUME Held(i) PROVE Held(i)' BY <3>1, <1>9 DEF Held
    <3>2. ASSUME child[i].phase = "provided", i = owner.pc, owner.at = "acquiring" PROVE Held(i)'
      <4>1. owner'.resources = Append(owner.resources, k) /\ i = k BY <3>2
      <4>2. PICK s \in Seq(Steps) : s = owner.resources BY <1>1
      <4>3. Len(Append(s, k)) = Len(s) + 1 /\ Append(s, k)[Len(s) + 1] = k /\ Len(s) \in Nat
        BY <1>6, <4>2, AppendFact
      <4> QED BY <4>1, <4>2, <4>3 DEF Held
    <3> QED BY <3>1, <3>2, <1>2
  <2> QED BY <2>1, <2>2, <2>3, <2>4, <1>1 DEF PlaceInv
<1> QED BY <1>1, <1>3, <1>4, <1>10, <1>11 DEF RunInv

\* The owner leaves: its way has ended.
LEMMA Leaves ==
  ASSUME Going, owner.at \in {"op", "acquiring", "answering"},
         child' = child, task' = task, \A i \in Steps : pos'[Res(i)] = pos[Res(i)],
         owner'.pc = owner.pc, owner'.at = "teardown", owner'.broken = owner.broken,
         owner'.resources = owner.resources,
         NEW k, k = owner.pc, k \in Steps => Left(k)',
         k \in Steps /\ Acquires(k) => owner.at # "op",
         owner.at = "acquiring" => child[k].phase = "closed"
  PROVE  RunInv'
<1>1. /\ Awake /\ TypeOK /\ OwnerInv /\ Steps' = Steps
      /\ owner.pc \in 1 .. Len(program.script) + 1 /\ Steps = 1 .. Len(program.script)
      /\ Len(program.script) \in Nat
      /\ \A j : (Performs(j)' <=> Performs(j)) /\ (Acquires(j)' <=> Acquires(j)) /\ Before(j)' = Before(j)
      /\ \A i \in Steps : ChildInv(i) /\ PlaceInv(i)
  BY GoingFacts, AwakeFacts
<1>2. /\ ~ owner.broken
      /\ \A i \in Steps :
              /\ child[i].phase \notin Working
              /\ child[i].phase \notin Settled => i = owner.pc /\ owner.at = "acquiring"
              /\ child[i].phase = "provided" => Held(i) \/ (i = owner.pc /\ owner.at = "acquiring")
  BY <1>1, GoesOn
<1>3. HaltInv' BY HaltStays
<1>4. \A i \in Steps : ChildInv(i)' BY <1>2, ChildrenStay
<1>5. \A j \in 1 .. k - 1 : Passed(j)' BY <1>1, GoingSays DEF OwnerInv
<1>6. Ended(k)' BY <1>1, <1>5 DEF Ended
<1>7. OwnerInv'
  <2>1. Ended(owner.pc)' BY <1>6
  <2> QED BY <2>1, <1>1, <1>2, <1>5 DEF OwnerInv
<1>8. ASSUME NEW i \in Steps PROVE PlaceInv(i)'
  <2>1. Held(i) => Held(i)' BY DEF Held
  <2>2. child[i].phase \in Settled BY <1>2 DEF Settled
  <2>3. child[i].phase = "provided" => Held(i) BY <1>2
  <2> QED BY <2>1, <2>2, <2>3, <1>1, <1>2 DEF PlaceInv
<1> QED BY <1>1, <1>3, <1>4, <1>7, <1>8 DEF RunInv

LEMMA CallerRun ==
  ASSUME Going, Perform \/ Answer
  PROVE  RunInv'
<1>1. /\ Awake /\ TypeOK /\ program' = program /\ Steps' = Steps /\ child' = child /\ task' = task
      /\ Steps = 1 .. Len(program.script)
      /\ \A j : (Performs(j)' <=> Performs(j)) /\ (Acquires(j)' <=> Acquires(j)) /\ Before(j)' = Before(j)
      /\ \A i \in Steps : ChildInv(i) /\ PlaceInv(i)
  BY GoingFacts, AwakeFacts DEF Perform, Answer
<1>2. PICK p : p = Before(owner.pc) + 1 OBVIOUS
<1>3. /\ owner.pc \in Steps /\ Performs(owner.pc)
      /\ Acquires(owner.pc) => owner.at = "answering"
      /\ pos'[Caller] = p /\ \A i \in Steps : pos'[Res(i)] = pos[Res(i)]
  BY <1>1, <1>2, CallerStep
<1>4. PICK r \in {"ok", "error"} :
        /\ Journaled(YieldEvent(Caller, p, r))'
        /\ Acquires(owner.pc) /\ r = "ok" => Acquired(owner.pc)
        /\ owner' = IF r = "ok" THEN Advance ELSE Leave(r)
  BY <1>1, <1>2, CallerStep
<1>5. owner.at \in {"op", "answering"} BY DEF Perform, AtOp, Answer
<1>6. PICK k : k = owner.pc OBVIOUS
<1>7. Done(k, r)'
  <2>1. Before(k)' + 1 = p BY <1>1, <1>2, <1>6
  <2> QED BY <2>1, <1>4 DEF Done, Journaled, YieldEvent, Caller
<1>8. Acquires(k) /\ r = "ok" => Acquired(k)' BY <1>3, <1>4, <1>6, GoingSays
<1>9. CASE r = "ok"
  <2>1. /\ owner'.pc = owner.pc + 1 /\ owner'.at = "op" /\ owner'.broken = owner.broken
        /\ owner'.resources = owner.resources
    BY <1>1, <1>4, <1>9 DEF Advance, TypeOK
  <2>2. Passed(k)' BY <1>1, <1>7, <1>8, <1>9 DEF Passed
  <2>3. pos'[Caller] = Before(owner.pc + 1) BY <1>1, <1>2, <1>3, BeforeFacts
  <2>4. Acquires(k) => owner.at # "op" /\ child[k].phase \in {"provided", "closed"}
    <3>1. ASSUME Acquires(k) PROVE child[k].phase \in {"provided", "closed"}
      <4>1. owner.at = "answering" BY <3>1, <1>3, <1>6
      <4>2. child[k].phase # "unborn" /\ child[k].phase \in Settled /\ child[k].phase \notin Working
        BY <4>1, <3>1, <1>1, <1>3, <1>6 DEF PlaceInv
      <4> QED BY <4>2 DEF Settled
    <3> QED BY <3>1, <1>3, <1>6
  <2> QED BY <2>1, <2>2, <2>3, <2>4, <1>1, <1>3, <1>5, <1>6, Advances
<1>10. CASE r = "error"
  <2>1. /\ owner'.pc = owner.pc /\ owner'.at = "teardown" /\ owner'.broken = owner.broken
        /\ owner'.resources = owner.resources
    BY <1>1, <1>4, <1>10 DEF Leave, TypeOK
  <2>2. Left(k)' BY <1>1, <1>3, <1>6, <1>7, <1>10 DEF Left
  <2> QED BY <2>1, <2>2, <1>1, <1>3, <1>5, <1>6, Leaves
<1> QED BY <1>9, <1>10

LEMMA ReturnRun ==
  ASSUME Going, Return
  PROVE  RunInv'
<1>1. TypeOK BY GoingFacts
<1>2. /\ owner.at = "op" /\ owner.pc \notin Steps /\ child' = child /\ task' = task /\ pos' = pos
      /\ owner' = Leave("ok")
  BY DEF Return
<1>3. /\ owner'.pc = owner.pc /\ owner'.at = "teardown" /\ owner'.broken = owner.broken
      /\ owner'.resources = owner.resources
  BY <1>1, <1>2 DEF Leave, TypeOK
<1>4. PICK k : k = owner.pc OBVIOUS
<1> QED BY <1>2, <1>3, <1>4, Leaves


\* A resource acquired by an inline lane: the effect it was made for comes next.
LEMMA AnswersNext ==
  ASSUME Going, owner.at = "acquiring", child' = child, task' = task, pos' = pos,
         owner'.pc = owner.pc, owner'.at = "answering", owner'.broken = owner.broken,
         NEW k, k = owner.pc, Heard(k), Performs(k), child[k].phase \in {"provided", "closed"},
         child[k].phase = "closed" => WasRefused(k),
         \/ owner'.resources = owner.resources /\ child[k].phase = "closed"
         \/ owner'.resources = Append(owner.resources, k)
  PROVE  RunInv'
<1>1. /\ Awake /\ TypeOK /\ OwnerInv /\ Steps' = Steps
      /\ owner.pc \in 1 .. Len(program.script) + 1 /\ Steps = 1 .. Len(program.script)
      /\ Len(program.script) \in Nat /\ owner.resources \in Seq(Steps) /\ owner.pc \in Steps
      /\ \A j : (Performs(j)' <=> Performs(j)) /\ (Acquires(j)' <=> Acquires(j)) /\ Before(j)' = Before(j)
      /\ \A i \in Steps : ChildInv(i) /\ PlaceInv(i)
  BY GoingFacts, AwakeFacts DEF TypeOK
<1>2. /\ ~ owner.broken
      /\ \A i \in Steps :
              /\ child[i].phase \notin Working
              /\ child[i].phase \notin Settled => i = owner.pc /\ owner.at = "acquiring"
              /\ child[i].phase = "provided" => Held(i) \/ (i = owner.pc /\ owner.at = "acquiring")
  BY <1>1, GoesOn
<1>3. HaltInv' BY HaltStays
<1>4. \A i \in Steps : ChildInv(i)' BY <1>2, ChildrenStay
<1>5. PICK s \in Seq(Steps) : s = owner.resources BY <1>1
<1>6. PICK t : t = owner'.resources OBVIOUS
<1>7. /\ Len(s) \in Nat /\ k \in Nat /\ k \in Steps
      /\ \A a, b \in 1 .. Len(s) : a < b => s[a] < s[b]
      /\ \A a \in 1 .. Len(s) : s[a] \in Nat /\ s[a] < k
  <2>1. /\ \A a, b \in 1 .. Len(owner.resources) : a < b => owner.resources[a] < owner.resources[b]
        /\ \A a \in 1 .. Len(owner.resources) : owner.resources[a] < owner.pc
    BY <1>1 DEF OwnerInv
  <2>2. Len(s) \in Nat /\ \A a \in 1 .. Len(s) : s[a] \in Steps BY <1>5
  <2>3. k \in Steps /\ \A i \in Steps : i \in Nat BY <1>1
  <2>4. /\ \A a, b \in 1 .. Len(s) : a < b => s[a] < s[b]
        /\ \A a \in 1 .. Len(s) : s[a] < k
    BY <2>1, <1>5
  <2> QED BY <2>2, <2>3, <2>4
<1>8. /\ \A a, b \in 1 .. Len(t) : a < b => t[a] < t[b]
      /\ \A a \in 1 .. Len(t) : t[a] <= k
      /\ \A a \in 1 .. Len(s) : a \in 1 .. Len(t) /\ t[a] = s[a]
      /\ child[k].phase = "provided" => \E a \in 1 .. Len(t) : t[a] = k
  <2>1. \A x, y \in Nat : x < y => x <= y OBVIOUS
  <2>2. CASE t = s /\ child[k].phase = "closed" BY <2>1, <2>2, <1>7
  <2>3. CASE t = Append(s, k)
    <3>1. /\ Len(t) = Len(s) + 1 /\ t[Len(s) + 1] = k
          /\ \A a \in 1 .. Len(s) : t[a] = s[a]
      BY <2>3, <1>7, AppendFact
    <3>2. \A a \in 1 .. Len(t) : a \in 1 .. Len(s) \/ a = Len(s) + 1 BY <3>1, <1>7
    <3>3. \A a, b \in 1 .. Len(t) : a < b => t[a] < t[b]
      <4>1. SUFFICES ASSUME NEW a \in 1 .. Len(t), NEW b \in 1 .. Len(t), a < b PROVE t[a] < t[b]
        OBVIOUS
      <4>2. a \in 1 .. Len(s) BY <4>1, <3>1, <1>7
      <4>3. CASE b \in 1 .. Len(s) BY <4>1, <4>2, <4>3, <3>1, <1>7
      <4>4. CASE b = Len(s) + 1 BY <4>2, <4>4, <3>1, <1>7
      <4> QED BY <4>3, <4>4, <3>2
    <3>4. \A a \in 1 .. Len(t) : t[a] <= k
      <4>1. SUFFICES ASSUME NEW a \in 1 .. Len(t) PROVE t[a] <= k
        OBVIOUS
      <4>2. CASE a \in 1 .. Len(s)
        <5>1. t[a] \in Nat /\ t[a] < k BY <4>2, <3>1, <1>7
        <5> QED BY <5>1, <2>1, <1>7
      <4>3. CASE a = Len(s) + 1 BY <4>3, <3>1, <1>7
      <4> QED BY <4>2, <4>3, <3>2
    <3>5. Len(s) + 1 \in 1 .. Len(t) /\ \A a \in 1 .. Len(s) : a \in 1 .. Len(t) BY <3>1, <1>7
    <3> QED BY <3>1, <3>3, <3>4, <3>5
  <2> QED BY <2>2, <2>3, <1>5, <1>6
<1>9. OwnerInv'
  <2>1. \A j \in 1 .. owner'.pc - 1 : Passed(j)'
    <3>1. \A j \in 1 .. k - 1 : Passed(j) /\ j \in Steps BY <1>1, <1>7 DEF OwnerInv
    <3> QED BY <3>1, GoingSays
  <2>2. pos'[Caller] = Before(owner.pc)' BY <1>1 DEF OwnerInv
  <2>3. Heard(owner.pc)'
    <3>1. Heard(k)' BY <1>7, GoingSays
    <3> QED BY <3>1
  <2>4. Acquires(owner.pc)' /\ Performs(owner.pc)' BY <1>1 DEF OwnerInv
  <2> QED BY <2>1, <2>2, <2>3, <2>4, <1>2, <1>6, <1>8 DEF OwnerInv
<1>10. ASSUME NEW i \in Steps PROVE PlaceInv(i)'
  <2>1. child'[i].phase \notin Working BY <1>2
  <2>2. child'[i].phase \in Settled
    <3>1. i = k => child[i].phase \in Settled BY DEF Settled
    <3> QED BY <3>1, <1>2
  <2>3. child'[i].phase = "provided" => Held(i)'
    <3>1. ASSUME Held(i) PROVE Held(i)' BY <3>1, <1>5, <1>6, <1>8 DEF Held
    <3>2. ASSUME child[i].phase = "provided", i = k PROVE Held(i)'
      BY <3>2, <1>6, <1>8 DEF Held
    <3> QED BY <3>1, <3>2, <1>2
  <2>4. child'[i].phase = "closed" /\ i = k => WasRefused(i)' BY <1>7, GoingSays
  <2> QED BY <2>1, <2>2, <2>3, <2>4, <1>1 DEF PlaceInv
<1> QED BY <1>1, <1>3, <1>4, <1>9, <1>10 DEF RunInv

LEMMA ProvidedRun ==
  ASSUME Going, Provided
  PROVE  RunInv'
<1>1. /\ Awake /\ TypeOK /\ OwnerInv /\ owner.pc \in Steps /\ owner.at = "acquiring"
      /\ child[owner.pc].phase = "provided" /\ child' = child /\ task' = task /\ pos' = pos
      /\ owner' = Register(AfterAcquisition, owner.pc) /\ ChildInv(owner.pc)
  BY GoingFacts, AwakeFacts DEF Provided, TypeOK
<1>2. PICK k : k = owner.pc OBVIOUS
<1>3. WasProvided(k) /\ Acquires(k) /\ pos[Caller] = Before(k) BY <1>1, <1>2 DEF ChildInv, OwnerInv
<1>4. Acquired(k) /\ Heard(k) BY <1>3 DEF Acquired, Heard
<1>5. CASE Op = "inline"
  <2>1. /\ owner'.pc = owner.pc /\ owner'.at = "answering" /\ owner'.broken = owner.broken
        /\ owner'.resources = Append(owner.resources, k)
    BY <1>1, <1>2, <1>5 DEF AfterAcquisition, Register, TypeOK
  <2>2. Performs(k) BY <1>2, <1>5 DEF Op, Performs
  <2> QED BY <2>1, <2>2, <1>1, <1>2, <1>4, AnswersNext
<1>6. CASE Op # "inline"
  <2>1. /\ owner'.pc = owner.pc + 1 /\ owner'.at = "op" /\ owner'.broken = owner.broken
        /\ owner'.resources = Append(owner.resources, k)
    BY <1>1, <1>2, <1>6 DEF AfterAcquisition, Advance, Register, TypeOK
  <2>2. ~ Performs(k)
    <3>1. program.script[k] \in Ops BY <1>1, <1>2, ProgramFacts
    <3> QED BY <3>1, <1>2, <1>3, <1>6 DEF Op, Performs, Acquires, Ops
  <2>3. Passed(k)'
    <3>1. Acquired(k)' /\ ~ Performs(k)' BY <2>2, <1>1, <1>2, <1>4, GoingSays, GoingFacts
    <3> QED BY <3>1 DEF Passed
  <2>4. pos'[Caller] = Before(owner.pc + 1) BY <2>2, <1>1, <1>2, <1>3, BeforeFacts
  <2> QED BY <2>1, <2>3, <2>4, <1>1, <1>2, Advances
<1> QED BY <1>5, <1>6

LEMMA RefusedRun ==
  ASSUME Going, Refused
  PROVE  RunInv'
<1>1. /\ Awake /\ TypeOK /\ OwnerInv /\ owner.pc \in Steps /\ owner.at = "acquiring"
      /\ child[owner.pc].phase = "closed" /\ child' = child /\ task' = task /\ pos' = pos
      /\ owner' = (IF program.catches \/ Op = "inline" THEN AfterAcquisition ELSE Leave("error"))
      /\ PlaceInv(owner.pc) /\ program' = program
  BY GoingFacts, AwakeFacts DEF Refused, TypeOK
<1>2. PICK k : k = owner.pc OBVIOUS
<1>3. WasRefused(k) /\ Acquires(k) /\ pos[Caller] = Before(k) BY <1>1, <1>2 DEF PlaceInv, OwnerInv
<1>4. CASE Op = "inline"
  <2>1. /\ owner'.pc = owner.pc /\ owner'.at = "answering" /\ owner'.broken = owner.broken
        /\ owner'.resources = owner.resources
    BY <1>1, <1>4 DEF AfterAcquisition, TypeOK
  <2>2. Performs(k) /\ Heard(k) BY <1>2, <1>3, <1>4 DEF Op, Performs, Heard
  <2> QED BY <2>1, <2>2, <1>1, <1>2, <1>3, AnswersNext
<1>5. CASE program.catches /\ Op # "inline"
  <2>1. /\ owner'.pc = owner.pc + 1 /\ owner'.at = "op" /\ owner'.broken = owner.broken
        /\ owner'.resources = owner.resources
    BY <1>1, <1>5 DEF AfterAcquisition, Advance, TypeOK
  <2>2. ~ Performs(k)
    <3>1. program.script[k] \in Ops BY <1>1, <1>2, ProgramFacts
    <3> QED BY <3>1, <1>2, <1>3, <1>5 DEF Op, Performs, Acquires, Ops
  <2>3. Passed(k)'
    <3>1. Acquired(k) BY <1>3, <1>5 DEF Acquired
    <3>2. Acquired(k)' /\ ~ Performs(k)' BY <2>2, <3>1, <1>1, <1>2, GoingSays, GoingFacts
    <3> QED BY <3>2 DEF Passed
  <2>4. pos'[Caller] = Before(owner.pc + 1) BY <2>2, <1>1, <1>2, <1>3, BeforeFacts
  <2> QED BY <2>1, <2>3, <2>4, <1>1, <1>2, Advances
<1>6. CASE ~ program.catches /\ Op # "inline"
  <2>1. /\ owner'.pc = owner.pc /\ owner'.at = "teardown" /\ owner'.broken = owner.broken
        /\ owner'.resources = owner.resources
    BY <1>1, <1>6 DEF Leave, TypeOK
  <2>2. ~ Performs(k)
    <3>1. program.script[k] \in Ops BY <1>1, <1>2, ProgramFacts
    <3> QED BY <3>1, <1>2, <1>3, <1>6 DEF Op, Performs, Acquires, Ops
  <2>3. Left(k) BY <2>2, <1>3, <1>6 DEF Left
  <2>4. Left(k)' BY <2>3, <1>1, <1>2, GoingSays
  <2> QED BY <2>1, <2>4, <1>1, <1>2, Leaves
<1> QED BY <1>4, <1>5, <1>6

LEMMA AcquireRun ==
  ASSUME Going, Acquire
  PROVE  RunInv'
<1>1. /\ Awake /\ LifecycleInv /\ TypeOK /\ OwnerInv /\ BornInv /\ TaskInv /\ Steps' = Steps
      /\ stream' = stream /\ pos' = pos /\ program' = program
      /\ owner.at = "op" /\ owner.pc \in Steps /\ Steps = 1 .. Len(program.script)
      /\ owner' = [owner EXCEPT !.at = "acquiring"] /\ UniqueClose
      /\ \A j : (Performs(j)' <=> Performs(j)) /\ (Acquires(j)' <=> Acquires(j)) /\ Before(j)' = Before(j)
      /\ \A i \in Steps : ChildInv(i) /\ PlaceInv(i)
  BY GoingFacts, AwakeFacts DEF Acquire, AtOp
<1>2. PICK k \in Steps : k = owner.pc BY <1>1
<1>3. Acquires(k) /\ child[k].phase = "unborn" BY <1>1, <1>2 DEF Acquire, AtOp, Op, Acquires, BornInv
<1>4. PreClose(Res(k)) # "cancelled" BY <1>1, PreClosedChild
<1>5. /\ child' = [child EXCEPT ![k].phase = "init"]
      /\ task' = [task EXCEPT ![k] =
                          IF program.body[k].spawns /\ PreClose(Task(k)) # "cancelled"
                            THEN "running" ELSE "unborn"]
  BY <1>2, <1>4 DEF Acquire
<1>6. /\ child'[k].phase = "init"
      /\ task'[k] = IF program.body[k].spawns /\ PreClose(Task(k)) # "cancelled"
                      THEN "running" ELSE "unborn"
      /\ \A j \in Steps : j # k => child'[j] = child[j] /\ task'[j] = task[j]
  BY <1>1, <1>5 DEF TypeOK
<1>7. owner'.pc = owner.pc /\ owner'.at = "acquiring" /\ owner'.resources = owner.resources
      /\ owner'.broken = owner.broken
  BY <1>1 DEF TypeOK
<1>8. /\ ~ owner.broken
      /\ \A i \in Steps :
              /\ child[i].phase \notin Working
              /\ child[i].phase \notin Settled => i = owner.pc /\ owner.at = "acquiring"
              /\ child[i].phase = "provided" => Held(i) \/ (i = owner.pc /\ owner.at = "acquiring")
  BY <1>1, GoesOn
<1>9. HaltInv' BY <1>1, <1>7, HaltStays
<1>10. OwnerInv'
  <2>1. \A j \in 1 .. owner'.pc - 1 : Passed(j)'
    <3>1. \A j \in 1 .. k - 1 : Passed(j) /\ j \in Steps BY <1>1, <1>2 DEF OwnerInv
    <3> QED BY <3>1, <1>2, <1>7, GoingSays
  <2>2. pos'[Caller] = Before(owner.pc)' BY <1>1, <1>7 DEF OwnerInv
  <2>3. Acquires(owner.pc)' BY <1>1, <1>2, <1>3, <1>7
  <2> QED BY <2>1, <2>2, <2>3, <1>1, <1>7, <1>8 DEF OwnerInv
<1>11. ChildInv(k)'
  <2>1. pos'[Res(k)] = 0 BY <1>1, <1>3 DEF ChildInv
  <2>2. ASSUME task'[k] # "running", TaskFailed(k) PROVE FALSE
    <3>1. PICK r : r = "error" OBVIOUS
    <3>2. PICK s : s = "cancelled" OBVIOUS
    <3>3. Journaled(CloseEvent(Task(k), r)) BY <2>2, <3>1 DEF TaskFailed
    <3>4. IsClosed(Task(k)) BY <3>1, <3>3 DEF IsClosed, Closings, Results
    <3>5. program.body[k].spawns BY <3>4, <1>1 DEF TaskInv
    <3>6. PreClose(Task(k)) = s BY <3>2, <3>5, <2>2, <1>6
    <3>7. Journaled(CloseEvent(Task(k), s)) BY <3>2, <3>6, <1>1, PreCloseStored
    <3>8. Task(k) \in Coroutines BY IdFacts
    <3>9. r = s BY <3>3, <3>7, <3>8, <1>1 DEF UniqueClose
    <3> QED BY <3>1, <3>2, <3>9
  <2>3. TaskFailed(k)' <=> TaskFailed(k) BY <1>1 DEF TaskFailed, Journaled, CloseEvent, Task
  <2> QED BY <2>1, <2>2, <2>3, <1>1, <1>3, <1>6 DEF ChildInv, Working
<1>12. ASSUME NEW i \in Steps PROVE ChildInv(i)' /\ PlaceInv(i)'
  <2>1. CASE i = k
    <3>1. PlaceInv(k)' BY <1>2, <1>6, <1>7 DEF PlaceInv, Settled, Working
    <3> QED BY <2>1, <3>1, <1>11
  <2>2. CASE i # k
    <3>1. child'[i] = child[i] /\ task'[i] = task[i] BY <2>2, <1>6
    <3>2. ChildInv(i)' BY <3>1, <1>1, <1>7, ChildStays
    <3>3. Held(i)' <=> Held(i) BY <1>7 DEF Held
    <3>4. PlaceInv(i)' BY <3>1, <3>3, <2>2, <1>1, <1>2, <1>7, <1>8 DEF PlaceInv
    <3> QED BY <3>2, <3>4
  <2> QED BY <2>1, <2>2
<1> QED BY <1>1, <1>9, <1>10, <1>12 DEF RunInv


\* The last resource is signalled when all that were acquired later are closed.
LEMMA SignalRun ==
  ASSUME Going, Signal
  PROVE  RunInv'
<1>1. /\ Awake /\ TypeOK /\ OwnerInv /\ owner' = owner /\ pos' = pos /\ task' = task /\ program' = program
      /\ stream' = stream /\ Steps' = Steps /\ Steps \subseteq Nat
      /\ owner.at = "teardown" /\ owner.resources # <<>> /\ owner.resources \in Seq(Steps)
      /\ owner.pc \in 1 .. Len(program.script) + 1
  BY GoingFacts, AwakeFacts DEF Signal, TypeOK, Steps
<1>2. PICK i \in Steps : i = Last(owner.resources) BY <1>1, FrontFact
<1>3. /\ child[i].phase = "provided" /\ child' = [child EXCEPT ![i].phase = "cleanup"]
  BY <1>2 DEF Signal
<1>4. /\ child'[i].phase = "cleanup"
      /\ \A j \in Steps : j # i => child'[j] = child[j]
  BY <1>1, <1>3 DEF TypeOK
<1>5. ChildInv(i) /\ (Acquires(i)' <=> Acquires(i)) BY GoingFacts, AwakeFacts
<1>6. Ended(owner.pc) BY <1>1 DEF OwnerInv
<1>7. Later(i)
  <2>1. SUFFICES ASSUME NEW j \in Steps, i < j, Answered(Res(j), 1) PROVE IsClosed(Res(j))
    BY DEF Later
  <2>2. child[j].phase # "unborn" BY <1>1, <1>6, <2>1, EndReached
  <2>3. PlaceInv(j) /\ ChildInv(j) BY <1>1, AwakeFacts
  <2>4. child[j].phase \notin Working
    <3>1. i # j BY <1>1, <2>1
    <3> QED BY <3>1, <1>1, <1>2, <2>3 DEF PlaceInv
  <2>5. child[j].phase # "provided"
    <3>1. SUFFICES ASSUME Held(j) PROVE FALSE BY <1>1, <2>3 DEF PlaceInv
    <3>2. PICK s \in Seq(Steps) : s = owner.resources BY <1>1
    <3>3. PICK b \in 1 .. Len(s) : s[b] = j BY <3>1, <3>2 DEF Held
    <3>4. Len(s) \in Nat \ {0} /\ s[Len(s)] = i BY <1>1, <1>2, <3>2, FrontFact
    <3>5. b = Len(s) \/ b < Len(s) BY <3>4
    <3>6. \A a, c \in 1 .. Len(s) : a < c => s[a] < s[c] BY <1>1, <3>2 DEF OwnerInv
    <3>7. Len(s) \in 1 .. Len(s) BY <3>4
    <3>8. j = i \/ j < i BY <3>3, <3>4, <3>5, <3>6, <3>7
    <3>9. i \in Nat /\ j \in Nat BY <1>1
    <3> QED BY <2>1, <3>8, <3>9
  <2>6. child[j].phase = "closed" BY <2>2, <2>3, <2>4, <2>5, <1>1 DEF PlaceInv, Settled
  <2> QED BY <2>3, <2>6 DEF ChildInv
<1>8. ChildInv(i)'
  <2>1. WasProvided(i)' BY <1>3, <1>5, GoingSays DEF ChildInv
  <2>2. Later(i)'
    <3>1. \A e : Journaled(e)' <=> Journaled(e) BY <1>1 DEF Journaled
    <3>2. \A j \in Steps : /\ Answered(Res(j), 1)' => Answered(Res(j), 1)
                           /\ IsClosed(Res(j)) => IsClosed(Res(j))'
      BY <3>1 DEF Answered, IsClosed, YieldEvent, CloseEvent, Res
    <3> QED BY <3>2, <1>1, <1>7 DEF Later
  <2>3. Ended(owner.pc)' BY <1>1, <1>6, GoingSays
  <2> QED BY <2>1, <2>2, <2>3, <1>1, <1>3, <1>4, <1>5 DEF ChildInv, Working
<1>9. PlaceInv(i)' BY <1>1, <1>2, <1>4 DEF PlaceInv, Settled, Working
<1> QED BY <1>1, <1>4, <1>8, <1>9, OneChild

LEMMA CleanedUpRun ==
  ASSUME Going, CleanedUp
  PROVE  RunInv'
<1>1. /\ Awake /\ TypeOK /\ OwnerInv /\ child' = child /\ pos' = pos /\ task' = task
      /\ Steps' = Steps
      /\ owner.at = "teardown" /\ owner.resources # <<>> /\ owner.resources \in Seq(Steps)
      /\ owner' = [owner EXCEPT !.resources = Front(@)]
      /\ owner.pc \in 1 .. Len(program.script) + 1
      /\ \A i \in Steps : ChildInv(i) /\ PlaceInv(i)
      /\ \A j : (Performs(j)' <=> Performs(j)) /\ (Acquires(j)' <=> Acquires(j)) /\ Before(j)' = Before(j)
  BY GoingFacts, AwakeFacts DEF CleanedUp, TypeOK
<1>2. PICK l \in Steps : l = Last(owner.resources) BY <1>1, FrontFact
<1>3. child[l].phase = "closed" BY <1>2 DEF CleanedUp
<1>4. /\ owner'.pc = owner.pc /\ owner'.at = "teardown" /\ owner'.broken = owner.broken
      /\ owner'.resources = Front(owner.resources)
  BY <1>1 DEF TypeOK
<1>5. PICK s \in Seq(Steps) : s = owner.resources BY <1>1
<1>6. PICK t : t = Front(s) OBVIOUS
<1>7. /\ t \in Seq(Steps) /\ Len(s) \in Nat \ {0} /\ Len(t) = Len(s) - 1 /\ s[Len(s)] = l
      /\ \A a \in 1 .. Len(s) - 1 : t[a] = s[a]
  BY <1>1, <1>2, <1>5, <1>6, FrontFact
<1>8. /\ \A a, b \in 1 .. Len(s) : a < b => s[a] < s[b]
      /\ \A a \in 1 .. Len(s) : s[a] <= owner.pc
  BY <1>1, <1>5 DEF OwnerInv
<1>9. \A a \in 1 .. Len(t) : a \in 1 .. Len(s) /\ t[a] = s[a] BY <1>7
<1>10. \A i \in Steps : child[i].phase \notin Working
  <2>1. SUFFICES ASSUME NEW i \in Steps, child[i].phase \in Working PROVE FALSE
    OBVIOUS
  <2>2. i = l BY <2>1, <1>1, <1>2 DEF PlaceInv
  <2> QED BY <2>1, <2>2, <1>3 DEF Working
<1>11. HaltInv' BY <1>1, <1>4, HaltStays
<1>12. \A i \in Steps : ChildInv(i)' BY <1>1, <1>10, ChildrenStay
<1>13. OwnerInv'
  <2>1. \A j \in 1 .. owner'.pc - 1 : Passed(j)'
    <3>1. \A j \in 1 .. owner.pc - 1 : Passed(j) /\ j \in Steps BY <1>1 DEF OwnerInv, Steps
    <3> QED BY <3>1, <1>4, GoingSays
  <2>2. Ended(owner.pc)'
    <3>1. Ended(owner.pc) BY <1>1 DEF OwnerInv
    <3> QED BY <3>1, <1>1, <1>4, GoingSays
  <2>3. /\ \A a, b \in 1 .. Len(t) : a < b => t[a] < t[b]
        /\ \A a \in 1 .. Len(t) : t[a] <= owner.pc
    BY <1>8, <1>9
  <2> QED BY <2>1, <2>2, <2>3, <1>4, <1>5, <1>6 DEF OwnerInv
<1>14. ASSUME NEW i \in Steps PROVE PlaceInv(i)'
  <2>1. child'[i].phase \in Settled BY <1>1 DEF PlaceInv
  <2>2. child'[i].phase = "provided" => Held(i)'
    <3>1. SUFFICES ASSUME child[i].phase = "provided" PROVE Held(i)'
      BY <1>1
    <3>2. Held(i) BY <3>1, <1>1 DEF PlaceInv
    <3>3. PICK a \in 1 .. Len(s) : s[a] = i BY <3>2, <1>5 DEF Held
    <3>4. a # Len(s) BY <3>1, <3>3, <1>3, <1>7
    <3>5. a \in 1 .. Len(t) /\ t[a] = i BY <3>3, <3>4, <1>7
    <3> QED BY <3>5, <1>4, <1>5, <1>6 DEF Held
  <2> QED BY <2>1, <2>2, <1>1, <1>4, <1>10 DEF PlaceInv
<1> QED BY <1>1, <1>11, <1>12, <1>13, <1>14 DEF RunInv

\* The owner of children that are closed is closed.
LEMMA OwnerClosedRun ==
  ASSUME Going, owner.at \in {"teardown", "halting"},
         \A i \in Steps : child[i].phase \in {"unborn", "closed"},
         child' = child, task' = task, pos' = pos, owner' = [owner EXCEPT !.at = "closed"],
         Over' \/ \A i \in Steps : ~ Cancelled(Res(i))'
  PROVE  RunInv'
<1>1. /\ Awake /\ TypeOK /\ OwnerInv /\ Steps' = Steps
      /\ owner.pc \in 1 .. Len(program.script) + 1 /\ Steps = 1 .. Len(program.script)
      /\ Len(program.script) \in Nat
      /\ \A i \in Steps : ChildInv(i) /\ PlaceInv(i)
      /\ \A j : (Performs(j)' <=> Performs(j)) /\ (Acquires(j)' <=> Acquires(j)) /\ Before(j)' = Before(j)
  BY GoingFacts, AwakeFacts
<1>2. /\ owner'.pc = owner.pc /\ owner'.at = "closed" /\ owner'.broken = owner.broken
      /\ owner'.resources = owner.resources
  BY <1>1 DEF TypeOK
<1>3. HaltInv' BY <1>1, <1>2 DEF HaltInv, Alive
<1>4. \A i \in Steps : ChildInv(i)' BY <1>2, ChildrenStay
<1>5. OwnerInv'
  <2>1. \A j \in 1 .. owner'.pc - 1 : Passed(j)'
    <3>1. \A j \in 1 .. owner.pc - 1 : Passed(j) /\ j \in Steps BY <1>1 DEF OwnerInv
    <3> QED BY <3>1, <1>2, GoingSays
  <2>2. owner.broken => Ended(owner.pc)'
    <3>1. owner.broken => Ended(owner.pc) BY <1>1 DEF OwnerInv
    <3> QED BY <3>1, <1>1, <1>2, GoingSays
  <2> QED BY <2>1, <2>2, <1>1, <1>2 DEF OwnerInv
<1>6. ASSUME NEW i \in Steps PROVE PlaceInv(i)'
  <2>1. child[i].phase \in Settled /\ child[i].phase \notin Working BY DEF Settled, Working
  <2> QED BY <2>1, <1>1, <1>2 DEF PlaceInv
<1> QED BY <1>1, <1>3, <1>4, <1>5, <1>6 DEF RunInv

LEMMA CloseOwnerRun ==
  ASSUME Going, CloseOwner
  PROVE  RunInv'
<1>1. /\ Awake /\ HaltInv /\ PathLaw /\ TypeOK /\ TypeOK' /\ Kept
      /\ owner.at = "teardown" /\ owner.resources = <<>>
      /\ child' = child /\ pos' = pos /\ task' = task /\ owner' = [owner EXCEPT !.at = "closed"]
  BY GoingFacts, AwakeFacts DEF CloseOwner
<1>2. \A i \in Steps : child[i].phase \in {"unborn", "closed"} BY <1>1, TornDown
<1>3. ASSUME NEW i \in Steps, Cancelled(Res(i))' PROVE FALSE
  <2>1. PICK r : r = "cancelled" OBVIOUS
  <2>2. PICK e : e = CloseEvent(Res(i), r) OBVIOUS
  <2>3. Journaled(e)' BY <2>1, <2>2, <1>3 DEF Cancelled, Journaled, CloseEvent, Res
  <2>4. ~ Journaled(e) BY <2>1, <2>2, <1>1 DEF HaltInv, Cancelled, Awake
  <2>5. PICK m \in Added : stream'[m] = CloseEvent(Res(i), r)
    BY <1>1, <2>2, <2>3, <2>4, AddedJournaled
  <2> QED BY <1>1, <2>1, <2>5, ByEvent
<1> QED BY <1>1, <1>2, <1>3, OwnerClosedRun

\* The Close of an owner that was closed before is the last of the journal.
LEMMA OwnerHaltedRun ==
  ASSUME Going, OwnerHalted
  PROVE  RunInv'
<1>1. /\ Awake /\ HaltInv /\ PathInv /\ TypeOK /\ \A i \in Steps : ChildInv(i)
      /\ owner.at = "halting" /\ (\A i \in Steps : ~ Alive(i))
      /\ child' = child /\ pos' = pos /\ task' = task /\ owner' = [owner EXCEPT !.at = "closed"]
      /\ stream' = Close(Caller, "cancelled", stream) /\ Caller \in Coroutines
  BY GoingFacts, AwakeFacts, IdFacts DEF OwnerHalted
<1>2. \A i \in Steps : child[i].phase \in {"unborn", "closed"} BY <1>1 DEF Alive, ChildInv
<1>3. PICK r : r = "cancelled" OBVIOUS
<1>4. r \in Closings /\ stream' = Close(Caller, r, stream) BY <1>1, <1>3 DEF Closings
<1>5. CASE PreClose(Caller) = "none"
  <2>1. Journaled(CloseEvent(Caller, r))' BY <1>1, <1>4, <1>5, CloseAdded
  <2>2. Over' BY <2>1, <1>3 DEF Over, Cancelled, Journaled, CloseEvent, Caller
  <2> QED BY <2>2, <1>1, <1>2, OwnerClosedRun
<1>6. CASE PreClose(Caller) # "none"
  <2>1. stream' = stream BY <1>4, <1>6 DEF Close
  <2>2. Stored(CloseEvent(Caller, PreClose(Caller))) BY <1>1, <1>6, PreCloseStored
  <2>3. PICK m \in 1 .. old : stream[m] = CloseEvent(Caller, PreClose(Caller)) BY <2>2 DEF Stored
  <2>4. Len(stream) \in Nat /\ old \in 0 .. Len(stream) BY <1>1 DEF TypeOK
  <2>5. m \in 1 .. Len(stream) /\ IsClose(m, Caller) BY <2>3, <2>4, EventFacts DEF IsClose
  <2>6. m = Len(stream) BY <2>5, <1>1 DEF PathInv
  <2>7. old = Len(stream) BY <2>4, <2>6
  <2>8. \A i \in Steps : ~ Cancelled(Res(i))
    BY <2>7, <1>1 DEF HaltInv, Awake, Cancelled, Journaled, Stored
  <2>9. \A i \in Steps : ~ Cancelled(Res(i))'
    BY <2>1, <2>8 DEF Cancelled, Journaled, CloseEvent, Res
  <2> QED BY <2>9, <1>1, <1>2, OwnerClosedRun
<1> QED BY <1>5, <1>6

\* A halt begins.  Every resource that was started in an earlier run has been
\* acquired again, so that none is left open.
LEMMA HaltsRun ==
  ASSUME Going, owner.at \notin {"halting", "closed"}, stream' = stream, child' = child, task' = task,
         pos' = pos, owner' = [owner EXCEPT !.at = "halting"],
         owner.broken \/ Suspended
  PROVE  RunInv'
<1>1. /\ Awake /\ LifecycleInv /\ TypeOK /\ OwnerInv /\ PathInv /\ Steps' = Steps
      /\ owner.pc \in 1 .. Len(program.script) + 1 /\ Steps = 1 .. Len(program.script)
      /\ Len(program.script) \in Nat
      /\ \A i \in Steps : ChildInv(i) /\ PlaceInv(i)
      /\ \A j : (Performs(j)' <=> Performs(j)) /\ (Acquires(j)' <=> Acquires(j)) /\ Before(j)' = Before(j)
  BY GoingFacts, AwakeFacts
<1>2. /\ owner'.pc = owner.pc /\ owner'.at = "halting" /\ owner'.broken = owner.broken
      /\ owner'.resources = owner.resources
  BY <1>1 DEF TypeOK
<1>3. ASSUME NEW i \in Steps, Answered(Res(i), 1), child[i].phase = "unborn" PROVE FALSE
  <2>1. Acquires(i) /\ \A j \in 1 .. i - 1 : Passed(j) BY <1>1, <1>3 DEF PathInv
  <2>2. ~ (i < owner.pc) BY <2>1, <1>1, <1>3 DEF PlaceInv
  <2>3. i = owner.pc \/ i > owner.pc BY <2>2, <1>1
  <2>4. owner.pc \in Steps BY <2>3, <1>1
  <2>5. CASE owner.at = "teardown"
    <3>1. Ended(owner.pc) BY <2>5, <1>1 DEF OwnerInv
    <3> QED BY <3>1, <2>5, <1>1, <1>3, EndReached
  <2>6. CASE owner.at # "teardown"
    <3>1. owner.at \in {"op", "acquiring", "answering"} BY <2>6, <1>1 DEF TypeOK
    <3>2. ~ owner.broken /\ \A j \in Steps :
            /\ child[j].phase \notin Working
            /\ child[j].phase \notin Settled => j = owner.pc /\ owner.at = "acquiring"
      BY <3>1, <1>1, GoesOn
    <3>3. owner.at \in {"acquiring", "answering"} /\ i = owner.pc => FALSE
      BY <2>1, <1>1, <1>3 DEF PlaceInv
    <3>4. i > owner.pc => Passed(owner.pc) BY <2>1, <1>1
    <3>5. CASE ((AtOp /\ Op = "effect") \/ owner.at = "answering") /\ Live(Caller)
      <4>1. Performs(owner.pc)
        BY <3>5, <1>1 DEF AtOp, Op, Performs, OwnerInv
      <4>2. i # owner.pc BY <3>3, <3>5, <2>1 DEF Op, AtOp, Acquires
      <4>3. Done(owner.pc, "ok") BY <4>1, <4>2, <2>3, <3>4 DEF Passed
      <4>4. pos[Caller] = Before(owner.pc) BY <3>1, <1>1 DEF OwnerInv
      <4> QED BY <4>3, <4>4, <3>5 DEF Live, Done, Results
    <3>6. CASE \E j \in Steps : child[j].phase = "init" /\ Live(Res(j))
      <4>1. PICK j \in Steps : child[j].phase = "init" /\ Live(Res(j)) BY <3>6
      <4>2. j = owner.pc /\ owner.at = "acquiring" BY <4>1, <3>2 DEF Settled, Working
      <4>3. Acquired(j) BY <4>2, <3>3, <3>4, <2>3, <1>1 DEF Passed, OwnerInv
      <4>4. pos[Res(j)] = 0 BY <4>1, <1>1 DEF ChildInv
      <4>5. ~ Answered(Res(j), 1) BY <4>1, <4>4 DEF Live, Answered
      <4>6. ~ WasProvided(j) BY <4>5 DEF WasProvided, InitOk, Answered, Results
      <4>7. PICK r : r = "error" OBVIOUS
      <4>8. Journaled(CloseEvent(Res(j), r)) BY <4>3, <4>6, <4>7 DEF Acquired, WasRefused
      <4>9. ~ ClosedNow(j) BY <4>1 DEF ClosedNow
      <4>10. PreClose(Res(j)) = r BY <4>8, <4>9, <1>1, ResIndex
      <4> QED BY <4>1, <4>7, <4>10 DEF Live
    <3>7. CASE \E j \in Steps : child[j].phase = "cleanup"
      BY <3>2, <3>7 DEF Working
    <3> QED BY <3>2, <3>5, <3>6, <3>7 DEF Suspended
  <2> QED BY <2>5, <2>6
<1>4. HaltInv' BY <1>2, HaltStays
<1>5. \A i \in Steps : ChildInv(i)' BY <1>2, ChildrenStay
<1>6. OwnerInv'
  <2>1. \A j \in 1 .. owner'.pc - 1 : Passed(j)'
    <3>1. \A j \in 1 .. owner.pc - 1 : Passed(j) /\ j \in Steps BY <1>1 DEF OwnerInv
    <3> QED BY <3>1, <1>2, GoingSays
  <2>2. owner.broken => Ended(owner.pc)'
    <3>1. owner.broken => Ended(owner.pc) BY <1>1 DEF OwnerInv
    <3> QED BY <3>1, <1>1, <1>2, GoingSays
  <2>3. \A i \in Steps : Answered(Res(i), 1)' => child'[i].phase # "unborn"
    BY <1>3 DEF Answered, Journaled, YieldEvent, Res
  <2> QED BY <2>1, <2>2, <2>3, <1>1, <1>2 DEF OwnerInv
<1>7. ASSUME NEW i \in Steps PROVE PlaceInv(i)'
  <2>1. child[i].phase \notin Settled => i = owner.pc BY <1>1 DEF PlaceInv
  <2> QED BY <2>1, <1>1, <1>2 DEF PlaceInv
<1> QED BY <1>1, <1>4, <1>5, <1>6, <1>7 DEF RunInv


-----------------------------------------------------------------------------
(* Every step, the first state, and the theorems *)

LEMMA RunKept ==
  ASSUME Going, Work \/ Halt
  PROVE  RunInv'
<1>0. HaltInv /\ LifecycleInv /\ \A i \in Steps : ChildInv(i) BY GoingFacts, AwakeFacts
<1>1. CASE Perform \/ Answer BY <1>1, CallerRun
<1>2. CASE Acquire \/ Provided \/ Refused \/ Return
  BY <1>2, AcquireRun, ProvidedRun, RefusedRun, ReturnRun
<1>3. CASE Signal \/ CleanedUp \/ CloseOwner \/ OwnerHalted
  BY <1>3, SignalRun, CleanedUpRun, CloseOwnerRun, OwnerHaltedRun
<1>4. CASE ScopeFails \/ Halt
  <2>1. /\ owner.at \notin {"halting", "closed"} /\ stream' = stream /\ child' = child /\ task' = task
        /\ pos' = pos /\ owner' = [owner EXCEPT !.at = "halting"]
        /\ owner.broken \/ Suspended
    BY <1>4 DEF ScopeFails, Halt
  <2> QED BY <2>1, HaltsRun
<1>5. ASSUME NEW i \in Steps, \/ InitEffect(i) \/ Provide(i) \/ InitFails(i) \/ InitDiverges(i)
                              \/ TaskEnds(i) \/ CleanupReturns(i) \/ CleanupEffect(i)
                              \/ CleanupEnds(i) \/ CleanupFails(i) \/ ChildHalted(i)
      PROVE  RunInv'
  <2>1. ~ InitDiverges(i) BY <1>0 DEF InitDiverges, ChildInv
  <2> QED BY <2>1, <1>5, InitEffectRun, ProvideRun, InitFailsRun, TaskEndsRun, CleanupRun,
             CleanupEffectRun, ChildHaltedRun
<1> QED BY <1>1, <1>2, <1>3, <1>4, <1>5 DEF Work

LEMMA WorkKeeps ==
  ASSUME LifecycleInv, PathInv, RunInv, Work \/ Halt
  PROVE  /\ LifecycleInv' /\ PathInv' /\ RunInv'
         /\ CleanupOrder /\ NoUseAfterCleanup => CleanupOrder' /\ NoUseAfterCleanup'
<1>1. HaltInv BY DEF RunInv
<1>2. Awake BY <1>1, Idle DEF Awake
<1>3. TypeOK' /\ Lawful BY WorkIsLawful DEF LifecycleInv
<1>4. LifecycleInv' BY <1>3, LawfulKeeps DEF LifecycleInv
<1>5. PathLaw BY <1>2, WorkPath
<1>6. PathInv' BY <1>2, <1>3, <1>4, <1>5, PathKept
<1>7. RunInv' BY <1>2, <1>3, <1>4, <1>5, <1>6, RunKept DEF Going
<1>8. ASSUME CleanupOrder, NoUseAfterCleanup PROVE CleanupOrder' /\ NoUseAfterCleanup'
  BY <1>2, <1>3, <1>4, <1>5, <1>8, OrderKept
<1> QED BY <1>4, <1>6, <1>7, <1>8

LEMMA InitRun ==
  ASSUME Init
  PROVE  PathInv /\ RunInv /\ CleanupOrder /\ NoUseAfterCleanup
<1>1. /\ stream = <<>> /\ old = 0 /\ program \in Programs
      /\ pos = [id \in {<<"owner", 0>>} \union ({"resource"} \X Steps) |-> 0]
      /\ owner = [pc |-> 1, at |-> "op", outcome |-> "ok", resources |-> <<>>, broken |-> FALSE]
      /\ child = [i \in Steps |-> Unborn]
  BY DEF Init, Fresh, Steps
<1>2. LifecycleInv BY InitLifecycle
<1>3. TypeOK BY <1>2 DEF LifecycleInv
<1>4. Len(stream) = 0 /\ 1 .. Len(stream) = {} BY <1>1
<1>5. \A e : ~ Journaled(e) /\ ~ Stored(e) BY <1>1, <1>4 DEF Journaled, Stored
<1>6. \A i \in Steps : child[i].phase = "unborn" BY <1>1 DEF Unborn
<1>7. PathInv
  <2>1. /\ \A id, n : ~ Answered(id, n)
        /\ \A i \in Steps : ~ CleanedUpBy(i)
        /\ \A k \in Steps : ~ Done(k, "ok")
    BY <1>5 DEF Answered, CleanedUpBy, Done
  <2> QED BY <2>1, <1>4, <1>5 DEF PathInv
<1>8. HaltInv BY <1>1, <1>5, <1>6 DEF HaltInv, Cancelled, Over
<1>9. OwnerInv
  <2>1. pos[Caller] = 0 BY <1>1 DEF Caller
  <2>2. Before(owner.pc) = 0 BY <1>1, <1>3, BeforeFacts
  <2>3. 1 .. Len(owner.resources) = {} /\ 1 .. owner.pc - 1 = {} BY <1>1
  <2> QED BY <1>1, <2>1, <2>2, <2>3 DEF OwnerInv
<1>10. ASSUME NEW i \in Steps PROVE ChildInv(i) /\ PlaceInv(i)
  <2>1. pos[Res(i)] = 0 BY <1>1 DEF Res
  <2>2. ChildInv(i) BY <2>1, <1>6 DEF ChildInv, Working
  <2>3. ~ (i < owner.pc) BY <1>1 DEF Steps
  <2>4. PlaceInv(i) BY <2>3, <1>1, <1>6 DEF PlaceInv, Settled, Working
  <2> QED BY <2>2, <2>4
<1>11. RunInv BY <1>8, <1>9, <1>10 DEF RunInv
<1>12. CleanupOrder /\ NoUseAfterCleanup BY <1>4 DEF CleanupOrder, NoUseAfterCleanup
<1> QED BY <1>7, <1>11, <1>12

LEMMA SameJournal ==
  ASSUME program' = program, stream' = stream
  PROVE  /\ PathInv => PathInv'
         /\ CleanupOrder /\ NoUseAfterCleanup => CleanupOrder' /\ NoUseAfterCleanup'
         /\ \A id, n : Answered(id, n)' <=> Answered(id, n)
         /\ \A id : (IsClosed(id)' <=> IsClosed(id)) /\ (Cancelled(id)' <=> Cancelled(id))
         /\ \A k : /\ InitOk(k)' <=> InitOk(k)
                   /\ TaskFailed(k)' <=> TaskFailed(k)
                   /\ InitFailed(k)' <=> InitFailed(k)
                   /\ WasProvided(k)' <=> WasProvided(k)
                   /\ WasRefused(k)' <=> WasRefused(k)
                   /\ Heard(k)' <=> Heard(k)
                   /\ Passed(k)' <=> Passed(k)
                   /\ Later(k)' <=> Later(k)
                   /\ Ended(k)' <=> Ended(k)
<1>1. /\ Steps' = Steps
      /\ \A k : (Performs(k)' <=> Performs(k)) /\ (Acquires(k)' <=> Acquires(k)) /\ Before(k)' = Before(k)
  BY SameScript
<1>2. \A e : Journaled(e)' <=> Journaled(e) BY DEF Journaled
<1>3. /\ \A id, n : Answered(id, n)' <=> Answered(id, n)
      /\ \A id : (IsClosed(id)' <=> IsClosed(id)) /\ (Cancelled(id)' <=> Cancelled(id))
  BY <1>2 DEF Answered, IsClosed, Cancelled, YieldEvent, CloseEvent
<1>4. /\ \A k : (InitOk(k)' <=> InitOk(k)) /\ (TaskFailed(k)' <=> TaskFailed(k))
      /\ \A k, r : Journaled(CloseEvent(Res(k), r))' <=> Journaled(CloseEvent(Res(k), r))
  <2>1. \A k, r : Journaled(CloseEvent(Res(k), r))' <=> Journaled(CloseEvent(Res(k), r))
    BY <1>2 DEF CloseEvent, Res
  <2>2. \A k : InitOk(k)' <=> InitOk(k) BY <1>2 DEF InitOk, YieldEvent, Res
  <2>3. \A k : TaskFailed(k)' <=> TaskFailed(k) BY <1>2 DEF TaskFailed, CloseEvent, Task
  <2> QED BY <2>1, <2>2, <2>3
<1>5. \A k : InitFailed(k)' <=> InitFailed(k) BY <1>3, <1>4 DEF InitFailed
<1>6. \A k : WasProvided(k)' <=> WasProvided(k) BY <1>3, <1>4 DEF WasProvided
<1>7. \A k : WasRefused(k)' <=> WasRefused(k) BY <1>4, <1>5 DEF WasRefused
<1>8. \A k : (Heard(k)' <=> Heard(k)) /\ (Acquired(k)' <=> Acquired(k))
  BY <1>6, <1>7 DEF Heard, Acquired
<1>9. \A k : (Done(k, "ok")' <=> Done(k, "ok")) /\ (Done(k, "error")' <=> Done(k, "error"))
  <2>1. \A n : /\ Journaled(YieldEvent(Caller, n, "ok"))' <=> Journaled(YieldEvent(Caller, n, "ok"))
              /\ Journaled(YieldEvent(Caller, n, "error"))' <=> Journaled(YieldEvent(Caller, n, "error"))
    BY <1>2 DEF YieldEvent, Caller
  <2>2. \A k : (Before(k) + 1)' = Before(k) + 1 BY <1>1
  <2> QED BY <2>1, <2>2 DEF Done, YieldEvent, Caller, Journaled
<1>10. \A k : (Passed(k)' <=> Passed(k)) /\ (Left(k)' <=> Left(k))
  BY <1>1, <1>7, <1>8, <1>9 DEF Passed, Left
<1>11. \A e : Ended(e)' <=> Ended(e) BY <1>1, <1>10 DEF Ended
<1>12. Decided' <=> Decided BY <1>11 DEF Decided
<1>13. \A i : Later(i)' <=> Later(i) BY <1>1, <1>3 DEF Later
<1>14. \A i : CleanedUpBy(i)' <=> CleanedUpBy(i) BY <1>3, <1>4, <1>6 DEF CleanedUpBy
<1>15. \A m, id : (IsClose(m, id)' <=> IsClose(m, id)) /\ (IsYield(m, id)' <=> IsYield(m, id))
  BY DEF IsClose, IsYield
<1>16. ASSUME PathInv PROVE PathInv'
  <2>1. \A k \in Steps' : Answered(Res(k), 1)' => Acquires(k)' /\ \A j \in 1 .. k - 1 : Passed(j)'
    BY <1>1, <1>3, <1>10, <1>16 DEF PathInv
  <2>2. \A k \in Steps' : Performs(k)' /\ Acquires(k)' =>
          /\ Answered(Caller, Before(k) + 1)' => Heard(k)'
          /\ Done(k, "ok")' => Acquired(k)'
    BY <1>1, <1>3, <1>8, <1>9, <1>16 DEF PathInv
  <2>3. \A i \in Steps' : CleanedUpBy(i)' => WasProvided(i)' /\ Later(i)' /\ Decided'
    BY <1>1, <1>6, <1>12, <1>13, <1>14, <1>16 DEF PathInv
  <2>4. \A i \in Steps' :
       /\ ~ Journaled(CloseEvent(Res(i), "diverged"))'
       /\ Journaled(CloseEvent(Res(i), "ok"))' \/ Journaled(CloseEvent(Res(i), "error"))' =>
            InitFailed(i)' \/ (WasProvided(i)'
                               /\ (program'.body[i].cleanup = "effect" => Answered(Res(i), 2)'))
    BY <1>1, <1>3, <1>4, <1>5, <1>6, <1>16 DEF PathInv
  <2>5. \A m \in 1 .. Len(stream') : IsClose(m, Caller)' =>
       /\ m = Len(stream')
       /\ \A i \in Steps' : Answered(Res(i), 1)' => IsClosed(Res(i))'
       /\ stream'[m].result = "cancelled" \/ Decided'
    BY <1>1, <1>3, <1>12, <1>15, <1>16 DEF PathInv
  <2> QED BY <2>1, <2>2, <2>3, <2>4, <2>5 DEF PathInv
<1>17. ASSUME CleanupOrder, NoUseAfterCleanup PROVE CleanupOrder' /\ NoUseAfterCleanup'
  <2>1. \A i, n : Cleans(i, n)' <=> Cleans(i, n) BY <1>15 DEF Cleans
  <2>2. \A j : Started(j)' <=> Started(j) BY <1>15 DEF Started
  <2>3. \A id, n : ClosedBy(id, n)' <=> ClosedBy(id, n) BY <1>15 DEF ClosedBy
  <2> QED BY <2>1, <2>2, <2>3, <1>1, <1>15, <1>17 DEF CleanupOrder, NoUseAfterCleanup
<1> QED BY <1>3, <1>4, <1>5, <1>6, <1>7, <1>8, <1>10, <1>11, <1>13, <1>16, <1>17

\* A new run finds the journal as the last one left it, and knows nothing else.
LEMMA ExecuteRun ==
  ASSUME LifecycleInv, PathInv, RunInv, Atomic, Execute
  PROVE  PathInv' /\ RunInv'
<1>1. /\ program' = program /\ stream' = stream /\ old' = Len(stream) /\ owner.at # "halting"
      /\ pos' = [id \in DOMAIN pos |-> 0]
      /\ child' = [i \in Steps |-> Unborn]
      /\ owner' = [pc |-> 1, outcome |-> "ok", resources |-> <<>>, broken |-> FALSE,
               at |-> IF Journaled(CloseEvent(Caller, "cancelled")) THEN "closed" ELSE "op"]
  BY DEF Execute
<1>2. /\ TypeOK /\ HaltInv /\ pos \in [Ids -> Nat] BY DEF LifecycleInv, RunInv, TypeOK
<1>3. LifecycleInv' /\ TypeOK' BY ExecuteKeeps DEF LifecycleInv
<1>4. /\ Steps' = Steps
      /\ \A k : (Performs(k)' <=> Performs(k)) /\ (Acquires(k)' <=> Acquires(k)) /\ Before(k)' = Before(k)
  BY <1>1, SameScript
<1>5. PathInv' BY <1>1, SameJournal
<1>6. \A i \in Steps : child'[i].phase = "unborn" BY <1>1 DEF Unborn
<1>7. Over' <=> Journaled(CloseEvent(Caller, "cancelled"))
  BY <1>1 DEF Over, Cancelled, Journaled, CloseEvent, Caller
<1>8. \A i \in Steps : Cancelled(Res(i))' => Over'
  BY <1>1, <1>2 DEF HaltInv, Over, Cancelled, Journaled, CloseEvent, Caller, Res
<1>9. HaltInv'
  <2>1. Over' => owner'.at = "closed" BY <1>1, <1>7
  <2>2. \A i \in Steps : ~ Alive(i)' BY <1>6 DEF Alive
  <2> QED BY <2>1, <2>2, <1>4, <1>8 DEF HaltInv
<1>10. ASSUME ~ Over' PROVE OwnerInv' /\ \A i \in Steps : ChildInv(i)' /\ PlaceInv(i)'
  <2>1. owner' = [pc |-> 1, at |-> "op", outcome |-> "ok", resources |-> <<>>, broken |-> FALSE]
    BY <1>1, <1>7, <1>10
  <2>2. \A id \in Ids : pos'[id] = 0 BY <1>1, <1>2
  <2>3. OwnerInv'
    <3>1. pos'[Caller] = 0 BY <2>2, IdFacts
    <3>2. Before(owner.pc)' = 0
      <4>1. PICK p : p = 1 OBVIOUS
      <4>2. Before(p) = 0 BY <4>1, <1>2, BeforeFacts
      <4>3. Before(p)' = 0 BY <4>2, <1>4
      <4> QED BY <4>1, <4>3, <2>1
    <3>3. 1 .. Len(owner'.resources) = {} /\ 1 .. owner'.pc - 1 = {} BY <2>1
    <3> QED BY <2>1, <3>1, <3>2, <3>3 DEF OwnerInv
  <2>4. ASSUME NEW i \in Steps PROVE ChildInv(i)' /\ PlaceInv(i)'
    <3>1. pos'[Res(i)] = 0 BY <2>2, IdFacts
    <3>2. ChildInv(i)' BY <3>1, <1>6 DEF ChildInv, Working
    <3>3. ~ (i < owner'.pc) BY <2>1 DEF Steps
    <3>4. PlaceInv(i)' BY <3>3, <2>1, <1>6 DEF PlaceInv, Settled, Working
    <3> QED BY <3>2, <3>4
  <2> QED BY <2>3, <2>4
<1>11. RunInv' BY <1>4, <1>9, <1>10 DEF RunInv
<1> QED BY <1>5, <1>11

\* The journal and the memory of a run, as long as a halt is not interrupted.
OrderInv == PathInv /\ RunInv /\ CleanupOrder /\ NoUseAfterCleanup

LEMMA OrderStep ==
  ASSUME LifecycleInv, OrderInv, Atomic, [Next]_vars
  PROVE  OrderInv'
<1>1. PathInv /\ RunInv /\ CleanupOrder /\ NoUseAfterCleanup BY DEF OrderInv
<1>2. CASE Work \/ Halt BY <1>1, <1>2, WorkKeeps DEF OrderInv
<1>3. CASE Execute
  <2>1. program' = program /\ stream' = stream BY <1>3 DEF Execute
  <2> QED BY <2>1, <1>1, <1>3, ExecuteRun, SameJournal DEF OrderInv
<1>4. CASE UNCHANGED vars
  <2>1. UNCHANGED <<program, stream, old, pos, owner, child, task>> BY <1>4 DEF vars
  <2>2. /\ PathInv' /\ CleanupOrder' /\ NoUseAfterCleanup'
        /\ \A id, n : Answered(id, n)' <=> Answered(id, n)
        /\ \A id : (IsClosed(id)' <=> IsClosed(id)) /\ (Cancelled(id)' <=> Cancelled(id))
        /\ \A k : /\ InitOk(k)' <=> InitOk(k)
                  /\ TaskFailed(k)' <=> TaskFailed(k)
                  /\ InitFailed(k)' <=> InitFailed(k)
                  /\ WasProvided(k)' <=> WasProvided(k)
                  /\ WasRefused(k)' <=> WasRefused(k)
                  /\ Heard(k)' <=> Heard(k)
                  /\ Passed(k)' <=> Passed(k)
                  /\ Later(k)' <=> Later(k)
                  /\ Ended(k)' <=> Ended(k)
    BY <2>1, <1>1, SameJournal
  <2>3. /\ Steps' = Steps /\ (Over' <=> Over)
        /\ \A k : (Performs(k)' <=> Performs(k)) /\ (Acquires(k)' <=> Acquires(k)) /\ Before(k)' = Before(k)
        /\ \A i : /\ Stored(CloseEvent(Res(i), "cancelled"))' <=> Stored(CloseEvent(Res(i), "cancelled"))
                  /\ Held(i)' <=> Held(i)
                  /\ Alive(i)' <=> Alive(i)
    BY <2>1, <2>2, SameScript DEF Over, Caller, Stored, CloseEvent, Res, Held, Alive
  <2>4. HaltInv' BY <2>1, <2>2, <2>3, <1>1 DEF RunInv, HaltInv
  <2>5. ASSUME ~ Over' PROVE OwnerInv' /\ \A i \in Steps : ChildInv(i)' /\ PlaceInv(i)'
    <3>1. OwnerInv /\ \A i \in Steps : ChildInv(i) /\ PlaceInv(i) BY <2>3, <2>5, <1>1 DEF RunInv
    <3>2. OwnerInv' BY <2>1, <2>2, <2>3, <3>1 DEF OwnerInv
    <3>3. ASSUME NEW i \in Steps PROVE ChildInv(i)' /\ PlaceInv(i)'
      <4>1. ChildInv(i)' BY <2>1, <2>2, <2>3, <3>1 DEF ChildInv
      <4>2. PlaceInv(i)' BY <2>1, <2>2, <2>3, <3>1 DEF PlaceInv
      <4> QED BY <4>1, <4>2
    <3> QED BY <3>2, <3>3
  <2> QED BY <2>2, <2>3, <2>4, <2>5 DEF OrderInv, RunInv
<1> QED BY <1>2, <1>3, <1>4 DEF Next

LEMMA OrderAlways == Atomic => (Spec => [](LifecycleInv /\ OrderInv))
<1> SUFFICES ASSUME Atomic PROVE Spec => [](LifecycleInv /\ OrderInv)
  OBVIOUS
<1>1. Init => LifecycleInv /\ OrderInv BY InitLifecycle, InitRun DEF OrderInv
<1>2. LifecycleInv /\ OrderInv /\ [Next]_vars => (LifecycleInv /\ OrderInv)'
  <2> SUFFICES ASSUME LifecycleInv, OrderInv, [Next]_vars PROVE LifecycleInv' /\ OrderInv'
    OBVIOUS
  <2>1. LifecycleInv' BY LifecycleStep
  <2>2. OrderInv' BY OrderStep
  <2> QED BY <2>1, <2>2
<1> QED BY <1>1, <1>2, PTL DEF Spec

\* Whatever of the journal a run replays, whatever fails, crashes or is halted
\* while appends take no time: what the journal says of an acquisition and of
\* the owner's effects decides how far each run comes and what it cleans up.
\* Behind an inline acquisition the owner has an effect of its own, also when it
\* was refused: the error that its middleware lets through is stored as the
\* answer, and the owner is torn down after it (orchestrateResourceChild,
\* dispatchStandardEffect, teardownResourceChildren, ReplayIndex).
THEOREM ResourceCorrect == Spec => []ResourceInv
<1>1. CASE Atomic
  <2>1. Spec => [](LifecycleInv /\ OrderInv) BY <1>1, OrderAlways
  <2>2. LifecycleInv /\ OrderInv => ResourceInv BY DEF ResourceInv, OrderInv
  <2> QED BY <2>1, <2>2, PTL
<1>2. CASE ~ Atomic
  <2>1. LifecycleInv => ResourceInv BY <1>2 DEF ResourceInv
  <2> QED BY <2>1, LifecycleCorrect, PTL
<1> QED BY <1>1, <1>2

\* The cleanup of a resource comes after the end of everything acquired later,
\* also when several runs share the journal (teardownResourceChildren walks
\* resourceChildren backwards, and inline lanes register in the same list).
THEOREM CleanupOrderHolds == Atomic => (Spec => []CleanupOrder)
<1>1. LifecycleInv /\ OrderInv => CleanupOrder BY DEF OrderInv
<1> QED BY <1>1, OrderAlways, PTL

\* No effect of the owner comes after a cleanup of what it uses: a resource is
\* signalled when the kernel has returned or thrown, in this run and in every
\* run that replays it.  That includes the error of a refused inline acquisition,
\* which is the last answer of the owner and comes before any cleanup.
THEOREM NoUseAfterCleanupHolds == Atomic => (Spec => []NoUseAfterCleanup)
<1>1. LifecycleInv /\ OrderInv => NoUseAfterCleanup BY DEF OrderInv
<1> QED BY <1>1, OrderAlways, PTL

\* The Close of an owner is the last event, after the Close of every resource
\* it started (driveKernel awaits the teardown before maybeAppendCloseToStream;
\* a halted scope ends its children first).
THEOREM OwnerClosesLastHolds == Atomic => (Spec => []OwnerClosesLast)
<1>1. LifecycleInv /\ OrderInv => OwnerClosesLast BY LastFromPath DEF OrderInv
<1> QED BY <1>1, OrderAlways, PTL
=============================================================================
