---------------------- MODULE ResourceLifecycleProofs ----------------------
(***************************************************************************)
(* Proofs about ResourceLifecycle, for any programs, any number of runs    *)
(* and of halts: no coroutine is closed twice, a task is closed before the *)
(* resource it belongs to, and every effect is journaled once.             *)
(***************************************************************************)
EXTENDS ResourceLifecycle, TLAPS

-----------------------------------------------------------------------------
(* Facts about the data *)

LEMMA AppendFact ==
  ASSUME NEW S, NEW s \in Seq(S), NEW e \in S
  PROVE  /\ Append(s, e) \in Seq(S)
         /\ Len(Append(s, e)) = Len(s) + 1
         /\ Append(s, e)[Len(s) + 1] = e
         /\ \A i \in 1 .. Len(s) : Append(s, e)[i] = s[i]
OBVIOUS

LEMMA PrefixFact ==
  ASSUME NEW S, NEW s \in Seq(S), NEW n \in 0 .. Len(s)
  PROVE  /\ SubSeq(s, 1, n) \in Seq(S) /\ Len(SubSeq(s, 1, n)) = n
         /\ \A i \in 1 .. n : SubSeq(s, 1, n)[i] = s[i]
OBVIOUS

LEMMA FrontFact ==
  ASSUME NEW S, NEW s \in Seq(S), s # <<>>
  PROVE  /\ Front(s) \in Seq(S) /\ Len(s) \in Nat \ {0} /\ Len(Front(s)) = Len(s) - 1
         /\ \A i \in 1 .. Len(s) - 1 : Front(s)[i] = s[i]
         /\ Last(s) = s[Len(s)] /\ Last(s) \in S
<1>1. Len(s) \in Nat \ {0} OBVIOUS
<1>2. Len(s) - 1 \in 0 .. Len(s) BY <1>1
<1>3. Front(s) \in Seq(S) /\ Len(Front(s)) = Len(s) - 1 /\ \A i \in 1 .. Len(s) - 1 : Front(s)[i] = s[i]
  BY <1>2, PrefixFact DEF Front
<1>4. Last(s) = s[Len(s)] /\ Last(s) \in S BY <1>1 DEF Last
<1> QED BY <1>1, <1>3, <1>4

\* Coroutines of different kinds and places have different ids.
LEMMA IdFacts ==
  /\ Caller \in Ids /\ Ids \subseteq Coroutines
  /\ \A i \in Steps : Res(i) \in Ids /\ Task(i) \in Coroutines
  /\ \A id \in Ids : id = Caller \/ \E i \in Steps : id = Res(i)
  /\ \A id \in Coroutines : id = Caller \/ \E i \in Steps : id = Res(i) \/ id = Task(i)
  /\ \A i, j : /\ Res(i) # Caller /\ Task(i) # Caller /\ Res(i) # Task(j)
               /\ Res(i) = Res(j) => i = j
               /\ Task(i) = Task(j) => i = j
BY DEF Ids, Coroutines, Caller, Res, Task

LEMMA EventFacts ==
  /\ \A id, n, r : LET e == YieldEvent(id, n, r)
                   IN e.type = "yield" /\ e.id = id /\ e.n = n /\ e.result = r
  /\ \A id, r : LET e == CloseEvent(id, r)
                IN e.type = "close" /\ e.id = id /\ e.n = 0 /\ e.result = r
  /\ \A id \in Ids, n \in Nat \ {0}, r \in {"ok", "error"} : YieldEvent(id, n, r) \in Events
  /\ \A id \in Coroutines, r \in Closings : CloseEvent(id, r) \in Events
  /\ \A e \in Events :
       \/ /\ e.type = "yield" /\ e.id \in Ids /\ e.n \in Nat \ {0} /\ e.result \in {"ok", "error"}
          /\ e = YieldEvent(e.id, e.n, e.result)
       \/ /\ e.type = "close" /\ e.id \in Coroutines /\ e.n = 0 /\ e.result \in Closings
          /\ e = CloseEvent(e.id, e.result)
BY DEF YieldEvent, CloseEvent, Events

LEMMA SameProgram ==
  ASSUME program' = program
  PROVE  Steps' = Steps /\ Ids' = Ids /\ Coroutines' = Coroutines /\ Events' = Events
BY DEF Steps, Ids, Coroutines, Events

\* What the index answers was journaled.
LEMMA StoredFact ==
  ASSUME TypeOK, NEW e, Stored(e)
  PROVE  Journaled(e)
BY DEF Stored, Journaled, TypeOK

LEMMA PreCloseFacts ==
  ASSUME NEW id
  PROVE  /\ PreClose(id) \in Closings \union {"none"}
         /\ PreClose(id) = "none" => \A r \in Closings : ~ Stored(CloseEvent(id, r))
         /\ PreClose(id) # "none" => Stored(CloseEvent(id, PreClose(id)))
<1>1. "none" \notin Closings BY DEF Closings, Results
<1>2. CASE \E r \in Closings : Stored(CloseEvent(id, r))
  <2>1. PreClose(id) \in Closings /\ Stored(CloseEvent(id, PreClose(id)))
    BY <1>2 DEF PreClose
  <2> QED BY <2>1, <1>1
<1>3. CASE ~ \E r \in Closings : Stored(CloseEvent(id, r))
  BY <1>3 DEF PreClose
<1> QED BY <1>2, <1>3

LEMMA PreClosedIsClosed ==
  ASSUME TypeOK, NEW id, PreClose(id) # "none"
  PROVE  IsClosed(id)
BY PreCloseFacts, StoredFact DEF IsClosed, Closings, Results

\* Something is journaled under an id and a place when its event is there.
LEMMA AnsweredFact ==
  ASSUME TypeOK, NEW id \in Ids, NEW n
  PROVE  /\ Answered(id, n) <=> \E m \in 1 .. Len(stream) : IsYield(m, id) /\ stream[m].n = n
<1>1. \A m \in 1 .. Len(stream) : stream[m] \in Events BY DEF TypeOK
<1>2. ASSUME Answered(id, n)
      PROVE  \E m \in 1 .. Len(stream) : IsYield(m, id) /\ stream[m].n = n
  BY <1>2, EventFacts DEF Answered, Journaled, IsYield
<1>3. ASSUME NEW m \in 1 .. Len(stream), IsYield(m, id), stream[m].n = n
      PROVE  Answered(id, n)
  <2>1. stream[m] = YieldEvent(id, n, stream[m].result) /\ stream[m].result \in Results
    BY <1>1, <1>3, EventFacts DEF IsYield, Results
  <2> QED BY <2>1 DEF Answered, Journaled
<1> QED BY <1>2, <1>3

LEMMA IsClosedFact ==
  ASSUME TypeOK, NEW id
  PROVE  IsClosed(id) <=> \E m \in 1 .. Len(stream) : IsClose(m, id)
<1>1. \A m \in 1 .. Len(stream) : stream[m] \in Events BY DEF TypeOK
<1>2. ASSUME IsClosed(id) PROVE \E m \in 1 .. Len(stream) : IsClose(m, id)
  BY <1>2, EventFacts DEF IsClosed, Journaled, IsClose
<1>3. ASSUME NEW m \in 1 .. Len(stream), IsClose(m, id) PROVE IsClosed(id)
  <2>1. stream[m] = CloseEvent(id, stream[m].result) /\ stream[m].result \in Closings
    BY <1>1, <1>3, EventFacts DEF IsClose
  <2> QED BY <2>1 DEF IsClosed, Journaled
<1> QED BY <1>2, <1>3

-----------------------------------------------------------------------------
(* What a step does to the journal and to the memory of a run *)

Added == Len(stream) + 1 .. Len(stream')
Kept == Len(stream') >= Len(stream) /\ \A m \in 1 .. Len(stream) : stream'[m] = stream[m]
ClosedNow(i) == child[i].phase \in {"closed", "dead"}
TaskOver(i) == task[i] \in {"ended", "halted"}

\* A Yield takes the next place of a coroutine that is not closed.
YieldLaw ==
  \A m \in Added, id \in Ids : stream'[m].type = "yield" /\ stream'[m].id = id =>
    /\ m = Len(stream) + 1 /\ m = Len(stream')
    /\ stream'[m].n = pos[id] + 1 /\ pos'[id] = pos[id] + 1
    /\ PeekYield(id) = {} /\ PreClose(id) = "none"
\* A Close is written once, and remembered.
CloseLaw ==
  /\ \A m \in Added, id \in Coroutines : stream'[m].type = "close" /\ stream'[m].id = id =>
       /\ PreClose(id) = "none"
       /\ \A n \in Added : stream'[n].type = "close" /\ stream'[n].id = id => n = m
       /\ id = Caller => owner.at # "closed" /\ owner'.at = "closed"
       /\ \A i \in Steps :
            /\ id = Res(i) => /\ child[i].phase \notin {"unborn", "closed", "dead"}
                              /\ task'[i] # "running" /\ ClosedNow(i)'
            /\ id = Task(i) => /\ task[i] = "running" /\ TaskOver(i)'
                               /\ \A n \in Len(stream) + 1 .. m :
                                    ~(stream'[n].type = "close" /\ stream'[n].id = Res(i))
PosLaw ==
  \A id \in Ids :
    \/ pos'[id] = pos[id]
    \/ pos'[id] = pos[id] + 1 /\ (PreClose(id) # "none" \/ Answered(id, pos[id])')
MemoryLaw ==
  /\ owner.at = "closed" => owner'.at = "closed"
  /\ \/ owner'.pc > owner.pc
     \/ owner'.pc = owner.pc /\ (owner'.at = "op" => owner.at = "op")
  /\ \A i \in Steps :
       /\ child'[i].phase # "unborn" =>
            child[i].phase # "unborn" \/ (i = owner'.pc /\ owner'.at # "op")
       /\ ClosedNow(i) => ClosedNow(i)'
       /\ TaskOver(i) => TaskOver(i)'
       /\ task'[i] = "running" =>
            \/ task[i] = "running" /\ child'[i].phase \in InitPhases
            \/ child'[i].phase = "init" /\ program.body[i].spawns
       /\ child'[i].phase = "unborn" => child[i].phase = "unborn" /\ task'[i] = task[i]
       /\ program.body[i].spawns /\ child'[i].phase # "unborn" /\ task'[i] # "running" =>
            \/ child[i].phase # "unborn" /\ task[i] # "running"
            \/ IsClosed(Task(i))'
Lawful ==
  /\ program' = program /\ old' = old
  /\ Kept /\ YieldLaw /\ CloseLaw /\ PosLaw /\ MemoryLaw

LEMMA KeptFacts ==
  ASSUME TypeOK, TypeOK', program' = program, Kept
  PROVE  /\ \A id, n : Answered(id, n) => Answered(id, n)'
         /\ \A id : IsClosed(id) => IsClosed(id)'
         /\ \A m \in 1 .. Len(stream') : \A id :
              /\ IsYield(m, id)' => IsYield(m, id) \/ m \in Added
              /\ IsClose(m, id)' => IsClose(m, id) \/ m \in Added
         /\ \A m \in 1 .. Len(stream) : \A id :
              (IsYield(m, id)' <=> IsYield(m, id)) /\ (IsClose(m, id)' <=> IsClose(m, id))
<1>1. Len(stream) \in Nat /\ Len(stream') \in Nat BY DEF TypeOK
<1>2. ASSUME NEW e, Journaled(e) PROVE Journaled(e)'
  BY <1>1, <1>2 DEF Journaled, Kept
<1>3. \A id, n : Answered(id, n) => Answered(id, n)'
  BY <1>2 DEF Answered
<1>4. \A id : IsClosed(id) => IsClosed(id)'
  BY <1>2 DEF IsClosed
<1>5. \A m \in 1 .. Len(stream') : \A id :
        /\ IsYield(m, id)' => IsYield(m, id) \/ m \in Added
        /\ IsClose(m, id)' => IsClose(m, id) \/ m \in Added
  BY <1>1 DEF IsYield, IsClose, Kept, Added
<1>6. \A m \in 1 .. Len(stream) : \A id :
        (IsYield(m, id)' <=> IsYield(m, id)) /\ (IsClose(m, id)' <=> IsClose(m, id))
  BY <1>1 DEF IsYield, IsClose, Kept
<1> QED BY <1>3, <1>4, <1>5, <1>6

\* The index is what it was when the run started.
LEMMA IndexKept ==
  ASSUME TypeOK, old' = old, Kept
  PROVE  /\ \A e : Stored(e)' <=> Stored(e)
         /\ \A id : PreClose(id)' = "none" <=> PreClose(id) = "none"
<1>1. \A e : Stored(e)' <=> Stored(e)
  <2>1. old \in 0 .. Len(stream) /\ \A m \in 1 .. old : stream'[m] = stream[m]
    BY DEF TypeOK, Kept
  <2> QED BY <2>1 DEF Stored
<1>2. "none" \notin Closings BY DEF Closings, Results
<1>3. ASSUME NEW id PROVE PreClose(id)' = "none" <=> \A r \in Closings : ~ Stored(CloseEvent(id, r))'
  BY <1>2 DEF PreClose
<1>4. ASSUME NEW id PROVE PreClose(id) = "none" <=> \A r \in Closings : ~ Stored(CloseEvent(id, r))
  BY <1>2 DEF PreClose
<1>5. ASSUME NEW id PROVE PreClose(id)' = "none" <=> PreClose(id) = "none"
  <2>1. \A r \in Closings : Stored(CloseEvent(id, r))' <=> Stored(CloseEvent(id, r))
    BY <1>1 DEF CloseEvent
  <2> QED BY <2>1, <1>3, <1>4
<1> QED BY <1>1, <1>5

\* A place that neither the index nor this run has answered is the next one.
LEMMA NextPlace ==
  ASSUME TypeOK, NotedInv, NEW id \in Ids, PeekYield(id) = {}, PreClose(id) = "none",
         NEW m \in 1 .. Len(stream), IsYield(m, id)
  PROVE  stream[m].n <= pos[id]
<1>1. /\ pos[id] \in Nat /\ stream[m] \in Events /\ old \in Nat /\ Len(stream) \in Nat
      /\ \A k \in 1 .. Len(stream) : stream[k] \in Events
  BY DEF TypeOK
<1>2. stream[m].n \in Nat \ {0} BY <1>1, EventFacts DEF IsYield
<1>3. SUFFICES ASSUME stream[m].n > pos[id] PROVE FALSE
  BY <1>1, <1>2
<1>4. Answered(id, pos[id] + 1)
  <2>1. pos[id] + 1 \in 1 .. stream[m].n BY <1>1, <1>2, <1>3
  <2> QED BY <2>1 DEF NotedInv
<1>5. PICK k \in 1 .. Len(stream) : IsYield(k, id) /\ stream[k].n = pos[id] + 1
  BY <1>4, AnsweredFact
<1>6. CASE k <= old
  <2>1. stream[k] = YieldEvent(id, pos[id] + 1, stream[k].result) /\ stream[k].result \in Results
    BY <1>1, <1>5, EventFacts DEF IsYield, Results
  <2>2. stream[k].result \in PeekYield(id)
    BY <2>1, <1>6 DEF PeekYield, Stored
  <2> QED BY <2>2
<1>7. CASE k > old
  <2>1. k \in old + 1 .. Len(stream) BY <1>7, <1>1
  <2>2. stream[k].n <= pos[id] BY <2>1, <1>5 DEF NotedInv
  <2> QED BY <2>2, <1>5, <1>1
<1> QED BY <1>6, <1>7, <1>1

LEMMA NotedKept ==
  ASSUME TypeOK, TypeOK', NotedInv, Lawful
  PROVE  NotedInv'
<1>1. /\ Len(stream) \in Nat /\ Len(stream') \in Nat /\ old \in Nat /\ old' = old /\ program' = program
      /\ pos \in [Ids -> Nat] /\ pos' \in [Ids -> Nat] /\ Len(stream) <= Len(stream') /\ old <= Len(stream)
      /\ \A m \in 1 .. Len(stream) : stream'[m] = stream[m]
      /\ \A m \in 1 .. Len(stream) : stream[m] \in Events
      /\ \A m \in 1 .. Len(stream') : stream'[m] \in Events
      /\ Ids' = Ids /\ Steps' = Steps /\ Coroutines' = Coroutines
  BY SameProgram DEF TypeOK, Lawful, Kept
<1>2. /\ \A id, n : Answered(id, n) => Answered(id, n)'
      /\ \A m \in 1 .. Len(stream') : \A id :
           /\ IsYield(m, id)' => IsYield(m, id) \/ m \in Added
           /\ IsClose(m, id)' => IsClose(m, id) \/ m \in Added
      /\ \A m \in 1 .. Len(stream) : \A id :
           (IsYield(m, id)' <=> IsYield(m, id)) /\ (IsClose(m, id)' <=> IsClose(m, id))
  BY KeptFacts DEF Lawful
<1>3. \A m \in 1 .. Len(stream') : m \in 1 .. Len(stream) \/ m \in Added
  BY <1>1 DEF Added
<1>4. ASSUME NEW m \in Added, NEW id \in Ids, IsYield(m, id)'
      PROVE  /\ m = Len(stream) + 1 /\ m = Len(stream')
             /\ stream'[m].n = pos[id] + 1 /\ pos'[id] = pos[id] + 1
             /\ PeekYield(id) = {} /\ PreClose(id) = "none"
  BY <1>4 DEF Lawful, YieldLaw, IsYield
<1>5. ASSUME NEW m \in 1 .. Len(stream'), NEW n \in 1 .. Len(stream'), NEW id \in Ids,
             IsYield(m, id)', IsYield(n, id)', m < n
      PROVE  stream'[m].n < stream'[n].n
  <2>1. CASE n \in 1 .. Len(stream)
    <3>1. m \in 1 .. Len(stream) BY <1>5, <2>1, <1>1
    <3>2. IsYield(m, id) /\ IsYield(n, id) BY <1>2, <1>5, <2>1, <3>1
    <3>3. stream[m].n < stream[n].n BY <3>1, <2>1, <3>2, <1>5 DEF NotedInv
    <3> QED BY <3>1, <3>3, <2>1, <1>1
  <2>2. CASE n \in Added
    <3>1. n = Len(stream) + 1 /\ stream'[n].n = pos[id] + 1 /\ PeekYield(id) = {} /\ PreClose(id) = "none"
      BY <1>4, <1>5, <2>2
    <3>2. m \in 1 .. Len(stream) BY <3>1, <1>5, <1>1
    <3>3. IsYield(m, id) BY <1>2, <1>5, <3>2
    <3>4. stream[m].n <= pos[id] BY <3>1, <3>2, <3>3, NextPlace
    <3>5. stream[m].n \in Nat /\ pos[id] \in Nat BY <3>2, <3>3, <1>1, EventFacts DEF IsYield
    <3>6. stream'[m].n = stream[m].n BY <3>2, <1>1
    <3> QED BY <3>1, <3>4, <3>5, <3>6
  <2> QED BY <2>1, <2>2, <1>3
<1>6. ASSUME NEW m \in 1 .. Len(stream'), NEW id \in Ids, IsYield(m, id)', NEW n \in 1 .. stream'[m].n
      PROVE  Answered(id, n)'
  <2>1. CASE m \in 1 .. Len(stream)
    <3>1. IsYield(m, id) /\ stream'[m] = stream[m] BY <1>1, <1>2, <1>6, <2>1
    <3>2. Answered(id, n) BY <3>1, <2>1 DEF NotedInv
    <3> QED BY <3>2, <1>2
  <2>2. CASE m \in Added
    <3>1. stream'[m].n = pos[id] + 1 /\ PreClose(id) = "none" BY <1>4, <1>6, <2>2
    <3>2. CASE n <= pos[id]
      <4>1. n \in 1 .. pos[id] BY <3>2, <3>1, <1>1
      <4>2. Answered(id, n) BY <4>1, <3>1 DEF NotedInv
      <4> QED BY <4>2, <1>2
    <3>3. CASE n = pos[id] + 1
      <4>1. stream'[m] = YieldEvent(id, n, stream'[m].result) /\ stream'[m].result \in Results
        BY <1>1, <1>6, <3>1, <3>3, EventFacts DEF IsYield, Results
      <4> QED BY <4>1 DEF Answered, Journaled, YieldEvent
    <3> QED BY <3>1, <3>2, <3>3, <1>1
  <2> QED BY <2>1, <2>2, <1>3
<1>7. ASSUME NEW id \in Ids, PreClose(id)' = "none", NEW n \in 1 .. pos'[id]
      PROVE  Answered(id, n)'
  <2>1. PreClose(id) = "none" BY <1>7, IndexKept DEF Lawful
  <2>2. CASE n \in 1 .. pos[id]
    BY <2>1, <2>2, <1>2 DEF NotedInv
  <2>3. CASE n \notin 1 .. pos[id]
    <3>1. pos'[id] = pos[id] + 1 /\ Answered(id, pos[id])'
      BY <2>3, <2>1, <1>7, <1>1 DEF Lawful, PosLaw
    <3>2. n = pos'[id] BY <3>1, <2>3, <1>7, <1>1
    <3> QED BY <3>1, <3>2
  <2> QED BY <2>2, <2>3
<1>8. ASSUME NEW m \in old + 1 .. Len(stream')
      PROVE  /\ \A id \in Ids : IsYield(m, id)' => stream'[m].n <= pos'[id]
             /\ IsClose(m, Caller)' => owner'.at = "closed"
             /\ \A i \in Steps : /\ IsClose(m, Res(i))' => ClosedNow(i)'
                                 /\ IsClose(m, Task(i))' => TaskOver(i)'
  <2>1. CASE m \in 1 .. Len(stream)
    <3>1. m \in old + 1 .. Len(stream) /\ stream'[m] = stream[m] BY <2>1, <1>8, <1>1
    <3>2. ASSUME NEW id \in Ids, IsYield(m, id)' PROVE stream'[m].n <= pos'[id]
      <4>1. IsYield(m, id) BY <3>2, <2>1, <1>2
      <4>2. stream[m].n <= pos[id] BY <3>1, <4>1 DEF NotedInv
      <4>3. stream[m].n \in Nat BY <4>1, <2>1, <1>1, EventFacts DEF IsYield
      <4>4. pos[id] <= pos'[id] /\ pos[id] \in Nat /\ pos'[id] \in Nat BY <1>1 DEF Lawful, PosLaw
      <4> QED BY <4>2, <4>3, <4>4, <3>1
    <3>3. IsClose(m, Caller)' => owner'.at = "closed"
      BY <3>1, <2>1, <1>2 DEF NotedInv, Lawful, MemoryLaw
    <3>4. ASSUME NEW i \in Steps PROVE /\ IsClose(m, Res(i))' => ClosedNow(i)'
                                       /\ IsClose(m, Task(i))' => TaskOver(i)'
      <4>1. /\ IsClose(m, Res(i)) => ClosedNow(i)
            /\ IsClose(m, Task(i)) => TaskOver(i)
        BY <3>1 DEF NotedInv, ClosedNow, TaskOver
      <4>2. (ClosedNow(i) => ClosedNow(i)') /\ (TaskOver(i) => TaskOver(i)')
        BY DEF Lawful, MemoryLaw
      <4> QED BY <4>1, <4>2, <1>2, <2>1
    <3> QED BY <3>2, <3>3, <3>4
  <2>2. CASE m \in Added
    <3>1. ASSUME NEW id \in Ids, IsYield(m, id)' PROVE stream'[m].n <= pos'[id]
      BY <1>4, <3>1, <2>2, <1>1
    <3>2. IsClose(m, Caller)' => owner'.at = "closed"
      BY <2>2, IdFacts DEF Lawful, CloseLaw, IsClose
    <3>3. ASSUME NEW i \in Steps PROVE /\ IsClose(m, Res(i))' => ClosedNow(i)'
                                       /\ IsClose(m, Task(i))' => TaskOver(i)'
      BY <2>2, IdFacts DEF Lawful, CloseLaw, IsClose
    <3> QED BY <3>1, <3>2, <3>3
  <2>3. m \in 1 .. Len(stream') BY <1>8, <1>1
  <2> QED BY <2>1, <2>2, <2>3, <1>3
<1> QED
  <2>1. /\ \A m, n \in 1 .. Len(stream'), id \in Ids' :
             IsYield(m, id)' /\ IsYield(n, id)' /\ m < n => stream'[m].n < stream'[n].n
        /\ \A m \in 1 .. Len(stream'), id \in Ids' :
             IsYield(m, id)' => \A n \in 1 .. stream'[m].n : Answered(id, n)'
        /\ \A id \in Ids' : PreClose(id)' = "none" => \A n \in 1 .. pos'[id] : Answered(id, n)'
    BY <1>1, <1>5, <1>6, <1>7
  <2>2. \A m \in old' + 1 .. Len(stream') :
           /\ \A id \in Ids' : IsYield(m, id)' => stream'[m].n <= pos'[id]
           /\ IsClose(m, Caller)' => owner'.at = "closed"
           /\ \A i \in Steps' :
                /\ IsClose(m, Res(i))' => child'[i].phase \in {"closed", "dead"}
                /\ IsClose(m, Task(i))' => task'[i] \in {"ended", "halted"}
    BY <1>1, <1>8 DEF ClosedNow, TaskOver
  <2> QED BY <2>1, <2>2 DEF NotedInv

\* What is closed in this step was not closed before, in any run.
LEMMA ClosedFirst ==
  ASSUME TypeOK, TypeOK', NotedInv, Lawful,
         NEW id \in Coroutines, NEW m \in Added, IsClose(m, id)',
         NEW n \in 1 .. Len(stream), IsClose(n, id)
  PROVE  FALSE
<1>1. /\ PreClose(id) = "none"
      /\ id = Caller => owner.at # "closed"
      /\ \A i \in Steps :
            /\ id = Res(i) => child[i].phase \notin {"unborn", "closed", "dead"}
            /\ id = Task(i) => task[i] = "running"
  BY DEF Lawful, CloseLaw, IsClose
<1>2. stream[n] = CloseEvent(id, stream[n].result) /\ stream[n].result \in Closings
  <2>1. stream[n] \in Events BY DEF TypeOK
  <2> QED BY <2>1, EventFacts DEF IsClose
<1>3. n > old
  <2>1. CASE n <= old
    <3>1. Stored(CloseEvent(id, stream[n].result))
      BY <1>2, <2>1 DEF Stored, TypeOK
    <3> QED BY <3>1, <1>1, <1>2, PreCloseFacts
  <2> QED BY <2>1 DEF TypeOK
<1>4. n \in old + 1 .. Len(stream) BY <1>3 DEF TypeOK
<1>5. /\ id = Caller => owner.at = "closed"
      /\ \A i \in Steps :
            /\ id = Res(i) => child[i].phase \in {"closed", "dead"}
            /\ id = Task(i) => task[i] \in {"ended", "halted"}
  BY <1>4 DEF NotedInv
<1> QED BY <1>1, <1>5, IdFacts

LEMMA OneCloseKept ==
  ASSUME TypeOK, TypeOK', NotedInv, OneClose, Lawful
  PROVE  OneClose'
<1>1. /\ Len(stream) \in Nat /\ Len(stream') \in Nat /\ Coroutines' = Coroutines
      /\ Len(stream) <= Len(stream')
  BY SameProgram DEF TypeOK, Lawful, Kept
<1>2. /\ \A m \in 1 .. Len(stream') : \A id :
           /\ IsClose(m, id)' => IsClose(m, id) \/ m \in Added
      /\ \A m \in 1 .. Len(stream) : \A id : IsClose(m, id)' <=> IsClose(m, id)
  BY KeptFacts DEF Lawful
<1>3. \A m \in 1 .. Len(stream') : m \in 1 .. Len(stream) \/ m \in Added
  BY <1>1 DEF Added
<1>4. ASSUME NEW m \in 1 .. Len(stream'), NEW n \in 1 .. Len(stream'), NEW id \in Coroutines,
             IsClose(m, id)', IsClose(n, id)'
      PROVE  m = n
  <2>1. CASE m \in 1 .. Len(stream) /\ n \in 1 .. Len(stream)
    BY <2>1, <1>2, <1>4 DEF OneClose
  <2>2. CASE m \in Added /\ n \in 1 .. Len(stream)
    BY <2>2, <1>2, <1>4, ClosedFirst
  <2>3. CASE n \in Added /\ m \in 1 .. Len(stream)
    BY <2>3, <1>2, <1>4, ClosedFirst
  <2>4. CASE m \in Added /\ n \in Added
    BY <2>4, <1>4 DEF Lawful, CloseLaw, IsClose
  <2> QED BY <2>1, <2>2, <2>3, <2>4, <1>3
<1> QED BY <1>1, <1>4 DEF OneClose

LEMMA TasksKept ==
  ASSUME TypeOK, TypeOK', NotedInv, TaskInv, TasksEndWithInit, Lawful
  PROVE  TaskInv' /\ TasksEndWithInit'
<1>1. /\ Len(stream) \in Nat /\ Len(stream') \in Nat /\ Steps' = Steps /\ program' = program
      /\ Ids' = Ids
      /\ Len(stream) <= Len(stream')
      /\ \A m \in 1 .. Len(stream) : stream'[m] = stream[m]
      /\ \A m \in 1 .. Len(stream') : stream'[m] \in Events
  BY SameProgram DEF TypeOK, Lawful, Kept
<1>2. /\ \A id : IsClosed(id) => IsClosed(id)'
      /\ \A m \in 1 .. Len(stream') : \A id : IsClose(m, id)' => IsClose(m, id) \/ m \in Added
      /\ \A m \in 1 .. Len(stream) : \A id : IsClose(m, id)' <=> IsClose(m, id)
  BY KeptFacts DEF Lawful
<1>3. \A m \in 1 .. Len(stream') : m \in 1 .. Len(stream) \/ m \in Added
  BY <1>1 DEF Added
\* A coroutine that is closed now was closed before, or by this step.
<1>4. ASSUME NEW id \in Coroutines, IsClosed(id)'
      PROVE  IsClosed(id) \/ \E m \in Added : IsClose(m, id)'
  <2>1. \E m \in 1 .. Len(stream') : IsClose(m, id)'
    <3>1. PICK r \in Closings : Journaled(CloseEvent(id, r))' BY <1>4 DEF IsClosed
    <3>2. PICK m \in 1 .. Len(stream') : stream'[m] = CloseEvent(id, r)
      BY <3>1 DEF Journaled, CloseEvent
    <3> QED BY <3>2, EventFacts DEF IsClose
  <2>2. PICK m \in 1 .. Len(stream') : IsClose(m, id)' BY <2>1
  <2>3. CASE m \in 1 .. Len(stream) BY <2>3, <2>2, <1>2, IsClosedFact
  <2> QED BY <2>2, <2>3, <1>3
<1>5. ASSUME NEW i \in Steps
      PROVE  /\ task'[i] = "running" => child'[i].phase \in InitPhases /\ program.body[i].spawns
             /\ child'[i].phase = "unborn" => task'[i] = "unborn"
             /\ program.body[i].spawns /\ child'[i].phase # "unborn" /\ task'[i] # "running"
                  => IsClosed(Task(i))'
             /\ program.body[i].spawns /\ IsClosed(Res(i))' => IsClosed(Task(i))'
             /\ IsClosed(Task(i))' => program.body[i].spawns
  <2>1. /\ task[i] = "running" => child[i].phase \in InitPhases /\ program.body[i].spawns
        /\ child[i].phase = "unborn" => task[i] = "unborn"
        /\ program.body[i].spawns /\ child[i].phase # "unborn" /\ task[i] # "running"
             => IsClosed(Task(i))
        /\ program.body[i].spawns /\ IsClosed(Res(i)) => IsClosed(Task(i))
        /\ IsClosed(Task(i)) => program.body[i].spawns
    BY DEF TaskInv
  <2>2. /\ task'[i] = "running" =>
             \/ task[i] = "running" /\ child'[i].phase \in InitPhases
             \/ child'[i].phase = "init" /\ program.body[i].spawns
        /\ child'[i].phase = "unborn" => child[i].phase = "unborn" /\ task'[i] = task[i]
        /\ program.body[i].spawns /\ child'[i].phase # "unborn" /\ task'[i] # "running" =>
             \/ child[i].phase # "unborn" /\ task[i] # "running"
             \/ IsClosed(Task(i))'
    BY DEF Lawful, MemoryLaw
  <2>3. program.body[i].spawns /\ child'[i].phase # "unborn" /\ task'[i] # "running"
          => IsClosed(Task(i))'
    BY <2>1, <2>2, <1>2
  <2>4. ASSUME program.body[i].spawns, IsClosed(Res(i))' PROVE IsClosed(Task(i))'
    <3>1. CASE IsClosed(Res(i)) BY <3>1, <2>4, <2>1, <1>2
    <3>2. CASE \E m \in Added : IsClose(m, Res(i))'
      <4>1. task'[i] # "running" /\ ClosedNow(i)'
        BY <3>2, IdFacts DEF Lawful, CloseLaw, IsClose
      <4> QED BY <4>1, <2>3, <2>4 DEF ClosedNow
    <3> QED BY <3>1, <3>2, <2>4, <1>4, IdFacts
  <2>5. ASSUME IsClosed(Task(i))' PROVE program.body[i].spawns
    <3>1. CASE IsClosed(Task(i)) BY <3>1, <2>1
    <3>2. CASE \E m \in Added : IsClose(m, Task(i))'
      BY <3>2, <2>1, IdFacts DEF Lawful, CloseLaw, IsClose
    <3> QED BY <3>1, <3>2, <2>5, <1>4, IdFacts
  <2> QED BY <2>1, <2>2, <2>3, <2>4, <2>5 DEF InitPhases
<1>6. ASSUME NEW n \in 1 .. Len(stream'), NEW i \in Steps, stream'[n].id = Task(i),
             NEW m \in 1 .. n, IsClose(m, Res(i))'
      PROVE  FALSE
  <2>1. m \in 1 .. Len(stream') BY <1>1
  <2>2. CASE n \in 1 .. Len(stream)
    <3>1. m \in 1 .. Len(stream) BY <2>2, <1>1
    <3>2. IsClose(m, Res(i)) /\ stream[n].id = Task(i) BY <1>6, <3>1, <2>2, <1>1, <1>2
    <3> QED BY <3>1, <3>2, <2>2 DEF TasksEndWithInit, ClosedBy
  <2>3. CASE n \in Added
    <3>1. stream'[n].type = "close"
      <4>1. stream'[n] \in Events' /\ Events' = Events BY SameProgram, <1>1 DEF TypeOK
      <4> QED BY <4>1, <1>6, IdFacts, EventFacts
    <3>2. /\ task[i] = "running"
          /\ \A k \in Len(stream) + 1 .. n : ~(stream'[k].type = "close" /\ stream'[k].id = Res(i))
      BY <2>3, <3>1, <1>6, IdFacts DEF Lawful, CloseLaw
    <3>3. m \in 1 .. Len(stream)
      <4>1. m \notin Len(stream) + 1 .. n BY <3>2, <1>6 DEF IsClose
      <4> QED BY <4>1, <1>1, <1>6
    <3>4. IsClosed(Res(i)) BY <3>3, <1>6, <1>2, IsClosedFact
    <3>5. IsClosed(Task(i)) BY <3>4, <3>2 DEF TaskInv
    <3>6. PICK k \in 1 .. Len(stream) : IsClose(k, Task(i)) BY <3>5, IsClosedFact
    <3>7. IsClose(n, Task(i))' BY <3>1, <1>6 DEF IsClose, Task
    <3> QED BY <3>6, <3>7, <2>3, ClosedFirst, IdFacts
  <2> QED BY <2>2, <2>3, <1>3
<1>7. TaskInv' BY <1>1, <1>5 DEF TaskInv
<1>8. \A i \in Steps : child'[i].phase \in {"provided", "cleanup", "cleaned"} => task'[i] # "running"
  BY <1>5 DEF InitPhases
<1>9. \A n \in 1 .. Len(stream'), i \in Steps :
        stream'[n].id = Task(i) => ~ \E m \in 1 .. n : IsClose(m, Res(i))'
  BY <1>6
<1>10. TasksEndWithInit'
  BY <1>1, <1>8, <1>9 DEF TasksEndWithInit, ClosedBy
<1> QED BY <1>7, <1>10

LEMMA BornKept ==
  ASSUME TypeOK, TypeOK', BornInv, Lawful
  PROVE  BornInv'
<1>1. Steps' = Steps /\ owner.pc \in Nat /\ owner'.pc \in Nat /\ Steps \subseteq Nat
  BY SameProgram DEF TypeOK, Lawful, Steps
<1>2. ASSUME NEW i \in Steps, i > owner'.pc \/ (i = owner'.pc /\ owner'.at = "op")
      PROVE  child'[i].phase = "unborn"
  <2>1. i > owner.pc \/ (i = owner.pc /\ owner.at = "op")
    BY <1>1, <1>2 DEF Lawful, MemoryLaw
  <2>2. child[i].phase = "unborn" BY <2>1 DEF BornInv
  <2>3. i # owner'.pc \/ owner'.at = "op" BY <1>1, <1>2
  <2> QED BY <2>2, <2>3 DEF Lawful, MemoryLaw
<1> QED BY <1>1, <1>2 DEF BornInv

LEMMA LawfulKeeps ==
  ASSUME LifecycleInv, TypeOK', Lawful
  PROVE  LifecycleInv'
BY NotedKept, OneCloseKept, TasksKept, BornKept DEF LifecycleInv

-----------------------------------------------------------------------------
(* How effects and Closes are journaled *)

JournalOK == stream \in Seq(Events) /\ old \in 0 .. Len(stream) /\ pos \in [Ids -> Nat]
OwnerOK ==
  /\ owner \in [pc : 1 .. Len(program.script) + 1, outcome : Results, broken : BOOLEAN,
                at : {"op", "acquiring", "answering", "teardown", "halting", "closed"},
                resources : Seq(Steps)]
  /\ owner.at \in {"acquiring", "answering"} => owner.pc \in Steps
ChildOK == child \in [Steps -> [phase : Phases, result : Closings \union {"none"}]]
TaskOK == task \in [Steps -> {"unborn", "running", "ended", "halted"}]

LEMMA TypeParts ==
  /\ TypeOK <=> program \in Programs /\ JournalOK /\ OwnerOK /\ ChildOK /\ TaskOK
  /\ TypeOK' <=> program' \in Programs /\ JournalOK' /\ OwnerOK' /\ ChildOK' /\ TaskOK'
BY DEF TypeOK, JournalOK, OwnerOK, ChildOK, TaskOK

JournalLaw == Kept /\ YieldLaw /\ CloseLaw /\ PosLaw

LEMMA StillLaw ==
  ASSUME TypeOK, UNCHANGED <<program, stream, old, pos>>
  PROVE  JournalOK' /\ JournalLaw
<1>1. Added = {} /\ Len(stream) \in Nat BY DEF Added, TypeOK
<1>2. Kept /\ YieldLaw /\ CloseLaw /\ PosLaw
  BY <1>1 DEF Kept, YieldLaw, CloseLaw, PosLaw
<1>3. Events' = Events /\ Ids' = Ids BY SameProgram
<1> QED BY <1>2, <1>3 DEF JournalLaw, JournalOK, TypeOK

LEMMA EffectLaw ==
  ASSUME TypeOK, program' = program, old' = old, NEW id \in Ids, NEW result \in Results,
         Effect(id, result)
  PROVE  JournalOK' /\ JournalLaw
<1>1. /\ Len(stream) \in Nat /\ stream \in Seq(Events) /\ old \in 0 .. Len(stream)
      /\ pos \in [Ids -> Nat] /\ Events' = Events /\ Ids' = Ids
  BY SameProgram DEF TypeOK
<1>2. /\ pos' \in [Ids -> Nat] /\ pos'[id] = pos[id] + 1
      /\ \A other \in Ids : other # id => pos'[other] = pos[other]
  BY <1>1 DEF Effect
<1>3. \/ /\ stream' = stream
         /\ \/ result \in PeekYield(id)
            \/ PreClose(id) # "none"
      \/ /\ PeekYield(id) = {} /\ PreClose(id) = "none" /\ result \in {"ok", "error"}
         /\ stream' = Append(stream, YieldEvent(id, pos[id] + 1, result))
  BY DEF Effect
<1>4. CASE /\ stream' = stream
           /\ \/ result \in PeekYield(id)
              \/ PreClose(id) # "none"
  <2>1. Added = {} BY <1>1, <1>4 DEF Added
  <2>2. Kept /\ YieldLaw /\ CloseLaw BY <2>1, <1>4, <1>1 DEF Kept, YieldLaw, CloseLaw
  <2>3. PreClose(id) # "none" \/ Answered(id, pos[id])'
    <3>1. ASSUME result \in PeekYield(id) PROVE Answered(id, pos[id])'
      <4>1. Journaled(YieldEvent(id, pos[id] + 1, result))
        BY <3>1, StoredFact DEF PeekYield
      <4>2. Answered(id, pos[id] + 1) BY <4>1 DEF Answered
      <4>3. PICK r \in Results : Journaled(YieldEvent(id, pos[id] + 1, r)) BY <4>1
      <4> QED BY <4>3, <1>2, <1>4 DEF Answered, Journaled, YieldEvent
    <3> QED BY <3>1, <1>4
  <2>4. PosLaw BY <2>3, <1>2 DEF PosLaw
  <2> QED BY <2>2, <2>4, <1>1, <1>2, <1>4 DEF JournalOK, JournalLaw
<1>5. CASE /\ PeekYield(id) = {} /\ PreClose(id) = "none" /\ result \in {"ok", "error"}
           /\ stream' = Append(stream, YieldEvent(id, pos[id] + 1, result))
  <2> DEFINE event == YieldEvent(id, pos[id] + 1, result)
  <2>1. pos[id] + 1 \in Nat \ {0} BY <1>1
  <2>2. event \in Events /\ event.type = "yield" /\ event.id = id /\ event.n = pos[id] + 1
    BY <2>1, <1>5, EventFacts
  <2>3. stream' = Append(stream, event) BY <1>5
  <2> HIDE DEF event
  <2>4. /\ stream' \in Seq(Events) /\ Len(stream') = Len(stream) + 1
        /\ stream'[Len(stream) + 1] = event
        /\ \A m \in 1 .. Len(stream) : stream'[m] = stream[m]
    BY <2>2, <2>3, <1>1, AppendFact
  <2>5. Added = {Len(stream) + 1} BY <2>4, <1>1 DEF Added
  <2>6. Kept BY <2>4, <1>1 DEF Kept
  <2>7. YieldLaw BY <2>2, <2>4, <2>5, <1>2, <1>5 DEF YieldLaw
  <2>8. CloseLaw
    <3>1. \A m \in Added : stream'[m].type # "close" BY <2>2, <2>4, <2>5
    <3> QED BY <3>1 DEF CloseLaw
  <2>9. PosLaw
    <3>1. Answered(id, pos[id])'
      <4>1. event = YieldEvent(id, pos'[id], result) BY <1>2 DEF event
      <4>2. result \in Results BY <1>5 DEF Results
      <4> QED BY <4>1, <4>2, <2>4, <1>1 DEF Answered, Journaled, YieldEvent
    <3> QED BY <3>1, <1>2 DEF PosLaw
  <2> QED BY <2>4, <2>6, <2>7, <2>8, <2>9, <1>1, <1>2 DEF JournalOK, JournalLaw
<1> QED BY <1>3, <1>4, <1>5

LEMMA CloseFact ==
  ASSUME NEW s \in Seq(Events), NEW id \in Coroutines, NEW r \in Closings,
         NEW t, t = Close(id, r, s)
  PROVE  /\ t \in Seq(Events) /\ Len(t) \in {Len(s), Len(s) + 1}
         /\ \A m \in 1 .. Len(s) : t[m] = s[m]
         /\ \A m \in Len(s) + 1 .. Len(t) : t[m] = CloseEvent(id, r) /\ PreClose(id) = "none"
         /\ PreClose(id) = "none" => Len(t) = Len(s) + 1
<1>1. CASE PreClose(id) = "none"
  <2>1. t = Append(s, CloseEvent(id, r)) /\ CloseEvent(id, r) \in Events
    BY <1>1, EventFacts DEF Close
  <2>2. /\ t \in Seq(Events) /\ Len(t) = Len(s) + 1 /\ t[Len(s) + 1] = CloseEvent(id, r)
        /\ \A m \in 1 .. Len(s) : t[m] = s[m]
    BY <2>1, AppendFact
  <2> QED BY <2>2, <1>1
<1>2. CASE PreClose(id) # "none"
  BY <1>2 DEF Close
<1> QED BY <1>1, <1>2

\* A task and then its resource are closed.
LEMMA ClosesLaw ==
  ASSUME TypeOK, UNCHANGED <<program, old, pos>>, NEW i \in Steps, NEW r \in Closings,
         stream' = Close(Res(i), r, TaskHalted(i, stream)), task' = Halting(i),
         child[i].phase \notin {"unborn", "closed", "dead"}, ClosedNow(i)'
  PROVE  /\ JournalOK' /\ JournalLaw
         /\ task[i] = "running" => IsClosed(Task(i))'
<1>0. PICK mid : mid = TaskHalted(i, stream) OBVIOUS
<1>1. /\ Len(stream) \in Nat /\ stream \in Seq(Events) /\ old \in 0 .. Len(stream)
      /\ pos \in [Ids -> Nat] /\ Events' = Events /\ Ids' = Ids
      /\ \A m \in 1 .. Len(stream) : stream[m] \in Events
      /\ task \in [Steps -> {"unborn", "running", "ended", "halted"}]
  BY SameProgram DEF TypeOK
<1>2. /\ mid \in Seq(Events) /\ Len(mid) \in {Len(stream), Len(stream) + 1}
      /\ \A m \in 1 .. Len(stream) : mid[m] = stream[m]
      /\ \A m \in Len(stream) + 1 .. Len(mid) :
           /\ mid[m] = CloseEvent(Task(i), "cancelled") /\ PreClose(Task(i)) = "none"
           /\ task[i] = "running"
      /\ task[i] = "running" /\ PreClose(Task(i)) = "none" => Len(mid) = Len(stream) + 1
  <2>1. CASE task[i] = "running"
    <3>1. mid = Close(Task(i), "cancelled", stream) BY <1>0, <2>1 DEF TaskHalted
    <3>2. "cancelled" \in Closings /\ Task(i) \in Coroutines BY IdFacts DEF Closings
    <3>3. /\ mid \in Seq(Events) /\ Len(mid) \in {Len(stream), Len(stream) + 1}
          /\ \A m \in 1 .. Len(stream) : mid[m] = stream[m]
          /\ \A m \in Len(stream) + 1 .. Len(mid) :
               mid[m] = CloseEvent(Task(i), "cancelled") /\ PreClose(Task(i)) = "none"
          /\ PreClose(Task(i)) = "none" => Len(mid) = Len(stream) + 1
      <4>1. stream \in Seq(Events) BY <1>1
      <4>2. PICK r0 : r0 = "cancelled" OBVIOUS
      <4>3. mid = Close(Task(i), r0, stream) /\ r0 \in Closings /\ Task(i) \in Coroutines
        BY <3>1, <3>2, <4>2
      <4>4. mid \in Seq(Events) /\ Len(mid) \in {Len(stream), Len(stream) + 1}
        BY <4>1, <4>3, CloseFact, SMT
      <4>5. \A m \in 1 .. Len(stream) : mid[m] = stream[m]
        BY <4>1, <4>3, CloseFact, SMT
      <4>6. \A m \in Len(stream) + 1 .. Len(mid) :
              mid[m] = CloseEvent(Task(i), r0) /\ PreClose(Task(i)) = "none"
        BY <4>1, <4>3, CloseFact, SMT
      <4>7. PreClose(Task(i)) = "none" => Len(mid) = Len(stream) + 1
        BY <4>1, <4>3, CloseFact, SMT
      <4> QED BY <4>2, <4>4, <4>5, <4>6, <4>7
    <3> QED BY <3>3, <2>1
  <2>2. CASE task[i] # "running"
    BY <1>0, <2>2, <1>1 DEF TaskHalted
  <2> QED BY <2>1, <2>2
<1>3. stream' = Close(Res(i), r, mid) BY <1>0
<1>4. /\ stream' \in Seq(Events) /\ Len(stream') \in {Len(mid), Len(mid) + 1}
      /\ \A m \in 1 .. Len(mid) : stream'[m] = mid[m]
      /\ \A m \in Len(mid) + 1 .. Len(stream') : stream'[m] = CloseEvent(Res(i), r) /\ PreClose(Res(i)) = "none"
  <2>1. Res(i) \in Coroutines /\ mid \in Seq(Events) BY <1>2, IdFacts
  <2> QED BY <2>1, <1>3, CloseFact, SMT
<1>5. Kept BY <1>1, <1>2, <1>4 DEF Kept
<1>6. ASSUME NEW m \in Added
      PROVE  \/ /\ m = Len(stream) + 1 /\ m <= Len(mid) /\ stream'[m] = CloseEvent(Task(i), "cancelled")
                /\ PreClose(Task(i)) = "none" /\ task[i] = "running"
             \/ /\ m = Len(mid) + 1 /\ m = Len(stream') /\ stream'[m] = CloseEvent(Res(i), r)
                /\ PreClose(Res(i)) = "none"
  BY <1>1, <1>2, <1>4 DEF Added
<1>7. YieldLaw
  <2>1. \A m \in Added : stream'[m].type # "yield" BY <1>6, EventFacts
  <2> QED BY <2>1 DEF YieldLaw
<1>8. task'[i] # "running" /\ (task[i] = "running" => TaskOver(i)')
  BY <1>1 DEF Halting, TaskOver
<1>9. ASSUME NEW m \in Added, NEW id \in Coroutines, stream'[m].type = "close", stream'[m].id = id
      PROVE  /\ PreClose(id) = "none"
             /\ \A n \in Added : stream'[n].type = "close" /\ stream'[n].id = id => n = m
             /\ id = Caller => owner.at # "closed" /\ owner'.at = "closed"
             /\ \A j \in Steps :
                  /\ id = Res(j) => /\ child[j].phase \notin {"unborn", "closed", "dead"}
                                    /\ task'[j] # "running" /\ ClosedNow(j)'
                  /\ id = Task(j) => /\ task[j] = "running" /\ TaskOver(j)'
                                     /\ \A n \in Len(stream) + 1 .. m :
                                          ~(stream'[n].type = "close" /\ stream'[n].id = Res(j))
  <2>1. CASE id = Task(i)
    <3>1. m = Len(stream) + 1 /\ PreClose(id) = "none" /\ task[i] = "running"
      BY <1>6, <1>9, <2>1, EventFacts, IdFacts
    <3>2. \A n \in Added : stream'[n].id = id => n = m
      BY <3>1, <2>1, <1>6, EventFacts, IdFacts
    <3>3. \A j \in Steps : id = Task(j) => j = i BY <2>1, IdFacts
    <3>4. id # Caller /\ \A j \in Steps : id # Res(j) BY <2>1, IdFacts
    <3>5. \A n \in Len(stream) + 1 .. m : n = m BY <3>1, <1>1
    <3> QED BY <3>1, <3>2, <3>3, <3>4, <3>5, <1>8, <1>9
  <2>2. CASE id = Res(i)
    <3>1. m = Len(stream') /\ PreClose(id) = "none"
      BY <1>6, <1>9, <2>2, EventFacts, IdFacts
    <3>2. \A n \in Added : stream'[n].id = id => n = m
      BY <3>1, <2>2, <1>6, EventFacts, IdFacts
    <3>3. \A j \in Steps : id = Res(j) => j = i BY <2>2, IdFacts
    <3>4. id # Caller /\ \A j \in Steps : id # Task(j) BY <2>2, IdFacts
    <3> QED BY <3>1, <3>2, <3>3, <3>4, <1>8
  <2>3. id = Task(i) \/ id = Res(i) BY <1>6, <1>9, EventFacts
  <2> QED BY <2>1, <2>2, <2>3
<1>10. CloseLaw BY <1>9 DEF CloseLaw
<1>11. PosLaw BY DEF PosLaw
<1>12. JournalOK'
  <2>1. old' \in 0 .. Len(stream') BY <1>1, <1>5 DEF Kept
  <2> QED BY <2>1, <1>1, <1>4 DEF JournalOK
<1>13. ASSUME task[i] = "running" PROVE IsClosed(Task(i))'
  <2>1. CASE PreClose(Task(i)) = "none"
    <3>1. Len(mid) = Len(stream) + 1 BY <1>13, <2>1, <1>2
    <3>2. stream'[Len(mid)] = CloseEvent(Task(i), "cancelled") /\ Len(mid) \in 1 .. Len(stream')
      BY <3>1, <1>1, <1>2, <1>4
    <3> QED BY <3>2 DEF IsClosed, Journaled, Closings, CloseEvent
  <2>2. CASE PreClose(Task(i)) # "none"
    <3>1. IsClosed(Task(i)) BY <2>2, PreClosedIsClosed
    <3> QED BY <3>1, <1>1, <1>5 DEF IsClosed, Journaled, Kept, CloseEvent
  <2> QED BY <2>1, <2>2
<1> QED BY <1>5, <1>7, <1>10, <1>11, <1>12, <1>13 DEF JournalLaw

\* One coroutine is closed: the owner, or a task that ends.
LEMMA CloseLawOfOne ==
  ASSUME TypeOK, UNCHANGED <<program, old, pos>>, NEW id \in Coroutines, NEW r \in Closings,
         stream' = Close(id, r, stream),
         \A i \in Steps : id # Res(i),
         id = Caller => owner.at # "closed" /\ owner'.at = "closed",
         \A i \in Steps : id = Task(i) => task[i] = "running" /\ TaskOver(i)'
  PROVE  JournalOK' /\ JournalLaw /\ IsClosed(id)'
<1>1. /\ Len(stream) \in Nat /\ stream \in Seq(Events) /\ old \in 0 .. Len(stream)
      /\ pos \in [Ids -> Nat] /\ Events' = Events /\ Ids' = Ids
  BY SameProgram DEF TypeOK
<1>2. /\ stream' \in Seq(Events) /\ Len(stream') \in {Len(stream), Len(stream) + 1}
      /\ \A m \in 1 .. Len(stream) : stream'[m] = stream[m]
  <2>1. stream \in Seq(Events) BY <1>1
  <2> QED BY <2>1, CloseFact, SMT
<1>3. /\ \A m \in Added : stream'[m] = CloseEvent(id, r) /\ PreClose(id) = "none"
      /\ PreClose(id) = "none" => Len(stream') = Len(stream) + 1
  <2>1. stream \in Seq(Events) BY <1>1
  <2> QED BY <2>1, CloseFact, SMT DEF Added
<1>4. \A m \in Added : m = Len(stream) + 1 BY <1>1, <1>2 DEF Added
<1>5. Kept BY <1>1, <1>2 DEF Kept
<1>6. YieldLaw
  <2>1. \A m \in Added : stream'[m].type # "yield" BY <1>3, EventFacts
  <2> QED BY <2>1 DEF YieldLaw
<1>7. CloseLaw
  <2>1. \A m \in Added : stream'[m].id = id BY <1>3, EventFacts
  <2>2. ASSUME NEW m \in Added, NEW n \in Len(stream) + 1 .. m PROVE n \in Added
    BY <1>1, <1>2, <1>4 DEF Added
  <2>3. \A n \in Added, i \in Steps : stream'[n].id # Res(i) BY <2>1
  <2>4. ASSUME NEW m \in Added
        PROVE  \A i \in Steps : \A n \in Len(stream) + 1 .. m : stream'[n].id # Res(i)
    BY <2>2, <2>3
  <2> QED BY <2>1, <2>4, <1>3, <1>4 DEF CloseLaw
<1>8. PosLaw BY DEF PosLaw
<1>9. JournalOK'
  <2>1. old' \in 0 .. Len(stream') BY <1>1, <1>5 DEF Kept
  <2> QED BY <2>1, <1>1, <1>2 DEF JournalOK
<1>10. IsClosed(id)'
  <2>1. CASE PreClose(id) = "none"
    <3>1. Len(stream) + 1 \in Added /\ Len(stream) + 1 \in 1 .. Len(stream')
      BY <2>1, <1>1, <1>3 DEF Added
    <3> QED BY <3>1, <1>3 DEF IsClosed, Journaled, CloseEvent
  <2>2. CASE PreClose(id) # "none"
    <3>1. IsClosed(id) BY <2>2, PreClosedIsClosed
    <3> QED BY <3>1, <1>1, <1>5 DEF IsClosed, Journaled, Kept, CloseEvent
  <2> QED BY <2>1, <2>2
<1> QED BY <1>5, <1>6, <1>7, <1>8, <1>9, <1>10 DEF JournalLaw

-----------------------------------------------------------------------------
(* Every step of a run is lawful *)

LEMMA ProgramFacts ==
  ASSUME TypeOK
  PROVE  /\ Len(program.script) \in Nat /\ program.catches \in BOOLEAN
         /\ program.script \in Seq(Ops) /\ program.body \in [Steps -> Bodies]
         /\ \A i \in Steps : program.body[i].spawns \in BOOLEAN /\ program.script[i] \in Ops
<1>1. program \in Programs BY DEF TypeOK
<1>2. program.script \in Seq(Ops) /\ program.catches \in BOOLEAN
      /\ program.body \in [1 .. Len(program.script) -> Bodies]
  BY <1>1, ResourceBounds
<1> QED BY <1>2 DEF Steps, Bodies

\* Steps that touch neither the children nor their tasks.
LEMMA OwnerSteps ==
  ASSUME TypeOK, UNCHANGED <<program, old, child, task>>, JournalOK', JournalLaw, OwnerOK',
         owner.at = "closed" => owner'.at = "closed",
         \/ owner'.pc > owner.pc
         \/ owner'.pc = owner.pc /\ (owner'.at = "op" => owner.at = "op")
  PROVE  TypeOK' /\ (TaskInv => Lawful)
<1>1. TypeOK'
  <2>1. program' \in Programs /\ ChildOK' /\ TaskOK'
    BY SameProgram DEF TypeOK, ChildOK, TaskOK
  <2> QED BY <2>1, TypeParts
<1>2. ASSUME TaskInv PROVE MemoryLaw
  BY <1>2 DEF MemoryLaw, TaskInv, ClosedNow, TaskOver
<1> QED BY <1>1, <1>2 DEF Lawful, JournalLaw

LEMMA OwnerMoves ==
  ASSUME TypeOK, program' = program
  PROVE  /\ owner.pc \in Steps /\ owner' = Advance => OwnerOK'
         /\ \A outcome \in Results : owner' = Leave(outcome) => OwnerOK'
         /\ \A at \in {"op", "acquiring", "answering", "teardown", "halting", "closed"} :
              /\ owner' = [owner EXCEPT !.at = at]
              /\ at \in {"acquiring", "answering"} => owner.pc \in Steps
              => OwnerOK'
<1>1. /\ Steps' = Steps /\ Len(program.script) \in Nat /\ Steps = 1 .. Len(program.script)
      /\ owner \in [pc : 1 .. Len(program.script) + 1, outcome : Results, broken : BOOLEAN,
                    at : {"op", "acquiring", "answering", "teardown", "halting", "closed"},
                    resources : Seq(Steps)]
  BY SameProgram, ProgramFacts DEF TypeOK, Steps
<1>2. ASSUME owner.pc \in Steps, owner' = Advance PROVE OwnerOK'
  <2>1. owner' = [owner EXCEPT !.pc = owner.pc + 1, !.at = "op"] BY <1>2 DEF Advance
  <2>2. owner.pc + 1 \in 1 .. Len(program.script) + 1 BY <1>1, <1>2
  <2> QED BY <2>1, <2>2, <1>1 DEF OwnerOK
<1>3. ASSUME NEW outcome \in Results, owner' = Leave(outcome) PROVE OwnerOK'
  <2>1. owner' = [owner EXCEPT !.at = "teardown", !.outcome = outcome] BY <1>3 DEF Leave
  <2> QED BY <2>1, <1>1 DEF OwnerOK
<1>4. ASSUME NEW at \in {"op", "acquiring", "answering", "teardown", "halting", "closed"},
             owner' = [owner EXCEPT !.at = at],
             at \in {"acquiring", "answering"} => owner.pc \in Steps
      PROVE  OwnerOK'
  BY <1>1, <1>4 DEF OwnerOK
<1> QED BY <1>2, <1>3, <1>4

LEMMA PerformStep ==
  ASSUME TypeOK, TaskInv, Perform \/ Answer
  PROVE  TypeOK' /\ Lawful
<1>1. PICK result \in Results :
        /\ Effect(Caller, result)
        /\ owner' = IF result = "ok" THEN Advance ELSE Leave(result)
  BY DEF Perform, Answer
<1>2. UNCHANGED <<program, old, child, task>> /\ owner.at \in {"op", "answering"} /\ (Perform => owner.pc \in Steps)
  BY DEF Perform, Answer, AtOp
<1>3. JournalOK' /\ JournalLaw BY <1>1, <1>2, EffectLaw, IdFacts
<1>4. OwnerOK'
  <2>1. owner.pc \in Steps BY <1>2 DEF TypeOK, Perform, Answer, AtOp
  <2>2. /\ owner' \in {Advance, Leave(result)} /\ Steps' = Steps
    BY <1>1, <1>2, SameProgram
  <2> QED BY <2>1, <2>2, <1>1, <1>2, OwnerMoves
<1>5. owner.at # "closed" BY <1>2
<1>6. owner'.pc > owner.pc \/ (owner'.pc = owner.pc /\ owner'.at # "op")
  BY <1>1 DEF Advance, Leave, TypeOK
<1> QED BY <1>2, <1>3, <1>4, <1>5, <1>6, OwnerSteps

LEMMA OwnerMoveSteps ==
  ASSUME TypeOK, TaskInv,
         Provided \/ Refused \/ Return \/ CleanedUp \/ Halt \/ ScopeFails
  PROVE  TypeOK' /\ Lawful
<1>1. UNCHANGED <<program, stream, old, pos, child, task>> /\ owner.at # "closed"
  BY DEF Provided, Refused, Return, CleanedUp, Halt, ScopeFails, Suspended, AtOp, Live, TypeOK
<1>2. JournalOK' /\ JournalLaw BY <1>1, StillLaw
<1>3. /\ Steps' = Steps /\ owner \in [pc : 1 .. Len(program.script) + 1, outcome : Results, broken : BOOLEAN,
                    at : {"op", "acquiring", "answering", "teardown", "halting", "closed"},
                    resources : Seq(Steps)]
      /\ owner.at \in {"acquiring", "answering"} => owner.pc \in Steps
      /\ Len(program.script) \in Nat /\ Steps = 1 .. Len(program.script)
  BY <1>1, SameProgram, ProgramFacts DEF TypeOK, Steps
<1>4. OwnerOK'
  <2>1. CASE Provided
    <3>1. owner.pc \in Steps BY <2>1, <1>3 DEF Provided
    <3>2. owner' = [AfterAcquisition EXCEPT !.resources = Append(@, owner.pc)]
      BY <2>1 DEF Provided, Register
    <3>3. Append(owner.resources, owner.pc) \in Seq(Steps)
      <4>1. owner.resources \in Seq(Steps) BY <1>3
      <4> QED BY <4>1, <3>1, AppendFact
    <3>4. \/ owner' = [owner EXCEPT !.at = "answering", !.resources = Append(owner.resources, owner.pc)]
          \/ owner' = [owner EXCEPT !.pc = owner.pc + 1, !.at = "op",
                                    !.resources = Append(owner.resources, owner.pc)]
      <4>1. CASE Op = "inline"
        <5>1. AfterAcquisition = [owner EXCEPT !.at = "answering"] BY <4>1 DEF AfterAcquisition
        <5> QED BY <5>1, <3>2, <1>3
      <4>2. CASE Op # "inline"
        <5>1. AfterAcquisition = [owner EXCEPT !.pc = owner.pc + 1, !.at = "op"]
          BY <4>2 DEF AfterAcquisition, Advance
        <5> QED BY <5>1, <3>2, <1>3
      <4> QED BY <4>1, <4>2
    <3>5. owner.pc + 1 \in 1 .. Len(program.script) + 1 BY <3>1, <1>3
    <3> QED BY <3>1, <3>3, <3>4, <3>5, <1>1, <1>3 DEF OwnerOK
  <2>2. CASE Refused
    <3>1. owner.pc \in Steps BY <2>2, <1>3 DEF Refused
    <3>2. owner' \in {[owner EXCEPT !.at = "answering"], Advance, Leave("error")}
      BY <2>2 DEF Refused, AfterAcquisition
    <3>3. "error" \in Results BY DEF Results
    <3> QED BY <3>1, <3>2, <3>3, <1>1, OwnerMoves
  <2>3. CASE Return
    <3>1. owner' = Leave("ok") /\ "ok" \in Results BY <2>3 DEF Return, Results
    <3> QED BY <3>1, <1>1, OwnerMoves
  <2>4. CASE CleanedUp
    <3>1. owner.resources \in Seq(Steps) /\ owner.resources # <<>> /\ owner.at = "teardown"
          /\ owner' = [owner EXCEPT !.resources = Front(owner.resources)]
      BY <2>4, <1>3 DEF CleanedUp
    <3>2. Front(owner.resources) \in Seq(Steps) BY <3>1, FrontFact
    <3> QED BY <3>1, <3>2, <1>1, <1>3 DEF OwnerOK
  <2>5. CASE Halt \/ ScopeFails
    <3>1. owner' = [owner EXCEPT !.at = "halting"] BY <2>5 DEF Halt, ScopeFails
    <3> QED BY <3>1, <1>1, OwnerMoves
  <2> QED BY <2>1, <2>2, <2>3, <2>4, <2>5
<1>5. owner'.pc > owner.pc \/ (owner'.pc = owner.pc /\ owner'.at # "op")
  <2>1. owner.pc + 1 > owner.pc BY <1>3
  <2>2. CASE Provided
    BY <2>1, <2>2, <1>3 DEF Provided, Register, AfterAcquisition, Advance
  <2>3. CASE Refused
    BY <2>1, <2>3, <1>3 DEF Refused, AfterAcquisition, Advance, Leave
  <2>4. CASE Return \/ CleanedUp \/ Halt \/ ScopeFails
    BY <2>4, <1>3 DEF Return, CleanedUp, Halt, ScopeFails, Leave
  <2> QED BY <2>2, <2>3, <2>4
<1> QED BY <1>1, <1>2, <1>4, <1>5, OwnerSteps

LEMMA CloseOwnerStep ==
  ASSUME TypeOK, TaskInv, CloseOwner \/ OwnerHalted
  PROVE  TypeOK' /\ Lawful
<1>1. /\ UNCHANGED <<program, old, pos, child, task>> /\ owner.at # "closed"
      /\ owner' = [owner EXCEPT !.at = "closed"]
      /\ \E r \in Closings : stream' = Close(Caller, r, stream)
  <2>1. "cancelled" \in Closings /\ owner.outcome \in Closings
    BY DEF Closings, TypeOK
  <2> QED BY <2>1 DEF CloseOwner, OwnerHalted
<1>2. owner'.at = "closed" BY <1>1 DEF TypeOK
<1>3. PICK r \in Closings : stream' = Close(Caller, r, stream) BY <1>1
<1>4. JournalOK' /\ JournalLaw
  <2>1. Caller \in Coroutines /\ \A i \in Steps : Caller # Res(i) /\ Caller # Task(i)
    BY IdFacts
  <2> QED BY <2>1, <1>1, <1>2, <1>3, CloseLawOfOne
<1>5. OwnerOK' BY <1>1, OwnerMoves
<1>6. owner'.pc = owner.pc /\ owner'.at # "op" BY <1>1 DEF TypeOK
<1> QED BY <1>1, <1>4, <1>5, <1>6, OwnerSteps

ChildRecord == [phase : Phases, result : Closings \union {"none"}]

\* A step of a child, and of the task of its init phase.
LEMMA ChildSteps ==
  ASSUME TypeOK, TaskInv, UNCHANGED <<program, old>>, JournalOK', JournalLaw,
         NEW i \in Steps, NEW c \in ChildRecord, NEW t \in {"unborn", "running", "ended", "halted"},
         child' = [child EXCEPT ![i] = c], task' = [task EXCEPT ![i] = t],
         owner' \in {owner, [owner EXCEPT !.broken = TRUE]},
         child[i].phase # "unborn", c.phase # "unborn",
         ClosedNow(i) => c.phase \in {"closed", "dead"},
         TaskOver(i) => t \in {"ended", "halted"},
         t = "running" => task[i] = "running" /\ c.phase \in InitPhases,
         program.body[i].spawns /\ t # "running" => task[i] # "running" \/ IsClosed(Task(i))'
  PROVE  TypeOK' /\ Lawful
<1>1. /\ Steps' = Steps
      /\ child \in [Steps -> ChildRecord] /\ task \in [Steps -> {"unborn", "running", "ended", "halted"}]
      /\ owner \in [pc : 1 .. Len(program.script) + 1, outcome : Results, broken : BOOLEAN,
                    at : {"op", "acquiring", "answering", "teardown", "halting", "closed"},
                    resources : Seq(Steps)]
      /\ owner.at \in {"acquiring", "answering"} => owner.pc \in Steps
  BY SameProgram DEF TypeOK, ChildRecord
<1>2. /\ owner'.pc = owner.pc /\ owner'.at = owner.at /\ OwnerOK'
  BY <1>1 DEF OwnerOK
<1>3. /\ child' \in [Steps -> ChildRecord] /\ child'[i] = c
      /\ \A j \in Steps : j # i => child'[j] = child[j]
      /\ task' \in [Steps -> {"unborn", "running", "ended", "halted"}] /\ task'[i] = t
      /\ \A j \in Steps : j # i => task'[j] = task[j]
  BY <1>1
<1>4. TypeOK'
  <2>1. ChildOK' /\ TaskOK' /\ program' \in Programs
    BY <1>1, <1>3 DEF ChildOK, TaskOK, ChildRecord, TypeOK
  <2> QED BY <2>1, <1>2, TypeParts
<1>5. ASSUME NEW j \in Steps
      PROVE  /\ child'[j].phase # "unborn" => child[j].phase # "unborn"
             /\ ClosedNow(j) => ClosedNow(j)'
             /\ TaskOver(j) => TaskOver(j)'
             /\ task'[j] = "running" => task[j] = "running" /\ child'[j].phase \in InitPhases
             /\ child'[j].phase = "unborn" => child[j].phase = "unborn" /\ task'[j] = task[j]
             /\ program.body[j].spawns /\ child'[j].phase # "unborn" /\ task'[j] # "running" =>
                  \/ child[j].phase # "unborn" /\ task[j] # "running"
                  \/ IsClosed(Task(j))'
  <2>1. CASE j = i BY <2>1, <1>3 DEF ClosedNow, TaskOver
  <2>2. CASE j # i
    <3>1. child'[j] = child[j] /\ task'[j] = task[j] BY <2>2, <1>3
    <3>2. task[j] = "running" => child[j].phase \in InitPhases BY DEF TaskInv
    <3> QED BY <3>1, <3>2 DEF ClosedNow, TaskOver
  <2> QED BY <2>1, <2>2
<1>6. MemoryLaw BY <1>2, <1>5 DEF MemoryLaw
<1> QED BY <1>4, <1>6 DEF Lawful, JournalLaw

\* A child whose phase is all that changes.
LEMMA PhaseSteps ==
  ASSUME TypeOK, TaskInv, UNCHANGED <<program, old, task>>, JournalOK', JournalLaw,
         NEW i \in Steps, NEW phase \in Phases,
         child' = [child EXCEPT ![i].phase = phase],
         owner' = owner,
         child[i].phase \notin {"unborn", "closed", "dead"}, phase # "unborn",
         task[i] = "running" => phase \in InitPhases
  PROVE  TypeOK' /\ Lawful
<1>1. child \in [Steps -> ChildRecord] /\ task \in [Steps -> {"unborn", "running", "ended", "halted"}]
  BY DEF TypeOK, ChildRecord
<1>2. PICK c : c = [child[i] EXCEPT !.phase = phase] OBVIOUS
<1>3. c \in ChildRecord /\ c.phase = phase BY <1>1, <1>2 DEF ChildRecord
<1>4. child' = [child EXCEPT ![i] = c] BY <1>1, <1>2
<1>5. task' = [task EXCEPT ![i] = task[i]] /\ task[i] \in {"unborn", "running", "ended", "halted"}
  BY <1>1
<1>6. ~ ClosedNow(i) BY DEF ClosedNow
<1>7. TaskOver(i) => task[i] \in {"ended", "halted"} BY DEF TaskOver
<1> QED BY <1>3, <1>4, <1>5, <1>6, <1>7, ChildSteps, ZenonT(60)

\* A child that is closed, with its task.
LEMMA ClosedSteps ==
  ASSUME TypeOK, TaskInv, UNCHANGED <<program, old, pos>>, NEW i \in Steps, NEW r \in Closings,
         NEW c \in ChildRecord, c.phase \in {"closed", "dead"},
         stream' = Close(Res(i), r, TaskHalted(i, stream)), task' = Halting(i),
         child' = [child EXCEPT ![i] = c],
         owner' \in {owner, [owner EXCEPT !.broken = TRUE]},
         child[i].phase \notin {"unborn", "closed", "dead"}
  PROVE  TypeOK' /\ Lawful
<1>1. child \in [Steps -> ChildRecord] /\ task \in [Steps -> {"unborn", "running", "ended", "halted"}]
  BY DEF TypeOK, ChildRecord
<1>2. child'[i] = c BY <1>1
<1>3. ClosedNow(i)' BY <1>2 DEF ClosedNow
<1>4. JournalOK' /\ JournalLaw /\ (task[i] = "running" => IsClosed(Task(i))')
  BY <1>3, ClosesLaw
<1>5. PICK t : t = IF task[i] = "running" THEN "halted" ELSE task[i] OBVIOUS
<1>6. task' = [task EXCEPT ![i] = t] /\ t \in {"unborn", "ended", "halted"}
  BY <1>1, <1>5 DEF Halting
<1>7. TaskOver(i) => t \in {"ended", "halted"} BY <1>5 DEF TaskOver
<1>8. ~ ClosedNow(i) /\ c.phase # "unborn" BY DEF ClosedNow
<1> QED BY <1>4, <1>6, <1>7, <1>8, ChildSteps

LEMMA AcquireStep ==
  ASSUME TypeOK, TaskInv, BornInv, Acquire
  PROVE  TypeOK' /\ Lawful
<1>0. PICK i \in Steps : i = owner.pc BY DEF Acquire, AtOp
<1>1. /\ UNCHANGED <<program, stream, old, pos>> /\ owner.at = "op" /\ i = owner.pc
      /\ owner' = [owner EXCEPT !.at = "acquiring"]
  BY <1>0 DEF Acquire, AtOp
<1>2. child[i].phase = "unborn" /\ task[i] = "unborn" BY <1>1 DEF BornInv, TaskInv
<1>3. /\ Steps' = Steps /\ child \in [Steps -> ChildRecord]
      /\ task \in [Steps -> {"unborn", "running", "ended", "halted"}]
  BY <1>1, SameProgram DEF TypeOK, ChildRecord
<1>4. PICK c : c = IF PreClose(Res(i)) = "cancelled" THEN Closed("cancelled")
                   ELSE [child[i] EXCEPT !.phase = "init"] OBVIOUS
<1>5. PICK t : t = IF PreClose(Res(i)) # "cancelled" /\ program.body[i].spawns
                      /\ PreClose(Task(i)) # "cancelled"
                     THEN "running" ELSE "unborn" OBVIOUS
<1>6. child' = [child EXCEPT ![i] = c] /\ task' = [task EXCEPT ![i] = t]
  BY <1>1, <1>2, <1>3, <1>4, <1>5 DEF Acquire
<1>7. c \in ChildRecord /\ c.phase \in {"closed", "init"} /\ t \in {"running", "unborn"}
      /\ (t = "running" => c.phase = "init" /\ program.body[i].spawns)
  BY <1>3, <1>4, <1>5, <1>1 DEF ChildRecord, Closed, Phases, Closings
<1>8. /\ child' \in [Steps -> ChildRecord] /\ child'[i] = c
      /\ \A j \in Steps : j # i => child'[j] = child[j]
      /\ task' \in [Steps -> {"unborn", "running", "ended", "halted"}] /\ task'[i] = t
      /\ \A j \in Steps : j # i => task'[j] = task[j]
  BY <1>1, <1>3, <1>6, <1>7
<1>9. JournalOK' /\ JournalLaw BY <1>1, StillLaw
<1>10. TypeOK'
  <2>1. OwnerOK' BY <1>1, OwnerMoves
  <2>2. ChildOK' /\ TaskOK' /\ program' \in Programs
    BY <1>1, <1>3, <1>8 DEF ChildOK, TaskOK, ChildRecord, TypeOK
  <2> QED BY <2>1, <2>2, <1>9, TypeParts
<1>11. ASSUME program.body[i].spawns, t # "running" PROVE IsClosed(Task(i))'
  <2>1. CASE PreClose(Res(i)) = "cancelled"
    <3>1. IsClosed(Res(i)) BY <2>1, PreClosedIsClosed
    <3>2. IsClosed(Task(i)) BY <3>1, <1>1, <1>11 DEF TaskInv
    <3> QED BY <3>2, <1>1 DEF IsClosed, Journaled, CloseEvent
  <2>2. CASE PreClose(Res(i)) # "cancelled"
    <3>1. PreClose(Task(i)) = "cancelled" BY <2>2, <1>5, <1>11
    <3>2. IsClosed(Task(i)) BY <3>1, PreClosedIsClosed
    <3> QED BY <3>2, <1>1 DEF IsClosed, Journaled, CloseEvent
  <2> QED BY <2>1, <2>2
<1>12. owner'.pc = owner.pc /\ owner'.at = "acquiring" BY <1>1 DEF TypeOK
<1>13. ASSUME NEW j \in Steps
      PROVE  /\ child'[j].phase # "unborn" => child[j].phase # "unborn" \/ (j = owner'.pc /\ owner'.at # "op")
             /\ ClosedNow(j) => ClosedNow(j)'
             /\ TaskOver(j) => TaskOver(j)'
             /\ task'[j] = "running" =>
                  \/ task[j] = "running" /\ child'[j].phase \in InitPhases
                  \/ child'[j].phase = "init" /\ program.body[j].spawns
             /\ child'[j].phase = "unborn" => child[j].phase = "unborn" /\ task'[j] = task[j]
             /\ program.body[j].spawns /\ child'[j].phase # "unborn" /\ task'[j] # "running" =>
                  \/ child[j].phase # "unborn" /\ task[j] # "running"
                  \/ IsClosed(Task(j))'
  <2>1. CASE j = i
    BY <2>1, <1>1, <1>2, <1>7, <1>8, <1>11, <1>12 DEF ClosedNow, TaskOver
  <2>2. CASE j # i
    <3>1. child'[j] = child[j] /\ task'[j] = task[j] BY <2>2, <1>8
    <3>2. task[j] = "running" => child[j].phase \in InitPhases BY DEF TaskInv
    <3> QED BY <3>1, <3>2 DEF ClosedNow, TaskOver
  <2> QED BY <2>1, <2>2
<1>14. MemoryLaw BY <1>12, <1>13, <1>1 DEF MemoryLaw
<1> QED BY <1>1, <1>9, <1>10, <1>14 DEF Lawful, JournalLaw

LEMMA SignalStep ==
  ASSUME TypeOK, TaskInv, Signal
  PROVE  TypeOK' /\ Lawful
<1>1. owner.resources \in Seq(Steps) /\ owner.resources # <<>> BY DEF Signal, TypeOK
<1>2. PICK i \in Steps : i = Last(owner.resources) BY <1>1, FrontFact
<1>3. /\ child[i].phase = "provided" /\ child' = [child EXCEPT ![i].phase = "cleanup"]
      /\ UNCHANGED <<program, stream, old, pos, owner, task>>
  BY <1>2 DEF Signal
<1>4. JournalOK' /\ JournalLaw BY <1>3, StillLaw
<1>5. task[i] # "running" BY <1>3 DEF TaskInv, InitPhases
<1>6. "cleanup" \in Phases BY DEF Phases
<1> QED BY <1>3, <1>4, <1>5, <1>6, PhaseSteps

LEMMA EffectSteps ==
  ASSUME TypeOK, TaskInv, NEW i \in Steps, InitEffect(i) \/ CleanupEffect(i)
  PROVE  TypeOK' /\ Lawful
<1>1. /\ UNCHANGED <<program, old, owner, task>>
      /\ child[i].phase \in {"init", "cleanup"}
  BY DEF InitEffect, CleanupEffect
<1>2. \E result \in Results, phase \in Phases :
        /\ Effect(Res(i), result) /\ child' = [child EXCEPT ![i].phase = phase]
        /\ phase # "unborn" /\ (child[i].phase = "init" => phase \in InitPhases)
  <2>1. CASE InitEffect(i)
    <3>1. PICK result \in Results :
            /\ Effect(Res(i), result)
            /\ child' = [child EXCEPT ![i].phase =
                 IF result = "ok" /\ program.body[i].init = "provide" THEN "providing"
                 ELSE IF result = "diverged" THEN "fatal" ELSE "failing"]
      BY <2>1 DEF InitEffect
    <3>2. PICK phase : phase = IF result = "ok" /\ program.body[i].init = "provide" THEN "providing"
                               ELSE IF result = "diverged" THEN "fatal" ELSE "failing"
      OBVIOUS
    <3>3. phase \in Phases /\ phase # "unborn" /\ phase \in InitPhases
      BY <3>2 DEF Phases, InitPhases
    <3> QED BY <3>1, <3>2, <3>3
  <2>2. CASE CleanupEffect(i)
    <3>1. PICK result \in Results :
            /\ Effect(Res(i), result)
            /\ child' = [child EXCEPT ![i].phase = IF result = "ok" THEN "cleaned" ELSE "spoilt"]
      BY <2>2 DEF CleanupEffect
    <3>2. PICK phase : phase = IF result = "ok" THEN "cleaned" ELSE "spoilt" OBVIOUS
    <3>3. phase \in Phases /\ phase # "unborn" /\ child[i].phase # "init"
      BY <2>2, <3>2 DEF Phases, CleanupEffect
    <3> QED BY <3>1, <3>2, <3>3
  <2> QED BY <2>1, <2>2
<1>3. PICK result \in Results, phase \in Phases :
        /\ Effect(Res(i), result) /\ child' = [child EXCEPT ![i].phase = phase]
        /\ phase # "unborn" /\ (child[i].phase = "init" => phase \in InitPhases)
  BY <1>2
<1>4. JournalOK' /\ JournalLaw BY <1>1, <1>3, EffectLaw, IdFacts
<1>5. task[i] = "running" => phase \in InitPhases
  BY <1>1, <1>3 DEF TaskInv, InitPhases
<1> QED BY <1>1, <1>3, <1>4, <1>5, PhaseSteps

LEMMA ProvideStep ==
  ASSUME TypeOK, TaskInv, NEW i \in Steps, Provide(i)
  PROVE  TypeOK' /\ Lawful
<1>1. /\ UNCHANGED <<program, old, pos, owner>> /\ child[i].phase = "providing"
      /\ stream' = TaskHalted(i, stream) /\ task' = Halting(i)
      /\ child' = [child EXCEPT ![i].phase = "provided"]
  BY DEF Provide
<1>2. child \in [Steps -> ChildRecord] /\ task \in [Steps -> {"unborn", "running", "ended", "halted"}]
  BY DEF TypeOK, ChildRecord
<1>3. PICK c : c = [child[i] EXCEPT !.phase = "provided"] OBVIOUS
<1>4. c \in ChildRecord /\ c.phase = "provided" /\ child' = [child EXCEPT ![i] = c]
  BY <1>1, <1>2, <1>3 DEF ChildRecord, Phases
<1>5. PICK t : t = IF task[i] = "running" THEN "halted" ELSE task[i] OBVIOUS
<1>6. task' = [task EXCEPT ![i] = t] /\ t \in {"unborn", "ended", "halted"}
  BY <1>1, <1>2, <1>5 DEF Halting
<1>7. ~ ClosedNow(i) /\ (TaskOver(i) => t \in {"ended", "halted"})
  BY <1>1, <1>5 DEF ClosedNow, TaskOver
<1>8. JournalOK' /\ JournalLaw /\ (task[i] = "running" => IsClosed(Task(i))')
  <2>1. CASE task[i] = "running"
    <3>1. stream' = Close(Task(i), "cancelled", stream) BY <1>1, <2>1 DEF TaskHalted
    <3>2. TaskOver(i)' BY <1>2, <1>5, <1>6, <2>1 DEF TaskOver
    <3>3. "cancelled" \in Closings /\ Task(i) \in Coroutines BY IdFacts DEF Closings
    <3>4. Task(i) # Caller /\ (\A j \in Steps : Task(i) # Res(j))
          /\ \A j \in Steps : Task(i) = Task(j) => j = i
      BY IdFacts
    <3>5. \A j \in Steps : Task(i) = Task(j) => task[j] = "running" /\ TaskOver(j)'
      BY <3>2, <3>4, <2>1
    <3>6. PICK r : r = "cancelled" OBVIOUS
    <3>7. stream' = Close(Task(i), r, stream) /\ r \in Closings BY <3>1, <3>3, <3>6
    <3> QED BY <3>3, <3>4, <3>5, <3>7, <1>1, CloseLawOfOne
  <2>2. CASE task[i] # "running"
    <3>1. stream' = stream BY <1>1, <2>2 DEF TaskHalted
    <3> QED BY <3>1, <1>1, <2>2, StillLaw
  <2> QED BY <2>1, <2>2
<1> QED BY <1>1, <1>4, <1>6, <1>7, <1>8, ChildSteps

LEMMA TaskEndsStep ==
  ASSUME TypeOK, TaskInv, NEW i \in Steps, TaskEnds(i)
  PROVE  TypeOK' /\ Lawful
<1>1. /\ UNCHANGED <<program, old, pos, owner>> /\ child[i].phase = "init" /\ task[i] = "running"
      /\ task' = [task EXCEPT ![i] = "ended"]
  BY DEF TaskEnds
<1>2. PICK result \in {"ok", "error"} :
        /\ stream' = Close(Task(i), result, stream)
        /\ child' = IF result = "ok" THEN child ELSE [child EXCEPT ![i].phase = "failing"]
  BY DEF TaskEnds
<1>3. child \in [Steps -> ChildRecord] /\ task \in [Steps -> {"unborn", "running", "ended", "halted"}]
  BY DEF TypeOK, ChildRecord
<1>4. PICK c : c = IF result = "ok" THEN child[i] ELSE [child[i] EXCEPT !.phase = "failing"]
  OBVIOUS
<1>5. c \in ChildRecord /\ c.phase \in InitPhases /\ c.phase # "unborn"
      /\ child' = [child EXCEPT ![i] = c]
  BY <1>1, <1>2, <1>3, <1>4 DEF ChildRecord, Phases, InitPhases
<1>6. ~ ClosedNow(i) BY <1>1 DEF ClosedNow
<1>7. JournalOK' /\ JournalLaw /\ IsClosed(Task(i))'
  <2>1. result \in Closings /\ Task(i) \in Coroutines BY IdFacts DEF Closings, Results
  <2>2. TaskOver(i)' BY <1>1, <1>3 DEF TaskOver
  <2>3. Task(i) # Caller /\ (\A j \in Steps : Task(i) # Res(j))
        /\ \A j \in Steps : Task(i) = Task(j) => j = i
    BY IdFacts
  <2>4. \A j \in Steps : Task(i) = Task(j) => task[j] = "running" /\ TaskOver(j)'
    BY <2>2, <2>3, <1>1
  <2> QED BY <2>1, <2>3, <2>4, <1>1, <1>2, CloseLawOfOne
<1>8. "ended" \in {"unborn", "running", "ended", "halted"} OBVIOUS
<1> QED BY <1>1, <1>5, <1>6, <1>7, <1>8, ChildSteps

LEMMA ClosingStep ==
  ASSUME TypeOK, TaskInv, NEW i \in Steps,
         \/ InitFails(i) \/ InitDiverges(i) \/ ChildHalted(i)
         \/ CleanupReturns(i) \/ CleanupEnds(i) \/ CleanupFails(i)
  PROVE  TypeOK' /\ Lawful
<1>1. task \in [Steps -> {"unborn", "running", "ended", "halted"}] BY DEF TypeOK
<1>2. /\ UNCHANGED <<program, old, pos>> /\ child[i].phase \notin {"unborn", "closed", "dead"}
      /\ owner' \in {owner, [owner EXCEPT !.broken = TRUE]}
  BY DEF InitFails, InitDiverges, ChildHalted, CleanupReturns, CleanupEnds, CleanupFails, CleanupDone, Alive
<1>3. /\ \A r \in Closings : Closed(r) \in ChildRecord /\ Closed(r).phase = "closed"
      /\ [phase |-> "dead", result |-> "error"] \in ChildRecord
      /\ "error" \in Closings /\ "cancelled" \in Closings /\ "ok" \in Closings
  BY DEF Closed, ChildRecord, Phases, Closings, Results
<1>4. \E r \in Closings, c \in ChildRecord :
        /\ stream' = Close(Res(i), r, TaskHalted(i, stream)) /\ task' = Halting(i)
        /\ child' = [child EXCEPT ![i] = c] /\ c.phase \in {"closed", "dead"}
  <2>1. CASE InitFails(i) BY <2>1, <1>3 DEF InitFails
  <2>2. CASE InitDiverges(i) BY <2>2, <1>3 DEF InitDiverges
  <2>3. CASE ChildHalted(i) BY <2>3, <1>3 DEF ChildHalted
  <2>4. CASE CleanupReturns(i) \/ CleanupEnds(i) \/ CleanupFails(i)
    <3>1. child[i].phase \in {"cleanup", "cleaned", "spoilt"} /\ task' = task
      BY <2>4 DEF CleanupReturns, CleanupEnds, CleanupFails
    <3>2. task[i] # "running" BY <3>1 DEF TaskInv, InitPhases
    <3>3. TaskHalted(i, stream) = stream BY <3>2 DEF TaskHalted
    <3>4. Halting(i) = task BY <3>2, <1>1 DEF Halting
    <3>5. \E r \in Closings : stream' = Close(Res(i), r, stream) /\ child' = [child EXCEPT ![i] = Closed(r)]
      BY <2>4, <1>3 DEF CleanupReturns, CleanupEnds, CleanupFails, CleanupDone
    <3> QED BY <3>1, <3>3, <3>4, <3>5, <1>3
  <2> QED BY <2>1, <2>2, <2>3, <2>4
<1>5. PICK r \in Closings, c \in ChildRecord :
        /\ stream' = Close(Res(i), r, TaskHalted(i, stream)) /\ task' = Halting(i)
        /\ child' = [child EXCEPT ![i] = c] /\ c.phase \in {"closed", "dead"}
  BY <1>4
<1> QED BY <1>2, <1>5, ClosedSteps

LEMMA WorkIsLawful ==
  ASSUME TypeOK, TaskInv, BornInv, Work \/ Halt
  PROVE  TypeOK' /\ Lawful
<1>1. CASE Perform \/ Answer BY <1>1, PerformStep
<1>2. CASE Provided \/ Refused \/ Return \/ CleanedUp \/ Halt \/ ScopeFails
  BY <1>2, OwnerMoveSteps
<1>3. CASE CloseOwner \/ OwnerHalted BY <1>3, CloseOwnerStep
<1>4. CASE Acquire BY <1>4, AcquireStep
<1>5. CASE Signal BY <1>5, SignalStep
<1>6. ASSUME NEW i \in Steps, \/ InitEffect(i) \/ Provide(i) \/ InitFails(i) \/ InitDiverges(i)
                              \/ TaskEnds(i) \/ CleanupReturns(i) \/ CleanupEffect(i)
                              \/ CleanupEnds(i) \/ CleanupFails(i) \/ ChildHalted(i)
      PROVE  TypeOK' /\ Lawful
  BY <1>6, EffectSteps, ProvideStep, TaskEndsStep, ClosingStep
<1> QED BY <1>1, <1>2, <1>3, <1>4, <1>5, <1>6 DEF Work

-----------------------------------------------------------------------------
(* The first state, a new run, and the theorem *)

LEMMA FreshFacts ==
  ASSUME NEW p \in Programs
  PROVE  /\ Len(p.script) \in Nat
         /\ \A S : S = 1 .. Len(p.script) =>
              /\ [pc |-> 1, at |-> "op", outcome |-> "ok", resources |-> <<>>, broken |-> FALSE] \in
                   [pc : 1 .. Len(p.script) + 1, outcome : Results, broken : BOOLEAN,
                    at : {"op", "acquiring", "answering", "teardown", "halting", "closed"},
                    resources : Seq(S)]
              /\ [pc |-> 1, at |-> "closed", outcome |-> "ok", resources |-> <<>>, broken |-> FALSE] \in
                   [pc : 1 .. Len(p.script) + 1, outcome : Results, broken : BOOLEAN,
                    at : {"op", "acquiring", "answering", "teardown", "halting", "closed"},
                    resources : Seq(S)]
<1>1. p.script \in Seq(Ops) BY ResourceBounds
<1>2. Len(p.script) \in Nat BY <1>1
<1>3. 1 \in 1 .. Len(p.script) + 1 BY <1>2
<1>4. "ok" \in Results BY DEF Results
<1>5. \A S : <<>> \in Seq(S) OBVIOUS
<1> QED BY <1>2, <1>3, <1>4, <1>5

LEMMA InitLifecycle ==
  ASSUME Init
  PROVE  LifecycleInv
<1>1. /\ program \in Programs /\ stream = <<>> /\ old = 0
      /\ pos = [id \in {<<"owner", 0>>} \union ({"resource"} \X Steps) |-> 0]
      /\ owner = [pc |-> 1, at |-> "op", outcome |-> "ok", resources |-> <<>>, broken |-> FALSE]
      /\ child = [i \in Steps |-> Unborn] /\ task = [i \in Steps |-> "unborn"]
  BY DEF Init, Fresh, Steps
<1>2. Len(program.script) \in Nat BY <1>1, FreshFacts
<1>3. Len(stream) = 0 /\ stream \in Seq(Events) BY <1>1
<1>4. {<<"owner", 0>>} \union ({"resource"} \X Steps) = Ids
  BY DEF Ids, Caller, Res
<1>5. Unborn \in ChildRecord /\ Unborn.phase = "unborn" BY DEF Unborn, ChildRecord, Phases
<1>6. TypeOK
  <2>1. JournalOK BY <1>1, <1>3, <1>4 DEF JournalOK
  <2>2. OwnerOK BY <1>1, FreshFacts DEF OwnerOK, Steps
  <2>3. ChildOK /\ TaskOK BY <1>1, <1>5 DEF ChildOK, TaskOK, ChildRecord
  <2> QED BY <1>1, <2>1, <2>2, <2>3, TypeParts
<1>7. \A i \in Steps : child[i].phase = "unborn" /\ task[i] = "unborn" BY <1>1, <1>5
<1>8. \A e : ~ Journaled(e) BY <1>3 DEF Journaled
<1>9. TasksEndWithInit BY <1>3, <1>7 DEF TasksEndWithInit
<1>10. OneClose BY <1>3 DEF OneClose
<1>11. NotedInv
  <2>1. \A id \in Ids : pos[id] = 0 BY <1>1, <1>4
  <2>2. \A id \in Ids : 1 .. pos[id] = {} BY <2>1
  <2>3. old + 1 .. Len(stream) = {} /\ 1 .. Len(stream) = {} BY <1>1, <1>3
  <2> QED BY <2>2, <2>3 DEF NotedInv
<1>12. TaskInv BY <1>7, <1>8 DEF TaskInv, IsClosed
<1>13. BornInv BY <1>7 DEF BornInv
<1> QED BY <1>6, <1>9, <1>10, <1>11, <1>12, <1>13 DEF LifecycleInv

LEMMA ExecuteKeeps ==
  ASSUME LifecycleInv, Execute
  PROVE  LifecycleInv'
<1>1. /\ program' = program /\ stream' = stream /\ old' = Len(stream)
      /\ pos' = [id \in DOMAIN pos |-> 0]
      /\ child' = [i \in Steps |-> Unborn] /\ task' = [i \in Steps |-> "unborn"]
      /\ owner' = [pc |-> 1, outcome |-> "ok", resources |-> <<>>, broken |-> FALSE,
               at |-> IF Journaled(CloseEvent(Caller, "cancelled")) THEN "closed" ELSE "op"]
  BY DEF Execute
<1>2. /\ TypeOK /\ TasksEndWithInit /\ OneClose /\ NotedInv /\ TaskInv
      /\ Len(stream) \in Nat /\ program \in Programs /\ stream \in Seq(Events) /\ pos \in [Ids -> Nat]
  BY DEF LifecycleInv, TypeOK
<1>3. Steps' = Steps /\ Ids' = Ids /\ Coroutines' = Coroutines /\ Events' = Events
  BY <1>1, SameProgram
<1>4. Unborn \in ChildRecord /\ Unborn.phase = "unborn" BY DEF Unborn, ChildRecord, Phases
<1>5. TypeOK'
  <2>1. JournalOK' BY <1>1, <1>2, <1>3 DEF JournalOK
  <2>2. OwnerOK'
    <3>1. \/ owner' = [pc |-> 1, at |-> "op", outcome |-> "ok", resources |-> <<>>, broken |-> FALSE]
          \/ owner' = [pc |-> 1, at |-> "closed", outcome |-> "ok", resources |-> <<>>, broken |-> FALSE]
      BY <1>1
    <3>2. owner'.at \notin {"acquiring", "answering"} BY <3>1
    <3> QED BY <3>1, <3>2, <1>1, <1>2, FreshFacts DEF OwnerOK, Steps
  <2>3. ChildOK' /\ TaskOK' BY <1>1, <1>3, <1>4 DEF ChildOK, TaskOK, ChildRecord
  <2> QED BY <1>1, <1>2, <2>1, <2>2, <2>3, TypeParts
<1>6. \A i \in Steps' : child'[i].phase = "unborn" /\ task'[i] = "unborn" BY <1>1, <1>3, <1>4
<1>7. /\ \A m, id : (IsYield(m, id)' <=> IsYield(m, id)) /\ (IsClose(m, id)' <=> IsClose(m, id))
      /\ \A id, n : Answered(id, n)' <=> Answered(id, n)
      /\ \A id : IsClosed(id)' <=> IsClosed(id)
  BY <1>1 DEF IsYield, IsClose, Answered, IsClosed, Journaled, YieldEvent, CloseEvent
<1>8. TasksEndWithInit'
  <2>1. \A i \in Steps' : ~ (child'[i].phase \in {"provided", "cleanup", "cleaned"}) BY <1>6
  <2>2. \A n \in 1 .. Len(stream'), i \in Steps' :
          stream'[n].id = Task(i) => ~ \E m \in 1 .. n : IsClose(m, Res(i))'
    BY <1>1, <1>2, <1>3, <1>7 DEF TasksEndWithInit, ClosedBy
  <2> QED BY <2>1, <2>2 DEF TasksEndWithInit, ClosedBy
<1>9. OneClose' BY <1>1, <1>2, <1>3, <1>7 DEF OneClose
<1>10. NotedInv'
  <2>1. \A id \in Ids' : 1 .. pos'[id] = {}
    <3>1. \A id \in Ids' : pos'[id] = 0 BY <1>1, <1>2, <1>3
    <3> QED BY <3>1
  <2>2. old' + 1 .. Len(stream') = {} BY <1>1, <1>2
  <2>3. /\ \A m, n \in 1 .. Len(stream'), id \in Ids' :
             IsYield(m, id)' /\ IsYield(n, id)' /\ m < n => stream'[m].n < stream'[n].n
        /\ \A m \in 1 .. Len(stream'), id \in Ids' :
             IsYield(m, id)' => \A n \in 1 .. stream'[m].n : Answered(id, n)'
    BY <1>1, <1>2, <1>3, <1>7 DEF NotedInv
  <2> QED BY <2>1, <2>2, <2>3 DEF NotedInv
<1>11. TaskInv'
  <2>1. \A i \in Steps : /\ program.body[i].spawns /\ IsClosed(Res(i))' => IsClosed(Task(i))'
                         /\ IsClosed(Task(i))' => program.body[i].spawns
    BY <1>2, <1>7 DEF TaskInv
  <2> QED BY <2>1, <1>1, <1>3, <1>6 DEF TaskInv
<1>12. BornInv' BY <1>6 DEF BornInv
<1> QED BY <1>5, <1>8, <1>9, <1>10, <1>11, <1>12 DEF LifecycleInv

LEMMA LifecycleStep ==
  ASSUME LifecycleInv, [Next]_vars
  PROVE  LifecycleInv'
<1>1. CASE Work \/ Halt
  BY <1>1, WorkIsLawful, LawfulKeeps DEF LifecycleInv
<1>2. CASE Execute BY <1>2, ExecuteKeeps
<1>3. CASE UNCHANGED vars
  <2>1. UNCHANGED <<program, stream, old, pos, owner, child, task>> BY <1>3 DEF vars
  <2> QED BY <2>1 DEF LifecycleInv, TypeOK, TasksEndWithInit, OneClose, NotedInv, TaskInv, BornInv,
        Steps, Ids, Coroutines, Events, IsYield, IsClose, ClosedBy, Answered, IsClosed, Journaled,
        PreClose, Stored
<1> QED BY <1>1, <1>2, <1>3 DEF Next

\* Whatever fails, is halted or crashes: no coroutine is closed twice, the
\* task of an init phase is closed before the resource is used and before it
\* is closed, and the effects of a coroutine are journaled once and in order
\* (maybeAppendCloseToStream, orchestrateResourceChild, dispatchStandardEffect).
THEOREM LifecycleCorrect == Spec => []LifecycleInv
<1>1. Init => LifecycleInv BY InitLifecycle
<1>2. LifecycleInv /\ [Next]_vars => LifecycleInv' BY LifecycleStep
<1> QED BY <1>1, <1>2, PTL DEF Spec
=============================================================================
