------------------------ MODULE CompoundReplayProofs ------------------------
(***************************************************************************)
(* Proofs about CompoundConcurrency: in a calm tree every replay tells     *)
(* each kernel what it was told, for every workflow, every number of runs, *)
(* and crashes anywhere but between the halts of a tree.                   *)
(***************************************************************************)
EXTENDS CompoundConcurrencyProofs

-----------------------------------------------------------------------------
(* The inductive invariant *)

\* Where nothing races and nothing fails but a whole workflow or the body of a
\* scope: what the coroutines about to take a step are about to do.
Calm ==
  \A t \in Tasks : task[t].pc = "step" =>
    LET step == StepOf(t)
    IN /\ step.kind \in {"effect", "all", "scope", "spawn", "join", "done", "throw"}
       /\ step.kind = "done" => step.result.status = "ok"
       /\ step.kind = "join" => Joinable(t, step.child)
       /\ step.kind = "throw" =>
            /\ step.error # "DivergenceError"
            /\ t = Root \/ (task[t].role = "branch" /\ task[Parent(t)].kind = "scope")

\* A history h of a coroutine, and what its kernel does after i of its results:
\* the children made and the entries taken before are a function of these.
Past(h, i) == [j \in 1 .. i |-> h[j]]
Doing(t, h, i) == KernelStep(program, t, Past(h, i))
Makes(step) ==
  CASE step.kind = "all" -> step.width
    [] step.kind \in {"scope", "spawn"} -> 1
    [] OTHER -> 0
Births(t, h, i) == UNION {{j} \X (0 .. Makes(Doing(t, h, j)) - 1) : j \in 0 .. i - 1}
Made(t, h, i) == Cardinality(Births(t, h, i))
Effects(t, h, i) == {j \in 0 .. i - 1 : Doing(t, h, j).kind = "effect"}
Taken(t, h, i) == Cardinality(Effects(t, h, i))

\* The first m events determine the next result after i: it is the entry, the
\* Closes of the children, or known without them.
ClosedBy(c, m) == \E i \in Closes(c) : i <= m
Answered(t, h, i, m) ==
  LET step == Doing(t, h, i)
      first == Made(t, h, i)
  IN CASE step.kind = "effect" ->
            \E l \in YieldsOf(t) :
              l <= m /\ Place(l) = Taken(t, h, i) /\ stream[l].result = h[i + 1]
       [] step.kind = "all" ->
            /\ step.width \in Nat
            /\ \A k \in 1 .. step.width :
                 /\ ClosedBy(Child(t, first + k - 1), m)
                 /\ CloseOf(Child(t, first + k - 1)).status = "ok"
            /\ h[i + 1] = Collected([k \in 1 .. step.width |-> CloseOf(Child(t, first + k - 1))])
       [] step.kind = "scope" ->
            /\ ClosedBy(Child(t, first), m) /\ CloseOf(Child(t, first)) # Cancelled
            /\ h[i + 1] = CloseOf(Child(t, first))
       [] step.kind = "spawn" -> h[i + 1] = Handle(Child(t, first))
       [] step.kind = "join" ->
            /\ ClosedBy(step.child, m) /\ CloseOf(step.child).status = "ok"
            /\ h[i + 1] = CloseOf(step.child)
       [] OTHER -> FALSE
IsHistory(h) == h \in Seq({h[i] : i \in 1 .. Len(h)})
Path(t, h, m) ==
  /\ IsHistory(h)
  /\ \A i \in 0 .. Len(h) - 1 : Answered(t, h, i, m)
\* What a kernel ends with.
EndsWith(t, h, r) ==
  LET step == Doing(t, h, Len(h))
  IN \/ step.kind = "done" /\ r = step.result /\ r.status = "ok"
     \/ step.kind = "throw" /\ r = Error(step.error) /\ r.error # "DivergenceError"

\* An event was recorded at the end of such a history.
Explained(m) ==
  LET e == stream[m]
      step == Doing(e.co, e.hist, Len(e.hist))
  IN /\ e.co \in Tasks /\ Path(e.co, e.hist, m - 1)
     /\ \/ /\ e.type = "yield" /\ step.kind = "effect" /\ step.effect = e.effect
           /\ Place(m) = Taken(e.co, e.hist, Len(e.hist))
        \/ e.type = "close" /\ (e.result = Cancelled \/ EndsWith(e.co, e.hist, e.result))
\* The histories of a coroutine, in the journal and in memory, are prefixes of
\* one another; its Yields fill their places.
HistInv ==
  /\ \A t \in Tasks : Path(t, task[t].hist, Len(stream))
  /\ \A m \in 1 .. Len(stream) :
       /\ Explained(m)
       /\ Agree(stream[m].hist, task[stream[m].co].hist)
       /\ \A l \in 1 .. Len(stream) :
            stream[l].co = stream[m].co => Agree(stream[l].hist, stream[m].hist)
  /\ \A t \in Tasks : \A n \in 0 .. Cardinality(YieldsOf(t)) - 1 :
       \E i \in YieldsOf(t) : Place(i) = n

\* Memory is what the history makes it: the cursor follows the entries until
\* the index has no more of them.
Live == AtWork \union {"compound", "leaving"}
Kern(t) ==
  LET rec == task[t]
      n == Len(rec.hist)
      taken == Taken(t, rec.hist, n)
      known == Cardinality(YieldsOf(t))
  IN /\ rec.role # "timeout"
     /\ rec.pc = "unborn" => rec = Unborn /\ \A i \in YieldsOf(t) : i <= mark
     /\ rec.pc \in Live =>
          /\ rec.result = Pending
          /\ taken <= known
          /\ \/ rec.cursor = taken /\ \A i \in YieldsOf(t) : i <= mark
             \/ taken = known /\ ~ HasEntry(t)
     /\ rec.pc \in AtWork => rec.count = Made(t, rec.hist, n)
     /\ rec.pc = "dispatched" =>
          Doing(t, rec.hist, n).kind = "effect" /\ ~ HasEntry(t)

\* What a coroutine waits for is what its kernel asked for, and what it is
\* about to be told is what its branches have closed with.
Waits(t) ==
  LET rec == task[t]
      step == Doing(t, rec.hist, Len(rec.hist))
  IN /\ rec.pc = "joining" =>
          /\ step.kind = "join" /\ step.child = rec.awaits
          /\ rec.awaits \in Children(t) /\ task[rec.awaits].role = "spawned"
     /\ rec.pc \in {"compound", "leaving"} =>
          /\ step.kind = rec.kind /\ rec.kind \in {"all", "scope"}
          /\ Makes(step) \in Nat \ {0}
          /\ rec.base = Made(t, rec.hist, Len(rec.hist)) /\ rec.count = rec.base + Makes(step)
          /\ \A c \in Branches(t) : task[c].role = "branch"
     /\ rec.pc = "leaving" =>
          /\ \A c \in Branches(t) : task[c].pc = "ended" /\ task[c].result # Cancelled
          /\ rec.kind = "all" =>
               /\ \A c \in Branches(t) : task[c].result.status = "ok"
               /\ rec.settled = Collected([k \in 1 .. rec.count - rec.base |->
                                  task[Child(t, rec.base + k - 1)].result])
          /\ rec.kind = "scope" => \A c \in Branches(t) : rec.settled = task[c].result

\* A coroutine that has ended otherwise than by a halt ended as its kernel did,
\* and as its Close says; only the body of a scope ended with an error.
Ends(c) ==
  LET rec == task[c]
  IN /\ rec.pc \in {"closing", "ended"} =>
          rec.result = Cancelled \/ (EndsWith(c, rec.hist, rec.result) /\ CloseOf(c) = rec.result)
     /\ rec.pc = "halting" => rec.result = Cancelled
     /\ rec.pc \in {"closing", "ended"} /\ rec.result.status = "error" /\ c # Root =>
          /\ rec.role = "branch"
          /\ c \in Branches(Parent(c)) => task[Parent(c)].kind = "scope"

\* A halt comes from above, and what it cancelled has a parent that is closed,
\* or will be before execute is called again.
Cancels(c) ==
  /\ WasCancelled(c) => task[c].pc \in {"unborn", "closing", "halting", "ended"}
  /\ c # Root =>
       LET p == Parent(c)
       IN /\ WasCancelled(c) => HasClose(p)
          /\ \A i \in Closes(c) : stream[i].result = Cancelled =>
               Closes(p) # {} \/ (task[p].pc = "halting" /\ task[p].count > 0)
          /\ task[c].pc = "halting" => task[p].pc \in {"halting", "closing"}
          /\ task[c].pc \in {"closing", "ended"} /\ task[c].result = Cancelled =>
               task[p].pc \in {"halting", "closing", "ended"} \/ WasCancelled(c)

ReplayInv ==
  /\ TreeInv /\ HistInv
  /\ \A t \in Tasks : Kern(t) /\ Waits(t) /\ Ends(t) /\ Cancels(t)

-----------------------------------------------------------------------------
(* Histories *)

\* A sequence is its own past; what is appended to it does not change it.
LEMMA AppendPast ==
  ASSUME NEW h, NEW r, IsHistory(h)
  PROVE  /\ Len(h) \in Nat /\ Len(Append(h, r)) = Len(h) + 1
         /\ Append(h, r)[Len(h) + 1] = r
         /\ IsHistory(Append(h, r))
         /\ \A i \in 1 .. Len(h) : Append(h, r)[i] = h[i]
         /\ \A i \in 0 .. Len(h) : Past(Append(h, r), i) = Past(h, i)
         /\ Past(h, Len(h)) = h
<1> DEFINE g == Append(h, r)
<1> DEFINE S == {h[i] : i \in 1 .. Len(h)} \union {r}
           T == {g[i] : i \in 1 .. Len(g)}
<1>1. h \in Seq(S) /\ r \in S
  <2>1. {h[i] : i \in 1 .. Len(h)} \subseteq S
    OBVIOUS
  <2> QED
    BY <2>1, SeqMonotonic DEF IsHistory
<1>2. /\ g \in Seq(S) /\ Len(g) = Len(h) + 1 /\ g[Len(h) + 1] = r
      /\ \A i \in 1 .. Len(h) : g[i] = h[i]
      /\ Len(h) \in Nat
  <2> HIDE DEF S
  <2> QED
    BY <1>1, AppendProperties, LenProperties
<1>3. g \in Seq(T)
  <2>1. S \subseteq T
    <3>1. \A i \in 1 .. Len(h) : i \in 1 .. Len(g) /\ h[i] = g[i]
      BY <1>2
    <3>2. Len(h) + 1 \in 1 .. Len(g)
      BY <1>2
    <3> HIDE DEF g
    <3> QED
      BY <1>2, <3>1, <3>2
  <2> HIDE DEF S, T, g
  <2> QED
    BY <1>2, <2>1, SeqMonotonic
<1>4. \A i \in 0 .. Len(h) : Past(g, i) = Past(h, i)
  <2> HIDE DEF g
  <2> QED BY <1>2 DEF Past
<1>5. Past(h, Len(h)) = h
  <2>1. DOMAIN h = 1 .. Len(h) /\ h = [i \in DOMAIN h |-> h[i]]
    BY LenProperties DEF IsHistory
  <2> QED
    BY <2>1 DEF Past
<1> QED
  BY <1>2, <1>3, <1>4, <1>5 DEF IsHistory

\* The number of effects grows with each.
LEMMA TakenNext ==
  ASSUME NEW t, NEW h, NEW i \in Nat
  PROVE  /\ Taken(t, h, i) \in Nat
         /\ Taken(t, h, i + 1) = Taken(t, h, i) +
              (IF Doing(t, h, i).kind = "effect" THEN 1 ELSE 0)
<1> DEFINE E == Effects(t, h, i)
           F == Effects(t, h, i + 1)
<1>1. IsFiniteSet(E)
  <2>1. IsFiniteSet(0 .. i - 1)
    BY FS_Interval
  <2>2. E \subseteq 0 .. i - 1
    BY DEF Effects
  <2> HIDE DEF E
  <2> QED
    BY <2>1, <2>2, FS_Subset
<1>2. i \notin E
  BY DEF Effects
<1>3. 0 .. (i + 1) - 1 = (0 .. i - 1) \union {i}
  OBVIOUS
<1>4. CASE Doing(t, h, i).kind = "effect"
  <2>1. F = E \union {i}
    BY <1>3, <1>4 DEF Effects
  <2> HIDE DEF E, F
  <2>2. Cardinality(F) = Cardinality(E) + 1 /\ Cardinality(E) \in Nat
    BY <1>1, <1>2, <2>1, FS_AddElement, FS_CardinalityType
  <2> QED
    BY <1>4, <2>2 DEF Taken, E, F
<1>5. CASE Doing(t, h, i).kind # "effect"
  <2>1. F = E
    BY <1>3, <1>5 DEF Effects
  <2>2. Cardinality(E) \in Nat
    BY <1>1, FS_CardinalityType
  <2> QED
    BY <1>5, <2>1, <2>2 DEF Taken
<1> QED
  BY <1>4, <1>5

\* An effect taken is counted from then on.
LEMMA TakenLess ==
  ASSUME NEW t, NEW h, NEW i \in Nat, NEW j \in Nat, i < j,
         Doing(t, h, i).kind = "effect"
  PROVE  Taken(t, h, i) < Taken(t, h, j)
<1> DEFINE E == Effects(t, h, i)
           F == Effects(t, h, j)
<1>1. E \subseteq F /\ i \in F /\ i \notin E /\ F \subseteq 0 .. j - 1
  BY DEF Effects
<1>2. IsFiniteSet(0 .. j - 1)
  BY FS_Interval
<1> HIDE DEF E, F
<1>3. IsFiniteSet(F)
  BY <1>1, <1>2, FS_Subset
<1>4. /\ IsFiniteSet(E) /\ Cardinality(E) <= Cardinality(F)
      /\ Cardinality(E) # Cardinality(F)
  BY <1>1, <1>3, FS_Subset
<1>5. Cardinality(E) \in Nat /\ Cardinality(F) \in Nat
  BY <1>3, <1>4, FS_CardinalityType
<1> QED
  BY <1>4, <1>5 DEF Taken, E, F

\* The children of a step are numbered after those of the steps before.
LEMMA MadeNext ==
  ASSUME NEW t, NEW h, NEW i \in Nat, \A j \in 0 .. i : Makes(Doing(t, h, j)) \in Nat
  PROVE  /\ Made(t, h, i) \in Nat
         /\ Made(t, h, i + 1) = Made(t, h, i) + Makes(Doing(t, h, i))
<1> DEFINE one(j) == {j} \X (0 .. Makes(Doing(t, h, j)) - 1)
           B == Births(t, h, i)
           N == one(i)
<1>1. \A j \in 0 .. i : /\ IsFiniteSet(one(j))
                        /\ Cardinality(one(j)) = Makes(Doing(t, h, j))
  <2> SUFFICES ASSUME NEW j \in 0 .. i
               PROVE  /\ IsFiniteSet(one(j)) /\ Cardinality(one(j)) = Makes(Doing(t, h, j))
    OBVIOUS
  <2> DEFINE n == Makes(Doing(t, h, j))
  <2>1. n \in Nat
    OBVIOUS
  <2> HIDE DEF n
  <2>2. IsFiniteSet({j}) /\ Cardinality({j}) = 1
    BY FS_Singleton
  <2>3. IsFiniteSet(0 .. n - 1) /\ Cardinality(0 .. n - 1) = n
    <3>1. n - 1 \in Int /\ 0 \in Int
      BY <2>1
    <3>2. /\ IsFiniteSet(0 .. n - 1)
          /\ Cardinality(0 .. n - 1) = IF 0 > n - 1 THEN 0 ELSE n - 1 - 0 + 1
      BY <3>1, FS_Interval
    <3> QED
      BY <2>1, <3>2
  <2> DEFINE first == {j}
             second == 0 .. n - 1
  <2>4. /\ IsFiniteSet(first \X second)
        /\ Cardinality(first \X second) = Cardinality(first) * Cardinality(second)
    <3> HIDE DEF first, second
    <3> QED BY <2>2, <2>3, FS_Product DEF first, second
  <2>5. 1 * n = n
    BY <2>1
  <2> QED
    BY <2>2, <2>3, <2>4, <2>5 DEF n
<1>2. IsFiniteSet(B)
  <2> DEFINE C == {one(j) : j \in 0 .. i - 1}
  <2>1. IsFiniteSet(0 .. i - 1)
    BY FS_Interval
  <2>2. IsFiniteSet(C)
    <3> DEFINE D == 0 .. i - 1
               f == [j \in D |-> one(j)]
    <3>1. f \in Surjection(D, C)
      <4> HIDE DEF one
      <4> QED BY DEF Surjection
    <3> HIDE DEF f, C
    <3> QED BY <2>1, <3>1, FS_Surjection
  <2>3. \A c \in C : IsFiniteSet(c)
    <3> HIDE DEF one
    <3> QED BY <1>1
  <2>4. B = UNION C
    BY DEF Births
  <2> HIDE DEF C, B
  <2> QED
    BY <2>2, <2>3, <2>4, FS_UNION
<1>3. Births(t, h, i + 1) = B \union N
  <2>1. 0 .. (i + 1) - 1 = (0 .. i - 1) \union {i}
    OBVIOUS
  <2>2. Births(t, h, i + 1) = UNION {one(j) : j \in (0 .. i - 1) \union {i}}
    BY <2>1 DEF Births
  <2>3. B = UNION {one(j) : j \in 0 .. i - 1}
    BY DEF Births
  <2> HIDE DEF one, B
  <2> QED
    BY <2>2, <2>3
<1>4. B \cap N = {}
  <2> SUFFICES ASSUME NEW x \in B, x \in N PROVE FALSE
    OBVIOUS
  <2>1. PICK j \in 0 .. i - 1 : x \in one(j)
    BY DEF Births
  <2> QED
    BY <2>1
<1> HIDE DEF one, B, N
<1>5. IsFiniteSet(N) /\ Cardinality(N) = Makes(Doing(t, h, i)) /\ Cardinality(N) \in Nat
  BY <1>1 DEF N
<1>6. Cardinality(B \cap N) = 0
  BY <1>4, FS_EmptySet
<1>7. Cardinality(B \union N) = Cardinality(B) + Cardinality(N) - 0
  BY <1>2, <1>5, <1>6, FS_Union
<1>8. Cardinality(B) \in Nat
  BY <1>2, FS_CardinalityType
<1> QED
  BY <1>3, <1>5, <1>7, <1>8 DEF Made, B

\* Nothing has been made or taken when a kernel begins.
LEMMA NothingYet ==
  ASSUME NEW t, NEW h
  PROVE  Made(t, h, 0) = 0 /\ Taken(t, h, 0) = 0
<1>1. Births(t, h, 0) = {} /\ Effects(t, h, 0) = {}
  <2>1. 0 .. 0 - 1 = {}
    OBVIOUS
  <2> QED
    BY <2>1 DEF Births, Effects
<1> QED
  BY <1>1, FS_EmptySet DEF Made, Taken

\* What a kernel does and has done depends on its past alone.
LEMMA SamePast ==
  ASSUME NEW t, NEW h, NEW g, NEW i \in Nat, Past(h, i) = Past(g, i)
  PROVE  /\ Doing(t, h, i) = Doing(t, g, i)
         /\ Made(t, h, i) = Made(t, g, i)
         /\ Taken(t, h, i) = Taken(t, g, i)
         /\ \A j \in 0 .. i : Past(h, j) = Past(g, j)
         /\ \A j \in 1 .. i : h[j] = g[j]
<1>1. \A j \in 1 .. i : h[j] = g[j]
  <2>1. \A j \in 1 .. i : Past(h, i)[j] = h[j] /\ Past(g, i)[j] = g[j]
    BY DEF Past
  <2> QED
    BY <2>1
<1>2. \A j \in 0 .. i : Past(h, j) = Past(g, j)
  BY <1>1 DEF Past
<1>3. \A j \in 0 .. i : Doing(t, h, j) = Doing(t, g, j)
  BY <1>2 DEF Doing
<1>4. Births(t, h, i) = Births(t, g, i)
  <2>1. \A j \in 0 .. i - 1 : {j} \X (0 .. Makes(Doing(t, h, j)) - 1)
                            = {j} \X (0 .. Makes(Doing(t, g, j)) - 1)
    BY <1>3
  <2> QED
    BY <2>1 DEF Births
<1>5. Effects(t, h, i) = Effects(t, g, i)
  BY <1>3 DEF Effects
<1> QED
  BY <1>1, <1>2, <1>3, <1>4, <1>5 DEF Made, Taken

\* Histories that agree have the same past as far as both go.
LEMMA AgreeingPast ==
  ASSUME NEW h, NEW g, Agree(h, g), NEW i \in Nat, i <= Len(h), i <= Len(g),
         Len(h) \in Nat, Len(g) \in Nat
  PROVE  Past(h, i) = Past(g, i)
<1>1. \A j \in 1 .. i : h[j] = g[j]
  BY DEF Agree
<1> QED
  BY <1>1 DEF Past

-----------------------------------------------------------------------------
(* Answers *)

\* The Yields of a coroutine have places of their own.
PlacesApart ==
  \A t : /\ IsFiniteSet(YieldsOf(t)) /\ Cardinality(YieldsOf(t)) \in Nat
         /\ \A i \in YieldsOf(t) :
              /\ Place(i) = Cardinality({j \in YieldsOf(t) : j < i})
              /\ Place(i) \in Nat /\ Place(i) < Cardinality(YieldsOf(t))
              /\ \A l \in YieldsOf(t) : Place(i) = Place(l) => i = l
LEMMA PlaceFacts == ShapeInv => PlacesApart
<1> SUFFICES ASSUME ShapeInv, NEW t
             PROVE  /\ IsFiniteSet(YieldsOf(t)) /\ Cardinality(YieldsOf(t)) \in Nat
                    /\ \A i \in YieldsOf(t) :
                         /\ Place(i) = Cardinality({j \in YieldsOf(t) : j < i})
                         /\ Place(i) \in Nat /\ Place(i) < Cardinality(YieldsOf(t))
                         /\ \A l \in YieldsOf(t) : Place(i) = Place(l) => i = l
  BY DEF PlacesApart
<1> DEFINE Y == YieldsOf(t)
           before(i) == {j \in Y : j < i}
<1>1. Y \subseteq 1 .. Len(stream) /\ Len(stream) \in Nat
  BY LenProperties DEF YieldsOf, ShapeInv
<1>2. IsFiniteSet(Y)
  <2>1. IsFiniteSet(1 .. Len(stream))
    BY <1>1, FS_Interval
  <2> HIDE DEF Y
  <2> QED
    BY <1>1, <2>1, FS_Subset
<1>3. \A i \in Y : Place(i) = Cardinality(before(i))
  BY DEF Place, YieldsOf
<1> HIDE DEF Y
<1>4. Cardinality(Y) \in Nat
  BY <1>2, FS_CardinalityType
<1>5. \A i \in Y : /\ IsFiniteSet(before(i)) /\ Cardinality(before(i)) \in Nat
                   /\ Cardinality(before(i)) < Cardinality(Y)
  <2> SUFFICES ASSUME NEW i \in Y
               PROVE  /\ IsFiniteSet(before(i)) /\ Cardinality(before(i)) \in Nat
                      /\ Cardinality(before(i)) < Cardinality(Y)
    OBVIOUS
  <2>1. before(i) \subseteq Y /\ i \notin before(i)
    BY <1>1
  <2> HIDE DEF before
  <2>2. /\ IsFiniteSet(before(i)) /\ Cardinality(before(i)) <= Cardinality(Y)
        /\ Cardinality(before(i)) # Cardinality(Y)
    BY <1>2, <2>1, FS_Subset
  <2>3. Cardinality(before(i)) \in Nat
    BY <2>2, FS_CardinalityType
  <2> QED
    BY <1>4, <2>2, <2>3
<1>6. \A i, l \in Y : i < l => Cardinality(before(i)) < Cardinality(before(l))
  <2> SUFFICES ASSUME NEW i \in Y, NEW l \in Y, i < l
               PROVE  Cardinality(before(i)) < Cardinality(before(l))
    OBVIOUS
  <2>1. before(i) \subseteq before(l) /\ i \in before(l) /\ i \notin before(i)
    <3>1. \A j \in Y : j \in Int
      BY <1>1
    <3>2. i \in Int /\ l \in Int
      BY <3>1
    <3>3. \A j \in Y : j < i => j < l
      BY <3>1, <3>2
    <3>4. before(i) \subseteq before(l)
      BY <3>3
    <3>5. i \in before(l)
      OBVIOUS
    <3>6. ~ (i < i)
      BY <3>2
    <3> QED
      BY <3>4, <3>5, <3>6
  <2> HIDE DEF before
  <2>2. /\ Cardinality(before(i)) <= Cardinality(before(l))
        /\ Cardinality(before(i)) # Cardinality(before(l))
    BY <1>5, <2>1, FS_Subset
  <2> QED
    BY <1>5, <2>2
<1>7. \A i, l \in Y : Place(i) = Place(l) => i = l
  <2> SUFFICES ASSUME NEW i \in Y, NEW l \in Y, Place(i) = Place(l), i # l PROVE FALSE
    OBVIOUS
  <2>1. i < l \/ l < i
    <3>1. i \in Int /\ l \in Int
      BY <1>1
    <3> QED
      BY <3>1
  <2>2. /\ Cardinality(before(i)) \in Nat /\ Cardinality(before(l)) \in Nat
        /\ Cardinality(before(i)) = Cardinality(before(l))
    BY <1>3, <1>5
  <2> HIDE DEF before
  <2> QED
    BY <1>6, <2>1, <2>2
<1> QED
  <2>1. \A i \in Y : /\ Place(i) = Cardinality(before(i))
                     /\ Place(i) \in Nat /\ Place(i) < Cardinality(Y)
    <3> HIDE DEF before
    <3> QED BY <1>3, <1>5
  <2> QED
    BY <1>2, <1>4, <1>7, <2>1 DEF Y

\* The same step with the same past gets the same result, whoever reads it off
\* the stream.
OneAnswer ==
  \A t, h, g, i, m, l :
    /\ i \in Nat /\ Past(h, i) = Past(g, i)
    /\ Answered(t, h, i, m) /\ Answered(t, g, i, l)
    => h[i + 1] = g[i + 1]
LEMMA OneAnswerHolds == ShapeInv => OneAnswer
<1> SUFFICES ASSUME ShapeInv, NEW t, NEW h, NEW g, NEW i \in Nat, NEW m, NEW l,
                    Past(h, i) = Past(g, i),
                    Answered(t, h, i, m), Answered(t, g, i, l)
             PROVE  h[i + 1] = g[i + 1]
  BY DEF OneAnswer
<1>1. /\ Doing(t, h, i) = Doing(t, g, i) /\ Made(t, h, i) = Made(t, g, i)
      /\ Taken(t, h, i) = Taken(t, g, i)
  BY SamePast
<1> DEFINE step == Doing(t, h, i)
<1>2. CASE step.kind = "effect"
  <2>1. PICK a \in YieldsOf(t) : Place(a) = Taken(t, h, i) /\ stream[a].result = h[i + 1]
    BY <1>2 DEF Answered
  <2>2. PICK b \in YieldsOf(t) : Place(b) = Taken(t, g, i) /\ stream[b].result = g[i + 1]
    BY <1>1, <1>2 DEF Answered
  <2> QED
    BY <1>1, <2>1, <2>2, PlaceFacts DEF PlacesApart
<1>3. CASE step.kind = "all"
  <2>1. h[i + 1] = Collected([k \in 1 .. step.width |->
                     CloseOf(Child(t, Made(t, h, i) + k - 1))])
    BY <1>3 DEF Answered
  <2>2. g[i + 1] = Collected([k \in 1 .. step.width |->
                     CloseOf(Child(t, Made(t, h, i) + k - 1))])
    BY <1>1, <1>3 DEF Answered
  <2> QED
    BY <2>1, <2>2
<1>4. CASE step.kind \in {"scope", "spawn", "join"}
  BY <1>1, <1>4 DEF Answered
<1>5. step.kind \in {"effect", "all", "scope", "spawn", "join"}
  BY DEF Answered
<1> QED
  BY <1>2, <1>3, <1>4, <1>5

\* More events do not take an answer back, and what comes after it does not
\* matter to it.
AnswerStays ==
  \A t, h, g, i, m, l :
    /\ i \in Nat /\ Past(h, i + 1) = Past(g, i + 1)
    /\ m \in Nat /\ l \in Nat /\ m <= l
    /\ Answered(t, h, i, m)
    => Answered(t, g, i, l)
LEMMA AnswerStaysHolds == ShapeInv => AnswerStays
<1> SUFFICES ASSUME ShapeInv, NEW t, NEW h, NEW g, NEW i \in Nat, NEW m \in Nat, NEW l \in Nat,
                    Past(h, i + 1) = Past(g, i + 1), m <= l, Answered(t, h, i, m)
             PROVE  Answered(t, g, i, l)
  BY DEF AnswerStays
<1>1. Past(h, i) = Past(g, i) /\ h[i + 1] = g[i + 1]
  <2>1. PICK n \in Nat : n = i + 1
    OBVIOUS
  <2>2. /\ \A j \in 0 .. n : Past(h, j) = Past(g, j)
        /\ \A j \in 1 .. n : h[j] = g[j]
    BY <2>1, SamePast
  <2> QED
    BY <2>1, <2>2
<1>2. /\ Doing(t, h, i) = Doing(t, g, i) /\ Made(t, h, i) = Made(t, g, i)
      /\ Taken(t, h, i) = Taken(t, g, i)
  BY <1>1, SamePast
<1>3. \A c : ClosedBy(c, m) => ClosedBy(c, l)
  <2>1. \A c : Closes(c) \subseteq Int
    BY LenProperties DEF Closes, ShapeInv
  <2> QED
    BY <2>1 DEF ClosedBy
<1> DEFINE step == Doing(t, h, i)
<1>4. CASE step.kind = "effect"
  <2>1. PICK a \in YieldsOf(t) : /\ a <= m /\ Place(a) = Taken(t, h, i)
                                 /\ stream[a].result = h[i + 1]
    BY <1>4 DEF Answered
  <2>2. a <= l
    <3>1. a \in Int
      BY LenProperties DEF YieldsOf, ShapeInv
    <3> QED
      BY <2>1, <3>1
  <2> QED
    BY <1>1, <1>2, <1>4, <2>1, <2>2 DEF Answered
<1>5. CASE step.kind = "all"
  <2>1. /\ step.width \in Nat
        /\ \A k \in 1 .. step.width :
             /\ ClosedBy(Child(t, Made(t, h, i) + k - 1), m)
             /\ CloseOf(Child(t, Made(t, h, i) + k - 1)).status = "ok"
        /\ h[i + 1] = Collected([k \in 1 .. step.width |->
                        CloseOf(Child(t, Made(t, h, i) + k - 1))])
    BY <1>5 DEF Answered
  <2> QED
    BY <1>1, <1>2, <1>3, <1>5, <2>1 DEF Answered
<1>6. CASE step.kind \in {"scope", "spawn", "join"}
  BY <1>1, <1>2, <1>3, <1>6 DEF Answered
<1>7. step.kind \in {"effect", "all", "scope", "spawn", "join"}
  BY DEF Answered
<1> QED
  BY <1>4, <1>5, <1>6, <1>7

\* A history that has been answered so far has made finitely many children.
LEMMA PathMakes ==
  ASSUME NEW t, NEW h, NEW m, Path(t, h, m)
  PROVE  /\ Len(h) \in Nat
         /\ \A j \in 0 .. Len(h) - 1 : Makes(Doing(t, h, j)) \in Nat
<1>1. Len(h) \in Nat
  BY LenProperties DEF Path, IsHistory
<1>2. ASSUME NEW j \in 0 .. Len(h) - 1 PROVE Makes(Doing(t, h, j)) \in Nat
  <2>1. Answered(t, h, j, m)
    BY DEF Path
  <2>2. Doing(t, h, j).kind = "all" => Doing(t, h, j).width \in Nat
    BY <2>1 DEF Answered
  <2> QED
    BY <2>2 DEF Makes
<1> QED
  BY <1>1, <1>2

-----------------------------------------------------------------------------
(* A longer stream *)

\* A step within a run adds at most one event, of one of the coroutines.
Grows ==
  /\ program' = program /\ mark' = mark
  /\ stream' = stream \/ \E e : e.co \in Tasks /\ stream' = Append(stream, e)
LEMMA GrowthOfStream ==
  ASSUME TreeInv, Grows
  PROVE  /\ Len(stream) \in Nat /\ Len(stream') \in Nat
         /\ mark \in 0 .. Len(stream)
         /\ Len(stream) <= Len(stream') /\ Len(stream') <= Len(stream) + 1
         /\ \A i \in 1 .. Len(stream) : stream'[i] = stream[i]
<1>1. stream \in Seq({stream[i] : i \in 1 .. Len(stream)}) /\ mark \in 0 .. Len(stream)
  BY DEF TreeInv, ShapeInv
<1>2. Len(stream) \in Nat
  BY <1>1, LenProperties
<1>3. CASE stream' = stream
  BY <1>1, <1>2, <1>3
<1>4. ASSUME NEW e, stream' = Append(stream, e)
      PROVE  /\ Len(stream') = Len(stream) + 1
             /\ \A i \in 1 .. Len(stream) : stream'[i] = stream[i]
  BY <1>1, <1>4, AppendFacts
<1> QED
  BY <1>1, <1>2, <1>3, <1>4 DEF Grows

\* What was in it keeps its place.
LEMMA GrowthOfYields ==
  ASSUME TreeInv, Grows
  PROVE  /\ \A t : /\ YieldsOf(t) \subseteq YieldsOf(t)'
                   /\ \A i \in YieldsOf(t)' : i <= Len(stream) => i \in YieldsOf(t)
         /\ \A i \in 1 .. Len(stream) : Place(i)' = Place(i)
<1>1. /\ Len(stream) \in Nat /\ Len(stream') \in Nat
      /\ Len(stream) <= Len(stream')
      /\ \A i \in 1 .. Len(stream) : stream'[i] = stream[i]
  BY GrowthOfStream
<1>2. ASSUME NEW t
      PROVE  /\ YieldsOf(t) \subseteq YieldsOf(t)'
             /\ \A i \in YieldsOf(t)' : i <= Len(stream) => i \in YieldsOf(t)
  BY <1>1 DEF YieldsOf
<1>3. ASSUME NEW i \in 1 .. Len(stream) PROVE Place(i)' = Place(i)
  <2>1. PICK t : t = stream[i].co
    OBVIOUS
  <2>2. {j \in YieldsOf(t)' : j < i} = {j \in YieldsOf(t) : j < i}
    <3>1. \A j \in YieldsOf(t)' : j \in Int
      BY <1>1 DEF YieldsOf
    <3> QED
      BY <1>1, <1>2, <3>1
  <2>3. stream'[i].co = t
    BY <1>1, <2>1
  <2>4. Place(i)' = Cardinality({j \in YieldsOf(t)' : j < i})
    <3>1. Place(i)' = Cardinality({j \in 1 .. Len(stream') :
             stream'[j].co = stream'[i].co /\ stream'[j].type = "yield" /\ j < i})
      BY DEF Place, YieldsOf
    <3> QED
      BY <2>3, <3>1 DEF YieldsOf
  <2> QED
    BY <2>1, <2>2, <2>4 DEF Place
<1> QED
  BY <1>2, <1>3

\* A Close stays the only one.
LEMMA GrowthOfCloses ==
  ASSUME TreeInv, TreeInv', Grows
  PROVE  /\ \A c : /\ Closes(c) \subseteq Closes(c)'
                   /\ \A i \in Closes(c)' : i <= Len(stream) => i \in Closes(c)
                   /\ Closes(c) # {} => Closes(c)' = Closes(c) /\ CloseOf(c)' = CloseOf(c)
                   /\ HasClose(c)' = HasClose(c)
                   /\ WasCancelled(c)' = WasCancelled(c)
<1>1. /\ Len(stream) \in Nat /\ Len(stream') \in Nat
      /\ mark \in 0 .. Len(stream) /\ mark' = mark
      /\ Len(stream) <= Len(stream')
      /\ \A i \in 1 .. Len(stream) : stream'[i] = stream[i]
  BY GrowthOfStream DEF Grows
<1> SUFFICES ASSUME NEW c
             PROVE  /\ Closes(c) \subseteq Closes(c)'
                    /\ \A i \in Closes(c)' : i <= Len(stream) => i \in Closes(c)
                    /\ Closes(c) # {} => Closes(c)' = Closes(c) /\ CloseOf(c)' = CloseOf(c)
                    /\ HasClose(c)' = HasClose(c)
                    /\ WasCancelled(c)' = WasCancelled(c)
  OBVIOUS
<1>2. /\ Closes(c) \subseteq Closes(c)'
      /\ \A i \in Closes(c)' : i <= Len(stream) => i \in Closes(c)
      /\ \A i \in Closes(c) : i \in 1 .. Len(stream)
      /\ \A i \in Closes(c)' : i \in Nat
  BY <1>1 DEF Closes
<1>3. ASSUME Closes(c) # {} PROVE Closes(c)' = Closes(c)
  <2>1. CASE c \in Tasks
    <3>1. \A i, j \in Closes(c)' : i = j
      BY <2>1 DEF TreeInv, CloseInv
    <3> QED
      BY <1>2, <1>3, <3>1
  <2>2. CASE c \notin Tasks
    <3>1. CASE stream' = stream
      BY <3>1 DEF Closes
    <3>2. ASSUME NEW e, e.co \in Tasks, stream' = Append(stream, e)
          PROVE  Closes(c)' = Closes(c)
      BY <2>2, <3>2, ClosesOfAppend DEF TreeInv
    <3> QED
      BY <3>1, <3>2 DEF Grows
  <2> QED
    BY <2>1, <2>2
<1>4. ASSUME Closes(c) # {} PROVE CloseOf(c)' = CloseOf(c)
  <2>1. Closes(c)' = Closes(c)
    BY <1>3, <1>4
  <2>2. PICK i : i = CHOOSE j \in Closes(c) : TRUE
    OBVIOUS
  <2>3. i \in Closes(c)
    BY <1>4, <2>2
  <2>4. stream'[i] = stream[i]
    BY <1>1, <1>2, <2>3
  <2> QED
    BY <2>1, <2>2, <2>4 DEF CloseOf
<1>5. \A i \in Closes(c)' : i <= mark => i \in Closes(c) /\ stream'[i] = stream[i]
  BY <1>1, <1>2
<1>6. HasClose(c)' = HasClose(c)
  <2>1. HasClose(c)' <=> \E i \in Closes(c)' : i <= mark
    BY <1>1 DEF HasClose
  <2>2. HasClose(c) <=> \E i \in Closes(c) : i <= mark
    BY DEF HasClose
  <2>3. HasClose(c)' <=> HasClose(c)
    BY <1>2, <1>5, <2>1, <2>2
  <2>4. HasClose(c) \in BOOLEAN /\ HasClose(c)' \in BOOLEAN
    BY DEF HasClose
  <2> QED
    BY <2>3, <2>4
<1>7. WasCancelled(c)' = WasCancelled(c)
  <2>1. WasCancelled(c)' <=> \E i \in Closes(c)' : i <= mark /\ stream'[i].result = Cancelled
    BY <1>1 DEF WasCancelled, Cancelled
  <2>2. WasCancelled(c) <=> \E i \in Closes(c) : i <= mark /\ stream[i].result = Cancelled
    BY DEF WasCancelled
  <2>3. WasCancelled(c)' <=> WasCancelled(c)
    BY <1>1, <1>2, <1>5, <2>1, <2>2
  <2>4. WasCancelled(c) \in BOOLEAN /\ WasCancelled(c)' \in BOOLEAN
    BY DEF WasCancelled
  <2> QED
    BY <2>3, <2>4
<1> QED
  BY <1>2, <1>3, <1>4, <1>6, <1>7

\* What kernels do with a history does not depend on the stream.
LEMMA KernelsStay ==
  ASSUME program' = program
  PROVE  \A t, h, i : /\ Doing(t, h, i)' = Doing(t, h, i)
                      /\ Made(t, h, i)' = Made(t, h, i)
                      /\ Taken(t, h, i)' = Taken(t, h, i)
<1>1. \A t, h, i : Doing(t, h, i)' = Doing(t, h, i)
  BY DEF Doing
<1>2. ASSUME NEW t, NEW h, NEW i PROVE Births(t, h, i)' = Births(t, h, i)
  BY <1>1 DEF Births
<1>3. ASSUME NEW t, NEW h, NEW i PROVE Effects(t, h, i)' = Effects(t, h, i)
  BY <1>1 DEF Effects
<1> QED
  BY <1>1, <1>2, <1>3 DEF Made, Taken

LEMMA AnswersKept ==
  ASSUME TreeInv, TreeInv', Grows
  PROVE  \A t, h, i, m : m \in Nat /\ m <= Len(stream) /\ Answered(t, h, i, m)
                           => Answered(t, h, i, m)'
<1> SUFFICES ASSUME NEW t, NEW h, NEW i, NEW m \in Nat, m <= Len(stream),
                    Answered(t, h, i, m)
             PROVE  Answered(t, h, i, m)'
  OBVIOUS
<1>1. /\ Len(stream) \in Nat
      /\ \A l \in 1 .. Len(stream) : stream'[l] = stream[l]
  BY GrowthOfStream
<1>2. /\ Doing(t, h, i)' = Doing(t, h, i) /\ Made(t, h, i)' = Made(t, h, i)
      /\ Taken(t, h, i)' = Taken(t, h, i)
  BY KernelsStay DEF Grows
<1>3. \A c : ClosedBy(c, m) => ClosedBy(c, m)' /\ CloseOf(c)' = CloseOf(c)
  <2>1. \A c : Closes(c) # {} => Closes(c)' = Closes(c) /\ CloseOf(c)' = CloseOf(c)
    BY GrowthOfCloses
  <2> QED
    BY <2>1 DEF ClosedBy
<1> DEFINE step == Doing(t, h, i)
           first == Made(t, h, i)
<1>4. CASE step.kind = "effect"
  <2>1. PICK a \in YieldsOf(t) : /\ a <= m /\ Place(a) = Taken(t, h, i)
                                 /\ stream[a].result = h[i + 1]
    BY <1>4 DEF Answered
  <2>2. a \in 1 .. Len(stream)
    BY DEF YieldsOf
  <2>3. a \in YieldsOf(t)' /\ Place(a)' = Place(a) /\ stream'[a] = stream[a]
    BY <1>1, <2>2, GrowthOfYields
  <2> QED
    BY <1>2, <1>4, <2>1, <2>3 DEF Answered
<1>5. CASE step.kind = "all"
  <2>1. /\ step.width \in Nat
        /\ \A k \in 1 .. step.width :
             /\ ClosedBy(Child(t, first + k - 1), m)
             /\ CloseOf(Child(t, first + k - 1)).status = "ok"
        /\ h[i + 1] = Collected([k \in 1 .. step.width |-> CloseOf(Child(t, first + k - 1))])
    BY <1>5 DEF Answered
  <2>2. ASSUME NEW k \in 1 .. step.width
        PROVE  /\ ClosedBy(Child(t, first + k - 1), m)'
               /\ CloseOf(Child(t, first + k - 1))' = CloseOf(Child(t, first + k - 1))
    <3>1. PICK c : c = Child(t, first + k - 1)
      OBVIOUS
    <3>2. ClosedBy(c, m)' /\ CloseOf(c)' = CloseOf(c)
      BY <1>3, <2>1, <3>1
    <3>3. Child(t, first + k - 1)' = Child(t, first + k - 1)
      BY <1>2 DEF Child
    <3> QED
      BY <3>1, <3>2, <3>3
  <2> QED
    BY <1>2, <1>3, <1>5, <2>1, <2>2 DEF Answered
<1>6. CASE step.kind \in {"scope", "spawn", "join"}
  BY <1>2, <1>3, <1>6 DEF Answered
<1>7. step.kind \in {"effect", "all", "scope", "spawn", "join"}
  BY DEF Answered
<1> QED
  BY <1>4, <1>5, <1>6, <1>7

LEMMA AnswerStaysNext == ShapeInv' => AnswerStays'
  BY AnswerStaysHolds, PTL
LEMMA OneAnswerNext == ShapeInv' => OneAnswer'
  BY OneAnswerHolds, PTL
LEMMA PlaceFactsNext == ShapeInv' => PlacesApart'
  BY PlaceFacts, PTL

LEMMA PathsKept ==
  ASSUME TreeInv, TreeInv', Grows
  PROVE  \A t, h, m, l : /\ m \in Nat /\ l \in Nat /\ m <= l /\ m <= Len(stream)
                         /\ Path(t, h, m)
                         => Path(t, h, l)'
<1> SUFFICES ASSUME NEW t, NEW h, NEW m \in Nat, NEW l \in Nat, m <= l, m <= Len(stream),
                    Path(t, h, m)
             PROVE  Path(t, h, l)'
  OBVIOUS
<1>1. Len(h) \in Nat
  BY PathMakes
<1>2. ASSUME NEW i \in 0 .. Len(h) - 1 PROVE Answered(t, h, i, l)'
  <2>1. Answered(t, h, i, m)'
    BY AnswersKept DEF Path
  <2>2. i \in Nat
    BY <1>1
  <2> QED
    BY <2>1, <2>2, AnswerStaysNext DEF AnswerStays, TreeInv
<1> QED
  BY <1>2 DEF Path

-----------------------------------------------------------------------------
(* Histories agree *)

\* A step that adds to the histories what the stream determines, and to the
\* stream what the histories explain.
HistStep ==
  /\ Grows
  /\ \A m \in 1 .. Len(stream') : m > Len(stream) =>
       Explained(m)' /\ stream'[m].hist = task[stream'[m].co].hist
  /\ \A t \in Tasks :
       \/ task'[t].hist = task[t].hist
       \/ \E r, g, n : /\ n = Len(task[t].hist) /\ g = Append(task[t].hist, r)
                       /\ task'[t].hist = g /\ Answered(t, g, n, Len(stream))'

\* Every history in memory is still answered by the stream.
LEMMA MemoryFollows ==
  ASSUME TreeInv, TreeInv', HistInv, HistStep
  PROVE  \A t \in Tasks : Path(t, task[t].hist, Len(stream))'
<1> SUFFICES ASSUME NEW t \in Tasks PROVE Path(t, task[t].hist, Len(stream))'
  OBVIOUS
<1>1. /\ Len(stream) \in Nat /\ Len(stream') \in Nat /\ Len(stream) <= Len(stream')
  BY GrowthOfStream DEF HistStep
<1>2. PICK h, m, l : h = task[t].hist /\ m = Len(stream) /\ l = Len(stream')
  OBVIOUS
<1>3. Path(t, h, m)
  BY <1>2 DEF HistInv
<1>4. Path(t, h, l)'
  BY <1>1, <1>2, <1>3, PathsKept DEF HistStep
<1>5. CASE task'[t].hist = task[t].hist
  <2>1. task'[t].hist = h /\ Len(stream') = l
    BY <1>2, <1>5
  <2> QED
    BY <1>4, <2>1
<1>6. ASSUME NEW r, NEW g, NEW n, n = Len(task[t].hist), g = Append(task[t].hist, r),
             task'[t].hist = g, Answered(t, g, n, Len(stream))'
      PROVE  Path(t, task[t].hist, Len(stream))'
  <2>1. n = Len(h) /\ g = Append(h, r) /\ Answered(t, g, n, l)'
    BY <1>2, <1>6
  <2>2. /\ n \in Nat /\ Len(g) = n + 1
        /\ IsHistory(g)
        /\ \A i \in 0 .. n : Past(g, i) = Past(h, i)
    BY <1>3, <2>1, AppendPast DEF Path
  <2>3. ASSUME NEW i \in 0 .. n - 1 PROVE Answered(t, g, i, l)'
    <3>1. Answered(t, h, i, l)'
      BY <1>4, <2>1 DEF Path
    <3>2. i \in Nat /\ Past(h, i + 1) = Past(g, i + 1)
      BY <2>2
    <3> QED
      BY <1>1, <1>2, <3>1, <3>2, AnswerStaysNext DEF AnswerStays, TreeInv
  <2>4. \A i \in 0 .. Len(g) - 1 : i = n \/ i \in 0 .. n - 1
    BY <2>2
  <2>5. Path(t, g, l)'
    BY <2>1, <2>2, <2>3, <2>4 DEF Path
  <2> QED
    BY <1>2, <1>6, <2>5
<1> QED
  BY <1>5, <1>6 DEF HistStep

\* No event disagrees with what memory has been told.
LEMMA MemoryAgrees ==
  ASSUME TreeInv, TreeInv', HistInv, HistStep,
         NEW m \in 1 .. Len(stream), NEW t \in Tasks, t = stream[m].co
  PROVE  Agree(stream[m].hist, task'[t].hist)
<1>1. /\ Len(stream) \in Nat /\ Len(stream') \in Nat /\ Len(stream) <= Len(stream')
  BY GrowthOfStream DEF HistStep
<1>2. PICK e, h, l : e = stream[m].hist /\ h = task[t].hist /\ l = Len(stream')
  OBVIOUS
<1>3. Agree(e, h) /\ Path(t, e, m - 1) /\ Path(t, h, Len(stream))
  BY <1>2 DEF HistInv, Explained
<1>4. Len(e) \in Nat /\ Len(h) \in Nat
  BY <1>3, PathMakes
<1>5. ASSUME NEW r, NEW g, NEW n, n = Len(task[t].hist), g = Append(task[t].hist, r),
             task'[t].hist = g, Answered(t, g, n, Len(stream))'
      PROVE  Agree(e, g)
  <2>1. n = Len(h) /\ g = Append(h, r) /\ Answered(t, g, n, l)'
    BY <1>2, <1>5
  <2>2. /\ Len(g) = n + 1 /\ n \in Nat
        /\ \A i \in 1 .. n : g[i] = h[i]
        /\ Past(g, n) = Past(h, n)
    <3>1. IsHistory(h)
      BY <1>3 DEF Path
    <3>2. /\ Len(g) = Len(h) + 1
          /\ \A i \in 1 .. Len(h) : g[i] = h[i]
          /\ \A i \in 0 .. Len(h) : Past(g, i) = Past(h, i)
      BY <2>1, <3>1, AppendPast
    <3> QED
      BY <1>4, <2>1, <3>2
  <2>3. ASSUME n < Len(e) PROVE e[n + 1] = g[n + 1]
    <3>1. Past(e, n) = Past(h, n)
      BY <1>3, <1>4, <2>1, <2>3, AgreeingPast
    <3>2. PICK k : k = m - 1
      OBVIOUS
    <3>3. Answered(t, e, n, k)
      BY <1>3, <1>4, <2>2, <2>3, <3>2 DEF Path
    <3>4. Answered(t, e, n, k)'
      <4>1. k \in Nat /\ k <= Len(stream)
        BY <1>1, <3>2
      <4> QED
        BY <3>3, <4>1, AnswersKept DEF HistStep
    <3>5. OneAnswer'
      BY OneAnswerNext DEF TreeInv
    <3>6. Past(e, n) = Past(g, n)
      BY <2>2, <3>1
    <3>7. n \in Nat /\ Answered(t, g, n, l)'
      BY <2>1, <2>2
    <3> QED
      BY <3>4, <3>5, <3>6, <3>7 DEF OneAnswer
  <2> QED
    BY <1>3, <1>4, <2>1, <2>2, <2>3 DEF Agree
<1> QED
  BY <1>2, <1>3, <1>5 DEF HistStep

\* Every event is still explained.
LEMMA EventsStay ==
  ASSUME TreeInv, TreeInv', HistInv, HistStep, NEW m \in 1 .. Len(stream')
  PROVE  Explained(m)'
<1>1. /\ Len(stream) \in Nat /\ Len(stream') \in Nat
      /\ \A i \in 1 .. Len(stream) : stream'[i] = stream[i]
  BY GrowthOfStream DEF HistStep
<1>2. CASE m > Len(stream)
  BY <1>2 DEF HistStep
<1>3. CASE m <= Len(stream)
  <2>1. m \in 1 .. Len(stream)
    BY <1>1, <1>3
  <2>2. PICK e, t, h, n : e = stream[m] /\ t = e.co /\ h = e.hist /\ n = Len(h)
    OBVIOUS
  <2>3. stream'[m] = e
    BY <1>1, <2>1, <2>2
  <2>4. /\ t \in Tasks /\ Path(t, h, m - 1)
        /\ \/ /\ e.type = "yield" /\ Doing(t, h, n).kind = "effect"
              /\ Doing(t, h, n).effect = e.effect
              /\ Place(m) = Taken(t, h, n)
           \/ e.type = "close" /\ (e.result = Cancelled \/ EndsWith(t, h, e.result))
    BY <2>1, <2>2 DEF HistInv, Explained
  <2>5. PICK k : k = m - 1
    OBVIOUS
  <2>6. Path(t, h, k)'
    <3>1. k \in Nat /\ k <= k /\ k <= Len(stream)
      BY <1>1, <2>1, <2>5
    <3> QED
      BY <2>4, <2>5, <3>1, PathsKept DEF HistStep
  <2>7. Place(m)' = Place(m)
    BY <2>1, GrowthOfYields DEF HistStep
  <2>8. Doing(t, h, n)' = Doing(t, h, n) /\ Taken(t, h, n)' = Taken(t, h, n)
    BY KernelsStay DEF HistStep, Grows
  <2>9. ASSUME NEW r, EndsWith(t, h, r) PROVE EndsWith(t, h, r)'
    BY <2>2, <2>8, <2>9 DEF EndsWith
  <2>10. PICK r : r = e.result
    OBVIOUS
  <2>11. e.type = "close" => r = Cancelled \/ EndsWith(t, h, r)'
    BY <2>4, <2>9, <2>10
  <2> QED
    BY <2>2, <2>3, <2>4, <2>5, <2>6, <2>7, <2>8, <2>10, <2>11 DEF Explained, Cancelled
<1> QED
  BY <1>1, <1>2, <1>3

\* The histories of the events agree with memory and with one another.
LEMMA EventsAgree ==
  ASSUME TreeInv, TreeInv', HistInv, HistStep, NEW m \in 1 .. Len(stream')
  PROVE  /\ Agree(stream'[m].hist, task'[stream'[m].co].hist)
         /\ \A l \in 1 .. Len(stream') :
              stream'[l].co = stream'[m].co => Agree(stream'[l].hist, stream'[m].hist)
<1>1. /\ Len(stream) \in Nat /\ Len(stream') \in Nat
      /\ Len(stream') <= Len(stream) + 1
      /\ \A i \in 1 .. Len(stream) : stream'[i] = stream[i]
  BY GrowthOfStream DEF HistStep
<1>2. \A i \in 1 .. Len(stream') : i \in 1 .. Len(stream) \/ i = Len(stream) + 1
  BY <1>1
<1>3. \A i \in 1 .. Len(stream') : stream'[i].co \in Tasks
  BY EventsStay DEF Explained
<1>4. \A i \in 1 .. Len(stream) : Agree(stream[i].hist, task[stream[i].co].hist)
  BY DEF HistInv
<1>5. \A t \in Tasks : Len(task[t].hist) \in Nat
  BY PathMakes DEF HistInv
<1>6. \A h, g : Agree(h, g) /\ Len(h) \in Nat /\ Len(g) \in Nat => Agree(g, h)
  BY DEF Agree
<1>7. \A i \in 1 .. Len(stream) : Len(stream[i].hist) \in Nat
  BY PathMakes DEF HistInv, Explained
<1>8. ASSUME m = Len(stream) + 1 PROVE stream'[m].hist = task[stream'[m].co].hist
  BY <1>1, <1>8 DEF HistStep
<1>9. Agree(stream'[m].hist, task'[stream'[m].co].hist)
  <2>1. CASE m \in 1 .. Len(stream)
    BY <1>1, <1>3, <2>1, MemoryAgrees
  <2>2. CASE m = Len(stream) + 1
    <3>1. PICK t \in Tasks : t = stream'[m].co /\ stream'[m].hist = task[t].hist
      BY <1>3, <1>8, <2>2
    <3>2. CASE task'[t].hist = task[t].hist
      BY <3>1, <3>2 DEF Agree
    <3>3. ASSUME NEW r, task'[t].hist = Append(task[t].hist, r)
          PROVE  Agree(task[t].hist, task'[t].hist)
      <4>1. IsHistory(task[t].hist)
        BY DEF HistInv, Path
      <4>2. \A i \in 1 .. Len(task[t].hist) : Append(task[t].hist, r)[i] = task[t].hist[i]
        BY <4>1, AppendPast
      <4> QED
        BY <3>3, <4>2 DEF Agree
    <3> QED
      BY <3>1, <3>2, <3>3 DEF HistStep
  <2> QED
    BY <1>2, <2>1, <2>2
<1>10. ASSUME NEW l \in 1 .. Len(stream'), stream'[l].co = stream'[m].co
       PROVE  Agree(stream'[l].hist, stream'[m].hist)
  <2>1. CASE l \in 1 .. Len(stream) /\ m \in 1 .. Len(stream)
    BY <1>1, <1>10, <2>1 DEF HistInv
  <2>2. CASE l \in 1 .. Len(stream) /\ m = Len(stream) + 1
    BY <1>1, <1>4, <1>8, <1>10, <2>2
  <2>3. CASE l = Len(stream) + 1 /\ m \in 1 .. Len(stream)
    <3>1. stream'[l].hist = task[stream'[l].co].hist
      BY <1>1, <2>3 DEF HistStep
    <3>2. Agree(stream'[m].hist, stream'[l].hist)
      BY <1>1, <1>4, <1>10, <2>3, <3>1
    <3>3. Len(stream'[l].hist) \in Nat /\ Len(stream'[m].hist) \in Nat
      BY <1>1, <1>3, <1>5, <1>7, <2>3, <3>1
    <3> QED
      BY <1>6, <3>2, <3>3
  <2>4. CASE l = m
    BY <2>4 DEF Agree
  <2> QED
    BY <1>2, <2>1, <2>2, <2>3, <2>4
<1> QED
  BY <1>9, <1>10

\* The places of a coroutine are filled from the first on.
LEMMA PlacesFilled ==
  ASSUME TreeInv, TreeInv', HistInv, HistStep, NEW t \in Tasks,
         NEW n \in 0 .. Cardinality(YieldsOf(t)') - 1
  PROVE  \E i \in YieldsOf(t)' : Place(i)' = n
<1>1. /\ Len(stream) \in Nat /\ Len(stream') \in Nat
      /\ Len(stream') <= Len(stream) + 1
  BY GrowthOfStream DEF HistStep
<1>2. /\ YieldsOf(t) \subseteq YieldsOf(t)'
      /\ \A i \in YieldsOf(t)' : i <= Len(stream) => i \in YieldsOf(t)
      /\ \A i \in 1 .. Len(stream) : Place(i)' = Place(i)
  BY GrowthOfYields DEF HistStep
<1>3. IsFiniteSet(YieldsOf(t)) /\ Cardinality(YieldsOf(t)) \in Nat
  BY PlaceFacts DEF PlacesApart, TreeInv
<1> DEFINE last == Len(stream) + 1
<1>4. /\ \A i \in YieldsOf(t) : i \in 1 .. Len(stream)
      /\ \A i \in YieldsOf(t)' : i \in 1 .. Len(stream) \/ i = last
  BY <1>1 DEF YieldsOf
<1>5. ASSUME n \in 0 .. Cardinality(YieldsOf(t)) - 1
      PROVE  \E i \in YieldsOf(t)' : Place(i)' = n
  BY <1>2, <1>4, <1>5 DEF HistInv
<1>6. CASE last \notin YieldsOf(t)'
  <2>1. \A i \in YieldsOf(t)' : i \in YieldsOf(t)
    BY <1>1, <1>2, <1>4, <1>6
  <2>2. YieldsOf(t)' = YieldsOf(t)
    BY <1>2, <2>1
  <2> QED
    BY <1>5, <2>2
<1>7. CASE last \in YieldsOf(t)'
  <2>1. YieldsOf(t)' = YieldsOf(t) \union {last} /\ last \notin YieldsOf(t)
    BY <1>1, <1>2, <1>4, <1>7
  <2>2. Cardinality(YieldsOf(t)') = Cardinality(YieldsOf(t)) + 1
    <3> DEFINE Y == YieldsOf(t)
    <3>1. Cardinality(Y \union {last}) = Cardinality(Y) + 1
      <4> HIDE DEF Y, last
      <4> QED BY <1>3, <2>1, FS_AddElement DEF Y
    <3> QED
      BY <2>1, <3>1
  <2>3. PICK l : l = last
    OBVIOUS
  <2>4. Place(l)' = Cardinality(YieldsOf(t))
    <3>1. l \in YieldsOf(t)' /\ l \in Nat
      BY <1>1, <1>7, <2>3
    <3>2. Place(l)' = Cardinality({j \in YieldsOf(t)' : j < l})
      BY <3>1, PlaceFactsNext DEF PlacesApart, TreeInv
    <3>3. {j \in YieldsOf(t)' : j < l} = YieldsOf(t)
      BY <1>1, <1>2, <1>4, <2>3
    <3> QED
      BY <3>2, <3>3
  <2>5. n = Cardinality(YieldsOf(t)) \/ n \in 0 .. Cardinality(YieldsOf(t)) - 1
    BY <1>3, <2>2
  <2> QED
    BY <1>5, <1>7, <2>3, <2>4, <2>5
<1> QED
  BY <1>6, <1>7

LEMMA HistStepKeeps ==
  ASSUME TreeInv, TreeInv', HistInv, HistStep
  PROVE  HistInv'
BY MemoryFollows, EventsStay, EventsAgree, PlacesFilled DEF HistInv

-----------------------------------------------------------------------------
(* What a step does to a coroutine of a calm tree *)

Same(t) ==
  /\ task'[t].role = task[t].role /\ task'[t].kind = task[t].kind
  /\ task'[t].base = task[t].base /\ task'[t].count = task[t].count
Still(t) == task'[t] = task[t] /\ YieldsOf(t)' = YieldsOf(t)
\* It goes on, or asks for something.
Works(t) ==
  /\ task[t].pc \in AtWork \union {"leaving"} /\ task'[t].pc \in AtWork \union {"compound"}
  /\ task'[t].role = task[t].role
  /\ \/ /\ task'[t].base = task[t].base /\ task'[t].kind = task[t].kind
        /\ task'[t].count \in {task[t].count, task[t].count + 1}
     \/ task'[t].base = task[t].count /\ task'[t].count \in Nat
\* All its branches have returned.
Leaves(t) == task[t].pc = "compound" /\ task'[t].pc = "leaving" /\ Same(t)
\* Its kernel has ended, and it records the Close.
Shuts(t) ==
  /\ task[t].pc \in AtWork /\ task'[t].pc = "closing" /\ Same(t)
  /\ task'[t].hist = task[t].hist
  /\ EndsWith(t, task[t].hist, task[t].result)' /\ CloseOf(t)' = task'[t].result
  /\ task'[t].result.status = "error" /\ t # Root =>
       task[t].role = "branch" /\ task[Parent(t)].kind = "scope"
Halts(t) ==
  /\ task[t].pc \notin {"unborn", "ended"} /\ task'[t].pc = "halting" /\ Same(t)
  /\ task'[t].result = Cancelled
  /\ t # Root => task[Parent(t)].pc \in {"halting", "closing"}
Stops(t) ==
  /\ task[t].pc \in {"closing", "halting"} /\ task'[t].pc = "ended" /\ Same(t)
  /\ task'[t].hist = task[t].hist /\ task'[t].result = task[t].result
  /\ \A c \in Children(t) : task[c].pc = "ended"
Born(t) ==
  /\ task[t].pc = "unborn" /\ YieldsOf(t)' = YieldsOf(t)
  /\ \E role \in {"branch", "spawned"} : task'[t] = Fresh(t, role)

CalmStep ==
  /\ HistStep
  /\ \A m \in 1 .. Len(stream') :
       m > Len(stream) /\ stream'[m].type = "close" /\ stream'[m].result = Cancelled =>
       task[stream'[m].co].pc = "halting"
  /\ \A t \in Tasks :
       \/ Still(t) \/ Shuts(t) \/ Halts(t) \/ Stops(t) \/ Born(t)
       \/ (Works(t) \/ Leaves(t)) /\ Kern(t)' /\ Waits(t)'

\* The numbers of a coroutine's branches.
LEMMA BranchNumber ==
  ASSUME NEW c \in Tasks, c # Root, NEW b \in Nat, NEW n \in Nat
  PROVE  c \in {Child(Parent(c), k) : k \in b .. n - 1} <=> c[Len(c)] \in b .. n - 1
<1>1. Parent(c) \in Tasks /\ c[Len(c)] \in Nat /\ c = Child(Parent(c), c[Len(c)])
  BY ParentFacts
<1>2. ASSUME NEW k \in b .. n - 1, c = Child(Parent(c), k) PROVE c[Len(c)] = k
  BY <1>1, <1>2, ChildFacts
<1> QED
  BY <1>1, <1>2

\* A kernel's end does not depend on the stream.
LEMMA EndStays ==
  ASSUME program' = program, NEW t, NEW h, NEW r, EndsWith(t, h, r)
  PROVE  EndsWith(t, h, r)'
<1>1. PICK n : n = Len(h)
  OBVIOUS
<1>2. Doing(t, h, n)' = Doing(t, h, n)
  BY KernelsStay
<1> QED
  BY <1>1, <1>2 DEF EndsWith

\* Children of coroutines that have been born.
LEMMA BornBefore ==
  ASSUME TreeInv, NEW c \in Tasks, c # Root, task[c].pc # "unborn"
  PROVE  /\ Parent(c) \in Tasks /\ c \in Children(Parent(c))
         /\ c[Len(c)] \in Nat /\ task[Parent(c)].count \in Nat
         /\ c[Len(c)] < task[Parent(c)].count
<1>1. Parent(c) \in Tasks /\ c[Len(c)] \in Nat /\ c = Child(Parent(c), c[Len(c)])
  BY ParentFacts
<1>2. task[Parent(c)].count \in Nat
  BY <1>1 DEF TreeInv, ShapeInv
<1>3. c[Len(c)] < task[Parent(c)].count
  BY <1>1, <1>2 DEF TreeInv, BirthInv
<1> QED
  BY <1>1, <1>2, <1>3 DEF Children

\* Who waits goes on waiting for the same.
LEMMA WaitsStay ==
  ASSUME ReplayInv, TreeInv', CalmStep, NEW t \in Tasks, Still(t)
  PROVE  Waits(t)'
<1>1. task'[t] = task[t] /\ Waits(t)
  BY DEF Still, ReplayInv
<1>2. PICK h, n : h = task[t].hist /\ n = Len(h)
  OBVIOUS
<1>3. task'[t].hist = h
  BY <1>1, <1>2
<1>4. Doing(t, h, n)' = Doing(t, h, n) /\ Made(t, h, n)' = Made(t, h, n)
  BY KernelsStay DEF CalmStep, HistStep, Grows
<1>5. Children(t)' = Children(t) /\ Branches(t)' = Branches(t)
  BY <1>1 DEF Children, Branches
<1>6. /\ Branches(t) \subseteq Children(t)
      /\ \A c \in Children(t) : c \in Tasks
  <2>1. task[t].count \in Nat /\ task[t].base \in Nat
    BY DEF ReplayInv, TreeInv, ShapeInv
  <2>2. \A k \in task[t].base .. task[t].count - 1 : k \in 0 .. task[t].count - 1
    BY <2>1
  <2> QED
    BY <2>2 DEF Branches, Children, ReplayInv, TreeInv, ScopeInv
<1>7. \A c \in Tasks : /\ task[c].role # "none" => task'[c].role = task[c].role
                       /\ task[c].pc = "ended" => task'[c] = task[c]
  <2> SUFFICES ASSUME NEW c \in Tasks
               PROVE  /\ task[c].role # "none" => task'[c].role = task[c].role
                      /\ task[c].pc = "ended" => task'[c] = task[c]
    OBVIOUS
  <2>1. task[c].pc = "unborn" => task[c].role = "none"
    BY DEF ReplayInv, Kern, Unborn
  <2>2. CASE Still(c)
    BY <2>2 DEF Still
  <2>3. CASE Born(c)
    BY <2>1, <2>3 DEF Born
  <2>4. CASE Works(c) \/ Leaves(c) \/ Shuts(c) \/ Halts(c) \/ Stops(c)
    BY <2>4 DEF Works, Leaves, Shuts, Halts, Stops, Same, AtWork
  <2> QED
    BY <2>2, <2>3, <2>4 DEF CalmStep
<1>8. ASSUME task'[t].pc = "joining"
      PROVE  /\ Doing(t, h, n).kind = "join" /\ Doing(t, h, n).child = task'[t].awaits
             /\ task'[t].awaits \in Children(t) /\ task'[task'[t].awaits].role = "spawned"
  BY <1>1, <1>2, <1>6, <1>7, <1>8 DEF Waits
<1>9. ASSUME task'[t].pc \in {"compound", "leaving"}
      PROVE  /\ Doing(t, h, n).kind = task'[t].kind /\ task'[t].kind \in {"all", "scope"}
             /\ Makes(Doing(t, h, n)) \in Nat \ {0}
             /\ task'[t].base = Made(t, h, n)
             /\ task'[t].count = task'[t].base + Makes(Doing(t, h, n))
             /\ \A c \in Branches(t) : task'[c].role = "branch"
  BY <1>1, <1>2, <1>6, <1>7, <1>9 DEF Waits
<1>10. ASSUME task'[t].pc = "leaving"
       PROVE  \A c \in Branches(t) : task'[c] = task[c]
  BY <1>1, <1>6, <1>7, <1>10 DEF Waits
<1>11. task'[t].pc = "leaving" => \A k \in 1 .. task[t].count - task[t].base :
         task'[Child(t, task[t].base + k - 1)] = task[Child(t, task[t].base + k - 1)]
  <2>1. task[t].count \in Nat /\ task[t].base \in Nat
    BY DEF ReplayInv, TreeInv, ShapeInv
  <2>2. \A k \in 1 .. task[t].count - task[t].base :
          task[t].base + k - 1 \in task[t].base .. task[t].count - 1
    BY <2>1
  <2> QED
    BY <1>10, <2>2 DEF Branches
<1>12. ASSUME task'[t].pc = "leaving"
       PROVE  /\ \A c \in Branches(t) : task'[c].pc = "ended" /\ task'[c].result # Cancelled
              /\ task'[t].kind = "all" =>
                   /\ \A c \in Branches(t) : task'[c].result.status = "ok"
                   /\ task'[t].settled = Collected([k \in 1 .. task'[t].count - task'[t].base |->
                                      task'[Child(t, task'[t].base + k - 1)].result])
              /\ task'[t].kind = "scope" => \A c \in Branches(t) : task'[t].settled = task'[c].result
  <2>1. /\ \A c \in Branches(t) : task[c].pc = "ended" /\ task[c].result # Cancelled
        /\ task[t].kind = "all" =>
             /\ \A c \in Branches(t) : task[c].result.status = "ok"
             /\ task[t].settled = Collected([k \in 1 .. task[t].count - task[t].base |->
                                task[Child(t, task[t].base + k - 1)].result])
        /\ task[t].kind = "scope" => \A c \in Branches(t) : task[t].settled = task[c].result
    BY <1>1, <1>12 DEF Waits
  <2>2. [k \in 1 .. task[t].count - task[t].base |->
           task[Child(t, task[t].base + k - 1)].result]
        = [k \in 1 .. task[t].count - task[t].base |->
             task'[Child(t, task[t].base + k - 1)].result]
    BY <1>11, <1>12
  <2>3. \A c \in Branches(t) : task'[c] = task[c]
    BY <1>10, <1>12
  <2> QED
    BY <1>1, <2>1, <2>2, <2>3
<1> QED
  BY <1>2, <1>3, <1>4, <1>5, <1>8, <1>9, <1>12 DEF Waits, Cancelled, Collected, Child

\* What memory knows of the journal goes on holding while nothing is told.
LEMMA KernStays ==
  ASSUME ReplayInv, TreeInv', CalmStep, NEW t \in Tasks, Still(t)
  PROVE  Kern(t)'
<1>1. /\ task'[t] = task[t] /\ Kern(t) /\ YieldsOf(t)' = YieldsOf(t) /\ mark' = mark
  BY DEF Still, ReplayInv, CalmStep, HistStep, Grows
<1>2. PICK h, n : h = task[t].hist /\ n = Len(h)
  OBVIOUS
<1>3. task'[t].hist = h
  BY <1>1, <1>2
<1>4. /\ Doing(t, h, n)' = Doing(t, h, n) /\ Made(t, h, n)' = Made(t, h, n)
      /\ Taken(t, h, n)' = Taken(t, h, n)
  BY KernelsStay DEF CalmStep, HistStep, Grows
<1>5. \A i \in YieldsOf(t) : Place(i)' = Place(i)
  BY GrowthOfYields DEF CalmStep, HistStep, ReplayInv, YieldsOf
<1>6. Entries(t)' = Entries(t)
  BY <1>1, <1>5 DEF Entries
<1>7. HasEntry(t)' <=> HasEntry(t)
  BY <1>6 DEF HasEntry
<1>8. task'[t].pc = "unborn" => task'[t] = Unborn /\ \A i \in YieldsOf(t)' : i <= mark'
  BY <1>1 DEF Kern
<1>9. ASSUME task'[t].pc \in Live
      PROVE  /\ task'[t].result = Pending
             /\ Taken(t, h, n) <= Cardinality(YieldsOf(t)')
             /\ \/ task'[t].cursor = Taken(t, h, n) /\ \A i \in YieldsOf(t)' : i <= mark'
                \/ Taken(t, h, n) = Cardinality(YieldsOf(t)') /\ ~ HasEntry(t)'
  BY <1>1, <1>2, <1>7, <1>9 DEF Kern
<1>10. /\ task'[t].role # "timeout"
       /\ task'[t].pc \in AtWork => task'[t].count = Made(t, h, n)
       /\ task'[t].pc = "dispatched" => Doing(t, h, n).kind = "effect" /\ ~ HasEntry(t)'
  BY <1>1, <1>2, <1>7 DEF Kern
<1> QED
  BY <1>2, <1>3, <1>4, <1>8, <1>9, <1>10 DEF Kern, Pending, Unborn, Live, AtWork

\* A coroutine that begins has no results, no children and no entries.
LEMMA BornKern ==
  ASSUME ReplayInv, TreeInv', CalmStep, NEW t \in Tasks, Born(t)
  PROVE  Kern(t)' /\ Waits(t)'
<1>1. PICK role \in {"branch", "spawned"} : task'[t] = Fresh(t, role)
  BY DEF Born
<1>2. /\ task'[t].pc \in {"step", "closing"} /\ task'[t].role = role /\ task'[t].hist = <<>>
      /\ task'[t].cursor = 0 /\ task'[t].count = 0
      /\ task'[t].pc = "step" => task'[t].result = Pending
  BY <1>1 DEF Fresh
<1>3. PICK h : h = <<>>
  OBVIOUS
<1>4. task'[t].hist = h /\ Len(h) = 0
  BY <1>2, <1>3
<1>5. /\ Made(t, h, 0)' = 0 /\ Taken(t, h, 0)' = 0
  BY NothingYet, KernelsStay DEF CalmStep, HistStep, Grows
<1>6. mark' = mark /\ \A i \in YieldsOf(t)' : i <= mark
  BY DEF Born, ReplayInv, Kern, CalmStep, HistStep, Grows
<1>7. Cardinality(YieldsOf(t)') \in Nat
  BY PlaceFactsNext DEF PlacesApart, TreeInv
<1>8. Kern(t)'
  BY <1>2, <1>4, <1>5, <1>6, <1>7 DEF Kern, Pending, Unborn, AtWork, Live
<1>9. Waits(t)'
  BY <1>2 DEF Waits
<1> QED
  BY <1>8, <1>9

\* A coroutine that no longer works has nothing to be told.
LEMMA OverKern ==
  ASSUME ReplayInv, NEW t \in Tasks, Shuts(t) \/ Halts(t) \/ Stops(t)
  PROVE  Kern(t)' /\ Waits(t)'
<1>1. task'[t].pc \in {"closing", "halting", "ended"} /\ task'[t].role = task[t].role
  BY DEF Shuts, Halts, Stops, Same
<1>2. task[t].role # "timeout"
  BY DEF ReplayInv, Kern
<1>3. Kern(t)'
  BY <1>1, <1>2 DEF Kern, AtWork, Live
<1>4. Waits(t)'
  BY <1>1 DEF Waits
<1> QED
  BY <1>3, <1>4

\* No step makes a branch of what was none of its parent's.
LEMMA BranchStays ==
  ASSUME ReplayInv, TreeInv', CalmStep, NEW c \in Tasks, c # Root,
         task[c].pc # "unborn", c \in Branches(Parent(c))'
  PROVE  c \in Branches(Parent(c)) /\ task'[Parent(c)].kind = task[Parent(c)].kind
<1>1. PICK p, k : p = Parent(c) /\ k = c[Len(c)]
  OBVIOUS
<1>2. p \in Tasks /\ k \in Nat /\ k < task[p].count /\ task[p].count \in Nat
  BY <1>1, BornBefore DEF ReplayInv
<1>3. task[p].base \in Nat /\ task'[p].base \in Nat /\ task'[p].count \in Nat
  BY <1>2 DEF ReplayInv, TreeInv, ShapeInv
<1>4. k \in task'[p].base .. task'[p].count - 1
  <2>1. c \in {Child(Parent(c), j) : j \in task'[p].base .. task'[p].count - 1}
    BY <1>1 DEF Branches, Child
  <2> QED
    BY <1>1, <1>3, <2>1, BranchNumber
<1>5. task[p].pc # "unborn"
  BY <1>2 DEF ReplayInv, TreeInv, BirthInv
<1>6. task'[p].base = task[p].base /\ task'[p].kind = task[p].kind
  <2>1. CASE Works(p)
    BY <1>2, <1>4, <2>1 DEF Works
  <2>2. CASE Still(p)
    BY <2>2 DEF Still
  <2>3. CASE Born(p)
    BY <1>5, <2>3 DEF Born
  <2>4. CASE Leaves(p) \/ Shuts(p) \/ Halts(p) \/ Stops(p)
    BY <2>4 DEF Leaves, Shuts, Halts, Stops, Same
  <2> QED
    BY <1>2, <2>1, <2>2, <2>3, <2>4 DEF CalmStep
<1>7. k \in task[p].base .. task[p].count - 1
  BY <1>2, <1>3, <1>4, <1>6
<1>8. c \in {Child(Parent(c), j) : j \in task[p].base .. task[p].count - 1}
  BY <1>1, <1>2, <1>3, <1>7, BranchNumber
<1> QED
  BY <1>1, <1>6, <1>8 DEF Branches

\* A coroutine has ended as its kernel did, or as a halt ends it.
LEMMA EndsStay ==
  ASSUME ReplayInv, TreeInv', CalmStep, NEW c \in Tasks
  PROVE  Ends(c)'
<1>1. PICK h, r : h = task[c].hist /\ r = task[c].result
  OBVIOUS
<1>2. Ends(c) /\ program' = program
  BY DEF ReplayInv, CalmStep, HistStep, Grows
<1>3. task[c].pc \in {"closing", "ended"} => CloseOf(c)' = CloseOf(c)
  <2>1. task[c].pc \in {"closing", "ended"} => Closes(c) # {}
    BY DEF ReplayInv, TreeInv, CloseInv
  <2> QED
    BY <2>1, GrowthOfCloses DEF ReplayInv, CalmStep, HistStep
<1>4. EndsWith(c, h, r) => EndsWith(c, h, r)'
  BY <1>2, EndStays
<1>5. ASSUME task'[c].pc \in {"closing", "ended"}, task'[c].result # Cancelled
      PROVE  /\ EndsWith(c, task[c].hist, task[c].result)' /\ CloseOf(c)' = task'[c].result
             /\ Shuts(c) \/ Stops(c) \/ Still(c)
  <2>1. CASE Still(c)
    BY <1>1, <1>2, <1>3, <1>4, <1>5, <2>1 DEF Still, Ends
  <2>2. CASE Shuts(c)
    BY <2>2 DEF Shuts
  <2>3. CASE Stops(c)
    <3>1. task'[c].hist = h /\ task'[c].result = r /\ task[c].pc \in {"closing", "halting"}
      BY <1>1, <2>3 DEF Stops
    <3>2. task[c].pc = "closing" /\ EndsWith(c, h, r) /\ CloseOf(c) = r
      BY <1>1, <1>2, <1>5, <3>1 DEF Ends
    <3> QED
      BY <1>3, <1>4, <2>3, <3>1, <3>2
  <2>4. CASE Born(c)
    BY <1>5, <2>4 DEF Born, Fresh
  <2>5. CASE Works(c) \/ Leaves(c) \/ Halts(c)
    BY <1>5, <2>5 DEF Works, Leaves, Halts, AtWork
  <2> QED
    BY <2>1, <2>2, <2>3, <2>4, <2>5 DEF CalmStep
<1>6. task'[c].pc = "halting" => task'[c].result = Cancelled
  <2>1. CASE Still(c)
    BY <1>2, <2>1 DEF Still, Ends
  <2>2. CASE Born(c)
    BY <2>2 DEF Born, Fresh
  <2>3. CASE Shuts(c) \/ Stops(c) \/ Works(c) \/ Leaves(c)
    BY <2>3 DEF Shuts, Stops, Works, Leaves, AtWork
  <2>4. CASE Halts(c)
    BY <2>4 DEF Halts
  <2> QED
    BY <2>1, <2>2, <2>3, <2>4 DEF CalmStep
<1>7. ASSUME task'[c].pc \in {"closing", "ended"}, task'[c].result.status = "error", c # Root
      PROVE  /\ task'[c].role = "branch"
             /\ c \in Branches(Parent(c))' => task'[Parent(c)].kind = "scope"
  <2>1. task'[c].result # Cancelled
    BY <1>7 DEF Cancelled
  <2>2. CASE Shuts(c)
    <3>1. /\ task[c].role = "branch" /\ task[Parent(c)].kind = "scope"
          /\ task[c].pc # "unborn" /\ task'[c].role = task[c].role
      BY <1>7, <2>2 DEF Shuts, AtWork, Same
    <3> QED
      BY <1>7, <3>1, BranchStays
  <2>3. CASE Stops(c) \/ Still(c)
    <3>1. /\ task[c].pc \in {"closing", "halting", "ended"}
          /\ task'[c].role = task[c].role /\ task'[c].result = task[c].result
      BY <1>7, <2>3 DEF Stops, Still, Same
    <3>2. task[c].pc \in {"closing", "ended"}
      BY <1>2, <2>1, <3>1 DEF Ends
    <3>3. /\ task[c].role = "branch"
          /\ c \in Branches(Parent(c)) => task[Parent(c)].kind = "scope"
      BY <1>2, <1>7, <3>1, <3>2 DEF Ends
    <3> QED
      BY <1>7, <3>1, <3>3, BranchStays
  <2> QED
    BY <1>5, <1>7, <2>1, <2>2, <2>3
<1> QED
  BY <1>5, <1>6, <1>7 DEF Ends, Cancelled

\* What is cancelled has a parent that is closed, or on the way to it.
LEMMA CancelsStay ==
  ASSUME ReplayInv, TreeInv', CalmStep, NEW c \in Tasks
  PROVE  Cancels(c)'
<1>1. Cancels(c) /\ Grows /\ TreeInv
  BY DEF ReplayInv, CalmStep, HistStep
<1>2. \A t : /\ WasCancelled(t)' = WasCancelled(t) /\ HasClose(t)' = HasClose(t)
             /\ Closes(t) # {} => Closes(t)' = Closes(t)
             /\ \A i \in Closes(t)' : i <= Len(stream) => i \in Closes(t)
  BY <1>1, GrowthOfCloses
<1>3. WasCancelled(c)' => task'[c].pc \in {"unborn", "closing", "halting", "ended"}
  <2> SUFFICES ASSUME WasCancelled(c)
               PROVE  task'[c].pc \in {"unborn", "closing", "halting", "ended"}
    BY <1>2
  <2>1. task[c].pc \in {"unborn", "closing", "halting", "ended"}
    BY <1>1 DEF Cancels
  <2>2. CASE Still(c)
    BY <2>1, <2>2 DEF Still
  <2>3. CASE Born(c)
    BY <2>3 DEF Born, Fresh
  <2>4. CASE Works(c) \/ Leaves(c) \/ Shuts(c) \/ Halts(c) \/ Stops(c)
    BY <2>1, <2>4 DEF Works, Leaves, Shuts, Halts, Stops, AtWork
  <2> QED
    BY <2>2, <2>3, <2>4 DEF CalmStep
<1>4. ASSUME c # Root
      PROVE  LET p == Parent(c)
             IN /\ WasCancelled(c)' => HasClose(p)'
                /\ \A i \in Closes(c)' : stream'[i].result = Cancelled =>
                     Closes(p)' # {} \/ (task'[p].pc = "halting" /\ task'[p].count > 0)
                /\ task'[c].pc = "halting" => task'[p].pc \in {"halting", "closing"}
                /\ task'[c].pc \in {"closing", "ended"} /\ task'[c].result = Cancelled =>
                     task'[p].pc \in {"halting", "closing", "ended"} \/ WasCancelled(c)'
  <2>1. PICK p \in Tasks : p = Parent(c)
    BY <1>4, ParentFacts
  <2>2. /\ WasCancelled(c) => HasClose(p)
        /\ \A i \in Closes(c) : stream[i].result = Cancelled =>
             Closes(p) # {} \/ (task[p].pc = "halting" /\ task[p].count > 0)
        /\ task[c].pc = "halting" => task[p].pc \in {"halting", "closing"}
        /\ task[c].pc \in {"closing", "ended"} /\ task[c].result = Cancelled =>
             task[p].pc \in {"halting", "closing", "ended"} \/ WasCancelled(c)
    BY <1>1, <1>4, <2>1 DEF Cancels
  <2>3. WasCancelled(c)' => HasClose(p)'
    BY <1>2, <2>2
  \* Its parent: halted, closed or ended it stays, and it ends after its children.
  <2>4. \/ /\ task'[p].pc \in {"halting", "closing"} /\ task'[p].count = task[p].count
           /\ task[p].pc = "halting" => task'[p].pc = "halting"
        \/ /\ task'[p].pc = "ended"
           /\ \/ task[p].pc = "ended"
              \/ \A b \in Children(p) : task[b].pc = "ended"
        \/ task[p].pc \notin {"halting", "closing", "ended"}
    <3>1. CASE Still(p)
      BY <3>1 DEF Still
    <3>2. CASE Stops(p)
      BY <3>2 DEF Stops
    <3>3. CASE Halts(p)
      BY <3>3 DEF Halts, Same
    <3>4. CASE Works(p) \/ Leaves(p) \/ Shuts(p) \/ Born(p)
      BY <3>4 DEF Works, Leaves, Shuts, Born, AtWork
    <3> QED
      BY <3>1, <3>2, <3>3, <3>4 DEF CalmStep
  <2>5. task'[p].pc = "ended" \/ task'[p].pc = "closing" => Closes(p)' # {}
    BY DEF TreeInv, CloseInv
  <2>6. ASSUME NEW i \in Closes(c)', stream'[i].result = Cancelled
        PROVE  Closes(p)' # {} \/ (task'[p].pc = "halting" /\ task'[p].count > 0)
    <3>1. /\ Len(stream) \in Nat
          /\ \A j \in 1 .. Len(stream) : stream'[j] = stream[j]
      BY <1>1, GrowthOfStream
    <3>2. CASE i \in Closes(c)
      <4>1. stream[i].result = Cancelled
        BY <2>6, <3>1, <3>2 DEF Closes
      <4>2. Closes(p) # {} \/ (task[p].pc = "halting" /\ task[p].count > 0)
        BY <2>2, <3>2, <4>1
      <4> QED
        BY <1>2, <2>4, <2>5, <4>2
    <3>3. CASE i \notin Closes(c)
      <4>1. i \in 1 .. Len(stream') /\ stream'[i].co = c /\ stream'[i].type = "close"
        BY DEF Closes
      <4>2. i > Len(stream)
        <5>1. Len(stream') \in Nat
          BY <1>1, GrowthOfStream
        <5> QED
          BY <1>2, <3>1, <3>3, <4>1, <5>1
      <4>3. task[c].pc = "halting"
        BY <2>6, <4>1, <4>2 DEF CalmStep
      <4>4. task[p].pc \in {"halting", "closing"} /\ task[p].count > 0
        BY <1>1, <1>4, <2>1, <2>2, <4>3, BornBefore
      <4> QED
        BY <2>4, <2>5, <4>4
    <3> QED
      BY <3>2, <3>3
  <2>7. ASSUME task'[c].pc = "halting" PROVE task'[p].pc \in {"halting", "closing"}
    <3>1. task[c].pc \notin {"unborn", "ended"} /\ task[p].pc \in {"halting", "closing"}
      <4>1. CASE Still(c)
        BY <2>2, <2>7, <4>1 DEF Still
      <4>2. CASE Halts(c)
        BY <1>4, <2>1, <4>2 DEF Halts
      <4>3. CASE Born(c)
        BY <2>7, <4>3 DEF Born, Fresh
      <4>4. CASE Works(c) \/ Leaves(c) \/ Shuts(c) \/ Stops(c)
        BY <2>7, <4>4 DEF Works, Leaves, Shuts, Stops, AtWork
      <4> QED
        BY <4>1, <4>2, <4>3, <4>4 DEF CalmStep
    <3>2. c \in Children(p)
      BY <1>1, <1>4, <2>1, <3>1, BornBefore
    <3> QED
      BY <2>4, <3>1, <3>2
  <2>8. ASSUME task'[c].pc \in {"closing", "ended"}, task'[c].result = Cancelled, ~ WasCancelled(c)
        PROVE  task'[p].pc \in {"halting", "closing", "ended"}
    <3>1. task[p].pc \in {"halting", "closing", "ended"}
      <4>1. CASE Still(c)
        BY <2>2, <2>8, <4>1 DEF Still
      <4>2. CASE Stops(c)
        BY <2>2, <2>8, <4>2 DEF Stops
      <4>3. CASE Shuts(c)
        <5>1. PICK r : r = task'[c].result /\ EndsWith(c, task[c].hist, task[c].result)'
          BY <4>3 DEF Shuts
        <5> QED
          BY <2>8, <5>1 DEF EndsWith, Cancelled, Error
      <4>4. CASE Born(c)
        BY <2>8, <4>4 DEF Born, Fresh
      <4>5. CASE Works(c) \/ Leaves(c) \/ Halts(c)
        BY <2>8, <4>5 DEF Works, Leaves, Halts, AtWork
      <4> QED
        BY <4>1, <4>2, <4>3, <4>4, <4>5 DEF CalmStep
    <3> QED
      BY <2>4, <3>1
  <2> QED
    BY <1>2, <2>1, <2>3, <2>6, <2>7, <2>8
<1> QED
  BY <1>3, <1>4 DEF Cancels, Cancelled, Parent

\* The invariant survives every step of a calm tree.
LEMMA CalmStepKeeps ==
  ASSUME ReplayInv, TreeInv', CalmStep
  PROVE  ReplayInv'
<1>1. HistInv'
  BY HistStepKeeps DEF ReplayInv, CalmStep
<1>2. ASSUME NEW t \in Tasks PROVE Kern(t)' /\ Waits(t)'
  BY WaitsStay, KernStays, BornKern, OverKern DEF CalmStep
<1> QED
  BY <1>1, <1>2, EndsStay, CancelsStay DEF ReplayInv

-----------------------------------------------------------------------------
(* Where a coroutine stands in the journal *)

\* A kernel is asked what its history says.
LEMMA StepIsDoing ==
  ASSUME ReplayInv, NEW t \in Tasks
  PROVE  LET h == task[t].hist
         IN /\ IsHistory(h) /\ Len(h) \in Nat /\ Past(h, Len(h)) = h
            /\ StepOf(t) = Doing(t, h, Len(h))
            /\ Taken(t, h, Len(h)) \in Nat
            /\ \A j \in 0 .. Len(h) - 1 : /\ Answered(t, h, j, Len(stream))
                                         /\ Makes(Doing(t, h, j)) \in Nat
<1>1. PICK h, m : h = task[t].hist /\ m = Len(stream)
  OBVIOUS
<1>2. Path(t, h, m)
  BY <1>1 DEF ReplayInv, HistInv
<1>3. Len(h) \in Nat /\ Past(h, Len(h)) = h
  BY <1>2, AppendPast DEF Path
<1>4. task[t].role # "timeout"
  BY DEF ReplayInv, Kern
<1>5. StepOf(t) = Doing(t, h, Len(h))
  BY <1>1, <1>3, <1>4 DEF StepOf, Doing
<1>6. \A j \in 0 .. Len(h) - 1 : Makes(Doing(t, h, j)) \in Nat
  BY <1>2, PathMakes
<1> QED
  BY <1>1, <1>2, <1>3, <1>5, <1>6, TakenNext DEF Path

\* A coroutine has one Close.
LEMMA OneCloseOf ==
  ASSUME TreeInv, NEW c \in Tasks, NEW i \in Closes(c)
  PROVE  CloseOf(c) = stream[i].result /\ Closes(c) = {i}
<1>1. Closes(c) = {i}
  BY DEF TreeInv, CloseInv
<1> QED
  BY <1>1 DEF CloseOf

\* Two agreeing histories that have taken as many effects and are at one are
\* equally long.
LEMMA SameEffect ==
  ASSUME NEW t, NEW h, NEW g, Len(h) \in Nat, Len(g) \in Nat, Agree(g, h),
         Doing(t, h, Len(h)).kind = "effect", Doing(t, g, Len(g)).kind = "effect",
         Taken(t, h, Len(h)) = Taken(t, g, Len(g))
  PROVE  Len(h) = Len(g) /\ Past(g, Len(h)) = Past(h, Len(h))
<1>1. CASE Len(g) < Len(h)
  <2>1. PICK k \in Nat : k = Len(g)
    OBVIOUS
  <2>2. Past(g, k) = Past(h, k)
    BY <1>1, <2>1, AgreeingPast
  <2>3. Doing(t, h, k).kind = "effect" /\ Taken(t, h, k) = Taken(t, g, k)
    BY <2>1, <2>2, SamePast
  <2>4. Taken(t, h, k) < Taken(t, h, Len(h))
    BY <1>1, <2>1, <2>3, TakenLess
  <2>5. Taken(t, h, k) \in Nat
    BY <2>1, TakenNext
  <2> QED
    BY <2>1, <2>3, <2>4, <2>5
<1>2. CASE Len(h) < Len(g)
  <2>1. PICK k \in Nat : k = Len(h)
    OBVIOUS
  <2>2. Past(g, k) = Past(h, k)
    BY <1>2, <2>1, AgreeingPast
  <2>3. Doing(t, g, k).kind = "effect" /\ Taken(t, h, k) = Taken(t, g, k)
    BY <2>1, <2>2, SamePast
  <2>4. Taken(t, g, k) < Taken(t, g, Len(g))
    BY <1>2, <2>1, <2>3, TakenLess
  <2>5. Taken(t, g, k) \in Nat
    BY <2>1, TakenNext
  <2> QED
    BY <2>1, <2>3, <2>4, <2>5
<1>3. CASE Len(h) = Len(g)
  BY <1>3, AgreeingPast
<1> QED
  BY <1>1, <1>2, <1>3

\* The entry a coroutine finds is the one of the effect it asks for.
LEMMA EntryFits ==
  ASSUME ReplayInv, NEW t \in Tasks, task[t].pc \in Live,
         StepOf(t).kind = "effect", HasEntry(t)
  PROVE  /\ Entry(t).effect = StepOf(t).effect
         /\ task[t].cursor = Taken(t, task[t].hist, Len(task[t].hist))
         /\ \A i \in YieldsOf(t) : i <= mark
         /\ \E i \in YieldsOf(t) :
              /\ i <= Len(stream) /\ Entry(t) = stream[i]
              /\ Place(i) = Taken(t, task[t].hist, Len(task[t].hist))
<1>1. PICK h, n : /\ h = task[t].hist /\ n = Len(h) /\ n \in Nat
                  /\ StepOf(t) = Doing(t, h, n)
  BY StepIsDoing
<1>2. task[t].cursor = Taken(t, h, n) /\ \A i \in YieldsOf(t) : i <= mark
  BY <1>1 DEF ReplayInv, Kern
<1>3. PICK i \in YieldsOf(t) : Entry(t) = stream[i] /\ Place(i) = task[t].cursor
  BY DEF HasEntry, Entry, Entries
<1>4. /\ i \in 1 .. Len(stream) /\ stream[i].co = t /\ stream[i].type = "yield"
      /\ i <= Len(stream)
  BY LenProperties DEF YieldsOf, ReplayInv, TreeInv, ShapeInv
<1>5. PICK g, k : g = stream[i].hist /\ k = Len(g)
  OBVIOUS
<1>6. /\ Path(t, g, i - 1) /\ Doing(t, g, k).kind = "effect"
      /\ Doing(t, g, k).effect = stream[i].effect /\ Place(i) = Taken(t, g, k)
      /\ Agree(g, h)
  <2>1. Explained(i) /\ Agree(stream[i].hist, task[stream[i].co].hist)
    BY <1>4 DEF ReplayInv, HistInv
  <2> QED
    BY <1>1, <1>4, <1>5, <2>1 DEF Explained
<1>7. k \in Nat
  BY <1>5, <1>6, AppendPast DEF Path
<1>8. n = k /\ Past(g, n) = Past(h, n)
  <2>1. Len(h) \in Nat /\ Len(g) \in Nat
    BY <1>1, <1>5, <1>7
  <2>2. /\ Doing(t, h, Len(h)).kind = "effect" /\ Doing(t, g, Len(g)).kind = "effect"
        /\ Agree(g, h)
    BY <1>1, <1>5, <1>6
  <2>3. Taken(t, h, Len(h)) = Taken(t, g, Len(g))
    BY <1>1, <1>2, <1>3, <1>5, <1>6
  <2>4. Len(h) = Len(g) /\ Past(g, Len(h)) = Past(h, Len(h))
    BY <2>1, <2>2, <2>3, SameEffect
  <2> QED
    BY <1>1, <1>5, <2>4
<1>9. Doing(t, h, n) = Doing(t, g, n)
  BY <1>1, <1>8, SamePast
<1> QED
  BY <1>1, <1>2, <1>3, <1>4, <1>6, <1>8, <1>9

\* A coroutine without an entry has been told all its Yields.
LEMMA NoEntryLeft ==
  ASSUME ReplayInv, NEW t \in Tasks, task[t].pc \in Live, ~ HasEntry(t)
  PROVE  Taken(t, task[t].hist, Len(task[t].hist)) = Cardinality(YieldsOf(t))
<1>1. PICK n : n = Taken(t, task[t].hist, Len(task[t].hist))
  OBVIOUS
<1>2. n \in Nat /\ n <= Cardinality(YieldsOf(t)) /\ Cardinality(YieldsOf(t)) \in Nat
  BY <1>1, StepIsDoing, PlaceFacts DEF ReplayInv, Kern, PlacesApart, TreeInv
<1>3. ASSUME n < Cardinality(YieldsOf(t)) PROVE FALSE
  <2>1. PICK i \in YieldsOf(t) : Place(i) = n
    BY <1>2, <1>3 DEF ReplayInv, HistInv
  <2>2. task[t].cursor = n /\ i <= mark
    BY <1>1, <1>2, <1>3 DEF ReplayInv, Kern
  <2> QED
    BY <2>1, <2>2 DEF HasEntry, Entries
<1> QED
  BY <1>1, <1>2, <1>3

\* The history of a coroutine's Close is as long as that of its memory, or
\* longer; then the journal up to the Close has the next answer.
LEMMA CloseAhead ==
  ASSUME ReplayInv, NEW t \in Tasks, task[t].pc \in Live, HasClose(t)
  PROVE  LET h == task[t].hist
             n == Len(h)
         IN \E g : /\ Past(g, n) = Past(h, n)
                   /\ \/ Answered(t, g, n, Len(stream))
                      \/ EndsWith(t, h, CloseOf(t))
<1>1. PICK h, n : /\ h = task[t].hist /\ n = Len(h) /\ n \in Nat
                  /\ \A j \in 0 .. n - 1 : Answered(t, h, j, Len(stream))
  BY StepIsDoing
<1>2. PICK i \in Closes(t) : i <= mark
  BY DEF HasClose
<1>3. /\ i \in 1 .. Len(stream) /\ stream[i].co = t /\ stream[i].type = "close"
      /\ i \in Nat /\ Len(stream) \in Nat
  BY LenProperties DEF Closes, ReplayInv, TreeInv, ShapeInv
<1>4. CloseOf(t) = stream[i].result
  BY OneCloseOf DEF ReplayInv
<1>5. stream[i].result # Cancelled
  <2>1. ~ WasCancelled(t)
    BY DEF ReplayInv, Cancels, Live, AtWork
  <2> QED
    BY <1>2, <2>1 DEF WasCancelled
<1>6. PICK g, k : g = stream[i].hist /\ k = Len(g)
  OBVIOUS
<1>7. Path(t, g, i - 1) /\ EndsWith(t, g, CloseOf(t)) /\ Agree(g, h)
  <2>1. Explained(i) /\ Agree(stream[i].hist, task[stream[i].co].hist)
    BY <1>3 DEF ReplayInv, HistInv
  <2> QED
    BY <1>1, <1>3, <1>4, <1>5, <1>6, <2>1 DEF Explained
<1>8. k \in Nat /\ \A j \in 0 .. k - 1 : Answered(t, g, j, i - 1)
  BY <1>6, <1>7, AppendPast DEF Path
<1>9. CASE k < n
  <2>1. Past(g, k) = Past(h, k)
    BY <1>1, <1>6, <1>7, <1>8, <1>9, AgreeingPast
  <2>2. Doing(t, h, k) = Doing(t, g, k)
    BY <1>8, <2>1, SamePast
  <2>3. Answered(t, h, k, Len(stream))
    BY <1>1, <1>8, <1>9
  <2> QED
    BY <1>6, <1>7, <2>2, <2>3 DEF EndsWith, Answered
<1>10. CASE k = n
  <2>1. Past(g, n) = Past(h, n)
    <3>1. Len(g) \in Nat /\ Len(h) \in Nat /\ n <= Len(g) /\ n <= Len(h)
      BY <1>1, <1>6, <1>8, <1>10
    <3> QED
      BY <1>1, <1>7, <3>1, AgreeingPast
  <2>2. Doing(t, h, n) = Doing(t, g, n)
    BY <1>1, <2>1, SamePast
  <2>3. EndsWith(t, h, CloseOf(t))
    BY <1>1, <1>6, <1>7, <1>10, <2>2 DEF EndsWith
  <2> QED
    BY <1>1, <2>1, <2>3
<1>11. CASE n < k
  <2>1. Past(g, n) = Past(h, n)
    BY <1>1, <1>6, <1>7, <1>8, <1>11, AgreeingPast
  <2>2. Answered(t, g, n, i - 1)
    BY <1>1, <1>8, <1>11
  <2>3. i - 1 \in Nat /\ i - 1 <= Len(stream)
    BY <1>3
  <2>4. Answered(t, g, n, Len(stream))
    <3>1. PICK m : m = Len(stream) /\ m \in Nat
      BY <1>3
    <3>2. PICK l : l = i - 1 /\ l \in Nat /\ l <= m
      BY <2>3, <3>1
    <3>3. Answered(t, g, n, m)
      BY <1>1, <2>2, <3>1, <3>2, AnswerStaysHolds DEF ReplayInv, TreeInv, AnswerStays
    <3> QED
      BY <3>1, <3>3
  <2> QED
    BY <1>1, <2>1, <2>4
<1> QED
  BY <1>1, <1>8, <1>9, <1>10, <1>11

\* What a coroutine waits for has not been cancelled: the parent's journal
\* holds its answer, or the parent has never ended.
LEMMA AwaitedEnds ==
  ASSUME ReplayInv, NEW t \in Tasks, NEW c \in Tasks, task[c].pc \in {"closing", "ended"},
         \/ task[t].pc = "joining" /\ c = task[t].awaits
         \/ task[t].pc \in {"compound", "leaving"} /\ c \in Branches(t)
  PROVE  /\ task[c].result # Cancelled
         /\ EndsWith(c, task[c].hist, task[c].result) /\ CloseOf(c) = task[c].result
<1>1. c \in Children(t) /\ task[t].pc \in Live
  <2>1. task[t].base \in Nat /\ task[t].count \in Nat
    BY DEF ReplayInv, TreeInv, ShapeInv
  <2>2. task[t].base .. task[t].count - 1 \subseteq 0 .. task[t].count - 1
    BY <2>1
  <2>3. Branches(t) \subseteq Children(t)
    BY <2>2 DEF Branches, Children
  <2> QED
    BY <2>3 DEF ReplayInv, Waits, Live, AtWork
<1>2. c # Root /\ Parent(c) = t
  <2>1. \A k \in 0 .. task[t].count - 1 : k \in Nat
    OBVIOUS
  <2> QED
    BY <1>1, <2>1, ChildFacts DEF Children
<1>3. ASSUME task[c].result = Cancelled PROVE FALSE
  <2>1. WasCancelled(c) /\ HasClose(t)
    BY <1>2, <1>3 DEF ReplayInv, Cancels
  <2>2. CloseOf(c) = Cancelled
    BY <2>1, OneCloseOf DEF WasCancelled, ReplayInv
  <2>3. PICK h, n, m : /\ h = task[t].hist /\ n = Len(h) /\ n \in Nat /\ m = Len(stream)
                       /\ \A j \in 0 .. n - 1 : Makes(Doing(t, h, j)) \in Nat
    BY StepIsDoing
  <2>4. PICK g : /\ Past(g, n) = Past(h, n)
                 /\ Answered(t, g, n, m) \/ EndsWith(t, h, CloseOf(t))
    BY <1>1, <2>1, <2>3, CloseAhead
  <2>5. Doing(t, g, n) = Doing(t, h, n) /\ Made(t, g, n) = Made(t, h, n)
    <3>1. n \in Nat /\ Past(h, n) = Past(g, n)
      BY <2>3, <2>4
    <3>2. Doing(t, h, n) = Doing(t, g, n) /\ Made(t, h, n) = Made(t, g, n)
      BY <3>1, SamePast
    <3> QED
      BY <3>2
  <2>6. CASE task[t].pc = "joining"
    <3>1. Doing(t, h, n).kind = "join" /\ Doing(t, h, n).child = c
      BY <2>3, <2>6 DEF ReplayInv, Waits
    <3>2. Answered(t, g, n, m)
      BY <2>3, <2>4, <3>1 DEF EndsWith
    <3>3. CloseOf(c).status = "ok"
      BY <2>5, <3>1, <3>2 DEF Answered
    <3> QED
      BY <2>2, <3>3 DEF Cancelled
  <2>7. CASE task[t].pc \in {"compound", "leaving"}
    <3>1. /\ Doing(t, h, n).kind = task[t].kind /\ task[t].kind \in {"all", "scope"}
          /\ task[t].base = Made(t, h, n)
          /\ task[t].count = task[t].base + Makes(Doing(t, h, n))
          /\ Makes(Doing(t, h, n)) \in Nat
      BY <2>3, <2>7 DEF ReplayInv, Waits
    <3>2. Answered(t, g, n, m)
      BY <2>3, <2>4, <3>1 DEF EndsWith
    <3>3. task[t].base \in Nat
      BY DEF ReplayInv, TreeInv, ShapeInv
    <3>4. PICK k \in task[t].base .. task[t].count - 1 : c = Child(t, k)
      BY <2>7 DEF Branches
    <3>5. CASE task[t].kind = "all"
      <4>1. Makes(Doing(t, h, n)) = Doing(t, h, n).width
        BY <3>1, <3>5 DEF Makes
      <4>2. \A j \in 1 .. Doing(t, h, n).width :
              CloseOf(Child(t, task[t].base + j - 1)).status = "ok"
        BY <2>5, <3>1, <3>2, <3>5 DEF Answered
      <4>3. PICK j \in 1 .. Doing(t, h, n).width : k = task[t].base + j - 1
        <5>1. k - task[t].base + 1 \in 1 .. Doing(t, h, n).width
          BY <3>1, <3>3, <4>1
        <5> QED
          BY <3>3, <5>1
      <4> QED
        BY <2>2, <3>4, <4>2, <4>3 DEF Cancelled
    <3>6. CASE task[t].kind = "scope"
      <4>1. Makes(Doing(t, h, n)) = 1 /\ k = task[t].base
        BY <3>1, <3>3, <3>6 DEF Makes
      <4>2. CloseOf(Child(t, task[t].base)) # Cancelled
        BY <2>5, <3>1, <3>2, <3>6 DEF Answered
      <4> QED
        BY <2>2, <3>4, <4>1, <4>2
    <3> QED
      BY <3>1, <3>5, <3>6
  <2> QED
    BY <1>1, <2>6, <2>7
<1> QED
  BY <1>3 DEF ReplayInv, Ends

-----------------------------------------------------------------------------
(* Steps that record nothing *)

\* A history with one more result.
LEMMA ToldHistory ==
  ASSUME ReplayInv, NEW t \in Tasks, NEW r
  PROVE  LET h == task[t].hist
             n == Len(h)
             g == Append(h, r)
         IN /\ Len(g) = n + 1 /\ g[n + 1] = r
            /\ Doing(t, g, n) = Doing(t, h, n) /\ Made(t, g, n) = Made(t, h, n)
            /\ Taken(t, g, n) = Taken(t, h, n)
            /\ \A j \in 0 .. n : Doing(t, g, j) = Doing(t, h, j)
<1>1. PICK h, n : /\ h = task[t].hist /\ n = Len(h) /\ n \in Nat /\ IsHistory(h)
  BY StepIsDoing
<1> DEFINE g == Append(h, r)
<1>2. /\ Len(g) = n + 1 /\ g[n + 1] = r
      /\ \A j \in 0 .. n : Past(g, j) = Past(h, j)
  BY <1>1, AppendPast
<1> HIDE DEF g
<1>3. ASSUME NEW j \in 0 .. n
      PROVE  /\ Doing(t, g, j) = Doing(t, h, j) /\ Made(t, g, j) = Made(t, h, j)
             /\ Taken(t, g, j) = Taken(t, h, j)
  <2>1. j \in Nat /\ Past(g, j) = Past(h, j)
    BY <1>1, <1>2
  <2> QED
    BY <2>1, SamePast
<1>4. n \in 0 .. n
  BY <1>1
<1>5. Made(t, g, n) = Made(t, h, n) /\ Taken(t, g, n) = Taken(t, h, n)
  BY <1>3, <1>4
<1> QED
  BY <1>1, <1>2, <1>3, <1>5 DEF g

\* A coroutine is resumed with a result: its children and its cursor are those
\* of the longer history.
Told(t) ==
  LET h == task[t].hist
      step == Doing(t, h, Len(h))
  IN /\ task[t].pc \in Live /\ task'[t].pc = "step"
     /\ task'[t].role = task[t].role /\ task'[t].result = task[t].result
     /\ \E r : task'[t].hist = Append(h, r)
     /\ Makes(step) \in Nat /\ task'[t].count = Made(t, h, Len(h)) + Makes(step)
     /\ \/ /\ step.kind # "effect" /\ YieldsOf(t)' = YieldsOf(t)
           /\ task'[t].cursor = task[t].cursor
        \/ /\ step.kind = "effect" /\ HasEntry(t) /\ YieldsOf(t)' = YieldsOf(t)
           /\ task'[t].cursor = task[t].cursor + 1
        \/ /\ step.kind = "effect" /\ ~ HasEntry(t)
           /\ YieldsOf(t)' = YieldsOf(t) \union {Len(stream) + 1}
           /\ task'[t].cursor = task[t].cursor
LEMMA ToldKern ==
  ASSUME ReplayInv, TreeInv', Grows, NEW t \in Tasks, Told(t)
  PROVE  Kern(t)' /\ Waits(t)'
<1>1. PICK h, n, step : /\ h = task[t].hist /\ n = Len(h) /\ n \in Nat
                        /\ step = Doing(t, h, n)
                        /\ \A j \in 0 .. n - 1 : Makes(Doing(t, h, j)) \in Nat
                        /\ Taken(t, h, n) \in Nat /\ StepOf(t) = step
  BY StepIsDoing
<1>2. PICK r : task'[t].hist = Append(h, r)
  BY <1>1 DEF Told
<1>3. PICK g : /\ g = Append(h, r) /\ Len(g) = n + 1 /\ Made(t, g, n) = Made(t, h, n)
               /\ Taken(t, g, n) = Taken(t, h, n)
               /\ \A j \in 0 .. n : Doing(t, g, j) = Doing(t, h, j)
  <2> DEFINE g == Append(h, r)
  <2>1. /\ Len(g) = n + 1 /\ Made(t, g, n) = Made(t, h, n)
        /\ Taken(t, g, n) = Taken(t, h, n)
        /\ \A j \in 0 .. n : Doing(t, g, j) = Doing(t, h, j)
    BY <1>1, ToldHistory
  <2> QED
    BY <2>1
<1>4. /\ task[t].pc \in Live /\ task'[t].pc = "step"
      /\ task'[t].role = task[t].role /\ task'[t].result = task[t].result
      /\ Makes(step) \in Nat /\ task'[t].count = Made(t, h, n) + Makes(step)
  BY <1>1 DEF Told
<1>5. Made(t, g, n + 1) = Made(t, h, n) + Makes(step)
  <2>1. \A j \in 0 .. n : Makes(Doing(t, g, j)) \in Nat
    BY <1>1, <1>3, <1>4
  <2>2. Made(t, g, n + 1) = Made(t, g, n) + Makes(Doing(t, g, n))
    BY <1>1, <2>1, MadeNext
  <2>3. n \in 0 .. n
    BY <1>1
  <2> QED
    BY <1>1, <1>3, <2>2, <2>3
<1>6. Taken(t, g, n + 1) = Taken(t, h, n) + (IF step.kind = "effect" THEN 1 ELSE 0)
  <2>1. Taken(t, g, n + 1) =
          Taken(t, g, n) + (IF Doing(t, g, n).kind = "effect" THEN 1 ELSE 0)
    <3>1. n \in Nat
      BY <1>1
    <3> QED
      BY <3>1, TakenNext
  <2>2. n \in 0 .. n
    BY <1>1
  <2> QED
    BY <1>1, <1>3, <2>1, <2>2
<1>7. PICK k : k = Taken(t, h, n) /\ k \in Nat
  BY <1>1
<1>8. /\ Made(t, g, n + 1)' = Made(t, h, n) + Makes(step)
      /\ Taken(t, g, n + 1)' = k + (IF step.kind = "effect" THEN 1 ELSE 0)
  BY <1>5, <1>6, <1>7, KernelsStay DEF Grows
<1>9. /\ k <= Cardinality(YieldsOf(t))
      /\ \/ task[t].cursor = k /\ \A i \in YieldsOf(t) : i <= mark
         \/ k = Cardinality(YieldsOf(t)) /\ ~ HasEntry(t)
      /\ task[t].result = Pending /\ task[t].role # "timeout"
  BY <1>1, <1>4, <1>7 DEF ReplayInv, Kern
<1>10. \A i \in YieldsOf(t) : Place(i)' = Place(i)
  BY GrowthOfYields DEF ReplayInv, YieldsOf
<1>11. /\ IsFiniteSet(YieldsOf(t)) /\ Cardinality(YieldsOf(t)) \in Nat
       /\ mark' = mark
  BY PlaceFacts DEF ReplayInv, TreeInv, PlacesApart, Grows
<1>12. /\ Taken(t, g, n + 1)' <= Cardinality(YieldsOf(t)')
       /\ \/ task'[t].cursor = Taken(t, g, n + 1)' /\ \A i \in YieldsOf(t)' : i <= mark'
          \/ Taken(t, g, n + 1)' = Cardinality(YieldsOf(t)') /\ ~ HasEntry(t)'
  <2>1. CASE step.kind # "effect" /\ YieldsOf(t)' = YieldsOf(t) /\ task'[t].cursor = task[t].cursor
    <3>1. Entries(t)' = Entries(t)
      BY <1>10, <1>11, <2>1 DEF Entries
    <3>2. HasEntry(t)' <=> HasEntry(t)
      BY <3>1 DEF HasEntry
    <3>3. Taken(t, g, n + 1)' = k
      BY <1>7, <1>8, <2>1
    <3> QED
      BY <1>9, <1>11, <2>1, <3>2, <3>3
  <2>2. CASE /\ step.kind = "effect" /\ HasEntry(t) /\ YieldsOf(t)' = YieldsOf(t)
             /\ task'[t].cursor = task[t].cursor + 1
    <3>1. PICK i \in YieldsOf(t) : Place(i) = k
      BY <1>1, <1>4, <1>7, <2>2, EntryFits
    <3>2. task[t].cursor = k /\ \A j \in YieldsOf(t) : j <= mark
      BY <1>9, <2>2
    <3>3. k < Cardinality(YieldsOf(t))
      BY <3>1, PlaceFacts DEF PlacesApart, ReplayInv, TreeInv
    <3>4. Taken(t, g, n + 1)' = k + 1
      BY <1>8, <2>2
    <3> QED
      BY <1>7, <1>11, <2>2, <3>2, <3>3, <3>4
  <2>3. CASE /\ step.kind = "effect" /\ ~ HasEntry(t)
             /\ YieldsOf(t)' = YieldsOf(t) \union {Len(stream) + 1}
             /\ task'[t].cursor = task[t].cursor
    <3>1. k = Cardinality(YieldsOf(t))
      BY <1>1, <1>4, <1>7, <2>3, NoEntryLeft
    <3>2. /\ Len(stream) \in Nat /\ mark \in Nat /\ mark <= Len(stream)
          /\ \A i \in YieldsOf(t) : i \in Nat /\ i <= Len(stream)
      BY LenProperties DEF ReplayInv, TreeInv, ShapeInv, YieldsOf
    <3>3. Cardinality(YieldsOf(t)') = k + 1
      <4>1. Len(stream) + 1 \notin YieldsOf(t)
        BY <3>2
      <4> QED
        BY <1>11, <2>3, <3>1, <4>1, FS_AddElement
    <3>4. Taken(t, g, n + 1)' = k + 1
      BY <1>8, <2>3
    <3>5. Entries(t)' = Entries(t)
      <4>1. ~ (Len(stream) + 1 <= mark)
        BY <3>2
      <4> QED
        BY <1>10, <1>11, <2>3, <4>1 DEF Entries
    <3> QED
      BY <1>7, <2>3, <3>3, <3>4, <3>5 DEF HasEntry
  <2> QED
    BY <1>1, <2>1, <2>2, <2>3 DEF Told
<1>13. task'[t].hist = g /\ Len(g) = n + 1
  BY <1>2, <1>3
<1>14. Kern(t)'
  BY <1>4, <1>8, <1>9, <1>12, <1>13 DEF Kern, Pending, Unborn, Live, AtWork
<1>15. Waits(t)'
  BY <1>4 DEF Waits
<1> QED
  BY <1>14, <1>15

\* The stream is left alone.
LEMMA SilentGrowth ==
  ASSUME ReplayInv, TreeInv', UNCHANGED <<program, stream, mark>>,
         \A t \in Tasks :
           \/ task'[t].hist = task[t].hist
           \/ \E r, g, n : /\ n = Len(task[t].hist) /\ g = Append(task[t].hist, r)
                           /\ task'[t].hist = g /\ Answered(t, g, n, Len(stream))
  PROVE  /\ HistStep
         /\ \A m \in 1 .. Len(stream') : ~ (m > Len(stream))
         /\ \A t : YieldsOf(t)' = YieldsOf(t)
<1>1. Grows /\ Len(stream) \in Nat
  BY LenProperties DEF Grows, ReplayInv, TreeInv, ShapeInv
<1>2. \A m \in 1 .. Len(stream') : ~ (m > Len(stream))
  BY <1>1
<1>3. \A t : YieldsOf(t)' = YieldsOf(t)
  BY DEF YieldsOf
<1>4. ASSUME NEW t \in Tasks
      PROVE  \/ task'[t].hist = task[t].hist
             \/ \E r, g, n : /\ n = Len(task[t].hist) /\ g = Append(task[t].hist, r)
                             /\ task'[t].hist = g /\ Answered(t, g, n, Len(stream))'
  <2>1. CASE task'[t].hist = task[t].hist
    BY <2>1
  <2>2. ASSUME NEW r, NEW g, NEW n, n = Len(task[t].hist), g = Append(task[t].hist, r),
               task'[t].hist = g, Answered(t, g, n, Len(stream))
        PROVE  \E x, y, z : /\ z = Len(task[t].hist) /\ y = Append(task[t].hist, x)
                            /\ task'[t].hist = y /\ Answered(t, y, z, Len(stream))'
    <3>1. PICK m : m = Len(stream) /\ m \in Nat
      BY <1>1
    <3>2. Answered(t, g, n, m)'
      BY <1>1, <2>2, <3>1, AnswersKept DEF ReplayInv
    <3> QED
      BY <2>2, <3>1, <3>2
  <2> QED
    BY <2>1, <2>2
<1> QED
  BY <1>1, <1>2, <1>3, <1>4 DEF HistStep

\* The coroutines that take no step, and those that begin.
Rest(t) ==
  \A u \in Tasks \ {t} :
    \/ task'[u] = task[u]
    \/ task[u].pc = "unborn" /\ \E role \in {"branch", "spawned"} : task'[u] = Fresh(u, role)
LEMMA RestIsCalm ==
  ASSUME ReplayInv, NEW t, Rest(t), NEW u \in Tasks \ {t}, YieldsOf(u)' = YieldsOf(u)
  PROVE  (Still(u) \/ Born(u)) /\ task'[u].hist = task[u].hist
<1>1. CASE task'[u] = task[u]
  BY <1>1 DEF Still
<1>2. CASE task[u].pc = "unborn" /\ \E role \in {"branch", "spawned"} : task'[u] = Fresh(u, role)
  <2>1. task[u] = Unborn
    BY <1>2 DEF ReplayInv, Kern
  <2>2. Born(u)
    BY <1>2 DEF Born
  <2>3. task[u].hist = <<>>
    BY <2>1 DEF Unborn
  <2>4. task'[u].hist = <<>>
    BY <1>2 DEF Fresh
  <2> QED
    BY <2>2, <2>3, <2>4
<1> QED
  BY <1>1, <1>2 DEF Rest

\* A coroutine is told what the stream determines.
TellsRight(t) ==
  \E r, g, n : /\ n = Len(task[t].hist) /\ g = Append(task[t].hist, r)
               /\ task'[t].hist = g /\ Answered(t, g, n, Len(stream))
LEMMA TellIsCalm ==
  ASSUME ReplayInv, TreeInv', NEW t \in Tasks, UNCHANGED <<program, stream, mark>>,
         Rest(t), Told(t), TellsRight(t), task[t].pc \in AtWork \union {"leaving"},
         task'[t].base = task[t].base, task'[t].kind = task[t].kind,
         task'[t].count \in {task[t].count, task[t].count + 1}
  PROVE  CalmStep
<1>1. \A u : YieldsOf(u)' = YieldsOf(u)
  BY DEF YieldsOf
<1>2. \A u \in Tasks \ {t} : (Still(u) \/ Born(u)) /\ task'[u].hist = task[u].hist
  BY <1>1, RestIsCalm
<1>3. HistStep /\ \A m \in 1 .. Len(stream') : ~ (m > Len(stream))
  <2>1. \A u \in Tasks :
          \/ task'[u].hist = task[u].hist
          \/ \E r, g, n : /\ n = Len(task[u].hist) /\ g = Append(task[u].hist, r)
                          /\ task'[u].hist = g /\ Answered(u, g, n, Len(stream))
    BY <1>2 DEF TellsRight
  <2> QED
    BY <2>1, SilentGrowth
<1>4. Kern(t)' /\ Waits(t)'
  BY <1>3, ToldKern DEF HistStep
<1>5. Works(t)
  BY DEF Works, Told, AtWork
<1> QED
  BY <1>2, <1>3, <1>4, <1>5 DEF CalmStep

\* While a coroutine waits, memory stands where it stood.
LEMMA AskKern ==
  ASSUME ReplayInv, HistStep, NEW t \in Tasks, UNCHANGED <<program, stream, mark>>,
         task[t].pc \in {"step", "compound"},
         task'[t].pc \in {"dispatched", "joining", "compound", "leaving"},
         task'[t].hist = task[t].hist, task'[t].cursor = task[t].cursor,
         task'[t].role = task[t].role, task'[t].result = task[t].result,
         task'[t].pc \in AtWork => task[t].pc = "step" /\ task'[t].count = task[t].count,
         task'[t].pc = "dispatched" => StepOf(t).kind = "effect" /\ ~ HasEntry(t)
  PROVE  Kern(t)'
<1>1. PICK h, n : /\ h = task[t].hist /\ n = Len(h) /\ StepOf(t) = Doing(t, h, n)
  BY StepIsDoing
<1>2. /\ Doing(t, h, n)' = Doing(t, h, n) /\ Made(t, h, n)' = Made(t, h, n)
      /\ Taken(t, h, n)' = Taken(t, h, n)
  BY KernelsStay
<1>3. \A i \in YieldsOf(t) : Place(i)' = Place(i)
  BY GrowthOfYields DEF HistStep, ReplayInv, YieldsOf
<1>4. YieldsOf(t)' = YieldsOf(t)
  BY DEF YieldsOf
<1>5. Entries(t)' = Entries(t)
  BY <1>3, <1>4 DEF Entries
<1>6. HasEntry(t)' <=> HasEntry(t)
  BY <1>5 DEF HasEntry
<1>7. Kern(t) /\ task[t].pc \in Live
  BY DEF ReplayInv, Live, AtWork
<1>8. /\ task[t].result = Pending /\ task[t].role # "timeout"
      /\ Taken(t, h, n) <= Cardinality(YieldsOf(t))
      /\ \/ task[t].cursor = Taken(t, h, n) /\ \A i \in YieldsOf(t) : i <= mark
         \/ Taken(t, h, n) = Cardinality(YieldsOf(t)) /\ ~ HasEntry(t)
      /\ task[t].pc = "step" => task[t].count = Made(t, h, n)
  BY <1>1, <1>7 DEF Kern, AtWork
<1>9. /\ Taken(t, h, n)' <= Cardinality(YieldsOf(t)')
      /\ \/ task'[t].cursor = Taken(t, h, n)' /\ \A i \in YieldsOf(t)' : i <= mark'
         \/ Taken(t, h, n)' = Cardinality(YieldsOf(t)') /\ ~ HasEntry(t)'
  BY <1>2, <1>4, <1>6, <1>8
<1>10. /\ task'[t].pc \in AtWork => task'[t].count = Made(t, h, n)'
       /\ task'[t].pc = "dispatched" => Doing(t, h, n)'.kind = "effect" /\ ~ HasEntry(t)'
       /\ task'[t].result = Pending /\ task'[t].role # "timeout"
  BY <1>1, <1>2, <1>6, <1>8 DEF AtWork
<1>11. task'[t].hist = h /\ task'[t].pc # "unborn"
  BY <1>1
<1> QED
  BY <1>1, <1>9, <1>10, <1>11 DEF Kern, Pending, Unborn, Live, AtWork

\* A coroutine asks for something, and waits.
LEMMA AskIsCalm ==
  ASSUME ReplayInv, TreeInv', NEW t \in Tasks, UNCHANGED <<program, stream, mark>>,
         Rest(t), task[t].pc = "step",
         task'[t].hist = task[t].hist, task'[t].cursor = task[t].cursor,
         task'[t].role = task[t].role, task'[t].result = task[t].result,
         \/ /\ task'[t].pc \in {"dispatched", "joining"} /\ task'[t].count = task[t].count
            /\ task'[t].base = task[t].base /\ task'[t].kind = task[t].kind
         \/ task'[t].pc = "compound" /\ task'[t].base = task[t].count,
         task'[t].pc = "dispatched" => StepOf(t).kind = "effect" /\ ~ HasEntry(t),
         Waits(t)'
  PROVE  CalmStep
<1>1. \A u : YieldsOf(u)' = YieldsOf(u)
  BY DEF YieldsOf
<1>2. \A u \in Tasks \ {t} : (Still(u) \/ Born(u)) /\ task'[u].hist = task[u].hist
  BY <1>1, RestIsCalm
<1>3. HistStep /\ \A m \in 1 .. Len(stream') : ~ (m > Len(stream))
  <2>1. \A u \in Tasks : task'[u].hist = task[u].hist
    BY <1>2
  <2> QED
    BY <2>1, SilentGrowth
<1>4. Works(t)
  BY DEF Works, AtWork, TreeInv, ShapeInv
<1>5. Kern(t)'
  BY <1>3, AskKern DEF AtWork
<1> QED
  BY <1>2, <1>3, <1>4, <1>5 DEF CalmStep

\* What resuming a kernel writes.
LEMMA ResumedFields ==
  ASSUME ShapeInv, NEW t \in Tasks, NEW r, task' = [task EXCEPT ![t] = Resumed(@, r)]
  PROVE  /\ \A u \in Tasks \ {t} : task'[u] = task[u]
         /\ task'[t].hist = Append(task[t].hist, r) /\ task'[t].pc = "step"
         /\ task'[t].role = task[t].role /\ task'[t].result = task[t].result
         /\ task'[t].count = task[t].count /\ task'[t].cursor = task[t].cursor
         /\ task'[t].base = task[t].base /\ task'[t].kind = task[t].kind
<1>1. task'[t] = Resumed(task[t], r)
  BY DEF ShapeInv
<1>2. \A u \in Tasks \ {t} : task'[u] = task[u]
  BY DEF ShapeInv
<1>3. ASSUME NEW rec, DOMAIN rec = DOMAIN Unborn
      PROVE  LET new == Resumed(rec, r)
             IN /\ new.hist = Append(rec.hist, r) /\ new.pc = "step"
                /\ new.role = rec.role /\ new.result = rec.result
                /\ new.count = rec.count /\ new.cursor = rec.cursor
                /\ new.base = rec.base /\ new.kind = rec.kind
  BY <1>3 DEF Resumed, Unborn
<1>4. DOMAIN task[t] = DOMAIN Unborn
  BY DEF ShapeInv
<1> QED
  BY <1>1, <1>2, <1>3, <1>4

LEMMA ReplayIsCalm ==
  ASSUME ReplayInv, TreeInv', NEW t \in Tasks, Replay(t)
  PROVE  CalmStep
<1>1. PICK h, n : /\ h = task[t].hist /\ n = Len(h) /\ n \in Nat
                  /\ StepOf(t) = Doing(t, h, n)
  BY StepIsDoing
<1>2. PICK r : r = Entry(t).result
  OBVIOUS
<1>3. /\ task[t].pc = "step" /\ Doing(t, h, n).kind = "effect" /\ HasEntry(t)
      /\ UNCHANGED <<program, stream, mark>> /\ \A u \in Tasks \ {t} : task'[u] = task[u]
      /\ task'[t].hist = Append(h, r) /\ task'[t].pc = "step"
      /\ task'[t].role = task[t].role /\ task'[t].result = task[t].result
      /\ task'[t].count = task[t].count /\ task'[t].cursor = task[t].cursor + 1
      /\ task'[t].base = task[t].base /\ task'[t].kind = task[t].kind
  BY <1>1, <1>2 DEF Replay, At, Resumed, ReplayInv, TreeInv, ShapeInv, Unborn
<1>4. Told(t)
  <2>1. task[t].count = Made(t, h, n)
    BY <1>1, <1>3 DEF ReplayInv, Kern, AtWork
  <2>2. Makes(Doing(t, h, n)) = 0
    BY <1>3 DEF Makes
  <2>3. task[t].count \in Nat
    BY DEF ReplayInv, TreeInv, ShapeInv
  <2>4. YieldsOf(t)' = YieldsOf(t)
    BY <1>3 DEF YieldsOf
  <2> QED
    BY <1>1, <1>3, <2>1, <2>2, <2>3, <2>4 DEF Told, Live, AtWork
<1>5. TellsRight(t)
  <2>1. PICK g : /\ g = Append(h, r) /\ g[n + 1] = r /\ Doing(t, g, n) = Doing(t, h, n)
                 /\ Taken(t, g, n) = Taken(t, h, n)
    <3> DEFINE g == Append(h, r)
    <3>1. /\ g[n + 1] = r /\ Doing(t, g, n) = Doing(t, h, n)
          /\ Taken(t, g, n) = Taken(t, h, n)
      BY <1>1, ToldHistory
    <3> QED
      BY <3>1
  <2>2. \E i \in YieldsOf(t) : /\ i <= Len(stream) /\ Place(i) = Taken(t, g, n)
                              /\ stream[i].result = g[n + 1]
    BY <1>1, <1>2, <1>3, <2>1, EntryFits DEF Live, AtWork
  <2>3. Answered(t, g, n, Len(stream))
    BY <1>3, <2>1, <2>2 DEF Answered
  <2> QED
    BY <1>1, <1>3, <2>1, <2>3 DEF TellsRight
<1> QED
  BY <1>3, <1>4, <1>5, TellIsCalm DEF Rest, AtWork

LEMMA AllOfNoneIsCalm ==
  ASSUME ReplayInv, TreeInv', NEW t \in Tasks, AllOfNone(t)
  PROVE  CalmStep
<1>1. PICK h, n : /\ h = task[t].hist /\ n = Len(h) /\ n \in Nat
                  /\ StepOf(t) = Doing(t, h, n)
  BY StepIsDoing
<1>2. PICK r : r = Collected(<<>>)
  OBVIOUS
<1>3. /\ task[t].pc = "step" /\ Doing(t, h, n).kind = "all" /\ Doing(t, h, n).width = 0
      /\ UNCHANGED <<program, stream, mark>> /\ \A u \in Tasks \ {t} : task'[u] = task[u]
      /\ task'[t].hist = Append(h, r) /\ task'[t].pc = "step"
      /\ task'[t].role = task[t].role /\ task'[t].result = task[t].result
      /\ task'[t].count = task[t].count /\ task'[t].cursor = task[t].cursor
      /\ task'[t].base = task[t].base /\ task'[t].kind = task[t].kind
  BY <1>1, <1>2 DEF AllOfNone, At, Resumed, ReplayInv, TreeInv, ShapeInv, Unborn
<1>4. Told(t)
  <2>1. task[t].count = Made(t, h, n)
    BY <1>1, <1>3 DEF ReplayInv, Kern, AtWork
  <2>2. Makes(Doing(t, h, n)) = 0
    BY <1>3 DEF Makes
  <2>3. task[t].count \in Nat
    BY DEF ReplayInv, TreeInv, ShapeInv
  <2>4. YieldsOf(t)' = YieldsOf(t)
    BY <1>3 DEF YieldsOf
  <2> QED
    BY <1>1, <1>3, <2>1, <2>2, <2>3, <2>4 DEF Told, Live, AtWork
<1>5. TellsRight(t)
  <2>1. PICK g : g = Append(h, r) /\ g[n + 1] = r /\ Doing(t, g, n) = Doing(t, h, n)
    <3> DEFINE g == Append(h, r)
    <3>1. g[n + 1] = r /\ Doing(t, g, n) = Doing(t, h, n)
      BY <1>1, ToldHistory
    <3> QED
      BY <3>1
  <2>2. PICK step, first : step = Doing(t, g, n) /\ first = Made(t, g, n)
    OBVIOUS
  <2>3. step.kind = "all" /\ step.width = 0 /\ 1 .. step.width = {}
    BY <1>3, <2>1, <2>2
  <2>4. [k \in 1 .. step.width |-> CloseOf(Child(t, first + k - 1))] = <<>>
    BY <2>3
  <2>5. Answered(t, g, n, Len(stream))
    <3>1. g[n + 1] = Collected([k \in 1 .. step.width |-> CloseOf(Child(t, first + k - 1))])
      BY <1>2, <2>1, <2>4
    <3>2. \A k \in 1 .. step.width :
            /\ ClosedBy(Child(t, first + k - 1), Len(stream))
            /\ CloseOf(Child(t, first + k - 1)).status = "ok"
      BY <2>3
    <3>3. step.width \in Nat
      BY <2>3
    <3> QED
      BY <2>2, <2>3, <3>1, <3>2, <3>3 DEF Answered
  <2> QED
    BY <1>1, <1>3, <2>1, <2>5 DEF TellsRight
<1> QED
  BY <1>3, <1>4, <1>5, TellIsCalm DEF Rest, AtWork

\* A join returns what its child has closed with, which is no error: a spawned
\* child that fails takes the tree down.
LEMMA JoinedIsCalm ==
  ASSUME ReplayInv, TreeInv', NEW t \in Tasks, Joined(t)
  PROVE  CalmStep
<1>1. PICK h, n : /\ h = task[t].hist /\ n = Len(h) /\ n \in Nat
                  /\ StepOf(t) = Doing(t, h, n)
  BY StepIsDoing
<1>2. PICK c, r : c = task[t].awaits /\ r = task[c].result
  OBVIOUS
<1>3. /\ task[t].pc = "joining" /\ task[c].pc = "ended"
      /\ UNCHANGED <<program, mark>>
      /\ \/ r.status = "ok" /\ task' = [task EXCEPT ![t] = Resumed(@, r)] /\ UNCHANGED stream
         \/ r = Cancelled
  BY <1>2 DEF Joined
<1>4. /\ Doing(t, h, n).kind = "join" /\ Doing(t, h, n).child = c
      /\ c \in Children(t) /\ task[c].role = "spawned"
  BY <1>1, <1>2, <1>3 DEF ReplayInv, Waits
<1>5. c \in Tasks
  BY <1>4 DEF ReplayInv, TreeInv, ScopeInv
<1>6. r # Cancelled /\ CloseOf(c) = r
  BY <1>2, <1>3, <1>5, AwaitedEnds
<1>7. ClosedBy(c, Len(stream))
  <2>1. PICK i \in Closes(c) : TRUE
    BY <1>3, <1>5 DEF ReplayInv, TreeInv, CloseInv
  <2>2. i <= Len(stream)
    BY <2>1, LenProperties DEF Closes, ReplayInv, TreeInv, ShapeInv
  <2> QED
    BY <2>1, <2>2 DEF ClosedBy
<1>8. r.status = "ok" /\ UNCHANGED <<program, stream, mark>>
  BY <1>3, <1>6
<1>9. /\ \A u \in Tasks \ {t} : task'[u] = task[u]
      /\ task'[t].hist = Append(h, r) /\ task'[t].pc = "step"
      /\ task'[t].role = task[t].role /\ task'[t].result = task[t].result
      /\ task'[t].count = task[t].count /\ task'[t].cursor = task[t].cursor
      /\ task'[t].base = task[t].base /\ task'[t].kind = task[t].kind
  <2>1. task' = [task EXCEPT ![t] = Resumed(@, r)]
    BY <1>3, <1>6
  <2> QED
    <3>1. task[t].hist = h /\ ShapeInv
      BY <1>1 DEF ReplayInv, TreeInv
    <3>2. /\ \A u \in Tasks \ {t} : task'[u] = task[u]
          /\ task'[t].hist = Append(task[t].hist, r) /\ task'[t].pc = "step"
          /\ task'[t].role = task[t].role /\ task'[t].result = task[t].result
          /\ task'[t].count = task[t].count /\ task'[t].cursor = task[t].cursor
          /\ task'[t].base = task[t].base /\ task'[t].kind = task[t].kind
      BY <2>1, <3>1, ResumedFields
    <3> QED
      BY <3>1, <3>2
<1>10. Told(t)
  <2>1. task[t].count = Made(t, h, n)
    BY <1>1, <1>3 DEF ReplayInv, Kern, AtWork
  <2>2. Makes(Doing(t, h, n)) = 0
    BY <1>4 DEF Makes
  <2>3. task[t].count \in Nat
    BY DEF ReplayInv, TreeInv, ShapeInv
  <2>4. YieldsOf(t)' = YieldsOf(t)
    BY <1>8 DEF YieldsOf
  <2> QED
    BY <1>1, <1>3, <1>4, <1>9, <2>1, <2>2, <2>3, <2>4 DEF Told, Live, AtWork
<1>11. TellsRight(t)
  <2>1. PICK g : g = Append(h, r) /\ g[n + 1] = r /\ Doing(t, g, n) = Doing(t, h, n)
    <3> DEFINE g == Append(h, r)
    <3>1. g[n + 1] = r /\ Doing(t, g, n) = Doing(t, h, n)
      BY <1>1, ToldHistory
    <3> QED
      BY <3>1
  <2>2. Answered(t, g, n, Len(stream))
    BY <1>4, <1>6, <1>7, <1>8, <2>1 DEF Answered
  <2> QED
    BY <1>1, <1>9, <2>1, <2>2 DEF TellsRight
<1> QED
  BY <1>3, <1>8, <1>9, <1>10, <1>11, TellIsCalm DEF Rest, AtWork

\* What a coroutine that leaves a compound effect is about to be told is what
\* its branches have closed with.
LEMMA LeavingRight ==
  ASSUME ReplayInv, NEW t \in Tasks, task[t].pc = "leaving",
         NEW h, NEW n, NEW step, NEW r, NEW first, NEW m,
         h = task[t].hist, n = Len(h), step = Doing(t, h, n),
         r = task[t].settled, first = task[t].base, m = Len(stream)
  PROVE  /\ step.kind = task[t].kind /\ task[t].kind \in {"all", "scope"}
         /\ first = Made(t, h, n) /\ task[t].count = first + Makes(step)
         /\ Makes(step) \in Nat /\ Determined(t)
         /\ task[t].kind = "all" =>
              /\ r.status = "ok" /\ step.width \in Nat
              /\ \A k \in 1 .. step.width :
                   /\ ClosedBy(Child(t, first + k - 1), m)
                   /\ CloseOf(Child(t, first + k - 1)).status = "ok"
              /\ r = Collected([k \in 1 .. step.width |-> CloseOf(Child(t, first + k - 1))])
         /\ task[t].kind = "scope" =>
              /\ ClosedBy(Child(t, first), m) /\ CloseOf(Child(t, first)) # Cancelled
              /\ r = CloseOf(Child(t, first))
<1>1. /\ step.kind = task[t].kind /\ task[t].kind \in {"all", "scope"}
      /\ Makes(step) \in Nat \ {0}
      /\ first = Made(t, h, n) /\ task[t].count = first + Makes(step)
      /\ first \in Nat
  <2>1. Waits(t) /\ task[t].base \in Nat
    BY DEF ReplayInv, TreeInv, ShapeInv
  <2> QED
    BY <2>1 DEF Waits
<1>2. \A k \in 1 .. Makes(step) : Child(t, first + k - 1) \in Branches(t)
  <2>1. \A k \in 1 .. Makes(step) : first + k - 1 \in first .. first + Makes(step) - 1
    BY <1>1
  <2> QED
    BY <1>1, <2>1 DEF Branches
<1>3. ASSUME NEW c \in Branches(t)
      PROVE  /\ task[c].result # Cancelled /\ CloseOf(c) = task[c].result
             /\ ClosedBy(c, m)
  <2>1. c \in Children(t)
    BY <1>1 DEF Branches, Children
  <2>2. c \in Tasks /\ task[c].pc = "ended"
    BY <2>1 DEF ReplayInv, TreeInv, ScopeInv, Waits
  <2>3. task[c].result # Cancelled /\ CloseOf(c) = task[c].result
    BY <2>2, AwaitedEnds
  <2>4. PICK i \in Closes(c) : TRUE
    BY <2>2 DEF ReplayInv, TreeInv, CloseInv
  <2>5. i <= Len(stream)
    BY <2>4, LenProperties DEF Closes, ReplayInv, TreeInv, ShapeInv
  <2> QED
    BY <2>3, <2>4, <2>5 DEF ClosedBy
<1>4. ASSUME task[t].kind = "all"
      PROVE  /\ r.status = "ok" /\ Determined(t) /\ step.width \in Nat
             /\ \A k \in 1 .. step.width :
                  /\ ClosedBy(Child(t, first + k - 1), m)
                  /\ CloseOf(Child(t, first + k - 1)).status = "ok"
             /\ r = Collected([k \in 1 .. step.width |-> CloseOf(Child(t, first + k - 1))])
  <2>1. /\ \A c \in Branches(t) : task[c].result.status = "ok"
        /\ r = Collected([k \in 1 .. task[t].count - task[t].base |->
                 task[Child(t, task[t].base + k - 1)].result])
    BY <1>4 DEF ReplayInv, Waits
  <2>2. task[t].count - task[t].base = Makes(step)
    BY <1>1
  <2>3. r = Collected([k \in 1 .. Makes(step) |-> task[Child(t, first + k - 1)].result])
    BY <2>1, <2>2
  <2>4. \A k \in 1 .. Makes(step) :
          /\ task[Child(t, first + k - 1)].result = CloseOf(Child(t, first + k - 1))
          /\ ClosedBy(Child(t, first + k - 1), m)
          /\ CloseOf(Child(t, first + k - 1)).status = "ok"
    BY <1>2, <1>3, <2>1
  <2>5. r = Collected([k \in 1 .. Makes(step) |-> CloseOf(Child(t, first + k - 1))])
    <3>1. [k \in 1 .. Makes(step) |-> task[Child(t, first + k - 1)].result]
            = [k \in 1 .. Makes(step) |-> CloseOf(Child(t, first + k - 1))]
      BY <2>4
    <3> QED
      BY <2>3, <3>1
  <2>6. step.kind = "all" /\ Makes(step) = step.width /\ step.width \in Nat
    BY <1>1, <1>4 DEF Makes
  <2>7. Winners(t) = Branches(t)
    BY <1>3, <2>1 DEF Winners
  <2>8. Determined(t)
    <3>1. Collected([k \in 1 .. Makes(step) |-> CloseOf(Child(t, first + k - 1))])
            = Collected([k \in 1 .. task[t].count - task[t].base |->
                CloseOf(Child(t, task[t].base + k - 1))])
      BY <2>2
    <3> QED
      BY <1>4, <2>5, <2>7, <3>1 DEF Determined
  <2>9. r.status = "ok"
    BY <2>3 DEF Collected
  <2> QED
    BY <2>4, <2>5, <2>6, <2>8, <2>9
<1>5. ASSUME task[t].kind = "scope"
      PROVE  /\ Determined(t)
             /\ ClosedBy(Child(t, first), m) /\ CloseOf(Child(t, first)) # Cancelled
             /\ r = CloseOf(Child(t, first))
  <2>1. step.kind = "scope" /\ Makes(step) = 1
    BY <1>1, <1>5 DEF Makes
  <2>2. Child(t, first) \in Branches(t)
    BY <1>1, <1>2, <2>1
  <2>3. \A c \in Branches(t) : r = task[c].result
    BY <1>5 DEF ReplayInv, Waits
  <2>4. /\ ClosedBy(Child(t, first), m) /\ CloseOf(Child(t, first)) # Cancelled
        /\ r = CloseOf(Child(t, first))
    BY <1>3, <2>2, <2>3
  <2>5. Determined(t)
    BY <1>3, <1>5, <2>3 DEF Determined
  <2> QED
    BY <2>4, <2>5
<1> QED
  BY <1>1, <1>4, <1>5

\* An orchestrator hands its kernel what its branches have closed with.
LEMMA ResumeIsCalm ==
  ASSUME ReplayInv, TreeInv', NEW t \in Tasks, Resume(t)
  PROVE  CalmStep
<1>1. PICK h, n, step : /\ h = task[t].hist /\ n = Len(h) /\ n \in Nat
                        /\ step = Doing(t, h, n)
  BY StepIsDoing
<1>2. PICK r, first, m : /\ r = task[t].settled /\ first = task[t].base
                         /\ m = Len(stream)
  OBVIOUS
<1>3. task[t].pc = "leaving"
  BY DEF Resume
<1>4. /\ step.kind = task[t].kind /\ task[t].kind \in {"all", "scope"}
      /\ first = Made(t, h, n) /\ task[t].count = first + Makes(step)
      /\ Makes(step) \in Nat /\ Determined(t)
      /\ task[t].kind = "all" =>
           /\ r.status = "ok" /\ step.width \in Nat
           /\ \A k \in 1 .. step.width :
                /\ ClosedBy(Child(t, first + k - 1), m)
                /\ CloseOf(Child(t, first + k - 1)).status = "ok"
           /\ r = Collected([k \in 1 .. step.width |-> CloseOf(Child(t, first + k - 1))])
      /\ task[t].kind = "scope" =>
           /\ ClosedBy(Child(t, first), m) /\ CloseOf(Child(t, first)) # Cancelled
           /\ r = CloseOf(Child(t, first))
  <2>1. h = task[t].hist /\ n = Len(h) /\ step = Doing(t, h, n)
    BY <1>1
  <2>2. r = task[t].settled /\ first = task[t].base /\ m = Len(stream)
    BY <1>2
  <2> HIDE <1>1, <1>2
  <2> QED
    BY <1>3, <2>1, <2>2, LeavingRight
<1>5. task[t].kind = "all" =>
        /\ r.status = "ok" /\ step.width \in Nat
        /\ \A k \in 1 .. step.width :
             /\ ClosedBy(Child(t, first + k - 1), m)
             /\ CloseOf(Child(t, first + k - 1)).status = "ok"
        /\ r = Collected([k \in 1 .. step.width |-> CloseOf(Child(t, first + k - 1))])
  BY <1>4
<1>6. task[t].kind = "scope" =>
        /\ ClosedBy(Child(t, first), m) /\ CloseOf(Child(t, first)) # Cancelled
        /\ r = CloseOf(Child(t, first))
  BY <1>4
<1>7. /\ UNCHANGED <<program, stream, mark>> /\ \A u \in Tasks \ {t} : task'[u] = task[u]
      /\ task'[t].hist = Append(h, r) /\ task'[t].pc = "step"
      /\ task'[t].role = task[t].role /\ task'[t].result = task[t].result
      /\ task'[t].count = task[t].count /\ task'[t].cursor = task[t].cursor
      /\ task'[t].base = task[t].base /\ task'[t].kind = task[t].kind
  <2>1. r.status = "ok" \/ task[t].kind \in {"timebox", "scope"}
    BY <1>4, <1>5, <1>6
  <2>2. task' = [task EXCEPT ![t] = Resumed(@, r)] /\ UNCHANGED <<program, stream, mark>>
    BY <1>2, <2>1 DEF Resume
  <2> QED
    <3>1. task[t].hist = h /\ ShapeInv
      BY <1>1 DEF ReplayInv, TreeInv
    <3>2. /\ \A u \in Tasks \ {t} : task'[u] = task[u]
          /\ task'[t].hist = Append(task[t].hist, r) /\ task'[t].pc = "step"
          /\ task'[t].role = task[t].role /\ task'[t].result = task[t].result
          /\ task'[t].count = task[t].count /\ task'[t].cursor = task[t].cursor
          /\ task'[t].base = task[t].base /\ task'[t].kind = task[t].kind
      BY <2>2, <3>1, ResumedFields
    <3> QED
      BY <2>2, <3>1, <3>2
<1>8. Told(t)
  <2>1. YieldsOf(t)' = YieldsOf(t)
    BY <1>7 DEF YieldsOf
  <2>2. task[t].pc \in Live /\ step.kind # "effect"
    BY <1>3, <1>4 DEF Live
  <2>3. Makes(step) \in Nat /\ task'[t].count = Made(t, h, n) + Makes(step)
    BY <1>4, <1>7
  <2>4. \E x : task'[t].hist = Append(task[t].hist, x)
    BY <1>1, <1>7
  <2> QED
    BY <1>1, <1>7, <2>1, <2>2, <2>3, <2>4 DEF Told
<1>9. TellsRight(t)
  <2>1. PICK g : /\ g = Append(h, r) /\ g[n + 1] = r /\ Doing(t, g, n) = step
                 /\ Made(t, g, n) = first
    <3> DEFINE g == Append(h, r)
    <3>1. /\ h = task[t].hist /\ n = Len(h)
          /\ step = Doing(t, h, n) /\ first = Made(t, h, n)
      BY <1>1, <1>4
    <3>2. g[n + 1] = r /\ Doing(t, g, n) = step /\ Made(t, g, n) = first
      BY <3>1, ToldHistory
    <3> QED
      BY <3>2
  <2>2. Answered(t, g, n, m)
    <3>1. CASE task[t].kind = "all"
      <4>1. step.kind = "all" /\ g[n + 1] = r /\ Doing(t, g, n) = step /\ Made(t, g, n) = first
        BY <1>4, <2>1, <3>1
      <4>2. /\ step.width \in Nat
            /\ \A k \in 1 .. step.width :
                 /\ ClosedBy(Child(t, first + k - 1), m)
                 /\ CloseOf(Child(t, first + k - 1)).status = "ok"
            /\ r = Collected([k \in 1 .. step.width |-> CloseOf(Child(t, first + k - 1))])
        BY <1>5, <3>1
      <4> QED
        BY <4>1, <4>2 DEF Answered
    <3>2. CASE task[t].kind = "scope"
      BY <1>4, <1>6, <2>1, <3>2 DEF Answered
    <3> QED
      BY <1>4, <3>1, <3>2
  <2> QED
    BY <1>1, <1>2, <1>7, <2>1, <2>2 DEF TellsRight
<1> QED
  BY <1>3, <1>7, <1>8, <1>9, TellIsCalm DEF Rest, AtWork

LEMMA SpawnIsCalm ==
  ASSUME ReplayInv, TreeInv', NEW t \in Tasks, Spawn(t)
  PROVE  CalmStep
<1>1. PICK h, n : /\ h = task[t].hist /\ n = Len(h) /\ n \in Nat
                  /\ StepOf(t) = Doing(t, h, n)
  BY StepIsDoing
<1>2. PICK c, r : c = Child(t, task[t].count) /\ r = Handle(c)
  OBVIOUS
<1>3. task[t].count = Made(t, h, n) /\ task[t].count \in Nat /\ task[t].pc = "step"
  <2>1. task[t].pc = "step" /\ Kern(t) /\ task[t].count \in Nat
    BY DEF Spawn, At, ReplayInv, TreeInv, ShapeInv
  <2> QED
    BY <1>1, <2>1 DEF Kern, AtWork
<1>4. c \in Tasks \ {t} /\ task[c].pc = "unborn"
  <2>1. c \in Tasks
    BY <1>2 DEF Spawn
  <2>2. c # t /\ c # Root /\ Parent(c) = t /\ c[Len(c)] = task[t].count
    BY <1>2, <1>3, ChildFacts
  <2> QED
    BY <1>3, <2>1, <2>2 DEF ReplayInv, TreeInv, BirthInv
<1>5. /\ Doing(t, h, n).kind = "spawn"
      /\ UNCHANGED <<program, stream, mark>>
      /\ \A u \in Tasks \ {t, c} : task'[u] = task[u]
      /\ task'[t] = [Resumed(task[t], r) EXCEPT !.count = task[t].count + 1]
      /\ task'[c] = Fresh(c, "spawned")
  <2> DEFINE x == [Resumed(task[t], r) EXCEPT !.count = task[t].count + 1]
             y == Fresh(c, "spawned")
  <2>1. task' = [task EXCEPT ![t] = x, ![c] = y]
    BY <1>2 DEF Spawn
  <2>2. DOMAIN task = Tasks
    BY DEF ReplayInv, TreeInv, ShapeInv
  <2>3. Doing(t, h, n).kind = "spawn" /\ UNCHANGED <<program, stream, mark>>
    BY <1>1 DEF Spawn, At
  <2> HIDE DEF x, y
  <2>4. task'[t] = x /\ task'[c] = y /\ \A u \in Tasks \ {t, c} : task'[u] = task[u]
    BY <1>4, <2>1, <2>2, ExceptTwo
  <2> QED
    BY <2>3, <2>4 DEF x, y
<1>6. /\ task'[t].hist = Append(h, r) /\ task'[t].pc = "step"
      /\ task'[t].role = task[t].role /\ task'[t].result = task[t].result
      /\ task'[t].count = task[t].count + 1 /\ task'[t].cursor = task[t].cursor
      /\ task'[t].base = task[t].base /\ task'[t].kind = task[t].kind
  BY <1>1, <1>5 DEF Resumed, ReplayInv, TreeInv, ShapeInv, Unborn
<1>7. Told(t)
  <2>1. Makes(Doing(t, h, n)) = 1
    BY <1>5 DEF Makes
  <2>2. YieldsOf(t)' = YieldsOf(t)
    BY <1>5 DEF YieldsOf
  <2>3. task'[t].count = Made(t, h, n) + Makes(Doing(t, h, n)) /\ Makes(Doing(t, h, n)) \in Nat
    BY <1>3, <1>6, <2>1
  <2>4. /\ Doing(t, h, n).kind # "effect" /\ YieldsOf(t)' = YieldsOf(t)
        /\ task'[t].cursor = task[t].cursor
    BY <1>5, <1>6, <2>2
  <2> QED
    BY <1>1, <1>3, <1>6, <2>3, <2>4 DEF Told, Live, AtWork
<1>8. TellsRight(t)
  <2>1. PICK g : /\ g = Append(h, r) /\ g[n + 1] = r /\ Doing(t, g, n) = Doing(t, h, n)
                 /\ Made(t, g, n) = Made(t, h, n)
    <3> DEFINE g == Append(h, r)
    <3>1. /\ g[n + 1] = r /\ Doing(t, g, n) = Doing(t, h, n)
          /\ Made(t, g, n) = Made(t, h, n)
      BY <1>1, ToldHistory
    <3> QED
      BY <3>1
  <2>2. Answered(t, g, n, Len(stream))
    BY <1>2, <1>3, <1>5, <2>1 DEF Answered
  <2> QED
    BY <1>1, <1>6, <2>1, <2>2 DEF TellsRight
<1>9. Rest(t)
  BY <1>4, <1>5 DEF Rest
<1> QED
  BY <1>3, <1>5, <1>6, <1>7, <1>8, <1>9, TellIsCalm DEF AtWork

LEMMA DispatchIsCalm ==
  ASSUME ReplayInv, TreeInv', NEW t \in Tasks, Dispatch(t)
  PROVE  CalmStep
<1>1. /\ task[t].pc = "step" /\ StepOf(t).kind = "effect" /\ ~ HasEntry(t)
      /\ UNCHANGED <<program, stream, mark>> /\ \A u \in Tasks \ {t} : task'[u] = task[u]
      /\ task'[t].hist = task[t].hist /\ task'[t].pc = "dispatched"
      /\ task'[t].role = task[t].role /\ task'[t].result = task[t].result
      /\ task'[t].count = task[t].count /\ task'[t].cursor = task[t].cursor
      /\ task'[t].base = task[t].base /\ task'[t].kind = task[t].kind
  BY DEF Dispatch, At, ReplayInv, TreeInv, ShapeInv, Unborn
<1>2. Waits(t)'
  BY <1>1 DEF Waits
<1> QED
  BY <1>1, <1>2, AskIsCalm DEF Rest

LEMMA JoinIsCalm ==
  ASSUME ReplayInv, TreeInv', NEW t \in Tasks, Join(t)
  PROVE  CalmStep
<1>1. PICK h, n, c : /\ h = task[t].hist /\ n = Len(h) /\ n \in Nat
                     /\ StepOf(t) = Doing(t, h, n) /\ c = StepOf(t).child
  BY StepIsDoing
<1>2. /\ task[t].pc = "step" /\ StepOf(t).kind = "join"
      /\ c \in Children(t) /\ task[c].role = "spawned"
      /\ UNCHANGED <<program, stream, mark>> /\ \A u \in Tasks \ {t} : task'[u] = task[u]
      /\ task'[t].hist = h /\ task'[t].pc = "joining" /\ task'[t].awaits = c
      /\ task'[t].role = task[t].role /\ task'[t].result = task[t].result
      /\ task'[t].count = task[t].count /\ task'[t].cursor = task[t].cursor
      /\ task'[t].base = task[t].base /\ task'[t].kind = task[t].kind
  <2>1. /\ task[t].pc = "step" /\ StepOf(t).kind = "join"
        /\ c \in Children(t) /\ task[c].role = "spawned"
        /\ UNCHANGED <<program, stream, mark>>
        /\ task' = [task EXCEPT ![t].pc = "joining", ![t].awaits = c,
                               ![t].joined = @ \union {c}]
    BY <1>1 DEF Join, Joinable, At
  <2> QED
    <3>1. DOMAIN task = Tasks /\ DOMAIN task[t] = DOMAIN Unborn
      BY DEF ReplayInv, TreeInv, ShapeInv
    <3>2. \A u \in Tasks \ {t} : task'[u] = task[u]
      BY <2>1, <3>1
    <3>3. /\ task'[t].hist = task[t].hist /\ task'[t].pc = "joining" /\ task'[t].awaits = c
          /\ task'[t].role = task[t].role /\ task'[t].result = task[t].result
          /\ task'[t].count = task[t].count /\ task'[t].cursor = task[t].cursor
          /\ task'[t].base = task[t].base /\ task'[t].kind = task[t].kind
      BY <2>1, <3>1 DEF Unborn
    <3> QED
      BY <1>1, <2>1, <3>2, <3>3
<1>3. Waits(t)'
  <2>1. Doing(t, h, n)' = Doing(t, h, n)
    BY <1>2, KernelsStay
  <2>2. Doing(t, h, n)'.kind = "join" /\ Doing(t, h, n)'.child = task'[t].awaits
    BY <1>1, <1>2, <2>1
  <2>3. c \in Children(t)'
    BY <1>2 DEF Children
  <2>4. task'[c].role = "spawned"
    <3>1. c \in Tasks
      BY <1>2 DEF ReplayInv, TreeInv, ScopeInv
    <3> QED
      BY <1>2, <3>1
  <2> QED
    BY <1>1, <1>2, <2>2, <2>3, <2>4 DEF Waits
<1> QED
  BY <1>1, <1>2, <1>3, AskIsCalm DEF Rest

LEMMA ForkIsCalm ==
  ASSUME ReplayInv, TreeInv', Calm, NEW t \in Tasks, Fork(t)
  PROVE  CalmStep
<1>1. PICK h, n, step : /\ h = task[t].hist /\ n = Len(h) /\ n \in Nat
                        /\ StepOf(t) = step /\ step = Doing(t, h, n)
  BY StepIsDoing
<1>2. task[t].pc = "step" /\ step.kind \in {"all", "scope"}
  <2>1. task[t].pc = "step" /\ step.kind \in {"all", "race", "timebox", "scope"}
    BY <1>1 DEF Fork, At
  <2> QED
    BY <1>1, <2>1 DEF Calm
<1>3. PICK first, w : first = task[t].count /\ w = Width(step)
  OBVIOUS
<1>4. /\ first = Made(t, h, n) /\ first \in Nat /\ w = Makes(step) /\ w \in Nat \ {0}
  <2>1. Kern(t) /\ task[t].count \in Nat
    BY DEF ReplayInv, TreeInv, ShapeInv
  <2>2. w = Makes(step)
    BY <1>2, <1>3 DEF Makes, Width
  <2>3. w \in Nat \ {0}
    BY <1>1, <1>3 DEF Fork
  <2> QED
    BY <1>1, <1>2, <1>3, <2>1, <2>2, <2>3 DEF Kern, AtWork
<1>5. PICK born : born = {Child(t, k) : k \in first .. first + w - 1}
  OBVIOUS
<1>6. \A c \in Tasks : Role(step, c[Len(c)] - first) = "branch"
  <2>1. step.kind # "timebox"
    BY <1>2
  <2>2. \A k : Role(step, k) = "branch"
    BY <2>1 DEF Role
  <2> QED
    BY <2>2
<1>7. /\ born \subseteq Tasks /\ UNCHANGED <<program, stream, mark>>
      /\ \A c \in Tasks : task'[c] =
           IF c = t THEN [task[t] EXCEPT !.pc = "compound", !.kind = step.kind,
                            !.settled = Pending, !.base = first, !.count = first + w]
           ELSE IF c \in born THEN Fresh(c, Role(step, c[Len(c)] - first))
           ELSE task[c]
  BY <1>1, <1>3, <1>5 DEF Fork
<1>8. /\ task'[t].hist = h /\ task'[t].pc = "compound" /\ task'[t].kind = step.kind
      /\ task'[t].role = task[t].role /\ task'[t].result = task[t].result
      /\ task'[t].count = first + w /\ task'[t].cursor = task[t].cursor
      /\ task'[t].base = first
  BY <1>1, <1>7 DEF ReplayInv, TreeInv, ShapeInv, Unborn
<1>9. \A c \in born : c \in Tasks \ {t} /\ task[c].pc = "unborn"
  <2> SUFFICES ASSUME NEW k \in first .. first + w - 1
               PROVE  Child(t, k) \in Tasks \ {t} /\ task[Child(t, k)].pc = "unborn"
    BY <1>5
  <2>1. k \in Nat /\ k >= task[t].count /\ Child(t, k) \in Tasks
    BY <1>3, <1>4, <1>5, <1>7
  <2>2. /\ Child(t, k) # t /\ Child(t, k) # Root /\ Parent(Child(t, k)) = t
        /\ Child(t, k)[Len(Child(t, k))] = k
    BY <2>1, ChildFacts
  <2> QED
    BY <2>1, <2>2 DEF ReplayInv, TreeInv, BirthInv
<1>10. \A c \in born : task'[c] = Fresh(c, "branch")
  BY <1>6, <1>7, <1>9
<1>11. Rest(t)
  BY <1>7, <1>9, <1>10 DEF Rest
<1>12. Waits(t)'
  <2>1. Doing(t, h, n)' = step /\ Made(t, h, n)' = first
    BY <1>1, <1>4, <1>7, KernelsStay
  <2>2. Branches(t)' = born
    <3>1. task'[t].base .. task'[t].count - 1 = first .. first + w - 1
      <4>1. task'[t].base = first /\ task'[t].count = first + w
        BY <1>8
      <4> QED
        BY <1>4, <4>1
    <3>2. Branches(t)' = {Child(t, k) : k \in task'[t].base .. task'[t].count - 1}
      BY DEF Branches, Child
    <3> QED
      BY <1>5, <3>1, <3>2
  <2>3. \A c \in born : task'[c].role = "branch"
    BY <1>10, FreshFacts
  <2>4. Makes(step) = w
    BY <1>4
  <2> QED
    BY <1>1, <1>2, <1>4, <1>8, <2>1, <2>2, <2>3, <2>4 DEF Waits, Makes
<1> QED
  BY <1>1, <1>2, <1>3, <1>7, <1>8, <1>11, <1>12, AskIsCalm

-----------------------------------------------------------------------------
(* Steps that record an event *)

\* A Yield is its own coroutine's.
LEMMA YieldsOfAppend ==
  ASSUME ShapeInv, NEW e, stream' = Append(stream, e), NEW u
  PROVE  YieldsOf(u)' = IF e.co = u /\ e.type = "yield"
                        THEN YieldsOf(u) \union {Len(stream) + 1} ELSE YieldsOf(u)
<1>1. /\ Len(stream) \in Nat /\ Len(stream') = Len(stream) + 1
      /\ stream'[Len(stream) + 1] = e
      /\ \A i \in 1 .. Len(stream) : stream'[i] = stream[i]
  BY AppendFacts DEF ShapeInv
<1>2. 1 .. Len(stream') = (1 .. Len(stream)) \union {Len(stream) + 1}
  BY <1>1
<1> QED
  BY <1>1, <1>2 DEF YieldsOf

\* What a coroutine records at the end of its history is explained by it.
LEMMA RecordsRight ==
  ASSUME ReplayInv, TreeInv', UNCHANGED <<program, mark>>,
         NEW t \in Tasks, NEW h, h = task[t].hist,
         NEW e, e.co = t, e.hist = h, stream' = Append(stream, e),
         \/ /\ e.type = "yield" /\ Doing(t, h, Len(h)).kind = "effect"
            /\ Doing(t, h, Len(h)).effect = e.effect
            /\ Taken(t, h, Len(h)) = Cardinality(YieldsOf(t))
         \/ e.type = "close" /\ (e.result = Cancelled \/ EndsWith(t, h, e.result))
  PROVE  /\ Grows /\ Len(stream) \in Nat /\ Len(stream') = Len(stream) + 1
         /\ stream'[Len(stream) + 1] = e
         /\ \A m \in 1 .. Len(stream') : m > Len(stream) =>
              /\ Explained(m)' /\ stream'[m].hist = task[stream'[m].co].hist
              /\ stream'[m] = e
<1>1. Grows
  BY DEF Grows
<1>2. PICK l, m : /\ l = Len(stream) /\ l \in Nat /\ m = l + 1 /\ m \in Nat
                  /\ Len(stream') = m /\ stream'[m] = e
  <2>1. /\ Len(stream) \in Nat /\ Len(stream') = Len(stream) + 1
        /\ stream'[Len(stream) + 1] = e
    BY AppendFacts DEF ReplayInv, TreeInv, ShapeInv
  <2> QED
    BY <2>1
<1>3. Path(t, h, l)'
  <2>1. Path(t, h, l)
    BY <1>2 DEF ReplayInv, HistInv
  <2> QED
    BY <1>1, <1>2, <2>1, PathsKept DEF ReplayInv
<1>4. PICK n : n = Len(h) /\ n \in Nat
  BY <1>3, StepIsDoing
<1>5. Doing(t, h, n)' = Doing(t, h, n) /\ Taken(t, h, n)' = Taken(t, h, n)
  BY KernelsStay
<1>6. CASE /\ e.type = "yield" /\ Doing(t, h, n).kind = "effect"
           /\ Doing(t, h, n).effect = e.effect
           /\ Taken(t, h, n) = Cardinality(YieldsOf(t))
  <2>1. YieldsOf(t)' = YieldsOf(t) \union {m}
    BY <1>2, <1>6, YieldsOfAppend DEF ReplayInv, TreeInv
  <2>2. \A j \in YieldsOf(t) : j \in Nat /\ j < m
    BY <1>2 DEF YieldsOf
  <2>3. {j \in YieldsOf(t)' : j < m} = YieldsOf(t)
    BY <1>2, <2>1, <2>2
  <2>4. Place(m)' = Cardinality(YieldsOf(t))
    BY <1>2, <2>3 DEF Place
  <2>5. Explained(m)'
    <3>1. /\ stream'[m].co = t /\ stream'[m].hist = h /\ stream'[m].type = "yield"
          /\ stream'[m].effect = e.effect /\ m - 1 = l
      BY <1>2, <1>6
    <3>2. Place(m)' = Taken(t, h, n)' /\ Doing(t, h, n)'.kind = "effect"
          /\ Doing(t, h, n)'.effect = e.effect
      BY <1>5, <1>6, <2>4
    <3> QED
      BY <1>3, <1>4, <3>1, <3>2 DEF Explained
  <2> QED
    BY <1>1, <1>2, <2>5
<1>7. CASE e.type = "close" /\ (e.result = Cancelled \/ EndsWith(t, h, e.result))
  <2>1. PICK r : r = e.result
    OBVIOUS
  <2>2. r = Cancelled \/ EndsWith(t, h, r)'
    BY <1>7, <2>1, EndStays
  <2>3. /\ stream'[m].co = t /\ stream'[m].hist = h /\ stream'[m].type = "close"
        /\ stream'[m].result = r /\ m - 1 = l
    BY <1>2, <1>7, <2>1
  <2>4. Explained(m)'
    BY <1>3, <2>2, <2>3 DEF Explained, Cancelled
  <2> QED
    BY <1>1, <1>2, <2>4
<1> QED
  BY <1>4, <1>6, <1>7

\* An answer is recorded at the place its kernel has come to.
LEMMA AnswerIsCalm ==
  ASSUME ReplayInv, TreeInv', NEW t \in Tasks, Answer(t)
  PROVE  CalmStep
<1>1. PICK h, n : /\ h = task[t].hist /\ n = Len(h) /\ n \in Nat
                  /\ StepOf(t) = Doing(t, h, n)
  BY StepIsDoing
<1>2. PICK x, r, e : /\ e = YieldEvent(t, x, r, h) /\ x = Doing(t, h, n).effect
                     /\ stream' = Append(stream, e)
                     /\ task' = [task EXCEPT ![t] = Resumed(@, r)]
  BY <1>1 DEF Answer
<1>3. /\ e.co = t /\ e.hist = h /\ e.type = "yield" /\ e.effect = x /\ e.result = r
  BY <1>2 DEF YieldEvent
<1>4. /\ task[t].pc = "dispatched" /\ UNCHANGED <<program, mark>>
      /\ \A u \in Tasks \ {t} : task'[u] = task[u]
      /\ task'[t].hist = Append(h, r) /\ task'[t].pc = "step"
      /\ task'[t].role = task[t].role /\ task'[t].result = task[t].result
      /\ task'[t].count = task[t].count /\ task'[t].cursor = task[t].cursor
      /\ task'[t].base = task[t].base /\ task'[t].kind = task[t].kind
  <2>1. task[t].pc = "dispatched" /\ UNCHANGED <<program, mark>>
    BY DEF Answer
  <2> QED
    <3>1. task' = [task EXCEPT ![t] = Resumed(@, r)] /\ h = task[t].hist
      BY <1>1, <1>2
    <3>2. ShapeInv
      BY DEF ReplayInv, TreeInv
    <3>3. /\ \A u \in Tasks \ {t} : task'[u] = task[u]
          /\ task'[t].hist = Append(task[t].hist, r) /\ task'[t].pc = "step"
          /\ task'[t].role = task[t].role /\ task'[t].result = task[t].result
          /\ task'[t].count = task[t].count /\ task'[t].cursor = task[t].cursor
          /\ task'[t].base = task[t].base /\ task'[t].kind = task[t].kind
      BY <3>1, <3>2, ResumedFields
    <3> QED
      BY <2>1, <3>1, <3>3
<1>5. Doing(t, h, n).kind = "effect" /\ ~ HasEntry(t) /\ task[t].count = Made(t, h, n)
  BY <1>1, <1>4 DEF ReplayInv, Kern, AtWork
<1>6. Taken(t, h, n) = Cardinality(YieldsOf(t))
  BY <1>1, <1>4, <1>5, NoEntryLeft DEF Live, AtWork
<1>7. /\ Grows /\ Len(stream) \in Nat /\ Len(stream') = Len(stream) + 1
      /\ stream'[Len(stream) + 1] = e
      /\ \A m \in 1 .. Len(stream') : m > Len(stream) =>
           /\ Explained(m)' /\ stream'[m].hist = task[stream'[m].co].hist
           /\ stream'[m] = e
  <2>1. h = task[t].hist /\ stream' = Append(stream, e) /\ UNCHANGED <<program, mark>>
    BY <1>1, <1>2, <1>4
  <2>2. /\ Doing(t, h, Len(h)).kind = "effect" /\ Doing(t, h, Len(h)).effect = e.effect
        /\ Taken(t, h, Len(h)) = Cardinality(YieldsOf(t))
    BY <1>1, <1>2, <1>3, <1>5, <1>6
  <2> QED
    BY <1>3, <2>1, <2>2, RecordsRight
<1>8. /\ YieldsOf(t)' = YieldsOf(t) \union {Len(stream) + 1}
      /\ \A u \in Tasks \ {t} : YieldsOf(u)' = YieldsOf(u)
  BY <1>2, <1>3, YieldsOfAppend DEF ReplayInv, TreeInv
<1>9. Told(t)
  <2>1. Makes(Doing(t, h, n)) = 0
    BY <1>5 DEF Makes
  <2>2. task[t].count \in Nat
    BY DEF ReplayInv, TreeInv, ShapeInv
  <2> QED
    BY <1>1, <1>4, <1>5, <1>8, <2>1, <2>2 DEF Told, Live, AtWork
<1>10. PICK g : /\ g = Append(h, r) /\ g[n + 1] = r /\ Doing(t, g, n) = Doing(t, h, n)
                /\ Taken(t, g, n) = Taken(t, h, n)
  <2> DEFINE g == Append(h, r)
  <2>1. /\ g[n + 1] = r /\ Doing(t, g, n) = Doing(t, h, n)
        /\ Taken(t, g, n) = Taken(t, h, n)
    BY <1>1, ToldHistory
  <2> QED
    BY <2>1
<1>11. Answered(t, g, n, Len(stream))'
  <2>1. PICK m : m = Len(stream) + 1 /\ m \in Nat /\ Len(stream') = m /\ stream'[m] = e
    BY <1>7
  <2>2. m \in YieldsOf(t)' /\ stream'[m].co = t
    BY <1>3, <1>8, <2>1
  <2>3. Place(m)' = Cardinality(YieldsOf(t))
    <3>1. \A j \in YieldsOf(t) : j \in Nat /\ j < m
      BY <1>7, <2>1 DEF YieldsOf
    <3>2. {j \in YieldsOf(t)' : j < m} = YieldsOf(t)
      BY <1>8, <2>1, <3>1
    <3> QED
      BY <2>2, <3>2 DEF Place
  <2>4. Doing(t, g, n)' = Doing(t, g, n) /\ Taken(t, g, n)' = Taken(t, g, n)
    BY <1>4, KernelsStay
  <2>5. /\ Place(m)' = Taken(t, g, n)' /\ stream'[m].result = g[n + 1] /\ m <= Len(stream')
        /\ Doing(t, g, n)'.kind = "effect"
    BY <1>3, <1>5, <1>6, <1>10, <2>1, <2>3, <2>4
  <2> QED
    BY <2>2, <2>5 DEF Answered
<1>12. HistStep
  <2>1. \A u \in Tasks : u # t => task'[u].hist = task[u].hist
    BY <1>4
  <2>2. \E y, z, k : /\ k = Len(task[t].hist) /\ z = Append(task[t].hist, y)
                     /\ task'[t].hist = z /\ Answered(t, z, k, Len(stream))'
    BY <1>1, <1>4, <1>10, <1>11
  <2> QED
    <3>1. \A m \in 1 .. Len(stream') : m > Len(stream) =>
            Explained(m)' /\ stream'[m].hist = task[stream'[m].co].hist
      BY <1>7
    <3>2. \A u \in Tasks :
            \/ task'[u].hist = task[u].hist
            \/ \E y, z, k : /\ k = Len(task[u].hist) /\ z = Append(task[u].hist, y)
                            /\ task'[u].hist = z /\ Answered(u, z, k, Len(stream))'
      BY <2>1, <2>2
    <3> QED
      BY <1>7, <3>1, <3>2 DEF HistStep
<1>13. Kern(t)' /\ Waits(t)'
  BY <1>7, <1>9, ToldKern
<1>14. Works(t)
  BY <1>4 DEF Works, AtWork
<1>15. \A u \in Tasks \ {t} : Still(u)
  BY <1>4, <1>8 DEF Still
<1>16. \A m \in 1 .. Len(stream') : m > Len(stream) => stream'[m].type # "close"
  BY <1>3, <1>7
<1> QED
  BY <1>12, <1>13, <1>14, <1>15, <1>16 DEF CalmStep

\* An unchanged workflow finds its own effects in the journal, and none of them
\* after its Close.
LEMMA NeverDiverges ==
  ASSUME ReplayInv, NEW t \in Tasks
  PROVE  ~ Diverge(t)
<1> SUFFICES ASSUME Diverge(t) PROVE FALSE
  OBVIOUS
<1>1. PICK h, n, m : /\ h = task[t].hist /\ n = Len(h) /\ n \in Nat /\ m = Len(stream)
                     /\ StepOf(t) = Doing(t, h, n) /\ Taken(t, h, n) \in Nat
  BY StepIsDoing
<1>2. task[t].pc \in Live /\ StepOf(t).kind = "effect"
  BY DEF Diverge, At, Live, AtWork
<1>3. ~ HasEntry(t) /\ HasClose(t)
  BY <1>2, EntryFits DEF Diverge
<1>4. Taken(t, h, n) = Cardinality(YieldsOf(t))
  BY <1>1, <1>2, <1>3, NoEntryLeft
<1>5. PICK g : /\ Past(g, n) = Past(h, n)
               /\ Answered(t, g, n, m) \/ EndsWith(t, h, CloseOf(t))
  BY <1>1, <1>2, <1>3, CloseAhead
<1>6. Past(h, n) = Past(g, n)
  BY <1>5
<1>7. Doing(t, h, n) = Doing(t, g, n) /\ Taken(t, h, n) = Taken(t, g, n)
  BY <1>1, <1>6, SamePast
<1>8. Answered(t, g, n, m)
  BY <1>1, <1>2, <1>5 DEF EndsWith
<1>9. PICK l \in YieldsOf(t) : Place(l) = Taken(t, g, n)
  BY <1>1, <1>2, <1>7, <1>8 DEF Answered
<1>10. Place(l) < Cardinality(YieldsOf(t)) /\ Place(l) \in Nat
  BY PlaceFacts DEF ReplayInv, TreeInv, PlacesApart
<1> QED
  BY <1>1, <1>4, <1>7, <1>9, <1>10

\* A step that changes no history and records at most a Close.
LEMMA CloseGrowth ==
  ASSUME ReplayInv, TreeInv', UNCHANGED <<program, mark>>,
         NEW t \in Tasks, NEW h, h = task[t].hist, NEW r,
         r = Cancelled \/ EndsWith(t, h, r),
         stream' = IF HasClose(t) THEN stream ELSE Append(stream, CloseEvent(t, r, h)),
         \A u \in Tasks : task'[u].hist = task[u].hist
  PROVE  /\ HistStep /\ \A u \in Tasks : YieldsOf(u)' = YieldsOf(u)
         /\ \A m \in 1 .. Len(stream') : m > Len(stream) =>
              ~ HasClose(t) /\ stream'[m].co = t /\ stream'[m].result = r
         /\ ~ HasClose(t) => CloseOf(t)' = r
<1>1. CASE HasClose(t)
  <2>1. UNCHANGED <<program, stream, mark>>
    BY <1>1
  <2>2. HistStep /\ \A m \in 1 .. Len(stream') : ~ (m > Len(stream))
    BY <2>1, SilentGrowth
  <2>3. \A u \in Tasks : YieldsOf(u)' = YieldsOf(u)
    BY <2>1 DEF YieldsOf
  <2> QED
    BY <1>1, <2>2, <2>3
<1>2. CASE ~ HasClose(t)
  <2>1. PICK e : e = CloseEvent(t, r, h)
    OBVIOUS
  <2>2. /\ e.co = t /\ e.hist = h /\ e.type = "close" /\ e.result = r
        /\ stream' = Append(stream, e)
    BY <1>2, <2>1 DEF CloseEvent
  <2>3. /\ Grows /\ Len(stream) \in Nat /\ Len(stream') = Len(stream) + 1
        /\ stream'[Len(stream) + 1] = e
        /\ \A m \in 1 .. Len(stream') : m > Len(stream) =>
             /\ Explained(m)' /\ stream'[m].hist = task[stream'[m].co].hist
             /\ stream'[m] = e
    BY <2>2, RecordsRight
  <2>4. HistStep
    BY <2>3 DEF HistStep
  <2>5. \A u \in Tasks : YieldsOf(u)' = YieldsOf(u)
    BY <2>2, YieldsOfAppend DEF ReplayInv, TreeInv
  <2>6. CloseOf(t)' = r
    <3>1. Len(stream) + 1 \in Closes(t)'
      BY <2>2, <2>3 DEF Closes
    <3>2. \A i \in Closes(t)' : i = Len(stream) + 1
      BY <3>1 DEF TreeInv, CloseInv
    <3>3. CloseOf(t)' = stream'[CHOOSE i \in Closes(t)' : TRUE].result
      BY DEF CloseOf
    <3> QED
      BY <2>2, <2>3, <3>1, <3>2, <3>3
  <2> QED
    BY <1>2, <2>2, <2>3, <2>4, <2>5, <2>6
<1> QED
  BY <1>1, <1>2

\* A kernel that runs again ends as it ended before.
LEMMA ReturnIsCalm ==
  ASSUME ReplayInv, TreeInv', Calm, NEW t \in Tasks, Return(t)
  PROVE  CalmStep
<1>1. PICK h, n, step : /\ h = task[t].hist /\ n = Len(h) /\ n \in Nat
                        /\ StepOf(t) = step /\ step = Doing(t, h, n)
  BY StepIsDoing
<1>2. task[t].pc = "step" /\ step.kind \in {"done", "throw"}
  BY <1>1 DEF Return, At
<1>3. PICK r : r = IF step.kind = "done" THEN step.result ELSE Error(step.error)
  OBVIOUS
<1>4. /\ step.kind = "done" => r.status = "ok"
      /\ step.kind = "throw" =>
           /\ r.status = "error" /\ r = Error(step.error) /\ r.error # "DivergenceError"
           /\ t = Root \/ (task[t].role = "branch" /\ task[Parent(t)].kind = "scope")
  <2>1. /\ step.kind = "done" => step.result.status = "ok"
        /\ step.kind = "throw" =>
             /\ step.error # "DivergenceError"
             /\ t = Root \/ (task[t].role = "branch" /\ task[Parent(t)].kind = "scope")
    BY <1>1, <1>2 DEF Calm
  <2> QED
    BY <1>3, <2>1 DEF Error
<1>5. EndsWith(t, h, r) /\ r # Error("DivergenceError") /\ r # Cancelled
  <2>1. EndsWith(t, h, r)
    BY <1>1, <1>2, <1>3, <1>4 DEF EndsWith
  <2>2. r # Error("DivergenceError") /\ r # Cancelled
    BY <1>2, <1>4 DEF Error, Cancelled
  <2> QED
    BY <2>1, <2>2
<1>6. Conclude(t, r) /\ UNCHANGED <<program, mark>>
  BY <1>1, <1>3 DEF Return
<1>7. /\ \A u \in Tasks \ {t} : task'[u] = task[u]
      /\ task'[t].pc = "closing" /\ task'[t].result = r
      /\ task'[t].hist = task[t].hist /\ task'[t].role = task[t].role
      /\ task'[t].count = task[t].count /\ task'[t].base = task[t].base
      /\ task'[t].kind = task[t].kind
  BY <1>5, <1>6 DEF Conclude, ReplayInv, TreeInv, ShapeInv, Unborn
<1>8. stream' = IF HasClose(t) THEN stream ELSE Append(stream, CloseEvent(t, r, h))
  BY <1>1, <1>6 DEF Conclude
<1>9. /\ HistStep /\ \A u \in Tasks : YieldsOf(u)' = YieldsOf(u)
      /\ \A m \in 1 .. Len(stream') : m > Len(stream) => stream'[m].result = r
      /\ ~ HasClose(t) => CloseOf(t)' = r
  <2>1. \A u \in Tasks : task'[u].hist = task[u].hist
    BY <1>7
  <2>2. h = task[t].hist /\ (r = Cancelled \/ EndsWith(t, h, r))
    BY <1>1, <1>5
  <2>3. UNCHANGED <<program, mark>>
    BY <1>6
  <2>4. /\ HistStep /\ \A u \in Tasks : YieldsOf(u)' = YieldsOf(u)
        /\ \A m \in 1 .. Len(stream') : m > Len(stream) =>
             ~ HasClose(t) /\ stream'[m].co = t /\ stream'[m].result = r
        /\ ~ HasClose(t) => CloseOf(t)' = r
    BY <1>8, <2>1, <2>2, <2>3, CloseGrowth
  <2> QED
    BY <2>4
<1>10. CloseOf(t)' = r
  <2>1. CASE HasClose(t)
    <3>1. PICK g : /\ Past(g, n) = Past(h, n)
                   /\ Answered(t, g, n, Len(stream)) \/ EndsWith(t, h, CloseOf(t))
      BY <1>1, <1>2, <2>1, CloseAhead DEF Live, AtWork
    <3>2. Past(h, n) = Past(g, n)
      BY <3>1
    <3>3. Doing(t, h, n) = Doing(t, g, n)
      BY <1>1, <3>2, SamePast
    <3>4. ~ Answered(t, g, n, Len(stream))
      BY <1>1, <1>2, <3>3 DEF Answered
    <3>5. EndsWith(t, h, CloseOf(t))
      BY <3>1, <3>4
    <3>6. CloseOf(t) = r
      BY <1>1, <1>2, <1>3, <3>5 DEF EndsWith
    <3>7. Closes(t) # {}
      BY <2>1 DEF HasClose
    <3>8. CloseOf(t)' = CloseOf(t)
      BY <1>9, <3>7, GrowthOfCloses DEF HistStep, ReplayInv
    <3> QED
      BY <3>6, <3>8
  <2> QED
    BY <1>9, <2>1
<1>11. Shuts(t)
  <2>1. EndsWith(t, h, r)'
    BY <1>5, <1>6, EndStays
  <2>2. EndsWith(t, task[t].hist, task[t].result)'
    BY <1>1, <1>7, <2>1
  <2>3. r.status = "error" => t = Root \/ (task[t].role = "branch" /\ task[Parent(t)].kind = "scope")
    BY <1>2, <1>4
  <2> QED
    BY <1>2, <1>7, <1>10, <2>2, <2>3 DEF Shuts, Same, AtWork
<1>12. \A u \in Tasks \ {t} : Still(u)
  BY <1>7, <1>9 DEF Still
<1>13. \A m \in 1 .. Len(stream') : m > Len(stream) => stream'[m].result # Cancelled
  BY <1>5, <1>9
<1> QED
  BY <1>9, <1>11, <1>12, <1>13 DEF CalmStep, Cancelled

\* A step in which one coroutine moves and nothing is told or recorded.
LEMMA QuietIsCalm ==
  ASSUME ReplayInv, TreeInv', NEW t \in Tasks, UNCHANGED <<program, stream, mark>>,
         \A u \in Tasks \ {t} : task'[u] = task[u], task'[t].hist = task[t].hist,
         \/ Halts(t) \/ Stops(t)
         \/ Leaves(t) /\ Kern(t)' /\ Waits(t)'
  PROVE  CalmStep
<1>1. \A u \in Tasks : YieldsOf(u)' = YieldsOf(u)
  BY DEF YieldsOf
<1>2. HistStep /\ \A m \in 1 .. Len(stream') : ~ (m > Len(stream))
  BY SilentGrowth
<1>3. \A u \in Tasks \ {t} : Still(u)
  BY <1>1 DEF Still
<1> QED
  BY <1>2, <1>3 DEF CalmStep

\* A halt comes from above: what leaves a compound effect has branches that
\* have ended, so only a closed or halted parent halts a child.
LEMMA HaltChildIsCalm ==
  ASSUME ReplayInv, TreeInv', NEW t \in Tasks, HaltChild(t)
  PROVE  CalmStep
<1>1. PICK p \in Tasks : p = Parent(t)
  BY ParentFacts DEF HaltChild
<1>2. task[p].pc \in {"closing", "halting"}
  <2>1. t \in Doomed(p) /\ task[t].pc # "ended"
    BY <1>1 DEF HaltChild
  <2>2. ASSUME task[p].pc = "leaving" PROVE FALSE
    <3>1. t \in Branches(p)
      BY <2>1, <2>2 DEF Doomed
    <3>2. Waits(p)
      BY DEF ReplayInv
    <3> QED
      BY <2>1, <2>2, <3>1, <3>2 DEF Waits
  <2> QED
    BY <2>1, <2>2 DEF Doomed
<1>3. /\ UNCHANGED <<program, stream, mark>> /\ \A u \in Tasks \ {t} : task'[u] = task[u]
      /\ task[t].pc \notin {"unborn", "ended"}
      /\ task'[t].pc = "halting" /\ task'[t].result = Cancelled
      /\ task'[t].hist = task[t].hist /\ task'[t].role = task[t].role
      /\ task'[t].kind = task[t].kind /\ task'[t].base = task[t].base
      /\ task'[t].count = task[t].count
  BY DEF HaltChild, ReplayInv, TreeInv, ShapeInv, Unborn
<1>4. Halts(t)
  BY <1>1, <1>2, <1>3 DEF Halts, Same
<1> QED
  BY <1>3, <1>4, QuietIsCalm

LEMMA HaltIsCalm ==
  ASSUME ReplayInv, TreeInv', Halt
  PROVE  CalmStep
<1>1. Root \in Tasks /\ task[Root].pc # "unborn"
  BY TasksAssumption DEF ReplayInv, TreeInv, BirthInv
<1>2. /\ UNCHANGED <<program, stream, mark>> /\ \A u \in Tasks \ {Root} : task'[u] = task[u]
      /\ task[Root].pc \notin {"unborn", "ended"}
      /\ task'[Root].pc = "halting" /\ task'[Root].result = Cancelled
      /\ task'[Root].hist = task[Root].hist /\ task'[Root].role = task[Root].role
      /\ task'[Root].kind = task[Root].kind /\ task'[Root].base = task[Root].base
      /\ task'[Root].count = task[Root].count
  BY <1>1 DEF Halt, ReplayInv, TreeInv, ShapeInv, Unborn
<1>3. Halts(Root)
  BY <1>2 DEF Halts, Same
<1> QED
  BY <1>1, <1>2, <1>3, QuietIsCalm

\* Only a coroutine that is being halted records that it was cancelled.
LEMMA HaltedIsCalm ==
  ASSUME ReplayInv, TreeInv', NEW t \in Tasks, Halted(t)
  PROVE  CalmStep
<1>1. task[t].pc = "halting" /\ task[t].result = Cancelled
  BY DEF Halted, ReplayInv, Ends
<1>2. task' = Ended(t) /\ UNCHANGED <<program, mark>> /\ \A c \in Children(t) : task[c].pc = "ended"
  BY <1>1 DEF Halted, ScopeClosed
<1>3. /\ \A u \in Tasks \ {t} : task'[u] = task[u]
      /\ task'[t].pc = "ended" /\ task'[t].result = task[t].result
      /\ task'[t].hist = task[t].hist /\ task'[t].role = task[t].role
      /\ task'[t].kind = task[t].kind /\ task'[t].base = task[t].base
      /\ task'[t].count = task[t].count
  BY <1>2 DEF Ended, ReplayInv, TreeInv, ShapeInv, Unborn
<1>4. Stops(t)
  BY <1>1, <1>2, <1>3 DEF Stops, Same
<1>5. CASE task[t].closed
  <2>1. stream' = stream
    BY <1>5 DEF Halted
  <2> QED
    BY <1>2, <1>3, <1>4, <2>1, QuietIsCalm
<1>6. CASE ~ task[t].closed
  <2>1. PICK h, r : h = task[t].hist /\ r = Cancelled
    OBVIOUS
  <2>2. stream' = IF HasClose(t) THEN stream ELSE Append(stream, CloseEvent(t, r, h))
    BY <1>6, <2>1 DEF Halted
  <2>3. /\ HistStep /\ \A u \in Tasks : YieldsOf(u)' = YieldsOf(u)
        /\ \A m \in 1 .. Len(stream') : m > Len(stream) =>
             ~ HasClose(t) /\ stream'[m].co = t /\ stream'[m].result = r
    <3>1. \A u \in Tasks : task'[u].hist = task[u].hist
      BY <1>3
    <3>2. UNCHANGED <<program, mark>>
      BY <1>2
    <3>3. h = task[t].hist /\ (r = Cancelled \/ EndsWith(t, h, r))
      BY <2>1
    <3>4. /\ HistStep /\ \A u \in Tasks : YieldsOf(u)' = YieldsOf(u)
          /\ \A m \in 1 .. Len(stream') : m > Len(stream) =>
               ~ HasClose(t) /\ stream'[m].co = t /\ stream'[m].result = r
          /\ ~ HasClose(t) => CloseOf(t)' = r
      BY <2>2, <3>1, <3>2, <3>3, CloseGrowth
    <3> QED
      BY <3>4
  <2>4. \A u \in Tasks \ {t} : Still(u)
    BY <1>3, <2>3 DEF Still
  <2> QED
    BY <1>1, <1>4, <2>3, <2>4 DEF CalmStep
<1> QED
  BY <1>5, <1>6

\* What an orchestrator settles on is what all its branches have closed with.
LEMMA OutcomeRight ==
  ASSUME ReplayInv, NEW t \in Tasks, task[t].pc = "closing",
         NEW p \in Tasks, task[p].pc = "compound", t \in Branches(p),
         NEW ts, ts = Ended(t), NEW x, x = Outcome(ts, p, t), x # Pending
  PROVE  /\ \A c \in Branches(p) : c \in Tasks /\ ts[c].pc = "ended" /\ ts[c].result # Cancelled
         /\ task[p].kind = "all" =>
              /\ \A c \in Branches(p) : ts[c].result.status = "ok"
              /\ x = Collected([k \in 1 .. task[p].count - task[p].base |->
                         ts[Child(p, task[p].base + k - 1)].result])
         /\ task[p].kind = "scope" => \A c \in Branches(p) : x = ts[c].result
<1>1. PICK b, n : b = task[p].base /\ n = task[p].count - b
  OBVIOUS
<1>2. /\ b \in Nat /\ task[p].count \in Nat /\ b <= task[p].count
      /\ \A c \in Branches(p) : c \in Children(p) /\ c \in Tasks
  <2>1. task[p].base \in Nat /\ task[p].count \in Nat /\ task[p].base <= task[p].count
    BY DEF ReplayInv, TreeInv, ShapeInv
  <2>2. task[p].base .. task[p].count - 1 \subseteq 0 .. task[p].count - 1
    BY <2>1
  <2> QED
    BY <1>1, <2>1, <2>2 DEF Branches, Children, ReplayInv, TreeInv, ScopeInv
<1>3. /\ task[p].kind \in {"all", "scope"}
      /\ task[p].kind = "scope" => task[p].count = b + 1
  <2>1. Waits(p)
    BY DEF ReplayInv
  <2> QED
    BY <1>1, <2>1 DEF Waits, Makes
<1>4. t # p
  <2>1. task[t].pc # task[p].pc
    OBVIOUS
  <2> QED
    BY <2>1
<1>5. /\ \A u \in Tasks \ {t} : ts[u] = task[u]
      /\ ts[t].pc = "ended" /\ ts[t].result = task[t].result /\ ts[t].role = task[t].role
  BY DEF Ended, ReplayInv, TreeInv, ShapeInv, Unborn
<1>6. ASSUME NEW c \in Branches(p), ts[c].pc = "ended"
      PROVE  /\ ts[c].result # Cancelled /\ ts[c].result.status \in {"ok", "error"}
             /\ task[p].kind = "all" => ts[c].result.status = "ok"
  <2>1. c \in Tasks /\ task[c].pc \in {"closing", "ended"} /\ ts[c].result = task[c].result
    BY <1>2, <1>5, <1>6
  <2>2. task[c].result # Cancelled /\ EndsWith(c, task[c].hist, task[c].result)
    BY <2>1, AwaitedEnds
  <2>3. task[c].result.status \in {"ok", "error"}
    BY <2>2 DEF EndsWith, Error
  <2>4. c # Root /\ Parent(c) = p
    <3>1. \A k \in 0 .. task[p].count - 1 : k \in Nat
      OBVIOUS
    <3> QED
      BY <1>2, <3>1, ChildFacts DEF Children
  <2>5. task[p].kind = "all" => task[c].result.status # "error"
    <3>1. Ends(c)
      BY <2>1 DEF ReplayInv
    <3> QED
      BY <2>1, <2>4, <3>1 DEF Ends
  <2> QED
    BY <2>1, <2>2, <2>3, <2>5
<1>7. PICK r : r = ts[t].result
  OBVIOUS
<1>8. r # Cancelled /\ r.status \in {"ok", "error"} /\ (task[p].kind = "all" => r.status = "ok")
  BY <1>5, <1>6, <1>7
<1>9. ts[p] = task[p]
  BY <1>4, <1>5
<1>10. CASE task[p].kind = "all"
  <2> DEFINE result(k) == LET c == ts[Child(p, b + k - 1)] IN
                          IF c.pc = "ended" THEN c.result ELSE Pending
             results == [k \in 1 .. n |-> result(k)]
  <2>1. x = AllOutcome(results, r)
    BY <1>1, <1>7, <1>9, <1>10 DEF Outcome
  <2>2. Returned(results) /\ x = Values(results)
    BY <1>8, <1>10, <2>1 DEF AllOutcome
  <2>3. ASSUME NEW k \in 1 .. n
        PROVE  LET c == Child(p, b + k - 1)
               IN c \in Branches(p) /\ ts[c].pc = "ended" /\ results[k] = ts[c].result
    <3>1. b + k - 1 \in b .. task[p].count - 1
      BY <1>1, <1>2
    <3>2. Child(p, b + k - 1) \in Branches(p)
      BY <1>1, <3>1 DEF Branches
    <3>3. results[k] # Pending
      BY <2>2 DEF Returned
    <3> QED
      BY <3>2, <3>3
  <2>4. \A c \in Branches(p) : \E k \in 1 .. n : c = Child(p, b + k - 1)
    <3> SUFFICES ASSUME NEW c \in Branches(p) PROVE \E k \in 1 .. n : c = Child(p, b + k - 1)
      OBVIOUS
    <3>1. PICK j \in b .. task[p].count - 1 : c = Child(p, j)
      BY <1>1 DEF Branches
    <3>2. j - b + 1 \in 1 .. n /\ b + (j - b + 1) - 1 = j
      BY <1>1, <1>2
    <3> QED
      BY <3>1, <3>2
  <2>5. \A c \in Branches(p) : ts[c].pc = "ended"
    BY <2>3, <2>4
  <2>6. \A c \in Branches(p) : ts[c].result # Cancelled /\ ts[c].result.status = "ok"
    BY <1>6, <1>10, <2>5
  <2>7. \A k \in 1 .. n : results[k] = ts[Child(p, b + k - 1)].result /\ results[k].status = "ok"
    BY <2>3, <2>6
  <2>8. DOMAIN results = 1 .. n
    OBVIOUS
  <2> HIDE DEF results, result
  <2>9. x = Collected([k \in 1 .. n |-> ts[Child(p, b + k - 1)].result])
    BY <2>2, <2>7, <2>8 DEF Values
  <2> QED
    BY <1>1, <1>2, <1>10, <2>5, <2>6, <2>9
<1>11. CASE task[p].kind = "scope"
  <2>1. x = ErrorOf(r)
    BY <1>7, <1>9, <1>11 DEF Outcome
  <2>2. x = r
    BY <1>8, <2>1 DEF ErrorOf
  <2>3. \A c \in Branches(p) : c = t
    <3>1. \A j \in b .. task[p].count - 1 : j = b
      BY <1>2, <1>3, <1>11
    <3> QED
      BY <1>1, <3>1 DEF Branches
  <2> QED
    BY <1>5, <1>7, <1>8, <1>11, <2>2, <2>3
<1> QED
  BY <1>3, <1>10, <1>11

\* A coroutine returns what it closed with: no spawned child fails, and an
\* orchestrator settles on what its branches have closed with.
LEMMA FinishIsCalm ==
  ASSUME ReplayInv, TreeInv', NEW t \in Tasks, Finish(t)
  PROVE  CalmStep
<1>1. PICK r : r = task[t].result
  OBVIOUS
<1>2. /\ task[t].pc = "closing" /\ \A c \in Children(t) : task[c].pc = "ended"
      /\ UNCHANGED <<program, mark>>
  BY DEF Finish, ScopeClosed
<1>3. /\ r.status # "threw"
      /\ t # Root /\ task[t].role = "spawned" => r.status # "error"
  <2>1. Ends(t)
    BY DEF ReplayInv
  <2>2. r = Cancelled \/ EndsWith(t, task[t].hist, r)
    BY <1>1, <1>2, <2>1 DEF Ends
  <2>3. r.status \in {"cancelled", "ok", "error"}
    BY <2>2 DEF EndsWith, Cancelled, Error
  <2>4. r.status = "error" /\ t # Root => task[t].role = "branch"
    BY <1>1, <1>2, <2>1 DEF Ends
  <2> QED
    BY <2>3, <2>4
<1>4. task' = Reported(t) /\ UNCHANGED stream
  BY <1>1, <1>3 DEF Finish
<1>5. PICK ts : ts = Ended(t)
  OBVIOUS
<1>6. /\ \A u \in Tasks \ {t} : ts[u] = task[u]
      /\ ts[t].pc = "ended" /\ ts[t].result = r
      /\ ts[t].hist = task[t].hist /\ ts[t].role = task[t].role
      /\ ts[t].kind = task[t].kind /\ ts[t].base = task[t].base
      /\ ts[t].count = task[t].count
  BY <1>1, <1>5 DEF Ended, ReplayInv, TreeInv, ShapeInv, Unborn
<1>7. CASE task' = ts
  <2>1. Stops(t)
    BY <1>1, <1>2, <1>6, <1>7 DEF Stops, Same
  <2> QED
    BY <1>2, <1>4, <1>6, <1>7, <2>1, QuietIsCalm
<1>8. ASSUME task' # ts PROVE CalmStep
  <2>1. t # Root /\ task' = Report(ts, t)
    BY <1>4, <1>5, <1>8 DEF Reported
  <2>2. PICK p \in Tasks : p = Parent(t) /\ p # t /\ t = Child(p, t[Len(t)])
    <3>1. Parent(t) \in Tasks /\ t[Len(t)] \in Nat /\ t = Child(Parent(t), t[Len(t)])
      BY <2>1, ParentFacts
    <3>2. Parent(t) # t
      BY <3>1, ChildFacts
    <3> QED
      BY <3>1, <3>2
  <2>3. PICK x : x = Outcome(ts, p, t)
    OBVIOUS
  <2>4. /\ task[t].role # "spawned" /\ ts[p].pc = "compound" /\ x # Pending
        /\ task' = [ts EXCEPT ![p].pc = "leaving", ![p].settled = x]
    <3>1. Report(ts, t) =
            IF task[t].role # "spawned" /\ ts[p].pc = "compound" /\ x # Pending
            THEN [ts EXCEPT ![p].pc = "leaving", ![p].settled = x] ELSE ts
      BY <1>3, <1>6, <2>1, <2>2, <2>3 DEF Report
    <3> QED
      BY <1>8, <2>1, <3>1
  <2>5. ts[p] = task[p] /\ task[p].pc = "compound"
    BY <1>6, <2>2, <2>4
  <2>6. t \in Branches(p)
    <3>1. t \in Children(p)
      BY <1>2, <2>1, <2>2, BornBefore DEF ReplayInv
    <3> QED
      BY <1>2, <2>4, <2>5, <3>1 DEF ReplayInv, TreeInv, ScopeInv
  <2>7. /\ \A c \in Branches(p) : c \in Tasks /\ ts[c].pc = "ended" /\ ts[c].result # Cancelled
        /\ task[p].kind = "all" =>
             /\ \A c \in Branches(p) : ts[c].result.status = "ok"
             /\ x = Collected([k \in 1 .. task[p].count - task[p].base |->
                        ts[Child(p, task[p].base + k - 1)].result])
        /\ task[p].kind = "scope" => \A c \in Branches(p) : x = ts[c].result
    BY <1>2, <1>5, <2>3, <2>4, <2>5, <2>6, OutcomeRight
  <2>8. /\ \A u \in Tasks \ {p} : task'[u] = ts[u]
        /\ task'[p].pc = "leaving" /\ task'[p].settled = x
        /\ task'[p].hist = task[p].hist /\ task'[p].role = task[p].role
        /\ task'[p].kind = task[p].kind /\ task'[p].base = task[p].base
        /\ task'[p].count = task[p].count /\ task'[p].cursor = task[p].cursor
        /\ task'[p].result = task[p].result
    <3>1. DOMAIN ts = Tasks /\ DOMAIN ts[p] = DOMAIN Unborn
      BY <1>5, <2>5 DEF Ended, ReplayInv, TreeInv, ShapeInv
    <3> QED
      BY <2>4, <2>5, <3>1 DEF Unborn
  <2>9. \A u \in Tasks : task'[u].hist = task[u].hist
    BY <1>6, <2>8
  <2>10. HistStep /\ \A m \in 1 .. Len(stream') : ~ (m > Len(stream))
    BY <1>2, <1>4, <2>9, SilentGrowth
  <2>11. Kern(p)'
    BY <1>2, <1>4, <2>5, <2>8, <2>10, AskKern DEF AtWork
  <2>12. Waits(p)'
    <3>1. PICK h, n : h = task[p].hist /\ n = Len(h)
      OBVIOUS
    <3>2. Doing(p, h, n)' = Doing(p, h, n) /\ Made(p, h, n)' = Made(p, h, n)
      BY <1>2, KernelsStay
    <3>3. Branches(p)' = Branches(p) /\ p \notin Branches(p)
      <4>1. Branches(p)' = Branches(p)
        BY <2>8 DEF Branches
      <4>2. p \notin Branches(p)
        BY <2>5, <2>7
      <4> QED
        BY <4>1, <4>2
    <3>4. \A c \in Branches(p) : task'[c] = ts[c] /\ ts[c].role = task[c].role
      BY <1>6, <2>7, <2>8, <3>3
    <3>5. /\ Doing(p, h, n).kind = task[p].kind /\ task[p].kind \in {"all", "scope"}
          /\ Makes(Doing(p, h, n)) \in Nat \ {0}
          /\ task[p].base = Made(p, h, n)
          /\ task[p].count = task[p].base + Makes(Doing(p, h, n))
          /\ \A c \in Branches(p) : task[c].role = "branch"
      <4>1. Waits(p)
        BY DEF ReplayInv
      <4> QED
        BY <2>5, <3>1, <4>1 DEF Waits
    <3>6. /\ Doing(p, h, n)'.kind = task'[p].kind /\ task'[p].kind \in {"all", "scope"}
          /\ Makes(Doing(p, h, n)') \in Nat \ {0}
          /\ task'[p].base = Made(p, h, n)'
          /\ task'[p].count = task'[p].base + Makes(Doing(p, h, n)')
          /\ \A c \in Branches(p)' : task'[c].role = "branch"
      BY <2>8, <3>2, <3>3, <3>4, <3>5
    <3>7. \A c \in Branches(p)' : task'[c].pc = "ended" /\ task'[c].result # Cancelled
      BY <2>7, <3>3, <3>4
    <3>8. ASSUME task'[p].kind = "all"
          PROVE  /\ \A c \in Branches(p)' : task'[c].result.status = "ok"
                 /\ task'[p].settled = Collected([k \in 1 .. task'[p].count - task'[p].base |->
                                         task'[Child(p, task'[p].base + k - 1)].result])
      <4>1. PICK b, m : b = task[p].base /\ m = task[p].count - b
        OBVIOUS
      <4>2. b \in Nat /\ task[p].count \in Nat
        BY <4>1 DEF ReplayInv, TreeInv, ShapeInv
      <4>3. \A k \in 1 .. m : Child(p, b + k - 1) \in Branches(p)
        <5>1. \A k \in 1 .. m : b + k - 1 \in b .. task[p].count - 1
          BY <4>1, <4>2
        <5> QED
          BY <4>1, <5>1 DEF Branches
      <4>4. x = Collected([k \in 1 .. m |-> ts[Child(p, b + k - 1)].result])
        BY <2>7, <2>8, <3>8, <4>1
      <4>5. [k \in 1 .. m |-> ts[Child(p, b + k - 1)].result]
            = [k \in 1 .. m |-> task'[Child(p, b + k - 1)].result]
        BY <3>4, <4>3
      <4>6. \A c \in Branches(p)' : task'[c].result.status = "ok"
        BY <2>7, <2>8, <3>3, <3>4, <3>8
      <4>7. task'[p].settled = Collected([k \in 1 .. m |-> task'[Child(p, b + k - 1)].result])
        BY <2>8, <4>4, <4>5
      <4> QED
        BY <2>8, <4>1, <4>6, <4>7
    <3>9. task'[p].kind = "scope" => \A c \in Branches(p)' : task'[p].settled = task'[c].result
      BY <2>7, <2>8, <3>3, <3>4
    <3>10. task'[p].hist = h /\ task'[p].pc = "leaving"
      BY <2>8, <3>1
    <3> QED
      BY <3>1, <3>6, <3>7, <3>8, <3>9, <3>10 DEF Waits
  <2>13. Leaves(p)
    BY <2>5, <2>8 DEF Leaves, Same
  <2>14. Stops(t)
    <3>1. task'[t] = ts[t]
      BY <2>2, <2>8
    <3> QED
      BY <1>1, <1>2, <1>6, <3>1 DEF Stops, Same
  <2>15. \A u \in Tasks \ {t, p} : Still(u)
    BY <1>4, <1>6, <2>8 DEF Still, YieldsOf
  <2> QED
    BY <2>10, <2>11, <2>12, <2>13, <2>14, <2>15 DEF CalmStep
<1> QED
  BY <1>7, <1>8

\* No other step belongs to a calm tree.
LEMMA StepIsCalm ==
  ASSUME ReplayInv, TreeInv', Calm, NEW t \in Tasks, Step(t) \/ Answer(t)
  PROVE  CalmStep
<1>1. ~ RaceOfNone(t) /\ ~ BindFails(t)
  <2>1. task[t].pc = "step" => StepOf(t).kind \notin {"race", "badScope"}
    BY DEF Calm
  <2> QED
    BY <2>1 DEF RaceOfNone, BindFails, At
<1>2. ~ JoinRefused(t)
  BY DEF Calm, JoinRefused, At
<1> QED
  BY <1>1, <1>2, NeverDiverges, ReplayIsCalm, DispatchIsCalm, ForkIsCalm, AllOfNoneIsCalm,
    SpawnIsCalm, JoinIsCalm, JoinedIsCalm, ResumeIsCalm, ReturnIsCalm, FinishIsCalm,
    HaltChildIsCalm, HaltedIsCalm, AnswerIsCalm DEF Step

-----------------------------------------------------------------------------
(* Runs *)

\* What a run leaves behind for the next: explained events, and no coroutine
\* cancelled without its parent having closed.
JournalRight ==
  /\ \A m \in 1 .. Len(stream) :
       /\ Explained(m)
       /\ \A l \in 1 .. Len(stream) :
            stream[l].co = stream[m].co => Agree(stream[l].hist, stream[m].hist)
  /\ \A t \in Tasks : \A n \in 0 .. Cardinality(YieldsOf(t)) - 1 :
       \E i \in YieldsOf(t) : Place(i) = n
  /\ \A c \in Tasks \ {Root} : \A i \in Closes(c) :
       stream[i].result = Cancelled => Closes(Parent(c)) # {}

LEMMA BootReplays == Boot /\ JournalRight => ReplayInv
<1> SUFFICES ASSUME Boot, JournalRight PROVE ReplayInv
  OBVIOUS
<1>1. TreeInv /\ mark = Len(stream) /\ Len(stream) \in Nat
  BY BootFacts, LenProperties DEF Boot
<1>2. /\ task[Root] = Fresh(Root, "root") /\ Root \in Tasks
      /\ \A t \in Tasks \ {Root} : task[t] = Unborn
  BY TasksAssumption DEF Boot, BootTasks
<1>3. /\ task[Root].pc \in {"step", "closing"} /\ task[Root].role = "root"
      /\ task[Root].hist = <<>> /\ task[Root].cursor = 0 /\ task[Root].count = 0
      /\ task[Root].pc = "step" => task[Root].result = Pending /\ ~ WasCancelled(Root)
      /\ task[Root].pc = "closing" => task[Root].result = Cancelled
  BY <1>2 DEF Fresh
<1>4. \A t \in Tasks \ {Root} : task[t].pc = "unborn" /\ task[t].hist = <<>> /\ task[t].role = "none"
  BY <1>2 DEF Unborn
<1>5. HistInv
  <2>1. \A t \in Tasks : task[t].hist = <<>>
    BY <1>3, <1>4
  <2>2. ASSUME NEW t \in Tasks PROVE Path(t, task[t].hist, Len(stream))
    <3>1. PICK h : h = <<>>
      OBVIOUS
    <3>2. IsHistory(h) /\ Len(h) = 0
      BY <3>1, EmptySeq DEF IsHistory
    <3>3. Path(t, h, Len(stream))
      BY <3>2 DEF Path
    <3> QED
      BY <2>1, <3>1, <3>3
  <2>3. \A h : Agree(h, <<>>)
    BY DEF Agree
  <2>4. \A m \in 1 .. Len(stream) : Agree(stream[m].hist, task[stream[m].co].hist)
    BY <2>1, <2>3 DEF JournalRight, Explained
  <2> QED
    BY <2>2, <2>4 DEF JournalRight, HistInv
<1>6. ASSUME NEW t \in Tasks PROVE Kern(t)
  <2>1. \A i \in YieldsOf(t) : i <= mark
    BY <1>1 DEF YieldsOf
  <2>2. PICK h : h = <<>> /\ task[t].hist = h
    BY <1>3, <1>4
  <2>3. Len(h) = 0 /\ Made(t, h, 0) = 0 /\ Taken(t, h, 0) = 0
    BY <2>2, NothingYet
  <2>4. Cardinality(YieldsOf(t)) \in Nat
    BY <1>1, PlaceFacts DEF PlacesApart, TreeInv
  <2>5. CASE t = Root
    BY <1>3, <2>1, <2>2, <2>3, <2>4, <2>5 DEF Kern, Live, AtWork
  <2>6. CASE t # Root
    BY <1>2, <1>4, <2>1, <2>6 DEF Kern, Live, AtWork
  <2> QED
    BY <2>5, <2>6
<1>7. ASSUME NEW t \in Tasks PROVE Waits(t)
  BY <1>3, <1>4 DEF Waits
<1>8. ASSUME NEW c \in Tasks PROVE Ends(c)
  BY <1>3, <1>4 DEF Ends, Cancelled
<1>9. ASSUME NEW c \in Tasks PROVE Cancels(c)
  <2>1. WasCancelled(c) => task[c].pc \in {"unborn", "closing"}
    BY <1>3, <1>4
  <2>2. ASSUME c # Root
        PROVE  /\ WasCancelled(c) => HasClose(Parent(c))
               /\ \A i \in Closes(c) : stream[i].result = Cancelled => Closes(Parent(c)) # {}
               /\ task[c].pc = "unborn"
    <3>1. \A i \in Closes(c) : stream[i].result = Cancelled => Closes(Parent(c)) # {}
      BY <2>2 DEF JournalRight
    <3>2. \A i \in Closes(Parent(c)) : i <= mark
      BY <1>1 DEF Closes
    <3> QED
      BY <1>4, <2>2, <3>1, <3>2 DEF WasCancelled, HasClose
  <2> QED
    BY <2>1, <2>2 DEF Cancels
<1> QED
  BY <1>1, <1>5, <1>6, <1>7, <1>8, <1>9 DEF ReplayInv

LEMMA BootReplaysNext == Boot' /\ JournalRight' => ReplayInv'
  BY BootReplays, PTL

\* What explains the events is the stream and the workflow.
LEMMA ExplainedStays ==
  ASSUME UNCHANGED <<program, stream>>
  PROVE  \A m : Explained(m) => Explained(m)'
<1>1. \A t : YieldsOf(t)' = YieldsOf(t) /\ Closes(t)' = Closes(t)
  BY DEF YieldsOf, Closes
<1>2. \A i : Place(i)' = Place(i)
  BY <1>1 DEF Place
<1>3. \A c : CloseOf(c)' = CloseOf(c)
  BY <1>1 DEF CloseOf
<1>4. \A c, m : ClosedBy(c, m)' <=> ClosedBy(c, m)
  BY <1>1 DEF ClosedBy
<1>5. \A t, h, i : /\ Doing(t, h, i)' = Doing(t, h, i) /\ Made(t, h, i)' = Made(t, h, i)
                   /\ Taken(t, h, i)' = Taken(t, h, i)
  BY KernelsStay
<1>6. ASSUME NEW t, NEW h, NEW i, NEW m, Answered(t, h, i, m) PROVE Answered(t, h, i, m)'
  <2>1. PICK step : step = Doing(t, h, i) /\ step = Doing(t, h, i)'
    BY <1>5
  <2>2. CASE step.kind = "effect"
    BY <1>1, <1>2, <1>5, <1>6, <2>1, <2>2 DEF Answered
  <2>3. CASE step.kind = "all"
    BY <1>3, <1>4, <1>5, <1>6, <2>1, <2>3 DEF Answered
  <2>4. CASE step.kind \in {"scope", "spawn", "join"}
    BY <1>3, <1>4, <1>5, <1>6, <2>1, <2>4 DEF Answered
  <2> QED
    BY <1>6, <2>1, <2>2, <2>3, <2>4 DEF Answered
<1>7. ASSUME NEW t, NEW h, NEW m, Path(t, h, m) PROVE Path(t, h, m)'
  BY <1>6, <1>7 DEF Path
<1>8. ASSUME NEW t, NEW h, NEW r, EndsWith(t, h, r) PROVE EndsWith(t, h, r)'
  BY <1>8, EndStays
<1>9. ASSUME NEW m, Explained(m) PROVE Explained(m)'
  <2>1. PICK e, h, n, step : /\ e = stream[m] /\ h = e.hist /\ n = Len(h)
                             /\ step = Doing(e.co, h, n) /\ step = Doing(e.co, h, n)'
    BY <1>5
  <2>2. /\ e.co \in Tasks /\ Path(e.co, h, m - 1)
        /\ \/ /\ e.type = "yield" /\ step.kind = "effect" /\ step.effect = e.effect
              /\ Place(m) = Taken(e.co, h, n)
           \/ e.type = "close" /\ (e.result = Cancelled \/ EndsWith(e.co, h, e.result))
    BY <1>9, <2>1 DEF Explained
  <2>3. /\ e.co \in Tasks /\ Path(e.co, h, m - 1)'
        /\ \/ /\ e.type = "yield" /\ step.kind = "effect" /\ step.effect = e.effect
              /\ Place(m)' = Taken(e.co, h, n)'
           \/ e.type = "close" /\ (e.result = Cancelled \/ EndsWith(e.co, h, e.result)')
    BY <1>2, <1>5, <1>7, <1>8, <2>2
  <2>4. stream'[m] = e
    BY <2>1
  <2> QED
    BY <2>1, <2>3, <2>4 DEF Explained
<1> QED
  BY <1>9

\* A crash that does not strike in the halt of a tree leaves no coroutine
\* cancelled below one that has not closed.
LEMMA ExecuteReplays ==
  ASSUME ReplayInv, TreeInv', ~ CrashInHalt, Execute
  PROVE  ReplayInv'
<1>1. /\ UNCHANGED <<program, stream>> /\ mark' = Len(stream) /\ task' = BootTasks'
      /\ \A t \in Tasks : ~ (task[t].pc = "halting" /\ task[t].count > 0)
  BY DEF Execute, InHaltOfTree
<1>2. Boot'
  <2>1. stream' \in Seq({stream'[i] : i \in 1 .. Len(stream')})
    BY DEF TreeInv, ShapeInv
  <2>2. \A t \in Tasks : \A i, j \in Closes(t)' : i = j
    BY DEF TreeInv, CloseInv
  <2> QED
    BY <1>1, <2>1, <2>2 DEF Boot
<1>3. \A t : YieldsOf(t)' = YieldsOf(t) /\ Closes(t)' = Closes(t)
  BY <1>1 DEF YieldsOf, Closes
<1>4. \A i : Place(i)' = Place(i)
  BY <1>1, <1>3 DEF Place
<1>5. \A m \in 1 .. Len(stream') :
        /\ Explained(m)'
        /\ \A l \in 1 .. Len(stream') :
             stream'[l].co = stream'[m].co => Agree(stream'[l].hist, stream'[m].hist)
  BY <1>1, ExplainedStays DEF ReplayInv, HistInv
<1>6. \A t \in Tasks : \A n \in 0 .. Cardinality(YieldsOf(t)') - 1 :
        \E i \in YieldsOf(t)' : Place(i)' = n
  BY <1>3, <1>4 DEF ReplayInv, HistInv
<1>7. \A c \in Tasks \ {Root} : \A i \in Closes(c)' :
        stream'[i].result = Cancelled => Closes(Parent(c))' # {}
  <2> SUFFICES ASSUME NEW c \in Tasks \ {Root}, NEW i \in Closes(c)',
                      stream'[i].result = Cancelled
               PROVE  Closes(Parent(c))' # {}
    OBVIOUS
  <2>1. i \in Closes(c) /\ stream[i].result = Cancelled /\ Parent(c) \in Tasks
    BY <1>1, <1>3, ParentFacts
  <2>2. Closes(Parent(c)) # {}
    BY <1>1, <2>1 DEF ReplayInv, Cancels
  <2> QED
    BY <1>3, <2>2
<1>8. JournalRight'
  BY <1>5, <1>6, <1>7 DEF JournalRight, Agree, Parent, Root, Cancelled
<1> QED
  BY <1>2, <1>8, BootReplaysNext

LEMMA StutterIsCalm ==
  ASSUME ReplayInv, TreeInv', UNCHANGED vars
  PROVE  CalmStep
<1>1. UNCHANGED <<program, stream, mark, task>>
  BY DEF vars
<1>2. HistStep /\ \A m \in 1 .. Len(stream') : ~ (m > Len(stream))
  BY <1>1, SilentGrowth
<1>3. \A u \in Tasks : Still(u)
  BY <1>1 DEF Still, YieldsOf
<1> QED
  BY <1>2, <1>3 DEF CalmStep

LEMMA InitReplays == ASSUME Init PROVE ReplayInv
<1>1. stream = <<>> /\ mark = 0 /\ task = BootTasks /\ Len(stream) = 0
  BY DEF Init
<1>2. stream \in Seq({stream[i] : i \in 1 .. Len(stream)})
  BY <1>1, EmptySeq
<1>3. \A t : YieldsOf(t) = {} /\ Closes(t) = {}
  BY <1>1 DEF YieldsOf, Closes
<1>4. Boot
  BY <1>1, <1>2, <1>3 DEF Boot
<1>5. JournalRight
  BY <1>1, <1>3, FS_EmptySet DEF JournalRight
<1> QED
  BY <1>4, <1>5, BootReplays

-----------------------------------------------------------------------------
(* Theorems *)

\* In a calm tree memory and journal tell the same story in every reachable
\* state, over any number of runs, halts and crashes, for every workflow and
\* either kind of stream, if no crash strikes while a tree is halted
\* (driveKernel, orchestrateAll, orchestrateScope, the ReplayIndex).
THEOREM ReplayCorrect == ~ CrashInHalt => (Spec /\ []Calm => []ReplayInv)
<1> SUFFICES ASSUME ~ CrashInHalt PROVE Spec /\ []Calm => []ReplayInv
  OBVIOUS
<1>1. Init => ReplayInv
  BY InitReplays
<1>2. ReplayInv /\ TreeInv' /\ Calm /\ [Next]_vars => ReplayInv'
  <2> SUFFICES ASSUME ReplayInv, TreeInv', Calm, [Next]_vars
               PROVE  ReplayInv'
    OBVIOUS
  <2>1. ASSUME NEW t \in Tasks, Step(t) \/ Answer(t) PROVE ReplayInv'
    BY <2>1, StepIsCalm, CalmStepKeeps
  <2>2. CASE Halt
    BY <2>2, HaltIsCalm, CalmStepKeeps
  <2>3. CASE Execute
    BY <2>3, ExecuteReplays
  <2>4. CASE UNCHANGED vars
    BY <2>4, StutterIsCalm, CalmStepKeeps
  <2> QED
    BY <2>1, <2>2, <2>3, <2>4 DEF Next
<1> QED
  BY <1>1, <1>2, TreeCorrect, PTL DEF Spec

\* A coroutine that runs again is told what it was told when it recorded its
\* events: no replay of a calm tree resumes a kernel with another result, or
\* with the results in another order (ReplayIndex and driveKernel's resumptions).
THEOREM ReplayConsistentHolds == ~ CrashInHalt => (Spec /\ []Calm => []ReplayConsistent)
<1> SUFFICES ASSUME ~ CrashInHalt PROVE Spec /\ []Calm => []ReplayConsistent
  OBVIOUS
<1>1. ReplayInv => ReplayConsistent
  <2> SUFFICES ASSUME ReplayInv, NEW m \in 1 .. Len(stream), NEW e, e = stream[m]
               PROVE  Agree(IF e.type = "yield" THEN Append(e.hist, e.result) ELSE e.hist,
                            task[e.co].hist)
    BY DEF ReplayConsistent
  <2>1. PICK t, g, h, n : t = e.co /\ g = e.hist /\ h = task[t].hist /\ n = Len(g)
    OBVIOUS
  <2>2. Explained(m) /\ Agree(g, h) /\ t \in Tasks /\ IsHistory(g)
    BY <2>1 DEF ReplayInv, HistInv, Explained, Path
  <2>3. CASE e.type = "yield"
    <3>1. /\ Doing(t, g, n).kind = "effect" /\ Place(m) = Taken(t, g, n)
          /\ m \in YieldsOf(t)
      BY <2>1, <2>2, <2>3 DEF Explained, YieldsOf
    <3>2. PICK k : k = Append(g, e.result) /\ Len(k) = n + 1 /\ k[n + 1] = e.result
                   /\ n \in Nat /\ \A i \in 1 .. n : k[i] = g[i]
      <4> DEFINE a == Append(g, e.result)
      <4>1. /\ Len(a) = n + 1 /\ a[n + 1] = e.result
            /\ n \in Nat /\ \A i \in 1 .. n : a[i] = g[i]
        BY <2>1, <2>2, AppendPast
      <4> QED
        BY <4>1
    <3>3. Len(h) \in Nat /\ Path(t, h, Len(stream))
      BY <2>1, <2>2, StepIsDoing DEF ReplayInv, HistInv
    <3>4. ASSUME n + 1 <= Len(h) PROVE k[n + 1] = h[n + 1]
      <4>1. n <= Len(h) /\ n \in 0 .. Len(h) - 1
        BY <3>2, <3>3, <3>4
      <4>2. Past(g, n) = Past(h, n)
        BY <2>1, <2>2, <3>2, <3>3, <4>1, AgreeingPast
      <4>3. Doing(t, h, n).kind = "effect" /\ Place(m) = Taken(t, h, n)
        BY <3>1, <3>2, <4>2, SamePast
      <4>4. Answered(t, h, n, Len(stream))
        BY <3>3, <4>1 DEF Path
      <4>5. PICK l \in YieldsOf(t) : Place(l) = Taken(t, h, n) /\ stream[l].result = h[n + 1]
        BY <4>3, <4>4 DEF Answered
      <4>6. l = m
        BY <3>1, <4>3, <4>5, PlaceFacts DEF PlacesApart, ReplayInv, TreeInv
      <4> QED
        BY <3>2, <4>5, <4>6
    <3>5. \A i \in 1 .. Len(k) : i <= Len(h) => k[i] = h[i]
      <4>1. \A i \in 1 .. n : i <= Len(h) => g[i] = h[i]
        BY <2>1, <2>2 DEF Agree
      <4>2. \A i \in 1 .. Len(k) : i \in 1 .. n \/ i = n + 1
        BY <3>2
      <4> QED
        BY <3>2, <3>4, <4>1, <4>2
    <3> QED
      BY <2>1, <2>3, <3>2, <3>5 DEF Agree
  <2>4. CASE e.type # "yield"
    BY <2>1, <2>2, <2>4
  <2> QED
    BY <2>3, <2>4
<1> QED
  BY <1>1, ReplayCorrect, PTL

\* Nothing a workflow does on a replay of a calm tree differs from its journal:
\* no DivergenceError is ever raised, whatever crashes cut its runs short (the
\* checks of effect and Close in driveKernel).
THEOREM NoDivergenceHolds == ~ CrashInHalt => (Spec /\ []Calm => []NoDivergence)
<1> SUFFICES ASSUME ~ CrashInHalt PROVE Spec /\ []Calm => []NoDivergence
  OBVIOUS
<1> DEFINE D == Threw("DivergenceError")
<1>1. Init => NoDivergence
  <2> SUFFICES ASSUME Init, NEW t \in Tasks PROVE task[t].result # D
    BY DEF NoDivergence
  <2>1. task[t].result \in {Pending, Cancelled}
    BY DEF Init, BootTasks, Fresh, Unborn
  <2> QED
    BY <2>1 DEF Pending, Cancelled, Threw
<1>2. ReplayInv /\ ReplayInv' /\ TreeInv' /\ Calm /\ NoDivergence /\ [Next]_vars => NoDivergence'
  <2> SUFFICES ASSUME ReplayInv, ReplayInv', TreeInv', Calm, NoDivergence, [Next]_vars,
                      NEW t \in Tasks
               PROVE  task'[t].result # D
    BY DEF NoDivergence, Threw
  <2>1. ASSUME CalmStep PROVE task'[t].result # D
    <3>1. CASE Still(t) \/ Stops(t)
      BY <3>1 DEF Still, Stops, NoDivergence
    <3>2. CASE Shuts(t)
      <4>1. EndsWith(t, task[t].hist, task[t].result)'
        BY <3>2 DEF Shuts
      <4>2. task'[t].result.status \in {"ok", "error"}
        BY <4>1 DEF EndsWith, Error
      <4> QED
        BY <4>2 DEF Threw
    <3>3. CASE Halts(t) \/ Born(t)
      <4>1. task'[t].result \in {Pending, Cancelled}
        BY <3>3 DEF Halts, Born, Fresh
      <4> QED
        BY <4>1 DEF Pending, Cancelled, Threw
    <3>4. CASE (Works(t) \/ Leaves(t)) /\ Kern(t)'
      <4>1. task'[t].pc \in Live
        BY <3>4 DEF Works, Leaves, Live
      <4>2. task'[t].result = Pending
        BY <3>4, <4>1 DEF Kern
      <4> QED
        BY <4>2 DEF Pending, Threw
    <3> QED
      BY <2>1, <3>1, <3>2, <3>3, <3>4 DEF CalmStep
  <2>2. ASSUME NEW u \in Tasks, Step(u) \/ Answer(u) PROVE task'[t].result # D
    BY <2>1, <2>2, StepIsCalm
  <2>3. CASE Halt
    BY <2>1, <2>3, HaltIsCalm
  <2>4. CASE Execute
    <3>1. task' = BootTasks'
      BY <2>4 DEF Execute
    <3>2. task'[t].result \in {Pending, Cancelled}
      BY <3>1 DEF BootTasks, Fresh, Unborn
    <3> QED
      BY <3>2 DEF Pending, Cancelled, Threw
  <2>5. CASE UNCHANGED vars
    BY <2>1, <2>5, StutterIsCalm
  <2> QED
    BY <2>2, <2>3, <2>4, <2>5 DEF Next
<1> QED
  BY <1>1, <1>2, ReplayCorrect, TreeCorrect, PTL DEF Spec

\* When all or scope answers its kernel in a calm tree, the Closes in the stream
\* alone determine the answer, whichever run wrote them (orchestrateAll,
\* orchestrateScope).
THEOREM JournalDecidesHolds == ~ CrashInHalt => (Spec /\ []Calm => JournalDecides)
<1> SUFFICES ASSUME ~ CrashInHalt PROVE Spec /\ []Calm => JournalDecides
  OBVIOUS
<1>1. ReplayInv => \A t \in Tasks : task[t].pc = "leaving" => Determined(t)
  <2> SUFFICES ASSUME ReplayInv, NEW t \in Tasks, task[t].pc = "leaving" PROVE Determined(t)
    OBVIOUS
  <2>1. PICK h, n, step, r, first, m :
          /\ h = task[t].hist /\ n = Len(h) /\ step = Doing(t, h, n)
          /\ r = task[t].settled /\ first = task[t].base /\ m = Len(stream)
    OBVIOUS
  <2> QED
    BY <2>1, LeavingRight
<1>2. ReplayInv /\ [Next]_vars =>
        [\A t \in Tasks :
           task[t].pc = "leaving" /\ task'[t].pc = "step" /\ runs' = runs => Determined(t)]_vars
  BY <1>1
<1> QED
  BY <1>2, ReplayCorrect, PTL DEF Spec, JournalDecides

=============================================================================
