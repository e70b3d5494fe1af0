------------------------- MODULE InlineLanesProofs -------------------------
(***************************************************************************)
(* Proofs about InlineLanes, for any programs and number of runs: the id,  *)
(* the place in the journal and the token of an operation are a function   *)
(* of the program, so that what lanes, children, tasks and replays share   *)
(* or keep apart is what they should.                                      *)
(***************************************************************************)
EXTENDS InlineLanes, FiniteSetTheorems, SequenceTheorems, TLAPS

-----------------------------------------------------------------------------
(* Counting the operations before one *)

LEMMA BeforeFacts ==
  ASSUME NEW len \in Nat, NEW S \in SUBSET (1 .. len)
  PROVE  /\ Before(S, 1) = 0
         /\ \A k \in Nat : /\ Before(S, k) \in Nat
                           /\ Before(S, k + 1) = IF k \in S THEN Before(S, k) + 1 ELSE Before(S, k)
         /\ \A j, k \in S : Before(S, j) = Before(S, k) => j = k
<1> DEFINE Of(k) == S \cap (1 .. k - 1)
<1>0. \A j \in S : j \in Nat /\ j >= 1 OBVIOUS
<1>1. \A k \in Nat : IsFiniteSet(Of(k)) /\ Before(S, k) = Cardinality(Of(k)) /\ Before(S, k) \in Nat
  <2> TAKE k \in Nat
  <2>1. IsFiniteSet(1 .. len) BY FS_Interval
  <2>2. Of(k) \subseteq 1 .. len OBVIOUS
  <2>3. IsFiniteSet(Of(k)) BY <2>1, <2>2, FS_Subset
  <2>4. Before(S, k) = Cardinality(Of(k)) BY DEF Before
  <2> HIDE DEF Of
  <2> QED BY <2>3, <2>4, FS_CardinalityType
<1>2. Before(S, 1) = 0
  <2>1. Of(1) = {} BY <1>0
  <2>2. Before(S, 1) = Cardinality(Of(1)) BY <1>1
  <2> HIDE DEF Of
  <2> QED BY <2>1, <2>2, FS_EmptySet
<1>3. ASSUME NEW k \in Nat
      PROVE  Before(S, k + 1) = IF k \in S THEN Before(S, k) + 1 ELSE Before(S, k)
  <2>1. /\ Before(S, k) = Cardinality(Of(k)) /\ Before(S, k + 1) = Cardinality(Of(k + 1))
        /\ IsFiniteSet(Of(k)) /\ Before(S, k) \in Nat
    <3>1. k + 1 \in Nat OBVIOUS
    <3> HIDE DEF Of
    <3> QED BY <1>1, <3>1
  <2>2. CASE k \in S
    <3>1. Of(k + 1) = Of(k) \union {k} /\ k \notin Of(k) BY <1>0, <2>2
    <3> HIDE DEF Of
    <3> QED BY <2>1, <2>2, <3>1, FS_AddElement
  <2>3. CASE k \notin S
    <3>1. Of(k + 1) = Of(k) BY <1>0, <2>3
    <3> HIDE DEF Of
    <3> QED BY <2>1, <2>3, <3>1
  <2> QED BY <2>2, <2>3
<1>4. ASSUME NEW j \in S, NEW k \in S, j < k
      PROVE  Before(S, j) < Before(S, k)
  <2>1. j \in Nat /\ k \in Nat /\ j + 1 \in Nat BY <1>0
  <2>2. Of(j + 1) \subseteq Of(k) BY <1>0, <2>1, <1>4
  <2>3. Cardinality(Of(j + 1)) <= Cardinality(Of(k))
    <3>1. IsFiniteSet(Of(k)) BY <1>1, <2>1
    <3> HIDE DEF Of
    <3> QED BY <3>1, <2>2, FS_Subset
  <2>4. Before(S, j + 1) <= Before(S, k)
    <3>1. Before(S, j + 1) = Cardinality(Of(j + 1)) /\ Before(S, k) = Cardinality(Of(k)) BY <1>1, <2>1
    <3> HIDE DEF Of
    <3> QED BY <2>3, <3>1
  <2>5. Before(S, j + 1) = Before(S, j) + 1 BY <2>1, <1>3
  <2>6. Before(S, j) \in Nat /\ Before(S, k) \in Nat BY <2>1, <1>1
  <2> HIDE DEF Of
  <2> QED BY <2>4, <2>5, <2>6
<1>5. ASSUME NEW j \in S, NEW k \in S, Before(S, j) = Before(S, k) PROVE j = k
  <2>1. /\ j \in Nat /\ k \in Nat /\ Before(S, j) \in Nat /\ Before(S, k) \in Nat BY <1>0, <1>1
  <2>2. ~ j < k /\ ~ k < j BY <1>4, <1>5, <2>1
  <2> QED BY <2>1, <2>2
<1> QED BY <1>1, <1>2, <1>3, <1>5

-----------------------------------------------------------------------------
(* Ids *)

\* The first number of an id tells which operation it was made for.
LEMMA IdFacts ==
  ASSUME NEW n \in Nat
  PROVE  /\ Caller \in CallerIds /\ JournalId("caller", n) = Caller
         /\ \A where \in Places \ {"caller"} :
              /\ JournalId(where, n) \in CallerIds /\ JournalId(where, n) # Caller
              /\ JournalId(where, n)[1] = n
         /\ \A where \in Places :
              /\ JournalId(where, n) \in CallerIds
              /\ TaskOf(where, n) \in CallerIds /\ TaskOf(where, n) # Caller
              /\ TaskOf(where, n)[1] = n
              /\ OwnerOf(where, n) \in CallerIds
              /\ where \notin Owned => OwnerOf(where, n) = Caller
         /\ \A where \in Owned : OwnerOf(where, n) = <<n>>
<1>1. Child(Caller, n) = <<n>> BY DEF Child, Caller
<1>a. /\ <<n>> \in Seq(Nat) /\ <<n, 0>> \in Seq(Nat) /\ <<n, 0, 0>> \in Seq(Nat)
  OBVIOUS
<1>2. Child(<<n>>, 0) = <<n, 0>>
  <2>1. PICK s \in Seq(Nat) : s = <<n>> BY <1>a
  <2>2. PICK t \in Seq(Nat) : t = <<n, 0>> BY <1>a
  <2>3. /\ Append(s, 0) \in Seq(Nat) /\ Len(Append(s, 0)) = Len(s) + 1
        /\ Append(s, 0)[Len(s) + 1] = 0 /\ \A i \in 1 .. Len(s) : Append(s, 0)[i] = s[i]
    OBVIOUS
  <2>4. Len(s) = 1 /\ s[1] = n /\ Len(t) = 2 /\ t[1] = n /\ t[2] = 0 BY <2>1, <2>2
  <2>5. \A i \in 1 .. Len(t) : i = 1 \/ i = 2 BY <2>4
  <2>6. Append(s, 0) = t BY <2>3, <2>4, <2>5, SeqEqual
  <2> QED BY <2>1, <2>2, <2>6 DEF Child
<1>3. Child(<<n, 0>>, 0) = <<n, 0, 0>>
  <2>1. PICK s \in Seq(Nat) : s = <<n, 0>> BY <1>a
  <2>2. PICK t \in Seq(Nat) : t = <<n, 0, 0>> BY <1>a
  <2>3. /\ Append(s, 0) \in Seq(Nat) /\ Len(Append(s, 0)) = Len(s) + 1
        /\ Append(s, 0)[Len(s) + 1] = 0 /\ \A i \in 1 .. Len(s) : Append(s, 0)[i] = s[i]
    OBVIOUS
  <2>4. Len(s) = 2 /\ s[1] = n /\ s[2] = 0 BY <2>1
  <2>5. Len(t) = 3 /\ t[1] = n /\ t[2] = 0 /\ t[3] = 0 BY <2>2
  <2>6. \A i \in 1 .. Len(t) : i = 1 \/ i = 2 \/ i = 3 BY <2>5
  <2>7. Append(s, 0) = t BY <2>3, <2>4, <2>5, <2>6, SeqEqual
  <2> QED BY <2>1, <2>2, <2>7 DEF Child
<1>4. /\ <<n>> \in CallerIds /\ <<n, 0>> \in CallerIds /\ <<n, 0, 0>> \in CallerIds
      /\ Caller \in CallerIds
  BY DEF CallerIds, Caller
<1>5. /\ <<n>> # Caller /\ <<n, 0>> # Caller /\ <<n, 0, 0>> # Caller
      /\ <<n>>[1] = n /\ <<n, 0>>[1] = n /\ <<n, 0, 0>>[1] = n
  BY DEF Caller
<1>6. /\ JournalId("caller", n) = Caller /\ JournalId("nested", n) = <<n, 0>>
      /\ JournalId("lane", n) = <<n>> /\ JournalId("invoke", n) = <<n>>
      /\ JournalId("resource", n) = <<n>>
  BY <1>1, <1>2 DEF JournalId
<1>7. /\ TaskOf("caller", n) = <<n>> /\ TaskOf("nested", n) = <<n, 0, 0>>
      /\ TaskOf("lane", n) = <<n, 0>> /\ TaskOf("invoke", n) = <<n, 0>>
      /\ TaskOf("resource", n) = <<n, 0>>
  BY <1>1, <1>2, <1>3, <1>6 DEF TaskOf
<1>8. /\ OwnerOf("caller", n) = Caller /\ OwnerOf("nested", n) = Caller
      /\ OwnerOf("lane", n) = Caller
      /\ OwnerOf("invoke", n) = <<n>> /\ OwnerOf("resource", n) = <<n>>
  BY <1>6 DEF OwnerOf
<1> QED BY <1>4, <1>5, <1>6, <1>7, <1>8 DEF Places, Owned

\* Operations, and the numbers of the program.
LEMMA ProgramFacts ==
  ASSUME program \in Seq(Operations)
  PROVE  /\ Len(program) \in Nat /\ DOMAIN program = 1 .. Len(program)
         /\ \A k \in DOMAIN program :
              /\ program[k] \in Operations /\ k \in Nat
              /\ program[k].where \in Places /\ program[k].do \in Kinds /\ program[k].ref \in Nat
         /\ Allocating \in SUBSET (1 .. Len(program)) /\ OfCaller \in SUBSET (1 .. Len(program))
         /\ \A o : SubscribedBy(o) \in SUBSET (1 .. Len(program))
<1>1. Len(program) \in Nat /\ DOMAIN program = 1 .. Len(program) OBVIOUS
<1>2. \A k \in DOMAIN program : program[k] \in Operations /\ k \in Nat OBVIOUS
<1>3. \A op \in Operations : op.where \in Places /\ op.do \in Kinds /\ op.ref \in Nat BY DEF Operations
<1> QED BY <1>1, <1>2, <1>3 DEF Allocating, OfCaller, SubscribedBy

\* Operations that allocate have numbers of their own, those of the caller places.
LEMMA NumberFacts ==
  ASSUME program \in Seq(Operations)
  PROVE  /\ \A k \in Nat : Number(k) \in Nat /\ Before(OfCaller, k) \in Nat
         /\ Number(1) = 0 /\ Before(OfCaller, 1) = 0
         /\ \A k \in Nat : Number(k + 1) = IF k \in Allocating THEN Number(k) + 1 ELSE Number(k)
         /\ \A k \in Nat : Before(OfCaller, k + 1) =
              IF k \in OfCaller THEN Before(OfCaller, k) + 1 ELSE Before(OfCaller, k)
         /\ \A j, k \in Allocating : Number(j) = Number(k) => j = k
         /\ \A j, k \in OfCaller : Before(OfCaller, j) = Before(OfCaller, k) => j = k
<1>1. /\ Allocating \in SUBSET (1 .. Len(program)) /\ OfCaller \in SUBSET (1 .. Len(program))
      /\ Len(program) \in Nat
  BY ProgramFacts
<1>2. /\ Before(Allocating, 1) = 0
      /\ \A k \in Nat : /\ Before(Allocating, k) \in Nat
                        /\ Before(Allocating, k + 1) =
                             IF k \in Allocating THEN Before(Allocating, k) + 1 ELSE Before(Allocating, k)
      /\ \A j, k \in Allocating : Before(Allocating, j) = Before(Allocating, k) => j = k
  BY <1>1, BeforeFacts
<1>3. /\ Before(OfCaller, 1) = 0
      /\ \A k \in Nat : /\ Before(OfCaller, k) \in Nat
                        /\ Before(OfCaller, k + 1) =
                             IF k \in OfCaller THEN Before(OfCaller, k) + 1 ELSE Before(OfCaller, k)
      /\ \A j, k \in OfCaller : Before(OfCaller, j) = Before(OfCaller, k) => j = k
  BY <1>1, BeforeFacts
<1> QED BY <1>2, <1>3 DEF Number

\* An operation's id and task.
LEMMA OwnIds ==
  ASSUME program \in Seq(Operations)
  PROVE  /\ \A k \in DOMAIN program :
              /\ IdAt(k) \in CallerIds /\ OwnerAt(k) \in CallerIds
              /\ TaskAt(k) \in CallerIds /\ TaskAt(k) # Caller /\ TaskAt(k)[1] = Number(k)
              /\ program[k].where = "caller" => IdAt(k) = Caller
              /\ program[k].where # "caller" =>
                   IdAt(k) # Caller /\ IdAt(k)[1] = Number(k) /\ k \in Allocating
              /\ program[k].do = "spawn" => k \in Allocating
              /\ program[k].where \in Owned => OwnerAt(k) = <<Number(k)>> /\ k \in Allocating
              /\ program[k].where \notin Owned => OwnerAt(k) = Caller
         /\ \A j, k \in DOMAIN program : IdAt(j) = IdAt(k) /\ IdAt(j) # Caller => j = k
<1>1. ASSUME NEW k \in DOMAIN program
      PROVE  /\ IdAt(k) \in CallerIds /\ OwnerAt(k) \in CallerIds
             /\ TaskAt(k) \in CallerIds /\ TaskAt(k) # Caller /\ TaskAt(k)[1] = Number(k)
             /\ program[k].where = "caller" => IdAt(k) = Caller
             /\ program[k].where # "caller" =>
                  IdAt(k) # Caller /\ IdAt(k)[1] = Number(k) /\ k \in Allocating
             /\ program[k].do = "spawn" => k \in Allocating
             /\ program[k].where \in Owned => OwnerAt(k) = <<Number(k)>> /\ k \in Allocating
             /\ program[k].where \notin Owned => OwnerAt(k) = Caller
  <2>1. program[k].where \in Places /\ k \in Nat BY ProgramFacts
  <2>2. Number(k) \in Nat BY <2>1, NumberFacts
  <2>3. PICK n \in Nat : n = Number(k) BY <2>2
  <2>4. PICK w \in Places : w = program[k].where BY <2>1
  <2>5. IdAt(k) = JournalId(w, n) /\ OwnerAt(k) = OwnerOf(w, n) /\ TaskAt(k) = TaskOf(w, n)
    BY <2>3, <2>4 DEF IdAt, OwnerAt, TaskAt
  <2>6. w # "caller" => k \in Allocating BY <2>4 DEF Allocating
  <2>7. program[k].do = "spawn" => k \in Allocating BY DEF Allocating
  <2>8. w \in Owned => w # "caller" BY DEF Owned
  <2> QED BY <2>3, <2>4, <2>5, <2>6, <2>7, <2>8, IdFacts
<1>2. ASSUME NEW j \in DOMAIN program, NEW k \in DOMAIN program, IdAt(j) = IdAt(k), IdAt(j) # Caller
      PROVE  j = k
  <2>1. program[j].where # "caller" /\ program[k].where # "caller" BY <1>1, <1>2
  <2>2. Number(j) = Number(k) /\ j \in Allocating /\ k \in Allocating BY <1>1, <1>2, <2>1
  <2> QED BY <2>2, NumberFacts
<1> QED BY <1>1, <1>2

\* What does not change with a program that stays.
LEMMA SameProgram ==
  ASSUME program' = program
  PROVE  /\ Allocating' = Allocating /\ OfCaller' = OfCaller
         /\ \A k : /\ (Journals(k)' <=> Journals(k)) /\ Number(k)' = Number(k) /\ IdAt(k)' = IdAt(k)
                   /\ OwnerAt(k)' = OwnerAt(k) /\ TaskAt(k)' = TaskAt(k)
                   /\ PlaceAt(k)' = PlaceAt(k) /\ TokenAt(k)' = TokenAt(k)
                   /\ (SharedSource(k)' <=> SharedSource(k))
         /\ \A k, S : Before(S, k)' = Before(S, k)
         /\ \A o : SubscribedBy(o)' = SubscribedBy(o)
         /\ \A k, r : (ResultOk(k, r)' <=> ResultOk(k, r)) /\ (TokenOk(k, r)' <=> TokenOk(k, r))
BY DEF Allocating, OfCaller, Journals, Number, IdAt, OwnerAt, TaskAt, PlaceAt, TokenAt, SharedSource,
       SubscribedBy, ResultOk, TokenOk, Before

-----------------------------------------------------------------------------
(* Where a run is *)

\* Entries of one id and place are of one operation.
LEMMA PlaceFacts ==
  ASSUME program \in Seq(Operations)
  PROVE  /\ \A k \in DOMAIN program : PlaceAt(k) \in Nat \ {0}
         /\ \A j, k \in DOMAIN program :
              Journals(j) /\ Journals(k) /\ IdAt(j) = IdAt(k) /\ PlaceAt(j) = PlaceAt(k) => j = k
<1>1. \A k \in DOMAIN program : k \in Nat /\ Before(OfCaller, k) \in Nat BY ProgramFacts, NumberFacts
<1>2. \A k \in DOMAIN program : PlaceAt(k) \in Nat \ {0} BY <1>1 DEF PlaceAt
<1>3. ASSUME NEW j \in DOMAIN program, NEW k \in DOMAIN program,
             Journals(j), Journals(k), IdAt(j) = IdAt(k), PlaceAt(j) = PlaceAt(k)
      PROVE  j = k
  <2>1. CASE IdAt(j) # Caller BY <1>3, <2>1, OwnIds
  <2>2. CASE IdAt(j) = Caller
    <3>1. program[j].where = "caller" /\ program[k].where = "caller" BY <1>3, <2>2, OwnIds
    <3>2. j \in OfCaller /\ k \in OfCaller BY <1>3, <3>1 DEF OfCaller
    <3>3. Before(OfCaller, j) = Before(OfCaller, k) BY <1>1, <1>3, <3>1 DEF PlaceAt
    <3> QED BY <3>2, <3>3, NumberFacts
  <2> QED BY <2>1, <2>2
<1> QED BY <1>2, <1>3

LEMMA AtPc ==
  ASSUME SharedInv, pc \in DOMAIN program
  PROVE  /\ program \in Seq(Operations) /\ pc \in Nat \ {0} /\ Op = program[pc]
         /\ Op.where \in Places /\ Op.do \in Kinds
         /\ count = Number(pc) /\ count \in Nat
         /\ JournalId(Op.where, count) = IdAt(pc) /\ OwnerOf(Op.where, count) = OwnerAt(pc)
         /\ TaskOf(Op.where, count) = TaskAt(pc)
         /\ Journals(pc) => Place(IdAt(pc)) = PlaceAt(pc)
<1>1. /\ program \in Seq(Operations) /\ WayInv BY DEF SharedInv, TypeOK
<1>2. /\ pc \in Nat \ {0} /\ program[pc].where \in Places /\ program[pc].do \in Kinds
  BY <1>1, ProgramFacts
<1>3. count = Number(pc) /\ Number(pc) \in Nat /\ At(used, Caller) = Before(OfCaller, pc)
  BY <1>1, <1>2, NumberFacts DEF WayInv
<1>4. ASSUME Journals(pc) PROVE Place(IdAt(pc)) = PlaceAt(pc)
  <2>1. CASE program[pc].where = "caller"
    BY <1>1, <1>3, <2>1, OwnIds DEF Place, PlaceAt
  <2>2. CASE program[pc].where # "caller"
    <3>1. IdAt(pc) # Caller /\ pc \in Allocating BY <1>1, <2>2, OwnIds
    <3>2. IdAt(pc) \notin DOMAIN used
      <4>1. SUFFICES ASSUME IdAt(pc) \in DOMAIN used PROVE FALSE OBVIOUS
      <4>2. PICK k \in DOMAIN program : k < pc /\ IdAt(pc) = IdAt(k)
        BY <1>1, <3>1, <4>1 DEF WayInv
      <4>3. k = pc BY <1>1, <3>1, <4>2, OwnIds
      <4> QED BY <1>2, <4>2, <4>3
    <3> QED BY <2>2, <3>2 DEF Place, PlaceAt, At
  <2> QED BY <2>1, <2>2
<1> QED BY <1>1, <1>2, <1>3, <1>4 DEF Op, IdAt, OwnerAt, TaskAt

LEMMA JournalTypes ==
  ASSUME SharedInv
  PROVE  /\ stream \in Seq(Entries) /\ Len(stream) \in Nat /\ old \in 0 .. Len(stream) /\ old \in Nat
         /\ program \in Seq(Operations) /\ DOMAIN program = 1 .. Len(program) /\ Len(program) \in Nat
         /\ pc \in 1 .. Len(program) + 1 /\ pc \in Nat
         /\ \A m \in 1 .. Len(stream) :
              /\ stream[m].id \in CallerIds /\ stream[m].n \in Nat \ {0} /\ stream[m].op \in DOMAIN program
              /\ stream[m].result \in Values /\ Journals(stream[m].op) /\ stream[m].op \in Nat
<1>1. /\ TypeOK /\ JournalInv BY DEF SharedInv
<1>2. /\ stream \in Seq(Entries) /\ Len(stream) \in Nat /\ old \in 0 .. Len(stream) /\ old \in Nat
      /\ program \in Seq(Operations) /\ DOMAIN program = 1 .. Len(program) /\ Len(program) \in Nat
      /\ pc \in 1 .. Len(program) + 1 /\ pc \in Nat
  BY <1>1 DEF TypeOK
<1>3. \A m \in 1 .. Len(stream) : stream[m] \in Entries BY <1>2
<1>4. \A e \in Entries : e.id \in CallerIds /\ e.n \in Nat \ {0} /\ e.result \in Values BY DEF Entries
<1>5. \A m \in 1 .. Len(stream) : stream[m].op \in DOMAIN program /\ Journals(stream[m].op)
  BY <1>1 DEF JournalInv
<1> QED BY <1>2, <1>3, <1>4, <1>5

\* An operation is in the journal once.
LEMMA EntryOnce ==
  ASSUME SharedInv
  PROVE  \A l, m \in 1 .. Len(stream) : stream[l].op = stream[m].op => l = m
<1>1. /\ JournalInv /\ Len(stream) \in Nat BY JournalTypes DEF SharedInv
<1>2. \A m \in 1 .. Len(stream) : stream[m].op \in Nat BY JournalTypes
<1>3. \A m \in 1 .. Len(stream) : \A l \in 1 .. m - 1 : stream[l].op < stream[m].op
  BY <1>1 DEF JournalInv
<1>4. \A l, m \in 1 .. Len(stream) : l < m => l \in 1 .. m - 1 OBVIOUS
<1>5. \A l, m \in 1 .. Len(stream) : l < m => stream[l].op < stream[m].op BY <1>3, <1>4
<1> QED BY <1>2, <1>5

\* What an operation finds in the index is its own entry; when it finds none,
\* the journal ends before it.
LEMMA StoredFacts ==
  ASSUME SharedInv, pc \in DOMAIN program, Journals(pc)
  PROVE  /\ Replays(IdAt(pc)) =>
              \E m \in 1 .. Len(stream) : StoredEntry(IdAt(pc)) = stream[m] /\ stream[m].op = pc
         /\ ~ Replays(IdAt(pc)) => \A m \in 1 .. Len(stream) : stream[m].op < pc
<1>1. /\ JournalInv /\ program \in Seq(Operations) /\ Len(stream) \in Nat /\ old \in 0 .. Len(stream)
      /\ pc \in Nat /\ old \in Nat
  BY JournalTypes DEF SharedInv
<1>2. Place(IdAt(pc)) = PlaceAt(pc) BY AtPc
<1>3. \A m \in 1 .. old : m \in 1 .. Len(stream) BY <1>1
<1>4. \A m \in 1 .. Len(stream) :
        /\ stream[m].op \in DOMAIN program /\ Journals(stream[m].op) /\ stream[m].op \in Nat
        /\ stream[m].id = IdAt(stream[m].op) /\ stream[m].n = PlaceAt(stream[m].op)
        /\ \A j \in DOMAIN program : j < stream[m].op /\ Journals(j) =>
             \E l \in 1 .. m - 1 : stream[l].op = j
  BY <1>1, JournalTypes DEF JournalInv
<1>5. \A m \in 1 .. old : m \in StoredOf(IdAt(pc)) <=> stream[m].op = pc
  BY <1>1, <1>2, <1>3, <1>4, PlaceFacts DEF StoredOf
<1>6. ASSUME Replays(IdAt(pc))
      PROVE  \E m \in 1 .. Len(stream) : StoredEntry(IdAt(pc)) = stream[m] /\ stream[m].op = pc
  <2>1. PICK m : m = CHOOSE x \in StoredOf(IdAt(pc)) : TRUE OBVIOUS
  <2>2. m \in StoredOf(IdAt(pc)) BY <1>6, <2>1 DEF Replays
  <2>3. m \in 1 .. old BY <2>2 DEF StoredOf
  <2>4. StoredEntry(IdAt(pc)) = stream[m] BY <2>1 DEF StoredEntry
  <2> QED BY <1>3, <1>5, <2>2, <2>3, <2>4
<1>7. ASSUME ~ Replays(IdAt(pc)), NEW m \in 1 .. Len(stream) PROVE stream[m].op < pc
  <2>1. \A l \in 1 .. old : stream[l].op # pc BY <1>5, <1>7 DEF Replays
  <2>2. CASE m \in old + 1 .. Len(stream) BY <1>1, <2>2 DEF JournalInv
  <2>3. CASE m \in 1 .. old
    <3>1. stream[m].op # pc BY <2>1, <2>3
    <3>2. ~ pc < stream[m].op
      <4>1. SUFFICES ASSUME pc < stream[m].op PROVE FALSE OBVIOUS
      <4>2. PICK l \in 1 .. m - 1 : stream[l].op = pc BY <1>4, <4>1
      <4>3. l \in 1 .. old BY <2>3, <4>2, <1>1
      <4> QED BY <2>1, <4>2, <4>3
    <3> QED BY <1>1, <1>4, <3>1, <3>2
  <2> QED BY <1>1, <2>2, <2>3
<1> QED BY <1>6, <1>7

\* What an operation holds of an earlier one.
LEMMA HeldFacts ==
  ASSUME SharedInv, pc \in DOMAIN program, NEW ref, ref = program[pc].ref
  PROVE  /\ ref \notin 1 .. pc - 1 => Held(pc) = Nothing
         /\ ref \in 1 .. pc - 1 =>
              /\ ref \in DOMAIN program /\ Performed(ref) /\ got[ref] \in Values
              /\ Held(pc) = Kept(program[ref].where, got[ref])
              /\ Journals(ref) =>
                   /\ \E m \in 1 .. Len(stream) : stream[m].op = ref /\ stream[m].result = got[ref]
                   /\ ResultOk(ref, got[ref])
              /\ ~ Journals(ref) => got[ref].type = "task" /\ Held(pc) = got[ref]
<1>1. ref \notin 1 .. pc - 1 => Held(pc) = Nothing BY DEF Held
<1>2. ASSUME ref \in 1 .. pc - 1
      PROVE  /\ ref \in DOMAIN program /\ Performed(ref) /\ got[ref] \in Values
             /\ Held(pc) = Kept(program[ref].where, got[ref])
             /\ Journals(ref) =>
                  /\ \E m \in 1 .. Len(stream) : stream[m].op = ref /\ stream[m].result = got[ref]
                  /\ ResultOk(ref, got[ref])
             /\ ~ Journals(ref) => got[ref].type = "task" /\ Held(pc) = got[ref]
  <2>1. ref \in DOMAIN program /\ ref < pc BY <1>2, JournalTypes
  <2>2. Performed(ref) BY <2>1 DEF SharedInv, MemoryInv
  <2>3. got[ref] \in Values BY <2>1 DEF SharedInv, TypeOK
  <2>4. Held(pc) = Kept(program[ref].where, got[ref]) BY <1>2 DEF Held
  <2>5. ASSUME Journals(ref)
        PROVE  /\ \E m \in 1 .. Len(stream) : stream[m].op = ref /\ stream[m].result = got[ref]
               /\ ResultOk(ref, got[ref])
    <3>1. PICK m \in 1 .. Len(stream) : stream[m].op = ref /\ stream[m].result = got[ref]
      BY <2>1, <2>2, <2>5 DEF SharedInv, MemoryInv
    <3>2. ResultOk(stream[m].op, stream[m].result) BY DEF SharedInv, ResultInv
    <3> QED BY <3>1, <3>2
  <2>6. ASSUME ~ Journals(ref) PROVE got[ref].type = "task"
    <3>1. program[ref].do \in {"spawn", "join"} BY <2>1, <2>6, JournalTypes, ProgramFacts DEF Journals, Kinds
    <3>2. /\ program[ref].do = "spawn" => got[ref] = TaskHandle(TaskAt(ref))
          /\ program[ref].do = "join" => got[ref].type = "task"
      BY <2>1, <2>2 DEF SharedInv, MemoryInv
    <3> QED BY <3>1, <3>2 DEF TaskHandle
  <2>7. got[ref].type = "task" => Kept(program[ref].where, got[ref]) = got[ref] BY DEF Kept
  <2> QED BY <2>1, <2>2, <2>3, <2>4, <2>5, <2>6, <2>7
<1> QED BY <1>1, <1>2

\* A handle that is held comes from a subscription.
LEMMA HandleFacts ==
  ASSUME SharedInv, pc \in DOMAIN program, Held(pc).type = "handle", NEW ref, ref = program[pc].ref
  PROVE  /\ ref \in 1 .. pc - 1 /\ ref \in DOMAIN program /\ program[ref].do = "subscribe"
         /\ program[ref].where # "invoke" /\ Performed(ref)
         /\ Held(pc) = got[ref] /\ got[ref].type = "handle" /\ got[ref].token[1] = OwnerAt(ref)
<1>1. ref \in 1 .. pc - 1 BY HeldFacts DEF Nothing
<1>2. /\ ref \in DOMAIN program /\ Performed(ref) /\ Held(pc) = Kept(program[ref].where, got[ref])
  BY <1>1, HeldFacts
<1>3. Held(pc) = got[ref] /\ program[ref].where # "invoke" BY <1>2 DEF Kept, Failed
<1>4. Journals(ref) BY <1>1, <1>3, HeldFacts
<1>5. ResultOk(ref, got[ref]) BY <1>1, <1>4, HeldFacts
<1>6. program[ref].do = "subscribe" BY <1>3, <1>4, <1>5 DEF ResultOk, Journals, Failed
<1> QED BY <1>1, <1>2, <1>3, <1>5, <1>6 DEF ResultOk, Failed

-----------------------------------------------------------------------------
(* What a step adds to the journal *)

\* The journal is only extended.
Grows ==
  /\ program' = program /\ stream' \in Seq(Entries) /\ Len(stream') \in Nat
  /\ Len(stream) <= Len(stream') /\ \A m \in 1 .. Len(stream) : stream'[m] = stream[m]
\* The effect at pc, with what it would add.
Recording(value) ==
  /\ pc \in DOMAIN program /\ Journals(pc) /\ Results(IdAt(pc), value)
  /\ pc' = pc + 1 /\ UNCHANGED <<program, old>>
  /\ ~ Replays(IdAt(pc)) =>
       /\ value \in Values /\ ResultOk(pc, value)
       /\ program[pc].do = "send" => value.what = Held(pc).type
Entry(value) == [id |-> IdAt(pc), n |-> PlaceAt(pc), op |-> pc, result |-> value]

\* Either nothing is added, or the entry of the operation after all others.
LEMMA RecordingCases ==
  ASSUME SharedInv, NEW value, Recording(value)
  PROVE  /\ pc \in Nat \ {0} /\ pc \in DOMAIN program /\ IdAt(pc) \in CallerIds /\ PlaceAt(pc) \in Nat \ {0}
         /\ Grows
         /\ \/ stream' = stream /\ Replays(IdAt(pc))
            \/ /\ ~ Replays(IdAt(pc)) /\ \A m \in 1 .. Len(stream) : stream[m].op < pc
               /\ stream' = Append(stream, Entry(value)) /\ Entry(value) \in Entries
               /\ Len(stream') = Len(stream) + 1 /\ stream'[Len(stream) + 1] = Entry(value)
<1>1. /\ pc \in Nat \ {0} /\ pc \in DOMAIN program /\ program \in Seq(Operations)
      /\ Place(IdAt(pc)) = PlaceAt(pc) /\ Results(IdAt(pc), value) /\ Journals(pc)
      /\ program' = program
  BY AtPc DEF Recording
<1>2. IdAt(pc) \in CallerIds /\ PlaceAt(pc) \in Nat \ {0} BY <1>1, OwnIds, PlaceFacts
<1>3. stream \in Seq(Entries) /\ Len(stream) \in Nat BY JournalTypes
<1>4. CASE Replays(IdAt(pc))
  <2>1. stream' = stream BY <1>1, <1>4 DEF Results
  <2> QED BY <1>1, <1>2, <1>3, <1>4, <2>1 DEF Grows
<1>5. CASE ~ Replays(IdAt(pc))
  <2>1. stream' = Append(stream, Entry(value)) BY <1>1, <1>5 DEF Results, Entry
  <2>2. value \in Values BY <1>5 DEF Recording
  <2>3. Entry(value) \in Entries BY <1>1, <1>2, <2>2 DEF Entry, Entries
  <2>4. PICK e \in Entries : e = Entry(value) BY <2>3
  <2>5. /\ Append(stream, e) \in Seq(Entries) /\ Len(Append(stream, e)) = Len(stream) + 1
        /\ Append(stream, e)[Len(stream) + 1] = e
        /\ \A m \in 1 .. Len(stream) : Append(stream, e)[m] = stream[m]
    BY <1>3
  <2>6. \A m \in 1 .. Len(stream) : stream[m].op < pc BY <1>1, <1>5, StoredFacts
  <2>7. Grows BY <1>1, <1>3, <2>1, <2>4, <2>5 DEF Grows
  <2> QED BY <1>1, <1>2, <1>5, <2>1, <2>3, <2>4, <2>5, <2>6, <2>7
<1> QED BY <1>4, <1>5

\* What the program gets is in the journal then, and of the right kind.
LEMMA RecordingResult ==
  ASSUME SharedInv, NEW value, Recording(value), NEW result, result = Result(IdAt(pc), value)
  PROVE  /\ result \in Values /\ ResultOk(pc, result)
         /\ program[pc].do = "send" => result.what = Held(pc).type
         /\ \E m \in 1 .. Len(stream') : /\ stream'[m].op = pc /\ stream'[m].result = result
                                         /\ stream'[m].id = IdAt(pc) /\ stream'[m].n = PlaceAt(pc)
         /\ got' = [got EXCEPT ![pc] = result]
<1>1. got' = [got EXCEPT ![pc] = result] BY DEF Recording, Results
<1>2. pc \in DOMAIN program /\ Journals(pc) BY DEF Recording
<1>3. CASE Replays(IdAt(pc))
  <2>1. PICK m \in 1 .. Len(stream) : StoredEntry(IdAt(pc)) = stream[m] /\ stream[m].op = pc
    BY <1>2, <1>3, StoredFacts
  <2>2. result = stream[m].result BY <1>3, <2>1 DEF Result
  <2>3. result \in Values BY <2>2, JournalTypes
  <2>4. ResultOk(stream[m].op, stream[m].result) BY DEF SharedInv, ResultInv
  <2>5. ResultOk(pc, result) BY <2>1, <2>2, <2>4
  <2>6. ASSUME program[pc].do = "send" PROVE result.what = Held(pc).type
    <3>1. PICK ref : ref = program[pc].ref OBVIOUS
    <3>2. /\ ref \notin 1 .. pc - 1 => result.what = "nothing"
          /\ ref \in 1 .. pc - 1 /\ ~ Journals(ref) => result.what = "task"
          /\ ref \in 1 .. pc - 1 =>
               \A l \in 1 .. Len(stream) :
                 stream[l].op = ref => result.what = Kept(program[ref].where, stream[l].result).type
      BY <2>1, <2>2, <2>6, <3>1 DEF SharedInv, SentInv
    <3>3. CASE ref \notin 1 .. pc - 1 BY <1>2, <3>1, <3>2, <3>3, HeldFacts DEF Nothing
    <3>4. CASE ref \in 1 .. pc - 1 /\ ~ Journals(ref) BY <1>2, <3>1, <3>2, <3>4, HeldFacts
    <3>5. CASE ref \in 1 .. pc - 1 /\ Journals(ref)
      <4>1. /\ Held(pc) = Kept(program[ref].where, got[ref])
            /\ \E l \in 1 .. Len(stream) : stream[l].op = ref /\ stream[l].result = got[ref]
        BY <1>2, <3>1, <3>5, HeldFacts
      <4> QED BY <3>2, <3>5, <4>1
    <3> QED BY <3>3, <3>4, <3>5
  <2>7. stream[m].id = IdAt(pc) /\ stream[m].n = PlaceAt(pc) BY <2>1 DEF SharedInv, JournalInv
  <2>8. stream' = stream BY <1>3 DEF Recording, Results
  <2> QED BY <1>1, <2>1, <2>2, <2>3, <2>5, <2>6, <2>7, <2>8
<1>4. CASE ~ Replays(IdAt(pc))
  <2>1. result = value BY <1>4 DEF Result
  <2>2. /\ value \in Values /\ ResultOk(pc, value)
        /\ program[pc].do = "send" => value.what = Held(pc).type
    BY <1>4 DEF Recording
  <2>3. /\ Len(stream') = Len(stream) + 1 /\ stream'[Len(stream) + 1] = Entry(value)
        /\ Len(stream) \in Nat
    BY <1>4, RecordingCases, JournalTypes
  <2>4. PICK m \in 1 .. Len(stream') : m = Len(stream) + 1 BY <2>3
  <2> QED BY <1>1, <2>1, <2>2, <2>3, <2>4 DEF Entry
<1> QED BY <1>3, <1>4

\* All operations before pc that journal are in the journal.
LEMMA BeforeJournaled ==
  ASSUME SharedInv, pc \in DOMAIN program, NEW j \in DOMAIN program, j < pc, Journals(j)
  PROVE  \E m \in 1 .. Len(stream) : stream[m].op = j /\ stream[m].result = got[j]
<1>1. Performed(j) BY DEF SharedInv, MemoryInv
<1> QED BY <1>1 DEF SharedInv, MemoryInv

LEMMA RecordingJournal ==
  ASSUME SharedInv, NEW value, Recording(value)
  PROVE  JournalInv'
<1>1. /\ pc \in Nat \ {0} /\ pc \in DOMAIN program /\ Grows /\ program' = program /\ old' = old
      /\ pc' = pc + 1 /\ Journals(pc) /\ Len(stream) \in Nat /\ JournalInv
      /\ stream' \in Seq(Entries) /\ Len(stream') \in Nat /\ old \in Nat
      /\ \A m \in 1 .. Len(stream) : stream[m].op \in Nat
  BY RecordingCases, JournalTypes DEF Recording, SharedInv, Grows
<1>2. CASE stream' = stream
  <2>1. \A m \in 1 .. Len(stream) : \A k : k = stream[m].op =>
          /\ k \in DOMAIN program /\ Journals(k)
          /\ stream[m].id = IdAt(k) /\ stream[m].n = PlaceAt(k)
          /\ \A j \in DOMAIN program : j < k /\ Journals(j) => \E l \in 1 .. m - 1 : stream[l].op = j
          /\ \A l \in 1 .. m - 1 : stream[l].op < k
          /\ \A n \in 1 .. stream[m].n - 1 :
               \E l \in 1 .. m - 1 : stream[l].id = stream[m].id /\ stream[l].n = n
    BY <1>1 DEF JournalInv
  <2>2. \A m \in old + 1 .. Len(stream) : stream[m].op < pc' BY <1>1 DEF JournalInv
  <2> QED BY <1>1, <1>2, <2>1, <2>2, SameProgram DEF JournalInv
<1>3. CASE /\ ~ Replays(IdAt(pc)) /\ \A m \in 1 .. Len(stream) : stream[m].op < pc
           /\ Len(stream') = Len(stream) + 1 /\ stream'[Len(stream) + 1] = Entry(value)
  <2>1. /\ Entry(value).op = pc /\ Entry(value).id = IdAt(pc) /\ Entry(value).n = PlaceAt(pc)
    BY DEF Entry
  <2>2. \A m \in 1 .. Len(stream) : stream'[m] = stream[m] BY <1>1 DEF Grows
  <2>3. \A m \in 1 .. Len(stream') : m \in 1 .. Len(stream) \/ m = Len(stream) + 1 BY <1>1, <1>3
  <2>4. ASSUME NEW n \in 1 .. PlaceAt(pc) - 1
        PROVE  \E l \in 1 .. Len(stream) : stream[l].id = IdAt(pc) /\ stream[l].n = n
    <3>1. Place(IdAt(pc)) = PlaceAt(pc) BY <1>1, AtPc
    <3>2. At(used, IdAt(pc)) \in Nat
      BY DEF SharedInv, TypeOK, At
    <3>3. n \in 1 .. At(used, IdAt(pc)) BY <3>1, <3>2 DEF Place
    <3>4. IdAt(pc) \in DOMAIN used /\ n \in 1 .. used[IdAt(pc)] BY <3>3 DEF At
    <3> QED BY <3>4 DEF SharedInv, WayInv
  <2>5. ASSUME NEW m \in 1 .. Len(stream'), NEW k, k = stream'[m].op
        PROVE  /\ k \in DOMAIN program /\ Journals(k)
               /\ stream'[m].id = IdAt(k) /\ stream'[m].n = PlaceAt(k)
               /\ \A j \in DOMAIN program : j < k /\ Journals(j) => \E l \in 1 .. m - 1 : stream'[l].op = j
               /\ \A l \in 1 .. m - 1 : stream'[l].op < k
               /\ \A n \in 1 .. stream'[m].n - 1 :
                    \E l \in 1 .. m - 1 : stream'[l].id = stream'[m].id /\ stream'[l].n = n
    <3>1. CASE m \in 1 .. Len(stream)
      <4>1. k = stream[m].op /\ stream'[m] = stream[m] BY <2>2, <2>5, <3>1
      <4>2. \A l \in 1 .. m - 1 : l \in 1 .. Len(stream) BY <1>1, <3>1
      <4>3. \A l \in 1 .. m - 1 : stream'[l] = stream[l] BY <2>2, <4>2
      <4>4. /\ k \in DOMAIN program /\ Journals(k)
            /\ stream[m].id = IdAt(k) /\ stream[m].n = PlaceAt(k)
            /\ \A j \in DOMAIN program : j < k /\ Journals(j) => \E l \in 1 .. m - 1 : stream[l].op = j
            /\ \A l \in 1 .. m - 1 : stream[l].op < k
            /\ \A n \in 1 .. stream[m].n - 1 :
                 \E l \in 1 .. m - 1 : stream[l].id = stream[m].id /\ stream[l].n = n
        BY <1>1, <3>1, <4>1 DEF JournalInv
      <4> QED BY <4>1, <4>3, <4>4
    <3>2. CASE m = Len(stream) + 1
      <4>1. k = pc /\ stream'[m] = Entry(value) BY <1>3, <2>1, <2>5, <3>2
      <4>2. \A l : l \in 1 .. m - 1 <=> l \in 1 .. Len(stream) BY <1>1, <3>2
      <4>3. \A j \in DOMAIN program : j < k /\ Journals(j) => \E l \in 1 .. m - 1 : stream'[l].op = j
        BY <1>1, <4>1, <4>2, <2>2, BeforeJournaled
      <4>4. \A l \in 1 .. m - 1 : stream'[l].op < k BY <1>3, <4>1, <4>2, <2>2
      <4>5. \A n \in 1 .. stream'[m].n - 1 :
              \E l \in 1 .. m - 1 : stream'[l].id = stream'[m].id /\ stream'[l].n = n
        BY <2>1, <2>2, <2>4, <4>1, <4>2
      <4> QED BY <1>1, <2>1, <4>1, <4>3, <4>4, <4>5
    <3> QED BY <2>3, <3>1, <3>2
  <2>6. ASSUME NEW m \in old + 1 .. Len(stream') PROVE stream'[m].op < pc'
    <3>1. CASE m = Len(stream) + 1 BY <1>1, <1>3, <2>1, <3>1
    <3>2. CASE m \in 1 .. Len(stream) BY <1>1, <1>3, <2>2, <3>2
    <3> QED BY <1>1, <1>3, <2>6, <3>1, <3>2
  <2> QED BY <1>1, <2>5, <2>6, SameProgram DEF JournalInv
<1> QED BY <1>2, <1>3, RecordingCases

\* What was sent is a matter of the program and the journal alone.
LEMMA SameSent ==
  ASSUME SentInv, UNCHANGED <<program, stream>>
  PROVE  SentInv'
<1>1. /\ program' = program /\ stream' = stream
      /\ \A k : Journals(k)' <=> Journals(k)
      /\ \A w, v : Kept(w, v)' = Kept(w, v)
  BY DEF Journals, Kept
<1>2. \A m \in 1 .. Len(stream) : program[stream[m].op].do = "send" =>
        /\ program[stream[m].op].ref \notin 1 .. stream[m].op - 1 => stream[m].result.what = "nothing"
        /\ program[stream[m].op].ref \in 1 .. stream[m].op - 1 /\ ~ Journals(program[stream[m].op].ref)
             => stream[m].result.what = "task"
        /\ program[stream[m].op].ref \in 1 .. stream[m].op - 1 =>
             \A l \in 1 .. Len(stream) : stream[l].op = program[stream[m].op].ref =>
               stream[m].result.what = Kept(program[program[stream[m].op].ref].where, stream[l].result).type
  BY DEF SentInv
<1> QED BY <1>1, <1>2 DEF SentInv, Journals, Kept

\* A step that adds nothing.
LEMMA SilentJournal ==
  ASSUME SharedInv, UNCHANGED <<program, stream, old>>, pc' \in Nat, pc' > pc
  PROVE  JournalInv' /\ ResultInv' /\ SentInv'
<1>1. /\ JournalInv /\ ResultInv /\ SentInv /\ Len(stream) \in Nat /\ pc \in Nat /\ old \in Nat
      /\ \A m \in 1 .. Len(stream) : stream[m].op \in Nat
  BY JournalTypes DEF SharedInv
<1>2. \A m \in 1 .. Len(stream) : \A k : k = stream[m].op =>
        /\ k \in DOMAIN program /\ Journals(k)
        /\ stream[m].id = IdAt(k) /\ stream[m].n = PlaceAt(k)
        /\ \A j \in DOMAIN program : j < k /\ Journals(j) => \E l \in 1 .. m - 1 : stream[l].op = j
        /\ \A l \in 1 .. m - 1 : stream[l].op < k
        /\ \A n \in 1 .. stream[m].n - 1 :
             \E l \in 1 .. m - 1 : stream[l].id = stream[m].id /\ stream[l].n = n
  BY <1>1 DEF JournalInv
<1>3. ASSUME NEW m \in old + 1 .. Len(stream) PROVE stream[m].op < pc'
  <2>1. stream[m].op < pc /\ m \in 1 .. Len(stream) BY <1>1 DEF JournalInv
  <2> QED BY <1>1, <2>1
<1>4. JournalInv' BY <1>2, <1>3, SameProgram DEF JournalInv
<1>5. ResultInv'
  <2>1. \A m \in 1 .. Len(stream) : ResultOk(stream[m].op, stream[m].result) BY <1>1 DEF ResultInv
  <2>2. \A m \in 1 .. Len(stream) : \A k, r : k = stream[m].op /\ r = stream[m].result => ResultOk(k, r)'
    BY <2>1, SameProgram
  <2> QED BY <2>2 DEF ResultInv
<1>6. SentInv' BY <1>1, SameSent
<1> QED BY <1>4, <1>5, <1>6

LEMMA RecordingResults ==
  ASSUME SharedInv, NEW value, Recording(value)
  PROVE  ResultInv' /\ SentInv'
<1>1. /\ pc \in Nat \ {0} /\ pc \in DOMAIN program /\ Grows /\ program' = program
      /\ Len(stream) \in Nat /\ ResultInv /\ SentInv /\ Len(stream') \in Nat
      /\ \A m \in 1 .. Len(stream) : stream[m].op \in Nat
  BY RecordingCases, JournalTypes DEF SharedInv, Grows
<1>2. CASE stream' = stream
  <2>1. pc' \in Nat /\ pc' > pc /\ UNCHANGED <<program, stream, old>> BY <1>1, <1>2 DEF Recording
  <2> QED BY <2>1, SilentJournal
<1>3. CASE /\ ~ Replays(IdAt(pc)) /\ \A m \in 1 .. Len(stream) : stream[m].op < pc
           /\ Len(stream') = Len(stream) + 1 /\ stream'[Len(stream) + 1] = Entry(value)
  <2>1. Entry(value).op = pc /\ Entry(value).result = value BY DEF Entry
  <2>2. \A m \in 1 .. Len(stream) : stream'[m] = stream[m] BY <1>1 DEF Grows
  <2>3. \A m \in 1 .. Len(stream') : m \in 1 .. Len(stream) \/ m = Len(stream) + 1 BY <1>1, <1>3
  <2>4. ResultOk(pc, value) /\ (program[pc].do = "send" => value.what = Held(pc).type)
    BY <1>3 DEF Recording
  <2>5. ResultInv'
    <3>1. \A m \in 1 .. Len(stream') : ResultOk(stream'[m].op, stream'[m].result)
      BY <1>1, <1>3, <2>1, <2>2, <2>3, <2>4 DEF ResultInv
    <3>2. \A m \in 1 .. Len(stream') : \A k, r : k = stream'[m].op /\ r = stream'[m].result => ResultOk(k, r)'
      BY <1>1, <3>1, SameProgram
    <3> QED BY <3>2 DEF ResultInv
  <2>6. ASSUME NEW m \in 1 .. Len(stream'), NEW k, k = stream'[m].op, program[k].do = "send",
               NEW ref, ref = program[k].ref, NEW what, what = stream'[m].result.what
        PROVE  /\ ref \notin 1 .. k - 1 => what = "nothing"
               /\ ref \in 1 .. k - 1 /\ ~ Journals(ref) => what = "task"
               /\ ref \in 1 .. k - 1 =>
                    \A l \in 1 .. Len(stream') :
                      stream'[l].op = ref => what = Kept(program[ref].where, stream'[l].result).type
    <3>1. CASE m \in 1 .. Len(stream)
      <4>1. k = stream[m].op /\ what = stream[m].result.what /\ k < pc /\ k \in Nat
        BY <1>1, <1>3, <2>2, <2>6, <3>1
      <4>2. /\ ref \notin 1 .. k - 1 => what = "nothing"
            /\ ref \in 1 .. k - 1 /\ ~ Journals(ref) => what = "task"
            /\ ref \in 1 .. k - 1 =>
                 \A l \in 1 .. Len(stream) :
                   stream[l].op = ref => what = Kept(program[ref].where, stream[l].result).type
        BY <1>1, <2>6, <3>1, <4>1 DEF SentInv
      <4>3. ASSUME ref \in 1 .. k - 1, NEW l \in 1 .. Len(stream'), stream'[l].op = ref
            PROVE  l \in 1 .. Len(stream) /\ stream'[l] = stream[l]
        <5>1. ref # pc BY <1>1, <4>1, <4>3
        <5>2. l # Len(stream) + 1 BY <1>3, <2>1, <4>3, <5>1
        <5> QED BY <2>2, <2>3, <5>2
      <4> QED BY <4>2, <4>3
    <3>2. CASE m = Len(stream) + 1
      <4>1. k = pc /\ what = value.what BY <1>3, <2>1, <2>6, <3>2
      <4>2. what = Held(pc).type BY <2>4, <2>6, <4>1
      <4>3. CASE ref \notin 1 .. pc - 1
        <5>1. Held(pc) = Nothing BY <1>1, <2>6, <4>1, <4>3, HeldFacts
        <5> QED BY <4>1, <4>2, <4>3, <5>1 DEF Nothing
      <4>4. CASE ref \in 1 .. pc - 1
        <5>1. /\ Held(pc) = Kept(program[ref].where, got[ref])
              /\ Journals(ref) =>
                   \E l \in 1 .. Len(stream) : stream[l].op = ref /\ stream[l].result = got[ref]
              /\ ~ Journals(ref) => got[ref].type = "task" /\ Held(pc) = got[ref]
          BY <1>1, <2>6, <4>1, <4>4, HeldFacts
        <5>2. ASSUME NEW l \in 1 .. Len(stream'), stream'[l].op = ref
              PROVE  what = Kept(program[ref].where, stream'[l].result).type
          <6>1. ref # pc BY <1>1, <4>4
          <6>2. l \in 1 .. Len(stream) /\ stream'[l] = stream[l] BY <1>3, <2>1, <2>2, <2>3, <5>2, <6>1
          <6>3. Journals(ref) BY <5>2, <6>2, JournalTypes
          <6>4. PICK i \in 1 .. Len(stream) : stream[i].op = ref /\ stream[i].result = got[ref]
            BY <5>1, <6>3
          <6>5. i = l BY <5>2, <6>2, <6>4, EntryOnce
          <6> QED BY <4>2, <5>1, <6>2, <6>4, <6>5
        <5> QED BY <4>1, <4>2, <4>4, <5>1, <5>2
      <4> QED BY <4>3, <4>4
    <3> QED BY <2>3, <3>1, <3>2
  <2>7. SentInv'
    <3>1. \A m \in 1 .. Len(stream') : program[stream'[m].op].do = "send" =>
            /\ program[stream'[m].op].ref \notin 1 .. stream'[m].op - 1 => stream'[m].result.what = "nothing"
            /\ program[stream'[m].op].ref \in 1 .. stream'[m].op - 1 /\ ~ Journals(program[stream'[m].op].ref)
                 => stream'[m].result.what = "task"
            /\ program[stream'[m].op].ref \in 1 .. stream'[m].op - 1 =>
                 \A l \in 1 .. Len(stream') : stream'[l].op = program[stream'[m].op].ref =>
                   stream'[m].result.what = Kept(program[program[stream'[m].op].ref].where, stream'[l].result).type
      BY <2>6
    <3>2. program' = program BY <1>1
    <3> QED BY <3>1, <3>2 DEF SentInv, Journals, Kept
  <2> QED BY <2>5, <2>7
<1> QED BY <1>2, <1>3, RecordingCases

-----------------------------------------------------------------------------
(* What a step does to the memory of the run *)

LEMMA MemoryStep ==
  ASSUME SharedInv, pc \in DOMAIN program, Grows, NEW v \in Values, got' = [got EXCEPT ![pc] = v],
         v # Nothing, v = Refused => pc' = Len(program) + 1 /\ program[pc].do \in {"join", "send"},
         pc' \in {pc + 1, Len(program) + 1}, joined \subseteq joined',
         Journals(pc) /\ v # Refused =>
           \E m \in 1 .. Len(stream') : stream'[m].op = pc /\ stream'[m].result = v,
         program[pc].do = "spawn" /\ v # Refused => v = TaskHandle(TaskAt(pc)),
         program[pc].do = "join" /\ v # Refused => v.type = "task" /\ v.id \in joined' /\ v.id \notin joined,
         v.type = "sent" => v.what # "handle" /\ v.what = Held(pc).type
  PROVE  MemoryInv' /\ got' \in [DOMAIN program -> Values]
<1>1. /\ program' = program /\ pc \in Nat \ {0} /\ DOMAIN program = 1 .. Len(program) /\ Len(program) \in Nat
      /\ got \in [DOMAIN program -> Values] /\ MemoryInv
      /\ \A m \in 1 .. Len(stream) : m \in 1 .. Len(stream') /\ stream'[m] = stream[m]
  <2>1. /\ pc \in Nat \ {0} /\ DOMAIN program = 1 .. Len(program) /\ Len(program) \in Nat
        /\ Len(stream) \in Nat
    BY JournalTypes, AtPc
  <2>2. got \in [DOMAIN program -> Values] /\ MemoryInv BY DEF SharedInv, TypeOK
  <2>3. program' = program /\ Len(stream') \in Nat /\ Len(stream) <= Len(stream') BY DEF Grows
  <2>4. \A m \in 1 .. Len(stream) : stream'[m] = stream[m] BY DEF Grows
  <2> QED BY <2>1, <2>2, <2>3, <2>4
<1>2. /\ got'[pc] = v /\ \A k \in DOMAIN program : k # pc => got'[k] = got[k]
      /\ got' \in [DOMAIN program -> Values]
  BY <1>1
<1>3. ASSUME NEW k \in DOMAIN program, k # pc
      PROVE  /\ Performed(k)' <=> Performed(k)
             /\ k >= pc' => got'[k] = Nothing
             /\ k < pc' /\ pc' \in DOMAIN program => Performed(k)'
             /\ got'[k] = Refused => program[k].do \in {"join", "send"}
             /\ Performed(k)' /\ Journals(k) =>
                  \E m \in 1 .. Len(stream') : stream'[m].op = k /\ stream'[m].result = got'[k]
             /\ Performed(k)' /\ program[k].do = "spawn" => got'[k] = TaskHandle(TaskAt(k))
             /\ Performed(k)' /\ program[k].do = "join" => got'[k].type = "task" /\ got'[k].id \in joined'
  <2>1. got'[k] = got[k] /\ (Performed(k)' <=> Performed(k)) BY <1>2, <1>3 DEF Performed
  <2>2. k \in Nat /\ pc' >= pc + 1 BY <1>1
  <2>3. k >= pc' => got'[k] = Nothing BY <1>1, <2>1, <2>2 DEF MemoryInv
  <2>4. k < pc' /\ pc' \in DOMAIN program => Performed(k)'
    <3>1. pc' \in DOMAIN program => pc' = pc + 1 BY <1>1
    <3>2. k < pc' /\ pc' \in DOMAIN program => k < pc BY <1>1, <1>3, <2>2, <3>1
    <3> QED BY <1>1, <2>1, <3>2 DEF MemoryInv
  <2>5. /\ Performed(k) /\ Journals(k) =>
             \E m \in 1 .. Len(stream) : stream[m].op = k /\ stream[m].result = got[k]
        /\ Performed(k) /\ program[k].do = "spawn" => got[k] = TaskHandle(TaskAt(k))
        /\ Performed(k) /\ program[k].do = "join" => got[k].type = "task" /\ got[k].id \in joined
    BY <1>1 DEF MemoryInv
  <2>6. got'[k] = Refused => program[k].do \in {"join", "send"} BY <1>1, <2>1 DEF MemoryInv
  <2> QED BY <1>1, <2>1, <2>3, <2>4, <2>5, <2>6
<1>4. ASSUME NEW k \in DOMAIN program, k = pc
      PROVE  /\ k >= pc' => got'[k] = Nothing
             /\ k < pc' /\ pc' \in DOMAIN program => Performed(k)'
             /\ got'[k] = Refused => program[k].do \in {"join", "send"}
             /\ Performed(k)' /\ Journals(k) =>
                  \E m \in 1 .. Len(stream') : stream'[m].op = k /\ stream'[m].result = got'[k]
             /\ Performed(k)' /\ program[k].do = "spawn" => got'[k] = TaskHandle(TaskAt(k))
             /\ Performed(k)' /\ program[k].do = "join" => got'[k].type = "task" /\ got'[k].id \in joined'
  <2>1. got'[k] = v BY <1>2, <1>4
  <2>2. Performed(k)' <=> v # Refused BY <2>1 DEF Performed, Nothing, Refused
  <2>3. pc' > pc /\ (v = Refused => pc' \notin DOMAIN program) BY <1>1
  <2>4. ~ (k >= pc') BY <1>1, <1>4, <2>3
  <2>5. /\ Performed(k)' /\ Journals(k) =>
             \E m \in 1 .. Len(stream') : stream'[m].op = k /\ stream'[m].result = got'[k]
        /\ Performed(k)' /\ program[k].do = "spawn" => got'[k] = TaskHandle(TaskAt(k))
        /\ Performed(k)' /\ program[k].do = "join" => got'[k].type = "task" /\ got'[k].id \in joined'
    BY <1>4, <2>1, <2>2
  <2> QED BY <1>4, <2>1, <2>2, <2>3, <2>4, <2>5
<1>5. ASSUME NEW k \in DOMAIN program
      PROVE  /\ k >= pc' => got'[k] = Nothing
             /\ k < pc' /\ pc' \in DOMAIN program => Performed(k)'
             /\ got'[k] = Refused => program[k].do \in {"join", "send"}
             /\ Performed(k)' /\ Journals(k) =>
                  \E m \in 1 .. Len(stream') : stream'[m].op = k /\ stream'[m].result = got'[k]
             /\ Performed(k)' /\ program[k].do = "spawn" => got'[k] = TaskHandle(TaskAt(k))
             /\ Performed(k)' /\ program[k].do = "join" => got'[k].type = "task" /\ got'[k].id \in joined'
  BY <1>3, <1>4
<1>6. JoinedOnce'
  <2>1. SUFFICES ASSUME NEW i \in DOMAIN program, NEW j \in DOMAIN program,
                        program[i].do = "join", program[j].do = "join",
                        got'[i].type = "task", got'[i] = got'[j]
                 PROVE  i = j
    BY <1>1, <1>2 DEF JoinedOnce
  <2>2. \A k \in DOMAIN program : k # pc /\ got'[k].type = "task" /\ program[k].do = "join" =>
          got[k] = got'[k] /\ got'[k].id \in joined
    <3>1. SUFFICES ASSUME NEW k \in DOMAIN program, k # pc, got'[k].type = "task", program[k].do = "join"
                   PROVE  got[k] = got'[k] /\ got'[k].id \in joined
      OBVIOUS
    <3>2. got[k] = got'[k] BY <1>2, <3>1
    <3>3. Performed(k) BY <3>1, <3>2 DEF Performed, Nothing, Refused
    <3> QED BY <1>1, <3>1, <3>2, <3>3 DEF MemoryInv
  <2>3. program[pc].do = "join" /\ got'[pc].type = "task" => got'[pc].id \notin joined
    BY <1>2 DEF Refused
  <2>4. CASE i = pc BY <2>1, <2>2, <2>3, <2>4
  <2>5. CASE j = pc BY <2>1, <2>2, <2>3, <2>5
  <2>6. CASE i # pc /\ j # pc
    <3>1. got[i] = got'[i] /\ got[j] = got'[j] BY <1>2, <2>6
    <3>2. DOMAIN got = DOMAIN program /\ JoinedOnce BY <1>1 DEF MemoryInv
    <3> QED BY <2>1, <3>1, <3>2 DEF JoinedOnce
  <2> QED BY <2>4, <2>5, <2>6
<1>7. HandlesStayHere'
  <2>1. SUFFICES ASSUME NEW i \in DOMAIN program, got'[i].type = "sent"
                 PROVE  got'[i].what # "handle" /\ got'[i].what = Held(i)'.type
    BY <1>1, <1>2 DEF HandlesStayHere
  <2>2. i <= pc
    <3>1. CASE i > pc
      <4>1. got'[i] = got[i] /\ i \in Nat BY <1>1, <1>2, <3>1
      <4>2. got[i] = Nothing BY <1>1, <3>1, <4>1 DEF MemoryInv
      <4> QED BY <2>1, <4>1, <4>2 DEF Nothing
    <3> QED BY <1>1, <3>1
  <2>3. PICK ref : ref = program[i].ref OBVIOUS
  <2>4. ref \in 1 .. i - 1 => ref \in DOMAIN program /\ ref # pc BY <1>1, <2>2
  <2>5. ref \in 1 .. i - 1 => got'[ref] = got[ref] BY <1>2, <2>4
  <2>6. Held(i)' = Held(i) BY <1>1, <2>3, <2>5 DEF Held, Kept
  <2>7. CASE i = pc BY <1>2, <2>1, <2>6, <2>7
  <2>8. CASE i # pc
    <3>1. got'[i] = got[i] /\ i \in DOMAIN got BY <1>1, <1>2, <2>8
    <3> QED BY <1>1, <2>1, <2>6, <3>1 DEF MemoryInv, HandlesStayHere
  <2> QED BY <2>7, <2>8
<1>8. \A k : (Journals(k)' <=> Journals(k)) /\ TaskAt(k)' = TaskAt(k) BY <1>1, SameProgram
<1>9. \A k : TaskHandle(TaskAt(k))' = TaskHandle(TaskAt(k)) BY <1>8 DEF TaskHandle
<1>10. Nothing' = Nothing /\ Refused' = Refused BY DEF Nothing, Refused
<1>11. MemoryInv' BY <1>1, <1>5, <1>6, <1>7, <1>8, <1>9, <1>10 DEF MemoryInv
<1> QED BY <1>2, <1>11

\* A step that consumes nothing: it goes on, or the run is over.
LEMMA WaySilent ==
  ASSUME SharedInv, pc \in DOMAIN program, UNCHANGED <<program, stream, used>>,
         \/ pc' = Len(program) + 1
         \/ /\ pc' = pc + 1 /\ ~ Journals(pc)
            /\ count' = IF pc \in Allocating THEN count + 1 ELSE count
  PROVE  WayInv'
<1>1. /\ WayInv /\ program \in Seq(Operations) /\ pc \in Nat \ {0} /\ Len(program) \in Nat
      /\ DOMAIN program = 1 .. Len(program) /\ pc' > pc /\ pc' \in Nat
  BY JournalTypes, AtPc DEF SharedInv
<1>2. ASSUME pc' \in DOMAIN program PROVE count' = Number(pc') /\ At(used, Caller) = Before(OfCaller, pc')
  <2>1. pc' = pc + 1 /\ ~ Journals(pc) /\ count' = IF pc \in Allocating THEN count + 1 ELSE count
    BY <1>1, <1>2
  <2>2. pc \notin OfCaller BY <2>1 DEF OfCaller
  <2>3. PICK k \in Nat : k = pc BY <1>1
  <2>4. Number(k + 1) = count' BY <1>1, <2>1, <2>3, NumberFacts DEF WayInv
  <2>5. Before(OfCaller, k + 1) = At(used, Caller) BY <1>1, <2>2, <2>3, NumberFacts DEF WayInv
  <2> QED BY <2>1, <2>3, <2>4, <2>5
<1>3. pc' \in DOMAIN program => count' = Number(pc)' /\ At(used, Caller) = Before(OfCaller, pc)'
  <2>1. PICK k : k = pc' OBVIOUS
  <2>2. Number(k)' = Number(k) /\ OfCaller' = OfCaller BY SameProgram
  <2>3. Before(OfCaller, k)' = Before(OfCaller, k) BY <2>2 DEF Before
  <2> QED BY <1>2, <2>1, <2>2, <2>3
<1>4. At(used, Caller)' = At(used, Caller) BY DEF At, Caller
<1>5. \A id \in DOMAIN used \ {Caller} : \E k \in DOMAIN program : k < pc' /\ k \in Allocating /\ id = IdAt(k)
  <2> TAKE id \in DOMAIN used \ {Caller}
  <2>1. PICK k \in DOMAIN program : k < pc /\ k \in Allocating /\ id = IdAt(k) BY <1>1 DEF WayInv
  <2>2. k < pc' BY <1>1, <2>1
  <2> QED BY <2>1, <2>2
<1>6. \A id \in DOMAIN used : \A n \in 1 .. used[id] :
        \E m \in 1 .. Len(stream) : stream[m].id = id /\ stream[m].n = n
  BY <1>1 DEF WayInv
<1>7. Caller' = Caller BY DEF Caller
<1> QED BY <1>3, <1>4, <1>5, <1>6, <1>7, SameProgram DEF WayInv

\* An effect consumes its place.
LEMMA WayRecording ==
  ASSUME SharedInv, NEW value, Recording(value), count' = CountAfter(Op.where)
  PROVE  WayInv'
<1> DEFINE id == IdAt(pc)
<1>1. /\ WayInv /\ program \in Seq(Operations) /\ pc \in Nat \ {0} /\ Len(program) \in Nat
      /\ pc \in DOMAIN program /\ Journals(pc) /\ DOMAIN program = 1 .. Len(program)
      /\ pc' = pc + 1 /\ program' = program /\ used' = Set(used, id, Place(id))
  BY JournalTypes, AtPc DEF SharedInv, Recording, Results
<1>2. /\ count = Number(pc) /\ count \in Nat /\ Op = program[pc] /\ Place(id) = PlaceAt(pc)
      /\ At(used, Caller) = Before(OfCaller, pc)
  BY <1>1, AtPc DEF WayInv
<1>3. pc \in Allocating <=> program[pc].where # "caller" BY <1>1 DEF Allocating, Journals
<1>4. count' = Number(pc + 1)
  <2>1. PICK k \in Nat : k = pc BY <1>1
  <2>2. Number(k + 1) = IF k \in Allocating THEN Number(k) + 1 ELSE Number(k) BY <1>1, NumberFacts
  <2> QED BY <1>2, <1>3, <2>1, <2>2 DEF CountAfter
<1>5. /\ DOMAIN used' = DOMAIN used \union {id} /\ used'[id] = Place(id)
      /\ \A i \in DOMAIN used : i # id => used'[i] = used[i]
      /\ At(used', id) = Place(id) /\ \A i : i # id => At(used', i) = At(used, i)
  <2>1. PICK i : i = id OBVIOUS
  <2>2. PICK v : v = Place(id) OBVIOUS
  <2>3. PICK f : f = Set(used, i, v) OBVIOUS
  <2>4. /\ DOMAIN f = DOMAIN used \union {i} /\ f[i] = v
        /\ \A j \in DOMAIN used : j # i => f[j] = used[j]
        /\ At(f, i) = v /\ \A j : j # i => At(f, j) = At(used, j)
    BY <2>3 DEF Set, At
  <2> QED BY <1>1, <2>1, <2>2, <2>3, <2>4
<1>6. At(used', Caller) = Before(OfCaller, pc + 1)
  <2>1. PICK k \in Nat : k = pc BY <1>1
  <2>2. Before(OfCaller, k + 1) = IF k \in OfCaller THEN Before(OfCaller, k) + 1 ELSE Before(OfCaller, k)
    BY <1>1, NumberFacts
  <2>3. pc \in OfCaller <=> program[pc].where = "caller" BY <1>1 DEF OfCaller
  <2>4. CASE program[pc].where = "caller"
    <3>1. id = Caller BY <1>1, <2>4, OwnIds
    <3>2. Place(id) = Before(OfCaller, pc) + 1 BY <1>2, <2>4 DEF PlaceAt
    <3> HIDE DEF id
    <3> QED BY <1>5, <2>1, <2>2, <2>3, <2>4, <3>1, <3>2
  <2>5. CASE program[pc].where # "caller"
    <3>1. id # Caller BY <1>1, <2>5, OwnIds
    <3> HIDE DEF id
    <3> QED BY <1>2, <1>5, <2>1, <2>2, <2>3, <2>5, <3>1
  <2> QED BY <2>4, <2>5
<1>7. ASSUME NEW i \in DOMAIN used' \ {Caller}
      PROVE  \E k \in DOMAIN program : k < pc + 1 /\ k \in Allocating /\ i = IdAt(k)
  <2>1. CASE i \in DOMAIN used
    <3>1. PICK k \in DOMAIN program : k < pc /\ k \in Allocating /\ i = IdAt(k)
      BY <1>1, <1>7, <2>1 DEF WayInv
    <3>2. k < pc + 1 BY <1>1, <3>1
    <3> QED BY <3>1, <3>2
  <2>2. CASE i = id
    <3>1. program[pc].where # "caller" BY <1>1, <1>7, <2>2, OwnIds
    <3> QED BY <1>1, <1>3, <2>2, <3>1
  <2> HIDE DEF id
  <2> QED BY <1>5, <1>7, <2>1, <2>2
<1>8. /\ Len(stream) \in Nat /\ Len(stream') \in Nat
      /\ \A m \in 1 .. Len(stream) : m \in 1 .. Len(stream') /\ stream'[m] = stream[m]
  <2>1. Grows BY RecordingCases
  <2> QED BY <2>1, JournalTypes DEF Grows
<1>9. \E m \in 1 .. Len(stream') : stream'[m].id = id /\ stream'[m].n = Place(id)
  BY <1>2, RecordingResult
<1>10. ASSUME NEW i \in DOMAIN used', NEW n \in 1 .. used'[i]
       PROVE  \E m \in 1 .. Len(stream') : stream'[m].id = i /\ stream'[m].n = n
  <2>1. \A j \in DOMAIN used : \A q \in 1 .. used[j] :
          \E m \in 1 .. Len(stream) : stream[m].id = j /\ stream[m].n = q
    BY <1>1 DEF WayInv
  <2>2. CASE i # id
    <3>1. i \in DOMAIN used /\ n \in 1 .. used[i]
      <4> HIDE DEF id
      <4> QED BY <1>5, <1>10, <2>2
    <3> QED BY <1>8, <2>1, <3>1
  <2>3. CASE i = id /\ n = Place(id) BY <1>9, <2>3
  <2>4. CASE i = id /\ n # Place(id)
    <3>1. At(used, id) \in Nat BY DEF SharedInv, TypeOK, At
    <3>2. n \in 1 .. At(used, id)
      <4> HIDE DEF id
      <4> QED BY <1>5, <1>10, <2>4, <3>1 DEF Place
    <3>3. id \in DOMAIN used /\ n \in 1 .. used[id] BY <3>2 DEF At
    <3> QED BY <1>8, <2>1, <2>4, <3>3
  <2> QED BY <2>2, <2>3, <2>4
<1>11. /\ Caller' = Caller /\ Allocating' = Allocating /\ Number(pc + 1) = Number(pc)'
       /\ Before(OfCaller, pc + 1) = Before(OfCaller, pc)' /\ \A k : IdAt(k)' = IdAt(k)
  <2>1. PICK k : k = pc' OBVIOUS
  <2>2. Number(k)' = Number(k) /\ OfCaller' = OfCaller BY <1>1, SameProgram
  <2>3. Before(OfCaller, k)' = Before(OfCaller, k) BY <2>2 DEF Before
  <2>4. k = pc + 1 BY <1>1, <2>1
  <2> QED BY <1>1, <2>1, <2>2, <2>3, <2>4, SameProgram DEF Caller
<1>12. At(used', Caller) = At(used, Caller)' BY DEF At, Caller
<1> HIDE DEF id
<1> QED BY <1>1, <1>4, <1>6, <1>7, <1>10, <1>11, <1>12 DEF WayInv

\* What an effect gives the program is a result of its kind.
LEMMA ResultKinds ==
  ASSUME SharedInv, NEW value, Recording(value), NEW result, result = Result(IdAt(pc), value)
  PROVE  /\ result # Nothing /\ result # Refused /\ ResultOk(pc, result)
         /\ result.type = "sent" => result.what # "handle" /\ result.what = Held(pc).type
         /\ program[pc].do \notin {"spawn", "join"}
<1>1. /\ ResultOk(pc, result) /\ (program[pc].do = "send" => result.what = Held(pc).type)
  BY RecordingResult
<1>2. program[pc].do \in {"subscribe", "next", "send"} BY DEF Recording, Journals
<1>3. CASE program[pc].do = "send" BY <1>1, <1>3 DEF ResultOk, Nothing, Refused
<1>4. CASE program[pc].do \in {"subscribe", "next"}
  <2>1. result.type \in {"error", "handle", "item"} BY <1>1, <1>4 DEF ResultOk, Failed
  <2> QED BY <1>1, <1>2, <2>1 DEF Nothing, Refused
<1> QED BY <1>2, <1>3, <1>4

LEMMA RecordingKeeps ==
  ASSUME SharedInv, NEW value, Recording(value), count' = CountAfter(Op.where), UNCHANGED <<run, joined>>,
         \A o \in DOMAIN counters' : counters'[o] \in Nat,
         \A t \in DOMAIN subs' : subs'[t] \in DOMAIN program
  PROVE  SharedInv'
<1>1. /\ TypeOK /\ pc \in DOMAIN program /\ program' = program /\ old' = old /\ pc' = pc + 1 /\ Journals(pc)
      /\ used' = Set(used, IdAt(pc), Place(IdAt(pc))) /\ Grows
      /\ IdAt(pc) \in CallerIds /\ PlaceAt(pc) \in Nat \ {0} /\ pc \in Nat \ {0}
  BY RecordingCases DEF SharedInv, Recording, Results
<1>2. WayInv' BY WayRecording
<1>3. JournalInv' BY RecordingJournal
<1>4. ResultInv' /\ SentInv' BY RecordingResults
<1>5. PICK result : result = Result(IdAt(pc), value) OBVIOUS
<1>6. /\ result \in Values /\ got' = [got EXCEPT ![pc] = result]
      /\ \E m \in 1 .. Len(stream') : stream'[m].op = pc /\ stream'[m].result = result
  BY <1>5, RecordingResult
<1>7. /\ result # Nothing /\ result # Refused
      /\ result.type = "sent" => result.what # "handle" /\ result.what = Held(pc).type
      /\ program[pc].do \notin {"spawn", "join"}
  BY <1>5, ResultKinds
<1>8. pc' \in {pc + 1, Len(program) + 1} /\ joined \subseteq joined' BY <1>1
<1>9. MemoryInv' /\ got' \in [DOMAIN program -> Values] BY <1>1, <1>6, <1>7, <1>8, MemoryStep
<1>10. TypeOK'
  <2>1. /\ program' \in Seq(Operations) /\ stream' \in Seq(Entries) /\ old' \in 0 .. Len(stream')
        /\ pc' \in 1 .. Len(program') + 1 /\ run' \in Nat /\ joined' \subseteq CallerIds
        /\ got' \in [DOMAIN program' -> Values]
    <3>1. /\ Len(stream) \in Nat /\ Len(stream') \in Nat /\ Len(stream) <= Len(stream')
          /\ stream' \in Seq(Entries) /\ DOMAIN program = 1 .. Len(program) /\ Len(program) \in Nat
      BY <1>1, JournalTypes DEF Grows
    <3> QED BY <1>1, <1>9, <3>1 DEF TypeOK
  <2>2. count' \in Nat BY <1>1 DEF TypeOK, CountAfter
  <2>3. \A id \in DOMAIN used' : id \in CallerIds /\ used'[id] \in Nat
    <3>1. PICK i : i = IdAt(pc) OBVIOUS
    <3>2. PICK n \in Nat : n = Place(IdAt(pc)) BY <1>1, AtPc
    <3>3. used' = Set(used, i, n) BY <1>1, <3>1, <3>2
    <3> QED BY <1>1, <3>1, <3>3 DEF TypeOK, Set
  <2> QED BY <1>1, <2>1, <2>2, <2>3 DEF TypeOK
<1> QED BY <1>2, <1>3, <1>4, <1>9, <1>10 DEF SharedInv

\* A step that is no effect, or whose effect is refused.
LEMMA SilentKeeps ==
  ASSUME SharedInv, pc \in DOMAIN program,
         UNCHANGED <<program, stream, old, used, counters, subs, run>>, count' \in Nat,
         NEW v \in Values, got' = [got EXCEPT ![pc] = v], v # Nothing, v.type # "sent",
         v = Refused => pc' = Len(program) + 1 /\ program[pc].do \in {"join", "send"},
         v # Refused => /\ pc' = pc + 1 /\ ~ Journals(pc)
                        /\ count' = IF pc \in Allocating THEN count + 1 ELSE count,
         joined \subseteq joined', joined' \subseteq CallerIds,
         program[pc].do = "spawn" /\ v # Refused => v = TaskHandle(TaskAt(pc)),
         program[pc].do = "join" /\ v # Refused => v.type = "task" /\ v.id \in joined' /\ v.id \notin joined
  PROVE  SharedInv'
<1>1. /\ stream \in Seq(Entries) /\ Len(stream) \in Nat /\ program \in Seq(Operations)
      /\ DOMAIN program = 1 .. Len(program) /\ Len(program) \in Nat /\ pc \in Nat /\ TypeOK
  BY JournalTypes DEF SharedInv
<1>2. pc' \in {pc + 1, Len(program) + 1} /\ pc' \in Nat /\ pc' > pc BY <1>1
<1>3. Grows BY <1>1 DEF Grows
<1>4. JournalInv' /\ ResultInv' /\ SentInv' BY <1>2, SilentJournal
<1>5. MemoryInv' /\ got' \in [DOMAIN program -> Values] BY <1>2, <1>3, MemoryStep
<1>6. WayInv' BY WaySilent
<1>7. TypeOK' BY <1>1, <1>2, <1>5 DEF TypeOK
<1> QED BY <1>4, <1>5, <1>6, <1>7 DEF SharedInv

LEMMA ValueFacts ==
  /\ Nothing \in Values /\ Refused \in Values /\ Failed \in Values
  /\ \A id \in CallerIds : TaskHandle(id) \in Values
  /\ \A o \in CallerIds, n \in Nat : Handle(<<o, n>>) \in Values
  /\ \A source \in Nat : Item(source) \in Values
  /\ \A v \in Values : /\ Sent(v) \in Values
                       /\ v.type = "task" => v.id \in CallerIds
BY DEF Values, Nothing, Refused, Failed, TaskHandle, Handle, Item, Sent

LEMMA HeldTyped ==
  ASSUME SharedInv, pc \in DOMAIN program
  PROVE  Held(pc) \in Values
<1>1. PICK ref : ref = program[pc].ref OBVIOUS
<1>2. CASE ref \in 1 .. pc - 1
  <2>1. Held(pc) = Kept(program[ref].where, got[ref]) /\ got[ref] \in Values BY <1>1, <1>2, HeldFacts
  <2> QED BY <2>1, ValueFacts DEF Kept
<1>3. CASE ref \notin 1 .. pc - 1 BY <1>1, <1>3, HeldFacts, ValueFacts
<1> QED BY <1>2, <1>3

LEMMA SpawnShared ==
  ASSUME SharedInv, Spawn
  PROVE  SharedInv'
<1>1. /\ pc \in DOMAIN program /\ Op = program[pc] /\ TaskOf(Op.where, count) = TaskAt(pc)
      /\ program \in Seq(Operations) /\ count \in Nat
  BY AtPc DEF Spawn
<1>2. PICK v : v = TaskHandle(TaskAt(pc)) OBVIOUS
<1>3. v \in Values /\ v.type = "task" BY <1>1, <1>2, OwnIds, ValueFacts DEF TaskHandle
<1>4. /\ got' = [got EXCEPT ![pc] = v] /\ program[pc].do = "spawn" /\ pc' = pc + 1 /\ count' = count + 1
      /\ UNCHANGED <<program, stream, old, used, counters, subs, joined, run>>
  BY <1>1, <1>2 DEF Spawn, CountAfterSpawn
<1>5. pc \in Allocating /\ ~ Journals(pc) BY <1>1, <1>4 DEF Allocating, Journals
<1>6. joined' \subseteq CallerIds BY <1>4 DEF SharedInv, TypeOK
<1>7. v # Nothing /\ v # Refused /\ v.type # "sent" BY <1>3 DEF Nothing, Refused
<1>8. /\ count' \in Nat /\ count' = IF pc \in Allocating THEN count + 1 ELSE count
      /\ joined \subseteq joined' /\ program[pc].do # "join"
  BY <1>1, <1>4, <1>5
<1> QED BY <1>1, <1>2, <1>3, <1>4, <1>5, <1>6, <1>7, <1>8, SilentKeeps

LEMMA JoinShared ==
  ASSUME SharedInv, Join
  PROVE  SharedInv'
<1>1. /\ pc \in DOMAIN program /\ Op = program[pc] /\ count \in Nat /\ program[pc].do = "join"
      /\ count' = CountAfter(Op.where) /\ UNCHANGED <<program, stream, old, used, counters, subs, run>>
      /\ joined \subseteq CallerIds
  BY AtPc DEF Join, SharedInv, TypeOK
<1>2. count' \in Nat /\ count' = IF pc \in Allocating THEN count + 1 ELSE count
  BY <1>1 DEF CountAfter, Allocating
<1>3. ~ Journals(pc) BY <1>1 DEF Journals
<1>4. PICK held : held = Held(pc) OBVIOUS
<1>5. held \in Values BY <1>1, <1>4, HeldTyped
<1>6. CASE /\ held.type = "task" /\ held.id \notin joined
           /\ got' = [got EXCEPT ![pc] = held] /\ joined' = joined \union {held.id} /\ pc' = pc + 1
  <2>1. held.id \in CallerIds /\ held # Nothing /\ held # Refused
    BY <1>5, <1>6, ValueFacts DEF Nothing, Refused
  <2>2. /\ joined \subseteq joined' /\ joined' \subseteq CallerIds /\ held.id \in joined'
        /\ held.type # "sent"
    BY <1>1, <1>6, <2>1
  <2> QED BY <1>1, <1>2, <1>3, <1>5, <1>6, <2>1, <2>2, SilentKeeps
<1>7. CASE got' = [got EXCEPT ![pc] = Refused] /\ joined' = joined /\ pc' = Len(program) + 1
  <2>1. PICK v : v = Refused OBVIOUS
  <2>2. v \in Values /\ v # Nothing /\ v.type # "sent" BY <2>1, ValueFacts DEF Nothing, Refused
  <2> QED BY <1>1, <1>2, <1>7, <2>1, <2>2, SilentKeeps
<1> QED BY <1>4, <1>6, <1>7 DEF Join, AlreadyJoined

LEMMA SendCases ==
  ASSUME SharedInv, Send
  PROVE  /\ pc \in DOMAIN program /\ program[pc].do = "send" /\ count' \in Nat
         /\ count' = CountAfter(Op.where) /\ UNCHANGED <<program, old, counters, subs, joined, run>>
         /\ \/ got' = [got EXCEPT ![pc] = Refused] /\ pc' = Len(program) + 1 /\ UNCHANGED <<stream, used>>
            \/ \E value : Recording(value) /\ TokenOk(pc, value)
<1>1. /\ pc \in DOMAIN program /\ Op = program[pc] /\ count \in Nat /\ program[pc].do = "send"
      /\ JournalId(Op.where, count) = IdAt(pc) /\ count' = CountAfter(Op.where)
      /\ UNCHANGED <<program, old, counters, subs, joined, run>>
  BY AtPc DEF Send
<1>2. Journals(pc) /\ count' \in Nat BY <1>1 DEF Journals, CountAfter
<1>3. PICK held : held = Held(pc) OBVIOUS
<1>4. held \in Values BY <1>1, <1>3, HeldTyped
<1>5. CASE got' = [got EXCEPT ![pc] = Refused] /\ pc' = Len(program) + 1 /\ UNCHANGED <<stream, used>>
  BY <1>1, <1>2, <1>5
<1>6. CASE /\ Results(IdAt(pc), Sent(held)) /\ pc' = pc + 1
           /\ ~ Replays(IdAt(pc)) => held.type # "handle"
  <2>1. PICK value : value = Sent(held) OBVIOUS
  <2>2. value \in Values /\ value.type = "sent" /\ value.what = held.type
    BY <1>4, <2>1, ValueFacts DEF Sent
  <2>3. /\ TokenOk(pc, value)
        /\ ~ Replays(IdAt(pc)) => ResultOk(pc, value)
    BY <1>1, <1>6, <2>2 DEF ResultOk, TokenOk
  <2>4. Recording(value) BY <1>1, <1>2, <1>3, <1>6, <2>1, <2>2, <2>3 DEF Recording
  <2> QED BY <1>1, <1>2, <2>3, <2>4
<1> QED BY <1>1, <1>3, <1>5, <1>6 DEF Send, ContainsSubscriptionHandle

LEMMA SendShared ==
  ASSUME SharedInv, Send
  PROVE  SharedInv'
<1>1. /\ pc \in DOMAIN program /\ program[pc].do = "send" /\ count' \in Nat
      /\ count' = CountAfter(Op.where) /\ UNCHANGED <<program, old, counters, subs, joined, run>>
  BY SendCases
<1>2. /\ joined \subseteq CallerIds
      /\ \A o \in DOMAIN counters' : counters'[o] \in Nat
      /\ \A t \in DOMAIN subs' : subs'[t] \in DOMAIN program
  BY <1>1 DEF SharedInv, TypeOK
<1>3. CASE got' = [got EXCEPT ![pc] = Refused] /\ pc' = Len(program) + 1 /\ UNCHANGED <<stream, used>>
  <2>1. PICK v : v = Refused OBVIOUS
  <2>2. v \in Values /\ v # Nothing /\ v.type # "sent" BY <2>1, ValueFacts DEF Nothing, Refused
  <2> QED BY <1>1, <1>2, <1>3, <2>1, <2>2, SilentKeeps
<1>4. CASE \E value : Recording(value) BY <1>1, <1>2, <1>4, RecordingKeeps
<1> QED BY <1>3, <1>4, SendCases

LEMMA SubscribeShared ==
  ASSUME SharedInv, Subscribe
  PROVE  SharedInv'
<1>1. /\ pc \in DOMAIN program /\ Op = program[pc] /\ program[pc].do = "subscribe"
      /\ JournalId(Op.where, count) = IdAt(pc) /\ OwnerOf(Op.where, count) = OwnerAt(pc)
      /\ pc' = pc + 1 /\ count' = CountAfter(Op.where)
      /\ UNCHANGED <<program, old, joined, run>> /\ OwnerAt(pc) \in CallerIds
  BY AtPc, OwnIds DEF Subscribe
<1>2. /\ Journals(pc) /\ \A o \in DOMAIN counters : counters[o] \in Nat
      /\ \A t \in DOMAIN subs : subs[t] \in DOMAIN program
  BY <1>1 DEF Journals, SharedInv, TypeOK
<1>3. PICK owner \in CallerIds : owner = OwnerAt(pc) BY <1>1
<1>4. PICK n \in Nat : n = At(counters, owner) BY <1>2 DEF At
<1>5. \A o \in DOMAIN Set(counters, owner, n + 1) : Set(counters, owner, n + 1)[o] \in Nat
  BY <1>2, <1>4 DEF Set
<1>6. \A t : \A u \in DOMAIN Set(subs, t, pc) : Set(subs, t, pc)[u] \in DOMAIN program
  BY <1>1, <1>2 DEF Set
<1>7. ASSUME NEW value, Results(IdAt(pc), value), counters' \in {counters, Set(counters, owner, n + 1)},
             subs' = subs \/ \E t : subs' = Set(subs, t, pc),
             ~ Replays(IdAt(pc)) => value \in Values /\ ResultOk(pc, value)
      PROVE  SharedInv'
  <2>1. Recording(value) BY <1>1, <1>2, <1>7 DEF Recording
  <2>2. \A o \in DOMAIN counters' : counters'[o] \in Nat BY <1>2, <1>5, <1>7
  <2>3. \A t \in DOMAIN subs' : subs'[t] \in DOMAIN program BY <1>2, <1>6, <1>7
  <2> QED BY <1>1, <2>1, <2>2, <2>3, RecordingKeeps
<1>8. CASE Replays(IdAt(pc))
  <2>1. PICK value : value = StoredEntry(IdAt(pc)).result OBVIOUS
  <2>2. /\ Results(IdAt(pc), value)
        /\ counters' \in {counters, Set(counters, owner, n + 1)}
        /\ subs' = subs \/ \E t : subs' = Set(subs, t, pc)
    BY <1>1, <1>3, <1>4, <1>8, <2>1 DEF Subscribe, ReplayAdvances
  <2> QED BY <1>7, <1>8, <2>2
<1>9. CASE ~ Replays(IdAt(pc))
  <2>1. /\ counters' = Set(counters, owner, n + 1)
        /\ \/ subs' = Set(subs, Tokens(owner), pc) /\ Results(IdAt(pc), Handle(Tokens(owner)))
           \/ UNCHANGED subs /\ Results(IdAt(pc), Failed)
    BY <1>1, <1>3, <1>4, <1>9 DEF Subscribe
  <2>2. PICK token : token = <<owner, n>> OBVIOUS
  <2>3. Tokens(owner) = token BY <1>4, <2>2 DEF Tokens
  <2>4. Handle(token) \in Values /\ Handle(token).type = "handle" /\ Handle(token).token[1] = owner
    BY <2>2, ValueFacts DEF Handle
  <2>5. ResultOk(pc, Handle(token)) BY <1>1, <1>3, <2>4 DEF ResultOk
  <2>6. Failed \in Values /\ ResultOk(pc, Failed) BY <1>1, ValueFacts DEF ResultOk
  <2>7. CASE subs' = Set(subs, Tokens(owner), pc) /\ Results(IdAt(pc), Handle(Tokens(owner)))
    BY <1>7, <2>1, <2>3, <2>4, <2>5, <2>7
  <2>8. CASE UNCHANGED subs /\ Results(IdAt(pc), Failed) BY <1>7, <2>1, <2>6, <2>8
  <2> QED BY <2>1, <2>7, <2>8
<1> QED BY <1>8, <1>9

\* A handle that may be read was made by the caller or in a lane.
LEMMA ReadableShared ==
  ASSUME SharedInv, pc \in DOMAIN program, Held(pc).type = "handle",
         MayRead(OwnerAt(pc), Held(pc).token), NEW ref, ref = program[pc].ref
  PROVE  program[ref].where \notin Owned
<1>1. /\ ref \in DOMAIN program /\ ref \in 1 .. pc - 1 /\ Held(pc).token[1] = OwnerAt(ref)
      /\ program \in Seq(Operations) /\ pc \in Nat
  BY HandleFacts, JournalTypes
<1>2. SUFFICES ASSUME program[ref].where \in Owned PROVE FALSE OBVIOUS
<1>3. OwnerAt(ref) = <<Number(ref)>> /\ ref \in Allocating BY <1>1, <1>2, OwnIds
<1>4. IsPrefix(<<Number(ref)>>, OwnerAt(pc)) BY <1>1, <1>3 DEF MayRead
<1>5. Number(ref) \in Nat /\ Number(pc) \in Nat BY <1>1, NumberFacts
<1>6. CASE program[pc].where \notin Owned
  <2>1. OwnerAt(pc) = << >> BY <1>1, <1>6, OwnIds DEF Caller
  <2>2. Len(<<Number(ref)>>) = 1 /\ Len(OwnerAt(pc)) = 0 BY <2>1
  <2> QED BY <1>4, <2>2 DEF IsPrefix
<1>7. CASE program[pc].where \in Owned
  <2>1. OwnerAt(pc) = <<Number(pc)>> /\ pc \in Allocating BY <1>1, <1>7, OwnIds
  <2>2. \A x, y \in Nat : IsPrefix(<<x>>, <<y>>) => x = y
    <3> TAKE x \in Nat, y \in Nat
    <3>0. <<x>> \in Seq(Nat) /\ <<y>> \in Seq(Nat) OBVIOUS
    <3>1. PICK s \in Seq(Nat) : s = <<x>> BY <3>0
    <3>2. PICK t \in Seq(Nat) : t = <<y>> BY <3>0
    <3>3. Len(s) = 1 /\ s[1] = x /\ t[1] = y /\ Len(t) = 1 BY <3>1, <3>2
    <3>4. SubSeq(s, 1, 1)[1] = s[1] /\ SubSeq(t, 1, 1)[1] = t[1] BY <3>3
    <3> QED BY <3>1, <3>2, <3>3, <3>4 DEF IsPrefix
  <2>3. Number(ref) = Number(pc) BY <1>4, <1>5, <2>1, <2>2
  <2>4. ref = pc BY <1>1, <1>3, <2>1, <2>3, NumberFacts
  <2> QED BY <1>1, <2>4
<1> QED BY <1>6, <1>7

LEMMA TakeNextRecords ==
  ASSUME SharedInv, TakeNext, NEW held, held = Held(pc), NEW value,
         value = IF held.type = "handle" /\ MayRead(OwnerAt(pc), held.token) /\ held.token \in DOMAIN subs
                 THEN Item(subs[held.token]) ELSE Failed
  PROVE  Recording(value) /\ program[pc].do = "next" /\ UNCHANGED <<counters, subs>>
<1>1. /\ pc \in DOMAIN program /\ Op = program[pc] /\ program[pc].do = "next"
      /\ JournalId(Op.where, count) = IdAt(pc) /\ OwnerOf(Op.where, count) = OwnerAt(pc)
      /\ pc' = pc + 1 /\ UNCHANGED <<program, old, counters, subs>>
  BY AtPc DEF TakeNext
<1>2. Journals(pc) /\ \A t \in DOMAIN subs : subs[t] \in Nat
  BY <1>1, JournalTypes DEF Journals, SharedInv, TypeOK
<1>3. Results(IdAt(pc), value) BY <1>1 DEF TakeNext
<1>4. value \in Values /\ ResultOk(pc, value)
  <2>1. CASE held.type = "handle" /\ MayRead(OwnerAt(pc), held.token) /\ held.token \in DOMAIN subs
    <3>1. value = Item(subs[held.token]) /\ subs[held.token] \in Nat BY <1>2, <2>1
    <3>2. value \in Values /\ value.type = "item" BY <3>1, ValueFacts DEF Item
    <3>3. program[pc].ref \in 1 .. pc - 1 BY <1>1, <2>1, HandleFacts
    <3>4. program[program[pc].ref].where \notin Owned BY <1>1, <2>1, ReadableShared
    <3> QED BY <1>1, <3>2, <3>3, <3>4 DEF ResultOk
  <2>2. CASE value = Failed BY <1>1, <2>2, ValueFacts DEF ResultOk
  <2> QED BY <2>1, <2>2
<1> QED BY <1>1, <1>2, <1>3, <1>4 DEF Recording

LEMMA TakeNextShared ==
  ASSUME SharedInv, TakeNext
  PROVE  SharedInv'
<1>1. PICK held : held = Held(pc) OBVIOUS
<1>2. PICK value : value = IF held.type = "handle" /\ MayRead(OwnerAt(pc), held.token)
                              /\ held.token \in DOMAIN subs
                           THEN Item(subs[held.token]) ELSE Failed
  OBVIOUS
<1>3. Recording(value) /\ UNCHANGED <<counters, subs>> BY <1>1, <1>2, TakeNextRecords
<1>4. count' = CountAfter(Op.where) /\ UNCHANGED <<run, joined>> BY DEF TakeNext
<1>5. /\ \A o \in DOMAIN counters' : counters'[o] \in Nat
      /\ \A t \in DOMAIN subs' : subs'[t] \in DOMAIN program
  BY <1>3 DEF SharedInv, TypeOK
<1> QED BY <1>3, <1>4, <1>5, RecordingKeeps

\* A run begins with nothing but the journal.
LEMMA InitShared ==
  ASSUME Init
  PROVE  SharedInv
<1>1. /\ program \in Seq(Operations) /\ stream = << >> /\ old = 0 /\ run = 1
      /\ pc = 1 /\ count = 0 /\ used = << >> /\ counters = << >> /\ subs = << >>
      /\ got = [i \in DOMAIN program |-> Nothing] /\ joined = {}
  BY LaneBounds DEF Init, Fresh
<1>2. /\ Len(stream) = 0 /\ DOMAIN used = {} /\ DOMAIN counters = {} /\ DOMAIN subs = {}
      /\ Len(program) \in Nat /\ DOMAIN program = 1 .. Len(program) /\ stream \in Seq(Entries)
  BY <1>1
<1>3. \A k \in DOMAIN program : got[k] = Nothing /\ ~ Performed(k) /\ k >= pc BY <1>1, <1>2 DEF Performed
<1>4. TypeOK
  <2>1. got \in [DOMAIN program -> Values] BY <1>1, ValueFacts
  <2> QED BY <1>1, <1>2, <2>1 DEF TypeOK
<1>5. WayInv
  <2>1. Number(1) = 0 /\ Before(OfCaller, 1) = 0 BY <1>1, NumberFacts
  <2>2. At(used, Caller) = 0 BY <1>2 DEF At
  <2> QED BY <1>1, <1>2, <2>1, <2>2 DEF WayInv
<1>6. JournalInv /\ ResultInv /\ SentInv BY <1>1, <1>2 DEF JournalInv, ResultInv, SentInv
<1>7. JoinedOnce /\ HandlesStayHere BY <1>1 DEF JoinedOnce, HandlesStayHere, Nothing
<1>8. MemoryInv BY <1>2, <1>3, <1>7 DEF MemoryInv, Nothing, Refused
<1> QED BY <1>4, <1>5, <1>6, <1>8 DEF SharedInv

LEMMA ExecuteShared ==
  ASSUME SharedInv, Execute
  PROVE  SharedInv'
<1>1. /\ program \in Seq(Operations) /\ program' = program /\ stream' = stream /\ old' = Len(stream)
      /\ pc' = 1 /\ count' = 0 /\ used' = << >> /\ counters' = << >> /\ subs' = << >>
      /\ got' = [i \in DOMAIN program |-> Nothing] /\ joined' = {} /\ run' = run + 1 /\ run \in Nat
  BY DEF Execute, SharedInv, TypeOK
<1>2. /\ DOMAIN used' = {} /\ DOMAIN counters' = {} /\ DOMAIN subs' = {} /\ Len(stream) \in Nat
      /\ Len(program) \in Nat /\ DOMAIN program = 1 .. Len(program) /\ stream \in Seq(Entries)
  BY <1>1, JournalTypes
<1>3. \A k \in DOMAIN program : got'[k] = Nothing /\ ~ Performed(k)' /\ k >= pc'
  <2>1. \A k \in DOMAIN program : got'[k] = Nothing /\ k >= pc' BY <1>1, <1>2
  <2> QED BY <2>1 DEF Performed, Nothing
<1>4. TypeOK'
  <2>1. got' \in [DOMAIN program' -> Values] BY <1>1, ValueFacts
  <2> QED BY <1>1, <1>2, <2>1 DEF TypeOK
<1>5. WayInv'
  <2>1. Number(1) = 0 /\ Before(OfCaller, 1) = 0 BY <1>1, NumberFacts
  <2>2. PICK k : k = pc' OBVIOUS
  <2>3. Number(k)' = Number(k) /\ OfCaller' = OfCaller BY <1>1, SameProgram
  <2>4. Before(OfCaller, k)' = Before(OfCaller, k) BY <2>3 DEF Before
  <2>5. Number(pc)' = 0 /\ Before(OfCaller, pc)' = 0 BY <1>1, <2>1, <2>2, <2>3, <2>4
  <2>6. At(used, Caller)' = 0 BY <1>2 DEF At
  <2> QED BY <1>1, <1>2, <2>5, <2>6 DEF WayInv
<1>6. JournalInv' /\ ResultInv' /\ SentInv'
  <2>1. /\ JournalInv /\ ResultInv /\ SentInv BY DEF SharedInv
  <2>2. \A m \in 1 .. Len(stream) : \A k : k = stream[m].op =>
          /\ k \in DOMAIN program /\ Journals(k)
          /\ stream[m].id = IdAt(k) /\ stream[m].n = PlaceAt(k)
          /\ \A j \in DOMAIN program : j < k /\ Journals(j) => \E l \in 1 .. m - 1 : stream[l].op = j
          /\ \A l \in 1 .. m - 1 : stream[l].op < k
          /\ \A n \in 1 .. stream[m].n - 1 :
               \E l \in 1 .. m - 1 : stream[l].id = stream[m].id /\ stream[l].n = n
    BY <2>1 DEF JournalInv
  <2>3. JournalInv'
    <3>1. \A m \in old' + 1 .. Len(stream') : stream'[m].op < pc' BY <1>1, <1>2
    <3>2. \A k : (Journals(k)' <=> Journals(k)) /\ IdAt(k)' = IdAt(k) /\ PlaceAt(k)' = PlaceAt(k)
      BY <1>1, SameProgram
    <3>3. stream' = stream /\ program' = program BY <1>1
    <3> QED BY <2>2, <3>1, <3>2, <3>3 DEF JournalInv
  <2>4. ResultInv'
    <3>1. \A m \in 1 .. Len(stream) : \A k, r : k = stream[m].op /\ r = stream[m].result => ResultOk(k, r)'
      BY <1>1, <2>1, SameProgram DEF ResultInv
    <3> QED BY <1>1, <3>1 DEF ResultInv
  <2>5. SentInv' BY <1>1, <2>1, SameSent
  <2> QED BY <2>3, <2>4, <2>5
<1>7. JoinedOnce' /\ HandlesStayHere' BY <1>1 DEF JoinedOnce, HandlesStayHere, Nothing
<1>8. Nothing' = Nothing /\ Refused' = Refused /\ Nothing # Refused BY DEF Nothing, Refused
<1>9. MemoryInv' BY <1>1, <1>2, <1>3, <1>7, <1>8 DEF MemoryInv
<1> QED BY <1>4, <1>5, <1>6, <1>9 DEF SharedInv

LEMMA SharedKept ==
  ASSUME SharedInv, [Next]_vars
  PROVE  SharedInv'
<1>1. CASE Subscribe BY <1>1, SubscribeShared
<1>2. CASE TakeNext BY <1>2, TakeNextShared
<1>3. CASE Spawn BY <1>3, SpawnShared
<1>4. CASE Join BY <1>4, JoinShared
<1>5. CASE Send BY <1>5, SendShared
<1>6. CASE Execute BY <1>6, ExecuteShared
<1>7. CASE UNCHANGED vars
  <2>1. /\ UNCHANGED <<program, stream, old, pc, count, used, counters, subs, got, joined, run>>
    BY <1>7 DEF vars
  <2>2. TypeOK' BY <2>1 DEF SharedInv, TypeOK
  <2>3. WayInv'
    <3>1. PICK k : k = pc OBVIOUS
    <3>2. /\ Number(k)' = Number(k) /\ OfCaller' = OfCaller /\ Allocating' = Allocating
          /\ \A i : IdAt(i)' = IdAt(i)
      BY <2>1, SameProgram
    <3>3. Before(OfCaller, k)' = Before(OfCaller, k) BY <3>2 DEF Before
    <3>4. /\ pc \in DOMAIN program => count = Number(k) /\ At(used, Caller) = Before(OfCaller, k)
          /\ \A id \in DOMAIN used \ {Caller} :
               \E i \in DOMAIN program : i < pc /\ i \in Allocating /\ id = IdAt(i)
          /\ \A id \in DOMAIN used : \A n \in 1 .. used[id] :
               \E m \in 1 .. Len(stream) : stream[m].id = id /\ stream[m].n = n
      BY <3>1 DEF SharedInv, WayInv
    <3>5. At(used, Caller)' = At(used, Caller) BY <2>1 DEF At
    <3>6. Number(pc)' = Number(k) /\ Before(OfCaller, pc)' = Before(OfCaller, k)
      BY <2>1, <3>1, <3>2, <3>3
    <3>7. pc' \in DOMAIN program' => count' = Number(pc)' /\ At(used, Caller)' = Before(OfCaller, pc)'
      BY <2>1, <3>4, <3>5, <3>6
    <3>8. \A id \in DOMAIN used' \ {Caller} :
            \E i \in DOMAIN program' : i < pc' /\ i \in Allocating' /\ id = IdAt(i)'
      BY <2>1, <3>2, <3>4
    <3>9. \A id \in DOMAIN used' : \A n \in 1 .. used'[id] :
            \E m \in 1 .. Len(stream') : stream'[m].id = id /\ stream'[m].n = n
      BY <2>1, <3>4
    <3> QED BY <3>7, <3>8, <3>9 DEF WayInv
  <2>4. JournalInv' BY <2>1, SameProgram DEF SharedInv, JournalInv
  <2>5. ResultInv' /\ SentInv'
    <3>1. \A m \in 1 .. Len(stream) : \A k, r : k = stream[m].op /\ r = stream[m].result => ResultOk(k, r)'
      BY <2>1, SameProgram DEF SharedInv, ResultInv
    <3>2. ResultInv' BY <2>1, <3>1 DEF ResultInv
    <3>3. SentInv' BY <2>1, SameSent DEF SharedInv
    <3> QED BY <3>2, <3>3
  <2>6. MemoryInv'
    <3>1. \A k : /\ (Performed(k)' <=> Performed(k)) /\ (Journals(k)' <=> Journals(k))
                 /\ TaskHandle(TaskAt(k))' = TaskHandle(TaskAt(k))
      BY <2>1, SameProgram DEF Performed, TaskHandle
    <3>2. (JoinedOnce /\ HandlesStayHere)'
      BY <2>1 DEF SharedInv, MemoryInv, JoinedOnce, HandlesStayHere, Held, Kept
    <3>3. Nothing' = Nothing /\ Refused' = Refused BY DEF Nothing, Refused
    <3> QED BY <2>1, <3>1, <3>2, <3>3 DEF SharedInv, MemoryInv
  <2> QED BY <2>2, <2>3, <2>4, <2>5, <2>6 DEF SharedInv
<1> QED BY <1>1, <1>2, <1>3, <1>4, <1>5, <1>6, <1>7 DEF Next

-----------------------------------------------------------------------------
(* Tokens *)

\* A token is of one subscription.
LEMMA TokenFacts ==
  ASSUME program \in Seq(Operations)
  PROVE  /\ \A o : Before(SubscribedBy(o), 1) = 0
         /\ \A o : \A k \in Nat :
              /\ Before(SubscribedBy(o), k) \in Nat
              /\ Before(SubscribedBy(o), k + 1) =
                   IF k \in SubscribedBy(o) THEN Before(SubscribedBy(o), k) + 1 ELSE Before(SubscribedBy(o), k)
         /\ \A j, k \in DOMAIN program :
              program[j].do = "subscribe" /\ program[k].do = "subscribe" /\ TokenAt(j) = TokenAt(k) => j = k
<1>1. \A o : SubscribedBy(o) \in SUBSET (1 .. Len(program)) BY ProgramFacts
<1>2. Len(program) \in Nat BY ProgramFacts
<1>3. ASSUME NEW o
      PROVE  /\ Before(SubscribedBy(o), 1) = 0
             /\ \A k \in Nat :
                  /\ Before(SubscribedBy(o), k) \in Nat
                  /\ Before(SubscribedBy(o), k + 1) =
                       IF k \in SubscribedBy(o) THEN Before(SubscribedBy(o), k) + 1
                                                ELSE Before(SubscribedBy(o), k)
             /\ \A j, k \in SubscribedBy(o) : Before(SubscribedBy(o), j) = Before(SubscribedBy(o), k) => j = k
  <2>1. PICK S \in SUBSET (1 .. Len(program)) : S = SubscribedBy(o) BY <1>1
  <2>2. /\ Before(S, 1) = 0
        /\ \A k \in Nat : /\ Before(S, k) \in Nat
                          /\ Before(S, k + 1) = IF k \in S THEN Before(S, k) + 1 ELSE Before(S, k)
        /\ \A j, k \in S : Before(S, j) = Before(S, k) => j = k
    BY <1>2, BeforeFacts
  <2> QED BY <2>1, <2>2
<1>4. ASSUME NEW j \in DOMAIN program, NEW k \in DOMAIN program,
             program[j].do = "subscribe", program[k].do = "subscribe", TokenAt(j) = TokenAt(k)
      PROVE  j = k
  <2>1. PICK o : o = OwnerAt(j) OBVIOUS
  <2>2. OwnerAt(k) = o /\ Before(SubscribedBy(o), j) = Before(SubscribedBy(OwnerAt(k)), k)
    BY <1>4, <2>1 DEF TokenAt
  <2>3. j \in SubscribedBy(o) /\ k \in SubscribedBy(o) BY <1>4, <2>1, <2>2 DEF SubscribedBy
  <2> QED BY <1>3, <2>2, <2>3
<1> QED BY <1>3, <1>4

\* A step that subscribes takes the next token of its owner, others take none.
LEMMA TokenStep ==
  ASSUME SharedInv, TokenInv, pc \in DOMAIN program, Grows, NEW v, got' = [got EXCEPT ![pc] = v],
         pc' = Len(program) + 1 \/ pc' = pc + 1,
         \A m \in 1 .. Len(stream') :
           m \in 1 .. Len(stream) \/ (stream'[m].op = pc /\ TokenOk(pc, stream'[m].result)),
         IF program[pc].do = "subscribe"
           THEN /\ counters' = Set(counters, OwnerAt(pc), At(counters, OwnerAt(pc)) + 1)
                /\ subs' = Set(subs, TokenAt(pc), pc)
           ELSE UNCHANGED <<counters, subs>>
  PROVE  TokenInv'
<1>1. /\ program \in Seq(Operations) /\ program' = program /\ pc \in Nat \ {0} /\ Len(program) \in Nat
      /\ DOMAIN program = 1 .. Len(program) /\ got \in [DOMAIN program -> Values]
      /\ \A m \in 1 .. Len(stream) : stream'[m] = stream[m]
  BY JournalTypes, AtPc DEF Grows, SharedInv, TypeOK
<1>2. ASSUME pc' = pc + 1, NEW k \in DOMAIN program
      PROVE  At(counters', OwnerAt(k)) = Before(SubscribedBy(OwnerAt(k)), pc + 1)
  <2>1. PICK o : o = OwnerAt(k) OBVIOUS
  <2>2. PICK p \in Nat : p = pc BY <1>1
  <2>3. At(counters, o) = Before(SubscribedBy(o), p) BY <2>1, <2>2 DEF TokenInv
  <2>4. Before(SubscribedBy(o), p + 1) =
          IF p \in SubscribedBy(o) THEN Before(SubscribedBy(o), p) + 1 ELSE Before(SubscribedBy(o), p)
    BY <1>1, TokenFacts
  <2>5. p \in SubscribedBy(o) <=> program[pc].do = "subscribe" /\ OwnerAt(pc) = o
    BY <1>1, <2>2 DEF SubscribedBy
  <2>6. CASE program[pc].do = "subscribe"
    <3>1. PICK q : q = OwnerAt(pc) OBVIOUS
    <3>2. counters' = Set(counters, q, At(counters, q) + 1) BY <2>6, <3>1
    <3>3. At(counters', o) = IF o = q THEN At(counters, q) + 1 ELSE At(counters, o)
      BY <3>2 DEF Set, At
    <3> QED BY <2>1, <2>2, <2>3, <2>4, <2>5, <2>6, <3>1, <3>3
  <2>7. CASE program[pc].do # "subscribe"
    <3>1. At(counters', o) = At(counters, o) BY <2>7 DEF At
    <3> QED BY <2>1, <2>2, <2>3, <2>4, <2>5, <2>7, <3>1
  <2> QED BY <2>6, <2>7
<1>3. pc' \in DOMAIN program => \A k \in DOMAIN program :
        At(counters, OwnerAt(k))' = Before(SubscribedBy(OwnerAt(k)), pc)'
  <2>1. SUFFICES ASSUME pc' \in DOMAIN program, NEW k \in DOMAIN program
                 PROVE  At(counters, OwnerAt(k))' = Before(SubscribedBy(OwnerAt(k)), pc)'
    OBVIOUS
  <2>2. pc' = pc + 1 BY <1>1, <2>1
  <2>3. PICK o : o = OwnerAt(k) OBVIOUS
  <2>4. OwnerAt(k)' = o /\ SubscribedBy(o)' = SubscribedBy(o) BY <1>1, <2>3, SameProgram
  <2>5. At(counters, OwnerAt(k))' = At(counters', o) BY <2>4 DEF At
  <2>6. SubscribedBy(OwnerAt(k))' = SubscribedBy(o) BY <2>3, <2>4, <1>1 DEF SubscribedBy
  <2>7. Before(SubscribedBy(OwnerAt(k)), pc)' = Before(SubscribedBy(o), pc + 1)
    BY <2>2, <2>6 DEF Before
  <2> QED BY <1>2, <2>2, <2>3, <2>5, <2>7
<1>4. \A m \in 1 .. Len(stream') : TokenOk(stream'[m].op, stream'[m].result) BY <1>1 DEF TokenInv
<1>5. \A m \in 1 .. Len(stream') : TokenOk(stream[m].op, stream[m].result)'
  <2>1. \A m \in 1 .. Len(stream') : \A k, r : k = stream'[m].op /\ r = stream'[m].result => TokenOk(k, r)'
    BY <1>1, <1>4, SameProgram
  <2> QED BY <2>1
<1>6. ASSUME NEW k \in DOMAIN program, program[k].do = "subscribe", Performed(k)'
      PROVE  TokenAt(k) \in DOMAIN subs' /\ subs'[TokenAt(k)] = k
  <2>1. PICK t : t = TokenAt(k) OBVIOUS
  <2>2. CASE k = pc
    <3>1. subs' = Set(subs, t, pc) BY <1>6, <2>1, <2>2
    <3> QED BY <2>1, <2>2, <3>1 DEF Set
  <2>3. CASE k # pc
    <3>1. got'[k] = got[k] BY <1>1, <2>3
    <3>2. t \in DOMAIN subs /\ subs[t] = k BY <1>6, <2>1, <3>1 DEF TokenInv, Performed
    <3>3. CASE program[pc].do = "subscribe"
      <4>1. PICK u : u = TokenAt(pc) OBVIOUS
      <4>2. u # t BY <1>1, <1>6, <2>1, <2>3, <3>3, <4>1, TokenFacts
      <4>3. subs' = Set(subs, u, pc) BY <3>3, <4>1
      <4> QED BY <2>1, <3>2, <4>2, <4>3 DEF Set
    <3>4. CASE program[pc].do # "subscribe" BY <2>1, <3>2, <3>4
    <3> QED BY <3>3, <3>4
  <2> QED BY <2>2, <2>3
<1>7. \A k \in DOMAIN program : program[k].do = "subscribe" /\ Performed(k)' =>
        TokenAt(k)' \in DOMAIN subs' /\ subs'[TokenAt(k)'] = k
  BY <1>1, <1>6, SameProgram
<1> QED BY <1>1, <1>3, <1>5, <1>7 DEF TokenInv

LEMMA RecordingTokens ==
  ASSUME SharedInv, TokenInv, NEW value, Recording(value), ~ Replays(IdAt(pc)) => TokenOk(pc, value),
         IF program[pc].do = "subscribe"
           THEN /\ counters' = Set(counters, OwnerAt(pc), At(counters, OwnerAt(pc)) + 1)
                /\ subs' = Set(subs, TokenAt(pc), pc)
           ELSE UNCHANGED <<counters, subs>>
  PROVE  TokenInv'
<1>1. pc \in DOMAIN program /\ Grows /\ pc' = pc + 1 BY RecordingCases DEF Recording
<1>2. PICK v : got' = [got EXCEPT ![pc] = v] BY RecordingResult
<1>3. \A m \in 1 .. Len(stream') :
        m \in 1 .. Len(stream) \/ (stream'[m].op = pc /\ TokenOk(pc, stream'[m].result))
  <2>1. CASE stream' = stream BY <2>1
  <2>2. CASE /\ ~ Replays(IdAt(pc)) /\ Len(stream') = Len(stream) + 1
             /\ stream'[Len(stream) + 1] = Entry(value)
    <3>1. Entry(value).op = pc /\ Entry(value).result = value BY DEF Entry
    <3>2. \A m \in 1 .. Len(stream') : m \in 1 .. Len(stream) \/ m = Len(stream) + 1
      BY <2>2, JournalTypes
    <3> QED BY <2>2, <3>1, <3>2
  <2> QED BY <2>1, <2>2, RecordingCases
<1> QED BY <1>1, <1>2, <1>3, TokenStep

\* A step that journals nothing takes no token.
LEMMA SilentTokens ==
  ASSUME SharedInv, TokenInv, pc \in DOMAIN program, program[pc].do # "subscribe",
         UNCHANGED <<program, stream, counters, subs>>, NEW v, got' = [got EXCEPT ![pc] = v],
         pc' = Len(program) + 1 \/ pc' = pc + 1
  PROVE  TokenInv'
<1>1. Grows BY JournalTypes DEF Grows
<1>2. \A m \in 1 .. Len(stream') : m \in 1 .. Len(stream) OBVIOUS
<1> QED BY <1>1, <1>2, TokenStep

LEMMA SubscribeTokens ==
  ASSUME SharedInv, TokenInv, ~ FailingSources, Subscribe
  PROVE  TokenInv'
<1>1. /\ pc \in DOMAIN program /\ Op = program[pc] /\ program[pc].do = "subscribe"
      /\ JournalId(Op.where, count) = IdAt(pc) /\ OwnerOf(Op.where, count) = OwnerAt(pc)
      /\ pc' = pc + 1 /\ UNCHANGED <<program, old>> /\ OwnerAt(pc) \in CallerIds
  BY AtPc, OwnIds DEF Subscribe
<1>2. Journals(pc) BY <1>1 DEF Journals
<1>3. PICK owner \in CallerIds : owner = OwnerAt(pc) BY <1>1
<1>4. PICK token : token = TokenAt(pc) OBVIOUS
<1>5. Tokens(owner) = token BY <1>1, <1>3, <1>4 DEF Tokens, TokenAt, TokenInv
<1>6. Handle(token).type = "handle" /\ Handle(token).token = token BY DEF Handle
<1>7. CASE Replays(IdAt(pc))
  <2>1. PICK m \in 1 .. Len(stream) : StoredEntry(IdAt(pc)) = stream[m] /\ stream[m].op = pc
    BY <1>1, <1>2, <1>7, StoredFacts
  <2>2. PICK value : value = stream[m].result OBVIOUS
  <2>3. TokenOk(pc, value) BY <2>1, <2>2 DEF TokenInv
  <2>4. value.type = "handle" /\ value.token = token BY <1>1, <1>4, <1>6, <2>3 DEF TokenOk
  <2>5. /\ subs' = Set(subs, value.token, pc) /\ counters' = Set(counters, owner, At(counters, owner) + 1)
        /\ Results(IdAt(pc), value)
    BY <1>1, <1>3, <1>7, <2>1, <2>2, <2>4 DEF Subscribe, ReplayAdvances
  <2>6. Recording(value) BY <1>1, <1>2, <1>7, <2>5 DEF Recording
  <2> QED BY <1>1, <1>3, <1>4, <1>7, <2>4, <2>5, <2>6, RecordingTokens
<1>8. CASE ~ Replays(IdAt(pc))
  <2>1. /\ counters' = Set(counters, owner, At(counters, owner) + 1)
        /\ subs' = Set(subs, token, pc) /\ Results(IdAt(pc), Handle(token))
    BY <1>1, <1>3, <1>5, <1>8 DEF Subscribe
  <2>2. Handle(token) \in Values /\ token[1] = owner
    <3>1. At(counters, owner) \in Nat BY DEF SharedInv, TypeOK, At
    <3>2. token = <<owner, At(counters, owner)>> BY <1>5 DEF Tokens
    <3> QED BY <3>1, <3>2, ValueFacts
  <2>3. PICK value : value = Handle(token) OBVIOUS
  <2>4. ResultOk(pc, value) BY <1>1, <1>3, <1>6, <2>2, <2>3 DEF ResultOk
  <2>5. TokenOk(pc, value) BY <1>1, <1>4, <2>3 DEF TokenOk
  <2>6. Recording(value) BY <1>1, <1>2, <2>1, <2>2, <2>3, <2>4 DEF Recording
  <2> QED BY <1>1, <1>3, <1>4, <2>1, <2>5, <2>6, RecordingTokens
<1> QED BY <1>7, <1>8

\* A subscription that was made is known by its token.
LEMMA SubscribedFacts ==
  ASSUME SharedInv, TokenInv, NEW k \in DOMAIN program, program[k].do = "subscribe", Performed(k)
  PROVE  got[k] = Handle(TokenAt(k)) /\ TokenAt(k) \in DOMAIN subs /\ subs[TokenAt(k)] = k
<1>1. Journals(k) BY DEF Journals
<1>2. PICK m \in 1 .. Len(stream) : stream[m].op = k /\ stream[m].result = got[k]
  BY <1>1 DEF SharedInv, MemoryInv
<1>3. TokenOk(k, got[k]) BY <1>2 DEF TokenInv
<1> QED BY <1>3 DEF TokenOk, TokenInv

\* What a next operation finds: the source of its own subscription, when the
\* caller's lanes share it.
LEMMA ItemFacts ==
  ASSUME SharedInv, TokenInv, pc \in DOMAIN program, program[pc].do = "next", NEW held, held = Held(pc)
  PROVE  /\ held.type = "handle" => subs[held.token] = program[pc].ref
         /\ SharedSource(pc) => held.type = "handle" /\ held.token \in DOMAIN subs
                                /\ MayRead(OwnerAt(pc), held.token)
<1>1. PICK ref : ref = program[pc].ref OBVIOUS
<1>2. ASSUME held.type = "handle" PROVE subs[held.token] = ref
  <2>1. ref \in DOMAIN program /\ program[ref].do = "subscribe" /\ Performed(ref) /\ held = got[ref]
    BY <1>1, <1>2, HandleFacts
  <2>2. got[ref] = Handle(TokenAt(ref)) /\ subs[TokenAt(ref)] = ref BY <2>1, SubscribedFacts
  <2> QED BY <2>1, <2>2 DEF Handle
<1>3. ASSUME SharedSource(pc)
      PROVE  held.type = "handle" /\ held.token \in DOMAIN subs /\ MayRead(OwnerAt(pc), held.token)
  <2>1. ref \in 1 .. pc - 1 /\ program[ref].do = "subscribe" /\ program[ref].where \notin Owned
    BY <1>1, <1>3 DEF SharedSource
  <2>2. ref \in DOMAIN program /\ Performed(ref) /\ held = Kept(program[ref].where, got[ref])
    BY <1>1, <2>1, HeldFacts
  <2>3. /\ got[ref] = Handle(TokenAt(ref)) /\ TokenAt(ref) \in DOMAIN subs
    BY <2>1, <2>2, SubscribedFacts
  <2>4. held = got[ref] BY <2>1, <2>2 DEF Kept, Owned
  <2>5. held.type = "handle" /\ held.token = TokenAt(ref) BY <2>3, <2>4 DEF Handle
  <2>6. /\ OwnerAt(ref) = << >> /\ OwnerAt(pc) \in Seq(Nat)
    BY <2>1, <2>2, OwnIds DEF SharedInv, TypeOK, Caller, CallerIds
  <2>7. held.token[1] = << >> BY <2>5, <2>6 DEF TokenAt
  <2>8. \A s \in Seq(Nat) : IsPrefix(<< >>, s)
    <3> TAKE s \in Seq(Nat)
    <3>1. << >> \in Seq(Nat) /\ Len(<< >>) = 0 /\ Len(s) \in Nat OBVIOUS
    <3>2. SubSeq(<< >>, 1, 0) = << >> /\ SubSeq(s, 1, 0) = << >> OBVIOUS
    <3> QED BY <3>1, <3>2 DEF IsPrefix
  <2> QED BY <2>3, <2>5, <2>6, <2>7, <2>8 DEF MayRead
<1> QED BY <1>1, <1>2, <1>3

LEMMA TakeNextTokens ==
  ASSUME SharedInv, TokenInv, TakeNext
  PROVE  TokenInv'
<1>1. PICK held : held = Held(pc) OBVIOUS
<1>2. PICK value : value = IF held.type = "handle" /\ MayRead(OwnerAt(pc), held.token)
                              /\ held.token \in DOMAIN subs
                           THEN Item(subs[held.token]) ELSE Failed
  OBVIOUS
<1>3. Recording(value) /\ program[pc].do = "next" /\ UNCHANGED <<counters, subs>>
  BY <1>1, <1>2, TakeNextRecords
<1>4. TokenOk(pc, value)
  <2>1. /\ held.type = "handle" => subs[held.token] = program[pc].ref
        /\ SharedSource(pc) => held.type = "handle" /\ held.token \in DOMAIN subs
                               /\ MayRead(OwnerAt(pc), held.token)
    BY <1>1, <1>3, ItemFacts DEF Recording
  <2>2. CASE held.type = "handle" /\ MayRead(OwnerAt(pc), held.token) /\ held.token \in DOMAIN subs
    BY <1>2, <1>3, <2>1, <2>2 DEF TokenOk, Item
  <2>3. CASE value = Failed /\ ~ SharedSource(pc) BY <1>3, <2>3 DEF TokenOk, Failed
  <2> QED BY <1>2, <2>1, <2>2, <2>3
<1> QED BY <1>3, <1>4, RecordingTokens

LEMMA SendTokens ==
  ASSUME SharedInv, TokenInv, Send
  PROVE  TokenInv'
<1>1. /\ pc \in DOMAIN program /\ program[pc].do # "subscribe" /\ UNCHANGED <<program, counters, subs>>
  BY SendCases
<1>2. CASE got' = [got EXCEPT ![pc] = Refused] /\ pc' = Len(program) + 1 /\ UNCHANGED <<stream, used>>
  <2>1. PICK v : got' = [got EXCEPT ![pc] = v] BY <1>2
  <2> QED BY <1>1, <1>2, <2>1, SilentTokens
<1>3. CASE \E value : Recording(value) /\ TokenOk(pc, value)
  BY <1>1, <1>3, RecordingTokens
<1> QED BY <1>2, <1>3, SendCases

LEMMA SpawnJoinTokens ==
  ASSUME SharedInv, TokenInv, Spawn \/ Join
  PROVE  TokenInv'
<1>1. /\ pc \in DOMAIN program /\ program[pc].do # "subscribe" /\ UNCHANGED <<program, stream, counters, subs>>
      /\ pc' = Len(program) + 1 \/ pc' = pc + 1
  BY DEF Spawn, Join, Op
<1>2. PICK v : got' = [got EXCEPT ![pc] = v] BY DEF Spawn, Join
<1> QED BY <1>1, <1>2, SilentTokens

LEMMA ExecuteTokens ==
  ASSUME SharedInv, TokenInv, Execute
  PROVE  TokenInv'
<1>1. /\ program \in Seq(Operations) /\ program' = program /\ stream' = stream
      /\ pc' = 1 /\ counters' = << >> /\ got' = [i \in DOMAIN program |-> Nothing]
  BY DEF Execute, SharedInv, TypeOK
<1>2. \A k \in DOMAIN program : At(counters, OwnerAt(k))' = Before(SubscribedBy(OwnerAt(k)), pc)'
  <2> TAKE k \in DOMAIN program
  <2>1. At(counters, OwnerAt(k))' = 0 BY <1>1 DEF At
  <2>2. PICK o : o = OwnerAt(k) OBVIOUS
  <2>3. Before(SubscribedBy(o), 1) = 0 BY <1>1, TokenFacts
  <2>4. SubscribedBy(OwnerAt(k))' = SubscribedBy(o) BY <1>1, <2>2, SameProgram DEF SubscribedBy
  <2>5. Before(SubscribedBy(OwnerAt(k)), pc)' = Before(SubscribedBy(o), 1) BY <1>1, <2>4 DEF Before
  <2> QED BY <2>1, <2>3, <2>5
<1>3. \A m \in 1 .. Len(stream) : TokenOk(stream[m].op, stream[m].result)'
  <2>1. \A m \in 1 .. Len(stream) : \A k, r : k = stream[m].op /\ r = stream[m].result => TokenOk(k, r)'
    BY <1>1, SameProgram DEF TokenInv
  <2> QED BY <1>1, <2>1
<1>4. \A k \in DOMAIN program : ~ Performed(k)' BY <1>1 DEF Performed, Nothing
<1> QED BY <1>1, <1>2, <1>3, <1>4 DEF TokenInv

LEMMA InitTokens ==
  ASSUME Init
  PROVE  TokenInv
<1>1. /\ program \in Seq(Operations) /\ stream = << >> /\ pc = 1 /\ counters = << >>
      /\ got = [i \in DOMAIN program |-> Nothing]
  BY LaneBounds DEF Init, Fresh
<1>2. \A k \in DOMAIN program : At(counters, OwnerAt(k)) = Before(SubscribedBy(OwnerAt(k)), pc)
  BY <1>1, TokenFacts DEF At
<1>3. \A k \in DOMAIN program : ~ Performed(k) BY <1>1 DEF Performed
<1> QED BY <1>1, <1>2, <1>3 DEF TokenInv

LEMMA TokensKept ==
  ASSUME SharedInv, TokenInv, ~ FailingSources, [Next]_vars
  PROVE  TokenInv'
<1>1. CASE Subscribe BY <1>1, SubscribeTokens
<1>2. CASE TakeNext BY <1>2, TakeNextTokens
<1>3. CASE Spawn \/ Join BY <1>3, SpawnJoinTokens
<1>4. CASE Send BY <1>4, SendTokens
<1>5. CASE Execute BY <1>5, ExecuteTokens
<1>6. CASE UNCHANGED vars
  <2>1. UNCHANGED <<program, stream, pc, counters, subs, got>> BY <1>6 DEF vars
  <2>2. \A k \in DOMAIN program : (At(counters, OwnerAt(k)) = Before(SubscribedBy(OwnerAt(k)), pc))' <=>
          At(counters, OwnerAt(k)) = Before(SubscribedBy(OwnerAt(k)), pc)
    <3> TAKE k \in DOMAIN program
    <3>1. PICK o : o = OwnerAt(k) OBVIOUS
    <3>2. OwnerAt(k)' = o /\ SubscribedBy(OwnerAt(k))' = SubscribedBy(o)
      BY <2>1, <3>1, SameProgram DEF SubscribedBy
    <3> QED BY <2>1, <3>1, <3>2 DEF At, Before
  <2>3. \A m \in 1 .. Len(stream) : \A k, r : k = stream[m].op /\ r = stream[m].result => TokenOk(k, r)'
    BY <2>1, SameProgram DEF TokenInv
  <2>4. \A k : (Performed(k)' <=> Performed(k)) /\ TokenAt(k)' = TokenAt(k)
    BY <2>1, SameProgram DEF Performed
  <2> QED BY <2>1, <2>2, <2>3, <2>4 DEF TokenInv
<1> QED BY <1>1, <1>2, <1>3, <1>4, <1>5, <1>6 DEF Next

-----------------------------------------------------------------------------
(* The theorems *)

\* Whatever the programs, also with streams that fail and over any number of
\* crashes, an operation of a lane, a nested lane or a child journals under the
\* id, and at the place, that the program gives it; what a run holds is what
\* the journal has of it; a task is joined once by a caller and its lanes
\* together, and no handle is sent.  Without streams that fail, also the token
\* of a subscription is given by the program, in every run.
THEOREM LanesCorrect == Spec => []LanesInv
<1>1. Init => LanesInv BY InitShared, InitTokens DEF LanesInv
<1>2. LanesInv /\ [Next]_vars => LanesInv' BY SharedKept, TokensKept DEF LanesInv
<1> QED BY <1>1, <1>2, PTL DEF Spec

\* What a run holds of an operation, by its kind.
LEMMA GotFacts ==
  ASSUME SharedInv, NEW k \in DOMAIN got, Performed(k)
  PROVE  /\ k \in DOMAIN program /\ program[k].do \in Kinds
         /\ Journals(k) => \E m \in 1 .. Len(stream) : stream[m].op = k /\ stream[m].result = got[k]
         /\ Journals(k) => ResultOk(k, got[k]) /\ got[k].type # "task"
         /\ ~ Journals(k) => got[k].type = "task"
         /\ program[k].do = "spawn" => got[k] = TaskHandle(TaskAt(k))
<1>1. k \in DOMAIN program BY DEF SharedInv, TypeOK
<1>2. program[k].do \in Kinds BY <1>1, JournalTypes, ProgramFacts
<1>3. Journals(k) => \E m \in 1 .. Len(stream) : stream[m].op = k /\ stream[m].result = got[k]
  BY <1>1 DEF SharedInv, MemoryInv
<1>4. Journals(k) => ResultOk(k, got[k]) BY <1>3 DEF SharedInv, ResultInv
<1>5. Journals(k) => got[k].type # "task" BY <1>4 DEF ResultOk, Journals, Failed
<1>6. /\ program[k].do = "spawn" => got[k] = TaskHandle(TaskAt(k))
      /\ program[k].do = "join" => got[k].type = "task"
  BY <1>1 DEF SharedInv, MemoryInv
<1>7. ~ Journals(k) => got[k].type = "task" BY <1>2, <1>6 DEF Journals, Kinds, TaskHandle
<1> QED BY <1>1, <1>2, <1>3, <1>4, <1>5, <1>6, <1>7

\* Nested lanes, children and tasks that are numbered by one counter never
\* journal under one id, in one run or over several, and no task has the id of
\* a lane or of another task: for all programs, also with streams that fail.
THEOREM IdsUniqueHolds == Spec => []IdsUnique
<1>1. ASSUME SharedInv PROVE IdsUnique
  <2>1. program \in Seq(Operations) /\ JournalInv BY <1>1, JournalTypes DEF SharedInv
  <2>2. \A m \in 1 .. Len(stream) :
          stream[m].op \in DOMAIN program /\ Journals(stream[m].op) /\ stream[m].id = IdAt(stream[m].op)
    BY <2>1 DEF JournalInv
  <2>3. \A e, f \in 1 .. Len(stream) :
          stream[e].id = stream[f].id /\ stream[e].id # Caller => stream[e].op = stream[f].op
    BY <2>1, <2>2, OwnIds
  <2>4. ASSUME NEW i \in DOMAIN got, NEW j \in DOMAIN got,
               got[i].type = "task", program[i].do = "spawn", i # j
        PROVE  /\ got[i] # got[j] \/ program[j].do = "join"
               /\ \A e \in 1 .. Len(stream) : stream[e].id # got[i].id
    <3>1. Performed(i) BY <2>4 DEF Performed, Nothing, Refused
    <3>2. i \in DOMAIN program /\ got[i] = TaskHandle(TaskAt(i)) BY <1>1, <2>4, <3>1, GotFacts
    <3>3. got[i].id = TaskAt(i) BY <3>2 DEF TaskHandle
    <3>4. i \in Allocating /\ TaskAt(i) # Caller /\ TaskAt(i)[1] = Number(i) BY <2>1, <2>4, <3>2, OwnIds
    <3>5. ASSUME got[i] = got[j] PROVE program[j].do = "join"
      <4>1. Performed(j) /\ got[j].type = "task" BY <2>4, <3>1, <3>5 DEF Performed
      <4>2. j \in DOMAIN program /\ ~ Journals(j) /\ program[j].do \in Kinds BY <1>1, <4>1, GotFacts
      <4>3. program[j].do # "spawn"
        <5>1. SUFFICES ASSUME program[j].do = "spawn" PROVE FALSE OBVIOUS
        <5>2. got[j] = TaskHandle(TaskAt(j)) BY <1>1, <4>1, <5>1, GotFacts
        <5>3. got[j].id = TaskAt(j) BY <5>2 DEF TaskHandle
        <5>4. TaskAt(j) = TaskAt(i) BY <3>3, <3>5, <5>3
        <5>5. j \in Allocating /\ TaskAt(j)[1] = Number(j) BY <2>1, <4>2, <5>1, OwnIds
        <5> QED BY <2>1, <2>4, <3>4, <5>4, <5>5, NumberFacts
      <4> QED BY <4>2, <4>3 DEF Journals, Kinds
    <3>6. ASSUME NEW e \in 1 .. Len(stream), stream[e].id = got[i].id PROVE FALSE
      <4>1. PICK k \in DOMAIN program : k = stream[e].op /\ Journals(k) /\ stream[e].id = IdAt(k) BY <2>2
      <4>2. IdAt(k) = TaskAt(i) /\ IdAt(k) # Caller BY <3>3, <3>4, <3>6, <4>1
      <4>3. program[k].where # "caller" BY <2>1, <4>2, OwnIds
      <4>4. IdAt(k)[1] = Number(k) /\ k \in Allocating BY <2>1, <4>3, OwnIds
      <4>5. k = i BY <2>1, <3>4, <4>2, <4>4, NumberFacts
      <4> QED BY <2>4, <4>1, <4>5 DEF Journals
    <3> QED BY <3>5, <3>6
  <2> QED BY <2>3, <2>4 DEF IdsUnique
<1> QED BY <1>1, LanesCorrect, PTL DEF LanesInv

\* Where no stream fails, an item comes from the stream that the handle was
\* made for, whoever takes it, in every run over the journal.
THEOREM ReadsOwnSourceHolds == ~ FailingSources => (Spec => []ReadsOwnSource)
<1>1. ASSUME SharedInv, TokenInv PROVE ReadsOwnSource
  <2>1. SUFFICES ASSUME NEW i \in DOMAIN got, got[i].type = "item" PROVE got[i].source = program[i].ref
    BY DEF ReadsOwnSource
  <2>2. Performed(i) BY <2>1 DEF Performed, Nothing, Refused
  <2>3. Journals(i) /\ ResultOk(i, got[i]) BY <1>1, <2>1, <2>2, GotFacts
  <2>4. program[i].do = "next" BY <2>1, <2>3 DEF ResultOk, Journals, Failed
  <2>5. TokenOk(i, got[i]) BY <1>1, <2>2, <2>3, GotFacts DEF TokenInv
  <2> QED BY <2>1, <2>4, <2>5 DEF TokenOk
<1>2. LanesInv /\ ~ FailingSources => ReadsOwnSource BY <1>1 DEF LanesInv
<1>3. SUFFICES ASSUME ~ FailingSources PROVE Spec => []ReadsOwnSource OBVIOUS
<1>4. LanesInv => ReadsOwnSource BY <1>2, <1>3
<1> QED BY <1>4, LanesCorrect, PTL

\* Where no stream fails, a handle is good in all lanes of the coroutine it was
\* made for, also after a replay, and nowhere else; no agent is sent one.
THEOREM HandlesScopedHolds == ~ FailingSources => (Spec => []HandlesScoped)
<1>1. ASSUME SharedInv PROVE HandlesConfined
  <2>1. SUFFICES ASSUME NEW i \in DOMAIN got, got[i].type = "item"
                 PROVE  program[program[i].ref].where \notin Owned
    BY DEF HandlesConfined
  <2>2. Performed(i) BY <2>1 DEF Performed, Nothing, Refused
  <2>3. Journals(i) /\ ResultOk(i, got[i]) BY <1>1, <2>1, <2>2, GotFacts
  <2> QED BY <2>1, <2>3 DEF ResultOk, Journals, Failed
<1>2. ASSUME SharedInv, TokenInv PROVE LanesShareHandles
  <2>1. SUFFICES ASSUME NEW i \in DOMAIN got, program[i].do = "next", SharedSource(i), got[i] # Nothing
                 PROVE  got[i].type = "item"
    BY DEF LanesShareHandles
  <2>2. i \in DOMAIN program BY <1>2 DEF SharedInv, TypeOK
  <2>3. got[i] # Refused BY <1>2, <2>1, <2>2 DEF SharedInv, MemoryInv
  <2>4. Performed(i) /\ Journals(i) BY <2>1, <2>3 DEF Performed, Journals
  <2>5. TokenOk(i, got[i]) BY <1>2, <2>4, GotFacts DEF TokenInv
  <2> QED BY <2>1, <2>5 DEF TokenOk
<1>3. LanesInv /\ ~ FailingSources => HandlesScoped
  BY <1>1, <1>2 DEF LanesInv, HandlesScoped, SharedInv, MemoryInv
<1>4. SUFFICES ASSUME ~ FailingSources PROVE Spec => []HandlesScoped OBVIOUS
<1>5. LanesInv => HandlesScoped BY <1>3, <1>4
<1> QED BY <1>5, LanesCorrect, PTL

\* Where no stream fails, no two subscriptions of a run have one token, those
\* that a replay restored included.  The hypothesis is needed: with a stream
\* that fails the run SubscriptionTokens shows one token twice.
THEOREM TokensUniqueHolds == ~ FailingSources => (Spec => []TokensUnique)
<1>1. ASSUME SharedInv, TokenInv PROVE TokensUnique
  <2>1. ASSUME NEW i \in Handles
        PROVE  i \in DOMAIN program /\ program[i].do = "subscribe" /\ got[i] = Handle(TokenAt(i))
    <3>1. i \in DOMAIN got /\ got[i].type = "handle" BY <2>1 DEF Handles
    <3>2. Performed(i) BY <3>1 DEF Performed, Nothing, Refused
    <3>3. i \in DOMAIN program /\ Journals(i) /\ ResultOk(i, got[i]) BY <1>1, <3>1, <3>2, GotFacts
    <3>4. program[i].do = "subscribe" BY <3>1, <3>3 DEF ResultOk, Journals, Failed
    <3> QED BY <1>1, <3>2, <3>3, <3>4, SubscribedFacts
  <2>2. ASSUME NEW i \in Handles, NEW j \in Handles, got[i] = got[j] PROVE i = j
    <3>0. \A t : Handle(t).token = t BY DEF Handle
    <3>1. TokenAt(i) = TokenAt(j)
      <4>1. got[i].token = TokenAt(i) BY <2>1, <3>0
      <4>2. got[j].token = TokenAt(j) BY <2>1, <3>0
      <4> QED BY <2>2, <4>1, <4>2
    <3> QED BY <1>1, <2>1, <3>1, JournalTypes, TokenFacts
  <2> QED BY <2>2 DEF TokensUnique
<1>2. LanesInv /\ ~ FailingSources => TokensUnique BY <1>1 DEF LanesInv
<1>3. SUFFICES ASSUME ~ FailingSources PROVE Spec => []TokensUnique OBVIOUS
<1>4. LanesInv => TokensUnique BY <1>2, <1>3
<1> QED BY <1>4, LanesCorrect, PTL
=============================================================================
