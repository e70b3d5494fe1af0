------------------------ MODULE DurableReplayProofs ------------------------
(***************************************************************************)
(* Proofs that replay is exact: over its own journal a program never       *)
(* diverges, consumes every stored result, and returns what it returned    *)
(* before; and that the driver implements the abstract workflow.  They     *)
(* rest on the journal invariant of DurableExecutionProofs.                *)
(***************************************************************************)
EXTENDS DurableExecutionProofs

-----------------------------------------------------------------------------
(* Facts about the data *)

\* What a kernel or a middleware does next is one thing only.
LEMMA StepFacts ==
  /\ \A e, f : Yield(e) = Yield(f) => e = f
  /\ \A v, w : Done(v) = Done(w) => v = w
  /\ \A x, y : Throw(x) = Throw(y) => x = y
  /\ \A e, v, x : Yield(e) # Done(v) /\ Yield(e) # Throw(x) /\ Done(v) # Throw(x)
  /\ \A e, r : Next_(e) # Return(r)
  /\ \A e, f : Next_(e) = Next_(f) => e = f
<1>1. ASSUME NEW e, NEW f, Yield(e) = Yield(f) PROVE e = f
  <2>1. Yield(e).effect = Yield(f).effect BY <1>1
  <2> QED BY <2>1 DEF Yield
<1>2. ASSUME NEW v, NEW w, Done(v) = Done(w) PROVE v = w
  <2>1. Done(v).value = Done(w).value BY <1>2
  <2> QED BY <2>1 DEF Done
<1>3. ASSUME NEW x, NEW y, Throw(x) = Throw(y) PROVE x = y
  <2>1. Throw(x).error = Throw(y).error BY <1>3
  <2> QED BY <2>1 DEF Throw
<1>4. ASSUME NEW e, NEW v, NEW x
      PROVE  Yield(e) # Done(v) /\ Yield(e) # Throw(x) /\ Done(v) # Throw(x)
  BY DEF Yield, Done, Throw
<1>5. ASSUME NEW e, NEW r PROVE Next_(e) # Return(r)
  BY DEF Next_, Return
<1>6. ASSUME NEW e, NEW f, Next_(e) = Next_(f) PROVE e = f
  <2>1. Next_(e).effect = Next_(f).effect BY <1>6
  <2> QED BY <2>1 DEF Next_
<1> QED BY <1>1, <1>2, <1>3, <1>4, <1>5, <1>6

\* A program closes a coroutine in one way, if it does not leak a handle.
LEMMA EndsOnce ==
  ASSUME NEW p, NEW h, NEW s, NEW t, Ends(p, h, s), Ends(p, h, t), ~Leaks(p, h)
  PROVE  s = t
<1> DEFINE Value(v) == IF v \in Capabilities THEN Error("SubscriptionCapabilityError")
                       ELSE Ok(v)
<1>1. ASSUME NEW u, Ends(p, h, u)
      PROVE  \/ \E v \in Values : KernelStep(p, h) = Done(v) /\ u = Value(v)
             \/ \E x \in Errors : KernelStep(p, h) = Throw(x) /\ u = Error(x)
  BY <1>1 DEF Ends
<1> HIDE DEF Value
<1>2. CASE \E v \in Values : KernelStep(p, h) = Done(v)
  <2>1. PICK v \in Values : KernelStep(p, h) = Done(v) BY <1>2
  <2>2. ASSUME NEW u, Ends(p, h, u) PROVE u = Value(v)
    BY <2>1, <2>2, <1>1, StepFacts, Zenon
  <2> QED BY <2>2
<1>3. CASE \A v \in Values : KernelStep(p, h) # Done(v)
  <2>1. PICK x \in Errors : KernelStep(p, h) = Throw(x) BY <1>1, <1>3, Zenon
  <2>2. ASSUME NEW u, Ends(p, h, u) PROVE u = Error(x)
    BY <2>1, <2>2, <1>1, <1>3, StepFacts, Zenon
  <2> QED BY <2>2
<1> QED BY <1>2, <1>3

\* A program that asks for an effect does not close, except for the leak.
LEMMA YieldsOrEnds ==
  ASSUME NEW p, NEW h, NEW s, NEW e, KernelStep(p, h) = Yield(e), Ends(p, h, s)
  PROVE  Leaks(p, h)
BY StepFacts, Zenon DEF Ends

\* A program that journals something asks for an effect.
LEMMA JournalsYields ==
  ASSUME NEW p, NEW h, NEW d, Journals(p, h, d)
  PROVE  \E e \in Effect : KernelStep(p, h) = Yield(e)
BY Zenon DEF Journals

LEMMA EndFacts ==
  /\ Cancelled \notin Result /\ NoClose \notin Final
  /\ [status |-> "halted"] \notin Final /\ [status |-> "threw"] \notin Final
  /\ [status |-> "none"] \notin Final /\ [status |-> "malformed"] \notin Final
  /\ \A v, x : Ok(v) # Error(x)
  /\ \A x, y : Error(x) = Error(y) => x = y
  /\ \A v, w : Ok(v) = Ok(w) => v = w
BY DEF Cancelled, NoClose, Final, Result, Ok, Error

-----------------------------------------------------------------------------
(* The journal and what the kernel was told *)

\* What the kernel was told is what the journal says.
LEMMA ConsumedIsTold ==
  ASSUME JournalInv
  PROVE  consumed = Told(Len(consumed)) /\ Len(consumed) <= Len(yields)
<1>1. consumed \in Seq(Result) /\ PersistBeforeResume BY PartTypes DEF Parts
<1>2. consumed = [i \in 1..Len(consumed) |-> consumed[i]] BY <1>1
<1>3. \A i \in 1..Len(consumed) : consumed[i] = yields[i].result
  BY <1>1 DEF PersistBeforeResume
<1> QED BY <1>1, <1>2, <1>3 DEF Told, PersistBeforeResume

\* The entry after the consumed ones is what the program asks for now.
LEMMA NextEntry ==
  ASSUME ReplayInv, deploys = 0, Len(consumed) < Len(yields)
  PROVE  Journals(program, consumed, yields[Len(consumed) + 1].description)
<1>1. JournalInv /\ RecordedInv BY DEF ReplayInv
<1>2. Len(consumed) \in Nat /\ Len(yields) \in Nat BY <1>1, PartTypes
<1>3. Len(consumed) + 1 \in 1..Len(yields) BY <1>2
<1>4. Journals(program, Told(Len(consumed) + 1 - 1), yields[Len(consumed) + 1].description)
  BY <1>1, <1>3 DEF RecordedInv
<1>5. Len(consumed) + 1 - 1 = Len(consumed) BY <1>2
<1> QED BY <1>1, <1>4, <1>5, ConsumedIsTold

\* A kernel that does not ask for an effect has seen the whole journal.
LEMMA EndOfJournal ==
  ASSUME ReplayInv, deploys = 0, \A e \in Effect : KernelStep(program, consumed) # Yield(e)
  PROVE  Len(consumed) = Len(yields)
<1>1. JournalInv BY DEF ReplayInv
<1>2. Len(consumed) \in Nat /\ Len(yields) \in Nat /\ Len(consumed) <= Len(yields)
  BY <1>1, PartTypes, ConsumedIsTold
<1>3. ~(Len(consumed) < Len(yields)) BY NextEntry, JournalsYields
<1> QED BY <1>2, <1>3

\* A step that leaves the journal and the appends in flight alone.
LEMMA SameJournal ==
  ASSUME ReplayInv, UNCHANGED <<program, yields, closes, inflight, faults, deploys>>
  PROVE  RecordedInv' /\ EndedInv' /\ Leaking' = Leaking
<1>1. \A n : Told(n)' = Told(n) BY DEF Told
<1>2. \A s : EndedBy(s)' <=> EndedBy(s) BY <1>1 DEF EndedBy, Undisturbed
<1> QED BY <1>1, <1>2 DEF ReplayInv, RecordedInv, EndedInv, Leaking

\* The conjuncts of ReplayInv, with the types of what they speak of.
Replay == DispatchInv /\ RecordedInv /\ EndedInv /\ ClosingInv /\ MirrorInv /\ ReturnedInv

LEMMA ReplayFacts ==
  ASSUME ReplayInv
  PROVE  /\ JournalInv /\ Parts /\ Replay
         /\ yields \in Seq(YieldEvents) /\ index.yields \in Seq(YieldEvents)
         /\ consumed \in Seq(Result) /\ cursor \in Nat /\ faults \in Nat /\ deploys \in Nat
         /\ journal \in Seq(Events)
         /\ closes \in Seq([result : Final, after : Nat])
         /\ Len(yields) \in Nat /\ Len(index.yields) \in Nat /\ Len(consumed) \in Nat
         /\ Len(closes) \in Nat /\ Len(journal) \in Nat
         /\ pc \in {"max", "handler"} => chain \in ChainDispatch
         /\ consumed = Told(Len(consumed)) /\ Len(consumed) <= Len(yields)
<1>1. JournalInv BY DEF ReplayInv
<1> QED BY <1>1, PartTypes, ConsumedIsTold DEF ReplayInv, Replay, JournalInv, TypeOK, Events

\* The Close a coroutine has, when there is one.
LEMMA LastClose ==
  ASSUME ReplayInv, closes # <<>>
  PROVE  /\ Len(closes) = 1 /\ closes[Len(closes)].result \in Final
         /\ EndedBy(closes[Len(closes)].result)
<1> DEFINE C == [result : Final, after : Nat]
<1>1. closes \in Seq(C) /\ Len(closes) \in Nat /\ FlightInv /\ EndedInv
  BY ReplayFacts DEF Parts, Replay
<1> HIDE DEF C
<1>2. Len(closes) = 1
  <2>1. Len(closes) # 0 BY <1>1, EmptySeq
  <2>2. Len(closes) <= 1 BY <1>1 DEF FlightInv
  <2>3. \A n \in Nat : n # 0 /\ n <= 1 => n = 1 OBVIOUS
  <2> QED BY <1>1, <2>1, <2>2, <2>3
<1>3. closes[1] \in C BY <1>1, <1>2
<1> QED BY <1>1, <1>2, <1>3 DEF C, EndedInv

\* A coroutine closes, or a run of a closed coroutine comes to its end.
LEMMA CloseWithReplay ==
  ASSUME ReplayInv, NEW result \in Final, NEW at \in Closing, CloseWith(result, at),
         UNCHANGED <<program, yields, closes, index, cursor, consumed, faults, deploys>>,
         \/ pc \in {"kernel", "max", "handler", "direct"}
         \/ (pc = "append" /\ at = "halting"),
         at = "halting" => result = Cancelled,
         at # "halting" => pc \in {"kernel", "max"} /\ result \in Result,
         at = "closing" =>
           /\ JournalIs(Len(consumed))
           /\ \E v \in Values : KernelStep(program, consumed) = Done(v) /\ result = Ok(v),
         at # "halting" /\ Undisturbed =>
           /\ JournalIs(Len(consumed)) /\ Len(consumed) = Len(yields)
           /\ Ends(program, consumed, result) \/ (HasClose /\ Leaks(program, consumed))
  PROVE  Replay'
<1> USE ReplayFacts DEF Closing
<1>1. pc \in Running BY DEF Running
<1>2. CASE HasClose
  <2>1. /\ pc' = "exited" /\ UNCHANGED <<inflight, awaited>>
        /\ journal' = Append(journal, CloseEvent(result))
        /\ outcome' = IF at = "halting" THEN [status |-> "halted"] ELSE result
    BY <1>2 DEF CloseWith
  <2>2. RecordedInv' /\ EndedInv' /\ Leaking' = Leaking BY <2>1, SameJournal
  <2>3. closes # <<>> /\ index.close = closes[Len(closes)].result
        /\ index.close # Cancelled
    BY <1>1, <1>2 DEF HasClose, Parts, IndexInv, Replay, ClosingInv
  <2>4. outcome' # Cancelled /\ (outcome' \in Result => at # "halting" /\ outcome' = result)
    BY <2>1, EndFacts, ResultFacts
  <2>5. ASSUME outcome' \in Result PROVE inflight' = {}
    BY <2>1, <2>4, <2>5 DEF Parts, FlightInv
  <2>6. ASSUME outcome' \in Result, Undisturbed, ~Leaking
        PROVE  /\ outcome' = closes[Len(closes)].result
               /\ JournalIs(Len(yields))
    <3>1. /\ JournalIs(Len(consumed)) /\ Len(consumed) = Len(yields)
          /\ Ends(program, consumed, result)
      BY <2>4, <2>6 DEF Leaking
    <3>2. Ends(program, Told(Len(yields)), closes[Len(closes)].result)
      BY <2>3, <2>6, LastClose DEF EndedBy
    <3>3. result = closes[Len(closes)].result
      BY <2>6, <3>1, <3>2, EndsOnce DEF Leaking
    <3> QED BY <2>4, <2>6, <3>1, <3>3
  <2>7. ASSUME outcome' \in Result, Undisturbed, ~Leaking
        PROVE  /\ Len(journal') = Len(yields) + 1
               /\ \A i \in 1..Len(yields) : journal'[i] = yields[i]
               /\ journal'[Len(yields) + 1] = CloseEvent(outcome')
    <3>1. CloseEvent(result) \in Events BY EventFacts DEF Events
    <3>2. outcome' = result BY <2>4, <2>7
    <3> HIDE DEF CloseEvent
    <3> QED BY <2>1, <2>6, <2>7, <3>1, <3>2, AppendFact DEF JournalIs
  <2>8. ReturnedInv'
    BY <2>1, <2>2, <2>3, <2>4, <2>5, <2>6, <2>7 DEF ReturnedInv, Undisturbed
  <2> QED BY <2>1, <2>2, <2>8 DEF Replay, DispatchInv, ClosingInv, MirrorInv, Running
<1>3. CASE ~HasClose
  <2> DEFINE close == CloseEvent(result)
  <2>1. /\ pc' = at /\ inflight' = inflight \union {close} /\ awaited' = close
        /\ UNCHANGED <<journal, outcome>>
    BY <1>3 DEF CloseWith
  <2>2. close.type = "close" /\ close.result = result BY EventFacts
  <2> HIDE DEF close
  <2>3. /\ closes = <<>> /\ \A event \in inflight : event.type = "yield"
        /\ at # "halting" => inflight = {}
    BY <1>1, <1>3 DEF HasClose, Parts, IndexInv, FlightInv
  <2>4. \A n : Told(n)' = Told(n) BY DEF Told
  <2>5. RecordedInv' BY <2>1, <2>2, <2>4 DEF Replay, RecordedInv
  <2>6. EndedBy(result)'
    BY <1>3, <2>1, <2>2, <2>3, <2>4 DEF EndedBy, Undisturbed
  <2>7. EndedInv' BY <2>1, <2>2, <2>3, <2>6 DEF EndedInv
  <2>8. ClosingInv' BY <1>3, <2>1, <2>2 DEF ClosingInv, Undisturbed, HasClose
  <2>9. MirrorInv' BY <2>1 DEF MirrorInv, JournalIs, Undisturbed
  <2>10. DispatchInv' /\ ReturnedInv' BY <2>1 DEF DispatchInv, ReturnedInv
  <2> QED BY <2>5, <2>7, <2>8, <2>9, <2>10 DEF Replay
<1> QED BY <1>2, <1>3

\* The stored entry the driver looks at, when the cursor has not moved yet.
LEMMA PeekFacts ==
  ASSUME ReplayInv, HasEntry, cursor = Position, pc \in Running
  PROVE  /\ Len(consumed) < Len(index.yields) /\ cursor = Len(consumed)
         /\ Len(consumed) < Len(yields)
         /\ PeekYield = yields[Len(consumed) + 1]
         /\ PeekYield \in YieldEvents /\ PeekYield.result \in Result
         /\ deploys = 0 => Journals(program, consumed, PeekYield.description)
<1> USE ReplayFacts
<1>1. Len(consumed) < Len(index.yields) /\ cursor = Len(consumed)
  BY DEF HasEntry, Position
<1>2. /\ Len(index.yields) <= Len(yields)
      /\ \A i \in 1..Len(index.yields) : index.yields[i] = yields[i]
  BY DEF Parts, IndexInv
<1>3. PeekYield = yields[Len(consumed) + 1] /\ Len(consumed) < Len(yields)
  BY <1>1, <1>2 DEF PeekYield
<1>4. PeekYield \in YieldEvents /\ PeekYield.result \in Result
  BY PeekType DEF JournalInv
<1> QED BY <1>1, <1>3, <1>4, NextEntry

\* A stored entry is copied to the in-memory journal.
LEMMA MirrorEntry ==
  ASSUME NEW n \in Nat, NEW event \in Events, journal \in Seq(Events), JournalIs(n),
         event = yields[n + 1], journal' = Append(journal, event), UNCHANGED yields
  PROVE  Len(journal') = n + 1 /\ \A i \in 1..(n + 1) : journal'[i] = yields'[i]
BY AppendFact DEF JournalIs

\* The kernel is resumed with the stored entry.
LEMMA ResumeReplay ==
  ASSUME ReplayInv, HasEntry, ResumeFromStored, cursor = Position, pc \in Running,
         JournalIs(Len(consumed)), pc' = "kernel",
         UNCHANGED <<program, yields, closes, index, inflight, faults, deploys>>
  PROVE  Replay'
<1> USE ReplayFacts
<1>1. RecordedInv' /\ EndedInv' BY SameJournal
<1>2. /\ journal' = Append(journal, PeekYield)
      /\ consumed' = Append(consumed, PeekYield.result)
  BY DEF ResumeFromStored
<1>3. /\ PeekYield = yields[Len(consumed) + 1] /\ PeekYield \in Events
      /\ PeekYield.result \in Result
  BY PeekFacts DEF Events
<1> HIDE DEF PeekYield
<1>4. Len(consumed') = Len(consumed) + 1 BY <1>2, <1>3, AppendFact
<1>5. JournalIs(Len(consumed))' BY <1>2, <1>3, <1>4, AppendFact DEF JournalIs
<1> QED BY <1>1, <1>5
  DEF Replay, DispatchInv, ClosingInv, MirrorInv, ReturnedInv, Running

\* The result of a live effect is handed to append().
LEMMA PersistReplay ==
  ASSUME ReplayInv, NEW event \in YieldEvents, Persist(event), pc \in {"direct", "max"},
         Journals(program, consumed, event.description), JournalIs(Len(consumed)),
         Len(consumed) = Len(yields), index.close = NoClose,
         UNCHANGED <<program, yields, closes, index, faults, deploys>>
  PROVE  Replay'
<1> USE ReplayFacts
<1>1. /\ inflight' = inflight \union {event} /\ awaited' = event /\ pc' = "append"
      /\ UNCHANGED <<consumed, journal>>
  BY DEF Persist
<1>2. inflight = {} BY DEF Parts, FlightInv
<1>3. event.type = "yield" BY EventFacts
<1>4. \A n : Told(n)' = Told(n) BY DEF Told
<1>5. consumed = Told(Len(yields)) OBVIOUS
<1>6. RecordedInv' BY <1>1, <1>2, <1>4, <1>5 DEF Replay, RecordedInv
<1>7. EndedInv'
  <2>1. closes = <<>>
    BY DEF Parts, IndexInv, Running
  <2> QED BY <1>1, <1>2, <1>3, <2>1 DEF EndedInv
<1>8. DispatchInv' BY <1>1 DEF DispatchInv
<1>9. MirrorInv' BY <1>1 DEF MirrorInv, JournalIs
<1>10. ClosingInv' /\ ReturnedInv' BY <1>1
  DEF Replay, ClosingInv, ReturnedInv, Running
<1> QED BY <1>6, <1>7, <1>8, <1>9, <1>10 DEF Replay

\* The append of a Yield completes.
LEMMA YieldDurableReplay ==
  ASSUME ReplayInv, NEW event \in Events, YieldDurable(event)
  PROVE  Replay'
<1> USE ReplayFacts DEF counters
<1>1. /\ event \in inflight /\ event.type = "yield" /\ inflight' = inflight \ {event}
      /\ yields' = Append(yields, event)
      /\ UNCHANGED <<program, closes, index, cursor, chain, awaited, outcome, faults, deploys>>
  BY DEF YieldDurable
<1>2. event \in YieldEvents /\ event.result \in Result
  BY <1>1, EventFacts DEF Events
<1>3. /\ Len(yields') = Len(yields) + 1 /\ yields'[Len(yields) + 1] = event
      /\ \A i \in 1..Len(yields) : yields'[i] = yields[i]
  BY <1>1, <1>2, AppendFact
<1>4. ASSUME NEW n \in 0..Len(yields) PROVE Told(n)' = Told(n)
  <2>1. \A i \in 1..n : i \in 1..Len(yields) OBVIOUS
  <2>2. \A i \in 1..n : yields'[i] = yields[i] BY <1>3, <2>1
  <2> QED BY <2>2 DEF Told
<1>5. \A other \in inflight' : other.type # "yield"
  BY <1>1 DEF Replay, RecordedInv
<1>6. RecordedInv'
  <2>1. ASSUME deploys = 0, NEW i \in 1..Len(yields')
        PROVE  Journals(program, Told(i - 1)', yields'[i].description)
    <3>1. CASE i \in 1..Len(yields)
      <4>1. i - 1 \in 0..Len(yields) BY <3>1
      <4>2. Told(i - 1)' = Told(i - 1) BY <1>4, <4>1
      <4> QED BY <1>3, <2>1, <3>1, <4>2 DEF Replay, RecordedInv
    <3>2. CASE i = Len(yields) + 1
      <4>1. i - 1 = Len(yields) /\ Len(yields) \in 0..Len(yields) BY <3>2
      <4>2. Told(i - 1)' = Told(Len(yields)) BY <1>4, <4>1
      <4> QED BY <1>1, <1>3, <2>1, <3>2, <4>2 DEF Replay, RecordedInv
    <3> QED BY <1>3, <3>1, <3>2
  <2> QED BY <1>1, <1>5, <2>1 DEF RecordedInv
<1>7. \A s : EndedBy(s) => (Undisturbed => s = Cancelled) BY <1>1 DEF EndedBy
<1>8. EndedInv'
  <2>1. \A s : EndedBy(s) => EndedBy(s)' BY <1>1, <1>7 DEF EndedBy, Undisturbed
  <2> QED BY <1>1, <2>1 DEF Replay, EndedInv
<1>9. CASE Awaiting(event)
  <2>1. /\ pc' = "kernel" /\ consumed' = Append(consumed, event.result)
        /\ journal' = Append(journal, event) /\ awaited = event
    BY <1>9 DEF YieldDurable, Awaiting
  <2>2. pc = "append"
    BY <1>1, <1>9 DEF Awaiting, Parts, FlightInv, Closing
  <2>3. Len(consumed') = Len(consumed) + 1 BY <1>2, <2>1, AppendFact
  <2>4. Len(yields) = Len(consumed)
    BY <2>2 DEF Parts, PositionInv, LengthInv, Stepping
  <2>5. JournalIs(Len(consumed))'
    BY <1>1, <1>3, <2>1, <2>2, <2>3, <2>4, AppendFact DEF Replay, MirrorInv, JournalIs
  <2>6. ClosingInv'
    BY <1>1, <2>1, <2>2 DEF Replay, ClosingInv, Running
  <2> QED BY <1>6, <1>8, <2>1, <2>5, <2>6 DEF Replay, DispatchInv, MirrorInv, ReturnedInv
<1>10. CASE ~Awaiting(event)
  <2>1. UNCHANGED <<pc, consumed, journal>> BY <1>10 DEF YieldDurable
  <2>2. pc \notin Running \/ pc = "halting"
    BY <1>1, <1>10 DEF Awaiting, Parts, FlightInv, Closing, Running
  <2>3. outcome \notin Result \/ pc # "exited" BY <1>1 DEF Replay, ReturnedInv
  <2> QED BY <1>1, <1>6, <1>8, <2>1, <2>2, <2>3
    DEF Replay, DispatchInv, ClosingInv, MirrorInv, ReturnedInv, Running
<1> QED BY <1>9, <1>10

\* The append of a Close completes.
LEMMA CloseDurableReplay ==
  ASSUME ReplayInv, NEW event \in Events, CloseDurable(event)
  PROVE  Replay'
<1> USE ReplayFacts DEF counters
<1> DEFINE entry == [result |-> event.result, after |-> Len(yields)]
<1>1. /\ event \in inflight /\ event.type = "close" /\ inflight' = inflight \ {event}
      /\ closes' = Append(closes, entry)
      /\ UNCHANGED <<program, yields, index, cursor, consumed, chain, awaited, faults, deploys>>
  BY DEF CloseDurable
<1>2. event \in CloseEvents /\ event.result \in Final /\ event = CloseEvent(event.result)
  BY <1>1, EventFacts DEF Events, CloseEvents, CloseEvent
<1>3. closes = <<>> /\ event = awaited /\ \A other \in inflight' : other.type # "close"
  BY <1>1 DEF Parts, FlightInv
<1>4. Len(closes') = 1 /\ closes'[1] = entry /\ closes' # <<>>
  <2> HIDE DEF entry
  <2> QED BY <1>1, <1>3
<1>5. closes'[Len(closes')].result = event.result BY <1>4
<1> HIDE DEF entry
<1>6. \A n : Told(n)' = Told(n) BY <1>1 DEF Told
<1>7. RecordedInv' BY <1>1, <1>6 DEF Replay, RecordedInv
<1>8. EndedInv'
  <2>1. EndedBy(event.result)' BY <1>1, <1>6 DEF Replay, EndedInv, EndedBy, Undisturbed
  <2> QED BY <1>3, <1>4, <1>5, <2>1 DEF EndedInv
<1>9. CASE Awaiting(event)
  <2>1. /\ pc' = "exited" /\ journal' = Append(journal, event)
        /\ outcome' = IF pc = "halting" THEN [status |-> "halted"] ELSE event.result
    BY <1>9 DEF CloseDurable
  <2>2. pc \in Closing BY <1>1, <1>9 DEF Awaiting, Parts, FlightInv, Closing
  <2>3. CASE pc = "halting"
    <3>1. outcome' \notin Final BY <2>1, <2>3, EndFacts
    <3>2. outcome' \notin Result /\ outcome' # Cancelled BY <3>1, ResultFacts
    <3> QED BY <1>7, <1>8, <2>1, <3>2
      DEF Replay, DispatchInv, ClosingInv, MirrorInv, ReturnedInv, Running
  <2>4. CASE pc \in {"closing", "failing"}
    <3>1. outcome' = event.result /\ event.result \in Result /\ outcome' # Cancelled
      BY <1>3, <2>1, <2>4, EndFacts DEF Replay, ClosingInv
    <3>2. inflight' = {} BY <1>1, <1>3, <2>4 DEF Parts, FlightInv
    <3>3. ASSUME Undisturbed
          PROVE  /\ Len(journal') = Len(yields) + 1
                 /\ \A i \in 1..Len(yields) : journal'[i] = yields[i]
                 /\ journal'[Len(yields) + 1] = CloseEvent(outcome')
      <4>1. Len(consumed) = Len(yields) /\ JournalIs(Len(consumed))
        BY <2>4, <3>3 DEF Replay, ClosingInv, MirrorInv
      <4>2. event = CloseEvent(outcome') BY <1>2, <3>1
      <4> QED BY <2>1, <4>1, <4>2, AppendFact DEF JournalIs
    <3>4. ReturnedInv'
      BY <1>1, <1>4, <1>5, <2>1, <3>1, <3>2, <3>3 DEF ReturnedInv, Undisturbed
    <3> QED BY <1>7, <1>8, <2>1, <3>4
      DEF Replay, DispatchInv, ClosingInv, MirrorInv, Running
  <2> QED BY <2>2, <2>3, <2>4 DEF Closing
<1>10. CASE ~Awaiting(event)
  <2>1. UNCHANGED <<pc, journal, outcome>> BY <1>10 DEF CloseDurable
  <2>2. pc \notin Running
    BY <1>1, <1>3, <1>10 DEF Awaiting, Parts, FlightInv, Closing, Running
  <2>3. pc = "exited" => outcome \notin Result /\ outcome # Cancelled
    BY <1>1, <1>3 DEF Replay, ReturnedInv
  <2> QED BY <1>7, <1>8, <2>1, <2>2, <2>3
    DEF Replay, DispatchInv, ClosingInv, MirrorInv, ReturnedInv, Running
<1> QED BY <1>9, <1>10

\* The effect in dispatch, and what a chain of records keeps when it is updated.
LEMMA DispatchFacts ==
  ASSUME ReplayInv, pc \in {"max", "handler"}
  PROVE  /\ chain \in ChainDispatch /\ chain.effect \in Effect
         /\ chain.effect.id \notin RuntimeDirect /\ program \in Programs
         /\ KernelStep(program, consumed) = Yield(chain.effect)
         /\ chain.start \in Nat /\ chain.start = Position /\ chain.answers \in Seq(Result)
         /\ cursor = chain.start \/ (chain.entry /\ cursor = chain.start + 1)
         /\ \A r \in Result : /\ Answer(r).entry = chain.entry
                              /\ Answer(r).start = chain.start
                              /\ Answer(r).effect = chain.effect
                              /\ Answer(r).boundary = chain.boundary
                              /\ Answer(r).answers # <<>>
<1>1. chain \in ChainDispatch /\ program \in Programs /\ DispatchInv /\ PositionInv
  BY ReplayFacts DEF Replay, Parts, JournalInv, TypeOK
<1>2. chain.effect \in Effect /\ chain.answers \in Seq(Result) /\ chain.start \in Nat
  BY <1>1, ChainFacts
<1>3. ASSUME NEW r \in Result
      PROVE  /\ Answer(r).entry = chain.entry /\ Answer(r).start = chain.start
             /\ Answer(r).effect = chain.effect /\ Answer(r).boundary = chain.boundary
             /\ Answer(r).answers # <<>>
  <2>1. Answer(r).answers = Append(chain.answers, r) BY <1>1, ChainFacts DEF Answer
  <2>2. Append(chain.answers, r) # <<>> BY <1>2, AppendProperties
  <2>3. Answer(r).boundary = chain.boundary BY <1>1 DEF Answer, ChainDispatch
  <2> QED BY <1>1, <2>1, <2>2, <2>3, ChainFacts DEF Answer
<1> QED BY <1>1, <1>2, <1>3 DEF DispatchInv, PositionInv

\* Over a journal of its own, the program asks at the lane for what is stored.
LEMMA LaneMatches ==
  ASSUME SingleNext, ReplayInv, deploys = 0, HasEntry, NEW e \in Effect, MaxIs(Next_(e))
  PROVE  Matches(PeekYield.description, e)
<1>1. pc = "max" /\ pc \in Running BY DEF MaxIs, Running
<1>2. JournalInv BY DEF ReplayInv
<1>3. chain.answers = <<>> BY <1>1, <1>2, NoSecondNext DEF MaxIs
<1>4. MaxStep(program, chain.effect, <<>>) = Next_(e) BY <1>3 DEF MaxIs
<1>5. cursor = Position
  BY <1>1, <1>2, <1>3, DispatchFacts DEF JournalInv, PositionInv
<1>6. Journals(program, consumed, PeekYield.description) BY <1>1, <1>5, PeekFacts
<1>7. PICK f \in Effect :
        /\ KernelStep(program, consumed) = Yield(f)
        /\ \/ f.id \in RuntimeDirect
           \/ \E b \in Effect : /\ MaxStep(program, f, <<>>) = Next_(b)
                                /\ PeekYield.description = Identity(b)
           \/ \E r \in Result : MaxStep(program, f, <<>>) = Return(r)
  BY <1>6, Zenon DEF Journals
<1>8. f = chain.effect /\ f.id \notin RuntimeDirect BY <1>1, <1>7, DispatchFacts, StepFacts
<1>9. PICK b \in Effect : /\ MaxStep(program, f, <<>>) = Next_(b)
                         /\ PeekYield.description = Identity(b)
  BY <1>4, <1>7, <1>8, StepFacts
<1>10. b = e BY <1>4, <1>8, <1>9, StepFacts
<1> QED BY <1>9, <1>10 DEF Matches

\* Middleware that answered by itself does so again.
LEMMA SourceMatches ==
  ASSUME ReplayInv, deploys = 0, HasEntry, cursor = Position, pc = "max",
         chain.answers = <<>>, NEW r \in Result, MaxReturns(r)
  PROVE  Matches(PeekYield.description, chain.effect)
<1>1. pc \in Running BY DEF Running
<1>2. MaxStep(program, chain.effect, <<>>) = Return(r) BY DEF MaxReturns, MaxIs
<1>3. Journals(program, consumed, PeekYield.description) BY <1>1, PeekFacts
<1>4. PICK f \in Effect :
        /\ KernelStep(program, consumed) = Yield(f)
        /\ \/ f.id \in RuntimeDirect
           \/ \E b \in Effect : MaxStep(program, f, <<>>) = Next_(b)
           \/ PeekYield.description = Identity(f)
  BY <1>3, Zenon DEF Journals
<1>5. f = chain.effect /\ f.id \notin RuntimeDirect BY <1>4, DispatchFacts, StepFacts
<1>6. PeekYield.description = Identity(f) BY <1>2, <1>4, <1>5, StepFacts
<1> QED BY <1>5, <1>6 DEF Matches

\* So does a runtime-direct effect.
LEMMA DirectRepeats ==
  ASSUME ReplayInv, deploys = 0, HasEntry, cursor = Position, pc = "kernel",
         NEW e \in Effect, KernelIs(Yield(e)), e.id \in RuntimeDirect
  PROVE  DirectMatches(PeekYield.description, e)
<1>1. pc \in Running BY DEF Running
<1>2. Journals(program, consumed, PeekYield.description) BY <1>1, PeekFacts
<1>3. PICK f \in Effect :
        /\ KernelStep(program, consumed) = Yield(f)
        /\ f.id \notin RuntimeDirect \/ PeekYield.description = DirectIdentity(f)
  BY <1>2, Zenon DEF Journals
<1>4. f = e BY <1>3, StepFacts DEF KernelIs
<1>5. PeekYield.description = DirectIdentity(e) BY <1>3, <1>4
<1> QED BY <1>5 DEF DirectMatches, DirectIdentity, Identity, Matches

LEMMA ReplayStep ==
  ASSUME SingleNext, ReplayInv, [Next]_vars
  PROVE  Replay'
<1> USE ReplayFacts DEF durable, counters
<1> DEFINE Same == UNCHANGED <<program, yields, closes, inflight, faults, deploys>>
<1>0. ASSUME Same PROVE RecordedInv' /\ EndedInv' /\ Leaking' = Leaking
  BY <1>0, SameJournal
<1>1. CASE Boot
  <2>1. /\ inflight = {} /\ Same /\ consumed' = <<>>
        /\ index' = BuildIndex /\ pc' \in {"exited", "kernel"}
    BY <1>1 DEF Boot
  <2>2. RecordedInv' /\ EndedInv' BY <2>1, <1>0
  <2>3. index'.close # NoClose => closes # <<>> /\ index'.close = closes[Len(closes)].result
    BY <2>1 DEF BuildIndex
  <2>4. CASE pc' = "kernel"
    <3>1. index'.close # Cancelled /\ journal' = <<>> BY <1>1, <2>4 DEF Boot
    <3>2. Len(<<>>) = 0 OBVIOUS
    <3>3. MirrorInv' BY <2>1, <2>4, <3>1, <3>2 DEF MirrorInv, JournalIs
    <3> QED BY <2>1, <2>2, <2>3, <2>4, <3>1, <3>3
      DEF Replay, DispatchInv, ClosingInv, ReturnedInv
  <2>5. CASE pc' = "exited"
    <3>1. outcome' = Cancelled => index'.close = Cancelled
      BY <1>1, <2>5, EndFacts DEF Boot, Cancelled
    <3>2. outcome' \notin Result
      BY <1>1, <2>5, EndFacts, ResultFacts DEF Boot
    <3>3. Cancelled # NoClose BY DEF Cancelled, NoClose
    <3> QED BY <2>1, <2>2, <2>3, <2>5, <3>1, <3>2, <3>3
      DEF Replay, DispatchInv, ClosingInv, MirrorInv, ReturnedInv, Running
  <2> QED BY <2>1, <2>4, <2>5
<1>2. CASE YieldPastClose
  <2>1. PICK e \in Effect : KernelIs(Yield(e)) BY <1>2 DEF YieldPastClose
  <2>2. /\ pc = "kernel" /\ ~HasEntry /\ HasClose
        /\ UNCHANGED <<program, yields, closes, index, cursor, consumed, faults, deploys>>
        /\ CloseWith(Error("DivergenceError"), "failing")
    BY <1>2, <2>1 DEF YieldPastClose, PastClose, Fail, KernelIs
  <2>3. Len(consumed) = Len(yields)
    BY <2>2 DEF HasEntry, Parts, PositionInv, LengthInv, Position, Stepping
  <2>4. ASSUME Undisturbed PROVE Leaks(program, consumed)
    <3>1. closes # <<>> /\ closes[Len(closes)].result # Cancelled
      BY <2>2 DEF HasClose, Parts, IndexInv, Replay, ClosingInv, Running
    <3>2. Ends(program, Told(Len(yields)), closes[Len(closes)].result)
      BY <2>4, <3>1, LastClose DEF EndedBy
    <3> QED BY <2>1, <2>3, <3>2, YieldsOrEnds DEF KernelIs
  <2>5. JournalIs(Len(consumed)) BY <2>2 DEF Replay, MirrorInv
  <2> QED BY <2>2, <2>3, <2>4, <2>5, CloseWithReplay, ResultFacts DEF Closing
<1>3. CASE YieldDirectStored
  <2>1. PICK e \in Effect :
          /\ KernelIs(Yield(e)) /\ e.id \in RuntimeDirect /\ HasEntry
          /\ \/ /\ ResumeFromStored
                /\ UNCHANGED <<inflight, pc, closed, chain, awaited, outcome>>
             \/ /\ ~DirectMatches(PeekYield.description, e)
                /\ Fail("DivergenceError") /\ UNCHANGED <<cursor, consumed>>
          /\ UNCHANGED <<program, yields, closes, index, faults, deploys>>
    BY <1>3 DEF YieldDirectStored
  <2>2. pc = "kernel" /\ cursor = Position /\ JournalIs(Len(consumed)) /\ pc \in Running
    BY <2>1 DEF KernelIs, Parts, PositionInv, Replay, MirrorInv, Running
  <2>3. CASE ResumeFromStored /\ UNCHANGED <<inflight, pc>>
    BY <2>1, <2>2, <2>3, ResumeReplay
  <2>4. CASE /\ ~DirectMatches(PeekYield.description, e)
             /\ Fail("DivergenceError") /\ UNCHANGED <<cursor, consumed>>
    <3>1. ~Undisturbed BY <2>1, <2>2, <2>4, DirectRepeats DEF Undisturbed
    <3> QED BY <2>1, <2>2, <2>4, <3>1, CloseWithReplay, ResultFacts DEF Closing, Fail
  <2> QED BY <2>1, <2>3, <2>4
<1>4. CASE YieldDirectLive
  <2>1. PICK e \in Effect :
          /\ KernelIs(Yield(e)) /\ e.id \in RuntimeDirect
          /\ chain' = [kind |-> "direct", effect |-> e]
    BY <1>4 DEF YieldDirectLive
  <2>2. /\ pc = "kernel" /\ pc' = "direct" /\ Same
        /\ UNCHANGED <<index, consumed, journal, awaited>>
    BY <1>4 DEF YieldDirectLive, KernelIs
  <2>3. chain'.effect = e BY <2>1
  <2>4. DispatchInv' BY <2>1, <2>2, <2>3 DEF DispatchInv, KernelIs
  <2> QED BY <1>0, <2>2, <2>4
    DEF Replay, ClosingInv, MirrorInv, JournalIs, ReturnedInv, Running
<1>5. CASE DirectReturns
  <2>1. /\ pc = "direct" /\ chain \in DirectDispatch
        /\ UNCHANGED <<program, yields, closes, index, faults, deploys>>
    BY <1>5 DEF DirectReturns, JournalInv, TypeOK
  <2>2. chain.effect \in Effect BY <2>1, ChainFacts
  <2>3. PICK r \in Result : Persist(YieldEvent(DirectIdentity(chain.effect), r))
    BY <1>5, <2>2, AnswersAssumption DEF DirectReturns
  <2> DEFINE event == YieldEvent(DirectIdentity(chain.effect), r)
  <2>4. event \in YieldEvents /\ event.description = DirectIdentity(chain.effect)
    BY <2>2, EventFacts, IdentityFacts DEF YieldEvent
  <2>5. /\ KernelStep(program, consumed) = Yield(chain.effect)
        /\ chain.effect.id \in RuntimeDirect
    BY <2>1 DEF Replay, DispatchInv
  <2>6. Journals(program, consumed, event.description)
    BY <2>2, <2>4, <2>5 DEF Journals
  <2>7. Len(consumed) = Len(yields) /\ JournalIs(Len(consumed)) /\ index.close = NoClose
    BY <2>1 DEF Parts, PositionInv, LengthInv, FlightInv, Stepping, Replay, MirrorInv
  <2> HIDE DEF event
  <2>8. Persist(event) BY <2>3 DEF event
  <2> QED BY <2>1, <2>4, <2>6, <2>7, <2>8, PersistReplay
<1>6. CASE YieldChain
  <2>1. PICK e \in Effect :
          /\ KernelIs(Yield(e)) /\ e.id \notin RuntimeDirect /\ ~PastClose
          /\ \/ /\ ~HasEntry /\ e.data \in Capabilities
                /\ Fail("SubscriptionCapabilityError")
             \/ /\ chain' = [kind |-> "chain", effect |-> e, entry |-> HasEntry,
                             start |-> cursor, answers |-> <<>>,
                             boundary |-> Identity(e)]
                /\ pc' = "max" /\ UNCHANGED <<inflight, journal, closed, awaited, outcome>>
    BY <1>6 DEF YieldChain
  <2>2. /\ pc = "kernel" /\ cursor = Position /\ JournalIs(Len(consumed))
        /\ UNCHANGED <<program, yields, closes, index, cursor, consumed, faults, deploys>>
    BY <1>6, <2>1 DEF YieldChain, KernelIs, Parts, PositionInv, Replay, MirrorInv
  <2>3. CASE /\ ~HasEntry /\ e.data \in Capabilities
             /\ Fail("SubscriptionCapabilityError")
    <3>1. Leaks(program, consumed) BY <2>1, <2>3 DEF Leaks, KernelIs
    <3>2. Ends(program, consumed, Error("SubscriptionCapabilityError"))
      BY <3>1 DEF Ends
    <3>3. Len(consumed) = Len(yields)
      BY <2>2, <2>3 DEF HasEntry, Parts, LengthInv, Position, Stepping
    <3> QED BY <2>2, <2>3, <3>2, <3>3, CloseWithReplay, ResultFacts DEF Closing, Fail
  <2>4. CASE /\ chain' = [kind |-> "chain", effect |-> e, entry |-> HasEntry,
                          start |-> cursor, answers |-> <<>>, boundary |-> Identity(e)]
             /\ pc' = "max" /\ UNCHANGED <<inflight, journal, closed, awaited, outcome>>
    <3>1. /\ chain'.effect = e /\ chain'.start = cursor /\ chain'.answers = <<>>
          /\ chain'.boundary = Identity(e)
      BY <2>4
    <3>2. DispatchInv' BY <2>1, <2>2, <2>4, <3>1 DEF DispatchInv, KernelIs
    <3>3. JournalIs(Len(consumed) + (cursor - chain.start))'
      BY <2>2, <2>4, <3>1 DEF JournalIs
    <3>4. MirrorInv' BY <2>4, <3>3 DEF MirrorInv
    <3> QED BY <1>0, <2>2, <2>4, <3>2, <3>4 DEF Replay, ClosingInv, ReturnedInv, Running
  <2> QED BY <2>1, <2>3, <2>4
<1>7. CASE LaneLive
  <2>1. PICK e \in Effect : /\ MaxIs(Next_(e)) /\ ~HasEntry
                           /\ chain' = [chain EXCEPT !.boundary = Identity(e)]
    BY <1>7 DEF LaneLive
  <2>2. /\ pc = "max" /\ pc' = "handler" /\ Same
        /\ UNCHANGED <<index, cursor, consumed, journal, awaited>>
    BY <1>7, <2>1 DEF LaneLive, MaxIs
  <2>3. chain.answers = <<>> BY <2>1, <2>2, NoSecondNext DEF MaxIs
  <2>4. cursor = chain.start /\ ~chain.entry
    BY <2>1, <2>2, <2>3, DispatchFacts DEF Parts, PositionInv, HasEntry, Position
  <2>5. /\ chain'.effect = chain.effect /\ chain'.entry = chain.entry
        /\ chain'.boundary = Identity(e)
    BY <2>1, <2>2, DispatchFacts DEF ChainDispatch
  <2>6. DispatchInv'
    BY <2>1, <2>2, <2>3, <2>5, DispatchFacts DEF DispatchInv, MaxIs
  <2>7. MirrorInv' BY <2>2, <2>4 DEF Replay, MirrorInv, JournalIs
  <2> QED BY <1>0, <2>2, <2>6, <2>7 DEF Replay, ClosingInv, ReturnedInv, Running
<1>8. CASE HandlerReturns
  <2>1. /\ pc = "handler" /\ pc' = "max" /\ Same
        /\ UNCHANGED <<index, cursor, consumed, journal, awaited>>
    BY <1>8 DEF HandlerReturns
  <2>2. [id |-> chain.boundary.id, data |-> chain.boundary.sha] \in Effect
    BY <2>1, DispatchFacts, ChainFacts DEF Effect
  <2>3. PICK r \in Result : chain' = Answer(r)
    BY <1>8, <2>2, AnswersAssumption DEF HandlerReturns
  <2>4. /\ chain'.effect = chain.effect /\ chain'.entry = chain.entry
        /\ chain'.boundary = chain.boundary /\ chain'.answers # <<>>
        /\ chain'.start = chain.start
    BY <2>1, <2>3, DispatchFacts
  <2>5. cursor = chain.start /\ ~chain.entry
    BY <2>1, DispatchFacts DEF Parts, PositionInv
  <2>6. DispatchInv' BY <2>1, <2>4, <2>5 DEF Replay, DispatchInv
  <2>7. JournalIs(Len(consumed)) BY <2>1 DEF Replay, MirrorInv
  <2>8. JournalIs(Len(consumed) + (cursor - chain.start))'
    BY <2>1, <2>4, <2>5, <2>7 DEF JournalIs
  <2>9. MirrorInv' BY <2>1, <2>8 DEF MirrorInv
  <2> QED BY <1>0, <2>1, <2>6, <2>9 DEF Replay, ClosingInv, ReturnedInv, Running
<1>9. CASE LaneReplay
  <2>1. PICK e \in Effect : MaxIs(Next_(e)) /\ HasEntry BY <1>9 DEF LaneReplay
  <2>2. /\ pc = "max" /\ pc' = "max" /\ Same /\ pc \in Running
        /\ cursor' = cursor + 1 /\ chain' = Answer(PeekYield.result)
        /\ journal' = Append(journal, PeekYield)
        /\ UNCHANGED <<index, consumed, awaited>>
    BY <1>9, <2>1 DEF LaneReplay, MaxIs, Running
  <2>3. chain.answers = <<>> BY <2>1, <2>2, NoSecondNext DEF MaxIs
  <2>4. cursor = chain.start /\ cursor = Position /\ chain.entry
    BY <2>1, <2>2, <2>3, DispatchFacts DEF Parts, PositionInv, HasEntry, Position
  <2>5. /\ PeekYield = yields[Len(consumed) + 1] /\ PeekYield \in Events
        /\ PeekYield.result \in Result
    BY <2>1, <2>2, <2>4, PeekFacts DEF Events
  <2> HIDE DEF PeekYield
  <2>6. /\ chain'.effect = chain.effect /\ chain'.entry = chain.entry
        /\ chain'.start = chain.start
    BY <2>2, <2>5, DispatchFacts
  <2>7. cursor' = chain'.start + 1 /\ chain'.start \in Nat
    <3>1. chain'.start = cursor BY <2>4, <2>6
    <3>2. cursor \in Nat OBVIOUS
    <3> QED BY <2>2, <3>1, <3>2
  <2>8. DispatchInv'
    <3>1. cursor' > chain'.start BY <2>7
    <3>2. /\ UNCHANGED <<program, consumed>> /\ chain'.entry
          /\ pc = "max" /\ pc' = "max" /\ chain'.effect = chain.effect
      BY <2>2, <2>4, <2>6
    <3>3. /\ KernelStep(program, consumed) = Yield(chain.effect)
          /\ chain.effect.id \notin RuntimeDirect
      BY <3>2 DEF Replay, DispatchInv
    <3> QED BY <3>1, <3>2, <3>3 DEF DispatchInv, Replayed
  <2>9. JournalIs(Len(consumed))
    BY <2>2, <2>4 DEF Replay, MirrorInv
  <2>10. MirrorInv'
    <3>1. /\ Len(journal') = Len(consumed) + 1
          /\ \A i \in 1..(Len(consumed) + 1) : journal'[i] = yields'[i]
      BY <2>2, <2>5, <2>9, MirrorEntry
    <3>2. cursor' - chain'.start = 1 BY <2>7
    <3>3. Len(consumed') = Len(consumed) BY <2>2
    <3> QED BY <2>2, <3>1, <3>2, <3>3 DEF MirrorInv, JournalIs
  <2> QED BY <1>0, <2>2, <2>8, <2>10 DEF Replay, ClosingInv, ReturnedInv, Running
<1>10. CASE LaneDiverge
  <2>1. PICK e \in Effect :
          MaxIs(Next_(e)) /\ HasEntry /\ ~Matches(PeekYield.description, e)
    BY <1>10 DEF LaneDiverge
  <2>2. /\ pc = "max" /\ pc' = "max" /\ Same
        /\ chain' = Answer(Error("DivergenceError"))
        /\ UNCHANGED <<index, cursor, consumed, journal, awaited>>
    BY <1>10, <2>1 DEF LaneDiverge, MaxIs
  <2>3. deploys # 0 BY <2>1, LaneMatches
  <2>4. chain.answers = <<>> BY <2>1, <2>2, NoSecondNext DEF MaxIs
  <2>5. chain.entry
    BY <2>1, <2>2, <2>4, DispatchFacts DEF Parts, PositionInv, HasEntry, Position
  <2>6. /\ chain'.effect = chain.effect /\ chain'.entry = chain.entry
        /\ chain'.start = chain.start
    BY <2>2, DispatchFacts, ResultFacts
  <2>7. DispatchInv' BY <2>2, <2>3, <2>5, <2>6, DispatchFacts DEF Replay, DispatchInv
  <2>8. MirrorInv' BY <2>2, <2>6 DEF Replay, MirrorInv, JournalIs
  <2> QED BY <1>0, <2>2, <2>7, <2>8 DEF Replay, ClosingInv, ReturnedInv, Running
<1>11. CASE ChainReplayed
  <2>1. /\ pc = "max" /\ pc' = "kernel" /\ Same /\ chain.entry /\ cursor > chain.start
        /\ consumed' = Append(consumed, index.yields[chain.start + 1].result)
        /\ UNCHANGED <<index, cursor, journal, awaited>>
    BY <1>11 DEF ChainReplayed, MaxReturns, MaxIs, Replayed
  <2>2. /\ cursor = chain.start + 1 /\ chain.start = Len(consumed)
        /\ Len(consumed) < Len(index.yields)
    BY <2>1, DispatchFacts DEF Parts, PositionInv, Position
  <2>3. index.yields[Len(consumed) + 1].result \in Result BY <2>2, EventFacts
  <2>4. Len(consumed') = Len(consumed) + 1 BY <2>1, <2>2, <2>3, AppendFact
  <2>5. JournalIs(Len(consumed) + 1)
    <3>1. Len(consumed) + (cursor - chain.start) = Len(consumed) + 1
      BY <2>2, <2>1, DispatchFacts
    <3> QED BY <2>1, <3>1 DEF Replay, MirrorInv
  <2>6. MirrorInv' BY <2>1, <2>4, <2>5 DEF MirrorInv, JournalIs
  <2> QED BY <1>0, <2>1, <2>6
    DEF Replay, DispatchInv, ClosingInv, ReturnedInv, Running
<1>12. CASE ChainNotReplayed
  <2>1. PICK r \in Result : MaxReturns(r) BY <1>12 DEF ChainNotReplayed
  <2>2. /\ pc = "max" /\ chain.entry /\ ~Replayed /\ pc \in Running
        /\ UNCHANGED <<program, yields, closes, index, faults, deploys>>
    BY <1>12, <2>1 DEF ChainNotReplayed, MaxReturns, MaxIs, Running
  <2>3. HasEntry /\ cursor = chain.start /\ cursor = Position
    BY <2>2, DispatchFacts DEF Parts, PositionInv, HasEntry, Replayed, Position
  <2>4. JournalIs(Len(consumed)) BY <2>2, <2>3 DEF Replay, MirrorInv
  <2>5. CASE ResumeFromStored /\ pc' = "kernel" /\ UNCHANGED inflight
    BY <2>2, <2>3, <2>4, <2>5, ResumeReplay
  <2>6. CASE /\ ~Matches(PeekYield.description, chain.effect)
             /\ Fail("DivergenceError") /\ UNCHANGED <<cursor, consumed>>
    <3>1. deploys = 0 => chain.answers = <<>> BY <2>2 DEF Replay, DispatchInv
    <3>2. ~Undisturbed BY <2>1, <2>2, <2>3, <2>6, <3>1, SourceMatches DEF Undisturbed
    <3> QED BY <2>2, <2>6, <3>2, CloseWithReplay, ResultFacts DEF Closing, Fail
  <2> QED BY <1>12, <2>5, <2>6 DEF ChainNotReplayed
<1>13. CASE ChainLive
  <2>1. PICK r \in Result : MaxReturns(r) /\ Persist(YieldEvent(chain.boundary, r))
    BY <1>13 DEF ChainLive
  <2>2. /\ pc = "max" /\ ~chain.entry
        /\ MaxStep(program, chain.effect, chain.answers) = Return(r)
        /\ UNCHANGED <<program, yields, closes, index, faults, deploys>>
    BY <1>13, <2>1 DEF ChainLive, MaxReturns, MaxIs
  <2> DEFINE event == YieldEvent(chain.boundary, r)
  <2>3. event \in YieldEvents /\ event.description = chain.boundary
    BY <2>2, DispatchFacts, ChainFacts, EventFacts DEF Description, YieldEvent
  <2>4. \/ chain.boundary = Identity(chain.effect) /\ chain.answers = <<>>
        \/ \E b \in Effect : /\ MaxStep(program, chain.effect, <<>>) = Next_(b)
                             /\ chain.boundary = Identity(b)
    BY <2>2 DEF Replay, DispatchInv
  <2>5. Journals(program, consumed, event.description)
    BY <2>2, <2>3, <2>4, DispatchFacts DEF Journals
  <2>6. /\ Len(consumed) = Len(yields) /\ index.close = NoClose /\ cursor = chain.start
    BY <2>2, DispatchFacts DEF Parts, PositionInv, LengthInv, FlightInv, Stepping
  <2>7. JournalIs(Len(consumed)) BY <2>2, <2>6, DispatchFacts DEF Replay, MirrorInv
  <2> HIDE DEF event
  <2>8. Persist(event) BY <2>1 DEF event
  <2> QED BY <2>2, <2>3, <2>5, <2>6, <2>7, <2>8, PersistReplay
<1>14. CASE KernelReturns
  <2>1. PICK v \in Values :
          /\ KernelIs(Done(v))
          /\ IF v \in Capabilities THEN Fail("SubscriptionCapabilityError")
             ELSE CloseWith(Ok(v), "closing")
    BY <1>14 DEF KernelReturns
  <2>2. /\ pc = "kernel" /\ KernelStep(program, consumed) = Done(v)
        /\ UNCHANGED <<program, yields, closes, index, cursor, consumed, faults, deploys>>
    BY <1>14, <2>1 DEF KernelReturns, KernelIs
  <2>3. JournalIs(Len(consumed)) BY <2>2 DEF Replay, MirrorInv
  <2>4. deploys = 0 => Len(consumed) = Len(yields) BY <2>2, StepFacts, EndOfJournal
  <2>5. CASE v \in Capabilities
    <3>1. Ends(program, consumed, Error("SubscriptionCapabilityError"))
      BY <2>2, <2>5 DEF Ends
    <3> QED BY <2>1, <2>2, <2>3, <2>4, <2>5, <3>1, CloseWithReplay, ResultFacts
      DEF Closing, Fail, Undisturbed
  <2>6. CASE v \notin Capabilities
    <3>1. Ends(program, consumed, Ok(v)) BY <2>2, <2>6 DEF Ends
    <3> QED BY <2>1, <2>2, <2>3, <2>4, <2>6, <3>1, CloseWithReplay, ResultFacts
      DEF Closing, Undisturbed
  <2> QED BY <2>5, <2>6
<1>15. CASE KernelThrows
  <2>1. PICK x \in Errors : KernelIs(Throw(x)) /\ Fail(x) BY <1>15 DEF KernelThrows
  <2>2. /\ pc = "kernel" /\ KernelStep(program, consumed) = Throw(x)
        /\ UNCHANGED <<program, yields, closes, index, cursor, consumed, faults, deploys>>
    BY <1>15, <2>1 DEF KernelThrows, KernelIs
  <2>3. JournalIs(Len(consumed)) BY <2>2 DEF Replay, MirrorInv
  <2>4. deploys = 0 => Len(consumed) = Len(yields) BY <2>2, StepFacts, EndOfJournal
  <2>5. Ends(program, consumed, Error(x)) BY <2>2 DEF Ends
  <2> QED BY <2>1, <2>2, <2>3, <2>4, <2>5, CloseWithReplay, ResultFacts
    DEF Closing, Fail, Undisturbed
<1>16. CASE Storage
  <2>1. PICK event \in inflight : YieldDurable(event) \/ CloseDurable(event)
    BY <1>16 DEF Storage
  <2>2. event \in Events BY DEF JournalInv, TypeOK, Events
  <2> QED BY <2>1, <2>2, YieldDurableReplay, CloseDurableReplay
<1>17. CASE AppendFails
  <2>1. PICK event \in inflight : Awaiting(event) BY <1>17 DEF AppendFails
  <2>2. /\ UNCHANGED <<program, yields, closes, index, consumed, journal, deploys>>
        /\ faults' = faults + 1 /\ pc \in Running
    BY <1>17, <2>1 DEF AppendFails, Awaiting, Running
  <2>3. ~Undisturbed' BY <2>2 DEF Undisturbed
  <2>4. EndedInv' BY <2>3 DEF EndedInv, EndedBy
  <2> DEFINE close == CloseEvent(Error("AppendError"))
  <2>5. close.type = "close" /\ close.result = Error("AppendError")
    BY ResultFacts, EventFacts
  <2> HIDE DEF close
  <2>6. \A n : Told(n)' = Told(n) BY <2>2 DEF Told
  <2>7. \A other \in inflight' : other \in inflight \/ other = close
    BY <1>17 DEF AppendFails, close
  <2>8. RecordedInv' BY <2>2, <2>5, <2>6, <2>7 DEF Replay, RecordedInv
  <2>9. \/ pc' = "failing" /\ awaited' = close
        \/ pc' = "exited" /\ outcome' = [status |-> "threw"]
    BY <1>17 DEF AppendFails, close
  <2>10. ClosingInv'
    BY <2>2, <2>3, <2>5, <2>9, ResultFacts DEF Replay, ClosingInv, Running
  <2>11. ReturnedInv'
    BY <2>9, EndFacts, ResultFacts DEF ReturnedInv
  <2> QED BY <2>3, <2>4, <2>8, <2>9, <2>10, <2>11 DEF Replay, DispatchInv, MirrorInv
<1>18. CASE Halt
  <2>1. /\ UNCHANGED <<program, yields, closes, index, cursor, consumed, faults, deploys>>
        /\ \/ closed /\ pc' = "exited" /\ outcome' = [status |-> "halted"]
              /\ UNCHANGED inflight
           \/ ~closed /\ CloseWith(Cancelled, "halting")
        /\ pc \in {"max", "handler", "direct", "append", "closing", "failing"}
    BY <1>18 DEF Halt
  <2>2. CASE closed /\ pc' = "exited" /\ outcome' = [status |-> "halted"]
             /\ UNCHANGED inflight
    <3>1. ReturnedInv' BY <2>2, EndFacts, ResultFacts DEF ReturnedInv
    <3> QED BY <1>0, <2>1, <2>2, <3>1
      DEF Replay, DispatchInv, ClosingInv, MirrorInv, Running
  <2>3. CASE ~closed /\ CloseWith(Cancelled, "halting")
    <3>1. pc \notin {"closing", "failing"} BY <2>3 DEF Parts, FlightInv, Closing
    <3> QED BY <2>1, <2>3, <3>1, CloseWithReplay, ResultFacts DEF Closing
  <2> QED BY <2>1, <2>2, <2>3
<1>19. CASE Crash
  <2>1. /\ pc' = "down" /\ inflight' = {}
        /\ UNCHANGED <<program, yields, closes, faults, deploys>>
    BY <1>19 DEF Crash
  <2>2. \A n : Told(n)' = Told(n) BY <2>1 DEF Told
  <2>3. RecordedInv' /\ EndedInv'
    BY <2>1, <2>2 DEF Replay, RecordedInv, EndedInv, EndedBy, Undisturbed
  <2> QED BY <2>1, <2>3 DEF Replay, DispatchInv, ClosingInv, MirrorInv, ReturnedInv, Running
<1>20. CASE Deploy
  <2>1. /\ deploys' = deploys + 1 /\ pc \in {"down", "exited"}
        /\ UNCHANGED <<yields, closes, inflight, pc, outcome>>
    BY <1>20 DEF Deploy
  <2>2. deploys' # 0 /\ ~Undisturbed' BY <2>1 DEF Undisturbed
  <2>3. RecordedInv' /\ EndedInv' /\ ReturnedInv'
    BY <2>1, <2>2 DEF Replay, RecordedInv, EndedInv, EndedBy, ReturnedInv
  <2> QED BY <2>1, <2>3 DEF Replay, DispatchInv, ClosingInv, MirrorInv, Running
<1>21. CASE UNCHANGED vars
  BY <1>0, <1>21 DEF vars, Replay, DispatchInv, ClosingInv, MirrorInv, ReturnedInv,
     Running, Undisturbed, JournalIs, Replayed
<1> QED
  BY <1>1, <1>2, <1>3, <1>4, <1>5, <1>6, <1>7, <1>8, <1>9, <1>10, <1>11, <1>12,
     <1>13, <1>14, <1>15, <1>16, <1>17, <1>18, <1>19, <1>20, <1>21
  DEF Next, Driver, Handler, Fault

LEMMA ReplayInit == Init => ReplayInv
<1> SUFFICES ASSUME Init PROVE ReplayInv
  OBVIOUS
<1>1. JournalInv BY JournalInvInit
<1>2. pc = "down" /\ inflight = {} /\ yields = <<>> /\ closes = <<>> BY DEF Init
<1>3. Len(yields) = 0 /\ Len(closes) = 0 BY <1>2
<1>4. DispatchInv /\ ClosingInv /\ MirrorInv /\ ReturnedInv
  BY <1>2 DEF DispatchInv, ClosingInv, MirrorInv, ReturnedInv, Running
<1>5. RecordedInv /\ EndedInv BY <1>2, <1>3 DEF RecordedInv, EndedInv
<1> QED BY <1>1, <1>4, <1>5 DEF ReplayInv

LEMMA ReplayInvStep == SingleNext /\ ReplayInv /\ [Next]_vars => ReplayInv'
<1> SUFFICES ASSUME SingleNext, ReplayInv, [Next]_vars PROVE ReplayInv'
  OBVIOUS
<1>1. JournalInv' BY JournalInvStep DEF ReplayInv
<1>2. Replay' BY ReplayStep
<1> QED BY <1>1, <1>2 DEF ReplayInv, Replay

-----------------------------------------------------------------------------
(* Theorems *)

\* In every reachable state the journal is what the program would write again:
\* its Yields are the program's own questions in order, its Close is where the
\* program ends, and the in-memory journal is a copy of it.
THEOREM ReplayCorrect == SingleNext => (Spec => []ReplayInv)
<1> SUFFICES ASSUME SingleNext PROVE Spec => []ReplayInv
  OBVIOUS
<1>1. Init => ReplayInv BY ReplayInit
<1>2. ReplayInv /\ [Next]_vars => ReplayInv' BY ReplayInvStep
<1> QED BY <1>1, <1>2, PTL DEF Spec

\* What a run that returned has in its journal is the durable stream.
LEMMA ReturnedJournal ==
  ASSUME ReplayInv, ~Leaking
  PROVE  ExactReplay
<1> SUFFICES ASSUME pc = "exited", outcome \in Result, Undisturbed
             PROVE  journal = StreamEvents
  BY DEF ExactReplay
<1> USE ReplayFacts
<1>1. /\ closes # <<>> /\ outcome = closes[Len(closes)].result
      /\ Len(journal) = Len(yields) + 1
      /\ \A i \in 1..Len(yields) : journal[i] = yields[i]
      /\ journal[Len(yields) + 1] = CloseEvent(outcome)
  BY DEF Replay, ReturnedInv
<1>2. Len(closes) = 1 /\ closes[1].result = outcome BY <1>1, LastClose
<1> DEFINE tail == [i \in 1..Len(closes) |-> CloseEvent(closes[i].result)]
<1>3. tail = <<CloseEvent(outcome)>>
  <2>1. tail = [i \in 1..1 |-> CloseEvent(closes[i].result)] BY <1>2
  <2> HIDE DEF tail, CloseEvent
  <2> QED BY <1>2, <2>1
<1>4. StreamEvents = Append(yields, CloseEvent(outcome))
  <2>1. StreamEvents = yields \o <<CloseEvent(outcome)>> BY <1>3 DEF StreamEvents
  <2>2. CloseEvent(outcome) \in Events /\ yields \in Seq(Events)
    BY EventFacts DEF Events, Final
  <2> HIDE DEF CloseEvent
  <2> QED BY <2>1, <2>2
<1>5. CloseEvent(outcome) \in Events /\ yields \in Seq(Events) /\ journal \in Seq(Events)
  BY EventFacts DEF Events, Final
<1> HIDE DEF CloseEvent, tail
<1> DEFINE stream == Append(yields, CloseEvent(outcome))
<1>6. /\ stream \in Seq(Events) /\ Len(stream) = Len(yields) + 1
      /\ \A i \in 1..Len(yields) : stream[i] = yields[i]
      /\ stream[Len(yields) + 1] = CloseEvent(outcome)
  BY <1>5, AppendFact
<1> HIDE DEF stream
<1>7. journal = stream
  <2>1. \A i \in 1..Len(journal) : journal[i] = stream[i]
    <3>1. \A i \in 1..Len(journal) : i \in 1..Len(yields) \/ i = Len(yields) + 1
      BY <1>1
    <3> QED BY <1>1, <1>6, <3>1
  <2> QED BY <1>1, <1>5, <1>6, <2>1
<1> QED BY <1>4, <1>7 DEF stream

\* Exact replay: as long as no handle is passed to an agent after the last
\* journaled effect, the journal a run returns is the durable stream, event for
\* event, whatever crashes, cancellations and replays came before.
THEOREM ExactReplayHolds == SingleNext => (Spec => [](~Leaking => ExactReplay))
<1>1. ReplayInv => (~Leaking => ExactReplay) BY ReturnedJournal
<1> QED BY <1>1, ReplayCorrect, PTL

\* A coroutine that has closed gives that result on every later run, under the
\* same condition.
THEOREM ClosedResultReplayedHolds ==
  SingleNext => (Spec => [](~Leaking => ClosedResultReplayed))
<1>1. ASSUME ReplayInv, ~Leaking PROVE ClosedResultReplayed
  BY <1>1, ReplayFacts DEF ClosedResultReplayed, Replay, ReturnedInv, Final
<1> QED BY <1>1, ReplayCorrect, PTL

\* A run over its program's own journal ends in DivergenceError only if the
\* program raises that error itself, or leaks a handle (condition RV2 looks at
\* the frontier only, where a replay finds the Close that the refusal wrote).
THEOREM NoFalseDivergenceHolds ==
  SingleNext =>
    (Spec => [](~Leaking /\ KernelStep(program, Told(Len(yields))) # Throw("DivergenceError")
                  => NoFalseDivergence))
<1>1. ASSUME ReplayInv, ~Leaking,
             KernelStep(program, Told(Len(yields))) # Throw("DivergenceError")
      PROVE  NoFalseDivergence
  <2> SUFFICES ASSUME pc = "exited", Undisturbed, outcome = Error("DivergenceError")
               PROVE  FALSE
    BY DEF NoFalseDivergence
  <2>1. outcome \in Result BY ResultFacts
  <2>2. closes # <<>> /\ outcome = closes[Len(closes)].result
    BY <1>1, <2>1, ReplayFacts DEF Replay, ReturnedInv
  <2>3. outcome # Cancelled BY <2>1, EndFacts
  <2>4. Ends(program, Told(Len(yields)), outcome)
    BY <1>1, <2>2, <2>3, LastClose DEF EndedBy
  <2>5. Error("SubscriptionCapabilityError") # outcome BY DEF Error
  <2> QED BY <1>1, <2>4, <2>5, EndFacts DEF Ends, Leaking
<1>2. ReplayInv =>
        (~Leaking /\ KernelStep(program, Told(Len(yields))) # Throw("DivergenceError")
           => NoFalseDivergence)
  BY <1>1
<1> QED BY <1>2, ReplayCorrect, PTL

-----------------------------------------------------------------------------
(* Refinement *)

\* A Close with a value is in flight only while the driver awaits it.
LEMMA AwaitedReturnStep ==
  ASSUME ReplayInv, AwaitedReturn, [Next]_vars
  PROVE  AwaitedReturn'
<1> SUFFICES ASSUME ~Asynchronous PROVE AwaitedReturn'
  BY DEF AwaitedReturn
<1> USE ReplayFacts DEF AwaitedReturn
<1>0. /\ \A r : CloseEvent(r).type = "close" /\ CloseEvent(r).result = r
      /\ \A d, r : YieldEvent(d, r).type = "yield"
  BY DEF CloseEvent, YieldEvent
<1> HIDE DEF CloseEvent, YieldEvent
<1>1. /\ \A event \in inflight : event.type = "close" => event = awaited
      /\ pc \in {"kernel", "max", "handler", "direct"} => inflight = {}
      /\ pc \in {"closing", "failing"} => inflight = {awaited}
      /\ pc = "append" => inflight = {awaited} /\ awaited.type = "yield"
  BY DEF Parts, FlightInv
<1>2. ASSUME NEW result, NEW at, CloseWith(result, at), result.status = "ok" => at = "closing",
             inflight = {}
      PROVE  AwaitedReturn'
  <2>1. ASSUME NEW event \in inflight', event.type = "close", event.result.status = "ok"
        PROVE  pc' = "closing"
    <3>1. event = CloseEvent(result) /\ pc' = at BY <1>2, <2>1 DEF CloseWith
    <3> QED BY <1>0, <1>2, <2>1, <3>1
  <2> QED BY <2>1
<1>3. ASSUME NEW x, Fail(x), inflight = {} PROVE AwaitedReturn'
  <2>1. Error(x).status # "ok" BY DEF Error
  <2> QED BY <1>2, <1>3, <2>1 DEF Fail
<1>4. ASSUME NEW event, Persist(event), event.type = "yield", inflight = {}
      PROVE  AwaitedReturn'
  BY <1>4 DEF Persist
<1>5. CASE Boot BY <1>5 DEF Boot
<1>6. CASE Driver
  <2>1. inflight = {} BY <1>1, <1>6 DEF Driver, YieldPastClose, YieldDirectStored, YieldDirectLive,
    YieldChain, LaneLive, LaneReplay, LaneDiverge, ChainReplayed, ChainNotReplayed,
    ChainLive, KernelReturns, KernelThrows, KernelIs, MaxIs, MaxReturns
  <2>2. ASSUME inflight' = {} PROVE AwaitedReturn'
    BY <2>2
  <2>3. CASE YieldPastClose BY <1>3, <2>1, <2>3 DEF YieldPastClose
  <2>4. CASE YieldDirectStored BY <1>3, <2>1, <2>2, <2>4 DEF YieldDirectStored
  <2>5. CASE YieldDirectLive BY <2>1, <2>2, <2>5 DEF YieldDirectLive
  <2>6. CASE YieldChain BY <1>3, <2>1, <2>2, <2>6 DEF YieldChain
  <2>7. CASE LaneLive BY <2>1, <2>2, <2>7 DEF LaneLive
  <2>8. CASE LaneReplay BY <2>1, <2>2, <2>8 DEF LaneReplay
  <2>9. CASE LaneDiverge BY <2>1, <2>2, <2>9 DEF LaneDiverge
  <2>10. CASE ChainReplayed BY <2>1, <2>2, <2>10 DEF ChainReplayed
  <2>11. CASE ChainNotReplayed BY <1>3, <2>1, <2>2, <2>11 DEF ChainNotReplayed
  <2>12. CASE ChainLive
    <3>1. PICK r \in Result : Persist(YieldEvent(chain.boundary, r))
      BY <2>12 DEF ChainLive
    <3> QED BY <1>0, <1>4, <2>1, <3>1
  <2>13. CASE KernelReturns
    <3>1. PICK v \in Values : IF v \in Capabilities THEN Fail("SubscriptionCapabilityError")
                              ELSE CloseWith(Ok(v), "closing")
      BY <2>13 DEF KernelReturns
    <3> QED BY <1>2, <1>3, <2>1, <3>1
  <2>14. CASE KernelThrows BY <1>3, <2>1, <2>14 DEF KernelThrows
  <2> QED BY <1>6, <2>3, <2>4, <2>5, <2>6, <2>7, <2>8, <2>9, <2>10, <2>11, <2>12,
             <2>13, <2>14 DEF Driver
<1>7. CASE DirectReturns
  <2>1. PICK r : Persist(YieldEvent(DirectIdentity(chain.effect), r))
    BY <1>7 DEF DirectReturns
  <2>2. pc = "direct" BY <1>7 DEF DirectReturns
  <2> QED BY <1>0, <1>1, <1>4, <2>1, <2>2
<1>8. CASE HandlerReturns BY <1>8 DEF HandlerReturns
<1>9. CASE Storage
  <2>1. PICK event \in inflight : YieldDurable(event) \/ CloseDurable(event)
    BY <1>9 DEF Storage
  <2> QED BY <1>1, <2>1 DEF YieldDurable, CloseDurable
<1>10. CASE AppendFails
  <2> DEFINE close == CloseEvent(Error("AppendError"))
  <2>1. close.result.status # "ok" BY <1>0 DEF Error
  <2> HIDE DEF close
  <2>2. \/ inflight' \subseteq {close} \union {}
        \/ \E event \in inflight : Awaiting(event) /\ inflight' = inflight \ {event}
    BY <1>1, <1>10 DEF AppendFails, close, Awaiting
  <2>3. \A event \in inflight' : event.type = "close" => event.result.status # "ok"
    BY <1>1, <2>1, <2>2 DEF Awaiting
  <2> QED BY <2>3
<1>11. CASE Halt
  <2>1. inflight = {} BY <1>1, <1>11 DEF Halt
  <2>2. Cancelled.status # "ok" BY DEF Cancelled
  <2> QED BY <1>2, <1>11, <2>1, <2>2 DEF Halt
<1>12. CASE Crash BY <1>12 DEF Crash
<1>13. CASE Deploy BY <1>13 DEF Deploy
<1>14. CASE UNCHANGED vars BY <1>14 DEF vars
<1> QED BY <1>5, <1>6, <1>7, <1>8, <1>9, <1>10, <1>11, <1>12, <1>13, <1>14
  DEF Next, Handler, Fault

\* A step that adds nothing to the durable journal is a stutter.
LEMMA Stutters ==
  ASSUME UNCHANGED <<program, yields, closes, deploys>>
  PROVE  UNCHANGED Workflow!vars
<1>1. Recorded' = Recorded
  <2>1. \A i \in 1..Len(yields) : yields'[i].result = yields[i].result OBVIOUS
  <2> QED BY <2>1 DEF Recorded, Told
<1>2. Status' = Status BY DEF Status
<1> QED BY <1>1, <1>2 DEF Workflow!vars

\* The results of the journal, and the journal after one more.
LEMMA RecordedFacts ==
  ASSUME ReplayInv
  PROVE  /\ Recorded \in Seq(Result) /\ Len(Recorded) = Len(yields)
         /\ \A n \in 0..Len(yields) : SubSeq(Recorded, 1, n) = Told(n)
         /\ \A event \in YieldEvents :
              yields' = Append(yields, event) => Recorded' = Append(Recorded, event.result)
<1> USE ReplayFacts
<1>1. \A i \in 1..Len(yields) : yields[i].result \in Result
  BY EventFacts
<1>2. Recorded \in Seq(Result) /\ Len(Recorded) = Len(yields)
  BY <1>1 DEF Recorded, Told
<1>3. ASSUME NEW n \in 0..Len(yields) PROVE SubSeq(Recorded, 1, n) = Told(n)
  <2>1. \A i \in 1..n : Recorded[i] = yields[i].result BY DEF Recorded, Told
  <2>2. /\ SubSeq(Recorded, 1, n) \in Seq(Result) /\ Len(SubSeq(Recorded, 1, n)) = n
        /\ \A i \in 1..n : SubSeq(Recorded, 1, n)[i] = Recorded[i]
    BY <1>2
  <2>3. SubSeq(Recorded, 1, n) = [i \in 1..n |-> SubSeq(Recorded, 1, n)[i]]
    BY <2>2
  <2> QED BY <2>1, <2>2, <2>3 DEF Told
<1>4. ASSUME NEW event \in YieldEvents, yields' = Append(yields, event)
      PROVE  Recorded' = Append(Recorded, event.result)
  <2> DEFINE more == Append(Recorded, event.result)
  <2>1. /\ Len(yields') = Len(yields) + 1 /\ yields'[Len(yields) + 1] = event
        /\ \A i \in 1..Len(yields) : yields'[i] = yields[i]
    BY <1>4, AppendFact
  <2>2. event.result \in Result BY EventFacts
  <2>3. /\ more \in Seq(Result) /\ Len(more) = Len(yields) + 1
        /\ more[Len(yields) + 1] = event.result
        /\ \A i \in 1..Len(yields) : more[i] = Recorded[i]
    BY <1>2, <2>2, AppendFact
  <2> HIDE DEF more
  <2>4. \A i \in 1..(Len(yields) + 1) : yields'[i].result = more[i]
    <3>1. \A i \in 1..Len(yields) : Recorded[i] = yields[i].result BY DEF Recorded, Told
    <3>2. \A i \in 1..(Len(yields) + 1) : i \in 1..Len(yields) \/ i = Len(yields) + 1
      OBVIOUS
    <3> QED BY <2>1, <2>3, <3>1, <3>2
  <2>5. more = [i \in 1..(Len(yields) + 1) |-> more[i]] BY <2>3
  <2> QED BY <2>1, <2>4, <2>5 DEF Recorded, Told, more
<1> QED BY <1>2, <1>3, <1>4

\* A Yield that becomes durable records the result of the effect the workflow
\* waits for.
LEMMA YieldRecords ==
  ASSUME ReplayInv, ~Asynchronous, NEW event \in inflight, YieldDurable(event)
  PROVE  Workflow!Next
<1> USE ReplayFacts DEF counters
<1>1. /\ event.type = "yield" /\ yields' = Append(yields, event)
      /\ UNCHANGED <<program, closes, deploys>>
  BY DEF YieldDurable
<1>2. event \in YieldEvents /\ event.result \in Result
  BY <1>1, EventFacts DEF JournalInv, TypeOK
<1>3. pc = "append" BY <1>1 DEF Parts, FlightInv
<1>4. closes = <<>> /\ Len(consumed) = Len(yields)
  BY <1>3 DEF Parts, FlightInv, IndexInv, PositionInv, LengthInv, Running, Stepping
<1>5. \E e \in Effect : KernelStep(program, Recorded) = Yield(e)
  BY <1>3, <1>4, JournalsYields DEF Replay, DispatchInv, Recorded
<1>6. Recorded' = Append(Recorded, event.result) BY <1>1, <1>2, RecordedFacts
<1>7. Status = NoClose /\ Status' = NoClose BY <1>1, <1>4 DEF Status
<1>8. Workflow!Record(event.result)
  BY <1>1, <1>5, <1>6, <1>7 DEF Workflow!Record, KernelYields
<1> QED BY <1>2, <1>8 DEF Workflow!Next

\* A Close that becomes durable is the workflow's return, a return over the
\* log of another version, or an abandoned run.
LEMMA CloseFinishes ==
  ASSUME ReplayInv, AwaitedReturn, ~Asynchronous, NEW event \in inflight,
         CloseDurable(event)
  PROVE  Workflow!Next
<1> USE ReplayFacts DEF counters
<1> DEFINE close == [result |-> event.result, after |-> Len(yields)]
<1>1. /\ event.type = "close" /\ closes' = Append(closes, close)
      /\ UNCHANGED <<program, yields, deploys>>
  BY DEF CloseDurable
<1>2. closes = <<>> /\ event = awaited BY <1>1 DEF Parts, FlightInv
<1>3. event.result \in Final
  <2>1. event \in CloseEvents BY <1>1, EventFacts DEF JournalInv, TypeOK
  <2> QED BY <2>1, EventFacts
<1>4. Status = NoClose /\ Status' = event.result
  <2>1. closes' = <<close>> BY <1>1, <1>2
  <2>2. Len(closes') = 1 /\ closes'[1] = close /\ closes' # <<>> BY <2>1
  <2> QED BY <1>2, <2>2 DEF Status
<1>5. Recorded' = Recorded
  <2>1. \A i \in 1..Len(yields) : yields'[i].result = yields[i].result BY <1>1
  <2> QED BY <1>1, <2>1 DEF Recorded, Told
<1>6. CASE event.result.status # "ok"
  <2>1. Workflow!Abandon(event.result)
    BY <1>1, <1>4, <1>5, <1>6 DEF Workflow!Abandon
  <2> QED BY <1>3, <2>1 DEF Workflow!Next
<1>7. CASE event.result.status = "ok"
  <2>1. pc = "closing" BY <1>1, <1>7 DEF AwaitedReturn
  <2>2. PICK v \in Values : KernelStep(program, consumed) = Done(v) /\ event.result = Ok(v)
    BY <1>2, <2>1 DEF Replay, ClosingInv
  <2>3. KernelEnds(program, Told(Len(consumed)), event.result)
    BY <2>2 DEF KernelEnds
  <2>4. CASE Len(consumed) = Len(yields)
    <3>1. Workflow!Return(event.result)
      BY <1>1, <1>4, <1>5, <2>3, <2>4 DEF Workflow!Return, Recorded
    <3> QED BY <1>3, <3>1 DEF Workflow!Next
  <2>5. CASE Len(consumed) # Len(yields)
    <3>1. deploys > 0
      <4>1. \A e \in Effect : KernelStep(program, consumed) # Yield(e)
        BY <2>2, StepFacts
      <4> QED BY <2>5, <4>1, EndOfJournal
    <3>2. Len(consumed) \in 0..Len(Recorded)
          /\ SubSeq(Recorded, 1, Len(consumed)) = Told(Len(consumed))
      <4>1. Len(consumed) \in 0..Len(yields) OBVIOUS
      <4> QED BY <4>1, RecordedFacts
    <3>3. Workflow!ReturnEarly(event.result)
      BY <1>1, <1>4, <1>5, <2>3, <3>1, <3>2 DEF Workflow!ReturnEarly
    <3> QED BY <1>3, <3>3 DEF Workflow!Next
  <2> QED BY <2>4, <2>5
<1> QED BY <1>6, <1>7

LEMMA RefinementStep ==
  ASSUME ReplayInv, AwaitedReturn, ~Asynchronous, [Next]_vars
  PROVE  [Workflow!Next]_(Workflow!vars)
<1> USE DEF durable, counters
<1>1. CASE Storage BY <1>1, YieldRecords, CloseFinishes DEF Storage
<1>2. CASE Deploy
  <2>1. /\ program' \in Programs /\ deploys' = deploys + 1 /\ UNCHANGED <<yields, closes>>
    BY <1>2 DEF Deploy
  <2>2. Recorded' = Recorded /\ Status' = Status
    <3>1. \A i \in 1..Len(yields) : yields'[i].result = yields[i].result BY <2>1
    <3> QED BY <2>1, <3>1 DEF Recorded, Told, Status
  <2>3. (deploys > 0)' = TRUE BY <2>1, ReplayFacts
  <2>4. Workflow!Deploy(program') BY <2>1, <2>2, <2>3 DEF Workflow!Deploy
  <2> QED BY <2>1, <2>4 DEF Workflow!Next
<1>3. CASE Driver
  BY <1>3, Stutters DEF Driver, YieldPastClose, YieldDirectStored, YieldDirectLive, YieldChain,
     LaneLive, LaneReplay, LaneDiverge, ChainReplayed, ChainNotReplayed, ChainLive,
     KernelReturns, KernelThrows
<1>4. CASE Boot \/ Handler \/ Crash \/ Halt \/ AppendFails
  BY <1>4, Stutters DEF Boot, Handler, DirectReturns, HandlerReturns, Crash, Halt, AppendFails
<1>5. CASE UNCHANGED vars BY <1>5, Stutters DEF vars
<1> QED BY <1>1, <1>2, <1>3, <1>4, <1>5 DEF Next, Fault

\* The driver, with its crashes, replays, cancellations and failed appends over
\* a stream whose appends cannot be interrupted, implements the workflow that
\* records each result once and for good.
THEOREM WorkflowImplemented ==
  SingleNext /\ ~Asynchronous => (Spec => ImplementsWorkflow)
<1> SUFFICES ASSUME SingleNext, ~Asynchronous PROVE Spec => Workflow!Spec
  BY DEF ImplementsWorkflow
<1>1. Init => Workflow!Init
  <2> SUFFICES ASSUME Init PROVE Workflow!Init
    OBVIOUS
  <2>1. program \in Programs /\ yields = <<>> /\ closes = <<>> /\ deploys = 0
    BY DEF Init
  <2>2. Recorded = <<>> BY <2>1 DEF Recorded, Told
  <2>3. Status = NoClose BY <2>1 DEF Status
  <2>4. (deploys > 0) = FALSE BY <2>1
  <2> QED BY <2>1, <2>2, <2>3, <2>4 DEF Workflow!Init
<1>2. Init => AwaitedReturn BY DEF Init, AwaitedReturn
<1>3. ReplayInv /\ AwaitedReturn /\ [Next]_vars => AwaitedReturn' BY AwaitedReturnStep
<1>4. ReplayInv /\ AwaitedReturn /\ [Next]_vars => [Workflow!Next]_(Workflow!vars)
  BY RefinementStep
<1>5. Spec => []ReplayInv BY ReplayCorrect
<1> QED BY <1>1, <1>2, <1>3, <1>4, <1>5, PTL DEF Spec, Workflow!Spec
=============================================================================
