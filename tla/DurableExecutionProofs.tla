----------------------- MODULE DurableExecutionProofs -----------------------
(***************************************************************************)
(* Proofs about DurableExecution, for every set of programs, every kernel  *)
(* and middleware, and any number of runs, crashes and failed appends.     *)
(***************************************************************************)
EXTENDS DurableExecution, SequenceTheorems, TLAPS

-----------------------------------------------------------------------------
(* Facts about the data *)

LEMMA ResultFacts ==
  /\ \A v \in Values : Ok(v) \in Result
  /\ \A x \in Errors : Error(x) \in Result
  /\ Error("DivergenceError") \in Result
  /\ Error("SubscriptionCapabilityError") \in Result
  /\ Error("AppendError") \in Result
  /\ Result \subseteq Final /\ Final \subseteq Outcome
  /\ Cancelled \in Final
  /\ [status |-> "none"] \in Outcome /\ [status |-> "halted"] \in Outcome
  /\ [status |-> "threw"] \in Outcome /\ [status |-> "malformed"] \in Outcome
BY ConstantsAssumption DEF Result, Final, Outcome

LEMMA EventFacts ==
  /\ \A e \in YieldEvents : e.type = "yield" /\ e.result \in Result
                            /\ e.description \in Description
  /\ \A e \in CloseEvents : e.type = "close" /\ e.result \in Final
  /\ \A r \in Final : CloseEvent(r) \in CloseEvents /\ CloseEvent(r).type = "close"
                      /\ CloseEvent(r).result = r
  /\ \A d \in Description, r \in Result :
       YieldEvent(d, r) \in YieldEvents /\ YieldEvent(d, r).result = r
BY DEF YieldEvents, CloseEvents, YieldEvent, CloseEvent

LEMMA AppendFact ==
  ASSUME NEW S, NEW s \in Seq(S), NEW e \in S
  PROVE  /\ Append(s, e) \in Seq(S)
         /\ Len(Append(s, e)) = Len(s) + 1
         /\ Append(s, e)[Len(s) + 1] = e
         /\ \A i \in 1..Len(s) : Append(s, e)[i] = s[i]
OBVIOUS

LEMMA IdentityFacts ==
  \A e \in Effect : /\ Identity(e) \in [id : Ids, sha : Payloads]
                    /\ Identity(e) \in Description
                    /\ DirectIdentity(e) \in Description
BY DEF Effect, Identity, DirectIdentity, Description

-----------------------------------------------------------------------------
(* Type correctness *)

Events == YieldEvents \union CloseEvents
Chains == {Idle} \union DirectDispatch \union ChainDispatch

LEMMA ChainFacts ==
  /\ Idle \in Chains
  /\ \A e \in Effect : [kind |-> "direct", effect |-> e] \in DirectDispatch
  /\ \A d \in DirectDispatch : d.effect \in Effect /\ d.kind = "direct"
  /\ \A e \in Effect, b \in BOOLEAN, n \in Nat :
       [kind |-> "chain", effect |-> e, entry |-> b, start |-> n,
        answers |-> <<>>, boundary |-> Identity(e)] \in ChainDispatch
  /\ \A c \in ChainDispatch :
       /\ c.kind = "chain" /\ c.effect \in Effect /\ c.entry \in BOOLEAN
       /\ c.start \in Nat /\ c.answers \in Seq(Result)
       /\ c.boundary \in [id : Ids, sha : Payloads]
       /\ \A e \in Effect :
            LET d == [c EXCEPT !.boundary = Identity(e)] IN
            /\ d \in ChainDispatch /\ d.entry = c.entry /\ d.start = c.start
            /\ d.answers = c.answers
       /\ \A r \in Result :
            LET d == [c EXCEPT !.answers = Append(@, r)] IN
            /\ d \in ChainDispatch /\ d.entry = c.entry /\ d.start = c.start
            /\ d.answers = Append(c.answers, r) /\ d.effect = c.effect
  /\ DirectDispatch \subseteq Chains /\ ChainDispatch \subseteq Chains
<1>1. \A e \in Effect : Identity(e) \in [id : Ids, sha : Payloads] BY IdentityFacts
<1>2. \A c \in ChainDispatch, r \in Result : Append(c.answers, r) \in Seq(Result)
  BY DEF ChainDispatch
<1> HIDE DEF Identity
<1> QED BY <1>1, <1>2 DEF Chains, ChainDispatch, DirectDispatch

LEMMA CloseWithType ==
  ASSUME TypeOK, NEW result \in Final, NEW at \in {"closing", "failing", "halting"},
         CloseWith(result, at)
  PROVE  /\ inflight' \in SUBSET Events
         /\ journal' \in Seq(Events)
         /\ pc' \in {"closing", "failing", "halting", "exited"}
         /\ closed' \in BOOLEAN /\ chain' \in Chains
         /\ awaited' \in Events
         /\ outcome' \in Outcome
<1>1. CloseEvent(result) \in Events BY EventFacts DEF Events
<1>2. closed' \in BOOLEAN /\ chain' \in Chains BY ChainFacts DEF CloseWith
<1>3. CASE HasClose
  <2>1. journal' \in Seq(Events)
    <3>1. journal \in Seq(Events) BY DEF TypeOK, Events
    <3>2. journal' = Append(journal, CloseEvent(result)) BY <1>3 DEF CloseWith
    <3> HIDE DEF CloseEvent
    <3> QED BY <1>1, <3>1, <3>2, AppendFact
  <2>2. outcome' \in Outcome BY <1>3, ResultFacts DEF CloseWith
  <2> QED BY <1>2, <1>3, <2>1, <2>2 DEF CloseWith, TypeOK, Events
<1>4. CASE ~HasClose
  BY <1>1, <1>2, <1>4 DEF CloseWith, TypeOK, Events
<1> QED BY <1>3, <1>4

LEMMA PeekType ==
  ASSUME TypeOK, HasEntry
  PROVE  PeekYield \in YieldEvents /\ PeekYield.result \in Result
BY EventFacts DEF TypeOK, HasEntry, PeekYield

LEMMA ResumeType ==
  ASSUME TypeOK, HasEntry, ResumeFromStored
  PROVE  journal' \in Seq(Events) /\ consumed' \in Seq(Result) /\ cursor' \in Nat
<1>1. PeekYield \in Events /\ PeekYield.result \in Result
  BY PeekType DEF Events
<1>2. journal \in Seq(Events) /\ consumed \in Seq(Result)
  BY DEF TypeOK, Events
<1>3. /\ journal' = Append(journal, PeekYield)
      /\ consumed' = Append(consumed, PeekYield.result)
  BY DEF ResumeFromStored
<1> HIDE DEF PeekYield
<1>4. journal' \in Seq(Events) BY <1>1, <1>2, <1>3, AppendFact
<1>5. consumed' \in Seq(Result) BY <1>1, <1>2, <1>3, AppendFact
<1> QED BY <1>4, <1>5 DEF ResumeFromStored, TypeOK

LEMMA PersistType ==
  ASSUME TypeOK, NEW event \in YieldEvents, Persist(event)
  PROVE  /\ inflight' \in SUBSET Events
         /\ awaited' \in Events
         /\ chain' \in Chains /\ pc' = "append"
         /\ UNCHANGED <<consumed, journal>>
BY ChainFacts DEF Persist, TypeOK, Events

LEMMA TypeStep == TypeOK /\ [Next]_vars => TypeOK'
<1> SUFFICES ASSUME TypeOK, [Next]_vars PROVE TypeOK'
  OBVIOUS
<1> USE DEF durable, counters
<1>1. CASE Boot
  <2>1. index' \in [yields : Seq(YieldEvents), close : Final \union {NoClose}]
    <3>1. CASE closes = <<>>
      BY <1>1, <3>1 DEF Boot, BuildIndex, TypeOK
    <3>2. CASE closes # <<>>
      <4>1. Len(closes) \in 1..Len(closes)
        BY <3>2, EmptySeq DEF TypeOK
      <4>2. closes[Len(closes)] \in [result : Final, after : Nat]
        BY <4>1, ElementOfSeq DEF TypeOK
      <4> QED BY <1>1, <3>2, <4>2 DEF Boot, BuildIndex, TypeOK
    <3> QED BY <3>1, <3>2
  <2>2. CloseEvent(Cancelled) \in Events BY ResultFacts, EventFacts DEF Events
  <2>3. pc' \in {"exited", "kernel"} /\ outcome' \in Outcome /\ closed' \in BOOLEAN
    BY <1>1, ResultFacts DEF Boot
  <2>4. journal' \in Seq(Events)
    <3>1. <<CloseEvent(Cancelled)>> \in Seq(Events)
      <4> HIDE DEF CloseEvent
      <4> QED BY <2>2
    <3>2. <<>> \in Seq(Events) BY EmptySeq
    <3>3. journal' \in {<<>>, <<CloseEvent(Cancelled)>>} BY <1>1 DEF Boot
    <3> QED BY <3>1, <3>2, <3>3
  <2>5. runs' \in Nat /\ chain' = Idle /\ cursor' \in Nat /\ consumed' \in Seq(Result)
    BY <1>1 DEF Boot, TypeOK
  <2> QED BY <1>1, <2>1, <2>3, <2>4, <2>5 DEF Boot, TypeOK, Events, Pcs
<1>2. CASE YieldPastClose
  BY <1>2, CloseWithType, ResultFacts
  DEF YieldPastClose, Fail, TypeOK, Pcs, Events, Chains
<1>3. CASE YieldDirectStored
  <2>1. /\ pc = "kernel" /\ HasEntry
        /\ UNCHANGED <<program, durable, index, counters>>
    BY <1>3 DEF YieldDirectStored, KernelIs
  <2>2. CASE Fail("DivergenceError") /\ UNCHANGED <<cursor, consumed>>
    BY <2>1, <2>2, CloseWithType, ResultFacts DEF Fail, TypeOK, Pcs, Events, Chains
  <2>3. CASE /\ ResumeFromStored
             /\ UNCHANGED <<inflight, pc, closed, chain, awaited, outcome>>
    BY <2>1, <2>3, ResumeType DEF TypeOK, Pcs, Events
  <2> QED BY <1>3, <2>2, <2>3 DEF YieldDirectStored
<1>4. CASE YieldDirectLive
  BY <1>4, ChainFacts DEF YieldDirectLive, TypeOK, Chains, Pcs
<1>5. CASE DirectReturns
  <2>1. chain.effect \in Effect BY <1>5, ChainFacts DEF DirectReturns, TypeOK
  <2>2. PICK r \in Result : Persist(YieldEvent(DirectIdentity(chain.effect), r))
    BY <1>5, <2>1, AnswersAssumption DEF DirectReturns
  <2>3. YieldEvent(DirectIdentity(chain.effect), r) \in YieldEvents
    BY <2>1, EventFacts, IdentityFacts
  <2> QED BY <1>5, <2>2, <2>3, PersistType DEF DirectReturns, TypeOK, Pcs, Events, Chains
<1>6. CASE YieldChain
  <2>1. CASE Fail("SubscriptionCapabilityError")
    BY <1>6, <2>1, CloseWithType, ResultFacts
    DEF YieldChain, Fail, TypeOK, Pcs, Events, Chains
  <2>2. CASE ~Fail("SubscriptionCapabilityError")
    <3>1. PICK e \in Effect :
            /\ chain' = [kind |-> "chain", effect |-> e, entry |-> HasEntry,
                         start |-> cursor, answers |-> <<>>,
                         boundary |-> Identity(e)]
            /\ pc' = "max"
            /\ UNCHANGED <<inflight, journal, closed, awaited, outcome>>
      BY <1>6, <2>2 DEF YieldChain
    <3>2. HasEntry \in BOOLEAN /\ cursor \in Nat BY DEF HasEntry, TypeOK
    <3>3. /\ chain' \in ChainDispatch
          /\ chain'.entry => chain'.start < Len(index.yields)
      BY <3>1, <3>2, ChainFacts DEF HasEntry
    <3> QED BY <1>6, <3>1, <3>3 DEF YieldChain, TypeOK, Pcs
  <2> QED BY <2>1, <2>2
<1>7. CASE LaneLive
  BY <1>7, ChainFacts DEF LaneLive, MaxIs, TypeOK, Pcs
<1>8. CASE HandlerReturns
  <2>1. chain \in ChainDispatch BY <1>8 DEF HandlerReturns, TypeOK
  <2>2. [id |-> chain.boundary.id, data |-> chain.boundary.sha] \in Effect
    BY <2>1, ChainFacts DEF Effect
  <2>3. /\ chain' \in ChainDispatch
        /\ chain'.entry = chain.entry /\ chain'.start = chain.start
    BY <1>8, <2>1, <2>2, ChainFacts, AnswersAssumption DEF HandlerReturns, Answer
  <2> QED BY <1>8, <2>3 DEF HandlerReturns, TypeOK, Pcs
<1>9. CASE LaneReplay
  <2>1. chain \in ChainDispatch BY <1>9 DEF LaneReplay, MaxIs, TypeOK
  <2>2. HasEntry /\ cursor' \in Nat BY <1>9 DEF LaneReplay, TypeOK
  <2>3. /\ chain' \in ChainDispatch
        /\ chain'.entry = chain.entry /\ chain'.start = chain.start
    BY <1>9, <2>1, <2>2, PeekType, ChainFacts DEF LaneReplay, Answer
  <2>4. journal' \in Seq(Events)
    <3>1. PeekYield \in Events /\ journal \in Seq(Events) BY <2>2, PeekType DEF TypeOK, Events
    <3>2. journal' = Append(journal, PeekYield) BY <1>9 DEF LaneReplay
    <3> HIDE DEF PeekYield
    <3> QED BY <3>1, <3>2, AppendFact
  <2> QED BY <1>9, <2>2, <2>3, <2>4 DEF LaneReplay, MaxIs, TypeOK, Pcs, Events
<1>10. CASE LaneDiverge
  <2>1. chain \in ChainDispatch BY <1>10 DEF LaneDiverge, MaxIs, TypeOK
  <2>2. /\ chain' \in ChainDispatch
        /\ chain'.entry = chain.entry /\ chain'.start = chain.start
    BY <1>10, <2>1, ResultFacts, ChainFacts DEF LaneDiverge, Answer
  <2> QED BY <1>10, <2>2 DEF LaneDiverge, MaxIs, TypeOK, Pcs
<1>11. CASE ChainReplayed
  <2>0. pc = "max" /\ chain.entry BY <1>11 DEF ChainReplayed, MaxReturns, MaxIs
  <2>1. chain.start + 1 \in 1..Len(index.yields)
    <3>1. chain.start < Len(index.yields) /\ chain \in ChainDispatch
      BY <2>0 DEF TypeOK
    <3>2. chain.start \in Nat BY <3>1, ChainFacts
    <3>3. Len(index.yields) \in Nat BY DEF TypeOK
    <3> QED BY <3>1, <3>2, <3>3
  <2>2. index.yields[chain.start + 1].result \in Result
    BY <2>1, EventFacts DEF TypeOK
  <2>3. consumed' \in Seq(Result) BY <1>11, <2>2 DEF ChainReplayed, TypeOK
  <2> QED BY <1>11, <2>3 DEF ChainReplayed, TypeOK, Pcs
<1>12. CASE ChainNotReplayed
  <2>1. /\ pc = "max" /\ HasEntry /\ UNCHANGED <<program, durable, index, counters>>
    BY <1>12, ChainFacts
    DEF ChainNotReplayed, MaxReturns, MaxIs, TypeOK, HasEntry, Replayed
  <2>2. CASE Fail("DivergenceError") /\ UNCHANGED <<cursor, consumed>>
    BY <2>1, <2>2, CloseWithType, ResultFacts DEF Fail, TypeOK, Pcs, Events, Chains
  <2>3. CASE /\ ResumeFromStored /\ chain' = Idle /\ pc' = "kernel"
             /\ UNCHANGED <<inflight, closed, awaited, outcome>>
    BY <2>1, <2>3, ResumeType DEF TypeOK, Pcs, Events
  <2> QED BY <1>12, <2>2, <2>3 DEF ChainNotReplayed
<1>13. CASE ChainLive
  <2>1. chain \in ChainDispatch BY <1>13 DEF ChainLive, MaxReturns, MaxIs, TypeOK
  <2>2. PICK r \in Result : Persist(YieldEvent(chain.boundary, r))
    BY <1>13 DEF ChainLive
  <2>3. chain.boundary \in Description BY <2>1, ChainFacts DEF Description
  <2>4. YieldEvent(chain.boundary, r) \in YieldEvents BY <2>3, EventFacts
  <2> QED BY <1>13, <2>2, <2>4, PersistType DEF ChainLive, TypeOK, Pcs, Events, Chains
<1>14. CASE KernelReturns
  BY <1>14, CloseWithType, ResultFacts
  DEF KernelReturns, Fail, TypeOK, Pcs, Events, Chains
<1>15. CASE KernelThrows
  BY <1>15, CloseWithType, ResultFacts
  DEF KernelThrows, Fail, TypeOK, Pcs, Events, Chains
<1>16. CASE Storage
  <2>1. PICK event \in inflight : YieldDurable(event) \/ CloseDurable(event)
    BY <1>16 DEF Storage
  <2>2. event \in Events BY DEF TypeOK, Events
  <2>3. CASE YieldDurable(event)
    <3>1. event \in YieldEvents BY <2>2, <2>3, EventFacts DEF Events, YieldDurable
    <3>2. event.result \in Result BY <3>1, EventFacts
    <3>3. yields' \in Seq(YieldEvents) BY <2>3, <3>1 DEF YieldDurable, TypeOK
    <3>4. consumed' \in {consumed, Append(consumed, event.result)}
          /\ journal' \in {journal, Append(journal, event)}
      BY <2>3 DEF YieldDurable
    <3>5. consumed' \in Seq(Result) /\ journal' \in Seq(Events)
      <4>1. consumed \in Seq(Result) /\ journal \in Seq(Events) BY DEF TypeOK, Events
      <4>2. Append(consumed, event.result) \in Seq(Result) BY <4>1, <3>2, AppendFact
      <4>3. Append(journal, event) \in Seq(Events) BY <4>1, <2>2, AppendFact
      <4> QED BY <3>4, <4>1, <4>2, <4>3
    <3>6. pc' \in {pc, "kernel"} /\ (pc' = pc \/ pc' = "kernel")
      BY <2>3 DEF YieldDurable
    <3> QED BY <2>3, <3>3, <3>5, <3>6 DEF YieldDurable, TypeOK, Pcs, Events
  <2>4. CASE CloseDurable(event)
    <3>1. event \in CloseEvents BY <2>2, <2>4, EventFacts DEF Events, CloseDurable
    <3>2. event.result \in Final BY <3>1, EventFacts
    <3>3. [result |-> event.result, after |-> Len(yields)] \in [result : Final, after : Nat]
      BY <3>2 DEF TypeOK
    <3>4. closes' \in Seq([result : Final, after : Nat])
      BY <2>4, <3>3 DEF CloseDurable, TypeOK
    <3>5. journal' \in Seq(Events)
      <4>1. journal \in Seq(Events) BY DEF TypeOK, Events
      <4>2. Append(journal, event) \in Seq(Events) BY <4>1, <2>2, AppendFact
      <4> QED BY <2>4, <4>1, <4>2 DEF CloseDurable
    <3>6. outcome' \in Outcome BY <2>4, <3>2, ResultFacts DEF CloseDurable, TypeOK
    <3> QED BY <2>4, <3>4, <3>5, <3>6 DEF CloseDurable, TypeOK, Pcs, Events
  <2> QED BY <2>1, <2>3, <2>4
<1>17. CASE AppendFails
  <2>1. CloseEvent(Error("AppendError")) \in Events BY ResultFacts, EventFacts DEF Events
  <2>2. /\ inflight' \in SUBSET Events /\ awaited' \in Events
        /\ pc' \in {"failing", "exited"} /\ closed' \in BOOLEAN /\ outcome' \in Outcome
    <3> HIDE DEF CloseEvent
    <3> QED BY <1>17, <2>1, ResultFacts DEF AppendFails, TypeOK, Events
  <2> QED BY <1>17, <2>2 DEF AppendFails, TypeOK, Events, Pcs
<1>18. CASE Halt
  BY <1>18, CloseWithType, ResultFacts DEF Halt, TypeOK, Pcs, Events, Chains
<1>19. CASE Crash
  BY <1>19, ResultFacts DEF Crash, TypeOK, Pcs
<1>20. CASE Deploy
  BY <1>20 DEF Deploy, TypeOK
<1>21. CASE UNCHANGED vars
  BY <1>21 DEF TypeOK, vars
<1> QED
  BY <1>1, <1>2, <1>3, <1>4, <1>5, <1>6, <1>7, <1>8, <1>9, <1>10, <1>11, <1>12,
     <1>13, <1>14, <1>15, <1>16, <1>17, <1>18, <1>19, <1>20, <1>21
  DEF Next, Driver, Handler, Fault

LEMMA TypeInit == Init => TypeOK
<1> SUFFICES ASSUME Init PROVE TypeOK
  OBVIOUS
<1>1. CloseEvent(Cancelled) \in CloseEvents BY ResultFacts, EventFacts
<1>2. [yields |-> <<>>, close |-> NoClose]
        \in [yields : Seq(YieldEvents), close : Final \union {NoClose}]
  BY EmptySeq
<1> QED BY <1>1, <1>2, ResultFacts, EmptySeq DEF Init, TypeOK, Pcs

-----------------------------------------------------------------------------
(* The journal invariant *)

Parts == IndexInv /\ PositionInv /\ LengthInv /\ FlightInv /\ PersistBeforeResume
         /\ (~Asynchronous => CloseIsLast)

LEMMA PartTypes ==
  ASSUME JournalInv
  PROVE  /\ yields \in Seq(YieldEvents) /\ index.yields \in Seq(YieldEvents)
         /\ consumed \in Seq(Result) /\ cursor \in Nat
         /\ closes \in Seq([result : Final, after : Nat])
         /\ Len(yields) \in Nat /\ Len(index.yields) \in Nat /\ Len(consumed) \in Nat
         /\ Len(closes) \in Nat
         /\ pc \in {"max", "handler"} => chain \in ChainDispatch
         /\ Parts
BY DEF JournalInv, TypeOK, Parts

LEMMA CloseWithParts ==
  ASSUME JournalInv, NEW result \in Final, NEW at \in Closing, CloseWith(result, at),
         \/ pc \in {"kernel", "max", "handler", "direct"}
         \/ (pc = "append" /\ Asynchronous /\ at = "halting"),
         UNCHANGED <<yields, closes, index, cursor, consumed>>
  PROVE  Parts'
<1> USE PartTypes DEF Parts, Closing, HasClose
<1>1. IndexInv' BY DEF IndexInv, Running, CloseWith
<1>2. PositionInv' /\ LengthInv' BY DEF PositionInv, LengthInv, Stepping, CloseWith
<1>3. PersistBeforeResume' BY DEF PersistBeforeResume
<1>4. (~Asynchronous => CloseIsLast)' BY DEF CloseIsLast
<1>5. FlightInv'
  <2>1. CASE HasClose
    BY <2>1 DEF FlightInv, CloseWith
  <2>2. CASE ~HasClose
    <3>1. CloseEvent(result).type = "close" BY EventFacts
    <3>2. closes = <<>> BY <2>2 DEF IndexInv, Running
    <3>3. /\ closed' /\ awaited' = CloseEvent(result) /\ pc' = at
          /\ inflight' = inflight \union {CloseEvent(result)}
      BY <2>2 DEF CloseWith
    <3>4. \A event \in inflight : event.type = "yield" /\ pc = "append"
      BY DEF FlightInv
    <3> HIDE DEF CloseEvent
    <3> QED BY <2>2, <3>1, <3>2, <3>3, <3>4 DEF FlightInv
  <2> QED BY <2>1, <2>2
<1> QED BY <1>1, <1>2, <1>3, <1>4, <1>5

LEMMA ResumeParts ==
  ASSUME JournalInv, HasEntry, ResumeFromStored, pc \in {"kernel", "max"},
         pc' = "kernel", cursor = Position,
         UNCHANGED <<yields, closes, index, inflight>>
  PROVE  Parts'
<1> USE PartTypes DEF Parts
<1>1. Len(consumed) < Len(index.yields) /\ cursor = Len(consumed)
  BY DEF HasEntry, Position
<1>2. PeekYield.result \in Result /\ PeekYield = yields[Len(consumed) + 1]
  <2>1. JournalInv => TypeOK BY DEF JournalInv
  <2> QED BY <1>1, <2>1, PeekType DEF PeekYield, IndexInv, Running
<1>3. /\ consumed' = Append(consumed, PeekYield.result) /\ cursor' = cursor + 1
  BY DEF ResumeFromStored
<1>4. /\ Len(consumed') = Len(consumed) + 1
      /\ consumed'[Len(consumed) + 1] = PeekYield.result
      /\ \A i \in 1..Len(consumed) : consumed'[i] = consumed[i]
  BY <1>2, <1>3, AppendFact
<1>5. IndexInv' BY DEF IndexInv, Running
<1>6. PositionInv' BY <1>1, <1>3, <1>4 DEF PositionInv, Position
<1>7. LengthInv' BY <1>1, <1>4 DEF LengthInv, Stepping
<1>8. PersistBeforeResume'
  <2>1. Len(consumed') <= Len(yields') BY <1>1, <1>4 DEF IndexInv, Running
  <2>2. ASSUME NEW i \in 1..Len(consumed') PROVE consumed'[i] = yields'[i].result
    <3>1. CASE i \in 1..Len(consumed) BY <1>4, <3>1 DEF PersistBeforeResume
    <3>2. CASE i = Len(consumed) + 1 BY <1>2, <1>4, <3>2
    <3> QED BY <1>4, <3>1, <3>2
  <2> QED BY <2>1, <2>2 DEF PersistBeforeResume
<1>9. FlightInv'
  BY DEF FlightInv, Closing
<1>10. (~Asynchronous => CloseIsLast)' BY DEF CloseIsLast
<1> QED BY <1>5, <1>6, <1>7, <1>8, <1>9, <1>10

LEMMA PersistParts ==
  ASSUME JournalInv, NEW event \in YieldEvents, Persist(event),
         pc \in {"direct", "max"}, Len(consumed) >= Len(index.yields),
         cursor = Position, index.close = NoClose,
         UNCHANGED <<yields, closes, index, cursor>>
  PROVE  Parts'
<1> USE PartTypes DEF Parts, Persist
<1>1. event.type = "yield" BY EventFacts
<1>2. IndexInv' BY DEF IndexInv, Running
<1>3. PositionInv' BY DEF PositionInv, Position
<1>4. LengthInv' BY DEF LengthInv, Stepping
<1>5. PersistBeforeResume' BY DEF PersistBeforeResume
<1>6. FlightInv' BY <1>1 DEF FlightInv, Closing
<1>7. (~Asynchronous => CloseIsLast)' BY DEF CloseIsLast
<1> QED BY <1>2, <1>3, <1>4, <1>5, <1>6, <1>7

LEMMA YieldDurableParts ==
  ASSUME JournalInv, NEW event \in Events, YieldDurable(event)
  PROVE  Parts'
<1> USE PartTypes DEF durable, counters
<1>1. /\ event \in inflight /\ event.type = "yield" /\ inflight' = inflight \ {event}
      /\ yields' = Append(yields, event)
      /\ UNCHANGED <<closes, index, cursor, awaited, closed>>
  BY DEF YieldDurable
<1>2. event \in YieldEvents /\ event.result \in Result
  BY <1>1, EventFacts DEF Events
<1>3. /\ Len(yields') = Len(yields) + 1 /\ yields'[Len(yields) + 1] = event
      /\ \A i \in 1..Len(yields) : yields'[i] = yields[i]
  BY <1>1, <1>2, AppendFact
<1>4. pc \notin {"kernel", "max", "handler", "direct", "closing", "failing"}
  BY <1>1 DEF Parts, FlightInv, Closing
<1>5. ~Asynchronous => closes = <<>>
  BY <1>1 DEF Parts, FlightInv, IndexInv, Running
<1>6. (~Asynchronous => CloseIsLast)' BY <1>1, <1>5 DEF CloseIsLast
<1>7. CASE pc = "append"
  <2>1. awaited = event /\ inflight' = {} /\ index.close = NoClose
    BY <1>1, <1>7 DEF Parts, FlightInv
  <2>2. pc' = "kernel" /\ consumed' = Append(consumed, event.result)
    BY <1>7, <2>1 DEF YieldDurable, Awaiting
  <2>3. /\ Len(consumed') = Len(consumed) + 1
        /\ consumed'[Len(consumed) + 1] = event.result
        /\ \A i \in 1..Len(consumed) : consumed'[i] = consumed[i]
    BY <1>2, <2>2, AppendFact
  <2>4. /\ Len(consumed) >= Len(index.yields) /\ cursor = Position
        /\ Len(yields) = Len(consumed)
    BY <1>7 DEF Parts, PositionInv, LengthInv, Stepping
  <2>5. IndexInv' BY <1>1, <1>3, <1>7, <2>4 DEF Parts, IndexInv, Running
  <2>6. PositionInv' BY <1>1, <2>2, <2>3, <2>4 DEF PositionInv, Position
  <2>7. LengthInv' BY <1>1, <1>3, <2>2, <2>3, <2>4 DEF LengthInv, Stepping
  <2>8. FlightInv' BY <1>1, <2>1, <2>2 DEF Parts, FlightInv, Closing
  <2>9. PersistBeforeResume'
    <3>1. ASSUME NEW i \in 1..Len(consumed') PROVE consumed'[i] = yields'[i].result
      <4>1. CASE i \in 1..Len(consumed)
        BY <1>3, <2>3, <2>4, <4>1 DEF Parts, PersistBeforeResume
      <4>2. CASE i = Len(consumed) + 1 BY <1>3, <2>3, <2>4, <4>2
      <4>3. i \in 1..Len(consumed) \/ i = Len(consumed) + 1 BY <2>3
      <4> QED BY <4>1, <4>2, <4>3
    <3> QED BY <1>3, <2>3, <2>4, <3>1 DEF PersistBeforeResume
  <2> QED BY <1>6, <2>5, <2>6, <2>7, <2>8, <2>9 DEF Parts
<1>8. CASE pc # "append"
  <2>1. ~Awaiting(event)
    BY <1>1, <1>4, <1>8 DEF Awaiting, Parts, FlightInv, Closing
  <2>2. pc' = pc /\ consumed' = consumed BY <2>1 DEF YieldDurable
  <2>3. IndexInv' BY <1>1, <1>3, <2>2 DEF Parts, IndexInv
  <2>4. PositionInv' BY <1>4, <1>8, <2>2 DEF PositionInv
  <2>5. LengthInv' BY <1>4, <1>8, <2>2 DEF LengthInv, Stepping
  <2>6. FlightInv' BY <1>1, <1>4, <1>8, <2>2 DEF Parts, FlightInv, Closing
  <2>7. PersistBeforeResume'
    BY <1>1, <1>3, <2>2, AppendFact DEF Parts, PersistBeforeResume
  <2> QED BY <1>6, <2>3, <2>4, <2>5, <2>6, <2>7 DEF Parts
<1> QED BY <1>7, <1>8

LEMMA CloseDurableParts ==
  ASSUME JournalInv, NEW event \in Events, CloseDurable(event)
  PROVE  Parts'
<1> USE PartTypes DEF durable, counters
<1> DEFINE entry == [result |-> event.result, after |-> Len(yields)]
<1>1. /\ event \in inflight /\ event.type = "close" /\ inflight' = inflight \ {event}
      /\ closes' = Append(closes, entry)
      /\ UNCHANGED <<yields, index, cursor, consumed, awaited, closed>>
  BY DEF CloseDurable
<1>2. closes = <<>> /\ event = awaited
      /\ \A other \in inflight' : other.type # "close"
  BY <1>1 DEF Parts, FlightInv
<1>3. pc' \notin Running
  <2>1. CASE Awaiting(event) BY <2>1 DEF CloseDurable, Running
  <2>2. CASE ~Awaiting(event)
    BY <1>1, <1>2, <2>2 DEF CloseDurable, Awaiting, Parts, FlightInv, Running
  <2> QED BY <2>1, <2>2
<1>4. Len(closes') = 1 /\ closes'[1] = entry
  <2> HIDE DEF entry
  <2> QED BY <1>1, <1>2
<1>5. pc # "append" BY <1>1, <1>2 DEF Parts, FlightInv
<1>6. CloseIsLast' BY <1>1, <1>4 DEF CloseIsLast
<1>7. FlightInv'
  BY <1>1, <1>2, <1>3, <1>4, <1>5 DEF Parts, FlightInv, Running, Closing
<1> QED BY <1>1, <1>3, <1>6, <1>7
  DEF Parts, IndexInv, PositionInv, LengthInv, PersistBeforeResume, Running, Stepping

\* Once next() has answered, middleware with SingleNext does not call it again.
LEMMA NoSecondNext ==
  ASSUME SingleNext, JournalInv, pc = "max", NEW e \in Effect,
         MaxStep(program, chain.effect, chain.answers) = Next_(e)
  PROVE  chain.answers = <<>>
<1>1. chain \in ChainDispatch /\ program \in Programs /\ Len(chain.answers) <= 1
  BY DEF JournalInv, TypeOK, PositionInv
<1>2. chain.answers \in Seq(Result) /\ chain.effect \in Effect BY <1>1, ChainFacts
<1>3. SUFFICES ASSUME chain.answers # <<>> PROVE FALSE
  OBVIOUS
<1>4. Len(chain.answers) = 1 /\ chain.answers[1] \in Result
  <2>1. Len(chain.answers) # 0 BY <1>2, <1>3, EmptySeq
  <2>2. Len(chain.answers) \in Nat BY <1>2, LenProperties
  <2>3. Len(chain.answers) = 1 BY <1>1, <2>1, <2>2, SMTT(40)
  <2> QED BY <1>2, <2>3
<1>5. chain.answers = <<chain.answers[1]>> BY <1>2, <1>4
<1> QED BY <1>1, <1>2, <1>4, <1>5 DEF SingleNext

LEMMA PartsStep == SingleNext /\ JournalInv /\ [Next]_vars => Parts'
<1> SUFFICES ASSUME SingleNext, JournalInv, [Next]_vars PROVE Parts'
  OBVIOUS
<1> USE PartTypes DEF durable, counters
<1>1. CASE Boot
  <2>1. /\ inflight = {} /\ inflight' = {} /\ UNCHANGED <<yields, closes>>
        /\ index' = BuildIndex /\ cursor' = 0 /\ consumed' = <<>>
        /\ pc' \in {"exited", "kernel"}
    BY <1>1 DEF Boot
  <2>2. index'.yields = yields BY <2>1 DEF BuildIndex
  <2>3. index'.close = NoClose <=> closes = <<>>
    <3>1. CASE closes = <<>> BY <2>1, <3>1 DEF BuildIndex
    <3>2. CASE closes # <<>>
      <4>1. Len(closes) \in 1..Len(closes) BY <3>2, EmptySeq
      <4>2. closes[Len(closes)] \in [result : Final, after : Nat]
        BY <4>1, ElementOfSeq
      <4>3. NoClose \notin Final
        BY DEF NoClose, Final, Result, Cancelled, Ok, Error
      <4> QED BY <2>1, <3>2, <4>2, <4>3 DEF BuildIndex
    <3> QED BY <3>1, <3>2
  <2>4. Len(consumed') = 0 BY <2>1
  <2>5. IndexInv' BY <2>1, <2>2, <2>3 DEF IndexInv, Running
  <2>6. PositionInv' BY <2>1, <2>2, <2>4 DEF PositionInv, Position
  <2>7. LengthInv' BY <2>1, <2>2, <2>4 DEF LengthInv, Stepping
  <2>8. FlightInv' BY <2>1 DEF Parts, FlightInv, Closing
  <2>9. PersistBeforeResume' BY <2>1, <2>4 DEF PersistBeforeResume
  <2> QED BY <2>1, <2>5, <2>6, <2>7, <2>8, <2>9 DEF Parts, CloseIsLast
<1>2. CASE YieldPastClose
  BY <1>2, CloseWithParts, ResultFacts DEF YieldPastClose, Fail, KernelIs, Closing
<1>3. CASE YieldDirectStored
  <2>1. pc = "kernel" /\ HasEntry /\ UNCHANGED <<yields, closes, index>> /\ cursor = Position
    BY <1>3 DEF YieldDirectStored, KernelIs, Parts, PositionInv
  <2>2. CASE Fail("DivergenceError") /\ UNCHANGED <<cursor, consumed>>
    BY <2>1, <2>2, CloseWithParts, ResultFacts DEF Fail, Closing
  <2>3. CASE ResumeFromStored /\ UNCHANGED <<inflight, pc>>
    BY <2>1, <2>3, ResumeParts
  <2> QED BY <1>3, <2>2, <2>3 DEF YieldDirectStored
<1>4. CASE YieldDirectLive
  BY <1>4 DEF YieldDirectLive, KernelIs, HasEntry, HasClose, PastClose, Parts, IndexInv,
     PositionInv, LengthInv, FlightInv, PersistBeforeResume, CloseIsLast, Running,
     Stepping, Closing, Position
<1>5. CASE DirectReturns
  <2>0. pc = "direct" /\ TypeOK BY <1>5 DEF DirectReturns, JournalInv
  <2>1. chain.effect \in Effect BY <2>0, ChainFacts DEF TypeOK
  <2>2. PICK r \in Result : Persist(YieldEvent(DirectIdentity(chain.effect), r))
    BY <1>5, <2>1, AnswersAssumption DEF DirectReturns
  <2>3. YieldEvent(DirectIdentity(chain.effect), r) \in YieldEvents
    BY <2>1, EventFacts, IdentityFacts
  <2>4. /\ Len(consumed) >= Len(index.yields) /\ cursor = Position
        /\ index.close = NoClose /\ UNCHANGED <<yields, closes, index, cursor>>
    BY <1>5, <2>0 DEF DirectReturns, Parts, PositionInv, FlightInv
  <2> QED BY <2>0, <2>2, <2>3, <2>4, PersistParts
<1>6. CASE YieldChain
  <2>0. /\ pc = "kernel" /\ ~PastClose /\ cursor = Position
        /\ UNCHANGED <<yields, closes, index, cursor, consumed>>
    BY <1>6 DEF YieldChain, KernelIs, Parts, PositionInv
  <2>1. CASE Fail("SubscriptionCapabilityError")
    BY <2>0, <2>1, CloseWithParts, ResultFacts DEF Fail, Closing
  <2>2. CASE ~Fail("SubscriptionCapabilityError")
    <3>1. /\ chain'.entry = HasEntry /\ chain'.start = cursor /\ chain'.answers = <<>>
          /\ pc' = "max" /\ UNCHANGED inflight
      BY <1>6, <2>2 DEF YieldChain
    <3>2. HasEntry <=> Len(consumed) < Len(index.yields)
      BY <2>0 DEF HasEntry, Position
    <3>3. ~HasEntry => index.close = NoClose BY <2>0 DEF PastClose, HasClose
    <3> HIDE DEF HasEntry
    <3>4. PositionInv' BY <2>0, <3>1, <3>2 DEF PositionInv, Position
    <3>5. FlightInv' BY <2>0, <3>1, <3>3 DEF Parts, FlightInv, Closing
    <3> QED BY <2>0, <3>1, <3>4, <3>5
      DEF Parts, IndexInv, LengthInv, PersistBeforeResume, CloseIsLast, Running, Stepping
  <2> QED BY <2>1, <2>2
<1>7. CASE LaneLive
  <2>1. PICK e \in Effect :
          /\ MaxIs(Next_(e)) /\ ~HasEntry
          /\ chain' = [chain EXCEPT !.boundary = Identity(e)]
          /\ pc' = "handler"
    BY <1>7 DEF LaneLive
  <2>2. pc = "max" /\ chain \in ChainDispatch BY <2>1 DEF MaxIs
  <2>3. chain.answers = <<>> BY <2>1, <2>2, NoSecondNext DEF MaxIs, Parts, PositionInv
  <2>4. ~chain.entry /\ cursor = Position
    BY <2>1, <2>2, <2>3 DEF Parts, PositionInv, HasEntry, Position
  <2>5. chain'.entry = chain.entry /\ chain'.start = chain.start
        /\ chain'.answers = chain.answers
    BY <2>1, <2>2, ChainFacts DEF ChainDispatch
  <2> QED BY <1>7, <2>1, <2>2, <2>3, <2>4, <2>5
    DEF LaneLive, Parts, IndexInv, PositionInv, LengthInv, FlightInv,
        PersistBeforeResume, CloseIsLast, Running, Stepping, Closing, Position
<1>8. CASE HandlerReturns
  <2>1. pc = "handler" /\ chain \in ChainDispatch /\ TypeOK
    BY <1>8 DEF HandlerReturns, JournalInv
  <2>2. [id |-> chain.boundary.id, data |-> chain.boundary.sha] \in Effect
    BY <2>1, ChainFacts DEF Effect
  <2>3. PICK r \in Result : chain' = Answer(r)
    BY <1>8, <2>2, AnswersAssumption DEF HandlerReturns
  <2>4. /\ chain'.entry = chain.entry /\ chain'.start = chain.start
        /\ chain'.answers = Append(chain.answers, r)
    BY <2>1, <2>3, ChainFacts DEF Answer
  <2>5. chain.answers = <<>> /\ ~chain.entry /\ chain.start = Position
    BY <2>1 DEF Parts, PositionInv
  <2>6. Len(chain'.answers) = 1 /\ chain'.answers # <<>> BY <2>4, <2>5
  <2>7. PositionInv'
    BY <1>8, <2>1, <2>4, <2>5, <2>6 DEF HandlerReturns, Parts, PositionInv, Position
  <2> QED BY <1>8, <2>1, <2>4, <2>5, <2>7
    DEF HandlerReturns, Parts, IndexInv, LengthInv, FlightInv,
        PersistBeforeResume, CloseIsLast, Running, Stepping, Closing
<1>9. CASE LaneReplay
  <2>1. PICK e \in Effect : MaxIs(Next_(e)) /\ HasEntry BY <1>9 DEF LaneReplay
  <2>2. /\ pc = "max" /\ pc' = "max" /\ chain \in ChainDispatch /\ TypeOK
        /\ cursor' = cursor + 1 /\ chain' = Answer(PeekYield.result)
        /\ UNCHANGED <<yields, closes, index, consumed, inflight>>
    BY <1>9, <2>1 DEF LaneReplay, MaxIs, JournalInv
  <2>3. PeekYield.result \in Result BY <2>1, <2>2, PeekType
  <2> HIDE DEF PeekYield
  <2>4. chain.answers = <<>> BY <2>1, <2>2, NoSecondNext DEF MaxIs
  <2>5. cursor = chain.start /\ chain.start = Position /\ chain.entry
    BY <2>1, <2>2, <2>4 DEF Parts, PositionInv, HasEntry, Position
  <2>6. /\ chain'.entry = chain.entry /\ chain'.start = chain.start
        /\ chain'.answers = Append(chain.answers, PeekYield.result)
    BY <2>2, <2>3, ChainFacts DEF Answer
  <2>7. Len(chain'.answers) = 1 /\ chain'.answers # <<>> BY <2>3, <2>4, <2>6
  <2>8. PositionInv'
    BY <2>2, <2>5, <2>6, <2>7 DEF Parts, PositionInv, Position
  <2> QED BY <2>2, <2>5, <2>6, <2>8
    DEF Parts, IndexInv, LengthInv, FlightInv,
        PersistBeforeResume, CloseIsLast, Running, Stepping, Closing
<1>10. CASE LaneDiverge
  <2>1. PICK e \in Effect : MaxIs(Next_(e)) /\ HasEntry BY <1>10 DEF LaneDiverge
  <2>2. /\ pc = "max" /\ pc' = "max" /\ chain \in ChainDispatch /\ TypeOK
        /\ chain' = Answer(Error("DivergenceError"))
        /\ UNCHANGED <<yields, closes, index, consumed, inflight, cursor>>
    BY <1>10, <2>1 DEF LaneDiverge, MaxIs, JournalInv
  <2>3. Error("DivergenceError") \in Result BY ResultFacts
  <2>4. chain.answers = <<>> BY <2>1, <2>2, NoSecondNext DEF MaxIs
  <2>5. cursor = chain.start /\ chain.start = Position /\ chain.entry
    BY <2>1, <2>2, <2>4 DEF Parts, PositionInv, HasEntry, Position
  <2>6. /\ chain'.entry = chain.entry /\ chain'.start = chain.start
        /\ chain'.answers = Append(chain.answers, Error("DivergenceError"))
    BY <2>2, <2>3, ChainFacts DEF Answer
  <2>7. Len(chain'.answers) = 1 /\ chain'.answers # <<>> BY <2>3, <2>4, <2>6
  <2>8. PositionInv'
    <3>1. Position' = Position BY <2>2 DEF Position
    <3>2. chain'.entry <=> Len(consumed') < Len(index'.yields)
      BY <2>2, <2>5, <2>6 DEF Parts, PositionInv
    <3> QED BY <2>2, <2>5, <2>6, <2>7, <3>1, <3>2 DEF PositionInv
  <2> QED BY <2>2, <2>5, <2>6, <2>8
    DEF Parts, IndexInv, LengthInv, FlightInv,
        PersistBeforeResume, CloseIsLast, Running, Stepping, Closing
<1>11. CASE ChainReplayed
  <2>1. /\ pc = "max" /\ pc' = "kernel" /\ chain \in ChainDispatch
        /\ chain.entry /\ cursor > chain.start
        /\ consumed' = Append(consumed, index.yields[chain.start + 1].result)
        /\ UNCHANGED <<yields, closes, index, cursor, inflight>>
    BY <1>11 DEF ChainReplayed, MaxReturns, MaxIs, Replayed
  <2>2. /\ chain.start = Len(consumed) /\ Len(consumed) < Len(index.yields)
        /\ cursor = Len(consumed) + 1
    BY <2>1, ChainFacts DEF Parts, PositionInv, Position
  <2>3. index.yields[Len(consumed) + 1].result \in Result
    BY <2>2, EventFacts
  <2>4. /\ Len(consumed') = Len(consumed) + 1
        /\ consumed'[Len(consumed) + 1] = index.yields[Len(consumed) + 1].result
        /\ \A i \in 1..Len(consumed) : consumed'[i] = consumed[i]
    BY <2>1, <2>2, <2>3, AppendFact
  <2>5. PersistBeforeResume'
    <3>1. /\ Len(consumed') <= Len(yields')
          /\ index.yields[Len(consumed) + 1] = yields[Len(consumed) + 1]
      BY <2>1, <2>2, <2>4 DEF Parts, IndexInv, Running
    <3>2. ASSUME NEW i \in 1..Len(consumed') PROVE consumed'[i] = yields'[i].result
      <4>1. CASE i \in 1..Len(consumed) BY <2>1, <2>4, <4>1 DEF Parts, PersistBeforeResume
      <4>2. CASE i = Len(consumed) + 1 BY <2>1, <2>4, <3>1, <4>2
      <4> QED BY <2>4, <4>1, <4>2
    <3> QED BY <3>1, <3>2 DEF PersistBeforeResume
  <2>6. PositionInv' BY <2>1, <2>2, <2>4 DEF PositionInv, Position
  <2>7. LengthInv' BY <2>1, <2>2, <2>4 DEF Parts, LengthInv, Stepping
  <2>8. FlightInv' BY <2>1 DEF Parts, FlightInv, Closing
  <2> QED BY <2>1, <2>5, <2>6, <2>7, <2>8
    DEF Parts, IndexInv, CloseIsLast, Running
<1>12. CASE ChainNotReplayed
  <2>1. /\ pc = "max" /\ chain \in ChainDispatch /\ chain.entry /\ ~Replayed
        /\ UNCHANGED <<yields, closes, index>>
    BY <1>12 DEF ChainNotReplayed, MaxReturns, MaxIs
  <2>2. HasEntry /\ cursor = Position
    BY <2>1, ChainFacts DEF Parts, PositionInv, HasEntry, Replayed, Position
  <2>3. CASE Fail("DivergenceError") /\ UNCHANGED <<cursor, consumed>>
    BY <2>1, <2>3, CloseWithParts, ResultFacts DEF Fail, Closing
  <2>4. CASE ResumeFromStored /\ pc' = "kernel" /\ UNCHANGED inflight
    BY <2>1, <2>2, <2>4, ResumeParts
  <2> QED BY <1>12, <2>3, <2>4 DEF ChainNotReplayed
<1>13. CASE ChainLive
  <2>1. PICK r \in Result : Persist(YieldEvent(chain.boundary, r))
    BY <1>13 DEF ChainLive
  <2>2. /\ pc = "max" /\ chain \in ChainDispatch /\ ~chain.entry
        /\ UNCHANGED <<yields, closes, index, cursor>>
    BY <1>13 DEF ChainLive, MaxReturns, MaxIs
  <2>3. YieldEvent(chain.boundary, r) \in YieldEvents
    BY <2>2, ChainFacts, EventFacts DEF Description
  <2>4. Len(consumed) >= Len(index.yields) /\ cursor = Position /\ index.close = NoClose
    BY <2>2, ChainFacts DEF Parts, PositionInv, FlightInv
  <2> QED BY <2>1, <2>2, <2>3, <2>4, PersistParts
<1>14. CASE KernelReturns
  BY <1>14, CloseWithParts, ResultFacts DEF KernelReturns, Fail, KernelIs, Closing
<1>15. CASE KernelThrows
  BY <1>15, CloseWithParts, ResultFacts DEF KernelThrows, Fail, KernelIs, Closing
<1>16. CASE Storage
  <2>1. PICK event \in inflight : YieldDurable(event) \/ CloseDurable(event)
    BY <1>16 DEF Storage
  <2>2. event \in Events BY DEF JournalInv, TypeOK, Events
  <2>3. CASE YieldDurable(event)
    BY <2>2, <2>3, YieldDurableParts
  <2>4. CASE CloseDurable(event)
    BY <2>2, <2>4, CloseDurableParts
  <2> QED BY <2>1, <2>3, <2>4
<1>17. CASE AppendFails
  <2>1. PICK event \in inflight : Awaiting(event)
    BY <1>17 DEF AppendFails
  <2>2. /\ pc \in {"append", "closing", "failing", "halting"} /\ awaited = event
        /\ UNCHANGED <<yields, closes, index, cursor, consumed>>
    BY <1>17, <2>1 DEF AppendFails, Awaiting
  <2> DEFINE close == CloseEvent(Error("AppendError"))
  <2>3. close.type = "close" BY ResultFacts, EventFacts
  <2> HIDE DEF close
  <2>4. CASE pc \in {"append", "closing"}
    <3>1. /\ closed' = TRUE /\ inflight' = (inflight \ {awaited}) \union {close}
          /\ awaited' = close /\ pc' = "failing"
      BY <1>17, <2>2, <2>4 DEF AppendFails, Awaiting, close
    <3>2. inflight = {awaited} /\ index.close = NoClose
      BY <2>4 DEF Parts, FlightInv, Closing
    <3>3. inflight' = {close} BY <3>1, <3>2
    <3>4. closes = <<>> BY <2>2, <3>2 DEF Parts, IndexInv, Running
    <3>5. FlightInv' BY <2>2, <2>3, <3>1, <3>2, <3>3, <3>4 DEF Parts, FlightInv, Closing
    <3> QED BY <2>2, <3>1, <3>5
      DEF Parts, IndexInv, PositionInv, LengthInv, PersistBeforeResume, CloseIsLast,
          Running, Stepping
  <2>5. CASE pc \notin {"append", "closing"}
    <3>1. inflight' \subseteq inflight /\ pc' = "exited" /\ awaited' = awaited
      BY <1>17, <2>5 DEF AppendFails
    <3> QED BY <2>2, <2>5, <3>1
      DEF Parts, IndexInv, PositionInv, LengthInv, FlightInv, PersistBeforeResume,
          CloseIsLast, Running, Stepping, Closing
  <2> QED BY <2>4, <2>5
<1>18. CASE Halt
  <2>1. /\ UNCHANGED <<yields, closes, index, cursor, consumed>>
        /\ pc \in {"max", "handler", "direct"}
           \/ (Asynchronous /\ pc \in {"append", "closing", "failing"})
    <3>1. UNCHANGED <<yields, closes, index, cursor, consumed>> BY <1>18 DEF Halt
    <3>2. \/ pc \in {"max", "handler", "direct"}
          \/ pc \in IF Asynchronous THEN {"append", "closing", "failing"} ELSE {}
      BY <1>18, Zenon DEF Halt
    <3>3. (pc \in IF Asynchronous THEN {"append", "closing", "failing"} ELSE {})
            => Asynchronous /\ pc \in {"append", "closing", "failing"}
      BY Zenon
    <3> QED BY <3>1, <3>2, <3>3, Zenon
  <2>2. CASE closed
    <3>1. pc' = "exited" /\ UNCHANGED <<inflight, awaited>> BY <1>18, <2>2 DEF Halt
    <3> QED BY <2>1, <3>1
      DEF Parts, IndexInv, PositionInv, LengthInv, FlightInv, PersistBeforeResume,
          CloseIsLast, Running, Stepping, Closing
  <2>3. CASE ~closed
    <3>1. CloseWith(Cancelled, "halting") BY <1>18, <2>3 DEF Halt
    <3>2. pc \notin {"closing", "failing"} BY <2>3 DEF Parts, FlightInv, Closing
    <3> QED BY <2>1, <3>1, <3>2, CloseWithParts, ResultFacts DEF Closing
  <2> QED BY <2>2, <2>3
<1>19. CASE Crash
  BY <1>19 DEF Crash, Parts, IndexInv, PositionInv, LengthInv, FlightInv,
     PersistBeforeResume, CloseIsLast, Running, Stepping, Closing
<1>20. CASE Deploy
  BY <1>20 DEF Deploy, Parts, IndexInv, PositionInv, LengthInv, FlightInv,
     PersistBeforeResume, CloseIsLast, Running, Stepping, Closing
<1>21. CASE UNCHANGED vars
  BY <1>21 DEF vars, Parts, IndexInv, PositionInv, LengthInv, FlightInv,
     PersistBeforeResume, CloseIsLast, Running, Stepping, Closing, Position
<1> QED
  BY <1>1, <1>2, <1>3, <1>4, <1>5, <1>6, <1>7, <1>8, <1>9, <1>10, <1>11, <1>12, <1>13, <1>14, <1>15, <1>16, <1>17, <1>18, <1>19, <1>20, <1>21
  DEF Next, Driver, Handler, Fault

LEMMA JournalInvInit == Init => JournalInv
<1> SUFFICES ASSUME Init PROVE JournalInv
  OBVIOUS
<1>1. TypeOK BY TypeInit
<1>2. /\ yields = <<>> /\ closes = <<>> /\ inflight = {} /\ pc = "down" /\ consumed = <<>>
  BY DEF Init
<1>3. Len(yields) = 0 /\ Len(closes) = 0 /\ Len(consumed) = 0 BY <1>2
<1> QED BY <1>1, <1>2, <1>3
  DEF JournalInv, IndexInv, PositionInv, LengthInv, FlightInv, PersistBeforeResume,
      CloseIsLast, Running, Stepping, Closing

LEMMA JournalInvStep == SingleNext /\ JournalInv /\ [Next]_vars => JournalInv'
BY TypeStep, PartsStep DEF JournalInv, Parts

LEMMA JournalInvConsequences ==
  JournalInv => /\ PersistBeforeResume /\ DurableYieldRule
                /\ (~Asynchronous => CloseIsLast)
<1> SUFFICES ASSUME JournalInv
             PROVE  DurableYieldRule
  BY DEF JournalInv
<1>1. ASSUME pc \in {"handler", "direct"}
      PROVE  Len(yields) = Len(consumed) /\ closes = <<>>
  BY <1>1, PartTypes
  DEF JournalInv, IndexInv, PositionInv, LengthInv, FlightInv, Running, Stepping, Position
<1> QED BY <1>1 DEF DurableYieldRule

-----------------------------------------------------------------------------
(* Appends that a halt has abandoned *)

\* A Yield in flight that nobody awaits was left behind by a halt: the Close
\* on its way, or before it in the journal, is Close(cancelled), and no other
\* Yield comes in between.
AbandonedInv ==
  /\ OnlyAbandonedFollows
  /\ \A event, other \in inflight :
       event.type = "yield" /\ other.type = "yield" => event = other
  /\ (\E event \in inflight : event.type = "yield") /\ pc # "append" =>
       /\ pc \in {"halting", "exited"}
       /\ \A event \in inflight : event.type = "close" => event.result = Cancelled
       /\ \A i \in 1..Len(closes) :
            closes[i].after = Len(yields) /\ closes[i].result = Cancelled

\* What JournalInv says of the steps in which no append is under way, and of
\* the one in which a Yield is awaited.
LEMMA FlightFacts ==
  ASSUME JournalInv
  PROVE  /\ pc \in {"kernel", "max", "handler", "direct"} => inflight = {}
         /\ pc = "append" => /\ inflight = {awaited} /\ awaited.type = "yield"
                            /\ closes = <<>> /\ ~HasClose
         /\ pc \in {"closing", "failing"} =>
              inflight = {awaited} /\ awaited.type = "close"
         /\ pc \in Running /\ ~HasClose => closes = <<>>
BY PartTypes DEF Parts, FlightInv, IndexInv, Running, Closing, HasClose

LEMMA CloseWithAbandoned ==
  ASSUME JournalInv, AbandonedInv, NEW result \in Final, NEW at, CloseWith(result, at),
         \/ pc \in {"kernel", "max", "handler", "direct"}
         \/ pc = "append" /\ at = "halting" /\ result = Cancelled,
         UNCHANGED <<yields, closes>>
  PROVE  AbandonedInv'
<1>1. CloseEvent(result).type = "close" /\ CloseEvent(result).result = result
  BY EventFacts
<1> HIDE DEF CloseEvent
<1>2. CASE HasClose
  BY <1>2, FlightFacts DEF AbandonedInv, OnlyAbandonedFollows, CloseWith
<1>3. CASE ~HasClose
  <2>1. inflight' = inflight \union {CloseEvent(result)} /\ pc' = at
    BY <1>3 DEF CloseWith
  <2>2. closes = <<>> /\ closes' = <<>>
    BY <1>3, FlightFacts DEF Running
  <2>3. CASE pc # "append"
    <3>1. inflight' = {CloseEvent(result)} BY <2>1, <2>3, FlightFacts
    <3> QED BY <1>1, <2>2, <3>1 DEF AbandonedInv, OnlyAbandonedFollows
  <2>4. CASE pc = "append"
    <3>1. /\ inflight' = {awaited, CloseEvent(Cancelled)} /\ awaited.type = "yield"
          /\ result = Cancelled /\ pc' = "halting"
      BY <2>1, <2>4, FlightFacts
    <3> QED BY <1>1, <2>2, <3>1 DEF AbandonedInv, OnlyAbandonedFollows
  <2> QED BY <2>3, <2>4
<1> QED BY <1>2, <1>3

LEMMA YieldDurableAbandoned ==
  ASSUME JournalInv, AbandonedInv, NEW event \in Events, YieldDurable(event)
  PROVE  AbandonedInv'
<1>1. /\ event \in inflight /\ event.type = "yield" /\ inflight' = inflight \ {event}
      /\ yields' = Append(yields, event) /\ closes' = closes
  BY DEF YieldDurable
<1>2. event \in YieldEvents BY <1>1, EventFacts DEF Events
<1>3. Len(yields') = Len(yields) + 1 /\ Len(yields) \in Nat
  BY <1>1, <1>2, PartTypes, AppendFact
<1>4. \A other \in inflight' : other.type # "yield"
  BY <1>1 DEF AbandonedInv
<1>5. \A i \in 1..Len(closes) :
        closes[i].after = Len(yields) /\ closes[i].result = Cancelled
  <2>1. CASE pc = "append" BY <2>1, FlightFacts
  <2>2. CASE pc # "append" BY <1>1, <2>2 DEF AbandonedInv
  <2> QED BY <2>1, <2>2
<1>6. OnlyAbandonedFollows' BY <1>1, <1>3, <1>5 DEF OnlyAbandonedFollows
<1> QED BY <1>4, <1>6 DEF AbandonedInv

LEMMA CloseDurableAbandoned ==
  ASSUME JournalInv, AbandonedInv, NEW event \in Events, CloseDurable(event)
  PROVE  AbandonedInv'
<1> DEFINE entry == [result |-> event.result, after |-> Len(yields)]
<1>1. /\ event \in inflight /\ event.type = "close" /\ inflight' = inflight \ {event}
      /\ closes' = Append(closes, entry) /\ yields' = yields
  BY DEF CloseDurable
<1>2. closes = <<>> /\ pc # "append"
  BY <1>1, PartTypes DEF Parts, FlightInv
<1>3. pc' = pc \/ pc' = "exited" BY DEF CloseDurable
<1>4. Len(closes') = 1 /\ closes'[1] = entry
  <2> HIDE DEF entry
  <2> QED BY <1>1, <1>2
<1>5. \A i \in 1..Len(closes') :
        closes'[i].after = Len(yields') /\ closes'[i].result = event.result
  BY <1>1, <1>4
<1>6. OnlyAbandonedFollows' BY <1>5 DEF OnlyAbandonedFollows
<1>7. ASSUME NEW other \in inflight', other.type = "yield"
      PROVE  /\ pc' \in {"halting", "exited"} /\ event.result = Cancelled
             /\ \A e \in inflight' : e.type = "close" => e.result = Cancelled
  BY <1>1, <1>2, <1>3, <1>7 DEF AbandonedInv
<1> HIDE DEF entry
<1> QED BY <1>1, <1>5, <1>6, <1>7 DEF AbandonedInv

LEMMA AbandonedStep == JournalInv /\ AbandonedInv /\ [Next]_vars => AbandonedInv'
<1> SUFFICES ASSUME JournalInv, AbandonedInv, [Next]_vars PROVE AbandonedInv'
  OBVIOUS
<1> USE DEF durable, counters
\* Steps of the driver that touch neither the journal nor an append.
<1>1. ASSUME UNCHANGED <<yields, closes>>, inflight' = {} PROVE AbandonedInv'
  BY <1>1 DEF AbandonedInv, OnlyAbandonedFollows
<1>2. ASSUME NEW x \in Result, CloseWith(x, "failing") \/ CloseWith(x, "closing"),
             pc \in {"kernel", "max"}, UNCHANGED <<yields, closes>>
      PROVE  AbandonedInv'
  BY <1>2, CloseWithAbandoned, ResultFacts
<1>3. ASSUME NEW event, Persist(event), pc \in {"direct", "max"}, UNCHANGED <<yields, closes>>
      PROVE  AbandonedInv'
  <2>1. inflight' = {event} /\ pc' = "append" BY <1>3, FlightFacts DEF Persist
  <2> QED BY <1>3, <2>1 DEF AbandonedInv, OnlyAbandonedFollows
<1>4. CASE Boot BY <1>1, <1>4 DEF Boot
<1>5. CASE YieldPastClose
  BY <1>2, <1>5, ResultFacts DEF YieldPastClose, Fail, KernelIs
<1>6. CASE YieldDirectStored
  <2>1. pc = "kernel" /\ UNCHANGED <<yields, closes>>
    BY <1>6 DEF YieldDirectStored, KernelIs
  <2>2. CASE Fail("DivergenceError") BY <1>2, <2>1, <2>2, ResultFacts DEF Fail
  <2>3. CASE UNCHANGED inflight BY <1>1, <2>1, <2>3, FlightFacts
  <2> QED BY <1>6, <2>2, <2>3 DEF YieldDirectStored
<1>7. CASE YieldDirectLive
  BY <1>1, <1>7, FlightFacts DEF YieldDirectLive, KernelIs
<1>8. CASE DirectReturns BY <1>3, <1>8 DEF DirectReturns
<1>9. CASE YieldChain
  <2>1. pc = "kernel" /\ UNCHANGED <<yields, closes>> BY <1>9 DEF YieldChain, KernelIs
  <2>2. CASE Fail("SubscriptionCapabilityError") BY <1>2, <2>1, <2>2, ResultFacts DEF Fail
  <2>3. CASE UNCHANGED inflight BY <1>1, <2>1, <2>3, FlightFacts
  <2> QED BY <1>9, <2>2, <2>3 DEF YieldChain
<1>10. CASE LaneLive BY <1>1, <1>10, FlightFacts DEF LaneLive, MaxIs
<1>11. CASE HandlerReturns BY <1>1, <1>11, FlightFacts DEF HandlerReturns
<1>12. CASE LaneReplay BY <1>1, <1>12, FlightFacts DEF LaneReplay, MaxIs
<1>13. CASE LaneDiverge BY <1>1, <1>13, FlightFacts DEF LaneDiverge, MaxIs
<1>14. CASE ChainReplayed
  BY <1>1, <1>14, FlightFacts DEF ChainReplayed, MaxReturns, MaxIs
<1>15. CASE ChainNotReplayed
  <2>1. pc = "max" /\ UNCHANGED <<yields, closes>>
    BY <1>15 DEF ChainNotReplayed, MaxReturns, MaxIs
  <2>2. CASE Fail("DivergenceError") BY <1>2, <2>1, <2>2, ResultFacts DEF Fail
  <2>3. CASE UNCHANGED inflight BY <1>1, <2>1, <2>3, FlightFacts
  <2> QED BY <1>15, <2>2, <2>3 DEF ChainNotReplayed
<1>16. CASE ChainLive BY <1>3, <1>16 DEF ChainLive, MaxReturns, MaxIs
<1>17. CASE KernelReturns
  BY <1>2, <1>17, ResultFacts DEF KernelReturns, Fail, KernelIs
<1>18. CASE KernelThrows
  BY <1>2, <1>18, ResultFacts DEF KernelThrows, Fail, KernelIs
<1>19. CASE Storage
  <2>1. PICK event \in inflight : YieldDurable(event) \/ CloseDurable(event)
    BY <1>19 DEF Storage
  <2>2. event \in Events BY DEF JournalInv, TypeOK, Events
  <2> QED BY <2>1, <2>2, YieldDurableAbandoned, CloseDurableAbandoned
<1>20. CASE AppendFails
  <2>1. PICK event \in inflight : Awaiting(event)
    BY <1>20 DEF AppendFails
  <2>2. UNCHANGED <<yields, closes>> /\ event = awaited
    BY <1>20, <2>1 DEF AppendFails, Awaiting
  <2>3. CloseEvent(Error("AppendError")).type = "close" BY ResultFacts, EventFacts
  <2>4. CASE pc \in {"append", "closing"}
    <3>1. inflight' = {CloseEvent(Error("AppendError"))}
      BY <1>20, <2>4, FlightFacts DEF AppendFails, Awaiting
    <3> QED BY <2>2, <2>3, <3>1 DEF AbandonedInv, OnlyAbandonedFollows
  <2>5. CASE pc \notin {"append", "closing"}
    <3>1. inflight' \subseteq inflight /\ pc' = "exited" BY <1>20, <2>5 DEF AppendFails
    <3> QED BY <2>2, <2>5, <3>1 DEF AbandonedInv, OnlyAbandonedFollows
  <2> QED BY <2>4, <2>5
<1>21. CASE Halt
  <2>1. UNCHANGED <<yields, closes>> BY <1>21 DEF Halt
  <2>2. \/ pc \in {"max", "handler", "direct"}
        \/ pc \in {"append", "closing", "failing"}
    BY <1>21, Zenon DEF Halt
  <2>3. CASE closed
    <3>1. pc' = "exited" /\ inflight' = inflight BY <1>21, <2>3 DEF Halt
    <3> QED BY <2>1, <2>2, <3>1, FlightFacts DEF AbandonedInv, OnlyAbandonedFollows
  <2>4. CASE ~closed
    <3>1. CloseWith(Cancelled, "halting") BY <1>21, <2>4 DEF Halt
    <3>2. pc \notin {"closing", "failing"}
      BY <2>4, PartTypes DEF Parts, FlightInv, Closing
    <3> QED BY <2>1, <2>2, <3>1, <3>2, CloseWithAbandoned, ResultFacts
  <2> QED BY <2>3, <2>4
<1>22. CASE Crash BY <1>1, <1>22 DEF Crash
<1>23. CASE Deploy BY <1>23 DEF Deploy, AbandonedInv, OnlyAbandonedFollows
<1>24. CASE UNCHANGED vars BY <1>24 DEF vars, AbandonedInv, OnlyAbandonedFollows
<1> QED
  BY <1>4, <1>5, <1>6, <1>7, <1>8, <1>9, <1>10, <1>11, <1>12, <1>13, <1>14, <1>15,
     <1>16, <1>17, <1>18, <1>19, <1>20, <1>21, <1>22, <1>23, <1>24
  DEF Next, Driver, Handler, Fault

-----------------------------------------------------------------------------
(* The theorems *)

\* The state of the driver stays within its types, whatever program is
\* deployed, however often the host crashes and appends fail.
THEOREM TypeCorrect == Spec => []TypeOK
<1>1. Init => TypeOK BY TypeInit
<1>2. TypeOK /\ [Next]_vars => TypeOK' BY TypeStep
<1> QED BY <1>1, <1>2, PTL DEF Spec

\* The driver, its cursor, its replay index, the journal and the appends in
\* flight agree in every reachable state, when no middleware calls next()
\* twice in one dispatch.
THEOREM JournalCorrect == SingleNext => (Spec => []JournalInv)
<1> SUFFICES ASSUME SingleNext PROVE Spec => []JournalInv
  OBVIOUS
<1>1. Init => JournalInv BY JournalInvInit
<1>2. JournalInv /\ [Next]_vars => JournalInv' BY JournalInvStep
<1> QED BY <1>1, <1>2, PTL DEF Spec

\* Persist before resume: at no time, in any run, does the kernel know a
\* result that the durable journal does not hold at the same position.
THEOREM PersistBeforeResumeHolds == SingleNext => (Spec => []PersistBeforeResume)
<1>1. JournalInv => PersistBeforeResume BY JournalInvConsequences
<1> QED BY <1>1, JournalCorrect, PTL

\* The durable yield rule: a handler is called only at the frontier of the
\* journal, and never for a coroutine that has a durable Close.
THEOREM DurableYieldRuleHolds == SingleNext => (Spec => []DurableYieldRule)
<1>1. JournalInv => DurableYieldRule BY JournalInvConsequences
<1> QED BY <1>1, JournalCorrect, PTL

\* Over a file, whose appends go on when the driver is halted: the only event
\* that ever lands behind a Close is one Yield that a halt has abandoned, behind
\* a Close(cancelled), whatever runs, crashes, halts and failures come.
THEOREM OnlyAbandonedFollowsHolds == SingleNext => (Spec => []OnlyAbandonedFollows)
<1> SUFFICES ASSUME SingleNext PROVE Spec => []OnlyAbandonedFollows
  OBVIOUS
<1>1. Init => AbandonedInv BY DEF Init, AbandonedInv, OnlyAbandonedFollows
<1>2. JournalInv /\ AbandonedInv /\ [Next]_vars => AbandonedInv' BY AbandonedStep
<1>3. AbandonedInv => OnlyAbandonedFollows BY DEF AbandonedInv
<1> QED BY <1>1, <1>2, <1>3, JournalCorrect, PTL DEF Spec

\* With a stream whose appends cannot be interrupted (InMemoryStream), the
\* Close of a coroutine comes after all of its Yields.
THEOREM CloseIsLastHolds == SingleNext /\ ~Asynchronous => (Spec => []CloseIsLast)
<1> SUFFICES ASSUME SingleNext, ~Asynchronous PROVE Spec => []CloseIsLast
  OBVIOUS
<1>1. JournalInv => CloseIsLast BY JournalInvConsequences
<1> QED BY <1>1, JournalCorrect, PTL
=============================================================================
