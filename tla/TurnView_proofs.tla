-------------------------- MODULE TurnView_proofs --------------------------
(***************************************************************************)
(* Theorems about what the client shows of an agent's turns, for any       *)
(* turns, any number of requests, events, losses and reselections.         *)
(***************************************************************************)
EXTENDS TurnView, SequenceTheorems, TLAPS

-----------------------------------------------------------------------------
(* Types of what the operators return.                                     *)

Event == [turn : Turns, state : States, rev : 1..MaxRev]

\* A turn without a state has no revision, and the turn whose transition is
\* not yet published has one.
RecordsOK ==
  /\ \A t \in Turns : rec[t].state = "none" <=> rec[t].rev = 0
  /\ due # NoTurn => rec[due].rev > 0

LEMMA Bounds ==
  /\ Rungs \in Nat /\ MaxProbes \in Nat /\ MaxRev \in Nat
  /\ MaxAsks \in Nat /\ MaxFaults \in Nat
BY TurnViewAssumption

LEMMA SupersededType ==
  ASSUME flights \subseteq Flight
  PROVE  /\ Superseded \subseteq Flight
         /\ \A f \in Superseded : ~f.live /\ f.left = -1
<1>1. \A f \in flights : [f EXCEPT !.live = FALSE, !.left = -1] \in Flight
  <2>1. -1 \in -1..Rungs /\ FALSE \in BOOLEAN
    BY Bounds
  <2>2. ASSUME NEW f \in Flight
        PROVE  [f EXCEPT !.live = FALSE, !.left = -1] \in Flight
    BY <2>1, Zenon DEF Flight
  <2> QED
    BY <2>2
<1>2. \A f \in flights :
        /\ ~[f EXCEPT !.live = FALSE, !.left = -1].live
        /\ [f EXCEPT !.live = FALSE, !.left = -1].left = -1
  BY DEF Flight
<1> QED
  BY <1>1, <1>2 DEF Superseded

LEMMA FetchType ==
  ASSUME flights \subseteq Flight, NEW gate \in BOOLEAN, NEW left \in -1..Rungs,
         Fetch(gate, left)
  PROVE  flights' \subseteq Flight
<1>1. [live |-> TRUE, gate |-> gate, init |-> FALSE, left |-> left,
       got |-> NoAnswer] \in Flight
  BY DEF Flight
<1> QED
  BY <1>1, SupersededType DEF Fetch

LEMMA EnvelopesType ==
  ASSUME NEW s \in Summary, NEW init \in BOOLEAN
  PROVE  Envelopes(s, init) \in [Turns -> Record]
<1>1. s.turns \in [Turns -> Record] /\ s.active.state \in States
  BY DEF Summary
<1>2. \A t \in Turns : [state |-> s.active.state, rev |-> 0] \in Record
  BY <1>1, Bounds DEF Record
<1> QED
  BY <1>1, <1>2 DEF Envelopes

LEMMA ReconciledType ==
  ASSUME TypeOK, NEW envs \in [Turns -> Record]
  PROVE  Reconciled(envs) \in [Turns -> Record]
<1>1. \A t \in Turns : entry[t] \in Record /\ envs[t] \in Record
  BY DEF TypeOK
<1>2. \A t \in Turns :
        [state |-> envs[t].state,
         rev |-> IF envs[t].rev > 0 THEN envs[t].rev ELSE entry[t].rev] \in Record
  BY <1>1 DEF Record
<1>3. Absent \in Record
  BY Bounds DEF Absent, Record, States
<1> QED
  BY <1>1, <1>2, <1>3 DEF Reconciled

LEMMA HeldAfterType ==
  ASSUME TypeOK, NEW s \in Summary, NEW init \in BOOLEAN, NEW replace \in BOOLEAN
  PROVE  HeldAfter(s, init, replace) \in [Turns -> StepStates]
<1>1. \A t \in Turns : held[t] \in StepStates /\ s.steps[t] \in StepStates
  BY DEF TypeOK, Summary
<1>2. \A t \in Turns : Merged(held[t], s.steps[t]) \in StepStates
  BY <1>1 DEF Merged, StepStates
<1>3. "closed" \in StepStates
  BY DEF StepStates
<1> QED
  BY <1>1, <1>2, <1>3 DEF HeldAfter

LEMMA ApplyType ==
  ASSUME TypeOK, NEW s \in Summary, NEW init \in BOOLEAN, ApplySummary(s, init)
  PROVE  /\ entry' \in [Turns -> Record] /\ env' \in [Turns -> Record]
         /\ held' \in [Turns -> StepStates]
         /\ UNCHANGED <<reaped, swept>>
<1> DEFINE envs == Envelopes(s, init)
<1>1. envs \in [Turns -> Record]
  BY EnvelopesType
<1>2. Reconciled(envs) \in [Turns -> Record]
  BY <1>1, ReconciledType
<1>3. entry' \in [Turns -> Record] /\ env' \in [Turns -> Record]
  BY <1>1, <1>2 DEF ApplySummary, TypeOK
<1>4. held' \in [Turns -> StepStates]
  <2>1. PICK replace \in BOOLEAN : held' = HeldAfter(s, init, replace)
    BY DEF ApplySummary
  <2> QED
    BY <2>1, HeldAfterType
<1> QED
  BY <1>3, <1>4 DEF ApplySummary

LEMMA EmitType ==
  ASSUME TypeOK, NEW t \in Turns, NEW r \in Record, r.rev > 0, Emit(t, r)
  PROVE  turnIn' \in Seq(Event)
<1>1. [turn |-> t, state |-> r.state, rev |-> r.rev] \in Event
  BY Bounds DEF Event, Record
<1>2. turnIn \in Seq(Event)
  BY DEF TypeOK, Event
<1> QED
  BY <1>1, <1>2, AppendProperties DEF Emit

LEMMA LoseTailType ==
  ASSUME TypeOK, LoseTail
  PROVE  /\ turnIn' \in Seq(Event)
         /\ \A i \in DOMAIN turnIn' : \E j \in DOMAIN turnIn : turnIn'[i] = turnIn[j]
<1>1. turnIn \in Seq(Event)
  BY DEF TypeOK, Event
<1>2. PICK n \in 0..Len(turnIn) : turnIn' = SubSeq(turnIn, 1, n)
  BY DEF LoseTail
<1>3. Len(turnIn) \in Nat /\ DOMAIN turnIn = 1..Len(turnIn)
      /\ \A i \in 1..Len(turnIn) : turnIn[i] \in Event
  BY <1>1, LenProperties, ElementOfSeq
<1>4. /\ SubSeq(turnIn, 1, n) \in Seq(Event)
      /\ Len(SubSeq(turnIn, 1, n)) = n
      /\ \A i \in 1..n : SubSeq(turnIn, 1, n)[i] = turnIn[i]
  <2>1. 1 \in Int /\ n \in Int /\ \A i \in 1..n : turnIn[i] \in Event
    BY <1>3
  <2> HIDE DEF Event
  <2>2. /\ SubSeq(turnIn, 1, n) \in Seq(Event)
        /\ Len(SubSeq(turnIn, 1, n)) = IF 1 <= n THEN n - 1 + 1 ELSE 0
        /\ \A i \in 1..(n - 1 + 1) : SubSeq(turnIn, 1, n)[i] = turnIn[1 + i - 1]
    BY <2>1, SubSeqProperties
  <2> QED
    BY <2>2, <1>3
<1>5. DOMAIN turnIn' = 1..n
  BY <1>2, <1>4, LenProperties
<1> QED
  BY <1>2, <1>3, <1>4, <1>5

-----------------------------------------------------------------------------
(* Every action keeps the types.                                           *)

TypeInv == TypeOK /\ RecordsOK

\* The summary a request is answered with.
Now == [turns |-> rec, active |-> active, steps |-> step]

LEMMA NowType ==
  ASSUME TypeOK
  PROVE  Now \in Summary
BY DEF TypeOK, Now, Summary

LEMMA AnswerType ==
  ASSUME TypeOK, NEW f \in flights, Answer(f)
  PROVE  flights' \subseteq Flight
<1>1. Now \in Summary /\ f \in Flight
  BY NowType DEF TypeOK
<1>2. [f EXCEPT !.got = Now] \in Flight
  BY <1>1 DEF Flight
<1>3. flights \subseteq Flight
  BY DEF TypeOK
<1> QED
  BY <1>2, <1>3 DEF Answer, Now

LEMMA DropType ==
  ASSUME TypeOK, Drop
  PROVE  flights' \subseteq Flight
<1>1. \A f \in flights : [f EXCEPT !.got = NoAnswer] \in Flight
  BY DEF TypeOK, Flight
<1> QED
  BY <1>1 DEF Drop

LEMMA InitTypes == Init => TypeInv
<1> SUFFICES ASSUME Init PROVE TypeInv
  OBVIOUS
<1>1. Absent \in Record
  BY Bounds DEF Absent, Record, States
<1>2. rec \in [Turns -> Record]
  BY <1>1, Bounds DEF Init, Record, States
<1>3. active \in [turn : Turns \cup {NoTurn}, state : States]
  BY DEF Init, NoActive, States
<1>4. flights \subseteq Flight
  <2>1. [live |-> TRUE, gate |-> FALSE, init |-> TRUE, left |-> -1,
         got |-> NoAnswer] \in Flight
    BY Bounds DEF Flight
  <2> QED
    BY <2>1 DEF Init
<1>5. turnIn \in Seq([turn : Turns, state : States, rev : 1..MaxRev])
  BY EmptySeq DEF Init
<1>6. TypeOK
  <2>1. step \in [Turns -> StepStates] /\ held \in [Turns -> StepStates]
    BY DEF Init, StepStates
  <2>2. entry \in [Turns -> Record] /\ env \in [Turns -> Record]
    BY <1>1 DEF Init
  <2>3. {link, stepSub, turnSub, parked, queued, fresh} \subseteq BOOLEAN
    BY DEF Init
  <2>4. probes \in 0..MaxProbes /\ sleeping \in 0..Rungs
        /\ asks \in 0..MaxAsks /\ faults \in 0..MaxFaults
    BY Bounds DEF Init
  <2>5. due \in Turns \cup {NoTurn} /\ seeds \subseteq Turns
        /\ reaped \subseteq Turns /\ swept \subseteq Turns
    BY DEF Init
  <2> QED
    BY <1>2, <1>3, <1>4, <1>5, <2>1, <2>2, <2>3, <2>4, <2>5 DEF TypeOK
<1>7. RecordsOK
  BY Bounds, TurnViewAssumption DEF Init, RecordsOK, Absent
<1> QED
  BY <1>6, <1>7 DEF TypeInv

LEMMA AgentTypes ==
  ASSUME TypeInv, AgentStep
  PROVE  TypeInv'
<1> USE DEF TypeInv
<1>1. ASSUME NEW t \in Turns, Start(t) PROVE TypeInv'
  <2> DEFINE r == [state |-> "running", rev |-> 1]
  <2>1. r \in Record /\ r.rev > 0 /\ Emit(t, r)
    BY <1>1, Bounds DEF Start, Record, States, Live
  <2>2. turnIn' \in Seq(Event)
    BY <2>1, EmitType
  <2>3. rec' \in [Turns -> Record] /\ RecordsOK'
    BY <1>1, <2>1 DEF Start, TypeOK, RecordsOK, Quiescent
  <2>4. active' \in [turn : Turns \cup {NoTurn}, state : States]
    BY <1>1 DEF Start, States, Live
  <2>5. seeds' \subseteq Turns
    BY <1>1 DEF Start, TypeOK
  <2> QED
    BY <1>1, <2>2, <2>3, <2>4, <2>5
    DEF Start, TypeOK, Event, session, loop, reconciler, bounds
<1>2. ASSUME NEW t \in Turns, CloseStep(t) PROVE TypeInv'
  BY <1>2, Bounds DEF CloseStep, TypeOK, RecordsOK, StepStates, wire, loop, reconciler, bounds
<1>3. ASSUME NEW t \in Turns, NEW s \in States, Commit(t, s) PROVE TypeInv'
  <2>1. rec' \in [Turns -> Record]
    BY <1>3, Bounds DEF Commit, TypeOK, Record
  <2>2. rec'[t].state = s /\ rec'[t].rev > 0 /\ s # "none"
        /\ \A u \in Turns : u # t => rec'[u] = rec[u]
    BY <1>3, Bounds DEF Commit, TypeOK, Record
  <2>3. RecordsOK'
    BY <1>3, <2>2 DEF Commit, RecordsOK
  <2> QED
    BY <1>3, <2>1, <2>3 DEF Commit, TypeOK, wire, session, loop, reconciler, bounds
<1>4. ASSUME NEW t \in Turns, NEW k \in Kinds, OpenStep(t, k) PROVE TypeInv'
  <2>1. k \in StepStates
    BY TurnViewAssumption DEF StepStates
  <2>2. fresh' \in BOOLEAN /\ probes' \in 0..MaxProbes
    <3>1. Watching \in BOOLEAN
      BY DEF Watching
    <3>2. fresh \in BOOLEAN /\ probes \in 0..MaxProbes
      BY DEF TypeOK
    <3> QED
      BY <1>4, <3>1, <3>2, Bounds DEF OpenStep
  <2>3. step' \in [Turns -> StepStates] /\ held' \in [Turns -> StepStates]
    BY <1>4, <2>1 DEF OpenStep, TypeOK
  <2> QED
    BY <1>4, <2>2, <2>3 DEF OpenStep, TypeOK, RecordsOK, wire, bounds
<1>5. ASSUME Publish PROVE TypeInv'
  <2>1. due \in Turns /\ rec[due] \in Record /\ rec[due].rev > 0
        /\ Emit(due, rec[due])
    BY <1>5 DEF Publish, TypeOK, RecordsOK
  <2>2. turnIn' \in Seq(Event)
    BY <2>1, EmitType
  <2>3. active' \in [turn : Turns \cup {NoTurn}, state : States]
    BY <1>5, <2>1 DEF Publish, NoActive, States, Record
  <2> QED
    BY <1>5, <2>2, <2>3
    DEF Publish, TypeOK, RecordsOK, Event, session, loop, reconciler, bounds
<1> QED
  BY <1>1, <1>2, <1>3, <1>4, <1>5 DEF AgentStep

LEMMA PlainFetchTypes ==
  ASSUME TypeOK, PlainFetch
  PROVE  flights' \subseteq Flight /\ UNCHANGED <<queued, sleeping, fresh>>
<1>1. -1 \in -1..Rungs /\ FALSE \in BOOLEAN /\ flights \subseteq Flight
  BY Bounds DEF TypeOK
<1> QED
  BY <1>1, FetchType DEF PlainFetch

LEMMA SummaryTypes ==
  ASSUME TypeInv, SummaryStep
  PROVE  TypeInv'
<1> USE DEF TypeInv
<1>a. flights \subseteq Flight /\ parked \in BOOLEAN /\ queued \in BOOLEAN
      /\ fresh \in BOOLEAN
  BY DEF TypeOK
<1>1. ASSUME NEW f \in flights, Answer(f) PROVE TypeInv'
  <2>1. flights' \subseteq Flight
    BY <1>1, AnswerType
  <2>2. fresh' \in BOOLEAN
    BY <1>1, <1>a DEF Answer
  <2> QED
    BY <1>1, <2>1, <2>2 DEF Answer, TypeOK, RecordsOK, server, wire, session, loop, bounds
<1>2. ASSUME NEW f \in flights, Deliver(f) PROVE TypeInv'
  <2>1. f \in Flight /\ f.got \in Summary /\ f.init \in BOOLEAN
    BY <1>2, <1>a DEF Deliver, Flight
  <2>2. /\ entry' \in [Turns -> Record] /\ env' \in [Turns -> Record]
        /\ held' \in [Turns -> StepStates]
        /\ UNCHANGED <<reaped, swept>>
    BY <1>2, <2>1, ApplyType DEF Deliver
  <2>3. flights' \subseteq Flight /\ parked' \in BOOLEAN
    BY <1>2, <1>a DEF Deliver, Settle, Unparked
  <2>4. sleeping' \in 0..Rungs
    <3>1. sleeping \in 0..Rungs /\ f.left \in -1..Rungs
      BY <2>1 DEF TypeOK, Flight
    <3> QED
      BY <1>2, <3>1, Bounds DEF Deliver, SleepAfter
  <2>5. fresh' \in BOOLEAN
    BY <1>2, <1>a DEF Deliver
  <2> QED
    BY <1>2, <2>2, <2>3, <2>4, <2>5 DEF Deliver, TypeOK, RecordsOK, server, wire, bounds
<1>3. ASSUME NEW f \in flights, Discard(f) PROVE TypeInv'
  <2>1. flights' \subseteq Flight /\ parked' \in BOOLEAN
    BY <1>3, <1>a DEF Discard, Settle, Unparked
  <2> QED
    BY <1>3, <2>1 DEF Discard, TypeOK, RecordsOK, server, wire, session, bounds
<1>4. ASSUME NEW f \in flights, GiveUp(f) PROVE TypeInv'
  <2>1. flights' \subseteq Flight /\ parked' \in BOOLEAN
    BY <1>4, <1>a DEF GiveUp, Settle, Unparked
  <2>2. faults' \in 0..MaxFaults
    BY <1>4, Bounds DEF GiveUp, Fault, TypeOK
  <2> QED
    BY <1>4, <2>1, <2>2 DEF GiveUp, TypeOK, RecordsOK, server, wire, session
<1>5. ASSUME GateStart PROVE TypeInv'
  <2>1. Rungs \in -1..Rungs /\ TRUE \in BOOLEAN /\ 0 \in 0..Rungs
    BY Bounds
  <2>2. flights' \subseteq Flight
    BY <1>5, <1>a, <2>1, FetchType DEF GateStart
  <2> QED
    BY <1>5, <2>1, <2>2 DEF GateStart, SleepCut, TypeOK, RecordsOK, server, wire, session, loop, bounds
<1>6. ASSUME Rung PROVE TypeInv'
  <2>1. sleeping - 1 \in -1..Rungs /\ FALSE \in BOOLEAN /\ 0 \in 0..Rungs
    BY <1>6, Bounds DEF Rung, TypeOK
  <2>2. flights' \subseteq Flight
    BY <1>6, <1>a, <2>1, FetchType DEF Rung
  <2> QED
    BY <1>6, <2>1, <2>2 DEF Rung, TypeOK, RecordsOK, server, wire, session, loop, bounds
<1>7. ASSUME LadderQuits PROVE TypeInv'
  <2>1. sleeping' \in 0..Rungs
    BY <1>7, Bounds DEF LadderQuits
  <2>2. fresh' \in BOOLEAN
    BY <1>7 DEF LadderQuits
  <2> QED
    BY <1>7, <2>1, <2>2 DEF LadderQuits, TypeOK, RecordsOK, server, wire, session, loop, bounds
<1>8. ASSUME Reselect PROVE TypeInv'
  <2>1. flights' \subseteq Flight /\ UNCHANGED <<queued, sleeping, fresh>>
    BY <1>8, PlainFetchTypes DEF Reselect
  <2>2. asks' \in 0..MaxAsks
    BY <1>8, Bounds DEF Reselect, TypeOK
  <2> QED
    BY <1>8, <2>1, <2>2 DEF Reselect, TypeOK, RecordsOK, server, wire, session, loop
<1>9. ASSUME NEW t \in Turns, Sweep(t) PROVE TypeInv'
  <2>1. flights' \subseteq Flight /\ UNCHANGED <<queued, sleeping, fresh>>
    BY <1>9, <1>a, PlainFetchTypes DEF Sweep, reconciler
  <2> QED
    BY <1>9, <2>1 DEF Sweep, TypeOK, RecordsOK, server, wire, loop, bounds
<1> QED
  BY <1>1, <1>2, <1>3, <1>4, <1>5, <1>6, <1>7, <1>8, <1>9 DEF SummaryStep

\* What a lifecycle event leaves.
LEMMA EventTypes ==
  ASSUME TypeInv, TurnEvent
  PROVE  /\ Head(turnIn) \in Event /\ turnIn' \in Seq(Event)
         /\ TypeInv'
<1> USE DEF TypeInv
<1>1. turnIn \in Seq(Event) /\ turnIn # <<>>
  BY DEF TypeOK, Event, TurnEvent
<1>2. Head(turnIn) \in Event /\ Tail(turnIn) \in Seq(Event)
  BY <1>1, HeadTailProperties
<1> DEFINE ev == Head(turnIn)
           t == ev.turn
<1>3. [state |-> ev.state, rev |-> ev.rev] \in Record /\ t \in Turns
  BY <1>2, Bounds DEF Event, Record
<1>4. "closed" \in StepStates
  BY DEF StepStates
<1>5. /\ \/ entry' = [entry EXCEPT ![t] = [state |-> ev.state, rev |-> ev.rev]]
         \/ entry' = entry
      /\ reaped' \subseteq reaped /\ swept' \subseteq swept
      /\ \/ held' = [held EXCEPT ![t] = IF @ = "tool" THEN "closed" ELSE @]
         \/ held' = held
  BY DEF TurnEvent
<1>6. /\ entry' \in [Turns -> Record]
      /\ held' \in [Turns -> StepStates]
      /\ reaped' \subseteq Turns /\ swept' \subseteq Turns
  <2>1. entry \in [Turns -> Record] /\ held \in [Turns -> StepStates]
        /\ reaped \subseteq Turns /\ swept \subseteq Turns
    BY DEF TypeOK
  <2>2. entry' \in [Turns -> Record]
    BY <1>3, <1>5, <2>1
  <2>3. held' \in [Turns -> StepStates]
    BY <1>3, <1>4, <1>5, <2>1
  <2> QED
    BY <1>5, <2>1, <2>2, <2>3
<1>7. turnIn' \in Seq(Event)
  BY <1>2 DEF TurnEvent
<1> QED
  BY <1>2, <1>6, <1>7
  DEF TurnEvent, TypeOK, RecordsOK, Event, server, loop, reconciler, bounds

LEMMA ReconnectTypes ==
  ASSUME TypeOK, StepReconnect
  PROVE  /\ stepSub' \in BOOLEAN /\ probes' \in 0..MaxProbes
         /\ queued' \in BOOLEAN /\ parked' \in BOOLEAN
<1>1. queued \in BOOLEAN
  BY DEF TypeOK
<1>2. queued' \in BOOLEAN /\ parked' \in BOOLEAN
  BY <1>1 DEF StepReconnect, RequestLadder, GateBusy
<1> QED
  BY <1>2, Bounds DEF StepReconnect

LEMMA LoopTypes ==
  ASSUME TypeInv, LoopStep
  PROVE  TypeInv'
<1> USE DEF TypeInv
<1>1. ASSUME WatchdogReconnects PROVE TypeInv'
  <2>1. StepReconnect
    BY <1>1 DEF WatchdogReconnects
  <2> QED
    BY <1>1, <2>1, ReconnectTypes
    DEF WatchdogReconnects, StepReconnect, TypeOK, RecordsOK, server, session, bounds
<1>2. ASSUME ProbeFails PROVE TypeInv'
  <2>1. StepReconnect
    BY <1>2 DEF ProbeFails
  <2>2. faults' \in 0..MaxFaults
    BY <1>2, Bounds DEF ProbeFails, Fault, TypeOK
  <2> QED
    BY <1>2, <2>1, <2>2, ReconnectTypes
    DEF ProbeFails, StepReconnect, TypeOK, RecordsOK, server, session
<1>3. ASSUME ProbeAnswers PROVE TypeInv'
  <2>1. probes' \in 0..MaxProbes
    BY <1>3, Bounds DEF ProbeAnswers, TypeOK
  <2> QED
    BY <1>3, <2>1 DEF ProbeAnswers, TypeOK, RecordsOK, server, wire, session, reconciler, bounds
<1>4. Absent \in Record /\ "closed" \in StepStates
  BY Bounds DEF Absent, Record, States, StepStates
<1>5. ASSUME ProbesExhausted PROVE TypeInv'
  <2>1. StepReconnect
    BY <1>5 DEF ProbesExhausted
  <2>2. /\ entry' \in [Turns -> Record] /\ reaped' \subseteq Turns
        /\ held' \in [Turns -> StepStates]
    BY <1>5, <1>4 DEF ProbesExhausted, Reap, TypeOK
  <2> QED
    BY <1>5, <2>1, <2>2, ReconnectTypes
    DEF ProbesExhausted, StepReconnect, TypeOK, RecordsOK, server, bounds
<1>6. ASSUME NEW t \in Turns, CoarseReap(t) PROVE TypeInv'
  <2>1. /\ entry' \in [Turns -> Record] /\ reaped' \subseteq Turns
        /\ held' \in [Turns -> StepStates]
    BY <1>6, <1>4 DEF CoarseReap, Reap, TypeOK
  <2> QED
    BY <1>6, <2>1 DEF CoarseReap, TypeOK, RecordsOK, server, wire, loop, reconciler, bounds
<1> QED
  BY <1>1, <1>2, <1>3, <1>5, <1>6 DEF LoopStep

LEMMA WireTypes ==
  ASSUME TypeInv, WireStep
  PROVE  TypeInv'
<1> USE DEF TypeInv
<1>1. ASSUME TurnEvent PROVE TypeInv'
  BY <1>1, EventTypes
<1>2. ASSUME NEW t \in Turns, Seed(t) PROVE TypeInv'
  <2>1. flights' \subseteq Flight /\ UNCHANGED <<queued, sleeping, fresh>>
    BY <1>2, PlainFetchTypes DEF Seed
  <2>2. [state |-> "running", rev |-> 0] \in Record
    BY Bounds DEF Record, States, Live
  <2>3. entry' \in [Turns -> Record] /\ seeds' \subseteq Turns
    BY <1>2, <2>2 DEF Seed, TypeOK
  <2> QED
    BY <1>2, <2>1, <2>3 DEF Seed, TypeOK, RecordsOK, server, loop, bounds
<1>3. ASSUME Fault PROVE faults' \in 0..MaxFaults
  BY <1>3, Bounds DEF Fault, TypeOK
<1>4. ASSUME Drop PROVE TypeInv'
  <2>1. turnIn' \in Seq(Event) /\ flights' \subseteq Flight /\ faults' \in 0..MaxFaults
    BY <1>3, <1>4, LoseTailType, DropType DEF Drop
  <2> QED
    BY <1>4, <2>1 DEF Drop, TypeOK, RecordsOK, Event, server, session, loop
<1>5. ASSUME Reconnect PROVE TypeInv'
  <2>1. queued' \in BOOLEAN
    <3>1. queued \in BOOLEAN
      BY DEF TypeOK
    <3> QED
      BY <1>5, <3>1 DEF Reconnect, RequestLadder, GateBusy
  <2> QED
    BY <1>5, <2>1 DEF Reconnect, TypeOK, RecordsOK, server, session, loop, bounds
<1>6. ASSUME TurnStreamDies PROVE TypeInv'
  <2>1. turnIn' \in Seq(Event) /\ faults' \in 0..MaxFaults
    BY <1>3, <1>6, LoseTailType DEF TurnStreamDies
  <2> QED
    BY <1>6, <2>1 DEF TurnStreamDies, TypeOK, RecordsOK, Event, server, session, loop, reconciler
<1>7. ASSUME StepStreamDies PROVE TypeInv'
  BY <1>3, <1>7 DEF StepStreamDies, TypeOK, RecordsOK, server, session, loop, reconciler
<1>8. ASSUME StepStreamEnds PROVE TypeInv'
  <2>1. StepReconnect /\ faults' \in 0..MaxFaults
    BY <1>3, <1>8 DEF StepStreamEnds
  <2> QED
    BY <1>8, <2>1, ReconnectTypes
    DEF StepStreamEnds, StepReconnect, TypeOK, RecordsOK, server, session
<1> QED
  BY <1>1, <1>2, <1>4, <1>5, <1>6, <1>7, <1>8 DEF WireStep

LEMMA StutterTypes ==
  ASSUME TypeInv, UNCHANGED vars
  PROVE  TypeInv'
BY DEF TypeInv, TypeOK, RecordsOK, vars, server, wire, session, loop, reconciler, bounds

LEMMA TypeInvariance == Spec => []TypeInv
<1>1. TypeInv /\ [Next]_vars => TypeInv'
  BY AgentTypes, SummaryTypes, LoopTypes, WireTypes, StutterTypes DEF Next
<1> QED
  BY <1>1, InitTypes, PTL DEF Spec

-----------------------------------------------------------------------------
\* Every variable keeps its type: revisions, probes and rungs stay within
\* their bounds, an answer is a summary.
THEOREM TypeCorrect == Spec => []TypeOK
BY TypeInvariance, PTL DEF TypeInv

-----------------------------------------------------------------------------
(* Who changes what.                                                       *)

Entries == <<entry, env, reaped>>

LEMMA EntryChanges ==
  ASSUME [Next]_vars
  PROVE  \/ UNCHANGED Entries
         \/ \E f \in flights : Deliver(f)
         \/ TurnEvent
         \/ \E t \in Turns : Seed(t)
         \/ ProbesExhausted
         \/ \E t \in Turns : CoarseReap(t)
<1> USE DEF Entries, session
<1>1. CASE AgentStep
  BY <1>1 DEF AgentStep, Start, Commit, OpenStep, CloseStep, Publish
<1>2. CASE SummaryStep
  BY <1>2
  DEF SummaryStep, Answer, Discard, GiveUp, GateStart, Rung, LadderQuits, Reselect, Sweep
<1>3. CASE LoopStep
  BY <1>3 DEF LoopStep, WatchdogReconnects, ProbeFails, ProbeAnswers
<1>4. CASE WireStep
  BY <1>4
  DEF WireStep, Drop, Reconnect, TurnStreamDies, StepStreamDies, StepStreamEnds
<1>5. CASE UNCHANGED vars
  BY <1>5 DEF vars
<1> QED
  BY <1>1, <1>2, <1>3, <1>4, <1>5 DEF Next

-----------------------------------------------------------------------------
(* Turns given up.                                                         *)

LEMMA ReapedStep ==
  ASSUME TypeInv, ReapedStaysOut, [Next]_vars
  PROVE  ReapedStaysOut'
<1>0. entry \in [Turns -> Record] /\ reaped \subseteq Turns
  BY DEF TypeInv, TypeOK
<1>1. CASE UNCHANGED Entries
  BY <1>1 DEF Entries, ReapedStaysOut
<1>2. ASSUME NEW f \in flights, Deliver(f) PROVE ReapedStaysOut'
  <2> DEFINE envs == Envelopes(f.got, f.init)
  <2>1. reaped' = reaped /\ (entry' = entry \/ entry' = Reconciled(envs))
    BY <1>2 DEF Deliver, ApplySummary
  <2>2. \A t \in reaped : Reconciled(envs)[t] = entry[t]
    BY <1>0 DEF Reconciled, Skipped
  <2> HIDE DEF envs
  <2> QED
    BY <2>1, <2>2 DEF ReapedStaysOut
<1>3. CASE TurnEvent
  BY <1>0, <1>3 DEF TurnEvent, ReapedStaysOut
<1>4. ASSUME NEW t \in Turns, Seed(t) PROVE ReapedStaysOut'
  BY <1>0, <1>4 DEF Seed, Seeded, ReapedStaysOut
<1>5. CASE ProbesExhausted
  BY <1>0, <1>5 DEF ProbesExhausted, Reap, ReapedStaysOut
<1>6. ASSUME NEW t \in Turns, CoarseReap(t) PROVE ReapedStaysOut'
  BY <1>0, <1>6 DEF CoarseReap, Reap, ReapedStaysOut
<1> QED
  BY <1>1, <1>2, <1>3, <1>4, <1>5, <1>6, EntryChanges

\* A turn the client gave up for stuck comes back by a lifecycle event only.
THEOREM ReapedTurnStaysOut == Spec => []ReapedStaysOut
<1>1. Init => ReapedStaysOut
  BY DEF Init, ReapedStaysOut
<1>2. TypeInv /\ ReapedStaysOut /\ [Next]_vars => ReapedStaysOut'
  BY ReapedStep
<1> QED
  BY <1>1, <1>2, TypeInvariance, PTL DEF Spec

-----------------------------------------------------------------------------
(* Requests and ladders.                                                   *)

LEMMA FlightChanges ==
  ASSUME [Next]_vars
  PROVE  \/ UNCHANGED <<flights, sleeping>>
         \/ /\ sleeping' = sleeping
            /\ \/ Fetch(FALSE, -1)
               \/ Drop
               \/ \E f \in flights : Answer(f)
               \/ \E f \in flights : (~f.live \/ Fault) /\ flights' = flights \ {f}
         \/ \E f \in flights : Deliver(f)
         \/ GateStart \/ Rung
         \/ flights' = flights /\ sleeping' = 0
<1> USE DEF reconciler
<1>1. CASE AgentStep
  BY <1>1 DEF AgentStep, Start, Commit, OpenStep, CloseStep, Publish
<1>2. CASE SummaryStep
  BY <1>2
  DEF SummaryStep, Answer, Discard, GiveUp, Settle, LadderQuits, Reselect, Sweep, PlainFetch
<1>3. CASE LoopStep
  BY <1>3
  DEF LoopStep, WatchdogReconnects, ProbeFails, ProbeAnswers, ProbesExhausted, CoarseReap, StepReconnect
<1>4. CASE WireStep
  BY <1>4
  DEF WireStep, TurnEvent, Seed, PlainFetch, Drop, Reconnect, TurnStreamDies, StepStreamDies,
      StepStreamEnds, StepReconnect
<1>5. CASE UNCHANGED vars
  BY <1>5 DEF vars
<1> QED
  BY <1>1, <1>2, <1>3, <1>4, <1>5 DEF Next

\* After a fetch the new request is the only live one.
LEMMA FetchLeaves ==
  ASSUME flights \subseteq Flight, NEW gate \in BOOLEAN, NEW left \in -1..Rungs,
         Fetch(gate, left)
  PROVE  /\ \A f, g \in flights' : f.live /\ g.live => f = g
         /\ \A f \in flights' : f.live => f.left = left /\ f.got = NoAnswer
<1> DEFINE new == [live |-> TRUE, gate |-> gate, init |-> FALSE, left |-> left,
                   got |-> NoAnswer]
<1>1. \A f \in Superseded : ~f.live
  BY SupersededType
<1>2. flights' = Superseded \cup {new}
  BY DEF Fetch
<1>3. new.left = left /\ new.got = NoAnswer
  OBVIOUS
<1> HIDE DEF new
<1> QED
  BY <1>1, <1>2, <1>3

LEMMA OneLadderStep ==
  ASSUME TypeInv, OneLadder, [Next]_vars
  PROVE  OneLadder'
<1>0. flights \subseteq Flight /\ sleeping \in 0..Rungs
  BY DEF TypeInv, TypeOK
<1>1. CASE UNCHANGED <<flights, sleeping>>
  BY <1>1 DEF OneLadder
<1>2. CASE sleeping' = sleeping /\ Fetch(FALSE, -1)
  <2>1. -1 \in -1..Rungs /\ FALSE \in BOOLEAN
    BY Bounds
  <2>2. /\ \A f, g \in flights' : f.live /\ g.live => f = g
        /\ \A f \in flights' : f.live => f.left = -1
    BY <1>0, <1>2, <2>1, FetchLeaves
  <2> QED
    BY <2>2 DEF OneLadder
<1>3. CASE sleeping' = sleeping /\ Drop
  <2> DEFINE Cut(g) == [g EXCEPT !.got = NoAnswer]
  <2>1. flights' = {Cut(g) : g \in flights}
    BY <1>3 DEF Drop
  <2>2. \A g \in flights : Cut(g).live = g.live /\ Cut(g).left = g.left
    BY <1>0 DEF Flight
  <2> HIDE DEF Cut
  <2> QED
    BY <1>3, <2>1, <2>2 DEF OneLadder
<1>4. ASSUME NEW f \in flights, Answer(f), sleeping' = sleeping PROVE OneLadder'
  <2> DEFINE g == [f EXCEPT !.got = Now]
  <2>1. g.live = f.live /\ g.left = f.left /\ f.live
    BY <1>0, <1>4 DEF Flight, Answer
  <2>2. \A h \in flights' : h = g \/ (h \in flights /\ h # f)
    BY <1>4 DEF Answer, Now
  <2> HIDE DEF g
  <2> QED
    BY <1>4, <2>1, <2>2 DEF OneLadder
<1>5. ASSUME NEW f \in flights, flights' = flights \ {f}, sleeping' = sleeping
      PROVE  OneLadder'
  BY <1>5 DEF OneLadder
<1>6. ASSUME NEW f \in flights, Deliver(f) PROVE OneLadder'
  <2>1. f.live /\ flights' = flights \ {f}
    BY <1>6 DEF Deliver, Current, Settle
  <2>2. \A g \in flights' : ~g.live
    BY <2>1 DEF OneLadder
  <2> QED
    BY <2>2 DEF OneLadder
<1>7. CASE GateStart
  <2>1. Rungs \in -1..Rungs /\ TRUE \in BOOLEAN
    BY Bounds
  <2>2. sleeping' = 0 /\ Fetch(TRUE, Rungs)
    BY <1>7 DEF GateStart, SleepCut
  <2> QED
    BY <1>0, <2>1, <2>2, FetchLeaves DEF OneLadder
<1>8. CASE Rung
  <2>1. sleeping - 1 \in -1..Rungs /\ FALSE \in BOOLEAN
    BY <1>0, Bounds
  <2>2. sleeping' = 0 /\ Fetch(FALSE, sleeping - 1)
    BY <1>8 DEF Rung
  <2> QED
    BY <1>0, <2>1, <2>2, FetchLeaves DEF OneLadder
<1>9. CASE flights' = flights /\ sleeping' = 0
  BY <1>9 DEF OneLadder
<1> QED
  BY <1>1, <1>2, <1>3, <1>4, <1>5, <1>6, <1>7, <1>8, <1>9, FlightChanges

\* One request counts at a time; the fetch of a ladder and the sleep of
\* another never interleave.
THEOREM OneLadderAtATime == Spec => []OneLadder
<1>1. Init => OneLadder
  BY DEF Init, OneLadder
<1>2. TypeInv /\ OneLadder /\ [Next]_vars => OneLadder'
  BY OneLadderStep
<1> QED
  BY <1>1, <1>2, TypeInvariance, PTL DEF Spec

LEMMA FetchKeepsGate ==
  ASSUME flights \subseteq Flight, NEW gate, NEW left, Fetch(gate, left), GateBusy
  PROVE  GateBusy'
<1>1. PICK f \in flights : f.gate
  BY DEF GateBusy
<1> DEFINE g == [f EXCEPT !.live = FALSE, !.left = -1]
<1>2. g \in flights'
  BY <1>1 DEF Fetch, Superseded
<1>3. g.gate
  BY <1>1 DEF Flight
<1> QED
  BY <1>2, <1>3 DEF GateBusy

LEMMA ReconnectCovers ==
  ASSUME TypeOK, StepReconnect
  PROVE  /\ parked' => queued'
         /\ queued => queued'
BY DEF StepReconnect, RequestLadder

LEMMA ParkedStep ==
  ASSUME TypeInv, ParkedIsCovered, [Next]_vars
  PROVE  ParkedIsCovered'
<1> USE DEF TypeInv
<1>0. flights \subseteq Flight
  BY DEF TypeOK
<1>1. ASSUME UNCHANGED <<parked, queued, flights>> PROVE ParkedIsCovered'
  BY <1>1 DEF ParkedIsCovered, GateBusy
<1>2. ASSUME NEW gate, NEW left, Fetch(gate, left), UNCHANGED <<parked, queued>>
      PROVE  ParkedIsCovered'
  BY <1>0, <1>2, FetchKeepsGate DEF ParkedIsCovered
<1>3. ASSUME NEW f \in flights, Settle(f), queued' = queued PROVE ParkedIsCovered'
  BY <1>3 DEF Settle, Unparked, ParkedIsCovered, GateBusy
<1>4. ASSUME StepReconnect PROVE ParkedIsCovered'
  BY <1>4, ReconnectCovers DEF ParkedIsCovered
<1>5. CASE AgentStep
  BY <1>1, <1>5
  DEF AgentStep, Start, Commit, OpenStep, CloseStep, Publish, loop, reconciler
<1>6. CASE SummaryStep
  <2>1. ASSUME NEW f \in flights, Answer(f) PROVE ParkedIsCovered'
    <3>1. [f EXCEPT !.got = Now].gate = f.gate
      BY <1>0 DEF Flight
    <3>2. GateBusy => GateBusy'
      BY <2>1, <3>1 DEF Answer, GateBusy, Now
    <3> QED
      BY <2>1, <3>2 DEF Answer, loop, ParkedIsCovered
  <2>2. ASSUME NEW f \in flights, Deliver(f) \/ Discard(f) \/ GiveUp(f)
        PROVE  ParkedIsCovered'
    BY <1>3, <2>2 DEF Deliver, Discard, GiveUp
  <2>3. CASE GateStart
    <3>1. Fetch(TRUE, Rungs)
      BY <2>3 DEF GateStart
    <3> DEFINE new == [live |-> TRUE, gate |-> TRUE, init |-> FALSE, left |-> Rungs,
                       got |-> NoAnswer]
    <3>2. new \in flights' /\ new.gate
      BY <3>1 DEF Fetch
    <3> HIDE DEF new
    <3> QED
      BY <3>2 DEF ParkedIsCovered, GateBusy
  <2>4. CASE Rung
    BY <1>2, <2>4 DEF Rung, loop
  <2>5. CASE LadderQuits
    BY <1>1, <2>5 DEF LadderQuits, loop
  <2>6. CASE Reselect
    BY <1>2, <2>6 DEF Reselect, PlainFetch, loop
  <2>7. ASSUME NEW t \in Turns, Sweep(t) PROVE ParkedIsCovered'
    BY <1>1, <1>2, <2>7 DEF Sweep, PlainFetch, loop, reconciler
  <2> QED
    BY <1>6, <2>1, <2>2, <2>3, <2>4, <2>5, <2>6, <2>7 DEF SummaryStep
<1>7. CASE LoopStep
  BY <1>1, <1>4, <1>7
  DEF LoopStep, WatchdogReconnects, ProbeFails, ProbeAnswers, ProbesExhausted, CoarseReap,
      loop, reconciler
<1>8. CASE WireStep
  <2>1. ASSUME NEW t \in Turns, Seed(t) PROVE ParkedIsCovered'
    BY <1>2, <2>1 DEF Seed, PlainFetch, loop
  <2>2. CASE Drop
    <3>1. \A f \in flights : [f EXCEPT !.got = NoAnswer].gate = f.gate
      BY <1>0 DEF Flight
    <3>2. GateBusy => GateBusy'
      BY <2>2, <3>1 DEF Drop, GateBusy
    <3> QED
      BY <2>2, <3>2 DEF Drop, loop, ParkedIsCovered
  <2>3. CASE Reconnect
    BY <2>3 DEF Reconnect, RequestLadder, loop, ParkedIsCovered, GateBusy
  <2>4. CASE TurnEvent \/ TurnStreamDies \/ StepStreamDies
    BY <1>1, <2>4 DEF TurnEvent, TurnStreamDies, StepStreamDies, loop, reconciler
  <2>5. CASE StepStreamEnds
    BY <1>4, <2>5 DEF StepStreamEnds
  <2> QED
    BY <1>8, <2>1, <2>2, <2>3, <2>4, <2>5 DEF WireStep
<1>9. CASE UNCHANGED vars
  BY <1>1, <1>9 DEF vars, loop, reconciler
<1> QED
  BY <1>5, <1>6, <1>7, <1>8, <1>9 DEF Next

\* A loop that waits for its reconnect request has one to wait for.
THEOREM ParkedLoopIsCovered == Spec => []ParkedIsCovered
<1>1. Init => ParkedIsCovered
  BY DEF Init, ParkedIsCovered
<1>2. TypeInv /\ ParkedIsCovered /\ [Next]_vars => ParkedIsCovered'
  BY ParkedStep
<1> QED
  BY <1>1, <1>2, TypeInvariance, PTL DEF Spec

-----------------------------------------------------------------------------
(* Revisions.                                                              *)

\* Reconciling with a summary leaves no older revision.
LEMMA ReconciledRev ==
  ASSUME TypeOK, NEW envs \in [Turns -> Record], NEW t \in Turns,
         entry[t].rev > 0, Reconciled(envs)[t] # Absent
  PROVE  Reconciled(envs)[t].rev >= entry[t].rev
<1>1. entry[t] \in Record /\ envs[t] \in Record
  BY DEF TypeOK
<1>2. entry[t].rev \in Nat /\ envs[t].rev \in Nat
  BY <1>1, Bounds DEF Record
<1>3. CASE Skipped(t, envs) \/ Outdated(entry[t], envs[t])
  BY <1>2, <1>3 DEF Reconciled
<1>4. CASE ~Skipped(t, envs) /\ ~Outdated(entry[t], envs[t])
  BY <1>2, <1>4 DEF Reconciled, Outdated
<1> QED
  BY <1>3, <1>4

LEMMA RevisionStep ==
  ASSUME TypeInv, [Next]_vars, NEW t \in Turns,
         entry[t].rev > 0, entry'[t] # Absent
  PROVE  entry'[t].rev >= entry[t].rev
<1>0. /\ entry \in [Turns -> Record] /\ entry[t].rev \in Nat
  BY Bounds DEF TypeInv, TypeOK, Record
<1>1. CASE UNCHANGED Entries
  BY <1>0, <1>1 DEF Entries
<1>2. ASSUME NEW f \in flights, Deliver(f) PROVE entry'[t].rev >= entry[t].rev
  <2>1. f.got \in Summary /\ f.init \in BOOLEAN
    BY <1>2 DEF TypeInv, TypeOK, Deliver, Flight
  <2>2. Envelopes(f.got, f.init) \in [Turns -> Record]
    BY <2>1, EnvelopesType
  <2>3. entry' = entry \/ entry' = Reconciled(Envelopes(f.got, f.init))
    BY <1>2 DEF Deliver, ApplySummary
  <2> QED
    BY <1>0, <2>2, <2>3, ReconciledRev DEF TypeInv
<1>3. CASE TurnEvent
  <2> DEFINE ev == Head(turnIn)
  <2>1. ev.rev \in Nat /\ ev.rev > 0
    BY <1>3, EventTypes, Bounds DEF Event
  <2>2. \/ entry' = entry
        \/ /\ entry' = [entry EXCEPT ![ev.turn] = [state |-> ev.state, rev |-> ev.rev]]
           /\ Newer(ev.rev, entry[ev.turn])
    BY <1>3 DEF TurnEvent
  <2> HIDE DEF ev
  <2> QED
    BY <1>0, <2>1, <2>2 DEF Newer
<1>4. ASSUME NEW u \in Turns, Seed(u) PROVE entry'[t].rev >= entry[t].rev
  BY <1>0, <1>4 DEF Seed, Seeded, Absent
<1>5. CASE ProbesExhausted
  BY <1>0, <1>5 DEF ProbesExhausted, Reap
<1>6. ASSUME NEW u \in Turns, CoarseReap(u) PROVE entry'[t].rev >= entry[t].rev
  BY <1>0, <1>6 DEF CoarseReap, Reap
<1> QED
  BY <1>1, <1>2, <1>3, <1>4, <1>5, <1>6, EntryChanges

\* Late events and late summaries never take an entry back to an older
\* revision.
THEOREM EntryRevisionNeverFalls == Spec => RevisionNeverFalls
<1>1. TypeInv /\ [Next]_vars =>
        [\A t \in Turns :
           entry[t].rev > 0 /\ entry'[t] # Absent => entry'[t].rev >= entry[t].rev]_vars
  BY RevisionStep
<1> QED
  BY <1>1, TypeInvariance, PTL DEF Spec, RevisionNeverFalls

-----------------------------------------------------------------------------
(* The order of answers. What the client holds of a summary is never newer *)
(* than the record, and an answer that still counts is never older than    *)
(* what the client holds.                                                  *)

EnvBehind == \A t \in Turns : env[t].rev <= rec[t].rev

AnswersBehind ==
  \A f \in flights, t \in Turns : f.got # NoAnswer => f.got.turns[t].rev <= rec[t].rev

AnswersAhead ==
  \A f \in flights, t \in Turns :
    f.live /\ f.got # NoAnswer => env[t].rev <= f.got.turns[t].rev

AnswersOrdered == EnvBehind /\ AnswersBehind /\ AnswersAhead

\* Records only move on, and never in a step that touches requests.
LEMMA RecordMoves ==
  ASSUME TypeInv, [Next]_vars
  PROVE  /\ \A t \in Turns : rec'[t] = rec[t] \/ rec[t].rev < rec'[t].rev
         /\ \A t \in Turns : rec[t].rev <= rec'[t].rev
         /\ rec' = rec \/ UNCHANGED <<env, flights>>
<1>0. /\ rec \in [Turns -> Record] /\ \A t \in Turns : rec[t].rev \in Nat
      /\ \A t \in Turns : rec[t].state = "none" => rec[t].rev = 0
  BY Bounds DEF TypeInv, TypeOK, RecordsOK, Record
<1>1. ASSUME rec' = rec PROVE \A t \in Turns : rec'[t] = rec[t] /\ rec[t].rev <= rec'[t].rev
  BY <1>0, <1>1
<1>2. CASE AgentStep
  <2>1. ASSUME NEW t \in Turns, Start(t)
        PROVE  /\ \A u \in Turns : rec'[u] = rec[u] \/ rec[u].rev < rec'[u].rev
               /\ \A u \in Turns : rec[u].rev <= rec'[u].rev
               /\ UNCHANGED <<env, flights>>
    BY <1>0, <2>1 DEF Start, session, reconciler
  <2>2. ASSUME NEW t \in Turns, NEW s \in States, Commit(t, s)
        PROVE  /\ \A u \in Turns : rec'[u] = rec[u] \/ rec[u].rev < rec'[u].rev
               /\ \A u \in Turns : rec[u].rev <= rec'[u].rev
               /\ UNCHANGED <<env, flights>>
    BY <1>0, <2>2 DEF Commit, session, reconciler
  <2>3. ASSUME NEW t \in Turns, CloseStep(t) PROVE rec' = rec
    BY <2>3 DEF CloseStep
  <2>4. ASSUME NEW t \in Turns, NEW k \in Kinds, OpenStep(t, k) PROVE rec' = rec
    BY <2>4 DEF OpenStep
  <2>5. ASSUME Publish PROVE rec' = rec
    BY <2>5 DEF Publish
  <2> QED
    BY <1>1, <1>2, <2>1, <2>2, <2>3, <2>4, <2>5 DEF AgentStep
<1>3. CASE SummaryStep
  <2>1. rec' = rec
    BY <1>3
    DEF SummaryStep, Answer, Deliver, Discard, GiveUp, GateStart, Rung, LadderQuits, Reselect,
        Sweep, server
  <2> QED
    BY <1>1, <2>1
<1>4. CASE LoopStep
  <2>1. rec' = rec
    BY <1>4
    DEF LoopStep, WatchdogReconnects, ProbeFails, ProbeAnswers, ProbesExhausted, CoarseReap,
        server
  <2> QED
    BY <1>1, <2>1
<1>5. CASE WireStep
  <2>1. rec' = rec
    BY <1>5
    DEF WireStep, TurnEvent, Seed, Drop, Reconnect, TurnStreamDies, StepStreamDies,
        StepStreamEnds, server
  <2> QED
    BY <1>1, <2>1
<1>6. CASE UNCHANGED vars
  <2>1. rec' = rec
    BY <1>6 DEF vars, server
  <2> QED
    BY <1>1, <2>1
<1> QED
  BY <1>2, <1>3, <1>4, <1>5, <1>6 DEF Next

LEMMA EnvChanges ==
  ASSUME [Next]_vars
  PROVE  env' = env \/ \E f \in flights : Deliver(f)
<1>1. CASE AgentStep
  BY <1>1 DEF AgentStep, Start, Commit, OpenStep, CloseStep, Publish, session
<1>2. CASE SummaryStep
  BY <1>2
  DEF SummaryStep, Answer, Discard, GiveUp, GateStart, Rung, LadderQuits, Reselect, Sweep,
      session
<1>3. CASE LoopStep
  BY <1>3
  DEF LoopStep, WatchdogReconnects, ProbeFails, ProbeAnswers, ProbesExhausted, CoarseReap,
      session
<1>4. CASE WireStep
  BY <1>4
  DEF WireStep, TurnEvent, Seed, Drop, Reconnect, TurnStreamDies, StepStreamDies,
      StepStreamEnds, session
<1>5. CASE UNCHANGED vars
  BY <1>5 DEF vars, session
<1> QED
  BY <1>1, <1>2, <1>3, <1>4, <1>5 DEF Next

\* Every answer after a step was there before, as live as now, or is the
\* record of this moment.
LEMMA AnswersCome ==
  ASSUME TypeInv, [Next]_vars
  PROVE  \A g \in flights' : g.got # NoAnswer =>
           \/ g.got = Now
           \/ \E f \in flights : f.got = g.got /\ (g.live => f.live)
<1> DEFINE P(g) == \/ g.got = Now
                   \/ \E f \in flights : f.got = g.got /\ (g.live => f.live)
<1>0. flights \subseteq Flight
  BY DEF TypeInv, TypeOK
<1>1. ASSUME flights' \subseteq flights PROVE \A g \in flights' : P(g)
  BY <1>1
<1>2. ASSUME NEW gate, NEW left, Fetch(gate, left)
      PROVE  \A g \in flights' : g.got # NoAnswer => P(g)
  <2> DEFINE Cut(f) == [f EXCEPT !.live = FALSE, !.left = -1]
             new == [live |-> TRUE, gate |-> gate, init |-> FALSE, left |-> left,
                     got |-> NoAnswer]
  <2>1. \A f \in flights : Cut(f).got = f.got /\ ~Cut(f).live
    BY <1>0 DEF Flight
  <2>2. \A g \in flights' : g = new \/ \E f \in flights : g = Cut(f)
    BY <1>2 DEF Fetch, Superseded
  <2>3. new.got = NoAnswer
    OBVIOUS
  <2> HIDE DEF Cut, new
  <2> QED
    BY <2>1, <2>2, <2>3
<1>3. ASSUME Drop PROVE \A g \in flights' : g.got = NoAnswer
  <2> DEFINE Cut(f) == [f EXCEPT !.got = NoAnswer]
  <2>1. flights' = {Cut(f) : f \in flights}
    BY <1>3 DEF Drop
  <2>2. \A f \in flights : Cut(f).got = NoAnswer
    BY <1>0 DEF Flight
  <2> HIDE DEF Cut
  <2> QED
    BY <2>1, <2>2
<1>4. ASSUME NEW f \in flights, Answer(f) PROVE \A g \in flights' : P(g)
  <2> DEFINE new == [f EXCEPT !.got = Now]
  <2>1. flights' = (flights \ {f}) \cup {new}
    BY <1>4 DEF Answer, Now
  <2>2. new.got = Now
    BY <1>0 DEF Flight
  <2> HIDE DEF new
  <2> QED
    BY <2>1, <2>2
<1>5. ASSUME NEW f \in flights, Deliver(f) PROVE flights' \subseteq flights
  BY <1>5 DEF Deliver, Settle
<1>6. CASE GateStart
  BY <1>2, <1>6 DEF GateStart
<1>7. CASE Rung
  BY <1>2, <1>7 DEF Rung
<1> QED
  BY <1>1, <1>2, <1>3, <1>4, <1>5, <1>6, <1>7, FlightChanges

LEMMA NowTurns == Now.turns = rec
BY DEF Now

LEMMA AnswersOrderedStep ==
  ASSUME TypeInv, OneLadder, AnswersOrdered, [Next]_vars
  PROVE  AnswersOrdered'
<1>0. /\ flights \subseteq Flight
      /\ \A t \in Turns : rec[t].rev \in Nat /\ rec'[t].rev \in Nat /\ env[t].rev \in Nat
      /\ \A f \in flights, t \in Turns : f.got # NoAnswer => f.got.turns[t].rev \in Nat
  <2>1. TypeInv'
    BY AgentTypes, SummaryTypes, LoopTypes, WireTypes, StutterTypes DEF Next
  <2>2. \A r \in Record : r.rev \in Nat
    BY Bounds DEF Record
  <2>3. /\ rec \in [Turns -> Record] /\ rec' \in [Turns -> Record]
        /\ env \in [Turns -> Record] /\ flights \subseteq Flight
    BY <2>1 DEF TypeInv, TypeOK
  <2>4. ASSUME NEW f \in flights, f.got # NoAnswer
        PROVE  f.got.turns \in [Turns -> Record]
    BY <2>3, <2>4 DEF Flight, Summary
  <2> QED
    BY <2>2, <2>3, <2>4
<1>1. \A t \in Turns : rec[t].rev <= rec'[t].rev
  BY RecordMoves
<1>2. AnswersBehind'
  BY <1>0, <1>1, AnswersCome, NowTurns DEF AnswersOrdered, AnswersBehind
<1>3. CASE env' = env
  <2>1. EnvBehind'
    BY <1>0, <1>1, <1>3 DEF AnswersOrdered, EnvBehind
  <2>2. AnswersAhead'
    BY <1>3, AnswersCome, NowTurns DEF AnswersOrdered, EnvBehind, AnswersAhead
  <2> QED
    BY <1>2, <2>1, <2>2 DEF AnswersOrdered
<1>4. ASSUME NEW f \in flights, Deliver(f) PROVE AnswersOrdered'
  <2>1. /\ f.live /\ f.got # NoAnswer /\ flights' = flights \ {f} /\ rec' = rec
        /\ env' = env \/ env' = Envelopes(f.got, f.init)
    BY <1>4 DEF Deliver, Current, Settle, ApplySummary, server
  <2>2. \A t \in Turns : Envelopes(f.got, f.init)[t].rev \in {0, f.got.turns[t].rev}
    BY DEF Envelopes
  <2>3. EnvBehind'
    BY <1>0, <2>1, <2>2 DEF AnswersOrdered, EnvBehind, AnswersBehind
  <2>4. \A g \in flights' : ~g.live
    BY <2>1 DEF OneLadder
  <2> QED
    BY <1>2, <2>3, <2>4 DEF AnswersOrdered, AnswersAhead
<1> QED
  BY <1>3, <1>4, EnvChanges

\* A summary is applied only over what is not newer: the newest one wins.
LEMMA NewestStep ==
  ASSUME TypeInv, AnswersOrdered, [Next]_vars, NEW t \in Turns,
         env'[t] # env[t], env'[t].rev > 0
  PROVE  env'[t].rev >= env[t].rev
<1>1. PICK f \in flights : Deliver(f)
  BY EnvChanges
<1>2. /\ f.live /\ f.got # NoAnswer
      /\ env' = env \/ env' = Envelopes(f.got, f.init)
  BY <1>1 DEF Deliver, Current, ApplySummary
<1>3. Envelopes(f.got, f.init)[t].rev \in {0, f.got.turns[t].rev}
  BY DEF Envelopes
<1>4. env[t].rev <= f.got.turns[t].rev
  BY <1>2 DEF AnswersOrdered, AnswersAhead
<1> QED
  BY <1>2, <1>3, <1>4

LEMMA AnswersStayOrdered == Spec => []AnswersOrdered
<1>1. Init => AnswersOrdered
  <2>1. ASSUME Init PROVE AnswersOrdered
    <3>1. \A t \in Turns : env[t].rev = 0 /\ rec[t].rev \in Nat
      BY <2>1, InitTypes, Bounds DEF Init, Absent, TypeInv, TypeOK, Record
    <3>2. \A f \in flights : f.got = NoAnswer
      BY <2>1 DEF Init
    <3> QED
      BY <3>1, <3>2 DEF AnswersOrdered, EnvBehind, AnswersBehind, AnswersAhead
  <2> QED
    BY <2>1
<1>2. TypeInv /\ OneLadder /\ AnswersOrdered /\ [Next]_vars => AnswersOrdered'
  BY AnswersOrderedStep
<1> QED
  BY <1>1, <1>2, TypeInvariance, OneLadderAtATime, PTL DEF Spec

\* Of two summaries the one captured later is laid over the other, never the
\* other way round.
THEOREM NewestSummaryWins == Spec => NewestAnswerWins
<1>1. TypeInv /\ AnswersOrdered /\ [Next]_vars =>
        [\A t \in Turns : env[t]' # env[t] /\ env[t]'.rev > 0
                            => env[t]'.rev >= env[t].rev]_vars
  BY NewestStep
<1> QED
  BY <1>1, TypeInvariance, AnswersStayOrdered, PTL DEF Spec, NewestAnswerWins

-----------------------------------------------------------------------------
(* What may bring a turn shown as ended back to life, for any turns and    *)
(* any interleaving of events, summaries, submits and reaps.               *)
(*                                                                         *)
(* A revision names one state of a turn wherever it is known: in the       *)
(* record, in an event still on its way, in an answer, in what the client  *)
(* holds. Entries that are not ended are left out: an entry taken from the *)
(* active turn's envelope keeps the revision it had before.                *)

EventKnown(t, s, n) ==
  \E i \in DOMAIN turnIn : turnIn[i].turn = t /\ turnIn[i].state = s /\ turnIn[i].rev = n

AnswerKnown(t, s, n) ==
  \E f \in flights :
    f.got # NoAnswer /\ f.got.turns[t].state = s /\ f.got.turns[t].rev = n

Known(t, s, n) ==
  \/ rec[t].state = s /\ rec[t].rev = n
  \/ env[t].state = s /\ env[t].rev = n
  \/ s = "ended" /\ entry[t].state = s /\ entry[t].rev = n
  \/ AnswerKnown(t, s, n)
  \/ EventKnown(t, s, n)

\* Whatever is known under a revision agrees, and none is ahead of the record.
Truth ==
  \A t \in Turns, s \in States, n \in 1..MaxRev :
    Known(t, s, n) => /\ n <= rec[t].rev
                      /\ \A u \in States : Known(t, u, n) => u = s

\* An end has a revision, and the published active turn is not an ended one.
Numbered ==
  /\ active.state # "ended"
  /\ \A t \in Turns : /\ env[t].state = "ended" => env[t].rev > 0
                      /\ entry[t].state = "ended" => entry[t].rev > 0
  /\ \A f \in flights : f.got # NoAnswer =>
       /\ f.got.active.state # "ended"
       /\ \A t \in Turns : f.got.turns[t].state = "none" <=> f.got.turns[t].rev = 0

NewsInv == TypeInv /\ ReapedStaysOut /\ AnswersOrdered /\ Truth /\ Numbered

-----------------------------------------------------------------------------
LEMMA NextTypes ==
  ASSUME TypeInv, [Next]_vars
  PROVE  TypeInv'
BY AgentTypes, SummaryTypes, LoopTypes, WireTypes, StutterTypes DEF Next

LEMMA RecordRev ==
  /\ \A r \in Record : r.rev \in Nat /\ r.rev <= MaxRev /\ r.state \in States
  /\ \A r \in Record : r.state = "none" /\ r.rev = 0 => r = Absent
BY Bounds DEF Record, Absent

\* An event on its way was there before or tells of the record as it is now.
LEMMA EventsCome ==
  ASSUME TypeInv, [Next]_vars
  PROVE  \A i \in DOMAIN turnIn' :
           \/ \E j \in DOMAIN turnIn : turnIn[j] = turnIn'[i]
           \/ \E t \in Turns :
                turnIn'[i] = [turn |-> t, state |-> rec'[t].state, rev |-> rec'[t].rev]
<1> DEFINE P(i) == \/ \E j \in DOMAIN turnIn : turnIn[j] = turnIn'[i]
                   \/ \E t \in Turns :
                        turnIn'[i] = [turn |-> t, state |-> rec'[t].state, rev |-> rec'[t].rev]
<1>0. turnIn \in Seq(Event)
  BY DEF TypeInv, TypeOK, Event
<1>1. ASSUME turnIn' = turnIn PROVE \A i \in DOMAIN turnIn' : P(i)
  BY <1>1
<1>2. ASSUME NEW t \in Turns, Emit(t, rec'[t]) PROVE \A i \in DOMAIN turnIn' : P(i)
  <2> DEFINE ev == [turn |-> t, state |-> rec'[t].state, rev |-> rec'[t].rev]
  <2>1. turnIn' = turnIn \/ turnIn' = Append(turnIn, ev)
    BY <1>2 DEF Emit
  <2>2. ASSUME turnIn' = Append(turnIn, ev) PROVE \A i \in DOMAIN turnIn' : P(i)
    <3>1. \A i \in DOMAIN turnIn' : turnIn'[i] = ev \/ (i \in DOMAIN turnIn /\ turnIn'[i] = turnIn[i])
      <4> HIDE DEF ev
      <4>1. DOMAIN turnIn = 1..Len(turnIn) /\ Len(turnIn) \in Nat
        BY <1>0, LenProperties
      <4>2. /\ DOMAIN turnIn' = 1..(Len(turnIn) + 1)
            /\ \A i \in 1..Len(turnIn) : turnIn'[i] = turnIn[i]
            /\ turnIn'[Len(turnIn) + 1] = ev
        BY <1>0, <2>2
      <4> QED
        BY <4>1, <4>2
    <3> QED
      BY <3>1
  <2> QED
    BY <1>1, <2>1, <2>2
<1>3. ASSUME LoseTail PROVE \A i \in DOMAIN turnIn' : P(i)
  <2>1. \A i \in DOMAIN turnIn' : \E j \in DOMAIN turnIn : turnIn'[i] = turnIn[j]
    BY <1>3, LoseTailType DEF TypeInv
  <2> QED
    BY <2>1
<1>4. ASSUME TurnEvent PROVE \A i \in DOMAIN turnIn' : P(i)
  <2>1. turnIn # <<>> /\ turnIn' = Tail(turnIn)
    BY <1>4 DEF TurnEvent
  <2>2. \A i \in DOMAIN turnIn' : i + 1 \in DOMAIN turnIn /\ turnIn'[i] = turnIn[i + 1]
    BY <1>0, <2>1
  <2> QED
    BY <2>2
<1>5. CASE AgentStep
  <2>1. ASSUME NEW t \in Turns, Start(t) PROVE Emit(t, rec'[t])
    <3>1. rec' = [rec EXCEPT ![t] = [state |-> "running", rev |-> 1]]
          /\ Emit(t, [state |-> "running", rev |-> 1])
      BY <2>1 DEF Start
    <3>2. rec'[t] = [state |-> "running", rev |-> 1]
      BY <3>1 DEF TypeInv, TypeOK
    <3> QED
      BY <3>1, <3>2
  <2>2. ASSUME Publish PROVE due \in Turns /\ Emit(due, rec'[due])
    BY <2>2 DEF Publish, TypeInv, TypeOK
  <2>3. ASSUME NEW t \in Turns, CloseStep(t) PROVE turnIn' = turnIn
    BY <2>3 DEF CloseStep, wire
  <2>4. ASSUME NEW t \in Turns, NEW k \in Kinds, OpenStep(t, k) PROVE turnIn' = turnIn
    BY <2>4 DEF OpenStep, wire
  <2>5. ASSUME NEW t \in Turns, NEW s \in States, Commit(t, s) PROVE turnIn' = turnIn
    BY <2>5 DEF Commit, wire
  <2> QED
    BY <1>1, <1>2, <1>5, <2>1, <2>2, <2>3, <2>4, <2>5 DEF AgentStep
<1>6. CASE SummaryStep
  <2>1. turnIn' = turnIn
    BY <1>6
    DEF SummaryStep, Answer, Deliver, Discard, GiveUp, GateStart, Rung, LadderQuits, Reselect,
        Sweep, wire
  <2> QED
    BY <1>1, <2>1
<1>7. CASE LoopStep
  <2>1. turnIn' = turnIn
    BY <1>7
    DEF LoopStep, WatchdogReconnects, ProbeFails, ProbeAnswers, ProbesExhausted, CoarseReap,
        wire
  <2> QED
    BY <1>1, <2>1
<1>8. CASE WireStep
  <2>1. \/ TurnEvent \/ LoseTail \/ turnIn' = turnIn
    BY <1>8
    DEF WireStep, Seed, Drop, Reconnect, TurnStreamDies, StepStreamDies, StepStreamEnds, wire
  <2> QED
    BY <1>1, <1>3, <1>4, <2>1
<1>9. CASE UNCHANGED vars
  BY <1>1, <1>9 DEF vars, wire
<1> QED
  BY <1>5, <1>6, <1>7, <1>8, <1>9 DEF Next

\* Reconciling ends no entry.
LEMMA ReconciledEnds ==
  ASSUME NEW envs, NEW t \in Turns, Reconciled(envs)[t].state = "ended"
  PROVE  Reconciled(envs)[t] = entry[t]
BY DEF Reconciled, Absent

\* An entry that is ended was so before, or the event at the head of the
\* buffer ended it.
LEMMA EndsCome ==
  ASSUME TypeInv, [Next]_vars, NEW t \in Turns, entry'[t].state = "ended"
  PROVE  \/ entry'[t] = entry[t]
         \/ EventKnown(t, "ended", entry'[t].rev) /\ entry'[t].rev > 0
<1>0. entry \in [Turns -> Record]
  BY DEF TypeInv, TypeOK
<1>1. CASE UNCHANGED Entries
  BY <1>1 DEF Entries
<1>2. ASSUME NEW f \in flights, Deliver(f) PROVE entry'[t] = entry[t]
  BY <1>2, ReconciledEnds DEF Deliver, ApplySummary
<1>3. ASSUME TurnEvent
      PROVE  \/ entry'[t] = entry[t]
             \/ EventKnown(t, "ended", entry'[t].rev) /\ entry'[t].rev > 0
  <2> DEFINE ev == Head(turnIn)
  <2>1. ev \in Event /\ ev.rev > 0 /\ 1 \in DOMAIN turnIn /\ ev = turnIn[1]
    <3>1. turnIn \in Seq(Event) /\ turnIn # <<>>
      BY <1>3 DEF TurnEvent, TypeInv, TypeOK, Event
    <3>2. ev \in Event
      BY <1>3, EventTypes
    <3>3. ev.rev > 0
      BY <3>2, Bounds DEF Event
    <3>4. 1 \in DOMAIN turnIn /\ ev = turnIn[1]
      BY <3>1
    <3> QED
      BY <3>2, <3>3, <3>4
  <2>2. \/ entry' = entry
        \/ entry' = [entry EXCEPT ![ev.turn] = [state |-> ev.state, rev |-> ev.rev]]
    BY <1>3 DEF TurnEvent
  <2> HIDE DEF ev
  <2>3. CASE ev.turn = t /\ entry'[t] # entry[t]
    <3>1. entry'[t].state = ev.state /\ entry'[t].rev = ev.rev
      BY <1>0, <2>2, <2>3
    <3> QED
      BY <2>1, <2>3, <3>1 DEF EventKnown
  <2> QED
    BY <1>0, <2>2, <2>3
<1>4. ASSUME NEW u \in Turns, Seed(u) PROVE entry'[t] = entry[t]
  BY <1>0, <1>4 DEF Seed
<1>5. CASE ProbesExhausted
  BY <1>0, <1>5 DEF ProbesExhausted, Reap, Absent
<1>6. ASSUME NEW u \in Turns, CoarseReap(u) PROVE entry'[t] = entry[t]
  BY <1>0, <1>6 DEF CoarseReap, Reap, Absent
<1> QED
  BY <1>1, <1>2, <1>3, <1>4, <1>5, <1>6, EntryChanges

LEMMA EnvelopeOf ==
  ASSUME NEW s, NEW init, NEW t \in Turns
  PROVE  \/ Envelopes(s, init)[t] = s.turns[t]
         \/ /\ s.active.turn = t
            /\ Envelopes(s, init)[t].rev = 0
            /\ Envelopes(s, init)[t].state = s.active.state
BY DEF Envelopes

\* The envelope of a turn stays, or is what an answer said of it, or is the
\* active turn's and has no revision.
LEMMA EnvCome ==
  ASSUME TypeInv, [Next]_vars, NEW t \in Turns
  PROVE  \/ env'[t] = env[t]
         \/ \E f \in flights :
              /\ f.got # NoAnswer
              /\ \/ env'[t] = f.got.turns[t]
                 \/ env'[t].rev = 0 /\ env'[t].state = f.got.active.state
<1>1. ASSUME NEW f \in flights, Deliver(f)
      PROVE  /\ f.got # NoAnswer
             /\ env' = env \/ env' = Envelopes(f.got, f.init)
  BY <1>1 DEF Deliver, ApplySummary
<1> QED
  BY <1>1, EnvChanges, EnvelopeOf

\* What is known after a step was known before or is the record's.
LEMMA KnownComes ==
  ASSUME TypeInv, [Next]_vars, NEW t \in Turns, NEW s \in States, NEW n \in 1..MaxRev,
         Known(t, s, n)'
  PROVE  Known(t, s, n) \/ (rec'[t].state = s /\ rec'[t].rev = n)
<1>0. n > 0
  BY Bounds
<1>1. CASE env'[t].state = s /\ env'[t].rev = n
  BY <1>0, <1>1, EnvCome DEF Known, AnswerKnown
<1>2. CASE s = "ended" /\ entry'[t].state = s /\ entry'[t].rev = n
  BY <1>2, EndsCome DEF Known
<1>3. CASE AnswerKnown(t, s, n)'
  <2>1. PICK g \in flights' :
          g.got # NoAnswer /\ g.got.turns[t].state = s /\ g.got.turns[t].rev = n
    BY <1>3 DEF AnswerKnown
  <2>2. g.got = Now \/ \E f \in flights : f.got = g.got
    BY <2>1, AnswersCome
  <2>3. CASE g.got = Now
    BY <2>1, <2>3, NowTurns DEF Known
  <2>4. CASE \E f \in flights : f.got = g.got
    BY <2>1, <2>4 DEF Known, AnswerKnown
  <2> QED
    BY <2>2, <2>3, <2>4
<1>4. CASE EventKnown(t, s, n)'
  <2>1. PICK i \in DOMAIN turnIn' :
          turnIn'[i].turn = t /\ turnIn'[i].state = s /\ turnIn'[i].rev = n
    BY <1>4 DEF EventKnown
  <2> QED
    BY <2>1, EventsCome DEF Known, EventKnown
<1> QED
  BY <1>1, <1>2, <1>3, <1>4 DEF Known

LEMMA TruthStep ==
  ASSUME TypeInv, Truth, [Next]_vars
  PROVE  Truth'
<1> SUFFICES ASSUME NEW t \in Turns, NEW s \in States, NEW n \in 1..MaxRev, Known(t, s, n)'
             PROVE  /\ n <= rec'[t].rev
                    /\ \A u \in States : Known(t, u, n)' => u = s
  BY DEF Truth
<1>0. rec[t].rev \in Nat /\ rec'[t].rev \in Nat /\ n \in Nat /\ n > 0
  BY NextTypes, RecordRev, Bounds DEF TypeInv, TypeOK
<1>1. rec'[t] = rec[t] \/ rec[t].rev < rec'[t].rev
  BY RecordMoves
<1>2. \A u \in States : Known(t, u, n) => n <= rec[t].rev
  BY DEF Truth
<1>3. \A u \in States : rec[t].state = u /\ rec[t].rev = n => Known(t, u, n)
  BY DEF Known
<1>4. \A u, v \in States : Known(t, u, n) /\ Known(t, v, n) => u = v
  BY DEF Truth
<1>5. \A u \in States :
        Known(t, u, n)' => Known(t, u, n) \/ (rec'[t].state = u /\ rec'[t].rev = n)
  BY KnownComes
<1>6. CASE rec'[t] = rec[t]
  BY <1>0, <1>2, <1>3, <1>4, <1>5, <1>6
<1>7. CASE rec[t].rev < rec'[t].rev
  BY <1>0, <1>2, <1>4, <1>5, <1>7
<1> QED
  BY <1>1, <1>6, <1>7

\* The published active turn is not an ended one.
LEMMA ActiveStep ==
  ASSUME TypeInv, [Next]_vars, active.state # "ended"
  PROVE  active'.state # "ended"
<1>1. CASE AgentStep
  BY <1>1 DEF AgentStep, Start, Commit, OpenStep, CloseStep, Publish, NoActive
<1>2. CASE SummaryStep
  BY <1>2
  DEF SummaryStep, Answer, Deliver, Discard, GiveUp, GateStart, Rung, LadderQuits, Reselect,
      Sweep, server
<1>3. CASE LoopStep
  BY <1>3
  DEF LoopStep, WatchdogReconnects, ProbeFails, ProbeAnswers, ProbesExhausted, CoarseReap,
      server
<1>4. CASE WireStep
  BY <1>4
  DEF WireStep, TurnEvent, Seed, Drop, Reconnect, TurnStreamDies, StepStreamDies,
      StepStreamEnds, server
<1>5. CASE UNCHANGED vars
  BY <1>5 DEF vars, server
<1> QED
  BY <1>1, <1>2, <1>3, <1>4, <1>5 DEF Next

LEMMA NumberedStep ==
  ASSUME TypeInv, Numbered, [Next]_vars
  PROVE  Numbered'
<1>1. active'.state # "ended"
  BY ActiveStep DEF Numbered
<1>2. ASSUME NEW t \in Turns, env'[t].state = "ended" PROVE env'[t].rev > 0
  <2>1. CASE env'[t] = env[t]
    BY <1>2, <2>1 DEF Numbered
  <2>2. ASSUME NEW f \in flights, f.got # NoAnswer,
               \/ env'[t] = f.got.turns[t]
               \/ env'[t].rev = 0 /\ env'[t].state = f.got.active.state
        PROVE  env'[t].rev > 0
    <3>1. f.got.active.state # "ended" /\ (f.got.turns[t].state = "none" <=> f.got.turns[t].rev = 0)
      BY <2>2 DEF Numbered
    <3>2. env'[t] = f.got.turns[t] /\ env'[t].rev # 0
      BY <1>2, <2>2, <3>1
    <3>3. env'[t].rev \in Nat
      BY NextTypes, RecordRev DEF TypeInv, TypeOK
    <3> QED
      BY <3>2, <3>3
  <2> QED
    BY <2>1, <2>2, EnvCome
<1>3. ASSUME NEW t \in Turns, entry'[t].state = "ended" PROVE entry'[t].rev > 0
  BY <1>3, EndsCome DEF Numbered
<1>4. ASSUME NEW g \in flights', g.got # NoAnswer
      PROVE  /\ g.got.active.state # "ended"
             /\ \A t \in Turns : g.got.turns[t].state = "none" <=> g.got.turns[t].rev = 0
  <2>1. CASE g.got = Now
    BY <2>1 DEF Now, Numbered, TypeInv, RecordsOK
  <2>2. CASE \E f \in flights : f.got = g.got
    BY <1>4, <2>2 DEF Numbered
  <2> QED
    BY <1>4, <2>1, <2>2, AnswersCome
<1> QED
  BY <1>1, <1>2, <1>3, <1>4 DEF Numbered
-----------------------------------------------------------------------------
(* A turn shown as ended.                                                  *)

\* What two known pairs under one revision say of a turn.
LEMMA Agree ==
  ASSUME TypeInv, Truth, NEW t \in Turns, NEW a \in Record, NEW b \in Record,
         a.rev > 0, a.rev = b.rev,
         Known(t, a.state, a.rev), Known(t, b.state, b.rev)
  PROVE  a.state = b.state
<1>1. a.rev \in 1..MaxRev /\ a.state \in States /\ b.state \in States
  BY RecordRev, Bounds
<1> QED
  BY <1>1 DEF Truth

\* The ended record shown for t is known, and has a revision.
LEMMA ShownEnds ==
  ASSUME TypeInv, Numbered, NEW t \in Turns, Shown(t).state = "ended"
  PROVE  /\ Shown(t) \in Record /\ Shown(t).rev > 0
         /\ Known(t, "ended", Shown(t).rev)
         /\ \/ Shown(t) = entry[t] /\ ~HistoryWins(t) /\ entry[t] # Absent
            \/ Shown(t) = env[t] /\ (HistoryWins(t) \/ entry[t] = Absent)
<1>1. entry[t] \in Record /\ env[t] \in Record
  BY DEF TypeInv, TypeOK
<1>2. CASE ~HistoryWins(t) /\ entry[t] # Absent
  BY <1>1, <1>2 DEF Shown, Known, Numbered
<1>3. CASE HistoryWins(t) \/ entry[t] = Absent
  BY <1>1, <1>3 DEF Shown, Known, Numbered
<1> QED
  BY <1>2, <1>3

\* An event of the turn.
LEMMA NewsByEvent ==
  ASSUME TypeInv, Truth, Numbered, TurnEvent, NEW t \in Turns,
         Shown(t).state = "ended", Shown(t)'.state \in Live
  PROVE  Shown(t)'.rev > Shown(t).rev
<1> DEFINE ev == Head(turnIn)
           r == [state |-> ev.state, rev |-> ev.rev]
<1>1. ev \in Event /\ ev.rev > 0 /\ 1 \in DOMAIN turnIn /\ ev = turnIn[1]
  <2>1. turnIn \in Seq(Event) /\ turnIn # <<>>
    BY DEF TurnEvent, TypeInv, TypeOK, Event
  <2>2. ev \in Event
    BY EventTypes
  <2>3. ev.rev > 0
    BY <2>2, Bounds DEF Event
  <2>4. 1 \in DOMAIN turnIn /\ ev = turnIn[1]
    BY <2>1
  <2> QED
    BY <2>2, <2>3, <2>4
<1>2. r \in Record /\ r.state = ev.state /\ r.rev = ev.rev
  BY <1>1, Bounds DEF Event, Record
<1>3. /\ env' = env
      /\ \/ entry' = entry
         \/ entry' = [entry EXCEPT ![ev.turn] = r] /\ Newer(ev.rev, entry[ev.turn])
  BY DEF TurnEvent
<1>4. /\ entry \in [Turns -> Record] /\ env \in [Turns -> Record]
      /\ entry[t].rev \in Nat /\ env[t].rev \in Nat /\ ev.rev \in Nat
  BY <1>1, Bounds, RecordRev DEF TypeInv, TypeOK, Event
<1>5. ev.turn = t => Known(t, ev.state, ev.rev)
  BY <1>1 DEF Known, EventKnown
<1> HIDE DEF ev
<1> HIDE DEF r
<1>6. entry'[t] = r /\ ev.turn = t /\ Newer(ev.rev, entry[t])
  <2>1. "ended" \notin Live
    BY DEF Live
  <2>2. entry'[t] # entry[t]
    BY <1>3, <2>1 DEF Shown, HistoryWins
  <2> QED
    BY <1>3, <1>4, <2>2
<1>7. r # Absent
  BY <1>1, <1>2 DEF Absent
<1>8. \/ HistoryWins(t)' /\ Shown(t)' = env[t]
      \/ ~HistoryWins(t)' /\ Shown(t)' = r
  BY <1>3, <1>6, <1>7 DEF Shown
<1>9. ASSUME HistoryWins(t)', Shown(t)' = env[t] PROVE FALSE
  <2>1. env[t].rev > ev.rev /\ env[t].state # "ended"
    BY <1>1, <1>2, <1>3, <1>4, <1>6, <1>9 DEF HistoryWins, Live
  <2>2. ~HistoryWins(t) /\ entry[t] # Absent
    BY <1>9, <2>1, ShownEnds
  <2> QED
    BY <1>1, <1>4, <1>6, <2>1, <2>2 DEF HistoryWins, Newer
<1>10. ASSUME ~HistoryWins(t)', Shown(t)' = r PROVE Shown(t)'.rev > Shown(t).rev
  <2>1. CASE Shown(t) = entry[t]
    BY <1>2, <1>4, <1>6, <1>10, <2>1, ShownEnds DEF Newer
  <2>2. CASE Shown(t) = env[t]
    <3>1. env[t].rev <= ev.rev /\ env[t].rev > 0
      BY <1>1, <1>2, <1>3, <1>4, <1>6, <1>10, <2>2, ShownEnds DEF HistoryWins
    <3>2. env[t].rev # ev.rev
      <4>1. Known(t, env[t].state, env[t].rev)
        BY DEF Known
      <4>2. env[t].state # r.state
        BY <1>10, <2>2 DEF Live
      <4> QED
        BY <1>2, <1>4, <1>5, <1>6, <3>1, <4>1, <4>2, Agree
    <3> QED
      BY <1>2, <1>4, <1>10, <2>2, <3>1, <3>2
  <2> QED
    BY <2>1, <2>2, ShownEnds
<1> QED
  BY <1>8, <1>9, <1>10

\* A summary that does not name the turn as active.
LEMMA NewsBySummary ==
  ASSUME NewsInv, NEW f \in flights, Deliver(f), NEW t \in Turns, f.got.active.turn # t,
         Shown(t).state = "ended", Shown(t)'.state \in Live
  PROVE  Shown(t)'.rev > Shown(t).rev
<1> USE DEF NewsInv
<1> DEFINE envs == Envelopes(f.got, f.init)
           e == entry[t]
           r == f.got.turns[t]
<1>1. /\ f.live /\ f.got # NoAnswer
      /\ \/ env' = env /\ entry' = entry
         \/ env' = envs /\ entry' = Reconciled(envs)
  BY DEF Deliver, Current, ApplySummary
<1>2. e \in Record /\ env[t] \in Record /\ r \in Record
  BY <1>1 DEF TypeInv, TypeOK, Flight, Summary
<1>3. e.rev \in Nat /\ env[t].rev \in Nat /\ r.rev \in Nat
  BY <1>2, RecordRev
<1>4. "ended" \notin Live /\ "none" \notin Live
  BY DEF Live
<1>5. env' = envs /\ entry' = Reconciled(envs)
  BY <1>1, <1>4 DEF Shown, HistoryWins
<1>6. envs[t] = r
  BY EnvelopeOf
<1>7. /\ env[t].rev <= r.rev
      /\ r.state = "none" <=> r.rev = 0
  BY <1>1 DEF AnswersOrdered, AnswersAhead, Numbered
<1>8. Known(t, r.state, r.rev)
  BY <1>1 DEF Known, AnswerKnown
<1>9. env'[t] = r
  BY <1>5, <1>6
<1>10. Known(t, env[t].state, env[t].rev)
  BY DEF Known
<1>11. r.state \in Live /\ env[t].state = "ended" => env[t].rev < r.rev
  <2>1. ASSUME r.state \in Live, env[t].state = "ended", env[t].rev = r.rev PROVE FALSE
    <3>1. r.rev > 0
      BY <1>3, <1>4, <1>7, <2>1
    <3> QED
      BY <1>2, <1>4, <1>8, <1>10, <2>1, <3>1, Agree
  <2> QED
    BY <1>3, <1>7, <2>1
<1>12. entry'[t] = IF Skipped(t, envs) \/ Outdated(e, r) THEN e
                   ELSE IF r.state = "ended" THEN Absent
                   ELSE [state |-> r.state, rev |-> IF r.rev > 0 THEN r.rev ELSE e.rev]
  BY <1>5, <1>6 DEF Reconciled
<1> HIDE DEF envs, e, r
<1>13. CASE t \in reaped
  <2>1. e = Absent /\ entry'[t] = Absent
    BY <1>12, <1>13 DEF ReapedStaysOut, Skipped, e
  <2>2. Shown(t) = env[t] /\ Shown(t)' = r
    BY <1>9, <2>1 DEF Shown, e
  <2> QED
    BY <1>11, <1>3, <1>4, <2>2
<1>14. CASE t \notin reaped /\ r = Absent
  <2>1. entry'[t] = e /\ r.rev = 0
    BY <1>6, <1>12, <1>14 DEF Skipped, Absent
  <2>2. env[t].rev = 0 /\ Shown(t) = e
    BY <1>3, <1>7, <2>1, ShownEnds DEF e
  <2>3. e # Absent
    BY <2>2 DEF Absent
  <2>4. Shown(t)' = e
    BY <1>9, <2>1, <2>3 DEF Shown, HistoryWins
  <2> QED
    BY <1>4, <2>2, <2>4
<1>15. CASE t \notin reaped /\ r # Absent /\ Outdated(e, r)
  <2>1. entry'[t] = e /\ e.rev > r.rev /\ r.rev > 0
    BY <1>12, <1>15 DEF Outdated
  <2>2. e # Absent
    BY <2>1, <1>3 DEF Absent
  <2>3. Shown(t)' = e
    BY <1>3, <1>9, <2>1, <2>2 DEF Shown, HistoryWins
  <2>4. ~HistoryWins(t)
    BY <1>3, <1>7, <2>1 DEF HistoryWins, e
  <2>5. Shown(t) = e
    BY <2>2, <2>4, ShownEnds DEF e
  <2> QED
    BY <1>4, <2>3, <2>5
<1>16. CASE t \notin reaped /\ r # Absent /\ ~Outdated(e, r) /\ r.state = "ended"
  <2>1. entry'[t] = Absent
    BY <1>6, <1>12, <1>16 DEF Skipped
  <2>2. Shown(t)' = r
    BY <1>9, <2>1 DEF Shown
  <2> QED
    BY <1>4, <1>16, <2>2
<1>17. CASE t \notin reaped /\ r # Absent /\ ~Outdated(e, r) /\ r.state # "ended"
  <2>1. r.rev > 0
    BY <1>2, <1>3, <1>7, <1>17, RecordRev
  <2> DEFINE n == [state |-> r.state, rev |-> r.rev]
  <2>2. entry'[t] = n
    BY <1>6, <1>12, <1>17, <2>1 DEF Skipped
  <2>3. n.rev = r.rev /\ n.state = r.state
    OBVIOUS
  <2>4. n # Absent
    BY <1>3, <2>1, <2>3 DEF Absent
  <2> HIDE DEF n
  <2>5. Shown(t)' = n
    BY <1>3, <1>9, <2>1, <2>2, <2>3, <2>4 DEF Shown, HistoryWins
  <2>6. CASE Shown(t) = env[t]
    BY <1>3, <1>11, <2>3, <2>5, <2>6
  <2>7. CASE Shown(t) = e
    <3>1. e.rev > 0 /\ e.state = "ended" /\ Known(t, e.state, e.rev)
      BY <2>7, ShownEnds
    <3>2. e.rev <= r.rev
      BY <1>3, <1>17, <2>1, <3>1 DEF Outdated
    <3>3. e.rev # r.rev
      BY <1>2, <1>4, <1>8, <2>3, <2>5, <3>1, Agree
    <3> QED
      BY <1>3, <2>3, <2>5, <2>7, <3>2, <3>3
  <2> QED
    BY <2>6, <2>7, ShownEnds DEF e
<1> QED
  BY <1>13, <1>14, <1>15, <1>16, <1>17

\* Nothing else brings it back.
LEMMA NoOtherNews ==
  ASSUME TypeInv, Numbered, NEW t \in Turns, Shown(t).state = "ended", env' = env,
         \/ entry'[t] = entry[t]
         \/ entry'[t] = Absent /\ entry[t].state = "running"
         \/ entry[t] = Absent /\ entry'[t].rev = 0
  PROVE  Shown(t)'.state \notin Live
<1>1. CASE entry'[t] = entry[t]
  BY <1>1 DEF Shown, HistoryWins, Live
<1>2. CASE entry'[t] = Absent /\ entry[t].state = "running"
  BY <1>2 DEF Shown, Live
<1>3. CASE entry[t] = Absent /\ entry'[t].rev = 0
  <2>1. Shown(t) = env[t] /\ env[t].rev > 0
    BY <1>3 DEF Shown, Numbered
  <2> QED
    BY <1>3, <2>1 DEF Shown, HistoryWins, Live
<1> QED
  BY <1>1, <1>2, <1>3

LEMMA NewsStep ==
  ASSUME NewsInv, [Next]_vars, NEW t \in Turns,
         Shown(t).state = "ended", Shown(t)'.state \in Live
  PROVE  \/ Shown(t)'.rev > Shown(t).rev
         \/ \E f \in flights : Taken(f) /\ f.got.active.turn = t
<1> USE DEF NewsInv
<1>0. entry \in [Turns -> Record]
  BY DEF TypeInv, TypeOK
<1>1. CASE UNCHANGED Entries
  BY <1>1, NoOtherNews DEF Entries
<1>2. ASSUME NEW f \in flights, Deliver(f)
      PROVE  \/ Shown(t)'.rev > Shown(t).rev
             \/ \E g \in flights : Taken(g) /\ g.got.active.turn = t
  <2>1. Taken(f)
    BY <1>2 DEF Deliver, Current, Settle, Taken, bounds
  <2> QED
    BY <1>2, <2>1, NewsBySummary
<1>3. CASE TurnEvent
  BY <1>3, NewsByEvent
<1>4. ASSUME NEW u \in Turns, Seed(u) PROVE FALSE
  <2>1. entry'[t] = entry[t] \/ (entry[t] = Absent /\ entry'[t].rev = 0)
    BY <1>0, <1>4 DEF Seed, Seeded
  <2> QED
    BY <1>4, <2>1, NoOtherNews DEF Seed
<1>5. ASSUME ProbesExhausted PROVE FALSE
  <2>1. entry'[t] = entry[t] \/ (entry'[t] = Absent /\ entry[t].state = "running")
    BY <1>5 DEF ProbesExhausted, Reap, Reapable
  <2> QED
    BY <1>5, <2>1, NoOtherNews DEF ProbesExhausted, Reap
<1>6. ASSUME NEW u \in Turns, CoarseReap(u) PROVE FALSE
  <2>1. entry'[t] = entry[t] \/ (entry'[t] = Absent /\ entry[t].state = "running")
    BY <1>6 DEF CoarseReap, Reap, Reapable
  <2> QED
    BY <1>6, <2>1, NoOtherNews DEF CoarseReap, Reap
<1> QED
  BY <1>1, <1>2, <1>3, <1>4, <1>5, <1>6, EntryChanges

LEMMA NewsInvariance == Spec => []NewsInv
<1>1. Init => Truth /\ Numbered
  <2>1. ASSUME Init PROVE Truth /\ Numbered
    <3>1. /\ \A f \in flights : f.got = NoAnswer
          /\ DOMAIN turnIn = {}
          /\ \A t \in Turns : entry[t] = Absent /\ env[t] = Absent
          /\ active.state = "none"
      BY <2>1 DEF Init, NoActive
    <3>2. ASSUME NEW t \in Turns, NEW s \in States, NEW n \in 1..MaxRev, Known(t, s, n)
          PROVE  rec[t].state = s /\ rec[t].rev = n
      BY <3>1, <3>2, Bounds DEF Known, AnswerKnown, EventKnown, Absent
    <3>3. Truth
      BY <3>2, Bounds DEF Truth
    <3>4. Numbered
      BY <3>1 DEF Numbered, Absent
    <3> QED
      BY <3>3, <3>4
  <2> QED
    BY <2>1
<1>2. TypeInv /\ Truth /\ Numbered /\ [Next]_vars => Truth' /\ Numbered'
  BY TruthStep, NumberedStep
<1> QED
  BY <1>1, <1>2, TypeInvariance, ReapedTurnStaysOut, AnswersStayOrdered, PTL
  DEF Spec, NewsInv

\* A turn shown as ended comes back on newer news of it, or because the
\* summary just applied names it as the active turn; a late event, seed, reap
\* or retry does not bring it back.
THEOREM OnlyNewsRevivesATurn == Spec => OnlyNewsRevives
<1>1. NewsInv /\ [Next]_vars =>
        [\A t \in Turns :
           Shown(t).state = "ended" /\ Shown(t)'.state \in Live =>
             \/ Shown(t)'.rev > Shown(t).rev
             \/ \E f \in flights : Taken(f) /\ f.got.active.turn = t]_vars
  BY NewsStep
<1> QED
  BY <1>1, NewsInvariance, PTL DEF Spec, OnlyNewsRevives
-----------------------------------------------------------------------------
(* Summaries settle a turn, as long as every summary is applied in full: a *)
(* turn over before the client came, whose envelope holds objects, makes   *)
(* two histories differ.                                                   *)

PastRecord == [state |-> "ended", rev |-> MaxRev]

\* The turns that are over stay as they are in the record and in every answer.
PastStays ==
  \A p \in Past :
    /\ rec[p] = PastRecord /\ due # p /\ active.turn # p
    /\ \A f \in flights : f.got # NoAnswer =>
         f.got.turns[p] = PastRecord /\ f.got.active.turn # p

LEMMA PastStaysStep ==
  ASSUME TypeInv, PastStays, [Next]_vars
  PROVE  PastStays'
<1> SUFFICES ASSUME NEW p \in Past
             PROVE  /\ rec'[p] = PastRecord /\ due' # p /\ active'.turn # p
                    /\ \A f \in flights' : f.got # NoAnswer =>
                         f.got.turns[p] = PastRecord /\ f.got.active.turn # p
  BY DEF PastStays, PastRecord
<1>0. /\ rec[p] = PastRecord /\ due # p /\ active.turn # p
      /\ p \in Turns /\ rec \in [Turns -> Record]
  BY TurnViewAssumption DEF PastStays, TypeInv, TypeOK
<1>1. PastRecord.state = "ended" /\ PastRecord.rev = MaxRev
  BY DEF PastRecord
<1>2. rec'[p] = PastRecord /\ due' # p /\ active'.turn # p
  <2>1. CASE AgentStep
    <3>1. ASSUME NEW t \in Turns, Start(t)
          PROVE  rec'[p] = PastRecord /\ due' # p /\ active'.turn # p
      BY <1>0, <1>1, <3>1 DEF Start
    <3>2. ASSUME NEW t \in Turns, NEW s \in States, Commit(t, s)
          PROVE  rec'[p] = PastRecord /\ due' # p /\ active'.turn # p
      <4>1. rec[t].rev # MaxRev
        BY <3>2, Bounds DEF Commit
      <4> QED
        BY <1>0, <1>1, <3>2, <4>1 DEF Commit
    <3>3. ASSUME Publish PROVE rec'[p] = PastRecord /\ due' # p /\ active'.turn # p
      BY <1>0, <3>3, TurnViewAssumption DEF Publish, NoActive
    <3>4. ASSUME NEW t \in Turns, CloseStep(t) \/ \E k \in Kinds : OpenStep(t, k)
          PROVE  rec'[p] = PastRecord /\ due' # p /\ active'.turn # p
      BY <1>0, <3>4 DEF CloseStep, OpenStep
    <3> QED
      BY <2>1, <3>1, <3>2, <3>3, <3>4 DEF AgentStep
  <2>2. CASE SummaryStep
    BY <1>0, <2>2
    DEF SummaryStep, Answer, Deliver, Discard, GiveUp, GateStart, Rung, LadderQuits, Reselect,
        Sweep, server
  <2>3. CASE LoopStep
    BY <1>0, <2>3
    DEF LoopStep, WatchdogReconnects, ProbeFails, ProbeAnswers, ProbesExhausted, CoarseReap,
        server
  <2>4. CASE WireStep
    BY <1>0, <2>4
    DEF WireStep, TurnEvent, Seed, Drop, Reconnect, TurnStreamDies, StepStreamDies,
        StepStreamEnds, server
  <2>5. CASE UNCHANGED vars
    BY <1>0, <2>5 DEF vars, server
  <2> QED
    BY <2>1, <2>2, <2>3, <2>4, <2>5 DEF Next
<1>3. ASSUME NEW g \in flights', g.got # NoAnswer
      PROVE  g.got.turns[p] = PastRecord /\ g.got.active.turn # p
  <2>1. CASE g.got = Now
    BY <1>0, <2>1 DEF Now
  <2>2. CASE \E f \in flights : f.got = g.got
    BY <1>3, <2>2 DEF PastStays
  <2> QED
    BY <1>3, <2>1, <2>2, AnswersCome
<1> QED
  BY <1>2, <1>3

LEMMA PastInvariance == Spec => []PastStays
<1>1. Init => PastStays
  <2>1. ASSUME Init PROVE PastStays
    <3>1. /\ \A f \in flights : f.got = NoAnswer
          /\ due = NoTurn /\ active.turn = NoTurn
          /\ \A p \in Past : p \in Turns /\ rec[p] = PastRecord
      BY <2>1, TurnViewAssumption DEF Init, NoActive, PastRecord
    <3> QED
      BY <3>1, TurnViewAssumption DEF PastStays
  <2> QED
    BY <2>1
<1>2. TypeInv /\ PastStays /\ [Next]_vars => PastStays'
  BY PastStaysStep
<1> QED
  BY <1>1, <1>2, TypeInvariance, PTL DEF Spec

\* The step that takes a live answer away without a fault applies it.
LEMMA TakenIsDelivered ==
  ASSUME TypeInv, OneLadder, [Next]_vars, NEW f \in flights, Taken(f)
  PROVE  Deliver(f)
<1>0. /\ f.live /\ f.got # NoAnswer /\ flights' = flights \ {f} /\ faults' = faults
      /\ flights \subseteq Flight /\ faults \in Nat
  BY Bounds DEF Taken, TypeInv, TypeOK
<1>1. \A g \in flights : g.live => g = f
  BY <1>0 DEF OneLadder
<1>2. ~Fault
  BY <1>0 DEF Fault
<1>3. flights' # flights
  BY <1>0
<1>4. ASSUME NEW gate, NEW left, Fetch(gate, left) PROVE FALSE
  <2> DEFINE new == [live |-> TRUE, gate |-> gate, init |-> FALSE, left |-> left,
                     got |-> NoAnswer]
  <2>1. new \in flights' /\ new.live
    BY <1>4 DEF Fetch
  <2> HIDE DEF new
  <2> QED
    BY <1>0, <1>1, <2>1
<1>5. ASSUME NEW g \in flights, Answer(g) PROVE FALSE
  BY <1>0, <1>1, <1>5 DEF Answer
<1>6. ASSUME NEW g \in flights, (~g.live \/ Fault) /\ flights' = flights \ {g} PROVE FALSE
  BY <1>0, <1>2, <1>6
<1>7. ASSUME NEW g \in flights, Deliver(g) PROVE Deliver(f)
  BY <1>1, <1>7 DEF Deliver, Current
<1>8. ~Drop
  BY <1>2 DEF Drop
<1>9. ~GateStart /\ ~Rung
  BY <1>4 DEF GateStart, Rung
<1> QED
  BY <1>3, <1>4, <1>5, <1>6, <1>7, <1>8, <1>9, FlightChanges

\* With such a turn in it no summary but the first compares equal.
LEMMA NeverSkips ==
  ASSUME TypeInv, PastStays, Past \cap Rich # {}, NEW f \in flights, Deliver(f), ~f.init
  PROVE  /\ env' = Envelopes(f.got, f.init)
         /\ entry' = Reconciled(Envelopes(f.got, f.init))
<1> DEFINE envs == Envelopes(f.got, f.init)
<1>1. PICK p \in Past \cap Rich : TRUE
  OBVIOUS
<1>2. f.got # NoAnswer /\ p \in Turns
  BY TurnViewAssumption DEF Deliver
<1>3. envs[p] = PastRecord
  BY <1>2, EnvelopeOf DEF PastStays
<1>4. ~SameHistory(env, envs)
  <2> HIDE DEF envs
  <2>1. ASSUME SameHistory(env, envs) PROVE FALSE
    <3>1. env[p].state = "ended" /\ env[p] = Absent
      BY <1>1, <1>2, <1>3, <2>1 DEF SameHistory, Alike, PastRecord
    <3> QED
      BY <3>1 DEF Absent
  <2> QED
    BY <2>1
<1> QED
  BY <1>4 DEF Deliver, ApplySummary

LEMMA SettlesStep ==
  ASSUME TypeInv, ReapedStaysOut, OneLadder, PastStays, Past \cap Rich # {}, [Next]_vars,
         NEW f \in flights, NEW t \in Turns, Taken(f), ~f.init,
         \/ f.got.turns[t].state = "ended"
         \/ f.got.active = [turn |-> t, state |-> "paused"]
  PROVE  \/ "running" \notin {Shown(t)'.state, entry'[t].state}
         \/ entry'[t].rev > f.got.turns[t].rev
<1> DEFINE envs == Envelopes(f.got, f.init)
<1>1. env' = envs /\ entry' = Reconciled(envs)
  BY TakenIsDelivered, NeverSkips
<1>2. Absent.state = "none" /\ Absent.rev = 0
  BY DEF Absent
<1>3. CASE f.got.turns[t].state = "ended"
  <2> DEFINE r == f.got.turns[t]
  <2>1. envs[t] = r
    BY <1>3 DEF Envelopes
  <2> HIDE DEF envs
  <2>2. CASE Outdated(entry[t], r) /\ t \notin reaped
    BY <1>1, <2>1, <2>2 DEF Reconciled, Outdated
  <2>3. CASE ~(Outdated(entry[t], r) /\ t \notin reaped)
    <3>1. entry'[t] = Absent
      BY <1>1, <1>2, <1>3, <2>1, <2>3 DEF Reconciled, Skipped, ReapedStaysOut
    <3>2. Shown(t)' = r
      BY <1>1, <2>1, <3>1 DEF Shown
    <3> QED
      BY <1>2, <1>3, <3>1, <3>2
  <2> QED
    BY <2>2, <2>3
<1>4. CASE f.got.turns[t].state # "ended" /\ f.got.active = [turn |-> t, state |-> "paused"]
  <2>1. envs[t].state = "paused" /\ envs[t].rev = 0
    BY <1>4 DEF Envelopes
  <2> HIDE DEF envs
  <2>2. entry'[t].state \in {"paused", "none"}
    BY <1>1, <1>2, <2>1 DEF Reconciled, Skipped, Outdated, ReapedStaysOut
  <2>3. Shown(t)' = entry'[t] \/ Shown(t)' = envs[t]
    BY <1>1 DEF Shown
  <2> QED
    BY <2>1, <2>2, <2>3
<1> QED
  BY <1>3, <1>4

\* If some turn of the past keeps histories from comparing equal, a summary
\* that says a turn has ended or is paused takes its spinner down, whatever
\* the client held of it, except for an event newer than the summary. Without
\* such a turn the run turn_view_skip refutes it.
THEOREM AppliedSummarySettles ==
  ASSUME Past \cap Rich # {}
  PROVE  Spec => SummarySettles
<1>1. TypeInv /\ ReapedStaysOut /\ OneLadder /\ PastStays /\ [Next]_vars =>
        [\A f \in flights, t \in Turns :
           /\ Taken(f) /\ ~f.init
           /\ \/ f.got.turns[t].state = "ended"
              \/ f.got.active = [turn |-> t, state |-> "paused"]
           => \/ "running" \notin {Shown(t)'.state, entry'[t].state}
              \/ entry'[t].rev > f.got.turns[t].rev]_vars
  BY SettlesStep
<1> QED
  BY <1>1, TypeInvariance, ReapedTurnStaysOut, OneLadderAtATime, PastInvariance, PTL
  DEF Spec, SummarySettles
=============================================================================
