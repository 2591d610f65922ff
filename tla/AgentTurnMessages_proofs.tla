---------------------- MODULE AgentTurnMessages_proofs ----------------------
(***************************************************************************)
(* What becomes of a message, for any messages and any number of turns,    *)
(* stops, pauses, resumes, restarts and faults.                            *)
(***************************************************************************)
EXTENDS AgentTurn_proofs, FiniteSetTheorems

-----------------------------------------------------------------------------
(* The places of a message in a session.                                   *)
InTurn(s, m, i) == i \in DOMAIN s.turns /\ m \in s.turns[i].ms
InPend(s, m, i) == <<i, m>> \in s.pend

Placed(s, m) == \E i \in Nat : InTurn(s, m, i) \/ InPend(s, m, i)

OnePlaced(s, m) ==
  \A i, j \in Nat :
    /\ InTurn(s, m, i) /\ InTurn(s, m, j) => i = j
    /\ InPend(s, m, i) /\ InPend(s, m, j) => i = j
    /\ ~(InTurn(s, m, i) /\ InPend(s, m, j))

\* s1 has every message of the set M that s has, and no second time.
CarriesOf(M, s, s1) ==
  \A m \in M : /\ OnePlaced(s, m) => OnePlaced(s1, m)
               /\ Placed(s1, m) <=> Placed(s, m)

Carries(s, s1) == CarriesOf(Msgs, s, s1)

\* s1 has the message m besides, if s did not have it.
Adds(s, s1, m) ==
  /\ CarriesOf(Msgs \ {m}, s, s1)
  /\ ~Placed(s, m) => OnePlaced(s1, m) /\ Placed(s1, m)

LEMMA CarriesSame ==
  ASSUME NEW s, NEW s1, s1.turns = s.turns, s1.pend = s.pend
  PROVE  Carries(s, s1)
BY DEF Carries, CarriesOf, OnePlaced, Placed, InTurn, InPend

LEMMA CarriesTrans ==
  ASSUME NEW s, NEW u, NEW v, Carries(s, u), Carries(u, v)
  PROVE  Carries(s, v)
BY DEF Carries, CarriesOf

LEMMA AddsCarries ==
  ASSUME NEW s, NEW u, NEW v, NEW m \in Msgs, Adds(s, u, m), Carries(u, v)
  PROVE  Adds(s, v, m)
BY DEF Adds, Carries, CarriesOf

\* What a message finds in a session with one turn more.
LEMMA AppendPlaces ==
  ASSUME NEW s, DraftOK(s), NEW e \in Turn, NEW s1,
         s1.turns = Append(s.turns, e)
  PROVE  /\ Len(s.turns) + 1 \in Nat
         /\ \A m, i : InTurn(s1, m, i) <=>
              InTurn(s, m, i) \/ (i = Len(s.turns) + 1 /\ m \in e.ms)
         /\ \A m, i : InTurn(s, m, i) => i # Len(s.turns) + 1
<1>1. s.turns \in Seq(Turn) /\ Len(s.turns) \in Nat
      /\ DOMAIN s.turns = 1 .. Len(s.turns)
  BY TurnsType
<1>2. /\ Append(s.turns, e) \in Seq(Turn)
      /\ Len(Append(s.turns, e)) = Len(s.turns) + 1
      /\ \A i \in 1 .. Len(s.turns) : Append(s.turns, e)[i] = s.turns[i]
      /\ Append(s.turns, e)[Len(s.turns) + 1] = e
  BY <1>1, AppendProperties
<1>3. DOMAIN s1.turns = 1 .. Len(s.turns) + 1
  BY <1>2, LenProperties
<1> QED
  BY <1>1, <1>2, <1>3 DEF InTurn

LEMMA CarriesEmptyTurn ==
  ASSUME NEW s, DraftOK(s), NEW t \in Orders, NEW s1, s1.pend = s.pend,
         s1.turns = Append(s.turns, [t |-> t, ms |-> {}])
  PROVE  Carries(s, s1)
<1> DEFINE e == [t |-> t, ms |-> {}]
<1>1. e \in Turn /\ e.ms = {}
  BY DEF Turn, Orders
<1> HIDE DEF e
<1>2. \A m, i : InTurn(s1, m, i) <=> InTurn(s, m, i)
  BY <1>1, AppendPlaces DEF e
<1>3. \A m, i : InPend(s1, m, i) <=> InPend(s, m, i)
  BY DEF InPend
<1> QED
  BY <1>2, <1>3 DEF Carries, CarriesOf, OnePlaced, Placed

LEMMA CarriesApply ==
  ASSUME NEW s, DraftOK(s), NEW t \in Orders, NEW to
  PROVE  Carries(s, Apply(s, t, to))
<1> DEFINE a == Apply(s, t, to)
<1>1. a.pend = s.pend /\ a.turns \in {s.turns, Append(s.turns, [t |-> t, ms |-> {}])}
  BY DEF Apply, DraftOK, Drafts
<1> HIDE DEF a
<1> QED
  BY <1>1, CarriesSame, CarriesEmptyTurn DEF a

\* Reference, head and names are no places.
LEMMA CarriesSet ==
  ASSUME NEW s, DraftOK(s), NEW x
  PROVE  /\ Carries(s, Durable(s)) /\ Carries(s, Last(s))
         /\ Carries(s, [s EXCEPT !.ref = x])
         /\ Carries(s, [s EXCEPT !.head = x])
         /\ \A y : Carries(s, [s EXCEPT !.ref = x, !.next = y])
<1>1. ASSUME NEW a, a.turns = s.turns, a.pend = s.pend
      PROVE  Carries(s, a)
  BY <1>1, CarriesSame
<1>2. s \in Drafts
  BY DEF DraftOK
<1>3. Carries(s, Durable(s)) /\ Carries(s, Last(s))
  BY <1>1, <1>2 DEF Durable, Last, Drafts
<1>4. Carries(s, [s EXCEPT !.ref = x]) /\ Carries(s, [s EXCEPT !.head = x])
  BY <1>1, <1>2 DEF Drafts
<1>5. ASSUME NEW y
      PROVE  Carries(s, [s EXCEPT !.ref = x, !.next = y])
  <2> DEFINE a == [s EXCEPT !.ref = x, !.next = y]
  <2>1. a.turns = s.turns /\ a.pend = s.pend
    BY <1>2 DEF Drafts
  <2> HIDE DEF a
  <2>2. Carries(s, a)
    BY <1>1, <2>1
  <2> QED
    BY <2>2 DEF a
<1> QED
  BY <1>3, <1>4, <1>5

LEMMA CarriesMoved ==
  ASSUME NEW s, SessionOK(s), NEW t \in Orders, NEW r \in {0, t}, NEW to
  PROVE  Carries(s, Moved(s, r, t, to))
<1> DEFINE u == [s EXCEPT !.ref = r]
<1>1. r \in 0 .. MaxOrder
  BY AgentTurnAssumption DEF Orders
<1>2. SessionOK(u)
  BY <1>1, SetRef
<1>3. Carries(s, u)
  BY CarriesSet DEF SessionOK
<1>4. Moved(s, r, t, to) = Apply(u, t, to)
  BY DEF Moved
<1> HIDE DEF u
<1>5. Carries(u, Apply(u, t, to))
  BY <1>2, CarriesApply DEF SessionOK
<1> QED
  BY <1>3, <1>4, <1>5, CarriesTrans

LEMMA CarriesStarted ==
  ASSUME NEW s, SessionOK(s), NEW name \in Orders
  PROVE  Carries(s, Started(s, name))
<1> DEFINE n == IF s.st[name] \in Live THEN s.next ELSE s.next + 1
           u == [s EXCEPT !.ref = name, !.next = n]
<1>1. name \in 0 .. MaxOrder /\ n \in Nat \ {0}
  BY DEF Orders, SessionOK, DraftOK, Drafts
<1>2. Started(s, name) = IF CanTransition(s.st[name], "running")
                         THEN Apply(u, name, "running")
                         ELSE [u EXCEPT !.ref = 0]
  BY DEF Started
<1>3. DraftOK(u)
  BY <1>1 DEF SessionOK, DraftOK, Drafts, Recorded
<1>4. Carries(s, u)
  BY CarriesSet DEF SessionOK
<1> HIDE DEF u
<1>5. Carries(u, Apply(u, name, "running")) /\ Carries(u, [u EXCEPT !.ref = 0])
  BY <1>3, CarriesApply, CarriesSet
<1> QED
  BY <1>2, <1>4, <1>5, CarriesTrans

LEMMA CarriesRecovered ==
  ASSUME NEW s, SessionOK(s)
  PROVE  Carries(s, Recovered(s))
<1> DEFINE t == LastIn(s, Live)
<1>1. CASE t = 0
  BY <1>1, CarriesSame DEF Recovered
<1>2. CASE t # 0
  <2>1. t \in Orders
    BY <1>2, LastInOK DEF SessionOK, TurnStates, Live
  <2>2. Recovered(s) = Moved(s, t, t, "paused")
    BY <1>2 DEF Recovered, Moved
  <2> QED
    BY <2>1, <2>2, CarriesMoved
<1> QED
  BY <1>1, <1>2

LEMMA AddsQueued ==
  ASSUME NEW s, SessionOK(s), NEW m \in Msgs, Target(s) \in DOMAIN s.turns
  PROVE  Adds(s, QueuePending(s, m), m)
<1> DEFINE a == QueuePending(s, m)
<1>1. a.turns = s.turns /\ a.pend = s.pend \cup {<<Target(s), m>>}
  BY DEF QueuePending, SessionOK, DraftOK, Drafts
<1>2. Target(s) \in Nat
  BY TurnsType DEF SessionOK
<1> HIDE DEF a
<1>3. /\ \A o, i : InTurn(a, o, i) <=> InTurn(s, o, i)
      /\ \A o, i : InPend(a, o, i) <=>
           InPend(s, o, i) \/ (o = m /\ i = Target(s))
  BY <1>1 DEF InTurn, InPend
<1>4. CarriesOf(Msgs \ {m}, s, a)
  BY <1>3 DEF CarriesOf, OnePlaced, Placed
<1>5. ~Placed(s, m) => OnePlaced(a, m) /\ Placed(a, m)
  BY <1>2, <1>3 DEF OnePlaced, Placed
<1> QED
  BY <1>4, <1>5 DEF Adds, a

LEMMA AddsUserTurn ==
  ASSUME NEW s, DraftOK(s), NEW m \in Msgs
  PROVE  Adds(s, CreateUser(s, {m}), m)
<1> DEFINE a == CreateUser(s, {m})
           e == [t |-> 0, ms |-> {m}]
<1>1. a.turns = Append(s.turns, e) /\ a.pend = s.pend
  BY DEF CreateUser, DraftOK, Drafts
<1>2. e \in Turn /\ e.ms = {m}
  BY AgentTurnAssumption DEF Turn
<1> HIDE DEF a, e
<1>3. /\ Len(s.turns) + 1 \in Nat
      /\ \A o, i : InTurn(a, o, i) <=>
           InTurn(s, o, i) \/ (i = Len(s.turns) + 1 /\ o = m)
      /\ \A o, i : InPend(a, o, i) <=> InPend(s, o, i)
  BY <1>1, <1>2, AppendPlaces DEF InPend
<1>4. CarriesOf(Msgs \ {m}, s, a)
  BY <1>3 DEF CarriesOf, OnePlaced, Placed
<1>5. ~Placed(s, m) => OnePlaced(a, m) /\ Placed(a, m)
  BY <1>3 DEF OnePlaced, Placed
<1> QED
  BY <1>4, <1>5 DEF Adds, a

LEMMA PendingIs ==
  ASSUME NEW s, DraftOK(s)
  PROVE  /\ \A i, m : m \in PendingOn(s, i) <=> InPend(s, m, i)
         /\ \A i, m : InPend(s, m, i) => i \in Nat /\ m \in Msgs
         /\ \A i, m, j : InPend(DropPending(s, j), m, i) <=>
              InPend(s, m, i) /\ i # j
<1>1. s.pend \subseteq Nat \X Msgs /\ \A j : DropPending(s, j).pend = {p \in s.pend : p[1] # j}
  BY DEF DraftOK, Drafts, DropPending
<1>2. \A p \in s.pend : p = <<p[1], p[2]>> /\ p[1] \in Nat /\ p[2] \in Msgs
  BY <1>1
<1> QED
  BY <1>1, <1>2 DEF PendingOn, InPend

LEMMA CarriesConsumed ==
  ASSUME NEW s, SessionOK(s), Target(s) \in DOMAIN s.turns
  PROVE  Carries(s, Consume(s))
<1> DEFINE k == Target(s)
           d == DropPending(s, k)
           c == Consume(s)
           e == [s.turns[k] EXCEPT !.ms = @ \cup PendingOn(s, k)]
<1>1. DraftOK(s) /\ k \in Nat /\ s.turns[k] \in Turn
  BY TurnsType DEF SessionOK
<1>2. SessionOK(d) /\ d.turns = s.turns
  BY DropPendingOK DEF SameBut
<1>3. c = [d EXCEPT !.turns = [s.turns EXCEPT ![k] = e]] /\ d \in Drafts
  BY <1>2 DEF Consume, SessionOK, DraftOK
<1>4. e.ms = s.turns[k].ms \cup PendingOn(s, k)
  BY <1>1 DEF Turn
<1> HIDE DEF c, d, e, k
<1>5. c.turns = [s.turns EXCEPT ![k] = e] /\ c.pend = d.pend
  BY <1>3 DEF Drafts
<1>6. /\ DOMAIN c.turns = DOMAIN s.turns /\ k \in DOMAIN s.turns
      /\ \A i \in DOMAIN s.turns : c.turns[i] = IF i = k THEN e ELSE s.turns[i]
  BY <1>5 DEF k
<1>7. /\ \A m, i : InTurn(c, m, i) <=> InTurn(s, m, i) \/ (i = k /\ InPend(s, m, k))
      /\ \A m, i : InPend(c, m, i) <=> InPend(s, m, i) /\ i # k
      /\ \A m, i : InPend(s, m, i) => i \in Nat
  BY <1>1, <1>4, <1>5, <1>6, PendingIs DEF InTurn, InPend, d
<1>8. ASSUME NEW m \in Msgs
      PROVE  /\ OnePlaced(s, m) => OnePlaced(c, m)
             /\ Placed(c, m) <=> Placed(s, m)
  BY <1>1, <1>7 DEF OnePlaced, Placed
<1> QED
  BY <1>8 DEF Carries, CarriesOf, c

LEMMA CarriesPromoted ==
  ASSUME NEW s, SessionOK(s), NEW k \in DOMAIN s.turns
  PROVE  Carries(s, Promoted(s, k))
<1> DEFINE ms == PendingOn(s, k)
           d == DropPending(s, k)
           q == CreateUser(d, ms)
           e == [t |-> 0, ms |-> ms]
<1>1. DraftOK(s) /\ k \in Nat /\ ms \in SUBSET Msgs
  BY TurnsType, PendingType DEF SessionOK
<1>2. DraftOK(d) /\ d.turns = s.turns
  BY DropPendingOK DEF SameBut, SessionOK
<1>3. e \in Turn /\ e.ms = ms
  BY <1>1, AgentTurnAssumption DEF Turn
<1>4. q.turns = Append(s.turns, e) /\ q.pend = d.pend /\ DraftOK(q)
  BY <1>1, <1>2, CreateUserOK DEF CreateUser, DraftOK, Drafts
<1>5. Promoted(s, k) = Last(q)
  BY DEF Promoted
<1> HIDE DEF q, d, e, ms
<1>6. /\ Len(s.turns) + 1 \in Nat
      /\ \A o, i : InTurn(q, o, i) <=>
           InTurn(s, o, i) \/ (i = Len(s.turns) + 1 /\ InPend(s, o, k))
      /\ \A o, i : InPend(q, o, i) <=> InPend(s, o, i) /\ i # k
      /\ \A o, i : InPend(s, o, i) => i \in Nat
  BY <1>1, <1>3, <1>4, AppendPlaces, PendingIs DEF InPend, d, ms
<1>7. ASSUME NEW m \in Msgs
      PROVE  /\ OnePlaced(s, m) => OnePlaced(q, m)
             /\ Placed(q, m) <=> Placed(s, m)
  BY <1>1, <1>6 DEF OnePlaced, Placed
<1>8. Carries(s, q)
  BY <1>7 DEF Carries, CarriesOf
<1> QED
  BY <1>4, <1>5, <1>8, CarriesSet, CarriesTrans

-----------------------------------------------------------------------------
(* What a start does with the messages: nothing.                           *)
LEMMA StartTurnCarries ==
  ASSUME NEW s, SessionOK(s), s.turns # <<>>, RefLive(s),
         NEW saved, NEW name \in Orders \cup {s.next},
         count \in [DOMAIN Bound -> Nat],
         StartTurn(s, saved, name)
  PROVE  /\ Carries(s, sess')
         /\ disk' = saved \/ Carries(s, disk')
         /\ count'["crash"] = count["crash"]
<1>1. CASE /\ sess' = Started(s, name)
           /\ disk' \in {saved, Durable(Started(s, name))}
           /\ UNCHANGED count
           /\ Bounded
  <2>0. sess'.next \in {s.next, s.next + 1}
    <3>1. s \in Drafts
      BY DEF SessionOK, DraftOK
    <3>2. CASE CanTransition(s.st[name], "running")
      BY <1>1, <3>1, <3>2 DEF Started, Apply, Drafts
    <3>3. CASE ~CanTransition(s.st[name], "running")
      BY <1>1, <3>1, <3>3 DEF Started, Drafts
    <3> QED
      BY <3>2, <3>3
  <2>1. name \in Orders
    BY <1>1, <2>0, AgentTurnAssumption
    DEF Bounded, SessionOK, DraftOK, Drafts, Orders
  <2>2. Carries(s, sess') /\ DraftOK(sess')
    BY <1>1, <2>1, CarriesStarted, StartedOK DEF SessionOK
  <2>3. Carries(sess', Durable(sess'))
    BY <2>2, CarriesSet
  <2>4. Carries(s, Durable(sess'))
    BY <2>2, <2>3, CarriesTrans
  <2> QED
    BY <1>1, <2>2, <2>4
<1>2. CASE /\ Spend("fault")
           /\ sess' = [s EXCEPT !.ref = IF @ = name THEN 0 ELSE @]
           /\ disk' = saved
  <2>1. Carries(s, sess')
    BY <1>2, CarriesSet DEF SessionOK
  <2>2. count'["crash"] = count["crash"]
    BY <1>2 DEF Spend, Bound
  <2> QED
    BY <1>2, <2>1, <2>2
<1> QED
  BY <1>1, <1>2 DEF StartTurn

LEMMA PickUpCarries ==
  ASSUME NEW s, SessionOK(s), s.turns # <<>>, RefLive(s),
         NEW saved, NEW i \in {0} \cup DOMAIN s.turns,
         count \in [DOMAIN Bound -> Nat],
         PickUp(s, saved, i)
  PROVE  /\ Carries(s, sess')
         /\ disk' = saved \/ Carries(s, disk')
         /\ count'["crash"] = count["crash"]
<1>1. CASE i = 0
  BY <1>1, CarriesSame DEF PickUp
<1>2. CASE i # 0
  <2> DEFINE u == [s EXCEPT !.head = i]
  <2>1. StartTurn(u, saved, s.next)
    BY <1>2 DEF PickUp
  <2>2. SessionOK(u) /\ SameBut(s, u, {"head"}) /\ Carries(s, u)
    BY <1>2, SetHead, CarriesSet DEF SessionOK
  <2> HIDE DEF u
  <2>3. u.turns # <<>> /\ RefLive(u) /\ s.next \in Orders \cup {u.next}
    BY <2>2 DEF RefLive, SameBut
  <2>4. /\ Carries(u, sess')
        /\ disk' = saved \/ Carries(u, disk')
        /\ count'["crash"] = count["crash"]
    BY <2>1, <2>2, <2>3, StartTurnCarries
  <2> QED
    BY <2>2, <2>4, CarriesTrans
<1> QED
  BY <1>1, <1>2

-----------------------------------------------------------------------------
(* The invariant of the places: the session and its saved copy have every  *)
(* message in one place at most, they have no message whose submit is not  *)
(* yet handled, and the session has the others until the first restart.    *)
Handled == sent \ (IF dpc = "submit" THEN {dmsg} ELSE {})

MessagesOK(s) == \A m \in Msgs : OnePlaced(s, m) /\ (Placed(s, m) => m \in Handled)

PlacesOK ==
  /\ MessagesOK(sess)
  /\ MessagesOK(disk)
  /\ dpc = "submit" => dmsg \in sent
  /\ count["crash"] = 0 => \A m \in Handled : Placed(sess, m)

LEMMA PlacesInit == Init => PlacesOK
<1> SUFFICES ASSUME Init PROVE PlacesOK
  OBVIOUS
<1>1. /\ sess = EmptySession /\ disk = EmptySession /\ sent = {} /\ dpc = "idle"
  BY DEF Init
<1>2. EmptySession.turns = <<>> /\ EmptySession.pend = {}
  BY DEF EmptySession
<1>3. \A m, i : ~InTurn(EmptySession, m, i) /\ ~InPend(EmptySession, m, i)
  BY <1>2 DEF InTurn, InPend
<1> QED
  BY <1>1, <1>3 DEF PlacesOK, MessagesOK, OnePlaced, Placed, Handled

LEMMA CarriesOK ==
  ASSUME NEW s, NEW s1, Carries(s, s1), MessagesOK(s), Handled \subseteq Handled'
  PROVE  \A m \in Msgs : OnePlaced(s1, m) /\ (Placed(s1, m) => m \in Handled')
BY DEF Carries, CarriesOf, MessagesOK

\* A step that only moves messages.
LEMMA MovesStep ==
  ASSUME PlacesOK, HistoryOK, Carries(sess, sess'),
         disk' = disk \/ Carries(sess, disk'),
         Handled' = Handled, dpc' = "submit" => dmsg' \in sent',
         count'["crash"] = count["crash"]
  PROVE  PlacesOK'
<1> USE DEF PlacesOK
<1>1. MessagesOK(sess)'
  BY CarriesOK DEF MessagesOK
<1>2. MessagesOK(disk)'
  BY CarriesOK DEF MessagesOK
<1>3. \A m \in Handled : m \in Msgs
  BY DEF Handled, HistoryOK
<1>4. count'["crash"] = 0 => \A m \in Handled' : Placed(sess', m)
  BY <1>3 DEF Carries, CarriesOf
<1> QED
  BY <1>1, <1>2, <1>4

\* A step that handles a submit.
LEMMA HandlesStep ==
  ASSUME PlacesOK, HistoryOK, dpc = "submit", dmsg \in Msgs, dpc' # "submit",
         Adds(sess, sess', dmsg), disk' = disk \/ Carries(sess', disk'),
         UNCHANGED <<sent, count>>
  PROVE  PlacesOK'
<1> USE DEF PlacesOK
<1>1. Handled' = Handled \cup {dmsg} /\ dmsg \notin Handled
  BY DEF Handled
<1>2. ~Placed(sess, dmsg)
  BY <1>1 DEF MessagesOK
<1>3. \A m \in Msgs : OnePlaced(sess', m) /\ (Placed(sess', m) => m \in Handled')
  BY <1>1, <1>2 DEF Adds, CarriesOf, MessagesOK
<1>4. MessagesOK(sess)'
  BY <1>3 DEF MessagesOK
<1>5. MessagesOK(disk)'
  <2>1. CASE disk' = disk
    BY <1>1, <2>1 DEF MessagesOK
  <2>2. CASE Carries(sess', disk')
    BY <1>3, <2>2 DEF MessagesOK, Carries, CarriesOf
  <2> QED
    BY <2>1, <2>2
<1>6. \A m \in Handled : m \in Msgs
  BY DEF Handled, HistoryOK
<1>7. count'["crash"] = 0 => \A m \in Handled' : Placed(sess', m)
  BY <1>1, <1>2, <1>6 DEF Adds, CarriesOf
<1> QED
  BY <1>4, <1>5, <1>7

LEMMA SubmitPlaces ==
  ASSUME Inv, PlacesOK, SubmitQueues \/ SubmitBehind \/ SubmitStarts
  PROVE  PlacesOK'
<1> USE DEF Inv
<1>1. /\ dpc = "submit" /\ dmsg \in Msgs /\ DraftOK(sess)
      /\ UNCHANGED <<sent, count>>
  BY DEF SubmitQueues, SubmitBehind, SubmitStarts, history, LoopsOK, SessOK,
         SessionOK
<1>2. CASE SubmitQueues
  <2>1. sess' = QueuePending(sess, dmsg) /\ disk' = Durable(sess') /\ dpc' = "idle"
    BY <1>2 DEF SubmitQueues
  <2>2. sess.turns # <<>>
    BY <1>2, RefTurn DEF SubmitQueues, Queues, Resumable, BusyOK, SessOK
  <2>3. Adds(sess, sess', dmsg) /\ DraftOK(sess')
    BY <1>1, <2>1, <2>2, TargetOK, AddsQueued, QueueOK DEF SessOK, SessionOK
  <2>4. Carries(sess', disk')
    BY <2>1, <2>3, CarriesSet
  <2> QED
    BY <1>1, <2>1, <2>3, <2>4, HandlesStep
<1>3. Adds(sess, CreateUser(sess, {dmsg}), dmsg) /\ DraftOK(CreateUser(sess, {dmsg}))
  BY <1>1, AddsUserTurn, CreateUserOK
<1>4. CASE SubmitBehind
  BY <1>1, <1>3, <1>4, HandlesStep DEF SubmitBehind
<1>5. CASE SubmitStarts
  <2> DEFINE s == CreateUser(sess, {dmsg})
  <2>1. CASE sess.ref = 0
    <3>1. sess' = Last(s) /\ disk' = Durable(sess') /\ dpc' = "idle"
      BY <1>5, <2>1 DEF SubmitStarts
    <3> HIDE DEF s
    <3>2. Carries(s, sess') /\ DraftOK(sess')
      BY <1>3, <3>1, CarriesSet, LastOK DEF s, SessionOK
    <3>3. Carries(sess', disk')
      BY <3>1, <3>2, CarriesSet
    <3>4. Adds(sess, sess', dmsg)
      BY <1>1, <1>3, <3>2, AddsCarries DEF s
    <3> QED
      BY <1>1, <3>1, <3>3, <3>4, HandlesStep
  <2>2. CASE sess.ref # 0
    <3>1. sess' = s /\ disk' = disk /\ dpc' # "submit"
      BY <1>5, <2>2 DEF SubmitStarts, RequestCancel
    <3> QED
      BY <1>1, <1>3, <3>1, HandlesStep
  <2> QED
    BY <2>1, <2>2
<1> QED
  BY <1>2, <1>4, <1>5

LEMMA SubmitReadPlaces ==
  ASSUME Inv, PlacesOK, NEW m \in Msgs, SubmitRead(m)
  PROVE  PlacesOK'
<1>1. /\ dpc = "idle" /\ m \notin sent /\ sent' = sent \cup {m}
      /\ dpc' = "submit" /\ dmsg' = m /\ UNCHANGED <<sess, disk, count>>
  BY DEF SubmitRead
<1>2. Handled' = Handled
  BY <1>1 DEF Handled
<1>3. Carries(sess, sess')
  BY <1>1, CarriesSame
<1> QED
  BY <1>1, <1>2, <1>3, MovesStep DEF Inv

LEMMA QuietPlaces ==
  ASSUME Inv, PlacesOK,
         \/ Stop \/ CancelTimesOut \/ Pause \/ RunTake \/ RunStore
         \/ StopAccepting \/ Remind \/ Finish \/ Fail \/ Abort \/ Exited
         \/ ClearEngine \/ UNCHANGED vars
  PROVE  PlacesOK'
<1>1. UNCHANGED <<sess, disk, sent>> /\ (dpc' = "submit" <=> dpc = "submit")
      /\ UNCHANGED dmsg
  BY DEF Stop, CancelTimesOut, Pause, RunTake, RunStore, StopAccepting, Remind,
         Finish, Fail, Abort, Exit, Exited, ClearEngine, RequestCancel, vars,
         default, history
<1>2. count'["crash"] = count["crash"]
  BY DEF Stop, CancelTimesOut, Pause, RunTake, RunStore, StopAccepting, Remind,
         Finish, Fail, Abort, Exit, Exited, ClearEngine, vars, Spend, Bound, Inv,
         HistoryOK
<1>3. Handled' = Handled
  BY <1>1 DEF Handled
<1>4. Carries(sess, sess')
  BY <1>1, CarriesSame
<1> QED
  BY <1>1, <1>2, <1>3, <1>4, MovesStep DEF Inv, PlacesOK

\* The handlers of turn_cancel and turn_resume.
LEMMA RequestPlaces ==
  ASSUME Inv, PlacesOK, CancelCommit \/ Resume
  PROVE  PlacesOK'
<1> USE DEF Inv
<1>1. CASE CancelCommit
  <2> DEFINE hit == sess.ref = dturn
             s == IF hit THEN CancelledSession(sess, dturn) ELSE sess
  <2>1. /\ dpc = "commit" /\ dpc' = "idle" /\ UNCHANGED <<sent, count>>
    BY <1>1 DEF CancelCommit, DefaultIdle
  <2>2. dturn \in Orders /\ 0 \in {0, dturn} /\ 0 # dturn
    BY <2>1 DEF LoopsOK, Orders
  <2>3. Carries(sess, s) /\ DraftOK(s)
    <3>1. CASE ~hit
      BY <3>1, CarriesSame DEF SessOK, SessionOK
    <3>2. CASE hit
      <4> DEFINE c == Moved(sess, 0, dturn, "cancelled")
      <4>1. sess.st[dturn] \in Live /\ "cancelled" \in TurnStates \ {"none"}
        BY <2>2, <3>2, RefTurn DEF SessOK, Orders, TurnStates, Terminal
      <4>2. MovedWell(sess, c, 0, dturn, "cancelled")
        BY <2>2, <4>1, MovedOK DEF SessOK
      <4>3. Carries(sess, c)
        BY <2>2, CarriesMoved DEF SessOK
      <4>4. s = Last(c)
        BY <3>2 DEF CancelledSession, Moved
      <4> HIDE DEF c, s
      <4>5. Carries(c, s) /\ DraftOK(s)
        BY <4>2, <4>4, CarriesSet, LastOK DEF MovedWell, SessionOK
      <4> QED
        BY <4>3, <4>5, CarriesTrans
    <3> QED
      BY <3>1, <3>2
  <2>4. /\ sess' \in {s, Last(s)}
        /\ disk' \in {disk, Durable(sess')}
    BY <1>1 DEF CancelCommit
  <2> HIDE DEF s
  <2>5. Carries(s, sess') /\ DraftOK(sess')
    BY <2>3, <2>4, CarriesSame, CarriesSet, LastOK DEF SessionOK
  <2>6. Carries(sess, sess') /\ Carries(sess', Durable(sess'))
    BY <2>3, <2>5, CarriesTrans, CarriesSet
  <2>7. Carries(sess, Durable(sess'))
    BY <2>6, CarriesTrans
  <2>8. Handled' = Handled
    BY <2>1 DEF Handled
  <2> QED
    BY <2>1, <2>4, <2>6, <2>7, <2>8, MovesStep
<1>2. CASE Resume
  <2>1. /\ dpc = "idle" /\ UNCHANGED <<dpc, dmsg, sent>>
        /\ count'["crash"] = count["crash"]
    BY <1>2 DEF Resume, default, Spend, Bound, HistoryOK
  <2>2. Carries(sess, sess') /\ (disk' = disk \/ Carries(sess, disk'))
    <3>1. CASE engine.turn # 0
      BY <1>2, <3>1, CarriesSame DEF Resume
    <3>2. CASE engine.turn = 0
      <4> DEFINE t == IF sess.ref # 0 THEN sess.ref ELSE LastIn(sess, {"paused"})
                 s == Moved(sess, t, t, "running")
      <4>1. t # 0 /\ sess' = Last(s) /\ disk' = Durable(s)
        BY <1>2, <3>2 DEF Resume, Moved
      <4>2. t \in Orders /\ sess.st[t] \in Live
        <5>1. CASE sess.ref # 0
          BY <5>1, RefTurn DEF SessOK
        <5>2. CASE sess.ref = 0
          <6>1. {"paused"} \in SUBSET TurnStates
            BY DEF TurnStates, Live
          <6> QED
            BY <4>1, <5>2, <6>1, LastInOK DEF SessOK, SessionOK, Live
        <5> QED
          BY <5>1, <5>2
      <4> HIDE DEF t
      <4>3. t \in {0, t} /\ "running" \in TurnStates \ {"none"} /\ "running" \in Live
        BY DEF TurnStates, Live
      <4>4. MovedWell(sess, s, t, t, "running") /\ Carries(sess, s)
        BY <4>2, <4>3, MovedOK, CarriesMoved DEF SessOK
      <4> HIDE DEF s
      <4>5. Carries(s, Last(s)) /\ Carries(s, Durable(s))
        BY <4>4, CarriesSet DEF MovedWell, SessionOK
      <4> QED
        BY <4>1, <4>4, <4>5, CarriesTrans
    <3> QED
      BY <3>1, <3>2
  <2>3. Handled' = Handled
    BY <2>1 DEF Handled
  <2> QED
    BY <2>1, <2>2, <2>3, MovesStep
<1> QED
  BY <1>1, <1>2

\* The starts and the end of a turn.
LEMMA StartPlaces ==
  ASSUME Inv, PlacesOK, StartInternal \/ Complete \/ AutoStart
  PROVE  PlacesOK'
<1> USE DEF Inv
<1>1. UNCHANGED <<dpc, dmsg, sent>>
  BY DEF StartInternal, Complete, AutoStart, default
<1>2. Handled' = Handled
  BY <1>1 DEF Handled
<1> SUFFICES /\ Carries(sess, sess')
             /\ disk' = disk \/ Carries(sess, disk')
             /\ count'["crash"] = count["crash"]
  BY <1>1, <1>2, MovesStep DEF PlacesOK
<1>3. CASE StartInternal
  <2>1. PICK i \in DOMAIN starts :
          IF sess.st[starts[i].turn] = "cancelled"
          THEN UNCHANGED <<sess, disk, count>>
          ELSE StartTurn(sess, disk, starts[i].turn)
    BY <1>3 DEF StartInternal
  <2>2. starts[i].turn \in Orders /\ sess.turns # <<>>
    <3>1. starts \in Seq(StartMsg) /\ i \in 1 .. Len(starts) /\ starts # <<>>
      BY <2>1, LenProperties, EmptySeq DEF QueuesOK
    <3>2. starts[i] \in StartMsg
      BY <3>1, ElementOfSeq
    <3> QED
      BY <3>1, <3>2 DEF StartMsg, BusyOK
  <2>3. CASE sess.st[starts[i].turn] = "cancelled"
    BY <2>1, <2>3, CarriesSame
  <2>4. CASE sess.st[starts[i].turn] # "cancelled"
    BY <2>1, <2>2, <2>4, StartTurnCarries DEF SessOK, HistoryOK
  <2> QED
    BY <2>3, <2>4
<1>4. CASE AutoStart
  <2>1. PickUp(sess, disk, AutoPick(sess)) /\ sess.turns # <<>>
    BY <1>4 DEF AutoStart, BusyOK
  <2>2. AutoPick(sess) \in {0} \cup DOMAIN sess.turns
    BY AutoPickOK DEF SessOK
  <2> QED
    BY <2>1, <2>2, PickUpCarries DEF SessOK, HistoryOK
<1>5. CASE Complete
  <2>1. CASE sess.ref # xrun.turn
    BY <1>5, <2>1, CarriesSame DEF Complete
  <2>2. CASE sess.ref = xrun.turn
    <3> DEFINE t == xrun.turn
               c == Moved(sess, 0, t, outcome)
               s == Completed(sess)
               i == Place(s, t)
               p == Promoted(s, i)
               n == IF NextUser(s, sess.head, Len(s.turns) - 1) # 0
                    THEN NextUser(s, sess.head, Len(s.turns) - 1)
                    ELSE AutoPick(s)
    <3>1. IF PendingOn(s, i) # {} THEN PickUp(p, Durable(p), p.head)
                                  ELSE PickUp(s, Durable(s), n)
      BY <1>5, <2>2 DEF Complete
    <3>2. /\ t \in Orders /\ sess.st[t] \in Live /\ 0 \in {0, t} /\ 0 # t
          /\ outcome \in TurnStates \ {"none"} /\ outcome \in Terminal
      BY <1>5, <2>2, RefTurn
      DEF Complete, LoopsOK, SessOK, Orders, TurnStates, Terminal
    <3>3. MovedWell(sess, c, 0, t, outcome) /\ Carries(sess, c)
      BY <3>2, MovedOK, CarriesMoved DEF SessOK
    <3>4. s = Last(c)
      BY DEF Completed, Moved
    <3> HIDE DEF c, s
    <3>5. SessionOK(s) /\ SameBut(c, s, {"head"}) /\ Carries(c, s)
      BY <3>3, <3>4, LastOK, CarriesSet DEF MovedWell, SessionOK
    <3>6. Carries(sess, s) /\ s.turns # <<>> /\ s.ref = 0 /\ s.st[t] # "none"
      BY <3>2, <3>3, <3>5, CarriesTrans DEF SameBut, MovedWell, Terminal
    <3>7. i \in DOMAIN s.turns
      BY <3>2, <3>5, <3>6, PlaceOK DEF SessionOK
    <3> HIDE DEF i
    <3>8. CASE PendingOn(s, i) # {}
      <4> DEFINE d == DropPending(s, i)
                 q == CreateUser(d, PendingOn(s, i))
      <4>1. SessionOK(d) /\ SameBut(s, d, {"pend"}) /\ PendingOn(s, i) \in SUBSET Msgs
        BY <3>5, DropPendingOK, PendingType DEF SessionOK
      <4> HIDE DEF d
      <4>2. DraftOK(q) /\ q.turns # <<>> /\ SameBut(d, q, {"turns", "next"})
        BY <4>1, CreateUserOK DEF SessionOK
      <4>3. p = Last(q)
        BY DEF Promoted, d
      <4>4. Carries(s, p)
        BY <3>5, <3>7, CarriesPromoted
      <4> HIDE DEF p, q
      <4>5. SessionOK(p) /\ SameBut(q, p, {"head"}) /\ p.head = Len(q.turns)
        BY <4>2, <4>3, LastOK
      <4>6. p.turns = q.turns /\ p.ref = 0 /\ RefLive(p)
        BY <3>6, <4>1, <4>2, <4>5 DEF SameBut, RefLive
      <4>7. p.head \in DOMAIN p.turns /\ p.turns # <<>>
        BY <4>2, <4>5, <4>6, TurnsType DEF SessionOK
      <4>8. PickUp(p, Durable(p), p.head)
        BY <3>1, <3>8
      <4>9. /\ Carries(p, sess')
            /\ disk' = Durable(p) \/ Carries(p, disk')
            /\ count'["crash"] = count["crash"]
        BY <4>5, <4>6, <4>7, <4>8, PickUpCarries DEF HistoryOK
      <4>10. Carries(sess, p) /\ Carries(p, Durable(p))
        BY <3>6, <4>4, <4>5, CarriesTrans, CarriesSet DEF SessionOK
      <4> QED
        BY <4>9, <4>10, CarriesTrans
    <3>9. CASE PendingOn(s, i) = {}
      <4>1. n \in {0} \cup DOMAIN s.turns
        BY <3>5, NextUserOK, AutoPickOK DEF SessionOK
      <4>2. PickUp(s, Durable(s), n) /\ RefLive(s)
        BY <3>1, <3>6, <3>9 DEF RefLive
      <4> HIDE DEF n
      <4>3. /\ Carries(s, sess')
            /\ disk' = Durable(s) \/ Carries(s, disk')
            /\ count'["crash"] = count["crash"]
        BY <3>5, <3>6, <4>1, <4>2, PickUpCarries DEF HistoryOK
      <4>4. Carries(s, Durable(s))
        BY <3>5, CarriesSet DEF SessionOK
      <4> QED
        BY <3>6, <4>3, <4>4, CarriesTrans
    <3> QED
      BY <3>8, <3>9
  <2> QED
    BY <2>1, <2>2
<1> QED
  BY <1>3, <1>4, <1>5

\* The engine's loop.
LEMMA RunPlaces ==
  ASSUME Inv, PlacesOK, Ingest \/ Checkpoint \/ PauseHere \/ Wake
  PROVE  PlacesOK'
<1> USE DEF Inv
<1>1. UNCHANGED <<dpc, dmsg, sent, count>> /\ xpc # "idle"
  BY DEF Ingest, Checkpoint, PauseHere, Wake, default, history
<1>2. Handled' = Handled
  BY <1>1 DEF Handled
<1> SUFFICES Carries(sess, sess') /\ (disk' = disk \/ Carries(sess, disk'))
  BY <1>1, <1>2, MovesStep DEF PlacesOK
<1>3. DraftOK(sess) /\ sess.turns # <<>> /\ Carries(sess, sess)
  BY <1>1, CarriesSame DEF SessOK, SessionOK, BusyOK
<1>4. CASE Ingest
  BY <1>3, <1>4, TargetOK, CarriesConsumed DEF Ingest, SessOK
<1>5. CASE Checkpoint
  BY <1>3, <1>5, CarriesSet DEF Checkpoint
<1>6. CASE PauseHere \/ Wake
  <2>1. PICK to \in Live : /\ sess' = Apply(sess, xrun.turn, to)
                           /\ disk' = SavedUnlessRefused(xrun.turn, to)
    BY <1>6 DEF PauseHere, Wake, Live
  <2>2. xrun.turn \in Orders /\ to \in TurnStates \ {"none"}
    BY <1>1 DEF LoopsOK, TurnStates, Live
  <2>3. Carries(sess, sess') /\ DraftOK(sess')
    BY <1>3, <2>1, <2>2, CarriesApply, ApplyOK DEF SessOK, SessionOK
  <2>4. disk' \in {disk, Durable(sess')} /\ Carries(sess', Durable(sess'))
    BY <2>1, <2>3, CarriesSet DEF SavedUnlessRefused
  <2> QED
    BY <2>3, <2>4, CarriesTrans
<1> QED
  BY <1>4, <1>5, <1>6

LEMMA RestartPlaces ==
  ASSUME Inv, PlacesOK, NEW saved \in {disk, Durable(sess)}, Restart(saved)
  PROVE  PlacesOK'
<1> USE DEF Inv
<1>1. /\ sess' = Recovered(saved) /\ disk' = Durable(sess') /\ dpc' = "idle"
      /\ sent' = sent
  BY DEF Restart, DefaultIdle
<1>2. count'["crash"] # 0
  <2>1. count["crash"] \in Nat /\ count'["crash"] = count["crash"] + 1
    BY DEF Restart, Spend, HistoryOK, Bound
  <2> QED
    BY <2>1
<1>3. Handled \subseteq Handled'
  BY <1>1 DEF Handled
<1>4. SessionOK(saved) /\ MessagesOK(saved) /\ saved.ref = 0
  <2>1. SessionOK(Durable(sess)) /\ Durable(sess).ref = 0 /\ Carries(sess, Durable(sess))
    BY DurableOK, CarriesSet DEF SessOK, SessionOK
  <2>2. MessagesOK(Durable(sess))
    BY <2>1 DEF PlacesOK, MessagesOK, Carries, CarriesOf
  <2> QED
    BY <2>1, <2>2 DEF PlacesOK, DiskOK
<1>5. Carries(saved, sess') /\ SessionOK(sess')
  BY <1>1, <1>4, CarriesRecovered, RecoveredOK
<1>6. Carries(saved, disk')
  BY <1>1, <1>5, CarriesSet, CarriesTrans DEF SessionOK
<1>7. MessagesOK(sess)' /\ MessagesOK(disk)'
  BY <1>3, <1>4, <1>5, <1>6, CarriesOK DEF MessagesOK
<1> QED
  BY <1>1, <1>2, <1>7 DEF PlacesOK

LEMMA PlacesStep == Inv /\ PlacesOK /\ [Next]_vars => PlacesOK'
<1> SUFFICES ASSUME Inv, PlacesOK, [Next]_vars PROVE PlacesOK'
  OBVIOUS
<1>1. CASE DefaultStep
  BY <1>1, SubmitPlaces, StartPlaces, QuietPlaces, RequestPlaces DEF DefaultStep
<1>2. CASE ExecStep
  BY <1>2, QuietPlaces, RunPlaces, StartPlaces DEF ExecStep
<1>3. ASSUME NEW m \in Msgs, SubmitRead(m)
      PROVE  PlacesOK'
  BY <1>3, SubmitReadPlaces
<1>4. CASE Stop \/ Pause \/ UNCHANGED vars
  BY <1>4, QuietPlaces
<1>5. CASE Resume
  BY <1>5, RequestPlaces
<1>6. ASSUME NEW saved \in {disk, Durable(sess)}, Restart(saved)
      PROVE  PlacesOK'
  BY <1>6, RestartPlaces
<1> QED
  BY <1>1, <1>2, <1>3, <1>4, <1>5, <1>6 DEF Next

\* A message is in one turn or pending on one, never in two places, through
\* consuming, promoting and restarts; and from the handling of its submit to
\* the first restart it is in one.
THEOREM MessageInOnePlace == Spec => []OnePlace
<1>1. Spec => []PlacesOK
  <2>1. Inv /\ PlacesOK /\ [Next]_vars => PlacesOK'
    BY PlacesStep
  <2> QED
    BY <2>1, PlacesInit, Invariance, PTL DEF Spec
<1>2. Inv /\ PlacesOK => OnePlace
  <2> SUFFICES ASSUME Inv, PlacesOK, NEW m \in sent
               PROVE  /\ Cardinality(Places(m)) <= 1
                      /\ count["crash"] = 0 /\ dpc = "idle" => Places(m) # {}
    BY DEF OnePlace
  <2>1. m \in Msgs /\ DraftOK(sess)
    BY DEF Inv, HistoryOK, SessOK, SessionOK
  <2>2. DOMAIN sess.turns \subseteq Nat
    BY <2>1, TurnsType
  <2>3. \A q \in sess.pend : q = <<q[1], q[2]>> /\ q[1] \in Nat
    BY <2>1 DEF DraftOK, Drafts
  <2>4. ASSUME NEW x \in Places(m)
        PROVE  \E i \in Nat : \/ x = <<"turn", i>> /\ InTurn(sess, m, i)
                              \/ x = <<"pending", i>> /\ InPend(sess, m, i)
    <3>1. CASE \E i \in DOMAIN sess.turns :
                 m \in sess.turns[i].ms /\ x = <<"turn", i>>
      BY <2>2, <3>1 DEF InTurn
    <3>2. CASE \E q \in sess.pend : q[2] = m /\ x = <<"pending", q[1]>>
      BY <2>3, <3>2 DEF InPend
    <3> QED
      BY <2>4, <3>1, <3>2 DEF Places
  <2>5. \A i \in Nat : /\ InTurn(sess, m, i) => <<"turn", i>> \in Places(m)
                       /\ InPend(sess, m, i) => <<"pending", i>> \in Places(m)
    BY DEF Places, InTurn, InPend
  <2>6. \A x, y \in Places(m) : x = y
    BY <2>1, <2>4 DEF PlacesOK, MessagesOK, OnePlaced
  <2>7. Cardinality(Places(m)) <= 1
    <3>1. CASE Places(m) = {}
      BY <3>1, FS_EmptySet
    <3>2. CASE Places(m) # {}
      <4>1. PICK x \in Places(m) : TRUE
        BY <3>2
      <4>2. Places(m) = {x}
        BY <2>6, <4>1
      <4>3. Cardinality(Places(m)) = 1
        BY <4>2, FS_Singleton
      <4> QED
        BY <4>3
    <3> QED
      BY <3>1, <3>2
  <2>8. count["crash"] = 0 /\ dpc = "idle" => Places(m) # {}
    <3> SUFFICES ASSUME count["crash"] = 0, dpc = "idle" PROVE Places(m) # {}
      OBVIOUS
    <3>1. m \in Handled
      BY DEF Handled
    <3> QED
      BY <2>5, <3>1 DEF PlacesOK, Placed
  <2> QED
    BY <2>7, <2>8
<1> QED
  BY <1>1, <1>2, Invariance, PTL
=============================================================================
