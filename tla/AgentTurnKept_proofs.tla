------------------------ MODULE AgentTurnKept_proofs ------------------------
(***************************************************************************)
(* No message is forgotten: when the agent has come to rest, each message  *)
(* that was submitted was given to an engine that ran or was excused, for  *)
(* any messages and any number of turns, stops, pauses, resumes, restarts  *)
(* and faults.                                                             *)
(***************************************************************************)
EXTENDS AgentTurnMessages_proofs

-----------------------------------------------------------------------------
(* The names of the assistant turns. A name is that of one place, which    *)
(* has a state, and NextTurnOrder and what comes after it are not used.    *)
Unused(s) == \A t \in Orders : t >= s.next => s.st[t] = "none"

Named(s) ==
  /\ \A i, j \in DOMAIN s.turns :
       s.turns[i].t = s.turns[j].t /\ s.turns[i].t # 0 => i = j
  /\ \A i \in DOMAIN s.turns : s.turns[i].t # 0 => s.st[s.turns[i].t] # "none"
  /\ Unused(s)

LEMMA NamedSame ==
  ASSUME NEW s, NEW s1, Named(s), s1.turns = s.turns, s1.st = s.st,
         s.next \in Nat, s1.next \in Nat, s.next <= s1.next
  PROVE  Named(s1)
BY DEF Named, Unused, Orders

LEMMA NamedLive ==
  ASSUME NEW s, SessionOK(s), Named(s), NEW t \in Orders, s.st[t] # "none"
  PROVE  t < s.next
BY DEF Named, Unused, SessionOK, DraftOK, Drafts, Orders

LEMMA NamedUser ==
  ASSUME NEW s, DraftOK(s), Named(s), NEW ms \in SUBSET Msgs
  PROVE  Named(CreateUser(s, ms))
<1> DEFINE e == [t |-> 0, ms |-> ms]
           q == CreateUser(s, ms)
<1>1. q.turns = Append(s.turns, e) /\ q.st = s.st /\ q.next = s.next + 1
      /\ s.next \in Nat
  BY DEF CreateUser, DraftOK, Drafts
<1>2. s.turns \in Seq(Turn) /\ Len(s.turns) \in Nat
      /\ DOMAIN s.turns = 1 .. Len(s.turns)
  BY TurnsType
<1>0. e \in Turn /\ e.t = 0
  BY AgentTurnAssumption DEF Turn
<1> HIDE DEF q, e
<1>3. /\ Len(q.turns) = Len(s.turns) + 1 /\ q.turns \in Seq(Turn)
      /\ \A i \in 1 .. Len(s.turns) : q.turns[i] = s.turns[i]
      /\ q.turns[Len(s.turns) + 1] = e
  BY <1>0, <1>1, <1>2, AppendProperties
<1>4. DOMAIN q.turns = 1 .. Len(s.turns) + 1
  BY <1>3, LenProperties
<1> QED
  BY <1>0, <1>1, <1>2, <1>3, <1>4 DEF Named, Unused, Orders, q

\* A start gives a turn its place, or finds it in its place.
LEMMA StartedAs ==
  ASSUME NEW s, SessionOK(s), NEW name \in Orders
  PROVE  LET s1 == Started(s, name)
         IN /\ s1.head = s.head /\ s1.pend = s.pend
            /\ s1.next = IF s.st[name] \in Live THEN s.next ELSE s.next + 1
            /\ s.st[name] \in Terminal =>
                 s1.ref = 0 /\ s1.turns = s.turns /\ s1.st = s.st
            /\ s.st[name] \notin Terminal =>
                 /\ s1.ref = name
                 /\ s1.st = [s.st EXCEPT ![name] = "running"]
                 /\ s1.turns = IF s.st[name] = "none"
                               THEN Append(s.turns, [t |-> name, ms |-> {}])
                               ELSE s.turns
<1> DEFINE n == IF s.st[name] \in Live THEN s.next ELSE s.next + 1
           u == [s EXCEPT !.ref = name, !.next = n]
<1>1. s \in Drafts
  BY DEF SessionOK, DraftOK
<1>2. Started(s, name) = IF CanTransition(s.st[name], "running")
                         THEN Apply(u, name, "running")
                         ELSE [u EXCEPT !.ref = 0]
  BY DEF Started
<1> HIDE DEF n
<1>3. /\ u.turns = s.turns /\ u.st = s.st /\ u.head = s.head
      /\ u.pend = s.pend /\ u.ref = name /\ u.next = n
      /\ u \in [turns : {s.turns}, st : {s.st}, head : {s.head}, ref : {name},
                pend : {s.pend}, next : {n}]
  BY <1>1 DEF Drafts
<1>4. CanTransition(s.st[name], "running") <=> s.st[name] \notin Terminal
  BY DEF CanTransition, Terminal
<1> HIDE DEF u
<1>5. CASE s.st[name] \in Terminal
  <2>1. Started(s, name) = [u EXCEPT !.ref = 0]
    BY <1>2, <1>4, <1>5
  <2> QED
    BY <1>3, <1>5, <2>1 DEF n
<1>6. CASE s.st[name] \notin Terminal
  <2>1. Started(s, name) = Apply(u, name, "running")
    BY <1>2, <1>4, <1>6
  <2>2. Started(s, name) =
          [u EXCEPT !.st = [@ EXCEPT ![name] = "running"],
                    !.turns = IF u.st[name] = "none"
                              THEN Append(@, [t |-> name, ms |-> {}]) ELSE @]
    BY <1>3, <1>4, <1>6, <2>1 DEF Apply
  <2> QED
    BY <1>3, <1>6, <2>2 DEF n
<1> QED
  BY <1>5, <1>6

LEMMA NamedStarted ==
  ASSUME NEW s, SessionOK(s), Named(s), NEW name \in Orders, name <= s.next
  PROVE  Named(Started(s, name))
<1> DEFINE s1 == Started(s, name)
           e == [t |-> name, ms |-> {}]
<1>1. /\ s1.next = IF s.st[name] \in Live THEN s.next ELSE s.next + 1
      /\ s.st[name] \in Terminal => s1.turns = s.turns /\ s1.st = s.st
      /\ s.st[name] \notin Terminal =>
           /\ s1.st = [s.st EXCEPT ![name] = "running"]
           /\ s1.turns = IF s.st[name] = "none" THEN Append(s.turns, e)
                         ELSE s.turns
  BY StartedAs
<1>2. /\ s.next \in Nat /\ s.st \in [Orders -> TurnStates]
      /\ s.turns \in Seq(Turn) /\ Len(s.turns) \in Nat
      /\ DOMAIN s.turns = 1 .. Len(s.turns)
      /\ \A i \in DOMAIN s.turns : s.turns[i].t \in 0 .. MaxOrder
  <2>1. DraftOK(s)
    BY DEF SessionOK
  <2>2. s.next \in Nat /\ s.st \in [Orders -> TurnStates]
    BY <2>1 DEF DraftOK, Drafts
  <2> QED
    BY <2>1, <2>2, TurnsType DEF Turn
<1>0. e \in Turn /\ e.t = name /\ name # 0 /\ name \in Nat
  BY DEF Turn, Orders
<1> HIDE DEF s1, e
<1>3. CASE s.st[name] \in Terminal
  <2>1. s1.next \in Nat /\ s.next <= s1.next
    BY <1>1, <1>2
  <2> QED
    BY <1>1, <1>2, <1>3, <2>1, NamedSame DEF s1
<1>4. CASE s.st[name] \in Live
  <2>1. name < s.next
    BY <1>4, NamedLive DEF Live
  <2>2. s1.turns = s.turns /\ s1.st = [s.st EXCEPT ![name] = "running"]
        /\ s1.next = s.next
    BY <1>1, <1>4 DEF Live, Terminal
  <2>3. \A t \in Orders : s1.st[t] = "none" <=> s.st[t] = "none"
    BY <1>2, <1>4, <2>2 DEF Live
  <2> QED
    BY <1>2, <2>2, <2>3 DEF Named, Unused, Orders, s1
<1>5. CASE s.st[name] = "none"
  <2>1. /\ s1.turns = Append(s.turns, e) /\ s1.next = s.next + 1
        /\ s1.st = [s.st EXCEPT ![name] = "running"]
    BY <1>1, <1>5 DEF Live, Terminal
  <2>2. /\ Len(s1.turns) = Len(s.turns) + 1 /\ s1.turns \in Seq(Turn)
        /\ \A i \in 1 .. Len(s.turns) : s1.turns[i] = s.turns[i]
        /\ s1.turns[Len(s.turns) + 1] = e
    BY <1>0, <1>2, <2>1, AppendProperties
  <2>3. DOMAIN s1.turns = 1 .. Len(s.turns) + 1
    BY <2>2, LenProperties
  <2>4. /\ \A i \in 1 .. Len(s.turns) : s1.turns[i].t = s.turns[i].t
        /\ \A i \in 1 .. Len(s.turns) : s.turns[i].t # name
        /\ s1.turns[Len(s.turns) + 1].t = name
    BY <1>0, <1>2, <1>5, <2>2 DEF Named
  <2>5. \A i, j \in DOMAIN s1.turns :
          s1.turns[i].t = s1.turns[j].t /\ s1.turns[i].t # 0 => i = j
    <3>1. SUFFICES ASSUME NEW i \in DOMAIN s1.turns, NEW j \in DOMAIN s1.turns,
                          s1.turns[i].t = s1.turns[j].t, s1.turns[i].t # 0
                   PROVE  i = j
      OBVIOUS
    <3>2. CASE i \in 1 .. Len(s.turns) /\ j \in 1 .. Len(s.turns)
      <4>1. s.turns[i].t = s.turns[j].t /\ s.turns[i].t # 0
        BY <2>4, <3>1, <3>2
      <4> QED
        BY <1>2, <3>2, <4>1 DEF Named
    <3>3. CASE i = Len(s.turns) + 1 /\ j \in 1 .. Len(s.turns)
      BY <2>4, <3>1, <3>3
    <3>4. CASE i \in 1 .. Len(s.turns) /\ j = Len(s.turns) + 1
      BY <2>4, <3>1, <3>4
    <3> QED
      BY <1>2, <2>3, <3>1, <3>2, <3>3, <3>4
  <2>6. \A i \in DOMAIN s1.turns :
          s1.turns[i].t # 0 => s1.st[s1.turns[i].t] # "none"
    <3>1. \A o \in Orders : s1.st[o] # "none" <=> s.st[o] # "none" \/ o = name
      BY <1>2, <2>1
    <3> QED
      BY <1>0, <1>2, <2>3, <2>4, <3>1 DEF Named, Orders
  <2>7. Unused(s1)
    BY <1>2, <2>1 DEF Named, Unused, Orders
  <2> QED
    BY <2>5, <2>6, <2>7 DEF Named, s1
<1> QED
  BY <1>2, <1>3, <1>4, <1>5 DEF TurnStates

\* Bringing a live turn to another state.
LEMMA NamedMoved ==
  ASSUME NEW s, SessionOK(s), Named(s), NEW t \in Orders, s.st[t] \in Live,
         NEW r \in {0, t}, NEW to \in TurnStates \ {"none"}, r = t => to \in Live
  PROVE  Named(Moved(s, r, t, to))
<1> DEFINE s1 == Moved(s, r, t, to)
<1>1. MovedWell(s, s1, r, t, to)
  BY MovedOK
<1>2. t < s.next /\ s.next \in Nat /\ s.st \in [Orders -> TurnStates]
      /\ \A i \in DOMAIN s.turns : s.turns[i].t \in 0 .. MaxOrder
  BY NamedLive, TurnsType DEF Live, SessionOK, DraftOK, Drafts, Turn
<1> HIDE DEF s1
<1>3. s1.turns = s.turns /\ s1.next = s.next /\ s1.st = [s.st EXCEPT ![t] = to]
  BY <1>1 DEF MovedWell
<1> QED
  BY <1>2, <1>3 DEF Named, Unused, Orders, s1

LEMMA MovedPend ==
  ASSUME NEW s, SessionOK(s), NEW t, NEW r, NEW to
  PROVE  Moved(s, r, t, to).pend = s.pend
<1> DEFINE u == [s EXCEPT !.ref = r]
<1>1. Moved(s, r, t, to) = Apply(u, t, to) /\ u.pend = s.pend
      /\ u \in [turns : {s.turns}, st : {s.st}, head : {s.head}, ref : {r},
                pend : {s.pend}, next : {s.next}]
  BY DEF Moved, SessionOK, DraftOK, Drafts
<1> HIDE DEF u
<1> QED
  BY <1>1 DEF Apply

LEMMA NamedRecovered ==
  ASSUME NEW s, SessionOK(s), Named(s)
  PROVE  Named(Recovered(s))
<1> DEFINE t == LastIn(s, Live)
<1>1. CASE t = 0
  BY <1>1 DEF Recovered
<1>2. CASE t # 0
  <2>1. t \in Orders /\ s.st[t] \in Live
    BY <1>2, LastInOK DEF SessionOK, TurnStates, Live
  <2>2. Recovered(s) = Moved(s, t, t, "paused")
    BY <1>2 DEF Recovered, Moved
  <2>3. "paused" \in TurnStates \ {"none"} /\ "paused" \in Live
    BY DEF TurnStates, Live
  <2> HIDE DEF t
  <2>4. t \in {0, t}
    OBVIOUS
  <2> QED
    BY <2>1, <2>2, <2>3, <2>4, NamedMoved
<1> QED
  BY <1>1, <1>2

LEMMA NamedSaved ==
  ASSUME NEW s, SessionOK(s), Named(s)
  PROVE  Named(Durable(s)) /\ Named(Last(s))
<1>1. /\ SameBut(s, Durable(s), {"ref"}) /\ SameBut(s, Last(s), {"head"})
      /\ s.next \in Nat
  BY DurableOK, LastOK DEF SessionOK, DraftOK, Drafts
<1> QED
  BY <1>1, NamedSame DEF SameBut

-----------------------------------------------------------------------------
(* The three ways in which a start ends.                                   *)
Abandoned(s) ==
  /\ sess'.turns = s.turns /\ sess'.st = s.st /\ sess'.ref \in {0, s.ref}
  /\ sess'.next = s.next
  /\ excused' = excused \cup Unanswered
  /\ UNCHANGED runq

Refused(s, name) ==
  /\ s.st[name] \in Terminal
  /\ sess'.turns = s.turns /\ sess'.st = s.st /\ sess'.head = s.head
  /\ sess'.pend = s.pend /\ sess'.ref = 0
  /\ excused' = IF s.ref \in {0, name} THEN excused ELSE excused \cup Unanswered
  /\ UNCHANGED runq

Begun(s, name) ==
  /\ s.st[name] \notin Terminal
  /\ sess'.turns = IF s.st[name] = "none"
                   THEN Append(s.turns, [t |-> name, ms |-> {}]) ELSE s.turns
  /\ sess'.st = [s.st EXCEPT ![name] = "running"]
  /\ sess'.head = s.head /\ sess'.pend = s.pend /\ sess'.ref = name
  /\ runq' = Append(runq, [turn |-> name, ctx |-> Context(sess')])
  /\ excused' = IF s.ref \in {0, name} THEN excused ELSE excused \cup Unanswered

LEMMA StartTurnAs ==
  ASSUME NEW s, SessionOK(s), s.turns # <<>>, RefLive(s), Named(s),
         NEW saved, Named(saved), NEW name \in Orders \cup {s.next},
         name <= s.next, StartTurn(s, saved, name)
  PROVE  /\ name \in Orders
         /\ Named(sess') /\ Named(disk')
         /\ s.next <= sess'.next /\ sess'.next \in Nat
         /\ Abandoned(s) \/ Refused(s, name) \/ Begun(s, name)
<1>1. s \in Drafts /\ s.next \in Nat \ {0} /\ s.ref \in 0 .. MaxOrder
  BY DEF SessionOK, DraftOK, Drafts
<1>2. CASE /\ sess' = Started(s, name)
           /\ IF Started(s, name).ref = 0
              THEN disk' = saved /\ UNCHANGED runq
              ELSE /\ disk' = Durable(Started(s, name))
                   /\ runq' = Append(runq, [turn |-> name,
                                            ctx |-> Context(Started(s, name))])
           /\ excused' = IF s.ref \in {0, name} THEN excused
                         ELSE excused \cup Unanswered
           /\ Bounded
  <2>0. sess'.next \in {s.next, s.next + 1}
    <3>2. CASE CanTransition(s.st[name], "running")
      BY <1>1, <1>2, <3>2 DEF Started, Apply, Drafts
    <3>3. CASE ~CanTransition(s.st[name], "running")
      BY <1>1, <1>2, <3>3 DEF Started, Drafts
    <3> QED
      BY <3>2, <3>3
  <2>1. name \in Orders
    BY <1>1, <1>2, <2>0, AgentTurnAssumption DEF Bounded, Orders
  <2>2. SessionOK(sess') /\ Named(sess')
    BY <1>2, <2>1, StartedOK, NamedStarted
  <2>3. Named(disk')
    BY <1>2, <2>2, NamedSaved
  <2>4. /\ sess'.head = s.head /\ sess'.pend = s.pend
        /\ s.st[name] \in Terminal =>
             sess'.ref = 0 /\ sess'.turns = s.turns /\ sess'.st = s.st
        /\ s.st[name] \notin Terminal =>
             /\ sess'.ref = name
             /\ sess'.st = [s.st EXCEPT ![name] = "running"]
             /\ sess'.turns = IF s.st[name] = "none"
                              THEN Append(s.turns, [t |-> name, ms |-> {}])
                              ELSE s.turns
    BY <1>2, <2>1, StartedAs
  <2>5. CASE s.st[name] \in Terminal
    BY <1>1, <1>2, <2>0, <2>1, <2>2, <2>3, <2>4, <2>5 DEF Refused
  <2>6. CASE s.st[name] \notin Terminal
    <3>1. sess'.ref # 0
      BY <2>1, <2>4, <2>6 DEF Orders
    <3>2. Begun(s, name)
      BY <1>2, <2>4, <2>6, <3>1 DEF Begun
    <3> QED
      BY <1>1, <2>0, <2>1, <2>2, <2>3, <3>2
  <2> QED
    BY <2>5, <2>6
<1>3. CASE /\ Spend("fault")
           /\ sess' = [s EXCEPT !.ref = IF @ = name THEN 0 ELSE @]
           /\ disk' = saved
           /\ excused' = excused \cup Unanswered
           /\ UNCHANGED runq
           /\ Bounded
  <2>1. /\ sess'.turns = s.turns /\ sess'.st = s.st /\ sess'.ref \in {0, s.ref}
        /\ sess'.next = s.next
    BY <1>1, <1>3 DEF Drafts
  <2>2. name \in Orders
    BY <1>1, <1>3, <2>1, AgentTurnAssumption DEF Bounded, Orders
  <2>4. s.next \in Nat /\ sess'.next \in Nat /\ s.next <= sess'.next
    BY <1>1, <2>1
  <2>5. Named(sess')
    BY <2>1, <2>4, NamedSame
  <2>3. Named(sess') /\ Named(disk')
    BY <1>3, <2>5
  <2> QED
    BY <1>1, <1>3, <2>1, <2>2, <2>3 DEF Abandoned
<1> QED
  BY <1>2, <1>3 DEF StartTurn

\* A user turn is picked up under a new name.
LEMMA PickUpAs ==
  ASSUME NEW s, SessionOK(s), s.ref = 0, Named(s), NEW saved, Named(saved),
         NEW i \in DOMAIN s.turns, PickUp(s, saved, i)
  PROVE  /\ s.next \in Orders /\ s.st[s.next] = "none"
         /\ Named(sess') /\ Named(disk')
         /\ s.next <= sess'.next /\ sess'.next \in Nat
         /\ \E u : /\ u = [s EXCEPT !.head = i]
                   /\ SessionOK(u) /\ SameBut(s, u, {"head"}) /\ u.head = i
                   /\ Abandoned(u) \/ Begun(u, s.next)
<1> DEFINE u == [s EXCEPT !.head = i]
<1>1. i # 0 /\ s.turns # <<>> /\ s.next \in Nat
  BY TurnsType DEF SessionOK, DraftOK, Drafts
<1>2. StartTurn(u, saved, s.next)
  BY <1>1 DEF PickUp
<1>3. SessionOK(u) /\ SameBut(s, u, {"head"}) /\ u.head = i
  BY SetHead DEF SessionOK, DraftOK, Drafts
<1>4. u = [s EXCEPT !.head = i]
  OBVIOUS
<1> HIDE DEF u
<1>5. /\ u.turns = s.turns /\ u.st = s.st /\ u.ref = 0 /\ u.next = s.next
  BY <1>3 DEF SameBut
<1>6. RefLive(u) /\ Named(u) /\ s.next \in Orders \cup {u.next} /\ s.next <= u.next
  BY <1>1, <1>5, NamedSame DEF RefLive
<1>7. /\ s.next \in Orders
      /\ Named(sess') /\ Named(disk')
      /\ u.next <= sess'.next /\ sess'.next \in Nat
      /\ Abandoned(u) \/ Refused(u, s.next) \/ Begun(u, s.next)
  BY <1>1, <1>2, <1>3, <1>5, <1>6, StartTurnAs
<1>8. s.st[s.next] = "none"
  BY <1>1, <1>7 DEF Named, Unused
<1>9. ~Refused(u, s.next)
  BY <1>5, <1>8 DEF Refused, Terminal
<1> QED
  BY <1>3, <1>4, <1>5, <1>7, <1>8, <1>9

-----------------------------------------------------------------------------
(* Where a message may wait for its answer: in a user turn, or pending on  *)
(* the active turn.                                                        *)
InUser(s, m, i) == InTurn(s, m, i) /\ IsUser(s, i)

OnRef(s, m) ==
  s.ref # 0 /\ \E i \in DOMAIN s.turns : s.turns[i].t = s.ref /\ InPend(s, m, i)

LEMMA PlaceIs ==
  ASSUME NEW s, Named(s), NEW i \in DOMAIN s.turns, s.turns[i].t # 0
  PROVE  Place(s, s.turns[i].t) = i
BY DEF Named, Place

LEMMA OnRefIs ==
  ASSUME NEW s, SessionOK(s), Named(s), RefLive(s), NEW m
  PROVE  OnRef(s, m) <=> s.ref # 0 /\ m \in PendingOn(s, Place(s, s.ref))
<1>1. ASSUME s.ref # 0
      PROVE  Place(s, s.ref) \in DOMAIN s.turns /\ s.turns[Place(s, s.ref)].t = s.ref
  <2>1. s.ref \in Orders /\ s.st[s.ref] # "none"
    BY <1>1, RefTurn DEF Live
  <2> QED
    BY <2>1, PlaceOK DEF SessionOK
<1>2. \A i : m \in PendingOn(s, i) <=> InPend(s, m, i)
  BY PendingIs DEF SessionOK
<1>3. ASSUME s.ref # 0, NEW i \in DOMAIN s.turns, s.turns[i].t = s.ref
      PROVE  i = Place(s, s.ref)
  BY <1>3, PlaceIs
<1> QED
  BY <1>1, <1>2, <1>3 DEF OnRef

\* The first user turn of a stretch is 0 only if there is none.
LEMMA NextUserNone ==
  ASSUME NEW s, DraftOK(s), NEW from, NEW to, NextUser(s, from, to) = 0
  PROVE  \A i \in DOMAIN s.turns : ~(from < i /\ i <= to /\ IsUser(s, i))
<1> DEFINE U == {i \in DOMAIN s.turns : from < i /\ i <= to /\ IsUser(s, i)}
<1>1. U = {}
  <2> SUFFICES ASSUME U # {} PROVE FALSE
    OBVIOUS
  <2>1. U \in SUBSET Nat /\ 0 \notin U
    BY TurnsType
  <2>2. \E i \in U : \A j \in U : i <= j
    BY <2>1, NatMin
  <2>3. NextUser(s, from, to) = CHOOSE i \in U : \A j \in U : i <= j
    BY DEF NextUser
  <2> QED
    BY <2>1, <2>2, <2>3
<1> QED
  BY <1>1

\* maybeAutoStartTurn finds nothing only if no user turn is left.
LEMMA AutoPickNothing ==
  ASSUME NEW s, SessionOK(s), s.ref = 0, AutoPick(s) = 0
  PROVE  /\ \A i \in DOMAIN s.turns : IsUser(s, i) => i <= s.head
         /\ s.head = Len(s.turns) /\ s.turns # <<>> => ~IsUser(s, s.head)
<1>1. /\ s.head \in Nat /\ Len(s.turns) \in Nat /\ DraftOK(s)
      /\ DOMAIN s.turns = 1 .. Len(s.turns)
      /\ s.turns # <<>> => s.head # 0 /\ Len(s.turns) # 0
  BY TurnsType DEF SessionOK, DraftOK, Drafts
<1>2. CASE s.head = 0
  BY <1>1, <1>2
<1>3. CASE s.head # 0
  <2>1. ~(s.head = Len(s.turns) /\ IsUser(s, s.head))
    BY <1>3 DEF AutoPick
  <2>2. NextUser(s, s.head, Len(s.turns)) = 0
    BY <1>3, <2>1 DEF AutoPick
  <2>3. \A i \in DOMAIN s.turns : ~(s.head < i /\ i <= Len(s.turns) /\ IsUser(s, i))
    BY <1>1, <2>2, NextUserNone
  <2> QED
    BY <1>1, <2>1, <2>3
<1> QED
  BY <1>2, <1>3

\* A user turn is picked up: its turn has a name nothing else has, and its run
\* is given every user turn up to that one.
Answering(q) ==
  /\ q \in Orders /\ sess.st[q] = "none"
  /\ sess'.ref = q /\ sess'.st[q] = "running"
  /\ \A o \in Orders : sess.st[o] # "none" => sess'.st[o] # "none"
  /\ runq' = Append(runq, [turn |-> q, ctx |-> Context(sess')])
  /\ excused' = excused
  /\ \A m \in Msgs : \A i \in DOMAIN sess.turns :
       InUser(sess, m, i) => InUser(sess', m, i)
  /\ \A m \in Msgs : OnRef(sess, m) =>
       \E i \in DOMAIN sess'.turns : i <= sess'.head /\ InUser(sess', m, i)

GivenUp == excused' = excused \cup Unanswered /\ sess'.ref = 0 /\ UNCHANGED runq

LEMMA UserKept ==
  ASSUME NEW s, DraftOK(s), NEW e \in Turn, NEW s1,
         s1.turns = Append(s.turns, e)
  PROVE  /\ DOMAIN s1.turns = 1 .. Len(s.turns) + 1
         /\ \A i \in DOMAIN s.turns : i \in DOMAIN s1.turns /\ s1.turns[i] = s.turns[i]
         /\ \A m : \A i \in DOMAIN s.turns : InUser(s, m, i) => InUser(s1, m, i)
         /\ s1.turns[Len(s.turns) + 1] = e
<1>1. s.turns \in Seq(Turn) /\ Len(s.turns) \in Nat
      /\ DOMAIN s.turns = 1 .. Len(s.turns)
  BY TurnsType
<1>2. /\ Append(s.turns, e) \in Seq(Turn)
      /\ Len(Append(s.turns, e)) = Len(s.turns) + 1
      /\ \A i \in 1 .. Len(s.turns) : Append(s.turns, e)[i] = s.turns[i]
      /\ Append(s.turns, e)[Len(s.turns) + 1] = e
  BY <1>1, AppendProperties
<1>3. DOMAIN s1.turns = 1 .. Len(s.turns) + 1
  BY <1>2, LenProperties
<1> QED
  BY <1>1, <1>2, <1>3 DEF InUser, InTurn, IsUser

\* Picking up a user turn of session u, which has the user turns of sess, answers
\* everything, or gives everything up.
LEMMA PickUpAnswers ==
  ASSUME NEW u, SessionOK(u), u.ref = 0, Named(u), NEW saved, Named(saved),
         NEW i \in DOMAIN u.turns, PickUp(u, saved, i),
         DraftOK(sess), Unused(sess), sess.next <= u.next,
         \A o \in Orders : sess.st[o] # "none" => u.st[o] # "none",
         \A m \in Msgs : \A j \in DOMAIN sess.turns :
           InUser(sess, m, j) => InUser(u, m, j),
         \A m \in Msgs : OnRef(sess, m) =>
           \E j \in DOMAIN u.turns : j <= i /\ InUser(u, m, j)
  PROVE  /\ Named(sess') /\ Named(disk')
         /\ u.next <= sess'.next /\ sess'.next \in Nat
         /\ \A o \in Orders : u.st[o] # "none" => sess'.st[o] # "none"
         /\ GivenUp \/ \E q \in Orders : Answering(q)
<1> DEFINE q == u.next
<1>1. /\ q \in Orders /\ u.st[q] = "none"
      /\ Named(sess') /\ Named(disk')
      /\ q <= sess'.next /\ sess'.next \in Nat
      /\ \E v : /\ v = [u EXCEPT !.head = i]
                /\ SessionOK(v) /\ SameBut(u, v, {"head"}) /\ v.head = i
                /\ Abandoned(v) \/ Begun(v, q)
  BY PickUpAs
<1>2. PICK v : /\ SessionOK(v) /\ SameBut(u, v, {"head"}) /\ v.head = i
               /\ Abandoned(v) \/ Begun(v, q)
  BY <1>1
<1>3. v.turns = u.turns /\ v.st = u.st /\ v.ref = 0
  BY <1>2 DEF SameBut
<1>4. CASE Abandoned(v)
  BY <1>1, <1>3, <1>4 DEF Abandoned, GivenUp
<1>5. CASE Begun(v, q)
  <2> HIDE DEF q
  <2> DEFINE e == [t |-> q, ms |-> {}]
  <2>1. /\ sess'.turns = Append(u.turns, e)
        /\ sess'.st = [u.st EXCEPT ![q] = "running"]
        /\ sess'.ref = q /\ sess'.head = i
        /\ runq' = Append(runq, [turn |-> q, ctx |-> Context(sess')])
        /\ excused' = excused
    BY <1>1, <1>2, <1>3, <1>5 DEF Begun
  <2>2. u.st \in [Orders -> TurnStates] /\ DraftOK(u) /\ e \in Turn
    BY <1>1 DEF SessionOK, DraftOK, Drafts, Turn, Orders
  <2> HIDE DEF e
  <2>3. /\ \A m : \A j \in DOMAIN u.turns : InUser(u, m, j) => InUser(sess', m, j)
        /\ \A j \in DOMAIN u.turns : j \in DOMAIN sess'.turns
    BY <2>1, <2>2, UserKept
  <2>4. /\ sess'.st[q] = "running"
        /\ \A o \in Orders : u.st[o] # "none" => sess'.st[o] # "none"
    BY <1>1, <2>1, <2>2
  <2>5. sess.st[q] = "none"
    BY <1>1
  <2>6. \A m, j : InUser(sess, m, j) => j \in DOMAIN sess.turns
    BY DEF InUser, InTurn
  <2>7. \A m, j : InUser(u, m, j) => j \in DOMAIN u.turns
    BY DEF InUser, InTurn
  <2>8. \A m \in Msgs : \A j \in DOMAIN sess.turns :
          InUser(sess, m, j) => InUser(sess', m, j)
    BY <2>3, <2>7
  <2>9. \A m \in Msgs : OnRef(sess, m) =>
          \E j \in DOMAIN sess'.turns : j <= sess'.head /\ InUser(sess', m, j)
    BY <2>1, <2>3
  <2>10. Answering(q)
    BY <1>1, <2>1, <2>4, <2>5, <2>8, <2>9 DEF Answering
  <2> QED
    BY <1>1, <2>4, <2>10 DEF q
<1> QED
  BY <1>2, <1>4, <1>5

LEMMA AutoStartAs ==
  ASSUME Inv, Named(sess), Named(disk), AutoStart
  PROVE  /\ Named(sess') /\ Named(disk')
         /\ sess.next <= sess'.next /\ sess'.next \in Nat
         /\ \A o \in Orders : sess.st[o] # "none" => sess'.st[o] # "none"
         /\ \/ AutoPick(sess) = 0 /\ UNCHANGED <<sess, runq, excused>>
            \/ sess.ref = 0 /\ (GivenUp \/ \E q \in Orders : Answering(q))
<1> USE DEF Inv
<1> DEFINE i == AutoPick(sess)
<1>1. /\ SessionOK(sess) /\ DraftOK(sess) /\ i \in {0} \cup DOMAIN sess.turns
      /\ i # 0 => sess.ref = 0
  BY AutoPickOK DEF SessOK, SessionOK
<1>2. PickUp(sess, disk, i) /\ sess.next \in Nat /\ Unused(sess)
  BY DEF AutoStart, SessOK, SessionOK, DraftOK, Drafts, Named
<1>3. CASE i = 0
  BY <1>2, <1>3 DEF PickUp
<1>4. CASE i # 0
  <2>1. i \in DOMAIN sess.turns /\ sess.ref = 0
    BY <1>1, <1>4
  <2>2. \A m \in Msgs : ~OnRef(sess, m)
    BY <2>1 DEF OnRef
  <2> HIDE DEF i
  <2>3. sess.next <= sess.next
    BY <1>2
  <2> QED
    BY <1>1, <1>2, <2>1, <2>2, <2>3, PickUpAnswers
<1> QED
  BY <1>1, <1>3, <1>4

\* The turn is completed and no user turn is left for it to go on with.
Rested ==
  /\ sess'.turns = sess.turns
  /\ sess'.st = [sess.st EXCEPT ![xrun.turn] = outcome]
  /\ sess'.ref = 0 /\ sess'.head = Len(sess.turns) /\ sess'.next = sess.next
  /\ \A m : ~OnRef(sess, m)
  /\ \A i \in DOMAIN sess.turns : IsUser(sess, i) => i <= sess.head
  /\ ~IsUser(sess, Len(sess.turns))
  /\ UNCHANGED <<runq, excused>>

\* What the completed session is.
LEMMA CompletedAs ==
  ASSUME Inv, Named(sess), xpc = "complete", sess.ref = xrun.turn
  PROVE  LET s == Completed(sess)
             t == xrun.turn
         IN /\ SessionOK(s) /\ Named(s) /\ s.turns = sess.turns /\ s.turns # <<>>
            /\ s.st = [sess.st EXCEPT ![t] = outcome] /\ s.ref = 0
            /\ s.head = Len(s.turns) /\ s.pend = sess.pend
            /\ s.next = sess.next
            /\ t \in Orders /\ sess.st[t] \in Live /\ outcome \in Terminal
            /\ Place(s, t) \in DOMAIN s.turns
            /\ \A m : OnRef(sess, m) <=> m \in PendingOn(s, Place(s, t))
<1> USE DEF Inv
<1> DEFINE t == xrun.turn
           c == Moved(sess, 0, t, outcome)
           s == Completed(sess)
<1>1. /\ t \in Orders /\ sess.st[t] \in Live /\ 0 \in {0, t} /\ 0 # t
      /\ outcome \in TurnStates \ {"none"} /\ outcome \in Terminal
  BY RefTurn DEF LoopsOK, SessOK, Orders, TurnStates, Terminal
<1>2. MovedWell(sess, c, 0, t, outcome) /\ Named(c)
  BY <1>1, MovedOK, NamedMoved DEF SessOK
<1>3. s = Last(c)
  BY DEF Completed, Moved
<1>4. c.pend = sess.pend
  BY MovedPend DEF SessOK
<1> HIDE DEF c, s
<1>5. /\ SessionOK(s) /\ SameBut(c, s, {"head"}) /\ Named(s)
      /\ s.head = Len(c.turns)
  BY <1>2, <1>3, LastOK, NamedSaved DEF MovedWell, SessionOK
<1>6. /\ s.turns = sess.turns /\ s.turns # <<>> /\ s.ref = 0
      /\ s.st = [sess.st EXCEPT ![t] = outcome] /\ s.st[t] = outcome
      /\ s.head = Len(s.turns) /\ s.pend = sess.pend /\ s.next = sess.next
  BY <1>2, <1>4, <1>5 DEF SameBut, MovedWell
<1>7. Place(s, t) \in DOMAIN s.turns
  BY <1>1, <1>5, <1>6, PlaceOK DEF SessionOK, Terminal
<1>8. Place(s, t) = Place(sess, t)
  BY <1>6 DEF Place
<1>9. ASSUME NEW m
      PROVE  OnRef(sess, m) <=> m \in PendingOn(s, Place(s, t))
  <2>1. OnRef(sess, m) <=> m \in PendingOn(sess, Place(sess, t))
    BY <1>1, OnRefIs DEF SessOK
  <2>2. \A i : PendingOn(sess, i) = PendingOn(s, i)
    BY <1>6 DEF PendingOn
  <2> QED
    BY <1>8, <2>1, <2>2
<1> QED
  BY <1>1, <1>5, <1>6, <1>7, <1>9 DEF s

\* What promoting the pending messages makes of it.
LEMMA PromotedAs ==
  ASSUME NEW s, SessionOK(s), Named(s), NEW k \in DOMAIN s.turns
  PROVE  LET p == Promoted(s, k)
         IN /\ SessionOK(p) /\ Named(p)
            /\ p.turns = Append(s.turns, [t |-> 0, ms |-> PendingOn(s, k)])
            /\ p.st = s.st /\ p.ref = s.ref /\ p.next = s.next + 1
            /\ p.head = Len(s.turns) + 1 /\ p.head \in DOMAIN p.turns
<1> DEFINE ms == PendingOn(s, k)
           d == DropPending(s, k)
           q == CreateUser(d, ms)
           p == Promoted(s, k)
           e == [t |-> 0, ms |-> ms]
<1>1. SessionOK(d) /\ SameBut(s, d, {"pend"}) /\ ms \in SUBSET Msgs
      /\ s.next \in Nat
  BY DropPendingOK, PendingType DEF SessionOK, DraftOK, Drafts
<1>2. d.turns = s.turns /\ d.st = s.st /\ d.ref = s.ref /\ d.next = s.next
  BY <1>1 DEF SameBut
<1>3. Named(d)
  BY <1>1, <1>2, NamedSame
<1>4. DraftOK(q) /\ SameBut(d, q, {"turns", "next"}) /\ q.next = s.next + 1
      /\ Named(q) /\ q.turns # <<>>
  BY <1>1, <1>2, <1>3, CreateUserOK, NamedUser DEF SessionOK
<1>5. q.turns = Append(s.turns, e)
  BY <1>1, <1>2 DEF CreateUser, SessionOK, DraftOK, Drafts
<1>6. p = Last(q)
  BY DEF Promoted
<1>7. e \in Turn
  BY <1>1, AgentTurnAssumption DEF Turn
<1> HIDE DEF p, q, d
<1>8. SessionOK(p) /\ SameBut(q, p, {"head"}) /\ p.head = Len(q.turns)
  BY <1>4, <1>6, LastOK
<1>9. p.turns = Append(s.turns, e) /\ p.st = s.st /\ p.ref = s.ref
      /\ p.next = s.next + 1
  BY <1>2, <1>4, <1>5, <1>8 DEF SameBut
<1>10. Named(p)
  <2>1. p.turns = q.turns /\ p.st = q.st /\ p.next = q.next /\ q.next \in Nat
    BY <1>1, <1>4, <1>8 DEF SameBut
  <2> QED
    BY <1>4, <2>1, NamedSame
<1>11. p.head = Len(s.turns) + 1 /\ p.head \in DOMAIN p.turns
  <2>1. DOMAIN p.turns = 1 .. Len(s.turns) + 1 /\ Len(s.turns) \in Nat
    BY <1>7, <1>9, UserKept, TurnsType DEF SessionOK
  <2>2. Len(q.turns) = Len(s.turns) + 1
    BY <1>5, <1>7, TurnsType, AppendProperties DEF SessionOK
  <2> QED
    BY <1>8, <2>1, <2>2
<1> QED
  BY <1>8, <1>9, <1>10, <1>11 DEF p

LEMMA CompleteAs ==
  ASSUME Inv, Named(sess), Named(disk), Complete
  PROVE  /\ Named(sess') /\ Named(disk')
         /\ sess.next <= sess'.next /\ sess'.next \in Nat
         /\ \A o \in Orders : sess.st[o] # "none" => sess'.st[o] # "none"
         /\ \/ sess.ref # xrun.turn /\ UNCHANGED <<sess, runq, excused>>
            \/ /\ sess.ref = xrun.turn
               /\ Rested \/ GivenUp \/ \E q \in Orders : Answering(q)
<1> USE DEF Inv
<1>0. xpc = "complete" /\ SessionOK(sess) /\ DraftOK(sess) /\ sess.next \in Nat
      /\ Unused(sess) /\ sess.st \in [Orders -> TurnStates]
  BY DEF Complete, SessOK, SessionOK, DraftOK, Drafts, Named
<1>1. CASE sess.ref # xrun.turn
  BY <1>0, <1>1 DEF Complete
<1>2. CASE sess.ref = xrun.turn
  <2> DEFINE t == xrun.turn
             s == Completed(sess)
             k == Place(s, t)
             p == Promoted(s, k)
             behind == NextUser(s, sess.head, Len(s.turns) - 1)
             n == IF behind # 0 THEN behind ELSE AutoPick(s)
  <2>1. IF PendingOn(s, k) # {} THEN PickUp(p, Durable(p), p.head)
                                ELSE PickUp(s, Durable(s), n)
    BY <1>2 DEF Complete
  <2>2. /\ SessionOK(s) /\ Named(s) /\ s.turns = sess.turns /\ s.turns # <<>>
        /\ s.st = [sess.st EXCEPT ![t] = outcome] /\ s.ref = 0
        /\ s.head = Len(s.turns) /\ s.pend = sess.pend /\ s.next = sess.next
        /\ t \in Orders /\ outcome \in Terminal
        /\ k \in DOMAIN s.turns
        /\ \A m : OnRef(sess, m) <=> m \in PendingOn(s, k)
    BY <1>0, <1>2, CompletedAs
  <2> HIDE DEF s, k, t
  <2>3. \A o \in Orders : sess.st[o] # "none" => s.st[o] # "none"
    BY <1>0, <2>2 DEF Terminal
  <2>4. DraftOK(s) /\ Named(Durable(s))
    BY <2>2, NamedSaved DEF SessionOK
  <2>5. CASE PendingOn(s, k) # {}
    <3> DEFINE e == [t |-> 0, ms |-> PendingOn(s, k)]
    <3>1. /\ SessionOK(p) /\ Named(p) /\ p.turns = Append(s.turns, e)
          /\ p.st = s.st /\ p.ref = 0 /\ p.next = s.next + 1
          /\ p.head = Len(s.turns) + 1 /\ p.head \in DOMAIN p.turns
      BY <2>2, PromotedAs
    <3>2. PickUp(p, Durable(p), p.head)
      BY <2>1, <2>5
    <3> HIDE DEF p
    <3>3. Named(Durable(p)) /\ sess.next <= p.next
          /\ \A o \in Orders : sess.st[o] # "none" => p.st[o] # "none"
      BY <1>0, <2>2, <2>3, <3>1, NamedSaved
    <3>4. e \in Turn /\ e.ms = PendingOn(s, k) /\ e.t = 0
      BY <2>4, PendingType, AgentTurnAssumption DEF Turn
    <3> HIDE DEF e
    <3>5. /\ \A m : \A i \in DOMAIN s.turns : InUser(s, m, i) => InUser(p, m, i)
          /\ p.turns[p.head] = e
      BY <2>4, <3>1, <3>4, UserKept
    <3>6. \A m \in Msgs : \A j \in DOMAIN sess.turns :
            InUser(sess, m, j) => InUser(p, m, j)
      BY <2>2, <3>5 DEF InUser, InTurn, IsUser
    <3>7. \A m \in Msgs : OnRef(sess, m) =>
            p.head <= p.head /\ InUser(p, m, p.head)
      <4>1. p.head \in Nat
        BY <3>1 DEF SessionOK, DraftOK, Drafts
      <4> QED
        BY <2>2, <3>1, <3>4, <3>5, <4>1 DEF InUser, InTurn, IsUser
    <3>8. /\ Named(sess') /\ Named(disk')
          /\ p.next <= sess'.next /\ sess'.next \in Nat
          /\ \A o \in Orders : p.st[o] # "none" => sess'.st[o] # "none"
          /\ GivenUp \/ \E q \in Orders : Answering(q)
      BY <1>0, <3>1, <3>2, <3>3, <3>6, <3>7, PickUpAnswers
    <3>9. sess.next <= sess'.next
      BY <1>0, <2>2, <3>1, <3>8
    <3> QED
      BY <1>2, <3>3, <3>8, <3>9
  <2>6. CASE PendingOn(s, k) = {}
    <3>1. PickUp(s, Durable(s), n) /\ \A m : ~OnRef(sess, m)
      BY <2>1, <2>2, <2>6
    <3>2. n \in {0} \cup DOMAIN s.turns
      BY <2>2, <2>4, NextUserOK, AutoPickOK
    <3>3. CASE n # 0
      <4>1. n \in DOMAIN s.turns
        BY <3>2, <3>3
      <4> HIDE DEF n
      <4>2. sess.next <= s.next
        BY <1>0, <2>2
      <4>3. \A m \in Msgs : \A j \in DOMAIN sess.turns :
              InUser(sess, m, j) => InUser(s, m, j)
        BY <2>2 DEF InUser, InTurn, IsUser
      <4>4. /\ Named(sess') /\ Named(disk')
            /\ s.next <= sess'.next /\ sess'.next \in Nat
            /\ \A o \in Orders : s.st[o] # "none" => sess'.st[o] # "none"
            /\ GivenUp \/ \E q \in Orders : Answering(q)
        BY <1>0, <2>2, <2>3, <2>4, <3>1, <4>1, <4>2, <4>3, PickUpAnswers
      <4> QED
        BY <1>2, <2>2, <2>3, <4>4
    <3>4. CASE n = 0
      <4>1. sess' = s /\ disk' = Durable(s) /\ UNCHANGED <<runq, excused>>
        BY <3>1, <3>4 DEF PickUp
      <4>2. behind = 0 /\ AutoPick(s) = 0
        BY <3>4
      <4>3. \A i \in DOMAIN s.turns :
              ~(sess.head < i /\ i <= Len(s.turns) - 1 /\ IsUser(s, i))
        BY <2>4, <4>2, NextUserNone
      <4>4. ~IsUser(s, Len(s.turns))
        BY <2>2, <4>2, AutoPickNothing
      <4>5. /\ DOMAIN s.turns = 1 .. Len(s.turns) /\ Len(s.turns) \in Nat
            /\ sess.head \in Nat
        BY <1>0, <2>4, TurnsType DEF DraftOK, Drafts
      <4>6. \A i \in DOMAIN s.turns : IsUser(s, i) => i <= sess.head
        <5> SUFFICES ASSUME NEW i \in DOMAIN s.turns, IsUser(s, i)
                     PROVE  i <= sess.head
          OBVIOUS
        <5>1. i # Len(s.turns)
          BY <4>4
        <5> QED
          BY <4>3, <4>5, <5>1
      <4>7. Rested
        BY <2>2, <3>1, <4>1, <4>4, <4>6 DEF Rested, IsUser, t
      <4> QED
        BY <1>0, <1>2, <2>2, <2>3, <2>4, <4>1, <4>7
    <3> QED
      BY <3>3, <3>4
  <2> QED
    BY <2>5, <2>6
<1> QED
  BY <1>1, <1>2

-----------------------------------------------------------------------------
(* The invariant of the names: what is under way has a turn, and a start   *)
(* still on its way was given its name by then. A cancel that still holds  *)
(* its turn starts the last name given. Besides, what a submit read of the *)
(* engine: only a submit sets the engine's flags while it is handled.      *)
Cancelling == dpc \in {"wait", "commit"}

NamesOK ==
  /\ Named(sess)
  /\ Named(disk)
  /\ \A j \in DOMAIN starts : starts[j].turn <= sess.next
  /\ \A j \in DOMAIN runq : sess.st[runq[j].turn] # "none"
  /\ xpc # "idle" => sess.st[xrun.turn] # "none"
  /\ Cancelling => dname <= sess.next
  /\ Cancelling /\ dname # 0 /\ sess.ref = dturn => dname = sess.next
  /\ dpc = "submit" /\ judged = "busy" => ~engine.cancelled
  /\ engine.accepting => engine.turn # 0

LEMMA NamesInit == Init => NamesOK
<1> SUFFICES ASSUME Init PROVE NamesOK
  OBVIOUS
<1>1. /\ sess = EmptySession /\ disk = EmptySession /\ starts = <<>> /\ runq = <<>>
      /\ xpc = "idle" /\ dpc = "idle" /\ engine = Engine(0)
  BY DEF Init
<1>2. EmptySession.turns = <<>> /\ \A t \in Orders : EmptySession.st[t] = "none"
  BY DEF EmptySession
<1>3. Named(EmptySession)
  BY <1>2 DEF Named, Unused
<1>4. ~engine.accepting
  BY <1>1 DEF Engine
<1>5. DOMAIN starts = {} /\ DOMAIN runq = {}
  BY <1>1
<1> QED
  BY <1>1, <1>3, <1>4, <1>5 DEF NamesOK, Cancelling

\* A queue after one more element.
LEMMA AppendAll ==
  ASSUME NEW S, NEW q \in Seq(S), NEW e \in S
  PROVE  /\ \A j \in DOMAIN q : j \in DOMAIN Append(q, e) /\ Append(q, e)[j] = q[j]
         /\ \E j \in DOMAIN Append(q, e) : Append(q, e)[j] = e
         /\ \A j \in DOMAIN Append(q, e) :
              Append(q, e)[j] = e \/ (j \in DOMAIN q /\ Append(q, e)[j] = q[j])
<1>1. /\ Append(q, e) \in Seq(S) /\ Len(Append(q, e)) = Len(q) + 1
      /\ \A i \in 1 .. Len(q) : Append(q, e)[i] = q[i]
      /\ Append(q, e)[Len(q) + 1] = e
  BY AppendProperties
<1>2. /\ DOMAIN q = 1 .. Len(q) /\ Len(q) \in Nat
      /\ DOMAIN Append(q, e) = 1 .. Len(q) + 1
  BY <1>1, LenProperties
<1> QED
  BY <1>1, <1>2

\* A queue without one of its elements.
LEMMA RemoveAll ==
  ASSUME NEW S, NEW q \in Seq(S), NEW i \in DOMAIN q
  PROVE  LET r == SubSeq(q, 1, i - 1) \o SubSeq(q, i + 1, Len(q))
         IN /\ r \in Seq(S)
            /\ \A j \in DOMAIN q : j # i => \E k \in DOMAIN r : r[k] = q[j]
            /\ \A k \in DOMAIN r : \E j \in DOMAIN q : r[k] = q[j]
<1> DEFINE a == SubSeq(q, 1, i - 1)
           b == SubSeq(q, i + 1, Len(q))
           r == a \o b
<1>1. DOMAIN q = 1 .. Len(q) /\ Len(q) \in Nat /\ i \in 1 .. Len(q)
  BY LenProperties
<1>2. /\ a \in Seq(S) /\ Len(a) = i - 1
      /\ \A k \in 1 .. i - 1 : a[k] = q[k]
  BY <1>1, SubSeqProperties
<1>3. /\ b \in Seq(S) /\ Len(b) = Len(q) - i
      /\ \A k \in 1 .. Len(q) - i : b[k] = q[i + k]
  BY <1>1, SubSeqProperties
<1> HIDE DEF a, b
<1>4. /\ r \in Seq(S) /\ Len(r) = Len(q) - 1
      /\ \A k \in 1 .. i - 1 : r[k] = q[k]
      /\ \A k \in i .. Len(q) - 1 : r[k] = q[k + 1]
  <2>1. /\ a \o b \in Seq(S) /\ Len(a \o b) = Len(a) + Len(b)
        /\ \A k \in 1 .. Len(a) + Len(b) :
             (a \o b)[k] = IF k <= Len(a) THEN a[k] ELSE b[k - Len(a)]
    BY <1>2, <1>3, ConcatProperties
  <2>2. /\ r \in Seq(S) /\ Len(r) = Len(q) - 1
        /\ \A k \in 1 .. Len(q) - 1 :
             r[k] = IF k <= i - 1 THEN a[k] ELSE b[k - (i - 1)]
    BY <1>1, <1>2, <1>3, <2>1
  <2> HIDE DEF r
  <2>3. ASSUME NEW k \in i .. Len(q) - 1
        PROVE  r[k] = q[k + 1]
    <3>1. r[k] = b[k - (i - 1)] /\ k - (i - 1) \in 1 .. Len(q) - i
      BY <1>1, <2>2
    <3>2. i + (k - (i - 1)) = k + 1
      BY <1>1
    <3>3. b[k - (i - 1)] = q[i + (k - (i - 1))]
      BY <1>3, <3>1
    <3> QED
      BY <3>1, <3>2, <3>3
  <2>4. ASSUME NEW k \in 1 .. i - 1
        PROVE  r[k] = q[k]
    BY <1>1, <1>2, <2>2
  <2> QED
    BY <2>2, <2>3, <2>4
<1> HIDE DEF r
<1>5. DOMAIN r = 1 .. Len(q) - 1
  BY <1>4, LenProperties
<1>6. ASSUME NEW j \in DOMAIN q, j # i
      PROVE  \E k \in DOMAIN r : r[k] = q[j]
  <2>1. CASE j < i
    BY <1>1, <1>4, <1>5, <2>1
  <2>2. CASE j > i
    <3>1. j - 1 \in i .. Len(q) - 1 /\ j - 1 + 1 = j
      BY <1>1, <2>2
    <3> QED
      BY <1>1, <1>4, <1>5, <3>1
  <2> QED
    BY <1>1, <1>6, <2>1, <2>2
<1>7. ASSUME NEW k \in DOMAIN r
      PROVE  \E j \in DOMAIN q : r[k] = q[j]
  <2>1. CASE k < i
    BY <1>1, <1>4, <1>5, <2>1
  <2>2. CASE k >= i
    <3>1. k \in i .. Len(q) - 1 /\ k + 1 \in DOMAIN q
      BY <1>1, <1>5, <2>2
    <3> QED
      BY <1>4, <3>1
  <2> QED
    BY <1>1, <1>5, <2>1, <2>2
<1> QED
  BY <1>4, <1>6, <1>7 DEF r, a, b

\* A queue after its first element.
LEMMA TailAll ==
  ASSUME NEW S, NEW q \in Seq(S), q # <<>>
  PROVE  /\ Head(q) = q[1] /\ 1 \in DOMAIN q
         /\ \A j \in DOMAIN Tail(q) : j + 1 \in DOMAIN q /\ Tail(q)[j] = q[j + 1]
         /\ \A j \in DOMAIN q :
              j = 1 \/ (j - 1 \in DOMAIN Tail(q) /\ Tail(q)[j - 1] = q[j])
<1>1. /\ DOMAIN q = 1 .. Len(q) /\ Len(q) \in Nat /\ Len(q) # 0
      /\ Tail(q) \in Seq(S) /\ Len(Tail(q)) = Len(q) - 1
      /\ \A j \in 1 .. Len(q) - 1 : Tail(q)[j] = q[j + 1]
      /\ Head(q) = q[1]
  BY HeadTailProperties, LenProperties, EmptySeq
<1>2. DOMAIN Tail(q) = 1 .. Len(q) - 1
  BY <1>1, LenProperties
<1>3. ASSUME NEW j \in DOMAIN q, j # 1
      PROVE  j - 1 \in DOMAIN Tail(q) /\ Tail(q)[j - 1] = q[j]
  <2>1. j - 1 \in 1 .. Len(q) - 1 /\ j - 1 + 1 = j
    BY <1>1, <1>3
  <2> QED
    BY <1>1, <1>2, <2>1
<1> QED
  BY <1>1, <1>2, <1>3

\* What is under way is about turns.
LEMMA QueuedTurns ==
  ASSUME Inv
  PROVE  /\ \A j \in DOMAIN runq : runq[j].turn \in Orders
         /\ \A j \in DOMAIN starts : starts[j].turn \in Orders
<1>1. runq \in Seq(RunMsg) /\ starts \in Seq(StartMsg)
  BY DEF Inv, QueuesOK
<1>2. \A j \in DOMAIN runq : runq[j] \in RunMsg
  BY <1>1, ElementOfSeq, LenProperties
<1>3. \A j \in DOMAIN starts : starts[j] \in StartMsg
  BY <1>1, ElementOfSeq, LenProperties
<1> QED
  BY <1>2, <1>3 DEF RunMsg, StartMsg

LEMMA QuietNames ==
  ASSUME Inv, NamesOK,
         \/ \E m \in Msgs : SubmitRead(m)
         \/ Stop \/ CancelTimesOut \/ Pause \/ RunTake \/ RunStore
         \/ StopAccepting \/ Remind \/ Finish \/ Fail \/ Abort \/ Exited
         \/ ClearEngine \/ UNCHANGED vars
  PROVE  NamesOK'
<1> USE DEF Inv, NamesOK
<1>1. UNCHANGED <<sess, disk, starts>>
  BY DEF SubmitRead, Stop, CancelTimesOut, Pause, RunTake, RunStore,
         StopAccepting, Remind, Finish, Fail, Abort, Exit, Exited, ClearEngine,
         vars
<1>2. ASSUME NEW m \in Msgs, SubmitRead(m)
      PROVE  NamesOK'
  BY <1>2 DEF SubmitRead, exec, Cancelling
<1>3. CASE Stop
  <2>1. /\ dname' = 0 /\ dpc' \in {"wait", "commit"}
        /\ engine'.accepting => engine.accepting
        /\ engine'.turn = engine.turn /\ UNCHANGED <<runq, xpc, xrun>>
    BY <1>3 DEF Stop, RequestCancel, exec, QueuesOK, EngineType
  <2>2. sess.next \in Nat
    BY DEF SessOK, SessionOK, DraftOK, Drafts
  <2> QED
    BY <1>1, <2>1, <2>2
<1>4. CASE CancelTimesOut \/ Pause \/ StopAccepting \/ Remind \/ Finish \/ Fail
           \/ Abort
  <2>1. /\ UNCHANGED <<runq, xrun, dturn, dname, judged>>
        /\ (dpc' = "submit" <=> dpc = "submit") /\ (Cancelling' <=> Cancelling)
        /\ xpc' # "idle" => xpc # "idle"
        /\ engine'.cancelled = engine.cancelled /\ engine'.turn = engine.turn
    BY <1>4 DEF CancelTimesOut, Pause, StopAccepting, Remind, Finish, Fail,
                Abort, Exit, exec, default, history, Cancelling, QueuesOK,
                EngineType
  <2>2. engine'.accepting => engine'.turn # 0
    BY <1>4 DEF CancelTimesOut, Pause, StopAccepting, Remind, Finish, Fail,
                Abort, Exit, QueuesOK, EngineType, LoopsOK
  <2> QED
    BY <1>1, <2>1, <2>2
<1>5. CASE RunTake
  <2>1. /\ runq \in Seq(RunMsg) /\ runq # <<>> /\ runq' = Tail(runq)
        /\ xpc' # "idle" => xrun' = Head(runq)
        /\ UNCHANGED <<engine, dpc, dname, dturn, judged>>
    BY <1>5 DEF RunTake, QueuesOK, default
  <2>2. /\ Head(runq) = runq[1] /\ 1 \in DOMAIN runq
        /\ \A j \in DOMAIN Tail(runq) : j + 1 \in DOMAIN runq
                                        /\ Tail(runq)[j] = runq[j + 1]
    BY <2>1, TailAll
  <2> QED
    BY <1>1, <2>1, <2>2 DEF Cancelling
<1>6. CASE RunStore
  BY <1>1, <1>6 DEF RunStore, Engine, default, Cancelling, LoopsOK
<1>7. CASE Exited \/ ClearEngine
  <2>1. /\ UNCHANGED <<runq, dpc, dname, dturn, judged>>
        /\ xpc' # "idle" => xpc # "idle" /\ xrun' = xrun
        /\ engine' = engine \/ engine' = Engine(0)
    BY <1>7 DEF Exited, ClearEngine, ExecIdle, default
  <2>2. ~Engine(0).accepting /\ ~Engine(0).cancelled
    BY DEF Engine
  <2> QED
    BY <1>1, <2>1, <2>2 DEF Cancelling
<1>8. CASE UNCHANGED vars
  BY <1>8 DEF vars, exec, default, Cancelling
<1> QED
  BY <1>2, <1>3, <1>4, <1>5, <1>6, <1>7, <1>8

LEMMA SubmitNames ==
  ASSUME Inv, NamesOK, SubmitQueues \/ SubmitBehind \/ SubmitStarts
  PROVE  NamesOK'
<1> USE DEF Inv, NamesOK
<1>1. /\ dpc = "submit" /\ dmsg \in Msgs /\ SessionOK(sess) /\ DraftOK(sess)
      /\ UNCHANGED <<runq, xpc, xrun>> /\ sess.next \in Nat
      /\ starts \in Seq(StartMsg)
  BY DEF SubmitQueues, SubmitBehind, SubmitStarts, exec, LoopsOK, SessOK,
         SessionOK, DraftOK, Drafts, QueuesOK
<1>0. \A j \in DOMAIN starts : starts[j].turn \in Nat
  BY QueuedTurns DEF Orders
<1>2. CASE SubmitQueues
  <2>1. /\ sess' = QueuePending(sess, dmsg) /\ disk' = Durable(sess')
        /\ dpc' = "idle" /\ UNCHANGED <<starts, engine>>
    BY <1>2 DEF SubmitQueues
  <2>2. sess.turns # <<>>
    BY <1>2, RefTurn DEF SubmitQueues, Queues, Resumable, BusyOK, SessOK
  <2>3. SessionOK(sess') /\ SameBut(sess, sess', {"pend"})
    BY <1>1, <2>1, <2>2, TargetOK, QueueOK DEF SessOK
  <2>4. sess'.turns = sess.turns /\ sess'.st = sess.st /\ sess'.next = sess.next
    BY <2>3 DEF SameBut
  <2>5. Named(sess')
    BY <1>1, <2>4, NamedSame
  <2>6. Named(disk')
    BY <2>1, <2>3, <2>5, NamedSaved
  <2> QED
    BY <1>1, <2>1, <2>4, <2>5, <2>6 DEF Cancelling
<1> DEFINE s == CreateUser(sess, {dmsg})
<1>3. DraftOK(s) /\ s.turns # <<>> /\ SameBut(sess, s, {"turns", "next"})
      /\ s.next = sess.next + 1
  BY <1>1, CreateUserOK
<1>4. Named(s) /\ s.st = sess.st /\ s.ref = sess.ref
  BY <1>1, <1>3, NamedUser DEF SameBut
<1>5. CASE SubmitBehind
  <2>1. /\ sess' = s /\ dpc' = "idle" /\ UNCHANGED <<disk, engine>>
        /\ starts' = IF judged = "cancelled"
                     THEN Append(starts, [turn |-> sess'.next, msg |-> dmsg])
                     ELSE starts
        /\ sess'.next <= MaxOrder
    BY <1>5 DEF SubmitBehind, Bounded
  <2> HIDE DEF s
  <2>2. [turn |-> sess'.next, msg |-> dmsg] \in StartMsg
    BY <1>1, <1>3, <2>1, AgentTurnAssumption DEF StartMsg, Orders
  <2>3. \A j \in DOMAIN starts' :
          starts'[j].turn = sess'.next \/
            (j \in DOMAIN starts /\ starts'[j] = starts[j])
    BY <1>1, <2>1, <2>2, AppendAll
  <2>5. \A j \in DOMAIN starts' : starts'[j].turn <= sess'.next
    BY <1>0, <1>1, <1>3, <2>1, <2>3
  <2> QED
    BY <1>1, <1>4, <2>1, <2>5 DEF Cancelling
<1>6. CASE SubmitStarts
  <2>0. sess'.next <= MaxOrder /\ s.next = sess'.next /\ UNCHANGED judged
        /\ judged = "none"
    BY <1>3, <1>6, LastOK DEF SubmitStarts, Bounded, Last, SameBut
  <2>1. CASE sess.ref = 0
    <3>1. /\ sess' = Last(s) /\ disk' = Durable(sess') /\ dpc' = "idle"
          /\ starts' = Append(starts, [turn |-> s.next, msg |-> dmsg])
          /\ UNCHANGED engine
      BY <1>6, <2>1 DEF SubmitStarts
    <3> HIDE DEF s
    <3>2. SessionOK(sess') /\ SameBut(s, sess', {"head"})
      BY <1>3, <3>1, LastOK
    <3>3. Named(sess')
      <4>1. sess'.turns = s.turns /\ sess'.st = s.st /\ sess'.next = s.next
            /\ s.next \in Nat
        BY <1>1, <1>3, <3>2 DEF SameBut
      <4> QED
        BY <1>4, <4>1, NamedSame
    <3>4. Named(disk')
      BY <3>1, <3>2, <3>3, NamedSaved
    <3>5. [turn |-> s.next, msg |-> dmsg] \in StartMsg
      BY <1>1, <1>3, <2>0, AgentTurnAssumption DEF StartMsg, Orders
    <3>6. \A j \in DOMAIN starts' :
            starts'[j].turn = sess'.next \/
              (j \in DOMAIN starts /\ starts'[j] = starts[j])
      BY <1>1, <2>0, <3>1, <3>5, AppendAll
    <3>8. \A j \in DOMAIN starts' : starts'[j].turn <= sess'.next
      BY <1>0, <1>1, <1>3, <2>0, <3>6
    <3>9. sess'.st = sess.st
      BY <1>4, <3>2 DEF SameBut
    <3> QED
      BY <1>1, <3>1, <3>3, <3>4, <3>8, <3>9 DEF Cancelling
  <2>2. CASE sess.ref # 0
    <3>1. /\ sess' = s /\ RequestCancel(sess.ref, s.next)
          /\ UNCHANGED <<disk, starts>>
      BY <1>6, <2>2 DEF SubmitStarts
    <3> HIDE DEF s
    <3>2. /\ dname' = sess'.next /\ dpc' \in {"wait", "commit"}
          /\ engine'.accepting => engine.accepting
          /\ engine'.turn = engine.turn
      BY <3>1 DEF RequestCancel, QueuesOK, EngineType
    <3>4. \A j \in DOMAIN starts' : starts'[j].turn <= sess'.next
      BY <1>0, <1>1, <1>3, <3>1
    <3> QED
      BY <1>1, <1>3, <1>4, <2>0, <3>1, <3>2, <3>4 DEF Cancelling
  <2> QED
    BY <2>1, <2>2
<1> QED
  BY <1>2, <1>5, <1>6

LEMMA StartInternalNames ==
  ASSUME Inv, NamesOK, StartInternal
  PROVE  NamesOK'
<1> USE DEF Inv, NamesOK
<1>1. PICK i \in DOMAIN starts :
        /\ starts' = SubSeq(starts, 1, i - 1)
                       \o SubSeq(starts, i + 1, Len(starts))
        /\ IF sess.st[starts[i].turn] = "cancelled"
           THEN UNCHANGED <<sess, disk, runq, excused, count>>
           ELSE StartTurn(sess, disk, starts[i].turn)
  BY DEF StartInternal
<1>2. /\ dpc = "idle" /\ dpc' = "idle" /\ UNCHANGED <<engine, xpc, xrun>>
      /\ starts \in Seq(StartMsg) /\ runq \in Seq(RunMsg)
      /\ \A j \in DOMAIN starts : starts[j].turn \in Orders
  BY QueuedTurns DEF QueuesOK, StartInternal, exec, default
<1>3. \A k \in DOMAIN starts' : \E j \in DOMAIN starts : starts'[k] = starts[j]
  BY <1>1, <1>2, RemoveAll
<1>4. sess.turns # <<>> /\ sess.next \in Nat /\ starts[i].turn \in Orders
      /\ starts[i].turn <= sess.next
  BY <1>1, <1>2 DEF BusyOK, SessOK, SessionOK, DraftOK, Drafts
<1>5. CASE sess.st[starts[i].turn] = "cancelled"
  BY <1>1, <1>2, <1>3, <1>5 DEF Cancelling
<1>6. CASE sess.st[starts[i].turn] # "cancelled"
  <2> DEFINE t == starts[i].turn
  <2>1. StartTurn(sess, disk, t)
    BY <1>1, <1>6
  <2> HIDE DEF t
  <2>2. t \in Orders /\ t \in Orders \cup {sess.next} /\ t <= sess.next
    BY <1>4 DEF t
  <2>3. /\ Named(sess') /\ Named(disk')
        /\ sess.next <= sess'.next /\ sess'.next \in Nat
        /\ Abandoned(sess) \/ Refused(sess, t) \/ Begun(sess, t)
    BY <1>4, <2>1, <2>2, StartTurnAs DEF SessOK
  <2>4. \A j \in DOMAIN starts' : starts'[j].turn <= sess'.next
    BY <1>2, <1>3, <1>4, <2>3 DEF Orders
  <2>5. sess.st \in [Orders -> TurnStates] /\ \A j \in DOMAIN runq : runq[j].turn \in Orders
    BY QueuedTurns DEF SessOK, SessionOK, DraftOK, Drafts
  <2>6. /\ \A o \in Orders : sess.st[o] # "none" => sess'.st[o] # "none"
        /\ \A j \in DOMAIN runq' : sess'.st[runq'[j].turn] # "none"
    <3>1. CASE Abandoned(sess) \/ Refused(sess, t)
      BY <2>5, <3>1 DEF Abandoned, Refused
    <3>2. CASE Begun(sess, t)
      <4> DEFINE r == [turn |-> t, ctx |-> Context(sess')]
      <4>1. /\ sess'.st = [sess.st EXCEPT ![t] = "running"]
            /\ runq' = Append(runq, r) /\ r.turn = t
        BY <3>2 DEF Begun
      <4>2. \A o \in Orders : sess.st[o] # "none" \/ o = t => sess'.st[o] # "none"
        BY <2>2, <2>5, <4>1
      <4>3. r \in RunMsg
        <5>1. runq' \in Seq(RunMsg)
          BY StartInternalStep DEF Inv, QueuesOK
        <5>2. \A j \in DOMAIN runq' : runq'[j] \in RunMsg
          BY <5>1, ElementOfSeq, LenProperties
        <5>3. runq' = Append(runq, r) /\ Len(runq) + 1 \in DOMAIN Append(runq, r)
              /\ Append(runq, r)[Len(runq) + 1] = r
          <6>1. runq \in Seq(RunMsg \cup {r}) /\ r \in RunMsg \cup {r}
            BY <1>2, SeqDef
          <6> HIDE DEF r
          <6>2. /\ Append(runq, r) \in Seq(RunMsg \cup {r})
                /\ Len(Append(runq, r)) = Len(runq) + 1
                /\ Append(runq, r)[Len(runq) + 1] = r
            BY <6>1, AppendProperties
          <6>3. DOMAIN Append(runq, r) = 1 .. Len(runq) + 1 /\ Len(runq) \in Nat
            BY <6>1, <6>2, LenProperties
          <6> QED
            BY <4>1, <6>2, <6>3 DEF r
        <5> QED
          BY <5>2, <5>3
      <4> HIDE DEF r
      <4>4. \A j \in DOMAIN runq' : runq'[j] = r \/
               (j \in DOMAIN runq /\ runq'[j] = runq[j])
        BY <1>2, <4>1, <4>3, AppendAll
      <4> QED
        BY <2>2, <2>5, <4>1, <4>2, <4>4
    <3> QED
      BY <2>3, <3>1, <3>2
  <2>7. xpc' # "idle" => sess'.st[xrun'.turn] # "none"
    BY <1>2, <2>6 DEF LoopsOK
  <2> QED
    BY <1>2, <2>3, <2>4, <2>6, <2>7 DEF Cancelling
<1> QED
  BY <1>5, <1>6


\* After a step of the exec loop that may have started a turn.
LEMMA PickedNames ==
  ASSUME Inv, NamesOK, Named(sess'), Named(disk'),
         sess.next <= sess'.next, sess'.next \in Nat,
         \A o \in Orders : sess.st[o] # "none" => sess'.st[o] # "none",
         \/ UNCHANGED <<sess, runq>>
         \/ sess'.ref = 0 /\ UNCHANGED runq
         \/ \E q \in Orders : Answering(q),
         UNCHANGED <<starts, dpc, judged, dturn, dname>>,
         engine' \in {engine, Engine(0)},
         xpc' # "idle" => xpc # "idle" /\ xrun' = xrun
  PROVE  NamesOK'
<1> USE DEF Inv, NamesOK
<1>1. /\ sess.next \in Nat /\ runq \in Seq(RunMsg) /\ starts \in Seq(StartMsg)
      /\ \A j \in DOMAIN runq : runq[j].turn \in Orders
      /\ \A j \in DOMAIN starts : starts[j].turn \in Nat
      /\ dname \in Nat
  BY QueuedTurns
  DEF QueuesOK, SessOK, SessionOK, DraftOK, Drafts, LoopsOK, Orders
<1>2. \A j \in DOMAIN starts' : starts'[j].turn <= sess'.next
  BY <1>1
<1>3. /\ (Cancelling' <=> Cancelling)
      /\ Cancelling => dname' <= sess'.next
      /\ dpc' = "submit" /\ judged' = "busy" => ~engine'.cancelled
      /\ engine'.accepting => engine'.turn # 0
  <2>1. ~Engine(0).accepting /\ ~Engine(0).cancelled
    BY DEF Engine
  <2>2. Cancelling => dname' <= sess'.next
    BY <1>1
  <2> QED
    BY <2>1, <2>2 DEF Cancelling
<1>4. xpc' # "idle" => sess'.st[xrun'.turn] # "none"
  BY DEF LoopsOK
<1>5. CASE UNCHANGED <<sess, runq>>
  BY <1>2, <1>3, <1>4, <1>5
<1>6. Cancelling => dturn \in Orders /\ sess.st[dturn] # "none" /\ dturn # 0
  BY RefTurn DEF LoopsOK, CancelOK, SessOK, Cancelling, Live, Terminal, Orders
<1>7. CASE sess'.ref = 0 /\ UNCHANGED runq
  BY <1>1, <1>2, <1>3, <1>4, <1>6, <1>7
<1>8. ASSUME NEW q \in Orders, Answering(q)
      PROVE  NamesOK'
  <2> DEFINE r == [turn |-> q, ctx |-> Context(sess')]
  <2>1. /\ sess'.ref = q /\ sess.st[q] = "none" /\ sess'.st[q] = "running"
        /\ runq' = Append(runq, r) /\ r.turn = q
    BY <1>8 DEF Answering
  <2> HIDE DEF r
  <2>2. runq \in Seq(RunMsg \cup {r}) /\ r \in RunMsg \cup {r}
    BY <1>1, SeqDef
  <2>3. \A j \in DOMAIN runq' : runq'[j] = r \/
          (j \in DOMAIN runq /\ runq'[j] = runq[j])
    BY <2>1, <2>2, AppendAll
  <2>4. \A j \in DOMAIN runq' : sess'.st[runq'[j].turn] # "none"
    BY <1>1, <2>1, <2>3
  <2> QED
    BY <1>2, <1>3, <1>4, <1>6, <2>1, <2>4
<1> QED
  BY <1>5, <1>7, <1>8

LEMMA CompleteNames ==
  ASSUME Inv, NamesOK, Complete \/ AutoStart
  PROVE  NamesOK'
<1>1. Named(sess) /\ Named(disk)
  BY DEF NamesOK
<1>2. /\ UNCHANGED <<starts, dpc, judged, dturn, dname, engine>>
      /\ xpc' # "idle" => xpc # "idle" /\ xrun' = xrun
  BY DEF Complete, AutoStart, default, ExecIdle
<1>3. CASE Complete
  <2>1. /\ Named(sess') /\ Named(disk')
        /\ sess.next <= sess'.next /\ sess'.next \in Nat
        /\ \A o \in Orders : sess.st[o] # "none" => sess'.st[o] # "none"
        /\ \/ UNCHANGED <<sess, runq>> \/ Rested \/ GivenUp
           \/ \E q \in Orders : Answering(q)
    BY <1>1, <1>3, CompleteAs
  <2>2. \/ UNCHANGED <<sess, runq>>
        \/ sess'.ref = 0 /\ UNCHANGED runq
        \/ \E q \in Orders : Answering(q)
    BY <2>1 DEF Rested, GivenUp
  <2> QED
    BY <1>2, <2>1, <2>2, PickedNames
<1>4. CASE AutoStart
  <2>1. /\ Named(sess') /\ Named(disk')
        /\ sess.next <= sess'.next /\ sess'.next \in Nat
        /\ \A o \in Orders : sess.st[o] # "none" => sess'.st[o] # "none"
        /\ \/ UNCHANGED <<sess, runq>> \/ GivenUp
           \/ \E q \in Orders : Answering(q)
    BY <1>1, <1>4, AutoStartAs
  <2>2. \/ UNCHANGED <<sess, runq>>
        \/ sess'.ref = 0 /\ UNCHANGED runq
        \/ \E q \in Orders : Answering(q)
    BY <2>1 DEF GivenUp
  <2> QED
    BY <1>2, <2>1, <2>2, PickedNames
<1> QED
  BY <1>3, <1>4

LEMMA RestartNames ==
  ASSUME Inv, NamesOK, NEW saved \in {disk, Durable(sess)}, Restart(saved)
  PROVE  NamesOK'
<1> USE DEF Inv, NamesOK
<1>1. SessionOK(saved) /\ Named(saved)
  BY DurableOK, NamedSaved DEF SessOK, DiskOK
<1>2. /\ sess' = Recovered(saved) /\ disk' = Durable(sess')
      /\ starts' = <<>> /\ runq' = <<>> /\ engine' = Engine(0)
      /\ xpc' = "idle" /\ dpc' = "idle"
  BY DEF Restart, ExecIdle, DefaultIdle
<1>3. SessionOK(sess') /\ Named(sess')
  <2>1. saved.ref = 0
    BY DurableOK DEF SessOK, DiskOK
  <2> QED
    BY <1>1, <1>2, <2>1, RecoveredOK, NamedRecovered
<1>4. Named(disk')
  BY <1>2, <1>3, NamedSaved
<1>5. ~engine'.accepting /\ ~Cancelling'
  BY <1>2 DEF Engine, Cancelling
<1>6. DOMAIN starts' = {} /\ DOMAIN runq' = {}
  BY <1>2
<1> QED
  BY <1>2, <1>3, <1>4, <1>5, <1>6


\* Steps of the exec loop that leave the turns their names.
LEMMA RunNames ==
  ASSUME Inv, NamesOK, Ingest \/ Checkpoint \/ PauseHere \/ Wake
  PROVE  NamesOK'
<1> USE DEF Inv, NamesOK
<1>1. /\ xpc # "idle" /\ xpc' # "idle" /\ sess.turns # <<>>
      /\ UNCHANGED <<starts, runq, xrun, dpc, judged, dturn, dname>>
      /\ engine'.accepting = engine.accepting /\ engine'.turn = engine.turn
      /\ engine'.cancelled = engine.cancelled
  BY DEF Ingest, Checkpoint, PauseHere, Wake, default, exec, BusyOK, QueuesOK,
         EngineType
<1>2. SessionOK(sess) /\ sess.next \in Nat /\ Named(Durable(sess))
      /\ xrun.turn \in Orders /\ sess.st[xrun.turn] # "none"
      /\ sess.st \in [Orders -> TurnStates]
  BY <1>1, NamedSaved DEF SessOK, SessionOK, DraftOK, Drafts, LoopsOK
<1>3. CASE Checkpoint
  <2>1. sess' = sess /\ disk' = Durable(sess)
    BY <1>3 DEF Checkpoint
  <2> QED
    BY <1>1, <1>2, <2>1 DEF Cancelling
<1>4. CASE Ingest
  <2> DEFINE k == Target(sess)
             ms == PendingOn(sess, k)
             d == DropPending(sess, k)
  <2>1. sess' = Consume(sess) /\ UNCHANGED disk /\ k \in DOMAIN sess.turns
    BY <1>1, <1>4, TargetOK DEF Ingest, SessOK
  <2>2. /\ SessionOK(sess') /\ SameBut(sess, sess', {"turns", "pend"})
        /\ SameBut(sess, d, {"pend"})
    BY <1>2, <2>1, ConsumeOK, DropPendingOK
  <2>3. sess'.turns = [sess.turns EXCEPT ![k].ms = @ \cup ms]
    <3>1. d.turns = sess.turns /\ SessionOK(d)
      BY <1>2, <2>2, DropPendingOK DEF SameBut
    <3>2. sess' = [d EXCEPT !.turns[k].ms = @ \cup ms]
      BY <2>1 DEF Consume
    <3> HIDE DEF d, k, ms
    <3> QED
      BY <3>1, <3>2 DEF SessionOK, DraftOK, Drafts
  <2> HIDE DEF d, k, ms
  <2>4. /\ DOMAIN sess'.turns = DOMAIN sess.turns
        /\ \A i \in DOMAIN sess.turns : sess'.turns[i].t = sess.turns[i].t
    <3>1. \A i \in DOMAIN sess.turns : sess.turns[i] \in Turn
      BY <1>2, TurnsType DEF SessionOK
    <3> QED
      BY <2>1, <2>3, <3>1 DEF Turn
  <2>5. sess'.st = sess.st /\ sess'.next = sess.next /\ sess'.ref = sess.ref
    BY <2>2 DEF SameBut
  <2>6. Named(sess')
    BY <2>4, <2>5 DEF Named, Unused
  <2> QED
    BY <1>1, <2>1, <2>5, <2>6 DEF Cancelling
<1>5. CASE PauseHere \/ Wake
  <2>1. PICK to \in Live : /\ sess' = Apply(sess, xrun.turn, to)
                           /\ disk' = SavedUnlessRefused(xrun.turn, to)
    BY <1>5 DEF PauseHere, Wake, Live
  <2> DEFINE t == xrun.turn
  <2>2. /\ SessionOK(sess') /\ SameBut(sess, sess', {"st", "turns"})
        /\ sess'.turns = sess.turns
        /\ sess'.st \in {sess.st, [sess.st EXCEPT ![t] = to]}
    <3>1. to \in TurnStates \ {"none"}
      BY DEF Live, TurnStates
    <3> QED
      BY <1>1, <1>2, <2>1, <3>1, ApplyOK
  <2>3. disk' \in {disk, Durable(sess')}
    BY <2>1 DEF SavedUnlessRefused
  <2>4. sess'.next = sess.next /\ sess'.ref = sess.ref
    BY <2>2 DEF SameBut
  <2>5. \A o \in Orders : sess'.st[o] = "none" <=> sess.st[o] = "none"
    BY <1>2, <2>2 DEF Live
  <2>6. Named(sess')
    <3>1. \A i \in DOMAIN sess.turns : sess.turns[i].t \in 0 .. MaxOrder
      BY <1>2, TurnsType DEF SessionOK, Turn
    <3> QED
      BY <2>2, <2>4, <2>5, <3>1 DEF Named, Unused, Orders
  <2>7. Named(disk')
    BY <2>2, <2>3, <2>6, NamedSaved
  <2>8. \A j \in DOMAIN runq : runq[j].turn \in Orders
    BY QueuedTurns
  <2> QED
    BY <1>1, <1>2, <2>4, <2>5, <2>6, <2>7, <2>8 DEF Cancelling
<1> QED
  BY <1>3, <1>4, <1>5


\* What the rest of a cancel makes of the session.
LEMMA CommitAs ==
  ASSUME Inv, Named(sess), Named(disk), CancelCommit
  PROVE  /\ dpc = "commit" /\ dturn \in Orders /\ sess.st[dturn] # "none"
         /\ Named(sess') /\ Named(disk')
         /\ sess'.turns = sess.turns /\ sess'.next = sess.next
         /\ sess.ref = dturn =>
              /\ sess'.st = [sess.st EXCEPT ![dturn] = "cancelled"]
              /\ sess'.ref = 0 /\ sess'.head = Len(sess.turns)
         /\ sess.ref # dturn =>
              /\ sess'.st = sess.st /\ sess'.ref = sess.ref
              /\ sess'.pend = sess.pend
              /\ sess'.head = IF dname = 0 THEN sess.head ELSE Len(sess.turns)
<1> USE DEF Inv
<1> DEFINE hit == sess.ref = dturn
           s == IF hit THEN CancelledSession(sess, dturn) ELSE sess
<1>1. /\ dpc = "commit" /\ dturn \in Orders /\ sess.turns # <<>>
      /\ SessionOK(sess) /\ RefLive(sess)
  BY DEF CancelCommit, LoopsOK, BusyOK, SessOK
<1>2. sess.st[dturn] # "none"
  BY <1>1, RefTurn DEF CancelOK, Live, Terminal, Orders
<1>3. /\ SessionOK(s) /\ Named(s) /\ s.turns = sess.turns /\ s.next = sess.next
      /\ hit => /\ s.st = [sess.st EXCEPT ![dturn] = "cancelled"]
                /\ s.ref = 0 /\ s.head = Len(sess.turns)
      /\ ~hit => s = sess
  <2>1. CASE ~hit
    BY <1>1, <2>1
  <2>2. CASE hit
    <3>1. sess.st[dturn] \in Live /\ 0 # dturn /\ 0 \in {0, dturn}
      BY <1>1, <2>2, RefTurn DEF Orders
    <3> DEFINE c == Moved(sess, 0, dturn, "cancelled")
    <3>2. "cancelled" \in TurnStates \ {"none"}
      BY DEF TurnStates, Terminal
    <3>3. MovedWell(sess, c, 0, dturn, "cancelled") /\ Named(c)
      BY <1>1, <3>1, <3>2, MovedOK, NamedMoved
    <3>4. s = Last(c)
      BY <2>2 DEF CancelledSession, Moved
    <3> HIDE DEF c, s
    <3>5. /\ SessionOK(s) /\ SameBut(c, s, {"head"}) /\ Named(s)
          /\ s.head = Len(c.turns)
      BY <3>3, <3>4, LastOK, NamedSaved DEF MovedWell, SessionOK
    <3> QED
      BY <2>2, <3>3, <3>5 DEF SameBut, MovedWell
  <2> QED
    BY <2>1, <2>2
<1>4. CASE dname = 0
  <2>1. sess' = s /\ disk' \in {disk, Durable(s)}
    BY <1>4 DEF CancelCommit
  <2> HIDE DEF s
  <2>2. Named(disk')
    BY <1>3, <2>1, NamedSaved
  <2> QED
    BY <1>1, <1>2, <1>3, <1>4, <2>1, <2>2
<1>5. CASE dname # 0
  <2>1. sess' = Last(s) /\ disk' = Durable(sess')
    BY <1>5 DEF CancelCommit
  <2> HIDE DEF s
  <2>2. /\ SessionOK(sess') /\ SameBut(s, sess', {"head"}) /\ Named(sess')
        /\ sess'.head = Len(s.turns)
    BY <1>3, <2>1, LastOK, NamedSaved DEF SessionOK
  <2>3. Named(disk')
    BY <2>1, <2>2, NamedSaved
  <2> QED
    BY <1>1, <1>2, <1>3, <1>5, <2>2, <2>3 DEF SameBut
<1> QED
  BY <1>4, <1>5

\* What a resume without an engine makes of it.
LEMMA ResumeAs ==
  ASSUME Inv, Named(sess), Named(disk), Resume, engine.turn = 0
  PROVE  /\ Named(sess') /\ Named(disk') /\ UNCHANGED engine
         /\ \E t \in Orders :
              /\ sess.ref \in {0, t} /\ sess.st[t] \in Live
              /\ sess'.turns = sess.turns /\ sess'.next = sess.next
              /\ sess'.st = [sess.st EXCEPT ![t] = "running"]
              /\ sess'.ref = t /\ sess'.pend = sess.pend
              /\ sess'.head = Len(sess.turns)
              /\ starts' = Append(starts, [turn |-> t, msg |-> NoMsg])
              /\ excused' = IF sess.st[t] = "running"
                            THEN excused \cup Unanswered ELSE excused
<1> USE DEF Inv
<1> DEFINE t == IF sess.ref # 0 THEN sess.ref ELSE LastIn(sess, {"paused"})
           s == Moved(sess, t, t, "running")
<1>1. /\ t # 0 /\ sess' = Last(s) /\ disk' = Durable(s)
      /\ starts' = Append(starts, [turn |-> t, msg |-> NoMsg])
      /\ excused' = IF sess.st[t] = "running"
                    THEN excused \cup Unanswered ELSE excused
      /\ UNCHANGED engine
  BY DEF Resume, Moved
<1>2. t \in Orders /\ sess.st[t] \in Live /\ sess.ref \in {0, t} /\ SessionOK(sess)
  <2>1. CASE sess.ref # 0
    BY <2>1, RefTurn DEF SessOK
  <2>2. CASE sess.ref = 0
    <3>1. {"paused"} \in SUBSET TurnStates /\ "paused" \in Live
      BY DEF TurnStates, Live
    <3>2. LastIn(sess, {"paused"}) # 0
      BY <1>1, <2>2
    <3>3. LastIn(sess, {"paused"}) \in Orders
          /\ sess.st[LastIn(sess, {"paused"})] \in {"paused"}
      BY <3>1, <3>2, LastInOK DEF SessOK, SessionOK
    <3> QED
      BY <2>2, <3>1, <3>3 DEF SessOK
  <2> QED
    BY <2>1, <2>2
<1> HIDE DEF t
<1>3. t \in {0, t} /\ "running" \in TurnStates \ {"none"} /\ "running" \in Live
  BY DEF TurnStates, Live
<1>4. MovedWell(sess, s, t, t, "running") /\ Named(s) /\ s.pend = sess.pend
  BY <1>2, <1>3, MovedOK, NamedMoved, MovedPend
<1> HIDE DEF s
<1>5. /\ SessionOK(sess') /\ SameBut(s, sess', {"head"}) /\ Named(sess')
      /\ sess'.head = Len(s.turns) /\ Named(disk')
  BY <1>1, <1>4, LastOK, NamedSaved DEF MovedWell, SessionOK
<1>6. /\ sess'.turns = sess.turns /\ sess'.next = sess.next
      /\ sess'.st = [sess.st EXCEPT ![t] = "running"]
      /\ sess'.ref = t /\ sess'.pend = sess.pend
      /\ sess'.head = Len(sess.turns)
  BY <1>4, <1>5 DEF SameBut, MovedWell
<1> QED
  BY <1>1, <1>2, <1>5, <1>6

LEMMA RequestNames ==
  ASSUME Inv, NamesOK, CancelCommit \/ Resume
  PROVE  NamesOK'
<1> USE DEF Inv, NamesOK
<1>1. /\ sess.next \in Nat /\ runq \in Seq(RunMsg) /\ starts \in Seq(StartMsg)
      /\ \A j \in DOMAIN runq : runq[j].turn \in Orders
      /\ sess.st \in [Orders -> TurnStates]
  BY QueuedTurns DEF QueuesOK, SessOK, SessionOK, DraftOK, Drafts
<1>2. CASE CancelCommit
  <2>1. /\ dpc = "commit" /\ dturn \in Orders /\ sess.st[dturn] # "none"
        /\ Named(sess') /\ Named(disk') /\ sess'.next = sess.next
        /\ sess'.st \in {sess.st, [sess.st EXCEPT ![dturn] = "cancelled"]}
    BY <1>2, CommitAs
  <2>2. \A o \in Orders : sess.st[o] # "none" => sess'.st[o] # "none"
    BY <1>1, <2>1
  <2>3. /\ UNCHANGED <<runq, engine, xpc, xrun>> /\ dpc' = "idle"
        /\ starts' \in {starts, Append(starts, [turn |-> dname, msg |-> dmsg])}
        /\ dname = 0 => starts' = starts
    BY <1>2 DEF CancelCommit, DefaultIdle, exec
  <2>4. \A j \in DOMAIN starts' : starts'[j].turn <= sess'.next
    <3> DEFINE e == [turn |-> dname, msg |-> dmsg]
    <3>1. CASE starts' = starts
      BY <2>1, <3>1
    <3>2. CASE dname # 0 /\ starts' = Append(starts, e)
      <4>1. e \in StartMsg /\ e.turn = dname /\ dname <= sess.next
        BY <2>1, <3>2 DEF StartMsg, LoopsOK, Orders, Cancelling
      <4> HIDE DEF e
      <4>2. \A j \in DOMAIN starts' : starts'[j] = e \/
              (j \in DOMAIN starts /\ starts'[j] = starts[j])
        BY <1>1, <3>2, <4>1, AppendAll
      <4> QED
        BY <2>1, <4>1, <4>2
    <3> QED
      BY <2>3, <3>1, <3>2
  <2> QED
    BY <1>1, <2>1, <2>2, <2>3, <2>4 DEF Cancelling, LoopsOK
<1>3. CASE Resume
  <2>1. UNCHANGED <<runq, xpc, xrun, dpc, judged, dturn, dname>> /\ dpc = "idle"
    BY <1>3 DEF Resume, exec, default
  <2>2. CASE engine.turn # 0
    <3>1. /\ UNCHANGED <<sess, disk, starts>>
          /\ engine' = [engine EXCEPT !.token = TRUE]
      BY <1>3, <2>2 DEF Resume
    <3>2. engine'.turn = engine.turn /\ engine'.accepting = engine.accepting
      BY <3>1 DEF QueuesOK, EngineType
    <3> QED
      BY <2>1, <3>1, <3>2 DEF Cancelling
  <2>3. CASE engine.turn = 0
    <3>1. /\ Named(sess') /\ Named(disk') /\ UNCHANGED engine
          /\ \E t \in Orders :
               /\ sess.st[t] \in Live /\ sess'.next = sess.next
               /\ sess'.st = [sess.st EXCEPT ![t] = "running"]
               /\ starts' = Append(starts, [turn |-> t, msg |-> NoMsg])
      BY <1>3, <2>3, ResumeAs
    <3>2. PICK t \in Orders :
               /\ sess.st[t] \in Live /\ sess'.next = sess.next
               /\ sess'.st = [sess.st EXCEPT ![t] = "running"]
               /\ starts' = Append(starts, [turn |-> t, msg |-> NoMsg])
      BY <3>1
    <3> DEFINE e == [turn |-> t, msg |-> NoMsg]
    <3>3. \A o \in Orders : sess.st[o] # "none" => sess'.st[o] # "none"
      BY <1>1, <3>2
    <3>4. e \in StartMsg /\ e.turn = t /\ starts' = Append(starts, e)
      BY <3>2 DEF StartMsg
    <3>5. t < sess.next
      BY <3>2, NamedLive DEF SessOK, Live
    <3> HIDE DEF e
    <3>6. \A j \in DOMAIN starts' : starts'[j] = e \/
            (j \in DOMAIN starts /\ starts'[j] = starts[j])
      BY <1>1, <3>4, AppendAll
    <3>7. \A j \in DOMAIN starts' : starts'[j].turn <= sess'.next
      BY <1>1, <3>2, <3>4, <3>5, <3>6 DEF Orders
    <3> QED
      BY <1>1, <2>1, <3>1, <3>2, <3>3, <3>7 DEF Cancelling, LoopsOK
  <2> QED
    BY <2>2, <2>3
<1> QED
  BY <1>2, <1>3

LEMMA NamesStep == Inv /\ NamesOK /\ [Next]_vars => NamesOK'
<1> SUFFICES ASSUME Inv, NamesOK, [Next]_vars PROVE NamesOK'
  OBVIOUS
<1>1. CASE DefaultStep
  BY <1>1, SubmitNames, StartInternalNames, RequestNames, QuietNames
  DEF DefaultStep
<1>2. CASE ExecStep
  <2>1. CASE \/ RunTake \/ RunStore \/ StopAccepting \/ Remind \/ Finish \/ Fail
             \/ Abort \/ Exited \/ ClearEngine
    BY <2>1, QuietNames
  <2>2. CASE Ingest \/ Checkpoint \/ PauseHere \/ Wake
    BY <2>2, RunNames
  <2>3. CASE Complete \/ AutoStart
    BY <2>3, CompleteNames
  <2> QED
    BY <1>2, <2>1, <2>2, <2>3 DEF ExecStep
<1>3. CASE (\E m \in Msgs : SubmitRead(m)) \/ Stop \/ Pause
  BY <1>3, QuietNames
<1>4. CASE Resume
  BY <1>4, RequestNames
<1>5. ASSUME NEW saved \in {disk, Durable(sess)}, Restart(saved)
      PROVE  NamesOK'
  BY <1>5, RestartNames
<1>6. CASE UNCHANGED vars
  BY <1>6, QuietNames
<1> QED
  BY <1>1, <1>2, <1>3, <1>4, <1>5, <1>6 DEF Next


-----------------------------------------------------------------------------
(* The invariant of the messages. A message somebody waits for (Owed) is   *)
(* held by its submit, pending on the active turn, or in a user turn that  *)
(* is covered. Covered is a user turn after ActiveHead as long as some     *)
(* turn will end or start and look for it there; one up to ActiveHead if a *)
(* turn will start whose context has it, or if nothing but user turns      *)
(* comes after it, so that the completion of the next turn finds it; and   *)
(* any, while a cancel has still to start the turn that moves ActiveHead.  *)
Owed == sent \ (seen \cup excused)

Held(m) == dpc = "submit" /\ dmsg = m

Handing == Cancelling /\ dname # 0
CancelsRef == Cancelling /\ dturn = sess.ref

StartOf(t) == \E j \in DOMAIN starts : starts[j].turn = t

\* A run that no engine has been made for yet.
IsRun(r) == (\E j \in DOMAIN runq : runq[j] = r) \/ (xpc = "store" /\ xrun = r)
HasRun(t) == \E r \in RunMsg : IsRun(r) /\ r.turn = t

\* The turn's engine runs, or its completion is still to come.
Engaged(t) ==
  xpc \in {"run", "paused", "final", "exited", "complete"} /\ xrun.turn = t

\* maybeAutoStartTurn will be called.
Looks ==
  \/ xpc \in {"run", "paused", "final", "exited"} /\ ~engine.cancelled
  \/ xpc \in {"complete", "clear", "auto"}

Going == sess.ref # 0 \/ Looks
Viable == \E t \in Orders : StartOf(t) /\ sess.st[t] \notin Terminal

\* The turn may run, or does, without the message in its context.
Stale(t, m) ==
  (\E r \in RunMsg : IsRun(r) /\ r.turn = t /\ m \notin r.ctx) \/ Engaged(t)

\* The turn will run, and only with the message in its context.
Good(t, m) ==
  /\ sess.st[t] \notin Terminal
  /\ ~Stale(t, m)
  /\ StartOf(t) \/ (sess.ref = t /\ HasRun(t))

UserTail == \A j \in DOMAIN sess.turns : j >= sess.head => IsUser(sess, j)

\* The active turn's engine is not cancelled and its start not preempted by a
\* pause, unless the cancel that ends it is under way.
Tame ==
  /\ sess.ref # 0
  /\ Engaged(sess.ref) /\ engine.cancelled => CancelsRef
  /\ sess.st[sess.ref] = "paused" /\ HasRun(sess.ref)
       => (xpc = "paused" /\ xrun.turn = sess.ref) \/ CancelsRef

Covered(m, i) ==
  \/ Handing
  \/ /\ i > sess.head
     /\ Going \/ Viable
     /\ (\E j \in DOMAIN sess.turns : j > i /\ ~IsUser(sess, j)) => Tame
  \/ /\ i <= sess.head
     /\ (Going /\ UserTail) \/ \E t \in Orders : Good(t, m)

Tended(m) ==
  \/ Held(m)
  \/ OnRef(sess, m)
  \/ \E i \in DOMAIN sess.turns : InUser(sess, m, i) /\ Covered(m, i)

KeptOK == \A m \in Owed : Tended(m)

LEMMA KeptInit == Init => KeptOK
BY DEF Init, KeptOK, Owed

\* At rest nothing is covered.
LEMMA KeptSuffices == Inv /\ NamesOK /\ KeptOK => MessageKept
<1> SUFFICES ASSUME Inv, NamesOK, KeptOK, Quiet, NEW m \in Owed
             PROVE  FALSE
  BY DEF MessageKept, Owed, KeptOK
<1>1. /\ starts = <<>> /\ xpc = "idle" /\ dpc = "idle" /\ sess.ref = 0
      /\ DOMAIN starts = {}
  BY DEF Quiet
<1>2. ~Held(m) /\ ~OnRef(sess, m) /\ ~Handing /\ ~Going /\ ~Viable
      /\ \A t \in Orders : ~Good(t, m)
  BY <1>1 DEF Held, OnRef, Handing, Cancelling, Going, Looks, Viable, StartOf,
              Good, Orders
<1> QED
  BY <1>2 DEF KeptOK, Tended, Covered

\* What a step that is none of this message's business leaves alone.
Steady(m) ==
  /\ Held(m) => Held(m)'
  /\ OnRef(sess, m) => OnRef(sess', m)
  /\ sess'.head = sess.head
  /\ \A i \in DOMAIN sess.turns : InUser(sess, m, i) => InUser(sess', m, i)
  /\ \A j \in DOMAIN sess'.turns :
       ~IsUser(sess', j) => j \in DOMAIN sess.turns /\ ~IsUser(sess, j)
  /\ Handing => Handing'
  /\ Going => Going'
  /\ Viable => Viable'
  /\ Tame => Tame'
  /\ \A t \in Orders : Good(t, m) => Good(t, m)'

LEMMA SteadyKept ==
  ASSUME NEW m, Tended(m), Steady(m)
  PROVE  Tended(m)'
<1>1. CASE Held(m)
  BY <1>1 DEF Steady, Tended
<1>2. CASE OnRef(sess, m)
  BY <1>2 DEF Steady, Tended
<1>3. ASSUME NEW i \in DOMAIN sess.turns, InUser(sess, m, i), Covered(m, i)
      PROVE  Tended(m)'
  <2>1. InUser(sess', m, i) /\ i \in DOMAIN sess'.turns
    BY <1>3 DEF Steady, InUser, InTurn
  <2>2. UserTail => UserTail'
    BY DEF Steady, UserTail
  <2>3. Covered(m, i)'
    <3>1. CASE Handing
      BY <3>1 DEF Covered, Steady
    <3>2. CASE /\ i > sess.head
               /\ Going \/ Viable
               /\ (\E j \in DOMAIN sess.turns : j > i /\ ~IsUser(sess, j)) => Tame
      <4>1. i > sess'.head /\ (Going' \/ Viable')
        BY <3>2 DEF Steady
      <4>2. (\E j \in DOMAIN sess'.turns : j > i /\ ~IsUser(sess', j)) => Tame'
        BY <3>2 DEF Steady
      <4> QED
        BY <4>1, <4>2 DEF Covered
    <3>3. CASE /\ i <= sess.head
               /\ (Going /\ UserTail) \/ \E t \in Orders : Good(t, m)
      BY <2>2, <3>3 DEF Covered, Steady
    <3> QED
      BY <1>3, <3>1, <3>2, <3>3 DEF Covered
  <2> QED
    BY <2>1, <2>3 DEF Tended
<1> QED
  BY <1>1, <1>2, <1>3 DEF Tended


LEMMA SteadyUnmoved ==
  ASSUME NEW m, UNCHANGED <<sess, starts>>,
         Held(m) => Held(m)',
         Handing => Handing',
         Looks => sess.ref # 0 \/ Looks',
         Tame => Tame',
         \A r : IsRun(r)' => IsRun(r),
         \A t \in Orders : Engaged(t)' => Engaged(t),
         \A t \in Orders : t = sess.ref /\ HasRun(t) => HasRun(t)'
  PROVE  Steady(m)
<1>1. /\ \A t : StartOf(t) <=> StartOf(t)'
      /\ Viable => Viable'
  BY DEF StartOf, Viable
<1>2. Going => Going'
  BY DEF Going
<1>3. \A t \in Orders : Stale(t, m)' => Stale(t, m)
  BY DEF Stale
<1>4. \A t \in Orders : Good(t, m) => Good(t, m)'
  BY <1>1, <1>3 DEF Good
<1> QED
  BY <1>1, <1>2, <1>4 DEF Steady

\* The exec loop goes on in its engine, or leaves it, or takes a run.
LEMMA ExecSteady ==
  ASSUME Inv, NamesOK,
         \/ RunTake \/ StopAccepting \/ Remind \/ Finish \/ Fail \/ Abort
         \/ Exited \/ ClearEngine \/ Checkpoint
         \/ Complete /\ sess.ref # xrun.turn,
         NEW m
  PROVE  Steady(m)
<1> USE DEF Inv
<1>1. /\ UNCHANGED <<sess, starts, dmsg, dturn, dname>>
      /\ (dpc' = "submit" <=> dpc = "submit") /\ (Cancelling' <=> Cancelling)
  BY DEF RunTake, StopAccepting, Remind, Finish, Fail, Abort, Exit, Exited,
         ClearEngine, Checkpoint, Complete, default, history, Cancelling
<1>2. (Held(m) => Held(m)') /\ (Handing => Handing') /\ (CancelsRef <=> CancelsRef')
  BY <1>1 DEF Held, Handing, CancelsRef
<1>3. CASE RunTake
  <2>1. /\ xpc = "idle" /\ runq # <<>> /\ runq' = Tail(runq) /\ runq \in Seq(RunMsg)
        /\ IF sess.ref = Head(runq).turn
           THEN xpc' = "store" /\ xrun' = Head(runq)
           ELSE UNCHANGED <<xpc, xrun>>
    BY <1>3 DEF RunTake, QueuesOK
  <2>2. /\ Head(runq) = runq[1] /\ 1 \in DOMAIN runq
        /\ \A j \in DOMAIN Tail(runq) : j + 1 \in DOMAIN runq
                                        /\ Tail(runq)[j] = runq[j + 1]
        /\ \A j \in DOMAIN runq : j = 1 \/ (j - 1 \in DOMAIN Tail(runq)
                                            /\ Tail(runq)[j - 1] = runq[j])
    BY <2>1, TailAll
  <2>3. \A r : IsRun(r)' => IsRun(r)
    BY <2>1, <2>2 DEF IsRun
  <2>4. \A t : ~Engaged(t)' /\ ~Engaged(t) /\ ~Looks
    BY <2>1 DEF Engaged, Looks
  <2>5. \A t \in Orders : t = sess.ref /\ HasRun(t) => HasRun(t)'
    <3> SUFFICES ASSUME NEW t \in Orders, t = sess.ref,
                        NEW r \in RunMsg, IsRun(r), r.turn = t
                 PROVE  IsRun(r)'
      BY DEF HasRun
    <3>1. PICK j \in DOMAIN runq : runq[j] = r
      BY <2>1 DEF IsRun
    <3>2. CASE j = 1
      BY <2>1, <2>2, <3>1, <3>2 DEF IsRun
    <3>3. CASE j # 1
      BY <2>1, <2>2, <3>1, <3>3 DEF IsRun
    <3> QED
      BY <3>2, <3>3
  <2>6. Tame => Tame'
    <3>1. HasRun(sess.ref)' => HasRun(sess.ref)
      BY <1>1, <2>3 DEF HasRun
    <3> QED
      BY <1>1, <1>2, <2>1, <2>4, <3>1 DEF Tame
  <2> QED
    BY <1>1, <1>2, <2>3, <2>4, <2>5, <2>6, SteadyUnmoved
<1>4. CASE \/ StopAccepting \/ Remind \/ Finish \/ Fail \/ Abort
           \/ Exited \/ ClearEngine \/ Checkpoint
           \/ Complete /\ sess.ref # xrun.turn
  <2>1. /\ xpc # "store" /\ xpc' # "store" /\ UNCHANGED runq
        /\ xpc' # "idle" => xrun' = xrun
        /\ \/ xpc' = "idle" /\ xpc = "exited" /\ engine.cancelled
           \/ xpc' = "auto" /\ xpc = "clear"
           \/ xpc' \in {"clear", "complete"}
           \/ /\ xpc' \in {"run", "final", "exited"}
              /\ xpc \in {"run", "paused", "final", "exited"}
              /\ engine'.cancelled = engine.cancelled
        /\ xpc' \in {"run", "paused", "final", "exited", "complete"} =>
             /\ xpc \in {"run", "paused", "final", "exited", "complete"}
             /\ engine'.cancelled = engine.cancelled
        /\ xpc = "paused" => engine.cancelled
        /\ xpc' # "paused"
    BY <1>4 DEF StopAccepting, Remind, Finish, Fail, Abort, Exit, Exited,
         ClearEngine, Checkpoint, Complete, ExecIdle, exec, QueuesOK, EngineType
  <2>2. \A r : IsRun(r)' <=> IsRun(r)
    BY <2>1 DEF IsRun
  <2>3. \A t : HasRun(t)' <=> HasRun(t)
    BY <2>2 DEF HasRun
  <2>4. \A t : Engaged(t)' => Engaged(t)
    BY <2>1 DEF Engaged
  <2>5. Looks => sess.ref # 0 \/ Looks'
    BY <2>1 DEF Looks
  <2>6. Tame => Tame'
    <3> SUFFICES ASSUME Tame PROVE Tame'
      OBVIOUS
    <3>1. HasRun(sess.ref)' => HasRun(sess.ref)
      BY <1>1, <2>3
    <3>2. Engaged(sess.ref)' /\ engine'.cancelled => CancelsRef'
      BY <1>1, <1>2, <2>1, <2>4 DEF Tame, Engaged
    <3>3. xpc = "paused" /\ xrun.turn = sess.ref => CancelsRef
      BY <2>1 DEF Tame, Engaged
    <3> QED
      BY <1>1, <1>2, <3>1, <3>2, <3>3 DEF Tame
  <2> QED
    BY <1>1, <1>2, <2>2, <2>3, <2>4, <2>5, <2>6, SteadyUnmoved
<1> QED
  BY <1>3, <1>4


\* Steps of the default loop that leave the session alone.
LEMMA RequestSteady ==
  ASSUME Inv, NamesOK,
         \/ \E m \in Msgs : SubmitRead(m)
         \/ Stop \/ CancelTimesOut \/ Pause
         \/ Resume /\ engine.turn # 0
         \/ UNCHANGED vars,
         NEW m
  PROVE  Steady(m)
<1> USE DEF Inv
<1>1. /\ UNCHANGED <<sess, starts, runq, xpc, xrun>>
  BY DEF SubmitRead, Stop, CancelTimesOut, Pause, Resume, exec, vars
<1>2. /\ \A r : IsRun(r)' <=> IsRun(r)
      /\ \A t : Engaged(t)' <=> Engaged(t)
  BY <1>1 DEF IsRun, Engaged
<1>3. \A t : HasRun(t)' <=> HasRun(t)
  BY <1>2 DEF HasRun
<1>4. /\ Held(m) => Held(m)'
      /\ Handing => Handing'
      /\ CancelsRef => CancelsRef'
      /\ \/ sess.ref # 0 /\ CancelsRef'
         \/ engine'.cancelled = engine.cancelled
  <2>1. CASE (\E n \in Msgs : SubmitRead(n)) \/ Pause \/ (Resume /\ engine.turn # 0)
    BY <2>1 DEF SubmitRead, Pause, Resume, Held, Handing, CancelsRef, Cancelling,
                default, QueuesOK, EngineType
  <2>2. CASE Stop
    BY <2>2 DEF Stop, RequestCancel, Held, Handing, CancelsRef, Cancelling
  <2>3. CASE CancelTimesOut
    BY <2>3 DEF CancelTimesOut, Held, Handing, CancelsRef, Cancelling
  <2>4. CASE UNCHANGED vars
    BY <2>4 DEF vars, default, Held, Handing, CancelsRef, Cancelling
  <2> QED
    BY <2>1, <2>2, <2>3, <2>4
<1>5. Looks => sess.ref # 0 \/ Looks'
  BY <1>1, <1>4 DEF Looks
<1>6. Tame => Tame'
  <2> SUFFICES ASSUME Tame PROVE Tame'
    OBVIOUS
  <2>1. (HasRun(sess.ref)' => HasRun(sess.ref))
        /\ (Engaged(sess.ref)' => Engaged(sess.ref))
    BY <1>1, <1>2, <1>3
  <2> QED
    BY <1>1, <1>4, <2>1 DEF Tame
<1> QED
  BY <1>1, <1>2, <1>3, <1>4, <1>5, <1>6, SteadyUnmoved

\* Steps of the exec loop in its engine that write the session.
LEMMA RunSteady ==
  ASSUME Inv, NamesOK, Ingest \/ PauseHere \/ Wake, NEW m \in Owed'
  PROVE  Steady(m)
<1> USE DEF Inv
<1>1. /\ UNCHANGED <<starts, runq, xrun, dpc, dmsg, dturn, dname>>
      /\ engine'.cancelled = engine.cancelled
      /\ xpc \in {"run", "paused"} /\ xpc' \in {"run", "paused"}
      /\ xrun.turn \in Orders /\ sess.turns # <<>>
      /\ SessionOK(sess) /\ DraftOK(sess) /\ sess.st \in [Orders -> TurnStates]
      /\ RefLive(sess) /\ Named(sess)
  BY DEF Ingest, PauseHere, Wake, exec, default, LoopsOK, QueuesOK, EngineType,
         BusyOK, SessOK, SessionOK, DraftOK, Drafts, NamesOK
<1>2. /\ \A r : IsRun(r)' <=> IsRun(r)
      /\ \A t : Engaged(t)' <=> Engaged(t)
      /\ \A t : StartOf(t) <=> StartOf(t)'
  BY <1>1 DEF IsRun, Engaged, StartOf
<1>3. (\A t : HasRun(t)' <=> HasRun(t)) /\ \A t : Stale(t, m)' <=> Stale(t, m)
  BY <1>2 DEF HasRun, Stale
<1>4. (Held(m) => Held(m)') /\ (Handing => Handing')
  BY <1>1 DEF Held, Handing, Cancelling
<1>5. CASE Ingest
  <2> DEFINE k == Target(sess)
             ms == PendingOn(sess, k)
             d == DropPending(sess, k)
  <2>1. /\ sess' = Consume(sess) /\ seen' = seen \cup ms /\ xpc' = xpc
        /\ k \in DOMAIN sess.turns
    BY <1>1, <1>5, TargetOK DEF Ingest, exec
  <2>2. ~OnRef(sess, m)
    <3>1. m \notin ms
      BY <2>1 DEF Owed
    <3>2. OnRef(sess, m) => sess.ref # 0 /\ m \in PendingOn(sess, Place(sess, sess.ref))
      BY <1>1, OnRefIs
    <3>3. sess.ref # 0 => k = Place(sess, sess.ref)
      BY DEF Target
    <3> QED
      BY <3>1, <3>2, <3>3
  <2>3. /\ SessionOK(sess') /\ SameBut(sess, sess', {"turns", "pend"})
        /\ SameBut(sess, d, {"pend"}) /\ SessionOK(d)
    BY <1>1, <2>1, ConsumeOK, DropPendingOK
  <2>4. sess'.turns = [sess.turns EXCEPT ![k].ms = @ \cup ms]
    <3>1. d.turns = sess.turns
      BY <2>3 DEF SameBut
    <3>2. sess' = [d EXCEPT !.turns[k].ms = @ \cup ms]
      BY <2>1 DEF Consume
    <3> HIDE DEF d, k, ms
    <3> QED
      BY <2>3, <3>1, <3>2 DEF SessionOK, DraftOK, Drafts
  <2> HIDE DEF d, k, ms
  <2>5. /\ DOMAIN sess'.turns = DOMAIN sess.turns
        /\ \A i \in DOMAIN sess.turns : sess'.turns[i].t = sess.turns[i].t
                                        /\ sess.turns[i].ms \subseteq sess'.turns[i].ms
    <3>1. \A i \in DOMAIN sess.turns : sess.turns[i] \in Turn
      BY <1>1, TurnsType
    <3> QED
      BY <2>1, <2>4, <3>1 DEF Turn
  <2>6. /\ sess'.st = sess.st /\ sess'.next = sess.next /\ sess'.ref = sess.ref
        /\ sess'.head = sess.head
    BY <2>3 DEF SameBut
  <2>7. (Going => Going') /\ (Viable => Viable')
    BY <1>1, <1>2, <2>1, <2>6 DEF Going, Looks, Viable
  <2>8. Tame => Tame'
    <3>1. (HasRun(sess.ref)' <=> HasRun(sess.ref))
          /\ (Engaged(sess.ref)' <=> Engaged(sess.ref))
          /\ (CancelsRef <=> CancelsRef')
      BY <1>1, <1>2, <1>3, <2>6 DEF CancelsRef, Cancelling
    <3> QED
      BY <1>1, <2>1, <2>6, <3>1 DEF Tame
  <2>9. \A t \in Orders : Good(t, m) => Good(t, m)'
    BY <1>2, <1>3, <2>6 DEF Good
  <2> QED
    BY <1>4, <2>2, <2>5, <2>6, <2>7, <2>8, <2>9 DEF Steady, InUser, InTurn, IsUser
<1>6. CASE PauseHere \/ Wake
  <2> DEFINE t == xrun.turn
  <2>1. PICK to \in Live : /\ sess' = Apply(sess, t, to)
                           /\ PauseHere => to = "paused" /\ xpc = "run" /\ xpc' = "paused"
                           /\ Wake => to = "running" /\ xpc = "paused" /\ xpc' = "run"
    BY <1>6 DEF PauseHere, Wake, Live
  <2>2. /\ SameBut(sess, sess', {"st", "turns"})
        /\ sess'.turns = sess.turns
        /\ sess'.st = IF CanTransition(sess.st[t], to)
                      THEN [sess.st EXCEPT ![t] = to] ELSE sess.st
    <3>1. to \in TurnStates \ {"none"} /\ sess.st[t] # "none"
      BY <1>1 DEF Live, TurnStates, NamesOK
    <3> QED
      BY <1>1, <2>1, <3>1, ApplyOK
  <2>3. /\ sess'.ref = sess.ref /\ sess'.head = sess.head /\ sess'.pend = sess.pend
    BY <2>2 DEF SameBut
  <2> HIDE DEF t
  <2>4. /\ \A o \in Orders : sess.st[o] \notin Terminal => sess'.st[o] \notin Terminal
        /\ \A o \in Orders \ {t} : sess'.st[o] = sess.st[o]
    BY <1>1, <2>2 DEF Live, Terminal
  <2>5. sess.ref = t => sess'.st[t] = to
    <3> SUFFICES ASSUME sess.ref = t PROVE sess'.st[t] = to
      OBVIOUS
    <3>1. sess.st[t] \in Live
      BY <1>1 DEF RefLive, t, Orders
    <3>2. CanTransition(sess.st[t], to)
      BY <3>1 DEF CanTransition, Live, Terminal
    <3> QED
      BY <1>1, <2>2, <3>2 DEF t
  <2>6. (Going => Going') /\ (Viable => Viable')
    BY <1>1, <1>2, <2>3, <2>4 DEF Going, Looks, Viable
  <2>7. Tame => Tame'
    <3> SUFFICES ASSUME Tame PROVE Tame'
      OBVIOUS
    <3>1. (HasRun(sess.ref)' <=> HasRun(sess.ref))
          /\ (Engaged(sess.ref)' <=> Engaged(sess.ref))
          /\ (CancelsRef <=> CancelsRef')
      BY <1>1, <1>2, <1>3, <2>3 DEF CancelsRef, Cancelling
    <3>2. CASE sess.ref = t
      BY <1>1, <1>6, <2>1, <2>3, <2>5, <3>1, <3>2 DEF Tame, t
    <3>3. CASE sess.ref # t
      <4>1. sess'.st[sess.ref] = sess.st[sess.ref]
        BY <1>1, <2>4, <3>3 DEF Tame, SessionOK, DraftOK, Drafts, Orders
      <4> QED
        BY <1>1, <2>3, <3>1, <3>3, <4>1 DEF Tame, t
    <3> QED
      BY <3>2, <3>3
  <2>8. \A o \in Orders : Good(o, m) => Good(o, m)'
    BY <1>2, <1>3, <2>3, <2>4 DEF Good
  <2> QED
    BY <1>4, <2>2, <2>3, <2>6, <2>7, <2>8 DEF Steady, InUser, InTurn, IsUser, OnRef, InPend
<1> QED
  BY <1>5, <1>6

\* An engine is made: what its context has is seen, and what it does not have
\* was not counting on this turn.
LEMMA RunStoreSteady ==
  ASSUME Inv, NamesOK, RunStore, NEW m \in Owed'
  PROVE  Steady(m)
<1> USE DEF Inv
<1>1. /\ xpc = "store" /\ xpc' = "run" /\ engine' = Engine(xrun.turn)
      /\ UNCHANGED <<sess, starts, runq, xrun, dpc, dmsg, dturn, dname>>
      /\ m \notin xrun.ctx /\ xrun \in RunMsg
  BY DEF RunStore, default, Owed, LoopsOK, RunMsg
<1>2. /\ Held(m) => Held(m)'
      /\ Handing => Handing'
      /\ CancelsRef <=> CancelsRef'
      /\ ~engine'.cancelled
      /\ \A r : IsRun(r)' => IsRun(r)
      /\ \A r : IsRun(r) => IsRun(r)' \/ r = xrun
      /\ \A t : Engaged(t)' <=> t = xrun.turn
      /\ \A t : StartOf(t) <=> StartOf(t)'
  BY <1>1 DEF Held, Handing, CancelsRef, Cancelling, Engine, IsRun, Engaged, StartOf
<1>3. (Going => Going') /\ (Viable => Viable')
  BY <1>1, <1>2 DEF Going, Looks, Viable
<1>4. Stale(xrun.turn, m)
  BY <1>1 DEF Stale, IsRun
<1>5. Tame => Tame'
  <2>1. HasRun(sess.ref)' => HasRun(sess.ref)
    BY <1>1, <1>2 DEF HasRun
  <2> QED
    BY <1>1, <1>2, <2>1 DEF Tame
<1>6. \A t \in Orders : Good(t, m) => Good(t, m)'
  <2> SUFFICES ASSUME NEW t \in Orders, Good(t, m) PROVE Good(t, m)'
    OBVIOUS
  <2>1. t # xrun.turn
    BY <1>4 DEF Good
  <2>2. ~Stale(t, m)'
    BY <1>1, <1>2, <2>1 DEF Good, Stale
  <2>3. HasRun(t) => HasRun(t)'
    BY <1>2, <2>1 DEF HasRun
  <2> QED
    BY <1>1, <1>2, <2>2, <2>3 DEF Good
<1> QED
  BY <1>1, <1>2, <1>3, <1>5, <1>6 DEF Steady


\* A message is owed only after it was owed before, but for the one a submit
\* brings.
LEMMA OwedBefore ==
  ASSUME Inv, [Next]_vars, NEW m \in Owed', m \notin Owed
  PROVE  SubmitRead(m)
<1>1. ASSUME UNCHANGED sent, seen \subseteq seen', excused \subseteq excused'
      PROVE  FALSE
  BY <1>1 DEF Owed
<1>2. \A s, saved, name : StartTurn(s, saved, name) => excused \subseteq excused'
  BY DEF StartTurn
<1>3. \A s, saved, i : PickUp(s, saved, i) => excused \subseteq excused'
  BY <1>2 DEF PickUp
<1>4. CASE DefaultStep
  <2>1. UNCHANGED <<sent, seen>>
    BY <1>4 DEF DefaultStep, SubmitQueues, SubmitBehind, SubmitStarts,
                StartInternal, CancelTimesOut, CancelCommit, history
  <2>2. StartInternal => excused \subseteq excused'
    BY <1>2 DEF StartInternal
  <2>3. excused \subseteq excused'
    BY <1>4, <2>2 DEF DefaultStep, SubmitQueues, SubmitBehind, SubmitStarts,
                CancelTimesOut, CancelCommit, history
  <2> QED
    BY <1>1, <2>1, <2>3
<1>5. CASE ExecStep
  <2>1. UNCHANGED sent /\ seen \subseteq seen'
    BY <1>5 DEF ExecStep, RunTake, RunStore, Ingest, Checkpoint, StopAccepting,
                Remind, PauseHere, Wake, Finish, Fail, Abort, Exit, Exited,
                Complete, ClearEngine, AutoStart, history
  <2>2. Complete \/ AutoStart => excused \subseteq excused'
    BY <1>3 DEF Complete, AutoStart
  <2>3. excused \subseteq excused'
    BY <1>5, <2>2 DEF ExecStep, RunTake, RunStore, Ingest, Checkpoint,
                StopAccepting, Remind, PauseHere, Wake, Finish, Fail, Abort,
                Exit, Exited, ClearEngine, history
  <2> QED
    BY <1>1, <2>1, <2>3
<1>6. CASE Stop \/ Pause \/ Resume \/ UNCHANGED vars
  BY <1>1, <1>6 DEF Stop, Pause, Resume, history, vars
<1>7. ASSUME NEW saved \in {disk, Durable(sess)}, Restart(saved)
      PROVE  FALSE
  BY <1>1, <1>7 DEF Restart
<1>8. ASSUME NEW n \in Msgs, SubmitRead(n)
      PROVE  SubmitRead(m)
  BY <1>8 DEF SubmitRead, Owed
<1> QED
  BY <1>4, <1>5, <1>6, <1>7, <1>8 DEF Next

LEMMA SubmitQueuesKept ==
  ASSUME Inv, NamesOK, SubmitQueues, NEW m \in Owed', Tended(m)
  PROVE  Tended(m)'
<1> USE DEF Inv
<1>1. /\ dpc = "submit" /\ dpc' = "idle" /\ dmsg \in Msgs
      /\ sess' = QueuePending(sess, dmsg)
      /\ UNCHANGED <<starts, runq, engine, xpc, xrun>>
      /\ SessionOK(sess) /\ RefLive(sess)
  BY DEF SubmitQueues, exec, LoopsOK, SessOK
<1>2. /\ sess'.turns = sess.turns /\ sess'.st = sess.st /\ sess'.next = sess.next
      /\ sess'.ref = sess.ref /\ sess'.head = sess.head
      /\ sess'.pend = sess.pend \cup {<<Target(sess), dmsg>>}
  <2>1. sess.turns # <<>>
    BY RefTurn DEF SubmitQueues, Queues, Resumable, BusyOK, SessOK
  <2>2. SameBut(sess, sess', {"pend"})
    BY <1>1, <2>1, TargetOK, QueueOK
  <2> QED
    BY <1>1, <2>2 DEF SameBut, QueuePending, SessionOK, DraftOK, Drafts
<1>3. CASE m = dmsg
  <2>1. sess.ref # 0
    <3>1. judged = "accepts" => WillConsume
      BY <1>3 DEF SubmitQueues, Owed
    <3>2. WillConsume => sess.ref # 0
      BY DEF WillConsume, NamesOK
    <3> QED
      BY <3>1, <3>2 DEF SubmitQueues, Queues, Resumable
  <2>2. Target(sess) \in DOMAIN sess.turns /\ sess.turns[Target(sess)].t = sess.ref
    <3>1. sess.ref \in Orders /\ sess.st[sess.ref] # "none"
      BY <1>1, <2>1, RefTurn DEF Live
    <3> QED
      BY <1>1, <2>1, <3>1, PlaceOK DEF SessionOK, Target
  <2>3. OnRef(sess', m)
    BY <1>2, <1>3, <2>1, <2>2 DEF OnRef, InPend
  <2> QED
    BY <2>3 DEF Tended
<1>4. CASE m # dmsg
  <2>1. /\ \A r : IsRun(r)' <=> IsRun(r)
        /\ \A t : Engaged(t)' <=> Engaged(t)
        /\ \A t : StartOf(t) <=> StartOf(t)'
    BY <1>1 DEF IsRun, Engaged, StartOf
  <2>2. (\A t : HasRun(t)' <=> HasRun(t)) /\ \A t : Stale(t, m)' <=> Stale(t, m)
    BY <2>1 DEF HasRun, Stale
  <2>3. ~Held(m) /\ ~Handing /\ ~CancelsRef
    BY <1>1, <1>4 DEF Held, Handing, CancelsRef, Cancelling
  <2>4. (Going => Going') /\ (Viable => Viable')
    BY <1>1, <1>2, <2>1 DEF Going, Looks, Viable
  <2>5. Tame => Tame'
    <3>1. (HasRun(sess.ref)' <=> HasRun(sess.ref))
          /\ (Engaged(sess.ref)' <=> Engaged(sess.ref))
      BY <1>2, <2>1, <2>2
    <3> QED
      BY <1>1, <1>2, <2>3, <3>1 DEF Tame
  <2>6. \A t \in Orders : Good(t, m) => Good(t, m)'
    BY <1>2, <2>1, <2>2 DEF Good
  <2>7. Steady(m)
    BY <1>2, <2>3, <2>4, <2>5, <2>6
    DEF Steady, InUser, InTurn, IsUser, OnRef, InPend
  <2> QED
    BY <2>7, SteadyKept
<1> QED
  BY <1>3, <1>4

LEMMA SubmitBehindKept ==
  ASSUME Inv, NamesOK, SubmitBehind, NEW m \in Owed', Tended(m)
  PROVE  Tended(m)'
<1> USE DEF Inv
<1> DEFINE e == [t |-> 0, ms |-> {dmsg}]
           b == [turn |-> sess'.next, msg |-> dmsg]
           n == Len(sess.turns) + 1
<1>1. /\ dpc = "submit" /\ dpc' = "idle" /\ dmsg \in Msgs
      /\ sess' = CreateUser(sess, {dmsg}) /\ sess'.next <= MaxOrder
      /\ starts' = IF judged = "cancelled" THEN Append(starts, b) ELSE starts
      /\ starts \in Seq(StartMsg)
      /\ UNCHANGED <<runq, engine, xpc, xrun>>
      /\ DraftOK(sess) /\ e \in Turn /\ e.t = 0 /\ e.ms = {dmsg}
      /\ sess.next \in Nat
  BY AgentTurnAssumption DEF SubmitBehind, Bounded, exec, LoopsOK, SessOK,
     SessionOK, DraftOK, Drafts, QueuesOK, Turn
<1>2. /\ sess'.turns = Append(sess.turns, e) /\ sess'.st = sess.st
      /\ sess'.ref = sess.ref /\ sess'.head = sess.head
      /\ sess'.pend = sess.pend /\ sess'.next = sess.next + 1
  BY <1>1 DEF CreateUser, DraftOK, Drafts
<1>3. sess'.next \in Orders /\ b \in StartMsg /\ b.turn = sess'.next
  BY <1>1, <1>2 DEF Orders, StartMsg
<1> HIDE DEF e, b
<1>4. /\ DOMAIN sess'.turns = 1 .. n
      /\ \A i \in DOMAIN sess.turns : i \in DOMAIN sess'.turns
                                      /\ sess'.turns[i] = sess.turns[i]
      /\ \A i \in DOMAIN sess.turns : InUser(sess, m, i) => InUser(sess', m, i)
      /\ sess'.turns[n] = e
      /\ DOMAIN sess.turns = 1 .. Len(sess.turns) /\ Len(sess.turns) \in Nat
      /\ sess.head \in Nat /\ sess.head <= Len(sess.turns)
  <2>1. /\ DOMAIN sess.turns = 1 .. Len(sess.turns) /\ Len(sess.turns) \in Nat
        /\ sess.head \in Nat /\ sess.head <= Len(sess.turns)
    BY <1>1, TurnsType DEF DraftOK, Drafts
  <2>2. /\ DOMAIN sess'.turns = 1 .. n
        /\ \A i \in DOMAIN sess.turns : i \in DOMAIN sess'.turns
                                        /\ sess'.turns[i] = sess.turns[i]
        /\ \A i \in DOMAIN sess.turns : InUser(sess, m, i) => InUser(sess', m, i)
        /\ sess'.turns[n] = e
    <3>1. DraftOK(sess) /\ e \in Turn /\ sess'.turns = Append(sess.turns, e)
      BY <1>1, <1>2
    <3> QED
      BY <3>1, UserKept
  <2> QED
    BY <2>1, <2>2
<1>5. /\ \A j \in DOMAIN starts : j \in DOMAIN starts' /\ starts'[j] = starts[j]
      /\ judged = "cancelled" => \E j \in DOMAIN starts' : starts'[j] = b
  BY <1>1, <1>3, AppendAll
<1>6. CASE m = dmsg
  <2>1. Going' \/ Viable'
    <3>1. CASE judged = "cancelled"
      <4>1. \E j \in DOMAIN starts' : starts'[j].turn = sess'.next
        BY <1>3, <1>5, <3>1
      <4>2. sess'.st[sess'.next] = "none"
        BY <1>1, <1>2, <1>3 DEF NamesOK, Named, Unused
      <4> QED
        BY <1>3, <4>1, <4>2 DEF Viable, StartOf, Terminal
    <3>2. CASE judged = "busy"
      <4>1. engine.turn # 0
        BY <1>6, <3>2 DEF SubmitBehind, Owed
      <4>2. ~engine.cancelled
        BY <1>1, <3>2 DEF NamesOK
      <4> QED
        BY <1>1, <4>1, <4>2 DEF Going, Looks, LoopsOK
    <3> QED
      BY <3>1, <3>2 DEF SubmitBehind
  <2>2. InUser(sess', m, n) /\ n \in DOMAIN sess'.turns
    BY <1>1, <1>4, <1>6 DEF InUser, InTurn, IsUser
  <2>3. n > sess'.head /\ \A j \in DOMAIN sess'.turns : ~(j > n)
    BY <1>2, <1>4
  <2>4. PICK i \in DOMAIN sess'.turns :
          /\ i > sess'.head /\ InUser(sess', m, i)
          /\ \A j \in DOMAIN sess'.turns : ~(j > i)
    BY <2>2, <2>3
  <2>5. Covered(m, i)'
    BY <2>1, <2>4 DEF Covered
  <2> QED
    BY <2>4, <2>5 DEF Tended
<1>7. CASE m # dmsg
  <2>1. /\ \A r : IsRun(r)' <=> IsRun(r)
        /\ \A t : Engaged(t)' <=> Engaged(t)
        /\ \A t : StartOf(t) => StartOf(t)'
    BY <1>1, <1>5 DEF IsRun, Engaged, StartOf
  <2>2. (\A t : HasRun(t)' <=> HasRun(t)) /\ \A t : Stale(t, m)' <=> Stale(t, m)
    BY <2>1 DEF HasRun, Stale
  <2>3. ~Held(m) /\ ~Handing /\ ~CancelsRef
    BY <1>1, <1>7 DEF Held, Handing, CancelsRef, Cancelling
  <2>4. (Going => Going') /\ (Viable => Viable')
    BY <1>1, <1>2, <2>1 DEF Going, Looks, Viable
  <2>5. Tame => Tame'
    <3>1. (HasRun(sess.ref)' <=> HasRun(sess.ref))
          /\ (Engaged(sess.ref)' <=> Engaged(sess.ref))
      BY <1>2, <2>1, <2>2
    <3> QED
      BY <1>1, <1>2, <2>3, <3>1 DEF Tame
  <2>6. \A t \in Orders : Good(t, m) => Good(t, m)'
    BY <1>2, <2>1, <2>2 DEF Good
  <2>7. /\ OnRef(sess, m) => OnRef(sess', m)
        /\ \A j \in DOMAIN sess'.turns :
             ~IsUser(sess', j) => j \in DOMAIN sess.turns /\ ~IsUser(sess, j)
    <3>1. OnRef(sess, m) => OnRef(sess', m)
      BY <1>2, <1>4 DEF OnRef, InPend
    <3>2. ASSUME NEW j \in DOMAIN sess'.turns, ~IsUser(sess', j)
          PROVE  j \in DOMAIN sess.turns /\ ~IsUser(sess, j)
      <4>1. j # n
        BY <1>1, <1>4, <3>2 DEF IsUser
      <4>2. j \in DOMAIN sess.turns
        BY <1>4, <4>1
      <4> QED
        BY <1>4, <3>2, <4>2 DEF IsUser
    <3> QED
      BY <3>1, <3>2
  <2>8. Steady(m)
    BY <1>2, <1>4, <2>3, <2>4, <2>5, <2>6, <2>7 DEF Steady
  <2> QED
    BY <2>8, SteadyKept
<1> QED
  BY <1>6, <1>7

\* A new name: nothing runs under it, so that its start covers what is up to
\* ActiveHead.
LEMMA NewNameGood ==
  ASSUME Inv, NamesOK, NEW q \in Orders, sess.st[q] = "none",
         UNCHANGED <<runq, xpc, xrun>>, sess'.st[q] = "none", StartOf(q)', NEW m
  PROVE  Good(q, m)'
<1>1. \A r : IsRun(r)' => r.turn # q
  BY DEF NamesOK, IsRun
<1>2. ~Engaged(q)'
  BY DEF NamesOK, Engaged
<1> QED
  BY <1>1, <1>2 DEF Good, Stale, Terminal

LEMMA SubmitStartsKept ==
  ASSUME Inv, NamesOK, SubmitStarts, NEW m \in Owed', Tended(m)
  PROVE  Tended(m)'
<1> USE DEF Inv
<1> DEFINE e == [t |-> 0, ms |-> {dmsg}]
           s == CreateUser(sess, {dmsg})
           n == Len(sess.turns) + 1
<1>1. /\ dpc = "submit" /\ dmsg \in Msgs /\ sess'.next <= MaxOrder
      /\ UNCHANGED <<runq, xpc, xrun>> /\ starts \in Seq(StartMsg)
      /\ DraftOK(sess) /\ e \in Turn /\ e.t = 0 /\ e.ms = {dmsg}
      /\ sess.next \in Nat
  BY AgentTurnAssumption DEF SubmitStarts, Bounded, exec, LoopsOK, SessOK,
     SessionOK, DraftOK, Drafts, QueuesOK, Turn
<1>2. /\ s.turns = Append(sess.turns, e) /\ s.st = sess.st /\ s.ref = sess.ref
      /\ s.pend = sess.pend /\ s.next = sess.next + 1 /\ DraftOK(s)
  <2>1. DraftOK(s)
    BY <1>1, CreateUserOK
  <2> QED
    BY <1>1, <2>1 DEF CreateUser, DraftOK, Drafts
<1> HIDE DEF s, e
<1>3. /\ DOMAIN s.turns = 1 .. n
      /\ \A i \in DOMAIN sess.turns : i \in DOMAIN s.turns
                                      /\ s.turns[i] = sess.turns[i]
      /\ \A i \in DOMAIN sess.turns : InUser(sess, m, i) => InUser(s, m, i)
      /\ s.turns[n] = e
      /\ DOMAIN sess.turns = 1 .. Len(sess.turns) /\ Len(sess.turns) \in Nat
  BY <1>1, <1>2, UserKept, TurnsType
<1>4. m = dmsg => n \in DOMAIN s.turns /\ InUser(s, m, n)
  BY <1>1, <1>3 DEF InUser, InTurn, IsUser
<1>5. OnRef(sess, m) \/ \E i \in DOMAIN s.turns : InUser(s, m, i)
  BY <1>3, <1>4 DEF Tended, Held
<1>6. CASE sess.ref = 0
  <2> DEFINE b == [turn |-> s.next, msg |-> dmsg]
  <2>1. /\ sess' = Last(s) /\ starts' = Append(starts, b)
    BY <1>6 DEF SubmitStarts, s
  <2>2. /\ sess'.turns = s.turns /\ sess'.st = sess.st /\ sess'.head = Len(s.turns)
        /\ sess'.next = s.next
    BY <1>2, <2>1, LastOK DEF SameBut
  <2>3. s.next \in Orders /\ b \in StartMsg /\ b.turn = s.next
        /\ sess.st[s.next] = "none"
    BY <1>1, <1>2, <2>2 DEF Orders, StartMsg, NamesOK, Named, Unused
  <2> HIDE DEF b
  <2>4. \E j \in DOMAIN starts' : starts'[j].turn = s.next
    <3>1. \E j \in DOMAIN starts' : starts'[j] = b
      BY <1>1, <2>1, <2>3, AppendAll
    <3> QED
      BY <2>3, <3>1
  <2>5. \E q \in Orders : Good(q, m)'
    <3>1. PICK q \in Orders : q = s.next
      BY <2>3
    <3>2. sess.st[q] = "none" /\ sess'.st[q] = "none" /\ StartOf(q)'
      BY <2>2, <2>3, <2>4, <3>1 DEF StartOf
    <3> QED
      BY <1>1, <3>2, NewNameGood
  <2>6. PICK i \in DOMAIN s.turns : InUser(s, m, i)
    BY <1>5, <1>6 DEF OnRef
  <2>7. i \in DOMAIN sess'.turns /\ InUser(sess', m, i) /\ i <= sess'.head
    BY <1>2, <2>2, <2>6, TurnsType DEF InUser, InTurn, IsUser
  <2>8. Covered(m, i)'
    BY <2>5, <2>7 DEF Covered
  <2> QED
    BY <2>7, <2>8 DEF Tended
<1>7. CASE sess.ref # 0
  <2>1. sess' = s /\ RequestCancel(sess.ref, s.next)
    BY <1>7 DEF SubmitStarts, s
  <2>2. Handing'
    BY <1>1, <1>2, <2>1 DEF RequestCancel, Handing, Cancelling
  <2>3. OnRef(sess, m) => OnRef(sess', m)
    BY <1>2, <1>3, <2>1 DEF OnRef, InPend
  <2> QED
    BY <1>5, <2>1, <2>2, <2>3 DEF Tended, Covered
<1> QED
  BY <1>6, <1>7


LEMMA StartInternalKept ==
  ASSUME Inv, NamesOK, StartInternal, NEW m \in Owed', m \in Msgs, Tended(m)
  PROVE  Tended(m)'
<1> USE DEF Inv
<1>1. PICK i \in DOMAIN starts :
        /\ starts' = SubSeq(starts, 1, i - 1)
                       \o SubSeq(starts, i + 1, Len(starts))
        /\ IF sess.st[starts[i].turn] = "cancelled"
           THEN UNCHANGED <<sess, disk, runq, excused, count>>
           ELSE StartTurn(sess, disk, starts[i].turn)
  BY DEF StartInternal
<1>2. /\ dpc = "idle" /\ dpc' = "idle" /\ UNCHANGED <<engine, xpc, xrun, sent, seen>>
      /\ starts \in Seq(StartMsg) /\ runq \in Seq(RunMsg)
      /\ SessionOK(sess) /\ DraftOK(sess) /\ RefLive(sess)
      /\ sess.st \in [Orders -> TurnStates]
  BY DEF StartInternal, exec, default, QueuesOK, SessOK, SessionOK, DraftOK, Drafts
<1>3. starts[i].turn \in Orders /\ starts[i].turn <= sess.next
  BY <1>1, QueuedTurns DEF NamesOK
<1>4. PICK t \in Orders : t = starts[i].turn
  BY <1>3
<1>5. t \in Orders /\ t <= sess.next /\ sess.turns # <<>>
      /\ Named(sess) /\ Named(disk)
  BY <1>3, <1>1, <1>4 DEF BusyOK, NamesOK
<1>6. /\ \A j \in DOMAIN starts : j # i => \E k \in DOMAIN starts' : starts'[k] = starts[j]
  BY <1>1, <1>2, RemoveAll
<1>7. \A o : StartOf(o) /\ o # t => StartOf(o)'
  BY <1>4, <1>6 DEF StartOf
<1>8. ~Held(m) /\ ~Handing /\ ~CancelsRef /\ ~CancelsRef'
  BY <1>2 DEF Held, Handing, CancelsRef, Cancelling
<1>9. CASE UNCHANGED <<sess, runq>> /\ sess.st[t] \in Terminal
  <2>1. /\ \A r : IsRun(r)' <=> IsRun(r)
        /\ \A o : Engaged(o)' <=> Engaged(o)
    BY <1>2, <1>9 DEF IsRun, Engaged
  <2>2. (\A o : HasRun(o)' <=> HasRun(o)) /\ \A o : Stale(o, m)' <=> Stale(o, m)
    BY <2>1 DEF HasRun, Stale
  <2>3. (Going => Going') /\ (Viable => Viable')
    BY <1>2, <1>7, <1>9 DEF Going, Looks, Viable
  <2>4. Tame => Tame'
    <3>1. (HasRun(sess.ref)' <=> HasRun(sess.ref))
          /\ (Engaged(sess.ref)' <=> Engaged(sess.ref))
      BY <1>9, <2>1, <2>2
    <3> QED
      BY <1>2, <1>8, <1>9, <3>1 DEF Tame
  <2>5. \A o \in Orders : Good(o, m) => Good(o, m)'
    BY <1>7, <1>9, <2>2 DEF Good
  <2>6. Steady(m)
    BY <1>8, <1>9, <2>3, <2>4, <2>5 DEF Steady
  <2> QED
    BY <2>6, SteadyKept
<1>10. CASE sess.st[t] = "cancelled"
  BY <1>4, <1>1, <1>9, <1>10 DEF Terminal
<1>11. CASE sess.st[t] # "cancelled"
  <2>1. Abandoned(sess) \/ Refused(sess, t) \/ Begun(sess, t)
    <3>1. StartTurn(sess, disk, t) /\ t \in Orders \cup {sess.next}
      BY <1>4, <1>1, <1>11
    <3> QED
      BY <1>2, <1>5, <3>1, StartTurnAs
  <2>2. m \notin excused' /\ m \in Unanswered
    BY <1>2 DEF Owed, Unanswered
  <2>3. CASE Abandoned(sess)
    BY <2>2, <2>3 DEF Abandoned
  <2>4. CASE Refused(sess, t)
    <3>1. /\ sess.st[t] \in Terminal /\ sess.ref \in {0, t} /\ sess'.ref = 0
          /\ sess'.turns = sess.turns /\ sess'.st = sess.st /\ sess'.head = sess.head
          /\ sess'.pend = sess.pend /\ UNCHANGED runq
      BY <2>2, <2>4 DEF Refused
    <3>2. sess.ref = 0
      BY <1>2, <1>5, <3>1 DEF RefLive, Live, Terminal, Orders
    <3>3. /\ \A r : IsRun(r)' <=> IsRun(r)
          /\ \A o : Engaged(o)' <=> Engaged(o)
      BY <1>2, <3>1 DEF IsRun, Engaged
    <3>4. (\A o : HasRun(o)' <=> HasRun(o)) /\ \A o : Stale(o, m)' <=> Stale(o, m)
      BY <3>3 DEF HasRun, Stale
    <3>5. (Going => Going') /\ (Viable => Viable')
      BY <1>2, <1>7, <3>1, <3>2 DEF Going, Looks, Viable
    <3>6. ~Tame
      BY <3>2 DEF Tame
    <3>7. \A o \in Orders : Good(o, m) => Good(o, m)'
      BY <1>7, <3>1, <3>2, <3>4 DEF Good
    <3>8. Steady(m)
      BY <1>8, <3>1, <3>2, <3>5, <3>6, <3>7
      DEF Steady, InUser, InTurn, IsUser, OnRef
    <3> QED
      BY <3>8, SteadyKept
  <2>5. CASE Begun(sess, t)
    <3> DEFINE r1 == [turn |-> t, ctx |-> Context(sess')]
               e == [t |-> t, ms |-> {}]
    <3>1. /\ sess'.turns = IF sess.st[t] = "none" THEN Append(sess.turns, e)
                           ELSE sess.turns
          /\ sess'.st = [sess.st EXCEPT ![t] = "running"]
          /\ sess'.head = sess.head /\ sess'.pend = sess.pend /\ sess'.ref = t
          /\ sess.ref \in {0, t} /\ sess.st[t] \notin Terminal
          /\ runq' = Append(runq, r1)
      BY <2>2, <2>5 DEF Begun
    <3>2. /\ sess'.st[t] = "running" /\ t # 0
          /\ \A o \in Orders \ {t} : sess'.st[o] = sess.st[o]
      <4>1. t # 0
        BY DEF Orders
      <4> QED
        BY <1>2, <3>1, <4>1
    <3>3. r1 \in RunMsg /\ r1.turn = t /\ r1.ctx = Context(sess')
      <4>1. Context(sess') \subseteq Msgs
        <5>1. DraftOK(sess')
          BY StartInternalStep DEF SessOK, SessionOK
        <5> QED
          BY <5>1, ContextType
      <4> QED
        BY <1>5, <4>1 DEF RunMsg
    <3>4. e \in Turn /\ e.t = t
      BY <1>5 DEF Turn, Orders
    <3> HIDE DEF r1, e
    <3>5. /\ \A j \in DOMAIN runq : j \in DOMAIN runq' /\ runq'[j] = runq[j]
          /\ \E j \in DOMAIN runq' : runq'[j] = r1
          /\ \A j \in DOMAIN runq' :
               runq'[j] = r1 \/ (j \in DOMAIN runq /\ runq'[j] = runq[j])
      <4>1. runq \in Seq(RunMsg) /\ r1 \in RunMsg /\ runq' = Append(runq, r1)
        BY <1>2, <3>1, <3>3
      <4> QED
        BY <4>1, AppendAll
    <3>6. /\ \A r : IsRun(r)' <=> IsRun(r) \/ r = r1
          /\ \A o : Engaged(o)' <=> Engaged(o)
      BY <1>2, <3>5 DEF IsRun, Engaged
    <3>7. /\ \A j \in DOMAIN sess.turns : InUser(sess, m, j) => InUser(sess', m, j)
          /\ \A j \in DOMAIN sess.turns : j \in DOMAIN sess'.turns
                                          /\ sess'.turns[j] = sess.turns[j]
      <4>1. CASE sess.st[t] = "none"
        <5>1. DraftOK(sess) /\ sess'.turns = Append(sess.turns, e)
          BY <1>2, <3>1, <4>1
        <5> QED
          BY <3>4, <5>1, UserKept
      <4>2. CASE sess.st[t] # "none"
        BY <3>1, <4>2 DEF InUser, InTurn, IsUser
      <4> QED
        BY <4>1, <4>2
    <3>8. OnRef(sess, m) => OnRef(sess', m)
      BY <3>1, <3>7 DEF OnRef, InPend
    <3>9. Going'
      BY <3>1, <3>2 DEF Going
    <3>10. ASSUME NEW j \in DOMAIN sess.turns, InUser(sess, m, j), Covered(m, j)
           PROVE  Covered(m, j)'
      <4>1. CASE j <= sess.head
        <5>1. m \in Context(sess')
          BY <3>1, <3>7, <3>10, <4>1 DEF Context, InUser, InTurn
        <5>2. CASE ~Stale(t, m)
          <6>1. ~Stale(t, m)'
            BY <3>3, <3>6, <5>1, <5>2 DEF Stale
          <6>2. HasRun(t)'
            BY <3>3, <3>6 DEF HasRun
          <6>3. Good(t, m)'
            BY <3>1, <3>2, <6>1, <6>2 DEF Good, Terminal
          <6> QED
            BY <3>1, <4>1, <6>3 DEF Covered
        <5>3. CASE Stale(t, m)
          <6>1. sess.st[t] # "none"
            BY <5>3 DEF NamesOK, Stale, Engaged, IsRun
          <6>2. UserTail => UserTail'
            BY <3>1, <6>1 DEF UserTail, IsUser
          <6>3. ASSUME NEW o \in Orders, Good(o, m)
                PROVE  Good(o, m)'
            <7>1. o # t
              BY <5>3, <6>3 DEF Good
            <7>2. StartOf(o)
              BY <3>1, <6>3, <7>1 DEF Good, Orders
            <7>3. ~Stale(o, m)'
              BY <3>3, <3>6, <6>3, <7>1 DEF Good, Stale
            <7> QED
              BY <1>7, <3>2, <6>3, <7>1, <7>2, <7>3 DEF Good
          <6>4. (Going /\ UserTail) \/ \E o \in Orders : Good(o, m)
            BY <1>2, <1>8, <3>10, <4>1 DEF Covered, DraftOK, Drafts
          <6> QED
            BY <3>1, <3>9, <4>1, <6>2, <6>3, <6>4 DEF Covered
        <5> QED
          BY <5>2, <5>3
      <4>2. CASE ~(j <= sess.head)
        <5>1. (\E k \in DOMAIN sess.turns : k > j /\ ~IsUser(sess, k)) => Tame
          BY <1>8, <3>10, <4>2 DEF Covered
        <5>2. sess.st[t] = "none" => ~Engaged(t)
          BY DEF Engaged, NamesOK
        <5>3. Engaged(t) /\ engine.cancelled =>
                ~\E k \in DOMAIN sess.turns : k > j /\ ~IsUser(sess, k)
          BY <1>8, <3>1, <5>1 DEF Tame
        <5>4. Engaged(t) => sess'.turns = sess.turns
          BY <3>1, <5>2
        <5>5. ASSUME NEW k \in DOMAIN sess'.turns, k > j, ~IsUser(sess', k)
              PROVE  Tame'
          <6>1. ~(Engaged(t) /\ engine.cancelled)
            BY <5>3, <5>4, <5>5 DEF IsUser
          <6>2. ~(Engaged(sess.ref)' /\ engine'.cancelled)
            BY <1>2, <3>1, <6>1 DEF Engaged
          <6> QED
            BY <3>1, <3>2, <6>2 DEF Tame
        <5>6. j > sess'.head
          BY <1>2, <3>1, <4>2, TurnsType DEF DraftOK, Drafts
        <5> QED
          BY <3>9, <5>5, <5>6 DEF Covered
      <4> QED
        BY <4>1, <4>2
    <3> QED
      BY <1>8, <3>7, <3>8, <3>10 DEF Tended
  <2> QED
    BY <2>1, <2>3, <2>4, <2>5
<1> QED
  BY <1>10, <1>11


LEMMA CancelCommitKept ==
  ASSUME Inv, NamesOK, CancelCommit, NEW m \in Owed', m \in Msgs, Tended(m)
  PROVE  Tended(m)'
<1> USE DEF Inv
<1>1. /\ dpc = "commit" /\ dturn \in Orders /\ sess.st[dturn] # "none"
      /\ sess'.turns = sess.turns /\ sess'.next = sess.next
      /\ sess.ref = dturn =>
           /\ sess'.st = [sess.st EXCEPT ![dturn] = "cancelled"]
           /\ sess'.ref = 0 /\ sess'.head = Len(sess.turns)
      /\ sess.ref # dturn =>
           /\ sess'.st = sess.st /\ sess'.ref = sess.ref
           /\ sess'.pend = sess.pend
           /\ sess'.head = IF dname = 0 THEN sess.head ELSE Len(sess.turns)
  BY CommitAs DEF NamesOK
<1>2. /\ UNCHANGED <<runq, engine, xpc, xrun, sent, seen>> /\ dpc' = "idle"
      /\ starts \in Seq(StartMsg) /\ m \in Unanswered /\ m \notin excused'
      /\ SessionOK(sess) /\ DraftOK(sess) /\ RefLive(sess)
      /\ sess.st \in [Orders -> TurnStates] /\ dname \in 0 .. MaxOrder
  BY DEF CancelCommit, DefaultIdle, exec, QueuesOK, Owed, Unanswered, SessOK,
         SessionOK, DraftOK, Drafts, LoopsOK
<1>3. /\ \A r : IsRun(r)' <=> IsRun(r)
      /\ \A o : Engaged(o)' <=> Engaged(o)
  BY <1>2 DEF IsRun, Engaged
<1>4. (\A o : HasRun(o)' <=> HasRun(o)) /\ \A o : Stale(o, m)' <=> Stale(o, m)
  BY <1>3 DEF HasRun, Stale
<1>5. ~Held(m)
  BY <1>1 DEF Held
<1>6. CASE dname = 0
  <2>1. sess.ref # dturn /\ UNCHANGED starts
    BY <1>2, <1>6 DEF CancelCommit
  <2>2. ~Handing /\ ~CancelsRef
    BY <1>6, <2>1 DEF Handing, CancelsRef
  <2>3. (Going => Going') /\ (Viable => Viable')
    BY <1>1, <1>2, <2>1 DEF Going, Looks, Viable, StartOf
  <2>4. Tame => Tame'
    <3>1. (HasRun(sess.ref)' <=> HasRun(sess.ref))
          /\ (Engaged(sess.ref)' <=> Engaged(sess.ref))
      BY <1>1, <1>3, <1>4, <2>1
    <3> QED
      BY <1>1, <1>2, <2>1, <2>2, <3>1 DEF Tame
  <2>5. \A o \in Orders : Good(o, m) => Good(o, m)'
    BY <1>1, <1>4, <2>1 DEF Good, StartOf
  <2>6. Steady(m)
    BY <1>1, <1>5, <1>6, <2>1, <2>2, <2>3, <2>4, <2>5
    DEF Steady, InUser, InTurn, IsUser, OnRef, InPend
  <2> QED
    BY <2>6, SteadyKept
<1>7. CASE dname # 0
  <2>1. sess.ref = dturn /\ m \notin PendingOn(sess, Place(sess, dturn))
    BY <1>2, <1>7 DEF CancelCommit
  <2>2. ~OnRef(sess, m)
    BY <1>2, <2>1, OnRefIs DEF NamesOK
  <2>3. PICK i \in DOMAIN sess.turns : InUser(sess, m, i)
    BY <1>5, <2>2 DEF Tended
  <2>4. PICK q \in Orders : q = dname
    BY <1>2, <1>7 DEF Orders
  <2>5. q = sess.next /\ sess.st[q] = "none"
    <3>1. q = sess.next
      BY <1>1, <1>7, <2>1, <2>4 DEF NamesOK, Cancelling
    <3> QED
      BY <3>1 DEF NamesOK, Named, Unused, Orders
  <2>6. sess'.st[q] = "none"
    BY <1>1, <1>2, <2>1, <2>5
  <2>7. StartOf(q)'
    <3> DEFINE e == [turn |-> dname, msg |-> dmsg]
    <3>1. e \in StartMsg /\ e.turn = q /\ starts' = Append(starts, e)
      BY <1>7, <2>4 DEF StartMsg, LoopsOK, CancelCommit
    <3> HIDE DEF e
    <3>2. \E j \in DOMAIN starts' : starts'[j] = e
      BY <1>2, <3>1, AppendAll
    <3> QED
      BY <3>1, <3>2 DEF StartOf
  <2>8. Good(q, m)'
    BY <1>2, <2>5, <2>6, <2>7, NewNameGood
  <2>9. i <= sess'.head /\ InUser(sess', m, i) /\ i \in DOMAIN sess'.turns
    BY <1>1, <1>2, <2>1, <2>3, TurnsType DEF InUser, InTurn, IsUser
  <2> QED
    BY <2>8, <2>9 DEF Tended, Covered
<1> QED
  BY <1>6, <1>7

LEMMA ResumeKept ==
  ASSUME Inv, NamesOK, Resume, engine.turn = 0,
         NEW m \in Owed', m \in Msgs, Tended(m)
  PROVE  Tended(m)'
<1> USE DEF Inv
<1>1. PICK t \in Orders :
        /\ sess.ref \in {0, t} /\ sess.st[t] \in Live
        /\ sess'.turns = sess.turns /\ sess'.next = sess.next
        /\ sess'.st = [sess.st EXCEPT ![t] = "running"]
        /\ sess'.ref = t /\ sess'.pend = sess.pend
        /\ sess'.head = Len(sess.turns)
        /\ starts' = Append(starts, [turn |-> t, msg |-> NoMsg])
        /\ excused' = IF sess.st[t] = "running"
                      THEN excused \cup Unanswered ELSE excused
  BY ResumeAs DEF NamesOK
<1>2. /\ UNCHANGED <<runq, xpc, xrun, dpc, sent, seen>> /\ dpc = "idle"
      /\ starts \in Seq(StartMsg) /\ m \in Unanswered /\ m \notin excused'
      /\ SessionOK(sess) /\ DraftOK(sess)
      /\ sess.st \in [Orders -> TurnStates]
      /\ xpc \in {"idle", "store", "auto"} /\ t # 0
  BY DEF Resume, exec, default, QueuesOK, Owed, Unanswered, SessOK, SessionOK,
         DraftOK, Drafts, LoopsOK, Orders
<1>3. /\ \A r : IsRun(r)' <=> IsRun(r)
      /\ \A o : ~Engaged(o)' /\ ~Engaged(o)
  BY <1>2 DEF IsRun, Engaged
<1>4. (\A o : HasRun(o)' <=> HasRun(o)) /\ \A o : Stale(o, m)' <=> Stale(o, m)
  BY <1>3 DEF HasRun, Stale
<1>5. ~Held(m) /\ ~Handing /\ ~CancelsRef
  BY <1>2 DEF Held, Handing, CancelsRef, Cancelling
<1>6. sess.st[t] = "paused" /\ sess'.st[t] = "running"
      /\ \A o \in Orders : sess.st[o] \notin Terminal => sess'.st[o] \notin Terminal
  BY <1>1, <1>2 DEF Live, Terminal
<1>7. (\A o : StartOf(o) => StartOf(o)') /\ StartOf(t)'
  <2> DEFINE e == [turn |-> t, msg |-> NoMsg]
  <2>1. e \in StartMsg /\ e.turn = t /\ starts' = Append(starts, e)
    BY <1>1 DEF StartMsg
  <2> HIDE DEF e
  <2>2. /\ \A j \in DOMAIN starts : j \in DOMAIN starts' /\ starts'[j] = starts[j]
        /\ \E j \in DOMAIN starts' : starts'[j] = e
    BY <1>2, <2>1, AppendAll
  <2> QED
    BY <2>1, <2>2 DEF StartOf
<1>8. CASE OnRef(sess, m)
  BY <1>1, <1>2, <1>8 DEF OnRef, InPend, Tended
<1>9. ASSUME NEW i \in DOMAIN sess.turns, InUser(sess, m, i), Covered(m, i)
      PROVE  Tended(m)'
  <2>1. /\ DOMAIN sess.turns = 1 .. Len(sess.turns) /\ Len(sess.turns) \in Nat
        /\ sess.head \in Nat /\ sess.head <= Len(sess.turns)
        /\ Len(sess.turns) \in DOMAIN sess.turns /\ i \in Nat
    BY <1>2, <1>9, TurnsType DEF DraftOK, Drafts
  <2>2. /\ i \in DOMAIN sess'.turns /\ InUser(sess', m, i) /\ i <= sess'.head
    BY <1>1, <1>9, <2>1 DEF InUser, InTurn, IsUser
  <2>3. Going'
    BY <1>1, <1>2 DEF Going
  <2>4. CASE IsUser(sess, Len(sess.turns))
    <3>1. UserTail'
      BY <1>1, <2>1, <2>4 DEF UserTail, IsUser
    <3> QED
      BY <2>2, <2>3, <3>1 DEF Covered, Tended
  <2>5. CASE ~IsUser(sess, Len(sess.turns))
    <3>1. \E o \in Orders : Good(o, m)'
      <4>1. CASE i <= sess.head
        <5>1. ~UserTail
          BY <2>1, <2>5 DEF UserTail
        <5>2. PICK o \in Orders : Good(o, m)
          BY <1>5, <1>9, <2>1, <4>1, <5>1 DEF Covered
        <5>3. Good(o, m)'
          BY <1>1, <1>2, <1>4, <1>6, <1>7, <5>2 DEF Good, Orders
        <5> QED
          BY <5>3
      <4>2. CASE i > sess.head
        <5>1. i # Len(sess.turns)
          BY <1>9, <2>5 DEF InUser
        <5>2. Tame
          BY <1>5, <1>9, <2>1, <2>5, <4>2, <5>1 DEF Covered
        <5>3. sess.ref = t /\ ~HasRun(t)
          BY <1>1, <1>2, <1>5, <1>6, <5>2 DEF Tame
        <5>4. ~Stale(t, m)
          BY <1>3, <5>3 DEF Stale, HasRun
        <5>5. Good(t, m)'
          BY <1>4, <1>6, <1>7, <5>4 DEF Good, Terminal
        <5> QED
          BY <5>5
      <4> QED
        BY <2>1, <4>1, <4>2
    <3> QED
      BY <2>2, <3>1 DEF Covered, Tended
  <2> QED
    BY <2>4, <2>5
<1> QED
  BY <1>5, <1>8, <1>9 DEF Tended

\* A turn that answers everything covers everything.
LEMMA AnsweringKept ==
  ASSUME Inv, Inv', NamesOK, NEW q \in Orders, Answering(q),
         UNCHANGED <<dpc, dmsg>>,
         xpc \in {"complete", "auto"}, xpc' \in {"clear", "idle"},
         NEW m \in Msgs, Tended(m)
  PROVE  Tended(m)'
<1> DEFINE r1 == [turn |-> q, ctx |-> Context(sess')]
<1>1. /\ sess.st[q] = "none" /\ sess'.ref = q /\ sess'.st[q] = "running"
      /\ runq' = Append(runq, r1) /\ q # 0
      /\ \A i \in DOMAIN sess.turns :
           InUser(sess, m, i) => InUser(sess', m, i)
      /\ OnRef(sess, m) =>
           \E i \in DOMAIN sess'.turns : i <= sess'.head /\ InUser(sess', m, i)
  BY DEF Answering, Orders
<1>2. DraftOK(sess') /\ runq \in Seq(RunMsg)
  BY DEF Inv, SessOK, SessionOK, QueuesOK
<1>3. r1 \in RunMsg /\ r1.turn = q /\ r1.ctx = Context(sess')
  BY <1>2, ContextType DEF RunMsg
<1> HIDE DEF r1
<1>4. /\ \E j \in DOMAIN runq' : runq'[j] = r1
      /\ \A j \in DOMAIN runq' :
           runq'[j] = r1 \/ (j \in DOMAIN runq /\ runq'[j] = runq[j])
  <2>1. r1 \in RunMsg /\ runq \in Seq(RunMsg)
    BY <1>2, <1>3
  <2> QED
    BY <1>1, <2>1, AppendAll
<1>5. \A r : IsRun(r)' /\ r.turn = q => r = r1
  BY <1>1, <1>4 DEF IsRun, NamesOK
<1>6. HasRun(q)' /\ ~Engaged(q)'
  BY <1>3, <1>4 DEF HasRun, IsRun, Engaged
<1>7. Held(m) => Held(m)'
  BY DEF Held
<1>8. ASSUME NEW i \in DOMAIN sess'.turns, InUser(sess', m, i)
      PROVE  Covered(m, i)'
  <2>1. CASE i <= sess'.head
    <3>1. m \in Context(sess')
      BY <1>8, <2>1 DEF Context, InUser, InTurn
    <3>2. Good(q, m)'
      BY <1>1, <1>3, <1>5, <1>6, <3>1 DEF Good, Stale, Terminal
    <3> QED
      BY <2>1, <3>2 DEF Covered
  <2>2. CASE i > sess'.head
    <3>1. Going'
      BY <1>1 DEF Going
    <3>2. Tame'
      <4>1. ~Engaged(sess.ref)'
        BY DEF Engaged
      <4> QED
        BY <1>1, <4>1 DEF Tame
    <3> QED
      BY <2>2, <3>1, <3>2 DEF Covered
  <2> QED
    BY <1>2, <2>1, <2>2, TurnsType DEF DraftOK, Drafts
<1>9. Held(m) \/ \E i \in DOMAIN sess'.turns : InUser(sess', m, i)
  <2>1. \A i : InUser(sess', m, i) => i \in DOMAIN sess'.turns
    BY DEF InUser, InTurn
  <2> QED
    BY <1>1, <2>1 DEF Tended
<1> QED
  BY <1>7, <1>8, <1>9 DEF Tended

LEMMA CompleteKept ==
  ASSUME Inv, Inv', NamesOK, Complete, sess.ref = xrun.turn,
         NEW m \in Owed', m \in Msgs, Tended(m)
  PROVE  Tended(m)'
<1>1. /\ xpc = "complete" /\ xpc' = "clear"
      /\ UNCHANGED <<starts, xrun, dpc, dmsg, dname, sent, seen>>
      /\ m \in Unanswered /\ m \notin excused'
  BY DEF Complete, default, Owed, Unanswered
<1>2. Rested \/ GivenUp \/ \E q \in Orders : Answering(q)
  BY CompleteAs DEF NamesOK
<1>3. CASE GivenUp
  BY <1>1, <1>3 DEF GivenUp
<1>4. ASSUME NEW q \in Orders, Answering(q)
      PROVE  Tended(m)'
  BY <1>1, <1>4, AnsweringKept
<1>5. CASE Rested
  <2>1. /\ sess'.turns = sess.turns
        /\ sess'.st = [sess.st EXCEPT ![xrun.turn] = outcome]
        /\ sess'.head = Len(sess.turns) /\ ~OnRef(sess, m)
        /\ \A i \in DOMAIN sess.turns : IsUser(sess, i) => i <= sess.head
        /\ ~IsUser(sess, Len(sess.turns))
        /\ UNCHANGED runq
    BY <1>5 DEF Rested
  <2>2. /\ DraftOK(sess) /\ sess.st \in [Orders -> TurnStates] /\ sess.turns # <<>>
        /\ xrun.turn \in Orders
    BY <1>1 DEF Inv, SessOK, SessionOK, DraftOK, Drafts, BusyOK, LoopsOK
  <2>3. /\ DOMAIN sess.turns = 1 .. Len(sess.turns) /\ Len(sess.turns) \in Nat
        /\ Len(sess.turns) \in DOMAIN sess.turns
        /\ sess.head \in Nat /\ sess.head <= Len(sess.turns)
    BY <2>2, TurnsType DEF DraftOK, Drafts
  <2>4. ~UserTail
    BY <2>1, <2>3 DEF UserTail
  <2>5. \A r : IsRun(r)' <=> IsRun(r)
    BY <1>1, <2>1 DEF IsRun
  <2>6. /\ \A o : HasRun(o)' <=> HasRun(o)
        /\ \A o : Stale(o, m)' => Stale(o, m)
        /\ \A o : StartOf(o) <=> StartOf(o)'
    BY <1>1, <2>5 DEF HasRun, Stale, Engaged, StartOf
  <2>7. ASSUME NEW o \in Orders, Good(o, m)
        PROVE  Good(o, m)'
    <3>1. o # xrun.turn
      BY <1>1, <2>7 DEF Good, Stale, Engaged
    <3>2. StartOf(o) /\ sess'.st[o] = sess.st[o]
      BY <2>1, <2>2, <2>7, <3>1 DEF Good
    <3> QED
      BY <2>6, <2>7, <3>2 DEF Good
  <2>8. (Held(m) => Held(m)') /\ (Handing => Handing')
    BY <1>1 DEF Held, Handing, Cancelling
  <2>9. ASSUME NEW i \in DOMAIN sess.turns, InUser(sess, m, i), Covered(m, i)
        PROVE  Tended(m)'
    <3>1. i <= sess.head /\ i \in Nat
      BY <2>1, <2>3, <2>9 DEF InUser
    <3>2. i \in DOMAIN sess'.turns /\ InUser(sess', m, i) /\ i <= sess'.head
      BY <2>1, <2>3, <2>9, <3>1 DEF InUser, InTurn, IsUser
    <3>3. Handing \/ \E o \in Orders : Good(o, m)
      BY <2>3, <2>4, <2>9, <3>1 DEF Covered
    <3>4. Covered(m, i)'
      BY <2>7, <2>8, <3>2, <3>3 DEF Covered
    <3> QED
      BY <3>2, <3>4 DEF Tended
  <2> QED
    BY <2>1, <2>8, <2>9 DEF Tended
<1> QED
  BY <1>2, <1>3, <1>4, <1>5


LEMMA AutoStartKept ==
  ASSUME Inv, Inv', NamesOK, AutoStart, NEW m \in Owed', m \in Msgs, Tended(m)
  PROVE  Tended(m)'
<1>1. /\ xpc = "auto" /\ xpc' = "idle"
      /\ UNCHANGED <<starts, engine, dpc, dmsg, dturn, dname, sent, seen>>
      /\ m \in Unanswered /\ m \notin excused'
      /\ SessionOK(sess) /\ DraftOK(sess)
  BY DEF AutoStart, ExecIdle, default, Owed, Unanswered, Inv, SessOK, SessionOK
<1>2. \/ AutoPick(sess) = 0 /\ UNCHANGED <<sess, runq, excused>>
      \/ sess.ref = 0 /\ (GivenUp \/ \E q \in Orders : Answering(q))
  BY AutoStartAs DEF NamesOK
<1>3. CASE GivenUp
  BY <1>1, <1>3 DEF GivenUp
<1>4. ASSUME NEW q \in Orders, Answering(q)
      PROVE  Tended(m)'
  BY <1>1, <1>4, AnsweringKept
<1>5. CASE AutoPick(sess) = 0 /\ UNCHANGED <<sess, runq>>
  <2>1. /\ \A r : IsRun(r)' <=> IsRun(r)
        /\ \A o : ~Engaged(o)' /\ ~Engaged(o)
        /\ \A o : StartOf(o) <=> StartOf(o)'
        /\ (Held(m) => Held(m)') /\ (Handing => Handing')
        /\ (CancelsRef <=> CancelsRef')
    BY <1>1, <1>5 DEF IsRun, Engaged, StartOf, Held, Handing, CancelsRef, Cancelling
  <2>2. (\A o : HasRun(o)' <=> HasRun(o)) /\ \A o : Stale(o, m)' <=> Stale(o, m)
    BY <2>1 DEF HasRun, Stale
  <2>3. \A o \in Orders : Good(o, m) => Good(o, m)'
    BY <1>5, <2>1, <2>2 DEF Good
  <2>4. CASE sess.ref # 0
    <3>1. (Going => Going') /\ (Viable => Viable')
      BY <1>5, <2>1, <2>4 DEF Going, Viable
    <3>2. Tame => Tame'
      <4>1. (HasRun(sess.ref)' <=> HasRun(sess.ref)) /\ ~Engaged(sess.ref)'
        BY <1>5, <2>1, <2>2
      <4> QED
        BY <1>1, <1>5, <2>1, <4>1 DEF Tame
    <3>3. Steady(m)
      BY <1>5, <2>1, <2>3, <3>1, <3>2 DEF Steady
    <3> QED
      BY <3>3, SteadyKept
  <2>5. CASE sess.ref = 0
    <3>1. ~OnRef(sess, m)
      BY <2>5 DEF OnRef
    <3>2. ASSUME NEW i \in DOMAIN sess.turns, InUser(sess, m, i), Covered(m, i)
          PROVE  Covered(m, i)'
      <4>1. /\ DOMAIN sess.turns = 1 .. Len(sess.turns) /\ Len(sess.turns) \in Nat
            /\ sess.head \in Nat /\ sess.head <= Len(sess.turns)
            /\ sess.turns # <<>> /\ Len(sess.turns) \in DOMAIN sess.turns
        BY <1>1, <3>2, TurnsType DEF DraftOK, Drafts
      <4>2. /\ \A j \in DOMAIN sess.turns : IsUser(sess, j) => j <= sess.head
            /\ sess.head = Len(sess.turns) => ~IsUser(sess, sess.head)
        BY <1>1, <1>5, <2>5, <4>1, AutoPickNothing
      <4>3. i <= sess.head
        BY <3>2, <4>2 DEF InUser
      <4>4. ~UserTail
        BY <4>1, <4>2 DEF UserTail
      <4>5. Handing \/ \E o \in Orders : Good(o, m)
        BY <3>2, <4>1, <4>3, <4>4 DEF Covered
      <4> QED
        BY <1>5, <2>1, <2>3, <4>3, <4>5 DEF Covered
    <3> QED
      BY <1>5, <2>1, <3>1, <3>2 DEF Tended
  <2> QED
    BY <2>4, <2>5
<1> QED
  BY <1>2, <1>3, <1>4, <1>5

LEMMA RestartKept ==
  ASSUME Inv', NamesOK', NEW saved, Restart(saved), NEW m \in Owed'
  PROVE  Tended(m)'
<1>1. /\ SessionOK(sess') /\ RefLive(sess') /\ Named(sess')
  BY DEF Inv, SessOK, NamesOK
<1>2. m \in Unanswered /\ m \notin excused'
  BY DEF Restart, Owed, Unanswered
<1>3. sess'.ref # 0 /\ m \in PendingOn(sess', Target(sess'))
  BY <1>2 DEF Restart
<1>4. Target(sess') = Place(sess', sess'.ref)
  BY <1>3 DEF Target
<1>5. OnRef(sess', m)
  BY <1>1, <1>3, <1>4, OnRefIs
<1> QED
  BY <1>5 DEF Tended

LEMMA KeptStep == Inv /\ NamesOK /\ KeptOK /\ [Next]_vars => KeptOK'
<1> SUFFICES ASSUME Inv, NamesOK, KeptOK, [Next]_vars, NEW m \in Owed'
             PROVE  Tended(m)'
  BY DEF KeptOK
<1>1. Inv' /\ NamesOK'
  BY InvStep, NamesStep
<1>2. m \in Msgs
  BY <1>1 DEF Inv, HistoryOK, Owed
<1>3. CASE m \notin Owed
  <2>1. SubmitRead(m)
    BY <1>3, OwedBefore
  <2> QED
    BY <2>1 DEF SubmitRead, Held, Tended
<1>4. CASE m \in Owed
  <2>1. Tended(m)
    BY <1>4 DEF KeptOK
  <2>2. Steady(m) => Tended(m)'
    BY <2>1, SteadyKept
  <2>3. CASE DefaultStep
    <3>1. CASE SubmitQueues \/ SubmitBehind \/ SubmitStarts
      BY <2>1, <3>1, SubmitQueuesKept, SubmitBehindKept, SubmitStartsKept
    <3>2. CASE StartInternal \/ CancelCommit
      BY <1>2, <2>1, <3>2, StartInternalKept, CancelCommitKept
    <3>3. CASE CancelTimesOut
      BY <2>2, <3>3, RequestSteady
    <3> QED
      BY <2>3, <3>1, <3>2, <3>3 DEF DefaultStep
  <2>4. CASE ExecStep
    <3>1. CASE \/ RunTake \/ StopAccepting \/ Remind \/ Finish \/ Fail \/ Abort
               \/ Exited \/ ClearEngine \/ Checkpoint
               \/ Complete /\ sess.ref # xrun.turn
      BY <2>2, <3>1, ExecSteady
    <3>2. CASE Ingest \/ PauseHere \/ Wake
      BY <2>2, <3>2, RunSteady
    <3>3. CASE RunStore
      BY <2>2, <3>3, RunStoreSteady
    <3>4. CASE Complete /\ sess.ref = xrun.turn
      BY <1>1, <1>2, <2>1, <3>4, CompleteKept
    <3>5. CASE AutoStart
      BY <1>1, <1>2, <2>1, <3>5, AutoStartKept
    <3> QED
      BY <2>4, <3>1, <3>2, <3>3, <3>4, <3>5 DEF ExecStep
  <2>5. CASE (\E n \in Msgs : SubmitRead(n)) \/ Stop \/ Pause \/ UNCHANGED vars
    BY <2>2, <2>5, RequestSteady
  <2>6. CASE Resume
    BY <1>2, <2>1, <2>2, <2>6, RequestSteady, ResumeKept
  <2>7. ASSUME NEW saved \in {disk, Durable(sess)}, Restart(saved)
        PROVE  Tended(m)'
    BY <1>1, <2>7, RestartKept
  <2> QED
    BY <2>3, <2>4, <2>5, <2>6, <2>7 DEF Next
<1> QED
  BY <1>3, <1>4

\* When the agent has come to rest no message that was submitted has been
\* forgotten: each was given to an engine that ran, unless one of the named
\* exceptions excused it.
THEOREM NoMessageForgotten == Spec => []MessageKept
<1>1. Init => Inv /\ NamesOK /\ KeptOK
  BY InvInit, NamesInit, KeptInit
<1>2. Inv /\ NamesOK /\ KeptOK /\ [Next]_vars => (Inv /\ NamesOK /\ KeptOK)'
  BY InvStep, NamesStep, KeptStep
<1>3. Inv /\ NamesOK /\ KeptOK => MessageKept
  BY KeptSuffices
<1> QED
  BY <1>1, <1>2, <1>3, PTL DEF Spec
=============================================================================
