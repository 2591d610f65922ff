-------------------------- MODULE AgentTurn_proofs --------------------------
(***************************************************************************)
(* Theorems about the turn lifecycle, for any messages, any number of      *)
(* turns and any number of stops, pauses, resumes, restarts and faults.    *)
(***************************************************************************)
EXTENDS AgentTurn, SequenceTheorems, WellFoundedInduction, TLAPS

-----------------------------------------------------------------------------
(* A set of places has a first and a last member.                          *)
LEMMA NatMin ==
  ASSUME NEW T \in SUBSET Nat, T # {}
  PROVE  \E x \in T : \A y \in T : x <= y
<1> DEFINE R == {p \in Nat \X Nat : p[1] < p[2]}
<1>1. IsWellFoundedOn(R, Nat)
  <2>1. OpToRel(<, Nat) = R
    BY DEF OpToRel
  <2> QED
    BY <2>1, NatLessThanWellFounded
<1>2. \A x, y \in Nat : ~(<<y, x>> \in R) => x <= y
  OBVIOUS
<1> HIDE DEF R
<1>3. PICK x \in T : \A y \in T : ~(<<y, x>> \in R)
  BY <1>1, WFMin
<1>4. \A y \in T : x <= y
  BY <1>2, <1>3
<1> QED
  BY <1>4

LEMMA NatMax ==
  ASSUME NEW n \in Nat, NEW T \in SUBSET (1 .. n), T # {}
  PROVE  \E x \in T : \A y \in T : y <= x
<1> DEFINE U == {n - y : y \in T}
<1>1. U \subseteq Nat
  OBVIOUS
<1>2. U # {}
  <2>1. PICK y \in T : TRUE
    OBVIOUS
  <2> QED
    BY <2>1
<1>3. PICK u \in U : \A v \in U : u <= v
  BY <1>1, <1>2, NatMin
<1>4. PICK x \in T : u = n - x
  BY <1>3
<1>5. \A y \in T : n - y \in U
  OBVIOUS
<1>6. \A y \in T : n - x <= n - y
  BY <1>3, <1>4, <1>5
<1> QED
  BY <1>6

-----------------------------------------------------------------------------
(* A session in the middle of a handler may be one order beyond the last.  *)
Turn == [t : 0 .. MaxOrder, ms : SUBSET Msgs]

Drafts ==
  [turns : Seq(Turn), st : [Orders -> TurnStates], head : Nat,
   ref : 0 .. MaxOrder, pend : SUBSET (Nat \X Msgs), next : Nat \ {0}]

(* What every operator of the session keeps: ActiveHead and the pending    *)
(* submits name places of the session, a turn with a state is recorded in  *)
(* one, and ActiveHead is set once there are turns.                        *)
Recorded(s) ==
  \A t \in Orders : s.st[t] # "none" =>
    \E i \in DOMAIN s.turns : s.turns[i].t = t

DraftOK(s) ==
  /\ s \in Drafts
  /\ s.head <= Len(s.turns)
  /\ \A p \in s.pend : p[1] \in DOMAIN s.turns
  /\ Recorded(s)

SessionOK(s) == DraftOK(s) /\ (s.turns # <<>> => s.head # 0)

\* The fields a step of a session operator leaves as they are.
SameBut(s, s1, F) ==
  /\ "turns" \notin F => s1.turns = s.turns
  /\ "st" \notin F => s1.st = s.st
  /\ "head" \notin F => s1.head = s.head
  /\ "ref" \notin F => s1.ref = s.ref
  /\ "pend" \notin F => s1.pend = s.pend
  /\ "next" \notin F => s1.next = s.next

LEMMA TurnsType ==
  ASSUME NEW s, DraftOK(s)
  PROVE  /\ s.turns \in Seq(Turn)
         /\ Len(s.turns) \in Nat
         /\ DOMAIN s.turns = 1 .. Len(s.turns)
         /\ s.turns # <<>> <=> Len(s.turns) # 0
         /\ \A i \in DOMAIN s.turns : s.turns[i] \in Turn
<1>1. s.turns \in Seq(Turn)
  BY DEF DraftOK, Drafts
<1>2. /\ Len(s.turns) \in Nat /\ DOMAIN s.turns = 1 .. Len(s.turns)
      /\ \A i \in 1 .. Len(s.turns) : s.turns[i] \in Turn
  BY <1>1, LenProperties, ElementOfSeq
<1>3. s.turns # <<>> <=> Len(s.turns) # 0
  BY <1>1, EmptySeq
<1> QED
  BY <1>1, <1>2, <1>3

LEMMA AppendTurn ==
  ASSUME NEW s, DraftOK(s), NEW e \in Turn
  PROVE  LET s1 == [s EXCEPT !.turns = Append(@, e)]
         IN /\ DraftOK(s1) /\ SameBut(s, s1, {"turns"})
            /\ s1.turns # <<>>
            /\ Len(s1.turns) = Len(s.turns) + 1
            /\ s1.turns[Len(s1.turns)] = e
<1> DEFINE q == s.turns
           s1 == [s EXCEPT !.turns = Append(@, e)]
<1>1. q \in Seq(Turn) /\ s1.turns = Append(q, e)
  BY DEF DraftOK, Drafts
<1>2. /\ Append(q, e) \in Seq(Turn) /\ Append(q, e) # <<>>
      /\ Len(Append(q, e)) = Len(q) + 1
      /\ \A i \in 1 .. Len(q) : Append(q, e)[i] = q[i]
      /\ Append(q, e)[Len(q) + 1] = e
  BY <1>1, AppendProperties
<1>3. DOMAIN q = 1 .. Len(q) /\ DOMAIN s1.turns = 1 .. Len(q) + 1 /\ Len(q) \in Nat
  BY <1>1, <1>2, LenProperties
<1>4. SameBut(s, s1, {"turns"})
  BY DEF DraftOK, Drafts, SameBut
<1>5. s1 \in Drafts
  BY <1>1, <1>2 DEF DraftOK, Drafts
<1>6. Recorded(s1)
  BY <1>1, <1>2, <1>3, <1>4 DEF DraftOK, Recorded, SameBut
<1>7. s1.head <= Len(s1.turns)
  BY <1>1, <1>2, <1>3, <1>4 DEF DraftOK, Drafts, SameBut
<1>8. \A p \in s1.pend : p[1] \in DOMAIN s1.turns
  BY <1>1, <1>3, <1>4 DEF DraftOK, SameBut
<1> QED
  BY <1>1, <1>2, <1>4, <1>5, <1>6, <1>7, <1>8 DEF DraftOK

LEMMA SetRef ==
  ASSUME NEW s, SessionOK(s), NEW r \in 0 .. MaxOrder
  PROVE  LET s1 == [s EXCEPT !.ref = r]
         IN SessionOK(s1) /\ SameBut(s, s1, {"ref"}) /\ s1.ref = r
BY DEF SessionOK, DraftOK, Drafts, Recorded, SameBut

LEMMA SetHead ==
  ASSUME NEW s, DraftOK(s), NEW i \in DOMAIN s.turns
  PROVE  LET s1 == [s EXCEPT !.head = i]
         IN SessionOK(s1) /\ SameBut(s, s1, {"head"})
<1>1. i \in Nat \ {0} /\ i <= Len(s.turns)
  BY TurnsType
<1> QED
  BY <1>1 DEF SessionOK, DraftOK, Drafts, Recorded, SameBut

LEMMA LastOK ==
  ASSUME NEW s, DraftOK(s)
  PROVE  SessionOK(Last(s)) /\ SameBut(s, Last(s), {"head"})
         /\ Last(s).head = Len(s.turns)
<1>1. Len(s.turns) \in Nat /\ (s.turns # <<>> <=> Len(s.turns) # 0)
  BY TurnsType
<1> QED
  BY <1>1 DEF Last, SessionOK, DraftOK, Drafts, Recorded, SameBut

LEMMA DurableOK ==
  ASSUME NEW s, SessionOK(s)
  PROVE  SessionOK(Durable(s)) /\ SameBut(s, Durable(s), {"ref"})
         /\ Durable(s).ref = 0
<1>1. 0 \in 0 .. MaxOrder
  BY AgentTurnAssumption
<1> QED
  BY <1>1, SetRef DEF Durable

LEMMA ApplyOK ==
  ASSUME NEW s, SessionOK(s), s.turns # <<>>, NEW t \in Orders,
         NEW to \in TurnStates \ {"none"}
  PROVE  /\ SessionOK(Apply(s, t, to)) /\ Apply(s, t, to).turns # <<>>
         /\ SameBut(s, Apply(s, t, to), {"st", "turns"})
         /\ s.st[t] # "none" => Apply(s, t, to).turns = s.turns
         /\ Apply(s, t, to).st = IF CanTransition(s.st[t], to)
                                 THEN [s.st EXCEPT ![t] = to] ELSE s.st
<1> DEFINE e == [t |-> t, ms |-> {}]
           u == [s EXCEPT !.turns = Append(@, e)]
           a == Apply(s, t, to)
<1>1. CASE ~CanTransition(s.st[t], to)
  BY <1>1 DEF Apply, SameBut
<1>2. CASE CanTransition(s.st[t], to) /\ s.st[t] = "none"
  <2>1. e \in Turn
    BY DEF Turn, Orders
  <2>2. /\ DraftOK(u) /\ SameBut(s, u, {"turns"}) /\ u.turns # <<>>
        /\ Len(u.turns) = Len(s.turns) + 1 /\ u.turns[Len(u.turns)] = e
    BY <2>1, AppendTurn DEF SessionOK
  <2>3. a = [u EXCEPT !.st = [@ EXCEPT ![t] = to]]
    BY <1>2 DEF Apply, SessionOK, DraftOK, Drafts
  <2> HIDE DEF u, a
  <2>4. a \in Drafts /\ SameBut(u, a, {"st"}) /\ a.st = [s.st EXCEPT ![t] = to]
    BY <2>2, <2>3 DEF DraftOK, Drafts, SameBut
  <2>5. Recorded(a)
    <3> SUFFICES ASSUME NEW r \in Orders, a.st[r] # "none"
                 PROVE  \E i \in DOMAIN a.turns : a.turns[i].t = r
      BY DEF Recorded
    <3>1. CASE r = t
      <4>1. Len(u.turns) \in DOMAIN u.turns
        BY <2>2, TurnsType
      <4> QED
        BY <2>2, <2>4, <3>1, <4>1 DEF SameBut
    <3>2. CASE r # t
      BY <2>2, <2>4, <3>2 DEF DraftOK, Recorded, SameBut, Drafts
    <3> QED
      BY <3>1, <3>2
  <2>6. /\ a.turns = u.turns /\ a.head = s.head /\ a.pend = s.pend
        /\ a.ref = s.ref /\ a.next = s.next /\ u.head = s.head /\ u.pend = s.pend
    BY <2>2, <2>4 DEF SameBut
  <2>7. SessionOK(a)
    BY <2>2, <2>4, <2>5, <2>6 DEF SessionOK, DraftOK
  <2>8. SameBut(s, a, {"st", "turns"})
    BY <2>6 DEF SameBut
  <2> QED
    BY <1>2, <2>2, <2>4, <2>6, <2>7, <2>8 DEF a
<1>3. CASE CanTransition(s.st[t], to) /\ s.st[t] # "none"
  <2>1. a = [s EXCEPT !.st = [@ EXCEPT ![t] = to]]
    BY <1>3 DEF Apply, SessionOK, DraftOK, Drafts
  <2> HIDE DEF a
  <2>2. a \in Drafts /\ SameBut(s, a, {"st"}) /\ a.st = [s.st EXCEPT ![t] = to]
    BY <2>1 DEF SessionOK, DraftOK, Drafts, SameBut
  <2>3. Recorded(a)
    BY <1>3, <2>2 DEF SessionOK, DraftOK, Recorded, SameBut, Drafts
  <2>4. /\ a.turns = s.turns /\ a.head = s.head /\ a.pend = s.pend
        /\ a.ref = s.ref /\ a.next = s.next
    BY <2>2 DEF SameBut
  <2>5. SessionOK(a)
    BY <2>2, <2>3, <2>4 DEF SessionOK, DraftOK
  <2>6. SameBut(s, a, {"st", "turns"})
    BY <2>4 DEF SameBut
  <2> QED
    BY <1>3, <2>2, <2>4, <2>5, <2>6 DEF a
<1> QED
  BY <1>1, <1>2, <1>3

LEMMA CreateUserOK ==
  ASSUME NEW s, DraftOK(s), NEW ms \in SUBSET Msgs
  PROVE  /\ DraftOK(CreateUser(s, ms)) /\ CreateUser(s, ms).turns # <<>>
         /\ SameBut(s, CreateUser(s, ms), {"turns", "next"})
         /\ CreateUser(s, ms).next = s.next + 1
<1> DEFINE e == [t |-> 0, ms |-> ms]
           u == [s EXCEPT !.turns = Append(@, e)]
<1>1. e \in Turn
  BY AgentTurnAssumption DEF Turn
<1>2. DraftOK(u) /\ SameBut(s, u, {"turns"}) /\ u.turns # <<>>
  BY <1>1, AppendTurn
<1> DEFINE c == CreateUser(s, ms)
<1>3. c = [u EXCEPT !.next = @ + 1]
  BY DEF CreateUser, DraftOK, Drafts
<1> HIDE DEF u, c
<1>4. c \in Drafts /\ SameBut(u, c, {"next"}) /\ c.next = u.next + 1
  <2>1. u \in Drafts
    BY <1>2 DEF DraftOK
  <2> QED
    BY <1>3, <2>1 DEF Drafts, SameBut
<1>5. /\ c.turns = u.turns /\ c.st = s.st /\ c.head = s.head /\ c.pend = s.pend
      /\ c.ref = s.ref /\ c.next = s.next + 1
      /\ u.head = s.head /\ u.pend = s.pend /\ u.st = s.st
  BY <1>2, <1>4 DEF SameBut
<1>6. DraftOK(c)
  BY <1>2, <1>4, <1>5 DEF DraftOK, Recorded
<1>7. SameBut(s, c, {"turns", "next"})
  BY <1>5 DEF SameBut
<1> QED
  BY <1>2, <1>5, <1>6, <1>7 DEF c

(* The places handlers look up exist.                                      *)
LEMMA PlaceOK ==
  ASSUME NEW s, DraftOK(s), NEW t \in Orders, s.st[t] # "none"
  PROVE  Place(s, t) \in DOMAIN s.turns /\ s.turns[Place(s, t)].t = t
BY DEF DraftOK, Recorded, Place

RefLive(s) == s.ref # 0 => s.st[s.ref] \in Live

LEMMA TargetOK ==
  ASSUME NEW s, SessionOK(s), s.turns # <<>>, RefLive(s)
  PROVE  Target(s) \in DOMAIN s.turns
<1>1. CASE s.ref # 0
  <2>1. s.ref \in Orders /\ s.st[s.ref] # "none"
    BY <1>1 DEF SessionOK, DraftOK, Drafts, Orders, RefLive, Live
  <2> QED
    BY <1>1, <2>1, PlaceOK DEF SessionOK, Target
<1>2. CASE s.ref = 0
  <2>1. s.head \in Nat /\ s.head # 0 /\ s.head <= Len(s.turns)
    BY DEF SessionOK, DraftOK, Drafts
  <2> QED
    BY <1>2, <2>1, TurnsType DEF SessionOK, Target
<1> QED
  BY <1>1, <1>2

LEMMA NextUserOK ==
  ASSUME NEW s, DraftOK(s), NEW from, NEW to
  PROVE  NextUser(s, from, to) \in {0} \cup DOMAIN s.turns
<1> DEFINE U == {i \in DOMAIN s.turns : from < i /\ i <= to /\ IsUser(s, i)}
<1>1. CASE U = {}
  BY <1>1 DEF NextUser
<1>2. CASE U # {}
  <2>1. U \in SUBSET Nat
    BY TurnsType
  <2>2. \E i \in U : \A j \in U : i <= j
    BY <1>2, <2>1, NatMin
  <2>3. NextUser(s, from, to) = CHOOSE i \in U : \A j \in U : i <= j
    BY <1>2 DEF NextUser
  <2> QED
    BY <2>2, <2>3
<1> QED
  BY <1>1, <1>2

LEMMA AutoPickOK ==
  ASSUME NEW s, SessionOK(s)
  PROVE  /\ AutoPick(s) \in {0} \cup DOMAIN s.turns
         /\ AutoPick(s) # 0 => s.ref = 0
<1>1. s.head # 0 => s.head \in DOMAIN s.turns
  BY TurnsType DEF SessionOK, DraftOK, Drafts
<1> QED
  BY <1>1, NextUserOK DEF AutoPick, SessionOK

LEMMA LastInOK ==
  ASSUME NEW s, DraftOK(s), NEW S \in SUBSET TurnStates
  PROVE  LastIn(s, S) # 0 => LastIn(s, S) \in Orders /\ s.st[LastIn(s, S)] \in S
<1> DEFINE P == {i \in DOMAIN s.turns : ~IsUser(s, i) /\ s.st[s.turns[i].t] \in S}
<1>1. CASE P = {}
  <2>1. LastIn(s, S) = 0
    BY <1>1, Zenon DEF LastIn
  <2> QED
    BY <2>1
<1>2. CASE P # {}
  <2>1. Len(s.turns) \in Nat /\ P \in SUBSET (1 .. Len(s.turns))
    BY TurnsType
  <2>2. \E i \in P : \A j \in P : j <= i
    BY <1>2, <2>1, NatMax
  <2>3. LastIn(s, S) = s.turns[CHOOSE i \in P : \A j \in P : j <= i].t
    BY <1>2 DEF LastIn
  <2>4. PICK i \in P : LastIn(s, S) = s.turns[i].t
    BY <2>2, <2>3
  <2>5. s.turns[i].t \in 0 .. MaxOrder /\ s.turns[i].t # 0
    BY <2>4, TurnsType DEF Turn, IsUser
  <2> QED
    BY <2>4, <2>5 DEF Orders
<1> QED
  BY <1>1, <1>2

(* Messages move between the pending submits and the turns.                *)
LEMMA QueueOK ==
  ASSUME NEW s, SessionOK(s), NEW m \in Msgs, Target(s) \in DOMAIN s.turns
  PROVE  SessionOK(QueuePending(s, m)) /\ SameBut(s, QueuePending(s, m), {"pend"})
<1> DEFINE a == QueuePending(s, m)
<1>1. Target(s) \in Nat
  BY TurnsType DEF SessionOK
<1>2. a.pend = s.pend \cup {<<Target(s), m>>}
  BY DEF QueuePending, SessionOK, DraftOK, Drafts
<1>3. a \in Drafts /\ SameBut(s, a, {"pend"})
  BY <1>1 DEF QueuePending, SessionOK, DraftOK, Drafts, SameBut
<1> HIDE DEF a
<1>4. \A p \in a.pend : p[1] \in DOMAIN a.turns
  BY <1>2, <1>3 DEF SameBut, SessionOK, DraftOK
<1>5. SessionOK(a)
  BY <1>3, <1>4 DEF SameBut, SessionOK, DraftOK, Recorded
<1> QED
  BY <1>3, <1>5 DEF a

LEMMA PendingType ==
  ASSUME NEW s, DraftOK(s), NEW i
  PROVE  /\ PendingOn(s, i) \subseteq Msgs
         /\ PendingOn(s, i) # {} => i \in DOMAIN s.turns
BY DEF PendingOn, DraftOK, Drafts

LEMMA DropPendingOK ==
  ASSUME NEW s, SessionOK(s), NEW i
  PROVE  SessionOK(DropPending(s, i)) /\ SameBut(s, DropPending(s, i), {"pend"})
<1> DEFINE a == DropPending(s, i)
<1>1. a.pend = {p \in s.pend : p[1] # i}
  BY DEF DropPending, SessionOK, DraftOK, Drafts
<1>2. a \in Drafts /\ SameBut(s, a, {"pend"})
  BY DEF DropPending, SessionOK, DraftOK, Drafts, SameBut
<1> HIDE DEF a
<1>3. SessionOK(a)
  BY <1>1, <1>2 DEF SameBut, SessionOK, DraftOK, Recorded
<1> QED
  BY <1>2, <1>3 DEF a

LEMMA ConsumeOK ==
  ASSUME NEW s, SessionOK(s), Target(s) \in DOMAIN s.turns
  PROVE  /\ SessionOK(Consume(s)) /\ Consume(s).turns # <<>>
         /\ SameBut(s, Consume(s), {"turns", "pend"})
<1> DEFINE i == Target(s)
           d == DropPending(s, i)
           e == [s.turns[i] EXCEPT !.ms = @ \cup PendingOn(s, i)]
           c == Consume(s)
<1>1. SessionOK(d) /\ SameBut(s, d, {"pend"})
  BY DropPendingOK
<1>2. s.turns \in Seq(Turn) /\ s.turns[i] \in Turn /\ i \in 1 .. Len(s.turns)
  BY TurnsType DEF SessionOK
<1>3. e \in Turn /\ e.t = s.turns[i].t
  BY <1>2, PendingType DEF Turn, SessionOK
<1>4. d.turns = s.turns /\ d \in Drafts
  BY <1>1 DEF SameBut, SessionOK, DraftOK
<1>5. c = [d EXCEPT !.turns = [s.turns EXCEPT ![i] = e]]
  BY <1>4 DEF Consume
<1>6. /\ [s.turns EXCEPT ![i] = e] \in Seq(Turn)
      /\ Len([s.turns EXCEPT ![i] = e]) = Len(s.turns)
      /\ \A j \in 1 .. Len(s.turns) :
           [s.turns EXCEPT ![i] = e][j] = IF j = i THEN e ELSE s.turns[j]
  BY <1>2, <1>3, ExceptSeq
<1> HIDE DEF c, d, e
<1>7. c \in Drafts /\ SameBut(d, c, {"turns"})
      /\ c.turns = [s.turns EXCEPT ![i] = e]
  BY <1>4, <1>5, <1>6 DEF Drafts, SameBut
<1>8. /\ DOMAIN c.turns = DOMAIN s.turns /\ Len(c.turns) = Len(s.turns)
      /\ \A j \in DOMAIN s.turns : c.turns[j].t = s.turns[j].t
  BY <1>3, <1>6, <1>7, TurnsType DEF SessionOK
<1>9. /\ c.st = s.st /\ c.head = s.head /\ c.ref = s.ref /\ c.next = s.next
      /\ c.pend = d.pend /\ d.st = s.st /\ d.head = s.head
  BY <1>1, <1>7 DEF SameBut
<1>10. DraftOK(c)
  BY <1>1, <1>4, <1>7, <1>8, <1>9 DEF SessionOK, DraftOK, Recorded
<1>11. s.head # 0 /\ c.turns # <<>>
  <2>1. Len(c.turns) # 0 /\ s.turns # <<>>
    BY <1>2, <1>8
  <2> QED
    BY <1>10, <2>1, TurnsType DEF SessionOK
<1>12. SameBut(s, c, {"turns", "pend"})
  BY <1>9 DEF SameBut
<1> QED
  BY <1>9, <1>10, <1>11, <1>12 DEF SessionOK, c

LEMMA ContextType ==
  ASSUME NEW s, DraftOK(s)
  PROVE  Context(s) \subseteq Msgs
<1>1. \A i \in DOMAIN s.turns : s.turns[i].ms \subseteq Msgs
  BY TurnsType DEF Turn
<1> QED
  BY <1>1 DEF Context

-----------------------------------------------------------------------------
(* What starting a turn does.                                              *)

\* No turn becomes or stops being terminal.
SameTerminal(s, s1) ==
  \A t \in Orders : s.st[t] \in Terminal \/ s1.st[t] \in Terminal
                      => s1.st[t] = s.st[t]

LEMMA StartedOK ==
  ASSUME NEW s, SessionOK(s), s.turns # <<>>, NEW name \in Orders
  PROVE  LET s1 == Started(s, name)
         IN /\ SessionOK(s1) /\ s1.turns # <<>>
            /\ RefLive(s1) /\ s1.ref \in {0, name}
            /\ s1.next \in {s.next, s.next + 1}
            /\ SameTerminal(s, s1)
<1> DEFINE n == IF s.st[name] \in Live THEN s.next ELSE s.next + 1
           u == [s EXCEPT !.ref = name, !.next = n]
           a == Apply(u, name, "running")
           s1 == Started(s, name)
<1>1. /\ s \in Drafts /\ name \in 0 .. MaxOrder /\ n \in Nat \ {0}
      /\ n \in {s.next, s.next + 1}
  BY DEF SessionOK, DraftOK, Drafts, Orders
<1>2. /\ u \in Drafts /\ u.turns = s.turns /\ u.st = s.st /\ u.head = s.head
      /\ u.pend = s.pend /\ u.ref = name /\ u.next = n
  BY <1>1 DEF Drafts
<1>3. s1 = IF CanTransition(s.st[name], "running") THEN a
           ELSE [u EXCEPT !.ref = 0]
  BY DEF Started
<1> HIDE DEF u, s1, n
<1>4. SessionOK(u) /\ u.turns # <<>>
  BY <1>2 DEF SessionOK, DraftOK, Recorded
<1>5. CASE CanTransition(s.st[name], "running")
  <2>1. "running" \in TurnStates \ {"none"}
    BY DEF TurnStates, Live
  <2>2. /\ SessionOK(a) /\ a.turns # <<>> /\ SameBut(u, a, {"st", "turns"})
        /\ a.st = [s.st EXCEPT ![name] = "running"]
    BY <1>2, <1>4, <1>5, <2>1, ApplyOK
  <2>3. a.ref = name /\ a.next = n
    BY <1>2, <2>2 DEF SameBut
  <2>4. s.st \in [Orders -> TurnStates]
    BY <1>1 DEF Drafts
  <2>5. RefLive(a)
    BY <2>2, <2>3, <2>4 DEF RefLive, Live
  <2>6. s.st[name] \in Terminal => s.st[name] = "running"
    BY <1>5 DEF CanTransition
  <2>7. SameTerminal(s, a)
    BY <2>2, <2>4, <2>6 DEF SameTerminal, Terminal
  <2> QED
    BY <1>1, <1>3, <1>5, <2>2, <2>3, <2>5, <2>7 DEF s1
<1>6. CASE ~CanTransition(s.st[name], "running")
  <2>1. 0 \in 0 .. MaxOrder
    BY AgentTurnAssumption
  <2>2. s1 = [u EXCEPT !.ref = 0]
    BY <1>3, <1>6
  <2>3. SessionOK(s1) /\ SameBut(u, s1, {"ref"}) /\ s1.ref = 0
    BY <1>4, <2>1, <2>2, SetRef
  <2>4. s1.turns = s.turns /\ s1.st = s.st /\ s1.next = n
    BY <1>2, <2>3 DEF SameBut
  <2> QED
    BY <1>1, <2>3, <2>4 DEF s1, RefLive, SameTerminal
<1> QED
  BY <1>5, <1>6

RunMsg == [turn : Orders, ctx : SUBSET Msgs]

LEMMA SpendOK ==
  ASSUME count \in [DOMAIN Bound -> Nat],
         NEW o \in {"stop", "pause", "resume", "crash", "fault"}, Spend(o)
  PROVE  count' \in [DOMAIN Bound -> Nat]
<1>1. o \in DOMAIN Bound
  BY DEF Bound
<1>2. count' = [count EXCEPT ![o] = @ + 1]
  BY DEF Spend
<1> QED
  BY <1>1, <1>2

LEMMA StartTurnOK ==
  ASSUME NEW s, SessionOK(s), s.turns # <<>>, RefLive(s),
         NEW saved, NEW name \in Orders \cup {s.next},
         runq \in Seq(RunMsg), count \in [DOMAIN Bound -> Nat],
         excused \subseteq Msgs, sent \subseteq Msgs,
         StartTurn(s, saved, name)
  PROVE  /\ SessionOK(sess') /\ sess'.turns # <<>> /\ RefLive(sess')
         /\ sess'.next <= MaxOrder /\ s.next <= MaxOrder
         /\ sess'.ref \in {0, s.ref, name}
         /\ SameTerminal(s, sess')
         /\ disk' \in {saved, Durable(sess')}
         /\ runq' \in Seq(RunMsg)
         /\ count' \in [DOMAIN Bound -> Nat]
         /\ excused' \subseteq Msgs
<1>1. CASE /\ sess' = Started(s, name)
           /\ IF Started(s, name).ref = 0
              THEN disk' = saved /\ UNCHANGED runq
              ELSE /\ disk' = Durable(Started(s, name))
                   /\ runq' = Append(runq, [turn |-> name,
                                            ctx |-> Context(Started(s, name))])
           /\ excused' = IF s.ref \in {0, name} THEN excused
                         ELSE excused \cup Unanswered
           /\ UNCHANGED count
           /\ Bounded
  <2>0. sess'.next \in {s.next, s.next + 1}
    <3>1. s \in Drafts
      BY DEF SessionOK, DraftOK
    <3>2. CASE CanTransition(s.st[name], "running")
      BY <1>1, <3>1, <3>2 DEF Started, Apply, Drafts
    <3>3. CASE ~CanTransition(s.st[name], "running")
      BY <1>1, <3>1, <3>3 DEF Started, Drafts
    <3> QED
      BY <3>2, <3>3
  <2>1. name \in Orders
    BY <1>1, <2>0, AgentTurnAssumption
    DEF Bounded, SessionOK, DraftOK, Drafts, Orders
  <2>2. /\ SessionOK(sess') /\ sess'.turns # <<>>
        /\ RefLive(sess') /\ sess'.ref \in {0, name} /\ SameTerminal(s, sess')
    BY <1>1, <2>1, StartedOK
  <2>3. Context(sess') \subseteq Msgs
    BY <2>2, ContextType DEF SessionOK
  <2>4. runq' \in Seq(RunMsg)
    <3>1. [turn |-> name, ctx |-> Context(sess')] \in RunMsg
      BY <2>1, <2>3 DEF RunMsg
    <3>2. Append(runq, [turn |-> name, ctx |-> Context(sess')]) \in Seq(RunMsg)
      BY <3>1, AppendProperties
    <3> QED
      BY <1>1, <3>2
  <2>5. s.next <= MaxOrder
    BY <1>1, <2>0, AgentTurnAssumption
    DEF Bounded, SessionOK, DraftOK, Drafts
  <2> QED
    BY <1>1, <2>2, <2>4, <2>5 DEF Bounded, Unanswered
<1>2. CASE /\ Spend("fault")
           /\ sess' = [s EXCEPT !.ref = IF @ = name THEN 0 ELSE @]
           /\ disk' = saved
           /\ excused' = excused \cup Unanswered
           /\ UNCHANGED runq
           /\ Bounded
  <2> DEFINE r == IF s.ref = name THEN 0 ELSE s.ref
  <2>1. r \in 0 .. MaxOrder /\ sess' = [s EXCEPT !.ref = r]
    BY <1>2, AgentTurnAssumption DEF SessionOK, DraftOK, Drafts
  <2>2. r \in {0, s.ref}
    OBVIOUS
  <2> HIDE DEF r
  <2>3. SessionOK(sess') /\ SameBut(s, sess', {"ref"}) /\ sess'.ref = r
    BY <2>1, SetRef
  <2>4. sess'.turns = s.turns /\ sess'.st = s.st
    BY <2>3 DEF SameBut
  <2>5. RefLive(sess') /\ SameTerminal(s, sess')
    BY <2>2, <2>3, <2>4 DEF RefLive, SameTerminal
  <2>6. count' \in [DOMAIN Bound -> Nat]
    BY <1>2, SpendOK
  <2> QED
    BY <1>2, <2>2, <2>3, <2>4, <2>5, <2>6 DEF Bounded, Unanswered
<1> QED
  BY <1>1, <1>2 DEF StartTurn

LEMMA PickUpOK ==
  ASSUME NEW s, SessionOK(s), s.turns # <<>>, RefLive(s),
         NEW saved, NEW i \in {0} \cup DOMAIN s.turns,
         i = 0 => s.next <= MaxOrder,
         runq \in Seq(RunMsg), count \in [DOMAIN Bound -> Nat],
         excused \subseteq Msgs, sent \subseteq Msgs,
         PickUp(s, saved, i)
  PROVE  /\ SessionOK(sess') /\ sess'.turns # <<>> /\ RefLive(sess')
         /\ sess'.next <= MaxOrder /\ s.next <= MaxOrder
         /\ SameTerminal(s, sess')
         /\ disk' \in {saved, Durable(sess')}
         /\ runq' \in Seq(RunMsg)
         /\ count' \in [DOMAIN Bound -> Nat]
         /\ excused' \subseteq Msgs
<1>1. CASE i = 0
  BY <1>1 DEF PickUp, SameTerminal
<1>2. CASE i # 0
  <2> DEFINE u == [s EXCEPT !.head = i]
  <2>1. StartTurn(u, saved, s.next)
    BY <1>2 DEF PickUp
  <2>2. SessionOK(u) /\ SameBut(s, u, {"head"})
    BY <1>2, SetHead DEF SessionOK
  <2> HIDE DEF u
  <2>3. u.turns = s.turns /\ u.st = s.st /\ u.ref = s.ref /\ u.next = s.next
    BY <2>2 DEF SameBut
  <2>4. u.turns # <<>> /\ RefLive(u) /\ s.next \in Orders \cup {u.next}
    BY <2>3 DEF RefLive
  <2>5. /\ SessionOK(sess') /\ sess'.turns # <<>> /\ RefLive(sess')
        /\ sess'.next <= MaxOrder /\ u.next <= MaxOrder
        /\ SameTerminal(u, sess')
        /\ disk' \in {saved, Durable(sess')}
        /\ runq' \in Seq(RunMsg)
        /\ count' \in [DOMAIN Bound -> Nat]
        /\ excused' \subseteq Msgs
    BY <2>1, <2>2, <2>4, StartTurnOK
  <2> QED
    BY <2>3, <2>5 DEF SameTerminal
<1> QED
  BY <1>1, <1>2

\* A turn that is running or paused is recorded in a session with turns.
LEMMA LiveTurn ==
  ASSUME NEW s, SessionOK(s), NEW t \in Orders, s.st[t] \in Live
  PROVE  /\ s.turns # <<>>
         /\ \A to \in TurnStates : CanTransition(s.st[t], to)
<1>1. Place(s, t) \in DOMAIN s.turns
  BY PlaceOK DEF SessionOK, Live
<1>2. s.turns # <<>>
  BY <1>1, TurnsType DEF SessionOK
<1> QED
  BY <1>2 DEF CanTransition, Live, Terminal

LEMMA RefTurn ==
  ASSUME NEW s, SessionOK(s), RefLive(s), s.ref # 0
  PROVE  s.ref \in Orders /\ s.st[s.ref] \in Live /\ s.turns # <<>>
<1>1. s.ref \in Orders
  BY DEF SessionOK, DraftOK, Drafts, Orders
<1> QED
  BY <1>1, LiveTurn DEF RefLive

(* A turn is brought to a state, with ActiveTurnRef set at the same time:  *)
(* what cancelling, completing, resuming and recovering have in common.    *)
Moved(s, r, t, to) == Apply([s EXCEPT !.ref = r], t, to)

MovedWell(s, s1, r, t, to) ==
  /\ SessionOK(s1) /\ s1.turns = s.turns /\ s1.turns # <<>>
  /\ s1.ref = r /\ s1.next = s.next
  /\ s1.st = [s.st EXCEPT ![t] = to]
  /\ s1.st[t] = to
  /\ RefLive(s1)
  /\ \A o \in Orders : s.st[o] \in Terminal => s1.st[o] = s.st[o]
  /\ to \in Live => SameTerminal(s, s1)

LEMMA MovedOK ==
  ASSUME NEW s, SessionOK(s), NEW t \in Orders, s.st[t] \in Live,
         NEW r \in {0, t}, NEW to \in TurnStates \ {"none"},
         r = t => to \in Live
  PROVE  MovedWell(s, Moved(s, r, t, to), r, t, to)
<1> DEFINE u == [s EXCEPT !.ref = r]
           s1 == Moved(s, r, t, to)
<1>1. r \in 0 .. MaxOrder
  BY AgentTurnAssumption DEF Orders
<1>2. SessionOK(u) /\ SameBut(s, u, {"ref"}) /\ u.ref = r
  BY <1>1, SetRef
<1> HIDE DEF u
<1>3. /\ u.turns = s.turns /\ u.st = s.st /\ u.next = s.next
      /\ s.st \in [Orders -> TurnStates]
  BY <1>2 DEF SameBut, SessionOK, DraftOK, Drafts
<1>4. u.turns # <<>> /\ CanTransition(u.st[t], to) /\ u.st[t] # "none"
  BY <1>3, LiveTurn DEF Live
<1>0. s1 = Apply(u, t, to)
  BY DEF u, Moved
<1> HIDE DEF s1
<1>5. /\ SessionOK(s1) /\ s1.turns = u.turns
      /\ SameBut(u, s1, {"st", "turns"})
      /\ s1.st = [u.st EXCEPT ![t] = to]
  BY <1>0, <1>2, <1>4, ApplyOK
<1>6. /\ s1.turns = s.turns /\ s1.turns # <<>> /\ s1.ref = r /\ s1.next = s.next
      /\ s1.st = [s.st EXCEPT ![t] = to]
  BY <1>2, <1>3, <1>4, <1>5 DEF SameBut
<1>7. s1.st[t] = to /\ \A o \in Orders \ {t} : s1.st[o] = s.st[o]
  BY <1>3, <1>6
<1>8. RefLive(s1)
  BY <1>6, <1>7 DEF RefLive
<1>9. s.st[t] \notin Terminal
  BY DEF Live, Terminal
<1>10. to \in Live => SameTerminal(s, s1)
  BY <1>7, <1>9 DEF SameTerminal, Live, Terminal
<1> QED
  BY <1>5, <1>6, <1>7, <1>8, <1>9, <1>10 DEF s1, MovedWell

LEMMA RecoveredOK ==
  ASSUME NEW s, SessionOK(s), s.ref = 0
  PROVE  /\ SessionOK(Recovered(s)) /\ RefLive(Recovered(s))
         /\ Recovered(s).next = s.next /\ SameTerminal(s, Recovered(s))
<1> DEFINE t == LastIn(s, Live)
<1>1. CASE t = 0
  BY <1>1 DEF Recovered, RefLive, SameTerminal
<1>2. CASE t # 0
  <2>1. Live \in SUBSET TurnStates /\ "paused" \in Live /\ "paused" # "none"
    BY DEF TurnStates, Live
  <2>2. t \in Orders /\ s.st[t] \in Live
    BY <1>2, <2>1, LastInOK DEF SessionOK
  <2>3. Recovered(s) = Moved(s, t, t, "paused")
    BY <1>2 DEF Recovered, Moved
  <2> HIDE DEF t
  <2>4. t \in {0, t} /\ "paused" \in TurnStates \ {"none"}
    BY <2>1
  <2>5. MovedWell(s, Recovered(s), t, t, "paused")
    BY <2>1, <2>2, <2>3, <2>4, MovedOK
  <2> QED
    BY <2>1, <2>5 DEF MovedWell
<1> QED
  BY <1>1, <1>2

-----------------------------------------------------------------------------
(* The inductive invariant. Beside the types it says that every handler    *)
(* finds the places it looks up (BusyOK: nothing is under way in an empty  *)
(* session), that a turn which is over is so on disk as well, and that a   *)
(* cancel which lost its turn to someone else lost it to the turn's end.   *)
StartMsg == [turn : Orders, msg : Msgs \cup {NoMsg}]

EngineType ==
  [turn : 0 .. MaxOrder, accepting : BOOLEAN, cancelled : BOOLEAN,
   pauseReq : BOOLEAN, token : BOOLEAN, reminded : BOOLEAN]

QueuesOK ==
  /\ starts \in Seq(StartMsg)
  /\ runq \in Seq(RunMsg)
  /\ engine \in EngineType

LoopsOK ==
  /\ xpc \in {"idle", "store", "run", "paused", "final", "exited", "complete",
              "clear", "auto"}
  /\ xrun \in [turn : 0 .. MaxOrder, ctx : SUBSET Msgs]
  /\ outcome \in {"none"} \cup Terminal
  /\ dpc \in {"idle", "submit", "wait", "commit"}
  /\ dmsg \in Msgs \cup {NoMsg}
  /\ judged \in {"none", "accepts", "cancelled", "busy"}
  /\ dturn \in 0 .. MaxOrder
  /\ dname \in 0 .. MaxOrder
  /\ (engine.turn = 0) = (xpc \in {"idle", "store", "auto"})
  /\ xpc # "idle" => xrun.turn \in Orders
  /\ xpc \in {"exited", "complete"} => outcome \in Terminal
  /\ dpc = "submit" => dmsg \in Msgs
  /\ dpc \in {"wait", "commit"} => dturn \in Orders

HistoryOK ==
  /\ sent \subseteq Msgs /\ seen \subseteq Msgs /\ excused \subseteq Msgs
  /\ stopped \subseteq Orders
  /\ count \in [DOMAIN Bound -> Nat]

BusyOK ==
  sess.turns = <<>> =>
    /\ starts = <<>> /\ runq = <<>> /\ xpc = "idle"
    /\ dpc \in {"idle", "submit"} /\ judged = "none"

SessOK == SessionOK(sess) /\ sess.next <= MaxOrder /\ RefLive(sess)

DiskOK ==
  /\ SessionOK(disk) /\ disk.next <= MaxOrder /\ disk.ref = 0
  /\ \A t \in Orders : sess.st[t] \in Terminal => disk.st[t] = sess.st[t]

CancelOK ==
  /\ \A t \in stopped : sess.st[t] \in Terminal
  /\ dpc \in {"wait", "commit"} /\ sess.ref # dturn
       => sess.st[dturn] \in Terminal

Inv ==
  QueuesOK /\ LoopsOK /\ HistoryOK /\ BusyOK /\ SessOK /\ DiskOK /\ CancelOK

LEMMA InvInit == Init => Inv
<1> SUFFICES ASSUME Init PROVE Inv
  OBVIOUS
<1> USE AgentTurnAssumption DEF Init
<1>1. SessionOK(EmptySession)
  BY DEF EmptySession, SessionOK, DraftOK, Drafts, Recorded, TurnStates
<1>2. /\ EmptySession.next = 1 /\ EmptySession.ref = 0 /\ EmptySession.turns = <<>>
      /\ \A t \in Orders : EmptySession.st[t] = "none"
  BY DEF EmptySession
<1>3. SessOK /\ DiskOK
  BY <1>1, <1>2 DEF SessOK, DiskOK, RefLive
<1>4. QueuesOK /\ LoopsOK
  BY DEF QueuesOK, LoopsOK, Engine, EngineType, NoRun
<1>5. HistoryOK
  BY DEF HistoryOK
<1>6. BusyOK /\ CancelOK
  BY DEF BusyOK, CancelOK
<1> QED
  BY <1>3, <1>4, <1>5, <1>6 DEF Inv

LEMMA InvType == Inv => TypeOK
<1> SUFFICES ASSUME Inv PROVE TypeOK
  OBVIOUS
<1> USE DEF Inv
<1>1. ASSUME NEW s, SessionOK(s), s.next <= MaxOrder
      PROVE  s \in Session /\ s.head <= Len(s.turns)
             /\ \A p \in s.pend : p[1] \in DOMAIN s.turns
  <2>1. s \in Drafts /\ s.next \in Orders
    BY <1>1, AgentTurnAssumption DEF SessionOK, DraftOK, Drafts, Orders
  <2>2. s \in Session
    BY <2>1 DEF Drafts, Session, Turn
  <2> QED
    BY <1>1, <2>2 DEF SessionOK, DraftOK
<1>2. \A s \in {sess, disk} :
        /\ s \in Session
        /\ s.head <= Len(s.turns)
        /\ \A p \in s.pend : p[1] \in DOMAIN s.turns
  BY <1>1 DEF SessOK, DiskOK
<1> QED
  BY <1>2 DEF TypeOK, QueuesOK, StartMsg, RunMsg, EngineType, LoopsOK, HistoryOK

-----------------------------------------------------------------------------
(* What the actions have in common.                                        *)

\* A turn that is over stays as it is in this step.
Kept == \A t \in Orders : sess.st[t] \in Terminal => sess'.st[t] = sess.st[t]

LEMMA Unmoved ==
  ASSUME SessOK, DiskOK, UNCHANGED <<sess, disk>>
  PROVE  SessOK' /\ DiskOK' /\ Kept
BY DEF SessOK, DiskOK, Kept

LEMMA Unsaved ==
  ASSUME DiskOK, UNCHANGED disk, SameTerminal(sess, sess')
  PROVE  DiskOK' /\ Kept
BY DEF DiskOK, Kept, SameTerminal

LEMMA SavedAs ==
  ASSUME NEW d, SessionOK(d), d.next <= MaxOrder, SameTerminal(d, sess'),
         disk' = Durable(d)
  PROVE  DiskOK'
<1>1. SessionOK(disk') /\ SameBut(d, disk', {"ref"}) /\ disk'.ref = 0
  BY DurableOK
<1>2. disk'.st = d.st /\ disk'.next = d.next
  BY <1>1 DEF SameBut
<1> QED
  BY <1>1, <1>2 DEF DiskOK, SameTerminal

LEMMA CancelKept ==
  ASSUME LoopsOK, HistoryOK, CancelOK, Kept, UNCHANGED stopped,
         dpc' \in {"wait", "commit"} =>
           /\ dpc \in {"wait", "commit"} /\ UNCHANGED dturn
           /\ \/ sess'.ref = sess.ref \/ sess.ref = 0
              \/ sess'.st[sess.ref] \in Terminal
  PROVE  CancelOK'
BY DEF LoopsOK, HistoryOK, CancelOK, Kept, Orders

LEMMA RequestOK ==
  ASSUME LoopsOK, QueuesOK, NEW t \in Orders, NEW name \in 0 .. MaxOrder,
         RequestCancel(t, name)
  PROVE  /\ engine' \in EngineType /\ engine'.turn = engine.turn
         /\ dturn' = t /\ dname' = name /\ dpc' \in {"wait", "commit"}
BY DEF RequestCancel, QueuesOK, EngineType

(* The actions that leave the session and the disk alone.                  *)
LEMMA QuietStep ==
  ASSUME Inv,
         \/ \E m \in Msgs : SubmitRead(m)
         \/ Stop \/ CancelTimesOut \/ Pause \/ RunTake \/ RunStore
         \/ StopAccepting \/ Remind \/ Finish \/ Fail \/ Abort \/ Exited
         \/ ClearEngine
  PROVE  Inv' /\ Kept
<1>1. UNCHANGED <<sess, disk, starts>>
  BY DEF SubmitRead, Stop, CancelTimesOut, Pause, RunTake, RunStore,
         StopAccepting, Remind, Finish, Fail, Abort, Exit, Exited, ClearEngine
<1>2. SessOK' /\ DiskOK' /\ Kept
  BY <1>1, Unmoved DEF Inv
<1> SUFFICES QueuesOK' /\ LoopsOK' /\ HistoryOK' /\ BusyOK' /\ CancelOK'
  BY <1>2 DEF Inv
<1> USE DEF Inv
<1>3. ASSUME NEW m \in Msgs, SubmitRead(m)
      PROVE  QueuesOK' /\ LoopsOK' /\ HistoryOK' /\ BusyOK' /\ CancelOK'
  <2>1. QueuesOK' /\ LoopsOK' /\ HistoryOK'
    BY <1>3 DEF SubmitRead, exec, QueuesOK, LoopsOK, HistoryOK
  <2>2. BusyOK'
    <3>1. sess.turns = <<>> => engine.turn = 0
      BY DEF BusyOK, LoopsOK
    <3>2. engine.turn = 0 => judged' = "none"
      BY <1>3 DEF SubmitRead
    <3> QED
      BY <1>3, <3>1, <3>2 DEF SubmitRead, exec, BusyOK
  <2>3. CancelOK'
    BY <1>2, <1>3, CancelKept DEF SubmitRead
  <2> QED
    BY <2>1, <2>2, <2>3
<1>4. CASE Stop
  <2>1. /\ sess.ref # 0 /\ RequestCancel(sess.ref, 0) /\ Spend("stop")
        /\ UNCHANGED <<sess, starts, runq, exec, dmsg, judged, history>>
    BY <1>4 DEF Stop
  <2>2. sess.ref \in Orders /\ sess.turns # <<>> /\ 0 \in 0 .. MaxOrder
    BY <2>1, RefTurn, AgentTurnAssumption DEF SessOK
  <2>3. /\ engine' \in EngineType /\ engine'.turn = engine.turn
        /\ dturn' = sess.ref /\ dname' = 0 /\ dpc' \in {"wait", "commit"}
    BY <2>1, <2>2, RequestOK
  <2>4. count' \in [DOMAIN Bound -> Nat]
    BY <2>1, SpendOK DEF HistoryOK
  <2>5. QueuesOK' /\ HistoryOK' /\ BusyOK' /\ CancelOK'
    BY <1>1, <2>1, <2>2, <2>3, <2>4
    DEF history, QueuesOK, HistoryOK, BusyOK, CancelOK
  <2>6. LoopsOK'
    BY <2>1, <2>2, <2>3 DEF exec, LoopsOK, Orders
  <2> QED
    BY <2>5, <2>6
<1>5. CASE CancelTimesOut
  <2>1. CancelOK'
    BY <1>2, <1>5, CancelKept DEF CancelTimesOut, history
  <2> QED
    BY <1>5, <2>1
    DEF CancelTimesOut, exec, history, QueuesOK, LoopsOK, HistoryOK, BusyOK
<1>6. CASE Pause
  <2>1. CancelOK'
    BY <1>2, <1>6, CancelKept DEF Pause, default, history
  <2>2. count' \in [DOMAIN Bound -> Nat]
    BY <1>6, SpendOK DEF HistoryOK, Pause
  <2> QED
    BY <1>6, <2>1, <2>2 DEF Pause, exec, default, history,
    QueuesOK, LoopsOK, HistoryOK, BusyOK, EngineType
<1>7. CASE RunTake
  <2>1. CancelOK'
    BY <1>2, <1>7, CancelKept DEF RunTake, default, history
  <2>2. Tail(runq) \in Seq(RunMsg) /\ Head(runq) \in RunMsg
    BY <1>7, HeadTailProperties DEF RunTake, QueuesOK
  <2>3. sess.turns # <<>>
    BY <1>7 DEF RunTake, BusyOK
  <2>4. QueuesOK' /\ HistoryOK' /\ BusyOK'
    BY <1>1, <1>7, <2>2, <2>3 DEF RunTake, history, QueuesOK, HistoryOK, BusyOK
  <2>5. LoopsOK'
    BY <1>7, <2>2 DEF RunTake, default, LoopsOK, RunMsg, Orders
  <2> QED
    BY <2>1, <2>4, <2>5
<1>8. CASE RunStore
  <2>1. CancelOK'
    BY <1>2, <1>8, CancelKept DEF RunStore, default, history
  <2>2. xrun.turn \in Orders /\ xrun.ctx \subseteq Msgs
    BY <1>8 DEF RunStore, LoopsOK
  <2> QED
    BY <1>8, <2>1, <2>2 DEF RunStore, Engine, EngineType, default,
    QueuesOK, LoopsOK, HistoryOK, BusyOK, Orders
<1>9. CASE StopAccepting \/ Remind
  <2>1. CancelOK'
    BY <1>2, <1>9, CancelKept DEF StopAccepting, Remind, default, history
  <2>2. engine' \in EngineType /\ engine'.turn = engine.turn
    BY <1>9 DEF StopAccepting, Remind, EngineType, QueuesOK
  <2>3. QueuesOK' /\ HistoryOK' /\ BusyOK'
    BY <1>9, <2>2 DEF StopAccepting, Remind, default, history,
    QueuesOK, HistoryOK, BusyOK
  <2>4. LoopsOK'
    BY <1>9, <2>2 DEF StopAccepting, Remind, default, LoopsOK
  <2> QED
    BY <2>1, <2>3, <2>4
<1>10. CASE Finish \/ Fail \/ Abort
  <2>1. PICK state \in Terminal :
          xpc \in {"run", "paused", "final"} /\ Exit(state)
    BY <1>10 DEF Finish, Fail, Abort, Terminal
  <2>2. CancelOK'
    BY <1>2, <2>1, CancelKept DEF Exit, history
  <2> QED
    BY <2>1, <2>2 DEF Exit, history, QueuesOK, LoopsOK, HistoryOK, BusyOK
<1>11. CASE Exited
  <2>1. CancelOK'
    BY <1>2, <1>11, CancelKept DEF Exited, default, history
  <2>2. 0 \in 0 .. MaxOrder
    BY AgentTurnAssumption
  <2>3. engine' \in EngineType
    <3>1. Engine(0) \in EngineType
      BY <2>2 DEF Engine, EngineType
    <3> QED
      BY <1>11, <3>1 DEF Exited, QueuesOK
  <2>5. QueuesOK' /\ HistoryOK'
    BY <1>11, <2>3 DEF Exited, default, history, QueuesOK, HistoryOK
  <2>6. BusyOK'
    BY <1>11 DEF Exited, BusyOK
  <2>4. LoopsOK'
    BY <1>11, <2>2 DEF Exited, ExecIdle, Engine, NoRun, default, LoopsOK
  <2> QED
    BY <2>1, <2>4, <2>5, <2>6
<1>12. CASE ClearEngine
  <2>1. CancelOK'
    BY <1>2, <1>12, CancelKept DEF ClearEngine, default, history
  <2>2. 0 \in 0 .. MaxOrder
    BY AgentTurnAssumption
  <2> QED
    BY <1>12, <2>1, <2>2 DEF ClearEngine, Engine, EngineType, default, history,
    QueuesOK, LoopsOK, HistoryOK, BusyOK
<1> QED
  BY <1>3, <1>4, <1>5, <1>6, <1>7, <1>8, <1>9, <1>10, <1>11, <1>12

(* The submits.                                                            *)
LEMMA SubmitQueuesStep == Inv /\ SubmitQueues => Inv' /\ Kept
<1> SUFFICES ASSUME Inv, SubmitQueues PROVE Inv' /\ Kept
  OBVIOUS
<1> USE DEF Inv
<1>1. dmsg \in Msgs /\ sess' = QueuePending(sess, dmsg) /\ disk' = Durable(sess')
  BY DEF SubmitQueues, LoopsOK
<1>2. sess.turns # <<>>
  <2>1. CASE judged = "accepts"
    BY <2>1 DEF BusyOK
  <2>2. CASE Resumable
    BY <2>2, RefTurn DEF Resumable, SessOK
  <2> QED
    BY <2>1, <2>2 DEF SubmitQueues, Queues
<1>3. SessionOK(sess') /\ SameBut(sess, sess', {"pend"})
  BY <1>1, <1>2, TargetOK, QueueOK DEF SessOK
<1>4. /\ sess'.turns = sess.turns /\ sess'.st = sess.st /\ sess'.ref = sess.ref
      /\ sess'.next = sess.next
  BY <1>3 DEF SameBut
<1>5. SessOK' /\ Kept
  BY <1>3, <1>4 DEF SessOK, RefLive, Kept
<1>6. DiskOK'
  <2>1. SameTerminal(sess', sess')
    BY DEF SameTerminal
  <2> QED
    BY <1>1, <1>3, <1>5, <2>1, SavedAs DEF SessOK
<1>7. CancelOK'
  BY <1>5, CancelKept DEF SubmitQueues
<1>8. QueuesOK' /\ HistoryOK' /\ BusyOK'
  BY <1>1, <1>2, <1>4 DEF SubmitQueues, QueuesOK, HistoryOK, BusyOK
<1>9. LoopsOK'
  BY DEF SubmitQueues, exec, LoopsOK
<1> QED
  BY <1>5, <1>6, <1>7, <1>8, <1>9

LEMMA SubmitBehindStep == Inv /\ SubmitBehind => Inv' /\ Kept
<1> SUFFICES ASSUME Inv, SubmitBehind PROVE Inv' /\ Kept
  OBVIOUS
<1> USE DEF Inv
<1>1. dmsg \in Msgs /\ sess' = CreateUser(sess, {dmsg}) /\ sess'.next <= MaxOrder
  BY DEF SubmitBehind, Bounded, LoopsOK
<1>2. sess.turns # <<>>
  BY DEF SubmitBehind, BusyOK
<1>3. DraftOK(sess') /\ sess'.turns # <<>> /\ SameBut(sess, sess', {"turns", "next"})
  <2>1. {dmsg} \in SUBSET Msgs /\ DraftOK(sess)
    BY <1>1 DEF SessOK, SessionOK
  <2> QED
    BY <1>1, <2>1, CreateUserOK
<1>4. sess'.st = sess.st /\ sess'.ref = sess.ref /\ sess'.head = sess.head
  BY <1>3 DEF SameBut
<1>5. SessionOK(sess') /\ SameTerminal(sess, sess')
  BY <1>2, <1>3, <1>4 DEF SessOK, SessionOK, SameTerminal
<1>6. SessOK'
  BY <1>1, <1>4, <1>5 DEF SessOK, RefLive
<1>7. DiskOK' /\ Kept
  BY <1>5, Unsaved DEF SubmitBehind
<1>8. CancelOK'
  BY <1>7, CancelKept DEF SubmitBehind
<1>9. starts' \in Seq(StartMsg)
  <2>1. [turn |-> sess'.next, msg |-> dmsg] \in StartMsg
    BY <1>1, <1>3, AgentTurnAssumption DEF StartMsg, DraftOK, Drafts, Orders
  <2>2. Append(starts, [turn |-> sess'.next, msg |-> dmsg]) \in Seq(StartMsg)
    BY <2>1, AppendProperties DEF QueuesOK
  <2> QED
    BY <2>2 DEF SubmitBehind, QueuesOK
<1>10. QueuesOK' /\ HistoryOK' /\ BusyOK'
  BY <1>1, <1>3, <1>9 DEF SubmitBehind, QueuesOK, HistoryOK, BusyOK
<1>11. LoopsOK'
  BY DEF SubmitBehind, exec, LoopsOK
<1> QED
  BY <1>6, <1>7, <1>8, <1>10, <1>11

LEMMA SubmitStartsStep == Inv /\ SubmitStarts => Inv' /\ Kept
<1> SUFFICES ASSUME Inv, SubmitStarts PROVE Inv' /\ Kept
  OBVIOUS
<1> USE DEF Inv
<1> DEFINE s == CreateUser(sess, {dmsg})
<1>1. dmsg \in Msgs /\ sess'.next <= MaxOrder
      /\ UNCHANGED <<runq, exec, judged, history, count>>
  BY DEF SubmitStarts, Bounded, LoopsOK
<1>2. DraftOK(s) /\ s.turns # <<>> /\ SameBut(sess, s, {"turns", "next"})
      /\ s.next = sess.next + 1
  <2>1. {dmsg} \in SUBSET Msgs /\ DraftOK(sess)
    BY <1>1 DEF SessOK, SessionOK
  <2> QED
    BY <2>1, CreateUserOK
<1>3. CASE sess.ref = 0
  <2>1. /\ sess' = Last(s) /\ disk' = Durable(sess')
        /\ starts' = Append(starts, [turn |-> s.next, msg |-> dmsg])
        /\ dpc' = "idle" /\ dmsg' = NoMsg /\ UNCHANGED <<engine, dturn, dname>>
    BY <1>3 DEF SubmitStarts
  <2> HIDE DEF s
  <2>2. SessionOK(sess') /\ SameBut(s, sess', {"head"})
    BY <1>2, <2>1, LastOK
  <2>3. /\ sess'.st = sess.st /\ sess'.ref = 0 /\ sess'.next = s.next
        /\ sess'.turns # <<>>
    BY <1>2, <1>3, <2>2 DEF SameBut
  <2>4. SessOK' /\ Kept /\ SameTerminal(sess', sess')
    BY <1>1, <2>2, <2>3 DEF SessOK, RefLive, Kept, SameTerminal
  <2>5. DiskOK'
    BY <1>1, <2>1, <2>2, <2>4, SavedAs
  <2>6. CancelOK'
    BY <1>1, <2>1, <2>4, CancelKept DEF history
  <2>7. starts' \in Seq(StartMsg)
    <3>1. [turn |-> s.next, msg |-> dmsg] \in StartMsg
      BY <1>1, <1>2, <2>3 DEF StartMsg, DraftOK, Drafts, Orders
    <3> QED
      BY <2>1, <3>1, AppendProperties DEF QueuesOK
  <2>8. QueuesOK' /\ HistoryOK' /\ BusyOK'
    BY <1>1, <2>1, <2>3, <2>7 DEF history, QueuesOK, HistoryOK, BusyOK
  <2>9. LoopsOK'
    BY <1>1, <2>1 DEF exec, LoopsOK
  <2> QED
    BY <2>4, <2>5, <2>6, <2>8, <2>9
<1>4. CASE sess.ref # 0
  <2>1. /\ sess' = s /\ RequestCancel(sess.ref, s.next)
        /\ UNCHANGED <<disk, starts, dmsg>>
    BY <1>4 DEF SubmitStarts
  <2> HIDE DEF s
  <2>2. sess.ref \in Orders /\ sess.turns # <<>>
    BY <1>4, RefTurn DEF SessOK
  <2>3. sess'.st = sess.st /\ sess'.ref = sess.ref /\ sess'.head = sess.head
    BY <1>2, <2>1 DEF SameBut
  <2>4. SessionOK(sess') /\ SameTerminal(sess, sess')
    BY <1>2, <2>1, <2>2, <2>3 DEF SessOK, SessionOK, SameTerminal
  <2>5. SessOK'
    BY <1>1, <2>3, <2>4 DEF SessOK, RefLive
  <2>6. DiskOK' /\ Kept
    BY <2>1, <2>4, Unsaved
  <2>7. s.next \in 0 .. MaxOrder
    BY <1>1, <1>2, <2>1 DEF DraftOK, Drafts
  <2>8. /\ engine' \in EngineType /\ engine'.turn = engine.turn
        /\ dturn' = sess.ref /\ dname' = s.next /\ dpc' \in {"wait", "commit"}
    BY <2>1, <2>2, <2>7, RequestOK
  <2>9. CancelOK' /\ QueuesOK' /\ HistoryOK' /\ BusyOK'
    BY <1>1, <1>2, <2>1, <2>2, <2>3, <2>8
    DEF history, CancelOK, QueuesOK, HistoryOK, BusyOK
  <2>10. LoopsOK'
    BY <1>1, <2>1, <2>2, <2>7, <2>8 DEF exec, LoopsOK, Orders
  <2> QED
    BY <2>5, <2>6, <2>9, <2>10
<1> QED
  BY <1>3, <1>4

(* The start of a turn, the end of a cancel and a resume.                  *)
LEMMA StartInternalStep == Inv /\ StartInternal => Inv' /\ Kept
<1> SUFFICES ASSUME Inv, StartInternal PROVE Inv' /\ Kept
  OBVIOUS
<1> USE DEF Inv
<1>1. PICK i \in DOMAIN starts :
        /\ starts' = SubSeq(starts, 1, i - 1)
                       \o SubSeq(starts, i + 1, Len(starts))
        /\ IF sess.st[starts[i].turn] = "cancelled"
           THEN UNCHANGED <<sess, disk, runq, excused, count>>
           ELSE StartTurn(sess, disk, starts[i].turn)
  BY DEF StartInternal
<1>2. dpc = "idle" /\ UNCHANGED <<engine, exec, default, sent, seen, stopped>>
  BY DEF StartInternal
<1>3. starts[i] \in StartMsg /\ starts' \in Seq(StartMsg) /\ sess.turns # <<>>
  <2>1. starts \in Seq(StartMsg) /\ i \in 1 .. Len(starts) /\ Len(starts) \in Nat
    BY <1>1, LenProperties DEF QueuesOK
  <2>2. /\ SubSeq(starts, 1, i - 1) \in Seq(StartMsg)
        /\ SubSeq(starts, i + 1, Len(starts)) \in Seq(StartMsg)
    BY <2>1, SubSeqProperties
  <2>3. starts' \in Seq(StartMsg)
    BY <1>1, <2>2, ConcatProperties
  <2>4. starts # <<>>
    BY <2>1, EmptySeq
  <2> QED
    BY <2>1, <2>3, <2>4, ElementOfSeq DEF BusyOK
<1> DEFINE t == starts[i].turn
<1>4. t \in Orders
  BY <1>3 DEF StartMsg
<1> HIDE DEF t
<1>5. /\ SessOK' /\ DiskOK' /\ Kept /\ sess'.turns # <<>>
      /\ runq' \in Seq(RunMsg) /\ count' \in [DOMAIN Bound -> Nat]
      /\ excused' \subseteq Msgs
  <2>1. CASE sess.st[t] = "cancelled"
    <3>1. UNCHANGED <<sess, disk, runq, excused, count>>
      BY <1>1, <2>1 DEF t
    <3> QED
      BY <1>3, <3>1, Unmoved DEF QueuesOK, HistoryOK
  <2>2. CASE sess.st[t] # "cancelled"
    <3>1. StartTurn(sess, disk, t)
      BY <1>1, <2>2 DEF t
    <3>2. /\ SessionOK(sess') /\ sess'.turns # <<>> /\ RefLive(sess')
          /\ sess'.next <= MaxOrder
          /\ SameTerminal(sess, sess')
          /\ disk' \in {disk, Durable(sess')}
          /\ runq' \in Seq(RunMsg)
          /\ count' \in [DOMAIN Bound -> Nat]
          /\ excused' \subseteq Msgs
      BY <1>3, <1>4, <3>1, StartTurnOK DEF SessOK, QueuesOK, HistoryOK
    <3>3. SameTerminal(sess', sess') /\ Kept
      BY <3>2 DEF SameTerminal, Kept
    <3>4. DiskOK'
      BY <3>2, <3>3, Unsaved, SavedAs
    <3> QED
      BY <3>2, <3>3, <3>4 DEF SessOK
  <2> QED
    BY <2>1, <2>2
<1>6. CancelOK'
  BY <1>2, <1>5, CancelKept DEF default
<1>7. QueuesOK' /\ HistoryOK' /\ BusyOK'
  BY <1>2, <1>3, <1>5 DEF QueuesOK, HistoryOK, BusyOK
<1>8. LoopsOK'
  BY <1>2 DEF exec, default, LoopsOK
<1> QED
  BY <1>5, <1>6, <1>7, <1>8

LEMMA CancelCommitStep == Inv /\ CancelCommit => Inv' /\ Kept
<1> SUFFICES ASSUME Inv, CancelCommit PROVE Inv' /\ Kept
  OBVIOUS
<1> USE DEF Inv
<1> DEFINE hit == sess.ref = dturn
           s == IF hit THEN CancelledSession(sess, dturn) ELSE sess
<1>1. /\ dpc = "commit" /\ DefaultIdle
      /\ UNCHANGED <<runq, engine, exec, sent, seen, count>>
  BY DEF CancelCommit
<1>2. dturn \in Orders /\ sess.turns # <<>>
  BY <1>1 DEF LoopsOK, BusyOK
<1>3. /\ SessionOK(s) /\ RefLive(s) /\ s.next = sess.next /\ s.turns # <<>>
      /\ s.st[dturn] \in Terminal
      /\ \A o \in Orders : sess.st[o] \in Terminal => s.st[o] = sess.st[o]
      /\ ~hit => s = sess
  <2>1. CASE ~hit
    BY <1>1, <1>2, <2>1 DEF SessOK, CancelOK
  <2>2. CASE hit
    <3>1. sess.st[dturn] \in Live
      BY <1>2, <2>2, RefTurn DEF SessOK, Orders
    <3> DEFINE c == Moved(sess, 0, dturn, "cancelled")
    <3>2. "cancelled" \in TurnStates \ {"none"} /\ "cancelled" \in Terminal
      BY DEF TurnStates, Terminal
    <3>3. 0 \in {0, dturn} /\ 0 # dturn
      BY <1>2 DEF Orders
    <3>4. MovedWell(sess, c, 0, dturn, "cancelled")
      BY <1>2, <3>1, <3>2, <3>3, MovedOK DEF SessOK
    <3>5. s = Last(c)
      BY <2>2 DEF CancelledSession, Moved
    <3> HIDE DEF c, s
    <3>6. SessionOK(s) /\ SameBut(c, s, {"head"})
      BY <3>4, <3>5, LastOK DEF MovedWell, SessionOK
    <3>7. s.st = c.st /\ s.ref = 0 /\ s.next = sess.next /\ s.turns # <<>>
      BY <3>4, <3>6 DEF SameBut, MovedWell
    <3> QED
      BY <2>2, <3>2, <3>4, <3>6, <3>7 DEF RefLive, MovedWell
  <2> QED
    BY <2>1, <2>2
<1>4. CASE dname = 0
  <2>1. /\ sess' = s /\ disk' = IF hit THEN Durable(s) ELSE disk
        /\ stopped' = stopped \cup {dturn}
        /\ excused' = IF hit THEN excused \cup Unanswered ELSE excused
        /\ UNCHANGED starts
    BY <1>4 DEF CancelCommit
  <2> HIDE DEF s
  <2>2. SessOK' /\ Kept /\ SameTerminal(s, sess')
    BY <1>3, <2>1 DEF SessOK, Kept, SameTerminal
  <2>3. DiskOK'
    <3>1. CASE hit
      BY <1>3, <2>1, <2>2, <3>1, SavedAs DEF SessOK
    <3>2. CASE ~hit
      BY <1>3, <2>1, <2>2, <3>2, Unsaved
    <3> QED
      BY <3>1, <3>2
  <2>4. CancelOK'
    BY <1>1, <1>3, <2>1, <2>2 DEF DefaultIdle, CancelOK, HistoryOK, Kept
  <2>5. QueuesOK' /\ HistoryOK' /\ BusyOK'
    BY <1>1, <1>2, <1>3, <2>1 DEF QueuesOK, HistoryOK, BusyOK, Unanswered
  <2>6. LoopsOK'
    BY <1>1, AgentTurnAssumption DEF DefaultIdle, exec, LoopsOK
  <2> QED
    BY <2>2, <2>3, <2>4, <2>5, <2>6
<1>5. CASE dname # 0
  <2>1. /\ sess' = Last(s) /\ disk' = Durable(sess')
        /\ starts' = Append(starts, [turn |-> dname, msg |-> dmsg])
        /\ excused' = excused \cup
             (IF hit THEN PendingOn(sess, Place(sess, dturn)) ELSE Unanswered)
        /\ UNCHANGED stopped
    BY <1>5 DEF CancelCommit
  <2> HIDE DEF s
  <2>2. SessionOK(sess') /\ SameBut(s, sess', {"head"})
    BY <1>3, <2>1, LastOK DEF SessionOK
  <2>3. /\ sess'.st = s.st /\ sess'.ref = s.ref /\ sess'.next = sess.next
        /\ sess'.turns # <<>>
    BY <1>3, <2>2 DEF SameBut
  <2>4. SessOK' /\ Kept /\ SameTerminal(sess', sess')
    BY <1>3, <2>2, <2>3 DEF SessOK, RefLive, Kept, SameTerminal
  <2>5. DiskOK'
    BY <2>1, <2>4, SavedAs DEF SessOK
  <2>6. CancelOK'
    BY <1>1, <2>1, <2>4, CancelKept DEF DefaultIdle
  <2>7. starts' \in Seq(StartMsg)
    <3>1. [turn |-> dname, msg |-> dmsg] \in StartMsg
      BY <1>5 DEF LoopsOK, StartMsg, Orders
    <3> QED
      BY <2>1, <3>1, AppendProperties DEF QueuesOK
  <2>8. excused' \subseteq Msgs
    BY <2>1, PendingType DEF SessOK, SessionOK, HistoryOK, Unanswered
  <2>9. QueuesOK' /\ HistoryOK' /\ BusyOK'
    BY <1>1, <2>1, <2>3, <2>7, <2>8 DEF QueuesOK, HistoryOK, BusyOK
  <2>10. LoopsOK'
    BY <1>1, AgentTurnAssumption DEF DefaultIdle, exec, LoopsOK
  <2> QED
    BY <2>4, <2>5, <2>6, <2>9, <2>10
<1> QED
  BY <1>4, <1>5

LEMMA ResumeStep == Inv /\ Resume => Inv' /\ Kept
<1> SUFFICES ASSUME Inv, Resume PROVE Inv' /\ Kept
  OBVIOUS
<1> USE DEF Inv
<1>1. dpc = "idle" /\ UNCHANGED <<runq, exec, default, sent, seen, stopped>>
  BY DEF Resume
<1>2. count' \in [DOMAIN Bound -> Nat]
  BY SpendOK DEF Resume, HistoryOK
<1>3. CASE engine.turn # 0
  <2>1. /\ engine' = [engine EXCEPT !.token = TRUE]
        /\ UNCHANGED <<sess, disk, starts, excused>>
    BY <1>3 DEF Resume
  <2>2. SessOK' /\ DiskOK' /\ Kept
    BY <2>1, Unmoved
  <2>3. CancelOK'
    BY <1>1, <2>2, CancelKept DEF default
  <2>4. engine' \in EngineType /\ engine'.turn = engine.turn
    BY <2>1 DEF QueuesOK, EngineType
  <2>5. QueuesOK' /\ HistoryOK' /\ BusyOK'
    BY <1>1, <1>2, <2>1, <2>4 DEF exec, default, QueuesOK, HistoryOK, BusyOK
  <2>6. LoopsOK'
    BY <1>1, <2>4 DEF exec, default, LoopsOK
  <2> QED
    BY <2>2, <2>3, <2>5, <2>6
<1>4. CASE engine.turn = 0
  <2> DEFINE t == IF sess.ref # 0 THEN sess.ref ELSE LastIn(sess, {"paused"})
             s == Moved(sess, t, t, "running")
  <2>1. /\ t # 0 /\ sess' = Last(s) /\ disk' = Durable(s)
        /\ starts' = Append(starts, [turn |-> t, msg |-> NoMsg])
        /\ excused' = IF sess.st[t] = "running"
                      THEN excused \cup Unanswered ELSE excused
        /\ UNCHANGED engine
    BY <1>4 DEF Resume, Moved
  <2>2. t \in Orders /\ sess.st[t] \in Live
    <3>1. CASE sess.ref # 0
      BY <3>1, RefTurn DEF SessOK
    <3>2. CASE sess.ref = 0
      <4>1. {"paused"} \in SUBSET TurnStates /\ "paused" \in Live
        BY DEF TurnStates, Live
      <4>2. LastIn(sess, {"paused"}) # 0
        BY <2>1, <3>2
      <4>3. LastIn(sess, {"paused"}) \in Orders
            /\ sess.st[LastIn(sess, {"paused"})] \in {"paused"}
        BY <4>1, <4>2, LastInOK DEF SessOK, SessionOK
      <4> QED
        BY <3>2, <4>1, <4>3
    <3> QED
      BY <3>1, <3>2
  <2> HIDE DEF t
  <2>3. /\ t \in {0, t} /\ "running" \in TurnStates \ {"none"}
        /\ "running" \in Live
    BY DEF TurnStates, Live
  <2>4. MovedWell(sess, s, t, t, "running")
    BY <2>2, <2>3, MovedOK DEF SessOK
  <2> HIDE DEF s
  <2>5. SessionOK(sess') /\ SameBut(s, sess', {"head"})
    BY <2>1, <2>4, LastOK DEF MovedWell, SessionOK
  <2>6. /\ sess'.st = s.st /\ sess'.ref = s.ref /\ sess'.next = sess.next
        /\ sess'.turns # <<>>
    BY <2>4, <2>5 DEF MovedWell, SameBut
  <2>7. SessOK' /\ Kept /\ SameTerminal(s, sess')
    BY <2>4, <2>5, <2>6 DEF MovedWell, SessOK, RefLive, Kept, SameTerminal
  <2>8. DiskOK'
    BY <2>1, <2>4, <2>7, SavedAs DEF MovedWell, SessOK
  <2>9. CancelOK'
    BY <1>1, <2>7, CancelKept DEF default
  <2>10. starts' \in Seq(StartMsg)
    <3>1. [turn |-> t, msg |-> NoMsg] \in StartMsg
      BY <2>2 DEF StartMsg
    <3> QED
      BY <2>1, <3>1, AppendProperties DEF QueuesOK
  <2>11. QueuesOK' /\ HistoryOK' /\ BusyOK'
    BY <1>1, <1>2, <2>1, <2>6, <2>10 DEF QueuesOK, HistoryOK, BusyOK, Unanswered
  <2>12. LoopsOK'
    BY <1>1, <2>1 DEF exec, default, LoopsOK
  <2> QED
    BY <2>7, <2>8, <2>9, <2>11, <2>12
<1> QED
  BY <1>3, <1>4

(* The exec loop.                                                          *)
LEMMA IngestStep == Inv /\ Ingest => Inv' /\ Kept
<1> SUFFICES ASSUME Inv, Ingest PROVE Inv' /\ Kept
  OBVIOUS
<1> USE DEF Inv
<1>1. /\ xpc = "run" /\ sess' = Consume(sess)
      /\ seen' = seen \cup PendingOn(sess, Target(sess))
      /\ UNCHANGED <<disk, starts, runq, engine, exec, default, sent, excused,
                     stopped, count>>
  BY DEF Ingest
<1>2. sess.turns # <<>>
  BY <1>1 DEF BusyOK
<1>3. SessionOK(sess') /\ sess'.turns # <<>> /\ SameBut(sess, sess', {"turns", "pend"})
  BY <1>1, <1>2, TargetOK, ConsumeOK DEF SessOK
<1>4. sess'.st = sess.st /\ sess'.ref = sess.ref /\ sess'.next = sess.next
  BY <1>3 DEF SameBut
<1>5. SessOK' /\ SameTerminal(sess, sess')
  BY <1>3, <1>4 DEF SessOK, RefLive, SameTerminal
<1>6. DiskOK' /\ Kept
  BY <1>1, <1>5, Unsaved
<1>7. CancelOK'
  BY <1>1, <1>4, <1>6, CancelKept DEF default
<1>8. seen' \subseteq Msgs
  BY <1>1, PendingType DEF SessOK, SessionOK, HistoryOK
<1>9. QueuesOK' /\ HistoryOK' /\ BusyOK'
  BY <1>1, <1>3, <1>8 DEF QueuesOK, HistoryOK, BusyOK
<1>10. LoopsOK'
  BY <1>1 DEF exec, default, LoopsOK
<1> QED
  BY <1>5, <1>6, <1>7, <1>9, <1>10

LEMMA CheckpointStep == Inv /\ Checkpoint => Inv' /\ Kept
<1> SUFFICES ASSUME Inv, Checkpoint PROVE Inv' /\ Kept
  OBVIOUS
<1> USE DEF Inv
<1>1. /\ disk' = Durable(sess)
      /\ UNCHANGED <<sess, starts, runq, engine, exec, default, history, count>>
  BY DEF Checkpoint
<1>2. SessOK' /\ Kept /\ SameTerminal(sess, sess')
  BY <1>1 DEF SessOK, Kept, SameTerminal
<1>3. DiskOK'
  BY <1>1, <1>2, SavedAs DEF SessOK
<1>4. CancelOK'
  BY <1>1, <1>2, CancelKept DEF default, history
<1>5. QueuesOK' /\ HistoryOK' /\ BusyOK'
  BY <1>1 DEF exec, default, history, QueuesOK, HistoryOK, BusyOK
<1>6. LoopsOK'
  BY <1>1 DEF exec, default, LoopsOK
<1> QED
  BY <1>2, <1>3, <1>4, <1>5, <1>6

\* The turn of the run is brought to a state in which it goes on, unless it
\* is over.
LEMMA LivedOn ==
  ASSUME Inv, NEW to \in Live, xpc # "idle",
         sess' = Apply(sess, xrun.turn, to),
         disk' = SavedUnlessRefused(xrun.turn, to)
  PROVE  /\ SessOK' /\ DiskOK' /\ Kept
         /\ sess'.turns # <<>> /\ sess'.ref = sess.ref
<1> USE DEF Inv
<1> DEFINE t == xrun.turn
<1>1. t \in Orders /\ sess.turns # <<>> /\ to \in TurnStates \ {"none"}
  BY DEF LoopsOK, BusyOK, TurnStates, Live
<1> HIDE DEF t
<1>2. /\ SessionOK(sess') /\ sess'.turns # <<>>
      /\ SameBut(sess, sess', {"st", "turns"})
      /\ sess'.st = IF CanTransition(sess.st[t], to)
                    THEN [sess.st EXCEPT ![t] = to] ELSE sess.st
  BY <1>1, ApplyOK DEF SessOK, t
<1>3. sess'.ref = sess.ref /\ sess'.next = sess.next
  BY <1>2 DEF SameBut
<1>4. CASE CanTransition(sess.st[t], to)
  <2>1. sess.st \in [Orders -> TurnStates]
    BY DEF SessOK, SessionOK, DraftOK, Drafts
  <2>2. sess'.st[t] = to /\ \A o \in Orders \ {t} : sess'.st[o] = sess.st[o]
    BY <1>1, <1>2, <1>4, <2>1
  <2>3. sess.st[t] \notin Terminal
    BY <1>4 DEF CanTransition, Terminal, Live
  <2>4. RefLive(sess') /\ Kept
    BY <1>3, <2>2, <2>3 DEF RefLive, Kept, SessOK, SessionOK, DraftOK, Drafts, Orders
  <2>5. disk' = Durable(sess') /\ SameTerminal(sess', sess')
    BY <1>4 DEF SavedUnlessRefused, SameTerminal, t
  <2>6. SessOK'
    BY <1>2, <1>3, <2>4 DEF SessOK
  <2>7. DiskOK'
    BY <2>5, <2>6, SavedAs DEF SessOK
  <2> QED
    BY <1>2, <1>3, <2>4, <2>6, <2>7
<1>5. CASE ~CanTransition(sess.st[t], to)
  <2>1. UNCHANGED <<sess, disk>>
    BY <1>5 DEF SavedUnlessRefused, Apply, t
  <2> QED
    BY <1>2, <1>3, <2>1, Unmoved
<1> QED
  BY <1>4, <1>5

LEMMA PauseStep == Inv /\ (PauseHere \/ Wake) => Inv' /\ Kept
<1> SUFFICES ASSUME Inv, PauseHere \/ Wake PROVE Inv' /\ Kept
  OBVIOUS
<1>1. PICK to \in Live : /\ sess' = Apply(sess, xrun.turn, to)
                         /\ disk' = SavedUnlessRefused(xrun.turn, to)
  BY DEF PauseHere, Wake, Live
<1>2. /\ xpc \in {"run", "paused"} /\ xpc' \in {"run", "paused"}
      /\ UNCHANGED <<starts, runq, xrun, outcome, default, history, count>>
  BY DEF PauseHere, Wake
<1>3. SessOK' /\ DiskOK' /\ Kept /\ sess'.turns # <<>> /\ sess'.ref = sess.ref
  BY <1>1, <1>2, LivedOn
<1> USE DEF Inv
<1>4. engine' \in EngineType /\ engine'.turn = engine.turn
  BY DEF PauseHere, Wake, QueuesOK, EngineType
<1>5. CancelOK'
  BY <1>2, <1>3, CancelKept DEF default, history
<1>6. QueuesOK' /\ HistoryOK' /\ BusyOK'
  BY <1>2, <1>3, <1>4 DEF history, QueuesOK, HistoryOK, BusyOK
<1>7. LoopsOK'
  BY <1>2, <1>4 DEF default, LoopsOK
<1> QED
  BY <1>3, <1>5, <1>6, <1>7

LEMMA CompleteStep == Inv /\ Complete => Inv' /\ Kept
<1> SUFFICES ASSUME Inv, Complete PROVE Inv' /\ Kept
  OBVIOUS
<1> USE DEF Inv
<1>1. /\ xpc = "complete" /\ xpc' = "clear"
      /\ UNCHANGED <<starts, engine, xrun, outcome, default, sent, seen, stopped>>
  BY DEF Complete
<1>2. outcome \in Terminal /\ xrun.turn \in Orders /\ sess.turns # <<>>
  BY <1>1 DEF LoopsOK, BusyOK
<1>3. /\ SessOK' /\ DiskOK' /\ Kept /\ sess'.turns # <<>>
      /\ runq' \in Seq(RunMsg) /\ count' \in [DOMAIN Bound -> Nat]
      /\ excused' \subseteq Msgs
      /\ sess'.ref = sess.ref \/ sess'.st[sess.ref] \in Terminal
  <2>1. CASE sess.ref # xrun.turn
    <3>1. UNCHANGED <<sess, disk, runq, excused, count>>
      BY <2>1 DEF Complete
    <3> QED
      BY <1>2, <3>1, Unmoved DEF QueuesOK, HistoryOK
  <2>2. CASE sess.ref = xrun.turn
    <3> DEFINE t == xrun.turn
               c == Moved(sess, 0, t, outcome)
               s == Completed(sess)
               i == Place(s, t)
               p == Promoted(s, i)
               n == IF NextUser(s, sess.head, Len(s.turns) - 1) # 0
                    THEN NextUser(s, sess.head, Len(s.turns) - 1)
                    ELSE AutoPick(s)
    <3>1. IF PendingOn(s, i) # {} THEN PickUp(p, Durable(p), p.head)
                                  ELSE PickUp(s, Durable(s), n)
      BY <2>2 DEF Complete
    <3>2. sess.st[t] \in Live
      BY <1>2, <2>2, RefTurn DEF SessOK, Orders
    <3>3. 0 \in {0, t} /\ 0 # t /\ outcome \in TurnStates \ {"none"}
      BY <1>2 DEF Orders, TurnStates, Terminal
    <3>4. MovedWell(sess, c, 0, t, outcome)
      BY <1>2, <3>2, <3>3, MovedOK DEF SessOK
    <3>5. s = Last(c)
      BY DEF Completed, Moved
    <3> HIDE DEF c, s
    <3>6. SessionOK(s) /\ SameBut(c, s, {"head"})
      BY <3>4, <3>5, LastOK DEF MovedWell, SessionOK
    <3>7. /\ s.st = c.st /\ s.ref = 0 /\ s.next = sess.next /\ s.turns # <<>>
          /\ s.st[t] \in Terminal /\ RefLive(s)
          /\ \A o \in Orders : sess.st[o] \in Terminal => s.st[o] = sess.st[o]
      BY <1>2, <3>4, <3>6 DEF SameBut, MovedWell, RefLive
    <3>8. \E u : /\ SessionOK(u) /\ u.st = s.st /\ u.turns # <<>> /\ RefLive(u)
                 /\ \E j \in {0} \cup DOMAIN u.turns :
                      /\ j = 0 => u.next <= MaxOrder
                      /\ PickUp(u, Durable(u), j)
      <4>1. CASE PendingOn(s, i) # {}
        <5> DEFINE d == DropPending(s, i)
                   q == CreateUser(d, PendingOn(s, i))
        <5>1. SessionOK(d) /\ SameBut(s, d, {"pend"})
          BY <3>6, DropPendingOK
        <5>2. PendingOn(s, i) \in SUBSET Msgs
          BY <3>6, PendingType DEF SessionOK
        <5> HIDE DEF d
        <5>3. DraftOK(q) /\ q.turns # <<>> /\ SameBut(d, q, {"turns", "next"})
          BY <5>1, <5>2, CreateUserOK DEF SessionOK
        <5>4. p = Last(q)
          BY DEF Promoted, d
        <5> HIDE DEF p, q
        <5>5. SessionOK(p) /\ SameBut(q, p, {"head"}) /\ p.head = Len(q.turns)
          BY <5>3, <5>4, LastOK
        <5>6. p.st = s.st /\ p.ref = 0 /\ p.turns # <<>> /\ p.turns = q.turns
          BY <3>7, <5>1, <5>3, <5>5 DEF SameBut
        <5>7. p.head # 0 /\ p.head \in DOMAIN p.turns
          BY <5>5, <5>6, TurnsType DEF SessionOK
        <5>8. RefLive(p) /\ PickUp(p, Durable(p), p.head)
          BY <3>1, <4>1, <5>6 DEF RefLive
        <5> QED
          BY <5>5, <5>6, <5>7, <5>8
      <4>2. CASE PendingOn(s, i) = {}
        <5>1. n \in {0} \cup DOMAIN s.turns
          BY <3>6, NextUserOK, AutoPickOK DEF SessionOK
        <5>2. PickUp(s, Durable(s), n)
          BY <3>1, <4>2
        <5>3. s.next <= MaxOrder
          BY <3>7 DEF SessOK
        <5> HIDE DEF n
        <5> QED
          BY <3>6, <3>7, <5>1, <5>2, <5>3
      <4> QED
        BY <4>1, <4>2
    <3>9. PICK u : /\ SessionOK(u) /\ u.st = s.st /\ u.turns # <<>> /\ RefLive(u)
                   /\ \E j \in {0} \cup DOMAIN u.turns :
                        /\ j = 0 => u.next <= MaxOrder
                        /\ PickUp(u, Durable(u), j)
      BY <3>8
    <3>10. PICK j \in {0} \cup DOMAIN u.turns :
             (j = 0 => u.next <= MaxOrder) /\ PickUp(u, Durable(u), j)
      BY <3>9
    <3>11. /\ SessionOK(sess') /\ sess'.turns # <<>> /\ RefLive(sess')
           /\ sess'.next <= MaxOrder /\ u.next <= MaxOrder
           /\ SameTerminal(u, sess')
           /\ disk' \in {Durable(u), Durable(sess')}
           /\ runq' \in Seq(RunMsg)
           /\ count' \in [DOMAIN Bound -> Nat]
           /\ excused' \subseteq Msgs
      BY <3>9, <3>10, PickUpOK DEF QueuesOK, HistoryOK
    <3>12. Kept /\ sess'.st[t] \in Terminal
      BY <1>2, <3>7, <3>9, <3>11 DEF SameTerminal, Kept
    <3>13. DiskOK'
      <4>1. SameTerminal(sess', sess')
        BY DEF SameTerminal
      <4>2. CASE disk' = Durable(u)
        BY <3>9, <3>11, <4>2, SavedAs
      <4>3. CASE disk' = Durable(sess')
        BY <3>11, <4>1, <4>3, SavedAs
      <4> QED
        BY <3>11, <4>2, <4>3
    <3> QED
      BY <2>2, <3>11, <3>12, <3>13 DEF SessOK
  <2> QED
    BY <2>1, <2>2
<1>4. CancelOK'
  BY <1>1, <1>3, CancelKept DEF default
<1>5. QueuesOK' /\ HistoryOK' /\ BusyOK'
  BY <1>1, <1>3 DEF QueuesOK, HistoryOK, BusyOK
<1>6. LoopsOK'
  BY <1>1 DEF default, LoopsOK
<1> QED
  BY <1>3, <1>4, <1>5, <1>6

LEMMA AutoStartStep == Inv /\ AutoStart => Inv' /\ Kept
<1> SUFFICES ASSUME Inv, AutoStart PROVE Inv' /\ Kept
  OBVIOUS
<1> USE DEF Inv
<1>1. /\ xpc = "auto" /\ ExecIdle /\ PickUp(sess, disk, AutoPick(sess))
      /\ UNCHANGED <<starts, engine, default, sent, seen, stopped>>
  BY DEF AutoStart
<1>2. sess.turns # <<>>
  BY <1>1 DEF BusyOK
<1> DEFINE i == AutoPick(sess)
<1>3. i \in {0} \cup DOMAIN sess.turns /\ (i # 0 => sess.ref = 0)
  BY AutoPickOK DEF SessOK
<1> HIDE DEF i
<1>4. /\ SessionOK(sess') /\ sess'.turns # <<>> /\ RefLive(sess')
      /\ sess'.next <= MaxOrder
      /\ SameTerminal(sess, sess')
      /\ disk' \in {disk, Durable(sess')}
      /\ runq' \in Seq(RunMsg)
      /\ count' \in [DOMAIN Bound -> Nat]
      /\ excused' \subseteq Msgs
  BY <1>1, <1>2, <1>3, PickUpOK DEF SessOK, QueuesOK, HistoryOK, i
<1>5. SameTerminal(sess', sess') /\ Kept /\ SessOK'
  BY <1>4 DEF SameTerminal, Kept, SessOK
<1>6. DiskOK'
  BY <1>4, <1>5, Unsaved, SavedAs
<1>7. sess'.ref = sess.ref \/ sess.ref = 0
  BY <1>1, <1>3 DEF PickUp, i
<1>8. CancelOK'
  BY <1>1, <1>5, <1>7, CancelKept DEF default
<1>9. QueuesOK' /\ HistoryOK' /\ BusyOK'
  BY <1>1, <1>4 DEF QueuesOK, HistoryOK, BusyOK
<1>10. LoopsOK'
  BY <1>1, AgentTurnAssumption DEF ExecIdle, NoRun, default, LoopsOK
<1> QED
  BY <1>5, <1>6, <1>8, <1>9, <1>10

(* A restart.                                                              *)
LEMMA RestartStep ==
  ASSUME Inv, NEW saved \in {disk, Durable(sess)}, Restart(saved)
  PROVE  Inv' /\ Kept
<1> USE DEF Inv
<1>1. SessionOK(saved) /\ saved.ref = 0 /\ saved.next <= MaxOrder
      /\ \A t \in Orders : sess.st[t] \in Terminal => saved.st[t] = sess.st[t]
  <2>1. SessionOK(Durable(sess)) /\ SameBut(sess, Durable(sess), {"ref"})
        /\ Durable(sess).ref = 0
    BY DurableOK DEF SessOK
  <2> QED
    BY <2>1 DEF SessOK, DiskOK, SameBut
<1>2. /\ sess' = Recovered(saved) /\ disk' = Durable(sess')
      /\ starts' = <<>> /\ runq' = <<>> /\ engine' = Engine(0)
      /\ ExecIdle /\ DefaultIdle /\ Spend("crash")
      /\ excused' \subseteq excused \cup Unanswered
      /\ UNCHANGED <<sent, seen, stopped>>
  BY DEF Restart
<1>3. SessionOK(sess') /\ RefLive(sess') /\ sess'.next = saved.next
      /\ SameTerminal(saved, sess')
  BY <1>1, <1>2, RecoveredOK
<1>4. SessOK' /\ Kept /\ SameTerminal(sess', sess')
  BY <1>1, <1>3 DEF SessOK, Kept, SameTerminal
<1>5. DiskOK'
  BY <1>2, <1>4, SavedAs DEF SessOK
<1>6. CancelOK'
  BY <1>2, <1>4, CancelKept DEF DefaultIdle
<1>7. count' \in [DOMAIN Bound -> Nat]
  BY <1>2, SpendOK DEF HistoryOK
<1>8. Engine(0) \in EngineType /\ 0 \in 0 .. MaxOrder
  BY AgentTurnAssumption DEF Engine, EngineType
<1>9. QueuesOK' /\ HistoryOK' /\ BusyOK'
  BY <1>2, <1>7, <1>8
  DEF ExecIdle, DefaultIdle, QueuesOK, HistoryOK, BusyOK, Unanswered
<1>10. LoopsOK'
  BY <1>2, <1>8 DEF ExecIdle, DefaultIdle, NoRun, Engine, LoopsOK
<1> QED
  BY <1>4, <1>5, <1>6, <1>9, <1>10

LEMMA InvStep == Inv /\ [Next]_vars => Inv' /\ Kept
<1> SUFFICES ASSUME Inv, [Next]_vars PROVE Inv' /\ Kept
  OBVIOUS
<1>1. CASE DefaultStep
  <2>1. CASE SubmitQueues \/ SubmitBehind \/ SubmitStarts
    BY <2>1, SubmitQueuesStep, SubmitBehindStep, SubmitStartsStep
  <2>2. CASE StartInternal \/ CancelCommit
    BY <2>2, StartInternalStep, CancelCommitStep
  <2>3. CASE CancelTimesOut
    BY <2>3, QuietStep
  <2> QED
    BY <1>1, <2>1, <2>2, <2>3 DEF DefaultStep
<1>2. CASE ExecStep
  <2>1. CASE \/ RunTake \/ RunStore \/ StopAccepting \/ Remind \/ Finish \/ Fail
             \/ Abort \/ Exited \/ ClearEngine
    BY <2>1, QuietStep
  <2>2. CASE Ingest \/ Checkpoint
    BY <2>2, IngestStep, CheckpointStep
  <2>3. CASE PauseHere \/ Wake
    BY <2>3, PauseStep
  <2>4. CASE Complete \/ AutoStart
    BY <2>4, CompleteStep, AutoStartStep
  <2> QED
    BY <1>2, <2>1, <2>2, <2>3, <2>4 DEF ExecStep
<1>3. CASE (\E m \in Msgs : SubmitRead(m)) \/ Stop \/ Pause
  BY <1>3, QuietStep
<1>4. CASE Resume
  BY <1>4, ResumeStep
<1>5. ASSUME NEW saved \in {disk, Durable(sess)}, Restart(saved)
      PROVE  Inv' /\ Kept
  BY <1>5, RestartStep
<1>6. CASE UNCHANGED vars
  <2>1. UNCHANGED <<sess, disk, starts, runq, engine, xpc, xrun, outcome, dpc,
                    dmsg, judged, dturn, dname, sent, seen, excused, stopped,
                    count>>
    BY <1>6 DEF vars, exec, default, history
  <2> QED
    BY <2>1 DEF Inv, QueuesOK, LoopsOK, HistoryOK, BusyOK, SessOK, DiskOK,
    CancelOK, Kept
<1> QED
  BY <1>1, <1>2, <1>3, <1>4, <1>5, <1>6 DEF Next

-----------------------------------------------------------------------------
(* The theorems.                                                           *)

LEMMA Invariance == Spec => []Inv
<1>1. Inv /\ [Next]_vars => Inv'
  BY InvStep
<1> QED
  BY InvInit, <1>1, PTL DEF Spec

\* The state keeps its types, ActiveHead and the pending submits name places
\* of the session, and the engine pointer is set exactly while a run needs it.
THEOREM TypeCorrect == Spec => []TypeOK
BY Invariance, InvType, PTL

\* Whatever the two loops do to each other, the active turn is one that is
\* running or paused.
THEOREM ActiveTurnIsLive == Spec => []RefIsLive
<1>1. Inv => RefIsLive
  BY DEF Inv, SessOK, RefLive, RefIsLive
<1> QED
  BY <1>1, Invariance, PTL

\* A turn that is completed, failed or cancelled stays so, through late steps
\* of the other loop and through restarts.
THEOREM TerminalIsFinal == Spec => TerminalStays
<1>1. Inv /\ [Next]_vars =>
        [\A t \in Orders : sess.st[t] \in Terminal => sess'.st[t] = sess.st[t]]_vars
  BY InvStep DEF Kept
<1> QED
  BY <1>1, Invariance, PTL DEF Spec, TerminalStays

\* Once turn_cancel has returned, its turn is over and is never active again.
THEOREM CancelIsFinal == Spec => []StopWins
<1>1. Inv => StopWins
  <2> SUFFICES ASSUME Inv, NEW t \in stopped
               PROVE  sess.st[t] \in Terminal /\ sess.ref # t
    BY DEF StopWins
  <2>2. sess.st[t] \in Terminal /\ t \in Orders
    BY DEF Inv, CancelOK, HistoryOK
  <2>3. sess.ref # t
    BY <2>2 DEF Inv, SessOK, RefLive, Live, Terminal, Orders
  <2> QED
    BY <2>2, <2>3
<1> QED
  BY <1>1, Invariance, PTL
=============================================================================
