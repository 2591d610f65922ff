-------------------------- MODULE TimeWheel_proofs --------------------------
(***************************************************************************)
(* Theorems about the timing wheel, for any number of timers, any ring     *)
(* sizes and any number of ticks.                                          *)
(***************************************************************************)
EXTENDS TimeWheel, FiniteSetTheorems, TLAPS

-----------------------------------------------------------------------------
(* The slot computed by add and by cascade is a list of the wheel: add     *)
(* never reaches its panic("not found head").                              *)
LEMMA IndexType ==
  /\ \A x \in Int : <<0, x % NearSize>> \in Lists
  /\ \A k \in 1..4, x \in Int : <<k, x % LevelSize>> \in Lists
BY SizeAssumption DEF Lists

LEMMA DivType ==
  \A k \in 0..4 : \A x \in Int : x \div Span[k] \in Int
BY SizeAssumption

LEMMA ListForType ==
  ASSUME NEW e \in Nat, NEW j \in Nat
  PROVE  ListFor(e, j) \in Lists
<1> DEFINE top == IF e - j < Span[4] THEN e ELSE j + Span[4] - 1
<1>1. top \in Int
  BY SizeAssumption
<1>2. \A k \in 0..3 : e \div Span[k] \in Int /\ top \div Span[k] \in Int
  <2>1. e \in Int /\ \A k \in 0..3 : k \in 0..4
    OBVIOUS
  <2> HIDE DEF top
  <2> QED
    BY <1>1, <2>1, DivType
<1>3. /\ <<0, e % NearSize>> \in Lists
      /\ <<1, (e \div Span[0]) % LevelSize>> \in Lists
      /\ <<2, (e \div Span[1]) % LevelSize>> \in Lists
      /\ <<3, (e \div Span[2]) % LevelSize>> \in Lists
      /\ <<4, (top \div Span[3]) % LevelSize>> \in Lists
  BY <1>2, IndexType
<1> QED
  BY <1>3, Zenon DEF ListFor

LEMMA CascadeListType ==
  ASSUME NEW k \in 0..3, jiffies \in Nat
  PROVE  CascadeList(k) \in Lists
<1>1. k \in 0..4 /\ jiffies \in Int
  OBVIOUS
<1>2. jiffies \div Span[k] \in Int
  BY <1>1, DivType
<1> QED
  BY <1>2, IndexType DEF CascadeList

-----------------------------------------------------------------------------
(* What the wheel goroutine's locals are at each program point.            *)
WheelOK ==
  /\ pc \in {"idle", "cascade", "advance", "drain"} => batch = {}
  /\ pc \in {"check", "insert", "dispatch"} => cur \in Timers
  /\ pc = "check" => target \in Lists
  /\ pc = "insert" => held \in Lists
  /\ pc = "drain" => jiffies > 0

TypeInv == TypeOK /\ WheelOK

(* Each variable group of TypeOK, as one fact to cite. *)
LEMMA VersionType ==
  ASSUME TypeOK, NEW h \in Lists
  PROVE  VersionOf(h) \in (Lists \cup {NoList}) \X Nat
BY DEF TypeOK, VersionOf

LEMMA LinkType ==
  ASSUME TypeOK, NEW n \in Timers, NEW h \in Lists, Link(n, h)
  PROVE  /\ slot' \in [Lists -> SUBSET Timers]
         /\ len' \in [Lists -> Int]
         /\ version' \in [Lists -> Nat]
         /\ list' \in [Timers -> Lists \cup {NoList}]
         /\ ver' \in [Timers -> (Lists \cup {NoList}) \X Nat]
<1>1. VersionOf(h) \in (Lists \cup {NoList}) \X Nat
  BY VersionType
<1> QED
  BY <1>1 DEF TypeOK, Link

LEMMA DetachType ==
  ASSUME TypeOK, NEW h \in Lists, Detach(h)
  PROVE  /\ slot' \in [Lists -> SUBSET Timers]
         /\ len' \in [Lists -> Int]
         /\ version' \in [Lists -> Nat]
         /\ batch' \subseteq Timers
BY DEF TypeOK, Detach, lists

LEMMA TakeForPushType ==
  ASSUME TypeOK, NEW n \in Timers, NEW e \in Nat,
         NEW where \in {"move", "dispatch"}, TakeForPush(n, e, where)
  PROVE  /\ expire' \in [Timers -> Nat]
         /\ batch' \subseteq Timers
         /\ cur' \in Timers
         /\ target' \in Lists
         /\ back' \in {"move", "dispatch"}
         /\ pc' = "check"
<1>1. LaterOf(e, jiffies + 1) \in Nat
  BY DEF TypeOK, LaterOf
<1>2. ListFor(LaterOf(e, jiffies + 1), jiffies) \in Lists
  BY <1>1, ListForType DEF TypeOK
<1> QED
  BY <1>1, <1>2 DEF TypeOK, TakeForPush

LEMMA TypeInit == Init => TypeInv
BY ClientAssumption DEF Init, TypeInv, TypeOK, WheelOK

LEMMA TypeStep == TypeInv /\ [Next]_vars => TypeInv'
<1> SUFFICES ASSUME TypeInv, [Next]_vars PROVE TypeInv'
  OBVIOUS
<1> USE DEF TypeInv
<1>1. ASSUME NEW n \in Timers, ScheduleRead(n) PROVE TypeInv'
  BY <1>1, ClientAssumption
  DEF ScheduleRead, TypeOK, WheelOK, lists, linked, stoppers, wheel, history
<1>2. ASSUME NEW n \in Timers, SchedulePush(n) PROVE TypeInv'
  <2> DEFINE h == ListFor(expire[n], base[n])
  <2>1. h \in Lists
    BY ListForType DEF TypeOK
  <2>2. Link(n, h)
    BY <1>2 DEF SchedulePush
  <2> HIDE DEF h
  <2> QED
    BY <1>2, <2>1, <2>2, LinkType
    DEF SchedulePush, TypeOK, WheelOK, timing, stoppers, wheel, history
<1>3. ASSUME NEW n \in Timers, ScheduleStore(n) PROVE TypeInv'
  BY <1>3 DEF ScheduleStore, TypeOK, WheelOK, lists, timing, linked,
              stoppers, wheel, history
<1>4. ASSUME NEW n \in Timers, StopFlag(n) PROVE TypeInv'
  BY <1>4 DEF StopFlag, TypeOK, WheelOK, lists, timing, linked, clients,
              wheel, history
<1>5. ASSUME NEW n \in Timers, StopLoad(n) PROVE TypeInv'
  BY <1>5 DEF StopLoad, TypeOK, WheelOK, lists, timing, linked, clients,
              wheel, history
<1>6. ASSUME NEW n \in Timers, StopUnlink(n) PROVE TypeInv'
  BY <1>6 DEF StopUnlink, Unlink, TypeOK, WheelOK, timing, clients, history
<1>7. CASE Tick
  BY <1>7 DEF Tick, TypeOK, WheelOK, lists, timing, linked, clients,
              stoppers, history
<1>8. CASE Cascade
  <2>1. CascadeList(level) \in Lists
    BY CascadeListType DEF TypeOK
  <2> QED
    BY <1>8, <2>1, DetachType
    DEF Cascade, TypeOK, WheelOK, timing, linked, clients, stoppers, history
<1>9. CASE CascadeNode
  <2>1. PICK n \in batch : TakeForPush(n, expire[n], "move")
    BY <1>9 DEF CascadeNode
  <2>2. n \in Timers /\ expire[n] \in Nat
    BY DEF TypeOK
  <2>3. UNCHANGED <<level, held>>
    BY <2>1 DEF TakeForPush
  <2> QED
    BY <1>9, <2>1, <2>2, <2>3, TakeForPushType
    DEF CascadeNode, TypeOK, WheelOK, lists, linked, clients, stoppers,
        history
<1>10. CASE CascadeDone
  BY <1>10 DEF CascadeDone, LastRing, TypeOK, WheelOK, lists, timing,
               linked, clients, stoppers, history
<1>11. CASE Advance
  BY <1>11 DEF Advance, TypeOK, WheelOK, lists, timing, linked, clients,
               stoppers, history
<1>12. CASE Drain
  <2>1. <<0, (jiffies - 1) % NearSize>> \in Lists
    BY IndexType DEF TypeOK
  <2> QED
    BY <1>12, <2>1, DetachType
    DEF Drain, TypeOK, WheelOK, timing, linked, clients, stoppers, history
<1>13. ASSUME NEW n \in Timers, ExecNode(n) PROVE TypeInv'
  <2>1. interval[n] + jiffies \in Nat
    BY DEF TypeOK
  <2>2. noders' \subseteq Timers /\ loopCur' \in [Timers -> Nat]
    BY <1>13 DEF ExecNode, RegistryAfterExec, TypeOK
  <2>3. CASE TakeForPush(n, interval[n] + jiffies, "dispatch")
             /\ due' = [due EXCEPT ![n] = interval[n] + jiffies]
    <3>1. UNCHANGED <<level, held>>
      BY <2>3 DEF TakeForPush
    <3> QED
      BY <1>13, <2>1, <2>2, <2>3, <3>1, TakeForPushType
      DEF ExecNode, TypeOK, WheelOK, lists, linked, clients, stoppers,
          history
  <2>4. CASE /\ batch' = batch \ {n}
             /\ UNCHANGED <<due, expire, pc, level, cur, target, held, back>>
    BY <1>13, <2>2, <2>4
    DEF ExecNode, TypeOK, WheelOK, lists, linked, clients, stoppers, history
  <2>5. CASE /\ batch' = batch \ {n}
             /\ cur' = n
             /\ pc' = "dispatch"
             /\ UNCHANGED <<due, expire, level, target, held, back>>
    BY <1>13, <2>2, <2>5
    DEF ExecNode, TypeOK, WheelOK, lists, linked, clients, stoppers, history
  <2> QED
    BY <1>13, <2>3, <2>4, <2>5 DEF ExecNode
<1>14. CASE ExecDone
  BY <1>14 DEF ExecDone, TypeOK, WheelOK, lists, timing, linked, clients,
               stoppers, history
<1>15. CASE PushCheck
  BY <1>15 DEF PushCheck, AfterPush, TypeOK, WheelOK, lists, timing,
               linked, clients, stoppers, history
<1>16. CASE PushInsert
  <2>1. cur \in Timers /\ held \in Lists
    BY <1>16 DEF PushInsert, WheelOK
  <2>2. Link(cur, held)
    BY <1>16 DEF PushInsert
  <2> QED
    BY <1>16, <2>1, <2>2, LinkType
    DEF PushInsert, AfterPush, TypeOK, WheelOK, timing, clients, stoppers,
        history
<1>17. CASE Dispatch
  BY <1>17 DEF Dispatch, TypeOK, WheelOK, lists, timing, linked, clients,
               stoppers
<1>18. CASE UNCHANGED vars
  BY <1>18 DEF vars, TypeOK, WheelOK, lists, timing, linked, clients,
               stoppers, wheel, history
<1> QED
  BY <1>1, <1>2, <1>3, <1>4, <1>5, <1>6, <1>7, <1>8, <1>9, <1>10, <1>11,
     <1>12, <1>13, <1>14, <1>15, <1>16, <1>17, <1>18
  DEF Next, WheelStep, Client, Stop

(* The types are those of the Go fields, at every step of every goroutine. *)
THEOREM TypeCorrect == Spec => []TypeOK
<1>1. TypeInv => TypeOK
  BY DEF TypeInv
<1> QED
  BY TypeInit, TypeStep, <1>1, PTL DEF Spec

-----------------------------------------------------------------------------
(* The inductive invariant behind ExactlyOnePlace and LenAccurate: a       *)
(* linked node carries the list and the version it was linked with, and as *)
(* long as that version is the list's own it is still there, unless a Stop *)
(* took it out. It is this last part that makes Stop's version check       *)
(* enough to unlink, whatever the wheel did since the list was read.       *)
LinkedOK ==
  \A h \in Lists : \A n \in slot[h] :
    list[n] = h /\ ver[n] = VersionOf(h) /\ Pushed(n)

LooseOK ==
  /\ \A n \in batch : Pushed(n) /\ ~InSlot(n)
  /\ \A n \in Timers : InHand(n) => Pushed(n) /\ ~InSlot(n) /\ n \notin batch

VersionOK ==
  /\ \A n \in Timers : \A h \in Lists : ver[n][1] = h => ver[n][2] <= version[h]
  /\ \A n \in Timers : \A h \in Lists :
       ver[n] = VersionOf(h) /\ spc[n] # "done" => n \in slot[h]

StopOK == \A n \in Timers : stop[n] <=> spc[n] # "none"

\* A Stop never reads a nil list: whoever holds the handle of a node holds one
\* that was pushed, and only the end of its single Stop clears its list.
HandleOK ==
  /\ \A n \in Timers :
       /\ spc[n] # "none" \/ fired[n] > 0 => Pushed(n)
       /\ Pushed(n) /\ spc[n] # "done" => list[n] \in Lists
       /\ spc[n] = "unlink" => slist[n] \in Lists
  /\ pc = "dispatch" => Pushed(cur)

KeptOK ==
  \A n \in Timers :
    Pushed(n) /\ ~stop[n] /\ ~Finished(n) => InSlot(n) \/ n \in batch \/ InHand(n)

PlaceInv ==
  /\ TypeInv /\ LinkedOK /\ LooseOK /\ VersionOK /\ StopOK /\ HandleOK
  /\ KeptOK /\ LenAccurate

LEMMA NoListType == NoList \notin Lists
BY DEF NoList, Lists

LEMMA ListsFinite ==
  ASSUME NEW S \in SUBSET Timers
  PROVE  IsFiniteSet(S)
BY FS_Subset, ClientAssumption

LEMMA EmptyList ==
  ASSUME PlaceInv, NEW h \in Lists, len[h] = 0
  PROVE  slot[h] = {}
<1>1. slot[h] \in SUBSET Timers /\ Cardinality(slot[h]) = 0
  BY DEF PlaceInv, LenAccurate, TypeInv, TypeOK
<1> QED
  BY <1>1, ListsFinite, FS_EmptySet

(* A node that is in no list is linked in one: the lists stay accurate. *)
LEMMA LinkPlace ==
  ASSUME PlaceInv, NEW n \in Timers, NEW h \in Lists, Link(n, h), ~InSlot(n),
         spc' = spc, Pushed(n)', \A m \in Timers : Pushed(m) => Pushed(m)'
  PROVE  /\ LinkedOK' /\ VersionOK' /\ LenAccurate'
         /\ InSlot(n)'
         /\ \A m \in Timers \ {n} : InSlot(m)' <=> InSlot(m)
<1> USE DEF PlaceInv, TypeInv
<1>1. n \notin slot[h]
  BY DEF InSlot
<1>2. \A g \in Lists : VersionOf(g)' = VersionOf(g)
  BY DEF Link, VersionOf
<1>3. \A g \in Lists : slot'[g] = IF g = h THEN slot[h] \cup {n} ELSE slot[g]
  BY DEF Link, TypeOK
<1>4. /\ list' = [list EXCEPT ![n] = h]
      /\ ver' = [ver EXCEPT ![n] = VersionOf(h)]
  BY DEF Link
<1>5. LinkedOK'
  <2> SUFFICES ASSUME NEW g \in Lists, NEW m \in slot'[g]
               PROVE  list'[m] = g /\ ver'[m] = VersionOf(g) /\ Pushed(m)'
    BY <1>2 DEF LinkedOK
  <2>1. m \in Timers
    BY <1>3 DEF TypeOK
  <2>2. CASE m = n
    BY <1>3, <1>4, <2>2 DEF TypeOK, InSlot
  <2>3. CASE m # n
    BY <1>3, <1>4, <2>1, <2>3 DEF TypeOK, LinkedOK
  <2> QED
    BY <2>2, <2>3
<1>6. VersionOK'
  <2> SUFFICES ASSUME NEW m \in Timers, NEW g \in Lists
               PROVE  /\ ver'[m][1] = g => ver'[m][2] <= version'[g]
                      /\ ver'[m] = VersionOf(g) /\ spc[m] # "done"
                           => m \in slot'[g]
    BY <1>2 DEF VersionOK
  <2>1. CASE m = n
    BY <1>3, <1>4, <2>1 DEF TypeOK, VersionOf, Link
  <2>2. CASE m # n
    <3>1. ver'[m] = ver[m] /\ version' = version
      BY <1>4, <2>2 DEF Link, TypeOK
    <3>2. m \in slot[g] => m \in slot'[g]
      BY <1>3
    <3> QED
      BY <3>1, <3>2 DEF VersionOK
  <2> QED
    BY <2>1, <2>2
<1>7. LenAccurate'
  <2>1. Cardinality(slot[h] \cup {n}) = Cardinality(slot[h]) + 1
    BY <1>1, ListsFinite, FS_AddElement DEF TypeOK
  <2> QED
    BY <1>3, <2>1 DEF LenAccurate, Link, TypeOK
<1> QED
  BY <1>3, <1>5, <1>6, <1>7 DEF InSlot

(* A list is emptied into the batch: its nodes' versions are outgrown. *)
LEMMA DetachPlace ==
  ASSUME PlaceInv, NEW h \in Lists, Detach(h), batch = {},
         UNCHANGED <<linked, cpc, spc>>
  PROVE  /\ LinkedOK' /\ VersionOK' /\ LenAccurate'
         /\ \A n \in batch' : Pushed(n)' /\ ~InSlot(n)'
         /\ \A n \in Timers : InSlot(n) => InSlot(n)' \/ n \in batch'
         /\ \A n \in Timers : InSlot(n)' => InSlot(n)
<1> USE DEF PlaceInv, TypeInv
<1>0. UNCHANGED <<list, ver, cpc, spc>>
  BY DEF linked
<1>1. CASE len[h] = 0 /\ batch' = {} /\ UNCHANGED lists
  BY <1>0, <1>1 DEF lists, LinkedOK, VersionOK, LenAccurate, InSlot, Pushed,
                   VersionOf
<1>2. CASE /\ batch' = slot[h]
           /\ slot' = [slot EXCEPT ![h] = {}]
           /\ len' = [len EXCEPT ![h] = 0]
           /\ version' = [version EXCEPT ![h] = @ + 1]
  <2>1. \A g \in Lists : slot'[g] = IF g = h THEN {} ELSE slot[g]
    BY <1>2 DEF TypeOK
  <2>2. \A g \in Lists : version'[g] = IF g = h THEN version[h] + 1 ELSE version[g]
    BY <1>2 DEF TypeOK
  <2>3. LinkedOK'
    BY <1>0, <2>1, <2>2 DEF LinkedOK, VersionOf, Pushed
  <2>4. VersionOK'
    <3> SUFFICES ASSUME NEW m \in Timers, NEW g \in Lists
                 PROVE  /\ ver[m][1] = g => ver[m][2] <= version'[g]
                        /\ ver[m] = <<g, version'[g]>> /\ spc[m] # "done"
                             => m \in slot'[g]
      BY <1>0 DEF VersionOK, VersionOf
    <3>1. CASE g = h
      BY <2>2, <3>1 DEF VersionOK, TypeOK
    <3>2. CASE g # h
      BY <2>1, <2>2, <3>2 DEF VersionOK, VersionOf
    <3> QED
      BY <3>1, <3>2
  <2>5. LenAccurate'
    BY <1>2, <2>1, FS_EmptySet DEF LenAccurate, TypeOK
  <2>6. \A n \in batch' : Pushed(n)' /\ ~InSlot(n)'
    <3> SUFFICES ASSUME NEW n \in slot[h] PROVE Pushed(n)' /\ ~InSlot(n)'
      BY <1>2
    <3>1. list[n] = h /\ Pushed(n)'
      BY <1>0 DEF LinkedOK, Pushed
    <3> QED
      BY <2>1, <3>1 DEF InSlot, LinkedOK
  <2> QED
    BY <1>2, <2>1, <2>3, <2>4, <2>5, <2>6 DEF InSlot
<1> QED
  BY <1>1, <1>2 DEF Detach

(* A Stop whose version check holds finds the node in the very list it     *)
(* read, and nowhere else.                                                 *)
LEMMA UnlinkPlace ==
  ASSUME PlaceInv, NEW n \in Timers, NEW h \in Lists, Unmoved(n, h),
         spc[n] = "unlink", Unlink(n, h), version' = version, ver' = ver,
         cpc' = cpc, spc' = [spc EXCEPT ![n] = "done"]
  PROVE  /\ LinkedOK' /\ VersionOK' /\ LenAccurate'
         /\ batch' = batch
         /\ \A m \in Timers : InSlot(m)' => InSlot(m)
         /\ \A m \in Timers \ {n} : InSlot(m) => InSlot(m)'
<1> USE DEF PlaceInv, TypeInv
<1>1. n \in slot[h]
  BY DEF VersionOK, Unmoved
<1>2. batch' = batch
  BY <1>1 DEF LooseOK, InSlot, Unlink
<1>3. \A g \in Lists : g # h => n \notin slot[g]
  BY <1>1 DEF LinkedOK
<1>4. \A g \in Lists : slot'[g] = IF g = h THEN slot[h] \ {n} ELSE slot[g]
  BY <1>3 DEF Unlink
<1>5. LinkedOK'
  <2> SUFFICES ASSUME NEW g \in Lists, NEW m \in slot'[g]
               PROVE  list'[m] = g /\ ver[m] = VersionOf(g) /\ Pushed(m)
    BY DEF LinkedOK, VersionOf, Pushed
  <2>1. m # n /\ m \in slot[g]
    BY <1>3, <1>4
  <2>2. list'[m] = list[m]
    BY <2>1 DEF Unlink, TypeOK
  <2> QED
    BY <2>1, <2>2 DEF LinkedOK
<1>6. VersionOK'
  BY <1>4 DEF VersionOK, VersionOf, TypeOK
<1>7. LenAccurate'
  <2>1. Cardinality(slot[h] \ {n}) = Cardinality(slot[h]) - 1
    <3>1. IsFiniteSet(slot[h])
      BY ListsFinite DEF TypeOK
    <3> QED
      BY <1>1, <3>1, FS_RemoveElement
  <2> QED
    BY <1>4, <2>1 DEF LenAccurate, Unlink, TypeOK
<1> QED
  BY <1>2, <1>4, <1>5, <1>6, <1>7 DEF InSlot

LEMMA PlaceInit == Init => PlaceInv
<1> SUFFICES ASSUME Init PROVE PlaceInv
  OBVIOUS
<1>1. LenAccurate
  BY FS_EmptySet DEF Init, LenAccurate
<1>2. VersionOK
  BY NoListType DEF Init, VersionOK, VersionOf
<1> QED
  BY <1>1, <1>2, TypeInit
  DEF PlaceInv, Init, LinkedOK, LooseOK, StopOK, HandleOK, KeptOK, InHand,
      InSlot, Pushed

LEMMA PlaceStep == PlaceInv /\ [Next]_vars => PlaceInv'
<1> SUFFICES ASSUME PlaceInv, [Next]_vars PROVE PlaceInv'
  OBVIOUS
<1>0. TypeInv'
  BY TypeStep DEF PlaceInv
<1> USE DEF PlaceInv, TypeInv
<1>1. ASSUME NEW n \in Timers, ScheduleRead(n) PROVE PlaceInv'
  <2>1. LinkedOK' /\ VersionOK' /\ LenAccurate'
    BY <1>1 DEF ScheduleRead, lists, linked, stoppers, LinkedOK, VersionOK,
                VersionOf, LenAccurate, Pushed, TypeOK
  <2>2. StopOK' /\ HandleOK' /\ LooseOK' /\ KeptOK'
    BY <1>1 DEF ScheduleRead, lists, linked, stoppers, wheel, history, StopOK,
                HandleOK, LooseOK, KeptOK, Pushed, Finished, InSlot, InHand, TypeOK
  <2> QED
    BY <1>0, <2>1, <2>2
<1>2. ASSUME NEW n \in Timers, SchedulePush(n) PROVE PlaceInv'
  <2> DEFINE h == ListFor(expire[n], base[n])
  <2>1. h \in Lists
    BY ListForType DEF TypeOK
  <2>2. Link(n, h)
    BY <1>2 DEF SchedulePush
  <2>3. /\ ~Pushed(n) /\ Pushed(n)'
        /\ \A m \in Timers : Pushed(m) => Pushed(m)'
        /\ \A m \in Timers \ {n} : Pushed(m)' => Pushed(m)
    BY <1>2 DEF SchedulePush, Pushed, TypeOK
  <2>4. ~InSlot(n) /\ n \notin batch /\ ~InHand(n)
    BY <2>3 DEF LinkedOK, LooseOK, InSlot
  <2>5. UNCHANGED <<spc, stop, batch, pc, cur, slist, fired, loopMax, loopCur>>
    BY <1>2 DEF SchedulePush, stoppers, wheel, timing, history
  <2> HIDE DEF h
  <2>6. /\ LinkedOK' /\ VersionOK' /\ LenAccurate' /\ InSlot(n)'
        /\ \A m \in Timers \ {n} : InSlot(m)' <=> InSlot(m)
    BY <2>1, <2>2, <2>3, <2>4, <2>5, LinkPlace
  <2>7. StopOK' /\ LooseOK'
    BY <2>3, <2>4, <2>5, <2>6 DEF StopOK, LooseOK, InHand, TypeOK
  <2>8. KeptOK'
    <3>1. \A m \in Timers :
            /\ stop'[m] = stop[m]
            /\ Finished(m)' <=> Finished(m)
            /\ InHand(m)' <=> InHand(m)
      BY <2>5 DEF Finished, InHand
    <3> QED
      BY <2>3, <2>5, <2>6, <3>1 DEF KeptOK
  <2>9. HandleOK'
    <3>1. \A m \in Timers : list'[m] = IF m = n THEN h ELSE list[m]
      BY <2>2 DEF Link, TypeOK
    <3>2. pc' = "dispatch" => Pushed(cur)'
      BY <2>3, <2>5 DEF HandleOK, WheelOK
    <3>3. \A m \in Timers : spc[m] # "none" \/ fired[m] > 0 => Pushed(m)'
      BY <2>3 DEF HandleOK
    <3>4. \A m \in Timers : Pushed(m)' /\ spc[m] # "done" => list'[m] \in Lists
      <4>1. \A m \in Timers \ {n} :
              Pushed(m)' /\ spc[m] # "done" => list[m] \in Lists
        BY <2>3 DEF HandleOK
      <4> QED
        BY <2>1, <3>1, <4>1
    <3> QED
      BY <2>5, <3>2, <3>3, <3>4 DEF HandleOK
  <2> QED
    BY <1>0, <2>6, <2>7, <2>8, <2>9
<1>3. ASSUME NEW n \in Timers, ScheduleStore(n) PROVE PlaceInv'
  <2>1. /\ UNCHANGED <<lists, linked, batch, pc, cur, stop, spc, slist, fired,
                       loopMax, loopCur>>
        /\ \A m \in Timers : Pushed(m)' <=> Pushed(m)
    BY <1>3 DEF ScheduleStore, stoppers, wheel, timing, history, Pushed, TypeOK
  <2>2. LinkedOK' /\ VersionOK' /\ LenAccurate'
    BY <2>1 DEF lists, linked, LinkedOK, VersionOK, VersionOf, LenAccurate, TypeOK
  <2>3. StopOK' /\ HandleOK' /\ LooseOK' /\ KeptOK'
    BY <2>1 DEF lists, linked, StopOK, HandleOK, LooseOK, KeptOK, InHand,
                InSlot, Finished, TypeOK, WheelOK
  <2> QED
    BY <1>0, <2>2, <2>3
<1>4. ASSUME NEW n \in Timers, StopFlag(n) PROVE PlaceInv'
  <2>1. LinkedOK' /\ VersionOK' /\ LenAccurate'
    BY <1>4 DEF StopFlag, lists, linked, clients, LinkedOK, VersionOK, VersionOf,
                LenAccurate, Pushed, TypeOK, StopOK
  <2>2. StopOK' /\ LooseOK' /\ KeptOK'
    BY <1>4 DEF StopFlag, lists, linked, clients, wheel, timing, StopOK, LooseOK,
                KeptOK, InHand, InSlot, Finished, Pushed, TypeOK
  <2>3. HandleOK'
    BY <1>4 DEF StopFlag, linked, clients, wheel, history, HandleOK, StopOK, Pushed,
                TypeOK
  <2> QED
    BY <1>0, <2>1, <2>2, <2>3
<1>5. ASSUME NEW n \in Timers, StopLoad(n) PROVE PlaceInv'
  <2>1. LinkedOK' /\ VersionOK' /\ LenAccurate'
    BY <1>5 DEF StopLoad, lists, linked, clients, LinkedOK, VersionOK, VersionOf,
                LenAccurate, Pushed, TypeOK
  <2>2. StopOK' /\ LooseOK' /\ KeptOK'
    BY <1>5 DEF StopLoad, lists, linked, clients, wheel, timing, StopOK, LooseOK,
                KeptOK, InHand, InSlot, Finished, Pushed, TypeOK
  <2>3. HandleOK'
    BY <1>5 DEF StopLoad, linked, clients, wheel, history, HandleOK, Pushed,
                TypeOK
  <2> QED
    BY <1>0, <2>1, <2>2, <2>3
<1>6. ASSUME NEW n \in Timers, StopUnlink(n) PROVE PlaceInv'
  <2>1. spc[n] = "unlink" /\ slist[n] \in Lists /\ stop[n] /\ Pushed(n)
    BY <1>6 DEF StopUnlink, HandleOK, StopOK
  <2>2. /\ UNCHANGED <<version, ver, cpc, stop, slist, pc, cur, fired, loopMax,
                       loopCur>>
        /\ spc' = [spc EXCEPT ![n] = "done"]
    BY <1>6 DEF StopUnlink, clients, timing, history
  <2>3. StopOK'
    BY <2>1, <2>2 DEF StopOK, TypeOK
  <2>4. \A m \in Timers : Pushed(m)' <=> Pushed(m)
    BY <2>2 DEF Pushed
  <2>5. CASE Unmoved(n, slist[n]) /\ Unlink(n, slist[n])
    <3>1. /\ LinkedOK' /\ VersionOK' /\ LenAccurate'
          /\ batch' = batch
          /\ \A m \in Timers : InSlot(m)' => InSlot(m)
          /\ \A m \in Timers \ {n} : InSlot(m) => InSlot(m)'
      BY <2>1, <2>2, <2>5, UnlinkPlace
    <3>2. LooseOK'
      BY <2>2, <2>4, <3>1 DEF LooseOK, InHand, TypeOK
    <3>3. KeptOK'
      BY <2>1, <2>2, <2>4, <3>1 DEF KeptOK, InHand, Finished
    <3>4. \A m \in Timers \ {n} : list'[m] = list[m] /\ spc'[m] = spc[m]
      BY <2>2, <2>5 DEF Unlink, TypeOK
    <3>5. HandleOK'
      BY <2>1, <2>2, <2>4, <3>4 DEF HandleOK, TypeOK, WheelOK
    <3> QED
      BY <1>0, <2>3, <3>1, <3>2, <3>3, <3>5
  <2>6. CASE UNCHANGED <<slot, batch, len, list, noders>>
    <3>1. LinkedOK' /\ VersionOK' /\ LenAccurate'
      BY <2>2, <2>4, <2>6 DEF LinkedOK, VersionOK, VersionOf, LenAccurate, TypeOK
    <3>2. LooseOK' /\ KeptOK'
      BY <2>2, <2>4, <2>6 DEF LooseOK, KeptOK, InHand, InSlot, Finished, TypeOK
    <3>3. HandleOK'
      BY <2>1, <2>2, <2>4, <2>6 DEF HandleOK, TypeOK, WheelOK
    <3> QED
      BY <1>0, <2>3, <3>1, <3>2, <3>3
  <2> QED
    BY <1>6, <2>5, <2>6 DEF StopUnlink
\* Steps of the wheel goroutine: they leave the clients and the stops alone.
<1>b. ASSUME UNCHANGED <<cpc, spc, slist, stop, fired>>
      PROVE  StopOK' /\ \A m \in Timers : Pushed(m)' <=> Pushed(m)
  BY <1>b DEF StopOK, Pushed
<1>c. ASSUME UNCHANGED <<lists, linked, cpc, spc>>
      PROVE  /\ LinkedOK' /\ VersionOK' /\ LenAccurate'
             /\ \A m \in Timers : InSlot(m)' <=> InSlot(m)
  BY <1>c DEF lists, linked, LinkedOK, VersionOK, VersionOf, LenAccurate, Pushed,
              InSlot, TypeOK
<1>d. ASSUME UNCHANGED <<list, cpc, spc, slist, fired>>,
             pc' = "dispatch" => Pushed(cur')
      PROVE  HandleOK'
  BY <1>d DEF HandleOK, Pushed
<1>e. ASSUME UNCHANGED <<batch, stop, loopMax, loopCur>>,
             \A m \in Timers : Pushed(m)' <=> Pushed(m),
             \A m \in Timers : InSlot(m)' <=> InSlot(m),
             \A m \in Timers : InHand(m)' <=> InHand(m)
      PROVE  LooseOK' /\ KeptOK'
  BY <1>e DEF LooseOK, KeptOK, Finished, TypeOK
<1>7. CASE Tick
  <2>1. UNCHANGED <<lists, linked, list, cpc, spc, slist, stop, fired, batch,
                    loopMax, loopCur>>
    BY <1>7 DEF Tick, clients, stoppers, history, timing, linked
  <2>2. \A m \in Timers : ~InHand(m) /\ ~InHand(m)'
    BY <1>7 DEF Tick, InHand
  <2>3. pc' # "dispatch"
    BY <1>7 DEF Tick
  <2> QED
    BY <1>0, <1>b, <1>c, <1>d, <1>e, <2>1, <2>2, <2>3
<1>8. CASE Cascade
  <2>1. CascadeList(level) \in Lists
    BY CascadeListType DEF TypeOK
  <2>2. batch = {} /\ Detach(CascadeList(level)) /\ pc' = "move" /\ pc = "cascade"
    BY <1>8 DEF Cascade, WheelOK
  <2>3. UNCHANGED <<linked, list, cpc, spc, slist, stop, fired, loopMax, loopCur>>
    BY <1>8 DEF Cascade, clients, stoppers, history, timing, linked
  <2>4. /\ LinkedOK' /\ VersionOK' /\ LenAccurate'
        /\ \A n \in batch' : Pushed(n)' /\ ~InSlot(n)'
        /\ \A n \in Timers : InSlot(n) => InSlot(n)' \/ n \in batch'
    BY <2>1, <2>2, <2>3, DetachPlace
  <2>5. \A m \in Timers : ~InHand(m) /\ ~InHand(m)'
    BY <2>2 DEF InHand
  <2>6. LooseOK' /\ KeptOK'
    BY <2>2, <2>3, <2>4, <2>5 DEF LooseOK, KeptOK, Finished, Pushed
  <2> QED
    BY <1>0, <1>b, <1>d, <2>2, <2>3, <2>4, <2>6
<1>9. CASE CascadeNode
  <2>1. PICK n \in batch : TakeForPush(n, expire[n], "move")
    BY <1>9 DEF CascadeNode
  <2>2. /\ n \in Timers /\ Pushed(n) /\ ~InSlot(n)
        /\ batch' = batch \ {n} /\ cur' = n /\ pc' = "check" /\ pc = "move"
    BY <1>9, <2>1 DEF CascadeNode, TakeForPush, LooseOK, TypeOK
  <2>3. UNCHANGED <<lists, linked, list, cpc, spc, slist, stop, fired, loopMax,
                    loopCur>>
    BY <1>9 DEF CascadeNode, clients, stoppers, history, linked
  <2>4. \A m \in Timers : ~InHand(m) /\ (InHand(m)' <=> m = n)
    BY <2>2 DEF InHand
  <2>5. LooseOK' /\ KeptOK'
    BY <1>b, <1>c, <2>2, <2>3, <2>4 DEF LooseOK, KeptOK, Finished, TypeOK
  <2> QED
    BY <1>0, <1>b, <1>c, <1>d, <2>2, <2>3, <2>5
<1>10. CASE CascadeDone
  <2>1. UNCHANGED <<lists, linked, list, cpc, spc, slist, stop, fired, batch,
                    loopMax, loopCur>>
    BY <1>10 DEF CascadeDone, clients, stoppers, history, timing, linked
  <2>2. \A m \in Timers : ~InHand(m) /\ ~InHand(m)'
    BY <1>10 DEF CascadeDone, InHand
  <2>3. pc' # "dispatch"
    BY <1>10 DEF CascadeDone
  <2> QED
    BY <1>0, <1>b, <1>c, <1>d, <1>e, <2>1, <2>2, <2>3
<1>11. CASE Advance
  <2>1. UNCHANGED <<lists, linked, list, cpc, spc, slist, stop, fired, batch,
                    loopMax, loopCur>>
    BY <1>11 DEF Advance, clients, stoppers, history, timing, linked
  <2>2. \A m \in Timers : ~InHand(m) /\ ~InHand(m)'
    BY <1>11 DEF Advance, InHand
  <2>3. pc' # "dispatch"
    BY <1>11 DEF Advance
  <2> QED
    BY <1>0, <1>b, <1>c, <1>d, <1>e, <2>1, <2>2, <2>3
<1>12. CASE Drain
  <2> DEFINE h == <<0, (jiffies - 1) % NearSize>>
  <2>1. h \in Lists
    BY IndexType DEF TypeOK
  <2>2. batch = {} /\ Detach(h) /\ pc' = "exec" /\ pc = "drain"
    BY <1>12 DEF Drain, WheelOK
  <2>3. UNCHANGED <<linked, list, cpc, spc, slist, stop, fired, loopMax, loopCur>>
    BY <1>12 DEF Drain, clients, stoppers, history, timing, linked
  <2> HIDE DEF h
  <2>4. /\ LinkedOK' /\ VersionOK' /\ LenAccurate'
        /\ \A n \in batch' : Pushed(n)' /\ ~InSlot(n)'
        /\ \A n \in Timers : InSlot(n) => InSlot(n)' \/ n \in batch'
    BY <2>1, <2>2, <2>3, DetachPlace
  <2>5. \A m \in Timers : ~InHand(m) /\ ~InHand(m)'
    BY <2>2 DEF InHand
  <2>6. LooseOK' /\ KeptOK'
    BY <2>2, <2>3, <2>4, <2>5 DEF LooseOK, KeptOK, Finished, Pushed
  <2> QED
    BY <1>0, <1>b, <1>d, <2>2, <2>3, <2>4, <2>6
<1>13. ASSUME NEW n \in Timers, ExecNode(n) PROVE PlaceInv'
  <2>1. /\ n \in batch /\ Pushed(n) /\ ~InSlot(n) /\ pc = "exec"
        /\ loopCur' = [loopCur EXCEPT ![n] = @ + 1]
    BY <1>13 DEF ExecNode, LooseOK
  <2>2. UNCHANGED <<lists, linked, list, cpc, spc, slist, stop, fired, loopMax>>
    BY <1>13 DEF ExecNode, clients, stoppers, history, linked
  <2>3. /\ batch' = batch \ {n}
        /\ \/ DropsStopped(n) /\ pc' = "exec"
           \/ IsLoop(n) /\ pc' = "check" /\ cur' = n
           \/ ~IsLoop(n) /\ pc' = "dispatch" /\ cur' = n
    BY <1>13, <2>1 DEF ExecNode, TakeForPush
  <2>4. /\ \A m \in Timers \ {n} : Finished(m)' <=> Finished(m)
        /\ Finished(n)' <=> ~IsLoop(n)
    BY <2>1, <2>2 DEF Finished, IsLoop, TypeOK
  <2>5. /\ \A m \in Timers : InHand(m)' => m = n
        /\ \A m \in Timers : ~InHand(m)
        /\ InHand(n)' <=> pc' = "check"
    BY <2>1, <2>3 DEF InHand
  <2>6. LooseOK'
    BY <1>b, <1>c, <2>1, <2>2, <2>3, <2>5 DEF LooseOK, TypeOK
  <2>7. KeptOK'
    <3> SUFFICES ASSUME NEW m \in Timers, Pushed(m)', ~stop'[m], ~Finished(m)'
                 PROVE  InSlot(m)' \/ m \in batch' \/ InHand(m)'
      BY DEF KeptOK
    <3>1. CASE m = n
      BY <2>2, <2>3, <2>4, <2>5, <3>1 DEF DropsStopped
    <3>2. CASE m # n
      BY <1>b, <1>c, <2>2, <2>3, <2>4, <2>5, <3>2 DEF KeptOK
    <3> QED
      BY <3>1, <3>2
  <2> QED
    BY <1>0, <1>b, <1>c, <1>d, <2>1, <2>2, <2>3, <2>6, <2>7
<1>14. CASE ExecDone
  <2>1. UNCHANGED <<lists, linked, list, cpc, spc, slist, stop, fired, batch,
                    loopMax, loopCur>>
    BY <1>14 DEF ExecDone, clients, stoppers, history, timing, linked
  <2>2. \A m \in Timers : ~InHand(m) /\ ~InHand(m)'
    BY <1>14 DEF ExecDone, InHand
  <2>3. pc' # "dispatch"
    BY <1>14 DEF ExecDone
  <2> QED
    BY <1>0, <1>b, <1>c, <1>d, <1>e, <2>1, <2>2, <2>3
<1>15. CASE PushCheck
  <2>1. /\ UNCHANGED <<lists, linked, list, cpc, spc, slist, stop, fired, batch,
                       loopMax, loopCur>>
        /\ pc = "check" /\ cur \in Timers /\ Pushed(cur)
    BY <1>15 DEF PushCheck, AfterPush, clients, stoppers, history, timing, linked,
                 WheelOK, LooseOK, InHand
  <2>2. \/ stop[cur] /\ pc' = back /\ (back = "dispatch" => cur' = cur)
        \/ pc' = "insert" /\ cur' = cur
    BY <1>15 DEF PushCheck, AfterPush
  <2>3. \A m \in Timers : InHand(m) <=> m = cur
    BY <2>1 DEF InHand
  <2>4. \A m \in Timers : InHand(m)' => m = cur
    BY <2>2 DEF InHand, TypeOK
  <2>5. \A m \in Timers : m = cur /\ ~stop[m] => InHand(m)'
    BY <2>2 DEF InHand
  <2>6. LooseOK' /\ KeptOK'
    <3>1. /\ \A m \in Timers : Pushed(m)' <=> Pushed(m)
          /\ \A m \in Timers : InSlot(m)' <=> InSlot(m)
          /\ \A m \in Timers : Finished(m)' <=> Finished(m)
      BY <1>b, <1>c, <2>1 DEF Finished
    <3>2. LooseOK'
      BY <2>1, <2>3, <2>4, <3>1 DEF LooseOK, TypeOK
    <3>3. KeptOK'
      BY <2>1, <2>3, <2>5, <3>1 DEF KeptOK
    <3> QED
      BY <3>2, <3>3
  <2>7. pc' = "dispatch" => Pushed(cur')
    BY <2>1, <2>2
  <2> QED
    BY <1>0, <1>b, <1>c, <1>d, <2>1, <2>6, <2>7
<1>16. CASE PushInsert
  <2>1. /\ pc = "insert" /\ cur \in Timers /\ held \in Lists
        /\ Pushed(cur) /\ ~InSlot(cur) /\ cur \notin batch /\ Link(cur, held)
    BY <1>16 DEF PushInsert, WheelOK, LooseOK, InHand
  <2>2. UNCHANGED <<cpc, spc, slist, stop, fired, batch, loopMax, loopCur>>
    BY <1>16 DEF PushInsert, AfterPush, clients, stoppers, history, timing
  <2>3. pc' = back /\ (back = "dispatch" => cur' = cur)
    BY <1>16 DEF PushInsert, AfterPush
  <2>4. \A m \in Timers : Pushed(m)' <=> Pushed(m)
    BY <1>b, <2>2
  <2>5. /\ LinkedOK' /\ VersionOK' /\ LenAccurate'
        /\ \A m \in Timers : InSlot(m)' <=> InSlot(m) \/ m = cur
    <3>1. PICK n \in Timers : n = cur
      BY <2>1
    <3>2. Link(n, held) /\ ~InSlot(n) /\ Pushed(n)'
      BY <2>1, <2>4, <3>1
    <3>3. spc' = spc /\ \A m \in Timers : Pushed(m) => Pushed(m)'
      BY <2>2, <2>4
    <3>4. /\ LinkedOK' /\ VersionOK' /\ LenAccurate' /\ InSlot(n)'
          /\ \A m \in Timers \ {n} : InSlot(m)' <=> InSlot(m)
      BY <2>1, <3>2, <3>3, LinkPlace
    <3> QED
      BY <3>1, <3>4
  <2>6. \A m \in Timers : ~InHand(m)' /\ (InHand(m) <=> m = cur)
    BY <2>1, <2>3 DEF InHand, TypeOK
  <2>7. LooseOK'
    BY <2>1, <2>2, <2>4, <2>5, <2>6 DEF LooseOK, TypeOK
  <2>8. KeptOK'
    <3>1. \A m \in Timers : InSlot(m) \/ m = cur => InSlot(m)'
      BY <2>5
    <3>2. \A m \in Timers : Finished(m)' <=> Finished(m)
      BY <2>2 DEF Finished
    <3> QED
      BY <2>2, <2>4, <2>6, <3>1, <3>2 DEF KeptOK
  <2>9. HandleOK'
    <3>1. \A m \in Timers : list'[m] = IF m = cur THEN held ELSE list[m]
      BY <2>1 DEF Link, TypeOK
    <3>2. pc' = "dispatch" => Pushed(cur)'
      BY <2>1, <2>3, <2>4 DEF Pushed
    <3> QED
      BY <2>1, <2>2, <2>4, <3>1, <3>2 DEF HandleOK
  <2> QED
    BY <1>0, <1>b, <2>2, <2>5, <2>7, <2>8, <2>9
<1>17. CASE Dispatch
  <2>1. /\ UNCHANGED <<lists, linked, list, cpc, spc, slist, stop, batch,
                       loopMax, loopCur>>
        /\ fired' = [fired EXCEPT ![cur] = @ + 1]
        /\ pc = "dispatch" /\ pc' = "exec" /\ cur \in Timers /\ Pushed(cur)
    BY <1>17 DEF Dispatch, clients, stoppers, timing, linked, WheelOK, HandleOK
  <2>2. StopOK' /\ \A m \in Timers : Pushed(m)' <=> Pushed(m)
    BY <2>1 DEF StopOK, Pushed
  <2>3. \A m \in Timers : ~InHand(m) /\ ~InHand(m)'
    BY <2>1 DEF InHand
  <2>4. HandleOK'
    BY <2>1, <2>2 DEF HandleOK, TypeOK
  <2> QED
    BY <1>0, <1>c, <1>e, <2>1, <2>2, <2>3, <2>4
<1>18. CASE UNCHANGED vars
  <2>1. /\ UNCHANGED <<lists, linked, list, cpc, spc, slist, stop, fired, batch,
                       loopMax, loopCur, pc, cur>>
    BY <1>18 DEF vars, clients, stoppers, history, timing, linked, wheel
  <2>2. \A m \in Timers : InHand(m)' <=> InHand(m)
    BY <2>1 DEF InHand
  <2>3. pc' = "dispatch" => Pushed(cur')
    BY <2>1 DEF HandleOK
  <2> QED
    BY <1>0, <1>b, <1>c, <1>d, <1>e, <2>1, <2>2, <2>3
<1> QED
  BY <1>1, <1>2, <1>3, <1>4, <1>5, <1>6, <1>7, <1>8, <1>9, <1>10, <1>11,
     <1>12, <1>13, <1>14, <1>15, <1>16, <1>17, <1>18
  DEF Next, WheelStep, Client, Stop

(* No interleaving of the wheel with the clients that push and the clients *)
(* that stop loses a live node or links one twice.                         *)
THEOREM NodeInOnePlace == Spec => []ExactlyOnePlace
<1>1. PlaceInv => ExactlyOnePlace
  BY DEF PlaceInv, LinkedOK, LooseOK, KeptOK, ExactlyOnePlace, InSlot, TypeInv,
         TypeOK
<1> QED
  BY PlaceInit, PlaceStep, <1>1, PTL DEF Spec

(* The length counter a slot is skipped by is the number of its nodes,     *)
(* whatever Stop interleaves with the wheel.                               *)
THEOREM LengthIsAccurate == Spec => []LenAccurate
<1>1. PlaceInv => LenAccurate
  BY DEF PlaceInv
<1> QED
  BY PlaceInit, PlaceStep, <1>1, PTL DEF Spec

-----------------------------------------------------------------------------
(* The inductive invariant behind AtMostOneLateFire: while a callback of n *)
(* is still to be dispatched none was late, because the wheel read the     *)
(* stop flag of n after the previous dispatch.                             *)
Pending(n) == cur = n /\ (pc = "dispatch" \/ (InHand(n) /\ back = "dispatch"))

LateOK ==
  \A n \in Timers :
    /\ lateFired[n] <= 1
    /\ lateFired[n] > 0 => stop[n]
    /\ Pending(n) => lateFired[n] = 0

LateInv == PlaceInv /\ LateOK

LEMMA LateStep == LateInv /\ [Next]_vars => LateOK'
<1> SUFFICES ASSUME LateInv, [Next]_vars PROVE LateOK'
  OBVIOUS
<1> USE DEF LateInv, PlaceInv, TypeInv
<1>a. ASSUME UNCHANGED lateFired, \A m \in Timers : stop[m] => stop'[m],
             \A m \in Timers : Pending(m)' => Pending(m)
      PROVE  LateOK'
  BY <1>a DEF LateOK
<1>1. ASSUME NEW n \in Timers, Client(n) \/ Stop(n) PROVE LateOK'
  <2>1. /\ UNCHANGED <<lateFired, pc, cur, back>>
        /\ \A m \in Timers : stop[m] => stop'[m]
    BY <1>1 DEF Client, Stop, ScheduleRead, SchedulePush, ScheduleStore, StopFlag,
                StopLoad, StopUnlink, wheel, history, TypeOK
  <2> QED
    BY <1>a, <2>1 DEF Pending, InHand
<1>2. CASE Tick \/ Cascade \/ CascadeNode \/ CascadeDone \/ Advance \/ Drain
           \/ ExecDone
  <2>1. UNCHANGED <<lateFired, stop>>
    BY <1>2 DEF Tick, Cascade, CascadeNode, CascadeDone, Advance, Drain, ExecDone,
                history
  <2>2. pc' # "dispatch" /\ (pc' \in {"check", "insert"} => back' = "move")
    BY <1>2 DEF Tick, Cascade, CascadeNode, TakeForPush, CascadeDone, Advance,
                Drain, ExecDone
  <2> QED
    BY <1>a, <2>1, <2>2 DEF Pending, InHand
<1>3. ASSUME NEW n \in Timers, ExecNode(n) PROVE LateOK'
  <2>1. UNCHANGED <<lateFired, stop>>
    BY <1>3 DEF ExecNode, history
  <2>2. \A m \in Timers : Pending(m)' => m = n /\ ~stop[n]
    BY <1>3 DEF ExecNode, TakeForPush, DropsStopped, Pending, InHand
  <2> QED
    BY <2>1, <2>2 DEF LateOK, TypeOK
<1>4. CASE PushCheck \/ PushInsert
  <2>1. UNCHANGED <<lateFired, stop>> /\ pc \in {"check", "insert"}
    BY <1>4 DEF PushCheck, PushInsert, history
  <2>2. /\ back' = back
        /\ \/ pc' = back /\ (back = "dispatch" => cur' = cur)
           \/ pc' = "insert" /\ cur' = cur
    BY <1>4 DEF PushCheck, PushInsert, AfterPush
  <2>3. \A m \in Timers : Pending(m)' => Pending(m)
    BY <2>1, <2>2 DEF Pending, InHand, TypeOK
  <2> QED
    BY <1>a, <2>1, <2>3
<1>5. CASE Dispatch
  <2>1. /\ stop' = stop /\ pc = "dispatch" /\ pc' = "exec" /\ cur \in Timers
        /\ lateFired' = IF stop[cur]
                        THEN [lateFired EXCEPT ![cur] = @ + 1] ELSE lateFired
    BY <1>5 DEF Dispatch, WheelOK
  <2>2. lateFired[cur] = 0
    BY <2>1 DEF LateOK, Pending
  <2>3. \A m \in Timers : ~Pending(m)'
    BY <2>1 DEF Pending, InHand
  <2> QED
    BY <2>1, <2>2, <2>3 DEF LateOK, TypeOK
<1>6. CASE UNCHANGED vars
  BY <1>a, <1>6 DEF vars, history, wheel, Pending, InHand
<1> QED
  BY <1>1, <1>2, <1>3, <1>4, <1>5, <1>6 DEF Next, WheelStep

(* Once the stop flag is up, the callback is dispatched at most once more. *)
THEOREM OneLateFire == Spec => []AtMostOneLateFire
<1>1. Init => LateInv
  BY PlaceInit DEF Init, LateInv, LateOK, Pending, InHand
<1>2. LateInv /\ [Next]_vars => LateInv'
  BY PlaceStep, LateStep DEF LateInv
<1>3. LateInv => AtMostOneLateFire
  BY DEF LateInv, LateOK, AtMostOneLateFire
<1> QED
  BY <1>1, <1>2, <1>3, PTL DEF Spec

-----------------------------------------------------------------------------
(* StopTimer, which walks the registry, reaches every timer that can still *)
(* fire.                                                                   *)
THEOREM RegistryIsComplete == Spec => []RegistryComplete
<1>1. Init => RegistryComplete
  BY DEF Init, RegistryComplete
<1>2. PlaceInv /\ RegistryComplete /\ [Next]_vars => RegistryComplete'
  <2> SUFFICES ASSUME PlaceInv, RegistryComplete, [Next]_vars,
                      NEW m \in Timers, cpc'[m] = "done", ~stop'[m], ~Finished(m)'
               PROVE  m \in noders'
    BY DEF RegistryComplete
  <2> USE DEF PlaceInv, TypeInv
  <2>1. ASSUME NEW n \in Timers, ScheduleRead(n) PROVE m \in noders'
    BY <2>1 DEF ScheduleRead, RegistryComplete, Finished, TypeOK
  <2>2. ASSUME NEW n \in Timers, SchedulePush(n) PROVE m \in noders'
    BY <2>2 DEF SchedulePush, timing, RegistryComplete, Finished, TypeOK
  <2>3. ASSUME NEW n \in Timers, ScheduleStore(n) PROVE m \in noders'
    BY <2>3 DEF ScheduleStore, timing, RegistryComplete, Finished, TypeOK
  <2>4. ASSUME NEW n \in Timers, StopFlag(n) PROVE m \in noders'
    BY <2>4 DEF StopFlag, timing, clients, RegistryComplete, Finished, TypeOK
  <2>5. ASSUME NEW n \in Timers, StopLoad(n) PROVE m \in noders'
    BY <2>5 DEF StopLoad, timing, clients, RegistryComplete, Finished
  <2>6. ASSUME NEW n \in Timers, StopUnlink(n) PROVE m \in noders'
    <3>1. UNCHANGED <<cpc, stop, loopMax, loopCur>> /\ stop[n]
      BY <2>6 DEF StopUnlink, clients, timing, StopOK
    <3>2. noders \ {n} \subseteq noders'
      BY <2>6 DEF StopUnlink, Unlink
    <3> QED
      BY <3>1, <3>2 DEF RegistryComplete, Finished
  <2>7. CASE Tick \/ Cascade \/ CascadeNode \/ CascadeDone \/ Advance \/ Drain
             \/ ExecDone \/ PushCheck \/ PushInsert \/ Dispatch
    <3>1. UNCHANGED <<cpc, stop, loopMax, loopCur, noders>>
      BY <2>7 DEF Tick, Cascade, CascadeNode, CascadeDone, Advance, Drain, ExecDone,
                  PushCheck, PushInsert, Dispatch, clients, timing
    <3> QED
      BY <3>1 DEF RegistryComplete, Finished
  <2>8. ASSUME NEW n \in Timers, ExecNode(n) PROVE m \in noders'
    <3>1. /\ UNCHANGED <<cpc, stop, loopMax>>
          /\ loopCur' = [loopCur EXCEPT ![n] = @ + 1]
          /\ noders' = IF IsLoop(n) THEN noders ELSE noders \ {n}
      BY <2>8 DEF ExecNode, RegistryAfterExec, clients
    <3>2. CASE m = n
      BY <3>1, <3>2 DEF RegistryComplete, Finished, IsLoop, TypeOK
    <3>3. CASE m # n
      BY <3>1, <3>3 DEF RegistryComplete, Finished, TypeOK
    <3> QED
      BY <3>2, <3>3
  <2>9. CASE UNCHANGED vars
    BY <2>9 DEF vars, clients, timing, RegistryComplete, Finished
  <2> QED
    BY <2>1, <2>2, <2>3, <2>4, <2>5, <2>6, <2>7, <2>8, <2>9
    DEF Next, WheelStep, Client, Stop
<1> QED
  BY PlaceInit, PlaceStep, <1>1, <1>2, PTL DEF Spec

-----------------------------------------------------------------------------
(* That a node fires in time. First the arithmetic of the rings: division  *)
(* by any positive number, and multiples of the spans.                     *)
LEMMA DivMod ==
  ASSUME NEW x \in Int, NEW y \in Nat \ {0}
  PROVE  /\ x \div y \in Int /\ x % y \in 0 .. y - 1
         /\ x = y * (x \div y) + (x % y)
OBVIOUS

LEMMA DivModNat ==
  ASSUME NEW x \in Nat, NEW y \in Nat \ {0}
  PROVE  x \div y \in Nat
OBVIOUS

LEMMA MultOrder ==
  ASSUME NEW a \in Int, NEW b \in Int, NEW s \in Nat \ {0}
  PROVE  /\ a * s < b * s => a < b
         /\ a * s <= b * s => a <= b
OBVIOUS

LEMMA ModUnique ==
  ASSUME NEW p \in Nat, NEW q \in Nat, NEW n \in Nat \ {0},
         p <= q, q < p + n, p % n = q % n
  PROVE  p = q
<1>1. /\ p = n * (p \div n) + (p % n) /\ q = n * (q \div n) + (q % n)
      /\ p \div n \in Int /\ q \div n \in Int /\ p % n \in Int
  BY DivMod
<1>2. PICK a \in Int, b \in Int, r \in Int : p = n * a + r /\ q = n * b + r
  BY <1>1
<1>3. a * n <= b * n /\ b * n < (a + 1) * n
  BY <1>2
<1>4. a <= b /\ b < a + 1
  BY <1>3, MultOrder
<1> QED
  BY <1>2, <1>4

LEMMA QuotientUnique ==
  ASSUME NEW q \in Nat, NEW n \in Nat \ {0}
  PROVE  (q * n) \div n = q /\ (q * n) % n = 0
<1> DEFINE x == q * n
<1>0. x \in Int
  OBVIOUS
<1>1. /\ x \div n \in Int /\ x % n \in 0 .. n - 1
      /\ x = n * (x \div n) + (x % n)
  BY <1>0, DivMod
<1>2. PICK a \in Int, r \in 0 .. n - 1 : a = x \div n /\ r = x % n /\ x = n * a + r
  BY <1>1
<1>3. q * n < (a + 1) * n /\ a * n <= q * n
  BY <1>2
<1>4. q < a + 1 /\ a <= q
  BY <1>3, MultOrder
<1> QED
  BY <1>2, <1>4

-----------------------------------------------------------------------------
(* Ring k is made of Size(k) lists, one for every Unit(k) ticks.           *)
Unit(k) == IF k = 0 THEN 1 ELSE Span[k - 1]

Size(k) == IF k = 0 THEN NearSize ELSE LevelSize

LEMMA RingType ==
  ASSUME NEW k \in 0..4
  PROVE  /\ Unit(k) \in Nat \ {0} /\ Size(k) \in Nat \ {0}
         /\ Span[k] \in Nat \ {0} /\ Span[k] = Unit(k) * Size(k)
<1>1. CASE k = 0
  BY <1>1, SizeAssumption DEF Unit, Size
<1>2. CASE k \in 1..4
  <2>1. k - 1 \in 0..3 /\ k = (k - 1) + 1
    BY <1>2
  <2> QED
    BY <1>2, <2>1, SizeAssumption DEF Unit, Size
<1> QED
  BY <1>1, <1>2

(* A node that expires at e sits in list h to good purpose, if t is the    *)
(* tick from which on the ring of h is still to be visited: the list is    *)
(* visited again at tick q * Unit, no later than e and within a rotation.  *)
Waits(h, e, t) ==
  \E q \in Nat :
    /\ h[2] = q % Size(h[1])
    /\ t <= q * Unit(h[1]) /\ q * Unit(h[1]) < t + Span[h[1]]
    /\ q * Unit(h[1]) <= e
    /\ h[1] = 0 => q = e

LEMMA WaitsInRing ==
  ASSUME NEW k \in 1..4, NEW e \in Nat, NEW u \in Nat, NEW j \in Nat,
         NEW t \in {j, j + 1}, u <= e, j + Span[k - 1] <= u, u < j + Span[k]
  PROVE  Waits(<<k, (u \div Span[k - 1]) % LevelSize>>, e, t)
<1> DEFINE s == Span[k - 1]
           q == u \div s
<1>1. s \in Nat \ {0} /\ Unit(k) = s /\ Size(k) = LevelSize /\ Span[k] \in Nat
  BY RingType DEF Unit, Size
<1> HIDE DEF s
<1>2. q \in Nat /\ u = s * q + (u % s) /\ u % s \in 0 .. s - 1
  <2>1. u \in Int
    OBVIOUS
  <2> QED
    BY <1>1, <2>1, DivMod, DivModNat
<1> HIDE DEF q
<1>3. j + s <= u
  BY DEF s
<1>4. q * s <= u /\ u < q * s + s /\ q * s \in Nat
  BY <1>1, <1>2
<1>5. t <= q * s /\ q * s < t + Span[k] /\ q * s <= e
  BY <1>1, <1>3, <1>4
<1> DEFINE h == <<k, q % LevelSize>>
<1>6. h[1] = k /\ h[2] = q % Size(h[1]) /\ Unit(h[1]) = s
  BY <1>1
<1> HIDE DEF h
<1>7. Waits(h, e, t)
  BY <1>2, <1>5, <1>6 DEF Waits
<1> QED
  BY <1>7 DEF h, q, s

(* The list add chooses is one the wheel visits in time.                   *)
LEMMA AddWaits ==
  ASSUME NEW e \in Nat, NEW j \in Nat, j < e, NEW t \in {j, j + 1},
         ListFor(e, j)[1] = 0 => t = j
  PROVE  Waits(ListFor(e, j), e, t)
<1>1. \A k \in 0..4 : Span[k] \in Nat \ {0}
  BY RingType
<1>2. CASE e - j < Span[0]
  <2>1. ListFor(e, j) = <<0, e % NearSize>> /\ t = j
    BY <1>2 DEF ListFor
  <2> QED
    BY <1>1, <1>2, <2>1 DEF Waits, Unit, Size
<1>3. ASSUME NEW k \in 1..4, Span[k - 1] <= e - j, e - j < Span[k]
      PROVE  Waits(<<k, (e \div Span[k - 1]) % LevelSize>>, e, t)
  <2>1. Span[k - 1] \in Nat /\ Span[k] \in Nat
    BY <1>1
  <2>2. j + Span[k - 1] <= e /\ e < j + Span[k] /\ e <= e
    BY <1>3, <2>1
  <2> QED
    BY <2>2, WaitsInRing
<1>4. CASE e - j >= Span[0] /\ e - j < Span[1]
  BY <1>1, <1>3, <1>4 DEF ListFor
<1>5. CASE e - j >= Span[1] /\ e - j < Span[2]
  <2>1. e - j >= Span[0]
    BY <1>1, <1>5, SizeAssumption
  <2> QED
    BY <1>1, <1>3, <1>5, <2>1 DEF ListFor
<1>6. CASE e - j >= Span[2] /\ e - j < Span[3]
  <2>1. e - j >= Span[0] /\ e - j >= Span[1]
    BY <1>1, <1>6, SizeAssumption
  <2> QED
    BY <1>1, <1>3, <1>6, <2>1 DEF ListFor
<1>7. CASE e - j >= Span[3]
  <2>1. e - j >= Span[0] /\ e - j >= Span[1] /\ e - j >= Span[2]
    BY <1>1, <1>7, SizeAssumption
  <2> DEFINE u == IF e - j < Span[4] THEN e ELSE j + Span[4] - 1
  <2>2. ListFor(e, j) = <<4, (u \div Span[3]) % LevelSize>>
    BY <1>1, <1>7, <2>1 DEF ListFor
  <2>3. Span[3] < Span[4]
    BY SizeAssumption
  <2>4. u \in Nat /\ u <= e /\ j + Span[3] <= u /\ u < j + Span[4]
    BY <1>1, <1>7, <2>3
  <2> HIDE DEF u
  <2>5. Waits(<<4, (u \div Span[4 - 1]) % LevelSize>>, e, t)
    BY <2>4, WaitsInRing
  <2> QED
    BY <2>2, <2>5
<1> QED
  BY <1>1, <1>2, <1>4, <1>5, <1>6, <1>7

(* When the wheel visits ring k at its Q-th tick, the nodes of the list it *)
(* visits are due now or later; those of the other lists wait on.          *)
LEMMA VisitWaits ==
  ASSUME NEW k \in 0..4, NEW i \in Nat, NEW e \in Nat, NEW Q \in Nat,
         Waits(<<k, i>>, e, Q * Unit(k))
  PROVE  /\ i = Q % Size(k) => Q * Unit(k) <= e /\ (k = 0 => e = Q)
         /\ i # Q % Size(k) => Waits(<<k, i>>, e, Q * Unit(k) + 1)
<1> DEFINE u == Unit(k)
           n == Size(k)
<1>1. /\ u \in Nat \ {0} /\ n \in Nat \ {0} /\ Span[k] = u * n
      /\ k = 0 => u = 1
  BY RingType DEF Unit
<1>2. PICK q \in Nat :
        /\ i = q % n
        /\ Q * u <= q * u /\ q * u < Q * u + Span[k]
        /\ q * u <= e
        /\ k = 0 => q = e
  BY DEF Waits
<1> HIDE DEF u, n
<1>3. q * u < (Q + n) * u
  BY <1>1, <1>2
<1>4. Q <= q /\ q < Q + n
  BY <1>1, <1>2, <1>3, MultOrder
<1>5. i = Q % n => q = Q
  BY <1>1, <1>2, <1>4, ModUnique
<1>6. i # Q % n => Q * u + 1 <= q * u
  <2> SUFFICES ASSUME i # Q % n PROVE Q * u + 1 <= q * u
    OBVIOUS
  <2>1. q # Q
    BY <1>2
  <2>2. ~(q * u <= Q * u)
    BY <1>1, <1>4, <2>1, MultOrder
  <2> QED
    BY <1>1, <2>2
<1>7. i # Q % n => Waits(<<k, i>>, e, Q * u + 1)
  <2> SUFFICES ASSUME i # Q % n PROVE Waits(<<k, i>>, e, Q * u + 1)
    OBVIOUS
  <2>1. q * u < (Q * u + 1) + Span[k]
    BY <1>1, <1>2
  <2> QED
    BY <1>2, <1>6, <2>1 DEF Waits, u, n
<1> QED
  BY <1>2, <1>5, <1>7 DEF u, n

(* A tick at which ring k is not visited changes nothing for its lists.    *)
Multiple(x, k) == \E c \in Nat : x = c * Span[k]

LEMMA PassWaits ==
  ASSUME NEW h \in Lists, h[1] # 0, NEW e \in Nat, NEW t \in Nat,
         Waits(h, e, t), ~Multiple(t, h[1] - 1)
  PROVE  Waits(h, e, t + 1)
<1>0. h[1] \in 1..4
  BY DEF Lists
<1>1. PICK q \in Nat :
        /\ h[2] = q % Size(h[1])
        /\ t <= q * Unit(h[1]) /\ q * Unit(h[1]) < t + Span[h[1]]
        /\ q * Unit(h[1]) <= e
  BY DEF Waits
<1>2. q * Unit(h[1]) \in Nat /\ Span[h[1]] \in Nat
  BY <1>0, RingType
<1>3. q * Unit(h[1]) # t
  BY <1>0 DEF Multiple, Unit
<1>4. t + 1 <= q * Unit(h[1]) /\ q * Unit(h[1]) < (t + 1) + Span[h[1]]
  BY <1>1, <1>2, <1>3
<1> QED
  BY <1>0, <1>1, <1>4 DEF Waits

LEMMA CoarserMultiple ==
  ASSUME NEW x \in Nat, NEW k \in 0..4, NEW m \in k..4, Multiple(x, m)
  PROVE  Multiple(x, k)
<1>1. ASSUME NEW j \in 0..3, Multiple(x, j + 1) PROVE Multiple(x, j)
  <2>1. PICK c \in Nat : x = c * Span[j + 1]
    BY <1>1 DEF Multiple
  <2>2. Span[j + 1] = Span[j] * LevelSize /\ Span[j] \in Nat /\ LevelSize \in Nat
    BY SizeAssumption
  <2>3. c * LevelSize \in Nat /\ x = (c * LevelSize) * Span[j]
    BY <2>1, <2>2
  <2> QED
    BY <2>3 DEF Multiple
<1>2. /\ Multiple(x, 4) => Multiple(x, 3)
      /\ Multiple(x, 3) => Multiple(x, 2)
      /\ Multiple(x, 2) => Multiple(x, 1)
      /\ Multiple(x, 1) => Multiple(x, 0)
  BY <1>1
<1> QED
  BY <1>2

LEMMA MultipleIff ==
  /\ \A x \in Nat : x % NearSize = 0 <=> Multiple(x, 0)
  /\ \A x \in Nat, k \in 0..3 :
       Multiple(x, k) => ((x \div Span[k]) % LevelSize = 0 <=> Multiple(x, k + 1))
<1>1. ASSUME NEW x \in Nat, NEW y \in Nat \ {0}
      PROVE  x % y = 0 <=> \E c \in Nat : x = c * y
  <2>1. x % y = 0 => x = (x \div y) * y /\ x \div y \in Nat
    BY DivMod, DivModNat
  <2> QED
    BY <2>1, QuotientUnique
<1>2. \A x \in Nat : x % NearSize = 0 <=> Multiple(x, 0)
  BY <1>1, SizeAssumption DEF Multiple
<1>3. ASSUME NEW x \in Nat, NEW k \in 0..3, Multiple(x, k)
      PROVE  (x \div Span[k]) % LevelSize = 0 <=> Multiple(x, k + 1)
  <2>1. /\ Span[k + 1] = Span[k] * LevelSize /\ Span[k] \in Nat \ {0}
        /\ LevelSize \in Nat \ {0}
    BY SizeAssumption
  <2>2. PICK c \in Nat : x = c * Span[k]
    BY <1>3 DEF Multiple
  <2>3. x \div Span[k] = c
    BY <2>1, <2>2, QuotientUnique
  <2>4. ASSUME NEW d \in Nat PROVE x = d * Span[k + 1] <=> c = d * LevelSize
    <3>1. d * LevelSize \in Nat /\ d * Span[k + 1] = (d * LevelSize) * Span[k]
      BY <2>1
    <3> QED
      BY <2>1, <2>2, <2>3, <3>1, QuotientUnique
  <2>5. c % LevelSize = 0 <=> \E d \in Nat : c = d * LevelSize
    BY <1>1, <2>1
  <2> QED
    BY <2>3, <2>4, <2>5 DEF Multiple
<1> QED
  BY <1>2, <1>3

-----------------------------------------------------------------------------
(* The inductive invariant behind TimelyFire.                              *)

\* A cascade is under way, a node of it possibly in hand.
Cascading ==
  \/ pc \in {"cascade", "move"}
  \/ pc \in {"check", "insert"} /\ back = "move"

\* The coarsest ring that is done with the current tick.
Passed ==
  IF pc = "advance" THEN 4
  ELSE IF pc = "cascade" THEN level
  ELSE IF Cascading THEN level + 1 ELSE 0

\* The tick from which on ring k is still to be visited.
NextVisit(k) ==
  IF k = 0 THEN IF pc = "drain" THEN jiffies - 1 ELSE jiffies
  ELSE IF k <= Passed THEN jiffies + 1 ELSE jiffies

\* Node n does well in list h: the list is visited in time, and only a node
\* of the near ring has been put off, by one tick.
Placed(n, h) ==
  /\ Waits(h, expire[n], NextVisit(h[1]))
  /\ expire[n] \in due[n] .. due[n] + 1
  /\ h[1] # 0 => expire[n] = due[n]

SlotsOK == \A h \in Lists : \A n \in slot[h] \ raced : Placed(n, h)

\* The nodes detached: due now or later while the coarser rings are cascaded,
\* due at the tick just left once the near ring is drained.
BatchOK ==
  \A n \in batch \ raced :
    IF Cascading THEN jiffies <= expire[n] /\ expire[n] = due[n]
    ELSE expire[n] = jiffies - 1 /\ expire[n] \in due[n] .. due[n] + 1

\* The node in hand; a node that loops is timed by the wheel itself.
HandOK ==
  back = "dispatch" \/ cur \notin raced =>
    /\ pc = "check" => Placed(cur, target)
    /\ pc = "insert" => Placed(cur, held)

AskedOK ==
  \A n \in Timers : cpc[n] = "push" => expire[n] = due[n] /\ base[n] < expire[n]

CascadeOK == Cascading => Multiple(jiffies, level)

TimelyInv ==
  PlaceInv /\ SlotsOK /\ BatchOK /\ HandOK /\ AskedOK /\ CascadeOK

LEMMA VisitType ==
  ASSUME TypeInv, NEW k \in 0..4
  PROVE  /\ NextVisit(k) \in Nat
         /\ k # 0 => NextVisit(k) \in {jiffies, jiffies + 1}
         /\ k = 0 /\ pc # "drain" => NextVisit(k) = jiffies
BY DEF TypeInv, TypeOK, WheelOK, NextVisit

LEMMA ListRing ==
  ASSUME NEW h \in Lists
  PROVE  h[1] \in 0..4 /\ h = <<h[1], h[2]>> /\ h[2] \in Nat
BY SizeAssumption DEF Lists

(* The lists only lose nodes, and no ring is visited.                      *)
LEMMA SlotsKept ==
  ASSUME TypeInv, SlotsOK,
         \A k \in 0..4 : NextVisit(k)' = NextVisit(k),
         \A h \in Lists : slot'[h] \subseteq slot[h],
         \A n \in Timers : InSlot(n) => expire'[n] = expire[n] /\ due'[n] = due[n],
         raced \subseteq raced'
  PROVE  SlotsOK'
<1> SUFFICES ASSUME NEW h \in Lists, NEW n \in slot'[h] \ raced'
             PROVE  Placed(n, h)'
  BY DEF SlotsOK
<1>1. n \in slot[h] \ raced /\ n \in Timers /\ InSlot(n)
  BY DEF InSlot, TypeInv, TypeOK
<1>2. Placed(n, h)
  BY <1>1 DEF SlotsOK
<1>3. NextVisit(h[1])' = NextVisit(h[1])
  BY ListRing
<1>4. expire'[n] = expire[n] /\ due'[n] = due[n]
  BY <1>1
<1> QED
  BY <1>2, <1>3, <1>4 DEF Placed

(* No ring is visited, because no list of it falls due at this tick.       *)
LEMMA SlotsPassed ==
  ASSUME TypeInv, SlotsOK,
         \A k \in 0..4 : \/ NextVisit(k)' = NextVisit(k)
                         \/ /\ k # 0 /\ ~Multiple(jiffies, k - 1)
                            /\ NextVisit(k) = jiffies
                            /\ NextVisit(k)' = jiffies + 1,
         UNCHANGED <<slot, expire, due, raced>>
  PROVE  SlotsOK'
<1> SUFFICES ASSUME NEW h \in Lists, NEW n \in slot[h] \ raced
             PROVE  Placed(n, h)'
  BY DEF SlotsOK
<1>1. Placed(n, h) /\ expire[n] \in Nat /\ jiffies \in Nat
  BY DEF SlotsOK, TypeInv, TypeOK
<1>2. h[1] \in 0..4
  BY ListRing
<1>3. CASE NextVisit(h[1])' = NextVisit(h[1])
  BY <1>1, <1>3 DEF Placed
<1>4. CASE /\ h[1] # 0 /\ ~Multiple(jiffies, h[1] - 1)
           /\ NextVisit(h[1]) = jiffies /\ NextVisit(h[1])' = jiffies + 1
  <2>1. Waits(h, expire[n], jiffies)
    BY <1>1, <1>4 DEF Placed
  <2>2. Waits(h, expire[n], jiffies + 1)
    BY <1>1, <1>4, <2>1, PassWaits
  <2> QED
    BY <1>1, <1>4, <2>2 DEF Placed
<1> QED
  BY <1>2, <1>3, <1>4

(* Ring k is visited: the list detached holds what is due, the others wait *)
(* on.                                                                     *)
LEMMA SlotsVisited ==
  ASSUME PlaceInv, SlotsOK, NEW k \in 0..4, NEW Q \in Nat,
         Detach(<<k, Q % Size(k)>>), <<k, Q % Size(k)>> \in Lists,
         NextVisit(k) = Q * Unit(k), NextVisit(k)' = Q * Unit(k) + 1,
         \A m \in 0..4 : m # k => NextVisit(m)' = NextVisit(m),
         UNCHANGED <<expire, due, raced>>
  PROVE  /\ SlotsOK'
         /\ \A n \in batch' \ raced :
              /\ Q * Unit(k) <= expire[n] /\ (k = 0 => expire[n] = Q)
              /\ expire[n] \in due[n] .. due[n] + 1
              /\ k # 0 => expire[n] = due[n]
<1> DEFINE h0 == <<k, Q % Size(k)>>
<1>1. batch' = slot[h0] /\ \A h \in Lists : slot'[h] = IF h = h0 THEN {} ELSE slot[h]
  <2>1. CASE len[h0] = 0 /\ batch' = {} /\ UNCHANGED lists
    <3>1. slot[h0] = {}
      BY <2>1, EmptyList
    <3> QED
      BY <2>1, <3>1 DEF lists
  <2>2. CASE batch' = slot[h0] /\ slot' = [slot EXCEPT ![h0] = {}]
    BY <2>2 DEF PlaceInv, TypeInv, TypeOK
  <2> QED
    BY <2>1, <2>2 DEF Detach
<1>2. \A h \in Lists : \A n \in slot[h] \ raced : Placed(n, h) /\ expire[n] \in Nat
  BY DEF SlotsOK, PlaceInv, TypeInv, TypeOK
<1>3. ASSUME NEW h \in Lists, NEW n \in slot'[h] \ raced
      PROVE  Placed(n, h)'
  <2>1. n \in slot[h] \ raced /\ h # h0
    BY <1>1, <1>3
  <2>2. Placed(n, h) /\ expire[n] \in Nat
    BY <1>2, <2>1
  <2>3. h[1] \in 0..4 /\ h = <<h[1], h[2]>> /\ h[2] \in Nat
    BY ListRing
  <2>4. CASE h[1] # k
    BY <2>2, <2>3, <2>4 DEF Placed
  <2>5. CASE h[1] = k
    <3>1. PICK i \in Nat : h = <<k, i>> /\ i # Q % Size(k)
      BY <2>1, <2>3, <2>5
    <3>2. Waits(<<k, i>>, expire[n], Q * Unit(k))
      BY <2>2, <2>5, <3>1 DEF Placed
    <3>3. Waits(h, expire[n], Q * Unit(k) + 1)
      BY <2>2, <3>1, <3>2, VisitWaits
    <3> QED
      BY <2>2, <2>5, <3>3 DEF Placed
  <2> QED
    BY <2>4, <2>5
<1>4. ASSUME NEW n \in batch' \ raced
      PROVE  /\ Q * Unit(k) <= expire[n] /\ (k = 0 => expire[n] = Q)
             /\ expire[n] \in due[n] .. due[n] + 1
             /\ k # 0 => expire[n] = due[n]
  <2>1. Placed(n, h0) /\ expire[n] \in Nat
    BY <1>1, <1>2
  <2>2. PICK i \in Nat : h0 = <<k, i>> /\ i = Q % Size(k)
    BY ListRing
  <2>3. Waits(<<k, i>>, expire[n], Q * Unit(k)) /\ h0[1] = k
    BY <2>1, <2>2 DEF Placed
  <2>4. Q * Unit(k) <= expire[n] /\ (k = 0 => expire[n] = Q)
    BY <2>1, <2>2, <2>3, VisitWaits
  <2> QED
    BY <2>1, <2>3, <2>4 DEF Placed
<1> QED
  BY <1>1, <1>3, <1>4 DEF SlotsOK

(* A node that is linked sits where it is visited in time.                 *)
LEMMA SlotsLinked ==
  ASSUME TypeInv, SlotsOK, NEW n \in Timers, NEW h \in Lists, Link(n, h),
         ~InSlot(n), \A k \in 0..4 : NextVisit(k)' = NextVisit(k),
         UNCHANGED <<expire, due>>, raced \subseteq raced' \cup {n},
         n \notin raced' => Placed(n, h)
  PROVE  SlotsOK'
<1> SUFFICES ASSUME NEW g \in Lists, NEW m \in slot'[g] \ raced'
             PROVE  Placed(m, g)'
  BY DEF SlotsOK
<1>1. \A f \in Lists : slot'[f] = IF f = h THEN slot[h] \cup {n} ELSE slot[f]
  BY DEF Link, TypeInv, TypeOK
<1>2. (m \in slot[g] /\ m # n) \/ (m = n /\ g = h)
  BY <1>1 DEF InSlot
<1>3. NextVisit(g[1])' = NextVisit(g[1])
  BY ListRing
<1>4. CASE m \in slot[g] /\ m # n
  <2>1. Placed(m, g)
    BY <1>4 DEF SlotsOK
  <2> QED
    BY <1>3, <2>1 DEF Placed
<1>5. CASE m = n /\ g = h
  BY <1>3, <1>5 DEF Placed
<1> QED
  BY <1>2, <1>4, <1>5

(* What the wheel puts in hand goes to a list it visits in time.           *)
LEMMA HandAdded ==
  ASSUME PlaceInv, NEW n \in Timers, NEW e \in Nat, jiffies < e,
         pc' = "check", jiffies' = jiffies, cur' = n,
         expire'[n] = e, target' = ListFor(e, jiffies),
         (n \in raced' /\ back' = "move") \/ e \in due'[n] .. due'[n] + 1,
         e = due'[n] \/ e = jiffies + 1
  PROVE  HandOK'
<1>0. jiffies \in Nat
  BY DEF PlaceInv, TypeInv, TypeOK
<1>1. PICK h \in Lists : h = ListFor(e, jiffies)
  BY <1>0, ListForType
<1>2. h[1] # 0 => e = due'[n]
  <2>1. (jiffies + 1) - jiffies < Span[0]
    BY <1>0, SizeAssumption
  <2>2. ListFor(jiffies + 1, jiffies)[1] = 0
    BY <2>1 DEF ListFor
  <2> QED
    BY <1>1, <2>2
<1>3. h[1] \in 0..4
  BY <1>1, ListRing
<1>4. PICK t \in {jiffies, jiffies + 1} :
        t = NextVisit(h[1])' /\ (h[1] = 0 => t = jiffies)
  BY <1>0, <1>3 DEF NextVisit
<1>5. Waits(h, e, t)
  BY <1>0, <1>1, <1>4, AddWaits
<1> QED
  BY <1>1, <1>2, <1>4, <1>5 DEF HandOK, Placed

LEMMA TimelyClient ==
  ASSUME TimelyInv, NEW n \in Timers, Client(n) \/ Stop(n)
  PROVE  SlotsOK' /\ BatchOK' /\ HandOK' /\ AskedOK' /\ CascadeOK'
<1> USE DEF TimelyInv
<1>0. TypeInv /\ LinkedOK /\ LooseOK
  BY DEF PlaceInv
<1>1. UNCHANGED <<jiffies, pc, level, cur, target, held, back>>
  BY DEF Client, Stop, ScheduleRead, SchedulePush, ScheduleStore, StopFlag,
         StopLoad, StopUnlink, wheel
<1>2. /\ \A k \in 0..4 : NextVisit(k)' = NextVisit(k)
      /\ Cascading' <=> Cascading
  BY <1>1 DEF NextVisit, Passed, Cascading
<1>3. CascadeOK'
  BY <1>1, <1>2 DEF CascadeOK
<1>4. batch' \subseteq batch /\ raced' \subseteq raced \cup {n} /\ raced \subseteq raced'
  BY DEF Client, Stop, ScheduleRead, SchedulePush, ScheduleStore, StopFlag,
         StopLoad, StopUnlink, Unlink, wheel
<1>5. \A m \in Timers : Pushed(m) => expire'[m] = expire[m] /\ due'[m] = due[m]
  BY <1>0 DEF Client, Stop, ScheduleRead, SchedulePush, ScheduleStore, StopFlag,
         StopLoad, StopUnlink, timing, Pushed, TypeInv, TypeOK
<1>6. BatchOK'
  <2>1. ASSUME NEW m \in batch'
        PROVE  m \in batch /\ m \in Timers /\ expire'[m] = expire[m] /\ due'[m] = due[m]
    BY <1>0, <1>4, <1>5, <2>1 DEF LooseOK, TypeInv, TypeOK
  <2> QED
    BY <1>1, <1>2, <1>4, <2>1 DEF BatchOK
<1>7. HandOK'
  <2> SUFFICES ASSUME pc \in {"check", "insert"}, back = "dispatch" \/ cur \notin raced'
               PROVE  /\ pc = "check" => Placed(cur, target)'
                      /\ pc = "insert" => Placed(cur, held)'
    BY <1>1 DEF HandOK
  <2>1. cur \in Timers /\ Pushed(cur)
    BY <1>0 DEF TypeInv, WheelOK, LooseOK, InHand
  <2>2. expire'[cur] = expire[cur] /\ due'[cur] = due[cur]
    BY <1>5, <2>1
  <2>3. PICK h \in Lists : h = IF pc = "check" THEN target ELSE held
    BY <1>0 DEF TypeInv, WheelOK
  <2>4. Placed(cur, h)
    BY <1>4, <2>3 DEF HandOK
  <2>5. NextVisit(h[1])' = NextVisit(h[1])
    BY <1>2, ListRing
  <2>6. Placed(cur, h)'
    BY <1>1, <2>2, <2>4, <2>5 DEF Placed
  <2> QED
    BY <1>1, <2>3, <2>6
<1>8. AskedOK'
  <2>1. CASE ScheduleRead(n)
    BY <1>0, <2>1, ClientAssumption DEF ScheduleRead, AskedOK, TypeInv, TypeOK
  <2>2. CASE SchedulePush(n) \/ ScheduleStore(n) \/ Stop(n)
    BY <1>0, <2>2 DEF SchedulePush, ScheduleStore, Stop, StopFlag, StopLoad, StopUnlink,
                timing, clients, AskedOK, TypeInv, TypeOK
  <2> QED
    BY <2>1, <2>2 DEF Client
<1>9. SlotsOK'
  <2>1. CASE SchedulePush(n)
    <3>1. PICK h \in Lists : h = ListFor(expire[n], base[n])
      BY <1>0, ListForType DEF TypeInv, TypeOK
    <3>2. Link(n, h) /\ UNCHANGED <<expire, due>> /\ cpc[n] = "push"
      BY <2>1, <3>1 DEF SchedulePush, timing
    <3>3. ~InSlot(n)
      BY <1>0, <3>2 DEF InSlot, LinkedOK, Pushed
    <3>4. n \notin raced' => Placed(n, h)
      <4> SUFFICES ASSUME n \notin raced' PROVE Placed(n, h)
        OBVIOUS
      <4>1. base[n] = jiffies /\ pc # "drain"
        BY <2>1 DEF SchedulePush
      <4>2. expire[n] = due[n] /\ jiffies < expire[n]
        BY <3>2, <4>1 DEF AskedOK
      <4>3. expire[n] \in Nat /\ jiffies \in Nat
        BY <1>0 DEF TypeInv, TypeOK
      <4>4. h[1] \in 0..4
        BY ListRing
      <4>5. /\ NextVisit(h[1]) \in {jiffies, jiffies + 1}
            /\ h[1] = 0 => NextVisit(h[1]) = jiffies
        BY <1>0, <4>1, <4>4, VisitType
      <4>6. Waits(h, expire[n], NextVisit(h[1]))
        BY <3>1, <4>1, <4>2, <4>3, <4>5, AddWaits
      <4> QED
        BY <4>2, <4>3, <4>6 DEF Placed
    <3> QED
      BY <1>0, <1>2, <1>4, <3>2, <3>3, <3>4, SlotsLinked
  <2>2. CASE ScheduleRead(n) \/ ScheduleStore(n) \/ Stop(n)
    <3>1. \A h \in Lists : slot'[h] \subseteq slot[h]
      BY <1>0, <2>2 DEF ScheduleRead, ScheduleStore, Stop, StopFlag, StopLoad, StopUnlink,
                  Unlink, lists, TypeInv, TypeOK
    <3>2. \A m \in Timers : InSlot(m) => expire'[m] = expire[m] /\ due'[m] = due[m]
      BY <1>0, <1>5 DEF LinkedOK, InSlot
    <3> QED
      BY <1>0, <1>2, <1>4, <3>1, <3>2, SlotsKept
  <2> QED
    BY <2>1, <2>2 DEF Client
<1> QED
  BY <1>3, <1>6, <1>7, <1>8, <1>9

(* The cascade of one ring: its list is detached, and each node of it put  *)
(* in hand.                                                                *)
LEMMA TimelyCascade ==
  ASSUME TimelyInv, Cascade
  PROVE  SlotsOK' /\ BatchOK' /\ HandOK' /\ CascadeOK'
<1> USE DEF TimelyInv
<1>0. TypeInv
  BY DEF PlaceInv
<1>1. /\ pc = "cascade" /\ pc' = "move" /\ Detach(CascadeList(level))
      /\ UNCHANGED <<jiffies, level, expire, due, raced>>
  BY DEF Cascade, timing
<1>2. level \in 0..3 /\ jiffies \in Nat
  BY <1>0 DEF TypeInv, TypeOK
<1>3. Multiple(jiffies, level)
  BY <1>1 DEF CascadeOK, Cascading
<1>4. PICK k \in 1..4, Q \in Nat : k = level + 1 /\ jiffies = Q * Span[k - 1]
  BY <1>2, <1>3 DEF Multiple
<1>5. k \in 0..4 /\ Unit(k) = Span[k - 1] /\ Size(k) = LevelSize /\ Unit(k) \in Nat \ {0}
  BY RingType DEF Unit, Size
<1>6. CascadeList(level) = <<k, Q % Size(k)>>
  <2>1. (Q * Unit(k)) \div Unit(k) = Q
    BY <1>5, QuotientUnique
  <2>2. level = k - 1
    BY <1>2, <1>4
  <2> QED
    BY <1>4, <1>5, <2>1, <2>2 DEF CascadeList
<1>7. CascadeList(level) \in Lists
  BY <1>2, CascadeListType
<1>8. /\ NextVisit(k) = Q * Unit(k) /\ NextVisit(k)' = Q * Unit(k) + 1
      /\ \A m \in 0..4 : m # k => NextVisit(m)' = NextVisit(m)
  BY <1>1, <1>2, <1>4, <1>5 DEF NextVisit, Passed, Cascading
<1>9. /\ SlotsOK'
      /\ \A n \in batch' \ raced : jiffies <= expire[n] /\ expire[n] = due[n]
  <2>1. Detach(<<k, Q % Size(k)>>) /\ <<k, Q % Size(k)>> \in Lists
    BY <1>1, <1>6, <1>7
  <2>2. UNCHANGED <<expire, due, raced>>
    BY <1>1
  <2>3. /\ SlotsOK'
        /\ \A n \in batch' \ raced :
             Q * Unit(k) <= expire[n] /\ (k # 0 => expire[n] = due[n])
    BY <1>5, <1>8, <2>1, <2>2, SlotsVisited
  <2>4. jiffies = Q * Unit(k) /\ k # 0
    BY <1>4, <1>5
  <2> QED
    BY <2>3, <2>4
<1>10. BatchOK' /\ HandOK' /\ CascadeOK'
  BY <1>1, <1>3, <1>9 DEF BatchOK, HandOK, CascadeOK, Cascading
<1> QED
  BY <1>9, <1>10

LEMMA TimelyCascadeNode ==
  ASSUME TimelyInv, CascadeNode
  PROVE  SlotsOK' /\ BatchOK' /\ HandOK' /\ AskedOK' /\ CascadeOK'
<1> USE DEF TimelyInv
<1>0. TypeInv /\ LinkedOK /\ LooseOK
  BY DEF PlaceInv
<1>1. PICK n \in batch : TakeForPush(n, expire[n], "move")
  BY DEF CascadeNode
<1>2. /\ n \in Timers /\ expire[n] \in Nat /\ jiffies \in Nat
      /\ expire \in [Timers -> Nat] /\ Pushed(n) /\ ~InSlot(n)
  BY <1>0 DEF TypeInv, TypeOK, LooseOK
<1>3. PICK e \in Nat : e = LaterOf(expire[n], jiffies + 1)
  BY <1>2 DEF LaterOf
<1>4. /\ pc = "move" /\ pc' = "check" /\ back' = "move" /\ cur' = n
      /\ batch' = batch \ {n} /\ target' = ListFor(e, jiffies)
      /\ expire' = [expire EXCEPT ![n] = e]
      /\ UNCHANGED <<jiffies, slot, level, raced, due, cpc, base>>
  BY <1>1, <1>3 DEF CascadeNode, TakeForPush, lists, clients
<1>5. /\ expire'[n] = e /\ jiffies < e
      /\ \A m \in Timers \ {n} : expire'[m] = expire[m]
  BY <1>2, <1>3, <1>4 DEF LaterOf
<1>6. HandOK'
  <2>1. n \notin raced => jiffies <= expire[n] /\ expire[n] = due[n]
    BY <1>4 DEF BatchOK, Cascading
  <2>2. CASE n \in raced
    BY <1>4, <2>2 DEF HandOK
  <2>3. CASE n \notin raced
    <3>1. e = due[n] \/ (e = jiffies + 1 /\ due[n] = jiffies)
      BY <1>2, <1>3, <2>1, <2>3 DEF LaterOf
    <3>2. due'[n] = due[n] /\ due[n] \in Nat
      BY <1>2, <1>4, <2>1, <2>3
    <3>3. e = due'[n] \/ e = jiffies + 1
      BY <3>1, <3>2
    <3>4. e \in due'[n] .. due'[n] + 1
      BY <1>2, <3>1, <3>2
    <3> QED
      BY <1>2, <1>4, <1>5, <3>3, <3>4, HandAdded
  <2> QED
    BY <2>2, <2>3
<1>7. Cascading /\ Cascading' /\ \A k \in 0..4 : NextVisit(k)' = NextVisit(k)
  BY <1>4 DEF Cascading, NextVisit, Passed
<1>8. SlotsOK'
  <2>1. \A m \in Timers : InSlot(m) => expire'[m] = expire[m] /\ due'[m] = due[m]
    BY <1>2, <1>4, <1>5
  <2> QED
    BY <1>0, <1>4, <1>7, <2>1, SlotsKept
<1>9. BatchOK'
  <2>1. \A m \in batch' \ raced : m \in Timers \ {n} /\ m \in batch \ raced
    BY <1>0, <1>4 DEF TypeInv, TypeOK
  <2> QED
    BY <1>4, <1>5, <1>7, <2>1 DEF BatchOK
<1>10. AskedOK'
  BY <1>2, <1>4, <1>5 DEF AskedOK, Pushed
<1>11. CascadeOK'
  BY <1>4, <1>7 DEF CascadeOK
<1> QED
  BY <1>6, <1>8, <1>9, <1>10, <1>11

(* The wheel goes on to the next ring or to the tick.                      *)
LEMMA TimelyTick ==
  ASSUME TimelyInv, Tick \/ CascadeDone \/ Advance
  PROVE  SlotsOK' /\ BatchOK' /\ HandOK' /\ CascadeOK'
<1> USE DEF TimelyInv
<1>0. TypeInv /\ jiffies \in Nat /\ level \in 0..3
  BY DEF PlaceInv, TypeInv, TypeOK
<1>1. UNCHANGED <<slot, expire, due, raced, batch>>
  BY DEF Tick, CascadeDone, Advance, lists, timing
<1>2. batch = {}
  BY <1>0 DEF Tick, CascadeDone, Advance, TypeInv, WheelOK
<1>3. pc' \notin {"check", "insert"}
  BY DEF Tick, CascadeDone, Advance
<1>4. BatchOK' /\ HandOK'
  BY <1>1, <1>2, <1>3 DEF BatchOK, HandOK
<1>5. SlotsOK' /\ CascadeOK'
  <2>1. CASE Tick
    <3>1. pc = "idle" /\ jiffies' = jiffies /\ level' = 0
      BY <2>1 DEF Tick
    <3>2. CASE jiffies % NearSize = 0 /\ pc' = "cascade"
      <4>1. Multiple(jiffies, 0)
        BY <1>0, <3>2, MultipleIff
      <4>2. \A k \in 0..4 : NextVisit(k)' = NextVisit(k)
        BY <3>1, <3>2 DEF NextVisit, Passed, Cascading
      <4> QED
        BY <1>0, <1>1, <3>1, <4>1, <4>2, SlotsPassed DEF CascadeOK
    <3>3. CASE jiffies % NearSize # 0 /\ pc' = "advance"
      <4>1. ~Multiple(jiffies, 0)
        BY <1>0, <3>3, MultipleIff
      <4>2. ASSUME NEW k \in 1..4 PROVE ~Multiple(jiffies, k - 1)
        <5>1. k - 1 \in 0..4 /\ 0 \in 0..4
          OBVIOUS
        <5> QED
          BY <1>0, <4>1, <5>1, CoarserMultiple
      <4>3. \A k \in 0..4 : \/ k = 0 /\ NextVisit(k)' = NextVisit(k)
                            \/ /\ k \in 1..4 /\ NextVisit(k) = jiffies
                               /\ NextVisit(k)' = jiffies + 1
        BY <3>1, <3>3 DEF NextVisit, Passed, Cascading
      <4>4. SlotsOK'
        BY <1>0, <1>1, <4>2, <4>3, SlotsPassed
      <4> QED
        BY <3>3, <4>4 DEF CascadeOK, Cascading
    <3> QED
      BY <2>1, <3>2, <3>3 DEF Tick
  <2>2. CASE CascadeDone
    <3>1. /\ pc = "move" /\ jiffies' = jiffies /\ Multiple(jiffies, level)
          /\ CascadeList(level)[2] = (jiffies \div Span[level]) % LevelSize
      BY <2>2 DEF CascadeDone, CascadeOK, Cascading, CascadeList
    <3>2. CASE /\ CascadeList(level)[2] = 0 /\ level # 3
               /\ pc' = "cascade" /\ level' = level + 1
      <4>1. Multiple(jiffies, level + 1)
        BY <1>0, <3>1, <3>2, MultipleIff
      <4>2. \A k \in 0..4 : NextVisit(k)' = NextVisit(k)
        BY <1>0, <3>1, <3>2 DEF NextVisit, Passed, Cascading
      <4> QED
        BY <1>0, <1>1, <3>1, <3>2, <4>1, <4>2, SlotsPassed DEF CascadeOK
    <3>3. CASE /\ CascadeList(level)[2] # 0 \/ level = 3
               /\ pc' = "advance" /\ level' = level
      <4>1. ASSUME NEW k \in 1..4, k > level + 1 PROVE ~Multiple(jiffies, k - 1)
        <5>1. level # 3 /\ ~Multiple(jiffies, level + 1)
          BY <1>0, <3>1, <3>3, <4>1, MultipleIff
        <5>2. level + 1 \in 0..4 /\ k - 1 \in (level + 1)..4
          BY <1>0, <4>1
        <5> QED
          BY <1>0, <5>1, <5>2, CoarserMultiple
      <4>2. \A k \in 0..4 : \/ NextVisit(k)' = NextVisit(k)
                            \/ /\ k \in 1..4 /\ k > level + 1
                               /\ NextVisit(k) = jiffies
                               /\ NextVisit(k)' = jiffies + 1
        BY <1>0, <3>1, <3>3 DEF NextVisit, Passed, Cascading
      <4>3. SlotsOK'
        BY <1>0, <1>1, <4>1, <4>2, SlotsPassed
      <4> QED
        BY <3>3, <4>3 DEF CascadeOK, Cascading
    <3> QED
      BY <2>2, <3>2, <3>3 DEF CascadeDone, LastRing
  <2>3. CASE Advance
    <3>1. pc = "advance" /\ pc' = "drain" /\ jiffies' = jiffies + 1
      BY <2>3 DEF Advance
    <3>2. \A k \in 0..4 : NextVisit(k)' = NextVisit(k)
      BY <1>0, <3>1 DEF NextVisit, Passed, Cascading
    <3>3. SlotsOK'
      BY <1>0, <1>1, <3>2, SlotsPassed
    <3> QED
      BY <3>1, <3>3 DEF CascadeOK, Cascading
  <2> QED
    BY <2>1, <2>2, <2>3
<1> QED
  BY <1>4, <1>5

LEMMA TimelyDrain ==
  ASSUME TimelyInv, Drain
  PROVE  SlotsOK' /\ BatchOK' /\ HandOK' /\ CascadeOK'
<1> USE DEF TimelyInv
<1>0. TypeInv
  BY DEF PlaceInv
<1>1. /\ pc = "drain" /\ pc' = "exec" /\ Detach(<<0, (jiffies - 1) % NearSize>>)
      /\ UNCHANGED <<jiffies, expire, due, raced>>
  BY DEF Drain, timing
<1>2. PICK Q \in Nat : Q = jiffies - 1 /\ jiffies = Q + 1
  BY <1>0, <1>1 DEF TypeInv, TypeOK, WheelOK
<1>3. /\ Unit(0) = 1 /\ Size(0) = NearSize /\ Q * Unit(0) = Q
      /\ <<0, Q % Size(0)>> \in Lists
  BY IndexType DEF Unit, Size
<1>4. /\ NextVisit(0) = Q * Unit(0) /\ NextVisit(0)' = Q * Unit(0) + 1
      /\ \A m \in 0..4 : m # 0 => NextVisit(m)' = NextVisit(m)
  BY <1>1, <1>2, <1>3 DEF NextVisit, Passed, Cascading
<1>5. /\ SlotsOK'
      /\ \A n \in batch' \ raced : expire[n] = Q /\ expire[n] \in due[n] .. due[n] + 1
  <2>1. Detach(<<0, Q % Size(0)>>) /\ 0 \in 0..4
    BY <1>1, <1>2, <1>3
  <2>2. UNCHANGED <<expire, due, raced>>
    BY <1>1
  <2> QED
    BY <1>3, <1>4, <2>1, <2>2, SlotsVisited
<1>6. BatchOK' /\ HandOK' /\ CascadeOK'
  BY <1>1, <1>2, <1>5 DEF BatchOK, HandOK, CascadeOK, Cascading
<1> QED
  BY <1>5, <1>6

(* A drained node is dropped, dispatched, or armed again.                  *)
LEMMA TimelyExec ==
  ASSUME TimelyInv, NEW n \in Timers, ExecNode(n)
  PROVE  SlotsOK' /\ BatchOK' /\ HandOK' /\ AskedOK' /\ CascadeOK'
<1> USE DEF TimelyInv
<1>0. TypeInv /\ LinkedOK /\ LooseOK
  BY DEF PlaceInv
<1>1. /\ pc = "exec" /\ batch' = batch \ {n} /\ Pushed(n) /\ ~InSlot(n)
      /\ UNCHANGED <<jiffies, slot, raced, cpc, base>>
  BY <1>0 DEF ExecNode, TakeForPush, lists, clients, LooseOK
<1>2. \/ pc' \in {"exec", "dispatch"}
      \/ pc' = "check" /\ back' = "dispatch"
  BY <1>1 DEF ExecNode, TakeForPush
<1>3. \A m \in Timers \ {n} : expire'[m] = expire[m] /\ due'[m] = due[m]
  BY <1>0 DEF ExecNode, TakeForPush, TypeInv, TypeOK
<1>4. /\ ~Cascading /\ ~Cascading'
      /\ \A k \in 0..4 : NextVisit(k)' = NextVisit(k)
  BY <1>1, <1>2 DEF Cascading, NextVisit, Passed
<1>5. SlotsOK'
  <2>1. \A m \in Timers : InSlot(m) => expire'[m] = expire[m] /\ due'[m] = due[m]
    BY <1>1, <1>3
  <2> QED
    BY <1>0, <1>1, <1>4, <2>1, SlotsKept
<1>6. BatchOK'
  <2>1. \A m \in batch' \ raced : m \in Timers \ {n} /\ m \in batch \ raced
    BY <1>0, <1>1 DEF TypeInv, TypeOK
  <2> QED
    BY <1>1, <1>3, <1>4, <2>1 DEF BatchOK
<1>7. AskedOK'
  BY <1>1, <1>3 DEF AskedOK, Pushed
<1>8. HandOK'
  <2>1. CASE TakeForPush(n, interval[n] + jiffies, "dispatch")
             /\ due' = [due EXCEPT ![n] = interval[n] + jiffies]
    <3>1. PICK e \in Nat : e = interval[n] + jiffies /\ jiffies < e
      BY <1>0 DEF TypeInv, TypeOK
    <3>2. LaterOf(e, jiffies + 1) = e
      BY <1>0, <3>1 DEF LaterOf, TypeInv, TypeOK
    <3>3. /\ pc' = "check" /\ cur' = n /\ expire'[n] = e /\ due'[n] = e
          /\ target' = ListFor(e, jiffies)
      BY <1>0, <2>1, <3>1, <3>2 DEF TakeForPush, TypeInv, TypeOK
    <3> QED
      BY <1>1, <3>1, <3>3, HandAdded
  <2>2. CASE pc' \in {"exec", "dispatch"}
    BY <2>2 DEF HandOK
  <2> QED
    BY <1>1, <2>1, <2>2 DEF ExecNode
<1>9. CascadeOK'
  BY <1>4 DEF CascadeOK
<1> QED
  BY <1>5, <1>6, <1>7, <1>8, <1>9

(* The node in hand is linked, or dropped.                                 *)
LEMMA TimelyPush ==
  ASSUME TimelyInv, PushCheck \/ PushInsert
  PROVE  SlotsOK' /\ BatchOK' /\ HandOK' /\ CascadeOK'
<1> USE DEF TimelyInv
<1>0. TypeInv /\ LooseOK
  BY DEF PlaceInv
<1>1. /\ pc \in {"check", "insert"} /\ cur \in Timers /\ back' = back
      /\ UNCHANGED <<jiffies, level, expire, due, batch>>
      /\ back \in {"move", "dispatch"} /\ cur \notin batch /\ ~InSlot(cur)
  BY <1>0 DEF PushCheck, PushInsert, AfterPush, timing, TypeInv, TypeOK, WheelOK,
              LooseOK, InHand
<1>2. \/ pc' = back
      \/ PushCheck /\ pc' = "insert" /\ held' = target /\ cur' = cur
  BY DEF PushCheck, PushInsert, AfterPush
<1>3. /\ Cascading' <=> Cascading
      /\ \A k \in 0..4 : NextVisit(k)' = NextVisit(k)
  BY <1>1, <1>2 DEF Cascading, NextVisit, Passed
<1>4. raced' = raced \/ (PushInsert /\ back = "dispatch" /\ raced' = raced \ {cur})
  BY DEF PushCheck, PushInsert
<1>5. BatchOK'
  <2>1. \A m \in batch' \ raced' : m \in batch \ raced
    BY <1>1, <1>4
  <2> QED
    BY <1>1, <1>3, <2>1 DEF BatchOK
<1>6. CascadeOK'
  BY <1>1, <1>3 DEF CascadeOK
<1>7. CASE PushCheck
  <2>1. UNCHANGED <<slot, raced>> /\ pc = "check"
    BY <1>7 DEF PushCheck, lists
  <2>2. SlotsOK'
    BY <1>0, <1>1, <1>3, <2>1, SlotsKept
  <2>3. HandOK'
    <3>1. CASE pc' = back
      BY <1>1, <3>1 DEF HandOK
    <3>2. CASE pc' = "insert" /\ held' = target /\ cur' = cur
      <4> SUFFICES ASSUME back = "dispatch" \/ cur \notin raced
                   PROVE  Placed(cur, held)'
        BY <1>1, <2>1, <3>2 DEF HandOK
      <4>1. PICK h \in Lists : h = target
        BY <1>0, <2>1 DEF TypeInv, WheelOK
      <4>2. Placed(cur, h) /\ h[1] \in 0..4
        BY <2>1, <4>1, ListRing DEF HandOK
      <4>3. Placed(cur, h)'
        BY <1>1, <1>3, <3>2, <4>2 DEF Placed
      <4> QED
        BY <3>2, <4>1, <4>3
    <3> QED
      BY <1>2, <3>1, <3>2
  <2> QED
    BY <1>5, <1>6, <2>2, <2>3
<1>8. CASE PushInsert
  <2>1. pc = "insert" /\ pc' = back /\ Link(cur, held) /\ held \in Lists
    BY <1>0, <1>8 DEF PushInsert, AfterPush, TypeInv, WheelOK
  <2>2. HandOK'
    BY <1>1, <2>1 DEF HandOK
  <2>3. SlotsOK'
    <3>1. cur \notin raced' => Placed(cur, held)
      BY <1>4, <2>1 DEF HandOK
    <3>2. UNCHANGED <<expire, due>> /\ raced \subseteq raced' \cup {cur}
      BY <1>1, <1>4
    <3> QED
      BY <1>0, <1>1, <1>3, <2>1, <3>1, <3>2, SlotsLinked
  <2> QED
    BY <1>5, <1>6, <2>2, <2>3
<1> QED
  BY <1>7, <1>8

LEMMA TimelyInit == Init => TimelyInv
<1> SUFFICES ASSUME Init PROVE TimelyInv
  OBVIOUS
<1>1. /\ \A h \in Lists : slot[h] = {}
      /\ batch = {} /\ pc = "idle" /\ \A n \in Timers : cpc[n] = "new"
  BY DEF Init
<1>2. SlotsOK /\ BatchOK /\ HandOK /\ AskedOK /\ CascadeOK
  BY <1>1 DEF SlotsOK, BatchOK, HandOK, AskedOK, CascadeOK, Cascading
<1> QED
  BY <1>2, PlaceInit DEF TimelyInv

LEMMA TimelyStep == TimelyInv /\ [Next]_vars => TimelyInv'
<1> SUFFICES ASSUME TimelyInv, [Next]_vars
             PROVE  SlotsOK' /\ BatchOK' /\ HandOK' /\ AskedOK' /\ CascadeOK'
  BY PlaceStep DEF TimelyInv
<1>0. TypeInv
  BY DEF TimelyInv, PlaceInv
<1>1. ASSUME UNCHANGED <<cpc, base, expire, due>> PROVE AskedOK'
  BY <1>1 DEF TimelyInv, AskedOK
<1>2. ASSUME NEW n \in Timers, Client(n) \/ Stop(n)
      PROVE  SlotsOK' /\ BatchOK' /\ HandOK' /\ AskedOK' /\ CascadeOK'
  BY <1>2, TimelyClient
<1>3. CASE Tick \/ CascadeDone \/ Advance
  <2>1. UNCHANGED <<cpc, base, expire, due>>
    BY <1>3 DEF Tick, CascadeDone, Advance, clients, timing
  <2> QED
    BY <1>1, <1>3, <2>1, TimelyTick
<1>4. CASE Cascade
  <2>1. UNCHANGED <<cpc, base, expire, due>>
    BY <1>4 DEF Cascade, clients, timing
  <2> QED
    BY <1>1, <1>4, <2>1, TimelyCascade
<1>5. CASE CascadeNode
  BY <1>5, TimelyCascadeNode
<1>6. CASE Drain
  <2>1. UNCHANGED <<cpc, base, expire, due>>
    BY <1>6 DEF Drain, clients, timing
  <2> QED
    BY <1>1, <1>6, <2>1, TimelyDrain
<1>7. ASSUME NEW n \in Timers, ExecNode(n)
      PROVE  SlotsOK' /\ BatchOK' /\ HandOK' /\ AskedOK' /\ CascadeOK'
  BY <1>7, TimelyExec
<1>8. CASE PushCheck \/ PushInsert
  <2>1. UNCHANGED <<cpc, base, expire, due>>
    BY <1>8 DEF PushCheck, PushInsert, clients, timing
  <2> QED
    BY <1>1, <1>8, <2>1, TimelyPush
<1>9. CASE ExecDone \/ Dispatch \/ UNCHANGED vars
  <2>1. UNCHANGED <<jiffies, slot, cpc, base, expire, due, raced, level, batch>>
    BY <1>9 DEF ExecDone, Dispatch, vars, lists, clients, timing, wheel
  <2>2. \/ UNCHANGED <<pc, back, cur, target, held>>
        \/ /\ pc \in {"exec", "dispatch"}
           /\ pc' = "exec" \/ (pc' = "idle" /\ batch = {})
    BY <1>9 DEF ExecDone, Dispatch, vars, wheel
  <2>3. /\ Cascading' <=> Cascading
        /\ \A k \in 0..4 : NextVisit(k)' = NextVisit(k)
    BY <2>1, <2>2 DEF Cascading, NextVisit, Passed
  <2>4. SlotsOK'
    BY <1>0, <2>1, <2>3, SlotsKept DEF TimelyInv
  <2>5. BatchOK' /\ CascadeOK'
    BY <2>1, <2>3 DEF TimelyInv, BatchOK, CascadeOK
  <2>6. HandOK'
    <3>1. CASE pc' \in {"exec", "idle"}
      BY <3>1 DEF HandOK
    <3>2. CASE UNCHANGED <<pc, back, cur, target, held>>
                 /\ pc \in {"check", "insert"}
      <4>1. target \in Lists \/ pc # "check"
        BY <1>0 DEF TypeInv, WheelOK
      <4>2. held \in Lists \/ pc # "insert"
        BY <1>0 DEF TypeInv, WheelOK
      <4>3. \A h \in Lists : NextVisit(h[1])' = NextVisit(h[1])
        BY <2>3, ListRing
      <4> QED
        BY <2>1, <3>2, <4>1, <4>2, <4>3 DEF TimelyInv, HandOK, Placed
    <3>3. CASE UNCHANGED pc /\ pc \notin {"check", "insert"}
      BY <3>3 DEF HandOK
    <3> QED
      BY <2>2, <3>1, <3>2, <3>3
  <2> QED
    BY <1>1, <2>1, <2>4, <2>5, <2>6
<1> QED
  BY <1>2, <1>3, <1>4, <1>5, <1>6, <1>7, <1>8, <1>9 DEF Next, WheelStep

(* A node is executed at the tick it was asked for or the next one,        *)
(* whatever the sizes of the rings, however far ahead it was asked for and *)
(* whoever pushes meanwhile, unless the wheel overtook its push.           *)
THEOREM FiresInTime == Spec => []TimelyFire
<1>1. TimelyInv => TimelyFire
  <2> SUFFICES ASSUME TimelyInv, NEW n \in batch \ raced, pc = "exec"
               PROVE  jiffies - 1 \in due[n] .. due[n] + 1
    BY DEF TimelyFire
  <2> QED
    BY DEF TimelyInv, BatchOK, Cascading
<1> QED
  BY TimelyInit, TimelyStep, <1>1, PTL DEF Spec

-----------------------------------------------------------------------------
(* The wheel implements TimerContract, for any timers, rings, intervals    *)
(* and loops: whatever its lists, locks and cascades do, a caller sees a   *)
(* timer that is armed by its push, fires as often as its loops allow, and *)
(* at most once after its stop flag is up.                                 *)

(* What is to be known beyond LateInv is how the executions are counted: a *)
(* node still in play has loops left, and loopCur is ahead of the          *)
(* callbacks dispatched exactly while one is pending.                      *)
InPlay(n) == InSlot(n) \/ n \in batch \/ InHand(n)

LoopOK ==
  \A n \in Timers :
    /\ cpc[n] \in {"new", "push"} => loopCur[n] = 0
    /\ cpc[n] # "new" => loopMax[n] \in Loops
    /\ InPlay(n) => ~Finished(n)
    /\ fired[n] <= loopCur[n]
    /\ Pending(n) => /\ fired[n] < loopCur[n]
                     /\ loopMax[n] > 0 => loopCur[n] <= loopMax[n]

ContractInv == LateInv /\ LoopOK

LEMMA LoopInit == Init => LoopOK
<1> SUFFICES ASSUME Init, NEW n \in Timers
             PROVE  /\ loopCur[n] = 0 /\ fired[n] = 0 /\ cpc[n] = "new"
                    /\ ~InPlay(n) /\ ~Pending(n)
  BY DEF LoopOK
<1>1. ~InSlot(n) /\ n \notin batch /\ pc = "idle"
  BY DEF Init, InSlot
<1> QED
  BY <1>1 DEF Init, InPlay, InHand, Pending

(* A step that leaves the counts alone and brings nothing into play.       *)
LEMMA LoopQuiet ==
  ASSUME LoopOK, TypeOK,
         UNCHANGED <<cpc, loopCur, loopMax, fired>>,
         \A n \in Timers : InPlay(n)' => InPlay(n),
         \A n \in Timers : Pending(n)' => Pending(n)
  PROVE  LoopOK'
BY DEF LoopOK, Finished

LEMMA LoopStep == ContractInv /\ [Next]_vars => LoopOK'
<1> SUFFICES ASSUME ContractInv, [Next]_vars PROVE LoopOK'
  OBVIOUS
<1> USE DEF ContractInv, LateInv, PlaceInv, TypeInv
<1>1. ASSUME NEW n \in Timers, ScheduleRead(n) PROVE LoopOK'
  <2>1. /\ cpc[n] = "new" /\ cpc' = [cpc EXCEPT ![n] = "push"]
        /\ \E l \in Loops : loopMax' = [loopMax EXCEPT ![n] = l]
        /\ UNCHANGED <<slot, batch, pc, cur, back, loopCur, fired>>
    BY <1>1 DEF ScheduleRead, lists, wheel, history
  <2>2. ~InPlay(n) /\ ~Pending(n)
    BY <2>1, ClientAssumption
    DEF LinkedOK, LooseOK, HandleOK, Pushed, InPlay, InSlot, InHand, Pending
  <2>3. \A m \in Timers : /\ InPlay(m)' <=> InPlay(m)
                          /\ Pending(m)' <=> Pending(m)
    BY <2>1 DEF InPlay, InSlot, InHand, Pending
  <2> QED
    BY <2>1, <2>2, <2>3 DEF LoopOK, Finished, TypeOK
<1>2. ASSUME NEW n \in Timers, SchedulePush(n) PROVE LoopOK'
  <2> DEFINE h == ListFor(expire[n], base[n])
  <2>1. /\ cpc[n] = "push" /\ cpc' = [cpc EXCEPT ![n] = "store"]
        /\ Link(n, h)
        /\ UNCHANGED <<batch, pc, cur, back, loopCur, loopMax, fired>>
    BY <1>2 DEF SchedulePush, timing, wheel, history
  <2>2. h \in Lists
    BY ListForType DEF TypeOK
  <2> HIDE DEF h
  <2>3. \A g \in Lists : slot'[g] = IF g = h THEN slot[h] \cup {n} ELSE slot[g]
    BY <2>1, <2>2 DEF Link, TypeOK
  <2>4. \A m \in Timers : /\ InPlay(m)' => InPlay(m) \/ m = n
                          /\ Pending(m)' <=> Pending(m)
    BY <2>1, <2>3 DEF InPlay, InSlot, InHand, Pending
  <2>5. ~Finished(n)'
    BY <2>1 DEF LoopOK, Finished, TypeOK
  <2> QED
    BY <2>1, <2>4, <2>5 DEF LoopOK, Finished, TypeOK
<1>3. ASSUME NEW n \in Timers, ScheduleStore(n) PROVE LoopOK'
  <2>1. /\ cpc[n] = "store" /\ cpc' = [cpc EXCEPT ![n] = "done"]
        /\ UNCHANGED <<slot, batch, pc, cur, back, loopCur, loopMax, fired>>
    BY <1>3 DEF ScheduleStore, lists, timing, wheel, history
  <2>2. \A m \in Timers : /\ InPlay(m)' <=> InPlay(m)
                          /\ Pending(m)' <=> Pending(m)
    BY <2>1 DEF InPlay, InSlot, InHand, Pending
  <2> QED
    BY <2>1, <2>2 DEF LoopOK, Finished, TypeOK
<1>4. ASSUME NEW n \in Timers, Stop(n) PROVE LoopOK'
  <2>1. UNCHANGED <<cpc, loopCur, loopMax, fired, pc, cur, back>>
    BY <1>4 DEF Stop, StopFlag, StopLoad, StopUnlink, clients, timing, history,
                wheel
  <2>2. batch' \subseteq batch /\ \A h \in Lists : slot'[h] \subseteq slot[h]
    BY <1>4 DEF Stop, StopFlag, StopLoad, StopUnlink, Unlink, lists, wheel
  <2>3. \A m \in Timers : /\ InPlay(m)' => InPlay(m)
                          /\ Pending(m)' => Pending(m)
    BY <2>1, <2>2 DEF InPlay, InSlot, InHand, Pending
  <2> QED
    BY <2>1, <2>3, LoopQuiet
<1>5. CASE Tick \/ CascadeDone \/ Advance \/ ExecDone
  <2>1. UNCHANGED <<cpc, loopCur, loopMax, fired, slot, batch>>
    BY <1>5 DEF Tick, CascadeDone, Advance, ExecDone, clients, timing, history,
                lists
  <2>2. pc' \notin {"check", "insert", "dispatch"}
    BY <1>5 DEF Tick, CascadeDone, Advance, ExecDone
  <2>3. \A m \in Timers : /\ InPlay(m)' => InPlay(m)
                          /\ Pending(m)' => Pending(m)
    BY <2>1, <2>2 DEF InPlay, InSlot, InHand, Pending
  <2> QED
    BY <2>1, <2>3, LoopQuiet
<1>6. CASE Cascade \/ Drain
  <2>1. PICK h \in Lists : Detach(h)
    BY <1>6, CascadeListType, IndexType DEF Cascade, Drain, TypeOK
  <2>2. UNCHANGED <<cpc, loopCur, loopMax, fired>> /\ pc' \in {"move", "exec"}
    BY <1>6 DEF Cascade, Drain, clients, timing, history
  <2>3. /\ batch' \subseteq slot[h]
        /\ \A g \in Lists : slot'[g] \subseteq slot[g]
    BY <2>1 DEF Detach, lists, TypeOK
  <2>4. \A m \in Timers : /\ InPlay(m)' => InPlay(m)
                          /\ Pending(m)' => Pending(m)
    BY <2>2, <2>3 DEF InPlay, InSlot, InHand, Pending
  <2> QED
    BY <2>2, <2>4, LoopQuiet
<1>7. CASE CascadeNode
  <2>1. PICK n \in batch : TakeForPush(n, expire[n], "move")
    BY <1>7 DEF CascadeNode
  <2>2. /\ UNCHANGED <<cpc, loopCur, loopMax, fired, slot>>
        /\ batch' = batch \ {n} /\ cur' = n /\ pc' = "check" /\ back' = "move"
    BY <1>7, <2>1 DEF CascadeNode, TakeForPush, clients, history, lists
  <2>3. \A m \in Timers : /\ InPlay(m)' => InPlay(m)
                          /\ Pending(m)' => Pending(m)
    BY <2>2 DEF InPlay, InSlot, InHand, Pending
  <2> QED
    BY <2>2, <2>3, LoopQuiet
<1>8. ASSUME NEW n \in Timers, ExecNode(n) PROVE LoopOK'
  <2>1. /\ n \in batch /\ Pushed(n) /\ ~InSlot(n) /\ pc = "exec" /\ ~Finished(n)
        /\ loopCur' = [loopCur EXCEPT ![n] = @ + 1]
        /\ UNCHANGED <<cpc, loopMax, fired, slot>>
    BY <1>8 DEF ExecNode, LooseOK, LoopOK, InPlay, clients, history, lists
  <2>2. /\ batch' = batch \ {n}
        /\ \/ pc' = "exec"
           \/ IsLoop(n) /\ pc' = "check" /\ cur' = n
           \/ ~IsLoop(n) /\ pc' = "dispatch" /\ cur' = n
    BY <1>8, <2>1 DEF ExecNode, TakeForPush
  <2>3. \A m \in Timers : InSlot(m)' <=> InSlot(m)
    BY <2>1 DEF InSlot
  <2>4. \A m \in Timers \ {n} : /\ InPlay(m)' => InPlay(m)
                                /\ ~Pending(m)'
                                /\ loopCur'[m] = loopCur[m]
    BY <2>1, <2>2, <2>3 DEF InPlay, InHand, Pending, TypeOK
  <2>5. InPlay(n)' => ~Finished(n)'
    BY <2>1, <2>2, <2>3 DEF InPlay, InHand, Finished, IsLoop, TypeOK
  <2>6. /\ fired[n] < loopCur'[n]
        /\ loopMax[n] > 0 => loopCur'[n] <= loopMax[n]
        /\ cpc[n] \notin {"new", "push"}
    BY <2>1 DEF LoopOK, Finished, Pushed, TypeOK
  <2>7. \A m \in Timers \ {n} : Finished(m)' <=> Finished(m)
    BY <2>1, <2>4 DEF Finished
  <2>8. ASSUME NEW m \in Timers \ {n}
        PROVE  /\ cpc'[m] \in {"new", "push"} => loopCur'[m] = 0
               /\ cpc'[m] # "new" => loopMax'[m] \in Loops
               /\ InPlay(m)' => ~Finished(m)'
               /\ fired'[m] <= loopCur'[m]
    BY <2>1, <2>4, <2>7 DEF LoopOK
  <2>9. /\ cpc'[n] # "new" => loopMax'[n] \in Loops
        /\ fired'[n] <= loopCur'[n]
    BY <2>1, <2>6 DEF LoopOK, TypeOK
  <2> QED
    BY <2>1, <2>4, <2>5, <2>6, <2>8, <2>9 DEF LoopOK
<1>9. CASE PushCheck
  <2>1. /\ UNCHANGED <<cpc, loopCur, loopMax, fired, slot, batch>>
        /\ pc = "check" /\ back' = back
        /\ \/ pc' = back /\ (back = "dispatch" => cur' = cur)
           \/ pc' = "insert" /\ cur' = cur
    BY <1>9 DEF PushCheck, AfterPush, clients, timing, history, lists
  <2>2. \A m \in Timers : /\ InPlay(m)' => InPlay(m)
                          /\ Pending(m)' => Pending(m)
    BY <2>1 DEF InPlay, InSlot, InHand, Pending, TypeOK
  <2> QED
    BY <2>1, <2>2, LoopQuiet
<1>10. CASE PushInsert
  <2>1. /\ UNCHANGED <<cpc, loopCur, loopMax, fired, batch>>
        /\ pc = "insert" /\ back' = back /\ cur \in Timers /\ held \in Lists
        /\ pc' = back /\ (back = "dispatch" => cur' = cur)
        /\ Link(cur, held)
    BY <1>10 DEF PushInsert, AfterPush, clients, timing, history, WheelOK
  <2>2. \A g \in Lists : slot'[g] = IF g = held THEN slot[g] \cup {cur} ELSE slot[g]
    BY <2>1 DEF Link, TypeOK
  <2>3. back \in {"move", "dispatch"}
    BY DEF TypeOK
  <2>4. ASSUME NEW m \in Timers, InPlay(m)' PROVE InPlay(m)
    <3>1. ~InHand(m)' /\ (InHand(m) <=> m = cur)
      BY <2>1, <2>3 DEF InHand
    <3>2. InSlot(m)' => InSlot(m) \/ m = cur
      BY <2>2 DEF InSlot
    <3> QED
      BY <2>1, <2>4, <3>1, <3>2 DEF InPlay
  <2>5. ASSUME NEW m \in Timers, Pending(m)' PROVE Pending(m)
    BY <2>1, <2>3, <2>5 DEF InHand, Pending
  <2> QED
    BY <2>1, <2>4, <2>5, LoopQuiet
<1>11. CASE Dispatch
  <2>1. /\ UNCHANGED <<cpc, loopCur, loopMax, slot, batch>>
        /\ fired' = [fired EXCEPT ![cur] = @ + 1]
        /\ pc = "dispatch" /\ pc' = "exec" /\ cur \in Timers
    BY <1>11 DEF Dispatch, clients, timing, lists, WheelOK
  <2>2. fired[cur] < loopCur[cur]
    BY <2>1 DEF LoopOK, Pending
  <2>3. \A m \in Timers : (InPlay(m)' => InPlay(m)) /\ ~Pending(m)'
    BY <2>1 DEF InPlay, InSlot, InHand, Pending
  <2>4. \A m \in Timers : fired'[m] <= loopCur[m]
    BY <2>1, <2>2 DEF LoopOK, TypeOK
  <2> QED
    BY <2>1, <2>3, <2>4 DEF LoopOK, Finished
<1>12. CASE UNCHANGED vars
  <2>1. UNCHANGED <<cpc, loopCur, loopMax, fired, slot, batch, pc, cur, back>>
    BY <1>12 DEF vars, clients, timing, history, lists, wheel
  <2>2. \A m \in Timers : /\ InPlay(m)' => InPlay(m)
                          /\ Pending(m)' => Pending(m)
    BY <2>1 DEF InPlay, InSlot, InHand, Pending
  <2> QED
    BY <2>1, <2>2, LoopQuiet
<1> QED
  BY <1>1, <1>2, <1>3, <1>4, <1>5, <1>6, <1>7, <1>8, <1>9, <1>10, <1>11, <1>12
  DEF Next, WheelStep, Client

-----------------------------------------------------------------------------
(* The refinement. A step that leaves the stop flags, the loops and the    *)
(* counts of the pushed nodes alone is a stutter of the contract.          *)
LEMMA ContractStutter ==
  ASSUME UNCHANGED <<stop, fired, lateFired>>,
         \A n \in Timers : /\ Pushed(n)' <=> Pushed(n)
                           /\ Pushed(n) => loopMax'[n] = loopMax[n]
  PROVE  UNCHANGED Contract!cvars
BY DEF Contract!cvars, TimerState

LEMMA ContractStep == ContractInv /\ [Next]_vars => [Contract!CNext]_(Contract!cvars)
<1> SUFFICES ASSUME ContractInv, [Next]_vars
             PROVE  Contract!CNext \/ UNCHANGED Contract!cvars
  OBVIOUS
<1> USE DEF ContractInv, LateInv, PlaceInv, TypeInv
<1>1. ASSUME NEW n \in Timers, ScheduleRead(n) PROVE UNCHANGED Contract!cvars
  <2>1. /\ UNCHANGED <<stop, fired, lateFired>>
        /\ cpc[n] = "new" /\ cpc' = [cpc EXCEPT ![n] = "push"]
        /\ \A m \in Timers \ {n} : loopMax'[m] = loopMax[m]
    BY <1>1 DEF ScheduleRead, history, TypeOK
  <2> QED
    BY <2>1, ContractStutter DEF Pushed, TypeOK
<1>2. ASSUME NEW n \in Timers, SchedulePush(n) PROVE Contract!Arm(n)
  <2>1. /\ UNCHANGED <<stop, fired, lateFired, loopMax>>
        /\ cpc[n] = "push" /\ cpc' = [cpc EXCEPT ![n] = "store"]
    BY <1>2 DEF SchedulePush, history, timing
  <2>2. ~Pushed(n) /\ Pushed(n)' /\ \A m \in Timers \ {n} : Pushed(m)' <=> Pushed(m)
    BY <2>1 DEF Pushed, TypeOK
  <2>3. ~stop[n] /\ fired[n] = 0 /\ loopMax[n] \in Loops
    BY <2>1, <2>2 DEF StopOK, HandleOK, LoopOK, TypeOK
  <2>4. /\ TimerState[n] = "new"
        /\ TimerState' = [TimerState EXCEPT ![n] = "armed"]
    <3>1. ~(loopMax'[n] > 0 /\ fired'[n] >= loopMax'[n])
      BY <2>1, <2>3 DEF TypeOK
    <3>2. TimerState'[n] = "armed" /\ TimerState[n] = "new"
      BY <2>1, <2>2, <2>3, <3>1 DEF TimerState
    <3>3. \A m \in Timers \ {n} : TimerState'[m] = TimerState[m]
      BY <2>1, <2>2 DEF TimerState
    <3> QED
      BY <3>2, <3>3 DEF TimerState
  <2> QED
    BY <2>1, <2>2, <2>3, <2>4 DEF Contract!Arm
<1>3. ASSUME NEW n \in Timers, ScheduleStore(n) PROVE UNCHANGED Contract!cvars
  <2>1. /\ UNCHANGED <<stop, fired, lateFired, loopMax>>
        /\ \A m \in Timers : Pushed(m)' <=> Pushed(m)
    BY <1>3 DEF ScheduleStore, history, timing, Pushed, TypeOK
  <2> QED
    BY <2>1, ContractStutter
<1>4. ASSUME NEW n \in Timers, StopFlag(n) PROVE Contract!StopTimer(n)
  <2>1. /\ UNCHANGED <<cpc, fired, lateFired, loopMax>>
        /\ ~stop[n] /\ stop' = [stop EXCEPT ![n] = TRUE]
    BY <1>4 DEF StopFlag, history, timing, clients
  <2>2. Pushed(n) /\ \A m \in Timers : Pushed(m)' <=> Pushed(m)
    BY <1>4, <2>1 DEF StopFlag, Pushed, HandleOK, TypeOK
  <2>3. lateFired[n] = 0
    BY <2>1 DEF LateOK, TypeOK
  <2>4. /\ TimerState[n] \in {"armed", "over"}
        /\ TimerState' = [TimerState EXCEPT ![n] = "stopping"]
    BY <2>1, <2>2, <2>3 DEF TimerState, TypeOK
  <2> QED
    BY <2>1, <2>2, <2>4 DEF Contract!StopTimer
<1>5. ASSUME NEW n \in Timers, StopLoad(n) \/ StopUnlink(n)
      PROVE  UNCHANGED Contract!cvars
  <2>1. UNCHANGED <<cpc, stop, fired, lateFired, loopMax>>
    BY <1>5 DEF StopLoad, StopUnlink, history, timing, clients
  <2> QED
    BY <2>1, ContractStutter DEF Pushed
<1>6. CASE Tick \/ Cascade \/ CascadeNode \/ CascadeDone \/ Advance \/ Drain
           \/ ExecDone \/ PushCheck \/ PushInsert \/ (\E n \in Timers : ExecNode(n))
  <2>1. UNCHANGED <<cpc, stop, fired, lateFired, loopMax>>
    BY <1>6 DEF Tick, Cascade, CascadeNode, CascadeDone, Advance, Drain, ExecDone,
                PushCheck, PushInsert, ExecNode, history, timing, clients
  <2> QED
    BY <2>1, ContractStutter DEF Pushed
<1>7. CASE Dispatch
  <2>1. /\ UNCHANGED <<cpc, stop, loopMax>>
        /\ fired' = [fired EXCEPT ![cur] = @ + 1]
        /\ lateFired' = IF stop[cur]
                        THEN [lateFired EXCEPT ![cur] = @ + 1] ELSE lateFired
        /\ cur \in Timers /\ Pushed(cur) /\ Pending(cur)
    BY <1>7 DEF Dispatch, timing, clients, WheelOK, HandleOK, Pending
  <2>2. /\ fired[cur] < loopCur[cur] /\ lateFired[cur] = 0
        /\ loopMax[cur] > 0 => loopCur[cur] <= loopMax[cur]
    BY <2>1 DEF LoopOK, LateOK
  <2>3. \A m \in Timers : Pushed(m)' <=> Pushed(m)
    BY <2>1 DEF Pushed
  <2>4. CASE stop[cur]
    <3>1. /\ TimerState[cur] = "stopping"
          /\ TimerState' = [TimerState EXCEPT ![cur] = "stopped"]
      <4>1. lateFired'[cur] # 0
        BY <2>1, <2>2, <2>4 DEF TypeOK
      <4>2. \A m \in Timers \ {cur} : /\ lateFired'[m] = lateFired[m]
                                      /\ fired'[m] = fired[m]
        BY <2>1, <2>4 DEF TypeOK
      <4>3. TimerState[cur] = "stopping" /\ TimerState'[cur] = "stopped"
        BY <2>1, <2>2, <2>3, <2>4, <4>1 DEF TimerState
      <4>4. \A m \in Timers \ {cur} : TimerState'[m] = TimerState[m]
        BY <2>1, <2>3, <4>2 DEF TimerState
      <4> QED
        BY <4>3, <4>4 DEF TimerState
    <3>2. Contract!LateFire(cur)
      BY <2>1, <2>3, <3>1 DEF Contract!LateFire
    <3> QED
      BY <2>1, <3>2 DEF Contract!CNext
  <2>5. CASE ~stop[cur]
    <3>1. TimerState[cur] = "armed"
      BY <2>1, <2>2, <2>5 DEF TimerState, TypeOK
    <3>2. TimerState' = [TimerState EXCEPT ![cur] =
                           IF loopMax[cur] > 0 /\ fired[cur] + 1 >= loopMax[cur]
                           THEN "over" ELSE @]
      BY <2>1, <2>3, <2>5, <3>1 DEF TimerState, TypeOK
    <3>3. Contract!Fire(cur)
      BY <2>1, <2>3, <3>1, <3>2 DEF Contract!Fire
    <3> QED
      BY <2>1, <3>3 DEF Contract!CNext
  <2> QED
    BY <2>4, <2>5
<1>8. CASE UNCHANGED vars
  <2>1. UNCHANGED <<cpc, stop, fired, lateFired, loopMax>>
    BY <1>8 DEF vars, history, timing, clients
  <2> QED
    BY <2>1, ContractStutter DEF Pushed
<1> QED
  BY <1>1, <1>2, <1>3, <1>4, <1>5, <1>6, <1>7, <1>8
  DEF Next, WheelStep, Client, Stop, Contract!CNext

(* Every behaviour of the wheel is one of the contract: a timer fires only *)
(* between its push and its Stop, no more often than its loops allow, and  *)
(* at most once after its stop flag went up.                               *)
THEOREM WheelMeetsContract == Spec => MeetsContract
<1>1. Init => ContractInv /\ Contract!CInit
  <2>1. Init => LateInv
    BY PlaceInit DEF Init, LateInv, LateOK, Pending, InHand
  <2>2. Init => Contract!CInit
    BY DEF Init, Contract!CInit, TimerState, Pushed
  <2> QED
    BY <2>1, <2>2, LoopInit DEF ContractInv
<1>2. ContractInv /\ [Next]_vars => ContractInv'
  BY PlaceStep, LateStep, LoopStep DEF ContractInv, LateInv
<1> QED
  BY <1>1, <1>2, ContractStep, PTL DEF Spec, MeetsContract, Contract!CSpec
=============================================================================
