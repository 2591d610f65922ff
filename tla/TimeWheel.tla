----------------------------- MODULE TimeWheel -----------------------------
(***************************************************************************)
(* The hierarchical timing wheel of src/pkg/timer: one near ring and four  *)
(* coarser rings of slots, each slot a doubly linked list under its own    *)
(* mutex with a version number.                                            *)
(*                                                                         *)
(* Three kinds of goroutine touch the wheel:                               *)
(*   - the wheel goroutine (run / moveAndExec / cascade), one step per     *)
(*     critical section and one per node it moves;                         *)
(*   - a client that schedules a timer: it reads jiffies with no lock and  *)
(*     pushes the node later, under the lock of the slot it computed;      *)
(*   - a client that stops a timer: compare-and-swap of the stop flag, an  *)
(*     unlocked read of the node's list, then a critical section on it.    *)
(*                                                                         *)
(* The order of the nodes inside one slot is left out (a slot is a set);   *)
(* its length counter is kept, because the code trusts it.                 *)
(***************************************************************************)
EXTENDS Integers, FiniteSets

CONSTANTS
  Timers,       \* the timer nodes that may be created
  NoTimer,      \* no node in hand
  NearSize,     \* slots of the near ring (256 in the code)
  LevelSize,    \* slots of each coarser ring (64 in the code)
  Span,         \* Span[k]: ticks covered by the rings 0 .. k
  Intervals,    \* intervals, in ticks, a client may ask for
  Loops,        \* loopMax values a client may ask for, 0 meaning for ever
  MaxJiffies    \* bound: the run ends when the wheel has made this many ticks

\* The near ring has more than one slot: add pushes a node one tick ahead at
\* least, and a ring of one would send it back to the coarser rings for ever.
ASSUME SizeAssumption ==
  /\ NearSize \in Nat \ {0, 1}
  /\ LevelSize \in Nat \ {0}
  /\ Span \in [0..4 -> Nat \ {0}]
  /\ Span[0] = NearSize
  /\ \A k \in 0..3 : Span[k] < Span[k + 1]
  /\ \A k \in 0..3 : Span[k + 1] = Span[k] * LevelSize

ASSUME ClientAssumption ==
  /\ IsFiniteSet(Timers)
  /\ NoTimer \notin Timers
  /\ Intervals \subseteq Nat \ {0}
  /\ Loops \subseteq Nat
  /\ MaxJiffies \in Nat

VARIABLES
  jiffies,   \* ticks processed so far
  \* the lists of the wheel, each behind its own mutex
  slot,      \* slot[h]: the nodes linked in list h
  len,       \* len[h]: its length counter
  version,   \* version[h]: how many times it was emptied wholesale
  noders,    \* the handler's registry of its live nodes
  \* the fields of the timer nodes
  due,       \* the tick the node was asked to fire at (not in the code)
  expire,    \* the same, which add may push one tick further
  interval, loopMax, loopCur,
  stop,      \* the stop flag
  list,      \* the list the node was last linked in
  ver,       \* and the version that list had
  \* goroutines that schedule (one per node)
  cpc,       \* program counter
  base,      \* the jiffies it read
  \* goroutines that stop
  spc,       \* program counter
  slist,     \* the list it read
  \* the wheel goroutine
  pc,
  level,     \* the ring being cascaded
  batch,     \* nodes detached from a list and not processed yet
  cur,       \* the node in hand
  target,    \* the list it is going to
  held,      \* the list whose lock the wheel goroutine holds across steps
  back,      \* where it goes on after the push
  \* history
  fired,     \* fired[n]: callbacks dispatched for n
  lateFired, \* lateFired[n]: those dispatched after the stop flag went up
  raced      \* nodes pushed by a client the wheel overtook (see SchedulePush)

lists == <<slot, len, version>>
timing == <<due, expire, interval, loopMax, loopCur>>
linked == <<list, ver>>
clients == <<cpc, base>>
stoppers == <<spc, slist>>
wheel == <<pc, level, batch, cur, target, held, back>>
history == <<fired, lateFired>>

vars == <<jiffies, lists, noders, timing, stop, linked, clients, stoppers,
          wheel, history, raced>>

-----------------------------------------------------------------------------
(* Lists and slots.                                                        *)

\* The lists of the wheel: ring 0 is t1, rings 1..4 are t2Tot5.
Lists == ({0} \X (0..NearSize - 1)) \cup ((1..4) \X (0..LevelSize - 1))

NoList == <<-1, -1>>

\* The version word of a list: its level and index in the high bits, a
\* counter in the low ones, so two lists never share a version.
VersionOf(h) == <<h, version[h]>>

LaterOf(a, b) == IF a >= b THEN a ELSE b

\* Mutant of ListFor: the near ring takes a delay of a whole rotation.
ListForOffByOne(e, j) ==
  IF e - j <= Span[0] THEN <<0, e % NearSize>>
  ELSE <<1, (e \div Span[0]) % LevelSize>>

\* timeWheel.add: the list a node goes to when it expires at e and the caller
\* read j as the current tick (e > j).
ListFor(e, j) ==
  LET idx == e - j IN
  IF idx < Span[0]
  THEN <<0, e % NearSize>>
  ELSE IF idx < Span[1] THEN <<1, (e \div Span[0]) % LevelSize>>
  ELSE IF idx < Span[2] THEN <<2, (e \div Span[1]) % LevelSize>>
  ELSE IF idx < Span[3] THEN <<3, (e \div Span[2]) % LevelSize>>
  ELSE <<4, ((IF idx < Span[4] THEN e ELSE j + Span[4] - 1) \div Span[3])
              % LevelSize>>

\* Mutant of CascadeList: the index is taken from the wrong ring's bits.
CascadeListWrongShift(k) == <<k + 1, (jiffies \div Span[k + 1]) % LevelSize>>

\* The list of ring k + 1 that cascade visits at the current tick.
CascadeList(k) == <<k + 1, (jiffies \div Span[k]) % LevelSize>>

-----------------------------------------------------------------------------
Init ==
  /\ jiffies = 0
  /\ slot = [h \in Lists |-> {}]
  /\ len = [h \in Lists |-> 0]
  /\ version = [h \in Lists |-> 0]
  /\ noders = {}
  /\ due = [n \in Timers |-> 0]
  /\ expire = [n \in Timers |-> 0]
  /\ interval = [n \in Timers |-> 1]
  /\ loopMax = [n \in Timers |-> 0]
  /\ loopCur = [n \in Timers |-> 0]
  /\ stop = [n \in Timers |-> FALSE]
  /\ list = [n \in Timers |-> NoList]
  /\ ver = [n \in Timers |-> <<NoList, 0>>]
  /\ cpc = [n \in Timers |-> "new"]
  /\ base = [n \in Timers |-> 0]
  /\ spc = [n \in Timers |-> "none"]
  /\ slist = [n \in Timers |-> NoList]
  /\ pc = "idle"
  /\ level = 0
  /\ batch = {}
  /\ cur = NoTimer
  /\ target = NoList
  /\ held = NoList
  /\ back = "move"
  /\ fired = [n \in Timers |-> 0]
  /\ lateFired = [n \in Timers |-> 0]
  /\ raced = {}

-----------------------------------------------------------------------------
(* Client: timeHandler.Schedule (and After, which is Schedule with one     *)
(* loop).                                                                  *)

\* Schedule reads jiffies atomically but without any lock, and computes the
\* expiry from it.
ScheduleRead(n) ==
  /\ cpc[n] = "new"
  /\ \E i \in Intervals, l \in Loops :
       /\ interval' = [interval EXCEPT ![n] = i]
       /\ loopMax' = [loopMax EXCEPT ![n] = l]
       /\ due' = [due EXCEPT ![n] = i + jiffies]
       /\ expire' = [expire EXCEPT ![n] = i + jiffies]
  /\ base' = [base EXCEPT ![n] = jiffies]
  /\ cpc' = [cpc EXCEPT ![n] = "push"]
  /\ UNCHANGED <<jiffies, lists, noders, loopCur, stop, linked, stoppers,
                 wheel, history, raced>>

\* Linking node n at the tail of list h, under its lock.
Link(n, h) ==
  /\ slot' = [slot EXCEPT ![h] = @ \cup {n}]
  /\ len' = [len EXCEPT ![h] = @ + 1]
  /\ list' = [list EXCEPT ![n] = h]
  /\ ver' = [ver EXCEPT ![n] = VersionOf(h)]
  /\ UNCHANGED version

\* wheel.add for a fresh node: the push happens under the lock of the list,
\* chosen from the jiffies read earlier. Nobody holds a handle on the node
\* yet, so its stop flag is down. raced records that the wheel moved between
\* the read and the push, or is between its increment of jiffies and the lock
\* of the slot it left.
SchedulePush(n) ==
  LET h == ListFor(expire[n], base[n]) IN
  /\ cpc[n] = "push"
  /\ held # h
  /\ Link(n, h)
  /\ cpc' = [cpc EXCEPT ![n] = "store"]
  /\ raced' = IF base[n] = jiffies /\ pc # "drain"
              THEN raced ELSE raced \cup {n}
  /\ UNCHANGED <<jiffies, noders, timing, stop, base, stoppers, wheel, history>>

\* noders.Store, after the node is already live in the wheel; then Schedule
\* returns the handle.
ScheduleStore(n) ==
  /\ cpc[n] = "store"
  /\ noders' = noders \cup {n}
  /\ cpc' = [cpc EXCEPT ![n] = "done"]
  /\ UNCHANGED <<jiffies, lists, timing, stop, linked, base, stoppers, wheel,
                 history, raced>>

-----------------------------------------------------------------------------
(* Client: timeNode.Stop.                                                  *)

\* The compare-and-swap of the stop flag: only the first Stop goes on. The
\* handle comes from Schedule or, inside a callback, from its argument.
StopFlag(n) ==
  /\ cpc[n] = "done" \/ fired[n] > 0
  /\ ~stop[n]
  /\ stop' = [stop EXCEPT ![n] = TRUE]
  /\ spc' = [spc EXCEPT ![n] = "load"]
  /\ UNCHANGED <<jiffies, lists, noders, timing, linked, clients, slist, wheel,
                 history, raced>>

\* The unlocked read of the node's list (never nil here: a node has a list
\* from its first push until a Stop unlinks it).
StopLoad(n) ==
  /\ spc[n] = "load"
  /\ slist' = [slist EXCEPT ![n] = list[n]]
  /\ spc' = [spc EXCEPT ![n] = "unlink"]
  /\ UNCHANGED <<jiffies, lists, noders, timing, stop, linked, clients, wheel,
                 history, raced>>

\* Mutant of Unmoved: the version check is dropped.
UnmovedAlways(n, h) == TRUE

\* The version of the node still matches its list: it was not taken out since.
Unmoved(n, h) == ver[n] = VersionOf(h)

\* Del unlinks the node from the ring it is in, and takes one off the length
\* of the list it is called on.
Unlink(n, h) ==
  /\ slot' = [g \in Lists |-> slot[g] \ {n}]
  /\ batch' = batch \ {n}
  /\ len' = [len EXCEPT ![h] = @ - 1]
  /\ list' = [list EXCEPT ![n] = NoList]
  /\ noders' = noders \ {n}

\* The critical section on the list read. A version that no longer matches
\* means the node was taken out meanwhile: nothing is unlinked, and the wheel
\* drops the node when it meets it (lazy deletion).
StopUnlink(n) ==
  LET h == slist[n] IN
  /\ spc[n] = "unlink"
  /\ held # h
  /\ \/ Unmoved(n, h) /\ Unlink(n, h)
     \/ ~Unmoved(n, h) /\ UNCHANGED <<slot, batch, len, list, noders>>
  /\ spc' = [spc EXCEPT ![n] = "done"]
  /\ UNCHANGED <<jiffies, version, timing, stop, ver, clients, slist, pc,
                 level, cur, target, held, back, history, raced>>

-----------------------------------------------------------------------------
(* The wheel goroutine: run calls moveAndExec once per tick.               *)

\* Mutant of Detach: the list is copied (Replace) and not reinitialised.
DetachNoInit(h) ==
  /\ batch' = IF len[h] = 0 THEN {} ELSE slot[h]
  /\ UNCHANGED lists

\* The wheel empties list h: its nodes move to a private ring and its version
\* grows. An empty list, by its length counter, is skipped.
Detach(h) ==
  \/ /\ len[h] = 0
     /\ batch' = {}
     /\ UNCHANGED lists
  \/ /\ len[h] # 0
     /\ batch' = slot[h]
     /\ slot' = [slot EXCEPT ![h] = {}]
     /\ len' = [len EXCEPT ![h] = 0]
     /\ version' = [version EXCEPT ![h] = @ + 1]

\* moveAndExec starts: at the start of a near rotation the coarser rings are
\* cascaded first.
Tick ==
  /\ pc = "idle"
  /\ jiffies < MaxJiffies
  /\ \/ jiffies % NearSize = 0 /\ pc' = "cascade"
     \/ jiffies % NearSize # 0 /\ pc' = "advance"
  /\ level' = 0
  /\ UNCHANGED <<jiffies, lists, noders, timing, stop, linked, clients,
                 stoppers, batch, cur, target, held, back, history, raced>>

Cascade ==
  /\ pc = "cascade"
  /\ Detach(CascadeList(level))
  /\ pc' = "move"
  /\ UNCHANGED <<jiffies, noders, timing, stop, linked, clients, stoppers,
                 level, cur, target, held, back, history, raced>>

\* Put node n in hand, to be pushed with expiry e, clamped to the next tick.
TakeForPush(n, e, where) ==
  LET e1 == LaterOf(e, jiffies + 1) IN
  /\ expire' = [expire EXCEPT ![n] = e1]
  /\ batch' = batch \ {n}
  /\ cur' = n
  /\ target' = ListFor(e1, jiffies)
  /\ back' = where
  /\ pc' = "check"
  /\ UNCHANGED <<level, held>>

\* cascade re-adds each detached node.
CascadeNode ==
  /\ pc = "move"
  /\ \E n \in batch : TakeForPush(n, expire[n], "move")
  /\ UNCHANGED <<jiffies, lists, noders, due, interval, loopMax, loopCur, stop,
                 linked, clients, stoppers, history, raced>>

\* Mutant of LastRing: one ring too many.
LastRingTooFar(k) == k = 4

LastRing(k) == k = 3

\* The next ring is cascaded only when this one is at the start of its own
\* rotation.
CascadeDone ==
  /\ pc = "move"
  /\ batch = {}
  /\ \/ /\ CascadeList(level)[2] = 0
        /\ ~LastRing(level)
        /\ pc' = "cascade"
        /\ level' = level + 1
     \/ /\ CascadeList(level)[2] # 0 \/ LastRing(level)
        /\ pc' = "advance"
        /\ UNCHANGED level
  /\ UNCHANGED <<jiffies, lists, noders, timing, stop, linked, clients,
                 stoppers, batch, cur, target, held, back, history, raced>>

\* atomic.AddUint64(&t.jiffies, 1), before the slot is locked.
Advance ==
  /\ pc = "advance"
  /\ jiffies' = jiffies + 1
  /\ pc' = "drain"
  /\ UNCHANGED <<lists, noders, timing, stop, linked, clients, stoppers, level,
                 batch, cur, target, held, back, history, raced>>

\* The slot drained is the one of the tick just left.
Drain ==
  /\ pc = "drain"
  /\ Detach(<<0, (jiffies - 1) % NearSize>>)
  /\ pc' = "exec"
  /\ UNCHANGED <<jiffies, noders, timing, stop, linked, clients, stoppers,
                 level, cur, target, held, back, history, raced>>

\* Mutant of IsLoop: one execution too many.
IsLoopOneMore(n) == ~(loopMax[n] > 0 /\ loopCur[n] + 1 > loopMax[n])

\* intervalExpireFunc, after loopCur was incremented: does the node go round
\* again?
IsLoop(n) == ~(loopMax[n] > 0 /\ loopCur[n] + 1 >= loopMax[n])

\* Mutant of DropsStopped: the stop check before the dispatch is missing.
DropsStoppedNever(n) == FALSE

\* A stopped node that was still linked dies here (lazy deletion).
DropsStopped(n) == stop[n]

\* Mutant of RegistryAfterExec: a looping node is deregistered as well.
RegistryAfterExecAlways(n) == noders \ {n}

RegistryAfterExec(n) == IF IsLoop(n) THEN noders ELSE noders \ {n}

\* A drained node: out of the registry when its loops are over, dropped when
\* it was stopped, re-armed before the dispatch when it loops.
ExecNode(n) ==
  /\ pc = "exec"
  /\ n \in batch
  /\ noders' = RegistryAfterExec(n)
  /\ loopCur' = [loopCur EXCEPT ![n] = @ + 1]
  /\ \/ /\ DropsStopped(n)
        /\ batch' = batch \ {n}
        /\ UNCHANGED <<due, expire, pc, level, cur, target, held, back>>
     \/ /\ ~DropsStopped(n) /\ IsLoop(n)
        /\ TakeForPush(n, interval[n] + jiffies, "dispatch")
        /\ due' = [due EXCEPT ![n] = interval[n] + jiffies]
     \/ /\ ~DropsStopped(n) /\ ~IsLoop(n)
        /\ batch' = batch \ {n}
        /\ cur' = n
        /\ pc' = "dispatch"
        /\ UNCHANGED <<due, expire, level, target, held, back>>
  /\ UNCHANGED <<jiffies, lists, interval, loopMax, stop, linked, clients,
                 stoppers, history, raced>>

ExecDone ==
  /\ pc = "exec"
  /\ batch = {}
  /\ pc' = "idle"
  /\ UNCHANGED <<jiffies, lists, noders, timing, stop, linked, clients,
                 stoppers, level, batch, cur, target, held, back, history,
                 raced>>

\* The push is over: back to the loop the node came from.
AfterPush ==
  /\ pc' = back
  /\ held' = NoList
  /\ target' = NoList
  /\ cur' = IF back = "move" THEN NoTimer ELSE cur
  /\ UNCHANGED <<level, batch, back>>

\* lockPushBack: under the lock of the target list the stop flag is read ...
PushCheck ==
  /\ pc = "check"
  /\ \/ stop[cur] /\ AfterPush
     \/ /\ ~stop[cur]
        /\ pc' = "insert"
        /\ held' = target
        /\ UNCHANGED <<level, batch, cur, target, back>>
  /\ UNCHANGED <<jiffies, lists, noders, timing, stop, linked, clients,
                 stoppers, history, raced>>

\* ... and the node is linked, its list and version recorded.
PushInsert ==
  /\ pc = "insert"
  /\ Link(cur, held)
  /\ raced' = IF back = "dispatch" THEN raced \ {cur} ELSE raced
  /\ AfterPush
  /\ UNCHANGED <<jiffies, noders, timing, stop, clients, stoppers, history>>

\* The callback is handed to a goroutine of its own.
Dispatch ==
  /\ pc = "dispatch"
  /\ fired' = [fired EXCEPT ![cur] = @ + 1]
  /\ lateFired' = IF stop[cur]
                  THEN [lateFired EXCEPT ![cur] = @ + 1] ELSE lateFired
  /\ pc' = "exec"
  /\ cur' = NoTimer
  /\ UNCHANGED <<jiffies, lists, noders, timing, stop, linked, clients,
                 stoppers, level, batch, target, held, back, raced>>

-----------------------------------------------------------------------------
Client(n) == ScheduleRead(n) \/ SchedulePush(n) \/ ScheduleStore(n)

Stop(n) == StopFlag(n) \/ StopLoad(n) \/ StopUnlink(n)

WheelStep ==
  \/ Tick \/ Cascade \/ CascadeNode \/ CascadeDone \/ Advance \/ Drain
  \/ (\E n \in Timers : ExecNode(n))
  \/ ExecDone \/ PushCheck \/ PushInsert \/ Dispatch

Next == WheelStep \/ \E n \in Timers : Client(n) \/ Stop(n)

Spec == Init /\ [][Next]_vars

-----------------------------------------------------------------------------
(* Properties.                                                             *)

\* The type invariant: every variable keeps the shape of the Go fields it
\* stands for.
TypeOK ==
  /\ jiffies \in Nat
  /\ slot \in [Lists -> SUBSET Timers]
  /\ len \in [Lists -> Int]
  /\ version \in [Lists -> Nat]
  /\ noders \subseteq Timers
  /\ due \in [Timers -> Nat]
  /\ expire \in [Timers -> Nat]
  /\ interval \in [Timers -> Nat \ {0}]
  /\ loopMax \in [Timers -> Nat]
  /\ loopCur \in [Timers -> Nat]
  /\ stop \in [Timers -> BOOLEAN]
  /\ list \in [Timers -> Lists \cup {NoList}]
  /\ ver \in [Timers -> (Lists \cup {NoList}) \X Nat]
  /\ cpc \in [Timers -> {"new", "push", "store", "done"}]
  /\ base \in [Timers -> Nat]
  /\ spc \in [Timers -> {"none", "load", "unlink", "done"}]
  /\ slist \in [Timers -> Lists \cup {NoList}]
  /\ pc \in {"idle", "cascade", "move", "advance", "drain", "exec", "check",
             "insert", "dispatch"}
  /\ level \in 0..3
  /\ batch \subseteq Timers
  /\ cur \in Timers \cup {NoTimer}
  /\ target \in Lists \cup {NoList}
  /\ held \in Lists \cup {NoList}
  /\ back \in {"move", "dispatch"}
  /\ fired \in [Timers -> Nat]
  /\ lateFired \in [Timers -> Nat]
  /\ raced \subseteq Timers

InHand(n) == pc \in {"check", "insert"} /\ cur = n

InSlot(n) == \E h \in Lists : n \in slot[h]

Pushed(n) == cpc[n] \in {"store", "done"}

Finished(n) == loopMax[n] > 0 /\ loopCur[n] >= loopMax[n]

\* No node is lost or doubled between the wheel, the clients that push and
\* the clients that stop: a node is linked in at most one place, and a pushed
\* node that is neither stopped nor finished is linked in one.
ExactlyOnePlace ==
  \A n \in Timers :
    /\ \A g, h \in Lists : n \in slot[g] /\ n \in slot[h] => g = h
    /\ ~(InSlot(n) /\ n \in batch)
    /\ InHand(n) => ~InSlot(n) /\ n \notin batch
    /\ Pushed(n) /\ ~stop[n] /\ ~Finished(n)
         => InSlot(n) \/ n \in batch \/ InHand(n)

\* moveAndExec and cascade skip a slot whose length counter is zero: the
\* counter is the number of nodes linked there, whatever Stop interleaves
\* (the slot audit: a second unlink makes a full slot look empty).
LenAccurate == \A h \in Lists : len[h] = Cardinality(slot[h])

\* Unless the wheel overtook the client that pushed it, a node is executed at
\* the tick it was asked for or the next one (the tick add() gives away when
\* a cascade meets the node at its own expiry), never earlier or later.
TimelyFire ==
  \A n \in batch \ raced :
    pc = "exec" => jiffies - 1 \in due[n] .. due[n] + 1

\* Once its stop flag is up a timer fires at most once more: the wheel may
\* have passed its stop check before, and no more than that.
AtMostOneLateFire == \A n \in Timers : lateFired[n] <= 1

\* StopTimer, which walks the registry, reaches every timer that can still
\* fire.
RegistryComplete ==
  \A n \in Timers :
    cpc[n] = "done" /\ ~stop[n] /\ ~Finished(n) => n \in noders

\* The timers a caller sees: the wheel, its locks and its rings implement the
\* contract.
TimerState ==
  [n \in Timers |->
     IF ~Pushed(n) THEN "new"
     ELSE IF ~stop[n]
     THEN IF loopMax[n] > 0 /\ fired[n] >= loopMax[n] THEN "over" ELSE "armed"
     ELSE IF lateFired[n] = 0 THEN "stopping" ELSE "stopped"]

Contract == INSTANCE TimerContract
  WITH state <- TimerState,
       loops <- [n \in Timers |-> IF Pushed(n) THEN loopMax[n] ELSE 0],
       count <- fired

\* A timer fires only between its push and its Stop, no more often than its
\* loops allow, and at most once after the stop flag: the contract its callers
\* are written against, refined by every step of the wheel.
MeetsContract == Contract!CSpec
=============================================================================
