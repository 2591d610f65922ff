----------------------------- MODULE Scheduler -----------------------------
(***************************************************************************)
(* The scheduler actor, src/pkg/actor/scheduler/scheduler.go: a registry   *)
(* of schedules (one per timer card), each with at most one timer node in  *)
(* the wheel, saved whole to disk after every change.                      *)
(*                                                                         *)
(* A node keeps the promises of TimerContract: it fires while it is live,  *)
(* and at most once more after it was stopped. Its callback only posts a   *)
(* scheduler.fire message to the actor (ctx.After), so a fire is handled   *)
(* later, against whatever the registry holds by then. Handlers run one at *)
(* a time; the actor may crash between any two of them.                    *)
(*                                                                         *)
(* A schedule is one of four kinds: "every" stands for a cron line or an   *)
(* "every ..." expression, "at" for a one-shot "at <timestamp>", "bad" for *)
(* one that does not parse, "none" for a request with neither field.       *)
(***************************************************************************)
EXTENDS Integers, FiniteSets

CONSTANTS
  Keys,        \* ProjectID:CardID
  NoKey,
  Nodes,       \* timer nodes
  NoNode,
  MaxFires,    \* bound: queued fires of one key
  MaxOps,      \* bound: requests
  MaxCrashes,  \* bound: stops and crashes
  MaxFaults    \* bound: failed saves and loads

ASSUME SchedulerAssumption ==
  /\ NoKey \notin Keys
  /\ NoNode \notin Nodes
  /\ {MaxFires, MaxOps, MaxCrashes, MaxFaults} \subseteq Nat

Kinds == {"every", "at", "bad", "none"}

VARIABLES
  running,     \* the actor is up
  past,        \* the instant of the "at" schedules has passed
  \* a.entries
  entries,     \* the keys registered
  sched, enabled, node,
  \* the state file
  dEntries, dSched, dEnabled,
  \* the wheel
  nst,         \* nst[i]: "free", "live", "over" (its loops are done) or
               \* "stopped" with one callback still on its way
  nkey,        \* the key its callback names
  once,        \* it was scheduled with WithLoop(1)
  fires,       \* fires[k]: scheduler.fire messages in the mailbox
  \* history
  ran,         \* the key whose card the last step executed, if any
  acked,       \* acked[k]: what the last answered request made of k
  onlyAt,      \* no schedule of k but "at" was ever registered
  runs,        \* runs[k]: executions of k, counted up to 2
  forgot,      \* the state file could not be loaded at some restart
  ops, crashes, faults

registry == <<entries, sched, enabled, node>>
disk == <<dEntries, dSched, dEnabled>>
wheel == <<nst, nkey, once>>
bounds == <<ops, crashes, faults>>
counts == <<onlyAt, runs, forgot>>

vars == <<running, past, registry, disk, wheel, fires, ran, acked, counts,
          bounds>>

-----------------------------------------------------------------------------
Init ==
  /\ running = TRUE
  /\ past = FALSE
  /\ entries = {}
  /\ sched = [k \in Keys |-> "none"]
  /\ enabled = [k \in Keys |-> FALSE]
  /\ node = [k \in Keys |-> NoNode]
  /\ dEntries = {}
  /\ dSched = [k \in Keys |-> "none"]
  /\ dEnabled = [k \in Keys |-> FALSE]
  /\ nst = [i \in Nodes |-> "free"]
  /\ nkey = [i \in Nodes |-> NoKey]
  /\ once = [i \in Nodes |-> FALSE]
  /\ fires = [k \in Keys |-> 0]
  /\ ran = NoKey
  /\ acked = [k \in Keys |-> "none"]
  /\ onlyAt = [k \in Keys |-> TRUE]
  /\ runs = [k \in Keys |-> 0]
  /\ forgot = FALSE
  /\ ops = 0 /\ crashes = 0 /\ faults = 0

-----------------------------------------------------------------------------
(* Scheduling.                                                             *)

\* scheduleEntryLocked on an enabled entry returns no error.
Accepts(s) == s = "every" \/ (s = "at" /\ ~past)

\* Mutant of IsOneShot: WithLoop(1) is never asked for.
IsOneShotNever(s) == FALSE

\* expressionTimerOpts.
IsOneShot(s) == s = "at"

\* Mutant of AfterStop: Stop is not called.
AfterStopMissing(i) == {nst[i]}

\* The states a node may be in once Stop returned: a live one whose wheel tick
\* had begun still delivers one callback. A one-shot is not due before its
\* instant.
AfterStop(i) ==
  IF nst[i] # "live" THEN {"free"}
  ELSE {"free"} \cup (IF once[i] /\ ~past THEN {} ELSE {"stopped"})

\* Mutant of Unwired: the entry keeps the node it stopped.
UnwiredKept(k) == node[k]

\* entry.node = nil.
Unwired(k) == NoNode

\* Stop the node of k, if it has one, and put a fresh one in its place when
\* arm holds.
Rewire(k, s, arm) ==
  LET old == node[k] IN
  \E t \in IF old = NoNode THEN {"free"} ELSE AfterStop(old) :
    LET kept == IF old = NoNode THEN nst ELSE [nst EXCEPT ![old] = t] IN
    \/ /\ arm
       /\ \E i \in Nodes :
            /\ nst[i] = "free"
            /\ nst' = [kept EXCEPT ![i] = "live"]
            /\ nkey' = [nkey EXCEPT ![i] = k]
            /\ once' = [once EXCEPT ![i] = IsOneShot(s)]
            /\ node' = [node EXCEPT ![k] = i]
    \/ /\ ~arm
       /\ nst' = kept
       /\ node' = [node EXCEPT ![k] = Unwired(k)]
       /\ UNCHANGED <<nkey, once>>

\* Mutant of SavedEnabled: a false is dropped from the file (omitempty) and
\* read back as enabled.
SavedEnabledDropped == [k \in Keys |-> TRUE]

\* The Enabled flags as the file carries them.
SavedEnabled == enabled'

\* Mutant of SavedEntries: the file is written before the registry changes.
SavedEntriesStale == entries

SavedEntries == entries'

\* a.Save(), whose error the handler returns: the file is written whole or
\* stays as it was.
SaveOk ==
  /\ dEntries' = SavedEntries
  /\ dSched' = sched'
  /\ dEnabled' = SavedEnabled
  /\ UNCHANGED faults

SaveFails ==
  /\ faults < MaxFaults
  /\ faults' = faults + 1
  /\ UNCHANGED disk

\* The answer to a request about k: a save decides whether it is a success.
SaveAndAnswer(k, what) ==
  \/ SaveOk /\ acked' = [acked EXCEPT ![k] = what]
  \/ SaveFails /\ acked' = [acked EXCEPT ![k] = "none"]

Request ==
  /\ running
  /\ ops < MaxOps
  /\ ops' = ops + 1
  /\ ran' = NoKey
  /\ UNCHANGED <<running, past, fires, crashes, runs, forgot>>

-----------------------------------------------------------------------------
(* Handlers.                                                               *)

\* handleRegister: a schedule that does not parse is refused before anything
\* changes, and the entry registered before stays live.
RegisterRefused(k, s) ==
  /\ Request
  /\ s \in {"at", "bad"}
  /\ ~Accepts(s)
  /\ UNCHANGED <<registry, disk, wheel, acked, onlyAt, faults>>

\* handleRegister. With neither cron nor expression, or disabled, the entry is
\* kept without a node.
Register(k, s, on) ==
  /\ Request
  /\ on /\ s # "none" => Accepts(s)
  /\ Rewire(k, s, on /\ s # "none")
  /\ entries' = entries \cup {k}
  /\ sched' = [sched EXCEPT ![k] = s]
  /\ enabled' = [enabled EXCEPT ![k] = on]
  /\ SaveAndAnswer(k, IF on THEN "on" ELSE "off")
  /\ onlyAt' = [onlyAt EXCEPT ![k] = @ /\ s = "at"]

\* handleUnregister.
Unregister(k) ==
  /\ Request
  /\ Rewire(k, "none", FALSE)
  /\ entries' = entries \ {k}
  /\ UNCHANGED <<sched, enabled, onlyAt>>
  /\ SaveAndAnswer(k, "off")

\* Mutant of EnabledAfterError: the flag keeps the value asked for.
EnabledAfterErrorKept == TRUE

\* handleSetEnabled puts the flag down again when scheduling fails.
EnabledAfterError == FALSE

\* handleSetEnabled on a registered entry; an unknown one is an error and
\* changes nothing. Here a schedule with neither field is an error too, and
\* the old node is stopped before the schedule is looked at. On an error
\* nothing is saved.
SetEnabled(k, on) ==
  /\ Request
  /\ k \in entries
  /\ UNCHANGED <<entries, sched, onlyAt>>
  /\ LET ok == ~on \/ Accepts(sched[k]) IN
     /\ Rewire(k, sched[k], on /\ ok)
     /\ enabled' = [enabled EXCEPT ![k] = IF ok THEN on ELSE EnabledAfterError]
     /\ \/ ok /\ SaveAndAnswer(k, IF on THEN "on" ELSE "off")
        \/ /\ ~ok
           /\ acked' = [acked EXCEPT ![k] = "none"]
           /\ UNCHANGED <<disk, faults>>

\* Counters stop at two: more than one is all the properties ask.
Plus(c) == IF c < 2 THEN c + 1 ELSE 2

\* handleFire: the entry is looked up by key. It may be gone, disabled, or not
\* the one whose node fired.
HandleFire(k) ==
  /\ running
  /\ fires[k] > 0
  /\ fires' = [fires EXCEPT ![k] = @ - 1]
  /\ \/ /\ k \in entries /\ enabled[k]
        /\ ran' = k
        /\ runs' = [runs EXCEPT ![k] = Plus(@)]
     \/ /\ ~(k \in entries /\ enabled[k])
        /\ ran' = NoKey
        /\ UNCHANGED runs
  /\ UNCHANGED <<running, past, registry, disk, wheel, acked, onlyAt, forgot,
                 bounds>>

-----------------------------------------------------------------------------
(* The wheel.                                                              *)

\* A live node is due: its callback posts scheduler.fire.
NodeFires(i) ==
  /\ nst[i] = "live"
  /\ once[i] => past
  /\ fires[nkey[i]] < MaxFires
  /\ nst' = [nst EXCEPT ![i] = IF once[i] THEN "over" ELSE @]
  /\ fires' = [fires EXCEPT ![nkey[i]] = @ + 1]
  /\ ran' = NoKey
  /\ UNCHANGED <<running, past, registry, disk, nkey, once, acked, counts, bounds>>

\* The callback that was on its way when the node was stopped.
LateFire(i) ==
  /\ nst[i] = "stopped"
  /\ fires[nkey[i]] < MaxFires
  /\ nst' = [nst EXCEPT ![i] = "free"]
  /\ fires' = [fires EXCEPT ![nkey[i]] = @ + 1]
  /\ ran' = NoKey
  /\ UNCHANGED <<running, past, registry, disk, nkey, once, acked, counts, bounds>>

TimePasses ==
  /\ ~past
  /\ past' = TRUE
  /\ ran' = NoKey
  /\ UNCHANGED <<running, registry, disk, wheel, fires, acked, counts, bounds>>

-----------------------------------------------------------------------------
(* The life of the actor.                                                  *)

\* Memory, wheel and mailbox are gone.
Lost ==
  /\ running
  /\ crashes < MaxCrashes
  /\ crashes' = crashes + 1
  /\ running' = FALSE
  /\ entries' = {}
  /\ sched' = [k \in Keys |-> "none"]
  /\ enabled' = [k \in Keys |-> FALSE]
  /\ node' = [k \in Keys |-> NoNode]
  /\ nst' = [i \in Nodes |-> "free"]
  /\ fires' = [k \in Keys |-> 0]
  /\ ran' = NoKey
  /\ UNCHANGED <<past, nkey, once, acked, counts, ops>>

Crash == Lost /\ UNCHANGED <<disk, faults>>

\* OnStop: the wheel is stopped and the registry saved, or the save fails.
OrderlyStop ==
  /\ Lost
  /\ \/ /\ dEntries' = entries
        /\ dSched' = sched
        /\ dEnabled' = enabled
        /\ UNCHANGED faults
     \/ SaveFails

\* Mutant of Rearmed: OnStart leaves the loaded entries without a node.
RearmedNone == {}

\* The loaded entries OnStart gives a node to; one it cannot schedule is kept
\* enabled, without a node.
Rearmed == {k \in dEntries : dEnabled[k] /\ Accepts(dSched[k])}

\* OnInit and OnStart: load, then schedule every entry.
Restart ==
  /\ ~running
  /\ running' = TRUE
  /\ entries' = dEntries
  /\ sched' = dSched
  /\ enabled' = dEnabled
  /\ \E f \in [Rearmed -> Nodes] :
       /\ \A k, l \in Rearmed : f[k] = f[l] => k = l
       /\ node' = [k \in Keys |-> IF k \in Rearmed THEN f[k] ELSE NoNode]
       /\ nst' = [i \in Nodes |->
                    IF \E k \in Rearmed : f[k] = i THEN "live" ELSE "free"]
       /\ nkey' = [i \in Nodes |->
                     IF \E k \in Rearmed : f[k] = i
                     THEN CHOOSE k \in Rearmed : f[k] = i ELSE NoKey]
       /\ once' = [i \in Nodes |->
                     \E k \in Rearmed : f[k] = i /\ IsOneShot(dSched[k])]
  /\ ran' = NoKey
  /\ UNCHANGED <<past, disk, fires, acked, counts, bounds>>

\* A load that fails is logged: the actor runs on with no entry, and the next
\* save writes just that.
RestartUnloaded ==
  /\ ~running
  /\ faults < MaxFaults
  /\ faults' = faults + 1
  /\ running' = TRUE
  /\ forgot' = TRUE
  /\ ran' = NoKey
  /\ UNCHANGED <<past, registry, disk, wheel, fires, acked, onlyAt, runs,
                 ops, crashes>>

-----------------------------------------------------------------------------
Next ==
  \/ \E k \in Keys, s \in Kinds : RegisterRefused(k, s)
  \/ \E k \in Keys, s \in Kinds, on \in BOOLEAN : Register(k, s, on)
  \/ \E k \in Keys : Unregister(k)
  \/ \E k \in Keys, on \in BOOLEAN : SetEnabled(k, on)
  \/ \E k \in Keys : HandleFire(k)
  \/ \E i \in Nodes : NodeFires(i)
  \/ \E i \in Nodes : LateFire(i)
  \/ TimePasses \/ Crash \/ OrderlyStop \/ Restart \/ RestartUnloaded

Spec == Init /\ [][Next]_vars

\* The wheel ticks, the actor's mailbox is served in turn, and the supervisor
\* starts the actor again.
Fairness ==
  /\ \A i \in Nodes : WF_vars(NodeFires(i)) /\ WF_vars(LateFire(i))
  /\ \A k \in Keys : WF_vars(HandleFire(k))
  /\ WF_vars(Restart)

FairSpec == Spec /\ Fairness

-----------------------------------------------------------------------------
(* Properties.                                                             *)

\* The type invariant: the shapes of the registry, the state file and the
\* wheel's nodes, a node held by the registry being that of a registered entry
\* and never a stopped one.
TypeOK ==
  /\ running \in BOOLEAN
  /\ past \in BOOLEAN
  /\ entries \subseteq Keys
  /\ sched \in [Keys -> Kinds]
  /\ enabled \in [Keys -> BOOLEAN]
  /\ node \in [Keys -> Nodes \cup {NoNode}]
  /\ dEntries \subseteq Keys
  /\ dSched \in [Keys -> Kinds]
  /\ dEnabled \in [Keys -> BOOLEAN]
  /\ nst \in [Nodes -> {"free", "live", "over", "stopped"}]
  /\ nkey \in [Nodes -> Keys \cup {NoKey}]
  /\ once \in [Nodes -> BOOLEAN]
  /\ fires \in [Keys -> Nat]
  /\ ran \in Keys \cup {NoKey}
  /\ acked \in [Keys -> {"none", "on", "off"}]
  /\ onlyAt \in [Keys -> BOOLEAN]
  /\ runs \in [Keys -> 0..2]
  /\ forgot \in BOOLEAN
  /\ {ops, crashes, faults} \subseteq Nat
  /\ \A k \in Keys : node[k] # NoNode =>
       k \in entries /\ nst[node[k]] \in {"live", "over"} /\ nkey[node[k]] = k

\* No orphan in the wheel: a node that still fires is the node of the entry it
\* names, and that entry is registered and enabled. Otherwise one card is fired
\* by two timers (#2 of the schedule audit), or a deleted one by a timer nobody
\* can stop.
NoOrphan ==
  \A i \in Nodes :
    nst[i] = "live" => /\ nkey[i] \in entries
                       /\ enabled[nkey[i]]
                       /\ node[nkey[i]] = i

\* While the actor runs, an entry that is listed as enabled has a live timer:
\* every path that cannot give it one puts the flag down (a one-shot that is
\* due, or a card with no schedule, apart).
EnabledIsArmed ==
  \A k \in entries :
    enabled[k] /\ sched[k] \in {"every", "bad"}
      => node[k] # NoNode /\ nst[node[k]] = "live"

\* A card whose timer was disabled or deleted, with success, is not executed
\* again until someone enables it, whatever fires were under way and through
\* crashes and restarts.
OffStaysOff == ran # NoKey => acked[ran] # "off"

\* A timer that was enabled with success is registered and enabled in every
\* later session until a request about it, unless its file could not be read.
OnSurvives ==
  \A k \in Keys :
    running /\ acked[k] = "on" /\ ~forgot => k \in entries /\ enabled[k]

\* A card that only ever had one-shot schedules is executed at most once (#3 of
\* the schedule audit), whatever is disabled, enabled, replaced and restarted.
AtMostOnce == \A k \in Keys : onlyAt[k] => runs[k] <= 1

\* A repeating timer that stays enabled goes on executing its card.
KeepsFiring ==
  \A k \in Keys :
    <>[](running /\ k \in entries /\ enabled[k] /\ sched[k] = "every")
      => []<>(ran = k)
=============================================================================
