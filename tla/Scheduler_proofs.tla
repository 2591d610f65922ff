-------------------------- MODULE Scheduler_proofs --------------------------
(***************************************************************************)
(* Theorems about the scheduler actor, for any number of cards, timer      *)
(* nodes, requests, crashes and failed saves.                              *)
(***************************************************************************)
EXTENDS Scheduler, TLAPS

-----------------------------------------------------------------------------
(* NoOrphan and EnabledIsArmed are inductive once two more facts are kept: *)
(* a schedule that does not parse is never enabled, in memory or in the    *)
(* file a restart reads, and a stopped actor holds nothing.                *)
DiskOK == \A k \in dEntries : dEnabled[k] => dSched[k] # "bad"

NoBad == \A k \in entries : enabled[k] => sched[k] # "bad"

DownOK == ~running => entries = {}

\* Only a one-shot entry holds a node with a single loop.
OnceOK == \A k \in Keys : node[k] # NoNode /\ once[node[k]] => sched[k] = "at"

\* The mutable part of the registry and the wheel, as one predicate.
WiringOK ==
  /\ entries \subseteq Keys
  /\ sched \in [Keys -> Kinds]
  /\ enabled \in [Keys -> BOOLEAN]
  /\ node \in [Keys -> Nodes \cup {NoNode}]
  /\ nst \in [Nodes -> {"free", "live", "over", "stopped"}]
  /\ nkey \in [Nodes -> Keys \cup {NoKey}]
  /\ once \in [Nodes -> BOOLEAN]
  /\ \A k \in Keys : node[k] # NoNode =>
       k \in entries /\ nst[node[k]] \in {"live", "over"} /\ nkey[node[k]] = k

DataOK ==
  /\ running \in BOOLEAN
  /\ past \in BOOLEAN
  /\ dEntries \subseteq Keys
  /\ dSched \in [Keys -> Kinds]
  /\ dEnabled \in [Keys -> BOOLEAN]
  /\ fires \in [Keys -> Nat]
  /\ ran \in Keys \cup {NoKey}
  /\ acked \in [Keys -> {"none", "on", "off"}]
  /\ onlyAt \in [Keys -> BOOLEAN]
  /\ runs \in [Keys -> 0..2]
  /\ forgot \in BOOLEAN
  /\ ops \in Nat /\ crashes \in Nat /\ faults \in Nat

LEMMA TypeSplit == TypeOK <=> DataOK /\ WiringOK
<1>1. {ops, crashes, faults} \subseteq Nat
        <=> ops \in Nat /\ crashes \in Nat /\ faults \in Nat
  OBVIOUS
<1> QED
  BY <1>1 DEF TypeOK, DataOK, WiringOK

Inv == DataOK /\ WiringOK /\ NoOrphan /\ EnabledIsArmed /\ NoBad /\ OnceOK
       /\ DiskOK /\ DownOK

LEMMA AfterStopType ==
  ASSUME NEW i \in Nodes
  PROVE  AfterStop(i) \subseteq {"free", "stopped"}
BY DEF AfterStop

(* What scheduling an entry does to the wheel: the other entries keep their *)
(* nodes, and of all the nodes that name k only the new one is live.        *)
LEMMA RewireOK ==
  ASSUME Inv, NEW k \in Keys, NEW s \in Kinds, NEW arm \in BOOLEAN,
         Rewire(k, s, arm)
  PROVE  /\ node' \in [Keys -> Nodes \cup {NoNode}]
         /\ nst' \in [Nodes -> {"free", "live", "over", "stopped"}]
         /\ nkey' \in [Nodes -> Keys \cup {NoKey}]
         /\ once' \in [Nodes -> BOOLEAN]
         /\ IF arm THEN /\ node'[k] \in Nodes
                        /\ nst'[node'[k]] = "live"
                        /\ nkey'[node'[k]] = k
                        /\ once'[node'[k]] <=> IsOneShot(s)
                   ELSE node'[k] = NoNode
         /\ \A l \in Keys \ {k} :
              /\ node'[l] = node[l]
              /\ node[l] # NoNode => /\ nst'[node[l]] = nst[node[l]]
                                     /\ nkey'[node[l]] = nkey[node[l]]
                                     /\ once'[node[l]] = once[node[l]]
         /\ \A j \in Nodes : nst'[j] = "live" =>
              \/ arm /\ j = node'[k]
              \/ nst[j] = "live" /\ nkey'[j] = nkey[j] /\ nkey[j] # k
<1> USE DEF Inv, WiringOK
<1> DEFINE old == node[k]
<1>1. PICK t \in IF old = NoNode THEN {"free"} ELSE AfterStop(old) :
        LET kept == IF old = NoNode THEN nst ELSE [nst EXCEPT ![old] = t] IN
        \/ /\ arm
           /\ \E i \in Nodes :
                /\ nst[i] = "free"
                /\ nst' = [kept EXCEPT ![i] = "live"]
                /\ nkey' = [nkey EXCEPT ![i] = k]
                /\ once' = [once EXCEPT ![i] = IsOneShot(s)]
                /\ node' = [node EXCEPT ![k] = i]
        \/ /\ ~arm
           /\ nst' = kept
           /\ node' = [node EXCEPT ![k] = NoNode]
           /\ UNCHANGED <<nkey, once>>
  BY DEF Rewire, Unwired
<1> DEFINE kept == IF old = NoNode THEN nst ELSE [nst EXCEPT ![old] = t]
<1>2. t \in {"free", "stopped"}
  BY <1>1, AfterStopType
<1>3. /\ kept \in [Nodes -> {"free", "live", "over", "stopped"}]
      /\ \A j \in Nodes : kept[j] = IF j = old /\ old # NoNode THEN t ELSE nst[j]
  BY <1>2
<1>4. \A j \in Nodes : kept[j] = "live" => nst[j] = "live" /\ nkey[j] # k
  BY <1>2, <1>3, SchedulerAssumption DEF NoOrphan
<1>5. \A l \in Keys \ {k} : node[l] # NoNode => kept[node[l]] = nst[node[l]]
  BY <1>3
<1> HIDE DEF kept
<1>6. CASE arm
  <2>1. PICK i \in Nodes :
          /\ nst[i] = "free"
          /\ nst' = [kept EXCEPT ![i] = "live"]
          /\ nkey' = [nkey EXCEPT ![i] = k]
          /\ once' = [once EXCEPT ![i] = IsOneShot(s)]
          /\ node' = [node EXCEPT ![k] = i]
    BY <1>1, <1>6 DEF kept
  <2>2. once' \in [Nodes -> BOOLEAN]
    BY <2>1 DEF IsOneShot
  <2>3. \A l \in Keys \ {k} : node[l] # i
    BY <2>1, SchedulerAssumption
  <2> QED
    BY <1>3, <1>4, <1>5, <1>6, <2>1, <2>2, <2>3
<1>7. CASE ~arm
  BY <1>1, <1>3, <1>4, <1>5, <1>7 DEF kept
<1> QED
  BY <1>6, <1>7

(* A handler that rewires k and sets its entry to match, and touches no    *)
(* other entry, keeps registry and wheel in step.                          *)
LEMMA RewiredOK ==
  ASSUME Inv, NEW k \in Keys, NEW s \in Kinds, NEW arm \in BOOLEAN,
         Rewire(k, s, arm),
         entries' \subseteq Keys, sched' \in [Keys -> Kinds],
         enabled' \in [Keys -> BOOLEAN],
         \A l \in Keys \ {k} : /\ l \in entries' <=> l \in entries
                               /\ sched'[l] = sched[l]
                               /\ enabled'[l] = enabled[l],
         arm => k \in entries' /\ enabled'[k] /\ sched'[k] = s,
         k \in entries' /\ enabled'[k] /\ sched'[k] \in {"every", "bad"} => arm
  PROVE  WiringOK' /\ NoOrphan' /\ EnabledIsArmed' /\ OnceOK'
<1> USE DEF Inv
<1>1. /\ node' \in [Keys -> Nodes \cup {NoNode}]
      /\ nst' \in [Nodes -> {"free", "live", "over", "stopped"}]
      /\ nkey' \in [Nodes -> Keys \cup {NoKey}]
      /\ once' \in [Nodes -> BOOLEAN]
      /\ IF arm THEN /\ node'[k] \in Nodes
                     /\ nst'[node'[k]] = "live"
                     /\ nkey'[node'[k]] = k
                     /\ once'[node'[k]] <=> IsOneShot(s)
                ELSE node'[k] = NoNode
      /\ \A l \in Keys \ {k} :
           /\ node'[l] = node[l]
           /\ node[l] # NoNode => /\ nst'[node[l]] = nst[node[l]]
                                  /\ nkey'[node[l]] = nkey[node[l]]
                                  /\ once'[node[l]] = once[node[l]]
      /\ \A j \in Nodes : nst'[j] = "live" =>
           \/ arm /\ j = node'[k]
           \/ nst[j] = "live" /\ nkey'[j] = nkey[j] /\ nkey[j] # k
  BY RewireOK
<1>2. WiringOK'
  BY <1>1 DEF WiringOK
<1>3. NoOrphan'
  BY <1>1 DEF NoOrphan, WiringOK
<1>4. EnabledIsArmed'
  BY <1>1, SchedulerAssumption DEF EnabledIsArmed, WiringOK
<1>5. OnceOK'
  BY <1>1 DEF OnceOK, IsOneShot
<1> QED
  BY <1>2, <1>3, <1>4, <1>5

LEMMA InvInit == Init => Inv
<1> SUFFICES ASSUME Init PROVE Inv
  OBVIOUS
<1>1. DataOK
  <2>1. runs \in [Keys -> 0..2]
    BY DEF Init
  <2> QED
    BY <2>1 DEF Init, DataOK, Kinds
<1>2. WiringOK
  BY DEF Init, WiringOK, Kinds
<1> QED
  BY <1>1, <1>2 DEF Init, Inv, NoOrphan, EnabledIsArmed, NoBad, OnceOK, DiskOK, DownOK

(* The answer to a request leaves the file as good as the registry it      *)
(* would write.                                                            *)
LEMMA SaveOK ==
  ASSUME Inv, NEW k \in Keys, NEW what \in {"none", "on", "off"},
         SaveAndAnswer(k, what),
         entries' \subseteq Keys, sched' \in [Keys -> Kinds],
         enabled' \in [Keys -> BOOLEAN],
         \A l \in entries' : enabled'[l] => sched'[l] # "bad"
  PROVE  /\ dEntries' \subseteq Keys
         /\ dSched' \in [Keys -> Kinds]
         /\ dEnabled' \in [Keys -> BOOLEAN]
         /\ acked' \in [Keys -> {"none", "on", "off"}]
         /\ faults' \in Nat
         /\ DiskOK'
BY DEF Inv, DataOK, SaveAndAnswer, SaveOk, SaveFails, SavedEntries, SavedEnabled,
       DiskOK, disk

LEMMA InvStep == Inv /\ [Next]_vars => Inv'
<1> SUFFICES ASSUME Inv, [Next]_vars PROVE Inv'
  OBVIOUS
<1> USE DEF Inv
<1>1. ASSUME NEW k \in Keys, NEW s \in Kinds, RegisterRefused(k, s) PROVE Inv'
  BY <1>1 DEF RegisterRefused, Request, registry, disk, wheel, DataOK, WiringOK,
              NoOrphan, EnabledIsArmed, NoBad, OnceOK, DiskOK, DownOK
<1>2. ASSUME NEW k \in Keys, NEW s \in Kinds, NEW on \in BOOLEAN,
             Register(k, s, on)
      PROVE  Inv'
  <2> DEFINE arm == on /\ s # "none"
  <2>1. /\ running /\ running' = running
        /\ Rewire(k, s, arm) /\ (arm => Accepts(s))
        /\ entries' = entries \cup {k}
        /\ sched' = [sched EXCEPT ![k] = s]
        /\ enabled' = [enabled EXCEPT ![k] = on]
        /\ SaveAndAnswer(k, IF on THEN "on" ELSE "off")
    BY <1>2 DEF Register, Request
  <2>2. (arm => s # "bad") /\ arm \in BOOLEAN /\ (s \in {"every", "bad"} => arm = on)
    BY <2>1 DEF Accepts
  <2> HIDE DEF arm
  <2>3. /\ entries' \subseteq Keys /\ sched' \in [Keys -> Kinds]
        /\ enabled' \in [Keys -> BOOLEAN] /\ NoBad'
    BY <2>1, <2>2 DEF WiringOK, NoBad
  <2>4. WiringOK' /\ NoOrphan' /\ EnabledIsArmed' /\ OnceOK'
    <3>1. arm => on
      BY DEF arm
    <3> QED
      BY <2>1, <2>2, <2>3, <3>1, RewiredOK DEF WiringOK
  <2>5. /\ DiskOK' /\ dEntries' \subseteq Keys /\ dSched' \in [Keys -> Kinds]
        /\ dEnabled' \in [Keys -> BOOLEAN] /\ faults' \in Nat
        /\ acked' \in [Keys -> {"none", "on", "off"}]
    BY <2>1, <2>3, SaveOK DEF NoBad
  <2>6. onlyAt' \in [Keys -> BOOLEAN]
    BY <1>2 DEF Register, DataOK
  <2>7. DataOK'
    BY <1>2, <2>5, <2>6 DEF Register, Request, DataOK
  <2> QED
    BY <2>1, <2>3, <2>4, <2>5, <2>7 DEF DownOK
<1>3. ASSUME NEW k \in Keys, Unregister(k) PROVE Inv'
  <2>1. /\ running /\ running' = running
        /\ Rewire(k, "none", FALSE)
        /\ entries' = entries \ {k}
        /\ UNCHANGED <<sched, enabled>>
        /\ SaveAndAnswer(k, "off")
    BY <1>3 DEF Unregister, Request
  <2>2. /\ entries' \subseteq Keys /\ sched' \in [Keys -> Kinds]
        /\ enabled' \in [Keys -> BOOLEAN] /\ NoBad'
    BY <2>1 DEF WiringOK, NoBad
  <2>3. WiringOK' /\ NoOrphan' /\ EnabledIsArmed' /\ OnceOK'
    <3>1. "none" \in Kinds /\ k \notin entries'
      BY <2>1 DEF Kinds
    <3> QED
      BY <2>1, <2>2, <3>1, RewiredOK DEF WiringOK
  <2>4. /\ DiskOK' /\ dEntries' \subseteq Keys /\ dSched' \in [Keys -> Kinds]
        /\ dEnabled' \in [Keys -> BOOLEAN] /\ faults' \in Nat
        /\ acked' \in [Keys -> {"none", "on", "off"}]
    BY <2>1, <2>2, SaveOK DEF NoBad
  <2>5. DataOK'
    BY <1>3, <2>4 DEF Unregister, Request, DataOK
  <2> QED
    BY <2>1, <2>2, <2>3, <2>4, <2>5 DEF DownOK
<1>4. ASSUME NEW k \in Keys, NEW on \in BOOLEAN, SetEnabled(k, on) PROVE Inv'
  <2> DEFINE ok == ~on \/ Accepts(sched[k])
             arm == on /\ ok
  <2>1. /\ running /\ running' = running /\ k \in entries
        /\ Rewire(k, sched[k], arm)
        /\ UNCHANGED <<entries, sched>>
        /\ enabled' = [enabled EXCEPT ![k] = IF ok THEN on ELSE FALSE]
        /\ \/ ok /\ SaveAndAnswer(k, IF on THEN "on" ELSE "off")
           \/ acked' = [acked EXCEPT ![k] = "none"] /\ UNCHANGED <<disk, faults>>
    BY <1>4 DEF SetEnabled, Request, EnabledAfterError
  <2>2. /\ arm \in BOOLEAN /\ sched[k] \in Kinds
        /\ (arm => sched[k] # "bad") /\ (IF ok THEN on ELSE FALSE) = arm
    BY DEF Accepts, WiringOK
  <2> HIDE DEF arm, ok
  <2>3. /\ entries' \subseteq Keys /\ sched' \in [Keys -> Kinds]
        /\ enabled' \in [Keys -> BOOLEAN] /\ NoBad'
    BY <2>1, <2>2 DEF WiringOK, NoBad
  <2>4. WiringOK' /\ NoOrphan' /\ EnabledIsArmed' /\ OnceOK'
    <3>1. PICK s \in Kinds : s = sched[k]
      BY <2>2
    <3>2. Rewire(k, s, arm)
      BY <2>1, <3>1
    <3>3. \A l \in Keys \ {k} : /\ l \in entries' <=> l \in entries
                                /\ sched'[l] = sched[l]
                                /\ enabled'[l] = enabled[l]
      BY <2>1 DEF WiringOK
    <3>4. enabled'[k] <=> arm
      BY <2>1, <2>2, Zenon DEF WiringOK
    <3>5. /\ arm => k \in entries' /\ enabled'[k] /\ sched'[k] = s
          /\ k \in entries' /\ enabled'[k] /\ sched'[k] \in {"every", "bad"} => arm
      BY <2>1, <3>1, <3>4
    <3>6. arm \in BOOLEAN
      BY <2>2
    <3> QED
      BY <2>3, <3>2, <3>3, <3>5, <3>6, RewiredOK
  <2>5. /\ DiskOK' /\ dEntries' \subseteq Keys /\ dSched' \in [Keys -> Kinds]
        /\ dEnabled' \in [Keys -> BOOLEAN] /\ faults' \in Nat
        /\ acked' \in [Keys -> {"none", "on", "off"}]
    <3>1. CASE SaveAndAnswer(k, IF on THEN "on" ELSE "off")
      BY <2>3, <3>1, SaveOK DEF NoBad
    <3>2. CASE acked' = [acked EXCEPT ![k] = "none"] /\ UNCHANGED <<disk, faults>>
      BY <3>2 DEF disk, DiskOK, DataOK
    <3> QED
      BY <2>1, <3>1, <3>2
  <2>6. DataOK'
    BY <1>4, <2>5 DEF SetEnabled, Request, DataOK
  <2> QED
    BY <2>1, <2>3, <2>4, <2>5, <2>6 DEF DownOK
<1>5. ASSUME NEW k \in Keys, HandleFire(k) PROVE Inv'
  <2>1. UNCHANGED <<running, past, registry, disk, wheel, acked, onlyAt, forgot,
                    bounds>>
    BY <1>5 DEF HandleFire
  <2>2. fires' \in [Keys -> Nat] /\ ran' \in Keys \cup {NoKey}
    BY <1>5 DEF HandleFire, DataOK
  <2>3. runs' \in [Keys -> 0..2]
    BY <1>5 DEF HandleFire, DataOK, Plus
  <2> QED
    BY <2>1, <2>2, <2>3 DEF registry, disk, wheel, bounds, DataOK, WiringOK,
       NoOrphan, EnabledIsArmed, NoBad, OnceOK, DiskOK, DownOK
<1>6. ASSUME NEW i \in Nodes, NodeFires(i) \/ LateFire(i) PROVE Inv'
  <2>1. UNCHANGED <<running, past, registry, disk, nkey, once, acked, counts, bounds>>
        /\ ran' = NoKey /\ fires' = [fires EXCEPT ![nkey[i]] = @ + 1]
    BY <1>6 DEF NodeFires, LateFire
  <2>2. \/ nst' = nst
        \/ nst[i] = "live" /\ once[i] /\ nst' = [nst EXCEPT ![i] = "over"]
        \/ nst[i] = "stopped" /\ nst' = [nst EXCEPT ![i] = "free"]
    BY <1>6 DEF NodeFires, LateFire, WiringOK
  <2>3. DataOK'
    <3>1. \A k \in Keys : fires[k] + 1 \in Nat
      BY DEF DataOK
    <3>2. \A k \in Keys : fires'[k] = IF k = nkey[i] THEN fires[k] + 1 ELSE fires[k]
      BY <2>1 DEF DataOK
    <3>3. fires' \in [Keys -> Nat]
      BY <2>1, <3>1, <3>2 DEF DataOK
    <3> QED
      BY <2>1, <3>3 DEF DataOK, registry, disk, counts, bounds
  <2>4. WiringOK' /\ NoOrphan'
    BY <2>1, <2>2 DEF WiringOK, NoOrphan, registry
  <2>5. EnabledIsArmed'
    BY <2>1, <2>2, SchedulerAssumption DEF EnabledIsArmed, WiringOK, OnceOK, registry
  <2> QED
    BY <2>1, <2>3, <2>4, <2>5 DEF registry, disk, OnceOK, NoBad, DiskOK, DownOK
<1>7. CASE TimePasses
  BY <1>7 DEF TimePasses, registry, disk, wheel, bounds, counts, DataOK, WiringOK,
     NoOrphan, EnabledIsArmed, NoBad, OnceOK, DiskOK, DownOK
<1>8. CASE Crash \/ OrderlyStop
  <2>1. /\ running' = FALSE /\ entries' = {} /\ ran' = NoKey
        /\ sched' = [k \in Keys |-> "none"]
        /\ enabled' = [k \in Keys |-> FALSE]
        /\ node' = [k \in Keys |-> NoNode]
        /\ nst' = [i \in Nodes |-> "free"]
        /\ fires' = [k \in Keys |-> 0]
        /\ crashes' = crashes + 1
        /\ UNCHANGED <<past, nkey, once, acked, counts, ops>>
    BY <1>8 DEF Crash, OrderlyStop, Lost
  <2>2. \/ UNCHANGED disk
        \/ dEntries' = entries /\ dSched' = sched /\ dEnabled' = enabled
    BY <1>8 DEF Crash, OrderlyStop, SaveFails
  <2>3. faults' \in Nat
    BY <1>8 DEF Crash, OrderlyStop, SaveFails, DataOK
  <2>4. /\ DiskOK' /\ dEntries' \subseteq Keys /\ dSched' \in [Keys -> Kinds]
        /\ dEnabled' \in [Keys -> BOOLEAN]
    BY <2>2 DEF disk, DiskOK, NoBad, DataOK, WiringOK
  <2>5. DataOK'
    <3>1. fires' \in [Keys -> Nat] /\ crashes' \in Nat
      BY <2>1 DEF DataOK
    <3> QED
      BY <2>1, <2>3, <2>4, <3>1 DEF DataOK, counts
  <2>6. WiringOK' /\ NoOrphan' /\ EnabledIsArmed' /\ NoBad' /\ OnceOK' /\ DownOK'
    BY <2>1 DEF WiringOK, NoOrphan, EnabledIsArmed, NoBad, OnceOK, DownOK, Kinds
  <2> QED
    BY <2>4, <2>5, <2>6
<1>9. CASE Restart
  <2>1. PICK f \in [Rearmed -> Nodes] :
          /\ \A k, l \in Rearmed : f[k] = f[l] => k = l
          /\ node' = [k \in Keys |-> IF k \in Rearmed THEN f[k] ELSE NoNode]
          /\ nst' = [i \in Nodes |->
                       IF \E k \in Rearmed : f[k] = i THEN "live" ELSE "free"]
          /\ nkey' = [i \in Nodes |->
                        IF \E k \in Rearmed : f[k] = i
                        THEN CHOOSE k \in Rearmed : f[k] = i ELSE NoKey]
          /\ once' = [i \in Nodes |->
                        \E k \in Rearmed : f[k] = i /\ IsOneShot(dSched[k])]
    BY <1>9 DEF Restart
  <2>2. /\ running' = TRUE /\ ran' = NoKey
        /\ entries' = dEntries /\ sched' = dSched /\ enabled' = dEnabled
        /\ UNCHANGED <<past, disk, fires, acked, counts, bounds>>
    BY <1>9 DEF Restart
  <2>3. \A k \in Rearmed :
          /\ k \in dEntries /\ k \in Keys /\ dEnabled[k] /\ f[k] \in Nodes
          /\ Accepts(dSched[k])
    BY DEF Rearmed, DataOK
  <2>4. \A i \in Nodes : nst'[i] = "live" =>
          nkey'[i] \in Rearmed /\ f[nkey'[i]] = i
    BY <2>1
  <2>5. \A k \in Rearmed : /\ node'[k] = f[k] /\ nst'[f[k]] = "live"
                           /\ nkey'[f[k]] = k
    BY <2>1, <2>3, <2>4
  <2>6. \A k \in Rearmed : once'[f[k]] => dSched[k] = "at"
    BY <2>1, <2>3 DEF IsOneShot
  <2>7. /\ node' \in [Keys -> Nodes \cup {NoNode}]
        /\ nst' \in [Nodes -> {"free", "live", "over", "stopped"}]
        /\ nkey' \in [Nodes -> Keys \cup {NoKey}]
        /\ once' \in [Nodes -> BOOLEAN]
    <3>1. \A i \in Nodes : nkey'[i] \in Keys \cup {NoKey}
      BY <2>1, <2>3, <2>4
    <3> QED
      BY <2>1, <2>3, <3>1
  <2>8. \A k \in Keys : node'[k] # NoNode => k \in Rearmed
    BY <2>1
  <2>9. DataOK'
    BY <2>2 DEF DataOK, disk, counts, bounds
  <2>10. WiringOK'
    BY <2>2, <2>3, <2>5, <2>7, <2>8 DEF WiringOK, DataOK
  <2>11. NoOrphan' /\ OnceOK'
    BY <2>2, <2>3, <2>4, <2>5, <2>6, <2>8 DEF NoOrphan, OnceOK
  <2>12. EnabledIsArmed'
    <3>1. \A k \in dEntries : dEnabled[k] /\ dSched[k] \in {"every", "bad"}
                                => k \in Rearmed
      BY DEF Rearmed, Accepts, DiskOK
    <3> QED
      BY <2>2, <2>3, <2>5, <3>1, SchedulerAssumption DEF EnabledIsArmed
  <2> QED
    BY <2>2, <2>9, <2>10, <2>11, <2>12 DEF disk, NoBad, DiskOK, DownOK
<1>10. CASE RestartUnloaded
  BY <1>10 DEF RestartUnloaded, registry, disk, wheel, DataOK, WiringOK,
     NoOrphan, EnabledIsArmed, NoBad, OnceOK, DiskOK, DownOK
<1>11. CASE UNCHANGED vars
  BY <1>11 DEF vars, registry, disk, wheel, bounds, counts, DataOK, WiringOK,
     NoOrphan, EnabledIsArmed, NoBad, OnceOK, DiskOK, DownOK
<1> QED
  BY <1>1, <1>2, <1>3, <1>4, <1>5, <1>6, <1>7, <1>8, <1>9, <1>10, <1>11 DEF Next

(* Registry, file and wheel keep their shape at every step, crash and      *)
(* restart, and the registry never holds a stopped node.                   *)
THEOREM TypeCorrect == Spec => []TypeOK
<1>1. Inv => TypeOK
  BY TypeSplit DEF Inv
<1> QED
  BY InvInit, InvStep, <1>1, PTL DEF Spec

(* No node of the wheel is ever left live without the enabled entry that   *)
(* can stop it: no card is fired by two timers.                            *)
THEOREM NoOrphanNode == Spec => []NoOrphan
<1>1. Inv => NoOrphan
  BY DEF Inv
<1> QED
  BY InvInit, InvStep, <1>1, PTL DEF Spec

(* A repeating timer that is listed as enabled has a live node.            *)
THEOREM EnabledHasTimer == Spec => []EnabledIsArmed
<1>1. Inv => EnabledIsArmed
  BY DEF Inv
<1> QED
  BY InvInit, InvStep, <1>1, PTL DEF Spec

-----------------------------------------------------------------------------
(* What the scheduler actor owes whoever asked it something: a timer that  *)
(* was switched off stays off, one that was switched on stays on, and a    *)
(* one-shot is executed once, each across failed saves, crashes and        *)
(* restarts.                                                               *)
(*                                                                         *)
(* An answered request binds the state file as well as the registry. A     *)
(* later request about another card writes the file whole, or fails and    *)
(* leaves it: either way it writes nothing new about this one.             *)

\* A card that was switched off is off in the registry and in the file.
OffOK ==
  \A k \in Keys : acked[k] = "off" => /\ ~(k \in entries /\ enabled[k])
                                      /\ ~(k \in dEntries /\ dEnabled[k])

\* A card that was switched on is on in the file, and in the registry of a
\* running actor, unless the file was given up at a restart.
OnOK ==
  ~forgot => \A k \in Keys : acked[k] = "on" =>
    /\ k \in dEntries /\ dEnabled[k]
    /\ running => k \in entries /\ enabled[k]

(* What a request about k does to the registry and the file, as far as the *)
(* promises can tell.                                                      *)
LEMMA AnsweredOK ==
  ASSUME Inv, OffOK, OnOK, NEW k \in Keys, NEW what \in {"on", "off"},
         running, running' = running, forgot' = forgot,
         SaveAndAnswer(k, what),
         \A l \in Keys \ {k} : /\ l \in entries' <=> l \in entries
                               /\ enabled'[l] <=> enabled[l],
         what = "off" => ~(k \in entries' /\ enabled'[k]),
         what = "on" => k \in entries' /\ enabled'[k]
  PROVE  OffOK' /\ OnOK'
<1> USE DEF Inv, DataOK
<1>1. \A l \in Keys \ {k} : acked'[l] = acked[l]
  BY DEF SaveAndAnswer
<1>2. CASE SaveOk /\ acked' = [acked EXCEPT ![k] = what]
  <2>1. acked'[k] = what /\ dEntries' = entries' /\ dEnabled' = enabled'
    BY <1>2 DEF SaveOk, SavedEntries, SavedEnabled
  <2> QED
    BY <1>1, <2>1 DEF OffOK, OnOK
<1>3. CASE SaveFails /\ acked' = [acked EXCEPT ![k] = "none"]
  <2>1. acked'[k] = "none" /\ dEntries' = dEntries /\ dEnabled' = dEnabled
    BY <1>3 DEF SaveFails, disk
  <2> QED
    BY <1>1, <2>1 DEF OffOK, OnOK
<1> QED
  BY <1>2, <1>3 DEF SaveAndAnswer

LEMMA PromisesStep ==
  ASSUME Inv, OffOK, OnOK, [Next]_vars
  PROVE  OffOK' /\ OnOK'
<1> USE DEF Inv, DataOK, WiringOK
<1>1. ASSUME NEW k \in Keys, NEW s \in Kinds, RegisterRefused(k, s)
      PROVE  OffOK' /\ OnOK'
  BY <1>1 DEF RegisterRefused, Request, registry, disk, OffOK, OnOK
<1>2. ASSUME NEW k \in Keys, NEW s \in Kinds, NEW on \in BOOLEAN,
             Register(k, s, on)
      PROVE  OffOK' /\ OnOK'
  <2> DEFINE what == IF on THEN "on" ELSE "off"
  <2>1. /\ running /\ running' = running /\ forgot' = forgot
        /\ entries' = entries \cup {k}
        /\ enabled' = [enabled EXCEPT ![k] = on]
        /\ SaveAndAnswer(k, what)
    BY <1>2 DEF Register, Request
  <2>2. /\ what \in {"on", "off"}
        /\ what = "off" => ~on
        /\ what = "on" => on
    OBVIOUS
  <2> HIDE DEF what
  <2>3. /\ k \in entries' /\ (enabled'[k] <=> on)
        /\ \A l \in Keys \ {k} : /\ l \in entries' <=> l \in entries
                                 /\ enabled'[l] <=> enabled[l]
    BY <2>1
  <2> QED
    BY <2>1, <2>2, <2>3, AnsweredOK
<1>3. ASSUME NEW k \in Keys, Unregister(k) PROVE OffOK' /\ OnOK'
  <2>1. /\ running /\ running' = running /\ forgot' = forgot
        /\ entries' = entries \ {k} /\ enabled' = enabled
        /\ SaveAndAnswer(k, "off")
    BY <1>3 DEF Unregister, Request
  <2>2. /\ k \notin entries'
        /\ \A l \in Keys \ {k} : /\ l \in entries' <=> l \in entries
                                 /\ enabled'[l] <=> enabled[l]
    BY <2>1
  <2> QED
    BY <2>1, <2>2, AnsweredOK
<1>4. ASSUME NEW k \in Keys, NEW on \in BOOLEAN, SetEnabled(k, on)
      PROVE  OffOK' /\ OnOK'
  <2> DEFINE ok == ~on \/ Accepts(sched[k])
             what == IF on THEN "on" ELSE "off"
  <2>1. /\ running /\ running' = running /\ forgot' = forgot /\ k \in entries
        /\ entries' = entries
        /\ enabled' = [enabled EXCEPT ![k] = IF ok THEN on ELSE FALSE]
        /\ \/ ok /\ SaveAndAnswer(k, what)
           \/ acked' = [acked EXCEPT ![k] = "none"] /\ UNCHANGED disk
    BY <1>4 DEF SetEnabled, Request, EnabledAfterError
  <2>2. /\ what \in {"on", "off"}
        /\ what = "off" => ~on
        /\ what = "on" => on
    OBVIOUS
  <2> HIDE DEF what, ok
  <2>3. \A l \in Keys \ {k} : /\ l \in entries' <=> l \in entries
                              /\ enabled'[l] <=> enabled[l]
    BY <2>1
  <2>4. CASE ok /\ SaveAndAnswer(k, what)
    <3>1. enabled'[k] <=> on
      BY <2>1, <2>4
    <3> QED
      BY <2>1, <2>2, <2>3, <2>4, <3>1, AnsweredOK
  <2>5. CASE acked' = [acked EXCEPT ![k] = "none"] /\ UNCHANGED disk
    <3>1. /\ acked'[k] = "none"
          /\ \A l \in Keys \ {k} : acked'[l] = acked[l]
      BY <2>5
    <3> QED
      BY <2>1, <2>3, <2>5, <3>1 DEF disk, OffOK, OnOK
  <2> QED
    BY <2>1, <2>4, <2>5
<1>5. ASSUME NEW k \in Keys, HandleFire(k) PROVE OffOK' /\ OnOK'
  BY <1>5 DEF HandleFire, registry, disk, OffOK, OnOK
<1>6. ASSUME NEW i \in Nodes, NodeFires(i) \/ LateFire(i)
      PROVE  OffOK' /\ OnOK'
  BY <1>6 DEF NodeFires, LateFire, registry, disk, counts, OffOK, OnOK
<1>7. CASE TimePasses
  BY <1>7 DEF TimePasses, registry, disk, counts, OffOK, OnOK
<1>8. CASE Crash \/ OrderlyStop
  <2>1. /\ running /\ ~running' /\ entries' = {}
        /\ UNCHANGED <<acked, counts>>
        /\ \/ UNCHANGED disk
           \/ dEntries' = entries /\ dEnabled' = enabled
    BY <1>8 DEF Crash, OrderlyStop, Lost, SaveFails
  <2> QED
    BY <2>1 DEF disk, counts, OffOK, OnOK
<1>9. CASE Restart
  BY <1>9 DEF Restart, disk, counts, OffOK, OnOK
<1>10. CASE RestartUnloaded
  BY <1>10 DEF RestartUnloaded, registry, disk, OffOK, OnOK
<1>11. CASE UNCHANGED vars
  BY <1>11 DEF vars, registry, disk, counts, OffOK, OnOK
<1> QED
  BY <1>1, <1>2, <1>3, <1>4, <1>5, <1>6, <1>7, <1>8, <1>9, <1>10, <1>11 DEF Next

(* The card a step executes is enabled in the registry at that step.       *)
LEMMA OffStaysOffStep ==
  ASSUME OffStaysOff, OffOK, [Next]_vars
  PROVE  OffStaysOff'
<1>1. ASSUME NEW k \in Keys, HandleFire(k) PROVE OffStaysOff'
  BY <1>1 DEF HandleFire, OffOK, OffStaysOff
<1>2. CASE UNCHANGED vars
  BY <1>2 DEF vars, OffStaysOff
<1>3. CASE ran' = NoKey
  BY <1>3 DEF OffStaysOff
<1>4. (\E k \in Keys : HandleFire(k)) \/ UNCHANGED vars \/ ran' = NoKey
  BY DEF Next, RegisterRefused, Register, Unregister, SetEnabled, Request,
     NodeFires, LateFire, TimePasses, Crash, OrderlyStop, Lost, Restart,
     RestartUnloaded
<1> QED
  BY <1>1, <1>2, <1>3, <1>4

(* A card whose timer was disabled or deleted, with success, is not        *)
(* executed before someone enables it again: not by a fire queued before,  *)
(* not by a callback on its way, not after a restart.                      *)
THEOREM OffIsKept == Spec => []OffStaysOff
<1>1. Init => OffOK /\ OnOK /\ OffStaysOff
  BY DEF Init, OffOK, OnOK, OffStaysOff
<1>2. Inv /\ OffOK /\ OnOK /\ OffStaysOff /\ [Next]_vars
        => OffOK' /\ OnOK' /\ OffStaysOff'
  BY PromisesStep, OffStaysOffStep
<1> QED
  BY InvInit, InvStep, <1>1, <1>2, PTL DEF Spec

(* A timer that was enabled with success is registered and enabled in      *)
(* every later session, until a request about it, unless a restart could   *)
(* not read the file: no request about another card and no failed save     *)
(* drops it.                                                               *)
THEOREM OnIsKept == Spec => []OnSurvives
<1>1. Init => OffOK /\ OnOK
  BY DEF Init, OffOK, OnOK
<1>2. Inv /\ OffOK /\ OnOK /\ [Next]_vars => OffOK' /\ OnOK'
  BY PromisesStep
<1>3. OnOK => OnSurvives
  BY DEF OnOK, OnSurvives
<1> QED
  BY InvInit, InvStep, <1>1, <1>2, <1>3, PTL DEF Spec

-----------------------------------------------------------------------------
(* The one-shot. A card that only ever had "at" schedules has, between its *)
(* nodes, the mailbox and its past, one execution to spend: before the     *)
(* instant only one node can hold it, as nothing that is stopped is due;   *)
(* from the instant on no new node is made, and the one fire is on a node, *)
(* in the mailbox, or was handled.                                         *)

\* Node i may still call back for k.
Pending(i, k) == nst[i] \in {"live", "stopped"} /\ nkey[i] = k

\* What is registered or saved for k is a one-shot.
OnlyShot(k) ==
  /\ k \in entries => sched[k] = "at"
  /\ k \in dEntries => dSched[k] = "at"

\* One node at most may call back, once, and none that was stopped early.
OneNode(k) ==
  /\ \A i \in Nodes : Pending(i, k) => once[i] /\ (nst[i] = "stopped" => past)
  /\ \A i, j \in Nodes : Pending(i, k) /\ Pending(j, k) => i = j

\* Fires in the mailbox and executions are one at most, and with one of them
\* the node is done.
OneFire(k) ==
  \/ fires[k] = 0 /\ runs[k] = 0
  \/ /\ fires[k] + runs[k] = 1
     /\ past
     /\ \A i \in Nodes : ~Pending(i, k)

ShotOK(k) == onlyAt[k] => OnlyShot(k) /\ OneNode(k) /\ OneFire(k)

OneShotOK == \A k \in Keys : ShotOK(k)

(* The nodes that may still call back once the entry of k was rewired: the *)
(* new one, and those of before, the live one among them stopped.          *)
LEMMA RewirePending ==
  ASSUME Inv, NEW k \in Keys, NEW s \in Kinds, NEW arm \in BOOLEAN,
         Rewire(k, s, arm)
  PROVE  /\ \A j \in Nodes, l \in Keys \ {k} : Pending(j, l)' =>
              Pending(j, l) /\ once'[j] = once[j] /\ nst'[j] = nst[j]
         /\ \A j \in Nodes : Pending(j, k)' =>
              \/ /\ arm /\ j = node'[k]
                 /\ nst'[j] = "live" /\ (once'[j] <=> IsOneShot(s))
              \/ /\ Pending(j, k) /\ once'[j] = once[j] /\ nst'[j] = "stopped"
                 /\ nst[j] = "stopped" \/ ~once[j] \/ past
<1> USE DEF Inv, WiringOK
<1> DEFINE old == node[k]
<1>1. PICK t \in IF old = NoNode THEN {"free"} ELSE AfterStop(old) :
        LET kept == IF old = NoNode THEN nst ELSE [nst EXCEPT ![old] = t] IN
        \/ /\ arm
           /\ \E i \in Nodes :
                /\ nst[i] = "free"
                /\ nst' = [kept EXCEPT ![i] = "live"]
                /\ nkey' = [nkey EXCEPT ![i] = k]
                /\ once' = [once EXCEPT ![i] = IsOneShot(s)]
                /\ node' = [node EXCEPT ![k] = i]
        \/ /\ ~arm
           /\ nst' = kept
           /\ node' = [node EXCEPT ![k] = NoNode]
           /\ UNCHANGED <<nkey, once>>
  BY DEF Rewire, Unwired
<1> DEFINE kept == IF old = NoNode THEN nst ELSE [nst EXCEPT ![old] = t]
<1>2. /\ t \in {"free", "stopped"}
      /\ old # NoNode /\ t = "stopped" =>
           nst[old] = "live" /\ (~once[old] \/ past)
  BY <1>1 DEF AfterStop
<1>3. /\ kept \in [Nodes -> {"free", "live", "over", "stopped"}]
      /\ \A j \in Nodes : kept[j] = IF j = old /\ old # NoNode THEN t ELSE nst[j]
      /\ old # NoNode => old \in Nodes /\ nkey[old] = k
  BY <1>2
<1>4. \A j \in Nodes, l \in Keys \ {k} :
        nkey[j] = l => kept[j] = nst[j]
  BY <1>3
<1>5. \A j \in Nodes : nkey[j] = k /\ kept[j] \in {"live", "stopped"} =>
        /\ Pending(j, k) /\ kept[j] = "stopped"
        /\ nst[j] = "stopped" \/ ~once[j] \/ past
  <2> SUFFICES ASSUME NEW j \in Nodes, nkey[j] = k,
                      kept[j] \in {"live", "stopped"}
               PROVE  /\ Pending(j, k) /\ kept[j] = "stopped"
                      /\ nst[j] = "stopped" \/ ~once[j] \/ past
    OBVIOUS
  <2>1. CASE j = old
    BY <1>2, <1>3, <2>1, SchedulerAssumption DEF Pending
  <2>2. CASE j # old
    <3>1. kept[j] = nst[j]
      BY <1>3, <2>2
    <3>2. nst[j] # "live"
      BY <2>2 DEF NoOrphan
    <3> QED
      BY <3>1, <3>2 DEF Pending
  <2> QED
    BY <2>1, <2>2
<1> HIDE DEF kept, old
<1>6. CASE arm
  <2>1. PICK i \in Nodes :
          /\ nst[i] = "free"
          /\ nst' = [kept EXCEPT ![i] = "live"]
          /\ nkey' = [nkey EXCEPT ![i] = k]
          /\ once' = [once EXCEPT ![i] = IsOneShot(s)]
          /\ node' = [node EXCEPT ![k] = i]
    BY <1>1, <1>6 DEF kept, old
  <2>2. /\ nst'[i] = "live" /\ nkey'[i] = k /\ node'[k] = i
        /\ once'[i] <=> IsOneShot(s)
    BY <1>3, <2>1 DEF IsOneShot
  <2>3. \A j \in Nodes \ {i} :
          nst'[j] = kept[j] /\ nkey'[j] = nkey[j] /\ once'[j] = once[j]
    BY <1>3, <2>1
  <2> QED
    BY <1>4, <1>5, <1>6, <2>2, <2>3 DEF Pending
<1>7. CASE ~arm
  <2>1. nst' = kept /\ nkey' = nkey /\ once' = once
    BY <1>1, <1>7 DEF kept, old
  <2> QED
    BY <1>4, <1>5, <2>1 DEF Pending
<1> QED
  BY <1>6, <1>7

(* What a request about k leaves of the one-shots: a node is made for one  *)
(* only before its instant, when no other can call back.                   *)
LEMMA RequestShot ==
  ASSUME Inv, OneShotOK,
         NEW k \in Keys, NEW s \in Kinds, NEW arm \in BOOLEAN,
         Rewire(k, s, arm), arm => Accepts(s),
         UNCHANGED <<past, fires, runs>>,
         \A l \in Keys \ {k} : /\ onlyAt'[l] = onlyAt[l]
                               /\ l \in entries' <=> l \in entries
                               /\ sched'[l] = sched[l],
         onlyAt'[k] => /\ onlyAt[k]
                       /\ arm => s = "at"
                       /\ k \in entries' => sched'[k] = "at",
         \/ dEntries' = entries' /\ dSched' = sched'
         \/ UNCHANGED <<dEntries, dSched>>
  PROVE  OneShotOK'
<1> USE DEF Inv, DataOK
<1>1. /\ \A j \in Nodes, l \in Keys \ {k} : Pending(j, l)' =>
           Pending(j, l) /\ once'[j] = once[j] /\ nst'[j] = nst[j]
      /\ \A j \in Nodes : Pending(j, k)' =>
           \/ /\ arm /\ j = node'[k]
              /\ nst'[j] = "live" /\ (once'[j] <=> IsOneShot(s))
           \/ /\ Pending(j, k) /\ once'[j] = once[j] /\ nst'[j] = "stopped"
              /\ nst[j] = "stopped" \/ ~once[j] \/ past
  BY RewirePending
<1>2. ASSUME NEW l \in Keys \ {k}, onlyAt'[l]
      PROVE  OnlyShot(l)' /\ OneNode(l)' /\ OneFire(l)'
  <2>1. OnlyShot(l) /\ OneNode(l) /\ OneFire(l)
    BY <1>2 DEF OneShotOK, ShotOK
  <2>2. OnlyShot(l)'
    BY <1>2, <2>1 DEF OnlyShot
  <2>3. OneNode(l)'
    BY <1>1, <2>1 DEF OneNode, Pending
  <2>4. OneFire(l)'
    BY <1>1, <2>1 DEF OneFire, Pending
  <2> QED
    BY <2>2, <2>3, <2>4
<1>3. ASSUME onlyAt'[k]
      PROVE  OnlyShot(k)' /\ OneNode(k)' /\ OneFire(k)'
  <2>1. OnlyShot(k) /\ OneNode(k) /\ OneFire(k)
    BY <1>3 DEF OneShotOK, ShotOK
  <2>2. OnlyShot(k)'
    BY <1>3, <2>1 DEF OnlyShot
  <2>3. arm => s = "at" /\ ~past
    BY <1>3 DEF Accepts
  <2>4. \A j \in Nodes : Pending(j, k)' =>
          \/ arm /\ j = node'[k] /\ nst'[j] = "live" /\ once'[j]
          \/ ~arm /\ past /\ Pending(j, k) /\ once'[j]
    BY <1>1, <2>1, <2>3 DEF OneNode, IsOneShot
  <2>5. OneNode(k)'
    BY <2>1, <2>4 DEF OneNode, Pending
  <2>6. OneFire(k)'
    BY <2>1, <2>3, <2>4 DEF OneFire
  <2> QED
    BY <2>2, <2>5, <2>6
<1> QED
  BY <1>2, <1>3 DEF OneShotOK, ShotOK

LEMMA OneShotStep ==
  ASSUME Inv, OneShotOK, [Next]_vars
  PROVE  OneShotOK'
<1> USE DEF Inv, DataOK, WiringOK
<1>1. ASSUME NEW k \in Keys, NEW s \in Kinds, RegisterRefused(k, s)
      PROVE  OneShotOK'
  BY <1>1 DEF RegisterRefused, Request, registry, disk, wheel, OneShotOK,
     ShotOK, OnlyShot, OneNode, OneFire, Pending
<1>2. ASSUME NEW k \in Keys, NEW s \in Kinds, NEW on \in BOOLEAN,
             Register(k, s, on)
      PROVE  OneShotOK'
  <2> DEFINE arm == on /\ s # "none"
  <2>1. /\ Rewire(k, s, arm) /\ (arm => Accepts(s))
        /\ UNCHANGED <<past, fires, runs>>
        /\ entries' = entries \cup {k}
        /\ sched' = [sched EXCEPT ![k] = s]
        /\ onlyAt' = [onlyAt EXCEPT ![k] = @ /\ s = "at"]
        /\ \/ dEntries' = entries' /\ dSched' = sched'
           \/ UNCHANGED <<dEntries, dSched>>
    BY <1>2 DEF Register, Request, SaveAndAnswer, SaveOk, SaveFails,
       SavedEntries, disk
  <2>2. arm \in BOOLEAN
    OBVIOUS
  <2> HIDE DEF arm
  <2>3. /\ onlyAt'[k] => onlyAt[k] /\ s = "at"
        /\ sched'[k] = s
        /\ \A l \in Keys \ {k} : /\ onlyAt'[l] = onlyAt[l]
                                 /\ l \in entries' <=> l \in entries
                                 /\ sched'[l] = sched[l]
    BY <2>1
  <2> QED
    BY <2>1, <2>2, <2>3, RequestShot
<1>3. ASSUME NEW k \in Keys, Unregister(k) PROVE OneShotOK'
  <2>1. /\ Rewire(k, "none", FALSE) /\ "none" \in Kinds
        /\ UNCHANGED <<past, fires, runs, sched, onlyAt>>
        /\ entries' = entries \ {k}
        /\ \/ dEntries' = entries' /\ dSched' = sched'
           \/ UNCHANGED <<dEntries, dSched>>
    BY <1>3 DEF Unregister, Request, SaveAndAnswer, SaveOk, SaveFails,
       SavedEntries, disk, Kinds
  <2> QED
    BY <2>1, RequestShot
<1>4. ASSUME NEW k \in Keys, NEW on \in BOOLEAN, SetEnabled(k, on)
      PROVE  OneShotOK'
  <2> DEFINE arm == on /\ (~on \/ Accepts(sched[k]))
  <2>1. /\ Rewire(k, sched[k], arm) /\ (arm => Accepts(sched[k]))
        /\ k \in entries /\ sched[k] \in Kinds
        /\ UNCHANGED <<past, fires, runs, entries, sched, onlyAt>>
        /\ \/ dEntries' = entries' /\ dSched' = sched'
           \/ UNCHANGED <<dEntries, dSched>>
    BY <1>4 DEF SetEnabled, Request, SaveAndAnswer, SaveOk, SaveFails,
       SavedEntries, disk
  <2>2. arm \in BOOLEAN
    OBVIOUS
  <2> HIDE DEF arm
  <2>3. onlyAt[k] => sched[k] = "at"
    BY <2>1 DEF OneShotOK, ShotOK, OnlyShot
  <2>4. PICK s \in Kinds : s = sched[k]
    BY <2>1
  <2>5. Rewire(k, s, arm) /\ (arm => Accepts(s))
    BY <2>1, <2>4
  <2> QED
    BY <2>1, <2>2, <2>3, <2>4, <2>5, RequestShot
<1>5. ASSUME NEW k \in Keys, HandleFire(k) PROVE OneShotOK'
  <2>1. /\ fires[k] > 0
        /\ fires' = [fires EXCEPT ![k] = @ - 1]
        /\ runs' = [runs EXCEPT ![k] = Plus(@)] \/ runs' = runs
        /\ UNCHANGED <<past, registry, disk, wheel, onlyAt>>
    BY <1>5 DEF HandleFire
  <2>2. ASSUME NEW l \in Keys, onlyAt[l] PROVE OneFire(l)'
    <3>1. OneFire(l) /\ fires[l] \in Nat /\ runs[l] \in 0..2
      BY <2>2 DEF OneShotOK, ShotOK
    <3>2. CASE l = k
      <4>1. fires[k] = 1 /\ runs[k] = 0
        BY <2>1, <3>1, <3>2 DEF OneFire
      <4>2. fires'[k] = 0 /\ runs'[k] \in {0, 1}
        BY <2>1, <4>1 DEF Plus
      <4> QED
        BY <2>1, <3>1, <3>2, <4>1, <4>2 DEF OneFire, Pending, wheel
    <3>3. CASE l # k
      BY <2>1, <3>1, <3>3 DEF OneFire, Pending, wheel
    <3> QED
      BY <3>2, <3>3
  <2> QED
    BY <2>1, <2>2 DEF registry, disk, wheel, OneShotOK, ShotOK, OnlyShot,
       OneNode, Pending
<1>6. ASSUME NEW i \in Nodes, NodeFires(i) \/ LateFire(i) PROVE OneShotOK'
  <2>1. /\ UNCHANGED <<past, registry, disk, nkey, once, counts>>
        /\ fires' = [fires EXCEPT ![nkey[i]] = @ + 1]
        /\ Pending(i, nkey[i]) /\ (nst[i] = "live" /\ once[i] => past)
        /\ nst'[i] # "stopped"
        /\ nst'[i] = "live" => ~once[i]
        /\ \A j \in Nodes \ {i} : nst'[j] = nst[j]
    BY <1>6 DEF NodeFires, LateFire, Pending
  <2>2. ASSUME NEW l \in Keys, onlyAt[l] PROVE OneNode(l)' /\ OneFire(l)'
    <3>1. /\ OneNode(l) /\ OneFire(l) /\ fires[l] \in Nat
          /\ fires'[l] = IF l = nkey[i] THEN fires[l] + 1 ELSE fires[l]
          /\ runs' = runs /\ past' = past
      BY <2>1, <2>2 DEF OneShotOK, ShotOK, counts
    <3>2. \A j \in Nodes : Pending(j, l)' =>
            /\ Pending(j, l) /\ once'[j] = once[j]
            /\ nst'[j] = "stopped" => nst[j] = "stopped"
      BY <2>1 DEF Pending
    <3>3. OneNode(l)'
      BY <3>1, <3>2 DEF OneNode
    <3>4. CASE l # nkey[i]
      <4>1. fires'[l] = fires[l] /\ runs'[l] = runs[l] /\ past' = past
        BY <3>1, <3>4
      <4>2. CASE fires[l] = 0 /\ runs[l] = 0
        BY <3>3, <4>1, <4>2 DEF OneFire
      <4>3. CASE /\ fires[l] + runs[l] = 1 /\ past
                 /\ \A j \in Nodes : ~Pending(j, l)
        <5>1. \A j \in Nodes : ~Pending(j, l)'
          BY <3>2, <4>3
        <5>2. fires'[l] + runs'[l] = 1 /\ past'
          BY <4>1, <4>3
        <5> QED
          BY <3>3, <5>1, <5>2 DEF OneFire
      <4> QED
        BY <3>1, <4>2, <4>3 DEF OneFire
    <3>5. CASE l = nkey[i]
      <4>1. fires[l] = 0 /\ runs[l] = 0 /\ once[i] /\ past
        BY <2>1, <3>1, <3>5 DEF OneFire, OneNode, Pending
      <4>2. \A j \in Nodes : ~Pending(j, l)'
        BY <2>1, <3>1, <3>2, <3>5, <4>1 DEF OneNode, Pending
      <4>3. fires'[l] + runs'[l] = 1 /\ past'
        BY <3>1, <3>5, <4>1
      <4> QED
        BY <3>3, <4>2, <4>3 DEF OneFire
    <3> QED
      BY <3>3, <3>4, <3>5
  <2> QED
    BY <2>1, <2>2 DEF registry, disk, counts, OneShotOK, ShotOK, OnlyShot
<1>7. CASE TimePasses
  BY <1>7 DEF TimePasses, registry, disk, wheel, counts, OneShotOK, ShotOK,
     OnlyShot, OneNode, OneFire, Pending
<1>8. CASE Crash \/ OrderlyStop
  <2>1. /\ entries' = {}
        /\ nst' = [i \in Nodes |-> "free"]
        /\ fires' = [k \in Keys |-> 0]
        /\ UNCHANGED <<past, counts>>
        /\ \/ UNCHANGED disk
           \/ dEntries' = entries /\ dSched' = sched
    BY <1>8 DEF Crash, OrderlyStop, Lost, SaveFails
  <2>2. \A i \in Nodes, k \in Keys : ~Pending(i, k)'
    BY <2>1 DEF Pending
  <2>3. ASSUME NEW k \in Keys, onlyAt[k]
        PROVE  OnlyShot(k)' /\ OneNode(k)' /\ OneFire(k)'
    <3>1. OnlyShot(k) /\ OneFire(k) /\ runs' = runs /\ fires'[k] = 0
          /\ runs[k] \in 0..2 /\ fires[k] \in Nat
      BY <2>1, <2>3 DEF OneShotOK, ShotOK, counts
    <3>2. OnlyShot(k)'
      BY <2>1, <3>1 DEF OnlyShot, disk
    <3>3. OneFire(k)'
      BY <2>1, <2>2, <3>1 DEF OneFire
    <3> QED
      BY <2>2, <3>2, <3>3 DEF OneNode
  <2> QED
    BY <2>1, <2>3 DEF OneShotOK, ShotOK, counts
<1>9. CASE Restart
  <2>1. PICK f \in [Rearmed -> Nodes] :
          /\ \A k, l \in Rearmed : f[k] = f[l] => k = l
          /\ nst' = [i \in Nodes |->
                       IF \E k \in Rearmed : f[k] = i THEN "live" ELSE "free"]
          /\ nkey' = [i \in Nodes |->
                        IF \E k \in Rearmed : f[k] = i
                        THEN CHOOSE k \in Rearmed : f[k] = i ELSE NoKey]
          /\ once' = [i \in Nodes |->
                        \E k \in Rearmed : f[k] = i /\ IsOneShot(dSched[k])]
    BY <1>9 DEF Restart
  <2>2. entries' = dEntries /\ sched' = dSched
        /\ UNCHANGED <<past, disk, fires, counts>>
    BY <1>9 DEF Restart
  <2>3. \A i \in Nodes, k \in Keys : Pending(i, k)' =>
          k \in Rearmed /\ f[k] = i /\ nst'[i] = "live"
    BY <2>1 DEF Pending
  <2>4. ASSUME NEW k \in Keys, onlyAt[k]
        PROVE  OnlyShot(k)' /\ OneNode(k)' /\ OneFire(k)'
    <3>1. OnlyShot(k) /\ OneFire(k) /\ fires' = fires /\ runs' = runs
      BY <2>2, <2>4 DEF OneShotOK, ShotOK, counts
    <3>2. k \in Rearmed => dSched[k] = "at" /\ ~past
      BY <3>1 DEF Rearmed, OnlyShot, Accepts
    <3>3. OnlyShot(k)'
      BY <2>2, <3>1 DEF OnlyShot, disk
    <3>4. OneNode(k)'
      BY <2>1, <2>3, <3>2 DEF OneNode, IsOneShot
    <3>5. OneFire(k)'
      BY <2>2, <2>3, <3>1, <3>2 DEF OneFire
    <3> QED
      BY <3>3, <3>4, <3>5
  <2> QED
    BY <2>2, <2>4 DEF OneShotOK, ShotOK, counts
<1>10. CASE RestartUnloaded
  BY <1>10 DEF RestartUnloaded, registry, disk, wheel, OneShotOK, ShotOK,
     OnlyShot, OneNode, OneFire, Pending
<1>11. CASE UNCHANGED vars
  BY <1>11 DEF vars, registry, disk, wheel, counts, OneShotOK, ShotOK, OnlyShot,
     OneNode, OneFire, Pending
<1> QED
  BY <1>1, <1>2, <1>3, <1>4, <1>5, <1>6, <1>7, <1>8, <1>9, <1>10, <1>11 DEF Next

(* A card that only ever had one-shot schedules is executed at most once,  *)
(* however it is enabled, disabled and replaced around its instant and     *)
(* whatever crashes and restarts there are.                                *)
THEOREM OneShotRunsOnce == Spec => []AtMostOnce
<1>1. Init => OneShotOK
  BY DEF Init, OneShotOK, ShotOK, OnlyShot, OneNode, OneFire, Pending
<1>2. Inv /\ OneShotOK /\ [Next]_vars => OneShotOK'
  BY OneShotStep
<1>3. Inv /\ OneShotOK => AtMostOnce
  BY DEF Inv, DataOK, OneShotOK, ShotOK, OneFire, AtMostOnce
<1> QED
  BY InvInit, InvStep, <1>1, <1>2, <1>3, PTL DEF Spec
=============================================================================
