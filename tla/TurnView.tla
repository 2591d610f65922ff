------------------------------ MODULE TurnView ------------------------------
(***************************************************************************)
(* What the web client knows of an agent's turns: the timeline of          *)
(* src/web/src/ui/ai/hooks (agent-session.ts, event-layer.ts,              *)
(* summary-reconciler.ts, timeline-manager.ts, projection.ts).             *)
(*                                                                         *)
(* Two event streams (steps and turns) and session summaries tell the      *)
(* client the same story. The streams are forward only: what is emitted    *)
(* while nobody listens is lost. A summary is a request whose answer may   *)
(* be older than the events that arrived meanwhile. The client keeps the   *)
(* lifecycle entries events gave it, the envelopes of the last summary,    *)
(* and decides by revision which of the two it shows.                      *)
(*                                                                         *)
(* "ended" stands for completed, failed, cancelled, abandoned and waiting. *)
(* Of a turn's steps only the one that explains a silence is kept: a tool  *)
(* call or a question to the user. A step event reaches the client when    *)
(* it is emitted; turn events queue up on the wire and in the buffer.      *)
(***************************************************************************)
EXTENDS Integers, FiniteSets, Sequences

CONSTANTS
  Turns,
  Past,        \* turns over before the client loads the session, for good
  NoTurn,
  NoAnswer,
  Rich,        \* turns whose envelopes hold objects (context budget, tasks):
               \* two envelopes of such a turn never compare equal
  Kinds,       \* the kinds of steps that explain a silence
  Rungs,       \* LADDER_DELAYS_MS.length
  MaxProbes,   \* MAX_TOOL_PROBE_CYCLES
  MaxRev,      \* bound: revisions of a turn
  MaxFlights,  \* bound: summary requests not settled
  MaxFaults,   \* bound: losses, dead streams, failed requests
  MaxAsks      \* bound: reselections by the user

ASSUME TurnViewAssumption ==
  /\ NoTurn \notin Turns
  /\ Past \subseteq Turns /\ Rich \subseteq Turns
  /\ Past = {} \/ MaxRev > 0
  /\ Kinds \subseteq {"tool", "ask"}
  /\ {Rungs, MaxProbes, MaxRev, MaxFlights, MaxFaults, MaxAsks} \subseteq Nat

VARIABLES
  \* the agent
  rec,       \* the turn records, changed in place
  due,       \* the turn whose transition is not yet published
  active,    \* ActiveTurn of the published snapshot; it carries no revision
  step,      \* step[t]: "new", "tool", "ask" (open) or "closed"
  \* the wire
  link,      \* the transport is connected
  stepSub,   \* the step stream still delivers
  turnSub,   \* the turn stream still delivers
  turnIn,    \* turn events on the wire and in the client's buffer
  seeds,     \* answers of chat.submit on their way, each naming its turn
  \* AgentSession
  entry,     \* _activeTurnStates; state "none" where absent, rev 0 undefined
  env,       \* _historyEnvelopes, by turn; rev 0 undefined
  reaped,    \* _forceReapedTurns
  swept,     \* _canonicalReconcileRequested
  held,      \* the client's copy of step
  \* the step stream's loop
  probes,    \* consecutiveProbes
  parked,    \* it waits for its reconnect request
  \* SummaryReconciler and the gate before it
  queued,    \* the agent is in reconnectQueue
  flights,   \* requests not settled
  sleeping,  \* rungs the sleeping ladder has left; 0: none sleeps
  fresh,     \* the client has a step newer than the ladder's last summary
  \* bounds
  asks, faults

server == <<rec, due, active, step>>
wire == <<link, stepSub, turnSub, turnIn, seeds>>
session == <<entry, env, reaped, swept, held>>
loop == <<probes, parked>>
reconciler == <<queued, flights, sleeping, fresh>>
bounds == <<asks, faults>>

vars == <<server, wire, session, loop, reconciler, bounds>>

-----------------------------------------------------------------------------
(* Records.                                                                *)

Live == {"running", "paused"}
States == {"none", "ended"} \cup Live
StepStates == {"new", "tool", "ask", "closed"}

Record == [state : States, rev : 0..MaxRev]
Absent == [state |-> "none", rev |-> 0]
NoActive == [turn |-> NoTurn, state |-> "none"]

Summary == [turns : [Turns -> Record],
            active : [turn : Turns \cup {NoTurn}, state : States],
            steps : [Turns -> StepStates]]

\* A request of runFetch: live until a newer one aborts it; gate when it is
\* the critical fetch of a ladder; left counts the rungs after it, -1 for a
\* plain fetch.
Flight == [live : BOOLEAN, gate : BOOLEAN, init : BOOLEAN,
           left : -1..Rungs, got : Summary \cup {NoAnswer}]

Init ==
  /\ rec = [t \in Turns |-> IF t \in Past THEN [state |-> "ended", rev |-> MaxRev]
                                         ELSE Absent]
  /\ due = NoTurn
  /\ active = NoActive
  /\ step = [t \in Turns |-> IF t \in Past THEN "closed" ELSE "new"]
  /\ link = TRUE /\ stepSub = TRUE /\ turnSub = TRUE
  /\ turnIn = <<>>
  /\ seeds = {}
  /\ entry = [t \in Turns |-> Absent]
  /\ env = [t \in Turns |-> Absent]
  /\ reaped = {} /\ swept = {}
  /\ held = [t \in Turns |-> "new"]
  /\ probes = 0 /\ parked = FALSE
  /\ queued = FALSE
  /\ flights = {[live |-> TRUE, gate |-> FALSE, init |-> TRUE, left |-> -1,
                 got |-> NoAnswer]}
  /\ sleeping = 0
  /\ fresh = FALSE
  /\ asks = 0 /\ faults = 0

-----------------------------------------------------------------------------
(* What the client derives.                                                *)

\* Mutant of HistoryWins: an entry always wins over history.
HistoryWinsAlone(t) == entry[t] = Absent

HistoryWins(t) ==
  env[t].rev > 0 /\ (entry[t].rev = 0 \/ env[t].rev > entry[t].rev)

\* The record shown for a turn.
Shown(t) ==
  IF ~HistoryWins(t) /\ entry[t] # Absent THEN entry[t] ELSE env[t]

\* The getter isStreaming.
Streaming ==
  \/ \E t \in Turns : entry[t].state = "running"
  \/ /\ \A t \in Turns : entry[t] = Absent
     /\ \E t \in Turns \ reaped : env[t].state = "running"

ToolHeld == \E t \in Turns : held[t] = "tool"
AskHeld == \E t \in Turns : held[t] = "ask"

GateBusy == \E f \in flights : f.gate

\* A running turn that waits for nothing keeps the step stream busy.
Silent ==
  ~ /\ stepSub
    /\ \E t \in Turns : rec[t].state = "running"
                          /\ step[t] \notin {"tool", "ask"}

Fault == faults < MaxFaults /\ faults' = faults + 1

-----------------------------------------------------------------------------
(* The agent. A transition is written to the shared record, then the       *)
(* snapshot is published and the event emitted. A record of a new turn is  *)
(* seen by nobody before that.                                             *)

Emit(t, r) ==
  turnIn' = IF link /\ turnSub
              THEN Append(turnIn, [turn |-> t, state |-> r.state, rev |-> r.rev])
              ELSE turnIn

Quiescent ==
  due = NoTurn /\ \A t \in Turns : rec[t].state \notin Live

\* A turn begins, for a message of this client or for another reason.
Start(t) ==
  LET r == [state |-> "running", rev |-> 1] IN
  /\ Quiescent
  /\ rec[t].state = "none"
  /\ MaxRev > 0
  /\ rec' = [rec EXCEPT ![t] = r]
  /\ active' = [turn |-> t, state |-> "running"]
  /\ Emit(t, r)
  /\ seeds' \in {seeds} \cup (IF link THEN {seeds \cup {t}} ELSE {})
  /\ UNCHANGED <<due, step, link, stepSub, turnSub, session, loop, reconciler,
                 bounds>>

\* The record of t moves on. A waiting turn may run again.
Commit(t, s) ==
  /\ due = NoTurn
  /\ rec[t].rev \in 1..(MaxRev - 1)
  /\ \/ rec[t].state = "running" /\ s \in {"paused", "ended"}
     \/ rec[t].state = "paused" /\ s \in {"running", "ended"}
     \/ rec[t].state = "ended" /\ s = "running" /\ Quiescent
  /\ s = "ended" => step[t] # "tool"
  /\ rec' = [rec EXCEPT ![t] = [state |-> s, rev |-> @.rev + 1]]
  /\ due' = t
  /\ UNCHANGED <<active, step, wire, session, loop, reconciler, bounds>>

Publish ==
  /\ due # NoTurn
  /\ due' = NoTurn
  /\ active' = IF rec[due].state = "ended" THEN NoActive
               ELSE [turn |-> due, state |-> rec[due].state]
  /\ Emit(due, rec[due])
  /\ UNCHANGED <<rec, step, link, stepSub, turnSub, seeds, session, loop,
                 reconciler, bounds>>

\* A ladder will notice a step that comes now.
Watching == sleeping > 0 \/ \E f \in flights : f.left > 0 /\ f.got # NoAnswer

\* step.opened of a tool call or a question.
OpenStep(t, kind) ==
  /\ due = NoTurn
  /\ rec[t].state = "running"
  /\ step[t] = "new"
  /\ step' = [step EXCEPT ![t] = kind]
  /\ IF link /\ stepSub
       THEN /\ held' = [held EXCEPT ![t] = IF @ = "new" THEN kind ELSE @]
            /\ probes' = 0
            /\ fresh' = Watching
       ELSE UNCHANGED <<held, probes, fresh>>
  /\ UNCHANGED <<rec, due, active, wire, entry, env, reaped, swept, parked,
                 queued, flights, sleeping, bounds>>

CloseStep(t) ==
  /\ step[t] \in {"tool", "ask"}
  /\ step' = [step EXCEPT ![t] = "closed"]
  /\ IF link /\ stepSub
       THEN /\ held' = [held EXCEPT ![t] = IF @ = "new" THEN @ ELSE "closed"]
            /\ probes' = 0
       ELSE UNCHANGED <<held, probes>>
  /\ UNCHANGED <<rec, due, active, wire, entry, env, reaped, swept, parked,
                 reconciler, bounds>>

-----------------------------------------------------------------------------
(* Summary requests.                                                       *)

\* runFetch aborts the request before, which is kept while something hangs on
\* it: the gate, or an answer on its way.
Superseded ==
  {[f EXCEPT !.live = FALSE, !.left = -1] :
     f \in {g \in flights : g.gate \/ g.got # NoAnswer}}

Fetch(gate, left) ==
  /\ Cardinality(flights) < MaxFlights
  /\ flights' = Superseded \cup
       {[live |-> TRUE, gate |-> gate, init |-> FALSE, left |-> left,
         got |-> NoAnswer]}

\* requestReconnectLadder: covered by a running ladder, merged with a queued
\* request, or queued.
RequestLadder == queued' = (queued \/ ~GateBusy)

\* Mutant of SleepCut: the ladder before goes on sleeping.
SleepCutNot == sleeping

\* A new ladder ends the sleep of the one before (ladderGeneration).
SleepCut == 0

\* pumpReconnect, once the agents before it have left the gate.
GateStart ==
  /\ queued
  /\ queued' = FALSE
  /\ Fetch(TRUE, Rungs)
  /\ sleeping' = SleepCut
  /\ fresh' = FALSE
  /\ UNCHANGED <<server, wire, session, loop, bounds>>

\* The pure handler session.summary: the records are the live ones, the
\* active turn is the snapshot's. What an aborted request is answered is
\* never looked at.
Answer(f) ==
  /\ link
  /\ f.live
  /\ f.got = NoAnswer
  /\ flights' = (flights \ {f}) \cup
       {[f EXCEPT !.got = [turns |-> rec, active |-> active, steps |-> step]]}
  /\ fresh' = (fresh /\ f.left < 0)
  /\ UNCHANGED <<server, wire, session, loop, queued, sleeping, bounds>>

\* Mutant of Unparked: an aborted request never resolves its awaiter.
UnparkedLive(f) == parked /\ ~(f.gate /\ f.live)

\* The awaiter of a ladder goes on when its critical fetch settles.
Unparked(f) == parked /\ ~f.gate

Settle(f) ==
  /\ flights' = flights \ {f}
  /\ parked' = Unparked(f)

\* An aborted request settles without effect, answered or not.
Discard(f) ==
  /\ ~f.live
  /\ Settle(f)
  /\ UNCHANGED <<server, wire, session, probes, queued, sleeping, fresh,
                 bounds>>

\* The request fails for good; a ladder stops with it.
GiveUp(f) ==
  /\ f.live
  /\ Fault
  /\ Settle(f)
  /\ UNCHANGED <<server, wire, session, probes, queued, sleeping, fresh,
                 asks>>

-----------------------------------------------------------------------------
(* Applying a summary.                                                     *)

\* Mutant of Envelopes: the active turn replaces a record that ended, too.
EnvelopesStale(s, init) ==
  [t \in Turns |->
    IF s.active.turn = t THEN [state |-> s.active.state, rev |-> 0]
    ELSE s.turns[t]]

\* The active turn's envelope replaces that of its record, except where the
\* record has ended; the first load leaves that test out.
Envelopes(s, init) ==
  [t \in Turns |->
    IF s.active.turn = t /\ (init \/ s.turns[t].state # "ended")
      THEN [state |-> s.active.state, rev |-> 0]
      ELSE s.turns[t]]

\* Envelopes that render alike. Revisions are not compared; completedAt tells
\* two ends of a turn apart.
Alike(a, b) == a.state = b.state /\ (a.state = "ended" => a.rev = b.rev)

\* Mutant of SameHistory: envelopes with objects are compared by content.
SameHistoryDeep(a, b) == \A t \in Turns : Alike(a[t], b[t])

\* sameHistoryEnvelopes. Objects are compared by reference.
SameHistory(a, b) ==
  \A t \in Turns : Alike(a[t], b[t]) /\ (a[t] # Absent => t \notin Rich)

\* A summary's record r is older than the entry e.
Outdated(e, r) == e.rev > 0 /\ r.rev > 0 /\ r.rev < e.rev

\* Mutant of Skipped: a reaped turn is taken up again.
SkippedNew(t, envs) == envs[t] = Absent

Skipped(t, envs) == envs[t] = Absent \/ t \in reaped

\* reconcileActiveTurnStatesFromHistory.
Reconciled(envs) ==
  [t \in Turns |->
    LET e == entry[t]
        r == envs[t]
    IN IF Skipped(t, envs) \/ Outdated(e, r) THEN e
       ELSE IF r.state = "ended" THEN Absent
       ELSE [state |-> r.state, rev |-> IF r.rev > 0 THEN r.rev ELSE e.rev]]

\* mergeSteps: a closed copy wins, an unknown step is taken.
Merged(h, s) ==
  IF "closed" \in {h, s} THEN "closed" ELSE IF h = "new" THEN s ELSE h

\* The steps after a summary s: the active turn's may be replaced by the
\* server's before the merge; those of ended turns are closed, but not by the
\* first load.
HeldAfter(s, init, replace) ==
  [t \in Turns |->
    LET h == IF replace /\ s.active.turn = t /\ s.steps[t] # "new"
               THEN s.steps[t] ELSE Merged(held[t], s.steps[t])
    IN IF h # "new" /\ ~init /\ s.turns[t].state = "ended" THEN "closed" ELSE h]

\* applyInitSummary or applySummaryToState.
ApplySummary(s, init) ==
  LET envs == Envelopes(s, init)
      skip == ~init /\ SameHistory(env, envs)
  IN /\ env' = IF skip THEN env ELSE envs
     /\ entry' = IF skip THEN entry ELSE Reconciled(envs)
     /\ \E replace \in (IF init THEN {FALSE} ELSE BOOLEAN) :
          held' = HeldAfter(s, init, replace)
     /\ UNCHANGED <<reaped, swept>>

\* Mutant of Current: the answer of an aborted request is applied.
CurrentAny(f) == TRUE

\* The guards on ctrl.signal and seq before onApply.
Current(f) == f.live

NewStep == \E t \in Turns : held[t] = "new" /\ held'[t] # "new"

\* Still running: the ladder goes on (isSummaryConverged).
Converged(s) == s.active.state # "running"

\* Mutant of SleepAfter: a plain fetch starts a ladder, too.
SleepAfterAny(f) == IF Converged(f.got) THEN 0 ELSE f.left

\* The rungs a ladder goes to sleep with; a plain fetch leaves it alone.
SleepAfter(f) ==
  IF f.left < 0 THEN sleeping ELSE IF Converged(f.got) THEN 0 ELSE f.left

Deliver(f) ==
  /\ link
  /\ f.got # NoAnswer
  /\ Current(f)
  /\ ApplySummary(f.got, f.init)
  /\ Settle(f)
  /\ sleeping' = SleepAfter(f)
  /\ fresh' = IF f.left < 0 THEN fresh \/ (sleeping > 0 /\ NewStep)
              ELSE fresh /\ sleeping' > 0
  /\ UNCHANGED <<server, wire, probes, queued, bounds>>

\* The ladder wakes for its next fetch.
Rung ==
  /\ sleeping > 0
  /\ ~fresh
  /\ Fetch(FALSE, sleeping - 1)
  /\ sleeping' = 0
  /\ UNCHANGED <<server, wire, session, loop, queued, fresh, bounds>>

\* A step came meanwhile: the stream is taken for healthy, the ladder stops.
LadderQuits ==
  /\ sleeping > 0
  /\ fresh
  /\ sleeping' = 0
  /\ fresh' = FALSE
  /\ UNCHANGED <<server, wire, session, loop, queued, flights, bounds>>

PlainFetch ==
  /\ Fetch(FALSE, -1)
  /\ UNCHANGED <<queued, sleeping, fresh>>

\* select on a timeline already tracked.
Reselect ==
  /\ asks < MaxAsks
  /\ asks' = asks + 1
  /\ PlainFetch
  /\ UNCHANGED <<server, wire, session, loop, faults>>

\* _reconcileMissingTerminalTurns: steps all closed, no canonical state.
Sweep(t) ==
  /\ held[t] = "closed"
  /\ entry[t] = Absent
  /\ t \notin reaped \cup swept
  /\ swept' = swept \cup {t}
  /\ IF env[t].rev > 0 THEN UNCHANGED reconciler ELSE PlainFetch
  /\ UNCHANGED <<server, wire, entry, env, reaped, held, loop, bounds>>

-----------------------------------------------------------------------------
(* Events.                                                                 *)

\* Mutant of Newer: events are taken in the order they come.
NewerAny(r, e) == TRUE

\* shouldApplyLifecycleEvent.
Newer(r, e) == e.rev = 0 \/ r > e.rev

\* applyTurnEvent of a lifecycle event.
TurnEvent ==
  /\ turnIn # <<>>
  /\ LET ev == Head(turnIn)
         t == ev.turn
     IN IF Newer(ev.rev, entry[t])
        THEN /\ entry' = [entry EXCEPT ![t] = [state |-> ev.state, rev |-> ev.rev]]
             /\ reaped' = reaped \ {t}
             /\ IF ev.state = "ended"
                  THEN /\ swept' = swept \ {t}
                       /\ held' = [held EXCEPT ![t] =
                                     IF @ = "tool" THEN "closed" ELSE @]
                  ELSE UNCHANGED <<swept, held>>
        ELSE UNCHANGED <<entry, reaped, swept, held>>
  /\ turnIn' = Tail(turnIn)
  /\ UNCHANGED <<server, link, stepSub, turnSub, seeds, env, loop, reconciler,
                 bounds>>

Seeded(t) == entry[t] = Absent /\ t \notin reaped

\* The answer of chat.submit: seedActiveTurn, then reconcile.
Seed(t) ==
  /\ t \in seeds
  /\ seeds' = seeds \ {t}
  /\ entry' = IF Seeded(t)
                THEN [entry EXCEPT ![t] = [state |-> "running", rev |-> 0]]
                ELSE entry
  /\ PlainFetch
  /\ UNCHANGED <<server, link, stepSub, turnSub, turnIn, env, reaped, swept,
                 held, loop, bounds>>

-----------------------------------------------------------------------------
(* The step stream's watchdog: armed while the client shows a running turn *)
(* and its loop is not waiting for a reconnect. It goes off when no step   *)
(* event came for STREAM_SILENCE_TIMEOUT_MS.                               *)

\* Mutant of Armed: a race parked while idle is not woken by a seed.
ArmedByEvents == ~parked /\ \E t \in Turns : entry[t].state = "running"
                                              /\ entry[t].rev > 0

Armed == ~parked /\ Streaming

WatchdogFires == link /\ Armed /\ Silent

\* Resubscribe, then ask for a ladder and wait for its critical fetch.
StepReconnect ==
  /\ stepSub' = TRUE
  /\ probes' = 0
  /\ RequestLadder
  /\ parked' = (queued \/ ~GateBusy)
  /\ UNCHANGED <<flights, sleeping, fresh>>

WatchdogReconnects ==
  /\ WatchdogFires
  /\ ~ToolHeld /\ ~AskHeld
  /\ StepReconnect
  /\ UNCHANGED <<server, link, turnSub, turnIn, seeds, session, bounds>>

\* The silence may be legitimate and agent_status does not answer in time.
ProbeFails ==
  /\ WatchdogFires
  /\ AskHeld \/ (ToolHeld /\ probes < MaxProbes)
  /\ Fault
  /\ StepReconnect
  /\ UNCHANGED <<server, link, turnSub, turnIn, seeds, session, asks>>

\* It answers: the silence of a tool is counted, that of a question is not.
ProbeAnswers ==
  /\ WatchdogFires
  /\ ToolHeld /\ ~AskHeld
  /\ probes < MaxProbes
  /\ probes' = probes + 1
  /\ UNCHANGED <<server, wire, session, parked, reconciler, bounds>>

\* Turns a reap at a threshold takes down: open steps without a question, or
\* no step at all and started long ago.
Reapable(t) == held[t] \in {"new", "tool"} /\ entry[t].state = "running"

\* The turns in S lose their entry; steps left open in those of C are closed.
Reap(S, C) ==
  /\ entry' = [t \in Turns |-> IF t \in S THEN Absent ELSE entry[t]]
  /\ reaped' = reaped \cup S
  /\ held' = [t \in Turns |-> IF t \in C /\ held[t] = "tool" THEN "closed"
                              ELSE held[t]]

\* The probe budget is spent: reapStuckTurns, then reconnect.
ProbesExhausted ==
  /\ WatchdogFires
  /\ ToolHeld /\ ~AskHeld
  /\ probes = MaxProbes
  /\ \E S \in SUBSET {t \in Turns : Reapable(t)} :
       /\ {t \in Turns : Reapable(t) /\ held[t] = "tool"} \subseteq S
       /\ Reap(S, Turns)
  /\ StepReconnect
  /\ UNCHANGED <<server, link, turnSub, turnIn, seeds, env, swept, bounds>>

\* reapStaleOpenSteps, the coarse timer, on a turn silent for five minutes: a
\* step left open is closed whether or not an entry says the turn runs.
CoarseReap(t) ==
  /\ link => Silent
  /\ Reapable(t) \/ held[t] = "tool"
  /\ Reap({t} \cap {u \in Turns : Reapable(u)}, {t})
  /\ UNCHANGED <<server, wire, env, swept, loop, reconciler, bounds>>

-----------------------------------------------------------------------------
(* The transport.                                                          *)

LoseTail == \E n \in 0..Len(turnIn) : turnIn' = SubSeq(turnIn, 1, n)

\* The connection goes: what is on it is lost, requests are tried again.
Drop ==
  /\ link
  /\ Fault
  /\ link' = FALSE
  /\ LoseTail
  /\ seeds' = {}
  /\ flights' = {[f EXCEPT !.got = NoAnswer] : f \in flights}
  /\ UNCHANGED <<server, stepSub, turnSub, session, loop, queued, sleeping,
                 fresh, asks>>

\* It comes back: subscriptions are resumed, every tracked timeline asks for
\* a ladder (registerTransportReconnectHook).
Reconnect ==
  /\ ~link
  /\ link' = TRUE /\ stepSub' = TRUE /\ turnSub' = TRUE
  /\ RequestLadder
  /\ UNCHANGED <<server, turnIn, seeds, session, loop, flights, sleeping, fresh,
                 bounds>>

\* The turn stream ends and is subscribed again, or goes silent for good:
\* neither asks for a summary.
TurnStreamDies ==
  /\ link /\ turnSub
  /\ Fault
  /\ turnSub' \in BOOLEAN
  /\ LoseTail
  /\ UNCHANGED <<server, link, stepSub, seeds, session, loop, reconciler,
                 asks>>

\* The step stream goes silent.
StepStreamDies ==
  /\ link /\ stepSub
  /\ Fault
  /\ stepSub' = FALSE
  /\ UNCHANGED <<server, link, turnSub, turnIn, seeds, session, loop, reconciler,
                 asks>>

\* The step stream ends and its loop notices.
StepStreamEnds ==
  /\ link /\ ~parked
  /\ Fault
  /\ StepReconnect
  /\ UNCHANGED <<server, link, turnSub, turnIn, seeds, session, asks>>

-----------------------------------------------------------------------------
AgentStep ==
  \/ \E t \in Turns :
       \/ Start(t) \/ CloseStep(t)
       \/ \E s \in States : Commit(t, s)
       \/ \E k \in Kinds : OpenStep(t, k)
  \/ Publish

SummaryStep ==
  \/ \E f \in flights : Answer(f) \/ Deliver(f) \/ Discard(f) \/ GiveUp(f)
  \/ GateStart \/ Rung \/ LadderQuits \/ Reselect
  \/ \E t \in Turns : Sweep(t)

LoopStep ==
  \/ WatchdogReconnects \/ ProbeFails \/ ProbeAnswers \/ ProbesExhausted
  \/ \E t \in Turns : CoarseReap(t)

WireStep ==
  \/ TurnEvent
  \/ \E t \in Turns : Seed(t)
  \/ Drop \/ Reconnect \/ TurnStreamDies \/ StepStreamDies \/ StepStreamEnds

Next == AgentStep \/ SummaryStep \/ LoopStep \/ WireStep

Spec == Init /\ [][Next]_vars

\* What the agent has decided it publishes; requests are answered, timers go
\* off, a lost connection comes back. Nothing is assumed of how turns and
\* steps progress, nor of the user.
Fairness ==
  /\ WF_vars(Publish)
  /\ WF_vars(TurnEvent)
  /\ WF_vars(\E f \in flights : Answer(f))
  /\ WF_vars(\E f \in flights : Deliver(f) \/ Discard(f))
  /\ WF_vars(GateStart)
  /\ WF_vars(Rung \/ LadderQuits)
  /\ WF_vars(WatchdogReconnects \/ ProbeAnswers \/ ProbesExhausted)
  /\ WF_vars(Reconnect)

FairSpec == Spec /\ Fairness

-----------------------------------------------------------------------------
(* Properties.                                                             *)

TypeOK ==
  /\ rec \in [Turns -> Record]
  /\ due \in Turns \cup {NoTurn}
  /\ active \in [turn : Turns \cup {NoTurn}, state : States]
  /\ step \in [Turns -> StepStates]
  /\ {link, stepSub, turnSub, parked, queued, fresh} \subseteq BOOLEAN
  /\ turnIn \in Seq([turn : Turns, state : States, rev : 1..MaxRev])
  /\ seeds \subseteq Turns
  /\ entry \in [Turns -> Record]
  /\ env \in [Turns -> Record]
  /\ reaped \subseteq Turns /\ swept \subseteq Turns
  /\ held \in [Turns -> StepStates]
  /\ probes \in 0..MaxProbes
  /\ flights \subseteq Flight
  /\ sleeping \in 0..Rungs
  /\ asks \in 0..MaxAsks /\ faults \in 0..MaxFaults

\* A turn the client gave up for stuck has no entry until a lifecycle event
\* of it arrives: neither a summary nor the answer of a submit that was on
\* its way brings its spinner back.
ReapedStaysOut == \A t \in reaped : entry[t] = Absent

\* One summary request counts at a time, and at most one ladder is at work:
\* the fetch of one and the sleep of another never interleave.
OneLadder ==
  /\ \A f, g \in flights : f.live /\ g.live => f = g
  /\ \A f \in flights : f.live /\ f.left >= 0 => sleeping = 0

\* A loop parked behind its reconnect request has a request to wait for:
\* whoever drops, merges or aborts requests leaves none waiting for nothing.
ParkedIsCovered == parked => queued \/ GateBusy

\* Whatever interleaving of late events and summaries, the lifecycle entry of
\* a turn never falls back to an older revision while it is there.
RevisionNeverFalls ==
  [][\A t \in Turns :
       entry[t].rev > 0 /\ entry'[t] # Absent => entry'[t].rev >= entry[t].rev]_vars

\* Summaries are applied in the order they were captured: the client never
\* lays an older one over a newer one.
NewestAnswerWins ==
  [][\A t \in Turns : env[t]' # env[t] /\ env[t]'.rev > 0
                        => env[t]'.rev >= env[t].rev]_vars

\* The step applies the summary f brought.
Taken(f) ==
  f.live /\ f.got # NoAnswer /\ flights' = flights \ {f} /\ faults' = faults

\* A turn shown as ended is shown as live again only on newer news of it, or
\* because the summary just applied still names it as the active turn: a late
\* event, a late seed, a reap or a retry cannot do it.
OnlyNewsRevives ==
  [][\A t \in Turns :
       Shown(t).state = "ended" /\ Shown(t)'.state \in Live =>
         \/ Shown(t)'.rev > Shown(t).rev
         \/ \E f \in flights : Taken(f) /\ f.got.active.turn = t]_vars

\* Once a summary that says a turn has ended, or is paused, is merged into the
\* timeline, the client neither shows that turn as running nor counts it as
\* streaming, except for an event newer than that summary.
SummarySettles ==
  [][\A f \in flights, t \in Turns :
       /\ Taken(f) /\ ~f.init
       /\ \/ f.got.turns[t].state = "ended"
          \/ f.got.active = [turn |-> t, state |-> "paused"]
       => \/ "running" \notin {Shown(t)'.state, entry'[t].state}
          \/ entry'[t].rev > f.got.turns[t].rev]_vars

Settled == due = NoTurn /\ \A t \in Turns : rec[t].state # "running"

\* When no turn runs any more, the client comes to show none as running:
\* whatever was lost on the wire, a timer of its own makes it ask again. Two
\* exceptions the code makes: a turn it reaped, and a question it still holds
\* open, behind which the watchdog never gives the stream up.
Unpinned ==
  <>[]Settled =>
    \A t \in Turns :
      <>[](Shown(t).state # "running" \/ t \in reaped \/ AskHeld)
=============================================================================
