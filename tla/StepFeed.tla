------------------------------ MODULE StepFeed ------------------------------
(***************************************************************************)
(* The text of a running turn's steps on its way to the web client: the    *)
(* engine of src/pkg/actor/agent (turn_engine.go, agent.go,                *)
(* agent_session.go) and src/web/src/ui/ai/hooks (step-reducer.ts,         *)
(* agent-session.ts, event-layer.ts, projection.ts).                       *)
(*                                                                         *)
(* Events are numbered per turn (EventSeq). The engine emits them into a   *)
(* buffer, then flushes them into the agent's steps and onto the stream. A *)
(* summary carries the steps of the last snapshot, the number emitted so   *)
(* far and the events of open steps, which the client replays. The client  *)
(* drops an event at or below the watermark it keeps for the step.         *)
(*                                                                         *)
(* A chunk of text is the EventSeq of the delta that brought it. Left out: *)
(* blocks other than the text, discarded steps, interactions, the numbers  *)
(* starting anew when a paused turn is resumed.                            *)
(***************************************************************************)
EXTENDS Integers, SequencesExt

CONSTANTS
  Steps,      \* the turn's steps
  NoFetch,
  NoAnswer,
  MaxSeq,     \* bound: events of the turn
  MaxLag,     \* bound: events emitted and not flushed
  MaxAsks,    \* bound: summary requests
  MaxFaults   \* bound: losses

ASSUME StepFeedAssumption ==
  {MaxSeq, MaxLag, MaxAsks, MaxFaults} \subseteq Nat

VARIABLES
  \* the agent
  seq,     \* stepEventSeq
  outbox,  \* stepEvents: emitted, not flushed
  opened,  \* openStepEvents: the events of steps not closed
  steps,   \* the agent's steps
  over,    \* the turn has ended
  snap,    \* the published snapshot
  \* the wire
  sub,     \* the step stream delivers
  wire,    \* events on the wire and in the client's buffer
  \* the client
  view,    \* _steps, seqTracking and pendingStepEvents
  fetch,   \* the summary request that counts
  parked,  \* the stream's loop waits for a reconnect request
  \* bounds
  asks, faults

agent == <<seq, outbox, opened, steps, over, snap>>
client == <<view, fetch, parked>>

vars == <<agent, sub, wire, client, asks, faults>>

-----------------------------------------------------------------------------
Event == [kind : {"opened", "delta", "reset", "closed"}, step : Steps,
          seq : 1..MaxSeq]

Step == [state : {"none", "open", "closed"}, text : Seq(1..MaxSeq)]
NoStep == [state |-> "none", text |-> <<>>]
NoSteps == [s \in Steps |-> NoStep]

StepMap == [Steps -> Step]
Snap == [steps : StepMap, seq : 0..MaxSeq, opened : SUBSET Event, live : BOOLEAN]
View == [steps : StepMap, mark : [Steps -> 0..MaxSeq], pend : [Steps -> Seq(Event)]]
Fetch == [init : BOOLEAN, gate : BOOLEAN, known : BOOLEAN, got : Snap \cup {NoAnswer}]

ASSUME NoFetchAssumption == NoFetch \notin Fetch

Init ==
  /\ seq = 0 /\ outbox = <<>> /\ opened = {}
  /\ steps = NoSteps
  /\ over = FALSE
  /\ snap = [steps |-> NoSteps, seq |-> 0, opened |-> {}, live |-> TRUE]
  /\ sub = TRUE /\ wire = <<>>
  /\ view = [steps |-> NoSteps, mark |-> [s \in Steps |-> 0],
             pend |-> [s \in Steps |-> <<>>]]
  /\ fetch = [init |-> TRUE, gate |-> FALSE, known |-> FALSE, got |-> NoAnswer]
  /\ parked = FALSE
  /\ asks = 0 /\ faults = 0

Fault == faults < MaxFaults /\ faults' = faults + 1

-----------------------------------------------------------------------------
(* What an event does to a step: the agent's applyStepEvent and the        *)
(* client's reducer agree on it.                                           *)

Reduced(x, e) ==
  CASE e.kind = "opened" -> IF x = NoStep THEN [x EXCEPT !.state = "open"] ELSE x
    [] x.state = "none"  -> x
    [] e.kind = "delta"  -> [x EXCEPT !.text = Append(@, e.seq)]
    [] e.kind = "reset"  -> [x EXCEPT !.text = <<>>]
    [] e.kind = "closed" -> [x EXCEPT !.state = "closed"]

OnStep(all, e) == [all EXCEPT ![e.step] = Reduced(@, e)]
OnSteps(all, es) == FoldLeft(OnStep, all, es)

\* Events the reducer applies once only.
Numbered(e) == e.kind \in {"delta", "reset"}

\* shouldSkipEvent.
Seen(v, e) == Numbered(e) /\ e.seq <= v.mark[e.step]

\* stepReducerBatch, one event.
Reduce(v, e) ==
  IF Seen(v, e) THEN v
  ELSE [v EXCEPT !.steps = OnStep(@, e),
                 !.mark[e.step] = IF Numbered(e) THEN e.seq ELSE @]
ReduceAll(v, es) == FoldLeft(Reduce, v, es)

\* applyStepEvents, one event: what belongs to an unknown step waits for its
\* step.opened.
Take(v, e) ==
  CASE e.kind = "opened" ->
         [ReduceAll(Reduce(v, e), v.pend[e.step])
            EXCEPT !.pend[e.step] = <<>>]
    [] e.kind # "opened" /\ v.steps[e.step] = NoStep ->
         [v EXCEPT !.pend[e.step] = Append(@, e)]
    [] OTHER -> Reduce(v, e)

\* The events of a set, in the order of their numbers.
TakeThose(v, es) == IF es = {} THEN v ELSE Take(v, CHOOSE e \in es : TRUE)
Replay(v, es) ==
  FoldLeft(TakeThose, v, [n \in 1..MaxSeq |-> {e \in es : e.seq = n}])

-----------------------------------------------------------------------------
(* The agent.                                                              *)

\* The steps as the engine knows them.
Made == OnSteps(steps, outbox)

\* emitStepEvent and trackOpenStepEvent.
Emit(kind, s) ==
  /\ ~over
  /\ seq < MaxSeq /\ Len(outbox) < MaxLag
  /\ IF kind = "opened" THEN Made[s].state = "none" ELSE Made[s].state = "open"
  /\ kind = "reset" => Made[s].text # <<>>
  /\ seq' = seq + 1
  /\ LET e == [kind |-> kind, step |-> s, seq |-> seq + 1] IN
     /\ outbox' = Append(outbox, e)
     /\ opened' = IF kind = "closed" THEN {o \in opened : o.step # s}
                                     ELSE opened \cup {e}
  /\ UNCHANGED <<steps, over, snap, sub, wire, client, asks, faults>>

Snapshot(all, live) ==
  [steps |-> all, seq |-> IF live THEN seq ELSE 0,
   opened |-> IF live THEN opened ELSE {}, live |-> live]

\* flushEvents; the snapshot after it is rate-limited.
Flush ==
  /\ outbox # <<>>
  /\ outbox' = <<>>
  /\ steps' = Made
  /\ wire' = IF sub THEN wire \o outbox ELSE wire
  /\ snap' \in {snap, Snapshot(Made, TRUE)}
  /\ UNCHANGED <<seq, opened, over, sub, client, asks, faults>>

\* takeSnapshot from elsewhere: events emitted may not be flushed yet.
TakeSnapshot ==
  /\ ~over
  /\ snap' = Snapshot(steps, TRUE)
  /\ snap' # snap
  /\ UNCHANGED <<seq, outbox, opened, steps, over, sub, wire, client, asks,
                 faults>>

\* The turn ends, all flushed. A cancel that did not wait for the engine
\* leaves steps open.
End ==
  /\ ~over
  /\ outbox = <<>>
  /\ over' = TRUE
  /\ snap' = Snapshot(steps, FALSE)
  /\ UNCHANGED <<seq, outbox, opened, steps, sub, wire, client, asks, faults>>

-----------------------------------------------------------------------------
(* The stream.                                                             *)

\* The loop applies what it has received.
Receive ==
  /\ ~parked
  /\ wire # <<>>
  /\ view' = Take(view, Head(wire))
  /\ wire' = Tail(wire)
  /\ UNCHANGED <<agent, sub, fetch, parked, asks, faults>>

\* The stream dies; the last events on it may go with it.
Die ==
  /\ sub
  /\ Fault
  /\ sub' = FALSE
  /\ \E n \in 0..Len(wire) : wire' = SubSeq(wire, 1, n)
  /\ UNCHANGED <<agent, client, asks>>

\* A summary request; the one before no longer counts. KnownStepEventSeqs
\* names the steps the client holds.
Ask(gate) ==
  fetch' = [init |-> FALSE, gate |-> gate,
            known |-> \E s \in Steps : view.steps[s] # NoStep,
            got |-> NoAnswer]

\* The loop has noticed, resubscribes and waits for a summary.
Resubscribe ==
  /\ ~sub /\ ~parked
  /\ wire = <<>>
  /\ sub' = TRUE
  /\ parked' = TRUE
  /\ Ask(TRUE)
  /\ UNCHANGED <<agent, wire, view, asks, faults>>

\* The transport resumes the stream under the loop, and asks for a summary.
TransportBack ==
  /\ ~sub
  /\ sub' = TRUE
  /\ Ask(FALSE)
  /\ UNCHANGED <<agent, wire, view, parked, asks, faults>>

\* Another request: a submit, a reselection, the rung of a ladder.
Reconcile ==
  /\ asks < MaxAsks
  /\ asks' = asks + 1
  /\ Ask(FALSE)
  /\ UNCHANGED <<agent, sub, wire, view, parked, faults>>

Awaited == fetch # NoFetch /\ fetch.gate

\* The request the loop waited for has been aborted or has failed.
Release ==
  /\ parked
  /\ ~Awaited
  /\ parked' = FALSE
  /\ UNCHANGED <<agent, sub, wire, view, fetch, asks, faults>>

Fail ==
  /\ fetch # NoFetch
  /\ Fault
  /\ fetch' = NoFetch
  /\ UNCHANGED <<agent, sub, wire, view, parked, asks>>

\* handleSessionSummaryPure. The events of open steps come only for a client
\* that named steps.
Answer ==
  /\ fetch # NoFetch
  /\ fetch.got = NoAnswer
  /\ fetch' = [fetch EXCEPT !.got =
                 [snap EXCEPT !.opened = IF fetch.known THEN @ ELSE {}]]
  /\ UNCHANGED <<agent, sub, wire, view, parked, asks, faults>>

-----------------------------------------------------------------------------
(* Applying a summary a.                                                   *)

Held(v) == {s \in Steps : v.steps[s] # NoStep}

\* activeTurnEventSeq.
Watermark(v) == Max({0} \cup {v.mark[s] : s \in Held(v)})

\* The test on the ActiveTurn's EventSeq.
Stale(v, a) ==
  a.live /\ a.seq > Watermark(v) /\ \E s \in Steps : a.steps[s] # NoStep

\* Mutant of Replaced: only steps the client lacks are taken.
ReplacedMissing(v, a) ==
  [s \in Steps |-> IF v.steps[s] = NoStep THEN a.steps[s] ELSE v.steps[s]]

\* replaceActiveTurnSteps.
Replaced(v, a) ==
  [s \in Steps |-> IF a.steps[s] # NoStep THEN a.steps[s] ELSE v.steps[s]]

\* Mutant of Bumped: the watermarks are left as they are.
BumpedNot(v, a) == v.mark

\* bumpTurnEventSeq: over the steps held before the replacement.
Bumped(v, a) ==
  [s \in Steps |-> IF s \in Held(v) THEN Max({v.mark[s], a.seq}) ELSE v.mark[s]]

\* mergeSteps: a closed copy wins, an unknown step is taken.
Merged(h, s) ==
  IF h = NoStep \/ (s.state = "closed" /\ h.state = "open") THEN s ELSE h

\* Mutant of Shut: the step is replaced by a bare closed one.
ShutBare(x) == IF x = NoStep THEN x ELSE [state |-> "closed"]

Shut(x) == IF x = NoStep THEN x ELSE [x EXCEPT !.state = "closed"]

\* applySummaryToState; applyInitSummary only merges.
Applied(v, a, init) ==
  LET replace == ~init /\ Stale(v, a)
      base == IF replace THEN Replaced(v, a) ELSE v.steps
      merged == [s \in Steps |-> Merged(base[s], a.steps[s])]
      closed == [s \in Steps |-> IF init \/ a.live THEN merged[s] ELSE Shut(merged[s])]
  IN Replay([v EXCEPT !.steps = closed,
                      !.mark = IF replace THEN Bumped(v, a) ELSE @],
            IF init THEN {} ELSE a.opened)

Deliver ==
  /\ fetch # NoFetch
  /\ fetch.got # NoAnswer
  /\ view' = Applied(view, fetch.got, fetch.init)
  /\ fetch' = NoFetch
  /\ parked' = (parked /\ ~fetch.gate)
  /\ UNCHANGED <<agent, sub, wire, asks, faults>>

-----------------------------------------------------------------------------
Next ==
  \/ \E s \in Steps, k \in {"opened", "delta", "reset", "closed"} : Emit(k, s)
  \/ Flush \/ TakeSnapshot \/ End
  \/ Receive \/ Die
  \/ Resubscribe \/ TransportBack \/ Reconcile \/ Release \/ Fail
  \/ Answer \/ Deliver

Spec == Init /\ [][Next]_vars

-----------------------------------------------------------------------------
(* Properties.                                                             *)

TypeOK ==
  /\ seq \in 0..MaxSeq
  /\ outbox \in Seq(Event) /\ opened \subseteq Event /\ wire \in Seq(Event)
  /\ steps \in StepMap
  /\ snap \in Snap
  /\ {over, sub, parked} \subseteq BOOLEAN
  /\ view \in View
  /\ fetch \in Fetch \cup {NoFetch}
  /\ asks \in 0..MaxAsks /\ faults \in 0..MaxFaults

Once(text) == \A i, j \in DOMAIN text : i < j => text[i] < text[j]

\* The copy of s shows every chunk once, in order, and the watermark covers
\* them: no replay can add one twice.
Sound(s) ==
  /\ Once(view.steps[s].text)
  /\ \A i \in DOMAIN view.steps[s].text : view.steps[s].text[i] <= view.mark[s]

\* The step in progress delivers a summary.
Delivering == fetch # NoFetch /\ fetch' = NoFetch /\ faults' = faults

\* The summary delivered brings s as a step unknown so far or closed, and the
\* watermark of s is not raised to it.
ByMerge(s) ==
  /\ Delivering
  /\ fetch.got.steps[s] # NoStep
  /\ \/ view.steps[s] = NoStep
     \/ /\ view.steps[s].state = "open" /\ fetch.got.steps[s].state = "closed"
        /\ fetch.init \/ ~Stale(view, fetch.got)

\* Whatever is lost, replayed, parked or answered late: the text of a step
\* shows no chunk twice or out of order, unless a summary brings the step as
\* new or as closed without raising its watermark.
SoundStays ==
  [][\A s \in Steps : Sound(s) => Sound(s)' \/ ByMerge(s)]_vars

\* A summary ahead of all the client has seen restores the text of every step
\* the client held to the snapshot's, chunks lost or doubled before included,
\* and the replay that follows leaves it at that unless events of the step,
\* received before the step was known, still wait for their turn.
SnapshotRestores ==
  [][Delivering /\ ~fetch.init /\ Stale(view, fetch.got) =>
       \A s \in Held(view) :
         fetch.got.steps[s] # NoStep /\ view.pend[s] = <<>> =>
           view.steps[s]'.text = fetch.got.steps[s].text /\ Sound(s)']_vars

\* Violated. After a replacement the replay of open steps' events, which the
\* snapshot reflects already, adds no chunk a second time.
ReplayAddsNone ==
  [][Delivering /\ ~fetch.init /\ Stale(view, fetch.got) =>
       \A s \in Steps :
         Once(view.steps[s].text) => Once(view.steps[s]'.text)]_vars
=============================================================================
