----------------------------- MODULE AgentTurn -----------------------------
(***************************************************************************)
(* The turn lifecycle of an agent, src/pkg/actor/agent: what becomes of a  *)
(* user's message while the agent answers earlier ones, is stopped, paused *)
(* or restarted.                                                           *)
(*                                                                         *)
(* The actor has two loops over the same state. The default loop runs      *)
(* chat.submit, turn_cancel, turn_pause, turn_resume and the deferred      *)
(* internal_start_turn one at a time; the exec loop runs agent_run, which  *)
(* holds it for as long as the turn's engine runs. The loops meet in the   *)
(* session, in ActiveTurnRef and in the engine pointer, each read and      *)
(* written under no common lock. A handler is one step here, except where  *)
(* the other loop can get between a check and what hangs on it: a submit   *)
(* between reading the engine and acting on what it read, a cancel while   *)
(* it waits for the engine, and agent_run throughout.                      *)
(*                                                                         *)
(* The session is a record: turns (a user turn has t = 0, an assistant     *)
(* turn is named by a turn order), the lifecycle state st of the assistant *)
(* turns, ActiveHead, ActiveTurnRef, PendingSubmits (pairs of a turn's     *)
(* place and a message) and NextTurnOrder. disk is the copy saveMailbox    *)
(* wrote last. Modelled is an ordinary agent: no workflow, no goal, no     *)
(* parent, no pending interaction, no compaction.                          *)
(***************************************************************************)
EXTENDS Integers, Sequences, FiniteSets

CONSTANTS
  Msgs,        \* what the user submits
  NoMsg,
  MaxOrder,    \* bound: turn orders
  MaxStops,    \* bound: turn_cancel requests
  MaxPauses,   \* bound: turn_pause requests
  MaxResumes,  \* bound: turn_resume requests
  MaxCrashes,  \* bound: stops and crashes of the actor
  MaxFaults    \* bound: starts that find no aggregator

ASSUME AgentTurnAssumption ==
  /\ NoMsg \notin Msgs
  /\ MaxOrder \in Nat \ {0}
  /\ {MaxStops, MaxPauses, MaxResumes, MaxCrashes, MaxFaults} \subseteq Nat

Orders == 1 .. MaxOrder
Terminal == {"completed", "failed", "cancelled"}
Live == {"running", "paused"}
TurnStates == {"none"} \cup Live \cup Terminal

VARIABLES
  sess, disk,
  starts,      \* internal_start_turn messages on their way, in any order
  runq,        \* agent_run messages, each with the context compiled for it
  engine,      \* what the engine pointer holds: its turn (0: nil) and the
               \* flags inside it; token is its resume channel, of capacity 1
  \* the exec loop
  xpc,         \* "idle", "store", "run", "paused", "final" (no more injects),
               \* "exited", "complete", "clear" or "auto"
  xrun,        \* the agent_run it handles
  outcome,     \* the state the engine ended in
  \* the default loop
  dpc,         \* "idle", "submit", "wait" (a cancel, for the engine) or "commit"
  dmsg,        \* the message it submits
  judged,      \* what that submit read of the engine
  dturn,       \* the turn it cancels
  dname,       \* the turn it starts after that, or 0
  \* history
  sent, seen,  \* messages submitted, and given to an engine that ran
  excused,     \* messages that need not be answered any more
  stopped,     \* turns whose cancel has returned
  count        \* count[o]: how often the bounded operation o happened

exec == <<xpc, xrun, outcome>>
default == <<dpc, dmsg, judged, dturn, dname>>
history == <<sent, seen, excused, stopped>>

vars == <<sess, disk, starts, runq, engine, exec, default, history, count>>

NoRun == [turn |-> 0, ctx |-> {}]
Engine(t) == [turn |-> t, accepting |-> t # 0, cancelled |-> FALSE,
              pauseReq |-> FALSE, token |-> FALSE, reminded |-> FALSE]
Bound == [stop |-> MaxStops, pause |-> MaxPauses, resume |-> MaxResumes,
          crash |-> MaxCrashes, fault |-> MaxFaults]

Spend(o) == count[o] < Bound[o] /\ count' = [count EXCEPT ![o] = @ + 1]

-----------------------------------------------------------------------------
(* The session and what the handlers do to it.                             *)

EmptySession ==
  [turns |-> <<>>, st |-> [t \in Orders |-> "none"], head |-> 0, ref |-> 0,
   pend |-> {}, next |-> 1]

\* ActiveTurnRef is not part of what is saved.
Durable(s) == [s EXCEPT !.ref = 0]

\* Mutant of CanTransition: a turn that is over may go on.
CanTransitionAlways(from, to) == TRUE

\* canTransitionTurnState: a turn that is over stays as it is.
CanTransition(from, to) == from = to \/ from \notin Terminal

\* The reducer: an illegal transition leaves the record as it is, a turn
\* without a record gets one.
Apply(s, t, to) ==
  IF ~CanTransition(s.st[t], to) THEN s
  ELSE [s EXCEPT !.st[t] = to,
                 !.turns = IF s.st[t] = "none"
                           THEN Append(@, [t |-> t, ms |-> {}]) ELSE @]

Place(s, t) == CHOOSE i \in DOMAIN s.turns : s.turns[i].t = t

\* Mutant of Last: ActiveHead is the number of turns, counted from zero.
LastOneMore(s) == [s EXCEPT !.head = Len(s.turns) + 1]

\* ActiveHead = len(Session.Turns) - 1, counted from zero.
Last(s) == [s EXCEPT !.head = Len(s.turns)]

IsUser(s, i) == s.turns[i].t = 0

\* The turn PendingSubmits are queued on and consumed from.
Target(s) == IF s.ref # 0 THEN Place(s, s.ref) ELSE s.head

QueuePending(s, m) == [s EXCEPT !.pend = @ \cup {<<Target(s), m>>}]

PendingOn(s, i) == {p[2] : p \in {q \in s.pend : q[1] = i}}

DropPending(s, i) == [s EXCEPT !.pend = {p \in @ : p[1] # i}]

CreateUser(s, ms) ==
  [s EXCEPT !.turns = Append(@, [t |-> 0, ms |-> ms]), !.next = @ + 1]

\* compileMessages: the turns up to ActiveHead and the turn being started.
Context(s) ==
  UNION {s.turns[i].ms :
           i \in {j \in DOMAIN s.turns : j <= s.head \/ s.turns[j].t = s.ref}}

\* startTurnWithName. A turn that is running or paused is taken up in place;
\* a turn the reducer refuses leaves no active turn.
Started(s, name) ==
  LET resumed == s.st[name] \in Live
      s1 == [s EXCEPT !.ref = name, !.next = IF resumed THEN @ ELSE @ + 1]
  IN IF CanTransition(s.st[name], "running") THEN Apply(s1, name, "running")
     ELSE [s1 EXCEPT !.ref = 0]

Init ==
  /\ sess = EmptySession
  /\ disk = EmptySession
  /\ starts = <<>>
  /\ runq = <<>>
  /\ engine = Engine(0)
  /\ xpc = "idle" /\ xrun = NoRun /\ outcome = "none"
  /\ dpc = "idle" /\ dmsg = NoMsg /\ judged = "none" /\ dturn = 0 /\ dname = 0
  /\ sent = {} /\ seen = {} /\ excused = {} /\ stopped = {}
  /\ count = [o \in DOMAIN Bound |-> 0]

Unanswered == sent \ seen

\* No more than MaxOrder turns.
Bounded == sess'.next <= MaxOrder

ExecIdle == xpc' = "idle" /\ xrun' = NoRun /\ outcome' = "none"

DefaultIdle ==
  /\ dpc' = "idle" /\ dmsg' = NoMsg /\ judged' = "none"
  /\ dturn' = 0 /\ dname' = 0

\* startTurn from session s, of which saved is on disk: the agent_run is queued
\* with its context, or no aggregator is up yet and the turn is given up, with
\* the reference a resume has put on it. A start does not look for another
\* active turn; one it displaces is not completed by its engine any more.
StartTurn(s, saved, name) ==
  /\ \/ LET s1 == Started(s, name) IN
        /\ sess' = s1
        /\ IF s1.ref = 0
           THEN disk' = saved /\ UNCHANGED runq
           ELSE /\ disk' = Durable(s1)
                /\ runq' = Append(runq, [turn |-> name, ctx |-> Context(s1)])
        /\ excused' = IF s.ref \in {0, name} THEN excused
                      ELSE excused \cup Unanswered
        /\ UNCHANGED count
     \/ /\ Spend("fault")
        /\ sess' = [s EXCEPT !.ref = IF @ = name THEN 0 ELSE @]
        /\ disk' = saved
        /\ excused' = excused \cup Unanswered
        /\ UNCHANGED runq
  /\ Bounded

-----------------------------------------------------------------------------
(* The default loop: chat.submit.                                          *)

\* It reads the engine pointer and what the engine says of itself.
SubmitRead(m) ==
  /\ dpc = "idle"
  /\ m \notin sent
  /\ sent' = sent \cup {m}
  /\ judged' = IF engine.turn = 0 THEN "none"
               ELSE IF engine.accepting THEN "accepts"
               ELSE IF engine.cancelled THEN "cancelled" ELSE "busy"
  /\ dpc' = "submit"
  /\ dmsg' = m
  /\ UNCHANGED <<sess, disk, starts, runq, engine, exec, dturn, dname, seen,
                 excused, stopped, count>>

Resumable == sess.ref # 0 /\ sess.st[sess.ref] = "paused"
Queues == judged = "accepts" \/ (judged = "none" /\ Resumable)

\* The engine will dispatch again, or its turn's completion is still to come.
WillConsume ==
  /\ engine.accepting /\ ~engine.cancelled /\ engine.turn = sess.ref
  /\ xpc \in {"run", "paused", "exited", "complete"}

\* The message is left on the active turn, where it may stay if the engine it
\* was meant for is past that by now.
SubmitQueues ==
  /\ dpc = "submit"
  /\ Queues
  /\ sess' = QueuePending(sess, dmsg)
  /\ disk' = Durable(sess')
  /\ excused' = IF judged = "accepts" /\ ~WillConsume
                THEN excused \cup {dmsg} ELSE excused
  /\ dpc' = "idle"
  /\ dmsg' = NoMsg
  /\ judged' = "none"
  /\ UNCHANGED <<starts, runq, engine, exec, dturn, dname, sent, seen, stopped,
                 count>>

\* A user turn behind an engine on its way out. A cancelled one picks nothing
\* up, so a turn is scheduled; neither moves ActiveHead nor saves.
SubmitBehind ==
  /\ dpc = "submit"
  /\ judged \in {"busy", "cancelled"}
  /\ sess' = CreateUser(sess, {dmsg})
  /\ Bounded
  /\ starts' = IF judged = "cancelled"
               THEN Append(starts, [turn |-> sess'.next, msg |-> dmsg])
               ELSE starts
  /\ excused' = IF judged = "busy" /\ engine.turn = 0
                THEN excused \cup {dmsg} ELSE excused
  /\ dpc' = "idle"
  /\ dmsg' = NoMsg
  /\ judged' = "none"
  /\ UNCHANGED <<disk, runq, engine, exec, dturn, dname, sent, seen, stopped,
                 count>>

\* handleTurnCancel up to its wait: the engine is told, if there is one.
RequestCancel(t, name) ==
  /\ dturn' = t
  /\ dname' = name
  /\ dpc' = IF xpc \in {"run", "paused", "final"} THEN "wait" ELSE "commit"
  /\ engine' = IF engine.turn = 0 THEN engine
               ELSE [engine EXCEPT !.cancelled = TRUE, !.accepting = FALSE]

\* No engine: the turn is scheduled at once, or after the active turn, which
\* no engine runs yet, has been cancelled.
SubmitStarts ==
  /\ dpc = "submit"
  /\ judged = "none"
  /\ ~Resumable
  /\ LET s == CreateUser(sess, {dmsg}) IN
     IF sess.ref = 0
     THEN /\ sess' = Last(s)
          /\ disk' = Durable(sess')
          /\ starts' = Append(starts, [turn |-> s.next, msg |-> dmsg])
          /\ dpc' = "idle"
          /\ dmsg' = NoMsg
          /\ UNCHANGED <<engine, dturn, dname>>
     ELSE /\ sess' = s
          /\ RequestCancel(sess.ref, s.next)
          /\ UNCHANGED <<disk, starts, dmsg>>
  /\ Bounded
  /\ UNCHANGED <<runq, exec, judged, history, count>>

\* internal_start_turn; a start that fails gives its turn up.
StartInternal ==
  /\ dpc = "idle"
  /\ \E i \in DOMAIN starts :
       LET t == starts[i].turn IN
       /\ starts' = SubSeq(starts, 1, i - 1) \o SubSeq(starts, i + 1, Len(starts))
       /\ IF sess.st[t] = "cancelled"
          THEN UNCHANGED <<sess, disk, runq, excused, count>>
          ELSE StartTurn(sess, disk, t)
  /\ UNCHANGED <<engine, exec, default, sent, seen, stopped>>

-----------------------------------------------------------------------------
(* The default loop: turn_cancel, turn_pause, turn_resume.                 *)

Stop ==
  /\ dpc = "idle"
  /\ sess.ref # 0
  /\ Spend("stop")
  /\ RequestCancel(sess.ref, 0)
  /\ UNCHANGED <<sess, disk, starts, runq, exec, dmsg, judged, history>>

\* waitExit gives up after ten seconds.
CancelTimesOut ==
  /\ dpc = "wait"
  /\ dpc' = "commit"
  /\ UNCHANGED <<sess, disk, starts, runq, engine, exec, dmsg, judged, dturn,
                 dname, history, count>>

\* Mutants of CancelledSession: ActiveTurnRef or the record is left alone.
CancelledSessionStillActive(s, t) == Last(Apply(s, t, "cancelled"))
CancelledSessionUnmarked(s, t) == Last([s EXCEPT !.ref = 0])

CancelledSession(s, t) == Last(Apply([s EXCEPT !.ref = 0], t, "cancelled"))

\* The rest of handleTurnCancel, and of the submit that called it.
CancelCommit ==
  /\ dpc = "commit"
  /\ LET hit == sess.ref = dturn
         s == IF hit THEN CancelledSession(sess, dturn) ELSE sess
     IN IF dname = 0
        THEN /\ sess' = s
             /\ disk' = IF hit THEN Durable(s) ELSE disk
             /\ stopped' = stopped \cup {dturn}
             /\ excused' = IF hit THEN excused \cup Unanswered ELSE excused
             /\ UNCHANGED starts
        ELSE /\ sess' = Last(s)
             /\ disk' = Durable(sess')
             /\ starts' = Append(starts, [turn |-> dname, msg |-> dmsg])
             /\ excused' = excused \cup
                  (IF hit THEN PendingOn(sess, Place(sess, dturn)) ELSE Unanswered)
             /\ UNCHANGED stopped
  /\ DefaultIdle
  /\ UNCHANGED <<runq, engine, exec, sent, seen, count>>

Pause ==
  /\ dpc = "idle"
  /\ engine.turn # 0
  /\ Spend("pause")
  /\ engine' = [engine EXCEPT !.pauseReq = TRUE]
  /\ UNCHANGED <<sess, disk, starts, runq, exec, default, history>>

\* The last turn in the session in one of the states S, or 0.
LastIn(s, S) ==
  LET P == {i \in DOMAIN s.turns : ~IsUser(s, i) /\ s.st[s.turns[i].t] \in S}
  IN IF P = {} THEN 0
     ELSE s.turns[CHOOSE i \in P : \A j \in P : j <= i].t

\* With an engine, its resume channel (which holds one token) is filled;
\* without one the paused turn is set running and its start scheduled. That
\* happens to a turn whose first start is still on its way, too.
Resume ==
  /\ dpc = "idle"
  /\ Spend("resume")
  /\ IF engine.turn # 0
     THEN /\ engine' = [engine EXCEPT !.token = TRUE]
          /\ UNCHANGED <<sess, disk, starts, excused>>
     ELSE LET t == IF sess.ref # 0 THEN sess.ref ELSE LastIn(sess, {"paused"})
              s == Apply([sess EXCEPT !.ref = t], t, "running")
          IN /\ t # 0
             /\ sess' = Last(s)
             /\ disk' = Durable(s)
             /\ starts' = Append(starts, [turn |-> t, msg |-> NoMsg])
             /\ excused' = IF sess.st[t] = "running"
                           THEN excused \cup Unanswered ELSE excused
             /\ UNCHANGED engine
  /\ UNCHANGED <<runq, exec, default, sent, seen, stopped>>

-----------------------------------------------------------------------------
(* The exec loop: agent_run.                                               *)

\* A run whose turn is not the active one is dropped.
RunTake ==
  /\ xpc = "idle"
  /\ runq # <<>>
  /\ runq' = Tail(runq)
  /\ IF sess.ref = Head(runq).turn
     THEN xpc' = "store" /\ xrun' = Head(runq)
     ELSE UNCHANGED <<xpc, xrun>>
  /\ UNCHANGED <<sess, disk, starts, engine, outcome, default, history, count>>

RunStore ==
  /\ xpc = "store"
  /\ engine' = Engine(xrun.turn)
  /\ xpc' = "run"
  /\ seen' = seen \cup xrun.ctx
  /\ UNCHANGED <<sess, disk, starts, runq, xrun, outcome, default, sent,
                 excused, stopped, count>>

\* Mutant of Consume: the messages stay among the pending.
ConsumeKept(s) ==
  [s EXCEPT !.turns[Target(s)].ms = @ \cup PendingOn(s, Target(s))]

\* consumePendingSubmits: the messages become part of the turn.
Consume(s) ==
  [DropPending(s, Target(s)) EXCEPT
     !.turns[Target(s)].ms = @ \cup PendingOn(s, Target(s))]

\* The start of a dispatch. The loop looks for a cancel before it, no later.
Ingest ==
  /\ xpc = "run"
  /\ PendingOn(sess, Target(sess)) # {}
  /\ sess' = Consume(sess)
  /\ seen' = seen \cup PendingOn(sess, Target(sess))
  /\ UNCHANGED <<disk, starts, runq, engine, exec, default, sent, excused,
                 stopped, count>>

\* The end of an iteration saves the session.
Checkpoint ==
  /\ xpc = "run"
  /\ disk # Durable(sess)
  /\ disk' = Durable(sess)
  /\ UNCHANGED <<sess, starts, runq, engine, exec, default, history, count>>

\* The model answered without a tool call: the turn is to be completed.
StopAccepting ==
  /\ xpc = "run"
  /\ ~engine.cancelled
  /\ xpc' = "final"
  /\ engine' = [engine EXCEPT !.accepting = FALSE]
  /\ UNCHANGED <<sess, disk, starts, runq, xrun, outcome, default, history,
                 count>>

\* Unless tasks are unfinished, of which it is reminded, once in a turn.
Remind ==
  /\ xpc = "final"
  /\ ~engine.reminded
  /\ xpc' = "run"
  /\ engine' = [engine EXCEPT !.accepting = TRUE, !.reminded = TRUE]
  /\ UNCHANGED <<sess, disk, starts, runq, xrun, outcome, default, history,
                 count>>

\* applyTurnLifecycle saves what the reducer accepted.
SavedUnlessRefused(t, to) ==
  IF CanTransition(sess.st[t], to) THEN Durable(Apply(sess, t, to)) ELSE disk

\* The checkpoint of a requested pause, and the wait in it, even if a cancel
\* comes in meanwhile.
PauseHere ==
  /\ xpc = "run"
  /\ engine.pauseReq
  /\ xpc' = "paused"
  /\ sess' = Apply(sess, xrun.turn, "paused")
  /\ disk' = SavedUnlessRefused(xrun.turn, "paused")
  /\ UNCHANGED <<starts, runq, engine, xrun, outcome, default, history, count>>

Wake ==
  /\ xpc = "paused"
  /\ engine.token
  /\ xpc' = "run"
  /\ engine' = [engine EXCEPT !.token = FALSE, !.pauseReq = FALSE]
  /\ sess' = Apply(sess, xrun.turn, "running")
  /\ disk' = SavedUnlessRefused(xrun.turn, "running")
  /\ UNCHANGED <<starts, runq, xrun, outcome, default, history, count>>

\* run returns, and with it a cancel that waits for it.
Exit(state) ==
  /\ xpc' = "exited"
  /\ outcome' = state
  /\ dpc' = IF dpc = "wait" THEN "commit" ELSE dpc
  /\ UNCHANGED <<sess, disk, starts, runq, engine, xrun, dmsg, judged, dturn,
                 dname, history, count>>

Finish == xpc = "final" /\ Exit("completed")
Fail == xpc = "run" /\ ~engine.cancelled /\ Exit("failed")

\* Mutant of Abort: the wait of a pause does not look for a cancel.
AbortRunning == xpc = "run" /\ engine.cancelled /\ Exit("cancelled")

Abort == xpc \in {"run", "paused"} /\ engine.cancelled /\ Exit("cancelled")

\* handleRun after run: a cancelled turn is left to handleTurnCancel.
Exited ==
  /\ xpc = "exited"
  /\ IF engine.cancelled
     THEN /\ engine' = Engine(0)
          /\ ExecIdle
     ELSE xpc' = "complete" /\ UNCHANGED <<xrun, outcome, engine>>
  /\ UNCHANGED <<sess, disk, starts, runq, default, history, count>>

\* The first user turn among the places from + 1 .. to, or 0.
NextUser(s, from, to) ==
  LET U == {i \in DOMAIN s.turns : from < i /\ i <= to /\ IsUser(s, i)}
  IN IF U = {} THEN 0 ELSE CHOOSE i \in U : \A j \in U : i <= j

\* Mutant of AutoPick: nothing is picked up.
AutoPickNone(s) == 0

\* The turn maybeAutoStartTurn answers: the user turn at ActiveHead if it is
\* the last turn, or else the first after it; 0 if there is none.
AutoPick(s) ==
  IF s.ref # 0 \/ s.head = 0 THEN 0
  ELSE IF s.head = Len(s.turns) /\ IsUser(s, s.head) THEN s.head
  ELSE NextUser(s, s.head, Len(s.turns))

\* startTurn for the user turn at place i, if any; its error is dropped.
PickUp(s, saved, i) ==
  IF i = 0
  THEN sess' = s /\ disk' = saved /\ UNCHANGED <<runq, excused, count>>
  ELSE StartTurn([s EXCEPT !.head = i], saved, s.next)

\* handleTurnComplete: the messages still pending on the turn become a user
\* turn of their own; otherwise a user turn put before this turn's record, or
\* one after ActiveHead, is answered next.
Completed(s) == Last(Apply([s EXCEPT !.ref = 0], xrun.turn, outcome))

Promoted(s, i) == Last(CreateUser(DropPending(s, i), PendingOn(s, i)))

Complete ==
  /\ xpc = "complete"
  /\ xpc' = "clear"
  /\ IF sess.ref # xrun.turn
     THEN UNCHANGED <<sess, disk, runq, excused, count>>
     ELSE LET s == Completed(sess)
              i == Place(s, xrun.turn)
              behind == NextUser(s, sess.head, Len(s.turns) - 1)
              promoted == Promoted(s, i)
          IN IF PendingOn(s, i) # {}
             THEN PickUp(promoted, Durable(promoted), promoted.head)
             ELSE PickUp(s, Durable(s),
                         IF behind # 0 THEN behind ELSE AutoPick(s))
  /\ UNCHANGED <<starts, engine, xrun, outcome, default, sent, seen, stopped>>

ClearEngine ==
  /\ xpc = "clear"
  /\ xpc' = "auto"
  /\ engine' = Engine(0)
  /\ UNCHANGED <<sess, disk, starts, runq, xrun, outcome, default, history,
                 count>>

\* maybeAutoStartTurn once more, for what came in meanwhile.
AutoStart ==
  /\ xpc = "auto"
  /\ ExecIdle
  /\ PickUp(sess, disk, AutoPick(sess))
  /\ UNCHANGED <<starts, engine, default, sent, seen, stopped>>

-----------------------------------------------------------------------------
(* Restarts.                                                               *)

\* recoverTurnStatus: the last live turn becomes the active one, paused.
Recovered(s) ==
  LET t == LastIn(s, Live)
  IN IF t = 0 THEN s ELSE Apply([s EXCEPT !.ref = t], t, "paused")

\* The actor stops (OnStop saves) or crashes, and starts again from disk.
Restart(saved) ==
  /\ Spend("crash")
  /\ sess' = Recovered(saved)
  /\ disk' = Durable(sess')
  /\ starts' = <<>>
  /\ runq' = <<>>
  /\ engine' = Engine(0)
  /\ ExecIdle
  /\ DefaultIdle
  /\ excused' = excused \cup {m \in Unanswered :
                   sess'.ref = 0 \/ m \notin PendingOn(sess', Target(sess'))}
  /\ UNCHANGED <<sent, seen, stopped>>

-----------------------------------------------------------------------------
ExecStep ==
  \/ RunTake \/ RunStore \/ Ingest \/ Checkpoint \/ StopAccepting \/ Remind
  \/ PauseHere \/ Wake \/ Finish \/ Fail \/ Abort \/ Exited \/ Complete
  \/ ClearEngine \/ AutoStart

DefaultStep ==
  \/ SubmitQueues \/ SubmitBehind \/ SubmitStarts \/ StartInternal
  \/ CancelTimesOut \/ CancelCommit

Next ==
  \/ \E m \in Msgs : SubmitRead(m)
  \/ DefaultStep
  \/ Stop
  \/ Pause
  \/ Resume
  \/ ExecStep
  \/ \E saved \in {disk, Durable(sess)} : Restart(saved)

Spec == Init /\ [][Next]_vars

\* Each loop goes on while it has something to do.
Fairness ==
  /\ WF_vars(ExecStep)
  /\ WF_vars(SubmitQueues \/ SubmitBehind \/ SubmitStarts \/ StartInternal
               \/ CancelCommit)

FairSpec == Spec /\ Fairness

-----------------------------------------------------------------------------
(* Properties.                                                             *)

Session ==
  [turns : Seq([t : 0 .. MaxOrder, ms : SUBSET Msgs]),
   st : [Orders -> TurnStates], head : Nat, ref : 0 .. MaxOrder,
   pend : SUBSET (Nat \X Msgs), next : Orders]

\* Type invariant. ActiveHead and the keys of PendingSubmits are places of the
\* session, and there is an engine pointer from RunStore until ClearEngine or
\* a cancelled exit, and only then.
TypeOK ==
  /\ \A s \in {sess, disk} :
       /\ s \in Session
       /\ s.head <= Len(s.turns)
       /\ \A p \in s.pend : p[1] \in DOMAIN s.turns
  /\ starts \in Seq([turn : Orders, msg : Msgs \cup {NoMsg}])
  /\ runq \in Seq([turn : Orders, ctx : SUBSET Msgs])
  /\ engine \in [turn : 0 .. MaxOrder, accepting : BOOLEAN,
                 cancelled : BOOLEAN, pauseReq : BOOLEAN, token : BOOLEAN,
                 reminded : BOOLEAN]
  /\ xpc \in {"idle", "store", "run", "paused", "final", "exited", "complete",
              "clear", "auto"}
  /\ xrun \in [turn : 0 .. MaxOrder, ctx : SUBSET Msgs]
  /\ outcome \in {"none"} \cup Terminal
  /\ dpc \in {"idle", "submit", "wait", "commit"}
  /\ dmsg \in Msgs \cup {NoMsg}
  /\ judged \in {"none", "accepts", "cancelled", "busy"}
  /\ {dturn, dname} \subseteq 0 .. MaxOrder
  /\ {sent, seen, excused} \subseteq SUBSET Msgs
  /\ stopped \subseteq Orders
  /\ count \in [DOMAIN Bound -> Nat]
  /\ (engine.turn = 0) = (xpc \in {"idle", "store", "auto"})

\* The active turn is running or paused: none of cancel, complete, a refused
\* start, a pause or a recovery leaves ActiveTurnRef on a turn that is over.
RefIsLive == sess.ref # 0 => sess.st[sess.ref] \in Live

\* A turn that is completed, failed or cancelled never becomes anything else,
\* whichever of the two loops comes late: an engine that pauses, wakes or
\* completes after a cancel was committed, a start or a recovery.
TerminalStays ==
  [][\A t \in Orders : sess.st[t] \in Terminal => sess'.st[t] = sess.st[t]]_vars

\* Once turn_cancel has returned, its turn is over and is not active again,
\* even when the cancel gave up waiting, crossed the turn's completion, or the
\* actor was restarted since.
StopWins == \A t \in stopped : sess.st[t] \in Terminal /\ sess.ref # t

Places(m) ==
  {<<"turn", i>> : i \in {j \in DOMAIN sess.turns : m \in sess.turns[j].ms}}
    \cup {<<"pending", p[1]>> : p \in {q \in sess.pend : q[2] = m}}

\* A message is in one place of the session, a turn or the pending submits,
\* never in two: consuming and promoting move it. And while the actor has not
\* been restarted it is in one as soon as its submit has been handled.
OnePlace ==
  \A m \in sent :
    /\ Cardinality(Places(m)) <= 1
    /\ (count.crash = 0 /\ dpc = "idle" => Places(m) # {})

Quiet ==
  /\ starts = <<>> /\ runq = <<>>
  /\ xpc = "idle" /\ dpc = "idle"
  /\ sess.ref = 0

\* When the agent has come to rest every message was given to an engine that
\* ran, except those it was excused from: the user stopped the agent, no
\* aggregator was there, the actor was restarted, or one of the races named at
\* the action that excuses it.
MessageKept == Quiet => sent \subseteq seen \cup excused

\* The same without the exceptions. turn_engine.go cancel says that accepting
\* a message into a dying engine would lose it silently, and handleTurnComplete
\* promotes what arrived while the turn was being finalized.
NoMessageLost == Quiet => sent \subseteq seen

\* turn_cancel returns, without its timeout: the engine it waits for leaves
\* its loop from a dispatch and from the wait of a pause alike.
StopReturns == []<>(dpc = "idle")

AwaitsUser == xpc = "paused" \/ Resumable

\* Again and again every message is either answered, excused, or waiting for a
\* user who has paused the agent: both loops cannot leave it to each other.
Answered == []<>(sent \subseteq seen \cup excused \/ AwaitsUser)
=============================================================================
