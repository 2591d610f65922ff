--------------------------- MODULE StepFeed_proofs ---------------------------
(***************************************************************************)
(* Proofs about StepFeed: what an event, a batch and a replay do to the    *)
(* client's copy, and that they keep the text of its steps sound.          *)
(***************************************************************************)
EXTENDS StepFeed, TLAPS

OfOnStep == INSTANCE FoldTheorems WITH op <- OnStep
OfReduce == INSTANCE FoldTheorems WITH op <- Reduce
OfTakeThose == INSTANCE FoldTheorems WITH op <- TakeThose

-----------------------------------------------------------------------------
(* The folds of StepFeed are those of FoldTheorems.                        *)

LEMMA OnStepsIsFold ==
  ASSUME NEW all, NEW es
  PROVE  OnSteps(all, es) = OfOnStep!Fold(all, es)
BY DEF OnSteps, FoldLeft, MapThenFoldSet, Max, OfOnStep!Fold, OfOnStep!FoldLeft,
       OfOnStep!MapThenFoldSet, OfOnStep!Max

LEMMA ReduceAllIsFold ==
  ASSUME NEW v, NEW es
  PROVE  ReduceAll(v, es) = OfReduce!Fold(v, es)
BY DEF ReduceAll, FoldLeft, MapThenFoldSet, Max, OfReduce!Fold, OfReduce!FoldLeft,
       OfReduce!MapThenFoldSet, OfReduce!Max

ByNumber(es) == [n \in 1..MaxSeq |-> {e \in es : e.seq = n}]

LEMMA ReplayIsFold ==
  ASSUME NEW v, NEW es
  PROVE  Replay(v, es) = OfTakeThose!Fold(v, ByNumber(es))
BY DEF Replay, ByNumber, FoldLeft, MapThenFoldSet, Max, OfTakeThose!Fold,
       OfTakeThose!FoldLeft, OfTakeThose!MapThenFoldSet, OfTakeThose!Max

-----------------------------------------------------------------------------
(* Types.                                                                  *)

LEMMA NoStepType == NoStep \in Step /\ NoSteps \in StepMap
BY DEF NoStep, NoSteps, Step, StepMap

LEMMA StepShape ==
  ASSUME NEW x \in Step
  PROVE  /\ x.state \in {"none", "open", "closed"}
         /\ x.text \in Seq(1..MaxSeq)
         /\ x = [state |-> x.state, text |-> x.text]
BY DEF Step

LEMMA ReducedType ==
  ASSUME NEW x \in Step, NEW e \in Event
  PROVE  Reduced(x, e) \in Step
<1>1. /\ e.kind \in {"opened", "delta", "reset", "closed"}
      /\ e.seq \in 1..MaxSeq
  BY DEF Event
<1>2. /\ [x EXCEPT !.state = "open"] \in Step
      /\ [x EXCEPT !.state = "closed"] \in Step
      /\ [x EXCEPT !.text = <<>>] \in Step
  <2>1. <<>> \in Seq(1..MaxSeq)
    OBVIOUS
  <2> QED
    BY <2>1 DEF Step
<1>3. [x EXCEPT !.text = Append(@, e.seq)] \in Step
  <2>1. Append(x.text, e.seq) \in Seq(1..MaxSeq)
    BY <1>1, StepShape
  <2> QED
    BY <2>1 DEF Step
<1> QED
  BY <1>1, <1>2, <1>3 DEF Reduced

LEMMA OnStepType ==
  ASSUME NEW all \in StepMap, NEW e \in Event
  PROVE  /\ OnStep(all, e) \in StepMap
         /\ \A s \in Steps : OnStep(all, e)[s] = IF s = e.step THEN Reduced(all[s], e)
                                                             ELSE all[s]
<1>1. e.step \in Steps /\ all[e.step] \in Step
  BY DEF Event, StepMap
<1>2. Reduced(all[e.step], e) \in Step
  BY <1>1, ReducedType
<1> QED
  BY <1>1, <1>2 DEF OnStep, StepMap

LEMMA ViewShape ==
  ASSUME NEW v \in View
  PROVE  /\ v.steps \in StepMap
         /\ v.mark \in [Steps -> 0..MaxSeq]
         /\ v.pend \in [Steps -> Seq(Event)]
         /\ \A s \in Steps : v.steps[s] \in Step /\ v.mark[s] \in 0..MaxSeq /\ v.pend[s] \in Seq(Event)
BY DEF View, StepMap

(* What the reducer does to a view, field by field.                        *)
LEMMA ReduceIs ==
  ASSUME NEW v \in View, NEW e \in Event
  PROVE  /\ Reduce(v, e) \in View
         /\ Reduce(v, e).pend = v.pend
         /\ \A s \in Steps :
              IF s # e.step \/ Seen(v, e)
              THEN /\ Reduce(v, e).steps[s] = v.steps[s]
                   /\ Reduce(v, e).mark[s] = v.mark[s]
              ELSE /\ Reduce(v, e).steps[s] = Reduced(v.steps[s], e)
                   /\ Reduce(v, e).mark[s] = IF Numbered(e) THEN e.seq ELSE v.mark[s]
<1>1. e.step \in Steps /\ e.seq \in 1..MaxSeq /\ e.seq \in 0..MaxSeq
  BY DEF Event
<1>2. CASE Seen(v, e)
  BY <1>2 DEF Reduce
<1>3. CASE ~Seen(v, e)
  <2> DEFINE m == [v.mark EXCEPT ![e.step] = IF Numbered(e) THEN e.seq ELSE @]
             w == [steps |-> OnStep(v.steps, e), mark |-> m, pend |-> v.pend]
  <2>1. Reduce(v, e) = w
    <3>1. v = [steps |-> v.steps, mark |-> v.mark, pend |-> v.pend]
      BY DEF View
    <3> QED
      BY <1>3, <3>1 DEF Reduce
  <2>2. /\ m \in [Steps -> 0..MaxSeq]
        /\ \A s \in Steps : m[s] = IF s = e.step /\ Numbered(e) THEN e.seq ELSE v.mark[s]
    BY <1>1, ViewShape
  <2>3. w.steps = OnStep(v.steps, e) /\ w.mark = m /\ w.pend = v.pend
    OBVIOUS
  <2>4. w \in View
    <3>1. OnStep(v.steps, e) \in StepMap
      BY ViewShape, OnStepType
    <3> HIDE DEF m
    <3> QED
      BY <2>2, <3>1, ViewShape DEF View
  <2> HIDE DEF w, m
  <2> QED
    BY <1>3, <2>1, <2>2, <2>3, <2>4, ViewShape, OnStepType
<1> QED
  BY <1>2, <1>3

-----------------------------------------------------------------------------
(* What a view knows of one step, and how batches and replays change it.   *)

At(v, s) == <<v.steps[s], v.mark[s]>>

EventsOf(s) == {e \in Event : e.step = s}

\* Parked events wait for the step they belong to.
Filed(v) == \A s \in Steps : v.pend[s] \in Seq(EventsOf(s))

(* C is a set that the events of E, reduced one by one, cannot lead s out  *)
(* of.                                                                     *)
Closed(C, E, s) ==
  \A x \in View, e \in E : e.step = s /\ At(x, s) \in C => At(Reduce(x, e), s) \in C

LEMMA ReduceAllAt ==
  ASSUME NEW v \in View, NEW s \in Steps, NEW E \in SUBSET Event, NEW es \in Seq(E),
         NEW C, At(v, s) \in C, Closed(C, E, s)
  PROVE  /\ ReduceAll(v, es) \in View
         /\ ReduceAll(v, es).pend = v.pend
         /\ At(ReduceAll(v, es), s) \in C
<1> DEFINE T == {x \in View : x.pend = v.pend /\ At(x, s) \in C}
<1>1. v \in T
  OBVIOUS
<1>2. \A x \in T, e \in E : Reduce(x, e) \in T
  <2> SUFFICES ASSUME NEW x \in T, NEW e \in E PROVE Reduce(x, e) \in T
    OBVIOUS
  <2>1. Reduce(x, e) \in View /\ Reduce(x, e).pend = v.pend
    BY ReduceIs
  <2>2. CASE e.step = s
    BY <2>1, <2>2 DEF Closed
  <2>3. CASE e.step # s
    <3>1. At(Reduce(x, e), s) = At(x, s)
      BY <2>3, ReduceIs DEF At
    <3> QED
      BY <2>1, <3>1
  <2> QED
    BY <2>2, <2>3
<1> HIDE DEF T
<1>3. OfReduce!Fold(v, es) \in T
  BY <1>1, <1>2, OfReduce!FoldStays
<1> QED
  BY <1>3, ReduceAllIsFold DEF T

LEMMA SeqOfBoth ==
  ASSUME NEW A, NEW B, NEW q \in Seq(A), q \in Seq(B)
  PROVE  q \in Seq(A \cap B)
OBVIOUS

LEMMA TakeAt ==
  ASSUME NEW v \in View, Filed(v), NEW s \in Steps, NEW R \in SUBSET Event, NEW e \in R,
         v.pend[s] \in Seq(R), NEW C, At(v, s) \in C, Closed(C, R, s)
  PROVE  /\ Take(v, e) \in View
         /\ Filed(Take(v, e))
         /\ Take(v, e).pend[s] \in Seq(R)
         /\ At(Take(v, e), s) \in C
<1>1. e \in Event /\ e.step \in Steps /\ e \in EventsOf(e.step)
  BY DEF Event, EventsOf
<1>2. /\ Reduce(v, e) \in View
      /\ Reduce(v, e).pend = v.pend
      /\ At(Reduce(v, e), s) \in C
  <2>1. e.step # s => At(Reduce(v, e), s) = At(v, s)
    BY <1>1, ReduceIs DEF At
  <2> QED
    BY <1>1, <2>1, ReduceIs DEF Closed
<1>3. CASE e.kind = "opened"
  <2> DEFINE E == EventsOf(e.step) \cap (IF e.step = s THEN R ELSE Event)
  <2>1. v.pend[e.step] \in Seq(E)
    BY <1>1, SeqOfBoth, ViewShape DEF Filed
  <2>2. Closed(C, E, s)
    BY DEF Closed, EventsOf
  <2>3. E \in SUBSET Event
    BY DEF EventsOf
  <2> HIDE DEF E
  <2>4. PICK w \in View : /\ w = ReduceAll(Reduce(v, e), v.pend[e.step])
                          /\ w.pend = v.pend
                          /\ At(w, s) \in C
    BY <1>2, <2>1, <2>2, <2>3, ReduceAllAt
  <2>5. Take(v, e) = [w EXCEPT !.pend[e.step] = <<>>]
    BY <1>3, <2>4 DEF Take
  <2>6. PICK p : p = [w.pend EXCEPT ![e.step] = <<>>]
    OBVIOUS
  <2>7. Take(v, e) = [steps |-> w.steps, mark |-> w.mark, pend |-> p]
    <3>1. w = [steps |-> w.steps, mark |-> w.mark, pend |-> w.pend]
      BY DEF View
    <3> QED
      BY <2>5, <2>6, <3>1
  <2>8. /\ p \in [Steps -> Seq(Event)]
        /\ \A t \in Steps : p[t] \in Seq(EventsOf(t))
        /\ p[s] \in Seq(R)
    <3>1. \A S : <<>> \in Seq(S)
      OBVIOUS
    <3> QED
      BY <1>1, <2>4, <2>6, <3>1, ViewShape DEF Filed
  <2>9. Take(v, e) \in View
    BY <2>7, <2>8, ViewShape DEF View
  <2> QED
    BY <2>4, <2>7, <2>8, <2>9 DEF Filed, At
<1>4. CASE e.kind # "opened" /\ v.steps[e.step] = NoStep
  <2>1. Take(v, e) = [v EXCEPT !.pend[e.step] = Append(@, e)]
    BY <1>4 DEF Take
  <2>2. PICK p : p = [v.pend EXCEPT ![e.step] = Append(@, e)]
    OBVIOUS
  <2>3. Take(v, e) = [steps |-> v.steps, mark |-> v.mark, pend |-> p]
    <3>1. v = [steps |-> v.steps, mark |-> v.mark, pend |-> v.pend]
      BY DEF View
    <3> QED
      BY <2>1, <2>2, <3>1
  <2>4. /\ p \in [Steps -> Seq(Event)]
        /\ \A t \in Steps : p[t] \in Seq(EventsOf(t))
        /\ p[s] \in Seq(R)
    <3>1. \A S : \A q \in Seq(S) : e \in S => Append(q, e) \in Seq(S)
      OBVIOUS
    <3>2. v.pend \in [Steps -> Seq(Event)]
      BY ViewShape
    <3>3. \A t \in Steps : p[t] = IF t = e.step THEN Append(v.pend[t], e) ELSE v.pend[t]
      BY <1>1, <2>2, <3>2
    <3>4. DOMAIN p = Steps /\ p = [t \in Steps |-> p[t]]
      BY <2>2, <3>2
    <3>5. \A t \in Steps : p[t] \in Seq(EventsOf(t)) /\ p[t] \in Seq(Event)
      BY <1>1, <3>1, <3>2, <3>3 DEF Filed
    <3>6. p[s] \in Seq(R)
      BY <3>1, <3>3
    <3>7. p \in [Steps -> Seq(Event)]
      BY <3>4, <3>5
    <3> QED
      BY <3>5, <3>6, <3>7
  <2>5. Take(v, e) \in View
    BY <2>3, <2>4, ViewShape DEF View
  <2> QED
    BY <2>3, <2>4, <2>5 DEF Filed, At
<1>5. CASE e.kind # "opened" /\ v.steps[e.step] # NoStep
  <2>1. Take(v, e) = Reduce(v, e)
    BY <1>5 DEF Take
  <2> QED
    BY <1>2, <2>1 DEF Filed
<1> QED
  BY <1>3, <1>4, <1>5

LEMMA TakeType ==
  ASSUME NEW v \in View, Filed(v), NEW e \in Event
  PROVE  Take(v, e) \in View /\ Filed(Take(v, e))
<1>1. e.step \in Steps
  BY DEF Event
<1> DEFINE C == {At(x, e.step) : x \in View}
<1>2. Closed(C, Event, e.step)
  BY ReduceIs DEF Closed
<1>3. At(v, e.step) \in C
  OBVIOUS
<1> HIDE DEF C
<1> QED
  BY <1>1, <1>2, <1>3, TakeAt, ViewShape

LEMMA ByNumberType ==
  ASSUME NEW es
  PROVE  ByNumber(es) \in Seq(SUBSET es)
BY StepFeedAssumption DEF ByNumber

LEMMA ReplayType ==
  ASSUME NEW v \in View, Filed(v), NEW es \in SUBSET Event
  PROVE  Replay(v, es) \in View /\ Filed(Replay(v, es))
<1> DEFINE T == {x \in View : Filed(x)}
<1>1. v \in T
  OBVIOUS
<1>2. ASSUME NEW x \in T, NEW S \in SUBSET es PROVE TakeThose(x, S) \in T
  <2>1. CASE S = {}
    BY <2>1 DEF TakeThose
  <2>2. CASE S # {}
    <3>1. PICK e \in S : TakeThose(x, S) = Take(x, e)
      BY <2>2 DEF TakeThose
    <3> QED
      BY <3>1, TakeType
  <2> QED
    BY <2>1, <2>2
<1> HIDE DEF T
<1>3. OfTakeThose!Fold(v, ByNumber(es)) \in T
  BY <1>1, <1>2, ByNumberType, OfTakeThose!FoldStays
<1> QED
  BY <1>3, ReplayIsFold DEF T

LEMMA ReplayAt ==
  ASSUME NEW v \in View, Filed(v), NEW s \in Steps,
         NEW es \in SUBSET Event, NEW R \in SUBSET Event, es \subseteq R,
         v.pend[s] \in Seq(R), NEW C, At(v, s) \in C, Closed(C, R, s)
  PROVE  At(Replay(v, es), s) \in C
<1> DEFINE T == {x \in View : Filed(x) /\ x.pend[s] \in Seq(R) /\ At(x, s) \in C}
<1>1. v \in T
  OBVIOUS
<1>2. ASSUME NEW x \in T, NEW S \in SUBSET es PROVE TakeThose(x, S) \in T
  <2>1. CASE S = {}
    BY <2>1 DEF TakeThose
  <2>2. CASE S # {}
    <3>1. PICK e \in S : TakeThose(x, S) = Take(x, e)
      BY <2>2 DEF TakeThose
    <3> QED
      BY <3>1, TakeAt
  <2> QED
    BY <2>1, <2>2
<1> HIDE DEF T
<1>3. OfTakeThose!Fold(v, ByNumber(es)) \in T
  BY <1>1, <1>2, ByNumberType, OfTakeThose!FoldStays
<1> QED
  BY <1>3, ReplayIsFold DEF T

-----------------------------------------------------------------------------
(* Sound copies.                                                           *)

Below(x, n) == Once(x.text) /\ \A i \in DOMAIN x.text : x.text[i] <= n

Sounds == {p \in Step \X (0..MaxSeq) : Below(p[1], p[2])}

\* Sound copies with the text t, and a watermark that covers n.
Keeps(t, n) == {p \in Sounds : p[1].text = t /\ p[2] >= n}

LEMMA AtType ==
  ASSUME NEW v \in View, NEW s \in Steps
  PROVE  /\ At(v, s) \in Step \X (0..MaxSeq)
         /\ At(v, s)[1] = v.steps[s] /\ At(v, s)[2] = v.mark[s]
BY ViewShape DEF At

LEMMA AppendOnce ==
  ASSUME NEW t \in Seq(1..MaxSeq), NEW n \in 1..MaxSeq, Once(t),
         \A i \in DOMAIN t : t[i] < n
  PROVE  /\ Once(Append(t, n))
         /\ \A i \in DOMAIN Append(t, n) : Append(t, n)[i] <= n
<1>1. /\ DOMAIN Append(t, n) = 1..Len(t) + 1
      /\ DOMAIN t = 1..Len(t) /\ Len(t) \in Nat
      /\ \A i \in 1..Len(t) : Append(t, n)[i] = t[i] /\ t[i] \in Int
      /\ Append(t, n)[Len(t) + 1] = n
  BY StepFeedAssumption
<1>2. n \in Int
  BY StepFeedAssumption
<1> QED
  BY <1>1, <1>2 DEF Once

(* What an event does to a sound text: nothing, a chunk more, or clears it. *)
LEMMA ReducedText ==
  ASSUME NEW x \in Step, NEW e \in Event
  PROVE  \/ Reduced(x, e).text = x.text
         \/ Numbered(e) /\ Reduced(x, e).text = <<>>
         \/ Numbered(e) /\ Reduced(x, e).text = Append(x.text, e.seq)
<1>1. e.kind \in {"opened", "delta", "reset", "closed"}
  BY DEF Event
<1> QED
  BY <1>1, StepShape DEF Reduced, Numbered

LEMMA ReducedBelow ==
  ASSUME NEW x \in Step, NEW e \in Event, NEW m \in 0..MaxSeq, Below(x, m)
  PROVE  /\ ~Numbered(e) => Below(Reduced(x, e), m)
         /\ Numbered(e) /\ m < e.seq => Below(Reduced(x, e), e.seq)
<1>1. e.seq \in 1..MaxSeq /\ MaxSeq \in Nat
  BY StepFeedAssumption DEF Event
<1>2. x.text \in Seq(1..MaxSeq)
  BY StepShape
<1>3. PICK y : y = Reduced(x, e)
  OBVIOUS
<1>4. CASE y.text = x.text
  <2>1. \A i \in DOMAIN x.text : x.text[i] \in Int
    BY <1>1, <1>2
  <2> QED
    BY <1>1, <1>3, <1>4, <2>1 DEF Below
<1>5. CASE Numbered(e) /\ y.text = <<>>
  BY <1>3, <1>5 DEF Below, Once
<1>6. CASE Numbered(e) /\ y.text = Append(x.text, e.seq) /\ m < e.seq
  <2>1. \A i \in DOMAIN x.text : x.text[i] < e.seq
    BY <1>1, <1>2, <1>6 DEF Below
  <2>2. /\ Once(Append(x.text, e.seq))
        /\ \A i \in DOMAIN Append(x.text, e.seq) : Append(x.text, e.seq)[i] <= e.seq
    BY <1>1, <1>2, <2>1, AppendOnce DEF Below
  <2> QED
    BY <1>3, <1>6, <2>2 DEF Below
<1> QED
  BY <1>3, <1>4, <1>5, <1>6, ReducedText

LEMMA SoundsClosed ==
  ASSUME NEW s \in Steps
  PROVE  Closed(Sounds, Event, s)
<1> SUFFICES ASSUME NEW x \in View, NEW e \in Event, e.step = s, At(x, s) \in Sounds
             PROVE  At(Reduce(x, e), s) \in Sounds
  BY DEF Closed
<1>1. x.steps[s] \in Step /\ x.mark[s] \in 0..MaxSeq /\ Below(x.steps[s], x.mark[s])
  BY AtType, ViewShape DEF Sounds
<1>2. CASE Seen(x, e)
  <2>1. Reduce(x, e) = x
    BY <1>2 DEF Reduce
  <2> QED
    BY <2>1
<1>3. CASE ~Seen(x, e)
  <2>1. /\ Reduce(x, e) \in View
        /\ Reduce(x, e).steps[s] = Reduced(x.steps[s], e)
        /\ Reduce(x, e).mark[s] = IF Numbered(e) THEN e.seq ELSE x.mark[s]
    BY <1>3, ReduceIs
  <2>2. Numbered(e) => x.mark[s] < e.seq
    BY <1>1, <1>3, StepFeedAssumption DEF Seen, Event
  <2>3. Below(Reduced(x.steps[s], e), Reduce(x, e).mark[s])
    BY <1>1, <2>1, <2>2, ReducedBelow
  <2> QED
    BY <2>1, <2>3, AtType DEF Sounds
<1> QED
  BY <1>2, <1>3

LEMMA KeepsClosed ==
  ASSUME NEW s \in Steps, NEW t, NEW n \in 0..MaxSeq
  PROVE  Closed(Keeps(t, n), {e \in Event : e.seq <= n}, s)
<1> SUFFICES ASSUME NEW x \in View, NEW e \in Event, e.seq <= n, e.step = s,
                    At(x, s) \in Keeps(t, n)
             PROVE  At(Reduce(x, e), s) \in Keeps(t, n)
  BY DEF Closed
<1>1. /\ x.steps[s] \in Step /\ x.mark[s] \in 0..MaxSeq
      /\ x.steps[s].text = t /\ x.mark[s] >= n
      /\ At(x, s) \in Sounds
  BY AtType, ViewShape DEF Keeps
<1>2. CASE Numbered(e)
  <2>1. Seen(x, e)
    BY <1>1, <1>2, StepFeedAssumption DEF Seen, Event
  <2>2. Reduce(x, e) = x
    BY <2>1 DEF Reduce
  <2> QED
    BY <2>2
<1>3. CASE ~Numbered(e)
  <2>1. /\ Reduce(x, e) \in View
        /\ Reduce(x, e).steps[s] = Reduced(x.steps[s], e)
        /\ Reduce(x, e).mark[s] = x.mark[s]
    BY <1>3, ReduceIs DEF Seen
  <2>2. Reduced(x.steps[s], e).text = t
    BY <1>1, <1>3, ReducedText
  <2>3. At(Reduce(x, e), s) \in Sounds
    BY <1>1, SoundsClosed DEF Closed
  <2> QED
    BY <1>1, <2>1, <2>2, <2>3, AtType DEF Keeps
<1> QED
  BY <1>2, <1>3

-----------------------------------------------------------------------------
(* Summaries. A snapshot of the running turn shows sound text up to its    *)
(* number, and its events of open steps are no newer.                      *)

Copies(all, n) == \A s \in Steps : Below(all[s], n)

SnapOK(a) ==
  /\ a.live => Copies(a.steps, a.seq)
  /\ \A e \in a.opened : e.seq <= a.seq

Replaces(v, a, init) == ~init /\ Stale(v, a)

\* The steps of Applied before the replay.
Base(v, a, init, s) == IF Replaces(v, a, init) THEN Replaced(v, a)[s] ELSE v.steps[s]
MergedIn(v, a, init, s) == Merged(Base(v, a, init, s), a.steps[s])
Shown(v, a, init) ==
  [s \in Steps |-> IF init \/ a.live THEN MergedIn(v, a, init, s)
                                     ELSE Shut(MergedIn(v, a, init, s))]
Marks(v, a, init) == IF Replaces(v, a, init) THEN Bumped(v, a) ELSE v.mark

Start(v, a, init) ==
  [steps |-> Shown(v, a, init), mark |-> Marks(v, a, init), pend |-> v.pend]

LEMMA AppliedIs ==
  ASSUME NEW v \in View, NEW a \in Snap, NEW init \in BOOLEAN
  PROVE  Applied(v, a, init) = Replay(Start(v, a, init), IF init THEN {} ELSE a.opened)
<1>1. \A S, M : [v EXCEPT !.steps = S, !.mark = M]
                  = [steps |-> S, mark |-> M, pend |-> v.pend]
  <2> SUFFICES ASSUME NEW S, NEW M
               PROVE  [v EXCEPT !.steps = S, !.mark = M]
                        = [steps |-> S, mark |-> M, pend |-> v.pend]
    OBVIOUS
  <2>1. PICK p : p = v.pend
    OBVIOUS
  <2>2. v = [steps |-> v.steps, mark |-> v.mark, pend |-> p]
    BY <2>1 DEF View
  <2>3. PICK w : w = [v EXCEPT !.steps = S]
    OBVIOUS
  <2>4. w = [steps |-> S, mark |-> v.mark, pend |-> p]
    BY <2>2, <2>3
  <2>5. [w EXCEPT !.mark = M] = [steps |-> S, mark |-> M, pend |-> p]
    BY <2>4
  <2> QED
    BY <2>1, <2>3, <2>5
<1>2. [v EXCEPT !.steps = Shown(v, a, init), !.mark = Marks(v, a, init)]
        = Start(v, a, init)
  BY <1>1 DEF Start
<1> DEFINE base == IF Replaces(v, a, init) THEN Replaced(v, a) ELSE v.steps
           merged == [s \in Steps |-> Merged(base[s], a.steps[s])]
           closed == [s \in Steps |-> IF init \/ a.live THEN merged[s] ELSE Shut(merged[s])]
<1>3. closed = Shown(v, a, init)
  BY DEF Shown, MergedIn, Base
<1>4. Applied(v, a, init)
        = Replay([v EXCEPT !.steps = closed, !.mark = Marks(v, a, init)],
                 IF init THEN {} ELSE a.opened)
  BY Zenon DEF Applied, Replaces, Marks
<1> HIDE DEF closed
<1> QED
  BY <1>2, <1>3, <1>4

LEMMA MaxOfTwo ==
  ASSUME NEW m \in Int, NEW n \in Int
  PROVE  Max({m, n}) = IF m >= n THEN m ELSE n
<1>1. \E x \in {m, n} : \A y \in {m, n} : x >= y
  OBVIOUS
<1>2. Max({m, n}) \in {m, n} /\ \A y \in {m, n} : Max({m, n}) >= y
  BY <1>1, Zenon DEF Max
<1> QED
  BY <1>2

LEMMA MarksAre ==
  ASSUME NEW v \in View, NEW a \in Snap, NEW init \in BOOLEAN
  PROVE  /\ Marks(v, a, init) \in [Steps -> 0..MaxSeq]
         /\ \A s \in Steps :
              /\ Marks(v, a, init)[s] >= v.mark[s]
              /\ Replaces(v, a, init) /\ v.steps[s] # NoStep => Marks(v, a, init)[s] >= a.seq
<1>1. a.seq \in 0..MaxSeq /\ MaxSeq \in Nat
  BY StepFeedAssumption DEF Snap
<1>2. CASE Replaces(v, a, init)
  <2>1. \A s \in Steps : Bumped(v, a)[s] = IF v.steps[s] # NoStep THEN Max({v.mark[s], a.seq})
                                                                ELSE v.mark[s]
    BY DEF Bumped, Held
  <2>2. \A s \in Steps : /\ Max({v.mark[s], a.seq}) \in 0..MaxSeq
                         /\ Max({v.mark[s], a.seq}) >= v.mark[s]
                         /\ Max({v.mark[s], a.seq}) >= a.seq
    BY <1>1, MaxOfTwo, ViewShape
  <2>3. Bumped(v, a) = [s \in Steps |-> Bumped(v, a)[s]]
    BY DEF Bumped
  <2>4. \A s \in Steps : v.mark[s] \in 0..MaxSeq
    BY ViewShape
  <2>5. Bumped(v, a) \in [Steps -> 0..MaxSeq]
    BY <2>1, <2>2, <2>3, <2>4
  <2>6. \A s \in Steps : v.mark[s] >= v.mark[s]
    BY <1>1, <2>4
  <2> QED
    BY <1>2, <2>1, <2>2, <2>5, <2>6 DEF Marks
<1>3. CASE ~Replaces(v, a, init)
  <2>1. \A s \in Steps : v.mark[s] >= v.mark[s]
    BY <1>1, ViewShape
  <2> QED
    BY <1>3, <2>1, ViewShape DEF Marks
<1> QED
  BY <1>2, <1>3

LEMMA ShutIs ==
  ASSUME NEW x \in Step
  PROVE  Shut(x) \in Step /\ Shut(x).text = x.text
BY StepShape DEF Shut, Step

LEMMA ShownType ==
  ASSUME NEW v \in View, NEW a \in Snap, NEW init \in BOOLEAN, NEW s \in Steps
  PROVE  /\ Base(v, a, init, s) \in Step
         /\ MergedIn(v, a, init, s) \in Step
         /\ Shown(v, a, init)[s] \in Step
         /\ Shown(v, a, init)[s].text = MergedIn(v, a, init, s).text
<1>1. a.steps[s] \in Step /\ v.steps[s] \in Step
  BY ViewShape DEF Snap, StepMap
<1>2. Base(v, a, init, s) \in Step
  BY <1>1 DEF Base, Replaced
<1>3. MergedIn(v, a, init, s) \in Step
  BY <1>1, <1>2 DEF MergedIn, Merged
<1> QED
  BY <1>2, <1>3, ShutIs DEF Shown

LEMMA StartType ==
  ASSUME NEW v \in View, Filed(v), NEW a \in Snap, NEW init \in BOOLEAN
  PROVE  /\ Start(v, a, init) \in View
         /\ Filed(Start(v, a, init))
         /\ Start(v, a, init).pend = v.pend
         /\ Start(v, a, init).steps = Shown(v, a, init)
         /\ Start(v, a, init).mark = Marks(v, a, init)
<1>1. Shown(v, a, init) \in StepMap
  <2>1. Shown(v, a, init) = [s \in Steps |-> Shown(v, a, init)[s]]
    BY DEF Shown
  <2> QED
    BY <2>1, ShownType DEF StepMap
<1> QED
  BY <1>1, MarksAre, ViewShape DEF Start, View, Filed

LEMMA AppliedType ==
  ASSUME NEW v \in View, Filed(v), NEW a \in Snap, NEW init \in BOOLEAN
  PROVE  Applied(v, a, init) \in View /\ Filed(Applied(v, a, init))
<1>1. (IF init THEN {} ELSE a.opened) \in SUBSET Event
  BY DEF Snap
<1> QED
  BY <1>1, AppliedIs, StartType, ReplayType

LEMMA BelowMore ==
  ASSUME NEW x \in Step, NEW m \in 0..MaxSeq, NEW n \in 0..MaxSeq, m <= n, Below(x, m)
  PROVE  Below(x, n)
<1>1. \A i \in DOMAIN x.text : x.text[i] \in Int
  BY StepShape, StepFeedAssumption
<1> QED
  BY <1>1, StepFeedAssumption DEF Below

LEMMA StartAt ==
  ASSUME NEW v \in View, Filed(v), NEW a \in Snap, NEW init \in BOOLEAN, NEW s \in Steps
  PROVE  /\ At(Start(v, a, init), s) \in Step \X (0..MaxSeq)
         /\ At(Start(v, a, init), s)[1].text = MergedIn(v, a, init, s).text
         /\ At(Start(v, a, init), s)[2] = Marks(v, a, init)[s]
BY StartType, AtType, ShownType

(* A step the summary does not change keeps its soundness.                 *)
LEMMA KeptIsSound ==
  ASSUME NEW v \in View, Filed(v), NEW a \in Snap, NEW init \in BOOLEAN, NEW s \in Steps,
         At(v, s) \in Sounds, MergedIn(v, a, init, s) = v.steps[s]
  PROVE  At(Start(v, a, init), s) \in Sounds
<1>1. v.steps[s] \in Step /\ v.mark[s] \in 0..MaxSeq /\ Below(v.steps[s], v.mark[s])
  BY AtType, ViewShape DEF Sounds
<1>2. Marks(v, a, init)[s] \in 0..MaxSeq /\ Marks(v, a, init)[s] >= v.mark[s]
  BY MarksAre
<1>3. Below(v.steps[s], Marks(v, a, init)[s])
  BY <1>1, <1>2, BelowMore, StepFeedAssumption
<1> QED
  BY <1>3, StartAt DEF Sounds, Below

(* A held step that the summary replaces has the summary's text and a      *)
(* watermark that covers the summary.                                      *)
LEMMA ReplacedIsSound ==
  ASSUME NEW v \in View, Filed(v), NEW a \in Snap, SnapOK(a), NEW init \in BOOLEAN,
         NEW s \in Steps, Replaces(v, a, init), v.steps[s] # NoStep, a.steps[s] # NoStep
  PROVE  At(Start(v, a, init), s) \in Keeps(a.steps[s].text, a.seq)
<1>1. a.live /\ a.seq \in 0..MaxSeq /\ a.steps[s] \in Step
  BY DEF Replaces, Stale, Snap, StepMap
<1>2. MergedIn(v, a, init, s) = a.steps[s]
  BY DEF MergedIn, Merged, Base, Replaced
<1>3. Marks(v, a, init)[s] \in 0..MaxSeq /\ Marks(v, a, init)[s] >= a.seq
  BY MarksAre
<1>4. Below(a.steps[s], Marks(v, a, init)[s])
  <2>1. Below(a.steps[s], a.seq)
    BY <1>1 DEF SnapOK, Copies
  <2> QED
    BY <1>1, <1>3, <2>1, BelowMore, StepFeedAssumption
<1> QED
  BY <1>2, <1>3, <1>4, StartAt DEF Keeps, Sounds, Below

-----------------------------------------------------------------------------
(* The inductive invariant: the agent's text is in order and older than    *)
(* what the outbox holds, so that a snapshot's number covers its text; the *)
(* client parks events with the step they wait for.                        *)

OutboxOK ==
  /\ \A i \in DOMAIN outbox : outbox[i].seq <= seq
  /\ \A i, j \in DOMAIN outbox : i < j => outbox[i].seq < outbox[j].seq
  /\ \A s \in Steps, i \in DOMAIN outbox :
       \A j \in DOMAIN steps[s].text : steps[s].text[j] < outbox[i].seq

OpenedOK == \A e \in opened : e.seq <= seq

GotOK == fetch # NoFetch /\ fetch.got # NoAnswer => SnapOK(fetch.got)

FeedInv ==
  /\ TypeOK
  /\ Copies(steps, seq) /\ OutboxOK /\ OpenedOK
  /\ SnapOK(snap) /\ GotOK
  /\ Filed(view)

LEMMA InitFeed == Init => FeedInv
<1> SUFFICES ASSUME Init PROVE FeedInv
  OBVIOUS
<1>1. {MaxSeq, MaxLag, MaxAsks, MaxFaults} \subseteq Nat
  BY StepFeedAssumption
<1>2. NoSteps \in StepMap /\ \A s \in Steps : NoSteps[s].text = <<>>
  BY NoStepType DEF NoSteps, NoStep
<1>3. \A S : <<>> \in Seq(S)
  OBVIOUS
<1>4. snap \in Snap
  BY <1>1, <1>2 DEF Init, Snap
<1>5. /\ view \in View
      /\ \A s \in Steps : view.pend[s] = <<>>
  BY <1>1, <1>2, <1>3 DEF Init, View
<1>6. fetch \in Fetch /\ fetch.got = NoAnswer
  BY DEF Init, Fetch
<1>7. TypeOK
  <2>1. seq \in 0..MaxSeq /\ asks \in 0..MaxAsks /\ faults \in 0..MaxFaults
    BY <1>1 DEF Init
  <2>2. outbox \in Seq(Event) /\ opened \subseteq Event /\ wire \in Seq(Event)
    BY <1>3 DEF Init
  <2>3. steps \in StepMap /\ {over, sub, parked} \subseteq BOOLEAN
    BY <1>2 DEF Init
  <2> QED
    BY <1>4, <1>5, <1>6, <2>1, <2>2, <2>3 DEF TypeOK
<1>8. Copies(NoSteps, 0)
  BY <1>2 DEF Copies, Below, Once
<1>9. Copies(steps, seq) /\ SnapOK(snap) /\ OutboxOK /\ OpenedOK
  BY <1>8 DEF Init, SnapOK, OutboxOK, OpenedOK
<1>10. GotOK /\ Filed(view)
  BY <1>3, <1>5, <1>6 DEF GotOK, Filed
<1> QED
  BY <1>7, <1>9, <1>10 DEF FeedInv

(* The steps as the engine knows them are in order too, up to the last     *)
(* number given out.                                                       *)
LEMMA MadeOK ==
  ASSUME FeedInv
  PROVE  Made \in StepMap /\ Copies(Made, seq)
<1> DEFINE n == Len(outbox)
           Older(all, k) == \A s \in Steps, i \in DOMAIN outbox :
                              k < i => \A j \in DOMAIN all[s].text : all[s].text[j] < outbox[i].seq
           T == [k \in 0..n |-> {all \in StepMap : Copies(all, seq) /\ Older(all, k)}]
<1>1. /\ outbox \in Seq(Event) /\ n \in Nat /\ DOMAIN outbox = 1..n
      /\ steps \in StepMap /\ seq \in 0..MaxSeq /\ MaxSeq \in Nat
      /\ \A i \in 1..n : outbox[i] \in Event
  BY StepFeedAssumption DEF FeedInv, TypeOK
<1>2. steps \in T[0]
  BY <1>1 DEF FeedInv, OutboxOK
<1>3. ASSUME NEW k \in 1..n, NEW all \in T[k - 1] PROVE OnStep(all, outbox[k]) \in T[k]
  <2>1. k - 1 \in 0..n /\ k \in 0..n /\ k - 1 < k
    BY <1>1
  <2>2. all \in StepMap /\ Copies(all, seq) /\ Older(all, k - 1)
    BY <2>1
  <2> HIDE DEF Older
  <2>3. PICK e \in Event : e = outbox[k]
    BY <1>1
  <2>4. PICK new \in StepMap : /\ new = OnStep(all, e)
                               /\ \A s \in Steps : new[s] = IF s = e.step THEN Reduced(all[s], e)
                                                                         ELSE all[s]
    BY <2>2, OnStepType
  <2>5. e.seq \in 1..MaxSeq /\ e.seq <= seq
    BY <1>1, <2>3 DEF FeedInv, OutboxOK, Event
  <2>6. ASSUME NEW s \in Steps
        PROVE  /\ Below(new[s], seq)
               /\ \A i \in DOMAIN outbox :
                    k < i => \A j \in DOMAIN new[s].text : new[s].text[j] < outbox[i].seq
    <3>1. all[s] \in Step /\ Below(all[s], seq) /\ new[s] \in Step
      BY <2>2, <2>4 DEF StepMap, Copies
    <3>2. PICK t \in Seq(1..MaxSeq) : t = all[s].text
      BY <3>1, StepShape
    <3>3. \A i \in DOMAIN outbox : k <= i => \A j \in DOMAIN t : t[j] < outbox[i].seq
      BY <1>1, <2>1, <2>2, <3>2 DEF Older
    <3>4. \A i \in DOMAIN outbox : k < i => e.seq < outbox[i].seq
      BY <1>1, <2>3 DEF FeedInv, OutboxOK
    <3>5. Once(t) /\ \A j \in DOMAIN t : t[j] <= seq
      BY <3>1, <3>2 DEF Below
    <3>6. new[s].text \in {t, <<>>, Append(t, e.seq)}
      BY <2>4, <3>1, <3>2, ReducedText
    <3>7. CASE new[s].text = t
      BY <1>1, <3>3, <3>5, <3>7 DEF Below
    <3>8. CASE new[s].text = <<>>
      BY <3>8 DEF Below, Once
    <3>9. CASE new[s].text = Append(t, e.seq)
      <4>1. \A j \in DOMAIN t : t[j] < e.seq
        <5>1. k \in DOMAIN outbox /\ k <= k
          BY <1>1
        <5> QED
          BY <2>3, <3>3, <5>1
      <4>2. /\ Once(Append(t, e.seq))
            /\ \A j \in DOMAIN Append(t, e.seq) : Append(t, e.seq)[j] <= e.seq
        BY <2>5, <3>5, <4>1, AppendOnce
      <4>3. \A j \in DOMAIN Append(t, e.seq) : Append(t, e.seq)[j] \in Int
        <5>1. Append(t, e.seq) \in Seq(1..MaxSeq)
          BY <2>5
        <5> QED
          BY <1>1, <5>1
      <4>4. \A i \in DOMAIN outbox : outbox[i].seq \in Int
        BY <1>1 DEF Event
      <4>5. seq \in Int /\ e.seq \in Int
        BY <1>1, <2>5
      <4>6. Below(new[s], seq)
        BY <2>5, <3>9, <4>2, <4>3, <4>5 DEF Below
      <4>7. \A i \in DOMAIN outbox :
              k < i => \A j \in DOMAIN new[s].text : new[s].text[j] < outbox[i].seq
        BY <3>4, <3>9, <4>2, <4>3, <4>4, <4>5
      <4> QED
        BY <4>6, <4>7
    <3> QED
      BY <3>6, <3>7, <3>8, <3>9
  <2>7. Copies(new, seq) /\ Older(new, k)
    BY <2>6 DEF Copies, Older
  <2> QED
    BY <2>1, <2>3, <2>4, <2>7
<1> HIDE DEF T
<1>4. OfOnStep!Fold(steps, outbox) \in T[n]
  BY <1>1, <1>2, <1>3, OfOnStep!FoldAlong
<1>5. Made \in T[n]
  BY <1>4, OnStepsIsFold DEF Made
<1> QED
  BY <1>1, <1>5 DEF T

-----------------------------------------------------------------------------
(* Every step keeps the invariant. The agent's steps first.                *)

AgentType ==
  /\ seq \in 0..MaxSeq
  /\ outbox \in Seq(Event) /\ opened \subseteq Event
  /\ steps \in StepMap /\ over \in BOOLEAN
  /\ snap \in Snap

RestType ==
  /\ wire \in Seq(Event) /\ {sub, parked} \subseteq BOOLEAN
  /\ view \in View
  /\ fetch \in Fetch \cup {NoFetch}
  /\ asks \in 0..MaxAsks /\ faults \in 0..MaxFaults

AgentInv == AgentType /\ Copies(steps, seq) /\ OutboxOK /\ OpenedOK /\ SnapOK(snap)
ClientInv == RestType /\ GotOK /\ Filed(view)

LEMMA FeedParts ==
  /\ FeedInv <=> AgentInv /\ ClientInv
  /\ FeedInv' <=> AgentInv' /\ ClientInv'
BY DEF FeedInv, TypeOK, AgentInv, ClientInv, AgentType, RestType

LEMMA AgentKept ==
  AgentInv /\ UNCHANGED agent => AgentInv'
BY DEF AgentInv, AgentType, OutboxOK, OpenedOK, SnapOK, Copies, agent

LEMMA ClientKept ==
  ClientInv /\ UNCHANGED <<client, sub, asks, faults>> /\ wire' \in Seq(Event) => ClientInv'
BY DEF ClientInv, RestType, GotOK, SnapOK, Copies, Filed, client

LEMMA SnapshotOK ==
  ASSUME FeedInv, NEW all \in StepMap, Copies(all, seq), NEW live \in BOOLEAN
  PROVE  Snapshot(all, live) \in Snap /\ SnapOK(Snapshot(all, live))
<1>1. seq \in 0..MaxSeq /\ 0 \in 0..MaxSeq /\ opened \subseteq Event
  BY StepFeedAssumption DEF FeedInv, TypeOK
<1>2. PICK a : a = Snapshot(all, live)
  OBVIOUS
<1>3. /\ a \in Snap
      /\ a.steps = all /\ a.live = live
      /\ a.seq = (IF live THEN seq ELSE 0) /\ a.opened = (IF live THEN opened ELSE {})
  BY <1>1, <1>2 DEF Snapshot, Snap
<1>4. SnapOK(a)
  BY <1>3 DEF SnapOK, FeedInv, OpenedOK
<1> QED
  BY <1>2, <1>3, <1>4

LEMMA CopiesMore ==
  ASSUME NEW all \in StepMap, NEW m \in 0..MaxSeq, NEW n \in 0..MaxSeq, m <= n,
         Copies(all, m)
  PROVE  Copies(all, n)
BY BelowMore DEF Copies, StepMap

LEMMA EmitInv ==
  ASSUME FeedInv, NEW s \in Steps, NEW k \in {"opened", "delta", "reset", "closed"}, Emit(k, s)
  PROVE  FeedInv'
<1>1. /\ seq \in 0..MaxSeq /\ MaxSeq \in Nat /\ seq < MaxSeq
      /\ outbox \in Seq(Event) /\ opened \subseteq Event /\ steps \in StepMap
  BY StepFeedAssumption DEF Emit, FeedInv, TypeOK
<1>2. PICK e : /\ e = [kind |-> k, step |-> s, seq |-> seq + 1]
               /\ outbox' = Append(outbox, e)
               /\ opened' \subseteq opened \cup {e}
  BY DEF Emit
<1>3. e \in Event /\ e.seq = seq + 1 /\ seq + 1 \in 0..MaxSeq /\ seq' = seq + 1
  BY <1>1, <1>2 DEF Event, Emit
<1>4. /\ DOMAIN outbox = 1..Len(outbox) /\ DOMAIN outbox' = 1..(Len(outbox) + 1)
      /\ Len(outbox) \in Nat
      /\ \A i \in 1..Len(outbox) : outbox'[i] = outbox[i]
      /\ outbox'[Len(outbox) + 1] = e
      /\ outbox' \in Seq(Event)
  BY <1>1, <1>2, <1>3
<1>5. AgentType'
  BY <1>1, <1>2, <1>3, <1>4 DEF AgentType, Emit, FeedInv, TypeOK
<1>6. Copies(steps, seq)'
  <2>1. Copies(steps, seq + 1)
    BY <1>1, <1>3, CopiesMore DEF FeedInv
  <2> QED
    BY <1>3, <2>1 DEF Emit, Copies
<1>7. OutboxOK'
  <2>1. \A i \in 1..Len(outbox) : outbox[i].seq \in Int /\ outbox[i].seq <= seq
    <3>1. \A i \in 1..Len(outbox) : outbox[i] \in Event
      BY <1>1
    <3> QED
      BY <1>1, <1>4, <3>1 DEF FeedInv, OutboxOK, Event
  <2>2. \A i \in DOMAIN outbox' : outbox'[i].seq <= seq'
    BY <1>1, <1>3, <1>4, <2>1
  <2>3. \A i, j \in DOMAIN outbox' : i < j => outbox'[i].seq < outbox'[j].seq
    <3>1. \A i, j \in 1..Len(outbox) : i < j => outbox[i].seq < outbox[j].seq
      BY <1>4 DEF FeedInv, OutboxOK
    <3> QED
      BY <1>1, <1>3, <1>4, <2>1, <3>1
  <2>4. ASSUME NEW t \in Steps, NEW i \in DOMAIN outbox', NEW j \in DOMAIN steps[t].text
        PROVE  steps[t].text[j] < outbox'[i].seq
    <3>1. steps[t].text[j] \in Int /\ steps[t].text[j] <= seq
      BY <1>1, StepShape DEF FeedInv, Copies, Below, StepMap
    <3>2. CASE i \in 1..Len(outbox)
      BY <1>4, <3>2 DEF FeedInv, OutboxOK
    <3>3. CASE i = Len(outbox) + 1
      BY <1>1, <1>3, <1>4, <3>1, <3>3
    <3> QED
      BY <1>4, <3>2, <3>3
  <2> QED
    BY <2>2, <2>3, <2>4 DEF OutboxOK, Emit
<1>8. OpenedOK'
  <2>1. \A o \in opened : o.seq \in Int /\ o.seq <= seq
    BY <1>1 DEF FeedInv, OpenedOK, Event
  <2> QED
    BY <1>1, <1>2, <1>3, <2>1 DEF OpenedOK
<1>9. SnapOK(snap)'
  BY DEF FeedInv, SnapOK, Copies, Emit
<1>10. ClientInv'
  BY FeedParts, ClientKept DEF Emit, client, ClientInv, RestType
<1> QED
  BY <1>5, <1>6, <1>7, <1>8, <1>9, <1>10, FeedParts DEF AgentInv

LEMMA FlushInv ==
  ASSUME FeedInv, Flush
  PROVE  FeedInv'
<1>1. Made \in StepMap /\ Copies(Made, seq)
  BY MadeOK
<1>2. snap' \in Snap /\ SnapOK(snap')
  BY <1>1, SnapshotOK DEF Flush, FeedInv, TypeOK
<1>3. wire' \in Seq(Event)
  BY DEF Flush, FeedInv, TypeOK
<1>4. AgentType'
  BY <1>1, <1>2 DEF AgentType, Flush, FeedInv, TypeOK
<1>5. Copies(steps, seq)' /\ SnapOK(snap)'
  BY <1>1, <1>2 DEF Flush, Copies, SnapOK
<1>6. OutboxOK' /\ OpenedOK'
  BY DEF Flush, OutboxOK, OpenedOK, FeedInv
<1>7. ClientInv'
  BY <1>3, FeedParts, ClientKept DEF Flush, client
<1> QED
  BY <1>4, <1>5, <1>6, <1>7, FeedParts DEF AgentInv

LEMMA SnapshotInv ==
  ASSUME FeedInv, TakeSnapshot \/ End
  PROVE  FeedInv'
<1>1. PICK live \in BOOLEAN : snap' = Snapshot(steps, live)
  BY DEF TakeSnapshot, End
<1>2. snap' \in Snap /\ SnapOK(snap')
  BY <1>1, SnapshotOK DEF FeedInv, TypeOK
<1>3. /\ UNCHANGED <<seq, outbox, opened, steps, sub, wire, client, asks, faults>>
      /\ over' \in BOOLEAN
  BY DEF TakeSnapshot, End, FeedInv, TypeOK
<1>4. AgentType'
  BY <1>2, <1>3 DEF AgentType, FeedInv, TypeOK
<1>5. Copies(steps, seq)' /\ SnapOK(snap)' /\ OutboxOK' /\ OpenedOK'
  BY <1>2, <1>3 DEF Copies, SnapOK, OutboxOK, OpenedOK, FeedInv
<1>6. ClientInv'
  BY <1>3, FeedParts, ClientKept DEF client, ClientInv, RestType
<1> QED
  BY <1>4, <1>5, <1>6, FeedParts DEF AgentInv

-----------------------------------------------------------------------------
(* The client's steps.                                                     *)

LEMMA ReceiveInv ==
  ASSUME FeedInv, Receive
  PROVE  FeedInv' /\ view' = Take(view, Head(wire)) /\ Head(wire) \in Event
<1>1. /\ wire \in Seq(Event) /\ wire # <<>> /\ view \in View /\ Filed(view)
      /\ wire' = Tail(wire) /\ view' = Take(view, Head(wire))
  BY DEF Receive, FeedInv, TypeOK
<1>2. Head(wire) \in Event /\ wire' \in Seq(Event)
  BY <1>1
<1>3. view' \in View /\ Filed(view')
  BY <1>1, <1>2, TakeType
<1>4. UNCHANGED <<agent, sub, fetch, parked, asks, faults>>
  BY DEF Receive
<1>5. ClientInv'
  <2>1. RestType'
    BY <1>2, <1>3, <1>4 DEF RestType, FeedInv, TypeOK
  <2>2. GotOK' /\ Filed(view)'
    BY <1>3, <1>4 DEF GotOK, SnapOK, Copies, Filed, FeedInv
  <2> QED
    BY <2>1, <2>2 DEF ClientInv
<1> QED
  BY <1>1, <1>2, <1>4, <1>5, FeedParts, AgentKept

LEMMA DeliverInv ==
  ASSUME FeedInv, Deliver
  PROVE  /\ FeedInv'
         /\ fetch.got \in Snap /\ SnapOK(fetch.got) /\ fetch.init \in BOOLEAN
         /\ view' = Applied(view, fetch.got, fetch.init)
<1>1. fetch \in Fetch /\ fetch.got # NoAnswer
  BY DEF Deliver, FeedInv, TypeOK
<1>2. /\ fetch.got \in Snap /\ SnapOK(fetch.got) /\ fetch.init \in BOOLEAN
      /\ fetch.gate \in BOOLEAN
  BY <1>1 DEF Fetch, Deliver, FeedInv, GotOK
<1>3. view' = Applied(view, fetch.got, fetch.init)
  BY DEF Deliver
<1>4. view' \in View /\ Filed(view')
  BY <1>2, <1>3, AppliedType DEF FeedInv, TypeOK
<1>5. UNCHANGED <<agent, sub, wire, asks, faults>> /\ fetch' = NoFetch /\ parked' \in BOOLEAN
  BY <1>2 DEF Deliver, FeedInv, TypeOK
<1>6. ClientInv'
  <2>1. RestType'
    BY <1>4, <1>5 DEF RestType, FeedInv, TypeOK
  <2>2. GotOK' /\ Filed(view)'
    BY <1>4, <1>5 DEF GotOK, Filed
  <2> QED
    BY <2>1, <2>2 DEF ClientInv
<1> QED
  BY <1>2, <1>3, <1>5, <1>6, FeedParts, AgentKept

LEMMA AskIs ==
  ASSUME NEW g \in BOOLEAN, Ask(g)
  PROVE  fetch' \in Fetch /\ fetch'.got = NoAnswer
BY DEF Ask, Fetch

LEMMA AnswerIs ==
  ASSUME FeedInv, Answer
  PROVE  fetch' \in Fetch /\ fetch'.got \in Snap /\ SnapOK(fetch'.got)
<1>1. fetch \in Fetch /\ snap \in Snap /\ SnapOK(snap)
  BY DEF Answer, FeedInv, TypeOK
<1>2. PICK a : a = [snap EXCEPT !.opened = IF fetch.known THEN @ ELSE {}]
  OBVIOUS
<1>3. /\ a \in Snap /\ a.steps = snap.steps /\ a.seq = snap.seq /\ a.live = snap.live
      /\ a.opened \subseteq snap.opened
  BY <1>1, <1>2 DEF Snap
<1>4. SnapOK(a)
  BY <1>1, <1>3 DEF SnapOK
<1>5. fetch' = [fetch EXCEPT !.got = a]
  BY <1>2 DEF Answer
<1>6. fetch' \in Fetch /\ fetch'.got = a
  BY <1>1, <1>3, <1>5 DEF Fetch
<1> QED
  BY <1>3, <1>4, <1>6

(* Every step of the wire and of requests.                                 *)
Requests == Die \/ Resubscribe \/ TransportBack \/ Reconcile \/ Release \/ Fail \/ Answer

LEMMA RequestsInv ==
  ASSUME FeedInv, Requests
  PROVE  /\ FeedInv' /\ view' = view
         /\ ~Delivering
<1>1. {MaxSeq, MaxLag, MaxAsks, MaxFaults} \subseteq Nat
  BY StepFeedAssumption
<1>2. UNCHANGED <<agent, view>>
  BY DEF Requests, Die, Resubscribe, TransportBack, Reconcile, Release, Fail, Answer, client
<1>3. asks' \in 0..MaxAsks
  <2>1. asks' = asks \/ (asks < MaxAsks /\ asks' = asks + 1)
    BY DEF Requests, Die, Resubscribe, TransportBack, Reconcile, Release, Fail, Answer
  <2> QED
    BY <1>1, <2>1 DEF FeedInv, TypeOK
<1>4. faults' \in 0..MaxFaults
  <2>1. faults' = faults \/ (faults < MaxFaults /\ faults' = faults + 1)
    BY DEF Requests, Die, Resubscribe, TransportBack, Reconcile, Release, Fail, Answer, Fault
  <2> QED
    BY <1>1, <2>1 DEF FeedInv, TypeOK
<1>5. {sub', parked'} \subseteq BOOLEAN
  BY DEF Requests, Die, Resubscribe, TransportBack, Reconcile, Release, Fail, Answer,
         client, FeedInv, TypeOK
<1>6. wire' \in Seq(Event)
  <2>1. wire \in Seq(Event)
    BY DEF FeedInv, TypeOK
  <2>2. \A n \in 0..Len(wire) : SubSeq(wire, 1, n) \in Seq(Event)
    BY <2>1
  <2> QED
    BY <2>1, <2>2 DEF Requests, Die, Resubscribe, TransportBack, Reconcile, Release, Fail, Answer
<1>7. /\ fetch' \in Fetch \cup {NoFetch}
      /\ fetch' # NoFetch /\ fetch'.got # NoAnswer => SnapOK(fetch'.got)
      /\ ~Delivering
  <2>1. fetch \in Fetch \cup {NoFetch} /\ faults \in Nat /\ faults # faults + 1
    BY <1>1 DEF FeedInv, TypeOK
  <2>2. CASE Die \/ Release
    <3>1. fetch' = fetch
      BY <2>2 DEF Die, Release, client
    <3>2. ~Delivering
      BY <3>1 DEF Delivering
    <3> QED
      BY <2>1, <3>1, <3>2 DEF FeedInv, GotOK
  <2>3. CASE Resubscribe \/ TransportBack \/ Reconcile
    <3>1. fetch' \in Fetch /\ fetch'.got = NoAnswer
      BY <2>3, AskIs DEF Resubscribe, TransportBack, Reconcile
    <3> QED
      BY <3>1, NoFetchAssumption DEF Delivering
  <2>4. CASE Fail
    BY <2>1, <2>4 DEF Fail, Fault, Delivering
  <2>5. CASE Answer
    BY <2>5, AnswerIs, NoFetchAssumption DEF Delivering
  <2> QED
    BY <2>2, <2>3, <2>4, <2>5 DEF Requests
<1>8. ClientInv'
  <2>1. RestType'
    BY <1>2, <1>3, <1>4, <1>5, <1>6, <1>7 DEF RestType, FeedInv, TypeOK
  <2>2. GotOK' /\ Filed(view)'
    BY <1>2, <1>7 DEF GotOK, SnapOK, Copies, Filed, FeedInv
  <2> QED
    BY <2>1, <2>2 DEF ClientInv
<1> QED
  BY <1>2, <1>7, <1>8, FeedParts, AgentKept

LEMMA AgentSteps ==
  ASSUME FeedInv,
         \/ \E s \in Steps, k \in {"opened", "delta", "reset", "closed"} : Emit(k, s)
         \/ Flush \/ TakeSnapshot \/ End
  PROVE  FeedInv' /\ view' = view /\ ~Delivering
<1>1. FeedInv'
  BY EmitInv, FlushInv, SnapshotInv
<1>2. view' = view /\ fetch' = fetch
  BY DEF Emit, Flush, TakeSnapshot, End, client
<1> QED
  BY <1>1, <1>2 DEF Delivering

(* A step changes the client's copy by one event, or by one summary, or    *)
(* not at all.                                                             *)
LEMMA StepFeedStep ==
  ASSUME FeedInv, [Next]_vars
  PROVE  /\ FeedInv'
         /\ \/ view' = view /\ ~Delivering
            \/ Receive /\ ~Delivering
            \/ Deliver
<1>1. CASE Receive
  <2>1. fetch' = fetch
    BY <1>1 DEF Receive
  <2> QED
    BY <1>1, <2>1, ReceiveInv DEF Delivering
<1>2. CASE Deliver
  BY <1>2, DeliverInv
<1>3. CASE Requests
  BY <1>3, RequestsInv
<1>4. CASE UNCHANGED vars
  <2>1. /\ UNCHANGED <<agent, client, sub, asks, faults>> /\ wire' = wire
        /\ view' = view /\ fetch' = fetch
    BY <1>4 DEF vars, client
  <2>2. FeedInv'
    BY <2>1, FeedParts, AgentKept, ClientKept DEF ClientInv, RestType
  <2> QED
    BY <2>1, <2>2 DEF Delivering
<1> QED
  BY <1>1, <1>2, <1>3, <1>4, AgentSteps DEF Next, Requests

LEMMA FeedInvariant == Spec => []FeedInv
<1>1. FeedInv /\ [Next]_vars => FeedInv'
  BY StepFeedStep
<1> QED
  BY InitFeed, <1>1, PTL DEF Spec

(* The state of agent, wire and client keeps its types, whatever is lost,  *)
(* replayed, parked or answered late.                                      *)
THEOREM StepFeedTypeOK == Spec => []TypeOK
<1>1. FeedInv => TypeOK
  BY DEF FeedInv
<1> QED
  BY FeedInvariant, <1>1, PTL

-----------------------------------------------------------------------------
(* The text of the client's steps.                                         *)

LEMMA SoundIs ==
  ASSUME FeedInv, NEW s \in Steps
  PROVE  Sound(s) <=> At(view, s) \in Sounds
BY AtType DEF FeedInv, TypeOK, Sound, Sounds, Below

LEMMA SoundIsNext ==
  ASSUME FeedInv', NEW s \in Steps
  PROVE  Sound(s)' <=> At(view', s) \in Sounds
<1>1. view' \in View
  BY DEF FeedInv, TypeOK
<1> QED
  BY <1>1, AtType DEF Sound, Sounds, Below

LEMMA FiledType ==
  ASSUME NEW v \in View, NEW s \in Steps
  PROVE  v.pend[s] \in Seq(Event)
BY ViewShape

(* A summary leaves a sound step sound, unless it brings the step as new   *)
(* or closed.                                                              *)
LEMMA DeliverSound ==
  ASSUME FeedInv, Deliver, NEW s \in Steps, At(view, s) \in Sounds, ~ByMerge(s)
  PROVE  At(view', s) \in Sounds
<1> DEFINE a == fetch.got
           init == fetch.init
<1>1. /\ a \in Snap /\ SnapOK(a) /\ init \in BOOLEAN
      /\ view' = Applied(view, a, init)
      /\ view \in View /\ Filed(view)
  BY DeliverInv DEF FeedInv, TypeOK
<1>2. Delivering
  BY DEF Deliver, Delivering
<1>3. /\ a.steps[s] # NoStep => view.steps[s] # NoStep
      /\ a.steps[s] # NoStep /\ ~Replaces(view, a, init) =>
           ~(view.steps[s].state = "open" /\ a.steps[s].state = "closed")
  BY <1>2 DEF ByMerge, Replaces
<1> HIDE DEF a, init
<1>4. At(Start(view, a, init), s) \in Sounds
  <2>1. CASE a.steps[s] = NoStep
    <3>1. MergedIn(view, a, init, s) = view.steps[s]
      BY <2>1 DEF MergedIn, Merged, Base, Replaced, NoStep
    <3> QED
      BY <1>1, <3>1, KeptIsSound
  <2>2. CASE a.steps[s] # NoStep /\ Replaces(view, a, init)
    BY <1>1, <1>3, <2>2, ReplacedIsSound DEF Keeps
  <2>3. CASE a.steps[s] # NoStep /\ ~Replaces(view, a, init)
    <3>1. MergedIn(view, a, init, s) = view.steps[s]
      BY <1>3, <2>3 DEF MergedIn, Merged, Base
    <3> QED
      BY <1>1, <3>1, KeptIsSound
  <2> QED
    BY <2>1, <2>2, <2>3
<1>5. PICK es \in SUBSET Event : Applied(view, a, init) = Replay(Start(view, a, init), es)
  BY <1>1, AppliedIs DEF Snap
<1>6. At(Replay(Start(view, a, init), es), s) \in Sounds
  <2>1. /\ Start(view, a, init) \in View /\ Filed(Start(view, a, init))
        /\ Start(view, a, init).pend[s] \in Seq(Event)
    BY <1>1, StartType, FiledType
  <2> QED
    BY <1>4, <2>1, SoundsClosed, ReplayAt
<1> QED
  BY <1>1, <1>5, <1>6

(* No replay, loss or late answer doubles or reorders the text of a step   *)
(* that is in order, except a summary that brings the step as new or       *)
(* closed without raising its watermark.                                   *)
THEOREM TextStaysSound == Spec => SoundStays
<1>1. ASSUME FeedInv, [Next]_vars, NEW s \in Steps, Sound(s)
      PROVE  Sound(s)' \/ ByMerge(s)
  <2>1. FeedInv'
    BY <1>1, StepFeedStep
  <2>2. At(view, s) \in Sounds
    BY <1>1, SoundIs
  <2>3. CASE view' = view
    BY <2>1, <2>2, <2>3, SoundIsNext
  <2>4. CASE Receive
    <3>1. /\ view' = Take(view, Head(wire)) /\ Head(wire) \in Event
          /\ view \in View /\ Filed(view)
      BY <1>1, <2>4, ReceiveInv DEF FeedInv, TypeOK
    <3>2. At(Take(view, Head(wire)), s) \in Sounds
      BY <2>2, <3>1, FiledType, SoundsClosed, TakeAt
    <3> QED
      BY <2>1, <3>1, <3>2, SoundIsNext
  <2>5. CASE Deliver
    BY <1>1, <2>1, <2>2, <2>5, DeliverSound, SoundIsNext
  <2> QED
    BY <1>1, <2>3, <2>4, <2>5, StepFeedStep
<1>2. FeedInv /\ [Next]_vars =>
        [\A s \in Steps : Sound(s) => Sound(s)' \/ ByMerge(s)]_vars
  BY <1>1
<1> QED
  BY FeedInvariant, <1>2, PTL DEF Spec, SoundStays

(* A snapshot ahead of all the client has seen puts the text of every step *)
(* the client held right, and the replay behind it adds nothing, since the *)
(* watermark covers every event of it.                                     *)
THEOREM SnapshotPutsRight == Spec => SnapshotRestores
<1>1. ASSUME FeedInv, [Next]_vars, Delivering, ~fetch.init, Stale(view, fetch.got),
             NEW s \in Held(view), fetch.got.steps[s] # NoStep, view.pend[s] = <<>>
      PROVE  view.steps[s]'.text = fetch.got.steps[s].text /\ Sound(s)'
  <2> DEFINE a == fetch.got
             init == fetch.init
             R == {e \in Event : e.seq <= a.seq}
  <2>1. FeedInv' /\ Deliver
    BY <1>1, StepFeedStep
  <2>2. /\ a \in Snap /\ SnapOK(a) /\ init \in BOOLEAN
        /\ view' = Applied(view, a, init)
        /\ view \in View /\ Filed(view)
    BY <1>1, <2>1, DeliverInv DEF FeedInv, TypeOK
  <2>3. /\ s \in Steps /\ view.steps[s] # NoStep /\ a.steps[s] # NoStep
        /\ Replaces(view, a, init) /\ ~init
    BY <1>1 DEF Held, Replaces
  <2>4. a.seq \in 0..MaxSeq /\ a.opened \in SUBSET Event /\ a.opened \subseteq R
    BY <2>2 DEF Snap, SnapOK
  <2> HIDE DEF a, init
  <2>5. At(Start(view, a, init), s) \in Keeps(a.steps[s].text, a.seq)
    BY <2>2, <2>3, ReplacedIsSound
  <2>6. /\ Start(view, a, init) \in View /\ Filed(Start(view, a, init))
        /\ Start(view, a, init).pend[s] \in Seq(R)
    <3>1. <<>> \in Seq(R)
      OBVIOUS
    <3>2. Start(view, a, init).pend = view.pend
      BY <2>2, StartType
    <3> QED
      BY <1>1, <2>2, <3>1, <3>2, StartType
  <2>7. Closed(Keeps(a.steps[s].text, a.seq), R, s)
    BY <2>3, <2>4, KeepsClosed
  <2>8. At(Replay(Start(view, a, init), a.opened), s) \in Keeps(a.steps[s].text, a.seq)
    <3>1. R \in SUBSET Event
      OBVIOUS
    <3> HIDE DEF R
    <3> QED
      BY <2>3, <2>4, <2>5, <2>6, <2>7, <3>1, ReplayAt
  <2>9. At(view', s) \in Keeps(a.steps[s].text, a.seq)
    BY <2>2, <2>3, <2>8, AppliedIs
  <2>10. view' \in View
    BY <2>1 DEF FeedInv, TypeOK
  <2>11. view'.steps[s].text = a.steps[s].text /\ At(view', s) \in Sounds
    BY <2>3, <2>9, <2>10, AtType DEF Keeps
  <2> QED
    BY <2>1, <2>3, <2>11, SoundIsNext DEF a
<1>2. FeedInv /\ [Next]_vars =>
        [Delivering /\ ~fetch.init /\ Stale(view, fetch.got) =>
           \A s \in Held(view) :
             fetch.got.steps[s] # NoStep /\ view.pend[s] = <<>> =>
               view.steps[s]'.text = fetch.got.steps[s].text /\ Sound(s)']_vars
  BY <1>1
<1> QED
  BY FeedInvariant, <1>2, PTL DEF Spec, SnapshotRestores
=============================================================================
