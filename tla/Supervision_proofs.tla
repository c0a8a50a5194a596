--------------------------- MODULE Supervision_proofs ---------------------------
(***************************************************************************)
(* Proofs about one supervisor, for any number of sources and any limits   *)
(* of reads and controls.                                                  *)
(*                                                                         *)
(* The inductive invariant Sound says of which task a step goroutine is,   *)
(* that the tasks keep out of each other's way although an abandoned step  *)
(* stays inside its operation, and what the journal holds for the sources  *)
(* a plan has read.  Its hard part is that the run loop looks at pending   *)
(* only when it takes a plan, and a step only at the state and revision.   *)
(***************************************************************************)
EXTENDS Supervision, FiniteSetTheorems, TLAPS

\* Where the run loop works on a plan, and where a check of a candidate does.
Planning   == {"reassessing", "between", "stepping"}
Previewing == {"between", "stepping"}

\* A step that has claimed its read and not heard of it.
Unheard == {"entered", "authorized", "begun", "dispatched", "reading", "observing"}

\* The revision counts the accepted controls, and what works on a plan or on a
\* candidate once was told a revision and a plan of the application.
Counted ==
    /\ app.state = "created" <=> loop.at = "none"
    /\ app.state = "created" =>
          app.revision = 0 /\ app.plan = 0 /\ app.controls = 0 /\ app.reads = 0
    /\ app.state # "created" => app.revision = app.controls + 1 /\ app.plan \in 1..app.revision
    /\ loop.revision <= app.revision /\ preview.revision <= app.revision
    /\ loop.at \in Planning => loop.revision # 0 /\ loop.plan # 0
    /\ preview.at \in Previewing => preview.revision # 0 /\ preview.plan # 0

\* A step is the one its task waits for, or was left inside its operation.
StepsOwned ==
    /\ \A g \in steps : g.kind = "plan" =>
          \/ /\ loop.at = "stepping"
             /\ g.revision = loop.revision /\ g.plan = loop.plan /\ g.source = loop.source
          \/ loop.at \in {"planned", "top", "waiting", "done"} /\ g.at \in Inside
    /\ \A g \in steps : g.kind = "preview" =>
          \/ /\ preview.at = "stepping"
             /\ g.revision = preview.revision /\ g.plan = preview.plan
             /\ g.source = preview.source
          \/ preview.at \in {"ending", "off"} /\ g.at \in Inside
    /\ \A g, h \in steps : g.kind = h.kind => g = h

\* What a step that claimed a read knows, and what a check never does.
StepsKnow ==
    /\ \A g \in steps : g.at \in Inside => g.n = app.reads /\ g.n # 0 /\ g.source <= Sources
    /\ \A g \in steps : g.kind = "preview" =>
          g.at \in {"start", "reading", "leaving", "answered"} /\ g.source <= Sources

\* At most one step is inside an operation, and pending counts it.
InsideCounted ==
    /\ \A g, h \in steps : g.at \in Inside /\ h.at \in Inside => g = h
    /\ app.pending = IF \E g \in steps : g.at \in Inside THEN 1 ELSE 0

\* While the loop works on the current plan, no check of a candidate reads, and
\* what became uncertain did so in the step the plan will fail for.
PlanAlone ==
    loop.at \in Planning /\ loop.revision = app.revision =>
        /\ app.state # "paused"
        /\ \A g \in steps : g.kind = "preview" => g.at \notin Inside
        /\ app.uncertain => \E g \in steps : /\ g.kind = "plan"
                                             /\ g.at \in {"leaving", "answered"} /\ ~g.ok

\* While a candidate of the current revision is checked, no plan reads.
PreviewAlone ==
    preview.at \in Previewing /\ app.state = "paused" /\ preview.revision = app.revision =>
        \A g \in steps : g.kind = "plan" => g.at \notin Inside

\* The context of a plan's task outlives neither its revision nor, once a read
\* is claimed, the running state.
PlanLive ==
    live.plan =>
        /\ loop.at \in {"between", "stepping"}
        /\ loop.revision = app.revision /\ loop.plan = app.plan
        /\ \A g \in steps : g.kind = "plan" /\ g.at \in Unheard \ {"reading", "observing"}
                            => app.state = "running"

\* What is still to be settled has no receipt, and was dispatched before it read.
Unsettled ==
    /\ \A n \in Attempts : n > app.reads => receipts[n] = None
    /\ \A g \in steps : g.kind = "plan" /\ g.at \in Unheard =>
          /\ receipts[g.n] = None
          /\ g.at \in {"dispatched", "reading", "observing"} => phase[g.n] = "dispatched"

\* Source i was read for a revision and a plan, and the journal settled it.
KeptFor(revision, plan, i) ==
    \E n \in Attempts :
        /\ receipts[n] # None
        /\ receipts[n] = [revision |-> revision, plan |-> plan, source |-> i,
                          outcome |-> "succeeded", confirmed |-> TRUE]
        /\ phase[n] = "settled"

\* What a plan has gone past, it has receipts for.
ReadsKept ==
    /\ loop.at \in Planning =>
          \A i \in 1..(loop.source - 1) : KeptFor(loop.revision, loop.plan, i)
    /\ \A g \in steps : g.kind = "plan" /\ g.at \in {"leaving", "answered"} /\ g.ok
                        /\ g.source <= Sources => KeptFor(g.revision, g.plan, g.source)
    /\ loop.at = "planned" /\ loop.ok =>
          \A i \in 1..Sources : KeptFor(loop.revision, loop.plan, i)

\* An application that ended while its plan was being validated has expired.
EndedExpired ==
    loop.at = "reassessing" /\ loop.revision = app.revision /\ app.state \in Terminal
        => app.state = "expired"

\* The inductive invariant.
Sound ==
    /\ TypeOK
    /\ Counted
    /\ StepsOwned
    /\ StepsKnow
    /\ InsideCounted
    /\ PlanAlone
    /\ PreviewAlone
    /\ PlanLive
    /\ Unsettled
    /\ ReadsKept
    /\ EndedExpired
    /\ PreparedOnReceipts
--------------------------------------------------------------------------------
(* The kinds of the variables, and what a record becomes.                     *)

AppType ==
    [state : Terminal \cup {"created", "reassessing", "running", "paused"},
     revision : 0..(Controls + 1), plan : 0..(Controls + 1), pending : 0..Reads,
     uncertain : BOOLEAN, reads : 0..Reads, controls : 0..Controls]
LoopType ==
    [at : {"none", "top", "waiting", "reassessing", "between", "stepping", "planned", "done"},
     revision : 0..(Controls + 1), plan : 0..(Controls + 1), source : 1..(Sources + 1),
     ok : BOOLEAN, woken : BOOLEAN]
PreviewType ==
    [at : {"off", "between", "stepping", "ending"}, revision : 0..(Controls + 1),
     plan : 0..(Controls + 1), source : 1..(Sources + 1)]
StepType ==
    [kind : {"plan", "preview"}, revision : 1..(Controls + 1), plan : 1..(Controls + 1),
     source : 1..(Sources + 1), at : Inside \cup {"start", "answered"},
     n : 0..Reads, outcome : Outcomes, ok : BOOLEAN]

\* TypeOK, with its kinds named.
LEMMA Typed ==
    TypeOK <=> /\ app \in AppType /\ loop \in LoopType /\ preview \in PreviewType
               /\ live \in [plan : BOOLEAN, preview : BOOLEAN]
               /\ steps \subseteq StepType
               /\ Journal!TypeOK
               /\ receipts \in [Attempts -> Receipts \cup {None}]
               /\ over \in BOOLEAN /\ ended \in BOOLEAN
  BY DEF TypeOK, AppType, LoopType, PreviewType, StepType

\* A step keeps the kinds when it keeps each.
LEMMA TypedNext ==
    ASSUME app' \in AppType, loop' \in LoopType, preview' \in PreviewType,
           live' \in [plan : BOOLEAN, preview : BOOLEAN], steps' \subseteq StepType,
           Journal!TypeOK', receipts' \in [Attempts -> Receipts \cup {None}],
           over' \in BOOLEAN, ended' \in BOOLEAN
    PROVE  TypeOK'
  BY DEF TypeOK, AppType, LoopType, PreviewType, StepType

\* What is counted is a number within its limit.
LEMMA AppNumbers ==
    ASSUME NEW a \in AppType
    PROVE  /\ a.revision \in Nat /\ a.revision <= Controls + 1
           /\ a.plan \in Nat /\ a.plan <= Controls + 1
           /\ a.pending \in Nat /\ a.pending <= Reads
           /\ a.reads \in Nat /\ a.reads <= Reads
           /\ a.controls \in Nat /\ a.controls <= Controls
           /\ a.uncertain \in BOOLEAN
           /\ Controls \in Nat /\ Reads \in Nat /\ Sources \in Nat
           /\ Controls # 0 /\ Reads # 0 /\ Sources # 0
  BY LimitsAssumption DEF AppType

\* So is what the run loop remembers.
LEMMA LoopNumbers ==
    ASSUME NEW l \in LoopType
    PROVE  /\ l.revision \in Nat /\ l.plan \in Nat /\ l.source \in Nat
           /\ l.source # 0 /\ l.source <= Sources + 1
           /\ l.ok \in BOOLEAN /\ l.woken \in BOOLEAN
  BY LimitsAssumption DEF LoopType

\* So is what the check of a candidate remembers.
LEMMA PreviewNumbers ==
    ASSUME NEW p \in PreviewType
    PROVE  /\ p.revision \in Nat /\ p.plan \in Nat /\ p.source \in Nat
           /\ p.source # 0 /\ p.source <= Sources + 1
  BY LimitsAssumption DEF PreviewType

\* And what a step was started with; its revision and plan are never zero.
LEMMA StepNumbers ==
    ASSUME NEW g \in StepType
    PROVE  /\ g.revision \in Nat /\ g.plan \in Nat /\ g.source \in Nat /\ g.n \in Nat
           /\ g.n <= Reads /\ g.source # 0 /\ g.source <= Sources + 1
           /\ g.revision # 0 /\ g.plan # 0
           /\ g.ok \in BOOLEAN /\ g.kind \in {"plan", "preview"} /\ g.outcome \in Outcomes
  BY LimitsAssumption DEF StepType

\* Waking the loop changes nothing else of it.
LEMMA Woken ==
    ASSUME NEW l, l = loop \/ l = Signalled, loop \in LoopType
    PROVE  /\ l \in LoopType
           /\ l.at = loop.at /\ l.revision = loop.revision /\ l.plan = loop.plan
           /\ l.source = loop.source /\ l.ok = loop.ok
<1>1. (loop.at = "waiting") \in BOOLEAN
  OBVIOUS
<1>2. CASE l = Signalled
  <2>1. l = [loop EXCEPT !.woken = loop.at = "waiting"]
    BY <1>2 DEF Signalled
  <2>2. l \in LoopType
    BY <1>1, <2>1, Zenon DEF LoopType
  <2> QED
    BY <2>1, <2>2 DEF LoopType
<1> QED
  BY <1>2

\* An application that expires changes in nothing but its state.
LEMMA Expiring ==
    ASSUME app \in AppType, NEW a, a = app \/ a = Expired
    PROVE  /\ a \in AppType
           /\ a.revision = app.revision /\ a.plan = app.plan /\ a.pending = app.pending
           /\ a.uncertain = app.uncertain /\ a.reads = app.reads /\ a.controls = app.controls
           /\ a.state = app.state \/ (a.state = "expired" /\ Expirable)
           /\ app.state \in Terminal \cup {"created"} => a = app
<1>1. CASE a = Expired /\ Expirable
  <2>1. a = [app EXCEPT !.state = "expired"]
    BY <1>1 DEF Expired
  <2>2. a \in AppType
    BY <2>1 DEF AppType, Terminal
  <2> QED
    BY <1>1, <2>1, <2>2 DEF AppType, Expirable
<1> QED
  BY <1>1 DEF Expired

--------------------------------------------------------------------------------
(* A step goes on inside its operation.                                       *)

\* What was kept stays kept when no receipt is touched but one not yet written.
LEMMA KeptStays ==
    ASSUME NEW r, NEW p, NEW i, KeptFor(r, p, i),
           \A n \in Attempts : receipts[n] # None => receipts'[n] = receipts[n] /\ phase'[n] = phase[n]
    PROVE  KeptFor(r, p, i)'
  BY DEF KeptFor

\* A step that has claimed its read takes the next section of it.
LEMMA MoveSound ==
    ASSUME Sound, TypeOK', NEW g \in steps, NEW h,
           Become(g, h),
           g.at \in Unheard, h.at \in Inside, g.kind = "preview" => h.at = "leaving",
           h.at \in Unheard \ {"reading", "observing"} => g.at \notin {"reading", "observing"},
           h.kind = g.kind, h.revision = g.revision, h.plan = g.plan,
           h.source = g.source, h.n = g.n,
           app'.revision = app.revision, app'.plan = app.plan, app'.controls = app.controls,
           app'.pending = app.pending, app'.reads = app.reads,
           app'.state = app.state \/ (app'.state = "exhausted" /\ app.state \notin Terminal
                                      /\ h.at = "leaving"),
           app'.uncertain => app.uncertain \/ (g.kind = "plan" /\ h.at = "leaving" /\ ~h.ok),
           app.state = "created" <=> app'.state = "created",
           loop' = loop \/ loop' = Signalled,
           UNCHANGED <<preview, live>>,
           \A n \in Attempts : n # g.n => receipts'[n] = receipts[n] /\ phase'[n] = phase[n],
           g.kind = "preview" => UNCHANGED <<receipts, phase>>,
           h.kind = "plan" /\ h.at \in Unheard =>
              /\ receipts'[g.n] = None
              /\ h.at \in {"dispatched", "reading", "observing"} => phase'[g.n] = "dispatched",
           h.kind = "plan" /\ h.at = "leaving" /\ h.ok => KeptFor(g.revision, g.plan, g.source)'
    PROVE  Sound'
<1>1. /\ loop'.at = loop.at /\ loop'.revision = loop.revision /\ loop'.plan = loop.plan
      /\ loop'.source = loop.source /\ loop'.ok = loop.ok
  BY Typed, Woken DEF Sound
<1>2. \A f \in steps' : f = h \/ (f \in steps /\ f # g)
  BY DEF Become
<1>3. \A f \in steps : f = g \/ f \in steps'
  BY DEF Become
<1>4. h \in steps' /\ g.at \in Inside /\ g \in StepType
  BY Typed DEF Become, Unheard, Inside, Sound
<1>5. \A f \in steps : f # g => f.at \notin Inside
  BY <1>4 DEF Sound, InsideCounted
<1>6. g.n \in Attempts /\ app.reads \in Nat
  <2>1. g.n # 0 /\ g.n \in Nat /\ g.n <= Reads
    BY <1>4, StepNumbers DEF Sound, StepsKnow
  <2> QED
    BY <2>1, Typed, AppNumbers DEF Attempts, Sound
<1>7. \A n \in Attempts : receipts[n] # None => receipts'[n] = receipts[n] /\ phase'[n] = phase[n]
  <2>1. g.kind = "plan" => receipts[g.n] = None
    BY DEF Sound, Unsettled
  <2>2. g.kind \in {"plan", "preview"}
    BY <1>4, StepNumbers
  <2> QED
    BY <2>1, <2>2
<1>8. Counted'
  BY <1>1 DEF Sound, Counted
<1>9. StepsOwned'
  <2>1. \A f \in steps' : \E e \in steps : /\ e.kind = f.kind /\ e.revision = f.revision
                                           /\ e.plan = f.plan /\ e.source = f.source
                                           /\ e.at \in Inside => f.at \in Inside
    BY <1>2
  <2>2. \A f, e \in steps' : f.kind = e.kind => f = e
    BY <1>2 DEF Sound, StepsOwned
  <2>3. \A f \in steps' : f.kind = "plan" =>
          \/ /\ loop.at = "stepping"
             /\ f.revision = loop.revision /\ f.plan = loop.plan /\ f.source = loop.source
          \/ loop.at \in {"planned", "top", "waiting", "done"} /\ f.at \in Inside
    BY <2>1 DEF Sound, StepsOwned
  <2>4. \A f \in steps' : f.kind = "preview" =>
          \/ /\ preview.at = "stepping"
             /\ f.revision = preview.revision /\ f.plan = preview.plan
             /\ f.source = preview.source
          \/ preview.at \in {"ending", "off"} /\ f.at \in Inside
    BY <2>1 DEF Sound, StepsOwned
  <2> QED
    BY <1>1, <2>2, <2>3, <2>4 DEF StepsOwned
<1>10. StepsKnow'
  BY <1>2, <1>4 DEF Sound, StepsKnow
<1>11. InsideCounted'
  <2>1. \E f \in steps : f.at \in Inside
    BY <1>4
  <2> QED
    BY <1>2, <1>4, <1>5, <2>1 DEF Sound, InsideCounted
<1>12. PlanAlone'
  <2> SUFFICES ASSUME loop.at \in Planning, loop.revision = app.revision
               PROVE  /\ app'.state # "paused"
                      /\ \A f \in steps' : f.kind = "preview" => f.at \notin Inside
                      /\ app'.uncertain => \E f \in steps' : /\ f.kind = "plan"
                                                             /\ f.at \in {"leaving", "answered"}
                                                             /\ ~f.ok
    BY <1>1 DEF PlanAlone
  <2>1. g.kind # "preview" /\ app.state # "paused"
    BY <1>4 DEF Sound, PlanAlone
  <2>2. app.uncertain => \E f \in steps : /\ f.kind = "plan" /\ f # g
                                          /\ f.at \in {"leaving", "answered"} /\ ~f.ok
    BY DEF Sound, PlanAlone, Unheard
  <2> QED
    BY <1>2, <1>3, <1>4, <1>5, <2>1, <2>2
<1>13. PreviewAlone'
  BY <1>1, <1>2, <1>4 DEF Sound, PreviewAlone
<1>14. PlanLive'
  <2> SUFFICES ASSUME live.plan
               PROVE  /\ loop.at \in {"between", "stepping"}
                      /\ loop.revision = app.revision /\ loop.plan = app.plan
                      /\ \A f \in steps' : f.kind = "plan" /\ f.at \in Unheard \ {"reading", "observing"}
                                           => app'.state = "running"
    BY <1>1 DEF PlanLive
  <2>1. ASSUME NEW f \in steps', f.kind = "plan", f.at \in Unheard \ {"reading", "observing"}
        PROVE  app'.state = "running"
    <3>1. f = h
      BY <1>2, <1>5, <2>1 DEF Unheard, Inside
    <3>2. app'.state = app.state
      BY <2>1, <3>1 DEF Unheard
    <3> QED
      BY <2>1, <3>1, <3>2 DEF Sound, PlanLive
  <2> QED
    BY <2>1 DEF Sound, PlanLive
<1>15. Unsettled'
  <2>1. \A n \in Attempts : n > app.reads => receipts'[n] = None
    <3>1. g.n = app.reads
      BY <1>4 DEF Sound, StepsKnow
    <3> QED
      BY <1>6, <3>1 DEF Sound, Unsettled
  <2>2. \A f \in steps' : f.kind = "plan" /\ f.at \in Unheard => f = h
    BY <1>2, <1>5 DEF Unheard, Inside
  <2> QED
    BY <2>1, <2>2 DEF Unsettled
<1>16. ReadsKept'
  <2>1. ASSUME NEW f \in steps', f.kind = "plan", f.at \in {"leaving", "answered"}, f.ok,
               f.source <= Sources
        PROVE  KeptFor(f.revision, f.plan, f.source)'
    <3>1. CASE f = h
      <4>1. f.at = "leaving"
        BY <2>1, <3>1 DEF Inside
      <4> QED
        BY <2>1, <3>1, <4>1
    <3>2. CASE f # h
      BY <1>2, <1>7, <2>1, <3>2, KeptStays DEF Sound, ReadsKept
    <3> QED
      BY <3>1, <3>2
  <2>2. PICK r, p : r = loop.revision /\ p = loop.plan /\ r = loop'.revision /\ p = loop'.plan
    BY <1>1
  <2>3. loop.at \in Planning => \A i \in 1..(loop.source - 1) : KeptFor(r, p, i)'
    BY <1>7, <2>2, KeptStays DEF Sound, ReadsKept
  <2>4. loop.at = "planned" /\ loop.ok => \A i \in 1..Sources : KeptFor(r, p, i)'
    BY <1>7, <2>2, KeptStays DEF Sound, ReadsKept
  <2> QED
    BY <1>1, <2>1, <2>2, <2>3, <2>4 DEF ReadsKept
<1>17. EndedExpired'
  <2>1. loop.at = "reassessing" /\ loop.revision = app.revision => FALSE
    BY <1>4, StepNumbers DEF Sound, PlanAlone, StepsOwned, Planning
  <2> QED
    BY <1>1, <2>1 DEF EndedExpired
<1>18. PreparedOnReceipts'
  <2>1. app'.state # "prepared"
    <3>1. app.pending = 1
      BY <1>4 DEF Sound, InsideCounted
    <3> QED
      BY <3>1 DEF Sound, PreparedOnReceipts
  <2> QED
    BY <2>1 DEF PreparedOnReceipts
<1> QED
  BY <1>8, <1>9, <1>10, <1>11, <1>12, <1>13, <1>14, <1>15, <1>16, <1>17, <1>18 DEF Sound


\* What a step becomes.
Moved(g, x)        == [g EXCEPT !.at = x]
Concluded(g, x, b) == [g EXCEPT !.at = x, !.ok = b]
Observed(g, o)     == [g EXCEPT !.at = "observing", !.outcome = o]

\* It keeps whose step it is, for which source, and which read it claimed.
LEMMA StepMoved ==
    ASSUME NEW g \in StepType, NEW x \in Inside \cup {"start", "answered"}
    PROVE  /\ Moved(g, x) \in StepType
           /\ Moved(g, x).at = x
           /\ Moved(g, x).kind = g.kind /\ Moved(g, x).revision = g.revision
           /\ Moved(g, x).plan = g.plan /\ Moved(g, x).source = g.source
           /\ Moved(g, x).n = g.n /\ Moved(g, x).ok = g.ok
<1>1. Moved(g, x) \in StepType
  BY Zenon DEF StepType, Moved
<1> QED
  BY <1>1 DEF StepType, Moved

\* So it does when its answer is known.
LEMMA StepConcluded ==
    ASSUME NEW g \in StepType, NEW x \in Inside \cup {"start", "answered"}, NEW b \in BOOLEAN
    PROVE  /\ Concluded(g, x, b) \in StepType
           /\ Concluded(g, x, b).at = x /\ Concluded(g, x, b).ok = b
           /\ Concluded(g, x, b).kind = g.kind /\ Concluded(g, x, b).revision = g.revision
           /\ Concluded(g, x, b).plan = g.plan /\ Concluded(g, x, b).source = g.source
           /\ Concluded(g, x, b).n = g.n
<1>1. Concluded(g, x, b) \in StepType
  BY Zenon DEF StepType, Concluded
<1> QED
  BY <1>1 DEF StepType, Concluded

\* So it does when the read returned.
LEMMA StepObserved ==
    ASSUME NEW g \in StepType, NEW o \in Outcomes
    PROVE  /\ Observed(g, o) \in StepType
           /\ Observed(g, o).at = "observing"
           /\ Observed(g, o).kind = g.kind /\ Observed(g, o).revision = g.revision
           /\ Observed(g, o).plan = g.plan /\ Observed(g, o).source = g.source
           /\ Observed(g, o).n = g.n
<1>1. "observing" \in Inside \cup {"start", "answered"}
  BY DEF Inside
<1>2. Observed(g, o) \in StepType
  BY <1>1, Zenon DEF StepType, Observed
<1> QED
  BY <1>2 DEF StepType, Observed

\* The application is authorized, or the step leaves without a read.
LEMMA AuthorizeSound ==
    ASSUME Sound, NEW g \in steps, NEW allowed \in BOOLEAN, Authorize(g, allowed)
    PROVE  Sound'
<1>1. g.at = "entered" /\ g \in StepType /\ g.kind = "plan"
  BY Typed, StepNumbers DEF Authorize, Sound, StepsKnow
<1>2. UNCHANGED <<app, loop, preview, live, phase, sent, receipts, over, ended>>
  BY DEF Authorize, Journaled, Times
<1>3. PICK h : /\ Become(g, h)
               /\ h = Moved(g, "authorized")
                  \/ h = Concluded(g, "leaving", FALSE)
  BY DEF Authorize, Advance, Leaving, Moved, Concluded
<1>8. /\ h \in StepType
      /\ h.at = "authorized" \/ (h.at = "leaving" /\ ~h.ok)
      /\ h.kind = g.kind /\ h.revision = g.revision /\ h.plan = g.plan
      /\ h.source = g.source /\ h.n = g.n
  <2>1. {"authorized", "leaving"} \subseteq Inside \cup {"start", "answered"} /\ FALSE \in BOOLEAN
    BY DEF Inside
  <2>2. CASE h = Moved(g, "authorized")
    BY <1>1, <2>1, <2>2, StepMoved
  <2>3. CASE h = Concluded(g, "leaving", FALSE)
    BY <1>1, <2>1, <2>3, StepConcluded
  <2> QED
    BY <1>3, <2>2, <2>3
<1>4. TypeOK'
  BY <1>2, <1>3, <1>8, Typed, TypedNext DEF Sound, Become, Journal!TypeOK
<1>5. receipts[g.n] = None
  BY <1>1 DEF Sound, Unsettled, Unheard
<1>6. g.at \in Unheard /\ h.at \in Inside /\ g.kind # "preview"
  BY <1>1, <1>8 DEF Unheard, Inside
<1> QED
  BY <1>1, <1>2, <1>3, <1>4, <1>5, <1>6, <1>8, MoveSound

\* The journal moves one attempt.
LEMMA JournalMoved ==
    ASSUME Journal!TypeOK, NEW n \in Attempts, NEW p \in Journal!Phases, NEW s \in BOOLEAN,
           Journal!Become(n, p, s)
    PROVE  /\ Journal!TypeOK'
           /\ phase'[n] = p
           /\ \A m \in Attempts : m # n => phase'[m] = phase[m]
  BY DEF Journal!TypeOK, Journal!Become

\* A step that claimed its read has an attempt of its own.
LEMMA AttemptOf ==
    ASSUME Sound, NEW g \in steps, g.at \in Inside
    PROVE  g.n \in Attempts /\ g.source \in 1..Sources /\ g \in StepType
<1>1. g \in StepType
  BY Typed DEF Sound
<1>2. g.n # 0 /\ g.n \in Nat /\ g.n <= Reads /\ g.source \in Nat /\ g.source # 0
      /\ g.source <= Sources
  BY <1>1, StepNumbers DEF Sound, StepsKnow
<1> QED
  BY <1>1, <1>2, LimitsAssumption DEF Attempts

\* The journal's calls that precede a read: the step goes on only when its dispatch
\* is recorded.
LEMMA RecordedSound ==
    ASSUME Sound, NEW g \in steps, Begin(g) \/ Dispatch(g)
    PROVE  Sound'
<1>1. /\ g.at \in {"authorized", "begun"} /\ g \in StepType /\ g.kind = "plan"
      /\ g.at \in Unheard /\ g.at \in Inside
  BY Typed, StepNumbers DEF Begin, Dispatch, Sound, StepsKnow, Unheard, Inside
<1>2. UNCHANGED <<app, loop, preview, live, receipts, over, ended>>
  BY DEF Begin, Dispatch, Recorded, Times
<1>3. g.n \in Attempts /\ Journal!TypeOK /\ receipts[g.n] = None
  BY <1>1, AttemptOf DEF Sound, TypeOK, Unsettled
<1>4. /\ Journal!TypeOK'
      /\ \A n \in Attempts : n # g.n => phase'[n] = phase[n]
  <2>1. CASE Journal!Prepare(g.n)
    BY <1>3, <2>1, JournalMoved DEF Journal!Prepare, Journal!Phases
  <2>2. CASE Journal!Dispatch(g.n)
    BY <1>3, <2>2, JournalMoved DEF Journal!Dispatch, Journal!Phases
  <2>3. CASE UNCHANGED <<phase, sent>>
    BY <1>3, <2>3 DEF Journal!TypeOK
  <2> QED
    BY <2>1, <2>2, <2>3 DEF Begin, Dispatch, Recorded
<1>5. PICK h : /\ Become(g, h)
               /\ \/ h = Moved(g, "begun")
                  \/ h = Moved(g, "dispatched") /\ Journal!Dispatch(g.n)
                  \/ h = Concluded(g, "leaving", FALSE)
  BY DEF Begin, Dispatch, Recorded, Advance, Leaving, Moved, Concluded
<1>9. Journal!Dispatch(g.n) => phase'[g.n] = "dispatched"
  BY <1>3, JournalMoved DEF Journal!Dispatch, Journal!Phases
<1>8. /\ h \in StepType
      /\ \/ h.at = "begun"
         \/ h.at = "dispatched" /\ phase'[g.n] = "dispatched"
         \/ h.at = "leaving" /\ ~h.ok
      /\ h.kind = g.kind /\ h.revision = g.revision /\ h.plan = g.plan
      /\ h.source = g.source /\ h.n = g.n
  <2>1. {"begun", "dispatched", "leaving"} \subseteq Inside \cup {"start", "answered"} /\ FALSE \in BOOLEAN
    BY DEF Inside
  <2>2. CASE h = Moved(g, "begun")
    BY <1>1, <2>1, <2>2, StepMoved
  <2>3. CASE h = Moved(g, "dispatched") /\ Journal!Dispatch(g.n)
    BY <1>1, <2>1, <2>3, <1>9, StepMoved
  <2>4. CASE h = Concluded(g, "leaving", FALSE)
    BY <1>1, <2>1, <2>4, StepConcluded
  <2> QED
    BY <1>5, <2>2, <2>3, <2>4
<1>6. TypeOK'
  BY <1>2, <1>4, <1>5, <1>8, Typed, TypedNext DEF Sound, Become
<1>7. h.at \in Inside
  BY <1>8 DEF Inside
<1> QED
  BY <1>1, <1>2, <1>3, <1>4, <1>5, <1>6, <1>7, <1>8, MoveSound

\* The read begins, or the step leaves and its attempt is interrupted.
LEMMA ProceedSound ==
    ASSUME Sound, NEW g \in steps, Proceed(g)
    PROVE  Sound'
<1>1. /\ g.at = "dispatched" /\ g \in StepType /\ g.kind = "plan"
      /\ g.at \in Unheard /\ g.at \in Inside
  BY Typed, StepNumbers DEF Proceed, Sound, StepsKnow, Unheard, Inside
<1>2. UNCHANGED <<app, loop, preview, live, receipts, over, ended>>
  BY DEF Proceed, Times
<1>3. g.n \in Attempts /\ Journal!TypeOK /\ receipts[g.n] = None /\ phase[g.n] = "dispatched"
  BY <1>1, AttemptOf DEF Sound, TypeOK, Unsettled
<1>4. /\ Journal!TypeOK'
      /\ \A n \in Attempts : n # g.n => phase'[n] = phase[n]
  <2>1. CASE Journal!Interrupt(g.n)
    <3>1. sent[g.n] \in BOOLEAN
      BY <1>3 DEF Journal!TypeOK
    <3> QED
      BY <1>3, <2>1, <3>1, JournalMoved DEF Journal!Interrupt, Journal!Phases
  <2>2. CASE UNCHANGED <<phase, sent>>
    BY <1>3, <2>2 DEF Journal!TypeOK
  <2> QED
    BY <2>1, <2>2 DEF Proceed
<1>5. PICK h : /\ Become(g, h)
               /\ \/ h = Moved(g, "reading") /\ UNCHANGED phase
                  \/ h = Concluded(g, "leaving", FALSE)
  BY DEF Proceed, Advance, Leaving, Moved, Concluded
<1>8. /\ h \in StepType
      /\ \/ h.at = "reading" /\ phase'[g.n] = "dispatched"
         \/ h.at = "leaving" /\ ~h.ok
      /\ h.kind = g.kind /\ h.revision = g.revision /\ h.plan = g.plan
      /\ h.source = g.source /\ h.n = g.n
  <2>1. {"reading", "leaving"} \subseteq Inside \cup {"start", "answered"} /\ FALSE \in BOOLEAN
    BY DEF Inside
  <2>2. CASE h = Moved(g, "reading") /\ UNCHANGED phase
    BY <1>1, <2>1, <2>2, <1>3, StepMoved
  <2>3. CASE h = Concluded(g, "leaving", FALSE)
    BY <1>1, <2>1, <2>3, StepConcluded
  <2> QED
    BY <1>5, <2>2, <2>3
<1>6. TypeOK'
  BY <1>2, <1>4, <1>5, <1>8, Typed, TypedNext DEF Sound, Become
<1>7. h.at \in Inside
  BY <1>8 DEF Inside
<1> QED
  BY <1>1, <1>2, <1>3, <1>4, <1>5, <1>6, <1>7, <1>8, MoveSound

\* The source answered; a check of a candidate heard all it needs.
LEMMA ReturnsSound ==
    ASSUME Sound, NEW g \in steps, NEW outcome \in Outcomes, Returns(g, outcome)
    PROVE  Sound'
<1>1. g.at = "reading" /\ g \in StepType /\ g.at \in Unheard /\ g.kind \in {"plan", "preview"}
  BY Typed, StepNumbers DEF Returns, Sound, Unheard
<1>2. UNCHANGED <<app, loop, preview, live, phase, sent, receipts, over, ended>>
  BY DEF Returns, Journaled, Times
<1>7. PICK b \in BOOLEAN : b <=> outcome = "succeeded"
  OBVIOUS
<1>3. PICK h : /\ Become(g, h)
               /\ \/ g.kind = "plan" /\ h = Observed(g, outcome)
                  \/ g.kind = "preview" /\ h = Concluded(g, "leaving", b)
  BY <1>1, <1>7, Zenon DEF Returns, Concluded, Observed
<1>8. /\ h \in StepType
      /\ \/ g.kind = "plan" /\ h.at = "observing"
         \/ g.kind = "preview" /\ h.at = "leaving"
      /\ h.kind = g.kind /\ h.revision = g.revision /\ h.plan = g.plan
      /\ h.source = g.source /\ h.n = g.n
  <2>1. {"observing", "leaving"} \subseteq Inside \cup {"start", "answered"} /\ FALSE \in BOOLEAN
    BY DEF Inside
  <2>2. CASE g.kind = "plan" /\ h = Observed(g, outcome)
    BY <1>1, <2>1, <2>2, StepObserved
  <2>3. CASE g.kind = "preview" /\ h = Concluded(g, "leaving", b)
    BY <1>1, <2>1, <2>3, StepConcluded
  <2> QED
    BY <1>3, <2>2, <2>3
<1>4. TypeOK'
  BY <1>2, <1>3, <1>8, Typed, TypedNext DEF Sound, Become, Journal!TypeOK
<1>5. g.kind = "plan" => receipts[g.n] = None /\ phase[g.n] = "dispatched"
  BY <1>1 DEF Sound, Unsettled
<1>6. /\ h.at \in Inside /\ h.at \notin Unheard \ {"reading", "observing"}
      /\ ~(h.kind = "plan" /\ h.at = "leaving")
  BY <1>8 DEF Inside, Unheard
<1> QED
  BY <1>1, <1>2, <1>3, <1>4, <1>5, <1>6, <1>8, MoveSound


\* An application whose bytes run out changes in nothing but its state.
LEMMA Exceeding ==
    ASSUME app \in AppType, NEW big \in BOOLEAN, NEW a, a = Exceeded(app, big)
    PROVE  /\ a \in AppType
           /\ a.revision = app.revision /\ a.plan = app.plan /\ a.pending = app.pending
           /\ a.uncertain = app.uncertain /\ a.reads = app.reads /\ a.controls = app.controls
           /\ \/ a = app
              \/ big /\ a.state = "exhausted" /\ app.state \notin Terminal
<1>1. CASE big /\ app.state \notin Terminal
  <2>1. a = [app EXCEPT !.state = "exhausted"]
    BY <1>1 DEF Exceeded
  <2>2. a \in AppType
    BY <2>1 DEF AppType, Terminal
  <2> QED
    BY <1>1, <2>1, <2>2 DEF AppType
<1> QED
  BY <1>1 DEF Exceeded

\* The receipt is recorded, and the application told.
LEMMA SettleSound ==
    ASSUME Sound, NEW g \in steps, NEW confirmed \in BOOLEAN, NEW big \in BOOLEAN,
           Settle(g, confirmed, big)
    PROVE  Sound'
<1>1. /\ g.at = "observing" /\ g \in StepType /\ g.kind = "plan"
      /\ g.at \in Unheard /\ g.at \in Inside
  BY Typed, StepNumbers DEF Settle, Sound, StepsKnow, Unheard, Inside
<1>2. UNCHANGED <<preview, live, over, ended>> /\ loop' = Signalled
  BY DEF Settle, Times
<1>3. /\ g.n \in Attempts /\ Journal!TypeOK /\ receipts[g.n] = None
      /\ phase[g.n] = "dispatched" /\ g.source \in 1..Sources
      /\ receipts \in [Attempts -> Receipts \cup {None}]
  BY <1>1, AttemptOf DEF Sound, TypeOK, Unsettled
<1>4. PICK ok \in BOOLEAN : ok <=> confirmed /\ g.outcome = "succeeded"
  OBVIOUS
<1>5. PICK h : Become(g, h) /\ h = Concluded(g, "leaving", ok)
  BY <1>4, Zenon DEF Settle, Concluded
<1>6. /\ h \in StepType /\ h.at = "leaving" /\ h.ok = ok
      /\ h.kind = g.kind /\ h.revision = g.revision /\ h.plan = g.plan
      /\ h.source = g.source /\ h.n = g.n
  <2>1. "leaving" \in Inside \cup {"start", "answered"}
    BY DEF Inside
  <2>2. g \in StepType
    BY <1>1
  <2>3. PICK x : x = "leaving"
    OBVIOUS
  <2>4. /\ Concluded(g, x, ok) \in StepType
        /\ Concluded(g, x, ok).at = x /\ Concluded(g, x, ok).ok = ok
        /\ Concluded(g, x, ok).kind = g.kind /\ Concluded(g, x, ok).revision = g.revision
        /\ Concluded(g, x, ok).plan = g.plan /\ Concluded(g, x, ok).source = g.source
        /\ Concluded(g, x, ok).n = g.n
    BY <2>1, <2>2, <2>3, StepConcluded
  <2>5. h = Concluded(g, x, ok)
    BY <1>5, <2>3
  <2> QED
    BY <2>3, <2>4, <2>5, Zenon
<1>7. /\ Journal!TypeOK'
      /\ \A n \in Attempts : n # g.n => phase'[n] = phase[n]
      /\ confirmed /\ g.outcome # "unknown" => phase'[g.n] = "settled"
  <2>1. CASE Journal!Settle(g.n)
    BY <1>3, <2>1, JournalMoved DEF Journal!Settle, Journal!Phases
  <2>2. CASE (g.outcome = "unknown" \/ ~confirmed) /\ UNCHANGED <<phase, sent>>
    BY <1>3, <2>2 DEF Journal!TypeOK
  <2> QED
    BY <2>1, <2>2 DEF Settle
<1> DEFINE rec == [revision |-> g.revision, plan |-> g.plan, source |-> g.source,
                   outcome |-> g.outcome, confirmed |-> confirmed]
<1>8. rec \in Receipts /\ rec # None
  <2>1. g.revision \in 1..(Controls + 1) /\ g.plan \in 1..(Controls + 1) /\ g.outcome \in Outcomes
    BY <1>1 DEF StepType
  <2>2. rec \in Receipts
    BY <1>3, <2>1 DEF Receipts
  <2> QED
    BY <2>2, ReceiptAssumption
<1>9. receipts' = [receipts EXCEPT ![g.n] = rec]
  BY DEF Settle
<1>10. /\ receipts' \in [Attempts -> Receipts \cup {None}]
       /\ receipts'[g.n] = rec
       /\ \A n \in Attempts : n # g.n => receipts'[n] = receipts[n]
  <2> HIDE DEF rec
  <2> QED
    BY <1>3, <1>8, <1>9
<1>11. ok => KeptFor(g.revision, g.plan, g.source)'
  <2> SUFFICES ASSUME ok PROVE KeptFor(g.revision, g.plan, g.source)'
    OBVIOUS
  <2>1. confirmed = TRUE /\ g.outcome = "succeeded"
    BY <1>4
  <2>2. rec = [revision |-> g.revision, plan |-> g.plan, source |-> g.source,
               outcome |-> "succeeded", confirmed |-> TRUE]
    BY <2>1
  <2>3. phase'[g.n] = "settled"
    BY <1>7, <2>1
  <2> HIDE DEF rec
  <2> QED
    BY <1>3, <1>8, <1>10, <2>2, <2>3 DEF KeptFor
<1>12. PICK a : a = Exceeded(app, big)
  OBVIOUS
<1>13. /\ a \in AppType
       /\ a.revision = app.revision /\ a.plan = app.plan /\ a.pending = app.pending
       /\ a.uncertain = app.uncertain /\ a.reads = app.reads /\ a.controls = app.controls
       /\ a = app \/ (a.state = "exhausted" /\ app.state \notin Terminal)
  BY <1>12, Exceeding, Typed DEF Sound
<1>14. PICK u \in BOOLEAN : u <=> (a.uncertain \/ ~confirmed \/ g.outcome = "unknown")
  OBVIOUS
<1>15. app' = [a EXCEPT !.uncertain = u]
  <2>1. app' = [a EXCEPT !.uncertain = a.uncertain \/ ~confirmed \/ g.outcome = "unknown"]
    BY <1>12 DEF Settle
  <2>2. u = (a.uncertain \/ ~confirmed \/ g.outcome = "unknown")
    BY <1>14, Zenon
  <2> QED
    BY <2>1, <2>2, Zenon
<1>16. /\ app' \in AppType
       /\ app'.revision = app.revision /\ app'.plan = app.plan /\ app'.pending = app.pending
       /\ app'.uncertain = u /\ app'.reads = app.reads /\ app'.controls = app.controls
       /\ app'.state = a.state
  <2>1. app' \in AppType
    BY <1>13, <1>15, Zenon DEF AppType
  <2> QED
    BY <1>13, <1>15, <2>1 DEF AppType
<1>17. app'.uncertain => app.uncertain \/ (g.kind = "plan" /\ h.at = "leaving" /\ ~h.ok)
  BY <1>1, <1>4, <1>6, <1>13, <1>14, <1>16
<1>18. app.state # "created" /\ app'.state # "created"
  BY <1>1, <1>13, <1>16 DEF Sound, StepsKnow, Counted
<1>19. TypeOK'
  BY <1>2, <1>5, <1>6, <1>7, <1>10, <1>16, Typed, Woken, TypedNext DEF Sound, Become
<1>20. h.at \in Inside /\ h.at \notin Unheard \ {"reading", "observing"} /\ h.at \notin Unheard
  BY <1>6 DEF Inside, Unheard
<1> QED
  BY <1>1, <1>2, <1>5, <1>6, <1>7, <1>10, <1>11, <1>13, <1>16, <1>17, <1>18, <1>19, <1>20, MoveSound


--------------------------------------------------------------------------------
(* The loop, the checks and the clock, where no step moves.                    *)

\* Where no read is claimed or left, reads stay counted and settled as they were.
LEMMA Quiet ==
    ASSUME Sound,
           \A f \in steps' : f \in steps \/ (/\ f.at \in {"start", "answered"}
                                             /\ f.kind = "preview" => f.source <= Sources),
           \A f \in steps : f.at \in Inside => f \in steps',
           UNCHANGED <<phase, receipts>>,
           app'.reads = app.reads, app'.pending = app.pending
    PROVE  /\ StepsKnow'
           /\ InsideCounted'
           /\ Unsettled'
           /\ \A r, p, i : KeptFor(r, p, i) => KeptFor(r, p, i)'
<1>1. \A f \in steps' : f.at \in Inside => f \in steps
  BY DEF Inside
<1>2. \A f \in steps' : f.at \in Unheard => f \in steps
  BY DEF Unheard
<1>3. StepsKnow'
  BY <1>1 DEF Sound, StepsKnow
<1>4. InsideCounted'
  BY <1>1 DEF Sound, InsideCounted
<1>5. Unsettled'
  BY <1>2 DEF Sound, Unsettled
<1>6. \A r, p, i : KeptFor(r, p, i) => KeptFor(r, p, i)'
  BY DEF KeptFor
<1> QED
  BY <1>3, <1>4, <1>5, <1>6

\* Time passes, an expiry is noticed, a context ends, the loop rests or gives up.
LEMMA RestSound ==
    ASSUME Sound, TypeOK', UNCHANGED <<steps, phase, receipts>>,
           app'.revision = app.revision, app'.plan = app.plan, app'.controls = app.controls,
           app'.pending = app.pending, app'.reads = app.reads, app'.uncertain = app.uncertain,
           \/ app'.state = app.state
           \/ /\ app.state # "created" /\ app'.state \in {"expired", "failed"}
              /\ loop'.at = "reassessing" => app'.state = "expired",
           loop'.revision = loop.revision, loop'.plan = loop.plan, loop'.source = loop.source,
           \/ loop'.at = loop.at /\ loop'.ok = loop.ok
           \/ /\ loop.at \in {"planned", "top", "waiting", "reassessing"}
              /\ loop'.at \in {"top", "waiting", "done"},
           live'.plan => live.plan /\ app'.state = app.state /\ loop'.at = loop.at,
           \/ UNCHANGED preview
           \/ preview.at = "ending" /\ preview'.at = "off" /\ preview'.revision = 0
    PROVE  Sound'
<1>1. /\ StepsKnow' /\ InsideCounted' /\ Unsettled'
      /\ \A r, p, i : KeptFor(r, p, i) => KeptFor(r, p, i)'
  BY Quiet
<1>2. app.revision \in Nat
  BY Typed, AppNumbers DEF Sound
<1>3. Counted'
  BY <1>2 DEF Sound, Counted, Planning, Previewing
<1>4. StepsOwned'
  BY DEF Sound, StepsOwned
<1>5. PlanAlone'
  BY DEF Sound, PlanAlone, Planning
<1>6. PreviewAlone'
  BY DEF Sound, PreviewAlone, Previewing
<1>7. PlanLive'
  BY DEF Sound, PlanLive
<1>8. ReadsKept'
  <2>1. PICK r, p : r = loop.revision /\ p = loop.plan /\ r = loop'.revision /\ p = loop'.plan
    OBVIOUS
  <2>2. loop'.at \in Planning => \A i \in 1..(loop'.source - 1) : KeptFor(r, p, i)'
    BY <1>1, <2>1 DEF Sound, ReadsKept, Planning
  <2>3. loop'.at = "planned" /\ loop'.ok => \A i \in 1..Sources : KeptFor(r, p, i)'
    BY <1>1, <2>1 DEF Sound, ReadsKept
  <2>4. \A g \in steps' : g.kind = "plan" /\ g.at \in {"leaving", "answered"} /\ g.ok
                          /\ g.source <= Sources => KeptFor(g.revision, g.plan, g.source)'
    BY <1>1 DEF Sound, ReadsKept
  <2> QED
    BY <2>1, <2>2, <2>3, <2>4 DEF ReadsKept
<1>9. EndedExpired'
  BY DEF Sound, EndedExpired, Terminal
<1>10. PreparedOnReceipts'
  BY DEF Sound, PreparedOnReceipts
<1> QED
  BY <1>1, <1>3, <1>4, <1>5, <1>6, <1>7, <1>8, <1>9, <1>10 DEF Sound

\* The contexts of the tasks.
LEMMA LiveNarrowed ==
    ASSUME live \in [plan : BOOLEAN, preview : BOOLEAN], NEW b \in BOOLEAN
    PROVE  /\ [live EXCEPT !.plan = b] \in [plan : BOOLEAN, preview : BOOLEAN]
           /\ [live EXCEPT !.plan = b].plan = b
           /\ [live EXCEPT !.preview = b] \in [plan : BOOLEAN, preview : BOOLEAN]
           /\ [live EXCEPT !.preview = b].plan = live.plan
  OBVIOUS

\* What expireLocked did to a plan's context.
LEMMA Cancelling ==
    ASSUME live \in [plan : BOOLEAN, preview : BOOLEAN], ExpireCancels
    PROVE  /\ live' \in [plan : BOOLEAN, preview : BOOLEAN]
           /\ live'.plan => live.plan /\ ~Expirable
<1>1. PICK b \in BOOLEAN : b <=> live.plan /\ ~Expirable
  OBVIOUS
<1>2. live' = [live EXCEPT !.plan = b]
  BY <1>1, Zenon DEF ExpireCancels
<1> QED
  BY <1>1, <1>2, LiveNarrowed

\* An expiry is reported.
LEMMA StatusSound ==
    ASSUME Sound, Status
    PROVE  Sound'
<1>1. app' = Expired /\ loop' = Signalled /\ ExpireCancels
      /\ UNCHANGED <<preview, steps, phase, sent, receipts, over, ended>>
  BY DEF Status, Journaled, Times
<1>2. /\ app \in AppType /\ loop \in LoopType /\ live \in [plan : BOOLEAN, preview : BOOLEAN]
  BY Typed DEF Sound
<1>3. /\ live' \in [plan : BOOLEAN, preview : BOOLEAN]
      /\ ~live'.plan
  BY <1>1, <1>2, Cancelling DEF Status
<1>4. TypeOK'
  BY <1>1, <1>2, <1>3, Typed, TypedNext, Expiring, Woken DEF Sound, Journal!TypeOK
<1>5. app.state # "created"
  BY DEF Status, Expirable
<1> QED
  BY <1>1, <1>2, <1>3, <1>4, <1>5, Expiring, Woken, RestSound

\* The loop wakes.
LEMMA LoopWakesSound ==
    ASSUME Sound, LoopWakes
    PROVE  Sound'
<1>1. UNCHANGED <<app, preview, live, steps, phase, sent, receipts, over, ended>>
      /\ loop.at = "waiting"
  BY DEF LoopWakes, Journaled, Times
<1>2. /\ loop' \in LoopType /\ loop'.at = "top" /\ loop'.revision = loop.revision
      /\ loop'.plan = loop.plan /\ loop'.source = loop.source
  <2>1. loop \in LoopType /\ loop' = [loop EXCEPT !.at = "top", !.woken = FALSE]
    BY Typed DEF Sound, LoopWakes
  <2>2. loop' \in LoopType
    BY <2>1, Zenon DEF LoopType
  <2> QED
    BY <2>1, <2>2 DEF LoopType
<1>3. TypeOK'
  BY <1>1, <1>2, Typed, TypedNext DEF Sound, Journal!TypeOK
<1>4. ~live.plan
  BY <1>1 DEF Sound, PlanLive
<1> QED
  BY <1>1, <1>2, <1>3, <1>4, RestSound

\* A context ends: the workflow's, or that of a check; or time passes.
LEMMA ContextSound ==
    ASSUME Sound, TaskTimesOut \/ PreviewCancelled \/ DeadlinePasses \/ ContextsEnd
    PROVE  Sound'
<1>1. UNCHANGED <<app, loop, preview, steps, phase, sent, receipts>>
  BY DEF TaskTimesOut, PreviewCancelled, DeadlinePasses, ContextsEnd, Journaled, Times
<1>2. live \in [plan : BOOLEAN, preview : BOOLEAN] /\ over \in BOOLEAN /\ ended \in BOOLEAN
  BY Typed DEF Sound
<1>3. /\ live' \in [plan : BOOLEAN, preview : BOOLEAN]
      /\ live'.plan => live.plan
      /\ over' \in BOOLEAN /\ ended' \in BOOLEAN
  <2>1. CASE TaskTimesOut
    BY <1>2, <2>1, LiveNarrowed DEF TaskTimesOut, Times
  <2>2. CASE PreviewCancelled
    BY <1>2, <2>2, LiveNarrowed DEF PreviewCancelled, Times
  <2>3. CASE DeadlinePasses \/ ContextsEnd
    BY <1>2, <2>3 DEF DeadlinePasses, ContextsEnd
  <2> QED
    BY <2>1, <2>2, <2>3
<1>4. TypeOK'
  BY <1>1, <1>3, Typed, TypedNext DEF Sound, Journal!TypeOK
<1> QED
  BY <1>1, <1>3, <1>4, RestSound

\* A check is over.
LEMMA PreviewEndsSound ==
    ASSUME Sound, PreviewEnds
    PROVE  Sound'
<1>1. UNCHANGED <<app, steps, phase, sent, receipts, over, ended>> /\ loop' = Signalled
      /\ preview.at = "ending"
      /\ preview' = [at |-> "off", revision |-> 0, plan |-> 0, source |-> 1]
  BY DEF PreviewEnds, Journaled, Times
<1>2. preview' \in PreviewType
  BY <1>1, LimitsAssumption DEF PreviewType
<1>3. loop \in LoopType /\ live \in [plan : BOOLEAN, preview : BOOLEAN]
  BY Typed DEF Sound
<1>4. live' \in [plan : BOOLEAN, preview : BOOLEAN] /\ live'.plan = live.plan
  BY <1>3, LiveNarrowed DEF PreviewEnds
<1>5. TypeOK'
  BY <1>1, <1>2, <1>3, <1>4, Typed, TypedNext, Woken DEF Sound, Journal!TypeOK
<1> QED
  BY <1>1, <1>3, <1>4, <1>5, Woken, RestSound


\* Only an application that was started has a step inside an operation.
LEMMA InsideStarted ==
    ASSUME Sound, NEW g \in steps, g.at \in Inside
    PROVE  app.state # "created" /\ app.pending = 1 /\ app.state # "prepared"
  BY DEF Sound, StepsKnow, Counted, InsideCounted, PreparedOnReceipts

\* The application starts.
LEMMA StartSound ==
    ASSUME Sound, Start
    PROVE  Sound'
<1>1. /\ app.state = "created"
      /\ app' = [app EXCEPT !.state = "reassessing", !.revision = 1, !.plan = 1]
      /\ loop' = [loop EXCEPT !.at = "top"]
      /\ UNCHANGED <<preview, live, steps, phase, sent, receipts, over, ended>>
  BY DEF Start, Journaled, Times
<1>2. app \in AppType /\ loop \in LoopType /\ Controls \in Nat /\ preview \in PreviewType
  BY Typed, LimitsAssumption DEF Sound
<1>3. /\ app' \in AppType
      /\ app'.state = "reassessing" /\ app'.revision = 1 /\ app'.plan = 1
      /\ app'.pending = app.pending /\ app'.uncertain = app.uncertain
      /\ app'.reads = app.reads /\ app'.controls = app.controls
  <2>1. 1 \in 0..(Controls + 1)
    BY <1>2
  <2>2. "reassessing" \in Terminal \cup {"created", "reassessing", "running", "paused"}
    OBVIOUS
  <2>3. app' \in AppType
    BY <1>1, <1>2, <2>1, <2>2, Zenon DEF AppType
  <2> QED
    BY <1>1, <1>2, <2>3 DEF AppType
<1>4. /\ loop' \in LoopType /\ loop'.at = "top"
      /\ loop'.revision = loop.revision /\ loop'.plan = loop.plan
  BY <1>1, <1>2 DEF LoopType
<1>5. TypeOK'
  BY <1>1, <1>3, <1>4, Typed, TypedNext DEF Sound, Journal!TypeOK
<1>6. app.revision = 0 /\ app.controls = 0 /\ loop.at = "none" /\ app.reads = 0
  BY <1>1 DEF Sound, Counted
<1>7. loop.revision = 0 /\ preview.revision = 0 /\ preview.at \notin Previewing
  BY <1>2, <1>6, LoopNumbers, PreviewNumbers DEF Sound, Counted
<1>8. /\ StepsKnow' /\ InsideCounted' /\ Unsettled'
      /\ \A r, p, i : KeptFor(r, p, i) => KeptFor(r, p, i)'
  BY <1>1, <1>3, Quiet
<1>9. \A g \in steps : g.at \notin Inside /\ g.kind # "plan"
  BY <1>6 DEF Sound, StepsKnow, StepsOwned
<1>10. Counted'
  <2>1. app'.controls = 0 /\ 1 \in 1..1
    BY <1>3, <1>6
  <2> QED
    BY <1>1, <1>3, <1>4, <1>7, <2>1 DEF Counted, Planning, Previewing
<1>11. StepsOwned'
  BY <1>1, <1>9 DEF Sound, StepsOwned
<1>12. PlanAlone' /\ EndedExpired' /\ ReadsKept'
  BY <1>1, <1>4, <1>9 DEF PlanAlone, EndedExpired, ReadsKept, Planning
<1>13. PreviewAlone' /\ PreparedOnReceipts'
  BY <1>3 DEF PreviewAlone, PreparedOnReceipts
<1>14. PlanLive'
  BY <1>1, <1>6 DEF Sound, PlanLive
<1> QED
  BY <1>5, <1>8, <1>10, <1>11, <1>12, <1>13, <1>14 DEF Sound

\* A control is accepted: whatever was under way is of an earlier revision.
LEMMA ControlSound ==
    ASSUME Sound, NEW action \in {"redirect", "pause", "resume", "cancel"}, Control(action)
    PROVE  Sound'
<1>1. /\ app.state \notin Terminal \cup {"created"} /\ app.controls < Controls
      /\ loop' = Signalled /\ live' = [plan |-> FALSE, preview |-> FALSE]
      /\ UNCHANGED <<preview, steps, phase, sent, receipts, over, ended>>
  BY DEF Control, Journaled, Times
<1>2. /\ app \in AppType /\ loop \in LoopType /\ preview \in PreviewType
      /\ app.revision \in Nat /\ app.plan \in Nat /\ app.controls \in Nat /\ Controls \in Nat
  BY Typed, AppNumbers DEF Sound
<1>3. /\ app.revision = app.controls + 1 /\ app.plan \in 1..app.revision
  BY <1>1 DEF Sound, Counted
<1>4. /\ app.revision + 1 \in 0..(Controls + 1) /\ app.controls + 1 \in 0..Controls
      /\ app.plan \in 0..(Controls + 1) /\ app.plan + 1 \in 0..(Controls + 1)
  BY <1>1, <1>2, <1>3
<1> DEFINE last == app.controls + 1 = Controls /\ action # "cancel"
           state == IF last THEN "exhausted" ELSE Steered(action)
           plan == IF action = "redirect" THEN app.plan + 1 ELSE app.plan
<1>5. /\ state \in {"exhausted", "paused", "reassessing", "cancelled"}
      /\ plan \in 0..(Controls + 1) /\ plan \in 1..(app.revision + 1)
  BY <1>2, <1>3, <1>4 DEF Steered
<1>6. app' = [app EXCEPT !.revision = app.revision + 1, !.plan = plan, !.state = state,
                         !.controls = app.controls + 1]
  BY Zenon DEF Control
<1> HIDE DEF last, state, plan
<1>7. /\ app' \in AppType
      /\ app'.state = state /\ app'.revision = app.revision + 1 /\ app'.plan = plan
      /\ app'.pending = app.pending /\ app'.uncertain = app.uncertain
      /\ app'.reads = app.reads /\ app'.controls = app.controls + 1
  <2>1. state \in Terminal \cup {"created", "reassessing", "running", "paused"}
    BY <1>5 DEF Terminal
  <2>2. app' \in AppType
    BY <1>2, <1>4, <1>5, <1>6, <2>1, Zenon DEF AppType
  <2> QED
    BY <1>2, <1>6, <2>2 DEF AppType
<1>8. /\ loop' \in LoopType /\ loop'.at = loop.at
      /\ loop'.revision = loop.revision /\ loop'.plan = loop.plan
      /\ loop'.source = loop.source /\ loop'.ok = loop.ok
  BY <1>1, <1>2, Woken
<1>9. TypeOK'
  BY <1>1, <1>7, <1>8, Typed, TypedNext DEF Sound, Journal!TypeOK
<1>10. /\ StepsKnow' /\ InsideCounted' /\ Unsettled'
       /\ \A r, p, i : KeptFor(r, p, i) => KeptFor(r, p, i)'
  BY <1>1, <1>7, Quiet
<1>11. /\ loop.revision \in Nat /\ preview.revision \in Nat
       /\ loop'.revision < app'.revision /\ preview'.revision < app'.revision
       /\ app'.revision = app'.controls + 1
  BY <1>1, <1>2, <1>3, <1>7, <1>8, LoopNumbers, PreviewNumbers DEF Sound, Counted
<1>12. Counted'
  <2>1. app'.state # "created" /\ loop'.at # "none"
    BY <1>1, <1>5, <1>7, <1>8 DEF Sound, Counted
  <2>2. app'.plan \in 1..app'.revision
    BY <1>5, <1>7
  <2>3. loop'.revision <= app'.revision /\ preview'.revision <= app'.revision
    BY <1>1, <1>2, <1>7, <1>8, <1>11
  <2> QED
    BY <1>1, <1>8, <1>11, <2>1, <2>2, <2>3 DEF Sound, Counted
<1>13. StepsOwned'
  BY <1>1, <1>8 DEF Sound, StepsOwned
<1>14. PlanAlone' /\ EndedExpired'
  BY <1>2, <1>7, <1>11 DEF PlanAlone, EndedExpired
<1>15. PreviewAlone'
  BY <1>2, <1>7, <1>11 DEF PreviewAlone
<1>16. PlanLive'
  BY <1>1 DEF PlanLive
<1>17. ReadsKept'
  <2>1. PICK r, p : r = loop.revision /\ p = loop.plan /\ r = loop'.revision /\ p = loop'.plan
    BY <1>8
  <2>2. loop'.at \in Planning => \A i \in 1..(loop'.source - 1) : KeptFor(r, p, i)'
    BY <1>8, <1>10, <2>1 DEF Sound, ReadsKept
  <2>3. loop'.at = "planned" /\ loop'.ok => \A i \in 1..Sources : KeptFor(r, p, i)'
    BY <1>8, <1>10, <2>1 DEF Sound, ReadsKept
  <2>4. \A g \in steps' : g.kind = "plan" /\ g.at \in {"leaving", "answered"} /\ g.ok
                          /\ g.source <= Sources => KeptFor(g.revision, g.plan, g.source)'
    BY <1>1, <1>10 DEF Sound, ReadsKept
  <2> QED
    BY <2>1, <2>2, <2>3, <2>4 DEF ReadsKept
<1>18. PreparedOnReceipts'
  BY <1>5, <1>7 DEF PreparedOnReceipts
<1> QED
  BY <1>9, <1>10, <1>12, <1>13, <1>14, <1>15, <1>16, <1>17, <1>18 DEF Sound

\* The loop ends, waits, or takes the plan, when nothing is under way.
LEMMA LoopTopSound ==
    ASSUME Sound, LoopTop
    PROVE  Sound'
<1>1. /\ loop.at = "top" /\ app' = Expired /\ ExpireCancels
      /\ UNCHANGED <<preview, steps, phase, sent, receipts, over, ended>>
  BY DEF LoopTop, Journaled, Times
<1>2. /\ app \in AppType /\ loop \in LoopType /\ preview \in PreviewType
      /\ live \in [plan : BOOLEAN, preview : BOOLEAN]
      /\ app.revision \in Nat /\ app.plan \in Nat
      /\ app.revision <= Controls + 1 /\ app.plan <= Controls + 1
      /\ Controls \in Nat /\ Sources \in Nat
  BY Typed, AppNumbers DEF Sound
<1>3. /\ app' \in AppType
      /\ app'.revision = app.revision /\ app'.plan = app.plan /\ app'.pending = app.pending
      /\ app'.uncertain = app.uncertain /\ app'.reads = app.reads
      /\ app'.controls = app.controls
      /\ app'.state = app.state \/ (app'.state = "expired" /\ Expirable)
  BY <1>1, <1>2, Expiring
<1>4. live' \in [plan : BOOLEAN, preview : BOOLEAN] /\ ~live'.plan
  BY <1>1, <1>2, Cancelling DEF Sound, PlanLive
<1>5. app.state # "created"
  BY <1>1 DEF Sound, Counted
<1>6. CASE \/ loop' = [loop EXCEPT !.at = "done"]
           \/ loop' = [loop EXCEPT !.at = "waiting", !.woken = FALSE]
  <2>1. /\ loop' \in LoopType /\ loop'.at \in {"waiting", "done"}
        /\ loop'.revision = loop.revision /\ loop'.plan = loop.plan
        /\ loop'.source = loop.source
    <3>1. CASE loop' = [loop EXCEPT !.at = "done"]
      BY <1>2, <3>1 DEF LoopType
    <3>2. CASE loop' = [loop EXCEPT !.at = "waiting", !.woken = FALSE]
      <4>1. loop' \in LoopType
        BY <1>2, <3>2, Zenon DEF LoopType
      <4> QED
        BY <1>2, <3>2, <4>1 DEF LoopType
    <3> QED
      BY <1>6, <3>1, <3>2
  <2>2. TypeOK'
    BY <1>1, <1>3, <1>4, <2>1, Typed, TypedNext DEF Sound, Journal!TypeOK
  <2> QED
    BY <1>1, <1>3, <1>4, <1>5, <2>1, <2>2, RestSound
<1>7. CASE /\ app'.state \notin Terminal
           /\ app.state # "paused" /\ app.pending = 0 /\ ~app.uncertain
           /\ loop' = [loop EXCEPT !.at = "reassessing", !.revision = app.revision,
                                   !.plan = app.plan, !.source = 1]
  <2>1. /\ loop' \in LoopType /\ loop'.at = "reassessing" /\ loop'.revision = app.revision
        /\ loop'.plan = app.plan /\ loop'.source = 1
    <3>1. /\ app.revision \in 0..(Controls + 1) /\ app.plan \in 0..(Controls + 1)
          /\ 1 \in 1..(Sources + 1)
      BY <1>2
    <3>2. loop' \in LoopType
      BY <1>2, <1>7, <3>1, Zenon DEF LoopType
    <3> QED
      BY <1>2, <1>7, <3>2 DEF LoopType
  <2>2. TypeOK'
    BY <1>1, <1>3, <1>4, <2>1, Typed, TypedNext DEF Sound, Journal!TypeOK
  <2>3. /\ StepsKnow' /\ InsideCounted' /\ Unsettled'
        /\ \A r, p, i : KeptFor(r, p, i) => KeptFor(r, p, i)'
    BY <1>1, <1>3, Quiet
  <2>4. \A g \in steps : g.at \notin Inside
    BY <1>7 DEF Sound, InsideCounted
  <2>5. \A g \in steps : g.kind # "plan"
    BY <1>1, <2>4 DEF Sound, StepsOwned
  <2>6. app.state = app'.state
    BY <1>3, <1>7 DEF Terminal
  <2>7. Counted'
    BY <1>1, <1>2, <1>3, <1>5, <2>1, <2>6 DEF Sound, Counted
  <2>8. StepsOwned'
    BY <1>1, <2>5 DEF Sound, StepsOwned
  <2>9. PlanAlone'
    BY <1>1, <1>3, <1>7, <2>4, <2>6 DEF PlanAlone
  <2>10. PreviewAlone' /\ PlanLive'
    BY <1>1, <1>4, <2>5 DEF PreviewAlone, PlanLive
  <2>11. ReadsKept'
    BY <1>1, <2>1, <2>5 DEF ReadsKept
  <2>12. EndedExpired' /\ PreparedOnReceipts'
    BY <1>7 DEF EndedExpired, PreparedOnReceipts, Terminal
  <2> QED
    BY <2>2, <2>3, <2>7, <2>8, <2>9, <2>10, <2>11, <2>12 DEF Sound
<1> QED
  BY <1>1, <1>6, <1>7 DEF LoopTop


\* The plan was validated: it is prepared, refused, or no longer the current one.
LEMMA LoopReassessedSound ==
    ASSUME Sound, NEW denied \in BOOLEAN, LoopReassessed(denied)
    PROVE  Sound'
<1>1. /\ loop.at = "reassessing"
      /\ UNCHANGED <<preview, steps, phase, sent, receipts, over, ended>>
  BY DEF LoopReassessed, Journaled, Times
<1>2. /\ app \in AppType /\ loop \in LoopType
      /\ live \in [plan : BOOLEAN, preview : BOOLEAN]
  BY Typed DEF Sound
<1>3. /\ ~live.plan /\ app.state # "created"
      /\ \A g \in steps : g.kind # "plan"
  BY <1>1 DEF Sound, PlanLive, Counted, StepsOwned
<1>4. \A x : x \in {"top", "done", "between"} /\ loop' = [loop EXCEPT !.at = x] =>
        /\ loop' \in LoopType /\ loop'.at = x
        /\ loop'.revision = loop.revision /\ loop'.plan = loop.plan
        /\ loop'.source = loop.source
  BY <1>2 DEF LoopType
<1>5. \A x : x \in {"failed", "running"} /\ app' = [app EXCEPT !.state = x] =>
        /\ app' \in AppType
        /\ app'.state = x
        /\ app'.revision = app.revision /\ app'.plan = app.plan /\ app'.pending = app.pending
        /\ app'.uncertain = app.uncertain /\ app'.reads = app.reads
        /\ app'.controls = app.controls
  BY <1>2 DEF AppType, Terminal
<1>6. CASE /\ \/ UNCHANGED app
              \/ app' = [app EXCEPT !.state = "failed"]
           /\ \/ loop' = [loop EXCEPT !.at = "top"]
              \/ loop' = [loop EXCEPT !.at = "done"]
           /\ UNCHANGED live
  <2>1. TypeOK'
    BY <1>1, <1>2, <1>4, <1>5, <1>6, Typed, TypedNext DEF Sound, Journal!TypeOK
  <2> QED
    BY <1>1, <1>3, <1>4, <1>5, <1>6, <2>1, RestSound
<1>7. CASE /\ loop.revision = app.revision /\ loop.plan = app.plan
           /\ app.state \notin Terminal /\ app.state # "paused"
           /\ app' = [app EXCEPT !.state = "running"]
           /\ loop' = [loop EXCEPT !.at = "between"]
           /\ live' = [live EXCEPT !.plan = TRUE]
  <2>1. /\ live' \in [plan : BOOLEAN, preview : BOOLEAN]
    BY <1>2, <1>7, LiveNarrowed
  <2>2. TypeOK'
    BY <1>1, <1>4, <1>5, <1>7, <2>1, Typed, TypedNext DEF Sound, Journal!TypeOK
  <2>3. /\ StepsKnow' /\ InsideCounted' /\ Unsettled'
        /\ \A r, p, i : KeptFor(r, p, i) => KeptFor(r, p, i)'
    BY <1>1, <1>5, <1>7, Quiet
  <2>4. Counted'
    BY <1>1, <1>3, <1>4, <1>5, <1>7 DEF Sound, Counted, Planning
  <2>5. StepsOwned'
    BY <1>1, <1>3 DEF Sound, StepsOwned
  <2>6. PlanAlone'
    BY <1>1, <1>3, <1>5, <1>7 DEF Sound, PlanAlone, Planning
  <2>7. PreviewAlone' /\ EndedExpired' /\ PreparedOnReceipts'
    BY <1>5, <1>7 DEF PreviewAlone, EndedExpired, PreparedOnReceipts, Terminal
  <2>8. PlanLive'
    BY <1>1, <1>3, <1>4, <1>5, <1>7 DEF PlanLive
  <2>9. ReadsKept'
    <3>1. PICK r, p : r = loop.revision /\ p = loop.plan /\ r = loop'.revision /\ p = loop'.plan
      BY <1>4, <1>7
    <3>2. \A i \in 1..(loop'.source - 1) : KeptFor(r, p, i)'
      BY <1>1, <1>4, <1>7, <2>3, <3>1 DEF Sound, ReadsKept, Planning
    <3> QED
      BY <1>1, <1>3, <1>4, <1>7, <3>1, <3>2 DEF ReadsKept
  <2> QED
    BY <2>2, <2>3, <2>4, <2>5, <2>6, <2>7, <2>8, <2>9 DEF Sound
<1> QED
  BY <1>1, <1>6, <1>7 DEF LoopReassessed

\* prepare returned: what it says is published for the plan it was made for.
LEMMA LoopPlannedSound ==
    ASSUME Sound, LoopPlanned
    PROVE  Sound'
<1>1. /\ loop.at = "planned" /\ loop' = [loop EXCEPT !.at = "top", !.ok = FALSE]
      /\ UNCHANGED <<preview, live, steps, phase, sent, receipts, over, ended>>
  BY DEF LoopPlanned, Journaled, Times
<1>2. app \in AppType /\ loop \in LoopType
  BY Typed DEF Sound
<1>3. /\ loop' \in LoopType /\ loop'.at = "top"
      /\ loop'.revision = loop.revision /\ loop'.plan = loop.plan
      /\ loop'.source = loop.source
  <2>1. loop' \in LoopType
    BY <1>1, <1>2, Zenon DEF LoopType
  <2> QED
    BY <1>1, <1>2, <2>1 DEF LoopType
<1>4. ~live.plan /\ app.state # "created"
  BY <1>1 DEF Sound, PlanLive, Counted
<1>5. \A x : x \in {"expired", "failed", "prepared"} /\ app' = [app EXCEPT !.state = x] =>
        /\ app' \in AppType
        /\ app'.state = x
        /\ app'.revision = app.revision /\ app'.plan = app.plan /\ app'.pending = app.pending
        /\ app'.uncertain = app.uncertain /\ app'.reads = app.reads
        /\ app'.controls = app.controls
  BY <1>2 DEF AppType, Terminal
<1>6. CASE \/ UNCHANGED app
           \/ app' = [app EXCEPT !.state = "expired"]
           \/ app' = [app EXCEPT !.state = "failed"]
  <2>1. TypeOK'
    BY <1>1, <1>2, <1>3, <1>5, <1>6, Typed, TypedNext DEF Sound, Journal!TypeOK
  <2> QED
    BY <1>1, <1>3, <1>4, <1>5, <1>6, <2>1, RestSound
<1>7. CASE /\ loop.revision = app.revision /\ loop.plan = app.plan /\ app.state = "running"
           /\ loop.ok /\ app.pending = 0
           /\ app' = [app EXCEPT !.state = "prepared"]
  <2>1. TypeOK'
    BY <1>1, <1>3, <1>5, <1>7, Typed, TypedNext DEF Sound, Journal!TypeOK
  <2>2. /\ StepsKnow' /\ InsideCounted' /\ Unsettled'
        /\ \A r, p, i : KeptFor(r, p, i) => KeptFor(r, p, i)'
    BY <1>1, <1>5, <1>7, Quiet
  <2>3. \A g \in steps : g.kind # "plan"
    BY <1>1, <1>7 DEF Sound, StepsOwned, InsideCounted
  <2>4. Counted'
    BY <1>1, <1>3, <1>4, <1>5, <1>7 DEF Sound, Counted, Planning
  <2>5. StepsOwned' /\ PlanLive'
    BY <1>1, <1>4, <2>3 DEF Sound, StepsOwned, PlanLive
  <2>6. PlanAlone' /\ PreviewAlone' /\ EndedExpired' /\ ReadsKept'
    BY <1>1, <1>3, <2>3 DEF PlanAlone, PreviewAlone, EndedExpired, ReadsKept, Planning
  <2>7. PreparedOnReceipts'
    <3>1. \A i \in 1..Sources : KeptFor(loop.revision, loop.plan, i)
      BY <1>1, <1>7 DEF Sound, ReadsKept
    <3>2. PICK r, p : /\ r = loop.revision /\ p = loop.plan
                      /\ r = app'.revision /\ p = app'.plan
      BY <1>5, <1>7
    <3>3. \A i \in 1..Sources : KeptFor(r, p, i)'
      BY <2>2, <3>1, <3>2
    <3> QED
      BY <1>5, <1>7, <3>2, <3>3 DEF PreparedOnReceipts, KeptFor
  <2> QED
    BY <2>1, <2>2, <2>4, <2>5, <2>6, <2>7 DEF Sound
<1> QED
  BY <1>1, <1>6, <1>7 DEF LoopPlanned

--------------------------------------------------------------------------------
(* A task starts a step, takes its answer, or abandons it.                     *)

\* A step starts for what its task is at.
LEMMA NewTyped ==
    ASSUME NEW kind \in {"plan", "preview"}, NEW t,
           t.revision \in 1..(Controls + 1), t.plan \in 1..(Controls + 1),
           t.source \in 1..(Sources + 1)
    PROVE  /\ NewStep(kind, t) \in StepType
           /\ NewStep(kind, t).kind = kind /\ NewStep(kind, t).at = "start"
           /\ NewStep(kind, t).revision = t.revision /\ NewStep(kind, t).plan = t.plan
           /\ NewStep(kind, t).source = t.source
  BY LimitsAssumption DEF NewStep, StepType, Outcomes

\* The next step of a plan starts, or there is none to start.
LEMMA TaskNextSound ==
    ASSUME Sound, TaskNext
    PROVE  Sound'
<1>1. /\ loop.at = "between"
      /\ UNCHANGED <<app, preview, phase, sent, receipts, over, ended>>
  BY DEF TaskNext, Journaled, Times
<1>2. /\ app \in AppType /\ loop \in LoopType /\ steps \subseteq StepType
      /\ live \in [plan : BOOLEAN, preview : BOOLEAN]
  BY Typed DEF Sound
<1>3. \A g \in steps : g.kind # "plan"
  BY <1>1 DEF Sound, StepsOwned
<1>4. CASE /\ live.plan
           /\ steps' = steps \cup {NewStep("plan", loop)}
           /\ loop' = [loop EXCEPT !.at = "stepping"]
           /\ UNCHANGED live
  <2>1. PICK new : new = NewStep("plan", loop)
    OBVIOUS
  <2>2. /\ loop.revision \in 1..(Controls + 1) /\ loop.plan \in 1..(Controls + 1)
        /\ loop.source \in 1..(Sources + 1)
    BY <1>1, <1>2, LimitsAssumption DEF Sound, Counted, Planning, LoopType
  <2>3. /\ new \in StepType /\ new.kind = "plan" /\ new.at = "start"
        /\ new.revision = loop.revision /\ new.plan = loop.plan
        /\ new.source = loop.source
    BY <2>1, <2>2, NewTyped
  <2>4. /\ loop' \in LoopType /\ loop'.at = "stepping"
        /\ loop'.revision = loop.revision /\ loop'.plan = loop.plan
        /\ loop'.source = loop.source /\ loop'.ok = loop.ok
    BY <1>2, <1>4 DEF LoopType
  <2>5. \A f \in steps' : f = new \/ (f \in steps /\ f.kind # "plan")
    BY <1>3, <1>4, <2>1
  <2>6. TypeOK'
    BY <1>1, <1>2, <1>4, <2>3, <2>4, <2>5, Typed, TypedNext DEF Sound, Journal!TypeOK
  <2>7. /\ StepsKnow' /\ InsideCounted' /\ Unsettled'
        /\ \A r, p, i : KeptFor(r, p, i) => KeptFor(r, p, i)'
    BY <1>1, <1>4, <2>3, <2>5, Quiet
  <2>8. Counted'
    BY <1>1, <2>4 DEF Sound, Counted, Planning
  <2>9. StepsOwned'
    BY <1>1, <2>3, <2>4, <2>5 DEF Sound, StepsOwned
  <2>10. PlanAlone'
    BY <1>1, <1>3, <2>3, <2>4, <2>5 DEF Sound, PlanAlone, Planning
  <2>11. PreviewAlone'
    BY <1>1, <2>3, <2>5 DEF Sound, PreviewAlone, Inside
  <2>12. PlanLive'
    BY <1>1, <1>4, <2>3, <2>4, <2>5 DEF Sound, PlanLive, Unheard
  <2>13. ReadsKept'
    <3>1. PICK r, p : r = loop.revision /\ p = loop.plan /\ r = loop'.revision /\ p = loop'.plan
      BY <2>4
    <3>2. \A i \in 1..(loop'.source - 1) : KeptFor(r, p, i)'
      BY <1>1, <2>4, <2>7, <3>1 DEF Sound, ReadsKept, Planning
    <3> QED
      BY <2>3, <2>4, <2>5, <3>1, <3>2 DEF ReadsKept
  <2>14. EndedExpired' /\ PreparedOnReceipts'
    BY <1>1, <2>4 DEF Sound, EndedExpired, PreparedOnReceipts
  <2> QED
    BY <2>6, <2>7, <2>8, <2>9, <2>10, <2>11, <2>12, <2>13, <2>14 DEF Sound
<1>5. CASE /\ UNCHANGED steps
           /\ loop' = [loop EXCEPT !.at = "planned", !.ok = FALSE]
           /\ live' = [live EXCEPT !.plan = FALSE]
  <2>1. /\ loop' \in LoopType /\ loop'.at = "planned" /\ ~loop'.ok
        /\ loop'.revision = loop.revision /\ loop'.plan = loop.plan
    <3>1. loop' \in LoopType
      BY <1>2, <1>5, Zenon DEF LoopType
    <3> QED
      BY <1>2, <1>5, <3>1 DEF LoopType
  <2>2. live' \in [plan : BOOLEAN, preview : BOOLEAN] /\ ~live'.plan
    BY <1>2, <1>5, LiveNarrowed
  <2>3. TypeOK'
    BY <1>1, <1>2, <1>5, <2>1, <2>2, Typed, TypedNext DEF Sound, Journal!TypeOK
  <2>4. /\ StepsKnow' /\ InsideCounted' /\ Unsettled'
        /\ \A r, p, i : KeptFor(r, p, i) => KeptFor(r, p, i)'
    BY <1>1, <1>5, Quiet
  <2>5. Counted'
    BY <1>1, <2>1 DEF Sound, Counted, Planning
  <2>6. StepsOwned' /\ ReadsKept'
    BY <1>3, <1>1, <1>5, <2>1 DEF Sound, StepsOwned, ReadsKept, Planning
  <2>7. PlanAlone' /\ PreviewAlone' /\ PlanLive' /\ EndedExpired' /\ PreparedOnReceipts'
    BY <1>1, <1>5, <2>1, <2>2
       DEF Sound, PlanAlone, PreviewAlone, PlanLive, EndedExpired, PreparedOnReceipts, Planning
  <2> QED
    BY <2>3, <2>4, <2>5, <2>6, <2>7 DEF Sound
<1> QED
  BY <1>1, <1>4, <1>5 DEF TaskNext


\* The answer of a step is taken: the plan goes on to the next source, or is done.
LEMMA TaskAnsweredSound ==
    ASSUME Sound, TaskAnswered
    PROVE  Sound'
<1>1. /\ loop.at = "stepping" /\ live.plan
      /\ UNCHANGED <<app, preview, phase, sent, receipts, over, ended>>
  BY DEF TaskAnswered, Journaled, Times
<1>2. PICK g \in StepOf("plan", loop) :
        /\ g.at = "answered"
        /\ steps' = steps \ {g}
        /\ loop' = IF g.ok /\ g.source <= Sources
                   THEN [loop EXCEPT !.at = "between", !.source = @ + 1]
                   ELSE [loop EXCEPT !.at = "planned", !.ok = g.ok]
        /\ live' = [live EXCEPT !.plan = g.ok /\ g.source <= Sources]
  BY DEF TaskAnswered
<1>3. /\ app \in AppType /\ loop \in LoopType /\ steps \subseteq StepType
      /\ live \in [plan : BOOLEAN, preview : BOOLEAN]
  BY Typed DEF Sound
<1>4. /\ g \in steps /\ g.kind = "plan" /\ g \in StepType /\ g.ok \in BOOLEAN
      /\ g.source \in Nat /\ Sources \in Nat /\ g.source # 0 /\ g.source <= Sources + 1
  BY <1>2, <1>3, StepNumbers, LimitsAssumption DEF StepOf
<1>5. /\ g.revision = loop.revision /\ g.plan = loop.plan /\ g.source = loop.source
      /\ \A f \in steps' : f \in steps /\ f.kind # "plan"
  BY <1>1, <1>2, <1>4 DEF Sound, StepsOwned
<1>6. PICK on \in BOOLEAN : on <=> g.ok /\ g.source <= Sources
  OBVIOUS
<1>7. /\ live' \in [plan : BOOLEAN, preview : BOOLEAN] /\ live'.plan = on
  <2>1. live' = [live EXCEPT !.plan = on]
    BY <1>2, <1>6, Zenon
  <2> QED
    BY <1>3, <2>1, LiveNarrowed
<1>8. /\ loop' \in LoopType
      /\ loop'.revision = loop.revision /\ loop'.plan = loop.plan
      /\ on => loop'.at = "between" /\ loop'.source = loop.source + 1
      /\ ~on => loop'.at = "planned" /\ loop'.ok = g.ok
  <2>1. CASE on
    <3>1. loop' = [loop EXCEPT !.at = "between", !.source = loop.source + 1]
      BY <1>2, <1>6, <2>1
    <3>2. loop.source + 1 \in 1..(Sources + 1)
      BY <1>4, <1>5, <1>6, <2>1
    <3>3. loop' \in LoopType
      BY <1>3, <3>1, <3>2, Zenon DEF LoopType
    <3> QED
      BY <1>3, <2>1, <3>1, <3>3 DEF LoopType
  <2>2. CASE ~on
    <3>1. loop' = [loop EXCEPT !.at = "planned", !.ok = g.ok]
      BY <1>2, <1>6, <2>2
    <3>2. loop' \in LoopType
      BY <1>3, <1>4, <3>1, Zenon DEF LoopType
    <3> QED
      BY <1>3, <2>2, <3>1, <3>2 DEF LoopType
  <2> QED
    BY <1>6, <2>1, <2>2
<1>9. TypeOK'
  BY <1>1, <1>2, <1>3, <1>7, <1>8, Typed, TypedNext DEF Sound, Journal!TypeOK
<1>10. /\ StepsKnow' /\ InsideCounted' /\ Unsettled'
       /\ \A r, p, i : KeptFor(r, p, i) => KeptFor(r, p, i)'
  <2>1. g.at \notin Inside
    BY <1>2 DEF Inside
  <2> QED
    BY <1>1, <1>2, <2>1, Quiet
<1>11. loop'.at \in {"between", "planned"}
  BY <1>6, <1>8
<1>12. Counted'
  BY <1>1, <1>8, <1>11 DEF Sound, Counted, Planning
<1>13. StepsOwned'
  BY <1>1, <1>5 DEF Sound, StepsOwned
<1>14. PlanAlone'
  <2> SUFFICES ASSUME loop'.at \in Planning, loop'.revision = app'.revision
               PROVE  /\ app'.state # "paused" /\ ~app'.uncertain
                      /\ \A f \in steps' : f.kind = "preview" => f.at \notin Inside
    BY DEF PlanAlone
  <2>1. on
    BY <1>6, <1>8 DEF Planning
  <2>2. \A f \in steps : f.kind = "plan" => f.ok
    BY <1>4, <1>6, <2>1 DEF Sound, StepsOwned
  <2> QED
    BY <1>1, <1>5, <1>8, <2>2 DEF Sound, PlanAlone, Planning
<1>15. PreviewAlone'
  BY <1>1, <1>5 DEF Sound, PreviewAlone
<1>16. PlanLive'
  BY <1>1, <1>5, <1>7, <1>8 DEF Sound, PlanLive
<1>17. ReadsKept'
  <2>1. PICK r, p, s : /\ r = loop.revision /\ p = loop.plan /\ s = loop.source
                       /\ r = loop'.revision /\ p = loop'.plan
    BY <1>8
  <2>2. \A i \in 1..(s - 1) : KeptFor(r, p, i)'
    BY <1>1, <1>10, <2>1 DEF Sound, ReadsKept, Planning
  <2>3. g.ok /\ g.source <= Sources => KeptFor(r, p, s)'
    BY <1>2, <1>4, <1>5, <1>10, <2>1 DEF Sound, ReadsKept
  <2>4. loop'.at \in Planning => \A i \in 1..(loop'.source - 1) : KeptFor(r, p, i)'
    <3> SUFFICES ASSUME on, NEW i \in 1..(loop'.source - 1) PROVE KeptFor(r, p, i)'
      BY <1>6, <1>8 DEF Planning
    <3>1. i \in 1..(s - 1) \/ i = s
      BY <1>4, <1>5, <1>8, <2>1
    <3> QED
      BY <1>6, <2>2, <2>3, <3>1
  <2>5. loop'.at = "planned" /\ loop'.ok => \A i \in 1..Sources : KeptFor(r, p, i)'
    <3> SUFFICES ASSUME ~on, g.ok, NEW i \in 1..Sources PROVE KeptFor(r, p, i)'
      BY <1>6, <1>8
    <3>1. s = Sources + 1
      BY <1>4, <1>5, <1>6, <2>1
    <3>2. i \in 1..(s - 1)
      BY <1>4, <3>1
    <3> QED
      BY <2>2, <3>2
  <2> QED
    BY <1>5, <2>1, <2>4, <2>5 DEF ReadsKept
<1>18. EndedExpired' /\ PreparedOnReceipts'
  BY <1>1, <1>11 DEF Sound, EndedExpired, PreparedOnReceipts
<1> QED
  BY <1>9, <1>10, <1>12, <1>13, <1>14, <1>15, <1>16, <1>17, <1>18 DEF Sound

\* The plan is abandoned, and its step left inside its operation.
LEMMA TaskAbandonsSound ==
    ASSUME Sound, TaskAbandons
    PROVE  Sound'
<1>1. /\ loop.at = "stepping" /\ steps' = Strays("plan", loop)
      /\ loop' = [loop EXCEPT !.at = "planned", !.ok = FALSE]
      /\ live' = [live EXCEPT !.plan = FALSE]
      /\ UNCHANGED <<app, preview, phase, sent, receipts, over, ended>>
  BY DEF TaskAbandons, Journaled, Times
<1>2. /\ loop \in LoopType /\ steps \subseteq StepType
      /\ live \in [plan : BOOLEAN, preview : BOOLEAN]
  BY Typed DEF Sound
<1>3. /\ \A f \in steps' : f \in steps /\ (f.kind = "plan" => f.at \in Inside)
      /\ \A f \in steps : f \notin steps' => f.kind = "plan" /\ f.at \notin Inside
  BY <1>1 DEF Strays, StepOf, Sound, StepsOwned
<1>4. /\ loop' \in LoopType /\ loop'.at = "planned" /\ ~loop'.ok
      /\ loop'.revision = loop.revision /\ loop'.plan = loop.plan
  <2>1. loop' \in LoopType
    BY <1>1, <1>2, Zenon DEF LoopType
  <2> QED
    BY <1>1, <1>2, <2>1 DEF LoopType
<1>5. live' \in [plan : BOOLEAN, preview : BOOLEAN] /\ ~live'.plan
  BY <1>1, <1>2, LiveNarrowed
<1>6. TypeOK'
  BY <1>1, <1>2, <1>3, <1>4, <1>5, Typed, TypedNext DEF Sound, Journal!TypeOK
<1>7. /\ StepsKnow' /\ InsideCounted' /\ Unsettled'
      /\ \A r, p, i : KeptFor(r, p, i) => KeptFor(r, p, i)'
  BY <1>1, <1>3, Quiet
<1>8. Counted'
  BY <1>1, <1>4 DEF Sound, Counted, Planning
<1>9. StepsOwned'
  BY <1>1, <1>3, <1>4 DEF Sound, StepsOwned
<1>10. PlanAlone' /\ PlanLive' /\ EndedExpired' /\ PreparedOnReceipts'
  BY <1>1, <1>4, <1>5
     DEF Sound, PlanAlone, PlanLive, EndedExpired, PreparedOnReceipts, Planning
<1>11. PreviewAlone'
  BY <1>1, <1>3 DEF Sound, PreviewAlone
<1>12. ReadsKept'
  BY <1>3, <1>4, <1>7 DEF Sound, ReadsKept, Planning
<1> QED
  BY <1>6, <1>7, <1>8, <1>9, <1>10, <1>11, <1>12 DEF Sound

--------------------------------------------------------------------------------
(* The check of a candidate.                                                   *)

\* A check moves on without the loop: whose steps there are is all that is new.
LEMMA CheckSound ==
    ASSUME Sound, TypeOK', UNCHANGED <<app, loop, phase, receipts>>,
           live'.plan = live.plan,
           \A f \in steps' : f \in steps \/ (/\ f.at = "start" /\ f.kind = "preview"
                                             /\ f.source <= Sources),
           \A f \in steps : f \notin steps' => f.kind = "preview" /\ f.at \notin Inside,
           \A f \in steps' : f.kind = "preview" =>
              \/ /\ preview'.at = "stepping"
                 /\ f.revision = preview'.revision /\ f.plan = preview'.plan
                 /\ f.source = preview'.source
              \/ preview'.at \in {"ending", "off"} /\ f.at \in Inside,
           \A f, e \in steps' : f.kind = "preview" /\ e.kind = "preview" => f = e,
           preview'.revision <= app.revision,
           preview'.at \in Previewing => preview'.revision # 0 /\ preview'.plan # 0,
           preview'.at \in Previewing /\ app.state = "paused" /\ preview'.revision = app.revision =>
              \A f \in steps : f.kind = "plan" => f.at \notin Inside
    PROVE  Sound'
<1>1. /\ StepsKnow' /\ InsideCounted' /\ Unsettled'
      /\ \A r, p, i : KeptFor(r, p, i) => KeptFor(r, p, i)'
  BY Quiet
<1>2. \A f \in steps' : f.kind = "plan" => f \in steps
  OBVIOUS
<1>3. \A f \in steps : f.kind = "plan" => f \in steps'
  OBVIOUS
<1>4. Counted'
  BY DEF Sound, Counted
<1>5. StepsOwned'
  <2>1. \A f, e \in steps' : f.kind = e.kind => f = e
    <3> SUFFICES ASSUME NEW f \in steps', NEW e \in steps', f.kind = e.kind PROVE f = e
      OBVIOUS
    <3>1. f.kind \in {"plan", "preview"}
      <4>1. steps \subseteq StepType
        BY Typed DEF Sound
      <4> QED
        BY <4>1, StepNumbers
    <3> QED
      BY <1>2, <3>1 DEF Sound, StepsOwned
  <2> QED
    BY <1>2, <2>1 DEF Sound, StepsOwned
<1>6. PlanAlone'
  BY <1>3 DEF Sound, PlanAlone, Inside
<1>7. PreviewAlone'
  BY <1>2 DEF PreviewAlone
<1>8. PlanLive'
  BY <1>2 DEF Sound, PlanLive
<1>9. ReadsKept'
  BY <1>1, <1>2 DEF Sound, ReadsKept
<1>10. EndedExpired' /\ PreparedOnReceipts'
  BY DEF Sound, EndedExpired, PreparedOnReceipts
<1> QED
  BY <1>1, <1>4, <1>5, <1>6, <1>7, <1>8, <1>9, <1>10 DEF Sound

\* A check starts, of a paused application with nothing pending.
LEMMA PreviewStartSound ==
    ASSUME Sound, PreviewStart
    PROVE  Sound'
<1>1. /\ app.state = "paused" /\ app.pending = 0 /\ preview.at = "off"
      /\ preview' = [at |-> "between", revision |-> app.revision, plan |-> app.plan, source |-> 1]
      /\ live' = [live EXCEPT !.preview = TRUE]
      /\ UNCHANGED <<app, loop, steps, phase, sent, receipts, over, ended>>
  BY DEF PreviewStart, Journaled, Times
<1>2. /\ app \in AppType /\ live \in [plan : BOOLEAN, preview : BOOLEAN]
      /\ app.revision \in Nat /\ app.controls \in Nat
  BY Typed, AppNumbers DEF Sound
<1>3. /\ preview' \in PreviewType /\ preview'.at = "between"
      /\ preview'.revision = app.revision /\ preview'.plan = app.plan
  <2>1. app.revision \in 0..(Controls + 1) /\ app.plan \in 0..(Controls + 1)
    BY <1>2 DEF AppType
  <2> QED
    BY <1>1, <2>1, LimitsAssumption DEF PreviewType
<1>4. live' \in [plan : BOOLEAN, preview : BOOLEAN] /\ live'.plan = live.plan
  BY <1>1, <1>2, LiveNarrowed
<1>5. TypeOK'
  BY <1>1, <1>3, <1>4, Typed, TypedNext DEF Sound, Journal!TypeOK
<1>6. \A f \in steps : f.at \notin Inside
  BY <1>1 DEF Sound, InsideCounted
<1>7. \A f \in steps : f.kind # "preview"
  BY <1>1, <1>6 DEF Sound, StepsOwned
<1>8. app.revision # 0 /\ app.plan # 0 /\ app.revision <= app.revision
  BY <1>1, <1>2 DEF Sound, Counted
<1> QED
  BY <1>1, <1>3, <1>4, <1>5, <1>6, <1>7, <1>8, CheckSound

\* The step of a check starts, or there is none to start.
LEMMA PreviewNextSound ==
    ASSUME Sound, PreviewNext
    PROVE  Sound'
<1>1. /\ preview.at = "between"
      /\ UNCHANGED <<app, loop, live, phase, sent, receipts, over, ended>>
  BY DEF PreviewNext, Journaled, Times
<1>2. preview \in PreviewType /\ steps \subseteq StepType
  BY Typed DEF Sound
<1>3. /\ \A f \in steps : f.kind # "preview"
      /\ preview.revision # 0 /\ preview.plan # 0 /\ preview.revision <= app.revision
  BY <1>1 DEF Sound, StepsOwned, Counted, Previewing
<1>4. \A x : x \in {"stepping", "ending"} /\ preview' = [preview EXCEPT !.at = x] =>
        /\ preview' \in PreviewType /\ preview'.at = x
        /\ preview'.revision = preview.revision /\ preview'.plan = preview.plan
        /\ preview'.source = preview.source
  BY <1>2 DEF PreviewType
<1>5. CASE /\ preview.source <= Sources
           /\ steps' = steps \cup {NewStep("preview", preview)}
           /\ preview' = [preview EXCEPT !.at = "stepping"]
  <2>1. PICK new : new = NewStep("preview", preview)
    OBVIOUS
  <2>2. /\ preview.revision \in 1..(Controls + 1) /\ preview.plan \in 1..(Controls + 1)
        /\ preview.source \in 1..(Sources + 1)
    BY <1>2, <1>3, LimitsAssumption DEF PreviewType
  <2>3. /\ new \in StepType /\ new.kind = "preview" /\ new.at = "start"
        /\ new.revision = preview.revision /\ new.plan = preview.plan
        /\ new.source = preview.source
    BY <2>1, <2>2, NewTyped
  <2>4. steps' = steps \cup {new}
    BY <1>5, <2>1
  <2>5. TypeOK'
    BY <1>1, <1>2, <1>4, <1>5, <2>3, <2>4, Typed, TypedNext DEF Sound, Journal!TypeOK
  <2>6. preview'.at = "stepping" /\ preview'.revision = preview.revision
        /\ preview'.plan = preview.plan /\ preview'.source = preview.source
    BY <1>4, <1>5
  <2>7. app.state = "paused" /\ preview.revision = app.revision =>
          \A f \in steps : f.kind = "plan" => f.at \notin Inside
    BY <1>1 DEF Sound, PreviewAlone, Previewing
  <2> QED
    BY <1>1, <1>3, <1>5, <2>3, <2>4, <2>5, <2>6, <2>7, CheckSound
<1>6. CASE /\ UNCHANGED steps
           /\ preview' = [preview EXCEPT !.at = "ending"]
  <2>1. preview' \in PreviewType /\ preview'.at = "ending" /\ preview'.revision = preview.revision
    BY <1>4, <1>6
  <2>2. TypeOK'
    BY <1>1, <1>2, <1>6, <2>1, Typed, TypedNext DEF Sound, Journal!TypeOK
  <2> QED
    BY <1>1, <1>3, <1>6, <2>1, <2>2, CheckSound DEF Previewing
<1> QED
  BY <1>1, <1>5, <1>6 DEF PreviewNext

\* The answer of a check's step is taken.
LEMMA PreviewAnsweredSound ==
    ASSUME Sound, PreviewAnswered
    PROVE  Sound'
<1>1. /\ preview.at = "stepping"
      /\ UNCHANGED <<app, loop, live, phase, sent, receipts, over, ended>>
  BY DEF PreviewAnswered, Journaled, Times
<1>2. PICK g \in StepOf("preview", preview) :
        /\ g.at = "answered"
        /\ steps' = steps \ {g}
        /\ preview' = IF g.ok THEN [preview EXCEPT !.at = "between", !.source = @ + 1]
                      ELSE [preview EXCEPT !.at = "ending"]
  BY DEF PreviewAnswered
<1>3. preview \in PreviewType /\ steps \subseteq StepType
  BY Typed DEF Sound
<1>4. g \in steps /\ g.kind = "preview" /\ g.at \notin Inside /\ g.source <= Sources
      /\ g.source = preview.source
  BY <1>2 DEF StepOf, Inside, Sound, StepsKnow
<1>5. \A f \in steps' : f \in steps /\ f.kind # "preview"
  BY <1>2, <1>4 DEF Sound, StepsOwned
<1>6. /\ preview' \in PreviewType /\ preview'.at \in {"between", "ending"}
      /\ preview'.revision = preview.revision /\ preview'.plan = preview.plan
  <2>1. CASE preview' = [preview EXCEPT !.at = "between", !.source = @ + 1]
    <3>1. preview' = [preview EXCEPT !.at = "between", !.source = preview.source + 1]
      BY <2>1
    <3>2. preview.source + 1 \in 1..(Sources + 1)
      <4>1. preview.source \in Nat /\ preview.source <= Sources /\ Sources \in Nat
        BY <1>3, <1>4, PreviewNumbers, LimitsAssumption
      <4> QED
        BY <4>1
    <3>3. preview' \in PreviewType
      BY <1>3, <3>1, <3>2, Zenon DEF PreviewType
    <3> QED
      BY <1>3, <3>1, <3>3 DEF PreviewType
  <2>2. CASE preview' = [preview EXCEPT !.at = "ending"]
    BY <1>3, <2>2 DEF PreviewType
  <2> QED
    BY <1>2, <2>1, <2>2
<1>7. TypeOK'
  BY <1>1, <1>2, <1>3, <1>6, Typed, TypedNext DEF Sound, Journal!TypeOK
<1>8. /\ preview.revision <= app.revision /\ preview.revision # 0 /\ preview.plan # 0
      /\ app.state = "paused" /\ preview.revision = app.revision =>
           \A f \in steps : f.kind = "plan" => f.at \notin Inside
  BY <1>1 DEF Sound, Counted, PreviewAlone, Previewing
<1> QED
  BY <1>1, <1>2, <1>4, <1>5, <1>6, <1>7, <1>8, CheckSound

\* The check is abandoned, and its step left inside its operation.
LEMMA PreviewAbandonsSound ==
    ASSUME Sound, PreviewAbandons
    PROVE  Sound'
<1>1. /\ preview.at = "stepping" /\ steps' = Strays("preview", preview)
      /\ preview' = [preview EXCEPT !.at = "ending"]
      /\ UNCHANGED <<app, loop, live, phase, sent, receipts, over, ended>>
  BY DEF PreviewAbandons, Journaled, Times
<1>2. preview \in PreviewType
  BY Typed DEF Sound
<1>3. /\ \A f \in steps' : f \in steps /\ (f.kind = "preview" => f.at \in Inside)
      /\ \A f \in steps : f \notin steps' => f.kind = "preview" /\ f.at \notin Inside
  BY <1>1 DEF Strays, StepOf, Sound, StepsOwned
<1>4. preview' \in PreviewType /\ preview'.at = "ending" /\ preview'.revision = preview.revision
  BY <1>1, <1>2 DEF PreviewType
<1>5. TypeOK'
  BY <1>1, <1>3, <1>4, Typed, TypedNext DEF Sound, Journal!TypeOK
<1>6. /\ preview.revision <= app.revision
      /\ \A f, e \in steps : f.kind = "preview" /\ e.kind = "preview" => f = e
  BY DEF Sound, Counted, StepsOwned
<1> QED
  BY <1>1, <1>3, <1>4, <1>5, <1>6, CheckSound DEF Previewing


--------------------------------------------------------------------------------
(* A step answers: before its read, or when it leaves.                        *)

\* A step that has claimed nothing answers: its task waits for it.
LEMMA RefusedSound ==
    ASSUME Sound, TypeOK', NEW g \in steps, NEW h, Become(g, h),
           g.at = "start", h.at = "answered",
           h.kind = g.kind, h.revision = g.revision, h.plan = g.plan, h.source = g.source,
           h.ok => g.source > Sources,
           app'.revision = app.revision, app'.plan = app.plan, app'.controls = app.controls,
           app'.pending = app.pending, app'.reads = app.reads, app'.uncertain = app.uncertain,
           \/ app'.state = app.state
           \/ app'.state = "expired" /\ app.state # "created" /\ ~live'.plan
           \/ /\ app'.state = "exhausted"
              /\ app.state = IF g.kind = "plan" THEN "running" ELSE "paused",
           loop' = loop \/ loop' = Signalled,
           live'.plan => live.plan,
           UNCHANGED <<preview, phase, receipts>>
    PROVE  Sound'
<1>1. /\ loop'.at = loop.at /\ loop'.revision = loop.revision /\ loop'.plan = loop.plan
      /\ loop'.source = loop.source /\ loop'.ok = loop.ok
  BY Typed, Woken DEF Sound
<1>2. /\ \A f \in steps' : f = h \/ (f \in steps /\ f # g)
      /\ \A f \in steps : f = g \/ f \in steps'
      /\ h \in steps' /\ g.at \notin Inside /\ h.at \notin Inside
      /\ g.at \notin Unheard /\ h.at \notin Unheard
  BY DEF Become, Inside, Unheard
<1>3. /\ g.kind \in {"plan", "preview"} /\ g.source \in Nat /\ Sources \in Nat
  BY Typed, StepNumbers, LimitsAssumption DEF Sound
<1>4. /\ StepsKnow' /\ InsideCounted' /\ Unsettled'
      /\ \A r, p, i : KeptFor(r, p, i) => KeptFor(r, p, i)'
  <2>1. h.kind = "preview" => h.source <= Sources
    BY DEF Sound, StepsKnow
  <2> QED
    BY <1>2, <2>1, Quiet
<1>5. Counted'
  BY <1>1 DEF Sound, Counted
<1>6. StepsOwned'
  <2>1. /\ g.kind = "plan" => /\ loop.at = "stepping" /\ g.revision = loop.revision
                              /\ g.plan = loop.plan /\ g.source = loop.source
        /\ g.kind = "preview" => /\ preview.at = "stepping" /\ g.revision = preview.revision
                                 /\ g.plan = preview.plan /\ g.source = preview.source
    BY <1>2 DEF Sound, StepsOwned
  <2>2. \A f, e \in steps' : f.kind = e.kind => f = e
    BY <1>2 DEF Sound, StepsOwned
  <2> QED
    BY <1>1, <1>2, <2>1, <2>2 DEF Sound, StepsOwned
<1>7. PlanAlone'
  <2> SUFFICES ASSUME loop.at \in Planning, loop.revision = app.revision
               PROVE  /\ app'.state # "paused"
                      /\ \A f \in steps' : f.kind = "preview" => f.at \notin Inside
                      /\ app'.uncertain => \E f \in steps' : /\ f.kind = "plan"
                                                             /\ f.at \in {"leaving", "answered"}
                                                             /\ ~f.ok
    BY <1>1 DEF PlanAlone
  <2>1. app.uncertain => \E f \in steps : /\ f.kind = "plan" /\ f # g
                                          /\ f.at \in {"leaving", "answered"} /\ ~f.ok
    BY DEF Sound, PlanAlone
  <2> QED
    BY <1>2, <2>1 DEF Sound, PlanAlone
<1>8. PreviewAlone'
  BY <1>2 DEF Sound, PreviewAlone
<1>9. PlanLive'
  <2> SUFFICES ASSUME live'.plan
               PROVE  \A f \in steps' : f.kind = "plan" /\ f.at \in Unheard \ {"reading", "observing"}
                                        => app'.state = "running"
    BY <1>1 DEF Sound, PlanLive
  <2> SUFFICES ASSUME NEW f \in steps', f.kind = "plan", f.at \in Unheard \ {"reading", "observing"}
               PROVE  app'.state = "running"
    OBVIOUS
  <2>1. f \in steps /\ f # g
    BY <1>2
  <2>2. app.state = "running"
    BY <2>1 DEF Sound, PlanLive
  <2>3. g.kind # "plan"
    BY <2>1 DEF Sound, StepsOwned
  <2> QED
    BY <2>2, <2>3
<1>10. ReadsKept'
  <2>1. PICK r, p : r = loop.revision /\ p = loop.plan /\ r = loop'.revision /\ p = loop'.plan
    BY <1>1
  <2>2. loop'.at \in Planning => \A i \in 1..(loop'.source - 1) : KeptFor(r, p, i)'
    BY <1>1, <1>4, <2>1 DEF Sound, ReadsKept
  <2>3. loop'.at = "planned" /\ loop'.ok => \A i \in 1..Sources : KeptFor(r, p, i)'
    BY <1>1, <1>4, <2>1 DEF Sound, ReadsKept
  <2>4. \A f \in steps' : f.kind = "plan" /\ f.at \in {"leaving", "answered"} /\ f.ok
                          /\ f.source <= Sources => KeptFor(f.revision, f.plan, f.source)'
    BY <1>2, <1>3, <1>4 DEF Sound, ReadsKept
  <2> QED
    BY <2>1, <2>2, <2>3, <2>4 DEF ReadsKept
<1>11. EndedExpired'
  <2> SUFFICES ASSUME loop.at = "reassessing", loop.revision = app.revision,
                      app'.state = "exhausted", app.state # "exhausted"
               PROVE  FALSE
    BY <1>1 DEF Sound, EndedExpired, Terminal
  <2>1. app.state # "paused"
    BY DEF Sound, PlanAlone, Planning
  <2>2. g.kind # "plan"
    BY DEF Sound, StepsOwned
  <2> QED
    BY <2>1, <2>2
<1>12. PreparedOnReceipts'
  BY DEF Sound, PreparedOnReceipts
<1> QED
  BY <1>4, <1>5, <1>6, <1>7, <1>8, <1>9, <1>10, <1>11, <1>12 DEF Sound

\* A step claims a read: nothing else is inside an operation.
LEMMA ClaimedSound ==
    ASSUME Sound, TypeOK', NEW g \in steps, NEW h, Become(g, h), g.at = "start",
           Live(g),
           app.state = IF g.kind = "plan" THEN "running" ELSE "paused",
           app.revision = g.revision,
           h.at = IF g.kind = "plan" THEN "entered" ELSE "reading",
           h.kind = g.kind, h.revision = g.revision, h.plan = g.plan, h.source = g.source,
           h.n = app.reads + 1, g.source <= Sources, app.reads < Reads,
           app'.revision = app.revision, app'.plan = app.plan, app'.controls = app.controls,
           app'.uncertain = app.uncertain, app'.state = app.state,
           app'.pending = app.pending + 1, app'.reads = app.reads + 1,
           loop' = loop \/ loop' = Signalled,
           UNCHANGED <<live, preview, phase, receipts>>
    PROVE  Sound'
<1>1. /\ loop'.at = loop.at /\ loop'.revision = loop.revision /\ loop'.plan = loop.plan
      /\ loop'.source = loop.source /\ loop'.ok = loop.ok
  BY Typed, Woken DEF Sound
<1>2. /\ app.reads \in Nat /\ Reads \in Nat /\ app.revision \in Nat
      /\ g.kind \in {"plan", "preview"}
  BY Typed, AppNumbers, StepNumbers DEF Sound
<1>3. /\ \A f \in steps' : f = h \/ (f \in steps /\ f # g)
      /\ \A f \in steps : f = g \/ f \in steps'
      /\ h \in steps' /\ g.at \notin Inside /\ h.at \in Inside
  BY <1>2 DEF Become, Inside
<1>4. /\ g.kind = "plan" =>
           /\ live.plan /\ loop.at = "stepping" /\ g.revision = loop.revision
           /\ g.plan = loop.plan /\ g.source = loop.source
      /\ g.kind = "preview" =>
           /\ preview.at = "stepping" /\ g.revision = preview.revision
           /\ g.plan = preview.plan /\ g.source = preview.source
  BY <1>3 DEF Sound, StepsOwned, Live
<1>5. \A f \in steps : f.at \notin Inside
  <2> SUFFICES ASSUME NEW f \in steps, f.at \in Inside PROVE FALSE
    OBVIOUS
  <2>1. f.kind \in {"plan", "preview"} /\ f.kind # g.kind
    <3>1. f.kind \in {"plan", "preview"}
      BY Typed, StepNumbers DEF Sound
    <3> QED
      BY <1>3, <3>1 DEF Sound, StepsOwned
  <2>2. CASE g.kind = "plan"
    BY <1>4, <2>1, <2>2 DEF Sound, PlanAlone, Planning
  <2>3. CASE g.kind = "preview"
    BY <1>4, <2>1, <2>3 DEF Sound, PreviewAlone, Previewing
  <2> QED
    BY <1>2, <2>2, <2>3
<1>6. app.pending = 0 /\ app'.pending = 1
  BY <1>5 DEF Sound, InsideCounted
<1>7. \A r, p, i : KeptFor(r, p, i) => KeptFor(r, p, i)'
  BY DEF KeptFor
<1>8. Counted'
  BY <1>1, <1>2 DEF Sound, Counted
<1>9. StepsOwned'
  <2>1. \A f, e \in steps' : f.kind = e.kind => f = e
    BY <1>3 DEF Sound, StepsOwned
  <2> QED
    BY <1>1, <1>3, <1>4, <2>1 DEF Sound, StepsOwned
<1>10. StepsKnow'
  <2>1. \A f \in steps' : f.at \in Inside => f = h
    BY <1>3, <1>5
  <2>2. h.n # 0
    BY <1>2
  <2> QED
    BY <1>3, <2>1, <2>2 DEF Sound, StepsKnow
<1>11. InsideCounted'
  BY <1>3, <1>5, <1>6 DEF InsideCounted
<1>12. PlanAlone'
  <2> SUFFICES ASSUME loop.at \in Planning, loop.revision = app.revision
               PROVE  /\ app'.state # "paused"
                      /\ \A f \in steps' : f.kind = "preview" => f.at \notin Inside
                      /\ ~app'.uncertain
    BY <1>1 DEF PlanAlone
  <2>1. app.state # "paused" /\ g.kind = "plan"
    BY <1>2 DEF Sound, PlanAlone
  <2>2. ~app.uncertain
    BY <2>1 DEF Sound, PlanAlone, StepsOwned
  <2> QED
    BY <1>3, <1>5, <2>1, <2>2
<1>13. PreviewAlone'
  <2>1. app.state = "paused" => h.kind = "preview"
    BY <1>2
  <2> QED
    BY <1>3, <1>5, <2>1 DEF PreviewAlone
<1>14. PlanLive'
  <2>1. \A f \in steps' : f.kind = "plan" /\ f.at \in Unheard => f = h
    BY <1>3, <1>5 DEF Unheard, Inside
  <2> QED
    BY <1>1, <2>1 DEF Sound, PlanLive
<1>15. Unsettled'
  <2>1. \A f \in steps' : f.kind = "plan" /\ f.at \in Unheard => f = h /\ f.at = "entered"
    BY <1>3, <1>5 DEF Unheard, Inside
  <2>2. app.reads + 1 \in Attempts
    BY <1>2 DEF Attempts
  <2>3. \A n \in Attempts : n > app.reads => receipts[n] = None
    BY DEF Sound, Unsettled
  <2>4. \A n \in Attempts : n > app'.reads => receipts[n] = None
    BY <1>2, <2>3 DEF Attempts
  <2>5. receipts[h.n] = None
    BY <1>2, <2>2, <2>3
  <2> QED
    BY <2>1, <2>4, <2>5 DEF Unsettled
<1>16. ReadsKept'
  <2>1. PICK r, p : r = loop.revision /\ p = loop.plan /\ r = loop'.revision /\ p = loop'.plan
    BY <1>1
  <2>2. loop'.at \in Planning => \A i \in 1..(loop'.source - 1) : KeptFor(r, p, i)'
    BY <1>1, <1>7, <2>1 DEF Sound, ReadsKept
  <2>3. loop'.at = "planned" /\ loop'.ok => \A i \in 1..Sources : KeptFor(r, p, i)'
    BY <1>1, <1>7, <2>1 DEF Sound, ReadsKept
  <2>4. \A f \in steps' : f.kind = "plan" /\ f.at \in {"leaving", "answered"} /\ f.ok
                          /\ f.source <= Sources => KeptFor(f.revision, f.plan, f.source)'
    BY <1>3, <1>7 DEF Sound, ReadsKept
  <2> QED
    BY <2>1, <2>2, <2>3, <2>4 DEF ReadsKept
<1>17. EndedExpired' /\ PreparedOnReceipts'
  BY DEF EndedExpired, PreparedOnReceipts, Terminal
<1> QED
  BY <1>8, <1>9, <1>10, <1>11, <1>12, <1>13, <1>14, <1>15, <1>16, <1>17 DEF Sound


\* The task of a step that has claimed nothing hears its answer.
LEMMA StartAnswers ==
    ASSUME Sound, NEW g \in steps, g.at = "start", NEW b \in BOOLEAN, Answers(g, b)
    PROVE  Become(g, Concluded(g, "answered", b))
<1>1. g.kind \in {"plan", "preview"} /\ g.at \notin Inside
  BY Typed, StepNumbers DEF Sound, Inside
<1>2. Awaited(g)
  BY <1>1 DEF Sound, StepsOwned, Awaited, StepOf
<1> QED
  BY <1>2 DEF Answers, Concluded

\* The first section of a step.
LEMMA ClaimSound ==
    ASSUME Sound, NEW g \in steps, NEW allowed \in BOOLEAN, Claim(g, allowed)
    PROVE  Sound'
<1>1. /\ g.at = "start"
      /\ loop' = loop \/ loop' = Signalled
      /\ UNCHANGED <<preview, phase, sent, receipts, over, ended>>
  BY DEF Claim, Journaled, Times
<1>2. /\ app \in AppType /\ loop \in LoopType /\ g \in StepType /\ steps \subseteq StepType
      /\ live \in [plan : BOOLEAN, preview : BOOLEAN]
      /\ app.reads \in Nat /\ app.pending \in Nat /\ Reads \in Nat
      /\ g.source \in Nat /\ Sources \in Nat /\ g.kind \in {"plan", "preview"}
  BY Typed, AppNumbers, StepNumbers DEF Sound
<1>3. loop' \in LoopType
  BY <1>1, <1>2, Woken
<1>4. ASSUME NEW b \in BOOLEAN, Answers(g, b)
      PROVE  \E h \in StepType : /\ Become(g, h) /\ h.at = "answered" /\ h.ok = b
                                 /\ h.kind = g.kind /\ h.revision = g.revision
                                 /\ h.plan = g.plan /\ h.source = g.source
  <2>1. Become(g, Concluded(g, "answered", b))
    BY <1>1, <1>4, StartAnswers
  <2>2. "answered" \in Inside \cup {"start", "answered"}
    OBVIOUS
  <2> QED
    BY <1>2, <2>1, <2>2, StepConcluded
<1>5. CASE ~(allowed /\ Live(g) /\ Current(g, Expired))
  <2>1. /\ app' = IF allowed THEN Expired ELSE app
        /\ IF allowed THEN ExpireCancels ELSE UNCHANGED live
        /\ Answers(g, FALSE)
    BY <1>5 DEF Claim
  <2>2. PICK h \in StepType : /\ Become(g, h) /\ h.at = "answered" /\ h.ok = FALSE
                              /\ h.kind = g.kind /\ h.revision = g.revision
                              /\ h.plan = g.plan /\ h.source = g.source
    BY <1>4, <2>1
  <2>3. app' = app \/ app' = Expired
    BY <2>1
  <2>4. /\ app' \in AppType
        /\ app'.revision = app.revision /\ app'.plan = app.plan /\ app'.pending = app.pending
        /\ app'.uncertain = app.uncertain /\ app'.reads = app.reads
        /\ app'.controls = app.controls
    BY <1>2, <2>3, Expiring
  <2>5. /\ live' \in [plan : BOOLEAN, preview : BOOLEAN]
        /\ live'.plan => live.plan
        /\ allowed /\ Expirable => ~live'.plan
    BY <1>2, <2>1, Cancelling
  <2>6. app'.state = app.state \/ (app'.state = "expired" /\ app.state # "created" /\ ~live'.plan)
    BY <1>2, <2>1, <2>5, Expiring DEF Expirable
  <2>7. TypeOK'
    BY <1>1, <1>2, <1>3, <2>2, <2>4, <2>5, Typed, TypedNext DEF Sound, Become, Journal!TypeOK
  <2> QED
    BY <1>1, <2>2, <2>4, <2>5, <2>6, <2>7, RefusedSound
<1>6. CASE allowed /\ Live(g) /\ Current(g, Expired)
  <2>1. /\ Expired = app
        /\ app.state = IF g.kind = "plan" THEN "running" ELSE "paused"
        /\ app.revision = g.revision
    BY <1>2, <1>6, Expiring DEF Current, Expired
  <2>2. CASE g.source > Sources
    <3>1. UNCHANGED <<app, live>> /\ \E ok \in BOOLEAN : Answers(g, ok)
      BY <1>6, <2>2 DEF Claim
    <3>2. PICK h \in StepType : /\ Become(g, h) /\ h.at = "answered"
                                /\ h.kind = g.kind /\ h.revision = g.revision
                                /\ h.plan = g.plan /\ h.source = g.source
      BY <1>4, <3>1
    <3>3. TypeOK'
      BY <1>1, <1>2, <1>3, <3>1, <3>2, Typed, TypedNext DEF Sound, Become, Journal!TypeOK
    <3> QED
      BY <1>1, <2>2, <3>1, <3>2, <3>3, RefusedSound
  <2>3. CASE g.source <= Sources /\ app.reads >= Reads
    <3> ~(g.source > Sources) /\ app.reads >= Reads
      BY <1>2, <2>3
    <3>1. /\ app' = [app EXCEPT !.state = "exhausted"] /\ UNCHANGED live
          /\ Answers(g, FALSE)
      BY <1>6, Zenon DEF Claim
    <3>2. PICK h \in StepType : /\ Become(g, h) /\ h.at = "answered" /\ h.ok = FALSE
                                /\ h.kind = g.kind /\ h.revision = g.revision
                                /\ h.plan = g.plan /\ h.source = g.source
      BY <1>4, <3>1
    <3>3. /\ app' \in AppType /\ app'.state = "exhausted"
          /\ app'.revision = app.revision /\ app'.plan = app.plan /\ app'.pending = app.pending
          /\ app'.uncertain = app.uncertain /\ app'.reads = app.reads
          /\ app'.controls = app.controls
      BY <1>2, <3>1 DEF AppType, Terminal
    <3>4. TypeOK'
      BY <1>1, <1>2, <1>3, <3>1, <3>2, <3>3, Typed, TypedNext DEF Sound, Become, Journal!TypeOK
    <3> QED
      BY <1>1, <2>1, <3>1, <3>2, <3>3, <3>4, RefusedSound
  <2>4. CASE g.source <= Sources /\ app.reads < Reads
    <3> ~(g.source > Sources) /\ ~(app.reads >= Reads)
      BY <1>2, <2>4
    <3>1. PICK h : /\ Become(g, h)
                   /\ h = [g EXCEPT !.at = IF g.kind = "plan" THEN "entered" ELSE "reading",
                                    !.n = app.reads + 1]
      BY <1>6, Zenon DEF Claim
    <3>2. /\ app' = [app EXCEPT !.reads = @ + 1, !.pending = @ + 1]
          /\ UNCHANGED live
      BY <1>6, Zenon DEF Claim
    <3>3. PICK at : at = IF g.kind = "plan" THEN "entered" ELSE "reading"
      OBVIOUS
    <3>4. at \in Inside \cup {"start", "answered"} /\ app.reads + 1 \in 0..Reads
      BY <1>2, <2>4, <3>3 DEF Inside
    <3>5. h = [g EXCEPT !.at = at, !.n = app.reads + 1]
      BY <3>1, <3>3
    <3>6. h \in StepType
      BY <1>2, <3>4, <3>5, Zenon DEF StepType
    <3>7. /\ h.at = at /\ h.n = app.reads + 1
          /\ h.kind = g.kind /\ h.revision = g.revision
          /\ h.plan = g.plan /\ h.source = g.source
      BY <1>2, <3>5, <3>6 DEF StepType
    <3>8. app' = [app EXCEPT !.reads = app.reads + 1, !.pending = app.pending + 1]
      BY <3>2
    <3>9. app.pending + 1 \in 0..Reads
      <4>1. app.pending \in {0, 1} /\ (app.pending = 1 => \E f \in steps : f.at \in Inside)
        BY DEF Sound, InsideCounted
      <4>2. app.pending = 1 => app.reads # 0
        BY <4>1 DEF Sound, StepsKnow
      <4> QED
        BY <1>2, <2>4, <4>1, <4>2
    <3>10. app' \in AppType
      BY <1>2, <3>4, <3>8, <3>9, Zenon DEF AppType
    <3>11. /\ app'.revision = app.revision /\ app'.plan = app.plan
           /\ app'.controls = app.controls /\ app'.uncertain = app.uncertain
           /\ app'.state = app.state
           /\ app'.pending = app.pending + 1 /\ app'.reads = app.reads + 1
      BY <1>2, <3>8, <3>10 DEF AppType
    <3>12. TypeOK'
      BY <1>1, <1>2, <1>3, <3>1, <3>2, <3>6, <3>10, Typed, TypedNext
         DEF Sound, Become, Journal!TypeOK
    <3> QED
      BY <1>1, <1>6, <2>1, <2>4, <3>1, <3>2, <3>3, <3>7, <3>11, <3>12, ClaimedSound
  <2> QED
    BY <1>2, <2>2, <2>3, <2>4
<1> QED
  BY <1>5, <1>6

\* The last section of a step that claimed a read.
LEMMA LeaveSound ==
    ASSUME Sound, NEW g \in steps, NEW big \in BOOLEAN, Leave(g, big)
    PROVE  Sound'
<1>1. /\ g.at = "leaving" /\ loop' = Signalled
      /\ UNCHANGED <<preview, live, phase, sent, receipts, over, ended>>
      /\ g.at \in Inside /\ g.at \notin Unheard
  BY DEF Leave, Journaled, Times, Inside, Unheard
<1>2. /\ app \in AppType /\ loop \in LoopType /\ g \in StepType /\ steps \subseteq StepType
      /\ g.ok \in BOOLEAN /\ g.kind \in {"plan", "preview"}
  BY Typed, StepNumbers DEF Sound
<1>3. /\ loop' \in LoopType /\ loop'.at = loop.at
      /\ loop'.revision = loop.revision /\ loop'.plan = loop.plan
      /\ loop'.source = loop.source /\ loop'.ok = loop.ok
  BY <1>1, <1>2, Woken
<1>4. /\ app.state # "created" /\ app.pending = 1 /\ app.state # "prepared"
      /\ \A f \in steps : f # g => f.at \notin Inside
  BY <1>1, InsideStarted DEF Sound, InsideCounted
<1>5. PICK large \in BOOLEAN : large <=> big /\ g.kind = "preview"
  OBVIOUS
<1>6. PICK a : a = Exceeded(app, large)
  OBVIOUS
<1>7. /\ a \in AppType
      /\ a.revision = app.revision /\ a.plan = app.plan /\ a.pending = app.pending
      /\ a.uncertain = app.uncertain /\ a.reads = app.reads /\ a.controls = app.controls
      /\ a = app \/ (large /\ a.state = "exhausted" /\ app.state \notin Terminal)
  BY <1>2, <1>6, Exceeding
<1>8. app' = [a EXCEPT !.pending = 0]
  <2>1. large = (big /\ g.kind = "preview")
    BY <1>5, Zenon
  <2>2. app' = [a EXCEPT !.pending = a.pending - 1]
    BY <1>6, <2>1 DEF Leave
  <2> QED
    BY <1>4, <1>7, <2>2
<1>9. /\ app' \in AppType /\ app'.pending = 0
      /\ app'.revision = app.revision /\ app'.plan = app.plan
      /\ app'.uncertain = app.uncertain /\ app'.reads = app.reads
      /\ app'.controls = app.controls
      /\ \/ app'.state = app.state
         \/ g.kind = "preview" /\ app'.state = "exhausted" /\ app.state \notin Terminal
  <2>1. 0 \in 0..Reads
    BY LimitsAssumption
  <2>2. app' \in AppType
    BY <1>7, <1>8, <2>1 DEF AppType
  <2> QED
    BY <1>5, <1>7, <1>8, <2>2 DEF AppType
<1>10. \/ Awaited(g) /\ Become(g, Concluded(g, "answered", g.ok))
       \/ ~Awaited(g) /\ steps' = steps \ {g}
  BY DEF Leave, Answers, Concluded
<1>11. PICK h : h = Concluded(g, "answered", g.ok)
  OBVIOUS
<1>12. /\ h \in StepType /\ h.at = "answered" /\ h.ok = g.ok
       /\ h.kind = g.kind /\ h.revision = g.revision
       /\ h.plan = g.plan /\ h.source = g.source
  <2>1. "answered" \in Inside \cup {"start", "answered"}
    OBVIOUS
  <2> QED
    BY <1>2, <1>11, <2>1, StepConcluded
<1>13. /\ \A f \in steps' : (f = h /\ Awaited(g)) \/ (f \in steps /\ f # g)
       /\ \A f \in steps : f = g \/ f \in steps'
       /\ Awaited(g) => h \in steps'
       /\ h.at \notin Inside /\ h.at \notin Unheard
  BY <1>10, <1>11, <1>12 DEF Become, Inside, Unheard
<1>14. \A f \in steps' : f.at \notin Inside
  BY <1>4, <1>13
<1>15. TypeOK'
  BY <1>1, <1>2, <1>3, <1>9, <1>12, <1>13, Typed, TypedNext DEF Sound, Journal!TypeOK
<1>16. \A r, p, i : KeptFor(r, p, i) => KeptFor(r, p, i)'
  BY <1>1 DEF KeptFor
<1>17. Counted'
  <2>1. app'.state # "created"
    BY <1>4, <1>9
  <2> QED
    BY <1>1, <1>3, <1>4, <1>9, <2>1 DEF Sound, Counted
<1>18. StepsOwned'
  <2>1. Awaited(g) =>
          /\ g.kind = "plan" => /\ loop.at = "stepping" /\ g.revision = loop.revision
                                /\ g.plan = loop.plan /\ g.source = loop.source
          /\ g.kind = "preview" => /\ preview.at = "stepping" /\ g.revision = preview.revision
                                   /\ g.plan = preview.plan /\ g.source = preview.source
    BY <1>1 DEF Sound, StepsOwned, Awaited, StepOf
  <2>2. \A f, e \in steps' : f.kind = e.kind => f = e
    BY <1>12, <1>13 DEF Sound, StepsOwned
  <2> QED
    BY <1>1, <1>3, <1>12, <1>13, <2>1, <2>2 DEF Sound, StepsOwned
<1>19. StepsKnow'
  <2>1. h.kind = "preview" => h.source <= Sources
    BY <1>12 DEF Sound, StepsKnow
  <2> QED
    BY <1>12, <1>13, <1>14, <2>1 DEF Sound, StepsKnow
<1>20. InsideCounted'
  BY <1>9, <1>14 DEF InsideCounted
<1>21. PlanAlone'
  <2> SUFFICES ASSUME loop.at \in Planning, loop.revision = app.revision
               PROVE  /\ app'.state # "paused"
                      /\ app'.uncertain => \E f \in steps' : /\ f.kind = "plan"
                                                             /\ f.at \in {"leaving", "answered"}
                                                             /\ ~f.ok
    BY <1>3, <1>9, <1>14 DEF PlanAlone
  <2>1. app'.state # "paused"
    BY <1>9 DEF Sound, PlanAlone
  <2>2. ASSUME app.uncertain
        PROVE  \E f \in steps' : f.kind = "plan" /\ f.at \in {"leaving", "answered"} /\ ~f.ok
    <3>1. PICK f \in steps : f.kind = "plan" /\ f.at \in {"leaving", "answered"} /\ ~f.ok
      BY <2>2 DEF Sound, PlanAlone
    <3>2. CASE f = g
      <4>1. Awaited(g)
        BY <3>1, <3>2 DEF Sound, StepsOwned, Planning, Awaited, StepOf
      <4> QED
        BY <1>12, <1>13, <3>1, <3>2, <4>1
    <3>3. CASE f # g
      BY <1>13, <3>1, <3>3
    <3> QED
      BY <3>2, <3>3
  <2> QED
    BY <1>9, <2>1, <2>2
<1>22. PreviewAlone'
  BY <1>14 DEF PreviewAlone
<1>23. PlanLive'
  <2>1. \A f \in steps' : f.at \notin Unheard
    BY <1>14 DEF Inside, Unheard
  <2> QED
    BY <1>1, <1>3, <1>9, <2>1 DEF Sound, PlanLive
<1>24. Unsettled'
  <2>1. \A f \in steps' : f.at \notin Unheard
    BY <1>14 DEF Inside, Unheard
  <2> QED
    BY <1>1, <1>9, <2>1 DEF Sound, Unsettled
<1>25. ReadsKept'
  <2>1. PICK r, p : r = loop.revision /\ p = loop.plan /\ r = loop'.revision /\ p = loop'.plan
    BY <1>3
  <2>2. loop'.at \in Planning => \A i \in 1..(loop'.source - 1) : KeptFor(r, p, i)'
    BY <1>3, <1>16, <2>1 DEF Sound, ReadsKept
  <2>3. loop'.at = "planned" /\ loop'.ok => \A i \in 1..Sources : KeptFor(r, p, i)'
    BY <1>3, <1>16, <2>1 DEF Sound, ReadsKept
  <2>4. \A f \in steps' : f.kind = "plan" /\ f.at \in {"leaving", "answered"} /\ f.ok
                          /\ f.source <= Sources => KeptFor(f.revision, f.plan, f.source)'
    BY <1>1, <1>12, <1>13, <1>16 DEF Sound, ReadsKept
  <2> QED
    BY <2>1, <2>2, <2>3, <2>4 DEF ReadsKept
<1>26. EndedExpired'
  <2> SUFFICES ASSUME loop.at = "reassessing", loop.revision = app.revision,
                      g.kind = "preview"
               PROVE  FALSE
    BY <1>3, <1>9 DEF Sound, EndedExpired, Terminal
  <2> QED
    BY <1>1 DEF Sound, PlanAlone, Planning
<1>27. PreparedOnReceipts'
  BY <1>4, <1>9 DEF PreparedOnReceipts
<1> QED
  BY <1>15, <1>17, <1>18, <1>19, <1>20, <1>21, <1>22, <1>23, <1>24, <1>25, <1>26, <1>27 DEF Sound


--------------------------------------------------------------------------------
(* Every step.                                                                 *)

\* At first nothing was started.
LEMMA InitSound == Init => Sound
<1> SUFFICES ASSUME Init PROVE Sound
  OBVIOUS
<1>1. /\ app = [state |-> "created", revision |-> 0, plan |-> 0, pending |-> 0,
                uncertain |-> FALSE, reads |-> 0, controls |-> 0]
      /\ loop = [at |-> "none", revision |-> 0, plan |-> 0, source |-> 1, ok |-> FALSE,
                 woken |-> FALSE]
      /\ preview = [at |-> "off", revision |-> 0, plan |-> 0, source |-> 1]
      /\ live = [plan |-> FALSE, preview |-> FALSE]
      /\ steps = {} /\ receipts = [n \in Attempts |-> None]
      /\ over = FALSE /\ ended = FALSE /\ Journal!Init
  BY DEF Init
<1>2. 0 \in 0..(Controls + 1) /\ 0 \in 0..Reads /\ 0 \in 0..Controls /\ 1 \in 1..(Sources + 1)
  BY LimitsAssumption
<1>3. app \in AppType
  BY <1>1, <1>2 DEF AppType
<1>4. loop \in LoopType /\ preview \in PreviewType
  BY <1>1, <1>2 DEF LoopType, PreviewType
<1>5. Journal!TypeOK
  BY <1>1 DEF Journal!Init, Journal!TypeOK, Journal!Phases
<1>6. TypeOK
  BY <1>1, <1>3, <1>4, <1>5, Typed
<1>7. Counted
  BY <1>1 DEF Counted, Planning, Previewing
<1>8. StepsOwned /\ StepsKnow /\ InsideCounted /\ PlanAlone /\ PreviewAlone /\ PlanLive
  BY <1>1 DEF StepsOwned, StepsKnow, InsideCounted, PlanAlone, PreviewAlone, PlanLive
<1>9. Unsettled /\ ReadsKept /\ EndedExpired /\ PreparedOnReceipts
  BY <1>1 DEF Unsettled, ReadsKept, EndedExpired, PreparedOnReceipts, Planning
<1> QED
  BY <1>6, <1>7, <1>8, <1>9 DEF Sound

\* A step goroutine takes any of its sections.
LEMMA StepSound ==
    ASSUME Sound, NEW g \in steps, Step(g)
    PROVE  Sound'
<1>1. ASSUME NEW allowed \in BOOLEAN, Claim(g, allowed) \/ Authorize(g, allowed)
      PROVE  Sound'
  BY <1>1, ClaimSound, AuthorizeSound
<1>2. CASE Begin(g) \/ Dispatch(g) \/ Proceed(g)
  BY <1>2, RecordedSound, ProceedSound
<1>3. ASSUME NEW outcome \in Outcomes, Returns(g, outcome)
      PROVE  Sound'
  BY <1>3, ReturnsSound
<1>4. ASSUME NEW confirmed \in BOOLEAN, NEW big \in BOOLEAN, Settle(g, confirmed, big)
      PROVE  Sound'
  BY <1>4, SettleSound
<1>5. ASSUME NEW big \in BOOLEAN, Leave(g, big)
      PROVE  Sound'
  BY <1>5, LeaveSound
<1> QED
  BY <1>1, <1>2, <1>3, <1>4, <1>5 DEF Step

\* Whatever happens keeps Sound.
LEMMA NextSound == Sound /\ [Next]_vars => Sound'
<1> SUFFICES ASSUME Sound, [Next]_vars PROVE Sound'
  OBVIOUS
<1>1. CASE Start \/ Status
  BY <1>1, StartSound, StatusSound
<1>2. ASSUME NEW action \in {"redirect", "pause", "resume", "cancel"}, Control(action)
      PROVE  Sound'
  BY <1>2, ControlSound
<1>3. CASE LoopStep
  <2>1. CASE LoopTop \/ LoopWakes
    BY <2>1, LoopTopSound, LoopWakesSound
  <2>2. ASSUME NEW denied \in BOOLEAN, LoopReassessed(denied)
        PROVE  Sound'
    BY <2>2, LoopReassessedSound
  <2>3. CASE TaskNext \/ TaskAnswered \/ TaskAbandons \/ LoopPlanned
    BY <2>3, TaskNextSound, TaskAnsweredSound, TaskAbandonsSound, LoopPlannedSound
  <2> QED
    BY <1>3, <2>1, <2>2, <2>3 DEF LoopStep
<1>4. CASE TaskTimesOut \/ PreviewCancelled \/ DeadlinePasses \/ ContextsEnd
  BY <1>4, ContextSound
<1>5. ASSUME NEW g \in steps, Step(g)
      PROVE  Sound'
  BY <1>5, StepSound
<1>6. CASE PreviewStart \/ PreviewNext \/ PreviewAnswered \/ PreviewAbandons \/ PreviewEnds
  BY <1>6, PreviewStartSound, PreviewNextSound, PreviewAnsweredSound, PreviewAbandonsSound,
     PreviewEndsSound
<1>7. CASE UNCHANGED vars
  <2>1. UNCHANGED <<app, loop, preview, live, steps, phase, sent, receipts, over, ended>>
    BY <1>7 DEF vars
  <2>2. TypeOK'
    BY <2>1, Typed, TypedNext DEF Sound, Journal!TypeOK
  <2> QED
    BY <2>1, <2>2, RestSound
<1> QED
  BY <1>1, <1>2, <1>3, <1>4, <1>5, <1>6, <1>7 DEF Next

\* Everywhere: whose the steps are, what the tasks keep from each other, what the
\* journal holds of a plan.  (SourceSupervisor, whatever its caller and clock do.)
THEOREM SoundAlways == Spec => []Sound
<1>1. Init => Sound
  BY InitSound
<1>2. Sound /\ [Next]_vars => Sound'
  BY NextSound
<1> QED
  BY <1>1, <1>2, PTL DEF Spec

\* Counts stay within the limits of reads and controls, and every read of a step has
\* its own attempt in the journal.  (The limits the supervisor is given.)
THEOREM TypeCorrect == Spec => []TypeOK
<1>1. Sound => TypeOK
  BY DEF Sound
<1> QED
  BY <1>1, SoundAlways, PTL

\* One operation is under way at most, those of abandoned plans and of checks
\* included, and pending counts it.  (The gate of run and of Preview.)
THEOREM OneReadAlways == Spec => []OneReadAtATime
<1>1. Sound => OneReadAtATime
  <2> SUFFICES ASSUME Sound PROVE OneReadAtATime
    OBVIOUS
  <2> DEFINE inside == {g \in steps : g.at \in Inside}
  <2>1. CASE \E g \in steps : g.at \in Inside
    <3>1. PICK g \in steps : g.at \in Inside
      BY <2>1
    <3>2. inside = {g}
      BY <3>1 DEF Sound, InsideCounted
    <3>3. Cardinality(inside) = 1
      BY <3>2, FS_Singleton
    <3>4. app.pending = 1
      BY <2>1 DEF Sound, InsideCounted
    <3> QED
      BY <3>3, <3>4 DEF OneReadAtATime
  <2>2. CASE ~ \E g \in steps : g.at \in Inside
    <3>1. inside = {}
      BY <2>2
    <3>2. Cardinality(inside) = 0
      BY <3>1, FS_EmptySet
    <3>3. app.pending = 0
      BY <2>2 DEF Sound, InsideCounted
    <3> QED
      BY <3>2, <3>3 DEF OneReadAtATime
  <2> QED
    BY <2>1, <2>2
<1> QED
  BY <1>1, SoundAlways, PTL

\* What is published as prepared rests on receipts of this revision and plan that
\* the journal settled, one for each source.  (LoopPlanned's check of the result.)
THEOREM PreparedAlways == Spec => []PreparedOnReceipts
<1>1. Sound => PreparedOnReceipts
  BY DEF Sound
<1> QED
  BY <1>1, SoundAlways, PTL

--------------------------------------------------------------------------------
(* What a step may never do.                                                   *)

\* A plan's read that begins now, begins in Proceed, under its task's context.
LEMMA ReadBegins ==
    ASSUME Sound, Next, NEW g \in steps, g.kind = "plan", g.at = "dispatched",
           Moved(g, "reading") \in steps'
    PROVE  Live(g)
<1> DEFINE r == Moved(g, "reading")
<1>1. /\ g \in StepType /\ steps \subseteq StepType
      /\ r.at = "reading" /\ r.kind = "plan"
  <2>1. g \in StepType /\ steps \subseteq StepType
    BY Typed DEF Sound
  <2>2. "reading" \in Inside \cup {"start", "answered"}
    BY DEF Inside
  <2> QED
    BY <2>1, <2>2, StepMoved
<1>2. r \notin steps
  BY <1>1 DEF Sound, StepsOwned
<1> HIDE DEF r
<1>3. ASSUME NEW e \in steps, Step(e)
      PROVE  Live(g)
  <2>1. e \in StepType /\ e.kind \in {"plan", "preview"} /\ e.ok \in BOOLEAN
    BY <1>1, StepNumbers
  <2>2. CASE e = g
    <3>1. Proceed(g)
      BY <1>3, <2>2
         DEF Step, Claim, Authorize, Begin, Dispatch, Proceed, Returns, Settle, Leave
    <3>2. CASE Live(g)
      BY <3>2
    <3>3. CASE Leaving(g)
      <4>1. PICK h : Become(g, h) /\ h = Concluded(g, "leaving", FALSE)
        BY <3>3 DEF Leaving, Concluded
      <4>2. h.at = "leaving"
        <5>1. "leaving" \in Inside \cup {"start", "answered"} /\ FALSE \in BOOLEAN
          BY DEF Inside
        <5> QED
          BY <1>1, <4>1, <5>1, StepConcluded
      <4> QED
        BY <1>1, <1>2, <4>1, <4>2 DEF Become, r
    <3> QED
      BY <3>1, <3>2, <3>3 DEF Proceed
  <2>3. CASE e # g
    <3>1. e.kind = "preview" /\ e.at \in {"start", "reading", "leaving", "answered"}
      BY <2>1, <2>3 DEF Sound, StepsOwned, StepsKnow
    <3>2. \/ steps' = steps \ {e}
          \/ \E h : Become(e, h) /\ h.kind = "preview"
      <4>1. ASSUME NEW b \in BOOLEAN, Answers(e, b)
            PROVE  \/ steps' = steps \ {e}
                   \/ \E h : Become(e, h) /\ h.kind = "preview"
        <5>1. "answered" \in Inside \cup {"start", "answered"}
          OBVIOUS
        <5>2. Concluded(e, "answered", b).kind = "preview"
          BY <2>1, <3>1, <5>1, StepConcluded
        <5> QED
          BY <4>1, <5>2 DEF Answers, Concluded
      <4>2. ASSUME NEW allowed \in BOOLEAN, Claim(e, allowed)
            PROVE  \/ steps' = steps \ {e}
                   \/ \E h : Become(e, h) /\ h.kind = "preview"
        <5>1. \/ \E b \in BOOLEAN : Answers(e, b)
              \/ Become(e, [e EXCEPT !.at = IF e.kind = "plan" THEN "entered" ELSE "reading",
                                     !.n = app.reads + 1])
          BY <4>2, Zenon DEF Claim
        <5>2. [e EXCEPT !.at = IF e.kind = "plan" THEN "entered" ELSE "reading",
                        !.n = app.reads + 1].kind = e.kind
          BY <2>1 DEF StepType
        <5> QED
          BY <3>1, <4>1, <5>1, <5>2
      <4>3. ASSUME NEW outcome \in Outcomes, Returns(e, outcome)
            PROVE  \E h : Become(e, h) /\ h.kind = "preview"
        <5>1. Become(e, [e EXCEPT !.at = "leaving", !.ok = outcome = "succeeded"])
          BY <3>1, <4>3 DEF Returns
        <5>2. [e EXCEPT !.at = "leaving", !.ok = outcome = "succeeded"].kind = e.kind
          BY <2>1 DEF StepType
        <5> QED
          BY <3>1, <5>1, <5>2
      <4>4. ASSUME NEW big \in BOOLEAN, Leave(e, big)
            PROVE  \/ steps' = steps \ {e}
                   \/ \E h : Become(e, h) /\ h.kind = "preview"
        BY <2>1, <4>1, <4>4 DEF Leave
      <4> QED
        BY <1>3, <3>1, <4>2, <4>3, <4>4
           DEF Step, Authorize, Begin, Dispatch, Proceed, Settle
    <3> QED
      BY <1>1, <1>2, <3>2 DEF Become, r
  <2> QED
    BY <2>2, <2>3
<1>4. CASE steps' \subseteq steps
  BY <1>2, <1>4 DEF r
<1>5. CASE TaskNext \/ PreviewNext
  <2>1. \A f \in steps' : f \in steps \/ f.at = "start"
    BY <1>5 DEF TaskNext, PreviewNext, NewStep
  <2> QED
    BY <1>1, <1>2, <2>1 DEF r
<1>6. \/ \E e \in steps : Step(e)
      \/ TaskNext \/ PreviewNext
      \/ steps' \subseteq steps
  BY DEF Next, Start, Status, Control, LoopStep, LoopTop, LoopWakes, LoopReassessed,
         TaskAnswered, TaskAbandons, LoopPlanned, TaskTimesOut, PreviewStart,
         PreviewAnswered, PreviewAbandons, PreviewCancelled, PreviewEnds,
         DeadlinePasses, ContextsEnd, Strays
<1> QED
  BY <1>3, <1>4, <1>5, <1>6

\* A read begins only for the revision and plan accepted last, while the application
\* runs and is certain, and its dispatch is recorded.  (The gate that
\* knowledge_source_receipts.go passes last, before the source is called.)
THEOREM ReadsStartCurrentAlways == Spec => ReadsStartCurrent
<1> DEFINE Starts ==
      \A g \in steps : g.kind = "plan" /\ g.at = "dispatched" /\ [g EXCEPT !.at = "reading"] \in steps'
         => /\ app.state = "running" /\ ~app.uncertain
            /\ app.revision = g.revision /\ app.plan = g.plan
            /\ phase[g.n] = "dispatched"
<1>1. Sound /\ [Next]_vars => [Starts]_vars
  <2> SUFFICES ASSUME Sound, Next, NEW g \in steps, g.kind = "plan", g.at = "dispatched",
                      [g EXCEPT !.at = "reading"] \in steps'
               PROVE  /\ app.state = "running" /\ ~app.uncertain
                      /\ app.revision = g.revision /\ app.plan = g.plan
                      /\ phase[g.n] = "dispatched"
    OBVIOUS
  <2>1. Live(g)
    BY ReadBegins DEF Moved
  <2>2. live.plan /\ loop.at = "stepping"
    BY <2>1 DEF Live
  <2>3. g.revision = loop.revision /\ g.plan = loop.plan
    BY <2>2 DEF Sound, StepsOwned
  <2>4. /\ app.state = "running" /\ app.revision = loop.revision /\ app.plan = loop.plan
    BY <2>2 DEF Sound, PlanLive, Unheard
  <2>5. ~app.uncertain
    BY <2>2, <2>4 DEF Sound, PlanAlone, StepsOwned, Planning
  <2>6. phase[g.n] = "dispatched"
    BY DEF Sound, Unsettled, Unheard
  <2> QED
    BY <2>3, <2>4, <2>5, <2>6
<1> QED
  BY <1>1, SoundAlways, PTL DEF Spec, ReadsStartCurrent


\* What a step of a task does to an application that ended: nothing to its state.
LEMMA StepStays ==
    ASSUME Sound, NEW g \in steps, Step(g), app.state \in Terminal
    PROVE  app'.state = app.state
<1>1. app \in AppType
  BY Typed DEF Sound
<1>2. ASSUME NEW allowed \in BOOLEAN, Claim(g, allowed)
      PROVE  app'.state = app.state
  <2>1. Expired = app
    BY <1>1, Expiring
  <2>2. ~Current(g, Expired)
    BY <2>1 DEF Current, Terminal
  <2> QED
    BY <1>2, <2>1, <2>2 DEF Claim
<1>3. ASSUME NEW confirmed \in BOOLEAN, NEW big \in BOOLEAN, Settle(g, confirmed, big)
      PROVE  app'.state = app.state
  <2>1. Exceeded(app, big) = app
    BY DEF Exceeded
  <2>2. app' = [app EXCEPT !.uncertain = @ \/ ~confirmed \/ g.outcome = "unknown"]
    BY <1>3, <2>1 DEF Settle
  <2> QED
    BY <1>1, <2>2 DEF AppType
<1>4. ASSUME NEW big \in BOOLEAN, Leave(g, big)
      PROVE  app'.state = app.state
  <2>1. Exceeded(app, big /\ g.kind = "preview") = app
    BY DEF Exceeded
  <2>2. app' = [app EXCEPT !.pending = @ - 1]
    BY <1>4, <2>1 DEF Leave
  <2> QED
    BY <1>1, <2>2 DEF AppType
<1> QED
  BY <1>2, <1>3, <1>4 DEF Step, Authorize, Begin, Dispatch, Recorded, Proceed, Returns

\* An ended application stays ended as it was, whatever is still on its way; the
\* loop that is being refused may turn an expiry into a failure.  (run, where the
\* authorization that failed is looked at before the end.)
THEOREM TerminalStaysAlways == Spec => TerminalStays
<1> DEFINE Stays == app.state \in Terminal =>
                      \/ app'.state = app.state
                      \/ app.state = "expired" /\ app'.state = "failed" /\ loop.at = "reassessing"
<1>1. Sound /\ [Next]_vars => [Stays]_app
  <2> SUFFICES ASSUME Sound, Next, app.state \in Terminal, app' # app,
                      app'.state # app.state
               PROVE  app.state = "expired" /\ app'.state = "failed" /\ loop.at = "reassessing"
    BY DEF vars
  <2>1. app \in AppType /\ Expired = app
    <3>1. app \in AppType
      BY Typed DEF Sound
    <3> QED
      BY <3>1, Expiring
  <2>2. CASE \E denied \in BOOLEAN : LoopReassessed(denied)
    <3>1. app.state # "paused" /\ loop.at = "reassessing" /\ loop.revision = app.revision
          /\ app' = [app EXCEPT !.state = "failed"]
      BY <2>2 DEF LoopReassessed, Terminal
    <3>2. app.state = "expired"
      BY <3>1 DEF Sound, EndedExpired
    <3> QED
      BY <2>1, <3>1, <3>2 DEF AppType
  <2>3. CASE \E g \in steps : Step(g)
    BY <2>3, StepStays
  <2>4. CASE Start \/ Status \/ LoopTop
    BY <2>1, <2>4 DEF Start, Status, LoopTop, Expirable, Terminal
  <2>5. CASE \E action \in {"redirect", "pause", "resume", "cancel"} : Control(action)
    BY <2>5 DEF Control
  <2>6. CASE LoopPlanned
    BY <2>6 DEF LoopPlanned, Terminal
  <2>7. CASE UNCHANGED app
    BY <2>7
  <2> QED
    BY <2>2, <2>3, <2>4, <2>5, <2>6, <2>7
       DEF Next, LoopStep, LoopWakes, TaskNext, TaskAnswered, TaskAbandons, TaskTimesOut,
           PreviewStart, PreviewNext, PreviewAnswered, PreviewAbandons, PreviewCancelled,
           PreviewEnds, DeadlinePasses, ContextsEnd
<1> QED
  BY <1>1, SoundAlways, PTL DEF Spec, TerminalStays

================================================================================
