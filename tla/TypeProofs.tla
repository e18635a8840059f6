----------------------------- MODULE TypeProofs -----------------------------
(***************************************************************************)
(* Type correctness of Orchestrator, for every value of the constants.     *)
(*                                                                         *)
(* TypeOK is not inductive by itself: the phone that MakeCall dials and    *)
(* the settings a handler reads are looked up by the identity and the flow *)
(* in its frame.  The proof carries along that every record has an         *)
(* identity and that a handler has read what its next step looks up.       *)
(***************************************************************************)
EXTENDS Orchestrator, TLAPS

\* The steps that look something up by the identity, by the record or by the
\* flow in the frame.
NeedsKey  == {"ing.config", "ing.write", "retry.config", "resend.config",
              "trig.config", "trig.call"}
NeedsId   == {"trig.config", "trig.call", "end.get"}
NeedsFlow == {"conf.write", "conf.delete", "conf.sync"}
Free      == Pcs \ (NeedsKey \cup NeedsId \cup NeedsFlow)

Known(f) ==
  /\ f.pc \in NeedsKey => f.key \in Keys
  /\ f.pc \in NeedsId => f.id \in Ids
  /\ f.pc \in NeedsFlow => f.flow \in Flows

RowsKnown   == \A i \in Ids : runs[i].status \in FlowRunStatus => runs[i].key \in Keys
FramesKnown == \A s \in Slots : Known(frame[s])

TypeInv == TypeOK /\ RowsKnown /\ FramesKnown

\* Slot s has moved, and knows what its next step looks up.
Moved(s) == \E f \in Frame : Known(f) /\ frame' = [frame EXCEPT ![s] = f]

----------------------------------------------------------------------------
(* Values.                                                                 *)

\* The frame of a handler between two steps is a frame, and known.
LEMMA FrameType ==
  ASSUME TypeInv, NEW s \in Slots
  PROVE  frame[s] \in Frame /\ Known(frame[s])
BY DEF TypeInv, TypeOK, FramesKnown

\* What a record that exists holds.
LEMMA RowType ==
  ASSUME TypeInv, NEW i, Exists(i)
  PROVE  /\ i \in Ids /\ i \in 0 .. MaxRuns
         /\ runs[i] \in Row /\ runs[i].key \in Keys
         /\ runs[i].attempt \in Nat /\ runs[i].cta \in BOOLEAN
<1>1. i \in Ids /\ runs[i] \in Row /\ runs[i].key \in Keys
  BY DEF TypeInv, TypeOK, RowsKnown, Exists
<1> QED BY <1>1, BoundsAssumption DEF Row, Ids

\* The settings of the flow of an identity.
LEMMA SettingsType ==
  ASSUME TypeInv, NEW k \in Keys
  PROVE  config[k.flow] \in Configs \cup {Null}
<1>1. k.flow \in Flows
  BY KeysAssumption
<1> QED BY <1>1 DEF TypeInv, TypeOK

\* The workers are slots, and the trigger worker is none of the flows'.
LEMMA WorkerSlots ==
  /\ Workers \subseteq Slots /\ Flows \subseteq Slots /\ HttpSlots \subseteq Slots
  /\ "trigger" \in Workers /\ "retry" \in Workers
BY DEF Workers, Slots

\* Going to another step keeps a frame a frame.
LEMMA WithPc ==
  ASSUME NEW f \in Frame, NEW pc \in Pcs
  PROVE  /\ [f EXCEPT !.pc = pc] \in Frame
         /\ [f EXCEPT !.pc = pc].pc = pc
         /\ [f EXCEPT !.pc = pc].key = f.key
         /\ [f EXCEPT !.pc = pc].id = f.id
         /\ [f EXCEPT !.pc = pc].flow = f.flow
         /\ [f EXCEPT !.pc = pc].conf = f.conf
BY DEF Frame

\* A frame at a free step knows all it needs.
LEMMA FreeKnown ==
  ASSUME NEW f, f.pc \in Free
  PROVE  Known(f)
BY DEF Known, Free

\* The free slot is a frame that needs nothing.
LEMMA IdleFrame == Idle \in Frame /\ Known(Idle)
BY BoundsAssumption DEF Idle, Frame, Ops, Pcs, Known, NeedsKey, NeedsId, NeedsFlow

\* Reading a record puts its id, identity, count and CTA into a frame and
\* leaves the rest of it alone.
LEMMA ReadingFrame ==
  ASSUME TypeInv, NEW f \in Frame, NEW i, Exists(i)
  PROVE  /\ Reading(f, i) \in Frame
         /\ Reading(f, i).id = i /\ Reading(f, i).key = runs[i].key
<1> DEFINE g == [f EXCEPT !.id = i, !.key = runs[i].key]
<1>1. g \in Frame /\ g.id = i /\ g.key = runs[i].key
  BY RowType DEF Frame
<1>2. [g EXCEPT !.attempt = runs[i].attempt, !.cta = runs[i].cta] \in Frame
  BY <1>1, RowType DEF Frame
<1>3. Reading(f, i) = [g EXCEPT !.attempt = runs[i].attempt, !.cta = runs[i].cta]
  BY DEF Reading, Frame
<1> QED BY <1>1, <1>2, <1>3 DEF Frame

\* Asking for the CTA leads to "skip" or to the step named.
LEMMA UnlessCtaFrame ==
  ASSUME NEW f \in Frame, NEW pc \in Pcs
  PROVE  /\ UnlessCta(f, pc) \in Frame
         /\ UnlessCta(f, pc).pc \in {"skip", pc}
         /\ UnlessCta(f, pc).id = f.id /\ UnlessCta(f, pc).key = f.key
BY DEF UnlessCta, Frame, Pcs

\* A job put back is a job, and the queue keeps counting.
LEMMA RedeliverType ==
  ASSUME NEW q \in [Jobs -> Nat], NEW j \in Jobs \cup {Null}
  PROVE  Redeliver(q, j) \in [Jobs -> Nat]
<1>1. CASE j # Null /\ j.tries > 0
  <2>1. [j EXCEPT !.tries = @ - 1] \in Jobs
    BY <1>1, BoundsAssumption DEF Jobs
  <2> QED BY <1>1, <2>1 DEF Redeliver
<1>2. CASE ~(j # Null /\ j.tries > 0)
  BY <1>2 DEF Redeliver
<1> QED BY <1>1, <1>2

----------------------------------------------------------------------------
(* How the actions move a frame.                                           *)

\* A move keeps the frames typed and known.
LEMMA MovedFrames ==
  ASSUME TypeInv, NEW s \in Slots, Moved(s)
  PROVE  frame' \in [Slots -> Frame] /\ FramesKnown'
<1>1. PICK f \in Frame : Known(f) /\ frame' = [frame EXCEPT ![s] = f]
  BY DEF Moved
<1>2. frame \in [Slots -> Frame]
  BY DEF TypeInv, TypeOK
<1>3. frame' \in [Slots -> Frame] /\ frame'[s] = f
      /\ \A t \in Slots : t # s => frame'[t] = frame[t]
  BY <1>1, <1>2
<1>4. \A t \in Slots : Known(frame'[t])
  BY <1>1, <1>3 DEF TypeInv, FramesKnown
<1>5. FramesKnown'
  BY <1>4 DEF FramesKnown, Known
<1> QED BY <1>3, <1>5

\* Going on to a free step is a move.
LEMMA GotoMoves ==
  ASSUME TypeInv, NEW s \in Slots, NEW pc \in Free, Goto(s, pc)
  PROVE  Moved(s)
<1>0. pc \in Pcs
  BY DEF Free
<1>1. /\ [frame[s] EXCEPT !.pc = pc] \in Frame
      /\ [frame[s] EXCEPT !.pc = pc].pc = pc
  BY <1>0, FrameType, WithPc
<1>2. frame' = [frame EXCEPT ![s] = [frame[s] EXCEPT !.pc = pc]]
  BY DEF Goto
<1> QED BY <1>1, <1>2, FreeKnown DEF Moved

\* Returning is a move.
LEMMA ReturnMoves ==
  ASSUME NEW s \in Slots, Return(s)
  PROVE  Moved(s)
BY IdleFrame DEF Moved, Return

\* Returning from dispatchOne is a move.
LEMMA DispatchReturnMoves ==
  ASSUME TypeInv, NEW s \in Slots, DispatchReturn(s)
  PROVE  Moved(s)
<1>1. "batch.next" \in Free
  BY DEF Free, Pcs, NeedsKey, NeedsId, NeedsFlow
<1> QED BY <1>1, GotoMoves, ReturnMoves DEF DispatchReturn

\* Keeping the settings just read is a move.
LEMMA ConfMoves ==
  ASSUME TypeInv, NEW s \in Slots, NEW c \in Configs, NEW pc \in Pcs,
         Known([frame[s] EXCEPT !.pc = pc]),
         frame' = [frame EXCEPT ![s].conf = c, ![s].pc = pc]
  PROVE  Moved(s)
<1> DEFINE f == [frame[s] EXCEPT !.pc = pc]
           g == [f EXCEPT !.conf = c]
<1>1. f \in Frame /\ Known(f)
  BY FrameType, WithPc
<1>2. /\ g \in Frame
      /\ g.pc = f.pc /\ g.key = f.key /\ g.id = f.id /\ g.flow = f.flow
  BY <1>1 DEF Frame
<1>3. Known(g)
  BY <1>1, <1>2 DEF Known
<1>4. frame' = [frame EXCEPT ![s] = g]
  BY FrameType DEF TypeInv, TypeOK, Frame
<1> QED BY <1>2, <1>3, <1>4 DEF Moved

\* Taking up a record just read is a move, to any step that is not about a
\* flow's settings.
LEMMA ReadingMoves ==
  ASSUME TypeInv, NEW s \in Slots, NEW f \in Frame, NEW i, Exists(i),
         NEW pc \in Pcs \ NeedsFlow,
         frame' = [frame EXCEPT ![s] = [Reading(f, i) EXCEPT !.pc = pc]]
  PROVE  Moved(s)
<1> DEFINE g == [Reading(f, i) EXCEPT !.pc = pc]
<1>1. g \in Frame /\ g.pc = pc /\ g.id = i /\ g.key = runs[i].key
  BY ReadingFrame, WithPc
<1>2. Known(g)
  BY <1>1, RowType DEF Known
<1> QED BY <1>1, <1>2 DEF Moved

\* So it is when the CTA is asked for.
LEMMA ReadingUnlessMoves ==
  ASSUME TypeInv, NEW s \in Slots, NEW f \in Frame, NEW i, Exists(i),
         NEW pc \in Pcs \ NeedsFlow,
         frame' = [frame EXCEPT ![s] = UnlessCta(Reading(f, i), pc)]
  PROVE  Moved(s)
<1> DEFINE g == UnlessCta(Reading(f, i), pc)
<1>1. g \in Frame /\ g.pc \in {"skip", pc} /\ g.id = i /\ g.key = runs[i].key
  BY ReadingFrame, UnlessCtaFrame
<1>2. Known(g)
  BY <1>1, RowType DEF Known, NeedsFlow
<1> QED BY <1>1, <1>2 DEF Moved

\* Throwing is a move, and at most puts a job back.
LEMMA ThrowMoves ==
  ASSUME TypeInv, NEW s \in Slots, Throw(s)
  PROVE  Moved(s) /\ queue' \in [Jobs -> Nat]
<1>1. frame[s].job \in Jobs \cup {Null}
  BY FrameType DEF Frame
<1>2. queue' \in [Jobs -> Nat]
  BY <1>1, RedeliverType DEF Throw, TypeInv, TypeOK
<1> QED BY <1>2, ReturnMoves DEF Throw

----------------------------------------------------------------------------
(* How they change the rest.                                               *)

\* Writing one record keeps the table a table.
LEMMA RowWritten ==
  ASSUME TypeInv, NEW i \in Ids, NEW r \in Row, r.status \in FlowRunStatus => r.key \in Keys,
         runs' = [runs EXCEPT ![i] = r]
  PROVE  runs' \in [Ids -> Row] /\ RowsKnown'
BY DEF TypeInv, TypeOK, RowsKnown

\* A new status leaves a record the identity it has.
LEMMA SetStatusType ==
  ASSUME TypeInv, NEW i, Exists(i), NEW st \in FlowRunStatus, SetStatus(i, st)
  PROVE  runs' \in [Ids -> Row] /\ RowsKnown'
<1>1. /\ [runs[i] EXCEPT !.status = st] \in Row
      /\ [runs[i] EXCEPT !.status = st].key = runs[i].key
  BY RowType DEF Row
<1>2. runs' = [runs EXCEPT ![i] = [runs[i] EXCEPT !.status = st]]
  BY DEF SetStatus
<1> QED BY <1>1, <1>2, RowType, RowWritten

\* So does counting an attempt.
LEMMA RaiseType ==
  ASSUME TypeInv, NEW i, Exists(i), NEW st \in FlowRunStatus,
         runs' = [runs EXCEPT ![i].attempt = @ + 1, ![i].status = st]
  PROVE  runs' \in [Ids -> Row] /\ RowsKnown'
<1> DEFINE r == [runs[i] EXCEPT !.attempt = runs[i].attempt + 1, !.status = st]
<1> DEFINE a == [runs[i] EXCEPT !.attempt = runs[i].attempt + 1]
<1>1. a \in Row /\ a.key = runs[i].key
  BY RowType DEF Row
<1>2. [a EXCEPT !.status = st] \in Row /\ [a EXCEPT !.status = st].key = runs[i].key
  BY <1>1 DEF Row
<1>3. r = [a EXCEPT !.status = st]
  BY RowType DEF Row
<1>4. runs' = [runs EXCEPT ![i] = r]
  BY RowType DEF TypeInv, TypeOK, Row
<1> QED BY <1>2, <1>3, <1>4, RowType, RowWritten

\* What was sent is counted.
LEMMA CountType ==
  ASSUME TypeInv, NEW i, Count(i, "sent") \/ Count(i, "retried") \/ Count(i, "resent")
  PROVE  tally' \in [Ids -> Tally]
<1>1. tally \in [Ids -> Tally]
  BY DEF TypeInv, TypeOK
<1>2. CASE i \notin Ids
  BY <1>1, <1>2 DEF Count
<1>3. CASE i \in Ids
  <2>1. tally[i] \in Tally
    BY <1>1, <1>3
  <2>2. /\ [tally[i] EXCEPT !.sent = @ + 1] \in Tally
        /\ [tally[i] EXCEPT !.retried = @ + 1] \in Tally
        /\ [tally[i] EXCEPT !.resent = @ + 1] \in Tally
    BY <2>1 DEF Tally
  <2>3. CASE Count(i, "sent")
    <3>1. tally' = [tally EXCEPT ![i] = [tally[i] EXCEPT !["sent"] = @ + 1]]
      BY <2>3 DEF Count
    <3> QED BY <1>1, <2>2, <3>1
  <2>4. CASE Count(i, "retried")
    <3>1. tally' = [tally EXCEPT ![i] = [tally[i] EXCEPT !["retried"] = @ + 1]]
      BY <2>4 DEF Count
    <3> QED BY <1>1, <2>2, <3>1
  <2>5. CASE Count(i, "resent")
    <3>1. tally' = [tally EXCEPT ![i] = [tally[i] EXCEPT !["resent"] = @ + 1]]
      BY <2>5 DEF Count
    <3> QED BY <1>1, <2>2, <3>1
  <2> QED BY <2>3, <2>4, <2>5
<1> QED BY <1>2, <1>3

\* A job for a record that was read, or for none, fits its queue.
LEMMA EnqueueType ==
  ASSUME TypeInv, NEW on \in Workers, NEW i \in 0 .. MaxRuns, Enqueue(NewJob(on, i))
  PROVE  queue' \in [Jobs -> Nat]
<1>1. NewJob(on, i) \in Jobs
  BY BoundsAssumption DEF NewJob, Jobs
<1> QED BY <1>1 DEF Enqueue, TypeInv, TypeOK

\* Taking a job leaves a count.
LEMMA FetchType ==
  ASSUME TypeInv, NEW s, NEW j \in Jobs, Fetch(s, j)
  PROVE  queue' \in [Jobs -> Nat]
BY DEF Fetch, Fetchable, TypeInv, TypeOK

\* Inputs given so far are counted.
LEMMA SpendType ==
  ASSUME TypeInv, NEW x, Spend(x)
  PROVE  used' \in [Inputs -> Nat]
<1>1. used \in [Inputs -> Nat] /\ used' = [used EXCEPT ![x] = @ + 1]
  BY DEF Spend, TypeInv, TypeOK
<1>2. CASE x \in Inputs
  <2>1. used[x] + 1 \in Nat
    BY <1>1, <1>2
  <2> QED BY <1>1, <2>1
<1>3. CASE x \notin Inputs
  BY <1>1, <1>3
<1> QED BY <1>2, <1>3

----------------------------------------------------------------------------
(* The actions of MessageDispatch.                                         *)

\* A step that moves a frame and changes runs, queue or tally within their
\* types, and nothing else, keeps the invariant.
LEMMA HandlerPreserves ==
  ASSUME TypeInv, NEW s \in Slots, Moved(s),
         UNCHANGED runs \/ (runs' \in [Ids -> Row] /\ RowsKnown'),
         UNCHANGED calls \/ calls' \in [Ids -> Seq(CallRow)],
         UNCHANGED queue \/ queue' \in [Jobs -> Nat],
         UNCHANGED tally \/ tally' \in [Ids -> Tally],
         UNCHANGED accepted \/ accepted' \in [Ids -> Nat],
         UNCHANGED used \/ used' \in [Inputs -> Nat],
         UNCHANGED nlpearl \/ nlpearl' \in Seq(PlacedCall),
         UNCHANGED <<config, cron, registered>>
  PROVE  TypeInv'
BY MovedFrames DEF TypeInv, TypeOK, RowsKnown

\* The heads-up text is counted or not, and the handler goes on.
LEMMA SendPreliminarySmsType ==
  ASSUME TypeInv, NEW s \in Slots, SendPreliminarySms(s)
  PROVE  TypeInv'
<1>1. "presms" \in Free /\ "fail" \in Free
  BY DEF Free, Pcs, NeedsKey, NeedsId, NeedsFlow
<1>2. Moved(s)
  BY <1>1, GotoMoves DEF SendPreliminarySms
<1>3. UNCHANGED tally \/ tally' \in [Ids -> Tally]
  BY CountType DEF SendPreliminarySms
<1> QED BY <1>2, <1>3, HandlerPreserves DEF SendPreliminarySms, db, boss

\* The steps of dispatchOne that write a status, or find the record gone.
LEMMA StatusStepType ==
  ASSUME TypeInv, NEW s \in Slots,
         RecordPreSmsSent(s) \/ RecordFailed(s) \/ RecordScheduled(s) \/ SkipCtaCompleted(s)
  PROVE  TypeInv'
<1>1. "enqueue" \in Free /\ "fail" \in Free
  BY DEF Free, Pcs, NeedsKey, NeedsId, NeedsFlow
<1>2. Moved(s)
  BY <1>1, GotoMoves, DispatchReturnMoves, ThrowMoves
     DEF RecordPreSmsSent, RecordFailed, RecordScheduled, SkipCtaCompleted
<1>3. UNCHANGED runs \/ (runs' \in [Ids -> Row] /\ RowsKnown')
  <2>1. {"PreSmsSent", "Failed", "Scheduled", "Completed"} \subseteq FlowRunStatus
    BY DEF FlowRunStatus
  <2> QED BY <2>1, SetStatusType
          DEF RecordPreSmsSent, RecordFailed, RecordScheduled, SkipCtaCompleted
<1>4. UNCHANGED queue \/ queue' \in [Jobs -> Nat]
  BY ThrowMoves DEF RecordPreSmsSent, RecordFailed, RecordScheduled, SkipCtaCompleted, boss
<1> QED BY <1>2, <1>3, <1>4, HandlerPreserves
        DEF RecordPreSmsSent, RecordFailed, RecordScheduled, SkipCtaCompleted, boss, seen

\* Enqueueing a call or a retry.
LEMMA EnqueueStepType ==
  ASSUME TypeInv, NEW s \in Slots, EnqueueTrigger(s) \/ EnqueueRetry(s)
  PROVE  TypeInv'
<1>1. "scheduled" \in Free
  BY DEF Free, Pcs, NeedsKey, NeedsId, NeedsFlow
<1>2. Moved(s)
  BY <1>1, GotoMoves, ReturnMoves DEF EnqueueTrigger, EnqueueRetry
<1>3. Rec(s) \in 0 .. MaxRuns
  BY FrameType DEF Rec, Frame
<1>4. queue' \in [Jobs -> Nat]
  BY <1>3, WorkerSlots, EnqueueType DEF EnqueueTrigger, EnqueueRetry
<1> QED BY <1>2, <1>4, HandlerPreserves DEF EnqueueTrigger, EnqueueRetry, db, seen

\* Raising the count for a retry.
LEMMA BumpAttemptType ==
  ASSUME TypeInv, NEW s \in Slots, BumpAttempt(s)
  PROVE  TypeInv'
<1>1. "bump.enqueue" \in Free /\ "Scheduled" \in FlowRunStatus
  BY DEF Free, Pcs, NeedsKey, NeedsId, NeedsFlow, FlowRunStatus
<1>2. Moved(s)
  BY <1>1, GotoMoves, ThrowMoves DEF BumpAttempt
<1>3. UNCHANGED runs \/ (runs' \in [Ids -> Row] /\ RowsKnown')
  BY <1>1, RaiseType DEF BumpAttempt
<1>4. UNCHANGED queue \/ queue' \in [Jobs -> Nat]
  BY ThrowMoves DEF BumpAttempt
<1>5. UNCHANGED tally \/ tally' \in [Ids -> Tally]
  BY CountType DEF BumpAttempt
<1> QED BY <1>2, <1>3, <1>4, <1>5, HandlerPreserves DEF BumpAttempt

\* Reading the settings for a retry.
LEMMA ReadRetryConfigType ==
  ASSUME TypeInv, NEW s \in Slots, ReadRetryConfig(s)
  PROVE  TypeInv'
<1> DEFINE c == config[frame[s].key.flow]
<1>1. frame[s].key \in Keys
  BY FrameType DEF ReadRetryConfig, At, Known, NeedsKey
<1>2. c \in Configs \cup {Null}
  BY <1>1, SettingsType
<1>3. "sms" \in Free /\ "sms" \in Pcs
  BY DEF Free, Pcs, NeedsKey, NeedsId, NeedsFlow
<1>4. Known([frame[s] EXCEPT !.pc = "sms"])
  BY <1>3, WithPc, FrameType, FreeKnown
<1>5. Moved(s)
  BY <1>2, <1>3, <1>4, ConfMoves, ReturnMoves DEF ReadRetryConfig
<1> QED BY <1>5, HandlerPreserves DEF ReadRetryConfig, db, boss, seen

\* A schedule comes or goes with the settings it belongs to.
LEMMA SyncScheduleType ==
  ASSUME TypeInv, NEW s \in Slots, SyncSchedule(s)
  PROVE  TypeInv'
<1>1. frame[s].flow \in Flows
  BY FrameType DEF SyncSchedule, At, Known, NeedsFlow
<1>2. Moved(s)
  BY ReturnMoves DEF SyncSchedule
<1>3. cron' \subseteq Flows /\ registered' \subseteq Flows
  BY <1>1 DEF SyncSchedule, TypeInv, TypeOK
<1> QED BY <1>2, <1>3, MovedFrames DEF SyncSchedule, TypeInv, TypeOK, RowsKnown, db, seen

\* A worker takes a job and, unless the record is gone, reads it.
LEMMA FetchRecordType ==
  ASSUME TypeInv, NEW j \in Jobs, FetchRetry(j) \/ FetchTrigger(j)
  PROVE  TypeInv'
<1>1. queue' \in [Jobs -> Nat]
  BY FetchType DEF FetchRetry, FetchTrigger
<1>2. /\ "retry.config" \in Pcs \ NeedsFlow /\ "trig.config" \in Pcs \ NeedsFlow
      /\ "retry" \in Ops /\ "trigger" \in Ops /\ "retry" \in Slots /\ "trigger" \in Slots
  BY WorkerSlots DEF Pcs, NeedsFlow, Ops
<1>3. \A s \in Slots, op \in Ops : [frame[s] EXCEPT !.op = op, !.job = j] \in Frame
  <2> SUFFICES ASSUME NEW s \in Slots, NEW op \in Ops
               PROVE  [frame[s] EXCEPT !.op = op, !.job = j] \in Frame
    OBVIOUS
  <2>1. frame[s] \in Frame
    BY FrameType
  <2> DEFINE a == [frame[s] EXCEPT !.op = op]
  <2>2. a \in Frame
    BY <2>1 DEF Frame
  <2>3. [a EXCEPT !.job = j] \in Frame
    BY <2>2 DEF Frame
  <2>4. [frame[s] EXCEPT !.op = op, !.job = j] = [a EXCEPT !.job = j]
    BY <2>1 DEF Frame
  <2> QED BY <2>3, <2>4
<1>4. CASE FetchRetry(j) /\ Exists(j.id)
  <2> DEFINE f == [frame["retry"] EXCEPT !.op = "retry", !.job = j]
  <2>1. frame' = [frame EXCEPT !["retry"] = UnlessCta(Reading(f, j.id), "retry.config")]
    BY <1>4 DEF FetchRetry
  <2>2. f \in Frame
    BY <1>2, <1>3
  <2>3. Moved("retry")
    BY <1>2, <1>4, <2>1, <2>2, ReadingUnlessMoves
  <2> QED BY <1>1, <1>2, <1>4, <2>3, HandlerPreserves DEF FetchRetry, db, seen
<1>5. CASE FetchTrigger(j) /\ Exists(j.id)
  <2> DEFINE f == [frame["trigger"] EXCEPT !.op = "trigger", !.job = j]
  <2>1. frame' = [frame EXCEPT !["trigger"] = UnlessCta(Reading(f, j.id), "trig.config")]
    BY <1>5 DEF FetchTrigger
  <2>2. f \in Frame
    BY <1>2, <1>3
  <2>3. Moved("trigger")
    BY <1>2, <1>5, <2>1, <2>2, ReadingUnlessMoves
  <2> QED BY <1>1, <1>2, <1>5, <2>3, HandlerPreserves DEF FetchTrigger, db, seen
<1>6. CASE ~Exists(j.id)
  BY <1>1, <1>6 DEF FetchRetry, FetchTrigger, TypeInv, TypeOK, RowsKnown, FramesKnown, Known, db, seen
<1> QED BY <1>4, <1>5, <1>6

\* A tick of a schedule adds a job.
LEMMA CronTickType ==
  ASSUME TypeInv, NEW f \in Flows, CronTick(f)
  PROVE  TypeInv'
<1>0. f \in Workers /\ 0 \in 0 .. MaxRuns
  BY BoundsAssumption DEF Workers
<1>1. queue' \in [Jobs -> Nat]
  BY <1>0, EnqueueType DEF CronTick
<1>2. used' \in [Inputs -> Nat]
  BY SpendType DEF CronTick
<1> QED BY <1>1, <1>2 DEF CronTick, TypeInv, TypeOK, RowsKnown, FramesKnown, Known, db, seen

\* A dispatch worker takes a job.
LEMMA FetchDispatchType ==
  ASSUME TypeInv, NEW f \in Flows, NEW j \in Jobs, FetchDispatch(f, j)
  PROVE  TypeInv'
<1>1. queue' \in [Jobs -> Nat]
  BY FetchType DEF FetchDispatch
<1>2. CASE config[f] # Null /\ config[f].enabled
  <2> DEFINE a == [frame[f] EXCEPT !.op = "dispatch", !.job = j]
             g == [a EXCEPT !.conf = config[f], !.pc = "batch.list"]
  <2>1. frame[f] \in Frame /\ config[f] \in Configs /\ f \in Slots
    BY <1>2, FrameType, WorkerSlots DEF TypeInv, TypeOK
  <2>2. "dispatch" \in Ops /\ "batch.list" \in Pcs /\ "batch.list" \in Free
    BY DEF Ops, Pcs, Free, NeedsKey, NeedsId, NeedsFlow
  <2>3. a \in Frame
    BY <2>1, <2>2 DEF Frame
  <2>4. g \in Frame /\ g.pc = "batch.list"
    BY <2>1, <2>2, <2>3 DEF Frame
  <2>5. [frame[f] EXCEPT !.op = "dispatch", !.job = j, !.conf = config[f], !.pc = "batch.list"] = g
    BY <2>1 DEF Frame
  <2>6. Moved(f)
    BY <1>2, <2>1, <2>2, <2>4, <2>5, FreeKnown DEF FetchDispatch, Moved
  <2> QED BY <1>1, <2>1, <2>6, HandlerPreserves DEF FetchDispatch, db, seen
<1>3. CASE ~(config[f] # Null /\ config[f].enabled)
  BY <1>1, <1>3 DEF FetchDispatch, TypeInv, TypeOK, RowsKnown, FramesKnown, Known, db, seen
<1> QED BY <1>2, <1>3

\* The batch is listed.
LEMMA ListPendingType ==
  ASSUME TypeInv, NEW f \in Flows, ListPending(f)
  PROVE  TypeInv'
<1> DEFINE pending == {i \in Records : runs[i].key.flow = f /\ runs[i].status = "Received"}
           list == {[id |-> i, cta |-> runs[i].cta] : i \in pending}
           a == [frame[f] EXCEPT !.pc = "batch.next"]
           g == [a EXCEPT !.list = list]
<1>1. list \subseteq Snapshot
  BY RowType DEF Records, Snapshot
<1>2. frame[f] \in Frame /\ f \in Slots /\ "batch.next" \in Pcs /\ "batch.next" \in Free
  BY FrameType, WorkerSlots DEF Pcs, Free, NeedsKey, NeedsId, NeedsFlow
<1>3. a \in Frame /\ a.pc = "batch.next"
  BY <1>2, WithPc
<1> HIDE DEF list
<1>4. g \in Frame /\ g.pc = "batch.next"
  BY <1>1, <1>3 DEF Frame
<1>5. frame' = [frame EXCEPT ![f].pc = "batch.next", ![f].list = list]
  BY DEF ListPending, list
<1>6. frame' = [frame EXCEPT ![f] = g]
  BY <1>2, <1>5 DEF TypeInv, TypeOK, Frame
<1>7. Moved(f)
  BY <1>2, <1>4, <1>6, FreeKnown DEF Moved
<1> QED BY <1>2, <1>7, HandlerPreserves DEF ListPending, db, boss, seen

\* The next record of the batch is taken up, or the batch is done.
LEMMA NextPendingType ==
  ASSUME TypeInv, NEW f \in Flows, NextPending(f)
  PROVE  TypeInv'
<1>1. f \in Slots /\ frame[f] \in Frame /\ "sms" \in Pcs /\ "sms" \in Free /\ "skip" \in Free
  BY FrameType, WorkerSlots DEF Pcs, Free, NeedsKey, NeedsId, NeedsFlow
<1>2. CASE Return(f)
  BY <1>1, <1>2, ReturnMoves, HandlerPreserves DEF NextPending, db, boss, seen
<1>3. ASSUME NEW x \in frame[f].list,
             frame' = [frame EXCEPT ![f] = UnlessCta(TakingUp(@, x), "sms")]
      PROVE  TypeInv'
  <2> DEFINE a == [frame[f] EXCEPT !.id = x.id, !.cta = x.cta]
             b == [a EXCEPT !.list = frame[f].list \ {x}]
  <2>1. x.id \in 0 .. MaxRuns /\ x.cta \in BOOLEAN
    BY <1>1, BoundsAssumption DEF Frame, Snapshot, Ids
  <2>2. a \in Frame /\ a.list = frame[f].list
    BY <1>1, <2>1 DEF Frame
  <2>3. b \in Frame
    BY <1>1, <2>2 DEF Frame
  <2>4. TakingUp(frame[f], x) = b
    BY <1>1 DEF TakingUp, Frame
  <2> DEFINE g == UnlessCta(TakingUp(frame[f], x), "sms")
  <2>5. g \in Frame /\ g.pc \in {"skip", "sms"}
    BY <1>1, <2>3, <2>4, UnlessCtaFrame
  <2>6. frame' = [frame EXCEPT ![f] = g]
    BY <1>3
  <2>7. Known(g)
    BY <1>1, <2>5, FreeKnown
  <2>8. Moved(f)
    BY <2>5, <2>6, <2>7 DEF Moved
  <2> QED BY <1>1, <2>8, HandlerPreserves DEF NextPending, db, boss, seen
<1> QED BY <1>2, <1>3 DEF NextPending

----------------------------------------------------------------------------
(* CallTrigger.                                                            *)

\* The settings for a call.
LEMMA ReadTriggerConfigType ==
  ASSUME TypeInv, NEW s \in Slots, ReadTriggerConfig(s)
  PROVE  TypeInv'
<1> DEFINE c == config[frame[s].key.flow]
<1>1. frame[s].key \in Keys /\ frame[s].id \in Ids
  BY FrameType DEF ReadTriggerConfig, At, Known, NeedsKey, NeedsId
<1>2. c \in Configs \cup {Null}
  BY <1>1, SettingsType
<1>3. "trig.call" \in Pcs /\ "trig.call" \notin NeedsFlow
  BY DEF Pcs, NeedsFlow
<1>4. Known([frame[s] EXCEPT !.pc = "trig.call"])
  BY <1>1, <1>3, WithPc, FrameType DEF Known
<1>5. Moved(s)
  BY <1>2, <1>3, <1>4, ConfMoves, ThrowMoves DEF ReadTriggerConfig
<1>6. UNCHANGED queue \/ queue' \in [Jobs -> Nat]
  BY ThrowMoves DEF ReadTriggerConfig
<1> QED BY <1>5, <1>6, HandlerPreserves DEF ReadTriggerConfig, db, seen

\* A trigger failure goes to a free step.
LEMMA AfterTriggerFailureFree ==
  ASSUME NEW s \in Slots
  PROVE  AfterTriggerFailure(s) \in Free
BY DEF AfterTriggerFailure, Free, Pcs, NeedsKey, NeedsId, NeedsFlow

\* A placed call is one for a record, to a known phone.
LEMMA PlaceCallType ==
  ASSUME TypeInv, NEW s \in Slots, frame[s].key \in Keys, Rec(s) \in Ids, PlaceCall(s)
  PROVE  nlpearl' \in Seq(PlacedCall)
<1> DEFINE n == [run |-> Rec(s), phone |-> frame[s].key.phone, outcome |-> Null]
<1>1. n \in PlacedCall
  BY KeysAssumption DEF PlacedCall
<1>2. nlpearl' = Append(nlpearl, n)
  BY DEF PlaceCall
<1> HIDE DEF n
<1> QED BY <1>1, <1>2 DEF TypeInv, TypeOK

\* The call is placed, refused, or placed unknown to the worker.
LEMMA MakeCallType ==
  ASSUME TypeInv, NEW s \in Slots, MakeCall(s)
  PROVE  TypeInv'
<1>1. frame[s].key \in Keys /\ Rec(s) \in Ids /\ frame[s] \in Frame
  BY FrameType DEF MakeCall, At, Rec, Known, NeedsKey, NeedsId
<1>2. UNCHANGED nlpearl \/ nlpearl' \in Seq(PlacedCall)
  BY <1>1, PlaceCallType DEF MakeCall
<1>3. ASSUME frame' = [frame EXCEPT ![s].call = Len(nlpearl) + 1, ![s].pc = "trig.record"]
      PROVE  Moved(s)
  <2> DEFINE a == [frame[s] EXCEPT !.call = Len(nlpearl) + 1]
             g == [a EXCEPT !.pc = "trig.record"]
  <2>1. Len(nlpearl) + 1 \in Nat
    BY DEF TypeInv, TypeOK
  <2>2. a \in Frame
    BY <1>1, <2>1 DEF Frame
  <2>3. "trig.record" \in Pcs /\ "trig.record" \in Free
    BY DEF Pcs, Free, NeedsKey, NeedsId, NeedsFlow
  <2>4. g \in Frame /\ g.pc = "trig.record"
    BY <2>2, <2>3, WithPc
  <2>5. frame' = [frame EXCEPT ![s] = g]
    BY <1>1, <1>3 DEF TypeInv, TypeOK, Frame
  <2> QED BY <2>3, <2>4, <2>5, FreeKnown DEF Moved
<1>4. Goto(s, AfterTriggerFailure(s)) => Moved(s)
  BY AfterTriggerFailureFree, GotoMoves
<1>5. Moved(s)
  BY <1>3, <1>4 DEF MakeCall
<1> QED BY <1>2, <1>5, HandlerPreserves DEF MakeCall, db, boss, seen

\* The call is recorded, or the record is gone.
LEMMA RecordCallType ==
  ASSUME TypeInv, NEW s \in Slots, RecordCall(s)
  PROVE  TypeInv'
<1>1. Moved(s)
  BY AfterTriggerFailureFree, GotoMoves, ReturnMoves DEF RecordCall
<1>2. UNCHANGED runs \/ (runs' \in [Ids -> Row] /\ RowsKnown')
  BY SetStatusType DEF RecordCall, FlowRunStatus
<1>3. UNCHANGED calls \/ calls' \in [Ids -> Seq(CallRow)]
  <2> DEFINE row == [request |-> frame[s].call, call |-> 0]
  <2>1. row \in CallRow
    BY FrameType DEF Frame, CallRow
  <2>2. SUFFICES ASSUME Exists(Rec(s)), calls' = [calls EXCEPT ![Rec(s)] = Append(@, row)]
                 PROVE  calls' \in [Ids -> Seq(CallRow)]
    BY DEF RecordCall
  <2> HIDE DEF row
  <2>3. Append(calls[Rec(s)], row) \in Seq(CallRow)
    BY <2>1, <2>2, RowType DEF TypeInv, TypeOK
  <2> QED BY <2>2, <2>3 DEF TypeInv, TypeOK
<1> QED BY <1>1, <1>2, <1>3, HandlerPreserves DEF RecordCall, boss, seen

\* A call comes to an end.
LEMMA CallFinishesType ==
  ASSUME TypeInv, NEW n \in DOMAIN nlpearl, CallFinishes(n)
  PROVE  TypeInv'
<1>1. PICK o \in Outcomes : nlpearl' = [nlpearl EXCEPT ![n].outcome = o]
  BY DEF CallFinishes
<1>2. nlpearl \in Seq(PlacedCall) /\ nlpearl[n] \in PlacedCall
  BY DEF TypeInv, TypeOK
<1>3. [nlpearl[n] EXCEPT !.outcome = o] \in PlacedCall
  BY <1>2 DEF PlacedCall
<1>4. nlpearl' = [nlpearl EXCEPT ![n] = [nlpearl[n] EXCEPT !.outcome = o]]
  BY <1>1
<1>5. nlpearl' \in Seq(PlacedCall)
  BY <1>2, <1>3, <1>4
<1> QED BY <1>5 DEF CallFinishes, TypeInv, TypeOK, RowsKnown, FramesKnown, Known, db, boss, seen

----------------------------------------------------------------------------
(* Ingest.                                                                 *)

\* A delivery is taken up, for the record it names or for a new one.
LEMMA FlowTriggerType ==
  ASSUME TypeInv, NEW s \in Slots, NEW k \in Keys, NEW r \in Requests, FlowTrigger(s, k, r)
  PROVE  TypeInv'
<1>1. /\ frame[s] \in Frame /\ "flowTrigger" \in Ops
      /\ "ing.config" \in Pcs \ NeedsFlow /\ "ing.config" \notin NeedsId
  BY FrameType DEF Ops, Pcs, NeedsFlow, NeedsId
<1> DEFINE a == [frame[s] EXCEPT !.op = "flowTrigger"]
           b == [a EXCEPT !.req = r]
           c == [a EXCEPT !.pc = "ing.config"]
           d == [c EXCEPT !.key = k]
           e == [d EXCEPT !.req = r]
<1>2. a \in Frame
  BY <1>1 DEF Frame
<1>3. b \in Frame
  BY <1>2 DEF Frame
<1>4. [frame[s] EXCEPT !.op = "flowTrigger", !.req = r] = b
  BY <1>1 DEF Frame
<1>5. ASSUME NEW i \in WithKey(k),
             frame' = [frame EXCEPT ![s] = [Reading([@ EXCEPT !.op = "flowTrigger", !.req = r], i)
                                            EXCEPT !.pc = "ing.config"]]
      PROVE  Moved(s)
  <2> HIDE DEF b
  <2>1. Exists(i)
    BY DEF WithKey, Records
  <2>2. frame' = [frame EXCEPT ![s] = [Reading(b, i) EXCEPT !.pc = "ing.config"]]
    BY <1>4, <1>5
  <2> QED BY <1>1, <1>3, <2>1, <2>2, ReadingMoves
<1>6. ASSUME frame' = [frame EXCEPT ![s] = [@ EXCEPT !.op = "flowTrigger", !.pc = "ing.config",
                                                     !.key = k, !.req = r]]
      PROVE  Moved(s)
  <2>1. c \in Frame /\ c.pc = "ing.config"
    BY <1>1, <1>2, WithPc
  <2>2. d \in Frame /\ d.pc = "ing.config" /\ d.key = k
    BY <2>1 DEF Frame
  <2>3. e \in Frame /\ e.pc = "ing.config" /\ e.key = k
    BY <2>2 DEF Frame
  <2>4. [frame[s] EXCEPT !.op = "flowTrigger", !.pc = "ing.config", !.key = k, !.req = r] = e
    BY <1>1 DEF Frame
  <2>5. Known(e)
    BY <1>1, <2>3 DEF Known
  <2> QED BY <1>6, <2>3, <2>4, <2>5 DEF Moved
<1>7. Moved(s)
  BY <1>5, <1>6 DEF FlowTrigger
<1>8. used' \in [Inputs -> Nat]
  BY SpendType DEF FlowTrigger
<1> QED BY <1>7, <1>8, HandlerPreserves DEF FlowTrigger, db, boss, seen

\* The settings for a delivery.
LEMMA ReadIngestConfigType ==
  ASSUME TypeInv, NEW s \in Slots, ReadIngestConfig(s)
  PROVE  TypeInv'
<1> DEFINE c == config[frame[s].key.flow]
<1>1. frame[s].key \in Keys
  BY FrameType DEF ReadIngestConfig, At, Known, NeedsKey
<1>2. c \in Configs \cup {Null}
  BY <1>1, SettingsType
<1>3. "ing.write" \in Pcs /\ "ing.write" \notin NeedsId \cup NeedsFlow
  BY DEF Pcs, NeedsId, NeedsFlow
<1>4. Known([frame[s] EXCEPT !.pc = "ing.write"])
  BY <1>1, <1>3, WithPc, FrameType DEF Known
<1>5. Moved(s)
  BY <1>2, <1>3, <1>4, ConfMoves, ReturnMoves DEF ReadIngestConfig
<1> QED BY <1>5, HandlerPreserves DEF ReadIngestConfig, db, boss, seen

\* The handler leaves a record just written for the schedule or takes it on.
LEMMA AfterIngestMoves ==
  ASSUME TypeInv, NEW s \in Slots, NEW i \in Ids, runs' \in [Ids -> Row], AfterIngest(s, i)
  PROVE  Moved(s)
<1> DEFINE a == [frame[s] EXCEPT !.id = i, !.cta = runs'[i].cta]
           f == UnlessCta(a, "sms")
<1>1. frame[s] \in Frame /\ "sms" \in Pcs /\ "sms" \in Free /\ "skip" \in Free
  BY FrameType DEF Pcs, Free, NeedsKey, NeedsId, NeedsFlow
<1>2. i \in 0 .. MaxRuns
  BY BoundsAssumption DEF Ids
<1>3. runs'[i].cta \in BOOLEAN
  <2>1. runs'[i] \in Row
    OBVIOUS
  <2> QED BY <2>1 DEF Row
<1>4. a \in Frame
  BY <1>1, <1>2, <1>3 DEF Frame
<1>5. f \in Frame /\ Known(f)
  BY <1>1, <1>4, UnlessCtaFrame, FreeKnown
<1>6. frame' = [frame EXCEPT ![s] = IF f.pc = "sms" /\ f.conf.sendSchedule THEN Idle ELSE f]
  BY DEF AfterIngest
<1> QED BY <1>5, <1>6, IdleFrame DEF Moved

\* An accepted delivery is counted.
LEMMA AcceptType ==
  ASSUME TypeInv, NEW i \in Ids, Accept(i)
  PROVE  accepted' \in [Ids -> Nat]
BY DEF Accept, TypeInv, TypeOK

\* The record is written, created or neither.
LEMMA WriteRecordType ==
  ASSUME TypeInv, NEW s \in Slots, WriteRecord(s)
  PROVE  TypeInv'
<1>1. frame[s].key \in Keys /\ frame[s].req \in Requests \cup {Null}
  BY FrameType DEF WriteRecord, At, Known, NeedsKey, Frame
<1>2. "Received" \in FlowRunStatus
  BY DEF FlowRunStatus
<1>3. ASSUME NEW i, Exists(i), UpdateRecord(s, i)
      PROVE  runs' \in [Ids -> Row] /\ RowsKnown'
  <2> DEFINE a == [runs[i] EXCEPT !.req = frame[s].req]
             r == [a EXCEPT !.status = "Received"]
  <2>1. a \in Row /\ a.key = runs[i].key
    BY <1>1, <1>3, RowType DEF Row
  <2>2. r \in Row /\ r.key = runs[i].key
    BY <1>2, <2>1 DEF Row
  <2>3. runs' = [runs EXCEPT ![i] = r]
    BY <1>3, RowType DEF UpdateRecord, TypeInv, TypeOK, Row
  <2> QED BY <1>3, <2>2, <2>3, RowType, RowWritten
<1>4. ASSUME NEW i \in Ids, CreateRecord(s, i)
      PROVE  runs' \in [Ids -> Row] /\ RowsKnown'
  <2> DEFINE r == [status |-> "Received", key |-> frame[s].key, req |-> frame[s].req,
                   attempt |-> 1, cta |-> FALSE]
  <2>1. r \in Row /\ r.key \in Keys
    BY <1>1, <1>2 DEF Row
  <2>2. runs' = [runs EXCEPT ![i] = r]
    BY <1>4 DEF CreateRecord
  <2> QED BY <2>1, <2>2, RowWritten
<1>5. CASE \/ /\ Exists(Rec(s)) /\ UpdateRecord(s, Rec(s))
              /\ AfterIngest(s, Rec(s)) /\ Accept(Rec(s))
           \/ \E i \in Ids : /\ CreateRecord(s, i)
                             /\ AfterIngest(s, i) /\ Accept(i)
  <2>1. /\ Moved(s) /\ runs' \in [Ids -> Row] /\ RowsKnown'
        /\ accepted' \in [Ids -> Nat]
    BY <1>3, <1>4, <1>5, RowType, AfterIngestMoves, AcceptType
  <2> QED BY <2>1, HandlerPreserves DEF WriteRecord, boss
<1>6. CASE Return(s) /\ UNCHANGED <<runs, accepted>>
  BY <1>6, ReturnMoves, HandlerPreserves DEF WriteRecord, boss
<1> QED BY <1>5, <1>6 DEF WriteRecord

\* A CTA report is taken up.
LEMMA CtaCompleteType ==
  ASSUME TypeInv, NEW s \in Slots, NEW k \in Keys, NEW done \in BOOLEAN,
         CtaComplete(s, k, done)
  PROVE  TypeInv'
<1>1. PICK i \in WithKey(k) :
        frame' = [frame EXCEPT ![s].op = "ctaComplete", ![s].pc = "cta.write",
                               ![s].id = i, ![s].cta = done]
  BY DEF CtaComplete
<1>2. frame[s] \in Frame /\ "cta.write" \in Free /\ "cta.write" \in Pcs
      /\ "ctaComplete" \in Ops /\ i \in 0 .. MaxRuns
  BY FrameType, RowType DEF WithKey, Records, Free, Pcs, NeedsKey, NeedsId, NeedsFlow, Ops
<1> DEFINE a == [frame[s] EXCEPT !.op = "ctaComplete"]
           b == [a EXCEPT !.pc = "cta.write"]
           g == [b EXCEPT !.id = i, !.cta = done]
<1>3. a \in Frame
  BY <1>2 DEF Frame
<1>4. b \in Frame /\ b.pc = "cta.write"
  BY <1>2, <1>3, WithPc
<1>5. g \in Frame /\ g.pc = "cta.write"
  BY <1>2, <1>4 DEF Frame
<1>6. frame' = [frame EXCEPT ![s] = g]
  BY <1>1, <1>2 DEF TypeInv, TypeOK, Frame
<1>7. Moved(s)
  BY <1>2, <1>5, <1>6, FreeKnown DEF Moved
<1>8. used' \in [Inputs -> Nat]
  BY SpendType DEF CtaComplete
<1> QED BY <1>7, <1>8, HandlerPreserves DEF CtaComplete, db, boss, seen

\* The CTA is written.
LEMMA WriteCtaType ==
  ASSUME TypeInv, NEW s \in Slots, WriteCta(s)
  PROVE  TypeInv'
<1>1. Moved(s)
  BY ReturnMoves DEF WriteCta
<1>2. ASSUME Exists(Rec(s)), runs' = [runs EXCEPT ![Rec(s)].cta = frame[s].cta]
      PROVE  runs' \in [Ids -> Row] /\ RowsKnown'
  <2> DEFINE r == [runs[Rec(s)] EXCEPT !.cta = frame[s].cta]
  <2>1. frame[s].cta \in BOOLEAN
    BY FrameType DEF Frame
  <2>2. r \in Row /\ r.key = runs[Rec(s)].key
    BY <1>2, <2>1, RowType DEF Row
  <2>3. runs' = [runs EXCEPT ![Rec(s)] = r]
    BY <1>2
  <2> QED BY <1>2, <2>2, <2>3, RowType, RowWritten
<1> QED BY <1>1, <1>2, HandlerPreserves DEF WriteCta, boss, seen

----------------------------------------------------------------------------
(* NlpearlWebhooks.                                                        *)

\* Consent and the end of a call are taken up for a record that was read.
LEMMA ConsentType ==
  ASSUME TypeInv, NEW s \in Slots, NEW k \in Keys, Consent(s, k)
  PROVE  TypeInv'
<1> DEFINE a == [frame[s] EXCEPT !.op = "consent"]
<1>1. a \in Frame /\ "con.config" \in Pcs \ NeedsFlow
  BY FrameType DEF Frame, Ops, Pcs, NeedsFlow
<1>2. PICK i \in WithKey(k) :
        frame' = [frame EXCEPT ![s] = [Reading(a, i) EXCEPT !.pc = "con.config"]]
  BY DEF Consent
<1>3. Moved(s)
  BY <1>1, <1>2, ReadingMoves DEF WithKey, Records
<1>4. used' \in [Inputs -> Nat]
  BY SpendType DEF Consent
<1> QED BY <1>3, <1>4, HandlerPreserves DEF Consent, db, boss, seen

\* handleCallEnded starts.
LEMMA CallEndedType ==
  ASSUME TypeInv, NEW s \in Slots, NEW n \in DOMAIN nlpearl, CallEnded(s, n)
  PROVE  TypeInv'
<1> DEFINE a == [frame[s] EXCEPT !.op = "callEnded"]
<1>1. a \in Frame /\ "end.get" \in Pcs \ NeedsFlow /\ "end.get" \notin NeedsKey
  BY FrameType DEF Frame, Ops, Pcs, NeedsFlow, NeedsKey
<1>2. PICK i \in InCall(nlpearl[n].phone) :
        frame' = [frame EXCEPT ![s] = [Reading([@ EXCEPT !.op = "callEnded"], i)
                                       EXCEPT !.pc = "end.get", !.call = n]]
  BY DEF CallEnded
<1> DEFINE b == [Reading(a, i) EXCEPT !.pc = "end.get"]
           g == [b EXCEPT !.call = n]
<1>3. Exists(i) /\ n \in Nat
  BY DEF InCall, Records, TypeInv, TypeOK
<1>4. Reading(a, i) \in Frame /\ Reading(a, i).id = i
  BY <1>1, <1>3, ReadingFrame
<1>5. b \in Frame /\ b.pc = "end.get" /\ b.id = i
  BY <1>1, <1>4, WithPc
<1>6. g \in Frame /\ g.pc = "end.get" /\ g.id = i
  BY <1>3, <1>5 DEF Frame
<1>7. [Reading(a, i) EXCEPT !.pc = "end.get", !.call = n] = g
  BY <1>4 DEF Frame
<1>8. frame' = [frame EXCEPT ![s] = g]
  BY <1>2, <1>7
<1>9. Known(g)
  BY <1>1, <1>3, <1>6, RowType DEF Known
<1>10. Moved(s)
  BY <1>6, <1>8, <1>9 DEF Moved
<1>11. used' \in [Inputs -> Nat]
  BY SpendType DEF CallEnded
<1> QED BY <1>10, <1>11, HandlerPreserves DEF CallEnded, db, boss, seen

\* The row the webhook will complete is looked up.
LEMMA FindPendingCallType ==
  ASSUME TypeInv, NEW s \in Slots, FindPendingCall(s)
  PROVE  TypeInv'
<1>1. frame[s] \in Frame /\ Rec(s) \in Ids /\ "end.row" \in Free /\ "end.row" \in Pcs
  BY FrameType DEF FindPendingCall, At, Rec, Known, NeedsId, Free, Pcs, NeedsKey, NeedsFlow
<1>2. ASSUME NEW m \in Pending(Rec(s)),
             frame' = [frame EXCEPT ![s].row = m, ![s].pc = "end.row"]
      PROVE  Moved(s)
  <2> DEFINE a == [frame[s] EXCEPT !.row = m]
             g == [a EXCEPT !.pc = "end.row"]
  <2>1. m \in Nat
    BY <1>1 DEF Pending, TypeInv, TypeOK
  <2>2. a \in Frame
    BY <1>1, <2>1 DEF Frame
  <2>3. g \in Frame /\ g.pc = "end.row"
    BY <1>1, <2>2, WithPc
  <2>4. frame' = [frame EXCEPT ![s] = g]
    BY <1>1, <1>2 DEF TypeInv, TypeOK, Frame
  <2> QED BY <1>1, <2>3, <2>4, FreeKnown DEF Moved
<1>3. Moved(s)
  BY <1>1, <1>2, GotoMoves, ReturnMoves DEF FindPendingCall
<1> QED BY <1>3, HandlerPreserves DEF FindPendingCall, db, boss, seen

\* The row is completed, or one is added.
LEMMA RecordCallEndType ==
  ASSUME TypeInv, NEW s \in Slots, RecordCallEnd(s)
  PROVE  TypeInv'
<1>1. Moved(s)
  <2>1. "end.config" \in Free
    BY DEF Free, Pcs, NeedsKey, NeedsId, NeedsFlow
  <2> QED BY <2>1, GotoMoves, ReturnMoves DEF RecordCallEnd
<1>2. ASSUME Exists(Rec(s)), CompleteRow(s)
      PROVE  calls' \in [Ids -> Seq(CallRow)]
  <2> DEFINE q == calls[Rec(s)]  n == frame[s].call  m == frame[s].row
             new == [request |-> 0, call |-> n]
  <2>1. q \in Seq(CallRow) /\ n \in Nat /\ m \in Nat /\ Rec(s) \in Ids
    BY <1>2, FrameType, RowType DEF Frame, TypeInv, TypeOK
  <2>2. new \in CallRow
    BY <2>1 DEF CallRow
  <2>3. Append(q, new) \in Seq(CallRow)
    <3> HIDE DEF q, new
    <3> QED BY <2>1, <2>2
  <2>4. [q EXCEPT ![m].call = n] \in Seq(CallRow)
    <3>1. CASE m \in DOMAIN q
      <4>1. q[m] \in CallRow
        BY <2>1, <3>1
      <4>2. [q[m] EXCEPT !.call = n] \in CallRow
        BY <2>1, <4>1 DEF CallRow
      <4> DEFINE r == [q[m] EXCEPT !.call = n]
      <4>3. [q EXCEPT ![m].call = n] = [q EXCEPT ![m] = r]
        OBVIOUS
      <4>4. r \in CallRow
        BY <4>2
      <4> HIDE DEF q, r, n, m
      <4>5. [q EXCEPT ![m] = r] \in Seq(CallRow)
        BY <2>1, <3>1, <4>4
      <4> QED BY <4>3, <4>5
    <3>2. CASE m \notin DOMAIN q
      <4> HIDE DEF q, n, m
      <4>1. q \in [1 .. Len(q) -> CallRow] /\ DOMAIN q = 1 .. Len(q)
        BY <2>1
      <4>2. [q EXCEPT ![m].call = n] = q
        BY <3>2, <4>1
      <4> QED BY <2>1, <4>2
    <3> QED BY <3>1, <3>2
  <2>5. calls' = [calls EXCEPT ![Rec(s)] = IF m = 0 THEN Append(q, new) ELSE [q EXCEPT ![m].call = n]]
    BY <1>2 DEF CompleteRow
  <2> QED BY <2>1, <2>3, <2>4, <2>5 DEF TypeInv, TypeOK
<1> QED BY <1>1, <1>2, HandlerPreserves DEF RecordCallEnd, boss, seen

\* The other steps of the webhooks write a status or only move on.
LEMMA WebhookStatusType ==
  ASSUME TypeInv, NEW s \in Slots,
         ReadConsentConfig(s) \/ SendConsentSms(s) \/ RecordConsent(s) \/ DecideRetry(s)
           \/ RecordCompleted(s)
  PROVE  TypeInv'
<1>1. {"con.sms", "con.write", "bump", "end.done"} \subseteq Free
  BY DEF Free, Pcs, NeedsKey, NeedsId, NeedsFlow
<1>2. Moved(s)
  BY <1>1, GotoMoves, ReturnMoves
     DEF ReadConsentConfig, SendConsentSms, RecordConsent, DecideRetry, RecordCompleted
<1>3. UNCHANGED runs \/ (runs' \in [Ids -> Row] /\ RowsKnown')
  <2>1. {"ConsentGiven", "Completed"} \subseteq FlowRunStatus
    BY DEF FlowRunStatus
  <2> QED BY <2>1, SetStatusType
          DEF ReadConsentConfig, SendConsentSms, RecordConsent, DecideRetry, RecordCompleted, db
<1> QED BY <1>2, <1>3, HandlerPreserves
        DEF ReadConsentConfig, SendConsentSms, RecordConsent, DecideRetry, RecordCompleted,
            db, boss, seen

----------------------------------------------------------------------------
(* Administration.                                                         *)

\* Resend takes a record up.
LEMMA ResendType ==
  ASSUME TypeInv, NEW s \in Slots, NEW i \in Ids, Resend(s, i)
  PROVE  TypeInv'
<1> DEFINE a == [frame[s] EXCEPT !.op = "resend"]
<1>1. a \in Frame /\ "resend.config" \in Pcs \ NeedsFlow
  BY FrameType DEF Frame, Ops, Pcs, NeedsFlow
<1>2. frame' = [frame EXCEPT ![s] = [Reading(a, i) EXCEPT !.pc = "resend.config"]]
  BY DEF Resend
<1>3. Moved(s)
  BY <1>1, <1>2, ReadingMoves DEF Resend
<1>4. used' \in [Inputs -> Nat]
  BY SpendType DEF Resend
<1> QED BY <1>3, <1>4, HandlerPreserves DEF Resend, db, boss, seen

\* The settings for a resend.
LEMMA ReadResendConfigType ==
  ASSUME TypeInv, NEW s \in Slots, ReadResendConfig(s)
  PROVE  TypeInv'
<1> DEFINE c == config[frame[s].key.flow]
<1>1. frame[s].key \in Keys
  BY FrameType DEF ReadResendConfig, At, Known, NeedsKey
<1>2. c \in Configs \cup {Null}
  BY <1>1, SettingsType
<1>3. "resend.bump" \in Free /\ "resend.bump" \in Pcs
  BY DEF Pcs, Free, NeedsKey, NeedsId, NeedsFlow
<1>4. Known([frame[s] EXCEPT !.pc = "resend.bump"])
  BY <1>3, WithPc, FrameType, FreeKnown
<1>5. Moved(s)
  BY <1>2, <1>3, <1>4, ConfMoves, ReturnMoves DEF ReadResendConfig
<1> QED BY <1>5, HandlerPreserves DEF ReadResendConfig, db, boss, seen

\* The attempt of a resend is counted.
LEMMA ResendNowType ==
  ASSUME TypeInv, NEW s \in Slots, ResendNow(s)
  PROVE  TypeInv'
<1>1. "sms" \in Free /\ "Received" \in FlowRunStatus
  BY DEF Pcs, Free, NeedsKey, NeedsId, NeedsFlow, FlowRunStatus
<1>2. Moved(s)
  BY <1>1, GotoMoves, ReturnMoves DEF ResendNow
<1>3. UNCHANGED runs \/ (runs' \in [Ids -> Row] /\ RowsKnown')
  BY <1>1, RaiseType DEF ResendNow
<1>4. UNCHANGED tally \/ tally' \in [Ids -> Tally]
  BY CountType DEF ResendNow
<1> QED BY <1>2, <1>3, <1>4, HandlerPreserves DEF ResendNow, boss

\* Remove takes a record up.
LEMMA RemoveType ==
  ASSUME TypeInv, NEW s \in Slots, NEW i \in Ids, Remove(s, i)
  PROVE  TypeInv'
<1>1. frame[s] \in Frame /\ "delete" \in Free /\ "delete" \in Pcs /\ "remove" \in Ops
      /\ i \in 0 .. MaxRuns
  BY FrameType, BoundsAssumption DEF Free, Pcs, NeedsKey, NeedsId, NeedsFlow, Ops, Ids
<1> DEFINE a == [frame[s] EXCEPT !.op = "remove"]
           b == [a EXCEPT !.pc = "delete"]
           g == [b EXCEPT !.id = i]
<1>2. a \in Frame
  BY <1>1 DEF Frame
<1>3. b \in Frame /\ b.pc = "delete"
  BY <1>1, <1>2, WithPc
<1>4. g \in Frame /\ g.pc = "delete"
  BY <1>1, <1>3 DEF Frame
<1>5. frame' = [frame EXCEPT ![s] = g]
  BY <1>1 DEF Remove, TypeInv, TypeOK, Frame
<1>6. Moved(s)
  BY <1>1, <1>4, <1>5, FreeKnown DEF Moved
<1>7. used' \in [Inputs -> Nat]
  BY SpendType DEF Remove
<1> QED BY <1>6, <1>7, HandlerPreserves DEF Remove, db, boss, seen

\* A record goes with its call rows.
LEMMA DeleteRecordType ==
  ASSUME TypeInv, NEW s \in Slots, DeleteRecord(s)
  PROVE  TypeInv'
<1>1. Moved(s)
  BY ReturnMoves DEF DeleteRecord
<1>2. Deleted \in Row /\ Deleted.status \notin FlowRunStatus
  BY DEF Deleted, NoRow, Row, FlowRunStatus
<1>3. UNCHANGED runs \/ (runs' \in [Ids -> Row] /\ RowsKnown')
  BY <1>2, RowType, RowWritten DEF DeleteRecord
<1>4. UNCHANGED calls \/ calls' \in [Ids -> Seq(CallRow)]
  <2>1. <<>> \in Seq(CallRow)
    OBVIOUS
  <2> QED BY <2>1 DEF DeleteRecord, TypeInv, TypeOK
<1> QED BY <1>1, <1>3, <1>4, HandlerPreserves DEF DeleteRecord, boss, seen

\* A change of settings is taken up: slot s is at a step of it, for flow f.
LEMMA SettingsMoves ==
  ASSUME TypeInv, NEW s \in Slots, NEW f \in Flows, NEW c \in Configs \cup {Null},
         NEW pc \in NeedsFlow,
         frame' = [frame EXCEPT ![s] =
           [frame[s] EXCEPT !.op = "config", !.pc = pc, !.flow = f, !.conf = c]]
  PROVE  Moved(s)
<1>1. frame[s] \in Frame /\ pc \in Pcs /\ pc \notin NeedsKey \cup NeedsId /\ "config" \in Ops
  BY FrameType DEF Pcs, NeedsKey, NeedsId, NeedsFlow, Ops
<1> DEFINE a == [frame[s] EXCEPT !.op = "config"]
           b == [a EXCEPT !.pc = pc]
           d == [b EXCEPT !.flow = f]
           g == [d EXCEPT !.conf = c]
<1>2. a \in Frame
  BY <1>1 DEF Frame
<1>3. b \in Frame /\ b.pc = pc
  BY <1>1, <1>2, WithPc
<1>4. d \in Frame /\ d.pc = pc /\ d.flow = f
  BY <1>3 DEF Frame
<1>5. g \in Frame /\ g.pc = pc /\ g.flow = f
  BY <1>4 DEF Frame
<1>6. [frame[s] EXCEPT !.op = "config", !.pc = pc, !.flow = f, !.conf = c] = g
  BY <1>1 DEF Frame
<1>7. Known(g)
  BY <1>1, <1>5 DEF Known
<1> QED BY <1>5, <1>6, <1>7 DEF Moved

\* The settings of a flow are created ...
LEMMA CreateConfigType ==
  ASSUME TypeInv, NEW s \in Slots, NEW f \in Flows, NEW c \in Configs, CreateConfig(s, f, c)
  PROVE  TypeInv'
<1>1. frame' = [frame EXCEPT ![s] =
        [frame[s] EXCEPT !.op = "config", !.pc = "conf.sync", !.flow = f, !.conf = c]]
  BY FrameType DEF CreateConfig, TypeInv, TypeOK, Frame
<1>2. Moved(s)
  BY <1>1, SettingsMoves DEF NeedsFlow
<1>3. config' \in [Flows -> Configs \cup {Null}]
  BY DEF CreateConfig, TypeInv, TypeOK
<1>4. used' \in [Inputs -> Nat]
  BY SpendType DEF CreateConfig
<1> QED BY <1>2, <1>3, <1>4, MovedFrames DEF CreateConfig, TypeInv, TypeOK, RowsKnown, boss, seen

\* ... about to be written over ...
LEMMA UpdateConfigType ==
  ASSUME TypeInv, NEW s \in Slots, NEW f \in Flows, NEW c \in Configs, UpdateConfig(s, f, c)
  PROVE  TypeInv'
<1>1. frame' = [frame EXCEPT ![s] =
        [frame[s] EXCEPT !.op = "config", !.pc = "conf.write", !.flow = f, !.conf = c]]
  BY FrameType DEF UpdateConfig, TypeInv, TypeOK, Frame
<1>2. Moved(s)
  BY <1>1, SettingsMoves DEF NeedsFlow
<1>3. used' \in [Inputs -> Nat]
  BY SpendType DEF UpdateConfig
<1> QED BY <1>2, <1>3, HandlerPreserves DEF UpdateConfig, db, boss, seen

\* ... or about to go.
LEMMA RemoveConfigType ==
  ASSUME TypeInv, NEW s \in Slots, NEW f \in Flows, RemoveConfig(s, f)
  PROVE  TypeInv'
<1>1. frame' = [frame EXCEPT ![s] =
        [frame[s] EXCEPT !.op = "config", !.pc = "conf.delete", !.flow = f, !.conf = @]]
  BY FrameType DEF RemoveConfig, TypeInv, TypeOK, Frame
<1>2. frame[s].conf \in Configs \cup {Null}
  BY FrameType DEF Frame
<1>3. Moved(s)
  BY <1>1, <1>2, SettingsMoves DEF NeedsFlow
<1>4. used' \in [Inputs -> Nat]
  BY SpendType DEF RemoveConfig
<1> QED BY <1>3, <1>4, HandlerPreserves DEF RemoveConfig, db, boss, seen

\* The settings are written or gone.
LEMMA WriteConfigType ==
  ASSUME TypeInv, NEW s \in Slots, WriteConfig(s)
  PROVE  TypeInv'
<1>1. frame[s] \in Frame /\ frame[s].flow \in Flows
  BY FrameType DEF WriteConfig, At, Known, NeedsFlow
<1>2. Goto(s, "conf.sync") => Moved(s)
  <2> DEFINE g == [frame[s] EXCEPT !.pc = "conf.sync"]
  <2>1. "conf.sync" \in Pcs /\ "conf.sync" \notin NeedsKey \cup NeedsId
    BY DEF Pcs, NeedsKey, NeedsId
  <2>2. g \in Frame /\ g.pc = "conf.sync" /\ g.flow \in Flows
    BY <1>1, <2>1, WithPc
  <2>3. Known(g)
    BY <2>1, <2>2 DEF Known
  <2> QED BY <2>2, <2>3 DEF Goto, Moved
<1>3. Moved(s)
  BY <1>2, ReturnMoves DEF WriteConfig
<1>4. config' \in [Flows -> Configs \cup {Null}]
  <2>1. frame[s].conf \in Configs \cup {Null}
    BY <1>1 DEF Frame
  <2> QED BY <2>1 DEF WriteConfig, TypeInv, TypeOK
<1> QED BY <1>3, <1>4, MovedFrames DEF WriteConfig, TypeInv, TypeOK, RowsKnown, boss, seen

----------------------------------------------------------------------------
(* The whole.                                                              *)

\* The start.
LEMMA InitType == Init => TypeInv
<1> SUFFICES ASSUME Init PROVE TypeInv
  OBVIOUS
<1>1. NoRow \in Row /\ NoRow.status \notin FlowRunStatus
  BY DEF NoRow, Row, FlowRunStatus
<1>2. [sent |-> 0, retried |-> 0, resent |-> 0] \in Tally
  BY DEF Tally
<1>3. RowsKnown
  BY <1>1 DEF Init, RowsKnown
<1>4. FramesKnown /\ frame \in [Slots -> Frame]
  BY IdleFrame DEF Init, FramesKnown
<1>5. runs \in [Ids -> Row] /\ tally \in [Ids -> Tally]
  BY <1>1, <1>2 DEF Init
<1>6. /\ config \in [Flows -> Configs \cup {Null}] /\ cron \subseteq Flows
      /\ registered \subseteq Flows
  BY DEF Init
<1>7. calls \in [Ids -> Seq(CallRow)] /\ nlpearl \in Seq(PlacedCall)
  BY DEF Init
<1>8. /\ queue \in [Jobs -> Nat] /\ accepted \in [Ids -> Nat]
      /\ used \in [Inputs -> Nat]
  BY DEF Init
<1> QED BY <1>3, <1>4, <1>5, <1>6, <1>7, <1>8 DEF TypeInv, TypeOK

\* A restart.
LEMMA RestartType ==
  ASSUME TypeInv, Restart
  PROVE  TypeInv'
<1>1. FramesKnown' /\ frame' \in [Slots -> Frame]
  <2>1. frame' = [s \in Slots |-> Idle]
    BY DEF Restart
  <2>2. \A s \in Slots : frame'[s] = Idle
    BY <2>1
  <2>3. FramesKnown'
    BY <2>2, IdleFrame DEF FramesKnown, Known
  <2> QED BY <2>1, <2>3, IdleFrame
<1>2. queue' \in [Jobs -> Nat]
  BY DEF Restart, TypeInv, TypeOK
<1>3. registered' \subseteq Flows /\ cron' \subseteq Flows
  BY DEF Restart, TypeInv, TypeOK
<1>4. used' \in [Inputs -> Nat]
  BY SpendType DEF Restart
<1> QED BY <1>1, <1>2, <1>3, <1>4 DEF Restart, TypeInv, TypeOK, RowsKnown, db, seen

\* A step of a handler in flight.
LEMMA HandlerStepType ==
  ASSUME TypeInv, NEW s \in Slots, HandlerStep(s)
  PROVE  TypeInv'
<1>1. CASE DispatchStep(s)
  BY <1>1, SendPreliminarySmsType, StatusStepType, EnqueueStepType, BumpAttemptType,
     ReadRetryConfigType, SyncScheduleType DEF DispatchStep
<1>2. CASE TriggerStep(s)
  BY <1>2, ReadTriggerConfigType, MakeCallType, RecordCallType DEF TriggerStep
<1>3. CASE IngestStep(s)
  BY <1>3, ReadIngestConfigType, WriteRecordType, WriteCtaType DEF IngestStep
<1>4. CASE WebhookStep(s)
  BY <1>4, FindPendingCallType, RecordCallEndType, WebhookStatusType DEF WebhookStep
<1>5. CASE AdminStep(s)
  BY <1>5, ReadResendConfigType, ResendNowType, DeleteRecordType, WriteConfigType DEF AdminStep
<1> QED BY <1>1, <1>2, <1>3, <1>4, <1>5 DEF HandlerStep

\* A request.
LEMMA RequestType ==
  ASSUME TypeInv, NEW s \in HttpSlots, Request(s)
  PROVE  TypeInv'
<1>1. s \in Slots
  BY WorkerSlots
<1> QED BY <1>1, FlowTriggerType, CtaCompleteType, ConsentType, CallEndedType, ResendType,
           RemoveType, CreateConfigType, UpdateConfigType, RemoveConfigType DEF Request

\* Every step keeps the invariant.
LEMMA NextType == TypeInv /\ [Next]_vars => TypeInv'
<1> SUFFICES ASSUME TypeInv, [Next]_vars PROVE TypeInv'
  OBVIOUS
<1>1. CASE \E s \in Slots : HandlerStep(s)
  BY <1>1, HandlerStepType
<1>2. CASE \E f \in Flows : BatchStep(f)
  BY <1>2, ListPendingType, NextPendingType DEF BatchStep
<1>3. CASE \E j \in Jobs : FetchStep(j)
  BY <1>3, FetchRecordType, FetchDispatchType DEF FetchStep
<1>4. CASE \E s \in HttpSlots : Request(s)
  BY <1>4, RequestType
<1>5. CASE \E f \in Flows : CronTick(f)
  BY <1>5, CronTickType
<1>6. CASE \E n \in DOMAIN nlpearl : CallFinishes(n)
  BY <1>6, CallFinishesType
<1>7. CASE Restart
  BY <1>7, RestartType
<1>8. CASE UNCHANGED vars
  BY <1>8 DEF vars, TypeInv, TypeOK, RowsKnown, FramesKnown, Known
<1> QED BY <1>1, <1>2, <1>3, <1>4, <1>5, <1>6, <1>7, <1>8 DEF Next, Quiescent

\* Type correctness, and that no handler looks anything up it has not read:
\* an invariant of the specification.
THEOREM TypeInvariance == Spec => []TypeInv
BY InitType, NextType, PTL DEF Spec

\* Every variable stays within its type: what a handler keeps, what pg-boss
\* holds and what the tables hold are values the code's columns can hold.
THEOREM TypeCorrect == Spec => []TypeOK
<1>1. TypeInv => TypeOK
  BY DEF TypeInv
<1> QED BY <1>1, TypeInvariance, PTL

============================================================================
