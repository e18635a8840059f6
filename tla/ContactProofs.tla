---------------------------- MODULE ContactProofs ----------------------------
(***************************************************************************)
(* Whom the orchestrator contacts: nobody is called who was not texted     *)
(* before (NoColdCall), and no handler that asks about the CTA texts or    *)
(* calls somebody it has read as having completed it (CtaHonoured).        *)
(*                                                                         *)
(* Both are about what a handler has learned before it acts.  The          *)
(* invariant ContactInv follows the text from the step that sends it       *)
(* through the job, its redeliveries and the call worker to the call, and  *)
(* the answer about the CTA from the step that asks to the step that       *)
(* contacts.                                                               *)
(***************************************************************************)
EXTENDS RecordProofs

\* A text was delivered for record i.
Warm(i) == i \in Ids => tally[i].sent > 0

\* Where the call worker may be: it reads no list and writes no record anew.
TriggerPcs == {"idle", "skip", "trig.config", "trig.call", "trig.record",
               "bump", "bump.enqueue", "fail", "batch.next"}

\* A handler that is about to enqueue a call job has sent the text; so had
\* whoever enqueued the job at hand.
WarmFrame(s, f) ==
  /\ f.pc \in {"presms", "enqueue"} => Warm(f.id)
  /\ f.job # Null /\ (s = "trigger" \/ f.job.on = "trigger") => Warm(f.job.id)
  /\ s = "trigger" => Warm(f.id) /\ f.pc \in TriggerPcs

\* A handler that is about to contact has asked about the CTA, or is one of the
\* two that do not ask.
ToContact == {"sms", "retry.config", "trig.config", "trig.call"}
Resends   == {"resend.config", "resend.bump"}
Consents  == {"con.config", "con.sms"}
Guarded   == ToContact \cup Resends \cup Consents
CtaFrame(f) ==
  /\ f.pc \in ToContact => f.op = "resend" \/ ~f.cta
  /\ f.pc \in Resends => f.op = "resend"
  /\ f.pc \in Consents => f.op = "consent"

ContactFits(s, f) == WarmFrame(s, f) /\ CtaFrame(f)
JobsWarm   == \A j \in Jobs : j.on = "trigger" /\ queue[j] # 0 => Warm(j.id)
PlacedWarm == \A n \in DOMAIN nlpearl : Warm(nlpearl[n].run)

ContactInv == JobsWarm /\ PlacedWarm /\ \A s \in Slots : ContactFits(s, frame[s])

\* No text is taken back.
WarmStays == \A i : Warm(i) => Warm(i)'

\* What of a frame the invariant is about, besides the step it is at.
Alike(f, g) == g.op = f.op /\ g.id = f.id /\ g.cta = f.cta /\ g.job = f.job

\* Slot s alone has moved, and its frame fits.
Keeps(s) == Only(s) /\ ContactFits(s, frame[s])'

\* The only call jobs that are new are for records with a text.
WarmJobsOnly == \A j \in Jobs : j.on = "trigger" /\ queue'[j] # 0 => queue[j] # 0 \/ Warm(j.id)

----------------------------------------------------------------------------
(* Moving a frame.                                                         *)

\* A frame that fits after the step.
LEMMA MoveFits ==
  ASSUME TypeInv, NEW s \in Slots, NEW g, frame' = [frame EXCEPT ![s] = g], ContactFits(s, g)'
  PROVE  Keeps(s)
<1>1. frame \in [Slots -> Frame]
  BY DEF TypeInv, TypeOK
<1>2. Only(s) /\ frame'[s] = g
  BY <1>1 DEF Only
<1> QED BY <1>2 DEF Keeps, ContactFits, WarmFrame, CtaFrame, Warm

\* A handler that has only gone on: the next step must be one it may take.
LEMMA StepFits ==
  ASSUME TypeInv, ContactInv, WarmStays, NEW s \in Slots, NEW g,
         frame' = [frame EXCEPT ![s] = g], Alike(frame[s], g),
         g.pc \in {"presms", "enqueue"} => Warm(g.id)',
         g.pc \in ToContact => g.op = "resend" \/ ~g.cta,
         g.pc \in Resends => g.op = "resend",
         g.pc \in Consents => g.op = "consent",
         s = "trigger" => g.pc \in TriggerPcs
  PROVE  Keeps(s)
<1>1. PICK f \in Frame : f = frame[s] /\ ContactFits(s, f)
  BY FrameType DEF ContactInv
<1>2. g.id = f.id /\ g.job = f.job
  BY <1>1 DEF Alike
<1>3. WarmFrame(s, g)'
  BY <1>1, <1>2 DEF ContactFits, WarmFrame, WarmStays
<1>4. CtaFrame(g)'
  BY DEF CtaFrame
<1> QED BY <1>3, <1>4, MoveFits DEF ContactFits

\* Going on.
LEMMA GotoFits ==
  ASSUME TypeInv, ContactInv, WarmStays, NEW s \in Slots, NEW pc \in Pcs, Goto(s, pc),
         pc \in {"presms", "enqueue"} /\ Rec(s) \in Ids => tally'[Rec(s)].sent > 0,
         pc \notin Guarded,
         s = "trigger" => pc \in TriggerPcs
  PROVE  Keeps(s)
<1>1. PICK f \in Frame : f = frame[s]
  BY FrameType
<1>2. PICK g : g = [f EXCEPT !.pc = pc]
  OBVIOUS
<1>3. g.pc = pc /\ Alike(f, g)
  BY <1>2 DEF Frame, Alike
<1>4. frame' = [frame EXCEPT ![s] = g]
  BY <1>1, <1>2 DEF Goto
<1>5. g.pc \in {"presms", "enqueue"} => Warm(g.id)'
  BY <1>1, <1>3 DEF Warm, Rec, Alike
<1> QED BY <1>1, <1>3, <1>4, <1>5, StepFits DEF Guarded

\* Returning.
LEMMA ReturnFits ==
  ASSUME TypeInv, NEW s \in Slots, Return(s)
  PROVE  Keeps(s)
<1>1. ContactFits(s, Idle)'
  BY BoundsAssumption
     DEF ContactFits, WarmFrame, CtaFrame, Idle, TriggerPcs, ToContact, Resends, Consents, Warm, Ids
<1> QED BY <1>1, MoveFits DEF Return

----------------------------------------------------------------------------
(* What stays.                                                             *)

\* A count is only raised.
LEMMA CountWarm ==
  ASSUME TypeInv, NEW i, NEW what \in {"sent", "retried", "resent"}, Count(i, what)
  PROVE  WarmStays /\ (what = "sent" => (i \in Ids => tally'[i].sent > 0))
<1>1. tally \in [Ids -> Tally]
  BY DEF TypeInv, TypeOK
<1>2. tally' = [tally EXCEPT ![i] = [tally[i] EXCEPT ![what] = @ + 1]]
  BY DEF Count
<1>3. ASSUME NEW j \in Ids
      PROVE  /\ tally[j].sent > 0 => tally'[j].sent > 0
             /\ what = "sent" /\ j = i => tally'[j].sent > 0
  <2>1. tally[j] \in Tally
    BY <1>1
  <2>2. CASE j # i
    BY <1>1, <1>2, <2>2
  <2>3. CASE j = i
    <3>1. CASE what = "sent"
      BY <1>1, <1>2, <2>1, <2>3, <3>1 DEF Tally
    <3>2. CASE what # "sent"
      BY <1>1, <1>2, <2>1, <2>3, <3>2 DEF Tally
    <3> QED BY <3>1, <3>2
  <2> QED BY <2>2, <2>3
<1> QED BY <1>3 DEF WarmStays, Warm

\* Nothing was sent.
LEMMA SameWarm ==
  ASSUME UNCHANGED tally
  PROVE  WarmStays
BY DEF WarmStays, Warm

\* A job put back is one that was being run.
LEMMA RedeliverWarm ==
  ASSUME TypeInv, ContactInv, NEW s \in Slots, queue' = Redeliver(queue, frame[s].job)
  PROVE  WarmJobsOnly
<1>1. PICK f \in Frame : f = frame[s] /\ ContactFits(s, f)
  BY FrameType DEF ContactInv
<1>2. CASE queue' = queue
  BY <1>2 DEF WarmJobsOnly
<1>3. CASE queue' # queue
  <2> DEFINE j == f.job  k == [j EXCEPT !.tries = @ - 1]
  <2>1. j # Null /\ queue' = [queue EXCEPT ![k] = @ + 1]
    BY <1>1, <1>3 DEF Redeliver
  <2>2. j \in Jobs
    BY <2>1 DEF Frame
  <2>3. k.on = j.on /\ k.id = j.id
    BY <2>2 DEF Jobs
  <2>4. k.on = "trigger" => Warm(k.id)
    BY <1>1, <2>1, <2>3 DEF ContactFits, WarmFrame
  <2>5. queue \in [Jobs -> Nat]
    BY DEF TypeInv, TypeOK
  <2> HIDE DEF k
  <2>6. \A m \in Jobs : m # k => queue'[m] = queue[m]
    BY <2>1, <2>5
  <2> QED BY <2>4, <2>6 DEF WarmJobsOnly
<1> QED BY <1>2, <1>3

\* A job enqueued for the call worker is for a record with a text.
LEMMA EnqueueWarm ==
  ASSUME TypeInv, NEW on, NEW i, Enqueue(NewJob(on, i)), on = "trigger" => Warm(i)
  PROVE  WarmJobsOnly
<1> DEFINE j == NewJob(on, i)
<1>1. j.on = on /\ j.id = i
  BY DEF NewJob
<1>2. queue \in [Jobs -> Nat] /\ queue' = [queue EXCEPT ![j] = @ + 1]
  BY DEF TypeInv, TypeOK, Enqueue
<1> HIDE DEF j
<1>3. \A m \in Jobs : m # j => queue'[m] = queue[m]
  BY <1>2
<1> QED BY <1>1, <1>3 DEF WarmJobsOnly

\* No job is new.
LEMMA SameJobs ==
  ASSUME UNCHANGED queue
  PROVE  WarmJobsOnly
BY DEF WarmJobsOnly

----------------------------------------------------------------------------
(* The steps of a handler.                                                 *)

\* What a step of slot s owes the invariant.
Owes(s) == Keeps(s) /\ WarmStays /\ WarmJobsOnly /\ (UNCHANGED nlpearl \/ PlacedWarm')

\* Back to the caller: the batch or none.
LEMMA DispatchReturnFits ==
  ASSUME TypeInv, ContactInv, WarmStays, NEW s \in Slots, DispatchReturn(s)
  PROVE  Keeps(s)
<1>1. /\ "batch.next" \in Pcs /\ "batch.next" \notin {"presms", "enqueue"}
      /\ "batch.next" \notin Guarded /\ "batch.next" \in TriggerPcs
  BY DEF Pcs, Guarded, ToContact, Resends, Consents, TriggerPcs
<1> QED BY <1>1, GotoFits, ReturnFits DEF DispatchReturn

\* The text, then the job: dispatchOne in its order.
LEMMA DispatchOwes ==
  ASSUME TypeInv, ContactInv, NEW s \in Slots, DispatchStep(s)
  PROVE  Owes(s)
<1> USE DEF Owes
<1>1. /\ {"presms", "enqueue", "scheduled", "fail", "bump.enqueue", "batch.next"}
           \subseteq Pcs \ Guarded
      /\ {"fail", "bump.enqueue", "batch.next"} \subseteq TriggerPcs
  BY DEF Pcs, Guarded, ToContact, Resends, Consents, TriggerPcs
<1>2. PICK f \in Frame : f = frame[s] /\ ContactFits(s, f)
  BY FrameType DEF ContactInv
<1>3. f.pc \in {"presms", "enqueue"} => Warm(f.id)
  BY <1>2 DEF ContactFits, WarmFrame
<1>4. s = "trigger" => f.pc \in TriggerPcs
  BY <1>2 DEF ContactFits, WarmFrame
<1>5. CASE SendPreliminarySms(s)
  <2>1. UNCHANGED <<queue, nlpearl>> /\ s # "trigger"
    BY <1>2, <1>4, <1>5 DEF SendPreliminarySms, boss, At, TriggerPcs
  <2>2. CASE Count(Rec(s), "sent") /\ (Goto(s, "presms") \/ Goto(s, "fail"))
    <3>1. WarmStays /\ (f.id \in Ids => tally'[f.id].sent > 0)
      BY <1>2, <2>2, CountWarm DEF Rec
    <3> QED BY <1>1, <1>2, <2>1, <2>2, <3>1, GotoFits, SameJobs DEF Rec
  <2>3. CASE UNCHANGED tally /\ Goto(s, "fail")
    BY <1>1, <2>1, <2>3, GotoFits, SameJobs, SameWarm
  <2> QED BY <1>5, <2>2, <2>3 DEF SendPreliminarySms
<1>6. CASE RecordPreSmsSent(s)
  <2>1. UNCHANGED <<queue, nlpearl, tally>> /\ s # "trigger" /\ Warm(f.id)
    BY <1>2, <1>3, <1>4, <1>6 DEF RecordPreSmsSent, boss, seen, At, TriggerPcs
  <2>2. f.id \in Ids => tally'[f.id].sent > 0
    BY <2>1 DEF Warm
  <2> QED BY <1>1, <1>2, <1>6, <2>1, <2>2, GotoFits, SameJobs, SameWarm DEF RecordPreSmsSent, Rec
<1>7. CASE RecordFailed(s) \/ RecordScheduled(s) \/ SkipCtaCompleted(s)
  <2>1. UNCHANGED <<nlpearl, tally>> /\ WarmStays
    BY <1>7, SameWarm DEF RecordFailed, RecordScheduled, SkipCtaCompleted, seen
  <2>2. CASE Throw(s)
    BY <2>1, <2>2, ReturnFits, RedeliverWarm DEF Throw
  <2>3. CASE DispatchReturn(s) /\ UNCHANGED queue
    BY <2>1, <2>3, DispatchReturnFits, SameJobs
  <2> QED BY <1>7, <2>2, <2>3 DEF RecordFailed, RecordScheduled, SkipCtaCompleted
<1>8. CASE EnqueueTrigger(s)
  <2>1. UNCHANGED <<nlpearl, tally>> /\ s # "trigger" /\ Warm(f.id)
    BY <1>2, <1>3, <1>4, <1>8 DEF EnqueueTrigger, seen, At, TriggerPcs
  <2>2. WarmJobsOnly
    BY <1>2, <1>8, <2>1, EnqueueWarm DEF EnqueueTrigger, Rec
  <2>3. Keeps(s)
    BY <1>1, <1>8, <2>1, GotoFits, SameWarm DEF EnqueueTrigger
  <2> QED BY <2>1, <2>2, <2>3, SameWarm
<1>9. CASE BumpAttempt(s)
  <2>1. UNCHANGED nlpearl
    BY <1>9 DEF BumpAttempt
  <2>2. CASE Throw(s) /\ UNCHANGED tally
    BY <2>1, <2>2, ReturnFits, RedeliverWarm, SameWarm DEF Throw
  <2>3. CASE Count(Rec(s), "retried") /\ Goto(s, "bump.enqueue") /\ UNCHANGED queue
    <3>1. WarmStays
      BY <2>3, CountWarm
    <3> QED BY <1>1, <2>1, <2>3, <3>1, GotoFits, SameJobs
  <2> QED BY <1>9, <2>2, <2>3 DEF BumpAttempt
<1>10. CASE EnqueueRetry(s)
  <2>1. UNCHANGED <<nlpearl, tally>> /\ Return(s) /\ Enqueue(NewJob("retry", Rec(s)))
    BY <1>10 DEF EnqueueRetry, seen
  <2>2. WarmJobsOnly
    BY <2>1, EnqueueWarm
  <2> QED BY <2>1, <2>2, ReturnFits, SameWarm
<1>11. CASE ReadRetryConfig(s)
  <2>1. UNCHANGED <<nlpearl, tally, queue>>
    BY <1>11 DEF ReadRetryConfig, seen, boss
  <2>2. CASE Return(s)
    BY <2>1, <2>2, ReturnFits, SameWarm, SameJobs
  <2>3. ASSUME NEW c, frame' = [frame EXCEPT ![s].conf = c, ![s].pc = "sms"]
        PROVE  Keeps(s)
    <3>1. PICK g : g = [f EXCEPT !.conf = c, !.pc = "sms"]
      OBVIOUS
    <3>2. frame' = [frame EXCEPT ![s] = g]
      BY <1>2, <2>3, <3>1 DEF Frame, TypeInv, TypeOK
    <3>3. g.pc = "sms" /\ Alike(f, g)
      BY <3>1 DEF Frame, Alike
    <3>4. g.op = "resend" \/ ~g.cta
      BY <1>2, <1>11, <3>3 DEF ContactFits, CtaFrame, ReadRetryConfig, At, ToContact, Alike
    <3>5. s # "trigger"
      BY <1>2, <1>4, <1>11 DEF ReadRetryConfig, At, TriggerPcs
    <3> QED BY <1>2, <2>1, <3>2, <3>3, <3>4, <3>5, StepFits, SameWarm DEF Resends, Consents
  <2> QED BY <1>11, <2>1, <2>2, <2>3, SameWarm, SameJobs DEF ReadRetryConfig
<1>12. CASE SyncSchedule(s)
  BY <1>12, ReturnFits, SameWarm, SameJobs DEF SyncSchedule, seen
<1> QED BY <1>5, <1>6, <1>7, <1>8, <1>9, <1>10, <1>11, <1>12 DEF DispatchStep

\* The batch asks about each record it has listed.
LEMMA BatchOwes ==
  ASSUME TypeInv, ContactInv, NEW w \in Flows, BatchStep(w)
  PROVE  w \in Slots /\ Owes(w)
<1>1. w \in Slots /\ w # "trigger"
  BY WorkerSlots, SlotsAssumption
<1>2. UNCHANGED <<nlpearl, tally, queue>>
  BY DEF BatchStep, ListPending, NextPending, boss, seen
<1>3. WarmStays /\ WarmJobsOnly
  BY <1>2, SameWarm, SameJobs
<1>4. PICK f \in Frame : f = frame[w] /\ ContactFits(w, f)
  BY <1>1, FrameType DEF ContactInv
<1>5. ASSUME NEW g, frame' = [frame EXCEPT ![w] = g], g.job = f.job,
             g.pc \in {"batch.next", "skip"} \/ (g.pc = "sms" /\ ~g.cta)
      PROVE  Keeps(w)
  <2>1. CtaFrame(g)'
    BY <1>5 DEF CtaFrame, ToContact, Resends, Consents
  <2>2. WarmFrame(w, g)'
    BY <1>1, <1>3, <1>4, <1>5 DEF WarmFrame, ContactFits, WarmStays
  <2> QED BY <1>1, <1>5, <2>1, <2>2, MoveFits DEF ContactFits
<1>6. CASE ListPending(w)
  <2>1. PICK l : frame' = [frame EXCEPT ![w].pc = "batch.next", ![w].list = l]
    BY <1>6 DEF ListPending
  <2>2. PICK g : g = [f EXCEPT !.pc = "batch.next", !.list = l]
    OBVIOUS
  <2>3. frame' = [frame EXCEPT ![w] = g]
    BY <1>1, <1>4, <2>1, <2>2 DEF TypeInv, TypeOK, Frame
  <2>4. g.pc = "batch.next" /\ g.job = f.job
    BY <2>2 DEF Frame
  <2> QED BY <1>1, <1>2, <1>3, <1>5, <2>3, <2>4 DEF Owes
<1>7. CASE NextPending(w)
  <2>1. ASSUME NEW x \in frame[w].list, frame' = [frame EXCEPT ![w] = UnlessCta(TakingUp(@, x), "sms")]
        PROVE  Keeps(w)
    <3>1. PICK g : g = UnlessCta(TakingUp(f, x), "sms")
      OBVIOUS
    <3>2. frame' = [frame EXCEPT ![w] = g]
      BY <1>4, <2>1, <3>1
    <3>3. g.job = f.job /\ (g.pc = "skip" \/ (g.pc = "sms" /\ ~g.cta))
      BY <3>1 DEF UnlessCta, TakingUp, Frame
    <3> QED BY <1>5, <3>2, <3>3
  <2> QED BY <1>1, <1>2, <1>3, <1>7, <2>1, ReturnFits DEF NextPending, Owes
<1> QED BY <1>1, <1>2, <1>3, <1>6, <1>7 DEF BatchStep, Owes

\* The call worker calls for the record of its job.
LEMMA TriggerOwes ==
  ASSUME TypeInv, RecordInv, ContactInv, NEW s \in Slots, TriggerStep(s)
  PROVE  Owes(s)
<1> USE DEF Owes
<1>1. s = "trigger" /\ UNCHANGED tally
  BY DEF TriggerStep, ReadTriggerConfig, MakeCall, RecordCall, At, RecordInv, Fits, AtTrigger, seen
<1>2. PICK f \in Frame : f = frame[s] /\ ContactFits(s, f)
  BY FrameType DEF ContactInv
<1>3. WarmStays /\ Warm(f.id)
  BY <1>1, <1>2, SameWarm DEF ContactFits, WarmFrame
<1>4. PICK pc \in {"bump", "fail"} : pc = AfterTriggerFailure(s)
  BY DEF AfterTriggerFailure
<1>5. pc \in Pcs /\ pc \in TriggerPcs /\ pc \notin {"presms", "enqueue"} \cup Guarded
  BY DEF Pcs, TriggerPcs, Guarded, ToContact, Resends, Consents
<1>6. CASE ReadTriggerConfig(s)
  <2>1. UNCHANGED nlpearl
    BY <1>6 DEF ReadTriggerConfig
  <2>2. CASE Throw(s)
    BY <1>3, <2>1, <2>2, ReturnFits, RedeliverWarm DEF Throw
  <2>3. ASSUME NEW c, frame' = [frame EXCEPT ![s].conf = c, ![s].pc = "trig.call"]
        PROVE  Keeps(s)
    <3>1. PICK g : g = [f EXCEPT !.conf = c, !.pc = "trig.call"]
      OBVIOUS
    <3>2. frame' = [frame EXCEPT ![s] = g]
      BY <1>2, <2>3, <3>1 DEF Frame, TypeInv, TypeOK
    <3>3. g.pc = "trig.call" /\ Alike(f, g)
      BY <3>1 DEF Frame, Alike
    <3>4. g.op = "resend" \/ ~g.cta
      BY <1>2, <1>6, <3>3 DEF ContactFits, CtaFrame, ReadTriggerConfig, At, ToContact, Alike
    <3> QED BY <1>2, <1>3, <3>2, <3>3, <3>4, StepFits DEF Resends, Consents, TriggerPcs
  <2> QED BY <1>3, <1>6, <2>1, <2>2, <2>3, SameJobs DEF ReadTriggerConfig
<1>7. CASE MakeCall(s)
  <2>1. UNCHANGED queue
    BY <1>7 DEF MakeCall, boss
  <2>2. Keeps(s)
    <3>1. CASE Goto(s, AfterTriggerFailure(s))
      BY <1>3, <1>4, <1>5, <3>1, GotoFits
    <3>2. ASSUME NEW n, frame' = [frame EXCEPT ![s].call = n, ![s].pc = "trig.record"]
          PROVE  Keeps(s)
      <4>1. PICK g : g = [f EXCEPT !.call = n, !.pc = "trig.record"]
        OBVIOUS
      <4>2. frame' = [frame EXCEPT ![s] = g]
        BY <1>2, <3>2, <4>1 DEF Frame, TypeInv, TypeOK
      <4>3. g.pc = "trig.record" /\ Alike(f, g)
        BY <4>1 DEF Frame, Alike
      <4> QED BY <1>2, <1>3, <4>2, <4>3, StepFits DEF ToContact, Resends, Consents, TriggerPcs
    <3> QED BY <1>7, <3>1, <3>2 DEF MakeCall
  <2>3. CASE PlaceCall(s)
    <3> DEFINE c == [run |-> f.id, phone |-> f.key.phone, outcome |-> Null]
    <3>1. nlpearl' = Append(nlpearl, c) /\ nlpearl \in Seq(PlacedCall) /\ c.run = f.id
      BY <1>2, <2>3 DEF PlaceCall, Rec, TypeInv, TypeOK
    <3>2. f.key \in Keys /\ f.id \in Ids
      BY <1>2, <1>7, FrameType DEF MakeCall, At, Known, NeedsKey, NeedsId
    <3>3. c \in PlacedCall
      BY <3>2, KeysAssumption DEF PlacedCall
    <3> HIDE DEF c
    <3>4. ASSUME NEW n \in DOMAIN nlpearl'
          PROVE  nlpearl'[n].run \in Ids => tally'[nlpearl'[n].run].sent > 0
      <4>1. DOMAIN nlpearl = 1 .. Len(nlpearl) /\ DOMAIN nlpearl' = 1 .. Len(nlpearl) + 1
        BY <3>1, <3>3
      <4>2. CASE n = Len(nlpearl) + 1
        <5>1. nlpearl'[n] = c
          BY <3>1, <3>3, <4>2
        <5> QED BY <1>1, <1>3, <3>1, <5>1 DEF Warm
      <4>3. CASE n # Len(nlpearl) + 1
        <5>1. n \in DOMAIN nlpearl /\ nlpearl'[n] = nlpearl[n]
          BY <3>1, <3>3, <4>1, <4>3
        <5> QED BY <1>1, <5>1 DEF ContactInv, PlacedWarm, Warm
      <4> QED BY <4>2, <4>3
    <3>5. PlacedWarm'
      BY <3>4 DEF PlacedWarm, Warm
    <3> QED BY <1>3, <2>1, <2>2, <3>5, SameJobs
  <2> QED BY <1>3, <1>7, <2>1, <2>2, <2>3, SameJobs DEF MakeCall
<1>8. CASE RecordCall(s)
  <2>1. UNCHANGED <<queue, nlpearl>>
    BY <1>8 DEF RecordCall, boss
  <2> QED BY <1>3, <1>4, <1>5, <1>8, <2>1, GotoFits, ReturnFits, SameJobs DEF RecordCall
<1> QED BY <1>6, <1>7, <1>8 DEF TriggerStep

\* Ingest asks about the record as it has written it.
LEMMA IngestOwes ==
  ASSUME TypeInv, ContactInv, NEW s \in Slots, IngestStep(s)
  PROVE  Owes(s)
<1>1. UNCHANGED <<queue, nlpearl, tally>>
  BY DEF IngestStep, ReadIngestConfig, WriteRecord, WriteCta, boss, seen
<1>2. PICK f \in Frame : f = frame[s] /\ ContactFits(s, f)
  BY FrameType DEF ContactInv
<1>3. WarmStays /\ WarmJobsOnly
  BY <1>1, SameWarm, SameJobs
<1>4. s # "trigger"
  BY <1>2 DEF IngestStep, ReadIngestConfig, WriteRecord, WriteCta, At, ContactFits, WarmFrame, TriggerPcs
<1>5. ASSUME NEW c, frame' = [frame EXCEPT ![s].conf = c, ![s].pc = "ing.write"]
      PROVE  Keeps(s)
  <2>1. PICK g : g = [f EXCEPT !.conf = c, !.pc = "ing.write"]
    OBVIOUS
  <2>2. frame' = [frame EXCEPT ![s] = g]
    BY <1>2, <1>5, <2>1 DEF Frame, TypeInv, TypeOK
  <2>3. g.pc = "ing.write" /\ Alike(f, g)
    BY <2>1 DEF Frame, Alike
  <2> QED BY <1>2, <1>3, <1>4, <2>2, <2>3, StepFits DEF ToContact, Resends, Consents
<1>6. ASSUME NEW i, AfterIngest(s, i)
      PROVE  Keeps(s)
  <2>1. PICK b : b = runs'[i].cta
    OBVIOUS
  <2>2. PICK g : g = UnlessCta([f EXCEPT !.id = i, !.cta = b], "sms")
    OBVIOUS
  <2>3. g.job = f.job /\ (g.pc = "skip" \/ (g.pc = "sms" /\ ~g.cta))
    BY <2>2 DEF UnlessCta, Frame
  <2>4. CASE frame' = [frame EXCEPT ![s] = g]
    <3>1. WarmFrame(s, g)' /\ CtaFrame(g)'
      BY <1>2, <1>3, <1>4, <2>3
         DEF WarmFrame, ContactFits, WarmStays, CtaFrame, ToContact, Resends, Consents
    <3> QED BY <2>4, <3>1, MoveFits DEF ContactFits
  <2>5. CASE Return(s)
    BY <2>5, ReturnFits
  <2> QED BY <1>2, <1>6, <2>1, <2>2, <2>4, <2>5 DEF AfterIngest, Return
<1> QED BY <1>1, <1>3, <1>5, <1>6, ReturnFits
        DEF Owes, IngestStep, ReadIngestConfig, WriteRecord, WriteCta

\* The webhooks contact nobody but by a retry and by the consent text.
LEMMA WebhookOwes ==
  ASSUME TypeInv, ContactInv, NEW s \in Slots, WebhookStep(s)
  PROVE  Owes(s)
<1>1. UNCHANGED <<queue, nlpearl, tally>>
  BY DEF WebhookStep, ReadConsentConfig, SendConsentSms, RecordConsent, FindPendingCall, RecordCallEnd,
         DecideRetry, RecordCompleted, boss, seen
<1>2. PICK f \in Frame : f = frame[s] /\ ContactFits(s, f)
  BY FrameType DEF ContactInv
<1>3. WarmStays /\ WarmJobsOnly
  BY <1>1, SameWarm, SameJobs
<1>4. s # "trigger"
  BY <1>2 DEF WebhookStep, ReadConsentConfig, SendConsentSms, RecordConsent, FindPendingCall,
              RecordCallEnd, DecideRetry, RecordCompleted, At, ContactFits, WarmFrame, TriggerPcs
<1>5. {"con.write", "end.row", "end.config", "bump", "end.done"}
        \subseteq Pcs \ ({"presms", "enqueue"} \cup Guarded)
  BY DEF Pcs, Guarded, ToContact, Resends, Consents
<1>6. ASSUME NEW pc \in {"con.write", "end.row", "end.config", "bump", "end.done"}, Goto(s, pc)
      PROVE  Keeps(s)
  BY <1>3, <1>4, <1>5, <1>6, GotoFits
<1>7. ASSUME NEW m, frame' = [frame EXCEPT ![s].row = m, ![s].pc = "end.row"]
      PROVE  Keeps(s)
  <2>1. PICK g : g = [f EXCEPT !.row = m, !.pc = "end.row"]
    OBVIOUS
  <2>2. frame' = [frame EXCEPT ![s] = g]
    BY <1>2, <1>7, <2>1 DEF Frame, TypeInv, TypeOK
  <2>3. g.pc = "end.row" /\ Alike(f, g)
    BY <2>1 DEF Frame, Alike
  <2> QED BY <1>2, <1>3, <1>4, <2>2, <2>3, StepFits DEF ToContact, Resends, Consents
<1>8. Keeps(s)
  <2>1. CASE SendConsentSms(s) \/ RecordConsent(s)
    BY <1>6, <2>1, ReturnFits DEF SendConsentSms, RecordConsent
  <2>2. CASE FindPendingCall(s)
    BY <1>6, <1>7, <2>2, ReturnFits DEF FindPendingCall
  <2>3. CASE RecordCallEnd(s) \/ DecideRetry(s) \/ RecordCompleted(s)
    BY <1>6, <2>3, ReturnFits DEF RecordCallEnd, DecideRetry, RecordCompleted
  <2>4. CASE ReadConsentConfig(s)
    <3>1. CASE Goto(s, "con.sms")
      <4>1. PICK g : g = [f EXCEPT !.pc = "con.sms"]
        OBVIOUS
      <4>2. frame' = [frame EXCEPT ![s] = g]
        BY <1>2, <3>1, <4>1 DEF Goto
      <4>3. g.pc = "con.sms" /\ Alike(f, g)
        BY <4>1 DEF Frame, Alike
      <4>4. g.op = "consent"
        BY <1>2, <2>4, <4>3 DEF ContactFits, CtaFrame, ReadConsentConfig, At, Consents, Alike
      <4> QED BY <1>2, <1>3, <1>4, <4>2, <4>3, <4>4, StepFits DEF ToContact, Resends
    <3> QED BY <2>4, <3>1, ReturnFits DEF ReadConsentConfig
  <2> QED BY <2>1, <2>2, <2>3, <2>4 DEF WebhookStep
<1> QED BY <1>1, <1>3, <1>8 DEF Owes

\* Resend need not ask.
LEMMA AdminOwes ==
  ASSUME TypeInv, ContactInv, NEW s \in Slots, AdminStep(s)
  PROVE  Owes(s)
<1>1. UNCHANGED <<queue, nlpearl>>
  BY DEF AdminStep, ReadResendConfig, ResendNow, DeleteRecord, WriteConfig, boss, seen
<1>2. PICK f \in Frame : f = frame[s] /\ ContactFits(s, f)
  BY FrameType DEF ContactInv
<1>3. WarmStays /\ WarmJobsOnly
  <2>1. UNCHANGED tally \/ Count(Rec(s), "resent")
    BY DEF AdminStep, ReadResendConfig, ResendNow, DeleteRecord, WriteConfig, seen
  <2> QED BY <1>1, <2>1, CountWarm, SameWarm, SameJobs
<1>4. s # "trigger"
  BY <1>2 DEF AdminStep, ReadResendConfig, ResendNow, DeleteRecord, WriteConfig, At, ContactFits,
              WarmFrame, TriggerPcs
<1>5. CASE ReadResendConfig(s)
  <2>1. ASSUME NEW c, frame' = [frame EXCEPT ![s].conf = c, ![s].pc = "resend.bump"]
        PROVE  Keeps(s)
    <3>1. PICK g : g = [f EXCEPT !.conf = c, !.pc = "resend.bump"]
      OBVIOUS
    <3>2. frame' = [frame EXCEPT ![s] = g]
      BY <1>2, <2>1, <3>1 DEF Frame, TypeInv, TypeOK
    <3>3. g.pc = "resend.bump" /\ Alike(f, g)
      BY <3>1 DEF Frame, Alike
    <3>4. g.op = "resend"
      BY <1>2, <1>5, <3>3 DEF ContactFits, CtaFrame, ReadResendConfig, At, Resends, Alike
    <3> QED BY <1>2, <1>3, <1>4, <3>2, <3>3, <3>4, StepFits DEF Consents
  <2> QED BY <1>1, <1>3, <1>5, <2>1, ReturnFits DEF Owes, ReadResendConfig
<1>6. CASE ResendNow(s)
  <2>1. CASE Goto(s, "sms")
    <3>1. PICK g : g = [f EXCEPT !.pc = "sms"]
      OBVIOUS
    <3>2. frame' = [frame EXCEPT ![s] = g]
      BY <1>2, <2>1, <3>1 DEF Goto
    <3>3. g.pc = "sms" /\ Alike(f, g)
      BY <3>1 DEF Frame, Alike
    <3>4. g.op = "resend"
      BY <1>2, <1>6, <3>3 DEF ContactFits, CtaFrame, ResendNow, At, Resends, Alike
    <3> QED BY <1>1, <1>2, <1>3, <1>4, <3>2, <3>3, <3>4, StepFits DEF Owes, Consents
  <2> QED BY <1>1, <1>3, <1>6, <2>1, ReturnFits DEF Owes, ResendNow
<1>7. CASE DeleteRecord(s) \/ WriteConfig(s)
  <2>1. "conf.sync" \in Pcs \ ({"presms", "enqueue"} \cup Guarded)
    BY DEF Pcs, Guarded, ToContact, Resends, Consents
  <2> QED BY <1>1, <1>3, <1>4, <1>7, <2>1, GotoFits, ReturnFits DEF Owes, DeleteRecord, WriteConfig
<1> QED BY <1>5, <1>6, <1>7 DEF AdminStep

\* A worker takes a job up: a call job is for a record with a text.
LEMMA FetchOwes ==
  ASSUME TypeInv, ContactInv, NEW j \in Jobs, FetchStep(j)
  PROVE  ContactInv'
<1>1. UNCHANGED <<nlpearl, tally>> /\ WarmStays
  BY SameWarm DEF FetchStep, FetchTrigger, FetchRetry, FetchDispatch, seen
<1>2. queue' = [queue EXCEPT ![j] = @ - 1] /\ queue[j] > 0 /\ queue \in [Jobs -> Nat]
  BY DEF FetchStep, FetchTrigger, FetchRetry, FetchDispatch, Fetch, Fetchable, TypeInv, TypeOK
<1>3. j.on = "trigger" => Warm(j.id)
  BY <1>2 DEF ContactInv, JobsWarm
<1>4. JobsWarm'
  <2>1. \A k \in Jobs : queue'[k] # 0 => queue[k] # 0
    BY <1>2
  <2> QED BY <1>1, <2>1 DEF ContactInv, JobsWarm, WarmStays
<1>5. PlacedWarm'
  BY <1>1 DEF ContactInv, PlacedWarm, Warm
<1>6. ASSUME NEW s \in Slots, frame'[s] = frame[s]
      PROVE  ContactFits(s, frame[s])'
  BY <1>1, <1>6 DEF ContactInv, ContactFits, WarmFrame, CtaFrame, Warm
<1>7. ASSUME NEW s \in Slots, Keeps(s)
      PROVE  ContactInv'
  BY <1>4, <1>5, <1>6, <1>7 DEF ContactInv, Keeps, Only
<1>8. CASE UNCHANGED frame
  BY <1>4, <1>5, <1>6, <1>8 DEF ContactInv
<1>9. /\ "trigger" \in Slots /\ "retry" \in Slots /\ Flows \subseteq Slots
      /\ "trigger" \notin Flows
  BY WorkerSlots, SlotsAssumption
<1>10. CASE FetchTrigger(j) /\ frame' # frame
  <2>1. PICK f \in Frame : f = frame["trigger"]
    BY <1>9, FrameType
  <2>2. j.on = "trigger" /\ Exists(j.id)
    BY <1>10 DEF FetchTrigger, Fetch
  <2>3. PICK i : i = j.id
    OBVIOUS
  <2>4. PICK h : h = Reading([f EXCEPT !.op = "trigger", !.job = j], i)
    OBVIOUS
  <2>5. h.job = j /\ h.id = i /\ h.op = "trigger"
    BY <2>4 DEF Reading, Frame
  <2>6. PICK g : g = UnlessCta(h, "trig.config")
    OBVIOUS
  <2>7. /\ g.job = j /\ g.id = i
        /\ g.pc = "skip" \/ (g.pc = "trig.config" /\ ~g.cta)
    BY <2>1, <2>4, <2>5, <2>6 DEF UnlessCta, Reading, Frame
  <2>8. frame' = [frame EXCEPT !["trigger"] = g]
    BY <1>10, <2>1, <2>3, <2>4, <2>6 DEF FetchTrigger
  <2>9. WarmFrame("trigger", g)' /\ CtaFrame(g)'
    BY <1>1, <1>3, <2>2, <2>3, <2>7
       DEF WarmFrame, WarmStays, CtaFrame, ToContact, Resends, Consents, TriggerPcs
  <2> QED BY <1>7, <1>9, <2>8, <2>9, MoveFits DEF ContactFits
<1>11. CASE FetchRetry(j) /\ frame' # frame
  <2>1. PICK f \in Frame : f = frame["retry"]
    BY <1>9, FrameType
  <2>2. j.on = "retry"
    BY <1>11 DEF FetchRetry, Fetch
  <2>3. PICK h : h = Reading([f EXCEPT !.op = "retry", !.job = j], j.id)
    OBVIOUS
  <2>4. PICK g : g = UnlessCta(h, "retry.config")
    OBVIOUS
  <2>5. /\ g.job = j
        /\ g.pc = "skip" \/ (g.pc = "retry.config" /\ ~g.cta)
    BY <2>1, <2>3, <2>4 DEF UnlessCta, Reading, Frame
  <2>6. frame' = [frame EXCEPT !["retry"] = g]
    BY <1>11, <2>1, <2>3, <2>4 DEF FetchRetry
  <2>7. WarmFrame("retry", g)' /\ CtaFrame(g)'
    BY <2>2, <2>5 DEF WarmFrame, CtaFrame, ToContact, Resends, Consents
  <2> QED BY <1>7, <1>9, <2>6, <2>7, MoveFits DEF ContactFits
<1>12. CASE (\E w \in Flows : FetchDispatch(w, j)) /\ frame' # frame
  <2>1. PICK w \in Flows : FetchDispatch(w, j)
    BY <1>12
  <2>2. w \in Slots /\ w # "trigger" /\ j.on = w
    BY <1>9, <2>1 DEF FetchDispatch, Fetch
  <2>3. PICK f \in Frame : f = frame[w]
    BY <2>2, FrameType
  <2>4. PICK c : c = config[w]
    OBVIOUS
  <2>5. PICK g : g = [f EXCEPT !.op = "dispatch", !.job = j, !.conf = c, !.pc = "batch.list"]
    OBVIOUS
  <2>6. g.job = j /\ g.pc = "batch.list"
    BY <2>5 DEF Frame
  <2>7. frame' = [frame EXCEPT ![w] = g]
    BY <1>12, <2>1, <2>3, <2>4, <2>5 DEF FetchDispatch
  <2>8. WarmFrame(w, g)' /\ CtaFrame(g)'
    BY <2>2, <2>6 DEF WarmFrame, CtaFrame, ToContact, Resends, Consents
  <2> QED BY <1>7, <2>2, <2>7, <2>8, MoveFits DEF ContactFits
<1> QED BY <1>8, <1>10, <1>11, <1>12 DEF FetchStep

\* A request comes in: it has nothing to contact with yet.
LEMMA RequestOwes ==
  ASSUME TypeInv, ContactInv, NEW s \in HttpSlots, Request(s)
  PROVE  s \in Slots /\ Owes(s)
<1>1. s \in Slots /\ s # "trigger"
  BY WorkerSlots, SlotsAssumption
<1>2. UNCHANGED <<queue, nlpearl, tally>>
  <2>1. UNCHANGED <<nlpearl, tally>>
    BY RequestKeeps
  <2>2. UNCHANGED queue
    BY DEF Request, FlowTrigger, CtaComplete, Consent, CallEnded, Resend, Remove, CreateConfig,
           UpdateConfig, RemoveConfig, boss
  <2> QED BY <2>1, <2>2
<1>3. WarmStays /\ WarmJobsOnly
  BY <1>2, SameWarm, SameJobs
<1>4. PICK f \in Frame : f = frame[s] /\ ContactFits(s, f)
  BY <1>1, FrameType DEF ContactInv
<1>5. ASSUME NEW g, frame' = [frame EXCEPT ![s] = g], g.job = f.job,
             \/ g.pc \in {"ing.config", "cta.write", "end.get", "delete",
                          "conf.sync", "conf.write", "conf.delete"}
             \/ g.pc = "resend.config" /\ g.op = "resend"
             \/ g.pc = "con.config" /\ g.op = "consent"
      PROVE  Keeps(s)
  <2>1. WarmFrame(s, g)' /\ CtaFrame(g)'
    BY <1>1, <1>3, <1>4, <1>5 DEF WarmFrame, ContactFits, WarmStays, CtaFrame, ToContact, Resends, Consents
  <2> QED BY <1>1, <1>5, <2>1, MoveFits DEF ContactFits
<1>6. ASSUME NEW k \in Keys, NEW r \in Requests, FlowTrigger(s, k, r)
      PROVE  Keeps(s)
  <2>1. ASSUME NEW i, frame' = [frame EXCEPT ![s] = [Reading([@ EXCEPT !.op = "flowTrigger", !.req = r], i)
                                                     EXCEPT !.pc = "ing.config"]]
        PROVE  Keeps(s)
    <3>1. PICK g : g = [Reading([f EXCEPT !.op = "flowTrigger", !.req = r], i) EXCEPT !.pc = "ing.config"]
      OBVIOUS
    <3>2. g.pc = "ing.config" /\ g.job = f.job
      BY <3>1 DEF Reading, Frame
    <3> QED BY <1>4, <1>5, <2>1, <3>1, <3>2
  <2>2. CASE frame' = [frame EXCEPT ![s] = [@ EXCEPT !.op = "flowTrigger", !.pc = "ing.config",
                                                     !.key = k, !.req = r]]
    <3>1. PICK g : g = [f EXCEPT !.op = "flowTrigger", !.pc = "ing.config", !.key = k, !.req = r]
      OBVIOUS
    <3>2. g.pc = "ing.config" /\ g.job = f.job
      BY <3>1 DEF Frame
    <3> QED BY <1>4, <1>5, <2>2, <3>1, <3>2
  <2> QED BY <1>6, <2>1, <2>2 DEF FlowTrigger
<1>7. ASSUME NEW k \in Keys, NEW done \in BOOLEAN, CtaComplete(s, k, done)
      PROVE  Keeps(s)
  <2>1. PICK i : frame' = [frame EXCEPT ![s].op = "ctaComplete", ![s].pc = "cta.write",
                                       ![s].id = i, ![s].cta = done]
    BY <1>7 DEF CtaComplete
  <2>2. PICK g : g = [f EXCEPT !.op = "ctaComplete", !.pc = "cta.write", !.id = i, !.cta = done]
    OBVIOUS
  <2>3. g.pc = "cta.write" /\ g.job = f.job
    BY <2>2 DEF Frame
  <2>4. frame' = [frame EXCEPT ![s] = g]
    BY <1>1, <1>4, <2>1, <2>2 DEF TypeInv, TypeOK, Frame
  <2> QED BY <1>5, <2>3, <2>4
<1>8. ASSUME NEW k \in Keys, Consent(s, k)
      PROVE  Keeps(s)
  <2>1. PICK i : frame' = [frame EXCEPT ![s] = [Reading([@ EXCEPT !.op = "consent"], i)
                                                EXCEPT !.pc = "con.config"]]
    BY <1>8 DEF Consent
  <2>2. PICK g : g = [Reading([f EXCEPT !.op = "consent"], i) EXCEPT !.pc = "con.config"]
    OBVIOUS
  <2>3. g.pc = "con.config" /\ g.op = "consent" /\ g.job = f.job
    BY <2>2 DEF Reading, Frame
  <2> QED BY <1>4, <1>5, <2>1, <2>2, <2>3
<1>9. ASSUME NEW n \in DOMAIN nlpearl, CallEnded(s, n)
      PROVE  Keeps(s)
  <2>1. PICK i : frame' = [frame EXCEPT ![s] = [Reading([@ EXCEPT !.op = "callEnded"], i)
                                                EXCEPT !.pc = "end.get", !.call = n]]
    BY <1>9 DEF CallEnded
  <2>2. PICK g : g = [Reading([f EXCEPT !.op = "callEnded"], i) EXCEPT !.pc = "end.get", !.call = n]
    OBVIOUS
  <2>3. g.pc = "end.get" /\ g.job = f.job
    BY <2>2 DEF Reading, Frame
  <2> QED BY <1>4, <1>5, <2>1, <2>2, <2>3
<1>10. ASSUME NEW i \in Ids, Resend(s, i)
       PROVE  Keeps(s)
  <2>1. PICK g : g = [Reading([f EXCEPT !.op = "resend"], i) EXCEPT !.pc = "resend.config"]
    OBVIOUS
  <2>2. g.pc = "resend.config" /\ g.op = "resend" /\ g.job = f.job
    BY <2>1 DEF Reading, Frame
  <2>3. frame' = [frame EXCEPT ![s] = g]
    BY <1>4, <1>10, <2>1 DEF Resend
  <2> QED BY <1>5, <2>2, <2>3
<1>11. ASSUME NEW i \in Ids, Remove(s, i)
       PROVE  Keeps(s)
  <2>1. PICK g : g = [f EXCEPT !.op = "remove", !.pc = "delete", !.id = i]
    OBVIOUS
  <2>2. g.pc = "delete" /\ g.job = f.job
    BY <2>1 DEF Frame
  <2>3. frame' = [frame EXCEPT ![s] = g]
    BY <1>1, <1>4, <1>11, <2>1 DEF Remove, TypeInv, TypeOK, Frame
  <2> QED BY <1>5, <2>2, <2>3
<1>12. ASSUME NEW w \in Flows, RemoveConfig(s, w)
       PROVE  Keeps(s)
  <2>1. PICK g : g = [f EXCEPT !.op = "config", !.pc = "conf.delete", !.flow = w]
    OBVIOUS
  <2>2. g.pc = "conf.delete" /\ g.job = f.job
    BY <2>1 DEF Frame
  <2>3. frame' = [frame EXCEPT ![s] = g]
    BY <1>1, <1>4, <1>12, <2>1 DEF RemoveConfig, TypeInv, TypeOK, Frame
  <2> QED BY <1>5, <2>2, <2>3
<1>13. ASSUME NEW w \in Flows, NEW c \in Configs, CreateConfig(s, w, c) \/ UpdateConfig(s, w, c)
       PROVE  Keeps(s)
  <2>1. PICK pc \in {"conf.sync", "conf.write"} :
          frame' = [frame EXCEPT ![s].op = "config", ![s].pc = pc, ![s].flow = w, ![s].conf = c]
    BY <1>13 DEF CreateConfig, UpdateConfig
  <2>2. PICK g : g = [f EXCEPT !.op = "config", !.pc = pc, !.flow = w, !.conf = c]
    OBVIOUS
  <2>3. g.pc = pc /\ g.job = f.job
    BY <2>2 DEF Frame
  <2>4. frame' = [frame EXCEPT ![s] = g]
    BY <1>1, <1>4, <2>1, <2>2 DEF TypeInv, TypeOK, Frame
  <2> QED BY <1>5, <2>1, <2>3, <2>4
<1>14. Keeps(s)
  BY <1>6, <1>7, <1>8, <1>9, <1>10, <1>11, <1>12, <1>13 DEF Request
<1> QED BY <1>1, <1>2, <1>3, <1>14 DEF Owes

----------------------------------------------------------------------------
(* The theorems.                                                           *)

\* What a step of one slot owes is enough.
LEMMA OwesEnough ==
  ASSUME TypeInv, ContactInv, NEW s \in Slots, Owes(s)
  PROVE  ContactInv'
<1>1. ASSUME NEW t \in Slots, t # s
      PROVE  ContactFits(t, frame[t])'
  <2>1. PICK f \in Frame : f = frame[t] /\ f = frame'[t] /\ ContactFits(t, f)
    BY <1>1, FrameType DEF ContactInv, Owes, Keeps, Only
  <2>2. ContactFits(t, f)'
    BY <2>1 DEF ContactFits, WarmFrame, CtaFrame, Owes, WarmStays
  <2> QED BY <2>1, <2>2 DEF ContactFits, WarmFrame, CtaFrame, Warm
<1>2. JobsWarm'
  BY DEF ContactInv, JobsWarm, Owes, WarmJobsOnly, WarmStays
<1>3. PlacedWarm'
  <2>1. CASE UNCHANGED nlpearl
    <3>1. ASSUME NEW n \in DOMAIN nlpearl
          PROVE  nlpearl[n].run \in Ids => tally'[nlpearl[n].run].sent > 0
      <4>1. PICK i : i = nlpearl[n].run
        OBVIOUS
      <4> QED BY <4>1 DEF ContactInv, PlacedWarm, Owes, WarmStays, Warm
    <3> QED BY <2>1, <3>1 DEF PlacedWarm, Warm
  <2> QED BY <2>1 DEF Owes
<1> QED BY <1>1, <1>2, <1>3 DEF ContactInv, Owes, Keeps

\* Every step keeps it.
LEMMA NextContactInv == TypeInv /\ RecordInv /\ ContactInv /\ [Next]_vars => ContactInv'
<1> SUFFICES ASSUME TypeInv, RecordInv, ContactInv, [Next]_vars
             PROVE  ContactInv'
  OBVIOUS
<1>1. CASE \E s \in Slots : HandlerStep(s)
  BY <1>1, DispatchOwes, TriggerOwes, IngestOwes, WebhookOwes, AdminOwes, OwesEnough DEF HandlerStep
<1>2. CASE \E w \in Flows : BatchStep(w)
  BY <1>2, BatchOwes, OwesEnough
<1>3. CASE \E j \in Jobs : FetchStep(j)
  BY <1>3, FetchOwes
<1>4. CASE \E s \in HttpSlots : Request(s)
  BY <1>4, RequestOwes, OwesEnough
<1>5. ASSUME UNCHANGED <<frame, tally>>, JobsWarm', PlacedWarm'
      PROVE  ContactInv'
  BY <1>5 DEF ContactInv, ContactFits, WarmFrame, CtaFrame, Warm
<1>6. ASSUME UNCHANGED <<nlpearl, tally>>
      PROVE  PlacedWarm'
  BY <1>6 DEF ContactInv, PlacedWarm, Warm
<1>7. CASE \E w \in Flows : CronTick(w)
  <2>1. PICK w \in Flows : CronTick(w)
    BY <1>7
  <2>2. UNCHANGED <<frame, nlpearl, tally>> /\ Enqueue(NewJob(w, 0)) /\ w # "trigger"
    BY <2>1, SlotsAssumption DEF CronTick, seen
  <2>3. WarmJobsOnly /\ WarmStays
    BY <2>2, EnqueueWarm, SameWarm
  <2>4. JobsWarm'
    BY <2>3 DEF ContactInv, JobsWarm, WarmJobsOnly, WarmStays
  <2> QED BY <1>5, <1>6, <2>2, <2>4
<1>8. CASE \E n \in DOMAIN nlpearl : CallFinishes(n)
  <2>1. PICK n \in DOMAIN nlpearl : CallFinishes(n)
    BY <1>8
  <2>2. UNCHANGED <<frame, tally, queue>>
    BY <2>1 DEF CallFinishes, seen, boss
  <2>3. PICK o \in Outcomes : nlpearl' = [nlpearl EXCEPT ![n] = [nlpearl[n] EXCEPT !.outcome = o]]
    BY <2>1 DEF CallFinishes
  <2>4. nlpearl \in Seq(PlacedCall) /\ nlpearl[n] \in PlacedCall
    BY DEF TypeInv, TypeOK
  <2>5. [nlpearl[n] EXCEPT !.outcome = o].run = nlpearl[n].run
    BY <2>4 DEF PlacedCall
  <2>6. /\ DOMAIN nlpearl' = DOMAIN nlpearl
        /\ \A m \in DOMAIN nlpearl : nlpearl'[m].run = nlpearl[m].run
    BY <2>3, <2>4, <2>5
  <2>7. PlacedWarm'
    BY <2>2, <2>6 DEF ContactInv, PlacedWarm, Warm
  <2>8. JobsWarm'
    BY <2>2 DEF ContactInv, JobsWarm, Warm
  <2> QED BY <1>5, <2>2, <2>7, <2>8
<1>9. CASE Restart
  <2>1. UNCHANGED <<nlpearl, tally>> /\ \A s \in Slots : frame'[s] = Idle
    BY <1>9 DEF Restart, seen
  <2>2. \A s \in Slots : ContactFits(s, frame[s])'
    BY <2>1, BoundsAssumption
       DEF ContactFits, WarmFrame, CtaFrame, Idle, TriggerPcs, ToContact, Resends, Consents, Warm, Ids
  <2>3. ASSUME NEW j \in Jobs, j.on = "trigger", queue'[j] # 0
        PROVE  Warm(j.id)
    <3>1. PICK f \in Frame : f = frame["trigger"] /\ ContactFits("trigger", f)
      BY WorkerSlots, FrameType DEF ContactInv
    <3>2. \/ queue'[j] = queue[j]
          \/ f.job # Null /\ f.job.id = j.id
      BY <1>9, <2>3, <3>1 DEF Restart
    <3> QED BY <2>3, <3>1, <3>2 DEF ContactFits, WarmFrame, ContactInv, JobsWarm
  <2>4. JobsWarm'
    BY <2>1, <2>3 DEF JobsWarm, Warm
  <2> QED BY <1>6, <2>1, <2>2, <2>4 DEF ContactInv
<1>10. CASE UNCHANGED vars
  <2>1. UNCHANGED <<frame, tally, queue, nlpearl>>
    BY <1>10 DEF vars
  <2>2. JobsWarm'
    BY <2>1 DEF ContactInv, JobsWarm, Warm
  <2> QED BY <1>5, <1>6, <2>1, <2>2
<1> QED BY <1>1, <1>2, <1>3, <1>4, <1>7, <1>8, <1>9, <1>10 DEF Next, Quiescent

\* At the start nothing is in flight, queued or placed.
LEMMA InitContactInv == Init => ContactInv
<1> SUFFICES ASSUME Init PROVE ContactInv
  OBVIOUS
<1>1. \A s \in Slots : ContactFits(s, frame[s])
  BY BoundsAssumption
     DEF Init, ContactFits, WarmFrame, CtaFrame, Idle, TriggerPcs, ToContact, Resends, Consents, Warm, Ids
<1>2. JobsWarm /\ PlacedWarm
  BY DEF Init, JobsWarm, PlacedWarm
<1> QED BY <1>1, <1>2 DEF ContactInv

\* What every handler has learned is so in every reachable state.
LEMMA ContactInvariance == Spec => []ContactInv
<1>1. TypeInv /\ RecordInv /\ ContactInv /\ [Next]_vars => ContactInv'
  BY NextContactInv
<1> QED BY <1>1, InitContactInv, RecordInvariance, PTL DEF Spec

\* Nobody is called, or about to be called, without a text before, whatever
\* fails, is redelivered or restarts (dispatchOne, CallTriggerWorker).
THEOREM NotCold == Spec => []NoColdCall
<1>1. ContactInv => NoColdCall
  <2> SUFFICES ASSUME ContactInv, NEW i \in Ids, ~(tally[i].sent > 0)
               PROVE  /\ \A n \in DOMAIN nlpearl : nlpearl[n].run # i
                      /\ \A j \in Jobs : j.on = "trigger" /\ j.id = i => queue[j] = 0
                      /\ frame["trigger"].id # i
    BY DEF NoColdCall
  <2>1. ContactFits("trigger", frame["trigger"])
    BY WorkerSlots DEF ContactInv
  <2> QED BY <2>1 DEF ContactInv, JobsWarm, PlacedWarm, ContactFits, WarmFrame, Warm
<1> QED BY <1>1, ContactInvariance, PTL

\* Whom a handler has read as having completed the CTA it does not text or call,
\* unless it is a Resend or the consent webhook, the two that do not ask: ingest,
\* the retry worker, the batch and the call worker all do (skipIfCtaCompleted).
THEOREM CtaKept == Spec => CtaHonoured
<1>1. ContactInv => \A s \in Slots : Contacts(s) => frame[s].op \in DoNotAsk \/ ~frame[s].cta
  BY DEF ContactInv, ContactFits, CtaFrame, Contacts, At, ToContact, Resends, Consents, DoNotAsk
<1>2. ContactInv /\ [Next]_vars =>
        \A s \in Slots : Contacts(s) /\ frame'[s].pc # frame[s].pc =>
          frame[s].op \in DoNotAsk \/ ~frame[s].cta
  BY <1>1
<1> QED BY <1>2, ContactInvariance, PTL DEF Spec, CtaHonoured

============================================================================
