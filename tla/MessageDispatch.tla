-------------------------- MODULE MessageDispatch --------------------------
(***************************************************************************)
(* MessageDispatchService: the heads-up text and the delayed call job      *)
(* (dispatchOne), its three ways in (the retry worker, the cron-driven     *)
(* batch, and the handlers of other modules that jump to "sms", "skip",    *)
(* "bump"), automatic retries and the cron schedules.                      *)
(***************************************************************************)
EXTENDS OutreachState

\* Where dispatchOne and skipIfCtaCompleted return to: the batch loop goes
\* on with its next record, every other caller is done.
DispatchReturn(s) ==
  IF frame[s].op = "dispatch" THEN Goto(s, "batch.next") ELSE Return(s)

----------------------------------------------------------------------------
(* dispatchOne.                                                            *)

\* Mutant: sms_success = false is taken for success.
SendPreliminarySmsUnchecked(s) ==
  /\ At(s, "sms")
  /\ Goto(s, "presms")
  /\ Count(Rec(s), "sent") \/ UNCHANGED tally
  /\ UNCHANGED <<db, boss, nlpearl, accepted, used>>

\* notificationService.sendSms: delivered, refused, or delivered with the
\* answer lost to the 10 s timeout, which the handler cannot tell from refused.
SendPreliminarySms(s) ==
  /\ At(s, "sms")
  /\ \/ Count(Rec(s), "sent") /\ Goto(s, "presms")
     \/ "smsRefused" \in Faults /\ Goto(s, "fail") /\ UNCHANGED tally
     \/ "smsLost" \in Faults /\ Goto(s, "fail") /\ Count(Rec(s), "sent")
  /\ UNCHANGED <<db, boss, nlpearl, accepted, used>>

\* transition(PreSmsSent), inside the try: a record that is gone throws here
\* and is caught.
RecordPreSmsSent(s) ==
  /\ At(s, "presms")
  /\ \/ Exists(Rec(s)) /\ SetStatus(Rec(s), "PreSmsSent") /\ Goto(s, "enqueue")
     \/ ~Exists(Rec(s)) /\ Goto(s, "fail") /\ UNCHANGED runs
  /\ UNCHANGED <<config, calls, boss, nlpearl, seen, used>>

\* Mutant: the error is logged and the record left as it is.
RecordFailedLogOnly(s) ==
  /\ At(s, "fail")
  /\ DispatchReturn(s)
  /\ UNCHANGED <<db, boss, nlpearl, seen, used>>

\* fail(), outside the try.  Also the end of a call that could not be placed.
RecordFailed(s) ==
  /\ At(s, "fail")
  /\ \/ /\ Exists(Rec(s))
        /\ SetStatus(Rec(s), "Failed")
        /\ DispatchReturn(s)
        /\ UNCHANGED queue
     \/ ~Exists(Rec(s)) /\ Throw(s) /\ UNCHANGED runs
  /\ UNCHANGED <<config, calls, cron, registered, nlpearl, seen, used>>

EnqueueTrigger(s) ==
  /\ At(s, "enqueue")
  /\ Enqueue(NewJob("trigger", Rec(s)))
  /\ Goto(s, "scheduled")
  /\ UNCHANGED <<db, cron, registered, nlpearl, seen, used>>

RecordScheduled(s) ==
  /\ At(s, "scheduled")
  /\ \/ /\ Exists(Rec(s))
        /\ SetStatus(Rec(s), "Scheduled")
        /\ DispatchReturn(s)
        /\ UNCHANGED queue
     \/ ~Exists(Rec(s)) /\ Throw(s) /\ UNCHANGED runs
  /\ UNCHANGED <<config, calls, cron, registered, nlpearl, seen, used>>

\* skipIfCtaCompleted, for a snapshot that has the CTA.
SkipCtaCompleted(s) ==
  /\ At(s, "skip")
  /\ \/ /\ Exists(Rec(s))
        /\ SetStatus(Rec(s), "Completed")
        /\ DispatchReturn(s)
        /\ UNCHANGED queue
     \/ ~Exists(Rec(s)) /\ Throw(s) /\ UNCHANGED runs
  /\ UNCHANGED <<config, calls, cron, registered, nlpearl, seen, used>>

----------------------------------------------------------------------------
(* Retries.                                                                *)

\* Mutant: read, add one, write back.
BumpAttemptFromSnapshot(s) ==
  /\ At(s, "bump")
  /\ Exists(Rec(s))
  /\ runs' = [runs EXCEPT ![Rec(s)].attempt = frame[s].attempt + 1,
                         ![Rec(s)].status = "Scheduled"]
  /\ Count(Rec(s), "retried")
  /\ Goto(s, "bump.enqueue")
  /\ UNCHANGED <<config, calls, boss, nlpearl, accepted, used>>

\* Mutant: the retry job is never enqueued.
BumpAttemptOnly(s) ==
  /\ At(s, "bump")
  /\ Exists(Rec(s))
  /\ runs' = [runs EXCEPT ![Rec(s)].attempt = @ + 1, ![Rec(s)].status = "Scheduled"]
  /\ Count(Rec(s), "retried")
  /\ Return(s)
  /\ UNCHANGED <<config, calls, boss, nlpearl, accepted, used>>

\* Mutant: back to Received, as a resend does.
BumpAttemptReceived(s) ==
  /\ At(s, "bump")
  /\ Exists(Rec(s))
  /\ runs' = [runs EXCEPT ![Rec(s)].attempt = @ + 1, ![Rec(s)].status = "Received"]
  /\ Count(Rec(s), "retried")
  /\ Goto(s, "bump.enqueue")
  /\ UNCHANGED <<config, calls, boss, nlpearl, accepted, used>>

\* scheduleRetry: one atomic increment in Postgres, whatever the caller read.
BumpAttempt(s) ==
  /\ At(s, "bump")
  /\ \/ /\ Exists(Rec(s))
        /\ runs' = [runs EXCEPT ![Rec(s)].attempt = @ + 1, ![Rec(s)].status = "Scheduled"]
        /\ Count(Rec(s), "retried")
        /\ Goto(s, "bump.enqueue")
        /\ UNCHANGED queue
     \/ ~Exists(Rec(s)) /\ Throw(s) /\ UNCHANGED <<runs, tally>>
  /\ UNCHANGED <<config, calls, cron, registered, nlpearl, accepted, used>>

EnqueueRetry(s) ==
  /\ At(s, "bump.enqueue")
  /\ Enqueue(NewJob("retry", Rec(s)))
  /\ Return(s)
  /\ UNCHANGED <<db, cron, registered, nlpearl, seen, used>>

\* handleRetry up to its first await.
FetchRetry(j) ==
  /\ Fetch("retry", j)
  /\ IF Exists(j.id)
     THEN frame' = [frame EXCEPT !["retry"] =
            UnlessCta(Reading([@ EXCEPT !.op = "retry", !.job = j], j.id), "retry.config")]
     ELSE UNCHANGED frame
  /\ UNCHANGED <<db, cron, registered, nlpearl, seen, used>>

\* A flow without settings or switched off: the retry is dropped.
ReadRetryConfig(s) ==
  /\ At(s, "retry.config")
  /\ LET c == config[frame[s].key.flow] IN
     IF c # Null /\ c.enabled
     THEN frame' = [frame EXCEPT ![s].conf = c, ![s].pc = "sms"]
     ELSE Return(s)
  /\ UNCHANGED <<db, boss, nlpearl, seen, used>>

----------------------------------------------------------------------------
(* dispatchPending, the batch a flow's schedule starts.                    *)

\* pg-boss adds a job per tick of a schedule.
CronTick(f) ==
  /\ f \in cron
  /\ Spend("tick")
  /\ Enqueue(NewJob(f, 0))
  /\ UNCHANGED <<db, cron, registered, frame, nlpearl, seen>>

FetchDispatch(f, j) ==
  /\ Fetch(f, j)
  /\ IF config[f] # Null /\ config[f].enabled
     THEN frame' = [frame EXCEPT ![f] =
            [@ EXCEPT !.op = "dispatch", !.job = j, !.conf = config[f], !.pc = "batch.list"]]
     ELSE UNCHANGED frame
  /\ UNCHANGED <<db, cron, registered, nlpearl, seen, used>>

ListPending(f) ==
  /\ At(f, "batch.list")
  /\ LET pending == {i \in Records : runs[i].key.flow = f /\ runs[i].status = "Received"} IN
     frame' = [frame EXCEPT ![f].pc = "batch.next",
                            ![f].list = {[id |-> i, cta |-> runs[i].cta] : i \in pending}]
  /\ UNCHANGED <<db, boss, nlpearl, seen, used>>

\* What the loop keeps of the next record: what the query returned of it.
TakingUp(f, x) == [f EXCEPT !.id = x.id, !.cta = x.cta, !.list = @ \ {x}]

\* Mutant: the batch is listed again until nothing is pending, and so for ever.
NextPendingPolling(f) ==
  /\ At(f, "batch.next")
  /\ \/ frame[f].list = {} /\ Goto(f, "batch.list")
     \/ \E x \in frame[f].list :
          frame' = [frame EXCEPT ![f] = UnlessCta(TakingUp(@, x), "sms")]
  /\ UNCHANGED <<db, boss, nlpearl, seen, used>>

\* The query has no ORDER BY: the records come in any order, each as listed.
NextPending(f) ==
  /\ At(f, "batch.next")
  /\ \/ frame[f].list = {} /\ Return(f)
     \/ \E x \in frame[f].list :
          frame' = [frame EXCEPT ![f] = UnlessCta(TakingUp(@, x), "sms")]
  /\ UNCHANGED <<db, boss, nlpearl, seen, used>>

----------------------------------------------------------------------------
(* Schedules.                                                              *)

\* syncSchedule and removeSchedule, for the settings the caller has written.
\* The worker stays registered when the schedule goes.
SyncSchedule(s) ==
  /\ At(s, "conf.sync")
  /\ LET c == frame[s].conf  f == frame[s].flow IN
     IF c # Null /\ c.enabled /\ c.sendSchedule
     THEN cron' = cron \cup {f} /\ registered' = registered \cup {f}
     ELSE cron' = cron \ {f} /\ UNCHANGED registered
  /\ Return(s)
  /\ UNCHANGED <<db, queue, nlpearl, seen, used>>

DispatchStep(s) ==
  \/ SendPreliminarySms(s) \/ RecordPreSmsSent(s) \/ RecordFailed(s)
  \/ EnqueueTrigger(s) \/ RecordScheduled(s) \/ SkipCtaCompleted(s)
  \/ BumpAttempt(s) \/ EnqueueRetry(s) \/ ReadRetryConfig(s) \/ SyncSchedule(s)

BatchStep(f) == ListPending(f) \/ NextPending(f)

============================================================================
