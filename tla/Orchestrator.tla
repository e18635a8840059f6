---------------------------- MODULE Orchestrator ----------------------------
(***************************************************************************)
(* The backend as a whole: every handler of every module, interleaved at   *)
(* its awaits, with the inputs that N8N, NLPearl, staff, the schedules and *)
(* the host give it.  Properties of the system are stated at the end.      *)
(***************************************************************************)
EXTENDS Ingest, NlpearlWebhooks, Administration

\* Mutant: boot does not repeat the schedules.
RestartWithoutSync ==
  /\ Spend("restart")
  /\ frame' = [s \in Slots |-> Idle]
  /\ registered' = {}
  /\ UNCHANGED <<db, queue, cron, nlpearl, seen>>

(***************************************************************************)
(* The process dies and comes back.  Handlers vanish; pg-boss redelivers   *)
(* the jobs that were being run once they expire; onModuleInit registers   *)
(* the workers anew and repeats the schedule of every flow that is enabled *)
(* and has one, and of no other.                                           *)
(***************************************************************************)
Restart ==
  /\ Spend("restart")
  /\ frame' = [s \in Slots |-> Idle]
  /\ queue' = [j \in Jobs |->
       LET job == frame[j.on].job IN
       IF job # Null /\ job.id = j.id /\ job.tries = j.tries + 1
       THEN queue[j] + 1 ELSE queue[j]]
  /\ registered' = {f \in Flows : config[f] # Null /\ config[f].enabled /\ config[f].sendSchedule}
  /\ cron' = cron \cup registered'
  /\ UNCHANGED <<db, nlpearl, seen>>

----------------------------------------------------------------------------
\* A handler in flight takes its next step.
HandlerStep(s) ==
  \/ DispatchStep(s) \/ TriggerStep(s) \/ IngestStep(s) \/ WebhookStep(s) \/ AdminStep(s)

\* A free HTTP slot takes a request.
Request(s) ==
  \/ \E k \in Keys, r \in Requests : FlowTrigger(s, k, r)
  \/ \E k \in Keys, done \in BOOLEAN : CtaComplete(s, k, done)
  \/ \E k \in Keys : Consent(s, k)
  \/ \E n \in DOMAIN nlpearl : CallEnded(s, n)
  \/ \E i \in Ids : Resend(s, i) \/ Remove(s, i)
  \/ \E f \in Flows, c \in Configs : CreateConfig(s, f, c) \/ UpdateConfig(s, f, c)
  \/ \E f \in Flows : RemoveConfig(s, f)

FetchStep(j) ==
  \/ FetchTrigger(j) \/ FetchRetry(j) \/ \E f \in Flows : FetchDispatch(f, j)

\* Nothing is in flight and no job can be taken: the system waits for input.
Quiescent ==
  /\ \A s \in Slots : At(s, "idle")
  /\ \A j \in Jobs : ~Fetchable(j)
  /\ UNCHANGED vars

Next ==
  \/ \E s \in Slots : HandlerStep(s)
  \/ \E f \in Flows : BatchStep(f)
  \/ \E j \in Jobs : FetchStep(j)
  \/ \E s \in HttpSlots : Request(s)
  \/ \E f \in Flows : CronTick(f)
  \/ \E n \in DOMAIN nlpearl : CallFinishes(n)
  \/ Restart
  \/ Quiescent

Spec == Init /\ [][Next]_vars

(***************************************************************************)
(* Fairness.  Every await settles: Postgres answers and both HTTP clients  *)
(* have a timeout.  The three kinds of worker poll pg-boss for as long as  *)
(* the process runs.  Nothing is assumed of N8N, NLPearl, staff or cron.   *)
(***************************************************************************)
FairSpec ==
  /\ Spec
  /\ \A s \in Slots : WF_vars(HandlerStep(s))
  /\ \A f \in Flows : WF_vars(BatchStep(f))
  /\ \A w \in Workers : WF_vars(\E j \in Jobs : j.on = w /\ FetchStep(j))

----------------------------------------------------------------------------
(* Safety.                                                                 *)

\* (phone, flow, mpl) identifies a record, however many deliveries for a new
\* client race between the lookup and the create (IngestService, the unique
\* index of flow_runs).
OneRowPerIdentity ==
  \A i, j \in Records : runs[i].key = runs[j].key => i = j

\* attemptCount is one plus the automatic retries and the manual resends of
\* the record, although several handlers raise it at once from old snapshots
\* (scheduleRetry, resendNow).
AttemptAccounting ==
  \A i \in Records : runs[i].attempt = 1 + tally[i].retried + tally[i].resent

\* Nobody is called out of the blue: for a record that has a call, or a call
\* job waiting or running, at least one heads-up text was delivered.
NoColdCall ==
  \A i \in Ids :
    \/ tally[i].sent > 0
    \/ /\ \A n \in DOMAIN nlpearl : nlpearl[n].run # i
       /\ \A j \in Jobs : j.on = "trigger" /\ j.id = i => queue[j] = 0
       /\ frame["trigger"].id # i

\* Each call has a heads-up text of its own: the call job is enqueued once
\* per delivered text and placed at most once, also when the record is deleted
\* under the worker and the job redelivered (dispatchOne, CallTriggerWorker).
HeadsUpPerCall ==
  \A i \in Ids :
    Cardinality({n \in DOMAIN nlpearl : nlpearl[n].run = i}) <= tally[i].sent

\* Whatever crashes: NLPearl is asked for no more calls than texts were
\* delivered, plus one for each restart, which redelivers the job of a call
\* already placed (CallTriggerWorker, pg-boss).
CallsWithinTexts ==
  \A i \in Ids :
    Cardinality({n \in DOMAIN nlpearl : nlpearl[n].run = i}) <= tally[i].sent + used["restart"]

\* The cap on retries counts attempts read before the decision, so handlers
\* that decide at the same time can pass it together; the excess is bounded by
\* how many of them there can be: the HTTP requests and the call worker.
Deciders == HttpSlots \cup {"trigger"}
RetryOvershoot ==
  \A i \in Ids : \E c \in Configs :
    tally[i].retried <= c.maxRetryAttempts + Cardinality(Deciders) - 1

\* "How many extra tries a failed call gets automatically" (support guide,
\* Max retry attempts; needsRetry and its attempt cap).
RetryCap ==
  \A i \in Ids : \E c \in Configs : tally[i].retried <= c.maxRetryAttempts

\* A record that says Scheduled has something coming: a call or retry job
\* waiting, a worker on it, or a handler about to enqueue the retry.
ComesUp(i) ==
  \/ \E j \in Jobs : j.on \in {"trigger", "retry"} /\ j.id = i /\ queue[j] > 0
  \/ \E s \in {"trigger", "retry"} : Rec(s) = i
  \/ \E s \in Slots : At(s, "bump.enqueue") /\ Rec(s) = i
ScheduledIsQueued ==
  \A i \in Records : runs[i].status = "Scheduled" => ComesUp(i)

\* A record on its way to the call that nothing is at work on.
Stranded(i) ==
  \/ runs[i].status = "Scheduled" /\ ~ComesUp(i)
  \/ /\ runs[i].status = "Received"
     /\ ~\E s \in Slots : Rec(s) = i /\ frame[s].pc \in {"skip", "sms", "presms", "fail"}
  \/ /\ runs[i].status = "PreSmsSent"
     /\ ~\E s \in Slots : Rec(s) = i /\ frame[s].pc \in {"enqueue", "scheduled"}

\* Where the flow sends at once, and as long as the process has not crashed, no
\* record is left lying at a status on the way to the call: whatever overlapping
\* handlers overwrite, one is at work on a record at Received or PreSmsSent, and
\* Scheduled has something coming (dispatchOne, scheduleRetry, handleRetry).
\* Postgres and boss.send answer here: what their errors leave behind, such as
\* a text without its call job, is outside the model.
NothingStranded == used["restart"] = 0 => \A i \in Ids : ~Stranded(i)

\* Every call row made for a placed call is on the record the call was placed
\* for, and no call has two rows.
CallRowsBelong ==
  \A i, j \in Ids : \A m \in DOMAIN calls[i], p \in DOMAIN calls[j] :
    LET r == calls[i][m].request IN
    r # 0 => /\ nlpearl[r].run = i
             /\ calls[j][p].request = r => i = j /\ m = p

\* A resend on a flow with a schedule may be texted twice: the batch finds the
\* record at Received while the resend is on its way to its own text.  Whose
\* resends those are is no longer known once the record is deleted.
Doubled(i) ==
  IF runs[i].status = "none" \/ (Exists(i) /\ runs[i].key.flow \notin cron) THEN 0
  ELSE tally[i].resent

\* A record is texted at most once for each time it was accepted from N8N, put
\* up for retry or resent (see above): overlapping handlers, a batch among them,
\* never send one attempt twice (dispatchOne, dispatchPending).  Only a crash
\* can, once for the retry job it gives back and once for the batch that finds
\* the record at Received again.  It is assumed that no flow is given a schedule
\* or loses it meanwhile, and that no job expires under a handler that lives.
SmsPerAttempt ==
  \A i \in Ids :
    tally[i].sent <= accepted[i] + tally[i].retried + tally[i].resent + Doubled(i)
                     + 2 * used["restart"]

\* Once no change of a flow's settings is under way, a flow that is enabled and
\* has a schedule has it at pg-boss, and a worker for its jobs; after a crash
\* between the two writes too (FlowConfigService, syncSchedule, onModuleInit).
ScheduleArmed ==
  \A f \in Flows :
    \/ \E s \in Slots : frame[s].flow = f
    \/ config[f] = Null
    \/ config[f].enabled /\ config[f].sendSchedule => f \in cron \cap registered

(***************************************************************************)
(* The tables, abstractly: RecordTable's statements, whoever makes them.   *)
(***************************************************************************)
Table == INSTANCE RecordTable WITH
  placed  <- [n \in DOMAIN nlpearl |-> nlpearl[n].run],
  retried <- [i \in Ids |-> tally[i].retried],
  resent  <- [i \in Ids |-> tally[i].resent]

\* However the handlers interleave, the tables go through nothing but the
\* statements of RecordTable: no stale count is written back, nothing is written
\* for a record that is gone, a call goes into a row of the record it was placed
\* for once (every Prisma statement of the services).
TableKept == Table!Spec

(***************************************************************************)
(* What the documentation says and the code, interleaved, does not keep.   *)
(***************************************************************************)

\* The call row a webhook completes is the one of the call it reports (the
\* comment in handleCallEnded: "the call CallTriggerWorker created is the one
\* this webhook completes").
CallRowsMatch ==
  \A i \in Ids : \A m \in DOMAIN calls[i] :
    LET row == calls[i][m] IN
    row.request # 0 /\ row.call # 0 => row.request = row.call

\* The call history lists every call actually placed for a record that exists
\* (support guide, Call history; schema, "one row per real NLPearl call").
CallHistoryComplete ==
  \A n \in DOMAIN nlpearl :
    \/ ~Exists(nlpearl[n].run)
    \/ At("trigger", "trig.record") /\ frame["trigger"].call = n
    \/ \E m \in DOMAIN calls[nlpearl[n].run] : calls[nlpearl[n].run][m].request = n

----------------------------------------------------------------------------
(* What no step may do.                                                    *)

\* A deleted record stays deleted and without calls: nothing that was under
\* way when it went brings a row of it back (remove, and the comment on jobs
\* that "no-op harmlessly").
DeletedStaysDeleted ==
  [][\A i \in Ids : runs[i].status = "deleted" =>
        runs'[i].status = "deleted" /\ calls'[i] = <<>>]_vars

\* What comes next is a text to the client, heads-up or consent, or a call.
Contacts(s) == At(s, "sms") \/ At(s, "trig.call") \/ At(s, "con.sms")

\* Two handlers never ask about the CTA: Resend, which is meant not to, and the
\* consent webhook.  No other one texts or calls for a record that it read, or
\* listed, with the CTA completed, however it came to that step
\* (skipIfCtaCompleted in ingest, the retry worker, the batch, the call worker).
DoNotAsk == {"resend", "consent"}
CtaHonoured ==
  [][\A s \in Slots : Contacts(s) /\ frame'[s].pc # frame[s].pc =>
        frame[s].op \in DoNotAsk \/ ~frame[s].cta]_vars

\* Nothing but a Resend texts or calls for a record that it read with the CTA
\* completed (README: "once confirmed, all further automated outreach for that
\* record stops"; support guide, The CTA column).
OutreachStops ==
  [][\A s \in Slots : Contacts(s) /\ frame'[s].pc # frame[s].pc =>
        frame[s].op = "resend" \/ ~frame[s].cta]_vars

\* As long as Postgres and boss.send answer (their errors are outside the model),
\* nothing but a crash leaves a record lying for good, and that only in a handler
\* of a request, between two writes that belong together (dispatchOne from before
\* the text until Scheduled is written, scheduleRetry between the increment and
\* the retry job), or in a worker whose job has no tries left.  A worker that
\* dies with tries left gets its job again, and takes the record up wherever
\* it was (ingest, resendNow, scheduleRetry, handleRetry, pg-boss).
Abandoned(i) == Stranded(i) /\ ~ComesUp(i)
CannotResume(s) ==
  \/ /\ s \notin {"trigger", "retry"}
     /\ frame[s].pc \in {"skip", "sms", "presms", "fail", "enqueue", "scheduled", "bump.enqueue"}
  \/ frame[s].job # Null /\ frame[s].job.tries = 0
OnlyCrashesStrand ==
  [][\A i \in Ids : ~Abandoned(i) /\ Abandoned(i)' =>
        /\ used'["restart"] # used["restart"]
        /\ \E s \in Slots : Rec(s) = i /\ CannotResume(s)]_vars

\* A record of a batch that fails does not stop the rest (the comment on
\* dispatchOne, "never throws ... one failure must not stop the rest").
BatchGoesOn ==
  [][\A f \in Flows : frame[f].list # {} => frame'[f].pc # "idle"]_vars

----------------------------------------------------------------------------
(* Liveness, under FairSpec.                                               *)

\* A record does not rest at Scheduled: the call is placed, or fails, or a
\* retry takes over and the retries come to an end.
ScheduledLeaves ==
  \A i \in Ids : runs[i].status = "Scheduled" ~> runs[i].status # "Scheduled"

\* Every HTTP request is answered and every job ends, the batch over all
\* pending records too.
HandlersReturn ==
  \A s \in Slots : ~At(s, "idle") ~> At(s, "idle")

\* Resend queues a call that reaches the client, CTA or not, unless the text
\* or the call fails or the record is deleted (support guide, Resend: "whether
\* the CTA is already marked complete").
ResendReachesClient ==
  \A i \in Ids : tally[i].resent > 0 ~>
    \/ runs[i].status \in {"Failed", "deleted"}
    \/ \E n \in DOMAIN nlpearl : nlpearl[n].run = i

============================================================================
