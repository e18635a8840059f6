---------------------------- MODULE CallTrigger ----------------------------
(***************************************************************************)
(* CallTriggerWorker, the one place where an NLPearl call is placed, and   *)
(* NLPearl itself as far as the code depends on it.                        *)
(***************************************************************************)
EXTENDS MessageDispatch

\* Mutant: the callback given to the scheduler does not wait for handle(), and
\* pg-boss takes the job for done.
FetchTriggerUnawaited(j) ==
  /\ Fetch("trigger", j)
  /\ IF Exists(j.id)
     THEN frame' = [frame EXCEPT !["trigger"] =
            UnlessCta(Reading([@ EXCEPT !.op = "trigger"], j.id), "trig.config")]
     ELSE UNCHANGED frame
  /\ UNCHANGED <<db, cron, registered, nlpearl, seen, used>>

\* handle() up to its first await.
FetchTrigger(j) ==
  /\ Fetch("trigger", j)
  /\ IF Exists(j.id)
     THEN frame' = [frame EXCEPT !["trigger"] =
            UnlessCta(Reading([@ EXCEPT !.op = "trigger", !.job = j], j.id), "trig.config")]
     ELSE UNCHANGED frame
  /\ UNCHANGED <<db, cron, registered, nlpearl, seen, used>>

\* findByFlowType stands before the try: no settings, and the job fails.
ReadTriggerConfig(s) ==
  /\ At(s, "trig.config")
  /\ LET c == config[frame[s].key.flow] IN
     IF c # Null
     THEN frame' = [frame EXCEPT ![s].conf = c, ![s].pc = "trig.call"] /\ UNCHANGED queue
     ELSE Throw(s)
  /\ UNCHANGED <<db, cron, registered, nlpearl, seen, used>>

\* The catch clause: retry or give up, by the attempt count read at the start.
AfterTriggerFailure(s) ==
  IF NeedsRetryAfterTriggerFailure(frame[s].conf, frame[s].attempt) THEN "bump" ELSE "fail"

\* nlpearlService.makeCall: placed, refused, or placed with the answer lost to
\* the 15 s timeout.
PlaceCall(s) == nlpearl' = Append(nlpearl, [run |-> Rec(s), phone |-> frame[s].key.phone,
                                            outcome |-> Null])

\* Mutant: makeCall stands before the try, and an answer lost fails the job.
MakeCallOutsideTry(s) ==
  /\ At(s, "trig.call")
  /\ PlaceCall(s)
  /\ \/ /\ frame' = [frame EXCEPT ![s].call = Len(nlpearl) + 1, ![s].pc = "trig.record"]
        /\ UNCHANGED queue
     \/ "callLost" \in Faults /\ Throw(s)
  /\ UNCHANGED <<db, cron, registered, seen, used>>

MakeCall(s) ==
  /\ At(s, "trig.call")
  /\ \/ /\ PlaceCall(s)
        /\ frame' = [frame EXCEPT ![s].call = Len(nlpearl) + 1, ![s].pc = "trig.record"]
     \/ "callRefused" \in Faults /\ Goto(s, AfterTriggerFailure(s)) /\ UNCHANGED nlpearl
     \/ "callLost" \in Faults /\ Goto(s, AfterTriggerFailure(s)) /\ PlaceCall(s)
  /\ UNCHANGED <<db, boss, seen, used>>

\* Mutant: an upsert, which does not miss a record that is gone.
RecordCallUpsert(s) ==
  /\ At(s, "trig.record")
  /\ SetStatus(Rec(s), "CallTriggered")
  /\ calls' = [calls EXCEPT ![Rec(s)] = Append(@, [request |-> frame[s].call, call |-> 0])]
  /\ Return(s)
  /\ UNCHANGED <<config, boss, nlpearl, seen, used>>

\* CallTriggered, its event and the call row in one statement, still inside
\* the try: a record that is gone by now is one more trigger failure.
RecordCall(s) ==
  /\ At(s, "trig.record")
  /\ \/ /\ Exists(Rec(s))
        /\ SetStatus(Rec(s), "CallTriggered")
        /\ calls' = [calls EXCEPT ![Rec(s)] =
                       Append(@, [request |-> frame[s].call, call |-> 0])]
        /\ Return(s)
     \/ ~Exists(Rec(s)) /\ Goto(s, AfterTriggerFailure(s)) /\ UNCHANGED <<runs, calls>>
  /\ UNCHANGED <<config, boss, nlpearl, seen, used>>

TriggerStep(s) == ReadTriggerConfig(s) \/ MakeCall(s) \/ RecordCall(s)

----------------------------------------------------------------------------
\* NLPearl, on its own: a call that is under way comes to an end.
CallFinishes(n) ==
  /\ nlpearl[n].outcome = Null
  /\ \E o \in Outcomes : nlpearl' = [nlpearl EXCEPT ![n].outcome = o]
  /\ UNCHANGED <<db, boss, frame, seen, used>>

============================================================================
