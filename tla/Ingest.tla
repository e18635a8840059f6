------------------------------- MODULE Ingest -------------------------------
(***************************************************************************)
(* IngestService: what N8N sends.  A delivery for a (phone, flow, mpl) not *)
(* seen before creates a record, one with another request id restarts it,  *)
(* one with the same request id is a duplicate; a CTA report marks it.     *)
(***************************************************************************)
EXTENDS MessageDispatch

\* handleFlowTrigger up to its second await; a duplicate returns at once.
FlowTrigger(s, k, r) ==
  /\ At(s, "idle")
  /\ \A i \in WithKey(k) : runs[i].req # r
  /\ Spend("flowTrigger")
  /\ \/ \E i \in WithKey(k) :
          frame' = [frame EXCEPT ![s] = [Reading([@ EXCEPT !.op = "flowTrigger", !.req = r], i)
                                         EXCEPT !.pc = "ing.config"]]
     \/ /\ WithKey(k) = {}
        /\ frame' = [frame EXCEPT ![s] = [@ EXCEPT !.op = "flowTrigger", !.pc = "ing.config",
                                                   !.key = k, !.req = r]]
  /\ UNCHANGED <<db, boss, nlpearl, seen>>

\* A flow without settings answers 404, one switched off 400.
ReadIngestConfig(s) ==
  /\ At(s, "ing.config")
  /\ LET c == config[frame[s].key.flow] IN
     IF c # Null /\ c.enabled
     THEN frame' = [frame EXCEPT ![s].conf = c, ![s].pc = "ing.write"]
     ELSE Return(s)
  /\ UNCHANGED <<db, boss, nlpearl, seen, used>>

Accept(i) == accepted' = [accepted EXCEPT ![i] = @ + 1]

\* The record `i' as it has just been written: skipped for its CTA, left at
\* Received for the schedule, or dispatched at once.
AfterIngest(s, i) ==
  LET f == UnlessCta([frame[s] EXCEPT !.id = i, !.cta = runs'[i].cta], "sms") IN
  frame' = [frame EXCEPT ![s] = IF f.pc = "sms" /\ f.conf.sendSchedule THEN Idle ELSE f]

\* Mutant: a restart takes the CTA back.
UpdateRecordAnew(s, i) ==
  runs' = [runs EXCEPT ![i].req = frame[s].req, ![i].status = "Received", ![i].cta = FALSE]

UpdateRecord(s, i) ==
  runs' = [runs EXCEPT ![i].req = frame[s].req, ![i].status = "Received"]

\* Mutant: the column attempt_count has no default.
CreateRecordUncounted(s, i) ==
  runs' = [runs EXCEPT ![i] = [status |-> "Received", key |-> frame[s].key,
                               req |-> frame[s].req, attempt |-> Null, cta |-> FALSE]]

CreateRecord(s, i) ==
  runs' = [runs EXCEPT ![i] = [status |-> "Received", key |-> frame[s].key,
                               req |-> frame[s].req, attempt |-> 1, cta |-> FALSE]]

\* Mutant: no unique index refuses the second of two creates.
WriteRecordUnindexed(s) ==
  /\ At(s, "ing.write")
  /\ \E i \in Ids : /\ IF Rec(s) = 0 THEN NextId(i) /\ CreateRecord(s, i)
                                    ELSE i = Rec(s) /\ Exists(i) /\ UpdateRecord(s, i)
                    /\ AfterIngest(s, i)
                    /\ Accept(i)
  /\ UNCHANGED <<config, calls, boss, nlpearl, tally, used>>

\* By the id found at the start, or by a create that the unique index on
\* (phone, flow_type, mpl) refuses when another request was faster.
WriteRecord(s) ==
  /\ At(s, "ing.write")
  /\ \/ /\ Exists(Rec(s))
        /\ UpdateRecord(s, Rec(s))
        /\ AfterIngest(s, Rec(s))
        /\ Accept(Rec(s))
     \/ /\ Rec(s) = 0 /\ WithKey(frame[s].key) = {}
        /\ \E i \in Ids : /\ NextId(i)
                          /\ CreateRecord(s, i)
                          /\ AfterIngest(s, i)
                          /\ Accept(i)
     \/ /\ IF Rec(s) = 0 THEN WithKey(frame[s].key) # {} ELSE ~Exists(Rec(s))
        /\ Return(s)
        /\ UNCHANGED <<runs, accepted>>
  /\ UNCHANGED <<config, calls, boss, nlpearl, tally, used>>

----------------------------------------------------------------------------
\* handleCtaComplete: find the record, then write the flag by its id.  The
\* boolean N8N reports travels in the frame.
CtaComplete(s, k, done) ==
  /\ At(s, "idle")
  /\ Spend("ctaComplete")
  /\ \E i \in WithKey(k) :
       frame' = [frame EXCEPT ![s].op = "ctaComplete", ![s].pc = "cta.write",
                              ![s].id = i, ![s].cta = done]
  /\ UNCHANGED <<db, boss, nlpearl, seen>>

WriteCta(s) ==
  /\ At(s, "cta.write")
  /\ \/ Exists(Rec(s)) /\ runs' = [runs EXCEPT ![Rec(s)].cta = frame[s].cta]
     \/ ~Exists(Rec(s)) /\ UNCHANGED runs
  /\ Return(s)
  /\ UNCHANGED <<config, calls, boss, nlpearl, seen, used>>

IngestStep(s) == ReadIngestConfig(s) \/ WriteRecord(s) \/ WriteCta(s)

============================================================================
