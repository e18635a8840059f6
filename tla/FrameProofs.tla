----------------------------- MODULE FrameProofs -----------------------------
(***************************************************************************)
(* How a handler walks from await to await, whoever else is at work, and   *)
(* what follows for decisions taken from what was read before: retries     *)
(* pass the cap by no more than there are deciders (RetryOvershoot), not   *)
(* at all if they decide one by one (RetryCap), and one change of settings *)
(* at a time leaves every schedule armed (ScheduleArmed).                  *)
(***************************************************************************)
EXTENDS ContactProofs, FiniteSetTheorems

----------------------------------------------------------------------------
(* Walking.                                                                *)

\* What a frame keeps when its handler goes on.
Kept(f, g) == /\ g.op = f.op /\ g.id = f.id /\ g.attempt = f.attempt /\ g.cta = f.cta
              /\ g.key = f.key /\ g.req = f.req /\ g.flow = f.flow /\ g.list = f.list
              /\ g.job = f.job

GoesOn(s, pc)     == Only(s) /\ Kept(frame[s], frame'[s]) /\ frame'[s].pc = pc
                     /\ frame'[s].conf = frame[s].conf
Reads(s, c, pc)   == Only(s) /\ Kept(frame[s], frame'[s]) /\ frame'[s].pc = pc
                     /\ frame'[s].conf = c
Stops(s)          == Only(s) /\ frame'[s] = Idle
GoesBack(s)       == IF frame[s].op = "dispatch" THEN GoesOn(s, "batch.next") ELSE Stops(s)

LEMMA GotoGoes ==
  ASSUME TypeInv, NEW s \in Slots, NEW pc, Goto(s, pc)
  PROVE  GoesOn(s, pc)
<1>1. PICK f \in Frame : f = frame[s]
  BY FrameType
<1>2. frame \in [Slots -> Frame]
  BY DEF TypeInv, TypeOK
<1>3. PICK g : g = [f EXCEPT !.pc = pc]
  OBVIOUS
<1>4. g.pc = pc /\ Kept(f, g) /\ g.conf = f.conf
  BY <1>3 DEF Frame, Kept
<1>5. frame' = [frame EXCEPT ![s] = g]
  BY <1>1, <1>3 DEF Goto
<1> QED BY <1>1, <1>2, <1>4, <1>5 DEF GoesOn, Only

LEMMA ReturnStops ==
  ASSUME TypeInv, NEW s \in Slots, Return(s)
  PROVE  Stops(s)
BY DEF TypeInv, TypeOK, Return, Stops, Only

LEMMA ReturnGoesBack ==
  ASSUME TypeInv, NEW s \in Slots, DispatchReturn(s)
  PROVE  GoesBack(s)
BY GotoGoes, ReturnStops DEF DispatchReturn, GoesBack

\* Settings read go into the frame.
LEMMA ConfReads ==
  ASSUME TypeInv, NEW s \in Slots, NEW c, NEW pc,
         frame' = [frame EXCEPT ![s].conf = c, ![s].pc = pc]
  PROVE  Reads(s, c, pc)
<1>1. PICK f \in Frame : f = frame[s]
  BY FrameType
<1>2. frame \in [Slots -> Frame]
  BY DEF TypeInv, TypeOK
<1>3. PICK g : g = [f EXCEPT !.conf = c, !.pc = pc]
  OBVIOUS
<1>4. g.pc = pc /\ Kept(f, g) /\ g.conf = c
  BY <1>3 DEF Frame, Kept
<1>5. frame' = [frame EXCEPT ![s] = g]
  BY <1>1, <1>2, <1>3 DEF Frame
<1> QED BY <1>1, <1>2, <1>4, <1>5 DEF Reads, Only

\* So do the call placed and the row to complete.
LEMMA CallGoes ==
  ASSUME TypeInv, NEW s \in Slots, NEW n, NEW pc,
         \/ frame' = [frame EXCEPT ![s].call = n, ![s].pc = pc]
         \/ frame' = [frame EXCEPT ![s].row = n, ![s].pc = pc]
  PROVE  GoesOn(s, pc)
<1>1. PICK f \in Frame : f = frame[s]
  BY FrameType
<1>2. frame \in [Slots -> Frame]
  BY DEF TypeInv, TypeOK
<1>3. CASE frame' = [frame EXCEPT ![s].call = n, ![s].pc = pc]
  <2>1. PICK g : g = [f EXCEPT !.call = n, !.pc = pc]
    OBVIOUS
  <2>2. g.pc = pc /\ Kept(f, g) /\ g.conf = f.conf
    BY <2>1 DEF Frame, Kept
  <2>3. frame' = [frame EXCEPT ![s] = g]
    BY <1>1, <1>2, <1>3, <2>1 DEF Frame
  <2> QED BY <1>1, <1>2, <2>2, <2>3 DEF GoesOn, Only
<1>4. CASE frame' = [frame EXCEPT ![s].row = n, ![s].pc = pc]
  <2>1. PICK g : g = [f EXCEPT !.row = n, !.pc = pc]
    OBVIOUS
  <2>2. g.pc = pc /\ Kept(f, g) /\ g.conf = f.conf
    BY <2>1 DEF Frame, Kept
  <2>3. frame' = [frame EXCEPT ![s] = g]
    BY <1>1, <1>2, <1>4, <2>1 DEF Frame
  <2> QED BY <1>1, <1>2, <2>2, <2>3 DEF GoesOn, Only
<1> QED BY <1>3, <1>4

\* A record written is taken up: skipped, dispatched, or left for the batch.
TakesUp(s, i, c) == /\ Only(s) /\ frame'[s].id = i /\ frame'[s].cta = c
                    /\ frame'[s].pc = IF c THEN "skip" ELSE "sms"
                    /\ frame'[s].op = frame[s].op /\ frame'[s].job = frame[s].job
                    /\ frame'[s].conf = frame[s].conf /\ frame'[s].flow = frame[s].flow
                    /\ frame'[s].key = frame[s].key

LEMMA IngestTakesUp ==
  ASSUME TypeInv, NEW s \in Slots, NEW i, AfterIngest(s, i)
  PROVE  \/ TakesUp(s, i, runs'[i].cta) /\ frame'[s].list = frame[s].list
            /\ (runs'[i].cta \/ ~frame[s].conf.sendSchedule)
         \/ Stops(s) /\ ~runs'[i].cta /\ frame[s].conf.sendSchedule
<1>1. PICK f \in Frame : f = frame[s]
  BY FrameType
<1>2. frame \in [Slots -> Frame]
  BY DEF TypeInv, TypeOK
<1>3. PICK b : b = runs'[i].cta
  OBVIOUS
<1>4. PICK g : g = UnlessCta([f EXCEPT !.id = i, !.cta = b], "sms")
  OBVIOUS
<1>5. /\ g.id = i /\ g.cta = b /\ g.pc = (IF b THEN "skip" ELSE "sms") /\ g.op = f.op
      /\ g.job = f.job /\ g.conf = f.conf /\ g.flow = f.flow /\ g.list = f.list /\ g.key = f.key
  BY <1>4 DEF UnlessCta, Frame
<1>6. frame' = [frame EXCEPT ![s] = IF g.pc = "sms" /\ g.conf.sendSchedule THEN Idle ELSE g]
  BY <1>1, <1>3, <1>4 DEF AfterIngest
<1>7. Only(s) /\ frame'[s] = IF g.pc = "sms" /\ g.conf.sendSchedule THEN Idle ELSE g
  BY <1>2, <1>6 DEF Only
<1>8. CASE g.pc = "sms" /\ g.conf.sendSchedule
  BY <1>1, <1>3, <1>5, <1>7, <1>8 DEF Stops
<1>9. CASE ~(g.pc = "sms" /\ g.conf.sendSchedule)
  BY <1>1, <1>3, <1>5, <1>7, <1>9 DEF TakesUp
<1> QED BY <1>8, <1>9

\* The batch lists what is pending, and takes up what it has listed.
LEMMA ListGoes ==
  ASSUME TypeInv, NEW w \in Flows, ListPending(w)
  PROVE  /\ Only(w) /\ frame'[w].pc = "batch.next"
         /\ frame'[w].list = {[id |-> i, cta |-> runs[i].cta] :
              i \in {i \in Records : runs[i].key.flow = w /\ runs[i].status = "Received"}}
         /\ frame'[w].op = frame[w].op /\ frame'[w].job = frame[w].job
         /\ frame'[w].conf = frame[w].conf /\ frame'[w].flow = frame[w].flow
         /\ frame'[w].id = frame[w].id
<1>1. w \in Slots
  BY WorkerSlots
<1>2. PICK f \in Frame : f = frame[w]
  BY <1>1, FrameType
<1>3. frame \in [Slots -> Frame]
  BY DEF TypeInv, TypeOK
<1>4. PICK l : l = {[id |-> i, cta |-> runs[i].cta] :
              i \in {i \in Records : runs[i].key.flow = w /\ runs[i].status = "Received"}}
  OBVIOUS
<1>5. PICK g : g = [f EXCEPT !.pc = "batch.next", !.list = l]
  OBVIOUS
<1>6. g.pc = "batch.next" /\ g.list = l /\ g.op = f.op /\ g.job = f.job /\ g.conf = f.conf
      /\ g.flow = f.flow /\ g.id = f.id
  BY <1>5 DEF Frame
<1>7. frame' = [frame EXCEPT ![w] = g]
  BY <1>1, <1>2, <1>3, <1>4, <1>5 DEF ListPending, Frame
<1> QED BY <1>1, <1>2, <1>3, <1>4, <1>6, <1>7 DEF Only

LEMMA NextTakesUp ==
  ASSUME TypeInv, NEW w \in Flows, NextPending(w)
  PROVE  \/ Stops(w) /\ frame[w].list = {}
         \/ \E x \in frame[w].list :
              TakesUp(w, x.id, x.cta) /\ frame'[w].list = frame[w].list \ {x}
<1>1. w \in Slots
  BY WorkerSlots
<1>2. PICK f \in Frame : f = frame[w]
  BY <1>1, FrameType
<1>3. frame \in [Slots -> Frame]
  BY DEF TypeInv, TypeOK
<1>4. ASSUME NEW x \in frame[w].list, frame' = [frame EXCEPT ![w] = UnlessCta(TakingUp(@, x), "sms")]
      PROVE  TakesUp(w, x.id, x.cta) /\ frame'[w].list = frame[w].list \ {x}
  <2>1. PICK g : g = UnlessCta(TakingUp(f, x), "sms")
    OBVIOUS
  <2>2. /\ g.id = x.id /\ g.cta = x.cta /\ g.pc = (IF x.cta THEN "skip" ELSE "sms") /\ g.op = f.op
        /\ g.job = f.job /\ g.conf = f.conf /\ g.flow = f.flow /\ g.list = f.list \ {x}
        /\ g.key = f.key
    BY <2>1 DEF UnlessCta, TakingUp, Frame
  <2>3. frame' = [frame EXCEPT ![w] = g]
    BY <1>2, <1>4, <2>1
  <2>4. Only(w) /\ frame'[w] = g
    BY <1>1, <1>3, <2>3 DEF Only
  <2> QED BY <1>2, <2>2, <2>4 DEF TakesUp
<1> QED BY <1>1, <1>4, ReturnStops DEF NextPending

\* A worker takes up a record of which it has a job, and reads it; or the
\* record is gone.
Opens(s, op, j, pc) ==
  /\ Only(s) /\ frame'[s].op = op /\ frame'[s].job = j /\ frame'[s].id = j.id
  /\ frame'[s].key = runs[j.id].key /\ frame'[s].attempt = runs[j.id].attempt
  /\ frame'[s].cta = runs[j.id].cta
  /\ frame'[s].pc = IF runs[j.id].cta THEN "skip" ELSE pc
  /\ frame'[s].flow = frame[s].flow /\ frame'[s].list = frame[s].list

LEMMA OpenGoes ==
  ASSUME TypeInv, NEW s \in Slots, NEW op, NEW j, NEW pc,
         frame' = [frame EXCEPT ![s] = UnlessCta(Reading([@ EXCEPT !.op = op, !.job = j], j.id), pc)]
  PROVE  Opens(s, op, j, pc)
<1>1. PICK f \in Frame : f = frame[s]
  BY FrameType
<1>2. frame \in [Slots -> Frame]
  BY DEF TypeInv, TypeOK
<1>3. PICK i, k, a, b : i = j.id /\ k = runs[i].key /\ a = runs[i].attempt /\ b = runs[i].cta
  OBVIOUS
<1>4. PICK h : h = [f EXCEPT !.op = op, !.job = j, !.id = i, !.key = k, !.attempt = a, !.cta = b]
  OBVIOUS
<1>5. h = Reading([f EXCEPT !.op = op, !.job = j], j.id)
  BY <1>3, <1>4 DEF Reading, Frame
<1>6. PICK g : g = UnlessCta(h, pc)
  OBVIOUS
<1>7. /\ g.op = op /\ g.job = j /\ g.id = i /\ g.key = k /\ g.attempt = a /\ g.cta = b
      /\ g.pc = (IF b THEN "skip" ELSE pc) /\ g.flow = f.flow /\ g.list = f.list
  BY <1>4, <1>6 DEF UnlessCta, Frame
<1>8. frame' = [frame EXCEPT ![s] = g]
  BY <1>1, <1>5, <1>6
<1>9. Only(s) /\ frame'[s] = g
  BY <1>2, <1>8 DEF Only
<1> QED BY <1>1, <1>3, <1>7, <1>9 DEF Opens

LEMMA FetchOpens ==
  ASSUME TypeInv, NEW j \in Jobs, NEW s \in {"trigger", "retry"},
         IF s = "trigger" THEN FetchTrigger(j) ELSE FetchRetry(j)
  PROVE  /\ s \in Slots /\ j.on = s /\ frame[s].pc = "idle"
         /\ queue' = [queue EXCEPT ![j] = @ - 1] /\ queue[j] > 0 /\ Ripe(j)
         /\ UNCHANGED <<config, runs, calls, cron, registered, nlpearl, tally, accepted, used>>
         /\ \/ Exists(j.id) /\ Opens(s, s, j, IF s = "trigger" THEN "trig.config" ELSE "retry.config")
            \/ ~Exists(j.id) /\ UNCHANGED frame
<1>1. s \in Slots
  BY WorkerSlots
<1>2. CASE s = "trigger"
  BY <1>1, <1>2, OpenGoes DEF FetchTrigger, Fetch, Fetchable, At, db, seen
<1>3. CASE s = "retry"
  BY <1>1, <1>3, OpenGoes DEF FetchRetry, Fetch, Fetchable, At, db, seen
<1> QED BY <1>2, <1>3

\* The worker of a flow starts a batch, or drops the job.
LEMMA FetchBatch ==
  ASSUME TypeInv, NEW w \in Flows, NEW j \in Jobs, FetchDispatch(w, j)
  PROVE  /\ w \in Slots /\ j.on = w /\ frame[w].pc = "idle"
         /\ queue' = [queue EXCEPT ![j] = @ - 1] /\ queue[j] > 0
         /\ UNCHANGED <<config, runs, calls, cron, registered, nlpearl, tally, accepted, used>>
         /\ \/ /\ config[w] # Null /\ config[w].enabled /\ Only(w)
               /\ frame'[w].op = "dispatch" /\ frame'[w].job = j /\ frame'[w].pc = "batch.list"
               /\ frame'[w].conf = config[w] /\ frame'[w].id = frame[w].id
               /\ frame'[w].flow = frame[w].flow /\ frame'[w].list = frame[w].list
            \/ UNCHANGED frame
<1>1. w \in Slots
  BY WorkerSlots
<1>2. PICK f \in Frame : f = frame[w]
  BY <1>1, FrameType
<1>3. frame \in [Slots -> Frame]
  BY DEF TypeInv, TypeOK
<1>4. PICK c : c = config[w]
  OBVIOUS
<1>5. PICK g : g = [f EXCEPT !.op = "dispatch", !.job = j, !.conf = c, !.pc = "batch.list"]
  OBVIOUS
<1>6. /\ g.op = "dispatch" /\ g.job = j /\ g.pc = "batch.list" /\ g.conf = c /\ g.id = f.id
      /\ g.flow = f.flow /\ g.list = f.list
  BY <1>5 DEF Frame
<1>7. ASSUME frame' = [frame EXCEPT ![w] = g]
      PROVE  Only(w) /\ frame'[w] = g
  BY <1>1, <1>3, <1>7 DEF Only
<1>8. \/ UNCHANGED frame
      \/ config[w] # Null /\ config[w].enabled /\ frame' = [frame EXCEPT ![w] = g]
  BY <1>2, <1>4, <1>5 DEF FetchDispatch
<1>9. /\ j.on = w /\ frame[w].pc = "idle" /\ queue' = [queue EXCEPT ![j] = @ - 1] /\ queue[j] > 0
      /\ UNCHANGED <<config, runs, calls, cron, registered, nlpearl, tally, accepted, used>>
  BY DEF FetchDispatch, Fetch, Fetchable, At, db, seen
<1> QED BY <1>1, <1>2, <1>4, <1>6, <1>7, <1>8, <1>9

\* A request is taken in: what the handler has read so far.
Entries == {"ing.config", "cta.write", "con.config", "end.get", "resend.config", "delete",
            "conf.sync", "conf.write", "conf.delete"}
Starts(s) ==
  LET f == frame[s]  g == frame'[s] IN
  /\ Only(s) /\ f.pc = "idle" /\ g.pc \in Entries /\ g.op # "dispatch"
  /\ g.job = f.job /\ g.list = f.list
  /\ g.pc \notin NeedsFlow => g.flow = f.flow
  /\ g.pc = "end.get" => Exists(g.id) /\ g.key = runs[g.id].key /\ g.attempt = runs[g.id].attempt
  /\ g.pc = "ing.config" => \/ Exists(g.id) /\ g.key = runs[g.id].key
                            \/ g.id = f.id

\* Taking in a request that names a record, which is read.
ReadsRecord(s, op, i, pc) ==
  /\ Only(s) /\ frame'[s].op = op /\ frame'[s].pc = pc /\ frame'[s].id = i
  /\ frame'[s].key = runs[i].key /\ frame'[s].attempt = runs[i].attempt
  /\ frame'[s].job = frame[s].job /\ frame'[s].list = frame[s].list
  /\ frame'[s].flow = frame[s].flow

LEMMA ReadingGoes ==
  ASSUME TypeInv, NEW s \in Slots, NEW op, NEW i, NEW pc,
         frame' = [frame EXCEPT ![s] = [Reading([@ EXCEPT !.op = op], i) EXCEPT !.pc = pc]]
  PROVE  ReadsRecord(s, op, i, pc)
<1>1. PICK f \in Frame : f = frame[s]
  BY FrameType
<1>2. frame \in [Slots -> Frame]
  BY DEF TypeInv, TypeOK
<1>3. PICK k, a, b : k = runs[i].key /\ a = runs[i].attempt /\ b = runs[i].cta
  OBVIOUS
<1>4. PICK g : g = [f EXCEPT !.op = op, !.id = i, !.key = k, !.attempt = a, !.cta = b,
                             !.pc = pc]
  OBVIOUS
<1>5. /\ g.op = op /\ g.pc = pc /\ g.id = i /\ g.key = k /\ g.attempt = a
      /\ g.job = f.job /\ g.list = f.list /\ g.flow = f.flow
  BY <1>4 DEF Frame
<1>6. g = [Reading([f EXCEPT !.op = op], i) EXCEPT !.pc = pc]
  BY <1>3, <1>4 DEF Reading, Frame
<1>7. frame' = [frame EXCEPT ![s] = g]
  BY <1>1, <1>6
<1>8. Only(s) /\ frame'[s] = g
  BY <1>2, <1>7 DEF Only
<1> QED BY <1>1, <1>3, <1>5, <1>8 DEF ReadsRecord

LEMMA ReadingCallGoes ==
  ASSUME TypeInv, NEW s \in Slots, NEW op, NEW i, NEW pc, NEW r,
         frame' = [frame EXCEPT ![s] = [Reading([@ EXCEPT !.op = op], i) EXCEPT !.pc = pc, !.call = r]]
  PROVE  ReadsRecord(s, op, i, pc)
<1>1. PICK f \in Frame : f = frame[s]
  BY FrameType
<1>2. frame \in [Slots -> Frame]
  BY DEF TypeInv, TypeOK
<1>3. PICK k, a, b : k = runs[i].key /\ a = runs[i].attempt /\ b = runs[i].cta
  OBVIOUS
<1>4. PICK g : g = [f EXCEPT !.op = op, !.id = i, !.key = k, !.attempt = a, !.cta = b,
                             !.pc = pc, !.call = r]
  OBVIOUS
<1>5. /\ g.op = op /\ g.pc = pc /\ g.id = i /\ g.key = k /\ g.attempt = a
      /\ g.job = f.job /\ g.list = f.list /\ g.flow = f.flow
  BY <1>4 DEF Frame
<1>6. g = [Reading([f EXCEPT !.op = op], i) EXCEPT !.pc = pc, !.call = r]
  BY <1>3, <1>4 DEF Reading, Frame
<1>7. frame' = [frame EXCEPT ![s] = g]
  BY <1>1, <1>6
<1>8. Only(s) /\ frame'[s] = g
  BY <1>2, <1>7 DEF Only
<1> QED BY <1>1, <1>3, <1>5, <1>8 DEF ReadsRecord

LEMMA ReadingReqGoes ==
  ASSUME TypeInv, NEW s \in Slots, NEW op, NEW i, NEW pc, NEW r,
         frame' = [frame EXCEPT ![s] = [Reading([@ EXCEPT !.op = op, !.req = r], i) EXCEPT !.pc = pc]]
  PROVE  ReadsRecord(s, op, i, pc)
<1>1. PICK f \in Frame : f = frame[s]
  BY FrameType
<1>2. frame \in [Slots -> Frame]
  BY DEF TypeInv, TypeOK
<1>3. PICK k, a, b : k = runs[i].key /\ a = runs[i].attempt /\ b = runs[i].cta
  OBVIOUS
<1>4. PICK g : g = [f EXCEPT !.op = op, !.req = r, !.id = i, !.key = k, !.attempt = a, !.cta = b,
                             !.pc = pc]
  OBVIOUS
<1>5. /\ g.op = op /\ g.pc = pc /\ g.id = i /\ g.key = k /\ g.attempt = a
      /\ g.job = f.job /\ g.list = f.list /\ g.flow = f.flow
  BY <1>4 DEF Frame
<1>6. g = [Reading([f EXCEPT !.op = op, !.req = r], i) EXCEPT !.pc = pc]
  BY <1>3, <1>4 DEF Reading, Frame
<1>7. frame' = [frame EXCEPT ![s] = g]
  BY <1>1, <1>6
<1>8. Only(s) /\ frame'[s] = g
  BY <1>2, <1>7 DEF Only
<1> QED BY <1>1, <1>3, <1>5, <1>8 DEF ReadsRecord

\* Taking in a change of settings: a create has written them already.
StartsConfig(s) ==
  LET g == frame'[s] IN
  IF g.pc \in NeedsFlow
  THEN /\ g.flow \in Flows
       /\ IF g.pc = "conf.sync"
          THEN /\ config[g.flow] = Null /\ g.conf \in Configs
               /\ config' = [config EXCEPT ![g.flow] = g.conf]
          ELSE config[g.flow] # Null /\ UNCHANGED config
  ELSE UNCHANGED config

LEMMA ReadStarts ==
  ASSUME NEW s, NEW op, NEW i, NEW pc \in {"ing.config", "con.config", "end.get", "resend.config"},
         ReadsRecord(s, op, i, pc), op # "dispatch", frame[s].pc = "idle", Exists(i),
         UNCHANGED config
  PROVE  Starts(s) /\ StartsConfig(s)
<1>1. frame'[s].pc = pc /\ pc \notin NeedsFlow /\ pc \in Entries
  BY DEF ReadsRecord, NeedsFlow, Entries
<1>2. StartsConfig(s)
  BY <1>1 DEF StartsConfig
<1> QED BY <1>1, <1>2 DEF Starts, ReadsRecord

LEMMA RequestStarts ==
  ASSUME TypeInv, NEW s \in HttpSlots, Request(s)
  PROVE  /\ s \in Slots /\ Starts(s) /\ StartsConfig(s)
         /\ UNCHANGED <<runs, calls, queue, cron, registered, nlpearl, tally, accepted>>
<1> USE DEF Starts, Entries, StartsConfig, NeedsFlow
<1>1. s \in Slots
  BY WorkerSlots
<1>2. PICK f \in Frame : f = frame[s]
  BY <1>1, FrameType
<1>3. frame \in [Slots -> Frame]
  BY DEF TypeInv, TypeOK
<1>4. UNCHANGED <<runs, calls, queue, cron, registered, nlpearl, tally, accepted>>
  BY DEF Request, FlowTrigger, CtaComplete, Consent, CallEnded, Resend, Remove, CreateConfig,
         UpdateConfig, RemoveConfig, db, boss, seen
<1>5. ASSUME NEW k \in Keys, NEW r \in Requests, FlowTrigger(s, k, r)
      PROVE  Starts(s) /\ StartsConfig(s)
  <2>1. UNCHANGED config /\ f.pc = "idle"
    BY <1>2, <1>5 DEF FlowTrigger, db, At
  <2>2. ASSUME NEW i \in WithKey(k),
               frame' = [frame EXCEPT ![s] = [Reading([@ EXCEPT !.op = "flowTrigger", !.req = r], i)
                                              EXCEPT !.pc = "ing.config"]]
        PROVE  Starts(s) /\ StartsConfig(s)
    <3>1. ReadsRecord(s, "flowTrigger", i, "ing.config")
      BY <1>1, <2>2, ReadingReqGoes
    <3>2. Exists(i) /\ frame[s].pc = "idle" /\ UNCHANGED config
      BY <1>2, <2>1 DEF WithKey, Records
    <3> QED BY <3>1, <3>2, ReadStarts
  <2>3. CASE frame' = [frame EXCEPT ![s] = [@ EXCEPT !.op = "flowTrigger", !.pc = "ing.config",
                                                     !.key = k, !.req = r]]
    <3>1. PICK g : g = [f EXCEPT !.op = "flowTrigger", !.pc = "ing.config", !.key = k, !.req = r]
      OBVIOUS
    <3>2. /\ g.op = "flowTrigger" /\ g.pc = "ing.config" /\ g.job = f.job /\ g.list = f.list
          /\ g.flow = f.flow /\ g.id = f.id
      BY <3>1 DEF Frame
    <3>3. Only(s) /\ frame'[s] = g
      BY <1>1, <1>2, <1>3, <2>3, <3>1 DEF Only
    <3> QED BY <1>2, <2>1, <3>2, <3>3
  <2> QED BY <1>5, <2>2, <2>3 DEF FlowTrigger
<1>6. ASSUME NEW k \in Keys, NEW done \in BOOLEAN, CtaComplete(s, k, done)
      PROVE  Starts(s) /\ StartsConfig(s)
  <2>1. UNCHANGED config /\ f.pc = "idle"
    BY <1>2, <1>6 DEF CtaComplete, db, At
  <2>2. PICK i : frame' = [frame EXCEPT ![s].op = "ctaComplete", ![s].pc = "cta.write",
                                       ![s].id = i, ![s].cta = done]
    BY <1>6 DEF CtaComplete
  <2>3. PICK g : g = [f EXCEPT !.op = "ctaComplete", !.pc = "cta.write", !.id = i, !.cta = done]
    OBVIOUS
  <2>4. /\ g.op = "ctaComplete" /\ g.pc = "cta.write" /\ g.job = f.job /\ g.list = f.list
        /\ g.flow = f.flow
    BY <2>3 DEF Frame
  <2>5. frame' = [frame EXCEPT ![s] = g]
    BY <1>1, <1>2, <1>3, <2>2, <2>3 DEF Frame
  <2>6. Only(s) /\ frame'[s] = g
    BY <1>1, <1>3, <2>5 DEF Only
  <2> QED BY <1>2, <2>1, <2>4, <2>6
<1>7. ASSUME NEW k \in Keys, Consent(s, k)
      PROVE  Starts(s) /\ StartsConfig(s)
  <2>1. UNCHANGED config /\ f.pc = "idle"
    BY <1>2, <1>7 DEF Consent, db, At
  <2>2. PICK i \in WithKey(k) :
          frame' = [frame EXCEPT ![s] = [Reading([@ EXCEPT !.op = "consent"], i)
                                         EXCEPT !.pc = "con.config"]]
    BY <1>7 DEF Consent
  <2>3. ReadsRecord(s, "consent", i, "con.config")
    BY <1>1, <2>2, ReadingGoes
  <2> QED BY <1>2, <2>1, <2>3, ReadStarts DEF WithKey, Records
<1>8. ASSUME NEW n \in DOMAIN nlpearl, CallEnded(s, n)
      PROVE  Starts(s) /\ StartsConfig(s)
  <2>1. UNCHANGED config /\ f.pc = "idle"
    BY <1>2, <1>8 DEF CallEnded, db, At
  <2>2. PICK i \in InCall(nlpearl[n].phone) :
          frame' = [frame EXCEPT ![s] = [Reading([@ EXCEPT !.op = "callEnded"], i)
                                         EXCEPT !.pc = "end.get", !.call = n]]
    BY <1>8 DEF CallEnded
  <2>3. Exists(i)
    BY DEF InCall, Records
  <2>4. ReadsRecord(s, "callEnded", i, "end.get")
    BY <1>1, <2>2, ReadingCallGoes
  <2> QED BY <1>2, <2>1, <2>3, <2>4, ReadStarts
<1>9. ASSUME NEW i \in Ids, Resend(s, i)
      PROVE  Starts(s) /\ StartsConfig(s)
  <2>1. UNCHANGED config /\ f.pc = "idle"
    BY <1>2, <1>9 DEF Resend, db, At
  <2>2. frame' = [frame EXCEPT ![s] = [Reading([@ EXCEPT !.op = "resend"], i)
                                       EXCEPT !.pc = "resend.config"]]
    BY <1>9 DEF Resend
  <2>3. ReadsRecord(s, "resend", i, "resend.config")
    BY <1>1, <2>2, ReadingGoes
  <2>4. Exists(i)
    BY <1>9 DEF Resend
  <2> QED BY <1>2, <2>1, <2>3, <2>4, ReadStarts
<1>10. ASSUME NEW i \in Ids, Remove(s, i)
       PROVE  Starts(s) /\ StartsConfig(s)
  <2>1. UNCHANGED config /\ f.pc = "idle"
    BY <1>2, <1>10 DEF Remove, db, At
  <2>2. PICK g : g = [f EXCEPT !.op = "remove", !.pc = "delete", !.id = i]
    OBVIOUS
  <2>3. g.op = "remove" /\ g.pc = "delete" /\ g.job = f.job /\ g.list = f.list /\ g.flow = f.flow
    BY <2>2 DEF Frame
  <2>4. frame' = [frame EXCEPT ![s] = g]
    BY <1>1, <1>2, <1>3, <1>10, <2>2 DEF Remove, Frame
  <2>5. Only(s) /\ frame'[s] = g
    BY <1>1, <1>3, <2>4 DEF Only
  <2> QED BY <1>2, <2>1, <2>3, <2>5
<1>11. ASSUME NEW w \in Flows, RemoveConfig(s, w)
       PROVE  Starts(s) /\ StartsConfig(s)
  <2>1. UNCHANGED config /\ f.pc = "idle" /\ config[w] # Null
    BY <1>2, <1>11 DEF RemoveConfig, db, At
  <2>2. PICK g : g = [f EXCEPT !.op = "config", !.pc = "conf.delete", !.flow = w]
    OBVIOUS
  <2>3. g.op = "config" /\ g.pc = "conf.delete" /\ g.job = f.job /\ g.list = f.list /\ g.flow = w
    BY <2>2 DEF Frame
  <2>4. frame' = [frame EXCEPT ![s] = g]
    BY <1>1, <1>2, <1>3, <1>11, <2>2 DEF RemoveConfig, Frame
  <2>5. Only(s) /\ frame'[s] = g
    BY <1>1, <1>3, <2>4 DEF Only
  <2> QED BY <1>2, <2>1, <2>3, <2>5
<1>12. ASSUME NEW w \in Flows, NEW c \in Configs, CreateConfig(s, w, c) \/ UpdateConfig(s, w, c)
       PROVE  Starts(s) /\ StartsConfig(s)
  <2>1. PICK pc \in {"conf.sync", "conf.write"} :
          /\ frame' = [frame EXCEPT ![s].op = "config", ![s].pc = pc, ![s].flow = w, ![s].conf = c]
          /\ f.pc = "idle"
          /\ IF pc = "conf.sync"
             THEN config[w] = Null /\ config' = [config EXCEPT ![w] = c]
             ELSE config[w] # Null /\ UNCHANGED config
    BY <1>2, <1>12 DEF CreateConfig, UpdateConfig, At, db
  <2>2. PICK g : g = [f EXCEPT !.op = "config", !.pc = pc, !.flow = w, !.conf = c]
    OBVIOUS
  <2>3. /\ g.op = "config" /\ g.pc = pc /\ g.job = f.job /\ g.list = f.list /\ g.flow = w
        /\ g.conf = c
    BY <2>2 DEF Frame
  <2>4. frame' = [frame EXCEPT ![s] = g]
    BY <1>1, <1>2, <1>3, <2>1, <2>2 DEF Frame
  <2>5. Only(s) /\ frame'[s] = g
    BY <1>1, <1>3, <2>4 DEF Only
  <2> QED BY <1>2, <2>1, <2>3, <2>5
<1> QED BY <1>1, <1>4, <1>5, <1>6, <1>7, <1>8, <1>9, <1>10, <1>11, <1>12 DEF Request

----------------------------------------------------------------------------
(* From await to await.                                                    *)

Edges ==
  {<<"sms", "presms">>, <<"sms", "fail">>, <<"presms", "enqueue">>, <<"presms", "fail">>,
   <<"enqueue", "scheduled">>, <<"bump", "bump.enqueue">>, <<"trig.call", "trig.record">>,
   <<"trig.call", "bump">>, <<"trig.call", "fail">>, <<"trig.record", "bump">>,
   <<"trig.record", "fail">>, <<"con.config", "con.sms">>, <<"con.sms", "con.write">>,
   <<"end.get", "end.row">>, <<"end.row", "end.config">>, <<"end.config", "bump">>,
   <<"end.config", "end.done">>, <<"resend.bump", "sms">>, <<"conf.write", "conf.sync">>,
   <<"conf.delete", "conf.sync">>}

\* Where the settings of the flow are read.
ReadEdges == {<<"retry.config", "sms">>, <<"trig.config", "trig.call">>,
              <<"ing.config", "ing.write">>, <<"resend.config", "resend.bump">>}

\* Where dispatchOne and skipIfCtaCompleted come to their end.
Ends == {"fail", "scheduled", "skip"}

Walks(s) ==
  LET f == frame[s] IN
  /\ Only(s) /\ f.pc # "idle"
  /\ \/ Stops(s)
     \/ \E e \in Edges : f.pc = e[1] /\ GoesOn(s, e[2])
     \/ f.pc \in Ends /\ GoesBack(s)
     \/ \E e \in ReadEdges : \E c \in Configs :
          f.pc = e[1] /\ c = config[f.key.flow] /\ Reads(s, c, e[2])
     \/ \E i \in Ids, b \in BOOLEAN : f.pc = "ing.write" /\ TakesUp(s, i, b) /\ frame'[s].list = f.list

LEMMA EdgeWalks ==
  ASSUME TypeInv, NEW s \in Slots, NEW a, NEW b, <<a, b>> \in Edges, At(s, a), Goto(s, b)
  PROVE  Walks(s)
<1>1. GoesOn(s, b) /\ Only(s)
  BY GotoGoes DEF GoesOn
<1>2. a # "idle"
  BY DEF Edges
<1>3. PICK e \in Edges : e = <<a, b>>
  OBVIOUS
<1>4. e[1] = a /\ e[2] = b
  BY <1>3
<1> QED BY <1>1, <1>2, <1>3, <1>4 DEF Walks, At

LEMMA CallEdgeWalks ==
  ASSUME TypeInv, NEW s \in Slots, NEW a, NEW b, <<a, b>> \in Edges, At(s, a), NEW n,
         \/ frame' = [frame EXCEPT ![s].call = n, ![s].pc = b]
         \/ frame' = [frame EXCEPT ![s].row = n, ![s].pc = b]
  PROVE  Walks(s)
<1>1. GoesOn(s, b) /\ Only(s)
  BY CallGoes DEF GoesOn
<1>2. a # "idle"
  BY DEF Edges
<1>3. PICK e \in Edges : e = <<a, b>>
  OBVIOUS
<1>4. e[1] = a /\ e[2] = b
  BY <1>3
<1> QED BY <1>1, <1>2, <1>3, <1>4 DEF Walks, At

LEMMA StopWalks ==
  ASSUME TypeInv, NEW s \in Slots, frame[s].pc # "idle", Return(s)
  PROVE  Walks(s)
BY ReturnStops DEF Walks, Stops

LEMMA BackWalks ==
  ASSUME TypeInv, NEW s \in Slots, frame[s].pc \in Ends, DispatchReturn(s)
  PROVE  Walks(s)
<1>1. GoesBack(s)
  BY ReturnGoesBack
<1>2. Only(s)
  BY <1>1 DEF GoesBack, GoesOn, Stops
<1> QED BY <1>1, <1>2 DEF Walks, Ends

LEMMA ReadWalks ==
  ASSUME TypeInv, NEW s \in Slots, NEW a, NEW b, <<a, b>> \in ReadEdges, At(s, a),
         frame[s].key \in Keys, config[frame[s].key.flow] # Null,
         frame' = [frame EXCEPT ![s].conf = config[frame[s].key.flow], ![s].pc = b]
  PROVE  Walks(s)
<1>1. PICK c : c = config[frame[s].key.flow]
  OBVIOUS
<1>2. c \in Configs
  BY <1>1, KeysAssumption DEF TypeInv, TypeOK
<1>3. Reads(s, c, b) /\ Only(s)
  BY <1>1, ConfReads DEF Reads
<1>4. a # "idle"
  BY DEF ReadEdges
<1>5. PICK e \in ReadEdges : e = <<a, b>>
  OBVIOUS
<1>6. e[1] = a /\ e[2] = b
  BY <1>5
<1> QED BY <1>1, <1>2, <1>3, <1>4, <1>5, <1>6 DEF Walks, At

LEMMA DispatchWalks ==
  ASSUME TypeInv, NEW s \in Slots, DispatchStep(s)
  PROVE  Walks(s)
<1>1. CASE SendPreliminarySms(s)
  <2>1. <<"sms", "presms">> \in Edges /\ <<"sms", "fail">> \in Edges
    BY DEF Edges
  <2> QED BY <1>1, <2>1, EdgeWalks DEF SendPreliminarySms
<1>2. CASE RecordPreSmsSent(s)
  <2>1. <<"presms", "enqueue">> \in Edges /\ <<"presms", "fail">> \in Edges
    BY DEF Edges
  <2> QED BY <1>2, <2>1, EdgeWalks DEF RecordPreSmsSent
<1>3. CASE RecordFailed(s) \/ RecordScheduled(s) \/ SkipCtaCompleted(s)
  <2>1. frame[s].pc \in Ends /\ frame[s].pc # "idle"
    BY <1>3 DEF RecordFailed, RecordScheduled, SkipCtaCompleted, At, Ends
  <2>2. DispatchReturn(s) \/ Return(s)
    BY <1>3 DEF RecordFailed, RecordScheduled, SkipCtaCompleted, Throw
  <2> QED BY <2>1, <2>2, BackWalks, StopWalks
<1>4. CASE EnqueueTrigger(s)
  <2>1. <<"enqueue", "scheduled">> \in Edges
    BY DEF Edges
  <2> QED BY <1>4, <2>1, EdgeWalks DEF EnqueueTrigger
<1>5. CASE BumpAttempt(s)
  <2>1. <<"bump", "bump.enqueue">> \in Edges
    BY DEF Edges
  <2>2. frame[s].pc # "idle"
    BY <1>5 DEF BumpAttempt, At
  <2> QED BY <1>5, <2>1, <2>2, EdgeWalks, StopWalks DEF BumpAttempt, Throw
<1>6. CASE EnqueueRetry(s)
  BY <1>6, StopWalks DEF EnqueueRetry, At
<1>7. CASE ReadRetryConfig(s)
  <2>1. <<"retry.config", "sms">> \in ReadEdges
    BY DEF ReadEdges
  <2>2. frame[s].key \in Keys /\ frame[s].pc # "idle"
    BY <1>7 DEF ReadRetryConfig, At, TypeInv, FramesKnown, Known, NeedsKey
  <2> QED BY <1>7, <2>1, <2>2, ReadWalks, StopWalks DEF ReadRetryConfig
<1>8. CASE SyncSchedule(s)
  BY <1>8, StopWalks DEF SyncSchedule, At
<1> QED BY <1>1, <1>2, <1>3, <1>4, <1>5, <1>6, <1>7, <1>8 DEF DispatchStep

LEMMA TriggerWalks ==
  ASSUME TypeInv, NEW s \in Slots, TriggerStep(s)
  PROVE  Walks(s)
<1>1. CASE ReadTriggerConfig(s)
  <2>1. <<"trig.config", "trig.call">> \in ReadEdges
    BY DEF ReadEdges
  <2>2. frame[s].key \in Keys /\ frame[s].pc # "idle"
    BY <1>1 DEF ReadTriggerConfig, At, TypeInv, FramesKnown, Known, NeedsKey
  <2> QED BY <1>1, <2>1, <2>2, ReadWalks, StopWalks DEF ReadTriggerConfig, Throw
<1>2. CASE MakeCall(s)
  <2>1. <<"trig.call", "trig.record">> \in Edges /\ <<"trig.call", AfterTriggerFailure(s)>> \in Edges
    BY DEF Edges, AfterTriggerFailure
  <2> QED BY <1>2, <2>1, EdgeWalks, CallEdgeWalks DEF MakeCall
<1>3. CASE RecordCall(s)
  <2>1. <<"trig.record", AfterTriggerFailure(s)>> \in Edges
    BY DEF Edges, AfterTriggerFailure
  <2>2. frame[s].pc # "idle"
    BY <1>3 DEF RecordCall, At
  <2> QED BY <1>3, <2>1, <2>2, EdgeWalks, StopWalks DEF RecordCall
<1> QED BY <1>1, <1>2, <1>3 DEF TriggerStep

LEMMA IngestWalks ==
  ASSUME TypeInv, TypeInv', NEW s \in Slots, IngestStep(s)
  PROVE  Walks(s)
<1>1. CASE ReadIngestConfig(s)
  <2>1. <<"ing.config", "ing.write">> \in ReadEdges
    BY DEF ReadEdges
  <2>2. frame[s].key \in Keys /\ frame[s].pc # "idle"
    BY <1>1 DEF ReadIngestConfig, At, TypeInv, FramesKnown, Known, NeedsKey
  <2> QED BY <1>1, <2>1, <2>2, ReadWalks, StopWalks DEF ReadIngestConfig
<1>2. CASE WriteRecord(s)
  <2>1. frame[s].pc = "ing.write"
    BY <1>2 DEF WriteRecord, At
  <2>2. ASSUME NEW i \in Ids, AfterIngest(s, i)
        PROVE  Walks(s)
    <3>1. runs'[i].cta \in BOOLEAN
      BY DEF TypeInv, TypeOK, Row
    <3>2. \/ TakesUp(s, i, runs'[i].cta) /\ frame'[s].list = frame[s].list
          \/ Stops(s)
      BY <2>2, IngestTakesUp
    <3> QED BY <2>1, <3>1, <3>2 DEF Walks, TakesUp, Stops
  <2> QED BY <1>2, <2>1, <2>2, StopWalks DEF WriteRecord, Exists
<1>3. CASE WriteCta(s)
  BY <1>3, StopWalks DEF WriteCta, At
<1> QED BY <1>1, <1>2, <1>3 DEF IngestStep

LEMMA WebhookWalks ==
  ASSUME TypeInv, NEW s \in Slots, WebhookStep(s)
  PROVE  Walks(s)
<1>1. CASE ReadConsentConfig(s)
  <2>1. <<"con.config", "con.sms">> \in Edges /\ frame[s].pc # "idle"
    BY <1>1 DEF Edges, ReadConsentConfig, At
  <2> QED BY <1>1, <2>1, EdgeWalks, StopWalks DEF ReadConsentConfig
<1>2. CASE SendConsentSms(s)
  <2>1. <<"con.sms", "con.write">> \in Edges /\ frame[s].pc # "idle"
    BY <1>2 DEF Edges, SendConsentSms, At
  <2> QED BY <1>2, <2>1, EdgeWalks, StopWalks DEF SendConsentSms
<1>3. CASE RecordConsent(s) \/ RecordCompleted(s)
  BY <1>3, StopWalks DEF RecordConsent, RecordCompleted, At
<1>4. CASE FindPendingCall(s)
  <2>1. <<"end.get", "end.row">> \in Edges /\ frame[s].pc # "idle"
    BY <1>4 DEF Edges, FindPendingCall, At
  <2> QED BY <1>4, <2>1, EdgeWalks, CallEdgeWalks, StopWalks DEF FindPendingCall
<1>5. CASE RecordCallEnd(s)
  <2>1. <<"end.row", "end.config">> \in Edges /\ frame[s].pc # "idle"
    BY <1>5 DEF Edges, RecordCallEnd, At
  <2> QED BY <1>5, <2>1, EdgeWalks, StopWalks DEF RecordCallEnd
<1>6. CASE DecideRetry(s)
  <2>1. <<"end.config", "bump">> \in Edges /\ <<"end.config", "end.done">> \in Edges
        /\ frame[s].pc # "idle"
    BY <1>6 DEF Edges, DecideRetry, At
  <2> QED BY <1>6, <2>1, EdgeWalks, StopWalks DEF DecideRetry
<1> QED BY <1>1, <1>2, <1>3, <1>4, <1>5, <1>6 DEF WebhookStep

LEMMA AdminWalks ==
  ASSUME TypeInv, NEW s \in Slots, AdminStep(s)
  PROVE  Walks(s)
<1>1. CASE ReadResendConfig(s)
  <2>1. <<"resend.config", "resend.bump">> \in ReadEdges
    BY DEF ReadEdges
  <2>2. frame[s].key \in Keys /\ frame[s].pc # "idle"
    BY <1>1 DEF ReadResendConfig, At, TypeInv, FramesKnown, Known, NeedsKey
  <2> QED BY <1>1, <2>1, <2>2, ReadWalks, StopWalks DEF ReadResendConfig
<1>2. CASE ResendNow(s)
  <2>1. <<"resend.bump", "sms">> \in Edges /\ frame[s].pc # "idle"
    BY <1>2 DEF Edges, ResendNow, At
  <2> QED BY <1>2, <2>1, EdgeWalks, StopWalks DEF ResendNow
<1>3. CASE DeleteRecord(s)
  BY <1>3, StopWalks DEF DeleteRecord, At
<1>4. CASE WriteConfig(s)
  <2>1. /\ <<"conf.write", "conf.sync">> \in Edges /\ <<"conf.delete", "conf.sync">> \in Edges
        /\ frame[s].pc # "idle"
    BY <1>4 DEF Edges, WriteConfig, At
  <2> QED BY <1>4, <2>1, EdgeWalks, StopWalks DEF WriteConfig
<1> QED BY <1>1, <1>2, <1>3, <1>4 DEF AdminStep

LEMMA HandlerWalks ==
  ASSUME TypeInv, TypeInv', NEW s \in Slots, HandlerStep(s)
  PROVE  Walks(s)
BY DispatchWalks, TriggerWalks, IngestWalks, WebhookWalks, AdminWalks DEF HandlerStep

----------------------------------------------------------------------------
(* Whose awaits are whose.                                                 *)

CallPcs  == {"idle", "skip", "trig.config", "trig.call", "trig.record", "bump",
             "bump.enqueue", "fail"}
RetryPcs == {"idle", "skip", "retry.config", "sms", "presms", "fail", "enqueue", "scheduled"}
BatchPcs == {"idle", "skip", "batch.list", "batch.next", "sms", "presms", "fail", "enqueue",
             "scheduled"}
HttpPcs  == Pcs \ {"trig.config", "trig.call", "trig.record", "retry.config", "batch.list",
                   "batch.next"}
PcsOf(s) == CASE s = "trigger" -> CallPcs
              [] s = "retry"   -> RetryPcs
              [] s \in Flows   -> BatchPcs
              [] OTHER         -> HttpPcs

EndPcs  == {"end.get", "end.row", "end.config"}
HasConf == {"trig.call", "trig.record", "ing.write", "resend.bump", "sms", "presms",
            "enqueue", "scheduled"}

\* What a frame holds at each await: the worker's job and the record it names,
\* settings once they are read, a flow only while its settings are changed.
FrameFits(s, f) ==
  /\ f.pc \in PcsOf(s)
  /\ f.pc = "idle" => f = Idle
  /\ f.op = "dispatch" <=> s \in Flows /\ f.pc # "idle"
  /\ f.job # Null => f.job \in Jobs /\ f.job.on = s /\ (s \notin Flows => f.job.id = f.id)
  /\ f.pc \notin NeedsFlow => f.flow = Null
  /\ f.pc \in HasConf \/ f.op = "dispatch" => f.conf \in Configs
  /\ f.pc \in EndPcs => f.key \in Keys
  /\ s \in {"trigger", "retry"} /\ f.pc # "idle" => f.job # Null

FrameInv == \A s \in Slots : FrameFits(s, frame[s])

LEMMA IdleFits ==
  ASSUME NEW s \in Slots
  PROVE  FrameFits(s, Idle)
BY DEF FrameFits, Idle, PcsOf, CallPcs, RetryPcs, BatchPcs, HttpPcs, Pcs, HasConf, NeedsFlow,
   EndPcs

LEMMA PcsOfSlot ==
  ASSUME NEW s \in Slots
  PROVE  /\ s = "trigger" => PcsOf(s) = CallPcs
         /\ s = "retry" => PcsOf(s) = RetryPcs
         /\ s \in Flows => PcsOf(s) = BatchPcs
         /\ s \notin {"trigger", "retry"} \cup Flows => PcsOf(s) = HttpPcs
<1>1. s \in Flows => s # "trigger" /\ s # "retry"
  BY SlotsAssumption
<1>2. "trigger" # "retry"
  OBVIOUS
<1> QED BY <1>1, <1>2 DEF PcsOf

\* An edge stays within the handler's own awaits.
LEMMA EdgeWithin ==
  ASSUME NEW s \in Slots, NEW e \in Edges, e[1] \in PcsOf(s)
  PROVE  e[2] \in PcsOf(s)
<1>1. CASE s = "trigger"
  <2>1. e[1] \in CallPcs => e[2] \in CallPcs
    BY DEF CallPcs, Edges
  <2> QED BY <1>1, <2>1, PcsOfSlot
<1>2. CASE s = "retry"
  <2>1. e[1] \in RetryPcs => e[2] \in RetryPcs
    BY DEF RetryPcs, Edges
  <2> QED BY <1>2, <2>1, PcsOfSlot
<1>3. CASE s \in Flows
  <2>1. e[1] \in BatchPcs => e[2] \in BatchPcs
    BY DEF BatchPcs, Edges
  <2> QED BY <1>3, <2>1, PcsOfSlot
<1>4. CASE s \notin {"trigger", "retry"} \cup Flows
  <2>1. e[1] \in HttpPcs => e[2] \in HttpPcs
    BY DEF HttpPcs, Pcs, Edges
  <2> QED BY <1>4, <2>1, PcsOfSlot
<1> QED BY <1>1, <1>2, <1>3, <1>4

LEMMA EdgeKeeps ==
  ASSUME NEW e \in Edges
  PROVE  /\ e[1] # "idle" /\ e[2] # "idle" /\ (e[2] \notin NeedsFlow => e[1] \notin NeedsFlow)
         /\ e[2] \in HasConf => e[1] \in HasConf
         /\ e[2] \in EndPcs => e[1] \in EndPcs
BY DEF Edges, NeedsFlow, HasConf, EndPcs

LEMMA ReadWithin ==
  ASSUME NEW s \in Slots, NEW e \in ReadEdges, e[1] \in PcsOf(s)
  PROVE  e[2] \in PcsOf(s)
<1>1. CASE s = "trigger"
  <2>1. e[1] \in CallPcs => e[2] \in CallPcs
    BY DEF CallPcs, ReadEdges
  <2> QED BY <1>1, <2>1, PcsOfSlot
<1>2. CASE s = "retry"
  <2>1. e[1] \in RetryPcs => e[2] \in RetryPcs
    BY DEF RetryPcs, ReadEdges
  <2> QED BY <1>2, <2>1, PcsOfSlot
<1>3. CASE s \in Flows
  <2>1. e[1] \in BatchPcs => e[2] \in BatchPcs
    BY DEF BatchPcs, ReadEdges
  <2> QED BY <1>3, <2>1, PcsOfSlot
<1>4. CASE s \notin {"trigger", "retry"} \cup Flows
  <2>1. e[1] \in HttpPcs => e[2] \in HttpPcs
    BY DEF HttpPcs, Pcs, ReadEdges
  <2> QED BY <1>4, <2>1, PcsOfSlot
<1> QED BY <1>1, <1>2, <1>3, <1>4

LEMMA WalkFits ==
  ASSUME TypeInv, NEW s \in Slots, FrameFits(s, frame[s]), Walks(s)
  PROVE  FrameFits(s, frame'[s])
<1>1. CASE Stops(s)
  BY <1>1, IdleFits DEF Stops
<1>2. ASSUME NEW e \in Edges, frame[s].pc = e[1], GoesOn(s, e[2])
      PROVE  FrameFits(s, frame'[s])
  BY <1>2, EdgeWithin, EdgeKeeps DEF FrameFits, GoesOn, Kept, Edges
<1>3. CASE frame[s].pc \in Ends /\ GoesBack(s)
  <2>1. CASE frame[s].op = "dispatch"
    <3>1. GoesOn(s, "batch.next") /\ s \in Flows
      BY <1>3, <2>1 DEF GoesBack, FrameFits
    <3>2. "batch.next" \in PcsOf(s)
      BY <3>1, SlotsAssumption DEF PcsOf, BatchPcs
    <3>3. frame[s].pc \notin NeedsFlow
      BY <1>3 DEF Ends, NeedsFlow
    <3> QED BY <1>3, <3>1, <3>2, <3>3, SlotsAssumption
            DEF FrameFits, GoesOn, Kept, NeedsFlow, HasConf, Ends, EndPcs
  <2>2. CASE frame[s].op # "dispatch"
    BY <1>3, <2>2, IdleFits DEF GoesBack, Stops
  <2> QED BY <2>1, <2>2
<1>4. ASSUME NEW e \in ReadEdges, NEW c \in Configs, frame[s].pc = e[1], Reads(s, c, e[2])
      PROVE  FrameFits(s, frame'[s])
  <2>1. /\ e[2] # "idle" /\ e[1] # "idle" /\ e[2] \notin NeedsFlow /\ e[1] \notin NeedsFlow
        /\ e[2] \notin EndPcs
    BY DEF ReadEdges, NeedsFlow, EndPcs
  <2>2. e[2] \in PcsOf(s)
    BY <1>4, ReadWithin DEF FrameFits
  <2> QED BY <1>4, <2>1, <2>2 DEF FrameFits, Reads, Kept
<1>5. ASSUME NEW i \in Ids, NEW b \in BOOLEAN, frame[s].pc = "ing.write", TakesUp(s, i, b)
      PROVE  FrameFits(s, frame'[s])
  <2>1. s \notin {"trigger", "retry"} \cup Flows
    BY <1>5, SlotsAssumption DEF FrameFits, PcsOf, CallPcs, RetryPcs, BatchPcs
  <2>2. frame[s].job = Null
    BY <2>1 DEF FrameFits, Jobs, Workers
  <2>3. frame'[s].pc \in {"skip", "sms"} /\ frame'[s].pc \in PcsOf(s)
    BY <1>5, <2>1 DEF TakesUp, PcsOf, HttpPcs, Pcs
  <2>4. frame[s].conf \in Configs /\ frame[s].flow = Null /\ frame[s].op # "dispatch"
    BY <1>5, <2>1 DEF FrameFits, HasConf, NeedsFlow
  <2> QED BY <1>5, <2>1, <2>2, <2>3, <2>4 DEF FrameFits, TakesUp, NeedsFlow, EndPcs
<1> QED BY <1>1, <1>2, <1>3, <1>4, <1>5 DEF Walks

LEMMA BatchFits ==
  ASSUME TypeInv, NEW w \in Flows, FrameFits(w, frame[w]), BatchStep(w)
  PROVE  Only(w) /\ FrameFits(w, frame'[w])
<1>1. w \in Slots /\ w \notin {"trigger", "retry"}
  BY WorkerSlots, SlotsAssumption
<1>2. BatchPcs = PcsOf(w)
  BY <1>1 DEF PcsOf
<1>3. frame[w].pc \in {"batch.list", "batch.next"}
  BY DEF BatchStep, ListPending, NextPending, At
<1>4. frame[w].flow = Null /\ frame[w].op = "dispatch" /\ frame[w].conf \in Configs
  BY <1>3 DEF FrameFits, NeedsFlow
<1>5. CASE ListPending(w)
  <2>1. /\ Only(w) /\ frame'[w].pc = "batch.next" /\ frame'[w].op = frame[w].op
        /\ frame'[w].job = frame[w].job /\ frame'[w].conf = frame[w].conf
        /\ frame'[w].flow = frame[w].flow
    BY <1>5, ListGoes
  <2>2. "batch.next" \in PcsOf(w) /\ "batch.next" \notin EndPcs
    BY <1>2 DEF BatchPcs, EndPcs
  <2> QED BY <1>1, <1>3, <1>4, <2>1, <2>2 DEF FrameFits
<1>6. CASE Stops(w)
  BY <1>1, <1>6, IdleFits DEF Stops
<1>7. ASSUME NEW x, TakesUp(w, x.id, x.cta)
      PROVE  Only(w) /\ FrameFits(w, frame'[w])
  <2>1. frame'[w].pc \in {"skip", "sms"} /\ frame'[w].pc \in PcsOf(w)
    BY <1>2, <1>7 DEF TakesUp, BatchPcs
  <2> QED BY <1>1, <1>3, <1>4, <1>7, <2>1 DEF FrameFits, TakesUp, EndPcs
<1> QED BY <1>5, <1>6, <1>7, NextTakesUp DEF BatchStep

LEMMA OpenFits ==
  ASSUME TypeInv, NEW j \in Jobs, NEW s \in {"trigger", "retry"}, FrameFits(s, frame[s]),
         frame[s].pc = "idle", j.on = s,
         Opens(s, s, j, IF s = "trigger" THEN "trig.config" ELSE "retry.config")
  PROVE  FrameFits(s, frame'[s])
<1>1. s \notin Flows /\ "dispatch" \notin {"trigger", "retry"}
  BY SlotsAssumption
<1>2. frame[s].flow = Null
  BY DEF FrameFits, NeedsFlow
<1>3. /\ frame'[s].pc \in {"skip", IF s = "trigger" THEN "trig.config" ELSE "retry.config"}
      /\ frame'[s].op = s /\ frame'[s].job = j /\ frame'[s].id = j.id /\ frame'[s].flow = Null
  BY <1>2 DEF Opens
<1>4. frame'[s].pc \in PcsOf(s) /\ frame'[s].pc # "idle" /\ frame'[s].pc \notin HasConf \cup EndPcs
  <2>1. /\ {"skip", "trig.config"} \subseteq CallPcs /\ {"skip", "retry.config"} \subseteq RetryPcs
        /\ {"skip", "trig.config", "retry.config"} \cap ({"idle"} \cup HasConf \cup EndPcs) = {}
    BY DEF CallPcs, RetryPcs, HasConf, EndPcs
  <2>2. PcsOf(s) = IF s = "trigger" THEN CallPcs ELSE RetryPcs
    BY PcsOfSlot, WorkerSlots
  <2> QED BY <1>3, <2>1, <2>2
<1> QED BY <1>1, <1>3, <1>4, JobsAssumption DEF FrameFits

LEMMA FetchFits ==
  ASSUME TypeInv, FrameInv, NEW j \in Jobs, FetchStep(j)
  PROVE  FrameInv'
<1>1. ASSUME NEW s \in {"trigger", "retry"}, IF s = "trigger" THEN FetchTrigger(j) ELSE FetchRetry(j)
      PROVE  FrameInv'
  <2>1. /\ s \in Slots /\ j.on = s /\ frame[s].pc = "idle"
        /\ \/ Opens(s, s, j, IF s = "trigger" THEN "trig.config" ELSE "retry.config")
           \/ UNCHANGED frame
    BY <1>1, FetchOpens
  <2>2. FrameFits(s, frame[s])
    BY <2>1 DEF FrameInv
  <2>3. Opens(s, s, j, IF s = "trigger" THEN "trig.config" ELSE "retry.config") =>
          Only(s) /\ FrameFits(s, frame'[s])
    BY <2>1, <2>2, OpenFits DEF Opens
  <2> QED BY <2>1, <2>3 DEF FrameInv, Only
<1>2. ASSUME NEW w \in Flows, FetchDispatch(w, j)
      PROVE  FrameInv'
  <2>1. /\ w \in Slots /\ j.on = w /\ frame[w].pc = "idle"
        /\ \/ /\ config[w] # Null /\ Only(w) /\ frame'[w].op = "dispatch" /\ frame'[w].job = j
              /\ frame'[w].pc = "batch.list" /\ frame'[w].conf = config[w]
              /\ frame'[w].flow = frame[w].flow
           \/ UNCHANGED frame
    BY <1>2, FetchBatch
  <2>2. FrameFits(w, frame[w]) /\ w \notin {"trigger", "retry"}
    BY <2>1, SlotsAssumption DEF FrameInv
  <2>3. "batch.list" \in PcsOf(w) /\ "batch.list" \notin NeedsFlow \cup EndPcs
    BY <2>2 DEF PcsOf, BatchPcs, NeedsFlow, EndPcs
  <2>4. config[w] \in Configs \cup {Null} /\ frame[w].flow = Null
    BY <2>1, <2>2 DEF TypeInv, TypeOK, FrameFits, NeedsFlow
  <2>5. CASE UNCHANGED frame
    BY <2>5 DEF FrameInv
  <2>6. CASE ~UNCHANGED frame
    <3>1. FrameFits(w, frame'[w])
      BY <2>1, <2>2, <2>3, <2>4, <2>6 DEF FrameFits
    <3> QED BY <2>1, <2>6, <3>1 DEF FrameInv, Only
  <2> QED BY <2>5, <2>6
<1> QED BY <1>1, <1>2 DEF FetchStep

LEMMA StartFits ==
  ASSUME TypeInv, NEW s \in HttpSlots, FrameFits(s, frame[s]), Starts(s), StartsConfig(s)
  PROVE  FrameFits(s, frame'[s])
<1>1. s \notin {"trigger", "retry"} \cup Flows /\ s \in Slots
  BY SlotsAssumption, WorkerSlots
<1>2. frame'[s].pc \in PcsOf(s) /\ frame'[s].pc # "idle" /\ frame'[s].pc \notin HasConf
  <2>1. Entries \subseteq HttpPcs /\ "idle" \notin Entries /\ Entries \cap HasConf = {}
    BY DEF Entries, HttpPcs, Pcs, HasConf
  <2>2. PcsOf(s) = HttpPcs
    BY <1>1, PcsOfSlot
  <2> QED BY <2>1, <2>2 DEF Starts
<1>3. frame[s].job = Null /\ frame[s].flow = Null
  BY DEF Starts, FrameFits, Idle
<1>4. frame'[s].pc \in EndPcs => frame'[s].key \in Keys
  <2>1. frame'[s].pc \in EndPcs => frame'[s].pc = "end.get"
    BY DEF Starts, Entries, EndPcs
  <2> QED BY <2>1 DEF Starts, Exists, TypeInv, RowsKnown
<1> QED BY <1>1, <1>2, <1>3, <1>4 DEF Starts, FrameFits

LEMMA InitFrameInv == Init => FrameInv
<1>1. ASSUME Init, NEW s \in Slots
      PROVE  frame[s] = Idle
  BY <1>1 DEF Init
<1> QED BY <1>1, IdleFits DEF FrameInv

LEMMA NextFrameInv == TypeInv /\ TypeInv' /\ FrameInv /\ [Next]_vars => FrameInv'
<1> SUFFICES ASSUME TypeInv, TypeInv', FrameInv, [Next]_vars
             PROVE  FrameInv'
  OBVIOUS
<1>1. ASSUME NEW s \in Slots, Only(s), FrameFits(s, frame'[s])
      PROVE  FrameInv'
  BY <1>1 DEF FrameInv, Only
<1>2. ASSUME NEW s \in Slots, HandlerStep(s)
      PROVE  FrameInv'
  BY <1>1, <1>2, HandlerWalks, WalkFits DEF FrameInv, Walks
<1>3. ASSUME NEW w \in Flows, BatchStep(w)
      PROVE  FrameInv'
  <2>1. w \in Slots
    BY WorkerSlots
  <2> QED BY <1>1, <1>3, <2>1, BatchFits DEF FrameInv
<1>4. ASSUME NEW s \in HttpSlots, Request(s)
      PROVE  FrameInv'
  <2>1. s \in Slots /\ Starts(s) /\ StartsConfig(s)
    BY <1>4, RequestStarts
  <2>2. Only(s)
    BY <2>1 DEF Starts
  <2> QED BY <1>1, <2>1, <2>2, StartFits DEF FrameInv
<1>5. CASE Restart
  <2>1. ASSUME NEW s \in Slots
        PROVE  frame'[s] = Idle
    BY <1>5 DEF Restart
  <2> QED BY <2>1, IdleFits DEF FrameInv
<1>6. ASSUME UNCHANGED frame
      PROVE  FrameInv'
  BY <1>6 DEF FrameInv
<1>7. CASE (\E f \in Flows : CronTick(f)) \/ (\E n \in DOMAIN nlpearl : CallFinishes(n)) \/ Quiescent
  BY <1>6, <1>7 DEF CronTick, CallFinishes, Quiescent, vars
<1> QED BY <1>2, <1>3, <1>4, <1>5, <1>6, <1>7, FetchFits DEF Next, vars

LEMMA FrameInvariance == Spec => []FrameInv
<1>1. Init => FrameInv
  BY InitFrameInv
<1>2. TypeInv /\ TypeInv' /\ FrameInv /\ [Next]_vars => FrameInv'
  BY NextFrameInv
<1> QED BY <1>1, <1>2, RecordInvariance, PTL DEF Spec

----------------------------------------------------------------------------
(* Schedules.                                                              *)

\* No two changes of the same flow's settings are under way at once.
OneChange ==
  \A s, t \in Slots :
    /\ frame[s].pc \in NeedsFlow /\ frame[t].pc \in NeedsFlow
    /\ frame[s].flow = frame[t].flow
    => s = t

\* The settings a handler is about to pass on to pg-boss are those in the table.
InSync == \A s \in Slots : At(s, "conf.sync") => config[frame[s].flow] = frame[s].conf

ScheduleInv == InSync /\ ScheduleArmed

LEMMA OtherWalks ==
  ASSUME TypeInv, NEW s \in Slots, FrameFits(s, frame[s]), Walks(s),
         frame[s].pc \notin NeedsFlow
  PROVE  frame'[s].pc \notin NeedsFlow /\ frame'[s].flow = frame[s].flow
<1>1. frame[s].flow = Null
  BY DEF FrameFits
<1>2. frame'[s].pc \notin NeedsFlow
  <2>1. CASE Stops(s)
    BY <2>1 DEF Stops, Idle, NeedsFlow
  <2>2. ASSUME NEW e \in Edges, frame[s].pc = e[1], GoesOn(s, e[2])
        PROVE  frame'[s].pc \notin NeedsFlow
    <3>1. e[1] \notin NeedsFlow => e[2] \notin NeedsFlow
      BY DEF Edges, NeedsFlow
    <3> QED BY <2>2, <3>1 DEF GoesOn
  <2>3. CASE GoesBack(s)
    BY <2>3 DEF GoesBack, GoesOn, Stops, Idle, NeedsFlow
  <2>4. ASSUME NEW e \in ReadEdges, NEW c, Reads(s, c, e[2])
        PROVE  frame'[s].pc \notin NeedsFlow
    <3>1. e[2] \notin NeedsFlow
      BY DEF ReadEdges, NeedsFlow
    <3> QED BY <2>4, <3>1 DEF Reads
  <2>5. ASSUME NEW i, NEW b, TakesUp(s, i, b)
        PROVE  frame'[s].pc \notin NeedsFlow
    BY <2>5 DEF TakesUp, NeedsFlow
  <2> QED BY <2>1, <2>2, <2>3, <2>4, <2>5 DEF Walks
<1>3. FrameFits(s, frame'[s])
  BY WalkFits
<1> QED BY <1>1, <1>2, <1>3 DEF FrameFits

\* A step that has nothing to do with settings leaves them in order.
LEMMA ElsewhereArmed ==
  ASSUME ScheduleInv, UNCHANGED <<config, cron, registered>>,
         \A t \in Slots : /\ frame'[t].flow = frame[t].flow
                          /\ frame'[t].pc = "conf.sync" => frame'[t] = frame[t]
  PROVE  ScheduleInv'
<1>1. InSync'
  BY DEF ScheduleInv, InSync, At
<1>2. ScheduleArmed'
  BY DEF ScheduleInv, ScheduleArmed
<1> QED BY <1>1, <1>2 DEF ScheduleInv

LEMMA ConfigArmed ==
  ASSUME TypeInv, FrameInv, ScheduleInv, OneChange, NEW s \in Slots, WriteConfig(s)
  PROVE  ScheduleInv'
<1>1. PICK w : w = frame[s].flow
  OBVIOUS
<1>2. frame[s].pc \in NeedsFlow /\ w \in Flows
  BY <1>1 DEF WriteConfig, At, NeedsFlow, TypeInv, FramesKnown, Known
<1>3. UNCHANGED <<cron, registered>> /\ config \in [Flows -> Configs \cup {Null}]
  BY DEF WriteConfig, boss, TypeInv, TypeOK
<1>4. CASE Goto(s, "conf.sync") /\ config' = [config EXCEPT ![w] = frame[s].conf]
  <2>1. Only(s) /\ frame'[s].flow = w /\ frame'[s].conf = frame[s].conf
    BY <1>1, <1>4, GotoGoes DEF GoesOn, Kept
  <2>2. ASSUME NEW t \in Slots, frame'[t].pc = "conf.sync"
        PROVE  config'[frame'[t].flow] = frame'[t].conf
    <3>1. CASE t = s
      BY <1>2, <1>3, <1>4, <2>1, <3>1
    <3>2. CASE t # s
      <4>1. frame'[t] = frame[t] /\ frame[t].pc \in NeedsFlow
        BY <2>1, <2>2, <3>2 DEF Only, NeedsFlow
      <4>2. frame[t].flow # w /\ frame[t].flow \in Flows
        BY <1>1, <1>2, <3>2, <4>1 DEF OneChange, TypeInv, FramesKnown, Known
      <4>3. config[frame[t].flow] = frame[t].conf
        BY <2>2, <4>1 DEF ScheduleInv, InSync, At
      <4> QED BY <1>3, <1>4, <4>1, <4>2, <4>3
    <3> QED BY <3>1, <3>2
  <2>3. ASSUME NEW f \in Flows
        PROVE  \/ \E t \in Slots : frame'[t].flow = f
               \/ config'[f] = Null
               \/ config'[f].enabled /\ config'[f].sendSchedule => f \in cron' \cap registered'
    <3>1. CASE f = w
      BY <2>1, <3>1
    <3>2. CASE f # w
      <4>1. config'[f] = config[f]
        BY <1>3, <1>4, <3>2
      <4>2. \A t \in Slots : frame'[t].flow = frame[t].flow
        BY <1>1, <2>1 DEF Only
      <4> QED BY <1>3, <4>1, <4>2 DEF ScheduleInv, ScheduleArmed
    <3> QED BY <3>1, <3>2
  <2> QED BY <2>2, <2>3 DEF ScheduleInv, InSync, ScheduleArmed, At
<1>5. CASE Return(s) /\ config[w] = Null /\ UNCHANGED config
  <2>1. Only(s) /\ frame'[s] = Idle
    BY <1>5, ReturnStops DEF Stops
  <2>2. InSync'
    BY <1>5, <2>1 DEF ScheduleInv, InSync, At, Only, Idle
  <2>3. ASSUME NEW f \in Flows, f # w
        PROVE  (\E t \in Slots : frame[t].flow = f) => (\E t \in Slots : frame'[t].flow = f)
    BY <1>1, <2>1, <2>3 DEF Only
  <2> QED BY <1>3, <1>5, <2>2, <2>3 DEF ScheduleInv, ScheduleArmed
<1> QED BY <1>1, <1>4, <1>5 DEF WriteConfig

LEMMA SyncArmed ==
  ASSUME TypeInv, ScheduleInv, NEW s \in Slots, SyncSchedule(s)
  PROVE  ScheduleInv'
<1>1. PICK w, c : w = frame[s].flow /\ c = frame[s].conf
  OBVIOUS
<1>2. w \in Flows /\ config[w] = c
  BY <1>1 DEF SyncSchedule, At, NeedsFlow, TypeInv, FramesKnown, Known, ScheduleInv, InSync
<1>3. UNCHANGED config
  BY DEF SyncSchedule, db
<1>4. Only(s) /\ frame'[s] = Idle
  BY ReturnStops DEF SyncSchedule, Stops
<1>5. IF c # Null /\ c.enabled /\ c.sendSchedule
      THEN cron' = cron \cup {w} /\ registered' = registered \cup {w}
      ELSE cron' = cron \ {w} /\ UNCHANGED registered
  BY <1>1 DEF SyncSchedule
<1>6. InSync'
  BY <1>3, <1>4 DEF ScheduleInv, InSync, At, Only, Idle
<1>7. ASSUME NEW f \in Flows
      PROVE  \/ \E t \in Slots : frame'[t].flow = f
             \/ config'[f] = Null
             \/ config'[f].enabled /\ config'[f].sendSchedule => f \in cron' \cap registered'
  <2>1. CASE f = w
    BY <1>2, <1>3, <1>5, <2>1
  <2>2. CASE f # w
    <3>1. (\E t \in Slots : frame[t].flow = f) => (\E t \in Slots : frame'[t].flow = f)
      BY <1>1, <1>4, <2>2 DEF Only
    <3>2. f \in cron \cap registered => f \in cron' \cap registered'
      BY <1>5, <2>2
    <3> QED BY <1>3, <3>1, <3>2 DEF ScheduleInv, ScheduleArmed
  <2> QED BY <2>1, <2>2
<1> QED BY <1>6, <1>7 DEF ScheduleInv, ScheduleArmed

LEMMA RequestArmed ==
  ASSUME TypeInv, FrameInv, ScheduleInv, OneChange', NEW s \in HttpSlots, Request(s)
  PROVE  ScheduleInv'
<1>1. s \in Slots /\ Starts(s) /\ StartsConfig(s) /\ UNCHANGED <<cron, registered>>
  BY RequestStarts
<1>2. Only(s) /\ frame[s].pc = "idle" /\ frame[s].flow = Null
  BY <1>1 DEF Starts, FrameInv, FrameFits, NeedsFlow
<1>3. CASE frame'[s].pc \notin NeedsFlow
  <2>1. frame'[s].flow = frame[s].flow /\ UNCHANGED config
    BY <1>1, <1>3 DEF Starts, StartsConfig
  <2> QED BY <1>1, <1>2, <1>3, <2>1, ElsewhereArmed DEF Only, NeedsFlow
<1>4. CASE frame'[s].pc \in NeedsFlow
  <2>1. PICK w \in Flows : w = frame'[s].flow
    BY <1>1, <1>4 DEF StartsConfig
  <2>2. config \in [Flows -> Configs \cup {Null}]
    BY DEF TypeInv, TypeOK
  <2>3. \A f \in Flows : f # w => config'[f] = config[f]
    BY <1>1, <1>4, <2>1, <2>2 DEF StartsConfig
  <2>4. ASSUME NEW t \in Slots, frame'[t].pc = "conf.sync"
        PROVE  config'[frame'[t].flow] = frame'[t].conf
    <3>1. CASE t = s
      BY <1>1, <1>4, <2>1, <2>2, <2>4, <3>1 DEF StartsConfig
    <3>2. CASE t # s
      <4>1. frame'[t] = frame[t] /\ frame'[t].pc \in NeedsFlow
        BY <1>2, <2>4, <3>2 DEF Only, NeedsFlow
      <4>2. frame'[t].flow # w
        BY <1>1, <1>4, <2>1, <3>2, <4>1 DEF OneChange
      <4>3. frame[t].flow \in Flows /\ config[frame[t].flow] = frame[t].conf
        BY <2>4, <4>1 DEF ScheduleInv, InSync, At, TypeInv, FramesKnown, Known
      <4> QED BY <2>3, <4>1, <4>2, <4>3
    <3> QED BY <3>1, <3>2
  <2>5. ASSUME NEW f \in Flows
        PROVE  \/ \E t \in Slots : frame'[t].flow = f
               \/ config'[f] = Null
               \/ config'[f].enabled /\ config'[f].sendSchedule => f \in cron' \cap registered'
    <3>1. CASE f = w
      BY <1>1, <2>1, <3>1
    <3>2. CASE f # w
      <4>1. ASSUME NEW t \in Slots, frame[t].flow = f
            PROVE  \E u \in Slots : frame'[u].flow = f
        BY <1>2, <4>1, NullAssumption DEF Only
      <4> QED BY <1>1, <2>3, <3>2, <4>1 DEF ScheduleInv, ScheduleArmed
    <3> QED BY <3>1, <3>2
  <2> QED BY <2>4, <2>5 DEF ScheduleInv, InSync, ScheduleArmed, At
<1> QED BY <1>3, <1>4

LEMMA RestartArmed ==
  ASSUME TypeInv, Restart
  PROVE  ScheduleInv'
<1>1. UNCHANGED config /\ config \in [Flows -> Configs \cup {Null}]
  BY DEF Restart, db, TypeInv, TypeOK
<1>2. /\ registered' = {f \in Flows : config[f] # Null /\ config[f].enabled /\ config[f].sendSchedule}
      /\ cron' = cron \cup registered'
      /\ \A s \in Slots : frame'[s] = Idle
  BY DEF Restart
<1> QED BY <1>1, <1>2 DEF ScheduleInv, InSync, ScheduleArmed, At, Idle

LEMMA InitScheduleInv == Init => ScheduleInv
<1> SUFFICES ASSUME Init PROVE ScheduleInv
  OBVIOUS
<1>1. \A s \in Slots : frame[s] = Idle
  BY DEF Init
<1>2. cron = {f \in Flows : config[f].enabled /\ config[f].sendSchedule} /\ registered = cron
  BY DEF Init
<1> QED BY <1>1, <1>2 DEF ScheduleInv, InSync, ScheduleArmed, At, Idle

\* Nothing but SyncSchedule touches the schedules, nothing but the requests and
\* WriteConfig the settings.
LEMMA HandlersApart ==
  ASSUME NEW s, HandlerStep(s), ~SyncSchedule(s), ~WriteConfig(s)
  PROVE  UNCHANGED <<config, cron, registered>> /\ frame[s].pc \notin NeedsFlow
<1> USE DEF db, boss, At, NeedsFlow
<1>1. CASE DispatchStep(s)
  BY <1>1 DEF DispatchStep, SendPreliminarySms, RecordPreSmsSent, RecordFailed, EnqueueTrigger,
     RecordScheduled, SkipCtaCompleted, BumpAttempt, EnqueueRetry, ReadRetryConfig
<1>2. CASE TriggerStep(s)
  BY <1>2 DEF TriggerStep, ReadTriggerConfig, MakeCall, RecordCall
<1>3. CASE IngestStep(s)
  BY <1>3 DEF IngestStep, ReadIngestConfig, WriteRecord, WriteCta
<1>4. CASE WebhookStep(s)
  BY <1>4 DEF WebhookStep, ReadConsentConfig, SendConsentSms, RecordConsent, FindPendingCall,
     RecordCallEnd, DecideRetry, RecordCompleted
<1>5. CASE AdminStep(s)
  BY <1>5 DEF AdminStep, ReadResendConfig, ResendNow, DeleteRecord
<1> QED BY <1>1, <1>2, <1>3, <1>4, <1>5 DEF HandlerStep

LEMMA NextScheduleInv ==
  ASSUME TypeInv, TypeInv', FrameInv, FrameInv', ScheduleInv, OneChange, OneChange', [Next]_vars
  PROVE  ScheduleInv'
<1>1. ASSUME NEW s \in Slots, HandlerStep(s)
      PROVE  ScheduleInv'
  <2>1. CASE SyncSchedule(s)
    BY <2>1, SyncArmed
  <2>2. CASE WriteConfig(s)
    BY <2>2, ConfigArmed
  <2>3. CASE ~SyncSchedule(s) /\ ~WriteConfig(s)
    <3>1. UNCHANGED <<config, cron, registered>> /\ frame[s].pc \notin NeedsFlow
      BY <1>1, <2>3, HandlersApart
    <3>2. Walks(s) /\ Only(s) /\ FrameFits(s, frame[s])
      BY <1>1, HandlerWalks DEF Walks, FrameInv
    <3>3. frame'[s].pc \notin NeedsFlow /\ frame'[s].flow = frame[s].flow
      BY <3>1, <3>2, OtherWalks
    <3> QED BY <3>1, <3>2, <3>3, ElsewhereArmed DEF Only, NeedsFlow
  <2> QED BY <2>1, <2>2, <2>3
<1>2. ASSUME NEW w \in Slots, Only(w), UNCHANGED <<config, cron, registered>>,
             frame[w].pc \notin NeedsFlow, frame'[w].pc \notin NeedsFlow
      PROVE  ScheduleInv'
  <2>1. frame'[w].flow = frame[w].flow
    BY <1>2 DEF FrameInv, FrameFits
  <2> QED BY <1>2, <2>1, ElsewhereArmed DEF Only, NeedsFlow
<1>3. ASSUME UNCHANGED <<config, cron, registered, frame>>
      PROVE  ScheduleInv'
  BY <1>3, ElsewhereArmed
<1>4. ASSUME NEW w \in Flows, BatchStep(w)
      PROVE  ScheduleInv'
  <2>1. w \in Slots
    BY WorkerSlots
  <2>2. PcsOf(w) \cap NeedsFlow = {}
    BY <2>1, PcsOfSlot DEF BatchPcs, NeedsFlow
  <2>3. Only(w) /\ UNCHANGED <<config, cron, registered>>
    BY <1>4, <2>1, BatchFits DEF FrameInv, BatchStep, ListPending, NextPending, db, boss
  <2> QED BY <1>2, <2>1, <2>2, <2>3 DEF FrameInv, FrameFits
<1>5. ASSUME NEW j \in Jobs, FetchStep(j)
      PROVE  ScheduleInv'
  <2>1. ASSUME NEW s \in {"trigger", "retry"},
               IF s = "trigger" THEN FetchTrigger(j) ELSE FetchRetry(j)
        PROVE  ScheduleInv'
    <3>1. /\ s \in Slots /\ UNCHANGED <<config, cron, registered>>
          /\ Only(s) \/ UNCHANGED frame
      BY <2>1, FetchOpens DEF Opens
    <3>2. PcsOf(s) \cap NeedsFlow = {}
      BY <3>1, PcsOfSlot DEF CallPcs, RetryPcs, NeedsFlow
    <3> QED BY <1>2, <1>3, <3>1, <3>2 DEF FrameInv, FrameFits
  <2>2. ASSUME NEW w \in Flows, FetchDispatch(w, j)
        PROVE  ScheduleInv'
    <3>1. /\ w \in Slots /\ UNCHANGED <<config, cron, registered>>
          /\ Only(w) \/ UNCHANGED frame
      BY <2>2, FetchBatch
    <3>2. PcsOf(w) \cap NeedsFlow = {}
      BY <2>2, <3>1, PcsOfSlot DEF BatchPcs, NeedsFlow
    <3> QED BY <1>2, <1>3, <3>1, <3>2 DEF FrameInv, FrameFits
  <2> QED BY <1>5, <2>1, <2>2 DEF FetchStep
<1>6. ASSUME NEW s \in HttpSlots, Request(s)
      PROVE  ScheduleInv'
  BY <1>6, RequestArmed
<1>7. CASE (\E f \in Flows : CronTick(f)) \/ (\E n \in DOMAIN nlpearl : CallFinishes(n)) \/ Quiescent
  BY <1>3, <1>7 DEF CronTick, CallFinishes, Quiescent, vars, db, boss
<1>8. CASE UNCHANGED vars
  BY <1>3, <1>8 DEF vars
<1> QED BY <1>1, <1>4, <1>5, <1>6, <1>7, <1>8, RestartArmed DEF Next

\* As long as no two changes of one flow's settings overlap, however they overlap
\* with everything else and wherever the process dies, a schedule that is on is
\* at pg-boss with its worker (FlowConfigService, syncSchedule, onModuleInit).
THEOREM SchedulesArmed == Spec /\ []OneChange => []ScheduleArmed
<1>1. TypeInv /\ TypeInv' /\ FrameInv /\ FrameInv' /\ ScheduleInv /\ OneChange /\ OneChange'
        /\ [Next]_vars => ScheduleInv'
  BY NextScheduleInv
<1>2. ScheduleInv => ScheduleArmed
  BY DEF ScheduleInv
<1> QED BY <1>1, <1>2, InitScheduleInv, FrameInvariance, RecordInvariance, PTL DEF Spec

----------------------------------------------------------------------------
(* Retries.                                                                *)

\* From the read of the record to the decision on it, and to the increment
\* that carries it out.
DecidePcs == {"trig.config", "trig.call", "trig.record", "end.get", "end.row", "end.config",
              "bump"}

\* Handlers of record i on their way that have read at most attempt m.
Stale(i, m) == {s \in Deciders : /\ Rec(s) = i /\ frame[s].pc \in DecidePcs
                                 /\ frame[s].attempt <= m}

\* The settings c have let through all the decisions so far, and there is a
\* retry left for every handler that still can take one.
LetThrough(i, c) ==
  \A s \in Slots : At(s, "bump") /\ Rec(s) = i => frame[s].attempt <= c.maxRetryAttempts
RoomLeft(i, c) ==
  \A m \in Nat : m >= c.maxRetryAttempts =>
    tally[i].retried + Cardinality(Stale(i, m)) <= m - 1 + Cardinality(Deciders)
CapInv == \A i \in Ids : \E c \in Configs : LetThrough(i, c) /\ RoomLeft(i, c)

LEMMA DecidersFinite ==
  /\ Deciders \subseteq Slots /\ IsFiniteSet(Deciders)
  /\ Cardinality(Deciders) \in Nat /\ Cardinality(Deciders) > 0
<1>1. IsFiniteSet({"trigger"}) /\ Cardinality({"trigger"}) = 1
  BY FS_Singleton
<1>2. IsFiniteSet(Deciders)
  BY <1>1, FS_Union, SlotsAssumption DEF Deciders
<1>3. {"trigger"} \subseteq Deciders
  BY DEF Deciders
<1>4. Cardinality(Deciders) \in Nat /\ Cardinality({"trigger"}) <= Cardinality(Deciders)
  BY <1>2, <1>3, FS_CardinalityType, FS_Subset
<1> QED BY <1>1, <1>2, <1>4, WorkerSlots DEF Deciders

LEMMA StaleFinite ==
  ASSUME NEW i, NEW m
  PROVE  /\ IsFiniteSet(Stale(i, m)) /\ Cardinality(Stale(i, m)) \in Nat
         /\ Cardinality(Stale(i, m)) <= Cardinality(Deciders)
<1>1. Stale(i, m) \subseteq Deciders
  BY DEF Stale
<1> QED BY <1>1, DecidersFinite, FS_Subset, FS_CardinalityType

LEMMA MaxType == \A c \in Configs : c.maxRetryAttempts \in Nat
BY ConfigsAssumption DEF Settings

LEMMA AttemptType ==
  ASSUME TypeInv
  PROVE  \A s \in Slots : frame[s].attempt \in Nat
<1>1. \A f \in Frame : f.attempt \in Nat
  BY DEF Frame
<1> QED BY <1>1, FrameType

\* On the way to a decision a handler keeps what it has read.
LEMMA DecideWalks ==
  ASSUME NEW s \in Slots, Walks(s), frame'[s].pc \in DecidePcs
  PROVE  /\ frame[s].pc \in DecidePcs
         /\ frame'[s].id = frame[s].id /\ frame'[s].attempt = frame[s].attempt
<1>1. ~Stops(s)
  BY DEF Stops, Idle, DecidePcs
<1>2. ~GoesBack(s)
  BY <1>1 DEF GoesBack, GoesOn, DecidePcs
<1>3. ASSUME NEW e \in Edges, frame[s].pc = e[1], GoesOn(s, e[2])
      PROVE  /\ frame[s].pc \in DecidePcs
             /\ frame'[s].id = frame[s].id /\ frame'[s].attempt = frame[s].attempt
  <2>1. e[2] \in DecidePcs => e[1] \in DecidePcs
    BY DEF Edges, DecidePcs
  <2> QED BY <1>3, <2>1 DEF GoesOn, Kept
<1>4. ASSUME NEW e \in ReadEdges, NEW c, frame[s].pc = e[1], Reads(s, c, e[2])
      PROVE  /\ frame[s].pc \in DecidePcs
             /\ frame'[s].id = frame[s].id /\ frame'[s].attempt = frame[s].attempt
  <2>1. e[2] \in DecidePcs => e[1] \in DecidePcs
    BY DEF ReadEdges, DecidePcs
  <2> QED BY <1>4, <2>1 DEF Reads, Kept
<1>5. ASSUME NEW i, NEW b, TakesUp(s, i, b)
      PROVE  FALSE
  BY <1>5 DEF TakesUp, DecidePcs
<1> QED BY <1>1, <1>2, <1>3, <1>4, <1>5 DEF Walks

\* It goes for the increment only if some settings allow one more attempt.
LEMMA BumpAllowed ==
  ASSUME TypeInv, FrameInv, NEW s \in Slots, Walks(s), HandlerStep(s), frame'[s].pc = "bump"
  PROVE  \E c \in Configs : frame'[s].attempt <= c.maxRetryAttempts
<1>1. frame[s].pc \in {"trig.call", "trig.record", "end.config"}
  <2>1. ~Stops(s)
    BY DEF Stops, Idle
  <2>2. ~GoesBack(s)
    BY <2>1 DEF GoesBack, GoesOn
  <2>3. ASSUME NEW e \in Edges, frame[s].pc = e[1], GoesOn(s, e[2])
        PROVE  frame[s].pc \in {"trig.call", "trig.record", "end.config"}
    <3>1. e[2] = "bump" => e[1] \in {"trig.call", "trig.record", "end.config"}
      BY DEF Edges
    <3> QED BY <2>3, <3>1 DEF GoesOn
  <2>4. ASSUME NEW e \in ReadEdges, NEW c, Reads(s, c, e[2])
        PROVE  FALSE
    BY <2>4 DEF Reads, ReadEdges
  <2>5. ASSUME NEW i, NEW b, TakesUp(s, i, b)
        PROVE  FALSE
    BY <2>5 DEF TakesUp
  <2> QED BY <2>1, <2>2, <2>3, <2>4, <2>5 DEF Walks
<1>2. frame'[s].attempt = frame[s].attempt /\ frame[s].attempt \in Nat
  BY DecideWalks, AttemptType DEF DecidePcs
<1>3. CASE MakeCall(s) \/ RecordCall(s)
  <2>1. PICK c \in Configs : c = frame[s].conf
    BY <1>3 DEF MakeCall, RecordCall, At, FrameInv, FrameFits, HasConf
  <2>2. AfterTriggerFailure(s) = "bump"
    <3>1. \/ frame' = [frame EXCEPT ![s].call = Len(nlpearl) + 1, ![s].pc = "trig.record"]
          \/ Goto(s, AfterTriggerFailure(s))
          \/ Return(s)
      BY <1>3 DEF MakeCall, RecordCall
    <3>2. ASSUME frame' = [frame EXCEPT ![s].call = Len(nlpearl) + 1, ![s].pc = "trig.record"]
          PROVE  FALSE
      <4>1. GoesOn(s, "trig.record")
        BY <3>2, CallGoes
      <4> QED BY <4>1 DEF GoesOn
    <3>3. ~Return(s)
      BY ReturnStops DEF Stops, Idle
    <3>4. GoesOn(s, AfterTriggerFailure(s))
      BY <3>1, <3>2, <3>3, GotoGoes
    <3> QED BY <3>4 DEF GoesOn
  <2>3. WithinRetryCap(c, frame[s].attempt)
    BY <2>1, <2>2 DEF AfterTriggerFailure, NeedsRetryAfterTriggerFailure
  <2> QED BY <1>2, <2>3, MaxType DEF WithinRetryCap
<1>4. CASE DecideRetry(s)
  <2>1. PICK c : c = config[frame[s].key.flow]
    OBVIOUS
  <2>2. frame[s].key \in Keys
    BY <1>4 DEF DecideRetry, At, FrameInv, FrameFits, EndPcs
  <2>3. c \in Configs \cup {Null}
    BY <2>1, <2>2, SettingsType
  <2>4. ~Return(s) /\ ~Goto(s, "end.done")
    BY ReturnStops, GotoGoes DEF Stops, Idle, GoesOn
  <2>5. c # Null /\ WithinRetryCap(c, frame[s].attempt)
    BY <1>4, <2>1, <2>4 DEF DecideRetry, NeedsRetry
  <2> QED BY <1>2, <2>3, <2>5, MaxType DEF WithinRetryCap
<1>5. MakeCall(s) \/ RecordCall(s) \/ DecideRetry(s)
  <2>1. ~DispatchStep(s)
    BY <1>1 DEF DispatchStep, SendPreliminarySms, RecordPreSmsSent, RecordFailed,
       EnqueueTrigger, RecordScheduled, SkipCtaCompleted, BumpAttempt, EnqueueRetry,
       ReadRetryConfig, SyncSchedule, At
  <2>2. ~IngestStep(s) /\ ~AdminStep(s)
    BY <1>1 DEF IngestStep, ReadIngestConfig, WriteRecord, WriteCta, AdminStep, ReadResendConfig,
       ResendNow, DeleteRecord, WriteConfig, At
  <2>3. TriggerStep(s) => MakeCall(s) \/ RecordCall(s)
    BY <1>1 DEF TriggerStep, ReadTriggerConfig, At
  <2>4. WebhookStep(s) => DecideRetry(s)
    BY <1>1 DEF WebhookStep, ReadConsentConfig, SendConsentSms, RecordConsent, FindPendingCall,
       RecordCallEnd, RecordCompleted, At
  <2> QED BY <2>1, <2>2, <2>3, <2>4 DEF HandlerStep
<1> QED BY <1>3, <1>4, <1>5

\* A step that counts no retry: a handler goes on, comes to its decision, or has
\* just read an attempt that counts the retries so far.
LEMMA CapKept ==
  ASSUME TypeInv, TypeInv', CapInv, NEW s \in Slots, Only(s),
         \A i \in Ids : tally'[i].retried = tally[i].retried,
         frame'[s].pc \in DecidePcs =>
           \/ /\ frame[s].pc \in DecidePcs
              /\ frame'[s].id = frame[s].id /\ frame'[s].attempt = frame[s].attempt
           \/ frame'[s].id \in Ids /\ frame'[s].attempt >= 1 + tally[frame'[s].id].retried,
         frame'[s].pc = "bump" => \/ /\ frame[s].pc = "bump"
                                     /\ frame'[s].id = frame[s].id
                                     /\ frame'[s].attempt = frame[s].attempt
                                  \/ \E c \in Configs : frame'[s].attempt <= c.maxRetryAttempts
  PROVE  CapInv'
<1> SUFFICES ASSUME NEW i \in Ids
             PROVE  \E c \in Configs : (LetThrough(i, c) /\ RoomLeft(i, c))'
  BY DEF CapInv
<1>1. PICK c \in Configs : LetThrough(i, c) /\ RoomLeft(i, c)
  BY DEF CapInv
<1>2. tally'[i].retried = tally[i].retried /\ tally[i].retried \in Nat
  BY TallyType DEF Tally
<1>3. \A t \in Slots : frame[t].attempt \in Nat /\ frame'[t].attempt \in Nat
  <2>1. \A f \in Frame : f.attempt \in Nat
    BY DEF Frame
  <2> QED BY <2>1 DEF TypeInv, TypeOK
<1>4. ASSUME NEW m \in Nat, m >= c.maxRetryAttempts
      PROVE  tally'[i].retried + Cardinality(Stale(i, m)') <= m - 1 + Cardinality(Deciders)
  <2>1. /\ Cardinality(Stale(i, m)) \in Nat /\ IsFiniteSet(Stale(i, m))
        /\ Cardinality(Deciders) \in Nat
    BY StaleFinite, DecidersFinite
  <2>2. CASE Stale(i, m)' \subseteq Stale(i, m)
    <3>1. Cardinality(Stale(i, m)') <= Cardinality(Stale(i, m)) /\ Cardinality(Stale(i, m)') \in Nat
      BY <2>1, <2>2, FS_Subset, FS_CardinalityType
    <3> QED BY <1>1, <1>2, <1>4, <2>1, <3>1 DEF RoomLeft
  <2>3. CASE ~(Stale(i, m)' \subseteq Stale(i, m))
    <3>1. PICK t : t \in Stale(i, m)' /\ t \notin Stale(i, m)
      BY <2>3
    <3>2. /\ t \in Deciders /\ t \in Slots /\ frame'[t].id = i /\ frame'[t].pc \in DecidePcs
          /\ frame'[t].attempt <= m
      BY <3>1, DecidersFinite DEF Stale, Rec
    <3>3. t = s
      BY <3>1, <3>2 DEF Only, Stale, Rec
    <3>4. frame'[s].attempt >= 1 + tally[i].retried
      BY <3>1, <3>2, <3>3 DEF Stale, Rec
    <3>5. tally[i].retried <= m - 1
      BY <1>2, <1>3, <3>2, <3>3, <3>4
    <3>6. Stale(i, m)' \subseteq Deciders
      BY DEF Stale
    <3>7. Cardinality(Stale(i, m)') <= Cardinality(Deciders) /\ Cardinality(Stale(i, m)') \in Nat
      BY <3>6, DecidersFinite, FS_Subset, FS_CardinalityType
    <3> QED BY <1>2, <2>1, <3>5, <3>7
  <2> QED BY <2>2, <2>3
<1>5. CASE \/ frame'[s].pc # "bump"
           \/ /\ frame[s].pc = "bump" /\ frame'[s].id = frame[s].id
              /\ frame'[s].attempt = frame[s].attempt
  <2>1. LetThrough(i, c)'
    BY <1>1, <1>5 DEF LetThrough, Only, At, Rec
  <2> QED BY <1>4, <2>1 DEF RoomLeft
<1>6. ASSUME NEW d \in Configs, frame'[s].attempt <= d.maxRetryAttempts
      PROVE  \E e \in Configs : (LetThrough(i, e) /\ RoomLeft(i, e))'
  <2>1. c.maxRetryAttempts \in Nat /\ d.maxRetryAttempts \in Nat
    BY MaxType
  <2>2. CASE d.maxRetryAttempts <= c.maxRetryAttempts
    <3>1. LetThrough(i, c)'
      <4>1. ASSUME NEW t \in Slots, frame'[t].pc = "bump", frame'[t].id = i
            PROVE  frame'[t].attempt <= c.maxRetryAttempts
        BY <1>1, <1>3, <1>6, <2>1, <2>2, <4>1 DEF LetThrough, Only, At, Rec
      <4> QED BY <4>1 DEF LetThrough, At, Rec
    <3> QED BY <1>4, <3>1 DEF RoomLeft
  <2>3. CASE d.maxRetryAttempts > c.maxRetryAttempts
    <3>1. LetThrough(i, d)'
      <4>1. ASSUME NEW t \in Slots, frame'[t].pc = "bump", frame'[t].id = i
            PROVE  frame'[t].attempt <= d.maxRetryAttempts
        BY <1>1, <1>3, <1>6, <2>1, <2>3, <4>1 DEF LetThrough, Only, At, Rec
      <4> QED BY <4>1 DEF LetThrough, At, Rec
    <3>2. RoomLeft(i, d)'
      BY <1>4, <2>1, <2>3 DEF RoomLeft
    <3> QED BY <3>1, <3>2
  <2> QED BY <2>1, <2>2, <2>3
<1> QED BY <1>5, <1>6

\* The increment takes the place of the handler that makes it.
LEMMA CapCounts ==
  ASSUME TypeInv, TypeInv', CapInv, NEW s \in Deciders, At(s, "bump"), Rec(s) \in Ids,
         Only(s), frame'[s].pc \notin DecidePcs,
         \A i \in Ids : tally'[i].retried = tally[i].retried + (IF i = Rec(s) THEN 1 ELSE 0)
  PROVE  CapInv'
<1> SUFFICES ASSUME NEW i \in Ids
             PROVE  \E c \in Configs : (LetThrough(i, c) /\ RoomLeft(i, c))'
  BY DEF CapInv
<1>1. PICK c \in Configs : LetThrough(i, c) /\ RoomLeft(i, c)
  BY DEF CapInv
<1>2. tally[i].retried \in Nat /\ c.maxRetryAttempts \in Nat /\ s \in Slots
  BY TallyType, MaxType, DecidersFinite DEF Tally
<1>3. \A t \in Slots : frame[t].attempt \in Nat
  BY AttemptType
<1>4. LetThrough(i, c)'
  BY <1>1, <1>2 DEF LetThrough, Only, At, Rec, DecidePcs
<1>5. ASSUME NEW m \in Nat, m >= c.maxRetryAttempts
      PROVE  tally'[i].retried + Cardinality(Stale(i, m)') <= m - 1 + Cardinality(Deciders)
  <2>1. /\ Cardinality(Stale(i, m)) \in Nat /\ IsFiniteSet(Stale(i, m))
        /\ Cardinality(Deciders) \in Nat
    BY StaleFinite, DecidersFinite
  <2>2. s \notin Stale(i, m)'
    BY DEF Stale
  <2>3. Stale(i, m)' \subseteq Stale(i, m)
    BY <2>2, DecidersFinite DEF Stale, Only, Rec
  <2>4. CASE i # Rec(s)
    <3>1. Cardinality(Stale(i, m)') <= Cardinality(Stale(i, m)) /\ Cardinality(Stale(i, m)') \in Nat
      BY <2>1, <2>3, FS_Subset, FS_CardinalityType
    <3>2. tally'[i].retried = tally[i].retried
      BY <1>2, <2>4
    <3> QED BY <1>1, <1>2, <1>5, <2>1, <3>1, <3>2 DEF RoomLeft
  <2>5. CASE i = Rec(s)
    <3>1. s \in Stale(i, m)
      <4>1. frame[s].attempt <= c.maxRetryAttempts
        BY <1>1, <1>2, <2>5 DEF LetThrough
      <4> QED BY <1>2, <1>3, <1>5, <2>5, <4>1 DEF Stale, At, DecidePcs
    <3>2. Stale(i, m)' \subseteq Stale(i, m) \ {s}
      BY <2>2, <2>3
    <3>3. /\ Cardinality(Stale(i, m) \ {s}) = Cardinality(Stale(i, m)) - 1
          /\ IsFiniteSet(Stale(i, m) \ {s})
      BY <2>1, <3>1, FS_RemoveElement
    <3>4. Cardinality(Stale(i, m)') <= Cardinality(Stale(i, m) \ {s}) /\ Cardinality(Stale(i, m)') \in Nat
      BY <3>2, <3>3, FS_Subset, FS_CardinalityType
    <3>5. tally'[i].retried = tally[i].retried + 1
      BY <2>5
    <3>6. tally[i].retried + Cardinality(Stale(i, m)) <= m - 1 + Cardinality(Deciders)
      BY <1>1, <1>5 DEF RoomLeft
    <3> QED BY <1>2, <2>1, <3>3, <3>4, <3>5, <3>6
  <2> QED BY <2>4, <2>5
<1> QED BY <1>4, <1>5 DEF RoomLeft

\* No other step counts retries.
LEMMA RetriesApart ==
  ASSUME TypeInv, NEW s \in Slots, HandlerStep(s), ~BumpAttempt(s)
  PROVE  \A i \in Ids : tally'[i].retried = tally[i].retried
<1> USE DEF seen, Retried
<1>1. CASE SendPreliminarySms(s)
  <2>1. UNCHANGED tally \/ Count(Rec(s), "sent")
    BY <1>1 DEF SendPreliminarySms
  <2> QED BY <2>1, SentStutters
<1>2. CASE DispatchStep(s) /\ ~SendPreliminarySms(s)
  BY <1>2 DEF DispatchStep, RecordPreSmsSent, RecordFailed, EnqueueTrigger,
     RecordScheduled, SkipCtaCompleted, EnqueueRetry, ReadRetryConfig, SyncSchedule
<1>3. CASE TriggerStep(s)
  BY <1>3 DEF TriggerStep, ReadTriggerConfig, MakeCall, RecordCall
<1>4. CASE IngestStep(s)
  BY <1>4 DEF IngestStep, ReadIngestConfig, WriteRecord, WriteCta
<1>5. CASE WebhookStep(s)
  BY <1>5 DEF WebhookStep, ReadConsentConfig, SendConsentSms, RecordConsent, FindPendingCall,
     RecordCallEnd, DecideRetry, RecordCompleted
<1>6. CASE ResendNow(s)
  <2>1. UNCHANGED tally \/ (Rec(s) \in Ids /\ Count(Rec(s), "resent"))
    BY <1>6 DEF ResendNow, Exists
  <2> QED BY <2>1, ResentCounts
<1>7. CASE AdminStep(s) /\ ~ResendNow(s)
  BY <1>7 DEF AdminStep, ReadResendConfig, DeleteRecord, WriteConfig
<1> QED BY <1>1, <1>2, <1>3, <1>4, <1>5, <1>6, <1>7 DEF HandlerStep

LEMMA NextCapInv ==
  ASSUME TypeInv, TypeInv', FrameInv, AttemptAccounting, CapInv, [Next]_vars
  PROVE  CapInv'
<1>1. ASSUME NEW s \in Slots, HandlerStep(s)
      PROVE  CapInv'
  <2>1. Walks(s) /\ Only(s)
    BY <1>1, HandlerWalks DEF Walks
  <2>2. CASE BumpAttempt(s) /\ Exists(Rec(s))
    <3>1. At(s, "bump") /\ Rec(s) \in Ids /\ Count(Rec(s), "retried") /\ Goto(s, "bump.enqueue")
      BY <2>2 DEF BumpAttempt, Exists
    <3>2. s \in Deciders
      <4>1. s # "retry"
        BY <3>1, PcsOfSlot DEF At, FrameInv, FrameFits, RetryPcs
      <4>2. s \notin Flows
        BY <3>1, PcsOfSlot DEF At, FrameInv, FrameFits, BatchPcs
      <4> QED BY <4>1, <4>2 DEF Deciders, Slots, Workers
    <3>3. frame'[s].pc = "bump.enqueue" /\ "bump.enqueue" \notin DecidePcs
      BY <3>1, GotoGoes DEF GoesOn, DecidePcs
    <3>4. Retried' = [Retried EXCEPT ![Rec(s)] = @ + 1]
      BY <3>1, RetriedCounts
    <3>5. \A i \in Ids : tally[i].retried \in Nat
      BY TallyType DEF Tally
    <3>6. \A i \in Ids : tally'[i].retried = tally[i].retried + (IF i = Rec(s) THEN 1 ELSE 0)
      BY <3>4, <3>5 DEF Retried
    <3> QED BY <2>1, <3>1, <3>2, <3>3, <3>6, CapCounts
  <2>3. CASE BumpAttempt(s) => ~Exists(Rec(s))
    <3>1. \A i \in Ids : tally'[i].retried = tally[i].retried
      BY <1>1, <2>3, RetriesApart DEF BumpAttempt
    <3> QED BY <1>1, <2>1, <3>1, CapKept, DecideWalks, BumpAllowed
  <2> QED BY <2>2, <2>3
<1>2. ASSUME NEW s \in Slots, Only(s), UNCHANGED tally, frame'[s].pc \notin DecidePcs
      PROVE  CapInv'
  BY <1>2, CapKept DEF DecidePcs
<1>3. ASSUME NEW s \in Slots, Only(s), UNCHANGED tally, frame'[s].pc # "bump",
             Exists(frame'[s].id), frame'[s].attempt = runs[frame'[s].id].attempt
      PROVE  CapInv'
  <2>1. frame'[s].id \in Ids /\ frame'[s].id \in Records
    BY <1>3 DEF Exists, Records
  <2>2. tally[frame'[s].id].retried \in Nat /\ tally[frame'[s].id].resent \in Nat
    BY <2>1, TallyType DEF Tally
  <2>3. frame'[s].attempt >= 1 + tally[frame'[s].id].retried
    BY <1>3, <2>1, <2>2 DEF AttemptAccounting
  <2> QED BY <1>3, <2>1, <2>3, CapKept
<1>4. ASSUME UNCHANGED <<frame, tally>>
      PROVE  CapInv'
  <2>1. "trigger" \in Slots
    BY WorkerSlots
  <2> QED BY <1>4, <2>1, CapKept DEF Only
<1>5. ASSUME NEW w \in Flows, BatchStep(w)
      PROVE  CapInv'
  <2>1. w \in Slots /\ Only(w) /\ FrameFits(w, frame'[w]) /\ UNCHANGED tally
    BY <1>5, WorkerSlots, BatchFits DEF FrameInv, BatchStep, ListPending, NextPending, seen
  <2>2. PcsOf(w) \cap DecidePcs = {}
    BY <1>5, <2>1, PcsOfSlot DEF BatchPcs, DecidePcs
  <2> QED BY <1>2, <2>1, <2>2 DEF FrameFits
<1>6. ASSUME NEW j \in Jobs, FetchStep(j)
      PROVE  CapInv'
  <2>1. ASSUME NEW s \in {"trigger", "retry"},
               IF s = "trigger" THEN FetchTrigger(j) ELSE FetchRetry(j)
        PROVE  CapInv'
    <3>1. /\ s \in Slots /\ UNCHANGED tally
          /\ \/ UNCHANGED frame
             \/ /\ Exists(j.id) /\ Only(s) /\ frame'[s].id = j.id
                /\ frame'[s].attempt = runs[j.id].attempt
                /\ frame'[s].pc \in {"skip", "trig.config", "retry.config"}
      BY <2>1, FetchOpens DEF Opens
    <3> QED BY <1>3, <1>4, <3>1
  <2>2. ASSUME NEW w \in Flows, FetchDispatch(w, j)
        PROVE  CapInv'
    <3>1. /\ w \in Slots /\ UNCHANGED tally
          /\ UNCHANGED frame \/ (Only(w) /\ frame'[w].pc = "batch.list")
      BY <2>2, FetchBatch
    <3> QED BY <1>2, <1>4, <3>1 DEF DecidePcs
  <2> QED BY <1>6, <2>1, <2>2 DEF FetchStep
<1>7. ASSUME NEW s \in HttpSlots, Request(s)
      PROVE  CapInv'
  <2>1. s \in Slots /\ Starts(s) /\ UNCHANGED tally /\ Only(s)
    BY <1>7, RequestStarts DEF Starts
  <2>2. CASE frame'[s].pc = "end.get"
    BY <1>3, <2>1, <2>2 DEF Starts
  <2>3. CASE frame'[s].pc # "end.get"
    <3>1. frame'[s].pc \notin DecidePcs
      BY <2>1, <2>3 DEF Starts, Entries, DecidePcs
    <3> QED BY <1>2, <2>1, <3>1
  <2> QED BY <2>2, <2>3
<1>8. CASE Restart
  <2>1. UNCHANGED tally /\ \A s \in Slots : frame'[s] = Idle
    BY <1>8 DEF Restart, seen
  <2>2. ASSUME NEW i \in Ids
        PROVE  \E c \in Configs : (LetThrough(i, c) /\ RoomLeft(i, c))'
    <3>1. PICK c \in Configs : RoomLeft(i, c)
      BY DEF CapInv
    <3>2. LetThrough(i, c)'
      BY <2>1 DEF LetThrough, At, Idle
    <3>3. ASSUME NEW m \in Nat, m >= c.maxRetryAttempts
          PROVE  tally'[i].retried + Cardinality(Stale(i, m)') <= m - 1 + Cardinality(Deciders)
      <4>1. Stale(i, m)' = {}
        BY <2>1, DecidersFinite DEF Stale, Idle, DecidePcs
      <4>2. Cardinality(Stale(i, m)') = 0
        BY <4>1, FS_EmptySet
      <4>3. tally[i].retried + Cardinality(Stale(i, m)) <= m - 1 + Cardinality(Deciders)
        BY <3>1, <3>3 DEF RoomLeft
      <4>4. tally[i].retried \in Nat
        BY TallyType DEF Tally
      <4> QED BY <2>1, <4>2, <4>3, <4>4, StaleFinite, DecidersFinite
    <3> QED BY <3>2, <3>3 DEF RoomLeft
  <2> QED BY <2>2 DEF CapInv
<1>9. CASE (\E f \in Flows : CronTick(f)) \/ (\E n \in DOMAIN nlpearl : CallFinishes(n)) \/ Quiescent
  BY <1>4, <1>9 DEF CronTick, CallFinishes, Quiescent, vars, seen
<1>10. CASE UNCHANGED vars
  BY <1>4, <1>10 DEF vars
<1> QED BY <1>1, <1>5, <1>6, <1>7, <1>8, <1>9, <1>10 DEF Next

LEMMA InitCapInv == Init => CapInv
<1> SUFFICES ASSUME Init, NEW i \in Ids
             PROVE  \E c \in Configs : LetThrough(i, c) /\ RoomLeft(i, c)
  BY DEF CapInv
<1>1. (\A s \in Slots : frame[s] = Idle) /\ tally[i].retried = 0
  BY DEF Init
<1>2. PICK c \in Configs : TRUE
  BY ConfigsAssumption
<1>3. LetThrough(i, c)
  BY <1>1 DEF LetThrough, At, Idle
<1>4. ASSUME NEW m \in Nat
      PROVE  tally[i].retried + Cardinality(Stale(i, m)) <= m - 1 + Cardinality(Deciders)
  <2>1. Stale(i, m) = {}
    BY <1>1, DecidersFinite DEF Stale, Idle, DecidePcs
  <2> QED BY <1>1, <2>1, FS_EmptySet, DecidersFinite
<1> QED BY <1>3, <1>4 DEF RoomLeft

LEMMA CapInvariance == Spec => []CapInv
<1>1. TypeInv /\ TypeInv' /\ FrameInv /\ AttemptAccounting /\ CapInv /\ [Next]_vars => CapInv'
  BY NextCapInv
<1> QED BY <1>1, InitCapInv, FrameInvariance, CountKept, RecordInvariance, PTL DEF Spec

\* Decisions taken at the same time from old attempt counts pass the cap by
\* less than the number of handlers that can take them (needsRetry, scheduleRetry).
THEOREM OvershootBounded == Spec => []RetryOvershoot
<1>1. TypeInv /\ CapInv => RetryOvershoot
  <2> SUFFICES ASSUME TypeInv, CapInv, NEW i \in Ids
               PROVE  \E c \in Configs :
                        tally[i].retried <= c.maxRetryAttempts + Cardinality(Deciders) - 1
    BY DEF RetryOvershoot
  <2>1. PICK c \in Configs : RoomLeft(i, c)
    BY DEF CapInv
  <2>2. c.maxRetryAttempts \in Nat
    BY MaxType
  <2>3. tally[i].retried + Cardinality(Stale(i, c.maxRetryAttempts))
          <= c.maxRetryAttempts - 1 + Cardinality(Deciders)
    BY <2>1, <2>2 DEF RoomLeft
  <2>4. Cardinality(Stale(i, c.maxRetryAttempts)) \in Nat
    BY StaleFinite
  <2>5. tally[i].retried \in Nat
    BY TallyType DEF Tally
  <2> QED BY <2>2, <2>3, <2>4, <2>5, DecidersFinite
<1> QED BY <1>1, CapInvariance, RecordInvariance, PTL

\* At most one handler at a time is between its reading of a record and its
\* decision on a retry for it.
OneDecider ==
  \A s, t \in Slots :
    frame[s].pc \in DecidePcs /\ frame[t].pc \in DecidePcs /\ Rec(s) = Rec(t) => s = t

\* What such a handler has read counts all the retries so far.
Current(i) == \A s \in Slots : Rec(s) = i /\ frame[s].pc \in DecidePcs =>
                                 frame[s].attempt >= 1 + tally[i].retried
Capped(i)  == \E c \in Configs : tally[i].retried <= c.maxRetryAttempts
HeldInv    == \A i \in Ids : Current(i) /\ Capped(i)

\* A step that counts no retry: see CapKept.
LEMMA HeldKept ==
  ASSUME TypeInv, HeldInv, NEW s \in Slots, Only(s),
         \A i \in Ids : tally'[i].retried = tally[i].retried,
         frame'[s].pc \in DecidePcs =>
           \/ /\ frame[s].pc \in DecidePcs
              /\ frame'[s].id = frame[s].id /\ frame'[s].attempt = frame[s].attempt
           \/ frame'[s].id \in Ids /\ frame'[s].attempt >= 1 + tally[frame'[s].id].retried
  PROVE  HeldInv'
<1> SUFFICES ASSUME NEW i \in Ids
             PROVE  Current(i)' /\ Capped(i)'
  BY DEF HeldInv
<1>1. Capped(i)'
  BY DEF HeldInv, Capped
<1>2. ASSUME NEW t \in Slots, frame'[t].id = i, frame'[t].pc \in DecidePcs
      PROVE  frame'[t].attempt >= 1 + tally'[i].retried
  <2>1. CASE t = s
    BY <1>2, <2>1 DEF HeldInv, Current, Rec
  <2>2. CASE t # s
    BY <1>2, <2>2 DEF Only, HeldInv, Current, Rec
  <2> QED BY <2>1, <2>2
<1> QED BY <1>1, <1>2 DEF Current, Rec

\* The increment, with nobody else about to decide.
LEMMA HeldCounts ==
  ASSUME TypeInv, TypeInv', CapInv, HeldInv, OneDecider, NEW s \in Slots, At(s, "bump"),
         Rec(s) \in Ids, Only(s), frame'[s].pc \notin DecidePcs,
         \A i \in Ids : tally'[i].retried = tally[i].retried + (IF i = Rec(s) THEN 1 ELSE 0)
  PROVE  HeldInv'
<1> SUFFICES ASSUME NEW i \in Ids
             PROVE  Current(i)' /\ Capped(i)'
  BY DEF HeldInv
<1>1. tally[i].retried \in Nat /\ \A t \in Slots : frame[t].attempt \in Nat
  BY TallyType, AttemptType DEF Tally
<1>2. CASE i = Rec(s)
  <2>1. PICK c \in Configs : frame[s].attempt <= c.maxRetryAttempts
    BY <1>2 DEF CapInv, LetThrough
  <2>2. frame[s].attempt >= 1 + tally[i].retried
    BY <1>2 DEF HeldInv, Current, At, DecidePcs
  <2>3. Capped(i)'
    BY <1>1, <1>2, <2>1, <2>2, MaxType DEF Capped
  <2>4. \A t \in Slots : ~(frame'[t].id = i /\ frame'[t].pc \in DecidePcs)
    BY <1>2 DEF Only, OneDecider, At, Rec, DecidePcs
  <2> QED BY <2>3, <2>4 DEF Current, Rec
<1>3. CASE i # Rec(s)
  <2>1. tally'[i].retried = tally[i].retried
    BY <1>1, <1>3
  <2>2. Capped(i)'
    BY <2>1 DEF HeldInv, Capped
  <2>3. \A t \in Slots : frame'[t].id = i /\ frame'[t].pc \in DecidePcs =>
                          frame'[t].attempt >= 1 + tally[i].retried
    BY DEF Only, HeldInv, Current, Rec
  <2> QED BY <2>1, <2>2, <2>3 DEF Current, Rec
<1> QED BY <1>2, <1>3

LEMMA NextHeldInv ==
  ASSUME TypeInv, TypeInv', FrameInv, AttemptAccounting, CapInv, HeldInv, OneDecider, [Next]_vars
  PROVE  HeldInv'
<1>1. ASSUME NEW s \in Slots, HandlerStep(s)
      PROVE  HeldInv'
  <2>1. Walks(s) /\ Only(s)
    BY <1>1, HandlerWalks DEF Walks
  <2>2. CASE BumpAttempt(s) /\ Exists(Rec(s))
    <3>1. At(s, "bump") /\ Rec(s) \in Ids /\ Count(Rec(s), "retried") /\ Goto(s, "bump.enqueue")
      BY <2>2 DEF BumpAttempt, Exists
    <3>2. frame'[s].pc \notin DecidePcs
      BY <3>1, GotoGoes DEF GoesOn, DecidePcs
    <3>3. \A i \in Ids : tally'[i].retried = tally[i].retried + (IF i = Rec(s) THEN 1 ELSE 0)
      <4>1. Retried' = [Retried EXCEPT ![Rec(s)] = @ + 1]
        BY <3>1, RetriedCounts
      <4>2. \A i \in Ids : tally[i].retried \in Nat
        BY TallyType DEF Tally
      <4> QED BY <4>1, <4>2 DEF Retried
    <3> QED BY <2>1, <3>1, <3>2, <3>3, HeldCounts
  <2>3. CASE BumpAttempt(s) => ~Exists(Rec(s))
    <3>1. \A i \in Ids : tally'[i].retried = tally[i].retried
      BY <1>1, <2>3, RetriesApart DEF BumpAttempt
    <3> QED BY <2>1, <3>1, HeldKept, DecideWalks
  <2> QED BY <2>2, <2>3
<1>2. ASSUME NEW s \in Slots, Only(s), UNCHANGED tally, frame'[s].pc \notin DecidePcs
      PROVE  HeldInv'
  BY <1>2, HeldKept
<1>3. ASSUME NEW s \in Slots, Only(s), UNCHANGED tally,
             Exists(frame'[s].id), frame'[s].attempt = runs[frame'[s].id].attempt
      PROVE  HeldInv'
  <2>1. frame'[s].id \in Ids /\ frame'[s].id \in Records
    BY <1>3 DEF Exists, Records
  <2>2. tally[frame'[s].id].retried \in Nat /\ tally[frame'[s].id].resent \in Nat
    BY <2>1, TallyType DEF Tally
  <2>3. frame'[s].attempt >= 1 + tally[frame'[s].id].retried
    BY <1>3, <2>1, <2>2 DEF AttemptAccounting
  <2> QED BY <1>3, <2>1, <2>3, HeldKept
<1>4. ASSUME UNCHANGED <<frame, tally>>
      PROVE  HeldInv'
  BY <1>4 DEF HeldInv, Current, Capped, Rec
<1>5. ASSUME NEW w \in Flows, BatchStep(w)
      PROVE  HeldInv'
  <2>1. w \in Slots /\ Only(w) /\ FrameFits(w, frame'[w]) /\ UNCHANGED tally
    BY <1>5, WorkerSlots, BatchFits DEF FrameInv, BatchStep, ListPending, NextPending, seen
  <2>2. PcsOf(w) \cap DecidePcs = {}
    BY <1>5, <2>1, PcsOfSlot DEF BatchPcs, DecidePcs
  <2> QED BY <1>2, <2>1, <2>2 DEF FrameFits
<1>6. ASSUME NEW j \in Jobs, FetchStep(j)
      PROVE  HeldInv'
  <2>1. ASSUME NEW s \in {"trigger", "retry"},
               IF s = "trigger" THEN FetchTrigger(j) ELSE FetchRetry(j)
        PROVE  HeldInv'
    <3>1. /\ s \in Slots /\ UNCHANGED tally
          /\ \/ UNCHANGED frame
             \/ /\ Exists(j.id) /\ Only(s) /\ frame'[s].id = j.id
                /\ frame'[s].attempt = runs[j.id].attempt
      BY <2>1, FetchOpens DEF Opens
    <3> QED BY <1>3, <1>4, <3>1
  <2>2. ASSUME NEW w \in Flows, FetchDispatch(w, j)
        PROVE  HeldInv'
    <3>1. /\ w \in Slots /\ UNCHANGED tally
          /\ UNCHANGED frame \/ (Only(w) /\ frame'[w].pc = "batch.list")
      BY <2>2, FetchBatch
    <3> QED BY <1>2, <1>4, <3>1 DEF DecidePcs
  <2> QED BY <1>6, <2>1, <2>2 DEF FetchStep
<1>7. ASSUME NEW s \in HttpSlots, Request(s)
      PROVE  HeldInv'
  <2>1. s \in Slots /\ Starts(s) /\ UNCHANGED tally /\ Only(s)
    BY <1>7, RequestStarts DEF Starts
  <2>2. CASE frame'[s].pc = "end.get"
    BY <1>3, <2>1, <2>2 DEF Starts
  <2>3. CASE frame'[s].pc # "end.get"
    <3>1. frame'[s].pc \notin DecidePcs
      BY <2>1, <2>3 DEF Starts, Entries, DecidePcs
    <3> QED BY <1>2, <2>1, <3>1
  <2> QED BY <2>2, <2>3
<1>8. CASE Restart
  <2>1. UNCHANGED tally /\ \A s \in Slots : frame'[s] = Idle
    BY <1>8 DEF Restart, seen
  <2> QED BY <2>1 DEF HeldInv, Current, Capped, Idle, DecidePcs
<1>9. CASE (\E f \in Flows : CronTick(f)) \/ (\E n \in DOMAIN nlpearl : CallFinishes(n)) \/ Quiescent
  BY <1>4, <1>9 DEF CronTick, CallFinishes, Quiescent, vars, seen
<1>10. CASE UNCHANGED vars
  BY <1>4, <1>10 DEF vars
<1> QED BY <1>1, <1>5, <1>6, <1>7, <1>8, <1>9, <1>10 DEF Next

LEMMA InitHeldInv == Init => HeldInv
<1> SUFFICES ASSUME Init, NEW i \in Ids
             PROVE  Current(i) /\ Capped(i)
  BY DEF HeldInv
<1>1. (\A s \in Slots : frame[s] = Idle) /\ tally[i].retried = 0
  BY DEF Init
<1>2. PICK c \in Configs : c.maxRetryAttempts \in Nat
  BY ConfigsAssumption, MaxType
<1> QED BY <1>1, <1>2 DEF Current, Capped, Idle, DecidePcs

\* RetryCap: where no two handlers decide on one record at the same time, a
\* record is never retried more often than some settings of its flow allow
\* (needsRetry, scheduleRetry).  Without the hypothesis the bound is the one of
\* OvershootBounded.
THEOREM CapKeptOneByOne == Spec /\ []OneDecider => []RetryCap
<1>1. TypeInv /\ TypeInv' /\ FrameInv /\ AttemptAccounting /\ CapInv /\ HeldInv /\ OneDecider
        /\ [Next]_vars => HeldInv'
  BY NextHeldInv
<1>2. HeldInv => RetryCap
  BY DEF HeldInv, Capped, RetryCap
<1> QED BY <1>1, <1>2, InitHeldInv, CapInvariance, FrameInvariance, CountKept, RecordInvariance, PTL
        DEF Spec

============================================================================
