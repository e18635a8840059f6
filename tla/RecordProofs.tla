---------------------------- MODULE RecordProofs ----------------------------
(***************************************************************************)
(* Orchestrator implements RecordTable: whatever the handlers have read,   *)
(* each of their steps is one statement of the table or none.  Then what   *)
(* RecordTable keeps, the orchestrator keeps.                              *)
(*                                                                         *)
(* The statements of a handler carry ids it has read before: that they     *)
(* still mean what they meant is the invariant RecordInv.                  *)
(***************************************************************************)
EXTENDS TypeProofs

Placed  == [n \in DOMAIN nlpearl |-> nlpearl[n].run]
Retried == [i \in Ids |-> tally[i].retried]
Resent  == [i \in Ids |-> tally[i].resent]

\* What a handler at a step that writes a call or a record by what it has read
\* may rely on: only the call worker places calls and each gets its row once;
\* the record of a call-ended webhook was there; the row it is to complete is
\* there as long as the record is.
AtTrigger(s, f) == f.pc \in {"trig.config", "trig.call", "trig.record"} => s = "trigger"
AtRecord(f) ==
  f.pc = "trig.record" =>
    /\ f.id \in Ids /\ f.call \in DOMAIN nlpearl /\ nlpearl[f.call].run = f.id
    /\ \A j \in Ids : \A m \in DOMAIN calls[j] : calls[j][m].request # f.call
AtEnd(f) ==
  f.pc \in {"end.get", "end.row"} =>
    f.id \in Ids /\ f.call \in DOMAIN nlpearl /\ runs[f.id].status # "none"
AtEndRow(f) ==
  /\ f.pc \in {"idle", "end.get"} => f.row = 0
  /\ f.pc = "end.row" /\ f.row # 0 /\ Exists(f.id) => f.row \in DOMAIN calls[f.id]
AtIngest(f) == f.pc \in {"ing.config", "ing.write"} => f.req \in Requests

Fits(s, f) == AtTrigger(s, f) /\ AtRecord(f) /\ AtEnd(f) /\ AtEndRow(f) /\ AtIngest(f)

RequestsPlaced ==
  \A j \in Ids : \A m \in DOMAIN calls[j] : calls[j][m].request <= Len(nlpearl)

RecordInv == RequestsPlaced /\ \A s \in Slots : Fits(s, frame[s])

Watched == {"idle", "trig.config", "trig.call", "trig.record", "end.get", "end.row",
            "ing.config", "ing.write"}

\* Only slot s moves, to a step that relies on nothing here.
Only(s)   == \A t \in Slots : t # s => frame'[t] = frame[t]
Leaves(s) == Only(s) /\ (frame'[s] = Idle \/ frame'[s].pc \notin Watched)

\* Records do not become unwritten, rows stay as long as their record, calls
\* placed stay what they are.
Grows ==
  /\ \A i \in Ids : runs[i].status # "none" =>
       /\ runs'[i].status # "none"
       /\ Exists(i)' => Exists(i) /\ DOMAIN calls[i] \subseteq DOMAIN calls'[i]
  /\ \A n \in DOMAIN nlpearl : n \in DOMAIN nlpearl' /\ nlpearl'[n].run = nlpearl[n].run

\* No row is made for a call that had none.
OldRequests ==
  \A j \in Ids : \A m \in DOMAIN calls'[j] :
    \/ calls'[j][m].request = 0
    \/ \E p \in DOMAIN calls[j] : calls[j][p].request = calls'[j][m].request

----------------------------------------------------------------------------
(* The two vocabularies.                                                   *)

\* Orchestrator and RecordTable speak of the same records.
LEMMA SameWords ==
  /\ Table!Ids = Ids /\ Table!Statuses = FlowRunStatus
  /\ Table!NoRow = NoRow /\ Table!Deleted = Deleted
  /\ Table!Row = Row /\ Table!CallRow = CallRow
  /\ \A i : Table!Live(i) <=> Exists(i)
BY DEF Table!Ids, Table!Statuses, Table!NoRow, Table!Deleted, Table!Row, Table!CallRow,
       Table!Live, Ids, FlowRunStatus, NoRow, Deleted, Row, CallRow, Exists

\* The tallies that RecordTable knows.
LEMMA TallyType ==
  ASSUME TypeInv
  PROVE  \A i \in Ids : tally[i] \in Tally
BY DEF TypeInv, TypeOK

\* A step that leaves runs, calls, nlpearl and the tally alone is none of the
\* table's.
LEMMA Stutters ==
  ASSUME UNCHANGED <<runs, calls, nlpearl, tally>>
  PROVE  UNCHANGED Table!vars
BY DEF Table!vars

\* A text sent is counted apart from retries and resends.
LEMMA SentStutters ==
  ASSUME TypeInv, NEW i, Count(i, "sent")
  PROVE  Retried' = Retried /\ Resent' = Resent
<1>1. tally' = [tally EXCEPT ![i] = [tally[i] EXCEPT !["sent"] = @ + 1]]
  BY DEF Count
<1>2. ASSUME NEW j \in Ids
      PROVE  tally'[j].retried = tally[j].retried /\ tally'[j].resent = tally[j].resent
  <2>1. tally \in [Ids -> Tally] /\ tally[j] \in Tally
    BY DEF TypeInv, TypeOK
  <2>2. CASE i = j
    BY <1>1, <2>1, <2>2 DEF Tally
  <2>3. CASE i # j
    BY <1>1, <2>1, <2>3
  <2> QED BY <2>2, <2>3
<1> QED BY <1>2 DEF Retried, Resent

\* A retry and a resend are each counted as such.
LEMMA RetriedCounts ==
  ASSUME TypeInv, NEW i \in Ids, Count(i, "retried")
  PROVE  Retried' = [Retried EXCEPT ![i] = @ + 1] /\ Resent' = Resent
<1>1. tally' = [tally EXCEPT ![i] = [tally[i] EXCEPT !["retried"] = @ + 1]]
  BY DEF Count
<1>2. /\ tally'[i].retried = tally[i].retried + 1 /\ tally'[i].resent = tally[i].resent
      /\ \A j \in Ids : j # i => tally'[j] = tally[j]
  <2>1. tally \in [Ids -> Tally] /\ tally[i] \in Tally
    BY DEF TypeInv, TypeOK
  <2> QED BY <1>1, <2>1 DEF Tally
<1> QED BY <1>2 DEF Retried, Resent

\* So it is for a resend.
LEMMA ResentCounts ==
  ASSUME TypeInv, NEW i \in Ids, Count(i, "resent")
  PROVE  Resent' = [Resent EXCEPT ![i] = @ + 1] /\ Retried' = Retried
<1>1. tally' = [tally EXCEPT ![i] = [tally[i] EXCEPT !["resent"] = @ + 1]]
  BY DEF Count
<1>2. /\ tally'[i].resent = tally[i].resent + 1 /\ tally'[i].retried = tally[i].retried
      /\ \A j \in Ids : j # i => tally'[j] = tally[j]
  <2>1. tally \in [Ids -> Tally] /\ tally[i] \in Tally
    BY DEF TypeInv, TypeOK
  <2> QED BY <1>1, <2>1 DEF Tally
<1> QED BY <1>2 DEF Retried, Resent

\* A call placed for record i is appended to those placed.
LEMMA PlacedAppends ==
  ASSUME TypeInv, NEW c \in PlacedCall, nlpearl' = Append(nlpearl, c)
  PROVE  Placed' = Append(Placed, c.run)
<1>1. nlpearl \in Seq(PlacedCall) /\ c.run \in Ids
  BY DEF TypeInv, TypeOK, PlacedCall
<1>2. \A n \in DOMAIN nlpearl : nlpearl[n].run \in Ids
  <2>1. \A n \in DOMAIN nlpearl : nlpearl[n] \in PlacedCall
    BY <1>1
  <2> QED BY <2>1 DEF PlacedCall
<1>3. Placed \in Seq(Ids) /\ Len(Placed) = Len(nlpearl) /\ DOMAIN Placed = DOMAIN nlpearl
  BY <1>1, <1>2 DEF Placed
<1>4. /\ DOMAIN Placed' = 1 .. Len(nlpearl) + 1
      /\ \A n \in 1 .. Len(nlpearl) + 1 :
           Placed'[n] = IF n = Len(nlpearl) + 1 THEN c.run ELSE nlpearl[n].run
  BY <1>1 DEF Placed
<1>5. /\ DOMAIN Append(Placed, c.run) = 1 .. Len(nlpearl) + 1
      /\ \A n \in 1 .. Len(nlpearl) + 1 :
           Append(Placed, c.run)[n] = IF n = Len(nlpearl) + 1 THEN c.run ELSE nlpearl[n].run
  BY <1>1, <1>3 DEF Placed
<1>6. Placed' = [n \in DOMAIN Placed' |-> Placed'[n]]
  BY DEF Placed
<1>7. Append(Placed, c.run) = [n \in DOMAIN Append(Placed, c.run) |-> Append(Placed, c.run)[n]]
  <2> HIDE DEF Placed
  <2>1. Append(Placed, c.run) \in Seq(Ids)
    BY <1>1, <1>3
  <2> DEFINE a == Append(Placed, c.run)
  <2>2. a \in Seq(Ids)
    BY <2>1
  <2> HIDE DEF a
  <2>3. a \in [1 .. Len(a) -> Ids]
    BY <2>2
  <2>4. a = [n \in DOMAIN a |-> a[n]]
    BY <2>3
  <2> QED BY <2>4 DEF a
<1> QED BY <1>4, <1>5, <1>6, <1>7

----------------------------------------------------------------------------
(* Each statement is the table's.                                          *)

\* A transition of a record.
LEMMA TransitionRefines ==
  ASSUME NEW i, Exists(i), NEW st \in FlowRunStatus \ {"Received", "CallTriggered"},
         SetStatus(i, st), UNCHANGED <<calls, nlpearl, tally>>
  PROVE  Table!Next
<1>1. Table!Transition(i, st)
  BY SameWords DEF Table!Transition, SetStatus
<1>2. i \in Table!Ids /\ st \in Table!Statuses \ {"Received", "CallTriggered"}
  BY SameWords DEF Exists
<1> QED BY <1>1, <1>2 DEF Table!Next

\* A retry.
LEMMA RetryRefines ==
  ASSUME TypeInv, NEW i, Exists(i), Count(i, "retried"),
         runs' = [runs EXCEPT ![i].attempt = @ + 1, ![i].status = "Scheduled"],
         UNCHANGED <<calls, nlpearl>>
  PROVE  Table!Next
<1>1. i \in Ids
  BY DEF Exists
<1>2. Retried' = [Retried EXCEPT ![i] = @ + 1] /\ Resent' = Resent
  BY <1>1, RetriedCounts
<1>3. Table!Retry(i)
  BY <1>2, SameWords DEF Table!Retry, Retried, Resent
<1> QED BY <1>1, <1>3, SameWords DEF Table!Next

\* A resend.
LEMMA ResendRefines ==
  ASSUME TypeInv, NEW i, Exists(i), Count(i, "resent"),
         runs' = [runs EXCEPT ![i].attempt = @ + 1, ![i].status = "Received"],
         UNCHANGED <<calls, nlpearl>>
  PROVE  Table!Next
<1>1. i \in Ids
  BY DEF Exists
<1>2. Resent' = [Resent EXCEPT ![i] = @ + 1] /\ Retried' = Retried
  BY <1>1, ResentCounts
<1>3. Table!Resend(i)
  BY <1>2, SameWords DEF Table!Resend, Retried, Resent
<1> QED BY <1>1, <1>3, SameWords DEF Table!Next

\* A call placed for a record.
LEMMA PlaceRefines ==
  ASSUME TypeInv, NEW s \in Slots, frame[s].key \in Keys, Rec(s) \in Ids, PlaceCall(s),
         UNCHANGED <<runs, calls, tally>>
  PROVE  Table!Next
<1> DEFINE c == [run |-> Rec(s), phone |-> frame[s].key.phone, outcome |-> Null]
<1>1. c \in PlacedCall /\ c.run = Rec(s)
  BY KeysAssumption DEF PlacedCall
<1>2. nlpearl' = Append(nlpearl, c)
  BY DEF PlaceCall
<1> HIDE DEF c
<1>3. PICK i \in Ids : i = Rec(s)
  OBVIOUS
<1>4. Placed' = Append(Placed, i)
  BY <1>1, <1>2, <1>3, PlacedAppends
<1>5. Table!Place(i)
  BY <1>4 DEF Table!Place, Placed
<1> QED BY <1>5, SameWords DEF Table!Next

\* The steps of dispatchOne and of a retry.
LEMMA DispatchRefines ==
  ASSUME TypeInv, NEW s \in Slots, DispatchStep(s)
  PROVE  Table!Next \/ UNCHANGED Table!vars
<1>1. {"PreSmsSent", "Failed", "Scheduled", "Completed"}
        \subseteq FlowRunStatus \ {"Received", "CallTriggered"}
  BY DEF FlowRunStatus
<1>2. CASE SendPreliminarySms(s)
  <2>1. CASE Count(Rec(s), "sent")
    BY <1>2, <2>1, SentStutters DEF SendPreliminarySms, db, Table!vars, Retried, Resent
  <2>2. CASE UNCHANGED tally
    BY <1>2, <2>2, Stutters DEF SendPreliminarySms, db
  <2> QED BY <1>2, <2>1, <2>2 DEF SendPreliminarySms
<1>3. CASE RecordPreSmsSent(s) \/ RecordFailed(s) \/ RecordScheduled(s) \/ SkipCtaCompleted(s)
  BY <1>1, <1>3, TransitionRefines, Stutters
     DEF RecordPreSmsSent, RecordFailed, RecordScheduled, SkipCtaCompleted, seen
<1>4. CASE BumpAttempt(s)
  BY <1>4, RetryRefines, Stutters DEF BumpAttempt
<1>5. CASE EnqueueTrigger(s) \/ EnqueueRetry(s) \/ ReadRetryConfig(s) \/ SyncSchedule(s)
  BY <1>5, Stutters DEF EnqueueTrigger, EnqueueRetry, ReadRetryConfig, SyncSchedule, db, seen
<1> QED BY <1>2, <1>3, <1>4, <1>5 DEF DispatchStep

\* The steps of the call worker: the call it records was placed for the record
\* it is about, and is in no row.
LEMMA TriggerRefines ==
  ASSUME TypeInv, RecordInv, NEW s \in Slots, TriggerStep(s)
  PROVE  Table!Next \/ UNCHANGED Table!vars
<1>1. CASE ReadTriggerConfig(s)
  BY <1>1, Stutters DEF ReadTriggerConfig, db, seen
<1>2. CASE MakeCall(s)
  <2>1. frame[s].key \in Keys /\ Rec(s) \in Ids
    BY <1>2, FrameType DEF MakeCall, At, Rec, Known, NeedsKey, NeedsId
  <2> QED BY <1>2, <2>1, PlaceRefines, Stutters DEF MakeCall, db, seen
<1>3. CASE RecordCall(s)
  <2>1. CASE UNCHANGED <<runs, calls>>
    BY <1>3, <2>1, Stutters DEF RecordCall, seen
  <2>2. CASE Exists(Rec(s)) /\ SetStatus(Rec(s), "CallTriggered")
             /\ calls' = [calls EXCEPT ![Rec(s)] =
                            Append(@, [request |-> frame[s].call, call |-> 0])]
    <3>1. /\ Rec(s) \in Ids /\ frame[s].call \in DOMAIN nlpearl
          /\ nlpearl[frame[s].call].run = Rec(s)
          /\ \A j \in Ids : \A m \in DOMAIN calls[j] : calls[j][m].request # frame[s].call
      BY <1>3 DEF RecordCall, At, Rec, RecordInv, Fits, AtRecord
    <3>2. Placed[frame[s].call] = Rec(s) /\ frame[s].call \in DOMAIN Placed
      BY <3>1 DEF Placed
    <3>3. UNCHANGED <<nlpearl, tally>>
      BY <1>3 DEF RecordCall, seen
    <3>4. Table!RecordCall(Rec(s), frame[s].call)
      BY <2>2, <3>1, <3>2, <3>3, SameWords DEF Table!RecordCall, SetStatus, Placed
    <3> QED BY <3>1, <3>2, <3>4, SameWords DEF Table!Next, Placed
  <2> QED BY <1>3, <2>1, <2>2 DEF RecordCall
<1> QED BY <1>1, <1>2, <1>3 DEF TriggerStep

\* The steps of ingest.
LEMMA IngestRefines ==
  ASSUME TypeInv, RecordInv, NEW s \in Slots, IngestStep(s)
  PROVE  Table!Next \/ UNCHANGED Table!vars
<1>1. CASE ReadIngestConfig(s)
  BY <1>1, Stutters DEF ReadIngestConfig, db, seen
<1>2. CASE WriteRecord(s)
  <2>1. /\ frame[s].key \in Keys /\ frame[s].req \in Requests
        /\ UNCHANGED <<calls, nlpearl, tally>>
    BY <1>2, FrameType
       DEF WriteRecord, At, Known, NeedsKey, RecordInv, Fits, AtIngest
  <2>2. ASSUME Exists(Rec(s)), UpdateRecord(s, Rec(s))
        PROVE  Table!Next
    <3>1. Table!Accept(Rec(s), frame[s].req)
      BY <2>1, <2>2, SameWords DEF Table!Accept, UpdateRecord
    <3> QED BY <2>1, <2>2, <3>1, SameWords DEF Table!Next, Exists
  <2>3. ASSUME NEW i \in Ids, NextId(i), CreateRecord(s, i), WithKey(frame[s].key) = {}
        PROVE  Table!Next
    <3>1. \A j \in Ids : Exists(j) => runs[j].key # frame[s].key
      BY <2>3 DEF WithKey, Records
    <3>2. Table!Create(i, frame[s].key, frame[s].req)
      BY <2>1, <2>3, <3>1, SameWords DEF Table!Create, CreateRecord, NextId
    <3> QED BY <2>1, <2>3, <3>2, SameWords DEF Table!Next
  <2>4. CASE UNCHANGED runs
    BY <2>1, <2>4, Stutters
  <2> QED BY <1>2, <2>2, <2>3, <2>4 DEF WriteRecord
<1>3. CASE WriteCta(s)
  <2>1. UNCHANGED <<calls, nlpearl, tally>>
    BY <1>3 DEF WriteCta, seen
  <2>2. ASSUME Exists(Rec(s)), runs' = [runs EXCEPT ![Rec(s)].cta = frame[s].cta]
        PROVE  Table!Next
    <3>1. frame[s].cta \in BOOLEAN
      BY FrameType DEF Frame
    <3>2. Table!MarkCta(Rec(s), frame[s].cta)
      BY <2>1, <2>2, SameWords DEF Table!MarkCta
    <3> QED BY <2>2, <3>1, <3>2, SameWords DEF Table!Next, Exists
  <2> QED BY <1>3, <2>1, <2>2, Stutters DEF WriteCta
<1> QED BY <1>1, <1>2, <1>3 DEF IngestStep

\* The steps of the webhooks: the row they complete is one of the record.
LEMMA WebhookRefines ==
  ASSUME TypeInv, RecordInv, NEW s \in Slots, WebhookStep(s)
  PROVE  Table!Next \/ UNCHANGED Table!vars
<1>1. CASE ReadConsentConfig(s) \/ SendConsentSms(s) \/ FindPendingCall(s) \/ DecideRetry(s)
  BY <1>1, Stutters
     DEF ReadConsentConfig, SendConsentSms, FindPendingCall, DecideRetry, db, seen
<1>2. CASE RecordConsent(s) \/ RecordCompleted(s)
  <2>1. {"ConsentGiven", "Completed"} \subseteq FlowRunStatus \ {"Received", "CallTriggered"}
    BY DEF FlowRunStatus
  <2> QED BY <1>2, <2>1, TransitionRefines, Stutters DEF RecordConsent, RecordCompleted, seen
<1>3. CASE RecordCallEnd(s)
  <2>1. UNCHANGED <<runs, nlpearl, tally>>
    BY <1>3 DEF RecordCallEnd, seen
  <2>2. CASE Exists(Rec(s)) /\ CompleteRow(s)
    <3> DEFINE i == Rec(s)  n == frame[s].call  m == frame[s].row
    <3>1. /\ i \in Ids /\ n \in DOMAIN nlpearl
          /\ m # 0 => m \in DOMAIN calls[i]
      BY <1>3, <2>2 DEF RecordCallEnd, At, Rec, RecordInv, Fits, AtEnd, AtEndRow
    <3>2. calls' = [calls EXCEPT ![i] = IF m = 0 THEN Append(@, [request |-> 0, call |-> n])
                                                 ELSE [@ EXCEPT ![m].call = n]]
      BY <2>2 DEF CompleteRow
    <3> HIDE DEF i, n, m
    <3>3. \/ calls' = [calls EXCEPT ![i] = Append(@, [request |-> 0, call |-> n])]
          \/ \E p \in DOMAIN calls[i] : calls' = [calls EXCEPT ![i] = [@ EXCEPT ![p].call = n]]
      <4>1. CASE m = 0
        BY <3>2, <4>1
      <4>2. CASE m # 0
        BY <3>1, <3>2, <4>2
      <4> QED BY <4>1, <4>2
    <3>4. Exists(i)
      BY <2>2 DEF i
    <3>5. Table!RecordEnd(i, n)
      BY <2>1, <3>3, <3>4, SameWords DEF Table!RecordEnd
    <3> QED BY <3>1, <3>5, SameWords DEF Table!Next
  <2> QED BY <1>3, <2>1, <2>2, Stutters DEF RecordCallEnd
<1> QED BY <1>1, <1>2, <1>3 DEF WebhookStep

\* What staff do.
LEMMA AdminRefines ==
  ASSUME TypeInv, NEW s \in Slots, AdminStep(s)
  PROVE  Table!Next \/ UNCHANGED Table!vars
<1>1. CASE ReadResendConfig(s) \/ WriteConfig(s)
  BY <1>1, Stutters DEF ReadResendConfig, WriteConfig, db, seen
<1>2. CASE ResendNow(s)
  BY <1>2, ResendRefines, Stutters DEF ResendNow
<1>3. CASE DeleteRecord(s)
  <2>1. UNCHANGED <<nlpearl, tally>>
    BY <1>3 DEF DeleteRecord, seen
  <2>2. ASSUME Exists(Rec(s)), runs' = [runs EXCEPT ![Rec(s)] = Deleted],
               calls' = [calls EXCEPT ![Rec(s)] = <<>>]
        PROVE  Table!Next
    <3>1. Table!Delete(Rec(s))
      BY <2>1, <2>2, SameWords DEF Table!Delete
    <3> QED BY <2>2, <3>1, SameWords DEF Table!Next, Exists
  <2> QED BY <1>3, <2>1, <2>2, Stutters DEF DeleteRecord
<1> QED BY <1>1, <1>2, <1>3 DEF AdminStep

\* The outcome of a call is not the table's.
LEMMA CallFinishesStutters ==
  ASSUME TypeInv, NEW n \in DOMAIN nlpearl, CallFinishes(n)
  PROVE  UNCHANGED Table!vars
<1>1. PICK o \in Outcomes : nlpearl' = [nlpearl EXCEPT ![n] = [nlpearl[n] EXCEPT !.outcome = o]]
  BY DEF CallFinishes
<1>2. nlpearl \in Seq(PlacedCall) /\ nlpearl[n] \in PlacedCall
  BY DEF TypeInv, TypeOK
<1>3. [nlpearl[n] EXCEPT !.outcome = o].run = nlpearl[n].run
  BY <1>2 DEF PlacedCall
<1>4. /\ DOMAIN nlpearl' = DOMAIN nlpearl
      /\ \A m \in DOMAIN nlpearl : nlpearl'[m].run = nlpearl[m].run
  BY <1>1, <1>2, <1>3
<1>5. Placed' = Placed
  BY <1>4 DEF Placed
<1> QED BY <1>5 DEF CallFinishes, db, seen, Table!vars, Placed

\* No handler writes a record at its first step.
LEMMA RequestKeeps ==
  ASSUME NEW s \in HttpSlots, Request(s)
  PROVE  UNCHANGED <<runs, calls, nlpearl, tally>>
<1>1. ASSUME NEW k \in Keys, NEW r \in Requests, FlowTrigger(s, k, r)
      PROVE  UNCHANGED <<runs, calls, nlpearl, tally>>
  BY <1>1 DEF FlowTrigger, db, seen
<1>2. ASSUME NEW k \in Keys, Consent(s, k) \/ \E done \in BOOLEAN : CtaComplete(s, k, done)
      PROVE  UNCHANGED <<runs, calls, nlpearl, tally>>
  BY <1>2 DEF Consent, CtaComplete, db, seen
<1>3. ASSUME NEW n \in DOMAIN nlpearl, CallEnded(s, n)
      PROVE  UNCHANGED <<runs, calls, nlpearl, tally>>
  BY <1>3 DEF CallEnded, db, seen
<1>4. ASSUME NEW i \in Ids, Resend(s, i) \/ Remove(s, i)
      PROVE  UNCHANGED <<runs, calls, nlpearl, tally>>
  BY <1>4 DEF Resend, Remove, db, seen
<1>5. ASSUME NEW f \in Flows,
             \/ RemoveConfig(s, f)
             \/ \E c \in Configs : CreateConfig(s, f, c) \/ UpdateConfig(s, f, c)
      PROVE  UNCHANGED <<runs, calls, nlpearl, tally>>
  BY <1>5 DEF RemoveConfig, CreateConfig, UpdateConfig, db, seen
<1> QED BY <1>1, <1>2, <1>3, <1>4, <1>5 DEF Request

\* Every step of the orchestrator is one statement of the table or none.
LEMMA StepRefines == TypeInv /\ RecordInv /\ [Next]_vars => [Table!Next]_(Table!vars)
<1> SUFFICES ASSUME TypeInv, RecordInv, [Next]_vars
             PROVE  Table!Next \/ UNCHANGED Table!vars
  OBVIOUS
<1>1. CASE \E s \in Slots : HandlerStep(s)
  BY <1>1, DispatchRefines, TriggerRefines, IngestRefines, WebhookRefines, AdminRefines
     DEF HandlerStep
<1>2. CASE \E f \in Flows : BatchStep(f)
  BY <1>2, Stutters DEF BatchStep, ListPending, NextPending, db, seen
<1>3. CASE \E j \in Jobs : FetchStep(j)
  BY <1>3, Stutters DEF FetchStep, FetchTrigger, FetchRetry, FetchDispatch, db, seen
<1>4. CASE \E s \in HttpSlots : Request(s)
  BY <1>4, RequestKeeps, Stutters
<1>5. CASE \E f \in Flows : CronTick(f)
  BY <1>5, Stutters DEF CronTick, db, seen
<1>6. CASE \E n \in DOMAIN nlpearl : CallFinishes(n)
  BY <1>6, CallFinishesStutters
<1>7. CASE Restart
  BY <1>7, Stutters DEF Restart, db, seen
<1>8. CASE UNCHANGED vars
  BY <1>8, Stutters DEF vars
<1> QED BY <1>1, <1>2, <1>3, <1>4, <1>5, <1>6, <1>7, <1>8 DEF Next, Quiescent

----------------------------------------------------------------------------
(* What handlers rely on stays true.                                       *)

\* No statement of the table takes anything back that was relied on.
LEMMA TableGrows ==
  ASSUME TypeInv, TypeInv', [Table!Next]_(Table!vars)
  PROVE  Grows
<1>1. /\ runs \in [Ids -> Row] /\ calls \in [Ids -> Seq(CallRow)]
      /\ runs' \in [Ids -> Row] /\ calls' \in [Ids -> Seq(CallRow)]
      /\ nlpearl \in Seq(PlacedCall) /\ nlpearl' \in Seq(PlacedCall)
  BY DEF TypeInv, TypeOK
<1>2. ASSUME Placed' = Placed \/ \E i \in Ids : Placed' = Append(Placed, i)
      PROVE  \A n \in DOMAIN nlpearl : n \in DOMAIN nlpearl' /\ nlpearl'[n].run = nlpearl[n].run
  <2>1. DOMAIN Placed = 1 .. Len(nlpearl) /\ DOMAIN Placed' = 1 .. Len(nlpearl')
    BY <1>1 DEF Placed
  <2>2. Placed \in Seq(Ids)
    <3>1. \A n \in DOMAIN nlpearl : nlpearl[n] \in PlacedCall
      BY <1>1
    <3>2. \A n \in 1 .. Len(nlpearl) : nlpearl[n].run \in Ids
      BY <1>1, <3>1 DEF PlacedCall
    <3>3. Placed = [n \in 1 .. Len(nlpearl) |-> nlpearl[n].run]
      BY <1>1 DEF Placed
    <3> QED BY <1>1, <3>2, <3>3
  <2>3. \A n \in DOMAIN Placed : n \in DOMAIN Placed' /\ Placed'[n] = Placed[n]
    <3> HIDE DEF Placed
    <3> QED BY <1>2, <2>2
  <2> QED BY <1>1, <2>1, <2>3 DEF Placed
<1>3. CASE UNCHANGED Table!vars
  <2>1. Placed' = Placed /\ UNCHANGED <<runs, calls>>
    BY <1>3 DEF Table!vars, Placed
  <2> QED BY <1>2, <2>1 DEF Grows, Exists
<1>4. CASE Table!Next
  <2>1. Placed' = Placed \/ \E i \in Ids : Placed' = Append(Placed, i)
    BY <1>4, SameWords
       DEF Table!Next, Table!Create, Table!Accept, Table!Transition, Table!Retry, Table!Resend,
           Table!MarkCta, Table!Place, Table!RecordCall, Table!RecordEnd, Table!Delete, Placed
  <2>2. ASSUME NEW i \in Ids, runs[i].status # "none"
        PROVE  /\ runs'[i].status # "none"
               /\ Exists(i)' => Exists(i) /\ DOMAIN calls[i] \subseteq DOMAIN calls'[i]
    <3>1. CASE \E j \in Ids : \/ Table!Place(j)
                              \/ \E k \in Keys, r \in Requests : Table!Create(j, k, r)
      BY <1>1, <2>2, <3>1 DEF Table!Place, Table!Create, Exists
    <3>2. CASE \E j \in Ids : \/ \E r \in Requests : Table!Accept(j, r)
                              \/ \E st \in FlowRunStatus : Table!Transition(j, st)
                              \/ Table!Retry(j) \/ Table!Resend(j)
                              \/ \E done \in BOOLEAN : Table!MarkCta(j, done)
      <4>1. UNCHANGED calls
        BY <3>2 DEF Table!Accept, Table!Transition, Table!Retry, Table!Resend, Table!MarkCta
      <4>2. PICK j \in Ids : \/ \E r \in Requests : Table!Accept(j, r)
                             \/ \E st \in FlowRunStatus : Table!Transition(j, st)
                             \/ Table!Retry(j) \/ Table!Resend(j)
                             \/ \E done \in BOOLEAN : Table!MarkCta(j, done)
        BY <3>2
      <4>3. Exists(j)
        BY <4>2, SameWords
           DEF Table!Accept, Table!Transition, Table!Retry, Table!Resend, Table!MarkCta
      <4>4. runs[j] \in Row /\ runs[j].status \in FlowRunStatus
        BY <1>1, <4>3 DEF Exists
      <4>5. runs'[j].status \in FlowRunStatus /\ \A k \in Ids : k # j => runs'[k] = runs[k]
        <5>1. CASE \E q \in Requests : Table!Accept(j, q)
          BY <1>1, <4>4, <5>1 DEF Table!Accept, Row, FlowRunStatus
        <5>2. CASE \E st \in FlowRunStatus : Table!Transition(j, st)
          BY <1>1, <4>4, <5>2 DEF Table!Transition, Row, FlowRunStatus
        <5>3. CASE Table!Retry(j) \/ Table!Resend(j)
          BY <1>1, <4>4, <5>3 DEF Table!Retry, Table!Resend, Row, FlowRunStatus
        <5>4. CASE \E done \in BOOLEAN : Table!MarkCta(j, done)
          BY <1>1, <4>4, <5>4 DEF Table!MarkCta, Row, FlowRunStatus
        <5> QED BY <4>2, <5>1, <5>2, <5>3, <5>4
      <4> QED BY <2>2, <4>1, <4>3, <4>5 DEF Exists, FlowRunStatus
    <3>3. CASE \E j \in Ids, n \in DOMAIN Placed : Table!RecordCall(j, n) \/ Table!RecordEnd(j, n)
      <4>1. PICK j \in Ids, n \in DOMAIN Placed : Table!RecordCall(j, n) \/ Table!RecordEnd(j, n)
        BY <3>3
      <4>2. /\ Exists(j) /\ runs'[j].status \in FlowRunStatus
            /\ \A k \in Ids : k # j => runs'[k] = runs[k]
        BY <1>1, <4>1, SameWords DEF Table!RecordCall, Table!RecordEnd, FlowRunStatus, Exists, Row
      <4>3. ASSUME NEW k \in Ids
            PROVE  DOMAIN calls[k] \subseteq DOMAIN calls'[k]
        <5>1. calls[k] \in Seq(CallRow)
          BY <1>1
        <5>2. CASE k # j
          BY <1>1, <4>1, <5>2 DEF Table!RecordCall, Table!RecordEnd
        <5>3. CASE k = j
          <6>1. \/ calls'[k] = Append(calls[k], [request |-> n, call |-> 0])
                \/ calls'[k] = Append(calls[k], [request |-> 0, call |-> n])
                \/ \E m \in DOMAIN calls[k] : calls'[k] = [calls[k] EXCEPT ![m].call = n]
            BY <1>1, <4>1, <5>3 DEF Table!RecordCall, Table!RecordEnd
          <6>2. [request |-> n, call |-> 0] \in CallRow /\ [request |-> 0, call |-> n] \in CallRow
            BY <1>1 DEF CallRow, Placed
          <6>3. ASSUME NEW c \in CallRow
                PROVE  DOMAIN calls[k] \subseteq DOMAIN Append(calls[k], c)
            BY <5>1
          <6> QED BY <6>1, <6>2, <6>3
        <5> QED BY <5>2, <5>3
      <4> QED BY <2>2, <4>2, <4>3 DEF Exists, FlowRunStatus
    <3>4. CASE \E j \in Ids : Table!Delete(j)
      <4>1. PICK j \in Ids : Table!Delete(j)
        BY <3>4
      <4>2. /\ runs'[j].status = "deleted" /\ \A k \in Ids : k # j => runs'[k] = runs[k]
            /\ \A k \in Ids : k # j => calls'[k] = calls[k]
        BY <1>1, <4>1, SameWords DEF Table!Delete, Deleted, NoRow
      <4> QED BY <2>2, <4>2 DEF Exists, FlowRunStatus
    <3> QED BY <1>4, <3>1, <3>2, <3>3, <3>4, SameWords DEF Table!Next, Placed
  <2> QED BY <1>2, <2>1, <2>2 DEF Grows
<1> QED BY <1>3, <1>4

\* A slot that has not moved may rely on what it did; if it is about to record
\* its call, as long as no other step makes a row.
LEMMA StillFits ==
  ASSUME TypeInv, RecordInv, Grows, NEW t \in Slots, frame'[t] = frame[t],
         OldRequests \/ frame[t].pc # "trig.record"
  PROVE  Fits(t, frame[t])'
<1>1. PICK f \in Frame : f = frame[t] /\ f = frame'[t] /\ Fits(t, f)
  BY FrameType DEF RecordInv
<1>2. AtTrigger(t, f)' /\ AtIngest(f)'
  BY <1>1 DEF Fits, AtTrigger, AtIngest
<1>3. AtRecord(f)'
  <2>1. DOMAIN nlpearl \subseteq Nat \ {0}
    BY DEF TypeInv, TypeOK
  <2> QED BY <1>1, <2>1 DEF Fits, AtRecord, Grows, OldRequests
<1>4. AtEnd(f) /\ AtEndRow(f)
  BY <1>1 DEF Fits
<1>5. AtEnd(f)'
  BY <1>4 DEF AtEnd, Grows
<1>6. AtEndRow(f)'
  BY <1>4 DEF AtEnd, AtEndRow, Grows
<1>7. Fits(t, f)'
  BY <1>2, <1>3, <1>5, <1>6 DEF Fits
<1> QED BY <1>1, <1>7 DEF Fits, AtTrigger, AtRecord, AtEnd, AtEndRow, AtIngest

\* Calls are only added to those placed.
LEMMA RequestsStay ==
  ASSUME TypeInv, TypeInv', RecordInv, Grows
  PROVE  /\ Len(nlpearl) <= Len(nlpearl') /\ Len(nlpearl) \in Nat /\ Len(nlpearl') \in Nat
         /\ \A j \in Ids : \A p \in DOMAIN calls[j] :
              calls[j][p].request \in Nat /\ calls[j][p].request <= Len(nlpearl)
<1>1. nlpearl \in Seq(PlacedCall) /\ nlpearl' \in Seq(PlacedCall)
  BY DEF TypeInv, TypeOK
<1>2. Len(nlpearl) # 0 => Len(nlpearl) \in DOMAIN nlpearl'
  BY <1>1 DEF Grows
<1>3. \A j \in Ids : \A p \in DOMAIN calls[j] : calls[j][p] \in CallRow
  BY DEF TypeInv, TypeOK
<1> QED BY <1>1, <1>2, <1>3 DEF RecordInv, RequestsPlaced, CallRow

\* A step of one slot disturbs no other.
LEMMA Elsewhere ==
  ASSUME TypeInv, TypeInv', RecordInv, Grows, OldRequests, NEW s \in Slots,
         Only(s), Fits(s, frame[s])'
  PROVE  RecordInv'
<1>1. RequestsPlaced'
  BY RequestsStay DEF OldRequests, RequestsPlaced
<1>2. ASSUME NEW t \in Slots, t # s
      PROVE  Fits(t, frame[t])'
  BY <1>2, StillFits DEF Only
<1> QED BY <1>1, <1>2 DEF RecordInv

\* So may one that has moved to where nothing is relied on.
LEMMA LeavesFit ==
  ASSUME NEW s \in Slots, Leaves(s)
  PROVE  Fits(s, frame[s])'
BY DEF Leaves, Watched, Idle, Fits, AtTrigger, AtRecord, AtEnd, AtEndRow, AtIngest

\* Without a statement on nlpearl_calls there is no new request.
LEMMA CallsKeptOld ==
  ASSUME UNCHANGED calls
  PROVE  OldRequests
BY DEF OldRequests

\* Going on to another step, returning and throwing.
LEMMA GotoLeaves ==
  ASSUME TypeInv, NEW s \in Slots, NEW pc \in Pcs \ Watched, Goto(s, pc)
  PROVE  Leaves(s)
<1>1. frame \in [Slots -> Frame] /\ frame[s] \in Frame
  BY DEF TypeInv, TypeOK
<1>2. frame'[s].pc = pc
  BY <1>1 DEF Goto, Frame
<1>3. Only(s)
  BY <1>1 DEF Goto, Only
<1> QED BY <1>2, <1>3 DEF Leaves

\* Returning leaves the slot idle.
LEMMA ReturnLeaves ==
  ASSUME TypeInv, NEW s \in Slots, Return(s)
  PROVE  Leaves(s)
<1>1. frame \in [Slots -> Frame]
  BY DEF TypeInv, TypeOK
<1> QED BY <1>1 DEF Return, Leaves, Only

\* So does anything else that puts the slot where nothing is relied on.
LEMMA SlotLeaves ==
  ASSUME TypeInv, NEW s \in Slots, NEW f, f.pc \notin Watched, frame' = [frame EXCEPT ![s] = f]
  PROVE  Leaves(s)
<1>1. frame \in [Slots -> Frame]
  BY DEF TypeInv, TypeOK
<1> QED BY <1>1 DEF Leaves, Only

\* A slot that leaves without a new request disturbs nothing.
LEMMA LeavesKeep ==
  ASSUME TypeInv, TypeInv', RecordInv, Grows, OldRequests, NEW s \in Slots, Leaves(s)
  PROVE  RecordInv'
BY LeavesFit, Elsewhere DEF Leaves

----------------------------------------------------------------------------
(* The actions, one lemma per module.                                      *)

\* dispatchOne and retries rely on nothing but the id, and make no row.
LEMMA DispatchKeeps ==
  ASSUME TypeInv, TypeInv', RecordInv, Grows, NEW s \in Slots, DispatchStep(s)
  PROVE  RecordInv'
<1>1. OldRequests
  BY CallsKeptOld DEF DispatchStep, SendPreliminarySms, RecordPreSmsSent, RecordFailed, EnqueueTrigger,
     RecordScheduled, SkipCtaCompleted, BumpAttempt, EnqueueRetry, ReadRetryConfig, SyncSchedule, db
<1>2. Leaves(s)
  <2>1. {"presms", "fail", "enqueue", "scheduled", "bump.enqueue", "batch.next"} \subseteq Pcs \ Watched
    BY DEF Pcs, Watched
  <2>2. CASE SendPreliminarySms(s) \/ RecordPreSmsSent(s) \/ EnqueueTrigger(s)
    BY <2>1, <2>2, GotoLeaves DEF SendPreliminarySms, RecordPreSmsSent, EnqueueTrigger
  <2>3. CASE RecordFailed(s) \/ RecordScheduled(s) \/ SkipCtaCompleted(s)
    BY <2>1, <2>3, GotoLeaves, ReturnLeaves
       DEF RecordFailed, RecordScheduled, SkipCtaCompleted, DispatchReturn, Throw
  <2>4. CASE BumpAttempt(s) \/ EnqueueRetry(s) \/ SyncSchedule(s)
    BY <2>1, <2>4, GotoLeaves, ReturnLeaves DEF BumpAttempt, EnqueueRetry, SyncSchedule, Throw
  <2>5. CASE ReadRetryConfig(s)
    <3> DEFINE c == config[frame[s].key.flow]
    <3>1. CASE frame' = [frame EXCEPT ![s].conf = c, ![s].pc = "sms"]
      <4>1. frame'[s].pc = "sms" /\ Only(s)
        BY <3>1, FrameType DEF TypeInv, TypeOK, Frame, Only
      <4> QED BY <4>1 DEF Leaves, Watched
    <3> QED BY <2>5, <3>1, ReturnLeaves DEF ReadRetryConfig
  <2> QED BY <2>2, <2>3, <2>4, <2>5 DEF DispatchStep
<1> QED BY <1>1, <1>2, LeavesKeep

\* Nor does the batch.
LEMMA BatchKeeps ==
  ASSUME TypeInv, TypeInv', RecordInv, Grows, NEW f \in Flows, BatchStep(f)
  PROVE  RecordInv'
<1>1. OldRequests
  BY CallsKeptOld DEF BatchStep, ListPending, NextPending, db
<1>2. f \in Slots
  BY WorkerSlots
<1>3. Leaves(f)
  <2>1. frame \in [Slots -> Frame] /\ frame[f] \in Frame
    BY <1>2 DEF TypeInv, TypeOK
  <2>2. CASE ListPending(f)
    <3>1. frame'[f].pc = "batch.next" /\ Only(f)
      BY <1>2, <2>1, <2>2 DEF ListPending, Frame, Only
    <3> QED BY <3>1 DEF Leaves, Watched
  <2>3. ASSUME NEW x \in frame[f].list, frame' = [frame EXCEPT ![f] = UnlessCta(TakingUp(@, x), "sms")]
        PROVE  Leaves(f)
    <3>1. frame'[f].pc \in {"skip", "sms"} /\ Only(f)
      BY <1>2, <2>1, <2>3 DEF UnlessCta, TakingUp, Frame, Only
    <3> QED BY <3>1 DEF Leaves, Watched
  <2> QED BY <1>2, <2>2, <2>3, ReturnLeaves DEF BatchStep, NextPending
<1> QED BY <1>1, <1>2, <1>3, LeavesKeep

\* Nor do the requests of staff; Delete only takes rows away.
LEMMA AdminKeeps ==
  ASSUME TypeInv, TypeInv', RecordInv, Grows, NEW s \in Slots, AdminStep(s)
  PROVE  RecordInv'
<1>1. OldRequests
  <2>1. CASE UNCHANGED calls
    BY <2>1, CallsKeptOld
  <2>2. CASE calls' = [calls EXCEPT ![Rec(s)] = <<>>]
    BY <2>2 DEF OldRequests, TypeInv, TypeOK
  <2> QED BY <2>1, <2>2 DEF AdminStep, ReadResendConfig, ResendNow, DeleteRecord, WriteConfig, db
<1>2. Leaves(s)
  <2>1. {"sms", "conf.sync"} \subseteq Pcs \ Watched
    BY DEF Pcs, Watched
  <2>2. CASE ResendNow(s) \/ DeleteRecord(s) \/ WriteConfig(s)
    BY <2>1, <2>2, GotoLeaves, ReturnLeaves DEF ResendNow, DeleteRecord, WriteConfig
  <2>3. CASE ReadResendConfig(s)
    <3> DEFINE c == config[frame[s].key.flow]
    <3>1. CASE frame' = [frame EXCEPT ![s].conf = c, ![s].pc = "resend.bump"]
      <4>1. frame'[s].pc = "resend.bump" /\ Only(s)
        BY <3>1, FrameType DEF TypeInv, TypeOK, Frame, Only
      <4> QED BY <4>1 DEF Leaves, Watched
    <3> QED BY <2>3, <3>1, ReturnLeaves DEF ReadResendConfig
  <2> QED BY <2>2, <2>3 DEF AdminStep
<1> QED BY <1>1, <1>2, LeavesKeep

\* A webhook finds the row of its record before it writes it, and its new row
\* is for no request.
LEMMA WebhookKeeps ==
  ASSUME TypeInv, TypeInv', RecordInv, Grows, NEW s \in Slots, WebhookStep(s)
  PROVE  RecordInv'
<1>1. OldRequests
  <2>1. CASE UNCHANGED calls
    BY <2>1, CallsKeptOld
  <2>2. CASE RecordCallEnd(s) /\ Exists(Rec(s)) /\ CompleteRow(s)
    <3> DEFINE i == Rec(s)  n == frame[s].call  m == frame[s].row
    <3>1. i \in Ids /\ calls[i] \in Seq(CallRow) /\ calls \in [Ids -> Seq(CallRow)] /\ n \in Nat
      BY <2>2, FrameType DEF Exists, TypeInv, TypeOK, Frame
    <3>2. m # 0 => m \in DOMAIN calls[i]
      BY <2>2 DEF RecordCallEnd, At, Rec, RecordInv, Fits, AtEndRow
    <3>3. calls' = [calls EXCEPT ![i] = IF m = 0 THEN Append(@, [request |-> 0, call |-> n])
                                                 ELSE [@ EXCEPT ![m].call = n]]
      BY <2>2 DEF CompleteRow
    <3> HIDE DEF i, n, m
    <3>4. \A j \in Ids : j # i => calls'[j] = calls[j]
      BY <3>1, <3>3
    <3>5. CASE m = 0
      <4>1. [request |-> 0, call |-> n] \in CallRow
        BY <3>1 DEF CallRow
      <4>2. \A c \in CallRow : \A p \in DOMAIN Append(calls[i], c) :
              \/ Append(calls[i], c)[p] = c
              \/ p \in DOMAIN calls[i] /\ Append(calls[i], c)[p] = calls[i][p]
        BY <3>1
      <4>3. calls'[i] = Append(calls[i], [request |-> 0, call |-> n])
        BY <3>1, <3>3, <3>5
      <4> QED BY <3>4, <4>1, <4>2, <4>3 DEF OldRequests
    <3>6. CASE m # 0
      <4>1. calls'[i] = [calls[i] EXCEPT ![m].call = n] /\ calls[i][m] \in CallRow
        BY <3>1, <3>2, <3>3, <3>6
      <4>2. \A p \in DOMAIN calls'[i] : p \in DOMAIN calls[i] /\ calls'[i][p].request = calls[i][p].request
        BY <3>1, <4>1 DEF CallRow
      <4> QED BY <3>4, <4>2 DEF OldRequests
    <3> QED BY <3>5, <3>6
  <2> QED BY <2>1, <2>2
        DEF WebhookStep, ReadConsentConfig, SendConsentSms, RecordConsent, FindPendingCall,
            RecordCallEnd, DecideRetry, RecordCompleted, db
<1>2. CASE ReadConsentConfig(s) \/ SendConsentSms(s) \/ RecordConsent(s) \/ RecordCallEnd(s)
            \/ DecideRetry(s) \/ RecordCompleted(s)
  <2>1. {"con.sms", "con.write", "end.config", "bump", "end.done"} \subseteq Pcs \ Watched
    BY DEF Pcs, Watched
  <2>2. Leaves(s)
    <3>1. CASE ReadConsentConfig(s) \/ SendConsentSms(s) \/ RecordConsent(s)
      BY <2>1, <3>1, GotoLeaves, ReturnLeaves DEF ReadConsentConfig, SendConsentSms, RecordConsent
    <3>2. CASE RecordCallEnd(s) \/ DecideRetry(s) \/ RecordCompleted(s)
      BY <2>1, <3>2, GotoLeaves, ReturnLeaves DEF RecordCallEnd, DecideRetry, RecordCompleted
    <3> QED BY <1>2, <3>1, <3>2
  <2> QED BY <1>1, <2>2, LeavesKeep
<1>3. CASE FindPendingCall(s)
  <2>1. frame \in [Slots -> Frame] /\ frame[s] \in Frame
    BY DEF TypeInv, TypeOK
  <2>2. /\ Rec(s) \in Ids /\ frame[s].call \in DOMAIN nlpearl /\ runs[Rec(s)].status # "none"
        /\ frame[s].row = 0 /\ frame[s].pc = "end.get"
    BY <1>3 DEF FindPendingCall, At, Rec, RecordInv, Fits, AtEnd, AtEndRow
  <2>3. CASE Return(s)
    BY <1>1, <2>3, ReturnLeaves, LeavesKeep
  <2>4. ASSUME NEW m, m = 0 \/ m \in DOMAIN calls[Rec(s)],
               frame' = [frame EXCEPT ![s].row = m, ![s].pc = "end.row"]
        PROVE  RecordInv'
    <3>1. /\ Only(s) /\ frame'[s].pc = "end.row" /\ frame'[s].row = m
          /\ frame'[s].id = Rec(s) /\ frame'[s].call = frame[s].call
      BY <2>1, <2>4 DEF Only, Frame, Rec
    <3>2. UNCHANGED <<runs, calls, nlpearl>>
      BY <1>3 DEF FindPendingCall, db
    <3>3. Fits(s, frame[s])'
      BY <2>2, <2>4, <3>1, <3>2 DEF Fits, AtTrigger, AtRecord, AtEnd, AtEndRow, AtIngest, Exists
    <3> QED BY <1>1, <3>1, <3>3, Elsewhere
  <2>5. CASE Goto(s, "end.row")
    <3>1. frame' = [frame EXCEPT ![s].row = 0, ![s].pc = "end.row"]
      BY <2>1, <2>2, <2>5 DEF Goto, Frame
    <3> QED BY <2>4, <3>1
  <2> QED BY <1>3, <2>3, <2>4, <2>5 DEF FindPendingCall, Pending
<1> QED BY <1>2, <1>3 DEF WebhookStep

\* Ingest carries the request id it was given to its write.
LEMMA IngestKeeps ==
  ASSUME TypeInv, TypeInv', RecordInv, Grows, NEW s \in Slots, IngestStep(s)
  PROVE  RecordInv'
<1>1. OldRequests
  BY CallsKeptOld DEF IngestStep, ReadIngestConfig, WriteRecord, WriteCta, db
<1>2. frame \in [Slots -> Frame] /\ frame[s] \in Frame
  BY DEF TypeInv, TypeOK
<1>3. CASE ReadIngestConfig(s)
  <2> DEFINE c == config[frame[s].key.flow]
  <2>1. CASE frame' = [frame EXCEPT ![s].conf = c, ![s].pc = "ing.write"]
    <3>1. frame[s].req \in Requests
      BY <1>3 DEF ReadIngestConfig, At, RecordInv, Fits, AtIngest
    <3>2. Only(s) /\ frame'[s].pc = "ing.write" /\ frame'[s].req = frame[s].req
      BY <1>2, <2>1 DEF Only, Frame
    <3>3. Fits(s, frame[s])'
      BY <3>1, <3>2 DEF Fits, AtTrigger, AtRecord, AtEnd, AtEndRow, AtIngest
    <3> QED BY <1>1, <3>2, <3>3, Elsewhere
  <2> QED BY <1>1, <1>3, <2>1, ReturnLeaves, LeavesKeep DEF ReadIngestConfig
<1>4. ASSUME NEW i, AfterIngest(s, i)
      PROVE  Leaves(s)
  <2> DEFINE g == [frame[s] EXCEPT !.id = i, !.cta = runs'[i].cta]
             f == UnlessCta(g, "sms")
             h == IF f.pc = "sms" /\ f.conf.sendSchedule THEN Idle ELSE f
  <2>1. f.pc \in {"skip", "sms"}
    BY <1>2 DEF UnlessCta, Frame
  <2>2. frame' = [frame EXCEPT ![s] = h]
    BY <1>4 DEF AfterIngest
  <2>3. h = Idle \/ h.pc \in {"skip", "sms"}
    BY <2>1
  <2> HIDE DEF h
  <2> QED BY <1>2, <2>2, <2>3 DEF Leaves, Only, Watched
<1>5. CASE WriteRecord(s) \/ WriteCta(s)
  BY <1>1, <1>4, <1>5, ReturnLeaves, LeavesKeep DEF WriteRecord, WriteCta
<1> QED BY <1>3, <1>5 DEF IngestStep

\* The call worker alone has a call to record, and the call is new.
LEMMA TriggerKeeps ==
  ASSUME TypeInv, TypeInv', RecordInv, Grows, NEW s \in Slots, TriggerStep(s)
  PROVE  RecordInv'
<1>1. frame \in [Slots -> Frame] /\ frame[s] \in Frame
  BY DEF TypeInv, TypeOK
<1>2. s = "trigger"
  BY DEF TriggerStep, ReadTriggerConfig, MakeCall, RecordCall, At, RecordInv, Fits, AtTrigger
<1>3. AfterTriggerFailure(s) \in Pcs \ Watched
  BY DEF AfterTriggerFailure, Pcs, Watched
<1>4. CASE ReadTriggerConfig(s)
  <2> DEFINE c == config[frame[s].key.flow]
  <2>1. OldRequests
    BY <1>4, CallsKeptOld DEF ReadTriggerConfig, db
  <2>2. CASE frame' = [frame EXCEPT ![s].conf = c, ![s].pc = "trig.call"]
    <3>1. Only(s) /\ frame'[s].pc = "trig.call"
      BY <1>1, <2>2 DEF Only, Frame
    <3>2. Fits(s, frame[s])'
      BY <1>2, <3>1 DEF Fits, AtTrigger, AtRecord, AtEnd, AtEndRow, AtIngest
    <3> QED BY <2>1, <3>1, <3>2, Elsewhere
  <2>3. CASE Return(s)
    BY <2>1, <2>3, ReturnLeaves, LeavesKeep
  <2> QED BY <1>4, <2>2, <2>3 DEF ReadTriggerConfig, Throw
<1>5. CASE MakeCall(s)
  <2>1. OldRequests /\ UNCHANGED <<runs, calls>>
    BY <1>5, CallsKeptOld DEF MakeCall, db
  <2>2. CASE Goto(s, AfterTriggerFailure(s))
    BY <1>3, <2>1, <2>2, GotoLeaves, LeavesKeep
  <2>3. CASE PlaceCall(s) /\ frame' = [frame EXCEPT ![s].call = Len(nlpearl) + 1, ![s].pc = "trig.record"]
    <3>1. /\ Only(s) /\ frame'[s].pc = "trig.record" /\ frame'[s].call = Len(nlpearl) + 1
          /\ frame'[s].id = Rec(s)
      BY <1>1, <2>3 DEF Only, Frame, Rec
    <3>2. Rec(s) \in Ids /\ frame[s].key \in Keys
      BY <1>5, FrameType DEF MakeCall, At, Rec, Known, NeedsId, NeedsKey
    <3>3. Len(nlpearl) + 1 \in DOMAIN nlpearl' /\ nlpearl'[Len(nlpearl) + 1].run = Rec(s)
      <4> DEFINE c == [run |-> Rec(s), phone |-> frame[s].key.phone, outcome |-> Null]
      <4>1. c \in PlacedCall /\ c.run = Rec(s)
        BY <3>2, KeysAssumption DEF PlacedCall
      <4>2. nlpearl' = Append(nlpearl, c) /\ nlpearl \in Seq(PlacedCall)
        BY <2>3 DEF PlaceCall, TypeInv, TypeOK
      <4> HIDE DEF c
      <4> QED BY <4>1, <4>2
    <3>4. \A j \in Ids : \A m \in DOMAIN calls'[j] : calls'[j][m].request # Len(nlpearl) + 1
      <4>1. \A j \in Ids : \A m \in DOMAIN calls[j] : calls[j][m] \in CallRow
        BY DEF TypeInv, TypeOK
      <4>2. Len(nlpearl) \in Nat
        BY DEF TypeInv, TypeOK
      <4> QED BY <2>1, <4>1, <4>2 DEF RecordInv, RequestsPlaced, CallRow
    <3>5. AtRecord(frame[s])'
      BY <3>1, <3>2, <3>3, <3>4 DEF AtRecord
    <3>6. Fits(s, frame[s])'
      BY <1>2, <3>1, <3>5 DEF Fits, AtTrigger, AtEnd, AtEndRow, AtIngest
    <3> QED BY <2>1, <3>1, <3>6, Elsewhere
  <2> QED BY <1>5, <2>2, <2>3 DEF MakeCall
<1>6. CASE RecordCall(s)
  <2>1. CASE Goto(s, AfterTriggerFailure(s)) /\ UNCHANGED calls
    BY <1>3, <2>1, GotoLeaves, LeavesKeep, CallsKeptOld
  <2>2. CASE /\ Exists(Rec(s)) /\ Return(s)
             /\ calls' = [calls EXCEPT ![Rec(s)] = Append(@, [request |-> frame[s].call, call |-> 0])]
    <3>1. Leaves(s) /\ Only(s)
      BY <2>2, ReturnLeaves DEF Leaves
    <3>2. \A t \in Slots : t # s => frame'[t] = frame[t] /\ frame'[t].pc # "trig.record"
      BY <1>2, <3>1 DEF Only, RecordInv, Fits, AtTrigger
    <3>3. \A t \in Slots : Fits(t, frame[t])'
      <4>1. Fits(s, frame[s])'
        BY <3>1, LeavesFit
      <4> QED BY <3>2, <4>1, StillFits
    <3>4. RequestsPlaced'
      <4> DEFINE c == [request |-> frame[s].call, call |-> 0]
      <4>1. c.request <= Len(nlpearl) /\ c.request \in Nat /\ c \in CallRow
        <5>1. frame[s].call \in DOMAIN nlpearl /\ nlpearl \in Seq(PlacedCall)
          BY <1>6 DEF RecordCall, At, RecordInv, Fits, AtRecord, TypeInv, TypeOK
        <5> QED BY <5>1 DEF CallRow
      <4>2. Rec(s) \in Ids /\ calls \in [Ids -> Seq(CallRow)] /\ calls[Rec(s)] \in Seq(CallRow)
        BY <2>2 DEF Exists, TypeInv, TypeOK
      <4>3. /\ calls'[Rec(s)] = Append(calls[Rec(s)], c)
            /\ \A j \in Ids : j # Rec(s) => calls'[j] = calls[j]
        BY <2>2, <4>2
      <4> HIDE DEF c
      <4>4. \A p \in DOMAIN calls'[Rec(s)] :
              \/ calls'[Rec(s)][p] = c
              \/ p \in DOMAIN calls[Rec(s)] /\ calls'[Rec(s)][p] = calls[Rec(s)][p]
        BY <4>1, <4>2, <4>3
      <4>5. \A j \in Ids : \A p \in DOMAIN calls'[j] : calls'[j][p].request <= Len(nlpearl)
        BY <4>1, <4>3, <4>4, RequestsStay
      <4>6. Len(nlpearl') = Len(nlpearl)
        BY <1>6 DEF RecordCall
      <4> QED BY <4>5, <4>6 DEF RequestsPlaced
    <3> QED BY <3>3, <3>4 DEF RecordInv
  <2> QED BY <1>6, <2>1, <2>2 DEF RecordCall
<1> QED BY <1>4, <1>5, <1>6 DEF TriggerStep

\* A worker takes a job up.
LEMMA FetchKeeps ==
  ASSUME TypeInv, TypeInv', RecordInv, Grows, NEW j \in Jobs, FetchStep(j)
  PROVE  RecordInv'
<1>1. OldRequests
  BY CallsKeptOld DEF FetchStep, FetchTrigger, FetchRetry, FetchDispatch, db
<1>2. frame \in [Slots -> Frame]
  BY DEF TypeInv, TypeOK
<1>3. CASE UNCHANGED frame
  <2>1. PICK s : s \in Slots
    BY WorkerSlots
  <2>2. Only(s)
    BY <1>3 DEF Only
  <2>3. Fits(s, frame[s])'
    BY <1>1, <1>3, <2>1, StillFits
  <2> QED BY <1>1, <2>1, <2>2, <2>3, Elsewhere
<1>4. CASE FetchTrigger(j) /\ frame' # frame
  <2>1. "trigger" \in Slots /\ Exists(j.id)
    BY <1>4, WorkerSlots DEF FetchTrigger
  <2> DEFINE g == Reading([frame["trigger"] EXCEPT !.op = "trigger", !.job = j], j.id)
             f == UnlessCta(g, "trig.config")
  <2>2. frame' = [frame EXCEPT !["trigger"] = f]
    BY <1>4 DEF FetchTrigger
  <2>3. f.pc \in {"skip", "trig.config"}
    BY <1>2, <2>1 DEF UnlessCta, Reading, Frame
  <2> HIDE DEF f
  <2>4. Only("trigger") /\ frame'["trigger"] = f
    BY <1>2, <2>1, <2>2 DEF Only
  <2>5. Fits("trigger", frame["trigger"])'
    BY <2>3, <2>4 DEF Fits, AtTrigger, AtRecord, AtEnd, AtEndRow, AtIngest
  <2> QED BY <1>1, <2>1, <2>4, <2>5, Elsewhere
<1>5. CASE FetchRetry(j) /\ frame' # frame
  <2>1. "retry" \in Slots /\ Exists(j.id)
    BY <1>5, WorkerSlots DEF FetchRetry
  <2> DEFINE g == Reading([frame["retry"] EXCEPT !.op = "retry", !.job = j], j.id)
             f == UnlessCta(g, "retry.config")
  <2>2. frame' = [frame EXCEPT !["retry"] = f]
    BY <1>5 DEF FetchRetry
  <2>3. f.pc \notin Watched
    BY <1>2, <2>1 DEF UnlessCta, Reading, Frame, Watched
  <2> HIDE DEF f
  <2> QED BY <1>1, <2>1, <2>2, <2>3, SlotLeaves, LeavesKeep
<1>6. CASE (\E f \in Flows : FetchDispatch(f, j)) /\ frame' # frame
  <2>1. PICK w \in Flows : FetchDispatch(w, j)
    BY <1>6
  <2>2. w \in Slots
    BY WorkerSlots
  <2> DEFINE f == [frame[w] EXCEPT !.op = "dispatch", !.job = j, !.conf = config[w], !.pc = "batch.list"]
  <2>3. frame' = [frame EXCEPT ![w] = f]
    BY <1>6, <2>1 DEF FetchDispatch
  <2>4. f.pc \notin Watched
    BY <1>2, <2>2 DEF Frame, Watched
  <2> HIDE DEF f
  <2> QED BY <1>1, <2>2, <2>3, <2>4, SlotLeaves, LeavesKeep
<1> QED BY <1>3, <1>4, <1>5, <1>6 DEF FetchStep

\* A request starts by reading a record.
LEMMA ReadingStarts ==
  ASSUME TypeInv, NEW s \in Slots, NEW f \in Frame, NEW i, Exists(i), NEW pc \in Pcs,
         frame' = [frame EXCEPT ![s] = [Reading(f, i) EXCEPT !.pc = pc]]
  PROVE  Only(s) /\ frame'[s].pc = pc /\ frame'[s].req = f.req
<1>1. frame \in [Slots -> Frame]
  BY DEF TypeInv, TypeOK
<1> DEFINE g == [Reading(f, i) EXCEPT !.pc = pc]
<1>2. g.pc = pc /\ g.req = f.req
  BY DEF Reading, Frame
<1> HIDE DEF g
<1>3. frame' = [frame EXCEPT ![s] = g]
  BY DEF g
<1> QED BY <1>1, <1>2, <1>3 DEF Only

\* A request comes in.
LEMMA RequestFits ==
  ASSUME TypeInv, TypeInv', RecordInv, Grows, NEW s \in HttpSlots, Request(s)
  PROVE  RecordInv'
<1>1. OldRequests /\ UNCHANGED <<runs, calls, nlpearl, tally>> /\ s \in Slots
  BY RequestKeeps, CallsKeptOld, WorkerSlots
<1>2. frame \in [Slots -> Frame] /\ frame[s] \in Frame
  BY <1>1 DEF TypeInv, TypeOK
<1>3. ASSUME NEW k \in Keys, NEW r \in Requests, FlowTrigger(s, k, r)
      PROVE  RecordInv'
  <2>1. Only(s) /\ frame'[s].pc = "ing.config" /\ frame'[s].req = r
    <3>1. CASE frame' = [frame EXCEPT ![s] = [@ EXCEPT !.op = "flowTrigger", !.pc = "ing.config",
                                                      !.key = k, !.req = r]]
      BY <1>1, <1>2, <3>1 DEF Only, Frame
    <3>2. ASSUME NEW i \in WithKey(k),
                 frame' = [frame EXCEPT ![s] = [Reading([@ EXCEPT !.op = "flowTrigger", !.req = r], i)
                                                EXCEPT !.pc = "ing.config"]]
          PROVE  Only(s) /\ frame'[s].pc = "ing.config" /\ frame'[s].req = r
      <4> DEFINE g == [frame[s] EXCEPT !.op = "flowTrigger", !.req = r]
      <4>1. g \in Frame /\ g.req = r
        BY <1>2 DEF Frame, Ops
      <4>2. PICK f \in Frame : f = g /\ f.req = r
        BY <4>1
      <4>3. Exists(i) /\ "ing.config" \in Pcs
        BY DEF WithKey, Records, Pcs
      <4>4. frame' = [frame EXCEPT ![s] = [Reading(f, i) EXCEPT !.pc = "ing.config"]]
        BY <3>2, <4>2
      <4>5. Only(s) /\ frame'[s].pc = "ing.config" /\ frame'[s].req = f.req
        BY <1>1, <4>3, <4>4, ReadingStarts
      <4> QED BY <4>2, <4>5
    <3> QED BY <1>3, <3>1, <3>2 DEF FlowTrigger
  <2>2. Fits(s, frame[s])'
    BY <2>1 DEF Fits, AtTrigger, AtRecord, AtEnd, AtEndRow, AtIngest
  <2> QED BY <1>1, <2>1, <2>2, Elsewhere
<1>4. ASSUME NEW n \in DOMAIN nlpearl, CallEnded(s, n)
      PROVE  RecordInv'
  <2>1. frame[s].row = 0
    BY <1>1, <1>4 DEF CallEnded, At, RecordInv, Fits, AtEndRow
  <2>2. PICK i \in Ids :
          /\ Exists(i)
          /\ frame' = [frame EXCEPT ![s] = [Reading([@ EXCEPT !.op = "callEnded"], i)
                                            EXCEPT !.pc = "end.get", !.call = n]]
    BY <1>4 DEF CallEnded, InCall, Records
  <2> DEFINE f == [Reading([frame[s] EXCEPT !.op = "callEnded"], i) EXCEPT !.pc = "end.get", !.call = n]
  <2>3. f.pc = "end.get" /\ f.call = n /\ f.id = i /\ f.row = 0
    BY <1>2, <2>1 DEF Reading, Frame
  <2>4. frame' = [frame EXCEPT ![s] = f]
    BY <2>2
  <2> HIDE DEF f
  <2>5. Only(s) /\ frame'[s] = f
    BY <1>1, <1>2, <2>4 DEF Only
  <2>6. runs[i].status # "none"
    BY <2>2 DEF Exists, FlowRunStatus
  <2>7. Fits(s, frame[s])'
    BY <1>1, <2>3, <2>5, <2>6 DEF Fits, AtTrigger, AtRecord, AtEnd, AtEndRow, AtIngest
  <2> QED BY <1>1, <2>5, <2>7, Elsewhere
<1>5. ASSUME Only(s), frame'[s].pc \in {"con.config", "cta.write", "resend.config", "delete",
                                        "conf.sync", "conf.write", "conf.delete"}
      PROVE  RecordInv'
  BY <1>1, <1>5, LeavesKeep DEF Leaves, Watched
<1>6. ASSUME NEW k \in Keys, Consent(s, k)
      PROVE  RecordInv'
  <2>1. PICK i \in WithKey(k) :
          frame' = [frame EXCEPT ![s] = [Reading([@ EXCEPT !.op = "consent"], i) EXCEPT !.pc = "con.config"]]
    BY <1>6 DEF Consent
  <2> DEFINE f == [frame[s] EXCEPT !.op = "consent"]
  <2>2. f \in Frame /\ Exists(i) /\ "con.config" \in Pcs
    BY <1>2 DEF WithKey, Records, Frame, Ops, Pcs
  <2>3. frame' = [frame EXCEPT ![s] = [Reading(f, i) EXCEPT !.pc = "con.config"]]
    BY <2>1
  <2> HIDE DEF f
  <2> QED BY <1>1, <1>5, <2>2, <2>3, ReadingStarts
<1>7. ASSUME NEW i \in Ids, Resend(s, i)
      PROVE  RecordInv'
  <2> DEFINE f == [frame[s] EXCEPT !.op = "resend"]
  <2>1. f \in Frame /\ Exists(i) /\ "resend.config" \in Pcs
    BY <1>2, <1>7 DEF Resend, Frame, Ops, Pcs
  <2>2. frame' = [frame EXCEPT ![s] = [Reading(f, i) EXCEPT !.pc = "resend.config"]]
    BY <1>7 DEF Resend
  <2> HIDE DEF f
  <2> QED BY <1>1, <1>5, <2>1, <2>2, ReadingStarts
<1>8. ASSUME NEW i \in Ids, Remove(s, i)
      PROVE  RecordInv'
  <2>1. Only(s) /\ frame'[s].pc = "delete"
    BY <1>1, <1>2, <1>8 DEF Remove, Frame, Only
  <2> QED BY <1>5, <2>1
<1>9. ASSUME NEW k \in Keys, NEW done \in BOOLEAN, CtaComplete(s, k, done)
      PROVE  RecordInv'
  <2>1. PICK m \in WithKey(k) :
          frame' = [frame EXCEPT ![s].op = "ctaComplete", ![s].pc = "cta.write",
                                 ![s].id = m, ![s].cta = done]
    BY <1>9 DEF CtaComplete
  <2>2. Only(s) /\ frame'[s].pc = "cta.write"
    BY <1>1, <1>2, <2>1 DEF Frame, Only
  <2> QED BY <1>5, <2>2
<1>10. ASSUME NEW f \in Flows,
             \/ RemoveConfig(s, f)
             \/ \E c \in Configs : CreateConfig(s, f, c) \/ UpdateConfig(s, f, c)
      PROVE  RecordInv'
  <2>1. CASE RemoveConfig(s, f)
    <3>1. Only(s) /\ frame'[s].pc = "conf.delete"
      BY <1>1, <1>2, <2>1 DEF RemoveConfig, Frame, Only
    <3> QED BY <1>5, <3>1
  <2>2. ASSUME NEW c, NEW pc \in {"conf.sync", "conf.write"},
               frame' = [frame EXCEPT ![s].op = "config", ![s].pc = pc,
                                      ![s].flow = f, ![s].conf = c]
        PROVE  RecordInv'
    <3>1. Only(s) /\ frame'[s].pc = pc
      BY <1>1, <1>2, <2>2 DEF Frame, Only
    <3> QED BY <1>5, <3>1
  <2>3. ASSUME NEW c \in Configs, CreateConfig(s, f, c)
        PROVE  RecordInv'
    BY <2>2, <2>3 DEF CreateConfig
  <2>4. ASSUME NEW c \in Configs, UpdateConfig(s, f, c)
        PROVE  RecordInv'
    BY <2>2, <2>4 DEF UpdateConfig
  <2> QED BY <1>10, <2>1, <2>3, <2>4
<1> QED BY <1>3, <1>4, <1>6, <1>7, <1>8, <1>9, <1>10 DEF Request

\* Every step keeps what the handlers rely on.
LEMMA NextRecordInv == TypeInv /\ TypeInv' /\ RecordInv /\ [Next]_vars => RecordInv'
<1> SUFFICES ASSUME TypeInv, TypeInv', RecordInv, [Next]_vars
             PROVE  RecordInv'
  OBVIOUS
<1>1. Grows
  BY StepRefines, TableGrows
<1>2. CASE \E s \in Slots : HandlerStep(s)
  BY <1>1, <1>2, DispatchKeeps, TriggerKeeps, IngestKeeps, WebhookKeeps, AdminKeeps DEF HandlerStep
<1>3. CASE \E f \in Flows : BatchStep(f)
  BY <1>1, <1>3, BatchKeeps
<1>4. CASE \E j \in Jobs : FetchStep(j)
  BY <1>1, <1>4, FetchKeeps
<1>5. CASE \E s \in HttpSlots : Request(s)
  BY <1>1, <1>5, RequestFits
<1>6. ASSUME UNCHANGED <<frame, calls>>
      PROVE  RecordInv'
  <2>1. PICK s : s \in Slots
    BY WorkerSlots
  <2>2. OldRequests /\ Only(s)
    BY <1>6, CallsKeptOld DEF Only
  <2>3. Fits(s, frame[s])'
    BY <1>1, <1>6, <2>1, <2>2, StillFits
  <2> QED BY <1>1, <2>1, <2>2, <2>3, Elsewhere
<1>7. CASE \E f \in Flows : CronTick(f)
  BY <1>6, <1>7 DEF CronTick, db
<1>8. CASE \E n \in DOMAIN nlpearl : CallFinishes(n)
  BY <1>6, <1>8 DEF CallFinishes, db
<1>9. CASE Restart
  <2>1. OldRequests
    BY <1>9, CallsKeptOld DEF Restart, db
  <2>2. RequestsPlaced'
    BY <1>1, <2>1, RequestsStay DEF OldRequests, RequestsPlaced
  <2>3. \A s \in Slots : frame'[s] = Idle
    BY <1>9 DEF Restart
  <2>4. \A s \in Slots : Fits(s, frame[s])'
    BY <2>3 DEF Idle, Fits, AtTrigger, AtRecord, AtEnd, AtEndRow, AtIngest
  <2> QED BY <2>2, <2>4 DEF RecordInv
<1>10. CASE UNCHANGED vars
  BY <1>6, <1>10 DEF vars
<1> QED BY <1>2, <1>3, <1>4, <1>5, <1>7, <1>8, <1>9, <1>10 DEF Next, Quiescent

\* In the beginning nothing is in flight and nothing was placed.
LEMMA InitRecordInv == Init => RecordInv
<1> SUFFICES ASSUME Init PROVE RecordInv
  OBVIOUS
<1>1. RequestsPlaced
  BY DEF Init, RequestsPlaced
<1>2. \A s \in Slots : Fits(s, frame[s])
  BY DEF Init, Idle, Fits, AtTrigger, AtRecord, AtEnd, AtEndRow, AtIngest
<1> QED BY <1>1, <1>2 DEF RecordInv

\* The initial tables are RecordTable's.
LEMMA InitRefines == Init => Table!Init
<1> SUFFICES ASSUME Init PROVE Table!Init
  OBVIOUS
<1>1. runs = [i \in Table!Ids |-> Table!NoRow] /\ calls = [i \in Table!Ids |-> <<>>]
  BY SameWords DEF Init
<1>2. Placed = <<>>
  BY DEF Init, Placed
<1>3. Retried = [i \in Table!Ids |-> 0] /\ Resent = [i \in Table!Ids |-> 0]
  <2>1. \A i \in Ids : tally[i].retried = 0 /\ tally[i].resent = 0
    BY DEF Init
  <2> QED BY <2>1, SameWords DEF Retried, Resent
<1> QED BY <1>1, <1>2, <1>3 DEF Table!Init, Placed, Retried, Resent

----------------------------------------------------------------------------
(* The theorems.                                                           *)

\* In every reachable state the handlers may rely on what they go by.
THEOREM RecordInvariance == Spec => [](TypeInv /\ RecordInv)
BY InitType, InitRecordInv, NextType, NextRecordInv, PTL DEF Spec

\* The orchestrator implements the table: TableKept.
THEOREM Implements == Spec => TableKept
<1>1. TypeInv /\ RecordInv /\ [Next]_vars => [Table!Next]_(Table!vars)
  BY StepRefines
<1> QED BY <1>1, InitRefines, RecordInvariance, PTL DEF Spec, TableKept, Table!Spec

\* So what RecordTable keeps holds of the orchestrator:
LEMMA TableInvariance == Spec => []Table!TableInv
BY Implements, Table!TableCorrect, PTL DEF TableKept

\* one record per identity (IngestService, the unique index of flow_runs) ...
THEOREM OneRow == Spec => []OneRowPerIdentity
<1>1. Table!TableInv => OneRowPerIdentity
  BY SameWords DEF Table!TableInv, Table!OneRow, OneRowPerIdentity, Records
<1> QED BY <1>1, TableInvariance, PTL

\* ... a true count of the attempts (scheduleRetry, resendNow) ...
THEOREM CountKept == Spec => []AttemptAccounting
<1>1. Table!TableInv => AttemptAccounting
  BY SameWords DEF Table!TableInv, Table!Accounting, AttemptAccounting, Records
<1> QED BY <1>1, TableInvariance, PTL

\* ... call rows on the record that was called (CallTriggerWorker) ...
THEOREM RowsKept == Spec => []CallRowsBelong
<1>1. Table!TableInv => CallRowsBelong
  <2> SUFFICES ASSUME Table!TableInv, NEW i \in Ids, NEW j \in Ids,
                      NEW m \in DOMAIN calls[i], NEW p \in DOMAIN calls[j],
                      calls[i][m].request # 0
               PROVE  /\ nlpearl[calls[i][m].request].run = i
                      /\ calls[j][p].request = calls[i][m].request => i = j /\ m = p
    BY DEF CallRowsBelong
  <2>1. /\ calls[i][m].request \in DOMAIN Placed /\ Placed[calls[i][m].request] = i
        /\ calls[j][p].request = calls[i][m].request => i = j /\ m = p
    BY SameWords DEF Table!TableInv, Table!RowsBelong, Placed
  <2> QED BY <2>1 DEF Placed
<1> QED BY <1>1, TableInvariance, PTL

\* ... and a deleted record is never written again (remove).
THEOREM DeletedKept == Spec => DeletedStaysDeleted
<1>1. Table!TableInv /\ [Table!Next]_(Table!vars) =>
        \A i \in Ids : runs[i].status = "deleted" =>
          runs'[i].status = "deleted" /\ calls'[i] = <<>>
  BY SameWords, Table!DeletedStep
<1>2. TypeInv /\ RecordInv /\ [Next]_vars => [Table!Next]_(Table!vars)
  BY StepRefines
<1> QED BY <1>1, <1>2, TableInvariance, RecordInvariance, PTL DEF Spec, DeletedStaysDeleted

============================================================================
