------------------------------ MODULE TextProofs ------------------------------
(***************************************************************************)
(* Texts and calls are counted against what paid for them: every call      *)
(* placed, queued or under way against a text delivered or a restart       *)
(* (CallsWithinTexts, HeadsUpPerCall), every text against the delivery,    *)
(* retry or resend it is for (SmsPerAttempt), and a record on its way to   *)
(* the call is in somebody's hands (NothingStranded).                      *)
(***************************************************************************)
EXTENDS FrameProofs

----------------------------------------------------------------------------
(* Counting.                                                               *)

LEMMA NoMore ==
  ASSUME NEW A, IsFiniteSet(A), NEW B, B \subseteq A
  PROVE  IsFiniteSet(B) /\ Cardinality(B) \in Nat /\ Cardinality(A) \in Nat
         /\ Cardinality(B) <= Cardinality(A)
BY FS_Subset, FS_CardinalityType

LEMMA OneMore ==
  ASSUME NEW A, IsFiniteSet(A), NEW y, NEW B, B \subseteq A \cup {y}
  PROVE  IsFiniteSet(B) /\ Cardinality(B) \in Nat /\ Cardinality(A) \in Nat
         /\ Cardinality(B) <= Cardinality(A) + 1
<1>1. Cardinality(A) \in Nat
  BY FS_CardinalityType
<1>2. IsFiniteSet(A \cup {y}) /\ Cardinality(A \cup {y}) <= Cardinality(A) + 1
  BY <1>1, FS_AddElement
<1>3. IsFiniteSet(B) /\ Cardinality(B) \in Nat /\ Cardinality(A \cup {y}) \in Nat
      /\ Cardinality(B) <= Cardinality(A \cup {y})
  BY <1>2, NoMore
<1> QED BY <1>1, <1>2, <1>3

LEMMA OneForOne ==
  ASSUME NEW A, IsFiniteSet(A), NEW x \in A, NEW D, D = A \ {x}, NEW y, NEW B, B \subseteq D \cup {y}
  PROVE  IsFiniteSet(B) /\ Cardinality(B) \in Nat /\ Cardinality(A) \in Nat
         /\ Cardinality(B) <= Cardinality(A)
<1>1. IsFiniteSet(D) /\ Cardinality(D) = Cardinality(A) - 1 /\ Cardinality(A) \in Nat
  BY FS_RemoveElement, FS_CardinalityType
<1>2. /\ IsFiniteSet(B) /\ Cardinality(B) \in Nat /\ Cardinality(D) \in Nat
      /\ Cardinality(B) <= Cardinality(D) + 1
  BY <1>1, OneMore
<1> QED BY <1>1, <1>2

----------------------------------------------------------------------------
(* Jobs, one by one.                                                       *)

JobsFor(on, i)   == {j \in Jobs : j.on = on /\ j.id = i}
Waiting(j)       == {<<"job", j, k>> : k \in 1 .. queue[j]}
JobTokens(on, i) == UNION {Waiting(j) : j \in JobsFor(on, i)}

LEMMA WaitingMember ==
  ASSUME NEW on, NEW i, NEW x
  PROVE  x \in JobTokens(on, i) <=>
           \E j \in JobsFor(on, i) : \E k \in 1 .. queue[j] : x = <<"job", j, k>>
BY DEF JobTokens, Waiting

LEMMA WaitingMemberNext ==
  ASSUME NEW on, NEW i, NEW x
  PROVE  x \in JobTokens(on, i)' <=>
           \E j \in JobsFor(on, i) : \E k \in 1 .. queue'[j] : x = <<"job", j, k>>
BY DEF JobTokens, Waiting

\* Jobs enqueued nowhere, or for others.
LEMMA NoNewTokens ==
  ASSUME TypeInv, TypeInv', NEW on, NEW i,
         \A j \in JobsFor(on, i) : queue'[j] <= queue[j]
  PROVE  JobTokens(on, i)' \subseteq JobTokens(on, i)
<1> SUFFICES ASSUME NEW x \in JobTokens(on, i)'
             PROVE  x \in JobTokens(on, i)
  OBVIOUS
<1>1. PICK j \in JobsFor(on, i) : \E k \in 1 .. queue'[j] : x = <<"job", j, k>>
  BY WaitingMemberNext
<1>2. PICK k \in 1 .. queue'[j] : x = <<"job", j, k>>
  BY <1>1
<1>3. queue[j] \in Nat /\ queue'[j] \in Nat
  BY DEF TypeInv, TypeOK, JobsFor
<1>4. k \in 1 .. queue[j]
  BY <1>2, <1>3
<1> QED BY <1>2, <1>4, WaitingMember

\* One job more.
LEMMA NewToken ==
  ASSUME TypeInv, TypeInv', NEW on, NEW i, NEW b \in Jobs,
         \A j \in JobsFor(on, i) : queue'[j] <= queue[j] + (IF j = b THEN 1 ELSE 0)
  PROVE  JobTokens(on, i)' \subseteq JobTokens(on, i) \cup {<<"job", b, queue[b] + 1>>}
<1> SUFFICES ASSUME NEW x \in JobTokens(on, i)', x # <<"job", b, queue[b] + 1>>
             PROVE  x \in JobTokens(on, i)
  OBVIOUS
<1>1. PICK j \in JobsFor(on, i) : \E k \in 1 .. queue'[j] : x = <<"job", j, k>>
  BY WaitingMemberNext
<1>2. PICK k \in 1 .. queue'[j] : x = <<"job", j, k>>
  BY <1>1
<1>3. queue[j] \in Nat /\ queue'[j] \in Nat
  BY DEF TypeInv, TypeOK, JobsFor
<1>4. k \in 1 .. queue[j]
  BY <1>2, <1>3
<1> QED BY <1>2, <1>4, WaitingMember

\* A job taken.
LEMMA TokenTaken ==
  ASSUME TypeInv, TypeInv', NEW on, NEW i, NEW b \in JobsFor(on, i),
         queue' = [queue EXCEPT ![b] = @ - 1], queue[b] > 0
  PROVE  /\ JobTokens(on, i)' \subseteq JobTokens(on, i) \ {<<"job", b, queue[b]>>}
         /\ <<"job", b, queue[b]>> \in JobTokens(on, i)
<1>1. queue \in [Jobs -> Nat] /\ b \in Jobs
  BY DEF TypeInv, TypeOK, JobsFor
<1>2. queue[b] \in 1 .. queue[b]
  BY <1>1
<1>3. <<"job", b, queue[b]>> \in JobTokens(on, i)
  BY <1>2, WaitingMember
<1>4. \A j \in JobsFor(on, i) : queue'[j] = IF j = b THEN queue[b] - 1 ELSE queue[j]
  BY <1>1 DEF JobsFor
<1>5. ASSUME NEW x \in JobTokens(on, i)'
      PROVE  x \in JobTokens(on, i) /\ x # <<"job", b, queue[b]>>
  <2>1. PICK j \in JobsFor(on, i) : \E k \in 1 .. queue'[j] : x = <<"job", j, k>>
    BY WaitingMemberNext
  <2>2. PICK k \in 1 .. queue'[j] : x = <<"job", j, k>>
    BY <2>1
  <2>3. queue[j] \in Nat /\ queue[b] \in Nat
    BY <1>1 DEF JobsFor
  <2>4. k \in 1 .. queue[j] /\ ~(j = b /\ k = queue[b])
    BY <1>4, <2>2, <2>3
  <2> QED BY <2>2, <2>4, WaitingMember
<1> QED BY <1>3, <1>5

\* A job given back.
LEMMA TokenReturned ==
  ASSUME TypeInv, TypeInv', NEW on, NEW i, NEW job \in Jobs \cup {Null},
         queue' = Redeliver(queue, job)
  PROVE  /\ \E y : JobTokens(on, i)' \subseteq JobTokens(on, i) \cup {y}
         /\ job = Null \/ job.on # on \/ job.id # i => JobTokens(on, i)' \subseteq JobTokens(on, i)
<1>1. queue \in [Jobs -> Nat]
  BY DEF TypeInv, TypeOK
<1>2. CASE job = Null \/ ~(job.tries > 0)
  <2>1. queue' = queue
    BY <1>2 DEF Redeliver
  <2>2. JobTokens(on, i)' \subseteq JobTokens(on, i)
    BY <2>1, <1>1, NoNewTokens DEF JobsFor
  <2> QED BY <2>2
<1>3. CASE job # Null /\ job.tries > 0
  <2>1. PICK b : b = [job EXCEPT !.tries = @ - 1]
    OBVIOUS
  <2>2. b \in Jobs /\ b.on = job.on /\ b.id = job.id
    BY <1>3, <2>1, BoundsAssumption DEF Jobs
  <2>3. queue' = [queue EXCEPT ![b] = @ + 1]
    BY <1>3, <2>1 DEF Redeliver
  <2>4. \A j \in JobsFor(on, i) : queue'[j] <= queue[j] + (IF j = b THEN 1 ELSE 0)
    BY <1>1, <2>3 DEF JobsFor
  <2>5. JobTokens(on, i)' \subseteq JobTokens(on, i) \cup {<<"job", b, queue[b] + 1>>}
    BY <2>2, <2>4, NewToken
  <2>6. ASSUME job.on # on \/ job.id # i
        PROVE  JobTokens(on, i)' \subseteq JobTokens(on, i)
    <3>1. \A j \in JobsFor(on, i) : queue'[j] <= queue[j]
      BY <1>1, <2>2, <2>3, <2>6 DEF JobsFor
    <3> QED BY <3>1, NoNewTokens
  <2> QED BY <1>3, <2>5, <2>6
<1> QED BY <1>2, <1>3

\* A restart gives back the one job the worker was at.
LEMMA TokensAtRestart ==
  ASSUME TypeInv, TypeInv', NEW on \in Workers, NEW i, Restart
  PROVE  \E y : JobTokens(on, i)' \subseteq JobTokens(on, i) \cup {y}
<1>1. queue \in [Jobs -> Nat]
  BY DEF TypeInv, TypeOK
<1>2. PICK job : job = frame[on].job
  OBVIOUS
<1>3. \A j \in Jobs : j.on = on =>
        queue'[j] = IF job # Null /\ job.id = j.id /\ job.tries = j.tries + 1
                    THEN queue[j] + 1 ELSE queue[j]
  BY <1>2 DEF Restart
<1>4. CASE \E b \in JobsFor(on, i) : job # Null /\ job.id = b.id /\ job.tries = b.tries + 1
  <2>1. PICK b \in JobsFor(on, i) : job # Null /\ job.id = b.id /\ job.tries = b.tries + 1
    BY <1>4
  <2>2. ASSUME NEW j \in JobsFor(on, i)
        PROVE  queue'[j] <= queue[j] + (IF j = b THEN 1 ELSE 0)
    <3>1. j.tries \in Nat /\ b.tries \in Nat /\ queue[j] \in Nat
      <4>1. queue[j] \in Nat
        BY <1>1 DEF JobsFor
      <4>2. \A k \in Jobs : k.tries \in 0 .. RetryLimit
        BY DEF Jobs
      <4> QED BY <4>1, <4>2, BoundsAssumption DEF JobsFor
    <3>2. j.tries = b.tries => j = b
      BY DEF JobsFor, Jobs
    <3> QED BY <1>3, <2>1, <3>1, <3>2 DEF JobsFor
  <2> QED BY <2>1, <2>2, NewToken DEF JobsFor
<1>5. CASE ~ \E b \in JobsFor(on, i) : job # Null /\ job.id = b.id /\ job.tries = b.tries + 1
  <2>1. \A j \in JobsFor(on, i) : queue'[j] <= queue[j]
    BY <1>1, <1>3, <1>5 DEF JobsFor
  <2> QED BY <2>1, NoNewTokens
<1> QED BY <1>4, <1>5

----------------------------------------------------------------------------
(* Calls.                                                                  *)

\* What a text delivered for record i has become: a call placed, a call job,
\* a handler about to enqueue one, the call worker about to place the call.
CallsOf(i) == {n \in DOMAIN nlpearl : nlpearl[n].run = i}
Live(i)    == runs[i].status # "deleted"
ToCall(s)  == \/ frame[s].pc \in {"presms", "enqueue"}
              \/ s = "trigger" /\ frame[s].pc \in {"skip", "trig.config", "trig.call"}
CallsTo(i) == {s \in Slots : Rec(s) = i /\ ToCall(s)}
Pursued(i) == {<<"call", n, 0>> : n \in CallsOf(i)}
              \cup (IF Live(i) THEN JobTokens("trigger", i) ELSE {})
              \cup {<<"slot", s, 0>> : s \in CallsTo(i)}

PaidFor(i) == /\ IsFiniteSet(Pursued(i))
              /\ Cardinality(Pursued(i)) <= tally[i].sent + used["restart"]
CallInv == /\ \A i \in Ids : PaidFor(i)
           /\ frame["trigger"].pc # "idle" =>
                Rec("trigger") \in Ids /\ runs[Rec("trigger")].status # "none"

\* The call worker's record, seen from the job it may give back.
LEMMA LiveStays ==
  ASSUME TypeInv, TypeInv', Grows
  PROVE  \A i \in Ids : Live(i)' => Live(i)
<1>1. \A i \in Ids : runs'[i] \in Row
  BY DEF TypeInv, TypeOK
<1> QED BY <1>1 DEF Grows, Live, Exists, Row, FlowRunStatus

RestartsType == used["restart"] \in Nat
LEMMA UsedType == TypeInv => RestartsType
BY BoundsAssumption DEF TypeInv, TypeOK, RestartsType

LEMMA SpendOther ==
  ASSUME TypeInv, NEW input, Spend(input), input # "restart"
  PROVE  used'["restart"] = used["restart"]
BY DEF Spend, TypeInv, TypeOK

LEMMA SpendRestart ==
  ASSUME TypeInv, Spend("restart")
  PROVE  used'["restart"] = used["restart"] + 1
BY BoundsAssumption DEF Spend, TypeInv, TypeOK

\* Three ways to stay paid for.
LEMMA StillPaid ==
  ASSUME TypeInv, TypeInv', NEW i \in Ids, PaidFor(i), Pursued(i)' \subseteq Pursued(i),
         tally'[i].sent >= tally[i].sent, used'["restart"] >= used["restart"]
  PROVE  PaidFor(i)'
<1>1. /\ IsFiniteSet(Pursued(i)') /\ Cardinality(Pursued(i)') \in Nat
      /\ Cardinality(Pursued(i)) \in Nat /\ Cardinality(Pursued(i)') <= Cardinality(Pursued(i))
  BY NoMore DEF PaidFor
<1>2. /\ tally[i].sent \in Nat /\ tally'[i].sent \in Nat
      /\ used["restart"] \in Nat /\ used'["restart"] \in Nat
  BY BoundsAssumption DEF TypeInv, TypeOK, Tally
<1> QED BY <1>1, <1>2 DEF PaidFor

LEMMA PaidAgain ==
  ASSUME TypeInv, TypeInv', NEW i \in Ids, PaidFor(i), NEW y, Pursued(i)' \subseteq Pursued(i) \cup {y},
         tally'[i].sent + used'["restart"] >= tally[i].sent + used["restart"] + 1
  PROVE  PaidFor(i)'
<1>1. /\ IsFiniteSet(Pursued(i)') /\ Cardinality(Pursued(i)') \in Nat
      /\ Cardinality(Pursued(i)) \in Nat /\ Cardinality(Pursued(i)') <= Cardinality(Pursued(i)) + 1
  BY OneMore DEF PaidFor
<1>2. /\ tally[i].sent \in Nat /\ tally'[i].sent \in Nat
      /\ used["restart"] \in Nat /\ used'["restart"] \in Nat
  BY BoundsAssumption DEF TypeInv, TypeOK, Tally
<1> QED BY <1>1, <1>2 DEF PaidFor

LEMMA PassedOn ==
  ASSUME TypeInv, TypeInv', NEW i \in Ids, PaidFor(i), NEW x \in Pursued(i), NEW y,
         Pursued(i)' \subseteq (Pursued(i) \ {x}) \cup {y},
         tally'[i].sent = tally[i].sent, used'["restart"] = used["restart"]
  PROVE  PaidFor(i)'
<1>1. /\ IsFiniteSet(Pursued(i)') /\ Cardinality(Pursued(i)') \in Nat
      /\ Cardinality(Pursued(i)) \in Nat /\ Cardinality(Pursued(i)') <= Cardinality(Pursued(i))
  <2>1. PICK A, B, D : A = Pursued(i) /\ B = Pursued(i)' /\ D = A \ {x}
    OBVIOUS
  <2>2. IsFiniteSet(A) /\ x \in A /\ D = A \ {x} /\ B \subseteq D \cup {y}
    BY <2>1 DEF PaidFor
  <2>3. /\ IsFiniteSet(B) /\ Cardinality(B) \in Nat
        /\ Cardinality(A) \in Nat /\ Cardinality(B) <= Cardinality(A)
    BY <2>2, OneForOne
  <2> QED BY <2>1, <2>3
<1>2. /\ tally[i].sent \in Nat /\ used["restart"] \in Nat
  BY BoundsAssumption DEF TypeInv, TypeOK, Tally
<1> QED BY <1>1, <1>2 DEF PaidFor

LEMMA PursuedMember ==
  ASSUME NEW i, NEW x
  PROVE  /\ x \in Pursued(i) <=> \/ \E n \in CallsOf(i) : x = <<"call", n, 0>>
                                 \/ Live(i) /\ x \in JobTokens("trigger", i)
                                 \/ \E s \in CallsTo(i) : x = <<"slot", s, 0>>
         /\ x \in Pursued(i)' <=> \/ \E n \in CallsOf(i)' : x = <<"call", n, 0>>
                                  \/ Live(i)' /\ x \in JobTokens("trigger", i)'
                                  \/ \E s \in CallsTo(i)' : x = <<"slot", s, 0>>
BY DEF Pursued

\* The kinds of token are apart.
LEMMA TokensApart ==
  ASSUME NEW on, NEW i, NEW x \in JobTokens(on, i)
  PROVE  \A a, b : x # <<"call", a, b>> /\ x # <<"slot", a, b>>
<1>1. PICK j, k : x = <<"job", j, k>>
  BY WaitingMember
<1> QED BY <1>1

\* Nothing is added.
LEMMA PursuedLess ==
  ASSUME NEW i, CallsOf(i)' \subseteq CallsOf(i), Live(i)' => Live(i),
         Live(i)' => JobTokens("trigger", i)' \subseteq JobTokens("trigger", i),
         CallsTo(i)' \subseteq CallsTo(i)
  PROVE  Pursued(i)' \subseteq Pursued(i)
BY PursuedMember

\* A handler on the way to the call hands over to what it leaves behind.
LEMMA SlotPassesOn ==
  ASSUME NEW i, NEW s, NEW y, s \in CallsTo(i), Live(i)' => Live(i),
         CallsTo(i)' \subseteq CallsTo(i) \ {s},
         \/ /\ CallsOf(i)' \subseteq CallsOf(i)
            /\ Live(i)' => JobTokens("trigger", i)' \subseteq JobTokens("trigger", i) \cup {y}
         \/ /\ \E n : y = <<"call", n, 0>> /\ CallsOf(i)' \subseteq CallsOf(i) \cup {n}
            /\ Live(i)' => JobTokens("trigger", i)' \subseteq JobTokens("trigger", i)
  PROVE  /\ <<"slot", s, 0>> \in Pursued(i)
         /\ Pursued(i)' \subseteq (Pursued(i) \ {<<"slot", s, 0>>}) \cup {y}
<1>1. <<"slot", s, 0>> \in Pursued(i)
  BY PursuedMember
<1>2. ASSUME NEW x \in Pursued(i)', x # y
      PROVE  x \in Pursued(i) /\ x # <<"slot", s, 0>>
  <2>1. CASE \E n \in CallsOf(i)' : x = <<"call", n, 0>>
    <3>1. PICK n \in CallsOf(i)' : x = <<"call", n, 0>>
      BY <2>1
    <3>2. n \in CallsOf(i)
      BY <1>2, <3>1
    <3> QED BY <3>1, <3>2, PursuedMember
  <2>2. CASE Live(i)' /\ x \in JobTokens("trigger", i)'
    <3>1. x \in JobTokens("trigger", i)
      BY <1>2, <2>2
    <3> QED BY <2>2, <3>1, PursuedMember, TokensApart
  <2>3. CASE \E t \in CallsTo(i)' : x = <<"slot", t, 0>>
    <3>1. PICK t \in CallsTo(i)' : x = <<"slot", t, 0>>
      BY <2>3
    <3>2. t \in CallsTo(i) /\ t # s
      BY <3>1
    <3> QED BY <3>1, <3>2, PursuedMember
  <2> QED BY <1>2, <2>1, <2>2, <2>3, PursuedMember
<1> QED BY <1>1, <1>2

\* The worker takes a job over.
LEMMA JobPassesOn ==
  ASSUME NEW i, NEW s, NEW y, Live(i), CallsOf(i)' \subseteq CallsOf(i),
         y \in JobTokens("trigger", i), JobTokens("trigger", i)' \subseteq JobTokens("trigger", i) \ {y},
         CallsTo(i)' \subseteq CallsTo(i) \cup {s}
  PROVE  /\ y \in Pursued(i)
         /\ Pursued(i)' \subseteq (Pursued(i) \ {y}) \cup {<<"slot", s, 0>>}
<1>1. y \in Pursued(i)
  BY PursuedMember
<1>2. ASSUME NEW x \in Pursued(i)', x # <<"slot", s, 0>>
      PROVE  x \in Pursued(i) /\ x # y
  <2>1. CASE \E n \in CallsOf(i)' : x = <<"call", n, 0>>
    BY <2>1, PursuedMember, TokensApart
  <2>2. CASE Live(i)' /\ x \in JobTokens("trigger", i)'
    BY <2>2, PursuedMember
  <2>3. CASE \E t \in CallsTo(i)' : x = <<"slot", t, 0>>
    <3>1. PICK t \in CallsTo(i)' : x = <<"slot", t, 0>>
      BY <2>3
    <3>2. t \in CallsTo(i)
      BY <1>2, <3>1
    <3> QED BY <3>1, <3>2, PursuedMember, TokensApart
  <2> QED BY <1>2, <2>1, <2>2, <2>3, PursuedMember
<1> QED BY <1>1, <1>2

\* Counting one thing leaves the others.
LEMMA CountsSent ==
  ASSUME TypeInv, NEW i, Count(i, "sent")
  PROVE  \A j \in Ids : tally'[j].sent = tally[j].sent + (IF j = i THEN 1 ELSE 0)
<1>1. tally' = [tally EXCEPT ![i] = [tally[i] EXCEPT !["sent"] = @ + 1]]
  BY DEF Count
<1>2. ASSUME NEW j \in Ids
      PROVE  tally'[j].sent = tally[j].sent + (IF j = i THEN 1 ELSE 0)
  <2>1. tally \in [Ids -> Tally] /\ tally[j] \in Tally
    BY DEF TypeInv, TypeOK
  <2>2. tally[j].sent \in Nat
    BY <2>1 DEF Tally
  <2> QED BY <1>1, <2>1, <2>2 DEF Tally
<1> QED BY <1>2

LEMMA CountsOther ==
  ASSUME TypeInv, NEW i, NEW what \in {"retried", "resent"}, Count(i, what)
  PROVE  \A j \in Ids : tally'[j].sent = tally[j].sent
<1>1. tally' = [tally EXCEPT ![i] = [tally[i] EXCEPT ![what] = @ + 1]]
  BY DEF Count
<1>2. ASSUME NEW j \in Ids
      PROVE  tally'[j].sent = tally[j].sent
  <2>1. tally \in [Ids -> Tally] /\ tally[j] \in Tally
    BY DEF TypeInv, TypeOK
  <2>2. CASE j = i
    BY <1>1, <2>1, <2>2 DEF Tally
  <2>3. CASE j # i
    BY <1>1, <2>1, <2>3
  <2> QED BY <2>2, <2>3
<1> QED BY <1>2

\* What a handler's step leaves alone.
LEMMA HandlersSpare ==
  ASSUME TypeInv, NEW s \in Slots, HandlerStep(s)
  PROVE  /\ UNCHANGED used
         /\ UNCHANGED nlpearl \/ MakeCall(s)
         /\ (\A i \in Ids : tally'[i].sent = tally[i].sent) \/ SendPreliminarySms(s)
<1> USE DEF seen
<1>1. CASE DispatchStep(s)
  <2>1. CASE BumpAttempt(s)
    BY <2>1, CountsOther DEF BumpAttempt
  <2> QED BY <1>1, <2>1 DEF DispatchStep, SendPreliminarySms, RecordPreSmsSent, RecordFailed,
       EnqueueTrigger, RecordScheduled, SkipCtaCompleted, EnqueueRetry, ReadRetryConfig, SyncSchedule
<1>2. CASE TriggerStep(s)
  BY <1>2 DEF TriggerStep, ReadTriggerConfig, MakeCall, RecordCall
<1>3. CASE IngestStep(s)
  BY <1>3 DEF IngestStep, ReadIngestConfig, WriteRecord, WriteCta
<1>4. CASE WebhookStep(s)
  BY <1>4 DEF WebhookStep, ReadConsentConfig, SendConsentSms, RecordConsent, FindPendingCall,
     RecordCallEnd, DecideRetry, RecordCompleted
<1>5. CASE AdminStep(s)
  <2>1. CASE ResendNow(s)
    BY <2>1, CountsOther DEF ResendNow
  <2> QED BY <1>5, <2>1 DEF AdminStep, ReadResendConfig, DeleteRecord, WriteConfig
<1> QED BY <1>1, <1>2, <1>3, <1>4, <1>5 DEF HandlerStep

\* How the jobs change.
LEMMA HandlersQueue ==
  ASSUME NEW s, HandlerStep(s)
  PROVE  \/ UNCHANGED queue
         \/ EnqueueTrigger(s) \/ EnqueueRetry(s) \/ ReadTriggerConfig(s)
         \/ ~Exists(Rec(s)) /\ Throw(s) /\ frame[s].pc \in {"fail", "scheduled", "skip", "bump"}
<1> USE DEF boss, At
<1>1. CASE DispatchStep(s)
  BY <1>1 DEF DispatchStep, SendPreliminarySms, RecordPreSmsSent, RecordFailed, RecordScheduled,
     SkipCtaCompleted, BumpAttempt, ReadRetryConfig, SyncSchedule
<1>2. CASE TriggerStep(s)
  BY <1>2 DEF TriggerStep, MakeCall, RecordCall
<1>3. CASE IngestStep(s)
  BY <1>3 DEF IngestStep, ReadIngestConfig, WriteRecord, WriteCta
<1>4. CASE WebhookStep(s)
  BY <1>4 DEF WebhookStep, ReadConsentConfig, SendConsentSms, RecordConsent, FindPendingCall,
     RecordCallEnd, DecideRetry, RecordCompleted
<1>5. CASE AdminStep(s)
  BY <1>5 DEF AdminStep, ReadResendConfig, ResendNow, DeleteRecord, WriteConfig
<1> QED BY <1>1, <1>2, <1>3, <1>4, <1>5 DEF HandlerStep

LEMMA FrameJob ==
  ASSUME TypeInv, FrameInv, NEW s \in Slots
  PROVE  /\ frame[s].job \in Jobs \cup {Null} /\ frame[s].id \in 0 .. MaxRuns
         /\ frame[s].job # Null => /\ frame[s].job.on = s
                                   /\ s \notin Flows => frame[s].job.id = Rec(s)
<1>1. frame[s] \in Frame
  BY FrameType
<1> QED BY <1>1 DEF Frame, FrameInv, FrameFits, Rec

LEMMA NewJobType ==
  ASSUME NEW on \in Workers, NEW i \in 0 .. MaxRuns
  PROVE  NewJob(on, i) \in Jobs /\ NewJob(on, i).on = on /\ NewJob(on, i).id = i
BY BoundsAssumption DEF NewJob, Jobs

\* No handler but these two gives a call job back or a new one to a record
\* that is still there.
LEMMA TokensQuiet ==
  ASSUME TypeInv, TypeInv', FrameInv, CallInv, NEW s \in Slots, HandlerStep(s),
         ~EnqueueTrigger(s), ~ReadTriggerConfig(s), NEW i \in Ids, Live(i)
  PROVE  JobTokens("trigger", i)' \subseteq JobTokens("trigger", i)
<1>1. queue \in [Jobs -> Nat]
  BY DEF TypeInv, TypeOK
<1>2. CASE UNCHANGED queue
  BY <1>1, <1>2, NoNewTokens DEF JobsFor
<1>3. CASE EnqueueRetry(s)
  <2>1. queue' = [queue EXCEPT ![NewJob("retry", Rec(s))] = @ + 1]
    BY <1>3 DEF EnqueueRetry, Enqueue
  <2>2. NewJob("retry", Rec(s)).on = "retry"
    BY DEF NewJob
  <2>3. \A j \in JobsFor("trigger", i) : queue'[j] <= queue[j]
    BY <1>1, <2>1, <2>2 DEF JobsFor
  <2> QED BY <2>3, NoNewTokens
<1>4. CASE ~Exists(Rec(s)) /\ Throw(s) /\ frame[s].pc # "idle"
  <2>1. queue' = Redeliver(queue, frame[s].job)
    BY <1>4 DEF Throw
  <2>2. CASE s # "trigger"
    <3>1. frame[s].job = Null \/ frame[s].job.on # "trigger"
      BY <2>2, FrameJob
    <3> QED BY <2>1, <3>1, FrameJob, TokenReturned
  <2>3. CASE s = "trigger"
    <3>1. Rec(s) # i
      BY <1>4, <2>3 DEF CallInv, Exists, Live, FlowRunStatus, TypeInv, TypeOK, Row
    <3>2. frame[s].job = Null \/ frame[s].job.id # i
      BY <2>3, <3>1, FrameJob, SlotsAssumption
    <3> QED BY <2>1, <3>2, FrameJob, TokenReturned
  <2> QED BY <2>2, <2>3
<1> QED BY <1>2, <1>3, <1>4, HandlersQueue

\* On the way to the call.
LEMMA CallWalks ==
  ASSUME NEW s \in Slots, FrameFits(s, frame[s]), Walks(s), ToCall(s)'
  PROVE  frame'[s].id = frame[s].id /\ (ToCall(s) \/ frame[s].pc = "sms")
<1> DEFINE P == {"presms", "enqueue"}
           Q == {"skip", "trig.config", "trig.call"}
<1>1. frame'[s].pc \in P \/ (s = "trigger" /\ frame'[s].pc \in Q)
  BY DEF ToCall
<1>2. ~Stops(s)
  BY <1>1 DEF Stops, Idle
<1>3. ~GoesBack(s)
  BY <1>1, <1>2 DEF GoesBack, GoesOn
<1>4. ASSUME NEW e \in Edges, frame[s].pc = e[1], GoesOn(s, e[2])
      PROVE  frame'[s].id = frame[s].id /\ (ToCall(s) \/ frame[s].pc = "sms")
  <2>1. /\ e[2] \in P => e[1] \in P \cup {"sms"}
        /\ e[2] \notin Q
    BY DEF Edges
  <2> QED BY <1>1, <1>4, <2>1 DEF GoesOn, Kept, ToCall
<1>5. ASSUME NEW e \in ReadEdges, NEW c, frame[s].pc = e[1], Reads(s, c, e[2])
      PROVE  frame'[s].id = frame[s].id /\ (ToCall(s) \/ frame[s].pc = "sms")
  <2>1. e[2] \notin P /\ (e[2] \in Q => e[1] = "trig.config")
    BY DEF ReadEdges
  <2> QED BY <1>1, <1>5, <2>1 DEF Reads, Kept, ToCall
<1>6. ASSUME NEW i, NEW b, frame[s].pc = "ing.write", TakesUp(s, i, b)
      PROVE  FALSE
  <2>1. s # "trigger"
    BY <1>6, PcsOfSlot DEF FrameFits, CallPcs
  <2> QED BY <1>1, <1>6, <2>1 DEF TakesUp
<1> QED BY <1>2, <1>3, <1>4, <1>5, <1>6 DEF Walks

LEMMA CallsToStep ==
  ASSUME NEW s \in Slots, Only(s), NEW i
  PROVE  /\ CallsTo(i)' \subseteq CallsTo(i) \cup {s}
         /\ ~ToCall(s)' \/ frame'[s].id # i => CallsTo(i)' \subseteq CallsTo(i) \ {s}
         /\ ToCall(s)' /\ frame'[s].id = i => s \in CallsTo(i)'
BY DEF CallsTo, Only, ToCall, Rec

\* A step that moves no token.
LEMMA QuietPaid ==
  ASSUME TypeInv, TypeInv', Grows, CallInv, NEW s \in Slots, Only(s), NEW i \in Ids,
         UNCHANGED nlpearl, tally'[i].sent >= tally[i].sent, used'["restart"] >= used["restart"],
         Live(i) => JobTokens("trigger", i)' \subseteq JobTokens("trigger", i),
         ToCall(s)' /\ frame'[s].id = i => s \in CallsTo(i)
  PROVE  PaidFor(i)'
<1>1. CallsTo(i)' \subseteq CallsTo(i)
  BY CallsToStep
<1>2. CallsOf(i)' \subseteq CallsOf(i)
  BY DEF CallsOf
<1>3. Pursued(i)' \subseteq Pursued(i)
  BY <1>1, <1>2, PursuedLess, LiveStays
<1> QED BY <1>3, StillPaid DEF CallInv

LEMMA SmsSends ==
  ASSUME NEW s, HandlerStep(s), frame[s].pc = "sms"
  PROVE  SendPreliminarySms(s)
<1> USE DEF At
<1>1. DispatchStep(s) => SendPreliminarySms(s)
  BY DEF DispatchStep, RecordPreSmsSent, RecordFailed, EnqueueTrigger, RecordScheduled,
     SkipCtaCompleted, BumpAttempt, EnqueueRetry, ReadRetryConfig, SyncSchedule
<1>2. ~TriggerStep(s) /\ ~IngestStep(s) /\ ~AdminStep(s)
  BY DEF TriggerStep, ReadTriggerConfig, MakeCall, RecordCall, IngestStep, ReadIngestConfig,
     WriteRecord, WriteCta, AdminStep, ReadResendConfig, ResendNow, DeleteRecord, WriteConfig
<1>3. ~WebhookStep(s)
  BY DEF WebhookStep, ReadConsentConfig, SendConsentSms, RecordConsent, FindPendingCall,
     RecordCallEnd, DecideRetry, RecordCompleted
<1> QED BY <1>1, <1>2, <1>3 DEF HandlerStep

LEMMA HandlerPaid ==
  ASSUME TypeInv, TypeInv', Grows, FrameInv, CallInv, NEW s \in Slots, HandlerStep(s),
         NEW i \in Ids
  PROVE  PaidFor(i)'
<1>1. Walks(s) /\ Only(s) /\ FrameFits(s, frame[s]) /\ UNCHANGED used /\ PaidFor(i)
  BY HandlerWalks, HandlersSpare DEF Walks, FrameInv, CallInv
<1>2. used["restart"] \in Nat /\ tally[i].sent \in Nat /\ tally'[i].sent \in Nat
  BY BoundsAssumption DEF TypeInv, TypeOK, Tally
<1>3. Live(i)' => Live(i)
  BY LiveStays
<1>4. CASE SendPreliminarySms(s)
  <2>1. UNCHANGED nlpearl /\ At(s, "sms")
    BY <1>4 DEF SendPreliminarySms
  <2>2. JobTokens("trigger", i)' \subseteq JobTokens("trigger", i)
    <3>1. UNCHANGED queue /\ queue \in [Jobs -> Nat]
      BY <1>4 DEF SendPreliminarySms, boss, TypeInv, TypeOK
    <3> QED BY <3>1, NoNewTokens DEF JobsFor
  <2>3. CASE Count(Rec(s), "sent") /\ Rec(s) = i
    <3>1. tally'[i].sent = tally[i].sent + 1
      BY <1>2, <2>3, CountsSent
    <3>2. Pursued(i)' \subseteq Pursued(i) \cup {<<"slot", s, 0>>}
      <4>1. CallsTo(i)' \subseteq CallsTo(i) \cup {s} /\ CallsOf(i)' \subseteq CallsOf(i)
        BY <1>1, <2>1, CallsToStep DEF CallsOf
      <4> QED BY <1>3, <2>2, <4>1, PursuedMember
    <3> QED BY <1>1, <1>2, <3>1, <3>2, PaidAgain
  <2>4. CASE ~(Count(Rec(s), "sent") /\ Rec(s) = i)
    <3>1. tally'[i].sent >= tally[i].sent
      BY <1>2, <1>4, <2>4, CountsSent DEF SendPreliminarySms
    <3>2. ToCall(s)' => frame'[s].id = Rec(s)
      BY <1>1, CallWalks DEF Rec
    <3>3. ToCall(s)' => Count(Rec(s), "sent")
      <4>1. ASSUME Goto(s, "fail")
            PROVE  ~ToCall(s)'
        BY <4>1, GotoGoes DEF GoesOn, ToCall
      <4> QED BY <1>4, <4>1 DEF SendPreliminarySms
    <3> QED BY <1>1, <1>2, <2>1, <2>2, <2>4, <3>1, <3>2, <3>3, QuietPaid
  <2> QED BY <2>3, <2>4
<1>5. CASE EnqueueTrigger(s)
  <2>1. UNCHANGED <<nlpearl, tally>> /\ At(s, "enqueue")
        /\ queue' = [queue EXCEPT ![NewJob("trigger", Rec(s))] = @ + 1]
    BY <1>5 DEF EnqueueTrigger, Enqueue, seen
  <2>2. PICK b \in Jobs : b = NewJob("trigger", Rec(s)) /\ b.on = "trigger" /\ b.id = Rec(s)
    BY NewJobType, FrameJob, WorkerSlots DEF Rec
  <2>3. queue \in [Jobs -> Nat]
    BY DEF TypeInv, TypeOK
  <2>4. ~ToCall(s)'
    BY <1>5, GotoGoes DEF EnqueueTrigger, GoesOn, ToCall
  <2>5. CASE Rec(s) = i
    <3>1. s \in CallsTo(i)
      BY <2>1, <2>5 DEF CallsTo, ToCall, At
    <3>2. JobTokens("trigger", i)' \subseteq JobTokens("trigger", i) \cup {<<"job", b, queue[b] + 1>>}
      <4>1. \A j \in JobsFor("trigger", i) : queue'[j] <= queue[j] + (IF j = b THEN 1 ELSE 0)
        BY <2>1, <2>2, <2>3 DEF JobsFor
      <4> QED BY <4>1, NewToken
    <3>3. CallsTo(i)' \subseteq CallsTo(i) \ {s} /\ CallsOf(i)' \subseteq CallsOf(i)
      BY <1>1, <2>1, <2>4, CallsToStep DEF CallsOf
    <3>4. PICK y : y = <<"job", b, queue[b] + 1>>
      OBVIOUS
    <3>5. /\ <<"slot", s, 0>> \in Pursued(i)
          /\ Pursued(i)' \subseteq (Pursued(i) \ {<<"slot", s, 0>>}) \cup {y}
      BY <1>3, <3>1, <3>2, <3>3, <3>4, SlotPassesOn
    <3> QED BY <1>1, <2>1, <3>5, PassedOn
  <2>6. CASE Rec(s) # i
    <3>1. \A j \in JobsFor("trigger", i) : queue'[j] <= queue[j]
      BY <2>1, <2>2, <2>3, <2>6 DEF JobsFor
    <3>2. JobTokens("trigger", i)' \subseteq JobTokens("trigger", i)
      BY <3>1, NoNewTokens
    <3> QED BY <1>1, <1>2, <2>1, <2>4, <3>2, QuietPaid
  <2> QED BY <2>5, <2>6
<1>6. CASE ReadTriggerConfig(s)
  <2>1. UNCHANGED <<nlpearl, tally>> /\ At(s, "trig.config")
    BY <1>6 DEF ReadTriggerConfig, seen
  <2>2. s = "trigger"
    BY <1>1, <2>1, PcsOfSlot DEF At, FrameFits, RetryPcs, BatchPcs, HttpPcs, Slots, Workers
  <2>3. CASE UNCHANGED queue
    <3>1. queue \in [Jobs -> Nat]
      BY DEF TypeInv, TypeOK
    <3>2. JobTokens("trigger", i)' \subseteq JobTokens("trigger", i)
      BY <2>3, <3>1, NoNewTokens DEF JobsFor
    <3>3. ToCall(s)' /\ frame'[s].id = i => s \in CallsTo(i)
      BY <1>1, <2>1, CallWalks DEF CallsTo, Rec, At
    <3> QED BY <1>1, <1>2, <2>1, <3>2, <3>3, QuietPaid
  <2>4. CASE Throw(s)
    <3>1. queue' = Redeliver(queue, frame[s].job) /\ Stops(s)
      BY <2>4, ReturnStops DEF Throw
    <3>2. ~ToCall(s)'
      BY <3>1 DEF Stops, Idle, ToCall
    <3>3. CASE Rec(s) = i
      <4>1. s \in CallsTo(i)
        BY <2>1, <2>2, <3>3 DEF CallsTo, ToCall, At
      <4>2. PICK y : JobTokens("trigger", i)' \subseteq JobTokens("trigger", i) \cup {y}
        BY <3>1, FrameJob, TokenReturned
      <4>3. CallsTo(i)' \subseteq CallsTo(i) \ {s} /\ CallsOf(i)' \subseteq CallsOf(i)
        BY <1>1, <2>1, <3>2, CallsToStep DEF CallsOf
      <4>4. /\ <<"slot", s, 0>> \in Pursued(i)
            /\ Pursued(i)' \subseteq (Pursued(i) \ {<<"slot", s, 0>>}) \cup {y}
        BY <1>3, <4>1, <4>2, <4>3, SlotPassesOn
      <4> QED BY <1>1, <2>1, <4>4, PassedOn
    <3>4. CASE Rec(s) # i
      <4>1. frame[s].job = Null \/ frame[s].job.id # i
        BY <2>2, <3>4, FrameJob, SlotsAssumption
      <4>2. JobTokens("trigger", i)' \subseteq JobTokens("trigger", i)
        BY <3>1, <4>1, FrameJob, TokenReturned
      <4> QED BY <1>1, <1>2, <2>1, <3>2, <4>2, QuietPaid
    <3> QED BY <3>3, <3>4
  <2> QED BY <1>6, <2>3, <2>4 DEF ReadTriggerConfig
<1>7. CASE MakeCall(s)
  <2>1. UNCHANGED tally /\ At(s, "trig.call")
    BY <1>7 DEF MakeCall, seen
  <2>2. s = "trigger"
    BY <1>1, <2>1, PcsOfSlot DEF At, FrameFits, RetryPcs, BatchPcs, HttpPcs, Slots, Workers
  <2>3. JobTokens("trigger", i)' \subseteq JobTokens("trigger", i)
    <3>1. UNCHANGED queue /\ queue \in [Jobs -> Nat]
      BY <1>7 DEF MakeCall, boss, TypeInv, TypeOK
    <3> QED BY <3>1, NoNewTokens DEF JobsFor
  <2>4. ~ToCall(s)'
    <3>1. frame'[s].pc \in {"trig.record", "bump", "fail"}
      <4>1. ASSUME frame' = [frame EXCEPT ![s].call = Len(nlpearl) + 1, ![s].pc = "trig.record"]
            PROVE  GoesOn(s, "trig.record")
        BY <4>1, CallGoes
      <4>2. GoesOn(s, "trig.record") \/ GoesOn(s, AfterTriggerFailure(s))
        BY <1>7, <4>1, GotoGoes DEF MakeCall
      <4> QED BY <4>2 DEF GoesOn, AfterTriggerFailure
    <3> QED BY <3>1 DEF ToCall
  <2>5. CASE UNCHANGED nlpearl
    BY <1>1, <1>2, <2>1, <2>3, <2>4, <2>5, QuietPaid
  <2>6. CASE PlaceCall(s)
    <3>1. PICK c : c = [run |-> Rec(s), phone |-> frame[s].key.phone, outcome |-> Null]
      OBVIOUS
    <3>2. nlpearl' = Append(nlpearl, c) /\ c.run = Rec(s) /\ nlpearl \in Seq(PlacedCall)
      BY <2>6, <3>1 DEF PlaceCall, TypeInv, TypeOK
    <3>3. CallsOf(i)' \subseteq CallsOf(i) \cup (IF Rec(s) = i THEN {Len(nlpearl) + 1} ELSE {})
      BY <3>2 DEF CallsOf
    <3>4. CallsTo(i)' \subseteq CallsTo(i) \ {s}
      BY <1>1, <2>4, CallsToStep
    <3>5. CASE Rec(s) = i
      <4>1. s \in CallsTo(i)
        BY <2>1, <2>2, <3>5 DEF CallsTo, ToCall, At
      <4>2. PICK n, y : n = Len(nlpearl) + 1 /\ y = <<"call", n, 0>>
        OBVIOUS
      <4>3. CallsOf(i)' \subseteq CallsOf(i) \cup {n}
        BY <3>3, <3>5, <4>2
      <4>4. /\ <<"slot", s, 0>> \in Pursued(i)
            /\ Pursued(i)' \subseteq (Pursued(i) \ {<<"slot", s, 0>>}) \cup {y}
        BY <1>3, <2>3, <3>4, <4>1, <4>2, <4>3, SlotPassesOn
      <4> QED BY <1>1, <2>1, <4>4, PassedOn
    <3>6. CASE Rec(s) # i
      <4>1. Pursued(i)' \subseteq Pursued(i)
        BY <1>3, <2>3, <3>3, <3>4, <3>6, PursuedLess
      <4> QED BY <1>1, <1>2, <2>1, <4>1, StillPaid
    <3> QED BY <3>5, <3>6
  <2> QED BY <1>7, <2>5, <2>6 DEF MakeCall
<1>8. CASE ~SendPreliminarySms(s) /\ ~EnqueueTrigger(s) /\ ~ReadTriggerConfig(s) /\ ~MakeCall(s)
  <2>1. UNCHANGED nlpearl /\ tally'[i].sent = tally[i].sent
    BY <1>8, HandlersSpare
  <2>2. Live(i) => JobTokens("trigger", i)' \subseteq JobTokens("trigger", i)
    BY <1>8, TokensQuiet
  <2>3. ToCall(s)' /\ frame'[s].id = i => s \in CallsTo(i)
    <3>1. frame[s].pc # "sms"
      BY <1>8, SmsSends
    <3> QED BY <1>1, <3>1, CallWalks DEF CallsTo, Rec
  <2> QED BY <1>1, <1>2, <2>1, <2>2, <2>3, QuietPaid
<1> QED BY <1>4, <1>5, <1>6, <1>7, <1>8

LEMMA FetchPaid ==
  ASSUME TypeInv, TypeInv', Grows, FrameInv, CallInv, NEW j \in Jobs, FetchStep(j), NEW i \in Ids
  PROVE  PaidFor(i)'
<1>1. /\ queue \in [Jobs -> Nat] /\ PaidFor(i)
      /\ used["restart"] \in Nat /\ tally[i].sent \in Nat
  BY BoundsAssumption DEF TypeInv, TypeOK, Tally, CallInv
<1>2. ASSUME queue' = [queue EXCEPT ![j] = @ - 1], queue[j] > 0
      PROVE  JobTokens("trigger", i)' \subseteq JobTokens("trigger", i)
  <2>1. \A b \in JobsFor("trigger", i) : queue'[b] <= queue[b]
    BY <1>1, <1>2 DEF JobsFor
  <2> QED BY <2>1, NoNewTokens
<1>3. ASSUME FetchTrigger(j)
      PROVE  PaidFor(i)'
  <2>1. /\ "trigger" \in Slots /\ j.on = "trigger" /\ frame["trigger"].pc = "idle"
        /\ queue' = [queue EXCEPT ![j] = @ - 1] /\ queue[j] > 0
        /\ UNCHANGED <<nlpearl, tally, used>>
        /\ \/ Exists(j.id) /\ Opens("trigger", "trigger", j, "trig.config")
           \/ ~Exists(j.id) /\ UNCHANGED frame
    BY <1>3, FetchOpens
  <2>2. JobTokens("trigger", i)' \subseteq JobTokens("trigger", i)
    BY <1>2, <2>1
  <2>3. CASE Exists(j.id) /\ j.id = i /\ Opens("trigger", "trigger", j, "trig.config")
    <3>1. Only("trigger") /\ Live(i)
      BY <2>3 DEF Opens, Exists, Live, FlowRunStatus
    <3>2. j \in JobsFor("trigger", i)
      BY <2>1, <2>3 DEF JobsFor
    <3>3. PICK y : y = <<"job", j, queue[j]>>
      OBVIOUS
    <3>4. /\ JobTokens("trigger", i)' \subseteq JobTokens("trigger", i) \ {y}
          /\ y \in JobTokens("trigger", i)
      BY <2>1, <3>2, <3>3, TokenTaken
    <3>5. CallsTo(i)' \subseteq CallsTo(i) \cup {"trigger"} /\ CallsOf(i)' \subseteq CallsOf(i)
      BY <2>1, <3>1, CallsToStep DEF CallsOf
    <3>6. y \in Pursued(i) /\ Pursued(i)' \subseteq (Pursued(i) \ {y}) \cup {<<"slot", "trigger", 0>>}
      BY <3>1, <3>4, <3>5, JobPassesOn
    <3> QED BY <1>1, <2>1, <3>6, PassedOn
  <2>4. CASE j.id # i /\ Opens("trigger", "trigger", j, "trig.config")
    <3>1. Only("trigger") /\ frame'["trigger"].id # i
      BY <2>4 DEF Opens
    <3> QED BY <1>1, <2>1, <2>2, <3>1, QuietPaid
  <2>5. CASE UNCHANGED frame
    <3>1. Only("trigger") /\ ~ToCall("trigger")'
      BY <2>1, <2>5 DEF Only, ToCall
    <3> QED BY <1>1, <2>1, <2>2, <3>1, QuietPaid
  <2> QED BY <2>1, <2>3, <2>4, <2>5
<1>4. ASSUME FetchRetry(j)
      PROVE  PaidFor(i)'
  <2>1. /\ "retry" \in Slots /\ "retry" # "trigger" /\ frame["retry"].pc = "idle"
        /\ queue' = [queue EXCEPT ![j] = @ - 1] /\ queue[j] > 0
        /\ UNCHANGED <<nlpearl, tally, used>>
        /\ \/ Opens("retry", "retry", j, "retry.config")
           \/ UNCHANGED frame
    BY <1>4, FetchOpens
  <2>2. Only("retry") /\ ~ToCall("retry")'
    <3>1. Opens("retry", "retry", j, "retry.config") =>
            Only("retry") /\ frame'["retry"].pc \in {"skip", "retry.config"}
      BY DEF Opens
    <3> QED BY <2>1, <3>1 DEF Only, ToCall
  <2> QED BY <1>1, <1>2, <2>1, <2>2, QuietPaid
<1>5. ASSUME NEW w \in Flows, FetchDispatch(w, j)
      PROVE  PaidFor(i)'
  <2>1. /\ w \in Slots /\ w # "trigger" /\ frame[w].pc = "idle"
        /\ queue' = [queue EXCEPT ![j] = @ - 1] /\ queue[j] > 0
        /\ UNCHANGED <<nlpearl, tally, used>>
        /\ UNCHANGED frame \/ (Only(w) /\ frame'[w].pc = "batch.list")
    BY <1>5, FetchBatch, SlotsAssumption
  <2>2. Only(w) /\ ~ToCall(w)'
    BY <2>1 DEF Only, ToCall
  <2> QED BY <1>1, <1>2, <2>1, <2>2, QuietPaid
<1> QED BY <1>3, <1>4, <1>5 DEF FetchStep

LEMMA OtherPaid ==
  ASSUME TypeInv, TypeInv', Grows, FrameInv, CallInv, NEW i \in Ids,
         \/ \E w \in Flows : BatchStep(w) \/ CronTick(w)
         \/ \E s \in HttpSlots : Request(s)
         \/ \E n \in DOMAIN nlpearl : CallFinishes(n)
         \/ Restart \/ Quiescent \/ UNCHANGED vars
  PROVE  PaidFor(i)'
<1>1. /\ queue \in [Jobs -> Nat] /\ nlpearl \in Seq(PlacedCall) /\ PaidFor(i)
      /\ used["restart"] \in Nat /\ tally[i].sent \in Nat
      /\ used \in [Inputs -> Nat]
  BY BoundsAssumption DEF TypeInv, TypeOK, Tally, CallInv
<1>2. ASSUME \A j \in Jobs : j.on = "trigger" => queue'[j] <= queue[j]
      PROVE  JobTokens("trigger", i)' \subseteq JobTokens("trigger", i)
  BY <1>2, NoNewTokens DEF JobsFor
<1>3. ASSUME UNCHANGED <<nlpearl, tally, queue, frame>>, used'["restart"] = used["restart"]
      PROVE  PaidFor(i)'
  <2>1. "trigger" \in Slots /\ Only("trigger")
    BY <1>3, WorkerSlots DEF Only
  <2>2. ToCall("trigger")' /\ frame'["trigger"].id = i => "trigger" \in CallsTo(i)
    BY <1>3, <2>1 DEF ToCall, CallsTo, Rec
  <2> QED BY <1>1, <1>2, <1>3, <2>1, <2>2, QuietPaid
<1>4. ASSUME NEW w \in Flows, BatchStep(w)
      PROVE  PaidFor(i)'
  <2>1. w \in Slots /\ w # "trigger" /\ UNCHANGED <<nlpearl, tally, queue, used>>
    BY <1>4, WorkerSlots, SlotsAssumption DEF BatchStep, ListPending, NextPending, boss, seen
  <2>2. Only(w) /\ frame'[w].pc \in {"batch.next", "idle", "skip", "sms"}
    <3>1. ListPending(w) => Only(w) /\ frame'[w].pc = "batch.next"
      BY ListGoes
    <3>2. NextPending(w) => Only(w) /\ frame'[w].pc \in {"idle", "skip", "sms"}
      BY NextTakesUp DEF Stops, TakesUp, Idle
    <3> QED BY <1>4, <3>1, <3>2 DEF BatchStep
  <2>3. ~ToCall(w)'
    BY <2>1, <2>2 DEF ToCall
  <2> QED BY <1>1, <1>2, <2>1, <2>2, <2>3, QuietPaid
<1>5. ASSUME NEW w \in Flows, CronTick(w)
      PROVE  PaidFor(i)'
  <2>1. /\ UNCHANGED <<nlpearl, tally, frame>> /\ used'["restart"] = used["restart"]
        /\ queue' = [queue EXCEPT ![NewJob(w, 0)] = @ + 1]
    BY <1>5, SpendOther DEF CronTick, Enqueue, seen
  <2>2. NewJob(w, 0).on # "trigger"
    BY SlotsAssumption DEF NewJob
  <2>3. JobTokens("trigger", i)' \subseteq JobTokens("trigger", i)
    BY <1>1, <1>2, <2>1, <2>2
  <2>4. "trigger" \in Slots /\ Only("trigger")
    BY <2>1, WorkerSlots DEF Only
  <2>5. ToCall("trigger")' /\ frame'["trigger"].id = i => "trigger" \in CallsTo(i)
    BY <2>1, <2>4 DEF ToCall, CallsTo, Rec
  <2> QED BY <1>1, <2>1, <2>3, <2>4, <2>5, QuietPaid
<1>6. ASSUME NEW s \in HttpSlots, Request(s)
      PROVE  PaidFor(i)'
  <2>1. /\ s \in Slots /\ Starts(s) /\ Only(s) /\ UNCHANGED <<nlpearl, tally, queue>>
        /\ s # "trigger"
    BY <1>6, RequestStarts, SlotsAssumption DEF Starts
  <2>2. used'["restart"] = used["restart"]
    BY <1>6, SpendOther DEF Request, FlowTrigger, CtaComplete, Consent, CallEnded, Resend, Remove,
       CreateConfig, UpdateConfig, RemoveConfig
  <2>3. ~ToCall(s)'
    BY <2>1 DEF Starts, Entries, ToCall
  <2> QED BY <1>1, <1>2, <2>1, <2>2, <2>3, QuietPaid
<1>7. ASSUME NEW n \in DOMAIN nlpearl, CallFinishes(n)
      PROVE  PaidFor(i)'
  <2>1. PICK o \in Outcomes : nlpearl' = [nlpearl EXCEPT ![n].outcome = o]
    BY <1>7 DEF CallFinishes
  <2>2. UNCHANGED <<tally, queue, frame, used>>
    BY <1>7 DEF CallFinishes, boss, seen
  <2>3. \A m \in DOMAIN nlpearl' : m \in DOMAIN nlpearl /\ nlpearl'[m].run = nlpearl[m].run
    BY <1>1, <1>7, CallFinishesStutters DEF CallFinishes, Grows
  <2>4. CallsOf(i)' \subseteq CallsOf(i)
    BY <2>3 DEF CallsOf
  <2>5. CallsTo(i)' \subseteq CallsTo(i)
    BY <2>2 DEF CallsTo, ToCall, Rec
  <2>6. JobTokens("trigger", i)' \subseteq JobTokens("trigger", i)
    BY <1>1, <1>2, <2>2
  <2>7. Pursued(i)' \subseteq Pursued(i)
    BY <2>4, <2>5, <2>6, PursuedLess, LiveStays
  <2> QED BY <1>1, <2>2, <2>7, StillPaid
<1>8. ASSUME Restart
      PROVE  PaidFor(i)'
  <2>1. /\ UNCHANGED <<nlpearl, tally>> /\ used'["restart"] = used["restart"] + 1
        /\ \A s \in Slots : frame'[s] = Idle
    BY <1>8, SpendRestart DEF Restart, seen
  <2>2. PICK y : JobTokens("trigger", i)' \subseteq JobTokens("trigger", i) \cup {y}
    BY <1>8, TokensAtRestart, WorkerSlots
  <2>3. CallsTo(i)' = {} /\ CallsOf(i)' \subseteq CallsOf(i)
    BY <2>1 DEF CallsTo, ToCall, Idle, CallsOf
  <2>4. Pursued(i)' \subseteq Pursued(i) \cup {y}
    BY <2>2, <2>3, PursuedMember, LiveStays
  <2>5. tally'[i].sent + used'["restart"] >= tally[i].sent + used["restart"] + 1
    <3>1. tally'[i].sent = tally[i].sent
      BY <2>1
    <3> QED BY <1>1, <2>1, <3>1
  <2> QED BY <1>1, <2>4, <2>5, PaidAgain
<1>9. Quiescent \/ UNCHANGED vars => PaidFor(i)'
  BY <1>3 DEF Quiescent, vars
<1> QED BY <1>4, <1>5, <1>6, <1>7, <1>8, <1>9

LEMMA WorkerKnown ==
  ASSUME TypeInv, TypeInv', Grows, FrameInv, CallInv, [Next]_vars, frame'["trigger"].pc # "idle"
  PROVE  Rec("trigger")' \in Ids /\ runs'[Rec("trigger")'].status # "none"
<1>1. \A i \in Ids : runs[i].status # "none" => runs'[i].status # "none"
  BY DEF Grows
<1>2. "trigger" \in Slots /\ "trigger" \notin HttpSlots \cup Flows /\ "trigger" # "retry"
  BY WorkerSlots, SlotsAssumption
<1>3. ASSUME frame["trigger"].pc # "idle", frame'["trigger"].id = frame["trigger"].id
      PROVE  Rec("trigger")' \in Ids /\ runs'[Rec("trigger")'].status # "none"
  BY <1>1, <1>3 DEF CallInv, Rec
<1>4. ASSUME NEW s \in Slots, Only(s), s # "trigger"
      PROVE  Rec("trigger")' \in Ids /\ runs'[Rec("trigger")'].status # "none"
  BY <1>2, <1>3, <1>4 DEF Only
<1>5. ASSUME UNCHANGED frame
      PROVE  Rec("trigger")' \in Ids /\ runs'[Rec("trigger")'].status # "none"
  BY <1>3, <1>5
<1>6. ASSUME NEW s \in Slots, HandlerStep(s)
      PROVE  Rec("trigger")' \in Ids /\ runs'[Rec("trigger")'].status # "none"
  <2>1. Walks(s) /\ Only(s)
    BY <1>6, HandlerWalks DEF Walks
  <2>2. ASSUME s = "trigger"
        PROVE  frame["trigger"].pc # "idle" /\ frame'["trigger"].id = frame["trigger"].id
    <3>1. ~Stops(s)
      BY <2>2 DEF Stops, Idle
    <3>2. frame[s].pc # "ing.write"
      BY <1>2, <2>2, PcsOfSlot DEF FrameInv, FrameFits, CallPcs
    <3> QED BY <2>1, <2>2, <3>1, <3>2 DEF Walks, GoesBack, GoesOn, Reads, Kept
  <2> QED BY <1>3, <1>4, <2>1, <2>2
<1>7. ASSUME NEW w \in Flows, BatchStep(w)
      PROVE  Rec("trigger")' \in Ids /\ runs'[Rec("trigger")'].status # "none"
  <2>1. w \in Slots /\ Only(w) /\ w # "trigger"
    BY <1>2, <1>7, BatchFits, WorkerSlots DEF FrameInv
  <2> QED BY <1>4, <2>1
<1>8. ASSUME NEW s \in HttpSlots, Request(s)
      PROVE  Rec("trigger")' \in Ids /\ runs'[Rec("trigger")'].status # "none"
  <2>1. s \in Slots /\ Only(s) /\ s # "trigger"
    BY <1>2, <1>8, RequestStarts DEF Starts
  <2> QED BY <1>4, <2>1
<1>9. ASSUME NEW j \in Jobs, FetchStep(j)
      PROVE  Rec("trigger")' \in Ids /\ runs'[Rec("trigger")'].status # "none"
  <2>1. CASE FetchTrigger(j)
    <3>1. \/ UNCHANGED frame
          \/ Exists(j.id) /\ frame'["trigger"].id = j.id
      BY <2>1, FetchOpens DEF Opens
    <3> QED BY <1>1, <1>5, <3>1 DEF Exists, FlowRunStatus, Rec
  <2>2. CASE FetchRetry(j)
    <3>1. "retry" \in Slots /\ (UNCHANGED frame \/ Only("retry"))
      BY <2>2, FetchOpens DEF Opens
    <3> QED BY <1>2, <1>4, <1>5, <3>1
  <2>3. ASSUME NEW w \in Flows, FetchDispatch(w, j)
        PROVE  Rec("trigger")' \in Ids /\ runs'[Rec("trigger")'].status # "none"
    <3>1. w \in Slots /\ w # "trigger" /\ (UNCHANGED frame \/ Only(w))
      BY <1>2, <2>3, FetchBatch
    <3> QED BY <1>4, <1>5, <3>1
  <2> QED BY <1>9, <2>1, <2>2, <2>3 DEF FetchStep
<1>10. ~Restart
  BY <1>2 DEF Restart, Idle
<1>11. ASSUME (\E w \in Flows : CronTick(w)) \/ (\E n \in DOMAIN nlpearl : CallFinishes(n))
               \/ Quiescent \/ UNCHANGED vars
       PROVE  UNCHANGED frame
  BY <1>11 DEF CronTick, CallFinishes, Quiescent, vars
<1> QED BY <1>5, <1>6, <1>7, <1>8, <1>9, <1>10, <1>11 DEF Next

LEMMA NextCallInv ==
  ASSUME TypeInv, TypeInv', RecordInv, FrameInv, CallInv, [Next]_vars
  PROVE  CallInv'
<1>1. Grows
  BY StepRefines, TableGrows
<1>2. ASSUME NEW i \in Ids
      PROVE  PaidFor(i)'
  BY <1>1, HandlerPaid, FetchPaid, OtherPaid DEF Next
<1> QED BY <1>1, <1>2, WorkerKnown DEF CallInv

LEMMA InitCallInv == Init => CallInv
<1> SUFFICES ASSUME Init PROVE CallInv
  OBVIOUS
<1>1. /\ \A s \in Slots : frame[s] = Idle
      /\ \A j \in Jobs : queue[j] = 0
      /\ nlpearl = <<>> /\ used["restart"] = 0
      /\ \A i \in Ids : tally[i].sent = 0
  BY BoundsAssumption DEF Init
<1>2. frame["trigger"].pc = "idle"
  BY <1>1, WorkerSlots DEF Idle
<1>3. ASSUME NEW i \in Ids
      PROVE  PaidFor(i)
  <2>1. CallsOf(i) = {} /\ CallsTo(i) = {}
    BY <1>1 DEF CallsOf, CallsTo, ToCall, Idle
  <2>2. JobTokens("trigger", i) = {}
    <3>1. ASSUME NEW x \in JobTokens("trigger", i)
          PROVE  FALSE
      <4>1. PICK j \in JobsFor("trigger", i) : \E k \in 1 .. queue[j] : x = <<"job", j, k>>
        BY WaitingMember
      <4> QED BY <1>1, <4>1 DEF JobsFor
    <3> QED BY <3>1
  <2>3. Pursued(i) = {}
    BY <2>1, <2>2, PursuedMember
  <2> QED BY <1>1, <2>3, FS_EmptySet DEF PaidFor
<1> QED BY <1>2, <1>3 DEF CallInv

LEMMA CallInvariance == Spec => []CallInv
<1>1. TypeInv /\ TypeInv' /\ RecordInv /\ FrameInv /\ CallInv /\ [Next]_vars => CallInv'
  BY NextCallInv
<1> QED BY <1>1, InitCallInv, FrameInvariance, RecordInvariance, PTL DEF Spec

\* CallsWithinTexts: of every record, NLPearl was asked for no more calls than
\* heads-up texts were delivered and restarts happened, whatever is delivered
\* late, twice or not at all (dispatchOne, CallTriggerWorker).
THEOREM CallsPaid == Spec => []CallsWithinTexts
<1>1. ASSUME TypeInv, CallInv
      PROVE  CallsWithinTexts
  <2> SUFFICES ASSUME NEW i \in Ids
               PROVE  Cardinality(CallsOf(i)) <= tally[i].sent + used["restart"]
    BY DEF CallsWithinTexts, CallsOf
  <2> DEFINE f == [n \in CallsOf(i) |-> <<"call", n, 0>>]
  <2>1. /\ IsFiniteSet(Pursued(i)) /\ Cardinality(Pursued(i)) \in Nat
        /\ Cardinality(Pursued(i)) <= tally[i].sent + used["restart"]
    BY <1>1, FS_CardinalityType DEF CallInv, PaidFor
  <2>2. f \in Injection(CallsOf(i), Pursued(i))
    <3>1. \A n \in CallsOf(i) : f[n] = <<"call", n, 0>> /\ f[n] \in Pursued(i)
      BY PursuedMember
    <3>2. f \in [CallsOf(i) -> Pursued(i)]
      BY <3>1
    <3>3. \A m, n \in CallsOf(i) : f[m] = f[n] => m = n
      BY <3>1
    <3> HIDE DEF f
    <3> QED BY <3>2, <3>3 DEF Injection, IsInjective
  <2>3. /\ IsFiniteSet(CallsOf(i)) /\ Cardinality(CallsOf(i)) \in Nat
        /\ Cardinality(CallsOf(i)) <= Cardinality(Pursued(i))
    <3> HIDE DEF f
    <3> QED BY <2>1, <2>2, FS_Injection, FS_CardinalityType
  <2>4. tally[i].sent \in Nat /\ used["restart"] \in Nat
    BY <1>1, BoundsAssumption DEF TypeInv, TypeOK, Tally
  <2> QED BY <2>1, <2>3, <2>4
<1> QED BY <1>1, CallInvariance, TypeInvariance, PTL

\* Restarts are counted, and nothing else is counted as one.
LEMMA RestartsCounted ==
  ASSUME TypeInv, FrameInv, [Next]_vars, ~Restart
  PROVE  used'["restart"] = used["restart"]
<1>1. ASSUME NEW s \in Slots, HandlerStep(s)
      PROVE  UNCHANGED used
  BY <1>1, HandlersSpare
<1>2. ASSUME NEW w \in Flows, BatchStep(w)
      PROVE  UNCHANGED used
  BY <1>2 DEF BatchStep, ListPending, NextPending
<1>3. ASSUME NEW j \in Jobs, FetchStep(j)
      PROVE  UNCHANGED used
  BY <1>3 DEF FetchStep, FetchTrigger, FetchRetry, FetchDispatch
<1>4. ASSUME NEW s \in HttpSlots, Request(s)
      PROVE  used'["restart"] = used["restart"]
  BY <1>4, SpendOther DEF Request, FlowTrigger, CtaComplete, Consent, CallEnded, Resend, Remove,
     CreateConfig, UpdateConfig, RemoveConfig
<1>5. ASSUME NEW f \in Flows, CronTick(f)
      PROVE  used'["restart"] = used["restart"]
  BY <1>5, SpendOther DEF CronTick
<1>6. (\E n \in DOMAIN nlpearl : CallFinishes(n)) \/ Quiescent \/ UNCHANGED vars => UNCHANGED used
  BY DEF CallFinishes, Quiescent, vars
<1> QED BY <1>1, <1>2, <1>3, <1>4, <1>5, <1>6 DEF Next

\* HeadsUpPerCall: as long as the process does not crash, every call has a
\* heads-up text of its own.  A crash after NLPearl accepted the call and before
\* the job ends makes pg-boss hand the job out again, and the client is called
\* twice: the hypothesis is needed.
THEOREM OneCallPerText == Spec /\ [][~Restart]_vars => []HeadsUpPerCall
<1> DEFINE NoneYet == used["restart"] = 0
<1>1. Init => NoneYet
  BY BoundsAssumption DEF Init
<1>2. TypeInv /\ FrameInv /\ NoneYet /\ [Next]_vars /\ [~Restart]_vars => NoneYet'
  <2> SUFFICES ASSUME TypeInv, FrameInv, NoneYet, [Next]_vars, [~Restart]_vars
               PROVE  NoneYet'
    OBVIOUS
  <2>1. CASE ~Restart
    BY <2>1, RestartsCounted
  <2>2. CASE UNCHANGED vars
    BY <2>2 DEF vars
  <2> QED BY <2>1, <2>2
<1>3. TypeInv /\ NoneYet /\ CallsWithinTexts => HeadsUpPerCall
  <2> SUFFICES ASSUME TypeInv, NoneYet, CallsWithinTexts, NEW i \in Ids
               PROVE  Cardinality(CallsOf(i)) <= tally[i].sent
    BY DEF HeadsUpPerCall, CallsOf
  <2>1. tally[i].sent + used["restart"] = tally[i].sent
    BY DEF TypeInv, TypeOK, Tally
  <2>2. Cardinality(CallsOf(i)) <= tally[i].sent + used["restart"]
    BY DEF CallsWithinTexts, CallsOf
  <2> QED BY <2>1, <2>2
<1> HIDE DEF NoneYet
<1> QED BY <1>1, <1>2, <1>3, CallsPaid, FrameInvariance, TypeInvariance, PTL DEF Spec

----------------------------------------------------------------------------
(* Records on their way to the call.                                       *)

\* Every flow has settings, is enabled and sends at once, with a delay before
\* the call.
AtOnce(c)   == c.enabled /\ ~c.sendSchedule /\ c.delayMinutes > 0
SendsAtOnce == \A f \in Flows : config[f] # Null /\ AtOnce(config[f])

\* Settings read are such settings.
ReadConf(f) == f.pc \in HasConf \/ f.op = "dispatch" => AtOnce(f.conf)
ConfInv     == \A s \in Slots : ReadConf(frame[s])

LEMMA WalkConf ==
  ASSUME TypeInv, FrameInv, ConfInv, SendsAtOnce, NEW s \in Slots, Walks(s)
  PROVE  ReadConf(frame'[s])
<1>1. ReadConf(frame[s])
  BY DEF ConfInv
<1>2. CASE Stops(s)
  BY <1>2 DEF Stops, Idle, ReadConf, HasConf
<1>3. ASSUME NEW e \in Edges, frame[s].pc = e[1], GoesOn(s, e[2])
      PROVE  ReadConf(frame'[s])
  <2>1. e[2] \in HasConf => e[1] \in HasConf
    BY DEF Edges, HasConf
  <2> QED BY <1>1, <1>3, <2>1 DEF GoesOn, Kept, ReadConf
<1>4. CASE GoesBack(s)
  BY <1>1, <1>2, <1>4 DEF GoesBack, GoesOn, Kept, ReadConf
<1>5. ASSUME NEW e \in ReadEdges, NEW c \in Configs, frame[s].pc = e[1],
             c = config[frame[s].key.flow], Reads(s, c, e[2])
      PROVE  ReadConf(frame'[s])
  <2>1. e[1] \in NeedsKey
    BY DEF ReadEdges, NeedsKey
  <2>2. frame[s].key \in Keys
    BY <1>5, <2>1 DEF TypeInv, FramesKnown, Known
  <2>3. AtOnce(c)
    BY <1>5, <2>2, KeysAssumption DEF SendsAtOnce
  <2> QED BY <1>5, <2>3 DEF Reads, ReadConf
<1>6. ASSUME NEW i, NEW b, frame[s].pc = "ing.write", TakesUp(s, i, b)
      PROVE  ReadConf(frame'[s])
  BY <1>1, <1>6 DEF TakesUp, ReadConf, HasConf
<1> QED BY <1>2, <1>3, <1>4, <1>5, <1>6 DEF Walks

LEMMA NextConfInv ==
  ASSUME TypeInv, TypeInv', FrameInv, ConfInv, SendsAtOnce, [Next]_vars
  PROVE  ConfInv'
<1>1. ASSUME NEW s \in Slots, Only(s), ReadConf(frame'[s])
      PROVE  ConfInv'
  BY <1>1 DEF Only, ConfInv
<1>2. ASSUME UNCHANGED frame
      PROVE  ConfInv'
  BY <1>2 DEF ConfInv
<1>3. ASSUME NEW s \in Slots, HandlerStep(s)
      PROVE  ConfInv'
  <2>1. Walks(s) /\ Only(s)
    BY <1>3, HandlerWalks DEF Walks
  <2> QED BY <1>1, <2>1, WalkConf
<1>4. ASSUME NEW w \in Flows, BatchStep(w)
      PROVE  ConfInv'
  <2>1. w \in Slots /\ ReadConf(frame[w])
    BY WorkerSlots DEF ConfInv
  <2>2. ListPending(w) => Only(w) /\ ReadConf(frame'[w])
    <3>1. ListPending(w) => frame[w].op = "dispatch"
      BY <2>1 DEF ListPending, At, FrameInv, FrameFits
    <3> QED BY <2>1, <3>1, ListGoes DEF ReadConf
  <2>3. NextPending(w) => Only(w) /\ ReadConf(frame'[w])
    <3>1. NextPending(w) => frame[w].op = "dispatch"
      BY <2>1 DEF NextPending, At, FrameInv, FrameFits
    <3>2. Stops(w) => ReadConf(frame'[w]) /\ Only(w)
      BY DEF Stops, Idle, ReadConf, HasConf
    <3>3. \A i, b : TakesUp(w, i, b) /\ frame[w].op = "dispatch" => ReadConf(frame'[w]) /\ Only(w)
      BY <2>1 DEF TakesUp, ReadConf
    <3> QED BY <3>1, <3>2, <3>3, NextTakesUp
  <2> QED BY <1>1, <1>4, <2>1, <2>2, <2>3 DEF BatchStep
<1>5. ASSUME NEW j \in Jobs, FetchStep(j)
      PROVE  ConfInv'
  <2>1. ASSUME NEW s \in {"trigger", "retry"},
               IF s = "trigger" THEN FetchTrigger(j) ELSE FetchRetry(j)
        PROVE  ConfInv'
    <3>1. PICK pc \in {"trig.config", "retry.config"} : 
            s \in Slots /\ (UNCHANGED frame \/ Opens(s, s, j, pc))
      BY <2>1, FetchOpens
    <3>2. ASSUME Opens(s, s, j, pc)
          PROVE  Only(s) /\ ReadConf(frame'[s])
      BY <3>2 DEF Opens, ReadConf, HasConf
    <3> QED BY <1>1, <1>2, <3>1, <3>2
  <2>2. ASSUME NEW w \in Flows, FetchDispatch(w, j)
        PROVE  ConfInv'
    <3>1. /\ w \in Slots
          /\ UNCHANGED frame \/ (Only(w) /\ frame'[w].conf = config[w])
      BY <2>2, FetchBatch
    <3>2. Only(w) /\ frame'[w].conf = config[w] => ReadConf(frame'[w])
      BY DEF SendsAtOnce, ReadConf
    <3> QED BY <1>1, <1>2, <3>1, <3>2
  <2> QED BY <1>5, <2>1, <2>2 DEF FetchStep
<1>6. ASSUME NEW s \in HttpSlots, Request(s)
      PROVE  ConfInv'
  <2>1. s \in Slots /\ Starts(s)
    BY <1>6, RequestStarts
  <2>2. Only(s) /\ ReadConf(frame'[s])
    BY <2>1 DEF Starts, Entries, ReadConf, HasConf
  <2> QED BY <1>1, <2>1, <2>2
<1>7. CASE Restart
  <2>1. \A s \in Slots : frame'[s] = Idle
    BY <1>7 DEF Restart
  <2> QED BY <2>1 DEF ConfInv, ReadConf, Idle, HasConf
<1>8. CASE (\E f \in Flows : CronTick(f)) \/ (\E n \in DOMAIN nlpearl : CallFinishes(n)) \/ Quiescent
           \/ UNCHANGED vars
  BY <1>2, <1>8 DEF CronTick, CallFinishes, Quiescent, vars
<1> QED BY <1>3, <1>4, <1>5, <1>6, <1>7, <1>8 DEF Next

----------------------------------------------------------------------------
\* Handlers that hold a record at Received, and at PreSmsSent.
Handling   == {"skip", "sms", "presms", "fail"}
Enqueueing == {"enqueue", "scheduled"}

Coming(i) == \/ \E j \in Jobs : j.on \in {"trigger", "retry"} /\ j.id = i /\ queue[j] > 0
             \/ \E s \in {"trigger", "retry"} : Rec(s) = i
             \/ \E s \in Slots : At(s, "bump.enqueue") /\ Rec(s) = i

\* The call jobs whose handlers have not written Scheduled yet are still waiting.
Awaiting(i) == {s \in Slots : At(s, "scheduled") /\ Rec(s) = i /\ frame[s].conf.delayMinutes > 0}
Delayed(i)  == IsFiniteSet(Awaiting(i)) /\ Cardinality(Awaiting(i)) <= queue[NewJob("trigger", i)]

\* Somebody answers for a record on its way to the call.
InHand(i) ==
  /\ runs[i].status = "Scheduled" => Coming(i)
  /\ runs[i].status = "Received" => \E s \in Slots : Rec(s) = i /\ frame[s].pc \in Handling
  /\ runs[i].status = "PreSmsSent" => \E s \in Slots : Rec(s) = i /\ frame[s].pc \in Enqueueing
OnTheWay   == {"Received", "PreSmsSent", "Scheduled"}
StrandInv  == ConfInv /\ \A i \in Ids : Delayed(i)
Resumed(i) == InHand(i) \/ Coming(i)
HandsOn(i) == Delayed(i)' /\ (InHand(i) => InHand(i)') /\ (Coming(i) => Resumed(i)')

\* No job of record i goes.
MoreJobs(i) == \A j \in Jobs : j.on \in {"trigger", "retry"} /\ j.id = i => queue'[j] >= queue[j]

\* What s holds of record i it goes on holding.
Holds(s, i) ==
  frame[s].id = i =>
    /\ frame[s].pc \in Handling => frame'[s].id = i /\ frame'[s].pc \in Handling
    /\ frame[s].pc \in Enqueueing => frame'[s].id = i /\ frame'[s].pc \in Enqueueing
    /\ s \in {"trigger", "retry"} => frame'[s].id = i \/ Coming(i)'
    /\ frame[s].pc # "bump.enqueue" \/ Coming(i)'

LEMMA JobsNumbered ==
  ASSUME TypeInv
  PROVE  /\ \A j \in Jobs : queue[j] \in Nat
         /\ \A i \in Ids, w \in {"trigger", "retry"} : NewJob(w, i) \in Jobs
<1>1. \A j \in Jobs : queue[j] \in Nat
  BY DEF TypeInv, TypeOK
<1>2. \A i \in Ids : i \in 0 .. MaxRuns
  BY BoundsAssumption DEF Ids
<1> QED BY <1>1, <1>2, NewJobType, WorkerSlots

LEMMA DelayedKept ==
  ASSUME TypeInv, TypeInv', NEW s \in Slots, Only(s), NEW i \in Ids, Delayed(i), MoreJobs(i),
         frame'[s].pc = "scheduled" => frame[s] = frame'[s]
  PROVE  Delayed(i)'
<1>1. Awaiting(i)' \subseteq Awaiting(i)
  BY DEF Awaiting, At, Rec, Only
<1>2. /\ IsFiniteSet(Awaiting(i)') /\ Cardinality(Awaiting(i)') \in Nat
      /\ Cardinality(Awaiting(i)) \in Nat /\ Cardinality(Awaiting(i)') <= Cardinality(Awaiting(i))
  BY <1>1, NoMore DEF Delayed
<1>3. NewJob("trigger", i) \in Jobs /\ NewJob("trigger", i).on = "trigger" /\ NewJob("trigger", i).id = i
  BY JobsNumbered DEF NewJob
<1>4. queue'[NewJob("trigger", i)] >= queue[NewJob("trigger", i)]
  BY <1>3 DEF MoreJobs
<1>5. queue'[NewJob("trigger", i)] \in Nat /\ queue[NewJob("trigger", i)] \in Nat
  BY <1>3 DEF TypeInv, TypeOK
<1> QED BY <1>2, <1>4, <1>5 DEF Delayed, NewJob

\* The status stays, and so does whoever answers for it.
LEMMA StaysInHand ==
  ASSUME TypeInv, TypeInv', NEW s \in Slots, Only(s), NEW i \in Ids, Delayed(i)',
         runs'[i].status = runs[i].status,
         MoreJobs(i) \/ Coming(i)', Holds(s, i)
  PROVE  HandsOn(i)
<1>1. "trigger" \in Slots /\ "retry" \in Slots
  BY WorkerSlots
<1>2. ASSUME Coming(i), MoreJobs(i)
      PROVE  Coming(i)'
  <2>1. CASE \E j \in Jobs : j.on \in {"trigger", "retry"} /\ j.id = i /\ queue[j] > 0
    <3>1. PICK j \in Jobs : j.on \in {"trigger", "retry"} /\ j.id = i /\ queue[j] > 0
      BY <2>1
    <3>2. queue'[j] > 0
      BY <1>2, <3>1, JobsNumbered DEF MoreJobs, TypeInv, TypeOK
    <3> QED BY <3>1, <3>2 DEF Coming
  <2>2. CASE \E t \in {"trigger", "retry"} : Rec(t) = i
    BY <1>1, <2>2 DEF Coming, Rec, Only, Holds
  <2>3. CASE \E t \in Slots : At(t, "bump.enqueue") /\ Rec(t) = i
    BY <2>3 DEF Coming, Rec, At, Only, Holds
  <2> QED BY <1>2, <2>1, <2>2, <2>3 DEF Coming
<1>3. ASSUME InHand(i), runs[i].status = "Received"
      PROVE  \E t \in Slots : frame'[t].id = i /\ frame'[t].pc \in Handling
  <2>1. PICK t \in Slots : Rec(t) = i /\ frame[t].pc \in Handling
    BY <1>3 DEF InHand
  <2> QED BY <2>1 DEF Rec, Only, Holds
<1>4. ASSUME InHand(i), runs[i].status = "PreSmsSent"
      PROVE  \E t \in Slots : frame'[t].id = i /\ frame'[t].pc \in Enqueueing
  <2>1. PICK t \in Slots : Rec(t) = i /\ frame[t].pc \in Enqueueing
    BY <1>4 DEF InHand
  <2> QED BY <2>1 DEF Rec, Only, Holds
<1>5. InHand(i) => InHand(i)'
  BY <1>2, <1>3, <1>4 DEF InHand, Rec
<1>6. Coming(i) => Coming(i)'
  BY <1>2
<1> QED BY <1>5, <1>6 DEF HandsOn, Resumed

\* The status is written, by somebody who answers for it.
LEMMA WrittenInHand ==
  ASSUME NEW s \in Slots, NEW i \in Ids, Delayed(i)',
         \/ runs'[i].status \notin OnTheWay
         \/ runs'[i].status = "Scheduled" /\ Coming(i)'
         \/ runs'[i].status = "Received" /\ frame'[s].id = i /\ frame'[s].pc \in Handling
         \/ runs'[i].status = "PreSmsSent" /\ frame'[s].id = i /\ frame'[s].pc \in Enqueueing
  PROVE  HandsOn(i)
BY DEF HandsOn, Resumed, InHand, OnTheWay, Rec

LEMMA StatusWritten ==
  ASSUME TypeInv, NEW i \in Ids, NEW st, SetStatus(i, st)
  PROVE  \A k \in Ids : runs'[k].status = IF k = i THEN st ELSE runs[k].status
<1>1. runs \in [Ids -> Row]
  BY DEF TypeInv, TypeOK
<1> QED BY <1>1 DEF SetStatus, Row

LEMMA Gone ==
  ASSUME NEW i \in Ids, ~Exists(i)
  PROVE  runs[i].status \notin OnTheWay
BY DEF Exists, OnTheWay, FlowRunStatus

\* Jobs are added by handlers, and taken by workers that are free.
LEMMA RedeliverAdds ==
  ASSUME TypeInv, NEW job \in Jobs \cup {Null}, queue' = Redeliver(queue, job)
  PROVE  \A j \in Jobs : queue'[j] >= queue[j]
<1>1. queue \in [Jobs -> Nat]
  BY DEF TypeInv, TypeOK
<1>2. CASE ~(job # Null /\ job.tries > 0)
  BY <1>1, <1>2 DEF Redeliver
<1>3. CASE job # Null /\ job.tries > 0
  <2>1. PICK b : b = [job EXCEPT !.tries = @ - 1]
    OBVIOUS
  <2>2. queue' = [queue EXCEPT ![b] = @ + 1]
    BY <1>3, <2>1 DEF Redeliver
  <2> QED BY <1>1, <2>2
<1> QED BY <1>2, <1>3

LEMMA HandlersAdd ==
  ASSUME TypeInv, FrameInv, NEW s \in Slots, HandlerStep(s)
  PROVE  \A j \in Jobs : queue'[j] >= queue[j]
<1>1. queue \in [Jobs -> Nat]
  BY DEF TypeInv, TypeOK
<1>2. UNCHANGED queue => \A j \in Jobs : queue'[j] >= queue[j]
  BY <1>1
<1>3. Throw(s) => \A j \in Jobs : queue'[j] >= queue[j]
  BY FrameJob, RedeliverAdds DEF Throw
<1>4. ASSUME NEW b, Enqueue(b)
      PROVE  \A j \in Jobs : queue'[j] >= queue[j]
  BY <1>1, <1>4 DEF Enqueue
<1>5. EnqueueTrigger(s) \/ EnqueueRetry(s) => \A j \in Jobs : queue'[j] >= queue[j]
  BY <1>4 DEF EnqueueTrigger, EnqueueRetry
<1>6. ReadTriggerConfig(s) => \A j \in Jobs : queue'[j] >= queue[j]
  BY <1>2, <1>3 DEF ReadTriggerConfig
<1> QED BY <1>2, <1>3, <1>5, <1>6, HandlersQueue

\* "scheduled" is reached by enqueueing only.
LEMMA ScheduledWalks ==
  ASSUME NEW s \in Slots, Walks(s), frame'[s].pc = "scheduled"
  PROVE  frame[s].pc = "enqueue" /\ GoesOn(s, "scheduled")
<1>1. ~Stops(s) /\ ~GoesBack(s)
  BY DEF Stops, GoesBack, GoesOn, Idle
<1>2. ASSUME NEW e \in Edges, frame[s].pc = e[1], GoesOn(s, e[2])
      PROVE  frame[s].pc = "enqueue" /\ GoesOn(s, "scheduled")
  <2>1. e[2] = "scheduled" => e[1] = "enqueue"
    BY DEF Edges
  <2> QED BY <1>2, <2>1 DEF GoesOn
<1>3. ASSUME NEW e \in ReadEdges, NEW c, Reads(s, c, e[2])
      PROVE  FALSE
  BY <1>3 DEF Reads, ReadEdges
<1>4. ASSUME NEW i, NEW b, TakesUp(s, i, b)
      PROVE  FALSE
  BY <1>4 DEF TakesUp
<1> QED BY <1>1, <1>2, <1>3, <1>4 DEF Walks

\* A job enqueued waits for the statement that follows.
LEMMA HandlerDelayed ==
  ASSUME TypeInv, TypeInv', FrameInv, NEW s \in Slots, HandlerStep(s), NEW i \in Ids, Delayed(i)
  PROVE  Delayed(i)'
<1>1. Walks(s) /\ Only(s)
  BY HandlerWalks DEF Walks
<1>2. MoreJobs(i)
  BY HandlersAdd DEF MoreJobs
<1>3. CASE frame'[s].pc # "scheduled"
  BY <1>1, <1>2, <1>3, DelayedKept
<1>4. CASE frame'[s].pc = "scheduled"
  <2>1. frame[s].pc = "enqueue" /\ GoesOn(s, "scheduled")
    BY <1>1, <1>4, ScheduledWalks
  <2>2. EnqueueTrigger(s)
    <3>1. ~TriggerStep(s) /\ ~IngestStep(s) /\ ~WebhookStep(s) /\ ~AdminStep(s)
      BY <2>1 DEF TriggerStep, ReadTriggerConfig, MakeCall, RecordCall, IngestStep, ReadIngestConfig,
         WriteRecord, WriteCta, AdminStep, ReadResendConfig, ResendNow, DeleteRecord, WriteConfig,
         WebhookStep, ReadConsentConfig, SendConsentSms, RecordConsent, FindPendingCall,
         RecordCallEnd, DecideRetry, RecordCompleted, At
    <3>2. DispatchStep(s) => EnqueueTrigger(s)
      BY <2>1 DEF DispatchStep, SendPreliminarySms, RecordPreSmsSent, RecordFailed, RecordScheduled,
         SkipCtaCompleted, BumpAttempt, EnqueueRetry, ReadRetryConfig, SyncSchedule, At
    <3> QED BY <3>1, <3>2 DEF HandlerStep
  <2>3. PICK b : b = NewJob("trigger", Rec(s)) /\ queue' = [queue EXCEPT ![b] = @ + 1]
    BY <2>2 DEF EnqueueTrigger, Enqueue
  <2>4. NewJob("trigger", i) \in Jobs
    BY JobsNumbered
  <2>5. queue \in [Jobs -> Nat]
    BY DEF TypeInv, TypeOK
  <2>6. CASE Rec(s) = i
    <3>1. Awaiting(i)' \subseteq Awaiting(i) \cup {s}
      BY <1>1 DEF Awaiting, At, Rec, Only
    <3>2. /\ IsFiniteSet(Awaiting(i)') /\ Cardinality(Awaiting(i)') \in Nat
          /\ Cardinality(Awaiting(i)) \in Nat
          /\ Cardinality(Awaiting(i)') <= Cardinality(Awaiting(i)) + 1
      BY <3>1, OneMore DEF Delayed
    <3>3. queue'[NewJob("trigger", i)] = queue[NewJob("trigger", i)] + 1
      BY <2>3, <2>4, <2>5, <2>6
    <3>4. queue[NewJob("trigger", i)] \in Nat
      BY <2>4, <2>5
    <3>5. Cardinality(Awaiting(i)') <= queue'[NewJob("trigger", i)]
      BY <3>2, <3>3, <3>4 DEF Delayed
    <3> QED BY <3>2, <3>5 DEF Delayed, NewJob
  <2>7. CASE Rec(s) # i
    <3>1. Awaiting(i)' \subseteq Awaiting(i)
      BY <1>1, <2>1, <2>7 DEF Awaiting, At, Rec, Only, GoesOn, Kept
    <3>2. /\ IsFiniteSet(Awaiting(i)') /\ Cardinality(Awaiting(i)') \in Nat
          /\ Cardinality(Awaiting(i)) \in Nat
          /\ Cardinality(Awaiting(i)') <= Cardinality(Awaiting(i))
      BY <3>1, NoMore DEF Delayed
    <3>3. queue'[NewJob("trigger", i)] >= queue[NewJob("trigger", i)]
      BY <2>4, HandlersAdd
    <3>4. queue[NewJob("trigger", i)] \in Nat /\ queue'[NewJob("trigger", i)] \in Nat
      BY <2>4 DEF TypeInv, TypeOK
    <3>5. Cardinality(Awaiting(i)') <= queue'[NewJob("trigger", i)]
      BY <3>2, <3>3, <3>4 DEF Delayed
    <3> QED BY <3>2, <3>5 DEF Delayed, NewJob
  <2> QED BY <2>6, <2>7
<1> QED BY <1>3, <1>4

\* The ways a handler's step can go.
LEMMA Unwritten ==
  ASSUME TypeInv, TypeInv', FrameInv, StrandInv, NEW s \in Slots, HandlerStep(s),
         UNCHANGED runs, \A i \in Ids : Holds(s, i)
  PROVE  \A i \in Ids : HandsOn(i)
<1> SUFFICES ASSUME NEW i \in Ids
             PROVE  HandsOn(i)
  OBVIOUS
<1>1. Only(s) /\ MoreJobs(i) /\ Delayed(i)'
  BY HandlerWalks, HandlersAdd, HandlerDelayed DEF Walks, MoreJobs, StrandInv
<1> QED BY <1>1, StaysInHand

LEMMA GoneInHand ==
  ASSUME TypeInv, TypeInv', FrameInv, StrandInv, NEW s \in Slots, HandlerStep(s),
         UNCHANGED runs, ~Exists(Rec(s))
  PROVE  \A i \in Ids : HandsOn(i)
<1> SUFFICES ASSUME NEW i \in Ids
             PROVE  HandsOn(i)
  OBVIOUS
<1>1. Only(s) /\ MoreJobs(i) /\ Delayed(i)'
  BY HandlerWalks, HandlersAdd, HandlerDelayed DEF Walks, MoreJobs, StrandInv
<1>2. CASE i = Rec(s)
  <2>1. runs'[i].status \notin OnTheWay
    BY <1>2, Gone
  <2> QED BY <1>1, <2>1, WrittenInHand
<1>3. CASE i # Rec(s)
  <2>1. Holds(s, i)
    BY <1>3 DEF Holds, Rec
  <2> QED BY <1>1, <2>1, StaysInHand
<1> QED BY <1>2, <1>3

LEMMA Rewritten ==
  ASSUME TypeInv, TypeInv', FrameInv, StrandInv, NEW s \in Slots, HandlerStep(s),
         NEW k \in Ids, Rec(s) = k \/ Rec(s) \notin Ids, NEW st,
         \A i \in Ids : runs'[i].status = IF i = k THEN st ELSE runs[i].status,
         \/ st \notin OnTheWay
         \/ st = "Scheduled" /\ Coming(k)'
         \/ st = "Received" /\ frame'[s].id = k /\ frame'[s].pc \in Handling
         \/ st = "PreSmsSent" /\ frame'[s].id = k /\ frame'[s].pc \in Enqueueing
  PROVE  \A i \in Ids : HandsOn(i)
<1> SUFFICES ASSUME NEW i \in Ids
             PROVE  HandsOn(i)
  OBVIOUS
<1>1. Only(s) /\ MoreJobs(i) /\ Delayed(i)'
  BY HandlerWalks, HandlersAdd, HandlerDelayed DEF Walks, MoreJobs, StrandInv
<1>2. CASE i = k
  BY <1>1, <1>2, WrittenInHand
<1>3. CASE i # k
  <2>1. Holds(s, i) /\ runs'[i].status = runs[i].status
    BY <1>3 DEF Holds, Rec
  <2> QED BY <1>1, <2>1, StaysInHand
<1> QED BY <1>2, <1>3

\* What only requests do answers for no record.
RequestPcs == {"ing.config", "ing.write", "cta.write", "con.config", "con.sms", "con.write",
               "end.get", "end.row", "end.config", "end.done", "resend.config", "resend.bump",
               "delete", "conf.write", "conf.delete", "conf.sync"}

LEMMA RequestsHold ==
  ASSUME FrameInv, NEW s \in Slots, frame[s].pc \in RequestPcs
  PROVE  \A i : Holds(s, i)
<1>1. s \notin {"trigger", "retry"}
  <2>1. RequestPcs \cap (CallPcs \cup RetryPcs) = {}
    BY DEF RequestPcs, CallPcs, RetryPcs
  <2> QED BY <2>1, PcsOfSlot DEF FrameInv, FrameFits
<1>2. /\ RequestPcs \cap (Handling \cup Enqueueing) = {}
      /\ "bump.enqueue" \notin RequestPcs
  BY DEF RequestPcs, Handling, Enqueueing
<1> QED BY <1>1, <1>2 DEF Holds

LEMMA DispatchInHand ==
  ASSUME TypeInv, TypeInv', FrameInv, SendsAtOnce, StrandInv, NEW s \in Slots, DispatchStep(s)
  PROVE  \A i \in Ids : HandsOn(i)
<1> USE DEF At
<1>0. HandlerStep(s)
  BY DEF HandlerStep
<1>1. CASE SendPreliminarySms(s)
  <2>1. UNCHANGED runs /\ frame[s].pc = "sms" /\ (GoesOn(s, "presms") \/ GoesOn(s, "fail"))
    BY <1>1, GotoGoes DEF SendPreliminarySms, db
  <2>2. \A i \in Ids : Holds(s, i)
    BY <2>1 DEF Holds, GoesOn, Kept, Handling, Enqueueing
  <2> QED BY <1>0, <2>1, <2>2, Unwritten
<1>2. CASE RecordPreSmsSent(s)
  <2>1. CASE Exists(Rec(s)) /\ SetStatus(Rec(s), "PreSmsSent") /\ Goto(s, "enqueue")
    <3>1. Rec(s) \in Ids /\ frame'[s].id = Rec(s) /\ frame'[s].pc \in Enqueueing
      BY <2>1, GotoGoes DEF Exists, GoesOn, Kept, Rec, Enqueueing
    <3> QED BY <1>0, <2>1, <3>1, StatusWritten, Rewritten
  <2> QED BY <1>0, <1>2, <2>1, GoneInHand DEF RecordPreSmsSent
<1>3. ASSUME NEW st \in {"Failed", "Completed"}, Exists(Rec(s)), SetStatus(Rec(s), st)
      PROVE  \A i \in Ids : HandsOn(i)
  <2>1. st \notin OnTheWay /\ Rec(s) \in Ids
    BY <1>3 DEF OnTheWay, Exists
  <2> QED BY <1>0, <1>3, <2>1, StatusWritten, Rewritten
<1>4. CASE RecordFailed(s) \/ SkipCtaCompleted(s)
  BY <1>0, <1>3, <1>4, GoneInHand DEF RecordFailed, SkipCtaCompleted
<1>5. CASE EnqueueTrigger(s)
  <2>1. UNCHANGED runs /\ frame[s].pc = "enqueue" /\ GoesOn(s, "scheduled")
    BY <1>5, GotoGoes DEF EnqueueTrigger, db
  <2>2. \A i \in Ids : Holds(s, i)
    BY <2>1 DEF Holds, GoesOn, Kept, Handling, Enqueueing
  <2> QED BY <1>0, <2>1, <2>2, Unwritten
<1>6. CASE RecordScheduled(s)
  <2>1. CASE Exists(Rec(s)) /\ SetStatus(Rec(s), "Scheduled") /\ UNCHANGED queue
    <3>1. PICK i \in Ids : i = Rec(s)
      BY <2>1 DEF Exists
    <3>2. frame[s].conf.delayMinutes > 0
      BY <1>6 DEF RecordScheduled, StrandInv, ConfInv, ReadConf, HasConf, AtOnce
    <3>3. s \in Awaiting(i) /\ Delayed(i)
      BY <1>6, <3>1, <3>2 DEF RecordScheduled, Awaiting, StrandInv
    <3>4. Cardinality(Awaiting(i)) \in Nat /\ Cardinality(Awaiting(i)) # 0
      BY <3>3, FS_EmptySet, FS_CardinalityType DEF Delayed
    <3>5. PICK j \in Jobs : j = NewJob("trigger", i) /\ j.on = "trigger" /\ j.id = i
      BY JobsNumbered DEF NewJob
    <3>6. queue'[j] > 0
      BY <2>1, <3>3, <3>4, <3>5, JobsNumbered DEF Delayed
    <3>7. Coming(i)'
      BY <3>5, <3>6 DEF Coming
    <3> QED BY <1>0, <2>1, <3>1, <3>7, StatusWritten, Rewritten
  <2> QED BY <1>0, <1>6, <2>1, GoneInHand DEF RecordScheduled
<1>7. CASE BumpAttempt(s)
  <2>1. CASE Exists(Rec(s)) /\ Goto(s, "bump.enqueue") /\
             runs' = [runs EXCEPT ![Rec(s)].attempt = @ + 1, ![Rec(s)].status = "Scheduled"]
    <3>1. PICK i \in Ids : i = Rec(s)
      BY <2>1 DEF Exists
    <3>2. \A k \in Ids : runs'[k].status = IF k = i THEN "Scheduled" ELSE runs[k].status
      <4>1. runs \in [Ids -> Row]
        BY DEF TypeInv, TypeOK
      <4> QED BY <2>1, <3>1, <4>1 DEF Row
    <3>3. Coming(i)'
      BY <2>1, <3>1, GotoGoes DEF Coming, GoesOn, Kept, Rec
    <3> QED BY <1>0, <3>1, <3>2, <3>3, Rewritten
  <2> QED BY <1>0, <1>7, <2>1, GoneInHand DEF BumpAttempt
<1>8. CASE EnqueueRetry(s)
  <2>1. UNCHANGED runs /\ frame[s].pc = "bump.enqueue"
    BY <1>8 DEF EnqueueRetry, db
  <2>2. ASSUME NEW i \in Ids, frame[s].id = i
        PROVE  Coming(i)'
    <3>1. PICK j \in Jobs : j = NewJob("retry", i) /\ j.on = "retry" /\ j.id = i
      BY JobsNumbered DEF NewJob
    <3>2. queue' = [queue EXCEPT ![j] = @ + 1] /\ queue \in [Jobs -> Nat]
      BY <1>8, <2>2, <3>1 DEF EnqueueRetry, Enqueue, Rec, TypeInv, TypeOK
    <3>3. queue'[j] > 0
      BY <3>2
    <3> QED BY <3>1, <3>3 DEF Coming
  <2>3. \A i \in Ids : Holds(s, i)
    BY <2>1, <2>2 DEF Holds, Handling, Enqueueing
  <2> QED BY <1>0, <2>1, <2>3, Unwritten
<1>9. CASE ReadRetryConfig(s)
  <2>1. UNCHANGED runs /\ frame[s].pc = "retry.config"
    BY <1>9 DEF ReadRetryConfig, db
  <2>2. PICK c : c = config[frame[s].key.flow] /\ c # Null /\ c.enabled
    <3>1. frame[s].key \in Keys
      BY <2>1 DEF TypeInv, FramesKnown, Known, NeedsKey
    <3> QED BY <3>1, KeysAssumption DEF SendsAtOnce, AtOnce
  <2>3. Reads(s, c, "sms")
    BY <1>9, <2>2, ConfReads DEF ReadRetryConfig
  <2>4. \A i \in Ids : Holds(s, i)
    BY <2>1, <2>3 DEF Holds, Reads, Kept, Handling, Enqueueing
  <2> QED BY <1>0, <2>1, <2>4, Unwritten
<1>10. CASE SyncSchedule(s)
  <2>1. UNCHANGED runs /\ frame[s].pc \in RequestPcs
    BY <1>10 DEF SyncSchedule, RequestPcs, db
  <2> QED BY <1>0, <2>1, RequestsHold, Unwritten
<1> QED BY <1>1, <1>2, <1>4, <1>5, <1>6, <1>7, <1>8, <1>9, <1>10 DEF DispatchStep

LEMMA TriggerInHand ==
  ASSUME TypeInv, TypeInv', FrameInv, SendsAtOnce, StrandInv, NEW s \in Slots, TriggerStep(s)
  PROVE  \A i \in Ids : HandsOn(i)
<1> USE DEF At
<1>0. HandlerStep(s)
  BY DEF HandlerStep
<1>1. ASSUME UNCHANGED runs, frame[s].pc \in {"trig.config", "trig.call"}, frame'[s].id = frame[s].id
      PROVE  \A i \in Ids : HandsOn(i)
  <2>1. \A i \in Ids : Holds(s, i)
    BY <1>1 DEF Holds, Handling, Enqueueing
  <2> QED BY <1>0, <1>1, <2>1, Unwritten
<1>2. CASE ReadTriggerConfig(s)
  <2>1. UNCHANGED runs /\ frame[s].pc = "trig.config"
    BY <1>2 DEF ReadTriggerConfig, db
  <2>2. PICK c : c = config[frame[s].key.flow] /\ c # Null
    <3>1. frame[s].key \in Keys
      BY <2>1 DEF TypeInv, FramesKnown, Known, NeedsKey
    <3> QED BY <3>1, KeysAssumption DEF SendsAtOnce
  <2>3. Reads(s, c, "trig.call")
    BY <1>2, <2>2, ConfReads DEF ReadTriggerConfig
  <2> QED BY <1>1, <2>1, <2>3 DEF Reads, Kept
<1>3. CASE MakeCall(s)
  <2>1. UNCHANGED runs /\ frame[s].pc = "trig.call"
    BY <1>3 DEF MakeCall, db
  <2>2. \E pc : GoesOn(s, pc)
    <3>1. ASSUME frame' = [frame EXCEPT ![s].call = Len(nlpearl) + 1, ![s].pc = "trig.record"]
          PROVE  GoesOn(s, "trig.record")
      BY <3>1, CallGoes
    <3> QED BY <1>3, <3>1, GotoGoes DEF MakeCall
  <2> QED BY <1>1, <2>1, <2>2 DEF GoesOn, Kept
<1>4. CASE RecordCall(s)
  <2>1. CASE Exists(Rec(s)) /\ SetStatus(Rec(s), "CallTriggered")
    <3>1. Rec(s) \in Ids /\ "CallTriggered" \notin OnTheWay
      BY <2>1 DEF Exists, OnTheWay
    <3> QED BY <1>0, <2>1, <3>1, StatusWritten, Rewritten
  <2> QED BY <1>0, <1>4, <2>1, GoneInHand DEF RecordCall
<1> QED BY <1>2, <1>3, <1>4 DEF TriggerStep

LEMMA IngestInHand ==
  ASSUME TypeInv, TypeInv', FrameInv, StrandInv, NEW s \in Slots, IngestStep(s)
  PROVE  \A i \in Ids : HandsOn(i)
<1> USE DEF At
<1>0. HandlerStep(s) /\ frame[s].pc \in RequestPcs
  BY DEF HandlerStep, IngestStep, ReadIngestConfig, WriteRecord, WriteCta, RequestPcs
<1>1. CASE UNCHANGED runs
  BY <1>0, <1>1, RequestsHold, Unwritten
<1>2. ASSUME NEW i \in Ids, frame[s].pc = "ing.write", AfterIngest(s, i),
             Rec(s) = i \/ Rec(s) = 0,
             \A k \in Ids : runs'[k].status = IF k = i THEN "Received" ELSE runs[k].status
      PROVE  \A k \in Ids : HandsOn(k)
  <2>1. ~frame[s].conf.sendSchedule
    BY <1>2 DEF StrandInv, ConfInv, ReadConf, HasConf, AtOnce
  <2>2. TakesUp(s, i, runs'[i].cta)
    BY <1>2, <2>1, IngestTakesUp
  <2>3. frame'[s].id = i /\ frame'[s].pc \in Handling
    BY <2>2 DEF TakesUp, Handling
  <2>4. Rec(s) = i \/ Rec(s) \notin Ids
    BY <1>2, BoundsAssumption DEF Ids
  <2> QED BY <1>0, <1>2, <2>3, <2>4, Rewritten
<1>3. runs \in [Ids -> Row]
  BY DEF TypeInv, TypeOK
<1>4. CASE WriteRecord(s)
  <2>1. CASE Exists(Rec(s)) /\ UpdateRecord(s, Rec(s)) /\ AfterIngest(s, Rec(s))
    <3>1. PICK i \in Ids : i = Rec(s)
      BY <2>1 DEF Exists
    <3>2. \A k \in Ids : runs'[k].status = IF k = i THEN "Received" ELSE runs[k].status
      BY <1>3, <2>1, <3>1 DEF UpdateRecord, Row
    <3> QED BY <1>2, <1>4, <2>1, <3>1, <3>2 DEF WriteRecord
  <2>2. ASSUME NEW i \in Ids, Rec(s) = 0, CreateRecord(s, i), AfterIngest(s, i)
        PROVE  \A k \in Ids : HandsOn(k)
    <3>1. \A k \in Ids : runs'[k].status = IF k = i THEN "Received" ELSE runs[k].status
      BY <1>3, <2>2 DEF CreateRecord
    <3> QED BY <1>2, <1>4, <2>2, <3>1 DEF WriteRecord
  <2> QED BY <1>1, <1>4, <2>1, <2>2 DEF WriteRecord
<1>5. CASE WriteCta(s) /\ Exists(Rec(s))
  <2>1. \A k \in Ids : runs'[k].status = runs[k].status
    BY <1>3, <1>5 DEF WriteCta, Row
  <2>2. \A k \in Ids : Holds(s, k)
    BY <1>0, RequestsHold
  <2>3. ASSUME NEW i \in Ids
        PROVE  HandsOn(i)
    <3>1. Only(s) /\ MoreJobs(i) /\ Delayed(i)'
      BY <1>0, HandlerWalks, HandlersAdd, HandlerDelayed DEF Walks, MoreJobs, StrandInv
    <3> QED BY <2>1, <2>2, <3>1, StaysInHand
  <2> QED BY <2>3
<1> QED BY <1>1, <1>4, <1>5 DEF IngestStep, ReadIngestConfig, WriteCta, db

LEMMA WebhookInHand ==
  ASSUME TypeInv, TypeInv', FrameInv, StrandInv, NEW s \in Slots, WebhookStep(s)
  PROVE  \A i \in Ids : HandsOn(i)
<1> USE DEF At
<1>0. HandlerStep(s) /\ frame[s].pc \in RequestPcs
  BY DEF HandlerStep, WebhookStep, ReadConsentConfig, SendConsentSms, RecordConsent, FindPendingCall,
     RecordCallEnd, DecideRetry, RecordCompleted, RequestPcs
<1>1. CASE UNCHANGED runs
  BY <1>0, <1>1, RequestsHold, Unwritten
<1>2. ASSUME NEW st \in {"ConsentGiven", "Completed"}, Exists(Rec(s)), SetStatus(Rec(s), st)
      PROVE  \A i \in Ids : HandsOn(i)
  <2>1. st \notin OnTheWay /\ Rec(s) \in Ids
    BY <1>2 DEF OnTheWay, Exists
  <2> QED BY <1>0, <1>2, <2>1, StatusWritten, Rewritten
<1> QED BY <1>1, <1>2 DEF WebhookStep, ReadConsentConfig, SendConsentSms, RecordConsent,
     FindPendingCall, RecordCallEnd, DecideRetry, RecordCompleted, db

LEMMA AdminInHand ==
  ASSUME TypeInv, TypeInv', FrameInv, StrandInv, NEW s \in Slots, AdminStep(s)
  PROVE  \A i \in Ids : HandsOn(i)
<1> USE DEF At
<1>0. HandlerStep(s) /\ frame[s].pc \in RequestPcs /\ runs \in [Ids -> Row]
  BY DEF HandlerStep, AdminStep, ReadResendConfig, ResendNow, DeleteRecord, WriteConfig, RequestPcs,
     TypeInv, TypeOK
<1>1. CASE UNCHANGED runs
  BY <1>0, <1>1, RequestsHold, Unwritten
<1>2. CASE ResendNow(s) /\ ~UNCHANGED runs
  <2>1. /\ Exists(Rec(s)) /\ GoesOn(s, "sms")
        /\ runs' = [runs EXCEPT ![Rec(s)].attempt = @ + 1, ![Rec(s)].status = "Received"]
    BY <1>2, GotoGoes DEF ResendNow
  <2>2. PICK i \in Ids : i = Rec(s)
    BY <2>1 DEF Exists
  <2>3. \A k \in Ids : runs'[k].status = IF k = i THEN "Received" ELSE runs[k].status
    BY <1>0, <2>1, <2>2 DEF Row
  <2>4. frame'[s].id = i /\ frame'[s].pc \in Handling
    BY <2>1, <2>2 DEF GoesOn, Kept, Handling, Rec
  <2> QED BY <1>0, <2>2, <2>3, <2>4, Rewritten
<1>3. CASE DeleteRecord(s) /\ ~UNCHANGED runs
  <2>1. Exists(Rec(s)) /\ runs' = [runs EXCEPT ![Rec(s)] = Deleted]
    BY <1>3 DEF DeleteRecord
  <2>2. PICK i \in Ids : i = Rec(s)
    BY <2>1 DEF Exists
  <2>3. \A k \in Ids : runs'[k].status = IF k = i THEN "deleted" ELSE runs[k].status
    BY <1>0, <2>1, <2>2 DEF Deleted, NoRow
  <2>4. "deleted" \notin OnTheWay
    BY DEF OnTheWay
  <2> QED BY <1>0, <2>2, <2>3, <2>4, Rewritten
<1> QED BY <1>1, <1>2, <1>3 DEF AdminStep, ReadResendConfig, WriteConfig, ResendNow, DeleteRecord, db

----------------------------------------------------------------------------
\* A slot that was free, or between two records of a batch, answered for none.
LEMMA FreeHolds ==
  ASSUME TypeInv, FrameInv, NEW s \in Slots, NEW i \in Ids,
         frame[s].pc = "idle" \/ frame[s].pc \in {"batch.list", "batch.next"}
  PROVE  Holds(s, i)
<1>1. CASE frame[s].pc = "idle"
  <2>1. frame[s].id = 0 /\ 0 \notin Ids
    BY <1>1 DEF FrameInv, FrameFits, Idle, Ids
  <2> QED BY <2>1 DEF Holds
<1>2. CASE frame[s].pc \in {"batch.list", "batch.next"}
  <2>1. s \notin {"trigger", "retry"}
    BY <1>2, PcsOfSlot DEF FrameInv, FrameFits, CallPcs, RetryPcs
  <2> QED BY <1>2, <2>1 DEF Holds, Handling, Enqueueing
<1> QED BY <1>1, <1>2

\* A step of such a slot that takes no job of record i.
LEMMA FreeInHand ==
  ASSUME TypeInv, TypeInv', FrameInv, StrandInv, NEW s \in Slots, Only(s), NEW i \in Ids,
         UNCHANGED runs, MoreJobs(i),
         frame[s].pc = "idle" \/ frame[s].pc \in {"batch.list", "batch.next"},
         frame'[s].pc # "scheduled"
  PROVE  HandsOn(i)
<1>1. Delayed(i)
  BY DEF StrandInv
<1>2. Delayed(i)'
  BY <1>1, DelayedKept
<1> QED BY <1>1, <1>2, FreeHolds, StaysInHand

\* The call worker takes no job whose handler has not written Scheduled.
LEMMA FetchInHand ==
  ASSUME TypeInv, TypeInv', FrameInv, StrandInv, NEW j \in Jobs, FetchStep(j)
  PROVE  \A i \in Ids : HandsOn(i)
<1> SUFFICES ASSUME NEW i \in Ids
             PROVE  HandsOn(i)
  OBVIOUS
<1>1. queue \in [Jobs -> Nat] /\ Delayed(i)
  BY DEF TypeInv, TypeOK, StrandInv
<1>2. ASSUME NEW s \in {"trigger", "retry"},
             IF s = "trigger" THEN FetchTrigger(j) ELSE FetchRetry(j)
      PROVE  HandsOn(i)
  <2>1. PICK pc \in {"trig.config", "retry.config"} :
          /\ s \in Slots /\ j.on = s /\ frame[s].pc = "idle" /\ UNCHANGED runs
          /\ queue' = [queue EXCEPT ![j] = @ - 1] /\ queue[j] > 0 /\ Ripe(j)
          /\ \/ Exists(j.id) /\ Opens(s, s, j, pc)
             \/ ~Exists(j.id) /\ UNCHANGED frame
    BY <1>2, FetchOpens
  <2>2. Only(s) /\ frame'[s].pc # "scheduled"
    BY <2>1 DEF Opens, Only
  <2>3. CASE j.id # i
    <3>1. MoreJobs(i)
      BY <1>1, <2>1, <2>3 DEF MoreJobs
    <3> QED BY <2>1, <2>2, <3>1, FreeInHand
  <2>4. CASE j.id = i
    <3>1. Awaiting(i)' \subseteq Awaiting(i)
      BY <2>2 DEF Awaiting, At, Rec, Only
    <3>2. /\ IsFiniteSet(Awaiting(i)') /\ Cardinality(Awaiting(i)') \in Nat
          /\ Cardinality(Awaiting(i)) \in Nat
          /\ Cardinality(Awaiting(i)') <= Cardinality(Awaiting(i))
      BY <1>1, <3>1, NoMore DEF Delayed
    <3>3. PICK b \in Jobs : b = NewJob("trigger", i)
      BY JobsNumbered
    <3>4. Cardinality(Awaiting(i)) <= queue'[b]
      <4>1. CASE j = b
        <5>1. j.on = "trigger" /\ j.tries = RetryLimit
          BY <3>3, <4>1 DEF NewJob
        <5>2. queue[j] > Cardinality(Awaiting(i))
          BY <2>1, <2>4, <5>1 DEF Ripe, Unripe, Awaiting
        <5> QED BY <1>1, <2>1, <3>2, <4>1, <5>2
      <4>2. CASE j # b
        BY <1>1, <2>1, <3>3, <4>2 DEF Delayed
      <4> QED BY <4>1, <4>2
    <3>5. Delayed(i)'
      <4>1. queue'[b] \in Nat
        BY DEF TypeInv, TypeOK
      <4>2. Cardinality(Awaiting(i)') <= queue'[b]
        BY <3>2, <3>4, <4>1
      <4> QED BY <3>2, <3>3, <4>2 DEF Delayed, NewJob
    <3>6. CASE Exists(i)
      <4>1. frame'[s].id = i
        BY <2>1, <2>4, <3>6 DEF Opens
      <4>2. Coming(i)'
        BY <4>1 DEF Coming, Rec
      <4>3. Holds(s, i)
        BY <2>1, FreeHolds
      <4> QED BY <1>1, <2>1, <2>2, <3>5, <4>2, <4>3, StaysInHand
    <3>7. CASE ~Exists(i)
      <4>1. runs'[i].status \notin OnTheWay
        BY <2>1, <3>7, Gone
      <4> QED BY <2>1, <3>5, <4>1, WrittenInHand
    <3> QED BY <3>6, <3>7
  <2> QED BY <2>3, <2>4
<1>3. ASSUME NEW w \in Flows, FetchDispatch(w, j)
      PROVE  HandsOn(i)
  <2>1. /\ w \in Slots /\ j.on = w /\ frame[w].pc = "idle" /\ UNCHANGED runs
        /\ queue' = [queue EXCEPT ![j] = @ - 1]
        /\ UNCHANGED frame \/ (Only(w) /\ frame'[w].pc = "batch.list")
    BY <1>3, FetchBatch
  <2>2. MoreJobs(i)
    BY <1>1, <2>1, SlotsAssumption DEF MoreJobs
  <2>3. Only(w) /\ frame'[w].pc # "scheduled"
    BY <2>1 DEF Only
  <2> QED BY <2>1, <2>2, <2>3, FreeInHand
<1> QED BY <1>2, <1>3 DEF FetchStep

\* No step but a crash lets go of a record.
LEMMA NextHandsOn ==
  ASSUME TypeInv, TypeInv', FrameInv, SendsAtOnce, StrandInv, [Next]_vars, [~Restart]_vars
  PROVE  \A i \in Ids : HandsOn(i)
<1>2. ASSUME NEW s \in Slots, HandlerStep(s)
      PROVE  \A i \in Ids : HandsOn(i)
  BY <1>2, DispatchInHand, TriggerInHand, IngestInHand, WebhookInHand, AdminInHand DEF HandlerStep
<1>3. ASSUME NEW w \in Flows, BatchStep(w)
      PROVE  \A i \in Ids : HandsOn(i)
  <2>1. w \in Slots /\ UNCHANGED <<runs, queue>> /\ frame[w].pc \in {"batch.list", "batch.next"}
    BY <1>3, WorkerSlots DEF BatchStep, ListPending, NextPending, db, boss, At
  <2>2. Only(w) /\ frame'[w].pc # "scheduled"
    <3>1. ListPending(w) => Only(w) /\ frame'[w].pc # "scheduled"
      BY ListGoes
    <3>2. NextPending(w) => Only(w) /\ frame'[w].pc # "scheduled"
      BY NextTakesUp DEF Stops, TakesUp, Idle
    <3> QED BY <1>3, <3>1, <3>2 DEF BatchStep
  <2>3. \A i \in Ids : MoreJobs(i)
    BY <2>1 DEF MoreJobs, TypeInv, TypeOK
  <2> QED BY <2>1, <2>2, <2>3, FreeInHand
<1>4. ASSUME NEW s \in HttpSlots, Request(s)
      PROVE  \A i \in Ids : HandsOn(i)
  <2>1. s \in Slots /\ Starts(s) /\ UNCHANGED <<runs, queue>>
    BY <1>4, RequestStarts
  <2>2. Only(s) /\ frame'[s].pc # "scheduled" /\ frame[s].pc = "idle"
    BY <2>1 DEF Starts, Entries
  <2>3. \A i \in Ids : MoreJobs(i)
    BY <2>1 DEF MoreJobs, TypeInv, TypeOK
  <2> QED BY <2>1, <2>2, <2>3, FreeInHand
<1>5. ASSUME UNCHANGED <<runs, frame>>, \A i \in Ids : MoreJobs(i)
      PROVE  \A i \in Ids : HandsOn(i)
  <2> SUFFICES ASSUME NEW i \in Ids
               PROVE  HandsOn(i)
    OBVIOUS
  <2>1. "trigger" \in Slots /\ Only("trigger") /\ Delayed(i)
    BY <1>5, WorkerSlots DEF Only, StrandInv
  <2>2. Delayed(i)'
    BY <1>5, <2>1, DelayedKept
  <2>3. runs'[i].status \notin OnTheWay \/ Holds("trigger", i) \/ Coming(i)'
    BY <1>5, <2>1 DEF Holds, Coming, Rec
  <2>4. MoreJobs(i)
    BY <1>5
  <2>5. Holds("trigger", i)
    <3>1. frame["trigger"].id = i /\ frame["trigger"].pc = "bump.enqueue" => Coming(i)'
      BY <1>5, <2>1 DEF Coming, Rec
    <3> QED BY <1>5, <3>1 DEF Holds
  <2> QED BY <1>5, <2>1, <2>2, <2>4, <2>5, StaysInHand
<1>6. ASSUME NEW f \in Flows, CronTick(f)
      PROVE  \A i \in Ids : HandsOn(i)
  <2>1. UNCHANGED <<runs, frame>>
    BY <1>6 DEF CronTick, db
  <2>2. \A i \in Ids : MoreJobs(i)
    BY <1>6 DEF CronTick, Enqueue, MoreJobs, TypeInv, TypeOK
  <2> QED BY <1>5, <2>1, <2>2
<1>7. ASSUME UNCHANGED <<runs, frame, queue>>
      PROVE  \A i \in Ids : HandsOn(i)
  <2>1. \A i \in Ids : MoreJobs(i)
    BY <1>7 DEF MoreJobs, TypeInv, TypeOK
  <2> QED BY <1>5, <1>7, <2>1
<1>8. ASSUME (\E n \in DOMAIN nlpearl : CallFinishes(n)) \/ Quiescent \/ UNCHANGED vars
      PROVE  UNCHANGED <<runs, frame, queue>>
  BY <1>8 DEF CallFinishes, Quiescent, vars, db, boss
<1>9. ~Restart \/ UNCHANGED vars
  OBVIOUS
<1> QED BY <1>2, <1>3, <1>4, <1>6, <1>7, <1>8, <1>9, FetchInHand DEF Next

\* A crash leaves the jobs that wait, and puts back those that were run, but for
\* those without tries left.
LEMMA CrashPutsBack ==
  ASSUME TypeInv, FrameInv, Restart
  PROVE  /\ \A j \in Jobs : queue'[j] >= queue[j]
         /\ \A s \in {"trigger", "retry"} :
              LET job == frame[s].job IN
              ~At(s, "idle") /\ job.tries # 0 =>
                \E j \in Jobs : j.on = s /\ j.id = Rec(s) /\ queue'[j] > 0
<1>1. queue \in [Jobs -> Nat]
  BY DEF TypeInv, TypeOK
<1>2. ASSUME NEW j \in Jobs
      PROVE  /\ queue'[j] \in {queue[j], queue[j] + 1}
             /\ frame[j.on].job # Null /\ frame[j.on].job.id = j.id
                /\ frame[j.on].job.tries = j.tries + 1 => queue'[j] = queue[j] + 1
  BY DEF Restart
<1>3. \A j \in Jobs : queue'[j] >= queue[j]
  BY <1>1, <1>2
<1>4. ASSUME NEW s \in {"trigger", "retry"}, ~At(s, "idle"), frame[s].job.tries # 0
      PROVE  \E j \in Jobs : j.on = s /\ j.id = Rec(s) /\ queue'[j] > 0
  <2>1. s \in Slots /\ s \notin Flows
    BY WorkerSlots, SlotsAssumption
  <2>2. PICK job : /\ job = frame[s].job /\ job # Null /\ job \in Jobs
                   /\ job.on = s /\ job.id = Rec(s)
    BY <1>4, <2>1 DEF FrameInv, FrameFits, At, Rec
  <2>3. job.tries - 1 \in 0 .. RetryLimit
    BY <1>4, <2>2, BoundsAssumption DEF Jobs
  <2>4. PICK j \in Jobs : j.on = s /\ j.id = job.id /\ j.tries = job.tries - 1
    <3>1. [on |-> s, id |-> job.id, tries |-> job.tries - 1] \in Jobs
      BY <2>2, <2>3 DEF Jobs
    <3> QED BY <3>1
  <2>5. job.tries = j.tries + 1
    BY <2>2, <2>4 DEF Jobs
  <2>6. queue'[j] = queue[j] + 1
    BY <1>2, <2>2, <2>4, <2>5
  <2>7. queue'[j] > 0
    BY <1>1, <2>6
  <2> QED BY <2>2, <2>4, <2>7
<1> QED BY <1>3, <1>4

LEMMA CrashInHand ==
  ASSUME TypeInv, TypeInv', FrameInv, Restart, NEW i \in Ids
  PROVE  /\ Delayed(i)'
         /\ Resumed(i) /\ ~(\E s \in Slots : Rec(s) = i /\ CannotResume(s)) => Resumed(i)'
<1>1. UNCHANGED runs /\ \A s \in Slots : frame'[s] = Idle
  BY DEF Restart, db
<1>2. Delayed(i)'
  <2>1. Awaiting(i)' = {}
    BY <1>1 DEF Awaiting, At, Idle
  <2>2. PICK j \in Jobs : j = NewJob("trigger", i)
    BY JobsNumbered
  <2>3. queue'[j] \in Nat
    BY DEF TypeInv, TypeOK
  <2>4. IsFiniteSet(Awaiting(i)') /\ Cardinality(Awaiting(i)') = 0
    BY <2>1, FS_EmptySet
  <2> QED BY <2>2, <2>3, <2>4 DEF Delayed, NewJob
<1>3. ASSUME Resumed(i), ~(\E s \in Slots : Rec(s) = i /\ CannotResume(s))
      PROVE  Resumed(i)'
  <2>1. CASE \E j \in Jobs : j.on \in {"trigger", "retry"} /\ j.id = i /\ queue[j] > 0
    <3>1. PICK j \in Jobs : j.on \in {"trigger", "retry"} /\ j.id = i /\ queue[j] > 0
      BY <2>1
    <3>2. queue'[j] > 0
      BY <3>1, CrashPutsBack, JobsNumbered DEF TypeInv, TypeOK
    <3> QED BY <3>1, <3>2 DEF Resumed, Coming
  <2>2. ASSUME NEW s \in {"trigger", "retry"}, Rec(s) = i
        PROVE  Resumed(i)'
    <3>1. s \in Slots /\ ~At(s, "idle")
      <4>1. 0 \notin Ids
        BY DEF Ids
      <4> QED BY <2>2, <4>1, WorkerSlots DEF FrameInv, FrameFits, Idle, At, Rec
    <3>2. frame[s].job.tries # 0
      BY <1>3, <2>2, <3>1 DEF CannotResume, FrameInv, FrameFits, At
    <3>3. PICK j \in Jobs : j.on = s /\ j.id = i /\ queue'[j] > 0
      BY <2>2, <3>1, <3>2, CrashPutsBack
    <3> QED BY <3>3 DEF Resumed, Coming
  <2>3. ASSUME NEW s \in Slots, Rec(s) = i, frame[s].pc \in Handling \cup Enqueueing \cup {"bump.enqueue"}
        PROVE  Resumed(i)'
    <3>1. s \in {"trigger", "retry"}
      BY <1>3, <2>3 DEF CannotResume, Handling, Enqueueing
    <3> QED BY <2>2, <2>3, <3>1
  <2>4. CASE runs[i].status \notin OnTheWay
    BY <1>1, <2>4 DEF Resumed, InHand, OnTheWay
  <2>5. CASE runs[i].status \in OnTheWay
    BY <1>3, <2>1, <2>2, <2>3, <2>5 DEF Resumed, InHand, Coming, OnTheWay, At
  <2> QED BY <2>4, <2>5
<1> QED BY <1>2, <1>3

LEMMA NextStrandInv ==
  ASSUME TypeInv, TypeInv', FrameInv, SendsAtOnce, StrandInv, [Next]_vars
  PROVE  StrandInv'
<1>1. ConfInv'
  BY NextConfInv DEF StrandInv
<1>2. \A i \in Ids : Delayed(i)'
  BY NextHandsOn, CrashInHand DEF HandsOn
<1> QED BY <1>1, <1>2 DEF StrandInv

LEMMA InitStrandInv == Init => StrandInv /\ \A i \in Ids : InHand(i)
<1> SUFFICES ASSUME Init
             PROVE  StrandInv /\ \A i \in Ids : InHand(i)
  OBVIOUS
<1>1. /\ \A s \in Slots : frame[s] = Idle
      /\ \A j \in Jobs : queue[j] = 0
      /\ \A i \in Ids : runs[i].status = "none"
  BY DEF Init, NoRow
<1>2. ConfInv
  BY <1>1 DEF ConfInv, ReadConf, HasConf, Idle
<1>3. ASSUME NEW i \in Ids
      PROVE  Delayed(i) /\ InHand(i)
  <2>1. Awaiting(i) = {}
    BY <1>1 DEF Awaiting, At, Idle
  <2>2. NewJob("trigger", i) \in Jobs
    BY JobsNumbered, <1>1, NewJobType, WorkerSlots, BoundsAssumption DEF Ids
  <2>3. Delayed(i)
    BY <1>1, <2>1, <2>2, FS_EmptySet DEF Delayed
  <2> QED BY <1>1, <2>3 DEF InHand
<1> QED BY <1>2, <1>3 DEF StrandInv

LEMMA HandsInvariance == Spec /\ []SendsAtOnce => []StrandInv
<1>1. TypeInv /\ TypeInv' /\ FrameInv /\ SendsAtOnce /\ StrandInv /\ [Next]_vars => StrandInv'
  BY NextStrandInv
<1> QED BY <1>1, InitStrandInv, FrameInvariance, RecordInvariance, PTL DEF Spec

\* Being stranded is being in nobody's hands.
LEMMA StrandedIs ==
  ASSUME NEW i \in Ids
  PROVE  /\ Stranded(i) <=> ~InHand(i)
         /\ Abandoned(i) <=> ~Resumed(i)
<1>1. Stranded(i) <=> ~InHand(i)
  BY DEF Stranded, InHand, ComesUp, Coming, Handling, Enqueueing
<1>2. ComesUp(i) <=> Coming(i)
  BY DEF ComesUp, Coming
<1> QED BY <1>1, <1>2 DEF Abandoned, Resumed

\* NothingStranded: as long as every flow has settings, is enabled and sends at
\* once with a delay before the call, no record is left lying on the way to the
\* call before the first crash, however many handlers overwrite each other's
\* statuses (dispatchOne, scheduleRetry, CallTriggerWorker).
THEOREM NoneStranded == Spec /\ []SendsAtOnce => []NothingStranded
<1> DEFINE AllInHand == used["restart"] = 0 => \A i \in Ids : InHand(i)
<1>1. Init => AllInHand
  BY InitStrandInv
<1>2. ASSUME TypeInv, TypeInv', FrameInv, SendsAtOnce, StrandInv, [Next]_vars, AllInHand
      PROVE  AllInHand'
  <2>1. CASE Restart
    <3>1. used'["restart"] = used["restart"] + 1 /\ used["restart"] \in Nat
      BY <1>2, <2>1, BoundsAssumption DEF Restart, Spend, TypeInv, TypeOK
    <3> QED BY <3>1
  <2>2. CASE ~Restart
    <3>1. used'["restart"] = used["restart"]
      BY <1>2, <2>2, RestartsCounted
    <3>2. \A i \in Ids : InHand(i) => InHand(i)'
      BY <1>2, <2>2, NextHandsOn DEF HandsOn
    <3> QED BY <1>2, <3>1, <3>2
  <2> QED BY <2>1, <2>2
<1>3. AllInHand => NothingStranded
  BY StrandedIs DEF NothingStranded
<1>4. TypeInv /\ TypeInv' /\ FrameInv /\ SendsAtOnce /\ StrandInv /\ [Next]_vars /\ AllInHand
      => AllInHand'
  BY <1>2
<1> HIDE DEF AllInHand
<1> QED BY <1>1, <1>3, <1>4, HandsInvariance, FrameInvariance, RecordInvariance, PTL DEF Spec

\* OnlyCrashesStrand: where flows send at once, only a crash leaves a record
\* lying for good, and only one that catches a request between two writes that
\* belong together, or a worker whose job has no tries left; a worker that dies
\* with tries left gets its job again and takes the record up, however far it
\* was (dispatchOne, scheduleRetry, handleRetry, CallTriggerWorker, pg-boss).
THEOREM StrandedByCrash == Spec /\ []SendsAtOnce => OnlyCrashesStrand
<1> DEFINE Step == \A i \in Ids : ~Abandoned(i) /\ Abandoned(i)' =>
                     /\ used'["restart"] # used["restart"]
                     /\ \E s \in Slots : Rec(s) = i /\ CannotResume(s)
<1>1. ASSUME TypeInv, TypeInv', FrameInv, SendsAtOnce, StrandInv, [Next]_vars
      PROVE  Step
  <2> SUFFICES ASSUME NEW i \in Ids, ~Abandoned(i), Abandoned(i)'
               PROVE  /\ used'["restart"] # used["restart"]
                      /\ \E s \in Slots : Rec(s) = i /\ CannotResume(s)
    OBVIOUS
  <2>1. \A k \in Ids : Abandoned(k) <=> ~Resumed(k)
    BY StrandedIs
  <2>2. (\A k \in Ids : Abandoned(k) <=> ~Resumed(k))'
    BY StrandedIs DEF Abandoned, Resumed, Stranded, InHand, ComesUp, Coming, Handling, Enqueueing
  <2>3. Resumed(i) /\ ~Resumed(i)'
    BY <2>1, <2>2
  <2>4. Restart
    BY <1>1, <2>3, NextHandsOn DEF HandsOn, Resumed
  <2>5. used'["restart"] = used["restart"] + 1 /\ used["restart"] \in Nat
    BY <1>1, <2>4, BoundsAssumption DEF Restart, Spend, TypeInv, TypeOK
  <2> QED BY <1>1, <2>3, <2>4, <2>5, CrashInHand
<1>2. TypeInv /\ TypeInv' /\ FrameInv /\ SendsAtOnce /\ StrandInv /\ [Next]_vars => [Step]_vars
  BY <1>1
<1> QED BY <1>2, HandsInvariance, FrameInvariance, RecordInvariance, PTL DEF Spec, OnlyCrashesStrand

----------------------------------------------------------------------------
(* Texts and what they were granted for.                                   *)

\* No flow's schedule is set or cleared, whatever else of its settings changes.
HasSchedule(f) == config[f] # Null /\ config[f].enabled /\ config[f].sendSchedule
Undisturbed ==
  /\ UNCHANGED cron
  /\ \A f \in Flows : HasSchedule(f)' <=> HasSchedule(f)

\* Who is going to text record i: a handler about to, the batch that has it on
\* its list, the batch to come.
Listed(w, i) == \E x \in frame[w].list : x.id = i
Waits(w, i)  == /\ w \in cron /\ runs[i].status = "Received" /\ runs[i].key.flow = w
                /\ ~(frame[w].id = i /\ frame[w].pc \in {"presms", "fail"})
ToText(s, i) == \/ frame[s].id = i /\ frame[s].pc \in {"sms", "retry.config"}
                \/ frame[s].id = i /\ frame[s].pc = "bump.enqueue" /\ Live(i)
                \/ s \in Flows /\ (Listed(s, i) \/ Waits(s, i))
Texting(i)   == {s \in Slots : ToText(s, i)}
Owed(i)      == (IF Live(i) THEN JobTokens("retry", i) ELSE {})
                \cup {<<"slot", s, 0>> : s \in Texting(i)}

\* A crash may cost a record two texts: one of the retry worker, one of the batch.
Forgiven       == 2 * used["restart"]
Granted(i)     == accepted[i] + tally[i].retried + tally[i].resent + Forgiven
WithinGrant(i) == /\ IsFiniteSet(Owed(i))
                  /\ Cardinality(Owed(i)) + tally[i].sent <= Granted(i) + Doubled(i)

\* What resends on flows with a schedule are granted on top only grows.
DoublesStay == \A k \in Ids : /\ Doubled(k) \in Nat /\ Doubled(k)' \in Nat
                              /\ Doubled(k)' >= Doubled(k)

\* A batch holds each record once, and runs only where there is a schedule.
CronFits == cron = {f \in Flows : HasSchedule(f)}
ListFits(f) == /\ \A x, y \in f.list : x.id = y.id => x = y
               /\ f.pc = "sms" => \A x \in f.list : x.id # f.id
BatchInv == \A w \in Flows :
  /\ ListFits(frame[w])
  /\ w \notin cron => frame[w].pc = "idle" /\ \A j \in Jobs : j.on = w => queue[j] = 0

\* A delivery writes the record it has read, by settings that still hold.
DeliveryFits(f) ==
  /\ f.pc \in {"ing.config", "ing.write"} /\ f.id # 0 =>
       /\ f.id \in Ids /\ runs[f.id].status # "none"
       /\ Exists(f.id) => runs[f.id].key = f.key
  /\ f.pc = "ing.write" /\ f.key.flow \in cron => f.conf.sendSchedule
DeliveryInv == \A s \in Slots : DeliveryFits(frame[s])

RetryKnown == frame["retry"].pc # "idle" => Rec("retry") \in Ids /\ runs[Rec("retry")].status # "none"

SmsInv == /\ CronFits /\ BatchInv /\ DeliveryInv /\ RetryKnown
          /\ \A i \in Ids : WithinGrant(i)

----------------------------------------------------------------------------
LEMMA ForgivenType ==
  ASSUME TypeInv
  PROVE  /\ Forgiven \in Nat
         /\ used'["restart"] = used["restart"] => UNCHANGED Forgiven
         /\ used'["restart"] = used["restart"] + 1 => Forgiven' = Forgiven + 2
<1>1. used["restart"] \in Nat
  BY UsedType DEF RestartsType
<1> QED BY <1>1 DEF Forgiven

LEMMA GrantType ==
  ASSUME TypeInv, NEW i \in Ids
  PROVE  /\ Granted(i) \in Nat /\ tally[i].sent \in Nat /\ accepted[i] \in Nat
         /\ tally[i].retried \in Nat /\ tally[i].resent \in Nat
<1>1. accepted[i] \in Nat /\ tally[i] \in Tally
  BY DEF TypeInv, TypeOK
<1> QED BY <1>1, ForgivenType DEF Granted, Tally

LEMMA GrantTypeNext ==
  ASSUME TypeInv', NEW i \in Ids
  PROVE  Granted(i)' \in Nat /\ tally'[i].sent \in Nat
<1>1. accepted'[i] \in Nat /\ tally'[i] \in Tally
  BY DEF TypeInv, TypeOK
<1>2. Forgiven' \in Nat
  <2>1. used'["restart"] \in Nat
    BY BoundsAssumption DEF TypeInv, TypeOK
  <2> QED BY <2>1 DEF Forgiven
<1> QED BY <1>1, <1>2 DEF Granted, Tally

\* Five ways to stay within what was granted.
LEMMA StillWithin ==
  ASSUME TypeInv, TypeInv', DoublesStay, NEW i \in Ids, WithinGrant(i), Owed(i)' \subseteq Owed(i),
         tally'[i].sent <= tally[i].sent, Granted(i)' >= Granted(i)
  PROVE  WithinGrant(i)'
<1>1. /\ IsFiniteSet(Owed(i)') /\ Cardinality(Owed(i)') \in Nat
      /\ Cardinality(Owed(i)) \in Nat /\ Cardinality(Owed(i)') <= Cardinality(Owed(i))
  BY NoMore DEF WithinGrant
<1>2. Granted(i) \in Nat /\ Granted(i)' \in Nat /\ tally[i].sent \in Nat /\ tally'[i].sent \in Nat
  BY GrantType, GrantTypeNext
<1>3. Doubled(i) \in Nat /\ Doubled(i)' \in Nat /\ Doubled(i)' >= Doubled(i)
  BY DEF DoublesStay
<1> QED BY <1>1, <1>2, <1>3 DEF WithinGrant

LEMMA GrantedAgain ==
  ASSUME TypeInv, TypeInv', DoublesStay, NEW i \in Ids, WithinGrant(i), NEW y,
         Owed(i)' \subseteq Owed(i) \cup {y},
         tally'[i].sent = tally[i].sent, Granted(i)' = Granted(i) + 1
  PROVE  WithinGrant(i)'
<1>1. /\ IsFiniteSet(Owed(i)') /\ Cardinality(Owed(i)') \in Nat
      /\ Cardinality(Owed(i)) \in Nat /\ Cardinality(Owed(i)') <= Cardinality(Owed(i)) + 1
  BY OneMore DEF WithinGrant
<1>2. Granted(i) \in Nat /\ tally[i].sent \in Nat
  BY GrantType
<1>3. Doubled(i) \in Nat /\ Doubled(i)' \in Nat /\ Doubled(i)' >= Doubled(i)
  BY DEF DoublesStay
<1> QED BY <1>1, <1>2, <1>3 DEF WithinGrant

LEMMA GrantedTwice ==
  ASSUME TypeInv, TypeInv', DoublesStay, NEW i \in Ids, WithinGrant(i), NEW y, NEW z,
         \A x \in Owed(i)' : x \in Owed(i) \/ x = y \/ x = z,
         tally'[i].sent = tally[i].sent,
         Granted(i)' + Doubled(i)' >= Granted(i) + Doubled(i) + 2
  PROVE  WithinGrant(i)'
<1>1. PICK A, B, C : A = Owed(i) /\ B = A \cup {y} /\ C = Owed(i)'
  OBVIOUS
<1>2. /\ IsFiniteSet(A) /\ Cardinality(A) \in Nat
      /\ Cardinality(A) + tally[i].sent <= Granted(i) + Doubled(i)
  BY <1>1, FS_CardinalityType DEF WithinGrant
<1>3. IsFiniteSet(B) /\ Cardinality(B) \in Nat /\ Cardinality(B) <= Cardinality(A) + 1
  BY <1>1, <1>2, OneMore
<1>4. C \subseteq B \cup {z}
  BY <1>1
<1>5. IsFiniteSet(C) /\ Cardinality(C) \in Nat /\ Cardinality(C) <= Cardinality(B) + 1
  BY <1>3, <1>4, OneMore
<1>6. /\ Granted(i) \in Nat /\ Granted(i)' \in Nat /\ tally[i].sent \in Nat
      /\ Doubled(i) \in Nat /\ Doubled(i)' \in Nat
  BY GrantType, GrantTypeNext DEF DoublesStay
<1>7. IsFiniteSet(C) /\ Cardinality(C) + tally'[i].sent <= Granted(i)' + Doubled(i)'
  BY <1>2, <1>3, <1>5, <1>6
<1> QED BY <1>1, <1>7 DEF WithinGrant

LEMMA OwedPassesOn ==
  ASSUME TypeInv, TypeInv', DoublesStay, NEW i \in Ids, WithinGrant(i), NEW x \in Owed(i), NEW y,
         Owed(i)' \subseteq (Owed(i) \ {x}) \cup {y},
         tally'[i].sent = tally[i].sent, Granted(i)' = Granted(i)
  PROVE  WithinGrant(i)'
<1>1. /\ IsFiniteSet(Owed(i)') /\ Cardinality(Owed(i)') \in Nat
      /\ Cardinality(Owed(i)) \in Nat /\ Cardinality(Owed(i)') <= Cardinality(Owed(i))
  <2>1. PICK A, B, D : A = Owed(i) /\ B = Owed(i)' /\ D = A \ {x}
    OBVIOUS
  <2>2. IsFiniteSet(A) /\ x \in A /\ D = A \ {x} /\ B \subseteq D \cup {y}
    BY <2>1 DEF WithinGrant
  <2>3. /\ IsFiniteSet(B) /\ Cardinality(B) \in Nat
        /\ Cardinality(A) \in Nat /\ Cardinality(B) <= Cardinality(A)
    BY <2>2, OneForOne
  <2> QED BY <2>1, <2>3
<1>2. Granted(i) \in Nat /\ tally[i].sent \in Nat
  BY GrantType
<1>3. Doubled(i) \in Nat /\ Doubled(i)' \in Nat /\ Doubled(i)' >= Doubled(i)
  BY DEF DoublesStay
<1> QED BY <1>1, <1>2, <1>3 DEF WithinGrant

LEMMA OwedPaid ==
  ASSUME TypeInv, TypeInv', DoublesStay, NEW i \in Ids, WithinGrant(i), NEW x \in Owed(i),
         Owed(i)' \subseteq Owed(i) \ {x},
         tally'[i].sent <= tally[i].sent + 1, Granted(i)' = Granted(i)
  PROVE  WithinGrant(i)'
<1>1. /\ IsFiniteSet(Owed(i) \ {x}) /\ Cardinality(Owed(i) \ {x}) = Cardinality(Owed(i)) - 1
      /\ Cardinality(Owed(i)) \in Nat
  BY FS_RemoveElement, FS_CardinalityType DEF WithinGrant
<1>2. /\ IsFiniteSet(Owed(i)') /\ Cardinality(Owed(i)') \in Nat
      /\ Cardinality(Owed(i)') <= Cardinality(Owed(i) \ {x})
  BY <1>1, NoMore
<1>3. Granted(i) \in Nat /\ tally[i].sent \in Nat /\ tally'[i].sent \in Nat
  BY GrantType, GrantTypeNext
<1>4. Doubled(i) \in Nat /\ Doubled(i)' \in Nat /\ Doubled(i)' >= Doubled(i)
  BY DEF DoublesStay
<1> QED BY <1>1, <1>2, <1>3, <1>4 DEF WithinGrant

LEMMA OwedMember ==
  ASSUME NEW i, NEW x
  PROVE  /\ x \in Owed(i) <=> \/ Live(i) /\ x \in JobTokens("retry", i)
                              \/ \E s \in Texting(i) : x = <<"slot", s, 0>>
         /\ x \in Owed(i)' <=> \/ Live(i)' /\ x \in JobTokens("retry", i)'
                               \/ \E s \in Texting(i)' : x = <<"slot", s, 0>>
BY DEF Owed

LEMMA OwedLess ==
  ASSUME NEW i, Live(i)' => Live(i) /\ JobTokens("retry", i)' \subseteq JobTokens("retry", i),
         Texting(i)' \subseteq Texting(i)
  PROVE  Owed(i)' \subseteq Owed(i)
BY OwedMember

\* A handler is done with what it owed, and may leave a job behind.
LEMMA TextPassesOn ==
  ASSUME NEW i, NEW s, s \in Texting(i), Texting(i)' \subseteq Texting(i) \ {s}, NEW B,
         Live(i)' => Live(i) /\ JobTokens("retry", i)' \subseteq JobTokens("retry", i) \cup B
  PROVE  /\ <<"slot", s, 0>> \in Owed(i)
         /\ Owed(i)' \subseteq (Owed(i) \ {<<"slot", s, 0>>}) \cup B
<1>1. <<"slot", s, 0>> \in Owed(i)
  BY OwedMember
<1>2. ASSUME NEW x \in Owed(i)', x \notin B
      PROVE  x \in Owed(i) /\ x # <<"slot", s, 0>>
  <2>1. CASE Live(i)' /\ x \in JobTokens("retry", i)'
    <3>1. x \in JobTokens("retry", i)
      BY <1>2, <2>1
    <3> QED BY <2>1, <3>1, OwedMember, TokensApart
  <2>2. CASE \E t \in Texting(i)' : x = <<"slot", t, 0>>
    <3>1. PICK t \in Texting(i)' : x = <<"slot", t, 0>>
      BY <2>2
    <3>2. t \in Texting(i) /\ t # s
      BY <3>1
    <3> QED BY <3>1, <3>2, OwedMember
  <2> QED BY <1>2, <2>1, <2>2, OwedMember
<1> QED BY <1>1, <1>2

\* The retry worker takes a job over.
LEMMA RetryPassesOn ==
  ASSUME NEW i, NEW s, NEW y, Live(i), y \in JobTokens("retry", i),
         JobTokens("retry", i)' \subseteq JobTokens("retry", i) \ {y},
         Texting(i)' \subseteq Texting(i) \cup {s}
  PROVE  /\ y \in Owed(i)
         /\ Owed(i)' \subseteq (Owed(i) \ {y}) \cup {<<"slot", s, 0>>}
<1>1. y \in Owed(i)
  BY OwedMember
<1>2. ASSUME NEW x \in Owed(i)', x # <<"slot", s, 0>>
      PROVE  x \in Owed(i) /\ x # y
  <2>1. CASE Live(i)' /\ x \in JobTokens("retry", i)'
    BY <2>1, OwedMember
  <2>2. CASE \E t \in Texting(i)' : x = <<"slot", t, 0>>
    <3>1. PICK t \in Texting(i)' : x = <<"slot", t, 0>>
      BY <2>2
    <3>2. t \in Texting(i)
      BY <1>2, <3>1
    <3> QED BY <3>1, <3>2, OwedMember, TokensApart
  <2> QED BY <1>2, <2>1, <2>2, OwedMember
<1> QED BY <1>1, <1>2

\* One more who owes.
LEMMA OwedMore ==
  ASSUME NEW i, NEW s, Texting(i)' \subseteq Texting(i) \cup {s},
         Live(i)' => Live(i) /\ JobTokens("retry", i)' \subseteq JobTokens("retry", i)
  PROVE  Owed(i)' \subseteq Owed(i) \cup {<<"slot", s, 0>>}
BY OwedMember

LEMMA CountsOne ==
  ASSUME TypeInv, NEW i, NEW what \in {"sent", "retried", "resent"}, Count(i, what)
  PROVE  \A j \in Ids :
           /\ tally'[j].sent = tally[j].sent + (IF j = i /\ what = "sent" THEN 1 ELSE 0)
           /\ tally'[j].retried = tally[j].retried + (IF j = i /\ what = "retried" THEN 1 ELSE 0)
           /\ tally'[j].resent = tally[j].resent + (IF j = i /\ what = "resent" THEN 1 ELSE 0)
<1>1. tally' = [tally EXCEPT ![i] = [tally[i] EXCEPT ![what] = @ + 1]]
  BY DEF Count
<1>2. SUFFICES ASSUME NEW j \in Ids
      PROVE  /\ tally'[j].sent = tally[j].sent + (IF j = i /\ what = "sent" THEN 1 ELSE 0)
             /\ tally'[j].retried = tally[j].retried + (IF j = i /\ what = "retried" THEN 1 ELSE 0)
             /\ tally'[j].resent = tally[j].resent + (IF j = i /\ what = "resent" THEN 1 ELSE 0)
  OBVIOUS
<1>3. tally \in [Ids -> Tally] /\ tally[j] \in Tally
  BY DEF TypeInv, TypeOK
<1>4. tally[j].sent \in Nat /\ tally[j].retried \in Nat /\ tally[j].resent \in Nat
  BY <1>3 DEF Tally
<1>5. CASE j # i
  BY <1>1, <1>3, <1>4, <1>5
<1>6. CASE j = i
  <2>1. tally'[j] = [tally[j] EXCEPT ![what] = @ + 1]
    BY <1>1, <1>3, <1>6
  <2> QED BY <1>3, <1>4, <1>6, <2>1 DEF Tally
<1> QED BY <1>5, <1>6

\* Which handlers grant, and how much.
LEMMA HandlersGrant ==
  ASSUME TypeInv, NEW s \in Slots, HandlerStep(s), NEW i \in Ids
  PROVE  \/ Granted(i)' = Granted(i)
         \/ BumpAttempt(s) \/ ResendNow(s) \/ WriteRecord(s)
<1>0. UNCHANGED Forgiven
  BY HandlersSpare, ForgivenType
<1>1. ASSUME UNCHANGED <<tally, accepted>>
      PROVE  Granted(i)' = Granted(i)
  BY <1>0, <1>1 DEF Granted
<1>2. CASE DispatchStep(s)
  <2>1. ASSUME SendPreliminarySms(s)
        PROVE  Granted(i)' = Granted(i)
    <3>1. UNCHANGED accepted
      BY <2>1 DEF SendPreliminarySms
    <3>2. tally[i].retried \in Nat /\ tally[i].resent \in Nat
      BY DEF TypeInv, TypeOK, Tally
    <3>3. ASSUME Count(Rec(s), "sent")
          PROVE  tally'[i].retried = tally[i].retried /\ tally'[i].resent = tally[i].resent
      BY <3>2, <3>3, CountsOne
    <3> QED BY <1>0, <2>1, <3>1, <3>3 DEF SendPreliminarySms, Granted
  <2> QED BY <1>1, <1>2, <2>1 DEF DispatchStep, RecordPreSmsSent, RecordFailed,
       EnqueueTrigger, RecordScheduled, SkipCtaCompleted, EnqueueRetry, ReadRetryConfig, SyncSchedule,
       seen
<1>3. CASE TriggerStep(s)
  BY <1>1, <1>3 DEF TriggerStep, ReadTriggerConfig, MakeCall, RecordCall, seen
<1>4. CASE IngestStep(s)
  BY <1>1, <1>4 DEF IngestStep, ReadIngestConfig, WriteCta, seen
<1>5. CASE WebhookStep(s)
  BY <1>1, <1>5 DEF WebhookStep, ReadConsentConfig, SendConsentSms, RecordConsent, FindPendingCall,
     RecordCallEnd, DecideRetry, RecordCompleted, seen
<1>6. CASE AdminStep(s)
  BY <1>1, <1>6 DEF AdminStep, ReadResendConfig, DeleteRecord, WriteConfig, seen
<1> QED BY <1>2, <1>3, <1>4, <1>5, <1>6 DEF HandlerStep

\* A record keeps its identity as long as it exists.
LEMMA KeysKept ==
  ASSUME TypeInv, TypeInv', [Table!Next]_(Table!vars), NEW i \in Ids,
         runs[i].status # "none", Exists(i)'
  PROVE  runs'[i].key = runs[i].key
<1>1. runs \in [Ids -> Row]
  BY DEF TypeInv, TypeOK
<1>2. CASE UNCHANGED Table!vars
  BY <1>2 DEF Table!vars
<1>3. CASE \E j \in Ids : \/ \E k \in Keys, r \in Requests : Table!Create(j, k, r)
                          \/ Table!Delete(j)
  <2>1. PICK j \in Ids : \/ \E k \in Keys, r \in Requests : Table!Create(j, k, r)
                         \/ Table!Delete(j)
    BY <1>3
  <2>2. CASE \E k \in Keys, r \in Requests : Table!Create(j, k, r)
    BY <1>1, <2>2 DEF Table!Create
  <2>3. CASE Table!Delete(j)
    <3>1. runs' = [runs EXCEPT ![j] = Deleted] /\ Deleted.status = "deleted"
      BY <2>3, SameWords DEF Table!Delete, Deleted, NoRow
    <3>2. i # j
      BY <1>1, <3>1 DEF Exists, FlowRunStatus
    <3> QED BY <1>1, <3>1, <3>2
  <2> QED BY <2>1, <2>2, <2>3
<1>4. CASE \E j \in Ids : \/ \E r \in Requests : Table!Accept(j, r)
                          \/ \E st \in FlowRunStatus : Table!Transition(j, st)
                          \/ Table!Retry(j) \/ Table!Resend(j)
                          \/ \E done \in BOOLEAN : Table!MarkCta(j, done)
  <2>1. PICK j \in Ids : \/ \E r \in Requests : Table!Accept(j, r)
                         \/ \E st \in FlowRunStatus : Table!Transition(j, st)
                         \/ Table!Retry(j) \/ Table!Resend(j)
                         \/ \E done \in BOOLEAN : Table!MarkCta(j, done)
    BY <1>4
  <2>2. runs[j] \in Row
    BY <1>1
  <2>3. CASE \E r \in Requests : Table!Accept(j, r)
    BY <1>1, <2>2, <2>3 DEF Table!Accept, Row
  <2>4. CASE \E st \in FlowRunStatus : Table!Transition(j, st)
    BY <1>1, <2>2, <2>4 DEF Table!Transition, Row
  <2>5. CASE Table!Retry(j) \/ Table!Resend(j)
    BY <1>1, <2>2, <2>5 DEF Table!Retry, Table!Resend, Row
  <2>6. CASE \E done \in BOOLEAN : Table!MarkCta(j, done)
    BY <1>1, <2>2, <2>6 DEF Table!MarkCta, Row
  <2> QED BY <2>1, <2>3, <2>4, <2>5, <2>6
<1>5. CASE \E j \in Ids : \/ Table!Place(j)
                          \/ \E n \in DOMAIN Placed : Table!RecordEnd(j, n)
  BY <1>5 DEF Table!Place, Table!RecordEnd
<1>6. CASE \E j \in Ids, n \in DOMAIN Placed : Table!RecordCall(j, n)
  <2>1. PICK j \in Ids, n \in DOMAIN Placed : Table!RecordCall(j, n)
    BY <1>6
  <2>2. runs[j] \in Row
    BY <1>1
  <2> QED BY <1>1, <2>1, <2>2 DEF Table!RecordCall, Row
<1> QED BY <1>2, <1>3, <1>4, <1>5, <1>6, SameWords DEF Table!Next, Placed

\* Nothing but a delivery and a resend leads to Received.
LEMMA StatusElsewhere ==
  ASSUME TypeInv, NEW k \in Ids, NEW st, SetStatus(k, st), st # "Received",
         NEW i \in Ids, runs'[i].status = "Received"
  PROVE  i # k /\ runs'[i] = runs[i]
<1>1. runs \in [Ids -> Row] /\ runs[k] \in Row
  BY DEF TypeInv, TypeOK
<1> QED BY <1>1 DEF SetStatus, Row

StillReceived(s, i) == /\ runs[i].status = "Received" /\ runs'[i].key = runs[i].key
                       /\ Rec(s) = i => frame[s].pc \notin {"presms", "fail"}

LEMMA DispatchReceives ==
  ASSUME TypeInv, NEW s \in Slots, DispatchStep(s), NEW i \in Ids, runs'[i].status = "Received"
  PROVE  StillReceived(s, i)
<1>1. ASSUME UNCHANGED runs, frame[s].pc \notin {"presms", "fail"} \/ ~Exists(Rec(s))
      PROVE  StillReceived(s, i)
  BY <1>1 DEF StillReceived, Exists, FlowRunStatus
<1>2. ASSUME NEW st, Exists(Rec(s)), SetStatus(Rec(s), st), st # "Received"
      PROVE  StillReceived(s, i)
  BY <1>2, StatusElsewhere DEF StillReceived, Exists
<1>3. CASE SendPreliminarySms(s)
  BY <1>1, <1>3 DEF SendPreliminarySms, db, At
<1>4. CASE RecordPreSmsSent(s)
  BY <1>1, <1>2, <1>4 DEF RecordPreSmsSent
<1>5. CASE RecordFailed(s) \/ RecordScheduled(s) \/ SkipCtaCompleted(s)
  BY <1>1, <1>2, <1>5 DEF RecordFailed, RecordScheduled, SkipCtaCompleted
<1>6. CASE EnqueueTrigger(s) \/ EnqueueRetry(s) \/ ReadRetryConfig(s) \/ SyncSchedule(s)
  BY <1>1, <1>6 DEF EnqueueTrigger, EnqueueRetry, ReadRetryConfig, SyncSchedule, db, At
<1>7. CASE BumpAttempt(s)
  <2>1. CASE Exists(Rec(s)) /\ runs' = [runs EXCEPT ![Rec(s)].attempt = @ + 1, ![Rec(s)].status = "Scheduled"]
    <3>1. runs \in [Ids -> Row] /\ Rec(s) \in Ids /\ runs[Rec(s)] \in Row
      BY <2>1 DEF TypeInv, TypeOK, Exists
    <3>2. i # Rec(s) /\ runs'[i] = runs[i]
      BY <2>1, <3>1 DEF Row
    <3> QED BY <3>2 DEF StillReceived
  <2> QED BY <1>1, <1>7, <2>1 DEF BumpAttempt
<1> QED BY <1>3, <1>4, <1>5, <1>6, <1>7 DEF DispatchStep

LEMMA HandlerReceives ==
  ASSUME TypeInv, NEW s \in Slots, HandlerStep(s), ~WriteRecord(s), ~ResendNow(s), NEW i \in Ids,
         runs'[i].status = "Received"
  PROVE  StillReceived(s, i)
<1>1. ASSUME UNCHANGED runs, frame[s].pc \notin {"presms", "fail"}
      PROVE  StillReceived(s, i)
  BY <1>1 DEF StillReceived
<1>2. ASSUME NEW st, Exists(Rec(s)), SetStatus(Rec(s), st), st # "Received"
      PROVE  StillReceived(s, i)
  BY <1>2, StatusElsewhere DEF StillReceived, Exists
<1>3. CASE TriggerStep(s)
  BY <1>1, <1>2, <1>3 DEF TriggerStep, ReadTriggerConfig, MakeCall, RecordCall, db, At
<1>4. CASE IngestStep(s)
  <2>1. CASE WriteCta(s)
    <3>1. runs \in [Ids -> Row] /\ frame[s].pc \notin {"presms", "fail"}
      BY <2>1 DEF TypeInv, TypeOK, WriteCta, At
    <3>2. CASE Exists(Rec(s)) /\ runs' = [runs EXCEPT ![Rec(s)].cta = frame[s].cta]
      <4>1. Rec(s) \in Ids /\ runs[Rec(s)] \in Row
        BY <3>1, <3>2 DEF Exists
      <4>2. runs'[i].status = runs[i].status /\ runs'[i].key = runs[i].key
        BY <3>1, <3>2, <4>1 DEF Row
      <4> QED BY <3>1, <4>2 DEF StillReceived
    <3> QED BY <1>1, <2>1, <3>1, <3>2 DEF WriteCta
  <2> QED BY <1>1, <1>4, <2>1 DEF IngestStep, ReadIngestConfig, db, At
<1>5. CASE WebhookStep(s)
  BY <1>1, <1>2, <1>5 DEF WebhookStep, ReadConsentConfig, SendConsentSms, RecordConsent,
     FindPendingCall, RecordCallEnd, DecideRetry, RecordCompleted, db, At
<1>6. CASE AdminStep(s)
  <2>1. CASE DeleteRecord(s)
    <3>1. runs \in [Ids -> Row] /\ frame[s].pc \notin {"presms", "fail"}
      BY <2>1 DEF TypeInv, TypeOK, DeleteRecord, At
    <3>2. CASE Exists(Rec(s)) /\ runs' = [runs EXCEPT ![Rec(s)] = Deleted]
      <4>1. runs'[i] = runs[i]
        BY <3>1, <3>2 DEF Deleted, NoRow, Exists
      <4> QED BY <3>1, <4>1 DEF StillReceived
    <3> QED BY <1>1, <2>1, <3>1, <3>2 DEF DeleteRecord
  <2> QED BY <1>1, <1>6, <2>1 DEF AdminStep, ReadResendConfig, WriteConfig, db, At
<1> QED BY <1>3, <1>4, <1>5, <1>6, DispatchReceives DEF HandlerStep

----------------------------------------------------------------------------
(* Who is going to text, after a step.                                     *)

LEMMA WaitsLess ==
  ASSUME NEW s \in Slots, Only(s), NEW w \in Slots, NEW i, UNCHANGED cron, Waits(w, i)', StillReceived(s, i)
  PROVE  Waits(w, i)
<1>1. /\ w \in cron /\ runs[i].status = "Received" /\ runs[i].key.flow = w
      /\ ~(frame'[w].id = i /\ frame'[w].pc \in {"presms", "fail"})
  BY DEF Waits, StillReceived
<1>2. CASE w = s
  BY <1>1, <1>2 DEF Waits, StillReceived, Rec
<1>3. CASE w # s
  <2>1. frame'[w] = frame[w]
    BY <1>3 DEF Only
  <2> QED BY <1>1, <2>1 DEF Waits
<1> QED BY <1>2, <1>3

\* The others are as they were.
LEMMA OthersText ==
  ASSUME NEW s \in Slots, Only(s), NEW t \in Slots, t # s, NEW i, Live(i)' => Live(i), ToText(t, i)'
  PROVE  ToText(t, i) \/ (t \in Flows /\ Waits(t, i)')
<1>1. frame'[t] = frame[t]
  BY DEF Only
<1>2. \/ frame'[t].id = i /\ frame'[t].pc \in {"sms", "retry.config"}
      \/ frame'[t].id = i /\ frame'[t].pc = "bump.enqueue" /\ Live(i)'
      \/ t \in Flows /\ (\E x \in frame'[t].list : x.id = i)
      \/ t \in Flows /\ Waits(t, i)'
  BY DEF ToText, Listed
<1> QED BY <1>1, <1>2 DEF ToText, Listed

\* Steps by their awaits.
LEMMA StepsByPc ==
  ASSUME NEW s, HandlerStep(s)
  PROVE  /\ frame[s].pc = "bump" => BumpAttempt(s)
         /\ frame[s].pc = "bump.enqueue" => EnqueueRetry(s)
         /\ frame[s].pc = "ing.write" => WriteRecord(s)
         /\ frame[s].pc = "resend.bump" => ResendNow(s)
<1> USE DEF At
<1>1. DispatchStep(s) => /\ frame[s].pc = "bump" => BumpAttempt(s)
                         /\ frame[s].pc = "bump.enqueue" => EnqueueRetry(s)
                         /\ frame[s].pc \notin {"ing.write", "resend.bump"}
  BY DEF DispatchStep, SendPreliminarySms, RecordPreSmsSent, RecordFailed, EnqueueTrigger,
     RecordScheduled, SkipCtaCompleted, BumpAttempt, EnqueueRetry, ReadRetryConfig, SyncSchedule
<1>2. TriggerStep(s) => frame[s].pc \in {"trig.config", "trig.call", "trig.record"}
  BY DEF TriggerStep, ReadTriggerConfig, MakeCall, RecordCall
<1>3. IngestStep(s) => /\ frame[s].pc = "ing.write" => WriteRecord(s)
                       /\ frame[s].pc \in {"ing.config", "ing.write", "cta.write"}
  BY DEF IngestStep, ReadIngestConfig, WriteRecord, WriteCta
<1>4. WebhookStep(s) => frame[s].pc \in {"con.config", "con.sms", "con.write", "end.get", "end.row",
                                         "end.config", "end.done"}
  BY DEF WebhookStep, ReadConsentConfig, SendConsentSms, RecordConsent, FindPendingCall,
     RecordCallEnd, DecideRetry, RecordCompleted
<1>5. AdminStep(s) => /\ frame[s].pc = "resend.bump" => ResendNow(s)
                      /\ frame[s].pc \in {"resend.config", "resend.bump", "delete", "conf.write",
                                          "conf.delete"}
  BY DEF AdminStep, ReadResendConfig, ResendNow, DeleteRecord, WriteConfig
<1> QED BY <1>1, <1>2, <1>3, <1>4, <1>5 DEF HandlerStep

\* A handler that walks on texts no record it was not going to text.
LEMMA ToTextWalks ==
  ASSUME NEW s \in Slots, FrameFits(s, frame[s]), Walks(s), NEW i,
         frame[s].pc \notin {"bump", "resend.bump", "ing.write"},
         Live(i)' => Live(i), s \in Flows /\ Waits(s, i)' => Waits(s, i), ToText(s, i)'
  PROVE  ToText(s, i)
<1> DEFINE P == {"sms", "retry.config"}
<1>1. CASE s \in Flows /\ Waits(s, i)'
  BY <1>1 DEF ToText
<1>2. CASE /\ ~(s \in Flows /\ Waits(s, i)')
           /\ \/ Stops(s)
              \/ frame[s].pc \in Ends /\ GoesBack(s)
  <2>1. CASE Stops(s)
    <3>1. frame'[s].pc = "idle" /\ frame'[s].list = {}
      BY <2>1 DEF Stops, Idle
    <3> QED BY <1>2, <3>1 DEF ToText, Listed
  <2>2. CASE GoesOn(s, "batch.next")
    <3>1. frame'[s].pc = "batch.next" /\ frame'[s].list = frame[s].list
      BY <2>2 DEF GoesOn, Kept
    <3> QED BY <1>2, <3>1 DEF ToText, Listed
  <2> QED BY <1>2, <2>1, <2>2 DEF GoesBack
<1>3. ASSUME NEW e \in Edges, frame[s].pc = e[1], GoesOn(s, e[2]), ~(s \in Flows /\ Waits(s, i)')
      PROVE  ToText(s, i)
  <2>1. e[2] \notin {"sms", "retry.config", "bump.enqueue"}
    BY <1>3 DEF Edges
  <2>2. frame'[s].pc = e[2] /\ frame'[s].list = frame[s].list
    BY <1>3 DEF GoesOn, Kept
  <2> QED BY <1>3, <2>1, <2>2 DEF ToText, Listed
<1>4. ASSUME NEW e \in ReadEdges, NEW c, frame[s].pc = e[1], Reads(s, c, e[2]),
             ~(s \in Flows /\ Waits(s, i)')
      PROVE  ToText(s, i)
  <2>1. e[2] \in {"sms", "retry.config", "bump.enqueue"} => e[1] = "retry.config"
    BY DEF ReadEdges
  <2>2. frame'[s].pc = e[2] /\ frame'[s].list = frame[s].list /\ frame'[s].id = frame[s].id
    BY <1>4 DEF Reads, Kept
  <2> QED BY <1>4, <2>1, <2>2 DEF ToText, Listed
<1> QED BY <1>1, <1>2, <1>3, <1>4 DEF Walks

LEMMA TextingLess ==
  ASSUME TypeInv, TypeInv', FrameInv, Grows, NEW s \in Slots, HandlerStep(s), UNCHANGED cron,
         ~BumpAttempt(s), ~WriteRecord(s), ~ResendNow(s), NEW i \in Ids
  PROVE  Texting(i)' \subseteq Texting(i)
<1>1. Walks(s) /\ Only(s) /\ FrameFits(s, frame[s]) /\ (Live(i)' => Live(i))
  BY HandlerWalks, LiveStays DEF Walks, FrameInv
<1>2. \A w \in Slots : Waits(w, i)' => Waits(w, i)
  BY <1>1, HandlerReceives, WaitsLess DEF Waits
<1>3. frame[s].pc \notin {"bump", "resend.bump", "ing.write"}
  BY StepsByPc
<1>4. ASSUME NEW t \in Slots, ToText(t, i)'
      PROVE  ToText(t, i)
  <2>1. CASE t = s
    BY <1>1, <1>2, <1>3, <1>4, <2>1, ToTextWalks
  <2>2. CASE t # s
    BY <1>1, <1>2, <1>4, <2>2, OthersText DEF ToText
  <2> QED BY <2>1, <2>2
<1> QED BY <1>4 DEF Texting

\* The jobs of a record that is there: no handler but EnqueueRetry adds one.
LEMMA RetryTokensQuiet ==
  ASSUME TypeInv, TypeInv', FrameInv, RetryKnown, NEW s \in Slots, HandlerStep(s),
         NEW i \in Ids, Live(i), ~EnqueueRetry(s) \/ Rec(s) # i
  PROVE  JobTokens("retry", i)' \subseteq JobTokens("retry", i)
<1>1. queue \in [Jobs -> Nat]
  BY DEF TypeInv, TypeOK
<1>2. CASE UNCHANGED queue
  BY <1>1, <1>2, NoNewTokens DEF JobsFor
<1>3. CASE EnqueueRetry(s) /\ Rec(s) # i
  <2>1. queue' = [queue EXCEPT ![NewJob("retry", Rec(s))] = @ + 1]
    BY <1>3 DEF EnqueueRetry, Enqueue
  <2>2. NewJob("retry", Rec(s)).id # i
    BY <1>3 DEF NewJob
  <2>3. \A j \in JobsFor("retry", i) : queue'[j] <= queue[j]
    BY <1>1, <2>1, <2>2 DEF JobsFor
  <2> QED BY <2>3, NoNewTokens
<1>4. CASE EnqueueTrigger(s)
  <2>1. queue' = [queue EXCEPT ![NewJob("trigger", Rec(s))] = @ + 1]
    BY <1>4 DEF EnqueueTrigger, Enqueue
  <2>2. NewJob("trigger", Rec(s)).on = "trigger"
    BY DEF NewJob
  <2>3. \A j \in JobsFor("retry", i) : queue'[j] <= queue[j]
    BY <1>1, <2>1, <2>2 DEF JobsFor
  <2> QED BY <2>3, NoNewTokens
<1>5. CASE Throw(s) /\ s # "retry"
  <2>1. queue' = Redeliver(queue, frame[s].job)
    BY <1>5 DEF Throw
  <2>2. frame[s].job = Null \/ frame[s].job.on # "retry"
    BY <1>5, FrameJob
  <2> QED BY <2>1, <2>2, FrameJob, TokenReturned
<1>6. CASE ~Exists(Rec(s)) /\ Throw(s) /\ s = "retry" /\ frame[s].pc # "idle"
  <2>1. queue' = Redeliver(queue, frame[s].job)
    BY <1>6 DEF Throw
  <2>2. Rec(s) # i
    BY <1>6 DEF RetryKnown, Exists, Live, FlowRunStatus, TypeInv, TypeOK, Row
  <2>3. frame[s].job = Null \/ frame[s].job.id # i
    BY <1>6, <2>2, FrameJob, SlotsAssumption
  <2> QED BY <2>1, <2>3, FrameJob, TokenReturned
<1>7. CASE ReadTriggerConfig(s) /\ ~UNCHANGED queue
  <2>1. Throw(s) /\ frame[s].pc = "trig.config"
    BY <1>7 DEF ReadTriggerConfig, At
  <2>2. s # "retry"
    BY <2>1, PcsOfSlot DEF FrameInv, FrameFits, RetryPcs
  <2> QED BY <1>5, <2>1, <2>2
<1> QED BY <1>2, <1>3, <1>4, <1>5, <1>6, <1>7, HandlersQueue

----------------------------------------------------------------------------
(* Each step stays within what was granted.                                *)

\* A text is sent by a handler, or a batch, that was going to send it.
LEMMA TextPaid ==
  ASSUME TypeInv, TypeInv', Grows, FrameInv, SmsInv, DoublesStay, NEW s \in Slots, SendPreliminarySms(s),
         UNCHANGED cron, NEW i \in Ids
  PROVE  WithinGrant(i)'
<1>1. frame[s].pc = "sms" /\ HandlerStep(s) /\ UNCHANGED <<runs, queue, accepted>>
  BY DEF SendPreliminarySms, At, HandlerStep, DispatchStep, db, boss
<1>2. ~BumpAttempt(s) /\ ~WriteRecord(s) /\ ~ResendNow(s) /\ ~EnqueueRetry(s)
  BY <1>1 DEF BumpAttempt, WriteRecord, ResendNow, EnqueueRetry, At
<1>3. Texting(i)' \subseteq Texting(i) /\ Granted(i)' = Granted(i)
  BY <1>1, <1>2, TextingLess, HandlersGrant
<1>4. Live(i)' => Live(i) /\ JobTokens("retry", i)' \subseteq JobTokens("retry", i)
  BY <1>1, <1>2, RetryTokensQuiet, LiveStays DEF SmsInv
<1>5. WithinGrant(i) /\ tally[i].sent \in Nat /\ Granted(i) \in Nat
  BY GrantType DEF SmsInv
<1>6. CASE Rec(s) = i
  <2>1. /\ frame'[s].pc \in {"presms", "fail"} /\ frame'[s].id = i
        /\ frame'[s].list = frame[s].list
    BY <1>6, GotoGoes DEF SendPreliminarySms, GoesOn, Kept, Rec
  <2>2. s \in Flows => ~Listed(s, i)' /\ ~Waits(s, i)'
    BY <1>1, <1>6, <2>1 DEF Listed, Waits, SmsInv, BatchInv, ListFits, Rec
  <2>3. s \in Texting(i) /\ s \notin Texting(i)'
    BY <1>1, <1>6, <2>1, <2>2 DEF Texting, ToText, Rec
  <2>4. Texting(i)' \subseteq Texting(i) \ {s}
    BY <1>3, <2>3
  <2>5. PICK B, x : B = {} /\ x = <<"slot", s, 0>>
    OBVIOUS
  <2>6. x \in Owed(i) /\ Owed(i)' \subseteq (Owed(i) \ {x}) \cup B
    BY <1>4, <2>3, <2>4, <2>5, TextPassesOn
  <2>7. tally'[i].sent <= tally[i].sent + 1
    BY <1>5, CountsSent DEF SendPreliminarySms
  <2> QED BY <1>3, <1>5, <2>5, <2>6, <2>7, OwedPaid
<1>7. CASE Rec(s) # i
  <2>1. tally'[i].sent = tally[i].sent
    BY <1>5, <1>7, CountsSent DEF SendPreliminarySms
  <2>2. Owed(i)' \subseteq Owed(i)
    BY <1>3, <1>4, OwedLess
  <2> QED BY <1>3, <1>5, <2>1, <2>2, StillWithin
<1> QED BY <1>6, <1>7

\* A retry is counted, and so is the job it leaves behind.
LEMMA BumpGranted ==
  ASSUME TypeInv, TypeInv', Grows, FrameInv, SmsInv, DoublesStay, NEW s \in Slots, BumpAttempt(s),
         UNCHANGED cron, NEW i \in Ids
  PROVE  WithinGrant(i)'
<1>1. frame[s].pc = "bump" /\ HandlerStep(s) /\ UNCHANGED accepted
  BY DEF BumpAttempt, At, HandlerStep, DispatchStep
<1>2. ~WriteRecord(s) /\ ~ResendNow(s) /\ ~EnqueueRetry(s) /\ ~SendPreliminarySms(s)
  BY <1>1 DEF WriteRecord, ResendNow, EnqueueRetry, SendPreliminarySms, At
<1>3. Walks(s) /\ Only(s) /\ (Live(i)' => Live(i)) /\ tally'[i].sent = tally[i].sent
  BY <1>1, <1>2, HandlerWalks, LiveStays, HandlersSpare DEF Walks
<1>4. Live(i)' => Live(i) /\ JobTokens("retry", i)' \subseteq JobTokens("retry", i)
  BY <1>1, <1>2, <1>3, RetryTokensQuiet DEF SmsInv
<1>5. WithinGrant(i) /\ tally[i].sent \in Nat /\ Granted(i) \in Nat
  BY GrantType DEF SmsInv
<1>6. \A w \in Slots : Waits(w, i)' => Waits(w, i)
  BY <1>1, <1>2, <1>3, HandlerReceives, WaitsLess DEF Waits
<1>7. Texting(i)' \subseteq Texting(i) \cup {s}
  BY <1>3, <1>6, OthersText DEF Texting, ToText
<1>0. UNCHANGED Forgiven /\ Forgiven \in Nat
  BY <1>1, HandlersSpare, ForgivenType
<1>8. CASE Count(Rec(s), "retried") /\ Rec(s) = i
  <2>1. Granted(i)' = Granted(i) + 1
    <3>1. tally[i].retried \in Nat /\ tally[i].resent \in Nat /\ accepted[i] \in Nat
      BY GrantType
    <3>2. Count(i, "retried")
      BY <1>8
    <3>3. /\ tally'[i].retried = tally[i].retried + (IF i = i /\ "retried" = "retried" THEN 1 ELSE 0)
          /\ tally'[i].resent = tally[i].resent + (IF i = i /\ "retried" = "resent" THEN 1 ELSE 0)
      BY <3>2, CountsOne
    <3> QED BY <1>0, <1>1, <3>1, <3>3 DEF Granted
  <2>2. PICK y : y = <<"slot", s, 0>>
    OBVIOUS
  <2>3. Owed(i)' \subseteq Owed(i) \cup {y}
    BY <1>4, <1>7, <2>2, OwedMore
  <2> QED BY <1>3, <1>5, <2>1, <2>3, GrantedAgain
<1>9. CASE ~(Count(Rec(s), "retried") /\ Rec(s) = i)
  <2>1. \/ Rec(s) # i /\ Goto(s, "bump.enqueue") /\ Count(Rec(s), "retried")
        \/ Return(s) /\ UNCHANGED tally
    BY <1>9 DEF BumpAttempt, Throw
  <2>2. Granted(i)' = Granted(i)
    <3>1. tally[i].retried \in Nat /\ tally[i].resent \in Nat
      BY DEF TypeInv, TypeOK, Tally
    <3>2. ASSUME Rec(s) # i, Count(Rec(s), "retried")
          PROVE  tally'[i].retried = tally[i].retried /\ tally'[i].resent = tally[i].resent
      BY <3>1, <3>2, CountsOne
    <3> QED BY <1>0, <1>1, <2>1, <3>2 DEF Granted
  <2>3. s \notin Flows
    BY <1>1, PcsOfSlot DEF FrameInv, FrameFits, BatchPcs
  <2>4. s \notin Texting(i)'
    <3>1. frame'[s].id # i \/ frame'[s].pc = "idle"
      BY <2>1, GotoGoes, ReturnStops DEF GoesOn, Stops, Idle, Kept, Rec
    <3> QED BY <2>3, <3>1 DEF Texting, ToText
  <2>5. Owed(i)' \subseteq Owed(i)
    BY <1>4, <1>7, <2>4, OwedLess
  <2> QED BY <1>3, <1>5, <2>2, <2>5, StillWithin
<1> QED BY <1>8, <1>9

\* The job takes over from the handler that enqueues it.
LEMMA RetryJobTakesOver ==
  ASSUME TypeInv, TypeInv', Grows, FrameInv, SmsInv, DoublesStay, NEW s \in Slots, EnqueueRetry(s),
         UNCHANGED cron, NEW i \in Ids
  PROVE  WithinGrant(i)'
<1>1. frame[s].pc = "bump.enqueue" /\ HandlerStep(s) /\ UNCHANGED <<tally, accepted, runs>>
      /\ queue' = [queue EXCEPT ![NewJob("retry", Rec(s))] = @ + 1]
  BY DEF EnqueueRetry, Enqueue, At, HandlerStep, DispatchStep, seen, db
<1>2. ~BumpAttempt(s) /\ ~WriteRecord(s) /\ ~ResendNow(s)
  BY <1>1 DEF WriteRecord, ResendNow, BumpAttempt, At
<1>3. Texting(i)' \subseteq Texting(i) /\ Granted(i)' = Granted(i) /\ (Live(i)' => Live(i))
  BY <1>1, <1>2, TextingLess, HandlersGrant, LiveStays
<1>4. WithinGrant(i) /\ tally[i].sent \in Nat /\ Granted(i) \in Nat /\ tally'[i].sent = tally[i].sent
  BY <1>1, GrantType DEF SmsInv
<1>5. CASE Live(i) /\ Rec(s) = i
  <2>1. s \notin Flows
    BY <1>1, PcsOfSlot DEF FrameInv, FrameFits, BatchPcs
  <2>2. frame'[s].pc = "idle"
    BY ReturnStops DEF EnqueueRetry, Stops, Idle
  <2>3. s \in Texting(i) /\ s \notin Texting(i)'
    BY <1>1, <1>5, <2>1, <2>2 DEF Texting, ToText, Rec
  <2>4. Texting(i)' \subseteq Texting(i) \ {s}
    BY <1>3, <2>3
  <2>5. PICK b \in Jobs : b = NewJob("retry", Rec(s)) /\ b.on = "retry" /\ b.id = Rec(s)
    BY NewJobType, FrameJob, WorkerSlots DEF Rec
  <2>6. JobTokens("retry", i)' \subseteq JobTokens("retry", i) \cup {<<"job", b, queue[b] + 1>>}
    <3>1. queue \in [Jobs -> Nat]
      BY DEF TypeInv, TypeOK
    <3>2. \A j \in JobsFor("retry", i) : queue'[j] <= queue[j] + (IF j = b THEN 1 ELSE 0)
      BY <1>1, <2>5, <3>1 DEF JobsFor
    <3> QED BY <3>2, NewToken
  <2>7. PICK x, y : x = <<"slot", s, 0>> /\ y = <<"job", b, queue[b] + 1>>
    OBVIOUS
  <2>8. PICK B : B = {y}
    OBVIOUS
  <2>9. x \in Owed(i) /\ Owed(i)' \subseteq (Owed(i) \ {x}) \cup B
    BY <1>3, <2>3, <2>4, <2>6, <2>7, <2>8, TextPassesOn
  <2> QED BY <1>3, <1>4, <2>8, <2>9, OwedPassesOn
<1>6. CASE ~(Live(i) /\ Rec(s) = i)
  <2>1. Live(i)' => Live(i) /\ JobTokens("retry", i)' \subseteq JobTokens("retry", i)
    BY <1>1, <1>3, <1>6, RetryTokensQuiet DEF SmsInv
  <2>2. Owed(i)' \subseteq Owed(i)
    BY <1>3, <2>1, OwedLess
  <2> QED BY <1>3, <1>4, <2>2, StillWithin
<1> QED BY <1>5, <1>6

\* A request that leaves record i alone.
LEMMA TextingElsewhere ==
  ASSUME NEW s \in Slots, s \notin Flows, Only(s), UNCHANGED cron, NEW i, Live(i)' => Live(i),
         runs'[i] = runs[i], frame'[s].pc = "idle" \/ frame'[s].id # i
  PROVE  Texting(i)' \subseteq Texting(i)
<1> SUFFICES ASSUME NEW t \in Slots, ToText(t, i)'
             PROVE  ToText(t, i)
  BY DEF Texting
<1>1. t # s
  BY DEF ToText
<1>2. frame'[t] = frame[t]
  BY <1>1 DEF Only
<1>3. Waits(t, i)' => Waits(t, i)
  BY <1>2 DEF Waits
<1> QED BY <1>1, <1>3, OthersText DEF ToText

\* A delivery writes one record, by the identity it was made for.
LEMMA Delivers ==
  ASSUME TypeInv, DeliveryInv, NEW s \in Slots, WriteRecord(s)
  PROVE  \/ \E k \in Ids : /\ AfterIngest(s, k) /\ Accept(k) /\ runs'[k].key = frame[s].key
                           /\ \A i \in Ids : i # k => runs'[i] = runs[i]
         \/ Return(s) /\ UNCHANGED <<runs, accepted>>
<1>1. runs \in [Ids -> Row] /\ frame[s].pc = "ing.write" /\ DeliveryFits(frame[s])
  BY DEF TypeInv, TypeOK, WriteRecord, At, DeliveryInv
<1>2. CASE Exists(Rec(s)) /\ UpdateRecord(s, Rec(s)) /\ AfterIngest(s, Rec(s)) /\ Accept(Rec(s))
  <2>1. PICK k \in Ids : k = Rec(s)
    BY <1>2 DEF Exists
  <2>2. runs[k] \in Row /\ runs[k].key = frame[s].key
    <3>1. k # 0 /\ Exists(k) /\ frame[s].id = k
      BY <1>2, <2>1 DEF Rec, Ids
    <3> QED BY <1>1, <3>1 DEF DeliveryFits
  <2>3. runs'[k].key = runs[k].key
    BY <1>1, <1>2, <2>1, <2>2 DEF UpdateRecord, Row
  <2>4. \A i \in Ids : i # k => runs'[i] = runs[i]
    BY <1>1, <1>2, <2>1 DEF UpdateRecord
  <2> QED BY <1>2, <2>1, <2>2, <2>3, <2>4
<1>3. ASSUME NEW k \in Ids, CreateRecord(s, k), AfterIngest(s, k), Accept(k)
      PROVE  \E l \in Ids : /\ AfterIngest(s, l) /\ Accept(l) /\ runs'[l].key = frame[s].key
                            /\ \A i \in Ids : i # l => runs'[i] = runs[i]
  <2>1. runs'[k].key = frame[s].key /\ \A i \in Ids : i # k => runs'[i] = runs[i]
    BY <1>1, <1>3 DEF CreateRecord
  <2> QED BY <1>3, <2>1
<1> QED BY <1>2, <1>3 DEF WriteRecord

LEMMA WriteGranted ==
  ASSUME TypeInv, TypeInv', Grows, FrameInv, SmsInv, DoublesStay, NEW s \in Slots, WriteRecord(s),
         UNCHANGED cron, NEW i \in Ids
  PROVE  WithinGrant(i)'
<1>1. frame[s].pc = "ing.write" /\ HandlerStep(s) /\ UNCHANGED <<tally, queue>>
  BY DEF WriteRecord, At, HandlerStep, IngestStep, boss
<1>2. Walks(s) /\ Only(s) /\ (Live(i)' => Live(i)) /\ s \notin Flows
  <2>1. s \notin Flows
    BY <1>1, PcsOfSlot DEF FrameInv, FrameFits, BatchPcs
  <2> QED BY <1>1, <2>1, HandlerWalks, LiveStays DEF Walks
<1>3. Live(i)' => Live(i) /\ JobTokens("retry", i)' \subseteq JobTokens("retry", i)
  <2>1. queue \in [Jobs -> Nat]
    BY DEF TypeInv, TypeOK
  <2> QED BY <1>1, <1>2, <2>1, NoNewTokens DEF JobsFor
<1>4. WithinGrant(i) /\ tally[i].sent \in Nat /\ Granted(i) \in Nat /\ tally'[i].sent = tally[i].sent
  BY <1>1, GrantType DEF SmsInv
<1>0. UNCHANGED Forgiven /\ Forgiven \in Nat
  BY <1>1, HandlersSpare, ForgivenType
<1>5. frame[s].key.flow \in cron => frame[s].conf.sendSchedule
  BY <1>1 DEF SmsInv, DeliveryInv, DeliveryFits
<1>6. ASSUME runs'[i] = runs[i], accepted'[i] = accepted[i],
             frame'[s].pc = "idle" \/ frame'[s].id # i
      PROVE  WithinGrant(i)'
  <2>1. Granted(i)' = Granted(i)
    BY <1>0, <1>1, <1>6 DEF Granted
  <2>2. Texting(i)' \subseteq Texting(i)
    BY <1>2, <1>6, TextingElsewhere
  <2>3. Owed(i)' \subseteq Owed(i)
    BY <1>3, <2>2, OwedLess
  <2> QED BY <1>4, <2>1, <2>3, StillWithin
<1>7. ASSUME NEW k \in Ids, AfterIngest(s, k), Accept(k), runs'[k].key = frame[s].key,
             \A j \in Ids : j # k => runs'[j] = runs[j]
      PROVE  WithinGrant(i)'
  <2>1. \/ /\ frame'[s].id = k /\ frame'[s].pc \in {"skip", "sms"}
           /\ frame'[s].pc = "sms" => ~frame[s].conf.sendSchedule
        \/ frame'[s].pc = "idle"
    BY <1>7, IngestTakesUp DEF TakesUp, Stops, Idle
  <2>2. accepted \in [Ids -> Nat] /\ accepted' = [accepted EXCEPT ![k] = @ + 1]
    BY <1>7 DEF TypeInv, TypeOK, Accept
  <2>3. CASE i # k
    BY <1>6, <1>7, <2>1, <2>2, <2>3
  <2>4. CASE i = k
    <3>1. Granted(i)' = Granted(i) + 1
      <4>1. /\ tally[i].retried \in Nat /\ tally[i].resent \in Nat /\ accepted[i] \in Nat
            /\ accepted'[i] = accepted[i] + 1
        BY <2>2, <2>4 DEF TypeInv, TypeOK, Tally
      <4> QED BY <1>0, <1>1, <4>1 DEF Granted
    <3>2. PICK w, t : w = frame[s].key.flow /\ t = IF w \in cron THEN w ELSE s
      OBVIOUS
    <3>3. ASSUME NEW u \in Slots, ToText(u, i)', ~ToText(u, i)
          PROVE  u = t
      <4>1. CASE u = s
        <5>1. frame'[s].pc = "sms"
          BY <1>2, <2>1, <3>3, <4>1 DEF ToText
        <5>2. w \notin cron
          BY <1>5, <2>1, <3>2, <5>1
        <5> QED BY <3>2, <4>1, <5>2
      <4>2. CASE u # s
        <5>1. Waits(u, i)'
          BY <1>2, <3>3, <4>2, OthersText
        <5>2. u \in cron /\ runs'[i].key.flow = u
          BY <5>1 DEF Waits
        <5> QED BY <1>7, <2>4, <3>2, <5>2
      <4> QED BY <4>1, <4>2
    <3>4. Texting(i)' \subseteq Texting(i) \cup {t}
      BY <3>3 DEF Texting
    <3>5. PICK y : y = <<"slot", t, 0>>
      OBVIOUS
    <3>6. Owed(i)' \subseteq Owed(i) \cup {y}
      BY <1>3, <3>4, <3>5, OwedMore
    <3> QED BY <1>4, <3>1, <3>6, GrantedAgain
  <2> QED BY <2>3, <2>4
<1>8. CASE Return(s) /\ UNCHANGED <<runs, accepted>>
  <2>1. frame'[s].pc = "idle"
    BY <1>8, ReturnStops DEF Stops, Idle
  <2> QED BY <1>6, <1>8, <2>1
<1> QED BY <1>7, <1>8, Delivers DEF SmsInv

LEMMA ResendGranted ==
  ASSUME TypeInv, TypeInv', Grows, FrameInv, SmsInv, DoublesStay, NEW s \in Slots, ResendNow(s),
         UNCHANGED cron, NEW i \in Ids
  PROVE  WithinGrant(i)'
<1>1. frame[s].pc = "resend.bump" /\ HandlerStep(s) /\ UNCHANGED <<accepted, queue>>
  BY DEF ResendNow, At, HandlerStep, AdminStep, boss
<1>2. Walks(s) /\ Only(s) /\ (Live(i)' => Live(i)) /\ s \notin Flows
  <2>1. s \notin Flows
    BY <1>1, PcsOfSlot DEF FrameInv, FrameFits, BatchPcs
  <2> QED BY <1>1, <2>1, HandlerWalks, LiveStays DEF Walks
<1>3. Live(i)' => Live(i) /\ JobTokens("retry", i)' \subseteq JobTokens("retry", i)
  <2>1. queue \in [Jobs -> Nat]
    BY DEF TypeInv, TypeOK
  <2> QED BY <1>1, <1>2, <2>1, NoNewTokens DEF JobsFor
<1>4. /\ WithinGrant(i) /\ Granted(i) \in Nat /\ accepted[i] \in Nat
      /\ tally[i].sent \in Nat /\ tally[i].retried \in Nat /\ tally[i].resent \in Nat
  BY GrantType DEF SmsInv, TypeInv, TypeOK, Tally
<1>0. UNCHANGED Forgiven /\ Forgiven \in Nat
  BY <1>1, HandlersSpare, ForgivenType
<1>5. ASSUME runs'[i] = runs[i], (Rec(s) # i /\ frame'[s].id = Rec(s)) \/ frame'[s].pc = "idle",
             tally'[i].sent = tally[i].sent, Granted(i)' = Granted(i)
      PROVE  WithinGrant(i)'
  <2>1. Texting(i)' \subseteq Texting(i)
    BY <1>2, <1>5, TextingElsewhere
  <2>2. Owed(i)' \subseteq Owed(i)
    BY <1>3, <2>1, OwedLess
  <2> QED BY <1>4, <1>5, <2>2, StillWithin
<1>6. CASE Return(s) /\ UNCHANGED <<runs, tally>>
  <2>1. frame'[s].pc = "idle"
    BY <1>6, ReturnStops DEF Stops, Idle
  <2>2. Granted(i)' = Granted(i)
    BY <1>0, <1>1, <1>6 DEF Granted
  <2> QED BY <1>5, <1>6, <2>1, <2>2
<1>7. CASE /\ Exists(Rec(s)) /\ Count(Rec(s), "resent") /\ Goto(s, "sms")
           /\ runs' = [runs EXCEPT ![Rec(s)].attempt = @ + 1, ![Rec(s)].status = "Received"]
  <2>1. frame'[s].id = Rec(s)
    BY <1>7, GotoGoes DEF GoesOn, Kept, Rec
  <2>2. /\ tally'[i].sent = tally[i].sent /\ tally'[i].retried = tally[i].retried
        /\ tally'[i].resent = tally[i].resent + (IF i = Rec(s) THEN 1 ELSE 0)
    BY <1>4, <1>7, CountsOne
  <2>3. runs \in [Ids -> Row] /\ Rec(s) \in Ids /\ runs[Rec(s)] \in Row
    BY <1>7 DEF TypeInv, TypeOK, Exists
  <2>4. CASE Rec(s) # i
    <3>1. runs'[i] = runs[i]
      BY <1>7, <2>3, <2>4
    <3>2. Granted(i)' = Granted(i)
      BY <1>0, <1>1, <1>4, <2>2, <2>4 DEF Granted
    <3> QED BY <1>5, <2>1, <2>2, <2>4, <3>1, <3>2
  <2>5. CASE Rec(s) = i
    <3>1. Granted(i)' = Granted(i) + 1
      BY <1>0, <1>1, <1>4, <2>2, <2>5 DEF Granted
    <3>2. runs'[i].key = runs[i].key /\ runs'[i].status = "Received"
      BY <1>7, <2>3, <2>5 DEF Row
    <3>3. PICK w, y, z : w = runs[i].key.flow /\ y = <<"slot", s, 0>> /\ z = <<"slot", w, 0>>
      OBVIOUS
    <3>4. \A u \in Texting(i)' : u \in Texting(i) \/ u = s \/ (u = w /\ w \in cron)
      <4> SUFFICES ASSUME NEW u \in Slots, ToText(u, i)', u # s, ~ToText(u, i)
                   PROVE  u = w /\ w \in cron
        BY DEF Texting
      <4>1. Waits(u, i)'
        BY <1>2, OthersText
      <4> QED BY <3>2, <3>3, <4>1 DEF Waits
    <3>5. \A x \in Owed(i)' : x \in Owed(i) \/ x = y \/ (x = z /\ w \in cron)
      <4> SUFFICES ASSUME NEW x \in Owed(i)', x # y
                   PROVE  x \in Owed(i) \/ (x = z /\ w \in cron)
        OBVIOUS
      <4>1. CASE Live(i)' /\ x \in JobTokens("retry", i)'
        BY <1>3, <4>1, OwedMember
      <4>2. CASE \E u \in Texting(i)' : x = <<"slot", u, 0>>
        BY <3>3, <3>4, <4>2, OwedMember
      <4> QED BY <4>1, <4>2, OwedMember
    <3>6. CASE w \in cron
      <4>1. Doubled(i) = tally[i].resent /\ Doubled(i)' = tally[i].resent + 1
        <5>1. Exists(i) /\ runs[i].status # "none" /\ Exists(i)' /\ runs'[i].status # "none"
          BY <1>7, <2>3, <2>5, <3>2 DEF Exists, FlowRunStatus
        <5> QED BY <1>4, <2>2, <2>5, <3>2, <3>3, <3>6, <5>1 DEF Doubled
      <4>2. Granted(i)' + Doubled(i)' >= Granted(i) + Doubled(i) + 2
        BY <1>4, <3>1, <4>1
      <4> QED BY <1>4, <2>2, <3>5, <4>2, GrantedTwice
    <3>7. CASE w \notin cron
      <4>1. Owed(i)' \subseteq Owed(i) \cup {y}
        BY <3>5, <3>7
      <4> QED BY <1>4, <2>2, <3>1, <4>1, GrantedAgain
    <3> QED BY <3>6, <3>7
  <2> QED BY <2>4, <2>5
<1> QED BY <1>6, <1>7 DEF ResendNow

LEMMA HandlerWithin ==
  ASSUME TypeInv, TypeInv', Grows, FrameInv, SmsInv, DoublesStay, NEW s \in Slots, HandlerStep(s),
         UNCHANGED cron, NEW i \in Ids
  PROVE  WithinGrant(i)'
<1>1. CASE /\ ~SendPreliminarySms(s) /\ ~BumpAttempt(s) /\ ~EnqueueRetry(s) /\ ~WriteRecord(s)
           /\ ~ResendNow(s)
  <2>1. WithinGrant(i) /\ tally[i].sent \in Nat /\ Granted(i) \in Nat /\ (Live(i)' => Live(i))
    BY GrantType, LiveStays DEF SmsInv
  <2>2. tally'[i].sent = tally[i].sent /\ Granted(i)' = Granted(i)
    BY <1>1, HandlersSpare, HandlersGrant
  <2>3. Live(i)' => Live(i) /\ JobTokens("retry", i)' \subseteq JobTokens("retry", i)
    BY <1>1, <2>1, RetryTokensQuiet DEF SmsInv
  <2>4. Texting(i)' \subseteq Texting(i)
    BY <1>1, TextingLess
  <2>5. Owed(i)' \subseteq Owed(i)
    BY <2>3, <2>4, OwedLess
  <2> QED BY <2>1, <2>2, <2>5, StillWithin
<1> QED BY <1>1, TextPaid, BumpGranted, RetryJobTakesOver, WriteGranted, ResendGranted

\* Free steps: nobody is texted, nobody newly taken up.
LEMMA TextingKept ==
  ASSUME NEW s \in Slots, Only(s), UNCHANGED <<cron, runs>>, NEW i, ToText(s, i)' => ToText(s, i)
  PROVE  Texting(i)' \subseteq Texting(i)
<1> SUFFICES ASSUME NEW t \in Slots, ToText(t, i)', t # s
             PROVE  ToText(t, i)
  BY DEF Texting
<1>1. frame'[t] = frame[t] /\ (Live(i)' => Live(i))
  BY DEF Only, Live
<1>2. Waits(t, i)' => Waits(t, i)
  BY <1>1 DEF Waits
<1> QED BY <1>1, <1>2, OthersText DEF ToText

LEMMA QuietWithin ==
  ASSUME TypeInv, TypeInv', SmsInv, DoublesStay, NEW i \in Ids, UNCHANGED <<runs, tally, accepted>>,
         Texting(i)' \subseteq Texting(i),
         \A j \in Jobs : j.on = "retry" => queue'[j] <= queue[j],
         used'["restart"] = used["restart"]
  PROVE  WithinGrant(i)'
<1>1. WithinGrant(i) /\ tally[i].sent \in Nat /\ Granted(i) \in Nat
  BY GrantType DEF SmsInv
<1>2. Live(i)' => Live(i) /\ JobTokens("retry", i)' \subseteq JobTokens("retry", i)
  <2>1. JobTokens("retry", i)' \subseteq JobTokens("retry", i)
    BY NoNewTokens DEF JobsFor
  <2> QED BY <2>1 DEF Live
<1>3. Granted(i)' = Granted(i)
  BY ForgivenType DEF Granted
<1>4. Owed(i)' \subseteq Owed(i)
  BY <1>2, OwedLess
<1> QED BY <1>1, <1>3, <1>4, StillWithin

\* The batch lists the records that wait for it, and texts those it has listed.
LEMMA BatchTexts ==
  ASSUME TypeInv, FrameInv, SmsInv, NEW w \in Flows, BatchStep(w), NEW i \in Ids
  PROVE  Texting(i)' \subseteq Texting(i)
<1>1. w \in Slots /\ UNCHANGED <<runs, cron>>
  BY WorkerSlots DEF BatchStep, ListPending, NextPending, boss, db
<1>2. frame[w].pc \in {"batch.list", "batch.next"}
  BY DEF BatchStep, ListPending, NextPending, At
<1>3. Waits(w, i)' => Waits(w, i)
  BY <1>1, <1>2 DEF Waits
<1>4. CASE ListPending(w)
  <2>1. /\ Only(w) /\ frame'[w].pc = "batch.next"
        /\ frame'[w].list = {[id |-> k, cta |-> runs[k].cta] :
              k \in {k \in Records : runs[k].key.flow = w /\ runs[k].status = "Received"}}
    BY <1>4, ListGoes
  <2>2. Listed(w, i)' => Waits(w, i)
    <3>1. w \in cron
      BY <1>2 DEF SmsInv, BatchInv
    <3> QED BY <1>2, <2>1, <3>1 DEF Listed, Waits
  <2>3. ToText(w, i)' => ToText(w, i)
    BY <1>3, <2>1, <2>2 DEF ToText
  <2> QED BY <1>1, <2>1, <2>3, TextingKept
<1>5. CASE Stops(w)
  <2>1. Only(w) /\ frame'[w].pc = "idle" /\ frame'[w].list = {}
    BY <1>5 DEF Stops, Idle
  <2>2. ToText(w, i)' => ToText(w, i)
    BY <1>3, <2>1 DEF ToText, Listed
  <2> QED BY <1>1, <2>1, <2>2, TextingKept
<1>6. ASSUME NEW x \in frame[w].list, TakesUp(w, x.id, x.cta), frame'[w].list = frame[w].list \ {x}
      PROVE  Texting(i)' \subseteq Texting(i)
  <2>1. Only(w) /\ frame'[w].id = x.id /\ frame'[w].pc \in {"skip", "sms"}
    BY <1>6 DEF TakesUp
  <2>2. ToText(w, i)' => ToText(w, i)
    BY <1>3, <1>6, <2>1 DEF ToText, Listed
  <2> QED BY <1>1, <2>1, <2>2, TextingKept
<1> QED BY <1>4, <1>5, <1>6, NextTakesUp DEF BatchStep

LEMMA FreeWithin ==
  ASSUME TypeInv, TypeInv', FrameInv, SmsInv, DoublesStay, NEW i \in Ids, used'["restart"] = used["restart"],
         \/ \E w \in Flows : BatchStep(w) \/ CronTick(w)
         \/ \E s \in HttpSlots : Request(s)
         \/ \E n \in DOMAIN nlpearl : CallFinishes(n)
         \/ Quiescent \/ UNCHANGED vars
  PROVE  WithinGrant(i)'
<1>1. queue \in [Jobs -> Nat]
  BY DEF TypeInv, TypeOK
<1>2. UNCHANGED queue => \A j \in Jobs : j.on = "retry" => queue'[j] <= queue[j]
  BY <1>1
<1>3. ASSUME UNCHANGED <<frame, runs, cron>>
      PROVE  Texting(i)' \subseteq Texting(i)
  BY <1>3 DEF Texting, ToText, Listed, Waits, Live
<1>4. ASSUME NEW w \in Flows, BatchStep(w)
      PROVE  WithinGrant(i)'
  <2>1. UNCHANGED <<runs, tally, accepted, queue>>
    BY <1>4 DEF BatchStep, ListPending, NextPending, boss, seen, db
  <2> QED BY <1>2, <1>4, <2>1, BatchTexts, QuietWithin
<1>5. ASSUME NEW w \in Flows, CronTick(w)
      PROVE  WithinGrant(i)'
  <2>1. /\ UNCHANGED <<runs, tally, accepted, frame, cron>>
        /\ queue' = [queue EXCEPT ![NewJob(w, 0)] = @ + 1]
    BY <1>5 DEF CronTick, Enqueue, seen, db
  <2>2. NewJob(w, 0).on # "retry"
    BY SlotsAssumption DEF NewJob
  <2>3. \A j \in Jobs : j.on = "retry" => queue'[j] <= queue[j]
    BY <1>1, <2>1, <2>2
  <2>4. Texting(i)' \subseteq Texting(i)
    BY <1>3, <2>1
  <2> QED BY <2>1, <2>3, <2>4, QuietWithin
<1>6. ASSUME NEW s \in HttpSlots, Request(s)
      PROVE  WithinGrant(i)'
  <2>1. /\ s \in Slots /\ Starts(s) /\ s \notin Flows
        /\ UNCHANGED <<runs, queue, cron, tally, accepted>>
    BY <1>6, RequestStarts, SlotsAssumption
  <2>2. Only(s) /\ ~ToText(s, i)'
    BY <2>1 DEF Starts, Entries, ToText
  <2>3. Texting(i)' \subseteq Texting(i)
    BY <2>1, <2>2, TextingKept
  <2> QED BY <1>2, <2>1, <2>3, QuietWithin
<1>7. ASSUME (\E n \in DOMAIN nlpearl : CallFinishes(n)) \/ Quiescent \/ UNCHANGED vars
      PROVE  WithinGrant(i)'
  <2>1. UNCHANGED <<runs, tally, accepted, frame, queue, cron>>
    BY <1>7 DEF CallFinishes, Quiescent, vars, boss, db, seen
  <2> QED BY <1>2, <1>3, <2>1, QuietWithin
<1> QED BY <1>4, <1>5, <1>6, <1>7

LEMMA FetchWithin ==
  ASSUME TypeInv, TypeInv', FrameInv, SmsInv, DoublesStay, NEW j \in Jobs, FetchStep(j), NEW i \in Ids,
         used'["restart"] = used["restart"]
  PROVE  WithinGrant(i)'
<1>1. /\ queue \in [Jobs -> Nat] /\ WithinGrant(i)
      /\ tally[i].sent \in Nat /\ Granted(i) \in Nat
  BY GrantType DEF TypeInv, TypeOK, SmsInv
<1>2. ASSUME queue' = [queue EXCEPT ![j] = @ - 1], queue[j] > 0
      PROVE  \A b \in Jobs : b.on = "retry" => queue'[b] <= queue[b]
  BY <1>1, <1>2
<1>3. ASSUME UNCHANGED frame, UNCHANGED <<runs, cron>>
      PROVE  Texting(i)' \subseteq Texting(i)
  BY <1>3 DEF Texting, ToText, Listed, Waits, Live
<1>4. ASSUME FetchTrigger(j)
      PROVE  WithinGrant(i)'
  <2>1. /\ "trigger" \in Slots /\ "trigger" \notin Flows
        /\ queue' = [queue EXCEPT ![j] = @ - 1] /\ queue[j] > 0
        /\ UNCHANGED <<runs, cron, tally, accepted>>
        /\ \/ Opens("trigger", "trigger", j, "trig.config")
           \/ UNCHANGED frame
    BY <1>4, FetchOpens, SlotsAssumption
  <2>2. Texting(i)' \subseteq Texting(i)
    <3>1. CASE Opens("trigger", "trigger", j, "trig.config")
      <4>1. Only("trigger") /\ ~ToText("trigger", i)'
        BY <2>1, <3>1 DEF Opens, ToText
      <4> QED BY <2>1, <4>1, TextingKept
    <3> QED BY <1>3, <2>1, <3>1
  <2> QED BY <1>2, <2>1, <2>2, QuietWithin
<1>5. ASSUME FetchRetry(j)
      PROVE  WithinGrant(i)'
  <2>1. /\ "retry" \in Slots /\ "retry" \notin Flows /\ j.on = "retry"
        /\ queue' = [queue EXCEPT ![j] = @ - 1] /\ queue[j] > 0
        /\ UNCHANGED <<runs, cron, tally, accepted>>
        /\ \/ Exists(j.id) /\ Opens("retry", "retry", j, "retry.config")
           \/ ~Exists(j.id) /\ UNCHANGED frame
    BY <1>5, FetchOpens, SlotsAssumption
  <2>2. CASE Exists(j.id) /\ j.id = i /\ Opens("retry", "retry", j, "retry.config")
    <3>1. Only("retry") /\ Live(i) /\ Live(i)'
      BY <2>1, <2>2 DEF Opens, Exists, Live, FlowRunStatus
    <3>2. j \in JobsFor("retry", i)
      BY <2>1, <2>2 DEF JobsFor
    <3>3. PICK x, y : x = <<"job", j, queue[j]>> /\ y = <<"slot", "retry", 0>>
      OBVIOUS
    <3>4. /\ JobTokens("retry", i)' \subseteq JobTokens("retry", i) \ {x}
          /\ x \in JobTokens("retry", i)
      BY <2>1, <3>2, <3>3, TokenTaken
    <3>5. Texting(i)' \subseteq Texting(i) \cup {"retry"}
      <4> SUFFICES ASSUME NEW t \in Slots, ToText(t, i)', t # "retry"
                   PROVE  ToText(t, i)
        BY DEF Texting
      <4>1. frame'[t] = frame[t]
        BY <3>1 DEF Only
      <4>2. Waits(t, i)' => Waits(t, i)
        BY <2>1, <4>1 DEF Waits
      <4> QED BY <2>1, <3>1, <4>2, OthersText DEF ToText
    <3>6. x \in Owed(i) /\ Owed(i)' \subseteq (Owed(i) \ {x}) \cup {y}
      BY <3>1, <3>3, <3>4, <3>5, RetryPassesOn
    <3>7. tally'[i].sent = tally[i].sent /\ Granted(i)' = Granted(i)
      BY <2>1, ForgivenType DEF Granted
    <3> QED BY <1>1, <3>6, <3>7, OwedPassesOn
  <2>3. CASE Exists(j.id) /\ j.id # i /\ Opens("retry", "retry", j, "retry.config")
    <3>1. Only("retry") /\ ~ToText("retry", i)'
      BY <2>1, <2>3 DEF Opens, ToText
    <3>2. Texting(i)' \subseteq Texting(i)
      BY <2>1, <3>1, TextingKept
    <3> QED BY <1>2, <2>1, <3>2, QuietWithin
  <2>4. CASE UNCHANGED frame
    <3>1. Texting(i)' \subseteq Texting(i)
      BY <1>3, <2>1, <2>4
    <3> QED BY <1>2, <2>1, <3>1, QuietWithin
  <2> QED BY <2>1, <2>2, <2>3, <2>4
<1>6. ASSUME NEW w \in Flows, FetchDispatch(w, j)
      PROVE  WithinGrant(i)'
  <2>1. /\ w \in Slots /\ frame[w].pc = "idle"
        /\ queue' = [queue EXCEPT ![j] = @ - 1] /\ queue[j] > 0
        /\ UNCHANGED <<runs, cron, tally, accepted>>
        /\ \/ /\ Only(w) /\ frame'[w].pc = "batch.list" /\ frame'[w].id = frame[w].id
              /\ frame'[w].list = frame[w].list
           \/ UNCHANGED frame
    BY <1>6, FetchBatch
  <2>2. Texting(i)' \subseteq Texting(i)
    <3>1. CASE Only(w) /\ frame'[w].pc = "batch.list" /\ frame'[w].list = frame[w].list
      <4>1. ToText(w, i)' => ToText(w, i)
        BY <2>1, <3>1 DEF ToText, Listed, Waits
      <4> QED BY <2>1, <3>1, <4>1, TextingKept
    <3> QED BY <1>3, <2>1, <3>1
  <2> QED BY <1>2, <2>1, <2>2, QuietWithin
<1> QED BY <1>4, <1>5, <1>6 DEF FetchStep

\* A crash brings back the job of the retry worker and puts the record of the
\* batch among those that wait, each perhaps with its text sent.
LEMMA RestartWithin ==
  ASSUME TypeInv, TypeInv', SmsInv, DoublesStay, Restart, UNCHANGED cron, NEW i \in Ids
  PROVE  WithinGrant(i)'
<1>1. /\ UNCHANGED <<runs, tally, accepted>> /\ used'["restart"] = used["restart"] + 1
      /\ \A s \in Slots : frame'[s] = Idle
  BY SpendRestart DEF Restart, seen, db
<1>2. PICK y : JobTokens("retry", i)' \subseteq JobTokens("retry", i) \cup {y}
  BY TokensAtRestart, WorkerSlots
<1>3. PICK z : z = <<"slot", runs[i].key.flow, 0>>
  OBVIOUS
<1>4. \A s \in Texting(i)' : s = runs[i].key.flow
  BY <1>1 DEF Texting, ToText, Listed, Waits, Idle
<1>5. \A x \in Owed(i)' : x \in Owed(i) \/ x = y \/ x = z
  <2> SUFFICES ASSUME NEW x \in Owed(i)', x # y, x # z
               PROVE  x \in Owed(i)
    OBVIOUS
  <2>1. Live(i)' /\ x \in JobTokens("retry", i)'
    BY <1>3, <1>4, OwedMember
  <2>2. Live(i) /\ x \in JobTokens("retry", i)
    BY <1>1, <1>2, <2>1 DEF Live
  <2> QED BY <2>2, OwedMember
<1>6. Granted(i)' = Granted(i) + 2 /\ tally'[i].sent = tally[i].sent
  <2>1. Forgiven' = Forgiven + 2 /\ Forgiven \in Nat
    BY <1>1, ForgivenType
  <2>2. accepted[i] \in Nat /\ tally[i].retried \in Nat /\ tally[i].resent \in Nat
    BY GrantType
  <2> QED BY <1>1, <2>1, <2>2 DEF Granted
<1>7. Granted(i)' + Doubled(i)' >= Granted(i) + Doubled(i) + 2
  <2>1. Doubled(i) \in Nat /\ Doubled(i)' \in Nat /\ Doubled(i)' >= Doubled(i) /\ Granted(i) \in Nat
    BY GrantType DEF DoublesStay
  <2> QED BY <1>6, <2>1
<1> QED BY <1>5, <1>6, <1>7, GrantedTwice DEF SmsInv

----------------------------------------------------------------------------
(* What the batches, the deliveries and the retry worker rest on.          *)

Dry(w) == \A j \in Jobs : j.on = w => queue[j] = 0

\* No handler but its own batch gives a flow a job.
LEMMA StaysDry ==
  ASSUME TypeInv, FrameInv, NEW s \in Slots, HandlerStep(s), NEW w \in Flows, s # w, Dry(w)
  PROVE  Dry(w)'
<1>1. queue \in [Jobs -> Nat] /\ w # "trigger" /\ w # "retry"
  BY SlotsAssumption DEF TypeInv, TypeOK
<1>2. ASSUME NEW on, NEW k, on # w, queue' = [queue EXCEPT ![NewJob(on, k)] = @ + 1]
      PROVE  Dry(w)'
  <2>1. NewJob(on, k).on # w
    BY <1>2 DEF NewJob
  <2> QED BY <1>1, <1>2, <2>1 DEF Dry
<1>3. ASSUME Throw(s)
      PROVE  Dry(w)'
  <2>1. queue' = Redeliver(queue, frame[s].job)
    BY <1>3 DEF Throw
  <2>2. CASE frame[s].job = Null
    BY <2>1, <2>2 DEF Redeliver, Dry
  <2>3. CASE frame[s].job # Null
    <3>1. PICK b : b = [frame[s].job EXCEPT !.tries = @ - 1]
      OBVIOUS
    <3>2. b.on = s
      BY <2>3, <3>1, FrameJob DEF Jobs
    <3>3. UNCHANGED queue \/ queue' = [queue EXCEPT ![b] = @ + 1]
      BY <2>1, <3>1 DEF Redeliver
    <3> QED BY <1>1, <3>2, <3>3 DEF Dry
  <2> QED BY <2>2, <2>3
<1>4. CASE UNCHANGED queue
  BY <1>4 DEF Dry
<1>5. CASE EnqueueTrigger(s) \/ EnqueueRetry(s)
  BY <1>1, <1>2, <1>5 DEF EnqueueTrigger, EnqueueRetry, Enqueue
<1>6. CASE ReadTriggerConfig(s)
  BY <1>3, <1>4, <1>6 DEF ReadTriggerConfig
<1> QED BY <1>3, <1>4, <1>5, <1>6, HandlersQueue

LEMMA NextBatchInv ==
  ASSUME TypeInv, TypeInv', FrameInv, BatchInv, [Next]_vars, ~Restart, UNCHANGED cron
  PROVE  BatchInv'
<1> DEFINE Good(w) == /\ ListFits(frame[w])
                      /\ w \notin cron => frame[w].pc = "idle" /\ Dry(w)
<1>1. ASSUME NEW w \in Flows
      PROVE  Good(w) /\ w \in Slots /\ queue \in [Jobs -> Nat]
  BY WorkerSlots DEF BatchInv, Dry, TypeInv, TypeOK
<1>2. ASSUME NEW w \in Flows, frame'[w] = frame[w], Dry(w) => Dry(w)'
      PROVE  Good(w)'
  BY <1>1, <1>2
<1>3. ASSUME NEW w \in Flows, w \in cron, ListFits(frame'[w])
      PROVE  Good(w)'
  BY <1>3
<1>4. ASSUME NEW s \in Slots, HandlerStep(s), NEW w \in Flows
      PROVE  Good(w)'
  <2>1. Walks(s) /\ Only(s)
    BY <1>4, HandlerWalks DEF Walks
  <2>2. CASE s # w
    <3>1. frame'[w] = frame[w]
      BY <1>1, <2>1, <2>2 DEF Only
    <3>2. Dry(w) => Dry(w)'
      BY <1>4, <2>2, StaysDry
    <3> QED BY <1>2, <3>1, <3>2
  <2>3. CASE s = w
    <3>1. w \in cron
      BY <1>1, <2>1, <2>3 DEF Walks
    <3>2. frame[w].pc \in BatchPcs
      BY <1>1, PcsOfSlot DEF FrameInv, FrameFits
    <3>3. frame[w].pc \notin {"ing.write", "resend.bump", "retry.config"}
      BY <3>2 DEF BatchPcs
    <3>4. CASE Stops(w)
      <4>1. frame'[w].list = {} /\ frame'[w].pc = "idle"
        BY <3>4 DEF Stops, Idle
      <4>2. ListFits(frame'[w])
        BY <4>1 DEF ListFits
      <4> QED BY <1>3, <3>1, <4>2
    <3>5. ASSUME frame'[w].list = frame[w].list, frame'[w].pc # "sms"
          PROVE  Good(w)'
      <4>1. ListFits(frame'[w])
        BY <1>1, <3>5 DEF ListFits
      <4> QED BY <1>3, <3>1, <4>1
    <3>6. ASSUME NEW e \in Edges, frame[w].pc = e[1], GoesOn(w, e[2])
          PROVE  Good(w)'
      <4>1. e[2] = "sms" => e[1] = "resend.bump"
        BY DEF Edges
      <4> QED BY <3>3, <3>5, <3>6, <4>1 DEF GoesOn, Kept
    <3>7. ASSUME NEW e \in ReadEdges, NEW c, frame[w].pc = e[1], Reads(w, c, e[2])
          PROVE  Good(w)'
      <4>1. e[2] = "sms" => e[1] = "retry.config"
        BY DEF ReadEdges
      <4> QED BY <3>3, <3>5, <3>7, <4>1 DEF Reads, Kept
    <3>8. CASE GoesBack(w) /\ ~Stops(w)
      BY <3>5, <3>8 DEF GoesBack, GoesOn, Kept
    <3> QED BY <2>1, <2>3, <3>3, <3>4, <3>6, <3>7, <3>8 DEF Walks
  <2> QED BY <2>2, <2>3
<1>5. ASSUME NEW v \in Flows, BatchStep(v), NEW w \in Flows
      PROVE  Good(w)'
  <2>1. Only(v) /\ UNCHANGED queue
    BY <1>1, <1>5, BatchFits DEF FrameInv, BatchStep, ListPending, NextPending, boss
  <2>2. CASE v # w
    <3>1. frame'[w] = frame[w]
      BY <1>1, <2>1, <2>2 DEF Only
    <3> QED BY <1>2, <2>1, <3>1 DEF Dry
  <2>3. CASE v = w
    <3>1. frame[w].pc # "idle"
      BY <1>5, <2>3 DEF BatchStep, ListPending, NextPending, At
    <3>2. w \in cron
      BY <1>1, <3>1
    <3>3. CASE ListPending(w)
      <4>1. /\ frame'[w].pc = "batch.next"
            /\ \A x \in frame'[w].list : \E k \in Ids : x = [id |-> k, cta |-> runs[k].cta]
        BY <3>3, ListGoes DEF Records
      <4>2. ListFits(frame'[w])
        BY <4>1 DEF ListFits
      <4> QED BY <1>3, <3>2, <4>2
    <3>4. CASE Stops(w)
      <4>1. frame'[w].list = {} /\ frame'[w].pc = "idle"
        BY <3>4 DEF Stops, Idle
      <4>2. ListFits(frame'[w])
        BY <4>1 DEF ListFits
      <4> QED BY <1>3, <3>2, <4>2
    <3>5. ASSUME NEW x \in frame[w].list, TakesUp(w, x.id, x.cta),
                 frame'[w].list = frame[w].list \ {x}
          PROVE  Good(w)'
      <4>1. frame'[w].id = x.id
        BY <3>5 DEF TakesUp
      <4>2. ListFits(frame'[w])
        BY <1>1, <3>5, <4>1 DEF ListFits
      <4> QED BY <1>3, <3>2, <4>2
    <3> QED BY <1>5, <2>3, <3>3, <3>4, <3>5, NextTakesUp DEF BatchStep
  <2> QED BY <2>2, <2>3
<1>6. ASSUME NEW j \in Jobs, FetchStep(j), NEW w \in Flows
      PROVE  Good(w)'
  <2>1. queue' = [queue EXCEPT ![j] = @ - 1] /\ queue[j] > 0
    BY <1>6 DEF FetchStep, FetchTrigger, FetchRetry, FetchDispatch, Fetch, Fetchable
  <2>2. Dry(w) => j.on # w /\ Dry(w)'
    BY <1>1, <2>1 DEF Dry
  <2>3. CASE frame'[w] = frame[w]
    BY <1>2, <2>2, <2>3
  <2>4. ASSUME NEW s \in {"trigger", "retry"},
               IF s = "trigger" THEN FetchTrigger(j) ELSE FetchRetry(j)
        PROVE  Good(w)'
    <3>1. UNCHANGED frame \/ Only(s)
      BY <2>4, FetchOpens DEF Opens
    <3>2. w # s
      BY SlotsAssumption
    <3> QED BY <1>1, <2>3, <3>1, <3>2 DEF Only
  <2>5. ASSUME NEW v \in Flows, FetchDispatch(v, j)
        PROVE  Good(w)'
    <3>1. /\ j.on = v
          /\ \/ UNCHANGED frame
             \/ Only(v) /\ frame'[v].pc = "batch.list" /\ frame'[v].list = frame[v].list
      BY <2>5, FetchBatch
    <3>2. CASE v = w /\ frame'[w].pc = "batch.list" /\ frame'[w].list = frame[w].list
      <4>1. w \in cron
        BY <1>1, <2>2, <3>1, <3>2
      <4>2. ListFits(frame'[w])
        BY <1>1, <3>2 DEF ListFits
      <4> QED BY <1>3, <4>1, <4>2
    <3>3. CASE v # w \/ UNCHANGED frame
      BY <1>1, <2>3, <3>1, <3>3 DEF Only
    <3> QED BY <3>1, <3>2, <3>3
  <2> QED BY <1>6, <2>4, <2>5 DEF FetchStep
<1>7. ASSUME NEW s \in HttpSlots, Request(s), NEW w \in Flows
      PROVE  Good(w)'
  <2>1. Only(s) /\ UNCHANGED queue /\ s # w
    BY <1>7, RequestStarts, SlotsAssumption DEF Starts
  <2>2. frame'[w] = frame[w]
    BY <1>1, <2>1 DEF Only
  <2> QED BY <1>2, <2>1, <2>2 DEF Dry
<1>8. ASSUME NEW v \in Flows, CronTick(v), NEW w \in Flows
      PROVE  Good(w)'
  <2>1. UNCHANGED frame /\ v \in cron /\ queue' = [queue EXCEPT ![NewJob(v, 0)] = @ + 1]
    BY <1>8 DEF CronTick, Enqueue
  <2>2. CASE w = v
    BY <1>1, <1>3, <2>1, <2>2
  <2>3. CASE w # v
    <3>1. NewJob(v, 0).on # w
      BY <2>3 DEF NewJob
    <3>2. Dry(w) => Dry(w)'
      BY <1>1, <2>1, <3>1 DEF Dry
    <3> QED BY <1>2, <2>1, <3>2
  <2> QED BY <2>2, <2>3
<1>9. ASSUME (\E n \in DOMAIN nlpearl : CallFinishes(n)) \/ Quiescent \/ UNCHANGED vars,
             NEW w \in Flows
      PROVE  Good(w)'
  <2>1. UNCHANGED <<frame, queue>>
    BY <1>9 DEF CallFinishes, Quiescent, vars, boss
  <2> QED BY <1>2, <2>1 DEF Dry
<1>10. \A w \in Flows : Good(w)'
  BY <1>4, <1>5, <1>6, <1>7, <1>8, <1>9 DEF Next
<1> QED BY <1>10 DEF BatchInv, Dry

LEMMA DeliveryReads ==
  ASSUME TypeInv, TypeInv', Grows, [Table!Next]_(Table!vars), NEW f, DeliveryFits(f), UNCHANGED cron
  PROVE  /\ f.pc \in {"ing.config", "ing.write"} /\ f.id # 0 =>
              /\ f.id \in Ids /\ runs'[f.id].status # "none"
              /\ Exists(f.id)' => runs'[f.id].key = f.key
         /\ f.pc = "ing.write" /\ f.key.flow \in cron' => f.conf.sendSchedule
<1>1. ASSUME f.pc \in {"ing.config", "ing.write"}, f.id # 0
      PROVE  /\ f.id \in Ids /\ runs'[f.id].status # "none"
             /\ Exists(f.id)' => runs'[f.id].key = f.key
  <2>1. PICK i \in Ids : i = f.id
    BY <1>1 DEF DeliveryFits
  <2>2. runs[i].status # "none" /\ (Exists(i) => runs[i].key = f.key)
    BY <1>1, <2>1 DEF DeliveryFits
  <2>3. runs'[i].status # "none" /\ (Exists(i)' => Exists(i))
    BY <2>2 DEF Grows
  <2>4. Exists(i)' => runs'[i].key = runs[i].key
    BY <2>2, KeysKept
  <2> QED BY <2>1, <2>2, <2>3, <2>4
<1> QED BY <1>1 DEF DeliveryFits

\* A delivery reads the settings before it writes.
LEMMA DeliveryWalks ==
  ASSUME TypeInv, TypeInv', Grows, [Table!Next]_(Table!vars), NEW s \in Slots, DeliveryInv, CronFits,
         Walks(s), UNCHANGED cron
  PROVE  DeliveryFits(frame[s])'
<1>1. ASSUME frame'[s].pc \notin {"ing.config", "ing.write"}
      PROVE  DeliveryFits(frame[s])'
  BY <1>1 DEF DeliveryFits
<1>2. CASE Stops(s) \/ GoesBack(s)
  BY <1>1, <1>2 DEF Stops, GoesBack, GoesOn, Idle
<1>3. ASSUME NEW e \in Edges, GoesOn(s, e[2])
      PROVE  DeliveryFits(frame[s])'
  <2>1. e[2] \notin {"ing.config", "ing.write"}
    BY DEF Edges
  <2> QED BY <1>1, <1>3, <2>1 DEF GoesOn
<1>4. ASSUME NEW e \in ReadEdges, NEW c \in Configs, frame[s].pc = e[1], c = config[frame[s].key.flow],
             Reads(s, c, e[2])
      PROVE  DeliveryFits(frame[s])'
  <2>1. frame'[s].pc = e[2]
    BY <1>4 DEF Reads
  <2>2. CASE e[2] = "ing.write"
    <3>1. frame[s].pc = "ing.config"
      BY <1>4, <2>2 DEF ReadEdges
    <3>2. /\ frame'[s].id = frame[s].id /\ frame'[s].key = frame[s].key
          /\ frame'[s].conf = config[frame[s].key.flow]
      BY <1>4 DEF Reads, Kept
    <3>3. PICK i : i = frame[s].id
      OBVIOUS
    <3>4. i # 0 => /\ i \in Ids /\ runs'[i].status # "none"
                   /\ Exists(i)' => runs'[i].key = frame[s].key
      <4>1. PICK f : f = frame[s]
        OBVIOUS
      <4>2. DeliveryFits(f) /\ f.pc = "ing.config"
        BY <3>1, <4>1 DEF DeliveryInv
      <4> QED BY <3>3, <4>1, <4>2, DeliveryReads
    <3>5. frame[s].key.flow \in cron => config[frame[s].key.flow].sendSchedule
      BY DEF CronFits, HasSchedule
    <3> QED BY <3>2, <3>3, <3>4, <3>5 DEF DeliveryFits, Exists
  <2>3. CASE e[2] # "ing.write"
    <3>1. e[2] # "ing.config"
      BY DEF ReadEdges
    <3> QED BY <1>1, <2>1, <2>3, <3>1
  <2> QED BY <2>2, <2>3
<1>5. ASSUME NEW i \in Ids, NEW b \in BOOLEAN, TakesUp(s, i, b)
      PROVE  DeliveryFits(frame[s])'
  BY <1>1, <1>5 DEF TakesUp
<1> QED BY <1>2, <1>3, <1>4, <1>5 DEF Walks

LEMMA NextDeliveryInv ==
  ASSUME TypeInv, TypeInv', Grows, [Table!Next]_(Table!vars), FrameInv, DeliveryInv, CronFits,
         [Next]_vars, ~Restart, UNCHANGED cron
  PROVE  DeliveryInv'
<1>1. ASSUME NEW t \in Slots, frame'[t] = frame[t]
      PROVE  DeliveryFits(frame[t])'
  <2>1. DeliveryFits(frame[t])
    BY DEF DeliveryInv
  <2> QED BY <1>1, <2>1, DeliveryReads DEF DeliveryFits, Exists
<1>2. ASSUME NEW s \in Slots, Only(s), DeliveryFits(frame[s])'
      PROVE  DeliveryInv'
  BY <1>1, <1>2 DEF DeliveryInv, Only
<1>3. ASSUME NEW s \in Slots, Only(s), frame'[s].pc \notin {"ing.config", "ing.write"}
      PROVE  DeliveryInv'
  <2>1. DeliveryFits(frame[s])'
    BY <1>3 DEF DeliveryFits
  <2> QED BY <1>2, <1>3, <2>1
<1>4. ASSUME UNCHANGED frame
      PROVE  DeliveryInv'
  BY <1>1, <1>4 DEF DeliveryInv
<1>5. ASSUME NEW s \in Slots, HandlerStep(s)
      PROVE  DeliveryInv'
  <2>1. Walks(s) /\ Only(s)
    BY <1>5, HandlerWalks DEF Walks
  <2>2. DeliveryFits(frame[s])'
    BY <2>1, DeliveryWalks
  <2> QED BY <1>2, <2>1, <2>2
<1>6. ASSUME NEW w \in Flows, BatchStep(w)
      PROVE  DeliveryInv'
  <2>1. w \in Slots /\ Only(w) /\ FrameFits(w, frame'[w])
    BY <1>6, WorkerSlots, BatchFits DEF FrameInv
  <2>2. frame'[w].pc \in BatchPcs
    BY <2>1, PcsOfSlot DEF FrameFits
  <2>3. frame'[w].pc \notin {"ing.config", "ing.write"}
    BY <2>2 DEF BatchPcs
  <2> QED BY <1>3, <2>1, <2>3
<1>7. ASSUME NEW j \in Jobs, FetchStep(j)
      PROVE  DeliveryInv'
  <2>1. ASSUME NEW s \in {"trigger", "retry"},
               IF s = "trigger" THEN FetchTrigger(j) ELSE FetchRetry(j)
        PROVE  DeliveryInv'
    <3>1. /\ s \in Slots
          /\ \/ UNCHANGED frame
             \/ Only(s) /\ frame'[s].pc \in {"skip", "trig.config", "retry.config"}
      BY <2>1, FetchOpens DEF Opens
    <3> QED BY <1>3, <1>4, <3>1
  <2>2. ASSUME NEW w \in Flows, FetchDispatch(w, j)
        PROVE  DeliveryInv'
    <3>1. w \in Slots /\ (UNCHANGED frame \/ (Only(w) /\ frame'[w].pc = "batch.list"))
      BY <2>2, FetchBatch
    <3> QED BY <1>3, <1>4, <3>1
  <2> QED BY <1>7, <2>1, <2>2 DEF FetchStep
<1>8. ASSUME NEW s \in HttpSlots, Request(s)
      PROVE  DeliveryInv'
  <2>1. s \in Slots /\ Starts(s) /\ UNCHANGED runs /\ Only(s)
    BY <1>8, RequestStarts DEF Starts
  <2>2. CASE frame'[s].pc = "ing.config"
    <3>1. frame[s].id = 0
      BY <2>1 DEF Starts, FrameInv, FrameFits, Idle
    <3>2. \/ Exists(frame'[s].id) /\ frame'[s].key = runs[frame'[s].id].key
          \/ frame'[s].id = 0
      BY <2>1, <2>2, <3>1 DEF Starts
    <3>3. DeliveryFits(frame[s])'
      BY <2>1, <2>2, <3>2 DEF DeliveryFits, Exists, FlowRunStatus
    <3> QED BY <1>2, <2>1, <3>3
  <2>3. CASE frame'[s].pc # "ing.config"
    <3>1. frame'[s].pc # "ing.write"
      BY <2>1 DEF Starts, Entries
    <3> QED BY <1>3, <2>1, <2>3, <3>1
  <2> QED BY <2>2, <2>3
<1>9. CASE (\E f \in Flows : CronTick(f)) \/ (\E n \in DOMAIN nlpearl : CallFinishes(n)) \/ Quiescent
  BY <1>4, <1>9 DEF CronTick, CallFinishes, Quiescent, vars
<1>10. CASE UNCHANGED vars
  BY <1>4, <1>10 DEF vars
<1> QED BY <1>5, <1>6, <1>7, <1>8, <1>9, <1>10 DEF Next

LEMMA NextRetryKnown ==
  ASSUME TypeInv, TypeInv', Grows, FrameInv, RetryKnown, [Next]_vars, ~Restart
  PROVE  RetryKnown'
<1>1. \A i \in Ids : runs[i].status # "none" => runs'[i].status # "none"
  BY DEF Grows
<1>2. "retry" \in Slots /\ "retry" \notin HttpSlots \cup Flows /\ "trigger" # "retry"
  BY WorkerSlots, SlotsAssumption
<1>3. ASSUME frame'["retry"].pc = "idle" \/ (frame["retry"].pc # "idle"
                                             /\ frame'["retry"].id = frame["retry"].id)
      PROVE  RetryKnown'
  BY <1>1, <1>3 DEF RetryKnown, Rec
<1>4. ASSUME NEW s \in Slots, Only(s), s # "retry"
      PROVE  RetryKnown'
  <2>1. frame'["retry"] = frame["retry"]
    BY <1>2, <1>4 DEF Only
  <2> QED BY <1>3, <2>1
<1>5. ASSUME UNCHANGED frame
      PROVE  RetryKnown'
  BY <1>3, <1>5
<1>6. ASSUME NEW s \in Slots, HandlerStep(s)
      PROVE  RetryKnown'
  <2>1. Walks(s) /\ Only(s)
    BY <1>6, HandlerWalks DEF Walks
  <2>2. CASE s = "retry"
    <3>1. frame[s].pc # "ing.write" /\ frame[s].pc # "idle"
      BY <2>1, <2>2, PcsOfSlot DEF Walks, FrameInv, FrameFits, RetryPcs
    <3>2. CASE Stops(s)
      BY <1>3, <2>2, <3>2 DEF Stops, Idle
    <3>3. CASE ~Stops(s)
      <4>1. frame'[s].id = frame[s].id
        BY <2>1, <3>1, <3>3 DEF Walks, GoesBack, GoesOn, Reads, Kept
      <4> QED BY <1>3, <2>2, <3>1, <4>1
    <3> QED BY <3>2, <3>3
  <2> QED BY <1>4, <2>1, <2>2
<1>7. ASSUME NEW w \in Flows, BatchStep(w)
      PROVE  RetryKnown'
  <2>1. w \in Slots /\ Only(w) /\ w # "retry"
    BY <1>2, <1>7, BatchFits, WorkerSlots DEF FrameInv
  <2> QED BY <1>4, <2>1
<1>8. ASSUME NEW s \in HttpSlots, Request(s)
      PROVE  RetryKnown'
  <2>1. s \in Slots /\ Only(s) /\ s # "retry"
    BY <1>2, <1>8, RequestStarts DEF Starts
  <2> QED BY <1>4, <2>1
<1>9. ASSUME NEW j \in Jobs, FetchStep(j)
      PROVE  RetryKnown'
  <2>1. CASE FetchTrigger(j)
    <3>1. "trigger" \in Slots /\ (UNCHANGED frame \/ Only("trigger"))
      BY <2>1, FetchOpens DEF Opens
    <3> QED BY <1>2, <1>4, <1>5, <3>1
  <2>2. CASE FetchRetry(j)
    <3>1. \/ UNCHANGED frame
          \/ Exists(j.id) /\ frame'["retry"].id = j.id
      BY <2>2, FetchOpens DEF Opens
    <3> QED BY <1>1, <1>5, <3>1 DEF Exists, FlowRunStatus, Rec, RetryKnown
  <2>3. ASSUME NEW w \in Flows, FetchDispatch(w, j)
        PROVE  RetryKnown'
    <3>1. w \in Slots /\ w # "retry" /\ (UNCHANGED frame \/ Only(w))
      BY <1>2, <2>3, FetchBatch
    <3> QED BY <1>4, <1>5, <3>1
  <2> QED BY <1>9, <2>1, <2>2, <2>3 DEF FetchStep
<1>10. CASE (\E w \in Flows : CronTick(w)) \/ (\E n \in DOMAIN nlpearl : CallFinishes(n))
             \/ Quiescent \/ UNCHANGED vars
  BY <1>5, <1>10 DEF CronTick, CallFinishes, Quiescent, vars
<1> QED BY <1>6, <1>7, <1>8, <1>9, <1>10 DEF Next

\* No resend is ever taken back, and a record keeps its flow until it is deleted.
LEMMA ResendsGrow ==
  ASSUME TypeInv, TypeInv', Grows, [Table!Next]_(Table!vars), UNCHANGED cron
  PROVE  DoublesStay
<1> SUFFICES ASSUME NEW i \in Ids
             PROVE  Doubled(i) \in Nat /\ Doubled(i)' \in Nat /\ Doubled(i)' >= Doubled(i)
  BY DEF DoublesStay
<1>1. PICK m, n : m = tally[i].resent /\ n = tally'[i].resent
  OBVIOUS
<1>2. m \in Nat /\ n \in Nat
  BY <1>1 DEF TypeInv, TypeOK, Tally
<1>3. n >= m
  <2>1. tally \in [Ids -> Tally] /\ tally' \in [Ids -> Tally]
    BY DEF TypeInv, TypeOK
  <2>2. PICK R, Q : R = [k \in Ids |-> tally[k].resent] /\ Q = [k \in Ids |-> tally'[k].resent]
    OBVIOUS
  <2>3. Q = R \/ \E k \in Ids : Q = [R EXCEPT ![k] = @ + 1]
    BY <2>2, SameWords
       DEF Table!vars, Table!Next, Table!Create, Table!Accept, Table!Transition, Table!Retry,
           Table!Resend, Table!MarkCta, Table!Place, Table!RecordCall, Table!RecordEnd, Table!Delete
  <2>4. R[i] = m /\ Q[i] = n
    BY <1>1, <2>2
  <2>5. CASE Q = R
    BY <1>2, <2>4, <2>5
  <2>6. ASSUME NEW k \in Ids, Q = [R EXCEPT ![k] = @ + 1]
        PROVE  n >= m
    <3>1. DOMAIN R = Ids
      BY <2>2
    <3>2. Q[i] = IF i = k THEN R[i] + 1 ELSE R[i]
      BY <2>6, <3>1
    <3> QED BY <1>2, <2>4, <3>2
  <2> QED BY <2>3, <2>5, <2>6
<1>4. CASE runs[i].status = "none" \/ (Exists(i) /\ runs[i].key.flow \notin cron)
  <2>1. Doubled(i) = 0
    BY <1>4 DEF Doubled
  <2>2. Doubled(i)' = 0 \/ Doubled(i)' = n
    BY <1>1 DEF Doubled
  <2> QED BY <1>2, <2>1, <2>2
<1>5. CASE ~(runs[i].status = "none" \/ (Exists(i) /\ runs[i].key.flow \notin cron))
  <2>1. Doubled(i) = m
    BY <1>1, <1>5 DEF Doubled
  <2>2. runs'[i].status # "none" /\ (Exists(i)' => runs'[i].key.flow \in cron)
    BY <1>5, KeysKept DEF Grows
  <2>3. Doubled(i)' = n
    BY <1>1, <2>2 DEF Doubled
  <2> QED BY <1>2, <1>3, <2>1, <2>3
<1> QED BY <1>4, <1>5

LEMMA NextSmsInv ==
  ASSUME TypeInv, TypeInv', RecordInv, FrameInv, SmsInv, [Next]_vars, [Undisturbed]_vars
  PROVE  SmsInv'
<1>1. Grows /\ [Table!Next]_(Table!vars)
  BY StepRefines, TableGrows
<1>2. UNCHANGED cron /\ \A f \in Flows : HasSchedule(f)' <=> HasSchedule(f)
  BY DEF Undisturbed, HasSchedule, vars, db, boss
<1>3. DoublesStay
  BY <1>1, <1>2, ResendsGrow
<1>4. CronFits'
  BY <1>2 DEF SmsInv, CronFits
<1>5. CASE ~Restart
  <2>1. used'["restart"] = used["restart"]
    BY <1>5, RestartsCounted
  <2>2. BatchInv'
    BY <1>2, <1>5, NextBatchInv DEF SmsInv
  <2>3. DeliveryInv'
    BY <1>1, <1>2, <1>5, NextDeliveryInv DEF SmsInv
  <2>4. RetryKnown'
    BY <1>1, <1>2, <1>5, NextRetryKnown DEF SmsInv
  <2>5. ASSUME NEW i \in Ids
        PROVE  WithinGrant(i)'
    BY <1>1, <1>2, <1>3, <1>5, <2>1, HandlerWithin, FetchWithin, FreeWithin DEF Next
  <2> QED BY <1>4, <2>2, <2>3, <2>4, <2>5 DEF SmsInv
<1>6. CASE Restart
  <2>1. \A s \in Slots : frame'[s] = Idle
    BY <1>6 DEF Restart
  <2>2. BatchInv'
    <3>1. ASSUME NEW w \in Flows
          PROVE  ListFits(frame'[w]) /\ frame'[w].pc = "idle"
      BY <2>1, WorkerSlots DEF ListFits, Idle
    <3>2. ASSUME NEW w \in Flows, w \notin cron, NEW j \in Jobs, j.on = w
          PROVE  queue'[j] = 0
      <4>1. w \in Slots /\ frame[w].pc = "idle" /\ queue[j] = 0
        BY <3>2, WorkerSlots DEF SmsInv, BatchInv
      <4>2. frame[w].job = Null
        BY <4>1 DEF FrameInv, FrameFits, Idle
      <4> QED BY <1>6, <3>2, <4>1, <4>2 DEF Restart
    <3> QED BY <1>2, <3>1, <3>2 DEF BatchInv
  <2>3. DeliveryInv'
    BY <2>1 DEF DeliveryInv, DeliveryFits, Idle
  <2>4. RetryKnown'
    BY <2>1, WorkerSlots DEF RetryKnown, Idle
  <2>5. ASSUME NEW i \in Ids
        PROVE  WithinGrant(i)'
    BY <1>2, <1>3, <1>6, RestartWithin
  <2> QED BY <1>4, <2>2, <2>3, <2>4, <2>5 DEF SmsInv
<1> QED BY <1>5, <1>6

LEMMA InitSmsInv == Init => SmsInv
<1> SUFFICES ASSUME Init PROVE SmsInv
  OBVIOUS
<1>1. /\ \A s \in Slots : frame[s] = Idle
      /\ \A j \in Jobs : queue[j] = 0
      /\ \A i \in Ids : runs[i].status = "none"
      /\ \A i \in Ids : accepted[i] = 0 /\ tally[i] = [sent |-> 0, retried |-> 0, resent |-> 0]
      /\ config \in [Flows -> Configs] /\ cron = {f \in Flows : config[f].enabled /\ config[f].sendSchedule}
  BY DEF Init, NoRow
<1>2. \A s \in Slots : frame[s].pc = "idle" /\ frame[s].list = {}
  BY <1>1 DEF Idle
<1>3. CronFits
  BY <1>1, NullAssumption DEF CronFits, HasSchedule
<1>4. BatchInv
  BY <1>1, <1>2, WorkerSlots DEF BatchInv, ListFits
<1>5. DeliveryInv /\ RetryKnown
  BY <1>2, WorkerSlots DEF DeliveryInv, DeliveryFits, RetryKnown
<1>6. ASSUME NEW i \in Ids
      PROVE  WithinGrant(i)
  <2>1. Texting(i) = {}
    BY <1>1, <1>2 DEF Texting, ToText, Listed, Waits
  <2>2. JobTokens("retry", i) = {}
    <3>1. ASSUME NEW x \in JobTokens("retry", i)
          PROVE  FALSE
      <4>1. PICK j \in JobsFor("retry", i) : \E k \in 1 .. queue[j] : x = <<"job", j, k>>
        BY WaitingMember
      <4> QED BY <1>1, <4>1 DEF JobsFor
    <3> QED BY <3>1
  <2>3. Owed(i) = {}
    BY <2>1, <2>2, OwedMember
  <2>4. Granted(i) = 0 /\ tally[i].sent = 0
    <3>1. used["restart"] = 0
      BY BoundsAssumption DEF Init
    <3> QED BY <1>1, <3>1 DEF Granted, Forgiven
  <2>5. Doubled(i) = 0
    BY <1>1 DEF Doubled
  <2> QED BY <2>3, <2>4, <2>5, FS_EmptySet DEF WithinGrant
<1> QED BY <1>3, <1>4, <1>5, <1>6 DEF SmsInv

\* SmsPerAttempt: while no flow's schedule is set or cleared, no record is texted
\* more often than it was accepted from N8N, put up for retry or resent, and once
\* more for each resend where there is a schedule and twice for each crash,
\* however handlers, retries and batches overlap and wherever they are cut off
\* (dispatchOne, dispatchPending, scheduleRetry, resendNow, pg-boss).
THEOREM OneTextPerAttempt == Spec /\ [][Undisturbed]_vars => []SmsPerAttempt
<1>1. TypeInv /\ SmsInv => SmsPerAttempt
  <2> SUFFICES ASSUME TypeInv, SmsInv, NEW i \in Ids
               PROVE  tally[i].sent <= accepted[i] + tally[i].retried + tally[i].resent
                                       + Doubled(i) + 2 * used["restart"]
    BY DEF SmsPerAttempt
  <2>1. /\ WithinGrant(i) /\ tally[i].sent \in Nat /\ Forgiven \in Nat
        /\ accepted[i] \in Nat /\ tally[i].retried \in Nat /\ tally[i].resent \in Nat
    BY GrantType, ForgivenType DEF SmsInv
  <2>2. Cardinality(Owed(i)) \in Nat /\ Doubled(i) \in Nat
    BY <2>1, FS_CardinalityType DEF WithinGrant, Doubled
  <2>3. tally[i].sent <= Granted(i) + Doubled(i)
    BY <2>1, <2>2 DEF WithinGrant, Granted
  <2> QED BY <2>1, <2>2, <2>3 DEF Granted, Forgiven
<1>2. TypeInv /\ TypeInv' /\ RecordInv /\ FrameInv /\ SmsInv /\ [Next]_vars /\ [Undisturbed]_vars
        => SmsInv'
  BY NextSmsInv
<1> QED BY <1>1, <1>2, InitSmsInv, TypeInvariance, FrameInvariance, RecordInvariance, PTL DEF Spec

============================================================================
