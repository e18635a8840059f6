--------------------------- MODULE OutreachState ---------------------------
(***************************************************************************)
(* The state the handlers of the orchestrator share, and the vocabulary    *)
(* their modules are written in:                                           *)
(*                                                                         *)
(*   - the Postgres tables flow_configs, flow_runs and nlpearl_calls;      *)
(*   - pg-boss: the delayed jobs, the cron schedules;                      *)
(*   - the Node process: one frame per handler in flight.  A handler is    *)
(*     cut at its awaits, one step per database statement or HTTP call, so *)
(*     everything it has read is a snapshot kept in its frame;             *)
(*   - the NLPearl service: the calls really placed;                       *)
(*   - tallies of what was sent, which no code reads.                      *)
(***************************************************************************)
EXTENDS RetryPolicy, FiniteSets

CONSTANTS
  Phones, Flows, Mpls,
  Keys,          \* the identities (phone, flow, mpl) that N8N submits
  Requests,      \* request ids, N8N's own or synthesized
  Configs,       \* the settings a flow may be given
  Outcomes,      \* what a finished call may have come to
  HttpSlots,     \* HTTP requests served at the same time
  MaxRuns,       \* bound: records ever created
  RetryLimit,    \* how often pg-boss redelivers a job whose handler threw
  Inputs,        \* kinds of input the environment gives
  Budget,        \* bound: how many of each kind
  Faults         \* what may go wrong outside the process

Ids == 1 .. MaxRuns

Settings == [enabled : BOOLEAN, sendSchedule : BOOLEAN, delayMinutes : Nat,
             maxRetryAttempts : Nat,
             retryOnCallStatuses : Seq([text : STRING, padded : BOOLEAN]),
             retryOnConversationStatuses : Seq([text : STRING, padded : BOOLEAN]),
             retryMinCallDurationSeconds : Nat \cup {Null}]

\* What the handlers take for granted of the values they are given.
ASSUME KeysAssumption == Keys \subseteq [phone : Phones, flow : Flows, mpl : Mpls]
ASSUME NullAssumption == Null \notin Flows \cup Keys \cup Requests \cup Configs \cup Outcomes
ASSUME ConfigsAssumption == Configs # {} /\ Configs \subseteq Settings
ASSUME SlotsAssumption ==
  /\ IsFiniteSet(HttpSlots)
  /\ HttpSlots \cap (Flows \cup {"trigger", "retry"}) = {}
  /\ {"trigger", "retry"} \cap Flows = {}
ASSUME BoundsAssumption ==
  /\ MaxRuns \in Nat /\ RetryLimit \in Nat
  /\ Budget \in [Inputs -> Nat] /\ "restart" \in Inputs

\* CallEnded is declared in the schema and written nowhere.
FlowRunStatus == {"Received", "PreSmsSent", "Scheduled", "CallTriggered",
                  "ConsentGiven", "Completed", "Failed"}

\* pg-boss has one queue per job name: trigger-nlpearl-call, retry-flow-run
\* and one dispatch queue per flow, named here by the flow.  Each has one
\* worker, named like its queue, which runs one job at a time.
Workers == {"trigger", "retry"} \cup Flows
Slots   == HttpSlots \cup Workers
Jobs    == [on : Workers, id : 0 .. MaxRuns, tries : 0 .. RetryLimit]

\* A handler that runs no job has Null there.
ASSUME JobsAssumption == Null \notin Jobs

VARIABLES
  config,        \* flow_configs: settings of each flow, Null when it has none
  runs,          \* flow_runs
  calls,         \* nlpearl_calls, per record in creation order
  queue,         \* pg-boss jobs created or waiting for redelivery
  cron,          \* flows with a pg-boss schedule
  registered,    \* registeredWorkers: flows whose dispatch worker polls
  frame,         \* handlers in flight
  nlpearl,       \* the calls placed at NLPearl, in order
  tally,         \* per record: heads-up texts, retries, resends
  accepted,      \* per record: deliveries accepted
  used           \* inputs given so far

vars == <<config, runs, calls, queue, cron, registered, frame, nlpearl,
          tally, accepted, used>>

----------------------------------------------------------------------------
(* Rows.  A record is "none" until created, "deleted" afterwards; ids are  *)
(* handed out in creation order, as uuids never reused.                    *)

NoRow   == [status |-> "none", key |-> Null, req |-> Null, attempt |-> 0, cta |-> FALSE]
Deleted == [NoRow EXCEPT !.status = "deleted"]

Row == [status : FlowRunStatus \cup {"none", "deleted"}, key : Keys \cup {Null},
        req : Requests \cup {Null}, attempt : Nat, cta : BOOLEAN]

CallRow    == [request : Nat, call : Nat]    \* indices into nlpearl, 0 for null
PlacedCall == [run : Ids, phone : Phones, outcome : Outcomes \cup {Null}]
Tally      == [sent : Nat, retried : Nat, resent : Nat]

Exists(i)  == i \in Ids /\ runs[i].status \in FlowRunStatus
Records    == {i \in Ids : Exists(i)}
WithKey(k) == {i \in Records : runs[i].key = k}
NextId(i)  == /\ runs[i].status = "none"
              /\ \A j \in 1 .. i - 1 : runs[j].status # "none"

\* FlowRun.status and its event are written in one statement; the trail
\* itself is not kept.
SetStatus(i, st) == runs' = [runs EXCEPT ![i].status = st]

----------------------------------------------------------------------------
(* Frames.                                                                 *)

Snapshot == [id : Ids, cta : BOOLEAN]

Ops == {"idle", "flowTrigger", "ctaComplete", "consent", "callEnded", "resend",
        "remove", "config", "trigger", "retry", "dispatch"}

\* The await a handler is at, named by what comes next.
Pcs == {"idle", "ing.config", "ing.write", "skip", "sms", "presms", "fail",
        "enqueue", "scheduled", "trig.config", "trig.call", "trig.record",
        "bump", "bump.enqueue", "retry.config", "batch.list", "batch.next",
        "resend.config", "resend.bump", "cta.write", "con.config", "con.sms",
        "con.write", "end.get", "end.row", "end.config", "end.done", "delete",
        "conf.write", "conf.delete", "conf.sync"}

Frame == [op : Ops,
          pc : Pcs,
          id : 0 .. MaxRuns,               \* the record at hand
          attempt : Nat,                   \* its attemptCount when read
          cta : BOOLEAN,                   \* its ctaCompleted when read
          conf : Configs \cup {Null},      \* the flow's settings when read
          key : Keys \cup {Null},          \* of the request or the record
          req : Requests \cup {Null},
          flow : Flows \cup {Null},
          call : Nat,                      \* the NLPearl call, 0 for none
          row : Nat,                       \* the call row to complete, 0 for none
          list : SUBSET Snapshot,          \* rest of a batch
          job : Jobs \cup {Null}]          \* the job a worker is running

Idle == [op |-> "idle", pc |-> "idle", id |-> 0, attempt |-> 0, cta |-> FALSE,
         conf |-> Null, key |-> Null, req |-> Null, flow |-> Null, call |-> 0,
         row |-> 0, list |-> {}, job |-> Null]

At(s, pc)   == frame[s].pc = pc
Rec(s)      == frame[s].id
Goto(s, pc) == frame' = [frame EXCEPT ![s].pc = pc]
Return(s)   == frame' = [frame EXCEPT ![s] = Idle]

\* What a handler keeps of a record it has just read.
Reading(f, i) == [f EXCEPT !.id = i, !.key = runs[i].key,
                           !.attempt = runs[i].attempt, !.cta = runs[i].cta]

\* Mutant: the CTA is not looked at.
UnlessCtaForgotten(f, pc) == [f EXCEPT !.pc = pc]

\* Where a handler goes that has asked skipIfCtaCompleted about its snapshot.
UnlessCta(f, pc) == [f EXCEPT !.pc = IF f.cta THEN "skip" ELSE pc]

----------------------------------------------------------------------------
(* pg-boss.                                                                *)

NewJob(on, i) == [on |-> on, id |-> i, tries |-> RetryLimit]
Enqueue(j)    == queue' = [queue EXCEPT ![j] = @ + 1]

\* The job goes back to its queue unless its retries are used up.
Redeliver(q, j) ==
  IF j # Null /\ j.tries > 0
  THEN [q EXCEPT ![[j EXCEPT !.tries = @ - 1]] = @ + 1]
  ELSE q

\* An exception leaves the handler: HTTP 4xx/5xx, or a failed job.
Throw(s) ==
  /\ Return(s)
  /\ queue' = Redeliver(queue, frame[s].job)

\* A call job enqueued with a delay does not fire before the statement that
\* follows its enqueueing: a minute against one round trip to Postgres.
Unripe(i) == Cardinality({s \in Slots : /\ At(s, "scheduled") /\ Rec(s) = i
                                        /\ frame[s].conf.delayMinutes > 0})
Ripe(j) == j.on = "trigger" /\ j.tries = RetryLimit => queue[j] > Unripe(j.id)

Fetchable(j) ==
  /\ queue[j] > 0
  /\ At(j.on, "idle")
  /\ j.on \in Flows => j.on \in registered
  /\ Ripe(j)

\* Worker `s' takes job `j' and reads the record it names; a job for a record
\* that is gone ends there.
Fetch(s, j) ==
  /\ j.on = s
  /\ Fetchable(j)
  /\ queue' = [queue EXCEPT ![j] = @ - 1]

----------------------------------------------------------------------------
(* Inputs and tallies.                                                     *)

Spend(input) == /\ used[input] < Budget[input]
                /\ used' = [used EXCEPT ![input] = @ + 1]

Count(i, what) == tally' = [tally EXCEPT ![i][what] = @ + 1]

db     == <<config, runs, calls>>
boss   == <<queue, cron, registered>>
seen   == <<tally, accepted>>

----------------------------------------------------------------------------
Init ==
  /\ config \in [Flows -> Configs]
  /\ runs = [i \in Ids |-> NoRow]
  /\ calls = [i \in Ids |-> <<>>]
  /\ queue = [j \in Jobs |-> 0]
  /\ cron = {f \in Flows : config[f].enabled /\ config[f].sendSchedule}
  /\ registered = cron
  /\ frame = [s \in Slots |-> Idle]
  /\ nlpearl = <<>>
  /\ tally = [i \in Ids |-> [sent |-> 0, retried |-> 0, resent |-> 0]]
  /\ accepted = [i \in Ids |-> 0]
  /\ used = [x \in Inputs |-> 0]

TypeOK ==
  /\ config \in [Flows -> Configs \cup {Null}]
  /\ runs \in [Ids -> Row]
  /\ calls \in [Ids -> Seq(CallRow)]
  /\ queue \in [Jobs -> Nat]
  /\ cron \subseteq Flows
  /\ registered \subseteq Flows
  /\ frame \in [Slots -> Frame]
  /\ nlpearl \in Seq(PlacedCall)
  /\ tally \in [Ids -> Tally]
  /\ accepted \in [Ids -> Nat]
  /\ used \in [Inputs -> Nat]

============================================================================
