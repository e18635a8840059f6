# A TLA+ model of the NLPearl orchestrator

The orchestrator sits between N8N (which submits clients), an SMS gateway, the
NLPearl calling service and the staff who use its dashboard.  For every client
it sends a heads-up text, waits, has NLPearl call, reacts to what NLPearl
reports and retries within limits.  It is one Node process over one Postgres
database: the handlers are `async` functions that interleave at every `await`,
so what a handler decides on is what the database held when it read it.  That
interleaving, with crashes, redelivered jobs, lost answers and webhooks out of
order, is what this project models.

## 1. Inventory

| Component | State it keeps | Operations | Correct when |
|---|---|---|---|
| **Ingest** (`ingest.service.ts`) | – | flow-trigger: create, restart or ignore a record; cta-complete | one record per (phone, flow, mpl) however deliveries race; a restart loses no count |
| **Message dispatch** (`message-dispatch.service.ts`) | `registeredWorkers` | `dispatchOne` (text, then a delayed call job), `dispatchPending` (cron batch), `handleRetry`, `scheduleRetry`, `resendNow`, `syncSchedule`, `removeSchedule`, `onModuleInit` | a text before each call, no attempt texted twice, no record left lying, one bad record does not stop a batch |
| **Retry policy** (`retry-policy.ts`) | – | `withinRetryCap`, `needsRetry`, `needsRetryAfterTriggerFailure` | the cap counts retries, the column counts attempts |
| **Call trigger worker** (`call-trigger.worker.ts`) | – | one job: read the record, ask for the CTA, read the settings, call, record | a job places at most one call per delivery; a failed call is retried or fails |
| **NLPearl webhooks** (`webhooks.service.ts`) | – | consent, call-ended | the end of a call is written to the record and the row of that call; retries are decided once per call |
| **Flow runs** (`flow-runs.service.ts`, `flow-run-transition.service.ts`) | – | list (two statements), detail, resend, remove; `transition` | a deleted record stays deleted; who pages through the list misses none that can be told apart by its moment |
| **Flow config** (`flow-config.service.ts`, its DTOs) | – | list, create, update, remove; what a field may hold, what a PATCH leaves alone | the schedule at pg-boss follows the settings; a column holds what its type admits |
| **Scheduler** (`scheduler.service.ts`) | the pg-boss queues | `enqueueDelayed`, `registerWorker`, `scheduleCron`, `unschedule` | thin wrapper; delivery is pg-boss's |
| **Database** (`schema.prisma`) | `flow_configs`, `flow_runs`, `nlpearl_calls`, `flow_run_events` | – | unique index on the identity, cascade of a delete |
| **NLPearl and notification clients** | – | `makeCall`, `getCall`, `sendSms` | an exception means refused *or* done with the answer lost |
| Enrichment, template rendering, API-key guard, health check | – | pure or read-only | – |
| **Records pages** (`flow-runs/page.tsx`, `flow-runs/[id]/page.tsx`) | per tab: the boxes, the page number, the answer shown, what is loading or in error | set a box, Previous, Next, open, Resend, Delete | what is shown answers what is asked; a deleted record is gone from the list; no button stays dead |
| **Flow Config page** (`flow-config/page.tsx`) | per tab: the table, the form open and for which flow | edit, new, type, Save, Cancel, Delete | a save changes what was changed in the form and nothing else |

The components interact in four ways: by direct calls inside the process
(ingest, webhooks and flow runs call message dispatch), by rows of the database
that several handlers read and write, by pg-boss jobs that carry nothing
but a record id, and by the HTTP requests of the pages, whose answers come back
to React state that has moved on.  What is hard:

- **interleaving at awaits**: two deliveries, a webhook and a worker, a batch
  and a delete, each holding a snapshot;
- **two writes that belong together**: count and job, job and status, settings
  and schedule, call and call row;
- **unreliable delivery**: N8N and NLPearl repeat and reorder webhooks, pg-boss
  redelivers a job whose handler threw or died;
- **timeouts that hide success**: a text or a call was made, its answer lost;
- **crashes**: handlers vanish, rows and jobs stay;
- **correlation**: NLPearl names a phone, the system means a record;
- **answers out of order**: two questions of one page, a page left while it asks;
- **a value in many forms**: text in an input, absent or a number in JSON, NULL or
  INTEGER in a column.

`PROJECT.json` lists each hazard at its line with the property that watches it.

## 2. The modules

```
RetryPolicy -> OutreachState -> MessageDispatch -+-> Ingest ------------------+
                                                 +-> CallTrigger              |
                                                 |     -> NlpearlWebhooks ----+-> Orchestrator -> MCOrchestrator
                                                 +-> Administration ----------+        |
                                                                                       v
                     RecordTable (abstract tables) ..implemented by Orchestrator..  TypeProofs -> RecordProofs
                                                                                      -> ContactProofs -> FrameProofs -> TextProofs

DashboardState -+-> RecordsPage  -+-> Dashboard -> MCDashboard
                +-> SettingsPage -+        |
                                           v
                                    DashboardProofs -> PageProofs
```

| Module | Models |
|---|---|
| `RetryPolicy` | `retry-policy.ts`, operator by operator.  A CSV setting is the sequence of cells `split(",")` returns, with blank and padded cells. |
| `OutreachState` | The tables, the queues, the frames of the handlers in flight; what it means to go on, return, throw, enqueue, take a job; `Init` and `TypeOK`. |
| `MessageDispatch` | `dispatchOne` with its ways in, retries, the batch, the schedules. |
| `Ingest` | flow-trigger and cta-complete. |
| `CallTrigger` | the call worker and NLPearl as far as the code sees it. |
| `NlpearlWebhooks` | consent and call-ended. |
| `Administration` | Resend and Delete, and the settings of a flow. |
| `Orchestrator` | all of it interleaved, restarts, fairness, the properties. |
| `MCOrchestrator` | instances for TLC: settings, outcomes, budgets. |
| `RecordTable` | `flow_runs` and `nlpearl_calls` abstractly: one action per statement the services make on them, without the handlers around the statements; what the tables keep, proved. |
| `TypeProofs` | the proof of type correctness. |
| `RecordProofs` | the proof that `Orchestrator` implements `RecordTable`, and what follows. |
| `ContactProofs` | the proofs that no call comes without a text and that a CTA that was read is honoured by those who ask about it. |
| `FrameProofs` | how a handler walks from await to await; the proofs about decisions taken from what was read before: the cap on retries, the schedules. |
| `TextProofs` | texts and calls counted against what paid for them; that no record is left lying. |
| `DashboardState` | browser tabs, requests in flight, the tables as the HTTP services answer for them; what the columns and the inputs may hold. |
| `RecordsPage` | the list and the page of a record, with the queries of `FlowRunsService` behind them. |
| `SettingsPage` | the Flow Config page from input to column: form, payload, DTO, `normalizeEmptyStrings`, Prisma. |
| `Dashboard` | both pages over both tables, what arrives and moves meanwhile, fairness, the properties. |
| `MCDashboard` | scenarios for TLC. |
| `DashboardProofs` | the proof of type correctness of the dashboard. |
| `PageProofs` | the proofs of what the pages say of deleted records, of requests under way and of what is asked, that turning the pages misses no record, and that a save leaves alone what was not touched. |

### How state and actions correspond to the code

A row of `flow_runs` is a record in `runs` with its status, identity, last
request id, `attemptCount` and `ctaCompleted`; `calls` holds the rows of
`nlpearl_calls` by record, with the two NLPearl ids they have (the id `makeCall`
returned, and the id the webhook reported); `config` is `flow_configs`, `Null`
for a flow without settings.  `queue` counts pg-boss jobs, `cron` its schedules,
`registered` is the process's `registeredWorkers`.  `nlpearl` is what happened
in the world: the calls that were really placed.  `tally` and `accepted` count
what properties speak of and no code reads.

A handler in flight occupies a slot, an HTTP slot or the one worker of a queue,
and `frame[slot]` holds its local variables.  `pc` names the statement it goes on
with.  One action runs from one `await` to the next, so it holds **one** database
statement or HTTP call, with the code around it.  When a Prisma `update` of a
record that is gone throws, the action has the disjunct for it: inside a `try`
it goes where the `catch` goes, otherwise `Throw` ends the handler, which for a
worker puts its job back (`Redeliver`).

What a request reads first is part of the action that starts it, because nothing
it could be interleaved with has been read before.

The dashboard is modelled beside the backend and not on top of it: what goes
wrong between a page and a table does not depend on how handlers interleave, and
the handlers' interleaving is `Orchestrator`'s subject.  `tab[t]` is the page a tab
shows with the values of its `useState` hooks; `conn[c]` is a request with who
asked, what for, how far it is and its answer.  A request goes through the service
in one action, but for the list query, which is two statements at READ COMMITTED,
each seeing the table as it finds it.  Its answer reaches the page in another
action, in any order with others.  A page that is left drops the answers to
what it read (a component that is gone sets no state); what it asked to be
changed is done nonetheless, and its callbacks find no page, except a delete's,
which still takes the tab to the list.

Four fields are there for the properties alone: `due`, `seen`, `since`,
`overlapped` of the list and `base` of the form; so are `gone` and `departures`.

### Abstractions, and why they keep what matters

In the backend:

- **Texts** (templates, names, summaries, answers to N8N) are left out; no
  property is about them.  `renderTemplate` and enrichment are pure.
- **Time** is left out, except that a call job enqueued with a delay of minutes
  does not run before the next statement of the handler that enqueued it
  (`Ripe`).  A delay of zero is accepted by the DTO; with it the call worker can
  overtake (see 6).
- **The event trail** (`flow_run_events`) is not kept.  It is written in the
  same statement as the status, and nothing reads it but the detail page.
- **pg-boss** is external: a job is handed to the one worker of its queue,
  put back up to `RetryLimit` times when the handler throws or dies.  A job
  that expires while its handler lives on is not modelled.
- **Restart** is one action: the process dies and `onModuleInit` runs before
  the next request.
- **A PATCH of settings** is, in `Administration`, the settings it leads to;
  how it leads there is in `SettingsPage`.
- **The 400 for a blank name** changes nothing and is left out.
- **Postgres and `boss.send` answer.**  Their errors are left out: a statement throws
  only where the row it needs is gone or the index refuses it.  What happens when
  they fail between two writes that belong together is what a crash there does,
  but that the handler goes on to throw (see 7).
- **Records are created one after the other**: where the code takes the newest by
  `createdAt`, the model takes the newest by id.
- Bounds, all constants: `MaxRuns` records, `Budget` inputs of each kind,
  `RetryLimit` redeliveries, `HttpSlots` concurrent requests.  There is no bound
  on anything the program itself does.

In the dashboard:

- **`createdAt` is a moment** that several records can share.  The list is ordered by it
  alone, so `PagesOf` gives every page that some order of the records of one moment
  leads to, and each query chooses anew.
- **Handlers are atomic** apart from the list query.  A resend is the increment and
  the status its text leads to; a record moves on its own by `Progresses`.
- **A request that is lost** may be lost at any moment, so what it asked may have
  been done.  This also stands for a save whose row is written and whose schedule
  pg-boss then refuses.
- **A record matches a search** by the words that its phone, name and mpl contain;
  `contains` on three columns is one membership.
- **The Flow box** may be set to any flow, not only to those the page has loaded.
- **Texts** of inputs and columns are model values; blank, the default time zone and
  some other text are what the code tells apart.
- **A connection** is any free one of `Connections`, two at a time.  `fetch` has no
  such limit; two suffice for one answer to overtake another.
- **Navigation** is one action: the old page unmounts and the effect of the new one
  asks.
- **What a page only displays** (call history, timeline, summary) is left out.

## 3. Runs

Every passing run uses its specification as a whole; a `.cfg` chooses which inputs
meet (`Budget`, or `left` of a scenario), which settings the flow may have and what
may go wrong (`Faults`).  Inputs not in a budget are zero.

| Run | Inputs that meet | Shows |
|---|---|---|
| `Lifecycle` | one delivery, two call-ended, two crashes at any point; two HTTP slots, a flow that sends at once, one retry, jobs tried once more, every fault of the gateway and of NLPearl | `TypeOK`; whatever overlaps, something is at work on each record on its way to a call before the first crash (`NothingStranded`); as long as Postgres and `boss.send` answer, nothing but a crash leaves a record lying for good, and only when it catches a request between two writes, or a worker whose job has no tries left (`OnlyCrashesStrand`); the cap can be passed, but by no more than can decide at once (`RetryOvershoot`) |
| `Identity` | two deliveries for two cases of a phone, a webhook, a CTA report (given or withdrawn), two deletes; refused calls, lost answers | one row per identity, call rows on the record called, deletes are final; a call is placed only with a text of its own (`HeadsUpPerCall`); a handler that asks about the CTA and has seen it does not go on (`CtaHonoured`); every step is a statement of `RecordTable` or none (`TableKept`, the refinement) |
| `Restarts` | one HTTP slot: a delivery, a webhook, a change and a removal of settings, a tick, a crash at any point; refused texts | no call without a text before it (`NoColdCall`); no more calls than texts and restarts, although a redelivered job calls again (`CallsWithinTexts`); schedules follow settings (`ScheduleArmed`) |
| `Recovery` | a delivery, a resend, two cron ticks, a crash at any point, on a flow with a schedule; one retry allowed, refused calls, jobs tried once more | the count loses no attempt (`AttemptAccounting`); a resend on such a flow and a crash text a record again, the one once, the other twice, and nothing else does (`SmsPerAttempt`; both happen together) |
| `OneByOne` | one HTTP slot: a delivery, a CTA report, a consent, three call-ended, a tick; two retries, fairness | the cap is exact when nothing decides at the same time (`RetryCap`); records leave `Scheduled` (`ScheduledLeaves`), handlers return (`HandlersReturn`); with a batch and a consent about, those who ask about the CTA stop at it (`CtaHonoured`) |
| `Dashboard` | two tabs; one of five scenarios: paging and filtering while records arrive, two of them at one moment or each at its own, and move, Resend and Delete of records, two forms of one flow, a form filled in with numbers of every kind, flows deleted while one is edited; all but the third with a request lost | what the tables hold is of its column's type whatever is typed (`TypeOK`); the table shows what the boxes ask for unless two questions overlapped (`ShownAsAsked`); nobody who turns all pages misses a record created at a moment of its own, unless one left the list (`NoneMissed`); a record deleted before one's eyes is not listed again (`DeletedNotListed`); a button is disabled exactly while its request is open (`ButtonsTellTheTruth`), and no page waits for ever (`PagesSettle`); a save leaves alone what was not touched (`SaveKeepsUntouched`) |

The interesting cases happen at these sizes.  A race needs two handlers over one
record and a third to upset them (two HTTP slots and the workers); retries need
the cap to be reached (one or two, with more webhooks than that); identity needs
two deliveries of the same and of a different case.  In the dashboard an answer is
overtaken by one other, pages of one record make three records three pages, two
tabs suffice for one to spoil what the other holds, and `MaxInt` of 10, the delay of
a new form, leaves room for a number beyond it.  Each property is broken by
a bug written into the code it guards (`mutants` in `PROJECT.json`; the mutated
operators stand before the ones they replace, marked `Mutant`).

`NothingStranded` speaks of the time before the first crash: after one it fails, for the
reasons in section 6, and what a crash does to it is `OnlyCrashesStrand`.  `Lifecycle`
has two crashes so that a job can be given back, taken up again and lost at its last
try.  `SmsPerAttempt` counts the texts a crash costs and those of a resend on a flow with
a schedule (`Doubled`); in `Recovery` the numbers it allows are reached.  It is not
checked while a schedule is set or cleared: then a handler that read the settings before
and a batch started after both text.  Nor does it hold once a job expires under a handler that
lives on (section 2).  Two deliveries for one record meet in `Identity`
only; that they and a batch do not text it twice is left to the proof.  `BadOnly` ends
every call with what the rules retry: where a run does not tell the two endings apart,
the one that goes on is the one that matters.

`CtaHonoured` is about what a handler has read.  Two handlers do not ask: Resend, which
is meant not to, and the consent webhook, whose text is a contact like the others;
`OutreachStops` leaves out Resend alone, as the documentation does, and `VCta` shows who
breaks it.

`NoneMissed` leaves out records that share their moment with another (`Tied`): the query
that reads one page and the query that reads the next may order the two differently.
For everybody else it holds whatever these orders are.

### Fairness

`FairSpec` assumes weak fairness of the steps of every handler in flight and of
every worker's fetching.  Handlers in flight are promises whose awaits settle:
Postgres answers or the connection breaks, and both HTTP clients set a timeout
(10 s and 15 s).  Workers are pg-boss polling loops, which live as long as the
process.  Nothing is assumed of N8N, NLPearl, staff, the cron ticks or crashes.
A job is weakly fair only in that *some* job of the queue is taken, never a
particular one.

`FairSpec` of `Dashboard` assumes weak fairness of each request in flight: it is
served or fails, and the callback of its promise runs.  Nothing is assumed of staff,
nor that anything is ever lost or not.

## 4. Where code and documentation disagree

Each of these runs checks one sentence of the documentation or of a comment and
finds a behaviour of the code that does not keep it.

| Run | The sentence | What happens |
|---|---|---|
| `VCta` | "once confirmed, all further automated outreach for that record stops"; "The only way to reach them again … is … Resend" | the consent webhook reads the record and asks about its status only: a client whose CTA came in during the call is sent the consent text |
| `VResend` | Resend re-queues the call "regardless of … whether the CTA is already marked complete" | the text goes out; the call worker, which asks about the CTA for every job, skips the call and completes the record |
| `VRows` | "The call CallTriggerWorker created … is the one this webhook completes" | with two records of one phone in calls, the end of one is written to the other |
| `VPause` | "Scheduled: … the call is queued"; Enabled pauses "without touching any records already in progress" | a retry comes due, the flow is switched off, and the retry job, which then reads the settings, ends: the record stays `Scheduled` with nothing queued for it |
| `VHistory` | "One row per real NLPearl call placed" | an answer lost to the timeout leaves a call without a row |
| `VBatch` | dispatchOne "never throws … one failure must not stop the rest" | a record deleted during its batch makes it throw; the rest waits for redelivery or the next tick |

## 5. Proofs

All theorems hold for every value of the constants, from the assumptions
`OutreachState` names: the identities are triples of phones, flows and mpls,
`Null` is no value of the tables and no job, there are settings a flow can have, slots and
workers have different names and the HTTP slots are finitely many, the bounds are
natural numbers; and, for the dashboard, those of `DashboardState`: the
inputs of the form and the scenarios hold values of their kinds, what stands for
null, undefined and the empty input is none of them, and a free connection is not
mistaken for a request.

| Theorem | States |
|---|---|
| `TypeProofs!TypeCorrect` | `Spec => []TypeOK` |
| `RecordTable!TableCorrect` | whatever the order of the statements, the tables keep `TableInv` |
| `RecordProofs!RecordInvariance` | what a handler goes by when it writes is still true when it writes |
| `RecordProofs!Implements` | `Spec => TableKept`: the orchestrator implements `RecordTable` |
| `RecordProofs!OneRow` | `Spec => []OneRowPerIdentity` |
| `RecordProofs!CountKept` | `Spec => []AttemptAccounting` |
| `RecordProofs!RowsKept` | `Spec => []CallRowsBelong` |
| `RecordProofs!DeletedKept` | `Spec => DeletedStaysDeleted` |
| `ContactProofs!NotCold` | `Spec => []NoColdCall`, crashes and redeliveries included |
| `ContactProofs!CtaKept` | `Spec => CtaHonoured` |
| `FrameProofs!SchedulesArmed` | `Spec /\ []OneChange => []ScheduleArmed` |
| `FrameProofs!OvershootBounded` | `Spec => []RetryOvershoot` |
| `FrameProofs!CapKeptOneByOne` | `Spec /\ []OneDecider => []RetryCap` |
| `TextProofs!CallsPaid` | `Spec => []CallsWithinTexts`, crashes and redeliveries included |
| `TextProofs!OneCallPerText` | `Spec /\ [][~Restart]_vars => []HeadsUpPerCall` |
| `TextProofs!NoneStranded` | `Spec /\ []SendsAtOnce => []NothingStranded` |
| `TextProofs!StrandedByCrash` | `Spec /\ []SendsAtOnce => OnlyCrashesStrand` |
| `TextProofs!OneTextPerAttempt` | `Spec /\ [][Undisturbed]_vars => []SmsPerAttempt` |
| `DashboardProofs!DashboardTyped` | `Spec => []TypeOK` of the dashboard |
| `PageProofs!DeletedUnlisted` | `Spec => []DeletedNotListed` |
| `PageProofs!ButtonsTruthful` | `Spec => []ButtonsTellTheTruth` |
| `PageProofs!ShownRight` | `Spec => []ShownAsAsked` |
| `PageProofs!NoRecordMissed` | `Spec => []NoneMissed` |
| `PageProofs!SavesKeep` | `Spec => SaveKeepsUntouched` |

**Types.** `TypeOK` is not inductive.  `MakeCall` dials `frame[s].key.phone`;
`ReadRetryConfig` looks up `config[frame[s].key.flow]`; `FindPendingCall` looks at
`calls[Rec(s)]`: each would be a value of no type if the handler could be at that
step without having read the record.  The inductive invariant `TypeInv` adds

- `RowsKnown`: every record that exists has an identity, and
- `FramesKnown`: a handler at a step that looks something up by the identity, the
  record or the flow in its frame has it there (`Known`).

The proof has one lemma per action.  Each shows that the action `Moved` one frame
to a frame that is typed and known, and what it did to the other variables;
`HandlerPreserves` puts them together.

**Tables.** The properties of the rows are proved where they are simplest, of
`RecordTable`, which knows five variables and ten statements and no handler.
Its guards are what the statements themselves check in Postgres: the row exists,
the index admits it.  `TableInv` adds to the properties that a record not yet
created has no retries and resends (else `Create`, which starts at one attempt,
would break the count) and that a record that is gone has no calls.

**Refinement.** `Table` in `Orchestrator` instantiates it: `runs` and `calls` are
themselves, `placed`, `retried` and `resent` are read off `nlpearl` and `tally`.
That every step maps to a statement or to a stutter (`StepRefines`) is not true
of arbitrary states: `RecordCall` writes a call id read before an await into the
row of a record read before another, and `RecordCallEnd` writes the row it found
two awaits ago.  The invariant `RecordInv` says that what they go by still holds:

- only the call worker is at a step that places or records a call (`AtTrigger`);
- the call it is about to record was placed for its record and is in no row
  (`AtRecord`); no row names a call not yet placed (`RequestsPlaced`);
- the record of a call-ended webhook was created, its call placed, and the row it
  found is there as long as the record is (`AtEnd`, `AtEndRow`);
- ingest writes the request id it was given (`AtIngest`).

That it is kept rests on the tables themselves: `TableGrows` shows that no
statement takes back what was relied on (a record does not become unwritten, rows
go only with their record, calls placed stay), so a handler that has not moved
may rely on what it did (`StillFits`), and each action has only its own slot left
to account for.  The four properties then follow from `TableCorrect` through
`Implements`.

**Contacts.** That a call job exists only for a record that was texted is a fact
about the queue, the worker and whoever is about to fill it, so `ContactInv` has one
part for each: a call job waiting is of a record texted (`JobsWarm`), so is a call
placed (`PlacedWarm`), so is the record of the call worker and of a handler between
its text and its job (`WarmFrame`).  `sent` never falls, which is why a redelivered
job, or the worker of a record deleted under it, stays warm.  For the CTA,
`CtaFrame` says of every handler on its way to a text or a call that it is a resend, is
the consent webhook or has read the CTA as open; the batch is on that way by the list it
read.  That the consent text counts as a contact makes it say that nobody but the consent
webhook comes to that text.

**Walking.** The proofs of `FrameProofs` and `TextProofs` need to know where handlers
go and nothing else of what they do.  `Edges` lists from which `pc` to which a handler
may go, `HandlerWalks` shows once for all actions that each goes along an edge, and
keeps what it has read, or ends, or a batch turns to its next record.  `FrameInv`
rests on it alone: which `pc` which slot can be at, and what of the frame is then set.

**Schedules.** `ScheduleInv` adds that settings about to be passed on to pg-boss are
those in the table (`InSync`).  It needs `OneChange`: a create that syncs while a
remove of the same flow is on its way to unschedule can come first (section 6), and
`Restarts`, whose HTTP slots are one, is the run where the hypothesis holds
throughout.  A restart needs no hypothesis: `onModuleInit` reads the table.

**Retries.** `RetryOvershoot` speaks of a number of handlers, and induction over it
would need to know which of them have yet to decide.  `CapInv` says it for every
count at once: of settings `c` that let through every decision so far, and for every
`m` from the cap on, the retries and the handlers that hold a count of at most `m`
(`Stale`) are together no more than `m - 1` and the deciders there are.  A retry by
a handler that holds `m` adds one on the left and takes itself away; a handler that
reads the record now holds `1 + retried + resent` by `AttemptAccounting`, so for the
`m` it counts under there is room for all deciders.  Under `OneDecider` (the case in
`OneByOne` throughout) what a decider holds is current (`Current`), and the cap is
exact.

**Calls and texts.** `CallsWithinTexts` compares the size of a set with a counter, so
the invariant compares a larger one: `Pursued` has a token for each call placed, each
call job waiting, the call worker before its call and each handler between its text
and its job, of one record.  A step passes a token on, adds one together with `sent`,
or loses one; only a restart adds one without a text, for the job the worker was on,
and `used["restart"]` pays for that.  Jobs of a deleted record count no more, which is
why a redelivery of one is no second call: the worker finds no record.  Without
restarts `used` stays zero, and the same invariant gives `HeadsUpPerCall`.

**Nothing stranded.** What makes `NothingStranded` hard is that statuses are
overwritten: `Scheduled` may be written over `CallTriggered` by a handler whose job has
run.  `StrandInv` says of each record that the jobs of the handlers about to write
`Scheduled` are all still waiting (`Delayed`), which is what the delay is good for, and
of each handler what settings it has read (`ConfInv`); both survive a crash.  From it
`HandsOn` follows of every step but a crash: a record in somebody's hands (`InHand`)
stays so.  As long as `used` counts no crash none of the steps was one, so the theorem
needs no hypothesis on crashes.  `SendsAtOnce` (every flow has settings, enabled,
without a schedule, with a delay) is needed for each of its parts: with a schedule a
record waits at `Received` for its tick, a flow switched off drops its retries
(`VPause`), without a delay the worker can overtake (section 6).  Both theorems are
about processes whose database and `boss.send` answer: the model has no step in which
they fail.

**Crashes.** `OnlyCrashesStrand` is about a single step, so it does not need that
nothing was stranded before, and `StrandedByCrash` has no hypothesis on restarts.  A
record is resumed (`Resumed`) when it is in somebody's hands or a job or worker will
come to it; `HandsOn` hands that on too.  At a crash, `CrashPutsBack` shows that jobs
that wait stay and that a worker gets its job again unless its tries are used up, which
rests on `FrameFits`: a call or retry worker at work holds the job it is on.
`CrashInHand` is what is left: a handler of a request between two writes.

**Texts and attempts.** `SmsPerAttempt` is counted like the calls: `Owed` has a token
for everybody who is going to text record `i` (a handler before its text, a handler
about to queue the retry, the retry job, a batch with the record on its list, the batch
to come for a record at `Received`), and `WithinGrant` says that tokens and texts sent
are together no more than deliveries, retries and resends, with what `Doubled` and
`Forgiven` add.  A batch has one token for a record, whether it waits or is listed:
`BatchInv` says that it lists each once and that batches run only where there is a
schedule, `DeliveryInv` that a delivery writes the record it has read, by settings that
still hold, so that it leaves the record to the batch or texts itself and not both.  Two
steps add two tokens at once.  A resend on a flow with a schedule puts the record at
`Received` on its own way to the text, where a tick finds it: one token for itself, one
for the batch, and `Doubled` grows by one. A crash gives the retry worker its job back
and leaves the record of the batch at `Received`, each perhaps texted already:
`Forgiven` is two for each, and all other handlers lose what they had.  `Doubled`
depends on status, identity and schedule, so each step must be shown not to lessen it
(`ResendsGrow`, from what the tables keep). `Undisturbed` is what all this needs: no
flow's schedule is set or cleared, although anything else of its settings may change.
It holds throughout `Recovery`.

**Dashboard types.** The form holds what was typed, a request what the form held, and
the service writes what it was sent, so the type of a column rests on all of them.
`DashInv` says with `DashType` what pages and requests hold as sets of records, and
adds what makes it inductive: an answer is there when its request says so and the
page it is for is still shown (`RequestsFit`), and a form that edits was filled from
settings (`PagesFit`).  `WrittenSettings` is where payload, DTO,
`normalizeEmptyStrings` and the old row meet: what is accepted is storable.

**Deleted and gone.** `DeletedNotListed` alone does not say why an answer still to
come is clean.  `GoneInv` adds that what was deleted before a tab's eyes is marked in
the table (`GoneDeleted`), so is the record of a delete answered well and not yet
heard of (`DeletesDone`), and no list in flight names one (`ListsClean`).  When the
answer to a delete is heard, its tab is on a record, and by `DashInv` has no list in
flight that could have been read before.

**Buttons.** `ButtonsTellTheTruth` is inductive with `DashInv`.  Each step leaves the
requests that hold a button of a tab as they were, and its buttons; or the page is
left, and its requests with it; or a button is disabled with its request sent, or
enabled with the only one over.

**The list.** That the table shows what is asked follows from what is in flight:
`ListInv` adds that, without overlap, every list a page waits for is the one its boxes
ask for now (`AsksCurrent`), and that an answer carries its question
(`AnswersAsked`).  A page that asks anew while it waits is marked as overlapping in
the same step, and a page that is opened has had its old questions dropped.

**Turning pages.** That the reader at the last page has seen all is a fact about every
page before it, and about lists that records join in the meantime.  `TurnsInv` says it
of each page: whoever is due, is alone at its moment and has at most so many others
created after it as the first `n` pages hold has been shown (`Covers`), with `n` the page
shown, or the one before the page asked for.  It counts moments and not places, because a
record has no place among those of its moment.  As long as none leaves the list, a record
that comes in only adds to those created later (`CoversMore`), or takes the moment of
another, which then is not alone; so what was covered stays so.  Whatever way the query
takes the first records (`Newest`), a record alone at its moment is among the first `n`
exactly when fewer than `n` are newer (`AmongNewest`), so the records read add one page
(`CoversNext`), wherever the query found the table; and if the count that follows fits
the pages up to this one, every such record is among them (`CoversAll`), although the
count may be of a later table than the records.  The last page is told by the division
in `TotalPages` (`LastPage`).  `AsksOnce` keeps a second answer from standing in for
the next page: without overlap no question is open while a list is shown.

**Saves.** `RoundTrip` is the way of one setting through `ToForm`, `Payload` and
`Written`: null shows as an empty input, an empty number is not sent, an empty text is
written as null, so what comes back is what was stored.  It needs that no optional
text is stored blank, which is part of the type.  `Unanswered` (a request that was not
served is not answered well) tells the save that is served from others in flight.

**Model-checked only**: liveness and everything about fairness (`ScheduledLeaves`,
`HandlersReturn`, `PagesSettle`), which is out of the prover's reach.  Every invariant
and every action property of the passing runs is a theorem, six of them under
hypotheses the table above states.

## 6. Seen while modelling, not among the runs

- A CTA reported between the batch's query (or any handler's read) and the text
  or call of that record does not stop it, against "we stop contacting that
  client automatically".
- The consent text is the one contact that does not ask about the CTA at all (`VCta`).
- Only the last request id is kept: after deliveries A and B, a repeated A is
  dispatched again.
- A call that ends badly with the retries used up leaves the record `Completed`;
  the guide says it "settles at Failed".
- With `delayMinutes` 0 the call worker can finish before the handler that
  enqueued its job writes `Scheduled` over `CallTriggered`.
- A crash between `scheduleRetry`'s two writes leaves `Scheduled` with no job; one
  after the create in `handleFlowTrigger` leaves `Received`, and N8N's
  redelivery is a duplicate.  Where flows send at once, `OnlyCrashesStrand` bounds
  what a crash can leave behind to these, `dispatchOne` and jobs out of tries.
- A tick between a resend's `Received` and its text dispatches the record twice;
  `SmsPerAttempt` says that it is no more than twice.
- A crash after a text and before the status or the job that follows it makes the
  redelivered retry job, or the next batch, text again.
- A remove and a create of a flow's settings that overlap can unschedule last.
- Overlapping deliveries of one call-ended webhook pass the cap together; how
  far is what `RetryOvershoot` bounds.
- Two deliveries of one new request id for a record that exists both find the old
  id: both restart the record and text the client.
- A cron expression that pg-boss refuses is stored before it is refused, and at the
  next boot `onModuleInit` throws on it: the backend does not start.
- The Records list is ordered by `createdAt` alone, a millisecond.  Records created at one
  moment are ordered anew by each query: where a page ends between them, one can be
  shown twice and the other never, with nothing else going on.
- In the Records list, two questions open at once (two letters typed into the search
  box) leave on screen whichever answer comes last.
- After a Resend the page's `load()` is not waited for; a slow one shows an old state.
  An error of a load hides both buttons until the page is opened anew.
- A save that succeeds closes whatever form is open by then; a double click on Save of
  a new flow creates it and ends in an error.
- The label of the retry delay says "blank = reuse the delay above" and the guide that it
  "defaults to the same delay as the first call if left blank".  A blank input is sent
  as undefined, which JSON leaves out, and what is not sent is not changed: clearing the
  delay of a flow that has one leaves the old one stored.
- Two forms of one flow: the later save writes back the fields the other changed.

## 7. Not modelled

| What | Why |
|---|---|
| Enrichment | returns its argument |
| Template rendering | pure text; never throws, and no property is about the words |
| API-key guard, health check, `getAccount` | stateless; read one thing and change nothing |
| Application wiring, seed, migrations, deployment | run once, before anything modelled here; the boot order is in `Restart` |
| The event trail (`flow_run_events`) and the timeline | nothing decides by it; it would only repeat each status |
| Call summaries, recordings, collected info | carried from a webhook to a column and shown |
| Errors of Postgres and of `boss.send` | where one comes between two writes that belong together (`message-dispatch.service.ts:188`, after the text), the record is left lying without a crash; `NothingStranded` and `OnlyCrashesStrand` are about statements that answer |
| A job that expires while its handler lives on | needs two frames for one worker; how long pg-boss waits is its own |
| A cron expression that pg-boss refuses | pg-boss decides what is one; see section 6 for what follows |

## 8. What is left

Expiry of a batch that is still running: two batches of one flow at work, each with
the same records on its list.
