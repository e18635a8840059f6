---------------------------- MODULE RetryPolicy ----------------------------
(***************************************************************************)
(* The automatic-retry rules of a flow: message-dispatch/retry-policy.ts.  *)
(* Pure operators; a configuration `c' is the record FlowConfig keeps, of  *)
(* which only the retry fields are read here.                              *)
(***************************************************************************)
EXTENDS Integers, Sequences

CONSTANT Null            \* SQL NULL / JavaScript null

(***************************************************************************)
(* A comma-separated setting is the sequence of the cells `split(",")'     *)
(* returns; a cell is the code in it, "" for a blank one, and whether      *)
(* white space surrounds it.  A setting that is null is the empty sequence.*)
(***************************************************************************)
Cell(code)   == [text |-> code, padded |-> FALSE]
Padded(code) == [text |-> code, padded |-> TRUE]

Trim(cell) == cell.text

ParseCsv(csv) == {Trim(csv[n]) : n \in DOMAIN csv} \ {""}

\* Mutant: compares retries with attempts.
WithinRetryCapOffByOne(c, attempt) ==
  c.maxRetryAttempts > 0 /\ attempt <= c.maxRetryAttempts + 1

\* Mutant: asks only whether retries are on.
WithinRetryCapUncounted(c, attempt) == c.maxRetryAttempts > 0

\* `attempt' includes the attempt just made.
WithinRetryCap(c, attempt) ==
  /\ c.maxRetryAttempts > 0
  /\ attempt < c.maxRetryAttempts + 1

\* A finished call qualifies by its call status, its conversation status or
\* by having been too short.
Qualifies(c, call) ==
  \/ call.callStatus \in ParseCsv(c.retryOnCallStatuses)
  \/ call.conversationStatus \in ParseCsv(c.retryOnConversationStatuses)
  \/ /\ c.retryMinCallDurationSeconds # Null
     /\ call.duration # Null
     /\ call.duration < c.retryMinCallDurationSeconds

NeedsRetry(c, attempt, call) ==
  /\ WithinRetryCap(c, attempt)
  /\ Qualifies(c, call)

NeedsRetryAfterTriggerFailure(c, attempt) == WithinRetryCap(c, attempt)

============================================================================
