--------------------------- MODULE MCOrchestrator ---------------------------
(***************************************************************************)
(* Small instances of Orchestrator.  A .cfg chooses the budgets, that is,  *)
(* which inputs meet, the settings the flow may have and the faults.       *)
(***************************************************************************)
EXTENDS Orchestrator, TLC

CONSTANTS p1, f1, m1, m2, r1, r2, h1, h2

\* Two clients with a case each, or one client with two cases in one flow.
OneKey   == {[phone |-> p1, flow |-> f1, mpl |-> m1]}
TwoCases == {[phone |-> p1, flow |-> f1, mpl |-> m] : m \in {m1, m2}}

\* Settings of the flow: immediate with a delay before the call, and so on.
Immediate(max) ==
  [enabled |-> TRUE, sendSchedule |-> FALSE, delayMinutes |-> 5,
   maxRetryAttempts |-> max,
   retryOnCallStatuses |-> <<Cell(""), Padded("6")>>,
   retryOnConversationStatuses |-> <<Cell("30")>>,
   retryMinCallDurationSeconds |-> 10]
Off(c)     == [c EXCEPT !.enabled = FALSE]
Batched(c) == [c EXCEPT !.sendSchedule = TRUE]

NoRetries    == {Immediate(0)}
OneRetry     == {Immediate(1)}
TwoRetriesBatched == {Batched(Immediate(2))}
BatchedOnly  == {Batched(Immediate(1))}
SentOrBatched == {Immediate(1), Batched(Immediate(1))}
OnOff        == {Immediate(1), Off(Immediate(1))}

\* What calls come to: one the rules retry, one they do not.
Good == [callStatus |-> "4", conversationStatus |-> "100", duration |-> 60]
Bad  == [callStatus |-> "6", conversationStatus |-> "100", duration |-> Null]
BothOutcomes == {Good, Bad}
BadOnly      == {Bad}

AllInputs == {"flowTrigger", "ctaComplete", "consent", "callEnded", "resend",
              "remove", "config", "removeConfig", "tick", "restart"}
Zero == [x \in AllInputs |-> 0]

HttpSymmetry == Permutations(HttpSlots)

\* Budgets: which inputs meet, and how often.
LifecycleBudget == [Zero EXCEPT !.flowTrigger = 1, !.callEnded = 2, !.restart = 2]
RecoveryBudget  == [Zero EXCEPT !.flowTrigger = 1, !.resend = 1, !.tick = 2, !.restart = 1]
IdentityBudget  == [Zero EXCEPT !.flowTrigger = 2, !.callEnded = 1, !.remove = 2, !.ctaComplete = 1]
BatchBudget     == [Zero EXCEPT !.flowTrigger = 2, !.tick = 2, !.remove = 1]
RestartBudget   == [Zero EXCEPT !.flowTrigger = 1, !.callEnded = 1, !.config = 1, !.removeConfig = 1,
                                !.tick = 1, !.restart = 1]
OneByOneBudget  == [Zero EXCEPT !.flowTrigger = 1, !.ctaComplete = 1, !.consent = 1, !.callEnded = 3,
                                !.tick = 1]
ResendBudget    == [Zero EXCEPT !.flowTrigger = 1, !.ctaComplete = 1, !.resend = 1]
CtaBudget       == [Zero EXCEPT !.flowTrigger = 1, !.ctaComplete = 1, !.consent = 1]
TwoCallsBudget  == [Zero EXCEPT !.flowTrigger = 2, !.callEnded = 1]
PauseBudget     == [Zero EXCEPT !.flowTrigger = 1, !.callEnded = 1, !.config = 1]

============================================================================
