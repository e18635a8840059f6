-------------------------- MODULE NlpearlWebhooks --------------------------
(***************************************************************************)
(* WebhooksService: NLPearl reports that the client agreed to a text, and  *)
(* that a call has ended.  NLPearl delivers at its own pace: late, more    *)
(* than once, in any order, or never.                                      *)
(***************************************************************************)
EXTENDS CallTrigger

\* handleConsent up to its second await.
Consent(s, k) ==
  /\ At(s, "idle")
  /\ Spend("consent")
  /\ \E i \in WithKey(k) :
       /\ runs[i].status = "CallTriggered"
       /\ frame' = [frame EXCEPT ![s] = [Reading([@ EXCEPT !.op = "consent"], i)
                                         EXCEPT !.pc = "con.config"]]
  /\ UNCHANGED <<db, boss, nlpearl, seen>>

ReadConsentConfig(s) ==
  /\ At(s, "con.config")
  /\ IF config[frame[s].key.flow] # Null THEN Goto(s, "con.sms") ELSE Return(s)
  /\ UNCHANGED <<db, boss, nlpearl, seen, used>>

\* The consent text; when it fails the webhook answers 500.
SendConsentSms(s) ==
  /\ At(s, "con.sms")
  /\ \/ Goto(s, "con.write")
     \/ Faults \cap {"smsRefused", "smsLost"} # {} /\ Return(s)
  /\ UNCHANGED <<db, boss, nlpearl, seen, used>>

RecordConsent(s) ==
  /\ At(s, "con.write")
  /\ \/ Exists(Rec(s)) /\ SetStatus(Rec(s), "ConsentGiven")
     \/ ~Exists(Rec(s)) /\ UNCHANGED runs
  /\ Return(s)
  /\ UNCHANGED <<config, calls, boss, nlpearl, seen, used>>

----------------------------------------------------------------------------
\* A webhook names the number called, not the record.
InCall(phone) == {i \in Records : /\ runs[i].key.phone = phone
                                  /\ runs[i].status \in {"CallTriggered", "ConsentGiven"}}

\* handleCallEnded up to its second await: the newest record of that phone
\* with a call under way.
CallEnded(s, n) ==
  /\ At(s, "idle")
  /\ nlpearl[n].outcome # Null
  /\ Spend("callEnded")
  /\ \E i \in InCall(nlpearl[n].phone) :
       /\ \A j \in InCall(nlpearl[n].phone) : j <= i
       /\ frame' = [frame EXCEPT ![s] = [Reading([@ EXCEPT !.op = "callEnded"], i)
                                         EXCEPT !.pc = "end.get", !.call = n]]
  /\ UNCHANGED <<db, boss, nlpearl, seen>>

Pending(i) == {m \in DOMAIN calls[i] : calls[i][m].call = 0}

\* getCall, whose answer no longer changes, and then the newest call row
\* still without a call id.
FindPendingCall(s) ==
  /\ At(s, "end.get")
  /\ \/ \E m \in Pending(Rec(s)) :
          /\ \A p \in Pending(Rec(s)) : p <= m
          /\ frame' = [frame EXCEPT ![s].row = m, ![s].pc = "end.row"]
     \/ Pending(Rec(s)) = {} /\ Goto(s, "end.row")
     \/ "getCallFails" \in Faults /\ Return(s)
  /\ UNCHANGED <<db, boss, nlpearl, seen, used>>

\* Mutant: the call id goes into the column of the request id.
CompleteRowWrongColumn(s) ==
  calls' = [calls EXCEPT ![Rec(s)] =
              IF frame[s].row = 0
              THEN Append(@, [request |-> frame[s].call, call |-> frame[s].call])
              ELSE [@ EXCEPT ![frame[s].row] = [request |-> frame[s].call, call |-> frame[s].call]]]

CompleteRow(s) ==
  calls' = [calls EXCEPT ![Rec(s)] =
              IF frame[s].row = 0
              THEN Append(@, [request |-> 0, call |-> frame[s].call])
              ELSE [@ EXCEPT ![frame[s].row].call = frame[s].call]]

\* The rows go with their record: nothing is left to update or to refer to.
RecordCallEnd(s) ==
  /\ At(s, "end.row")
  /\ \/ Exists(Rec(s)) /\ CompleteRow(s) /\ Goto(s, "end.config")
     \/ ~Exists(Rec(s)) /\ Return(s) /\ UNCHANGED calls
  /\ UNCHANGED <<config, runs, boss, nlpearl, seen, used>>

\* The row is written by now: without settings the webhook fails half done.
DecideRetry(s) ==
  /\ At(s, "end.config")
  /\ LET c == config[frame[s].key.flow] IN
     \/ c = Null /\ Return(s)
     \/ /\ c # Null
        /\ IF NeedsRetry(c, frame[s].attempt, nlpearl[frame[s].call].outcome)
           THEN Goto(s, "bump")
           ELSE Goto(s, "end.done")
  /\ UNCHANGED <<db, boss, nlpearl, seen, used>>

RecordCompleted(s) ==
  /\ At(s, "end.done")
  /\ \/ Exists(Rec(s)) /\ SetStatus(Rec(s), "Completed")
     \/ ~Exists(Rec(s)) /\ UNCHANGED runs
  /\ Return(s)
  /\ UNCHANGED <<config, calls, boss, nlpearl, seen, used>>

WebhookStep(s) ==
  \/ ReadConsentConfig(s) \/ SendConsentSms(s) \/ RecordConsent(s)
  \/ FindPendingCall(s) \/ RecordCallEnd(s) \/ DecideRetry(s) \/ RecordCompleted(s)

============================================================================
