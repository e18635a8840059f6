--------------------------- MODULE Administration ---------------------------
(***************************************************************************)
(* What staff do in the dashboard: FlowRunsService (Resend and Delete) and *)
(* FlowConfigService (the settings of a flow).                             *)
(***************************************************************************)
EXTENDS MessageDispatch

\* resend up to its second await.
Resend(s, i) ==
  /\ At(s, "idle")
  /\ Exists(i)
  /\ Spend("resend")
  /\ frame' = [frame EXCEPT ![s] = [Reading([@ EXCEPT !.op = "resend"], i)
                                    EXCEPT !.pc = "resend.config"]]
  /\ UNCHANGED <<db, boss, nlpearl, seen>>

ReadResendConfig(s) ==
  /\ At(s, "resend.config")
  /\ LET c == config[frame[s].key.flow] IN
     IF c # Null
     THEN frame' = [frame EXCEPT ![s].conf = c, ![s].pc = "resend.bump"]
     ELSE Return(s)
  /\ UNCHANGED <<db, boss, nlpearl, seen, used>>

\* resendNow: no retry cap, no CTA check.
ResendNow(s) ==
  /\ At(s, "resend.bump")
  /\ \/ /\ Exists(Rec(s))
        /\ runs' = [runs EXCEPT ![Rec(s)].attempt = @ + 1, ![Rec(s)].status = "Received"]
        /\ Count(Rec(s), "resent")
        /\ Goto(s, "sms")
     \/ ~Exists(Rec(s)) /\ Return(s) /\ UNCHANGED <<runs, tally>>
  /\ UNCHANGED <<config, calls, boss, nlpearl, accepted, used>>

\* remove: look the record up, then delete it with its call rows.  Queued jobs
\* keep its id.
Remove(s, i) ==
  /\ At(s, "idle")
  /\ Exists(i)
  /\ Spend("remove")
  /\ frame' = [frame EXCEPT ![s].op = "remove", ![s].pc = "delete", ![s].id = i]
  /\ UNCHANGED <<db, boss, nlpearl, seen>>

DeleteRecord(s) ==
  /\ At(s, "delete")
  /\ \/ /\ Exists(Rec(s))
        /\ runs' = [runs EXCEPT ![Rec(s)] = Deleted]
        /\ calls' = [calls EXCEPT ![Rec(s)] = <<>>]
     \/ ~Exists(Rec(s)) /\ UNCHANGED <<runs, calls>>
  /\ Return(s)
  /\ UNCHANGED <<config, boss, nlpearl, seen, used>>

----------------------------------------------------------------------------
(* The settings are written first, the schedule follows (SyncSchedule).    *)

\* create: a second row for the flow is refused by the unique index.
CreateConfig(s, f, c) ==
  /\ At(s, "idle")
  /\ config[f] = Null
  /\ Spend("config")
  /\ config' = [config EXCEPT ![f] = c]
  /\ frame' = [frame EXCEPT ![s].op = "config", ![s].pc = "conf.sync",
                            ![s].flow = f, ![s].conf = c]
  /\ UNCHANGED <<runs, calls, boss, nlpearl, seen>>

\* update and remove look the settings up before they write.
UpdateConfig(s, f, c) ==
  /\ At(s, "idle")
  /\ config[f] # Null
  /\ Spend("config")
  /\ frame' = [frame EXCEPT ![s].op = "config", ![s].pc = "conf.write",
                            ![s].flow = f, ![s].conf = c]
  /\ UNCHANGED <<db, boss, nlpearl, seen>>

RemoveConfig(s, f) ==
  /\ At(s, "idle")
  /\ config[f] # Null
  /\ Spend("removeConfig")
  /\ frame' = [frame EXCEPT ![s].op = "config", ![s].pc = "conf.delete", ![s].flow = f]
  /\ UNCHANGED <<db, boss, nlpearl, seen>>

WriteConfig(s) ==
  /\ At(s, "conf.write") \/ At(s, "conf.delete")
  /\ \/ /\ config[frame[s].flow] # Null
        /\ config' = [config EXCEPT ![frame[s].flow] = frame[s].conf]
        /\ Goto(s, "conf.sync")
     \/ config[frame[s].flow] = Null /\ Return(s) /\ UNCHANGED config
  /\ UNCHANGED <<runs, calls, boss, nlpearl, seen, used>>

AdminStep(s) ==
  \/ ReadResendConfig(s) \/ ResendNow(s) \/ DeleteRecord(s) \/ WriteConfig(s)

============================================================================
