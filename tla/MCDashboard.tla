---------------------------- MODULE MCDashboard ----------------------------
(***************************************************************************)
(* Small instances of Dashboard.  Each budget is a scenario: the inputs    *)
(* that meet in it.                                                        *)
(***************************************************************************)
EXTENDS Dashboard

CONSTANTS tabA, tabB, conn1, conn2, word, someText, zone

FlowNames  == {"flow", "new", Blank}
SomeTexts  == {Blank, someText, zone}
SomeNumbers == -1 .. MaxInt + 1 \cup {Fraction}

Came(words, moment) == [flowType |-> "flow", status |-> "Received", words |-> words,
                        attempt |-> 1, createdAt |-> moment]
Records     == {Came({word}, 2), Came({}, 3)}
Searched    == [AllRecords EXCEPT !.search = word]
Boxes       == {AllRecords, Searched, [AllRecords EXCEPT !.status = "Failed"]}

\* A flow with every optional setting set but one of each kind.
Batched == [k \in Fields |->
  IF k \in NumberFields THEN 1
  ELSE IF k = "retryDelayMinutes" THEN 5 ELSE IF k \in OptionalNumbers THEN Null
  ELSE IF k = "sendSchedule" THEN someText ELSE IF k \in OptionalTexts THEN Null
  ELSE IF k = "sendTimezone" THEN zone ELSE IF k = "enabled" THEN TRUE ELSE someText]

In(k, v) == [field |-> k, value |-> v]
SomeEdits == {In("delayMinutes", Fraction), In("maxRetryAttempts", 0),
              In("retryDelayMinutes", Blank), In("retryDelayMinutes", -1),
              In("retryDelayMinutes", MaxInt + 1), In("sendSchedule", Blank)}

AllInputs == {"navigate", "filter", "turn", "open", "resend", "delete", "arrive",
              "progress", "edit", "name", "type", "save", "remove", "lose"}
None == [x \in AllInputs |-> 0]

\* What is there to begin with, and the inputs that come.
Start(rows, flows, inputs) == [runs |-> rows, configs |-> flows, left |-> inputs]
Two       == <<Came({word}, 1), Came({word}, 2), NoRow>>
Three     == <<Came({}, 1), Came({word}, 2), Came({word}, 2)>>
FlowOnly  == [f \in FlowNames |-> IF f = "flow" THEN Batched ELSE Null]
EveryFlow == [f \in FlowNames |-> Batched]

Paging   == [None EXCEPT !.navigate = 1, !.filter = 1, !.turn = 2, !.lose = 1]
Growing  == [Paging EXCEPT !.arrive = 1]
Changing == [Paging EXCEPT !.progress = 1]
Handling == [None EXCEPT !.navigate = 2, !.open = 2, !.resend = 1, !.delete = 2, !.lose = 1]
Setting  == [None EXCEPT !.navigate = 2, !.edit = 2, !.type = 1, !.save = 2]
Typing   == [None EXCEPT !.navigate = 1, !.edit = 1, !.name = 1, !.type = 2, !.save = 2, !.lose = 1]
Dropping == [None EXCEPT !.navigate = 2, !.edit = 1, !.save = 1, !.remove = 1, !.lose = 1]

Pages    == {Start(Two, FlowOnly, Growing), Start(Three, FlowOnly, Changing)}
Handles  == {Start(Two, FlowOnly, Handling)}
Sets     == {Start(Two, FlowOnly, Setting)}
Types    == {Start(Two, FlowOnly, Typing)}
Drops    == {Start(Two, EveryFlow, Dropping)}
Everything == Pages \cup Handles \cup Sets \cup Types \cup Drops

============================================================================
