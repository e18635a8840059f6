--------------------------- MODULE DashboardState ---------------------------
(***************************************************************************)
(* The dashboard as staff use it: browser tabs, each on one page with the  *)
(* React state of that page; the requests the pages have in flight; and    *)
(* the two tables they are about, as the HTTP services answer for them.    *)
(* Handlers of the backend are atomic here but for the list query, which   *)
(* is two statements; how they interleave among themselves is the subject  *)
(* of Orchestrator.                                                        *)
(***************************************************************************)
EXTENDS Integers, FiniteSets

CONSTANTS
  Null,          \* null
  Blank,         \* "", in an input, a flow name or a column
  Absent,        \* undefined: JSON.stringify leaves the field out
  Fraction,      \* a number that is not an integer
  Tabs,
  Connections,   \* bound: requests in flight at a time
  MaxRuns,       \* bound: records ever created
  Flows,         \* names a flow may be given, "new" possibly among them
  Statuses,      \* what the status column may say
  Words,         \* what staff may search for
  NewRows,       \* records as they come in
  Filters,       \* how staff may set the boxes above the list
  Texts,         \* what a text column or input may hold
  DefaultTimezone,
  Numbers,       \* what may be typed into a number input
  MaxInt,        \* the greatest INTEGER of Postgres
  PageSize,
  Edits,         \* what staff may put into which input
  Inputs,        \* bound: kinds of input, the loss of a request among them
  Scenarios      \* tables to begin with, and how much of each input there is

Ids  == 1 .. MaxRuns
Int4 == 0 .. MaxInt

\* flow_runs: a record has the words that its mpl, phone and name contain, and
\* was created at a moment that it may share with others.
NoRow   == [flowType |-> Blank, status |-> "none", words |-> {}, attempt |-> 0, createdAt |-> 0]
Deleted == [NoRow EXCEPT !.status = "deleted"]
Row     == [flowType : Flows, status : Statuses, words : SUBSET Words, attempt : Nat,
            createdAt : Nat]

\* The boxes above the list; Blank chooses everything.
Filter == [flowType : Flows \cup {Blank}, status : Statuses \cup {Blank},
           search : Words \cup {Blank}]
AllRecords == [flowType |-> Blank, status |-> Blank, search |-> Blank]

----------------------------------------------------------------------------
(* flow_configs, and the form that shows a row of it.                      *)

NumberFields    == {"delayMinutes", "maxRetryAttempts"}
OptionalNumbers == {"retryDelayMinutes", "retryMinCallDurationSeconds"}
OptionalTexts   == {"sendSchedule", "retryOnCallStatuses", "retryOnConversationStatuses"}
PlainTexts      == {"nlpearlOutboundId", "preliminarySmsTemplate",
                    "consentSmsTemplate", "sendTimezone"}
Fields == NumberFields \cup OptionalNumbers \cup OptionalTexts \cup PlainTexts \cup {"enabled"}

\* What a column may hold.
StoredIn(k) ==
  IF k \in NumberFields THEN Int4
  ELSE IF k \in OptionalNumbers THEN Int4 \cup {Null}
  ELSE IF k \in OptionalTexts THEN (Texts \ {Blank}) \cup {Null}
  ELSE IF k \in PlainTexts THEN Texts
  ELSE BOOLEAN

\* What an input of the form may hold: the two number states as numbers, the
\* optional ones as the text in the input.
TypedIn(k) ==
  IF k \in NumberFields THEN Numbers
  ELSE IF k \in OptionalNumbers THEN Numbers \cup {Blank}
  ELSE IF k \in OptionalTexts \cup PlainTexts THEN Texts
  ELSE BOOLEAN

Over(D, c)  == c = [x \in D |-> c[x]]
Settings(c) == Over(Fields, c) /\ \A k \in Fields : c[k] \in StoredIn(k)
Form(c)     == Over(Fields, c) /\ \A k \in Fields : c[k] \in TypedIn(k)
Table(x)    == Over(Flows, x) /\ \A f \in Flows : x[f] = Null \/ Settings(x[f])

ASSUME ValuesAssumption ==
  /\ MaxRuns \in Nat /\ PageSize \in Nat \ {0} /\ MaxInt \in Nat /\ MaxInt >= 10
  /\ Int4 \subseteq Numbers /\ Numbers \subseteq Int \cup {Fraction}
  /\ Fraction \notin Int
  /\ \A v \in {Null, Absent, Blank} : v \notin Numbers
  /\ \A v \in {Null, Absent} : v \notin Texts \cup Flows
  /\ Absent \notin BOOLEAN \cup {Null}
  /\ {Blank, DefaultTimezone} \subseteq Texts /\ Blank \in Flows
  /\ {"none", "deleted"} \cap Statuses = {} /\ {"Scheduled", "Failed"} \subseteq Statuses
  /\ NewRows \subseteq Row /\ AllRecords \in Filters /\ Filters \subseteq Filter
  /\ \A e \in Edits : e.field \in Fields /\ e.value \in TypedIn(e.field)
  /\ \A s \in Scenarios : /\ s.runs \in [Ids -> Row \cup {NoRow}] /\ Table(s.configs)
                          /\ s.left \in [Inputs -> Nat]

\* The form as it is opened for a new flow.
EmptyForm == [k \in Fields |->
  IF k = "delayMinutes" THEN 10
  ELSE IF k = "maxRetryAttempts" THEN 0
  ELSE IF k = "sendTimezone" THEN DefaultTimezone
  ELSE IF k = "enabled" THEN TRUE ELSE Blank]

----------------------------------------------------------------------------
VARIABLES
  runs,        \* flow_runs, by id
  configs,     \* flow_configs: settings of each flow, Null when it has none
  tab,         \* the page each tab shows, with its state
  conn,        \* requests in flight, Null for a free connection
  gone,        \* per tab: records whose delete succeeded before its eyes
  departures,  \* how often a record may have left a list
  left         \* inputs left

vars == <<runs, configs, tab, conn, gone, departures, left>>

db   == <<runs, configs, departures>>
view == <<tab, gone>>

Exists(i) == runs[i].status \in Statuses

\* Ids are handed out one after the other and never again; the order of lists is
\* that of createdAt.
NextId(i) == /\ runs[i].status = "none"
             /\ \A j \in 1 .. i - 1 : runs[j].status # "none"

Matches(r, f) ==
  /\ r.status \in Statuses
  /\ f.flowType \in {Blank, r.flowType}
  /\ f.status \in {Blank, r.status}
  /\ f.search = Blank \/ f.search \in r.words
Matching(f) == {i \in Ids : Matches(runs[i], f)}

Spend(input) == /\ left[input] > 0
                /\ left' = [left EXCEPT ![input] = @ - 1]

----------------------------------------------------------------------------
(* Requests.  A page that is left drops the answers to what it has read;   *)
(* what it has asked to be changed goes on, without a page to come back to.*)

Reads  == {"list", "load", "configs"}
Writes == {"resend", "delete", "save", "remove"}

\* What is asked, and the answer if there is one, depend on the operation.
Asked(op, t, arg) == [op |-> op, tab |-> t, live |-> TRUE, stage |-> "asked",
                      ok |-> FALSE, arg |-> arg, answer |-> Null]

\* A free connection is told from one with a request.
ASSUME NullAssumption ==
  Null \notin [op : {"resend", "delete"}, tab : Tabs, live : BOOLEAN, stage : {"asked", "answered"},
               ok : BOOLEAN, arg : Ids, answer : {Null}]

\* Any free connection will do.
Free(c)    == conn[c] = Null /\ c = CHOOSE d \in Connections : conn[d] = Null
Send(c, r) == Free(c) /\ conn' = [conn EXCEPT ![c] = r]

Serving(c, op)  == conn[c] # Null /\ conn[c].op = op /\ conn[c].stage = "asked"
Arrived(c, op)  == conn[c] # Null /\ conn[c].op = op /\ conn[c].stage = "answered"
Answer(c, ok, a) == conn' = [conn EXCEPT ![c].stage = "answered", ![c].ok = ok, ![c].answer = a]
Settle(c)       == conn' = [conn EXCEPT ![c] = Null]

Abandoned(t, r) ==
  IF r = Null \/ r.tab # t THEN r
  ELSE IF r.op \in Reads THEN Null ELSE [r EXCEPT !.live = FALSE]

\* The network fails, or the backend answers with an error: at any moment, so
\* what was asked may have been done.
Lose(c) ==
  /\ conn[c] # Null
  /\ Spend("lose")
  /\ Answer(c, FALSE, Null)
  /\ UNCHANGED <<db, view>>

----------------------------------------------------------------------------
(* Pages.  Each starts from the initial values of its useState calls and   *)
(* the request its effect sends.                                           *)

ClosedPage == [page |-> "closed"]

\* `due', `seen', `since' and `overlapped' are no state of the page: the records
\* a reader who turns the pages from the first on should come by, those shown to
\* him, and whether two questions were open at once since he set the boxes.
ListPage == [page |-> "list", filter |-> AllRecords, pageNo |-> 1, data |-> Null,
             error |-> FALSE, loading |-> TRUE,
             due |-> {}, since |-> 0, seen |-> {}, overlapped |-> FALSE]
RecordPage(i) == [page |-> "record", id |-> i, shown |-> Null, error |-> FALSE,
                  resending |-> FALSE, deleting |-> FALSE]
\* `base' is no state of the page: the settings the form was filled from.
SettingsPage == [page |-> "settings", table |-> [f \in Flows |-> Null],
                 error |-> FALSE, editing |-> Null, name |-> Blank,
                 form |-> EmptyForm, base |-> Null]

Question(f, p) == [filter |-> f, pageNo |-> p]

\* The tab shows page `p' instead of what it shows, and sends `r' over `c'.
Visit(t, c, p, r) ==
  /\ tab' = [tab EXCEPT ![t] = p]
  /\ conn' = [d \in Connections |-> IF d = c THEN r ELSE Abandoned(t, conn[d])]

FreshList == [ListPage EXCEPT !.due = Matching(AllRecords), !.since = departures]
VisitList(t, c)     == Visit(t, c, FreshList, Asked("list", t, Question(AllRecords, 1)))
VisitRecord(t, c, i) == Visit(t, c, RecordPage(i), Asked("load", t, i))
VisitSettings(t, c) == Visit(t, c, SettingsPage, Asked("configs", t, Null))

\* The links at the top; a link to the page shown does nothing.
Navigate(t, c) ==
  /\ Spend("navigate")
  /\ Free(c)
  /\ \/ tab[t].page # "list" /\ VisitList(t, c)
     \/ tab[t].page # "settings" /\ VisitSettings(t, c)
  /\ UNCHANGED <<db, gone>>

============================================================================
