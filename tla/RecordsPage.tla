---------------------------- MODULE RecordsPage ----------------------------
(***************************************************************************)
(* The Records list (filters, pages of PageSize records, newest first) and *)
(* the page of one record (Resend, Delete), with the queries of            *)
(* FlowRunsService that answer them.                                       *)
(***************************************************************************)
EXTENDS DashboardState

\* What takes the place of the table while it is not there: a message.
ListShown(t) == /\ tab[t].page = "list" /\ tab[t].data # Null
                /\ ~tab[t].loading /\ ~tab[t].error

TotalPages(data) ==
  IF data.total = 0 THEN 1 ELSE (data.total + PageSize - 1) \div PageSize

\* The effect asks anew when a box or the page has changed.
Ask(t, c, p) ==
  LET overlaps == \E d \in Connections : conn[d] # Null /\ conn[d].tab = t /\ conn[d].op = "list" IN
  /\ Send(c, Asked("list", t, Question(p.filter, p.pageNo)))
  /\ tab' = [tab EXCEPT ![t] = [p EXCEPT !.loading = TRUE, !.error = FALSE,
                                         !.overlapped = @ \/ overlaps]]

\* Setting a box goes back to page 1 in the same render, so the effect asks once.
ChooseFilter(t, c, f) ==
  /\ tab[t].page = "list"
  /\ f # tab[t].filter
  /\ Spend("filter")
  /\ Ask(t, c, [tab[t] EXCEPT !.filter = f, !.pageNo = 1, !.overlapped = FALSE,
                              !.due = Matching(f), !.since = departures, !.seen = {}])
  /\ UNCHANGED <<db, gone>>

\* Mutant: the page is not among the dependencies of the effect.
TurnSilently(t, c, p) ==
  /\ ListShown(t)
  /\ p \in {tab[t].pageNo - 1, tab[t].pageNo + 1} \cap 1 .. TotalPages(tab[t].data)
  /\ Spend("turn")
  /\ tab' = [tab EXCEPT ![t].pageNo = p]
  /\ UNCHANGED <<db, gone, conn>>

\* Previous and Next, where the page shows them and does not disable them.
Turn(t, c, p) ==
  /\ ListShown(t)
  /\ \/ p = tab[t].pageNo - 1 /\ tab[t].pageNo > 1
     \/ p = tab[t].pageNo + 1 /\ tab[t].pageNo < TotalPages(tab[t].data)
  /\ Spend("turn")
  /\ Ask(t, c, [tab[t] EXCEPT !.pageNo = p])
  /\ UNCHANGED <<db, gone>>

\* orderBy createdAt desc, up to n.  Nothing orders records created at the same
\* moment: which of them come first is the query's choice, each time anew.
Newest(S, n) ==
  {A \in SUBSET S : /\ Cardinality(A) = n \/ (A = S /\ Cardinality(S) < n)
                    /\ \A i \in A, j \in S \ A : runs[i].createdAt >= runs[j].createdAt}

\* Mutant: skip counts from page 0.
PagesOfFromZero(S, p) ==
  {P \in SUBSET S : \E A \in Newest(S, p * PageSize) :
                     A \cap P = {} /\ A \cup P \in Newest(S, (p + 1) * PageSize)}

\* skip, take: what page p of the records S may be.
PagesOf(S, p) ==
  {P \in SUBSET S : \E A \in Newest(S, (p - 1) * PageSize) :
                     A \cap P = {} /\ A \cup P \in Newest(S, p * PageSize)}

\* findAll: both statements run in one transaction, but at READ COMMITTED each
\* sees the table as it finds it.
ListItems(c) ==
  /\ Serving(c, "list")
  /\ \E P \in PagesOf(Matching(conn[c].arg.filter), conn[c].arg.pageNo) :
       conn' = [conn EXCEPT ![c].stage = "items",
                            ![c].answer = [items |-> P, total |-> 0, asked |-> conn[c].arg]]
  /\ UNCHANGED <<db, view, left>>

ListTotal(c) ==
  /\ conn[c] # Null /\ conn[c].stage = "items"
  /\ Answer(c, TRUE, [conn[c].answer EXCEPT !.total = Cardinality(Matching(conn[c].arg.filter))])
  /\ UNCHANGED <<db, view, left>>

\* Mutant: the message stays when the request fails.
ListArrivesNoFinally(c) ==
  /\ Arrived(c, "list")
  /\ LET t == conn[c].tab  a == conn[c].answer IN
     tab' = [tab EXCEPT ![t] =
       IF conn[c].ok THEN [tab[t] EXCEPT !.data = a, !.loading = FALSE, !.seen = @ \cup a.items]
       ELSE [@ EXCEPT !.error = TRUE]]
  /\ Settle(c)
  /\ UNCHANGED <<db, gone, left>>

\* then, catch, finally, in the order the answers come and not in that of the
\* questions: the answer to an old question replaces what is shown.
ListArrives(c) ==
  /\ Arrived(c, "list")
  /\ LET t == conn[c].tab  a == conn[c].answer IN
     tab' = [tab EXCEPT ![t] =
       IF conn[c].ok THEN [tab[t] EXCEPT !.data = a, !.loading = FALSE, !.seen = @ \cup a.items]
       ELSE [@ EXCEPT !.error = TRUE, !.loading = FALSE]]
  /\ Settle(c)
  /\ UNCHANGED <<db, gone, left>>

----------------------------------------------------------------------------
(* The page of a record.                                                   *)

OpenRecord(t, c, i) ==
  /\ ListShown(t)
  /\ i \in tab[t].data.items
  /\ Spend("open")
  /\ Free(c)
  /\ VisitRecord(t, c, i)
  /\ UNCHANGED <<db, gone>>

\* findOne; a record that is gone is a 404.
ServeLoad(c) ==
  /\ Serving(c, "load")
  /\ LET i == conn[c].arg IN Answer(c, Exists(i), IF Exists(i) THEN runs[i] ELSE Null)
  /\ UNCHANGED <<db, view, left>>

\* Nothing takes an error back but the next Resend or Delete, whose buttons it
\* hides.
LoadArrives(c) ==
  /\ Arrived(c, "load")
  /\ tab' = [tab EXCEPT ![conn[c].tab] =
       IF conn[c].ok THEN [@ EXCEPT !.shown = conn[c].answer] ELSE [@ EXCEPT !.error = TRUE]]
  /\ Settle(c)
  /\ UNCHANGED <<db, gone, left>>

RecordShown(t) == tab[t].page = "record" /\ tab[t].shown # Null /\ ~tab[t].error

ClickResend(t, c) ==
  /\ RecordShown(t)
  /\ ~tab[t].resending
  /\ Spend("resend")
  /\ Send(c, Asked("resend", t, tab[t].id))
  /\ tab' = [tab EXCEPT ![t].resending = TRUE, ![t].error = FALSE]
  /\ UNCHANGED <<db, gone>>

\* resend, up to the text it sends at once: delivered or not.
ServeResend(c) ==
  /\ Serving(c, "resend")
  /\ LET i == conn[c].arg IN
     \/ /\ Exists(i) /\ configs[runs[i].flowType] # Null
        /\ \E st \in {"Scheduled", "Failed"} :
             runs' = [runs EXCEPT ![i].attempt = @ + 1, ![i].status = st]
        /\ departures' = departures + 1
        /\ Answer(c, TRUE, Null)
     \/ /\ ~(Exists(i) /\ configs[runs[i].flowType] # Null)
        /\ Answer(c, FALSE, Null)
        /\ UNCHANGED <<runs, departures>>
  /\ UNCHANGED <<configs, view, left>>

\* Mutant: setResending(false) only where the resend succeeds.
ResendArrivesNoFinally(c) ==
  /\ Arrived(c, "resend")
  /\ LET t == conn[c].tab  i == conn[c].arg IN
     IF conn[c].live
     THEN /\ tab' = [tab EXCEPT ![t].resending = @ /\ ~conn[c].ok, ![t].error = @ \/ ~conn[c].ok]
          /\ conn' = [conn EXCEPT ![c] = IF conn[c].ok THEN Asked("load", t, i) ELSE Null]
     ELSE Settle(c) /\ UNCHANGED tab
  /\ UNCHANGED <<db, gone, left>>

\* load() is not waited for: the button comes back with the old record shown.
ResendArrives(c) ==
  /\ Arrived(c, "resend")
  /\ LET t == conn[c].tab  i == conn[c].arg IN
     IF conn[c].live
     THEN /\ tab' = [tab EXCEPT ![t].resending = FALSE, ![t].error = @ \/ ~conn[c].ok]
          /\ conn' = [conn EXCEPT ![c] = IF conn[c].ok THEN Asked("load", t, i) ELSE Null]
     ELSE Settle(c) /\ UNCHANGED tab
  /\ UNCHANGED <<db, gone, left>>

ClickDelete(t, c) ==
  /\ RecordShown(t)
  /\ ~tab[t].deleting
  /\ Spend("delete")
  /\ Send(c, Asked("delete", t, tab[t].id))
  /\ tab' = [tab EXCEPT ![t].deleting = TRUE, ![t].error = FALSE]
  /\ UNCHANGED <<db, gone>>

\* Mutant: the delete is started and not waited for.
ServeDeleteUnawaited(c) ==
  /\ Serving(c, "delete")
  /\ Answer(c, Exists(conn[c].arg), Null)
  /\ UNCHANGED <<db, view, left>>

ServeDelete(c) ==
  /\ Serving(c, "delete")
  /\ LET i == conn[c].arg IN
     /\ Answer(c, Exists(i), Null)
     /\ IF Exists(i)
        THEN runs' = [runs EXCEPT ![i] = Deleted] /\ departures' = departures + 1
        ELSE UNCHANGED <<runs, departures>>
  /\ UNCHANGED <<configs, view, left>>

\* router.push("/flow-runs"), also when staff have gone elsewhere meanwhile;
\* a tab on the list already stays as it is.
DeleteArrives(c) ==
  /\ Arrived(c, "delete")
  /\ LET t == conn[c].tab IN
     \/ /\ conn[c].ok
        /\ gone' = IF conn[c].live THEN [gone EXCEPT ![t] = @ \cup {conn[c].arg}] ELSE gone
        /\ IF tab[t].page = "list" THEN Settle(c) /\ UNCHANGED tab ELSE VisitList(t, c)
     \/ /\ ~conn[c].ok
        /\ IF conn[c].live
           THEN tab' = [tab EXCEPT ![t].deleting = FALSE, ![t].error = TRUE]
           ELSE UNCHANGED tab
        /\ Settle(c)
        /\ UNCHANGED gone
  /\ UNCHANGED <<db, left>>

----------------------------------------------------------------------------
(* Meanwhile the backend creates records and moves them on.                *)

Arrives(i, r) ==
  /\ NextId(i)
  /\ Spend("arrive")
  /\ runs' = [runs EXCEPT ![i] = r]
  /\ UNCHANGED <<configs, departures, view, conn>>

Progresses(i, st) ==
  /\ Exists(i) /\ runs[i].status # st
  /\ Spend("progress")
  /\ runs' = [runs EXCEPT ![i].status = st]
  /\ departures' = departures + 1
  /\ UNCHANGED <<configs, view, conn>>

RecordsServed(c) ==
  \/ ListItems(c) \/ ListTotal(c) \/ ServeLoad(c) \/ ServeResend(c) \/ ServeDelete(c)
RecordsAnswered(c) ==
  \/ ListArrives(c) \/ LoadArrives(c) \/ ResendArrives(c) \/ DeleteArrives(c)

============================================================================
