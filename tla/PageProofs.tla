----------------------------- MODULE PageProofs -----------------------------
(***************************************************************************)
(* What the pages of the dashboard say of what has happened to the tables  *)
(* and of what is still under way: a record deleted before one's eyes is   *)
(* not in a list shown afterwards (DeletedNotListed), a button is disabled *)
(* exactly while its request is open (ButtonsTellTheTruth), the list shown *)
(* answers what is asked (ShownAsAsked), who turns its pages misses none   *)
(* that was created at a moment of its own (NoneMissed), and a save leaves *)
(* alone what was not touched (SaveKeepsUntouched).                        *)
(***************************************************************************)
EXTENDS DashboardProofs

----------------------------------------------------------------------------
(* What is gone.  A delete that a tab waits for leaves no list of that tab *)
(* in flight, since the tab is on a record; what it reads afterwards is    *)
(* read of a table in which the record is marked, and the mark stays.      *)

IsDeleted(i) == runs[i].status = "deleted"

GoneDeleted == \A t \in Tabs : \A i \in gone[t] : IsDeleted(i)
DeletesDone == \A c \in Connections :
  conn[c] # Null /\ conn[c].op = "delete" /\ conn[c].ok => IsDeleted(conn[c].arg)
ListsClean == \A c \in Connections :
  conn[c] # Null /\ conn[c].op = "list" /\ (conn[c].stage = "items" \/ conn[c].ok) =>
    conn[c].answer.items \cap gone[conn[c].tab] = {}

GoneInv == GoneDeleted /\ DeletesDone /\ ListsClean /\ DeletedNotListed

\* Nothing is said of what was deleted or listed.
Quiet(r) == r = Null \/ (~r.ok /\ r.stage # "items") \/ r.op \notin {"list", "delete"}
SameNews(r, q) == /\ q # Null /\ r.op = q.op /\ r.tab = q.tab /\ r.arg = q.arg
                  /\ r.ok = q.ok /\ r.stage = q.stage /\ r.answer = q.answer
CalmConn == \A d \in Connections : Quiet(conn'[d]) \/ SameNews(conn'[d], conn[d])
CalmTabs == \A t \in Tabs : tab'[t].page = "list" /\ tab'[t].data # Null =>
              tab[t].page = "list" /\ tab'[t].data = tab[t].data
DeadStay == \A i \in Ids : IsDeleted(i) => runs'[i].status = "deleted"

\* A step without news.
LEMMA Calm ==
  ASSUME DashInv, GoneInv, CalmConn, CalmTabs, DeadStay, UNCHANGED gone
  PROVE  GoneInv'
<1>1. gone \in [Tabs -> SUBSET Ids]
  BY DEF DashInv, DashType
<1>2. GoneDeleted'
  BY <1>1 DEF GoneInv, GoneDeleted, DeadStay, IsDeleted
<1>3. DeletesDone'
  <2> SUFFICES ASSUME NEW d \in Connections, conn'[d] # Null, conn'[d].op = "delete", conn'[d].ok
               PROVE  runs'[conn'[d].arg].status = "deleted"
    BY DEF DeletesDone, IsDeleted
  <2>1. SameNews(conn'[d], conn[d])
    BY DEF CalmConn, Quiet
  <2>2. IsDeleted(conn[d].arg) /\ conn[d].arg = conn'[d].arg
    BY <2>1 DEF SameNews, GoneInv, DeletesDone
  <2>3. conn[d].arg \in Ids
    BY <2>1, Request, RequestKinds DEF SameNews, RowRequests, RequestsOf
  <2> QED BY <2>2, <2>3 DEF DeadStay
<1>4. ListsClean'
  <2> SUFFICES ASSUME NEW d \in Connections, conn'[d] # Null, conn'[d].op = "list",
                      conn'[d].stage = "items" \/ conn'[d].ok
               PROVE  conn'[d].answer.items \cap gone[conn'[d].tab] = {}
    BY DEF ListsClean
  <2>1. SameNews(conn'[d], conn[d])
    BY DEF CalmConn, Quiet
  <2> QED BY <2>1 DEF SameNews, GoneInv, ListsClean
<1>5. DeletedNotListed'
  BY DEF CalmTabs, GoneInv, DeletedNotListed
<1> QED BY <1>2, <1>3, <1>4, <1>5 DEF GoneInv

\* One request is another, without news.
LEMMA CalmRequest ==
  ASSUME DashInv, NEW c \in Connections, NEW r, conn' = [conn EXCEPT ![c] = r], Quiet(r)
  PROVE  CalmConn
<1>1. \A d \in Connections : conn'[d] = IF d = c THEN r ELSE conn[d]
  BY DEF DashInv, DashType
<1> QED BY <1>1 DEF CalmConn, Quiet, SameNews

\* A question is no news.
LEMMA AskedQuiet ==
  ASSUME NEW op, NEW t, NEW a
  PROVE  Quiet(Asked(op, t, a))
BY DEF Quiet, Asked

\* Nor is an answer about anything else, or an error.
LEMMA CalmAnswer ==
  ASSUME DashInv, NEW c \in Connections, conn[c] # Null, NEW ok \in BOOLEAN, NEW a,
         Answer(c, ok, a), ~ok \/ conn[c].op \notin {"list", "delete"}
  PROVE  CalmConn
<1>1. PICK r \in Requests : r = conn[c]
  BY Request
<1>2. PICK g : g = [r EXCEPT !.stage = "answered", !.ok = ok, !.answer = a]
  OBVIOUS
<1>3. conn' = [conn EXCEPT ![c] = g]
  BY <1>1, <1>2 DEF Answer, DashInv, DashType
<1>4. g.op = r.op /\ g.ok = ok /\ g.stage = "answered"
  BY <1>2 DEF Requests, RequestsOf, ListRequests, LoadRequests, TableRequests, RowRequests,
              SaveRequests, RemoveRequests
<1>5. Quiet(g)
  BY <1>1, <1>4 DEF Quiet
<1> QED BY <1>3, <1>5, CalmRequest

\* A page that stays shows no other list.
LEMMA CalmPage ==
  ASSUME DashInv, NEW t \in Tabs, NEW g, tab' = [tab EXCEPT ![t] = g],
         g.page = "list" /\ g.data # Null => tab[t].page = "list" /\ g.data = tab[t].data
  PROVE  CalmTabs
BY DEF DashInv, DashType, CalmTabs

\* What a page leaves behind says what it said.
LEMMA CalmLeft ==
  ASSUME NEW t, NEW q \in Requests \cup {Null}
  PROVE  LET r == Abandoned(t, q) IN Quiet(r) \/ SameNews(r, q)
<1>1. CASE q = Null \/ q.tab # t \/ q.op \in Reads
  BY <1>1 DEF Abandoned, Quiet, SameNews
<1>2. CASE ~(q = Null \/ q.tab # t \/ q.op \in Reads)
  <2>1. PICK g : g = [q EXCEPT !.live = FALSE]
    OBVIOUS
  <2>2. g.op = q.op /\ g.tab = q.tab /\ g.arg = q.arg /\ g.ok = q.ok /\ g.stage = q.stage
        /\ g.answer = q.answer
    BY <1>2, <2>1 DEF Requests, RequestsOf, ListRequests, LoadRequests, TableRequests, RowRequests,
                      SaveRequests, RemoveRequests
  <2>3. Abandoned(t, q) = g
    BY <1>2, <2>1 DEF Abandoned
  <2> QED BY <1>2, <2>2, <2>3 DEF SameNews
<1> QED BY <1>1, <1>2

\* Nor does a page that comes.
LEMMA CalmVisit ==
  ASSUME DashInv, NEW t \in Tabs, NEW c \in Connections, NEW p, NEW op, NEW a,
         Visit(t, c, p, Asked(op, t, a)), p.page = "list" => p.data = Null
  PROVE  CalmConn /\ CalmTabs
<1>1. tab' = [tab EXCEPT ![t] = p]
  BY DEF Visit
<1>2. CalmTabs
  BY <1>1, CalmPage
<1>3. \A d \in Connections : conn'[d] = IF d = c THEN Asked(op, t, a) ELSE Abandoned(t, conn[d])
  BY DEF Visit
<1>4. \A d \in Connections : conn[d] \in Requests \cup {Null}
  BY DEF DashInv, DashType
<1> QED BY <1>2, <1>3, <1>4, CalmLeft, AskedQuiet DEF CalmConn

LEMMA CalmVisits ==
  ASSUME DashInv, NEW t \in Tabs, NEW c \in Connections,
         \/ VisitList(t, c)
         \/ \E i \in Ids : VisitRecord(t, c, i)
         \/ VisitSettings(t, c)
  PROVE  CalmConn /\ CalmTabs
<1>1. CASE VisitList(t, c)
  <2>1. FreshList.data = Null
    BY DEF FreshList, ListPage
  <2> QED BY <1>1, <2>1, CalmVisit DEF VisitList
<1>2. ASSUME NEW i \in Ids, VisitRecord(t, c, i)
      PROVE  CalmConn /\ CalmTabs
  <2>1. RecordPage(i).page = "record"
    BY DEF RecordPage
  <2> QED BY <1>2, <2>1, CalmVisit DEF VisitRecord
<1>3. CASE VisitSettings(t, c)
  <2>1. SettingsPage.page = "settings"
    BY DEF SettingsPage
  <2> QED BY <1>3, <2>1, CalmVisit DEF VisitSettings
<1> QED BY <1>1, <1>2, <1>3

----------------------------------------------------------------------------
(* What staff do to the page they are on.                                  *)

\* A list of tab t in flight.
ListOpen(d, t) == conn[d] # Null /\ conn[d].tab = t /\ conn[d].op = "list"

\* The boxes are set anew, or one of the two next pages is asked for.
Afresh(g) == /\ g.pageNo = 1 /\ g.seen = {}
             /\ g.since = departures /\ g.due = Matching(g.filter)
Turned(t, g) ==
  /\ ListShown(t)
  /\ g.pageNo \in {tab[t].pageNo - 1, tab[t].pageNo + 1}
  /\ g.filter = tab[t].filter /\ g.seen = tab[t].seen
  /\ g.since = tab[t].since /\ g.due = tab[t].due
  /\ tab[t].overlapped => g.overlapped

\* What a page that asks turns into.
AsksFor(t, c, g) ==
  /\ tab' = [tab EXCEPT ![t] = g]
  /\ g.page = "list" /\ g.data = tab[t].data /\ g.loading
  /\ Afresh(g) \/ Turned(t, g)
  /\ g.overlapped \/ \A d \in Connections : ~ListOpen(d, t)
  /\ Send(c, Asked("list", t, Question(g.filter, g.pageNo)))

\* Setting a box or turning the page shows the same list, and asks.
LEMMA ListActions ==
  ASSUME DashInv, NEW t \in Tabs, NEW c \in Connections,
         \/ \E f \in Filters : ChooseFilter(t, c, f)
         \/ \E n \in 1 .. MaxRuns : Turn(t, c, n)
  PROVE  tab[t].page = "list" /\ \E g : AsksFor(t, c, g)
<1>1. ASSUME NEW p \in ListPages, p.data = tab[t].data, Afresh(p) \/ Turned(t, p), Ask(t, c, p)
      PROVE  \E g : AsksFor(t, c, g)
  <2>1. PICK b \in BOOLEAN : b = \E d \in Connections : ListOpen(d, t)
    OBVIOUS
  <2>2. PICK g : g = [p EXCEPT !.loading = TRUE, !.error = FALSE, !.overlapped = p.overlapped \/ b]
    OBVIOUS
  <2>3. tab' = [tab EXCEPT ![t] = g]
    BY <1>1, <2>1, <2>2 DEF Ask, ListOpen
  <2>4. /\ g.page = "list" /\ g.data = p.data /\ g.loading /\ g.overlapped = (p.overlapped \/ b)
        /\ g.filter = p.filter /\ g.pageNo = p.pageNo
        /\ g.since = p.since /\ g.due = p.due /\ g.seen = p.seen
    BY <2>2 DEF ListPages
  <2>5. Afresh(g) \/ Turned(t, g)
    BY <1>1, <2>4 DEF Afresh, Turned
  <2>6. Send(c, Asked("list", t, Question(g.filter, g.pageNo)))
    BY <1>1, <2>4 DEF Ask
  <2> QED BY <1>1, <2>1, <2>3, <2>4, <2>5, <2>6 DEF AsksFor
<1>2. PICK p \in ListPages : p = tab[t] /\ tab[t].page = "list"
  BY PageKinds DEF ChooseFilter, Turn, ListShown, DashInv, DashType
<1>3. ASSUME NEW f \in Filters, ChooseFilter(t, c, f)
      PROVE  \E g \in ListPages : g.data = tab[t].data /\ Afresh(g) /\ Ask(t, c, g)
  <2>1. PICK m \in SUBSET Ids, n \in Nat : m = Matching(f) /\ n = departures
    BY DEF Matching, DashInv, DashType
  <2>2. PICK one \in Nat \ {0} : one = 1
    OBVIOUS
  <2>3. PICK g : g = [p EXCEPT !.filter = f, !.pageNo = one, !.overlapped = FALSE,
                               !.due = m, !.since = n, !.seen = {}]
    OBVIOUS
  <2>4. g \in ListPages
    BY <2>3 DEF ListPages
  <2>5. g.data = p.data /\ g.pageNo = one /\ g.seen = {} /\ g.since = n /\ g.due = m /\ g.filter = f
    BY <2>3 DEF ListPages
  <2>6. Ask(t, c, g)
    BY <1>2, <1>3, <2>1, <2>2, <2>3 DEF ChooseFilter
  <2> QED BY <1>2, <2>1, <2>2, <2>4, <2>5, <2>6 DEF Afresh
<1>4. ASSUME NEW n \in 1 .. MaxRuns, Turn(t, c, n)
      PROVE  \E g \in ListPages : g.data = tab[t].data /\ Turned(t, g) /\ Ask(t, c, g)
  <2>1. PICK g : g = [p EXCEPT !.pageNo = n]
    OBVIOUS
  <2>2. n \in Nat \ {0}
    BY ValuesAssumption
  <2>3. /\ g \in ListPages /\ g.data = p.data /\ g.pageNo = n /\ g.filter = p.filter /\ g.seen = p.seen
        /\ g.since = p.since /\ g.due = p.due /\ g.overlapped = p.overlapped
    BY <2>1, <2>2 DEF ListPages
  <2>4. Ask(t, c, g)
    BY <1>2, <1>4, <2>1 DEF Turn
  <2>5. Turned(t, g)
    BY <1>2, <1>4, <2>3 DEF Turn, Turned
  <2> QED BY <1>2, <2>3, <2>4, <2>5
<1> QED BY <1>1, <1>2, <1>3, <1>4

\* A button of the record's page is disabled, and the other left as it is.
LEMMA ButtonActions ==
  ASSUME DashInv, NEW t \in Tabs, NEW c \in Connections, ClickResend(t, c) \/ ClickDelete(t, c)
  PROVE  /\ tab[t].page = "record"
         /\ \E g : /\ tab' = [tab EXCEPT ![t] = g] /\ g.page = "record"
                   /\ ClickResend(t, c) => g.resending /\ g.deleting = tab[t].deleting
                   /\ ClickDelete(t, c) => g.deleting /\ g.resending = tab[t].resending
<1>1. PICK p \in RecordPages : p = tab[t] /\ tab[t].page = "record"
  BY PageKinds DEF ClickResend, ClickDelete, RecordShown, DashInv, DashType
<1>2. PICK g : g = [p EXCEPT !.resending = TRUE, !.error = FALSE]
  OBVIOUS
<1>3. PICK h : h = [p EXCEPT !.deleting = TRUE, !.error = FALSE]
  OBVIOUS
<1>4. /\ g.page = "record" /\ g.resending /\ g.deleting = tab[t].deleting
      /\ h.page = "record" /\ h.deleting /\ h.resending = tab[t].resending
  BY <1>1, <1>2, <1>3 DEF RecordPages
<1>5. ClickResend(t, c) => tab' = [tab EXCEPT ![t] = g]
  BY <1>1, <1>2 DEF ClickResend, DashInv, DashType
<1>6. ClickDelete(t, c) => tab' = [tab EXCEPT ![t] = h]
  BY <1>1, <1>3 DEF ClickDelete, DashInv, DashType
<1>7. ~(ClickResend(t, c) /\ ClickDelete(t, c))
  <2>1. ClickResend(t, c) => tab'[t].resending /\ tab'[t].deleting = tab[t].deleting
    BY <1>4, <1>5 DEF DashInv, DashType
  <2>2. ClickDelete(t, c) => tab'[t].deleting /\ ~tab[t].deleting
    BY <1>4, <1>6 DEF ClickDelete, DashInv, DashType
  <2> QED BY <2>1, <2>2
<1> QED BY <1>1, <1>4, <1>5, <1>6, <1>7

\* Opening, filling in and closing the form sends nothing.
LEMMA FormActions ==
  ASSUME DashInv, NEW t \in Tabs,
         \/ \E f \in Flows : StartEdit(t, f)
         \/ \E f \in Flows : TypeName(t, f)
         \/ \E e \in Edits : Type(t, e)
         \/ StartNew(t) \/ Cancel(t)
  PROVE  UNCHANGED conn /\ \E g : tab' = [tab EXCEPT ![t] = g] /\ g.page = "settings"
<1>1. UNCHANGED conn /\ OnSettings(t)
  BY DEF StartEdit, TypeName, Type, StartNew, Cancel, FormShown
<1>2. PICK p \in SettingsPages : p = tab[t]
  BY <1>1, OnSettingsPage
<1>3. \E g : tab' = [tab EXCEPT ![t] = g] /\ g.page = "settings"
  <2>1. CASE \E f \in Flows : StartEdit(t, f)
    <3>1. PICK f \in Flows : StartEdit(t, f)
      BY <2>1
    <3>2. PICK g : g = [p EXCEPT !.error = FALSE, !.editing = f, !.name = f,
                                 !.form = ToForm(p.table[f]), !.base = p.table[f]]
      OBVIOUS
    <3>3. g.page = "settings" /\ tab' = [tab EXCEPT ![t] = g]
      BY <1>2, <3>1, <3>2 DEF StartEdit, SettingsPages, DashInv, DashType
    <3> QED BY <3>3
  <2>2. CASE \E f \in Flows : TypeName(t, f)
    <3>1. PICK f \in Flows : TypeName(t, f)
      BY <2>2
    <3>2. PICK g : g = [p EXCEPT !.name = f]
      OBVIOUS
    <3>3. g.page = "settings" /\ tab' = [tab EXCEPT ![t] = g]
      BY <1>2, <3>1, <3>2 DEF TypeName, SettingsPages, DashInv, DashType
    <3> QED BY <3>3
  <2>3. CASE \E e \in Edits : Type(t, e)
    <3>1. PICK e \in Edits : Type(t, e)
      BY <2>3
    <3>2. PICK g : g = [p EXCEPT !.form = [p.form EXCEPT ![e.field] = e.value]]
      OBVIOUS
    <3>3. g.page = "settings" /\ tab' = [tab EXCEPT ![t] = g]
      BY <1>2, <3>1, <3>2 DEF Type, SettingsPages, DashInv, DashType
    <3> QED BY <3>3
  <2>4. CASE StartNew(t)
    <3>1. PICK g : g = [p EXCEPT !.error = FALSE, !.editing = "new", !.name = Blank,
                                 !.form = EmptyForm, !.base = Null]
      OBVIOUS
    <3>2. g.page = "settings" /\ tab' = [tab EXCEPT ![t] = g]
      BY <1>2, <2>4, <3>1 DEF StartNew, SettingsPages, DashInv, DashType
    <3> QED BY <3>2
  <2>5. CASE Cancel(t)
    <3>1. PICK g : g = [p EXCEPT !.editing = Null]
      OBVIOUS
    <3>2. g.page = "settings" /\ tab' = [tab EXCEPT ![t] = g]
      BY <1>2, <2>5, <3>1 DEF Cancel, SettingsPages, DashInv, DashType
    <3> QED BY <3>2
  <2> QED BY <2>1, <2>2, <2>3, <2>4, <2>5
<1> QED BY <1>1, <1>3

\* None of it is news of what is gone.
LEMMA UseCalm ==
  ASSUME DashInv, NEW t \in Tabs, Use(t)
  PROVE  CalmConn /\ CalmTabs /\ DeadStay /\ UNCHANGED gone
<1>1. UNCHANGED <<runs, gone>>
  BY DEF Use, Navigate, ClickResend, ClickDelete, ClickSave, ChooseFilter, Turn, OpenRecord,
         ClickRemove, StartEdit, TypeName, Type, StartNew, Cancel, db, view
<1>2. DeadStay
  BY <1>1 DEF DeadStay, IsDeleted
<1>3. ASSUME NEW c \in Connections, NEW op, NEW a, Send(c, Asked(op, t, a))
      PROVE  CalmConn
  BY <1>3, AskedQuiet, CalmRequest DEF Send
<1>4. ASSUME NEW c \in Connections, Navigate(t, c) \/ \E i \in Ids : OpenRecord(t, c, i)
      PROVE  CalmConn /\ CalmTabs
  BY <1>4, CalmVisits DEF Navigate, OpenRecord
<1>5. ASSUME NEW c \in Connections,
             \/ \E f \in Filters : ChooseFilter(t, c, f)
             \/ \E n \in 1 .. MaxRuns : Turn(t, c, n)
      PROVE  CalmConn /\ CalmTabs
  BY <1>3, <1>5, ListActions, CalmPage DEF AsksFor
<1>6. ASSUME NEW c \in Connections, ClickResend(t, c) \/ ClickDelete(t, c)
      PROVE  CalmConn /\ CalmTabs
  <2>1. CalmTabs
    BY <1>6, ButtonActions, CalmPage
  <2>2. CalmConn
    BY <1>3, <1>6 DEF ClickResend, ClickDelete
  <2> QED BY <2>1, <2>2
<1>7. ASSUME NEW c \in Connections, ClickSave(t, c) \/ \E f \in Flows : ClickRemove(t, c, f)
      PROVE  CalmConn /\ CalmTabs
  BY <1>3, <1>7 DEF ClickSave, ClickRemove, view, CalmTabs
<1>8. ASSUME \/ \E f \in Flows : StartEdit(t, f)
             \/ \E f \in Flows : TypeName(t, f)
             \/ \E e \in Edits : Type(t, e)
             \/ StartNew(t) \/ Cancel(t)
      PROVE  CalmConn /\ CalmTabs
  <2>1. UNCHANGED conn /\ CalmTabs
    BY <1>8, FormActions, CalmPage
  <2> QED BY <2>1 DEF CalmConn, SameNews, Quiet
<1>9. CalmConn /\ CalmTabs
  BY <1>4, <1>5, <1>6, <1>7, <1>8 DEF Use
<1> QED BY <1>1, <1>2, <1>9

----------------------------------------------------------------------------
(* Requests that go on.                                                    *)

\* What the buttons of a record ask for.
Clicks == {"resend", "delete"}

\* What the backend does with a request, but for the first half of a list, is to
\* answer it; the buttons are told no more than that it is done.
LEMMA Answers ==
  ASSUME DashInv, NEW c \in Connections,
         \/ ListTotal(c) \/ ServeLoad(c) \/ ServeResend(c) \/ ServeDelete(c)
         \/ SettingsServed(c) \/ Lose(c)
  PROVE  /\ conn[c] # Null
         /\ \E ok \in BOOLEAN : \E a : Answer(c, ok, a) /\ (conn[c].op \in Clicks => a = Null)
<1>1. CASE ListTotal(c)
  <2>1. conn[c] # Null /\ conn[c].op = "list"
    BY <1>1, Request DEF ListTotal, Fitting, Answered
  <2>2. \E a : Answer(c, TRUE, a)
    BY <1>1 DEF ListTotal
  <2> QED BY <2>1, <2>2 DEF Clicks
<1>2. CASE ServeLoad(c)
  <2>1. conn[c] # Null /\ conn[c].op = "load"
    BY <1>2 DEF ServeLoad, Serving
  <2>2. PICK i : i = conn[c].arg
    OBVIOUS
  <2>3. PICK a : a = IF Exists(i) THEN runs[i] ELSE Null
    OBVIOUS
  <2>4. Answer(c, Exists(i), a) /\ Exists(i) \in BOOLEAN
    BY <1>2, <2>2, <2>3 DEF ServeLoad, Exists
  <2> QED BY <2>1, <2>4 DEF Clicks
<1>3. CASE ServeDelete(c)
  <2>1. conn[c] # Null /\ Answer(c, Exists(conn[c].arg), Null) /\ Exists(conn[c].arg) \in BOOLEAN
    BY <1>3 DEF ServeDelete, Serving, Exists
  <2> QED BY <2>1
<1>4. CASE ServeRemove(c)
  <2>1. PICK ok \in BOOLEAN : ok = (conn[c].arg # Blank /\ configs[conn[c].arg] # Null)
    OBVIOUS
  <2>2. conn[c] # Null /\ Answer(c, ok, Null)
    BY <1>4, <2>1 DEF ServeRemove, Serving
  <2> QED BY <2>2
<1>5. CASE ServeResend(c) \/ ServeSave(c) \/ Lose(c)
  <2>1. conn[c] # Null /\ (Answer(c, TRUE, Null) \/ Answer(c, FALSE, Null))
    BY <1>5 DEF ServeResend, ServeSave, Lose, Serving
  <2> QED BY <2>1
<1>6. CASE ServeConfigs(c)
  <2>1. conn[c] # Null /\ conn[c].op = "configs" /\ Answer(c, TRUE, configs)
    BY <1>6 DEF ServeConfigs, Serving
  <2> QED BY <2>1 DEF Clicks
<1> QED BY <1>1, <1>2, <1>3, <1>4, <1>5, <1>6 DEF SettingsServed

\* Requests that are served, but for lists and deletes.
LEMMA ServedCalm ==
  ASSUME DashInv, NEW c \in Connections,
         \/ ServeLoad(c) \/ ServeResend(c) \/ ServeSave(c) \/ ServeRemove(c) \/ ServeConfigs(c)
  PROVE  CalmConn /\ CalmTabs /\ DeadStay /\ UNCHANGED gone
<1>1. UNCHANGED <<tab, gone>> /\ conn[c] # Null /\ conn[c].op \notin {"list", "delete"}
  BY DEF ServeLoad, ServeResend, ServeSave, ServeRemove, ServeConfigs, view, Serving
<1>2. \E ok \in BOOLEAN : \E a : Answer(c, ok, a)
  BY Answers DEF SettingsServed
<1>3. CalmConn
  BY <1>1, <1>2, CalmAnswer
<1>4. CalmTabs
  BY <1>1 DEF CalmTabs
<1>5. DeadStay
  <2>1. CASE UNCHANGED runs
    BY <2>1 DEF DeadStay, IsDeleted
  <2>2. CASE ServeResend(c) /\ ~UNCHANGED runs
    <3>1. PICK i \in Ids : i = conn[c].arg
      BY <2>2, Request, RequestKinds DEF ServeResend, Serving, RowRequests, RequestsOf
    <3>2. Exists(i) /\ \E st \in {"Scheduled", "Failed"} :
            runs' = [runs EXCEPT ![i].attempt = runs[i].attempt + 1, ![i].status = st]
      BY <2>2, <3>1 DEF ServeResend
    <3>3. \A j \in Ids : j # i => runs'[j] = runs[j]
      BY <3>2 DEF DashInv, DashType
    <3>4. ~IsDeleted(i)
      BY <3>2, ValuesAssumption DEF Exists, IsDeleted
    <3> QED BY <3>3, <3>4 DEF DeadStay, IsDeleted
  <2> QED BY <2>1, <2>2 DEF ServeLoad, ServeSave, ServeRemove, ServeConfigs, db
<1> QED BY <1>1, <1>3, <1>4, <1>5

\* Answers that come, but to lists and deletes, leave a list that is shown alone.
LEMMA AnswerPages ==
  ASSUME DashInv, NEW c \in Connections,
         LoadArrives(c) \/ ResendArrives(c) \/ SettingsAnswered(c)
  PROVE  \A u \in Tabs : tab'[u] = tab[u] \/ tab'[u].page # "list"
<1>1. PICK t \in Tabs : t = conn[c].tab
  BY Request DEF LoadArrives, ResendArrives, SettingsAnswered, ConfigsArrive, SaveArrives,
                 RemoveArrives, Arrived
<1>2. ASSUME NEW u \in Tabs, u # t
      PROVE  tab'[u] = tab[u]
  BY <1>1, <1>2 DEF LoadArrives, ResendArrives, SettingsAnswered, ConfigsArrive, SaveArrives,
                    RemoveArrives, DashInv, DashType
<1>3. tab'[t] = tab[t] \/ tab'[t].page # "list"
  <2>1. CASE UNCHANGED tab
    BY <2>1
  <2>2. CASE ~UNCHANGED tab
    <3>1. conn[c].live \/ conn[c].op \in Reads
      BY <2>2 DEF LoadArrives, ResendArrives, SettingsAnswered, ConfigsArrive, SaveArrives,
                  RemoveArrives, Arrived, Reads
    <3>2. ASSUME LoadArrives(c) \/ ResendArrives(c)
          PROVE  tab'[t].page # "list"
      <4>1. tab[t].page = "record"
        BY <1>1, <3>1, <3>2, Request DEF LoadArrives, ResendArrives, Arrived, PageOfOp
      <4>2. PICK p \in RecordPages : p = tab[t]
        BY <4>1, PageKinds DEF DashInv, DashType
      <4>3. CASE LoadArrives(c)
        <5>1. tab'[t] = IF conn[c].ok THEN [p EXCEPT !.shown = conn[c].answer] ELSE [p EXCEPT !.error = TRUE]
          BY <1>1, <4>2, <4>3 DEF LoadArrives, DashInv, DashType
        <5> QED BY <5>1 DEF RecordPages
      <4>4. CASE ResendArrives(c)
        <5>1. tab'[t] = p \/ tab'[t] = [p EXCEPT !.resending = FALSE, !.error = p.error \/ ~conn[c].ok]
          BY <1>1, <4>2, <4>4 DEF ResendArrives, DashInv, DashType
        <5> QED BY <5>1 DEF RecordPages
      <4> QED BY <3>2, <4>3, <4>4
    <3>3. ASSUME SettingsAnswered(c)
          PROVE  tab'[t].page # "list"
      <4>1. OnSettings(t)
        BY <1>1, <3>1, <3>3, Request DEF SettingsAnswered, ConfigsArrive, SaveArrives, RemoveArrives,
                                         Arrived, PageOfOp, OnSettings
      <4>2. PICK p \in SettingsPages : p = tab[t]
        BY <4>1, OnSettingsPage
      <4>3. \/ tab'[t] = p \/ tab'[t] = [p EXCEPT !.error = TRUE]
            \/ tab'[t] = [p EXCEPT !.editing = Null]
            \/ tab'[t] = [p EXCEPT !.table = conn[c].answer]
        BY <1>1, <3>3, <4>2 DEF SettingsAnswered, ConfigsArrive, SaveArrives, RemoveArrives,
                                DashInv, DashType
      <4> QED BY <4>3 DEF SettingsPages
    <3> QED BY <3>2, <3>3
  <2> QED BY <2>1, <2>2
<1> QED BY <1>2, <1>3

\* Nor do they bring news.
LEMMA AnsweredCalm ==
  ASSUME DashInv, NEW c \in Connections,
         LoadArrives(c) \/ ResendArrives(c) \/ SettingsAnswered(c)
  PROVE  CalmConn /\ CalmTabs /\ DeadStay /\ UNCHANGED gone
<1>1. UNCHANGED <<runs, gone>> /\ conn[c] # Null
  BY DEF LoadArrives, ResendArrives, SettingsAnswered, ConfigsArrive, SaveArrives, RemoveArrives, db,
         Arrived
<1>2. DeadStay
  BY <1>1 DEF DeadStay, IsDeleted
<1>3. \/ conn' = [conn EXCEPT ![c] = Null]
      \/ \E op, a : conn' = [conn EXCEPT ![c] = Asked(op, conn[c].tab, a)]
  BY DEF LoadArrives, ResendArrives, SettingsAnswered, ConfigsArrive, SaveArrives, RemoveArrives, Settle
<1>4. CalmConn
  BY <1>3, CalmRequest, AskedQuiet DEF Quiet
<1>5. CalmTabs
  BY AnswerPages DEF CalmTabs
<1> QED BY <1>1, <1>2, <1>4, <1>5

\* A list that is read names nothing that is gone.
LEMMA MatchingClean ==
  ASSUME DashInv, GoneInv, NEW t \in Tabs, NEW f
  PROVE  Matching(f) \cap gone[t] = {}
BY ValuesAssumption DEF Matching, Matches, GoneInv, GoneDeleted, IsDeleted

\* News of one list: the rest is as it was.
LEMMA ListNews ==
  ASSUME DashInv, GoneInv, NEW c \in Connections, conn[c] # Null, conn[c].op = "list",
         NEW g, conn' = [conn EXCEPT ![c] = g], g.op = "list", g.tab = conn[c].tab,
         g.answer.items \cap gone[g.tab] = {}, UNCHANGED <<tab, runs, gone>>
  PROVE  GoneInv'
<1>1. \A d \in Connections : conn'[d] = IF d = c THEN g ELSE conn[d]
  BY DEF DashInv, DashType
<1>2. GoneDeleted' /\ DeletedNotListed'
  BY DEF GoneInv, GoneDeleted, IsDeleted, DeletedNotListed
<1>3. DeletesDone'
  BY <1>1 DEF GoneInv, DeletesDone, IsDeleted
<1>4. ListsClean'
  BY <1>1 DEF GoneInv, ListsClean
<1> QED BY <1>2, <1>3, <1>4 DEF GoneInv

LEMMA ListItemsClean ==
  ASSUME DashInv, GoneInv, NEW c \in Connections, ListItems(c)
  PROVE  GoneInv'
<1>1. PICK r \in ListRequests : r = conn[c]
  BY Request, RequestKinds DEF ListItems, Serving
<1>2. PICK a : /\ \E P \in PagesOf(Matching(r.arg.filter), r.arg.pageNo) :
                    a = [items |-> P, total |-> 0, asked |-> r.arg]
               /\ conn' = [conn EXCEPT ![c].stage = "items", ![c].answer = a]
  BY <1>1 DEF ListItems
<1>3. PICK g : g = [r EXCEPT !.stage = "items", !.answer = a]
  OBVIOUS
<1>4. g.op = "list" /\ g.tab = r.tab /\ g.answer = a /\ r.tab \in Tabs
  BY <1>3 DEF ListRequests, RequestsOf
<1>5. conn' = [conn EXCEPT ![c] = g] /\ conn[c] # Null /\ conn[c].op = "list" /\ UNCHANGED <<tab, runs, gone>>
  BY <1>1, <1>2, <1>3 DEF ListItems, Serving, DashInv, DashType, db, view
<1>6. a.items \cap gone[r.tab] = {}
  BY <1>2, <1>4, MatchingClean DEF PagesOf
<1> QED BY <1>1, <1>4, <1>5, <1>6, ListNews

LEMMA ListTotalClean ==
  ASSUME DashInv, GoneInv, NEW c \in Connections, ListTotal(c)
  PROVE  GoneInv'
<1>1. conn[c] # Null /\ conn[c].op = "list" /\ conn[c].stage = "items"
  BY Request DEF ListTotal, Fitting, Answered
<1>2. PICK r \in ListRequests : r = conn[c] /\ Fitting(r) /\ r.tab \in Tabs
  BY <1>1, Request, RequestKinds
<1>3. PICK b \in Listing : b = r.answer
  BY <1>1, <1>2 DEF Fitting, Answered
<1>4. PICK n : n = Cardinality(Matching(r.arg.filter))
  OBVIOUS
<1>5. PICK a : a = [b EXCEPT !.total = n]
  OBVIOUS
<1>6. PICK g : g = [r EXCEPT !.stage = "answered", !.ok = TRUE, !.answer = a]
  OBVIOUS
<1>7. g.op = "list" /\ g.tab = r.tab /\ g.answer = a
  BY <1>6 DEF ListRequests, RequestsOf
<1>8. a.items = b.items
  BY <1>5 DEF Listing
<1>9. b.items \cap gone[r.tab] = {}
  BY <1>1, <1>2, <1>3 DEF GoneInv, ListsClean
<1>10. UNCHANGED <<tab, runs, gone>> /\ Answer(c, TRUE, a)
  BY <1>2, <1>3, <1>4, <1>5 DEF ListTotal, db, view
<1>11. conn' = [conn EXCEPT ![c] = g]
  BY <1>2, <1>6, <1>10 DEF Answer, DashInv, DashType
<1> QED BY <1>1, <1>2, <1>7, <1>8, <1>9, <1>10, <1>11, ListNews

\* The answer that is shown was clean.
LEMMA ListArrivesClean ==
  ASSUME DashInv, GoneInv, NEW c \in Connections, ListArrives(c)
  PROVE  GoneInv'
<1>1. conn[c] # Null /\ conn[c].op = "list" /\ conn' = [conn EXCEPT ![c] = Null] /\ UNCHANGED <<runs, gone>>
  BY DEF ListArrives, Arrived, Settle, db
<1>2. PICK t \in Tabs : t = conn[c].tab /\ tab[t].page = "list"
  BY <1>1, Request DEF PageOfOp, Reads
<1>3. PICK p \in ListPages : p = tab[t]
  BY <1>2, PageKinds DEF DashInv, DashType
<1>4. CalmConn
  BY <1>1, CalmRequest DEF Quiet
<1>5. DeadStay
  BY <1>1 DEF DeadStay, IsDeleted
<1>6. \A u \in Tabs : u # t => tab'[u] = tab[u]
  BY <1>2 DEF ListArrives, DashInv, DashType
<1>7. CASE ~conn[c].ok
  <2>1. PICK g : g = [p EXCEPT !.error = TRUE, !.loading = FALSE]
    OBVIOUS
  <2>2. tab' = [tab EXCEPT ![t] = g] /\ g.page = "list" /\ g.data = p.data
    BY <1>2, <1>3, <1>7, <2>1 DEF ListArrives, ListPages, DashInv, DashType
  <2> QED BY <1>1, <1>2, <1>3, <1>4, <1>5, <2>2, CalmPage, Calm
<1>8. CASE conn[c].ok
  <2>1. PICK a : a = conn[c].answer
    OBVIOUS
  <2>2. PICK g : g = [p EXCEPT !.data = a, !.loading = FALSE, !.seen = p.seen \cup a.items]
    OBVIOUS
  <2>3. tab' = [tab EXCEPT ![t] = g] /\ g.data = a
    BY <1>2, <1>3, <1>8, <2>1, <2>2 DEF ListArrives, ListPages, DashInv, DashType
  <2>4. a.items \cap gone[t] = {}
    BY <1>1, <1>2, <1>8, <2>1 DEF GoneInv, ListsClean
  <2>5. tab'[t] = g
    BY <2>3 DEF DashInv, DashType
  <2>6. DeletedNotListed'
    BY <1>1, <1>6, <2>3, <2>4, <2>5 DEF GoneInv, DeletedNotListed
  <2>7. GoneDeleted'
    BY <1>1 DEF GoneInv, GoneDeleted, IsDeleted
  <2>8. \A d \in Connections : conn'[d] = IF d = c THEN Null ELSE conn[d]
    BY <1>1 DEF DashInv, DashType
  <2>9. DeletesDone' /\ ListsClean'
    BY <1>1, <2>8 DEF GoneInv, DeletesDone, ListsClean, IsDeleted
  <2> QED BY <2>6, <2>7, <2>9 DEF GoneInv
<1> QED BY <1>7, <1>8

\* A delete that is served marks its record.
LEMMA ServeDeleteClean ==
  ASSUME DashInv, GoneInv, NEW c \in Connections, ServeDelete(c)
  PROVE  GoneInv'
<1>1. conn[c] # Null /\ conn[c].op = "delete" /\ UNCHANGED <<tab, gone>>
  BY DEF ServeDelete, Serving, view
<1>2. PICK r \in RowRequests : r = conn[c]
  BY <1>1, Request, RequestKinds
<1>3. PICK i \in Ids : i = r.arg
  BY DEF RowRequests, RequestsOf
<1>4. PICK ok \in BOOLEAN : ok = Exists(i)
  <2>1. Exists(i) \in BOOLEAN
    BY DEF Exists
  <2> QED BY <2>1
<1>5. PICK g : g = [r EXCEPT !.stage = "answered", !.ok = ok, !.answer = Null]
  OBVIOUS
<1>6. g.op = r.op /\ g.arg = i /\ g.ok = ok
  BY <1>3, <1>5 DEF RowRequests, RequestsOf
<1>7. Answer(c, ok, Null) /\ runs' = IF ok THEN [runs EXCEPT ![i] = Deleted] ELSE runs
  BY <1>2, <1>3, <1>4 DEF ServeDelete, Exists
<1>8. conn' = [conn EXCEPT ![c] = g]
  BY <1>2, <1>5, <1>7 DEF Answer, DashInv, DashType
<1>9. \A d \in Connections : conn'[d] = IF d = c THEN g ELSE conn[d]
  BY <1>8 DEF DashInv, DashType
<1>10. DeadStay /\ (ok => runs'[i].status = "deleted")
  BY <1>7 DEF DeadStay, IsDeleted, Deleted, NoRow, DashInv, DashType
<1>11. GoneDeleted'
  BY <1>1, <1>10 DEF GoneInv, GoneDeleted, IsDeleted, DeadStay, DashInv, DashType
<1>12. DeletesDone'
  <2> SUFFICES ASSUME NEW d \in Connections, conn'[d] # Null, conn'[d].op = "delete", conn'[d].ok
               PROVE  runs'[conn'[d].arg].status = "deleted"
    BY DEF DeletesDone, IsDeleted
  <2>1. CASE d = c
    BY <1>6, <1>9, <1>10, <2>1
  <2>2. CASE d # c
    <3>1. conn'[d] = conn[d]
      BY <1>9, <2>2
    <3>2. conn[d].arg \in Ids
      BY <3>1, Request, RequestKinds DEF RowRequests, RequestsOf
    <3>3. IsDeleted(conn[d].arg)
      BY <3>1 DEF GoneInv, DeletesDone
    <3> QED BY <1>10, <3>1, <3>2, <3>3 DEF DeadStay
  <2> QED BY <2>1, <2>2
<1>13. ListsClean' /\ DeletedNotListed'
  BY <1>1, <1>2, <1>6, <1>9 DEF GoneInv, ListsClean, DeletedNotListed
<1> QED BY <1>11, <1>12, <1>13 DEF GoneInv

\* A tab whose delete has succeeded was on a record: nothing it has in flight
\* is a list.
LEMMA DeleteArrivesClean ==
  ASSUME DashInv, GoneInv, NEW c \in Connections, DeleteArrives(c)
  PROVE  GoneInv'
<1>1. conn[c] # Null /\ conn[c].op = "delete" /\ UNCHANGED runs
  BY DEF DeleteArrives, Arrived, db
<1>2. PICK t \in Tabs, i \in Ids : t = conn[c].tab /\ i = conn[c].arg
  BY <1>1, Request, RequestKinds DEF RowRequests, RequestsOf
<1>3. DeadStay
  BY <1>1 DEF DeadStay, IsDeleted
<1>4. CalmConn /\ CalmTabs
  <2>1. CASE VisitList(t, c)
    BY <2>1, CalmVisits
  <2>2. CASE Settle(c) /\ UNCHANGED tab
    BY <2>2, CalmRequest DEF Settle, Quiet, CalmTabs
  <2>3. CASE conn[c].live /\ Settle(c) /\ tab' = [tab EXCEPT ![t].deleting = FALSE, ![t].error = TRUE]
    <3>1. PICK p \in RecordPages : p = tab[t]
      BY <1>1, <1>2, <2>3, Request, PageKinds DEF PageOfOp, DashInv, DashType
    <3>2. PICK g : g = [p EXCEPT !.deleting = FALSE, !.error = TRUE]
      OBVIOUS
    <3>3. g.page = "record" /\ tab' = [tab EXCEPT ![t] = g]
      BY <2>3, <3>1, <3>2 DEF RecordPages, DashInv, DashType
    <3> QED BY <2>3, <3>3, CalmPage, CalmRequest DEF Settle, Quiet
  <2> QED BY <1>2, <2>1, <2>2, <2>3 DEF DeleteArrives
<1>5. CASE UNCHANGED gone
  BY <1>3, <1>4, <1>5, Calm
<1>6. CASE conn[c].ok /\ conn[c].live /\ gone' = [gone EXCEPT ![t] = gone[t] \cup {i}]
  <2>1. tab[t].page = "record"
    BY <1>1, <1>2, <1>6, Request DEF PageOfOp
  <2>2. \A u \in Tabs : u # t => gone'[u] = gone[u]
    BY <1>6 DEF DashInv, DashType
  <2>3. gone'[t] = gone[t] \cup {i}
    BY <1>6 DEF DashInv, DashType
  <2>4. GoneDeleted'
    BY <1>1, <1>2, <1>6, <2>2, <2>3 DEF GoneInv, GoneDeleted, DeletesDone, IsDeleted
  <2>5. \A d \in Connections : Quiet(conn'[d]) \/ SameNews(conn'[d], conn[d])
    BY <1>4 DEF CalmConn
  <2>6. DeletesDone'
    BY <1>1, <2>5 DEF GoneInv, DeletesDone, IsDeleted, Quiet, SameNews
  <2>7. ListsClean'
    <3> SUFFICES ASSUME NEW d \in Connections, conn'[d] # Null, conn'[d].op = "list",
                        conn'[d].stage = "items" \/ conn'[d].ok
                 PROVE  conn'[d].answer.items \cap gone'[conn'[d].tab] = {}
      BY DEF ListsClean
    <3>1. SameNews(conn'[d], conn[d])
      BY <2>5 DEF Quiet
    <3>2. conn[d].tab \in Tabs /\ tab[conn[d].tab].page = "list"
      BY <3>1, Request DEF SameNews, PageOfOp, Reads
    <3> QED BY <2>1, <2>2, <3>1, <3>2 DEF SameNews, GoneInv, ListsClean
  <2>8. DeletedNotListed'
    BY <1>4, <2>1, <2>2 DEF CalmTabs, GoneInv, DeletedNotListed
  <2> QED BY <2>4, <2>6, <2>7, <2>8 DEF GoneInv
<1> QED BY <1>2, <1>5, <1>6 DEF DeleteArrives

\* What comes in and moves on, and what is lost.
LEMMA WorldCalm ==
  ASSUME DashInv,
         \/ \E i \in Ids, r \in NewRows : Arrives(i, r)
         \/ \E i \in Ids, st \in Statuses : Progresses(i, st)
         \/ \E c \in Connections : Lose(c)
         \/ UNCHANGED vars
  PROVE  CalmConn /\ CalmTabs /\ DeadStay /\ UNCHANGED gone
<1>1. UNCHANGED <<tab, gone>> /\ CalmTabs
  BY DEF Arrives, Progresses, Lose, vars, view, CalmTabs
<1>2. CalmConn
  <2>1. CASE UNCHANGED conn
    BY <2>1 DEF CalmConn, Quiet, SameNews
  <2>2. ASSUME NEW c \in Connections, Lose(c)
        PROVE  CalmConn
    BY <2>2, CalmAnswer DEF Lose
  <2> QED BY <2>1, <2>2 DEF Arrives, Progresses, vars
<1>3. DeadStay
  <2>1. CASE UNCHANGED runs
    BY <2>1 DEF DeadStay, IsDeleted
  <2>2. ASSUME NEW i \in Ids, NEW r \in NewRows, Arrives(i, r)
        PROVE  DeadStay
    BY <2>2 DEF Arrives, NextId, DeadStay, IsDeleted, DashInv, DashType
  <2>3. ASSUME NEW i \in Ids, NEW st \in Statuses, Progresses(i, st)
        PROVE  DeadStay
    <3>1. ~IsDeleted(i)
      BY <2>3, ValuesAssumption DEF Progresses, Exists, IsDeleted
    <3>2. \A j \in Ids : j # i => runs'[j] = runs[j]
      BY <2>3 DEF Progresses, DashInv, DashType
    <3> QED BY <3>1, <3>2 DEF DeadStay, IsDeleted
  <2> QED BY <2>1, <2>2, <2>3 DEF Lose, vars, db
<1> QED BY <1>1, <1>2, <1>3

LEMMA GoneKept == DashInv /\ GoneInv /\ [Next]_vars => GoneInv'
<1> SUFFICES ASSUME DashInv, GoneInv, [Next]_vars
             PROVE  GoneInv'
  OBVIOUS
<1>1. ASSUME NEW t \in Tabs, Use(t)
      PROVE  GoneInv'
  BY <1>1, UseCalm, Calm
<1>2. ASSUME NEW c \in Connections, Goes(c)
      PROVE  GoneInv'
  <2>1. CASE RecordsServed(c)
    BY <2>1, ListItemsClean, ListTotalClean, ServeDeleteClean, ServedCalm, Calm DEF RecordsServed
  <2>2. CASE RecordsAnswered(c)
    BY <2>2, ListArrivesClean, DeleteArrivesClean, AnsweredCalm, Calm DEF RecordsAnswered
  <2>3. CASE SettingsServed(c)
    BY <2>3, ServedCalm, Calm DEF SettingsServed
  <2>4. CASE SettingsAnswered(c)
    BY <2>4, AnsweredCalm, Calm
  <2> QED BY <1>2, <2>1, <2>2, <2>3, <2>4 DEF Goes
<1>3. ASSUME \/ \E i \in Ids, r \in NewRows : Arrives(i, r)
             \/ \E i \in Ids, st \in Statuses : Progresses(i, st)
             \/ \E c \in Connections : Lose(c)
             \/ UNCHANGED vars
      PROVE  GoneInv'
  BY <1>3, WorldCalm, Calm
<1> QED BY <1>1, <1>2, <1>3 DEF Next, Quiescent

\* A record whose delete a tab waited for is in no list it shows afterwards,
\* however the answers to its questions are delayed and whatever other tabs do
\* (remove, router.push and the effect of the Records page; findAll).
THEOREM DeletedUnlisted == Spec => []DeletedNotListed
<1>1. Init => GoneInv
  BY DEF Init, GoneInv, GoneDeleted, DeletesDone, ListsClean, DeletedNotListed, ClosedPage
<1>2. DashInv /\ GoneInv /\ [Next]_vars => GoneInv'
  BY GoneKept
<1>3. GoneInv => DeletedNotListed
  BY DEF GoneInv
<1> QED BY <1>1, <1>2, <1>3, DashboardInvariance, PTL DEF Spec

----------------------------------------------------------------------------
(* What is under way.                                                      *)

\* A request that keeps a button of tab t disabled.
Open(r, t, op) == r # Null /\ r.op = op /\ r.tab = t /\ r.live

FlightKept(t) == \A op \in Clicks : InFlight(t, op)' = InFlight(t, op)
FlightOver(t) == \A op \in Clicks : InFlight(t, op)' = {}

\* A tab shows the buttons it has shown, or has left the record.
ButtonsKept(t) == tab'[t].page = "record" =>
  /\ tab[t].page = "record"
  /\ tab'[t].resending = tab[t].resending /\ tab'[t].deleting = tab[t].deleting
ButtonsFresh(t) == tab'[t].page = "record" => ~tab'[t].resending /\ ~tab'[t].deleting

Truth(t) == tab[t].page = "record" =>
  /\ IF tab[t].resending THEN One(t, "resend") ELSE InFlight(t, "resend") = {}
  /\ IF tab[t].deleting  THEN One(t, "delete") ELSE InFlight(t, "delete") = {}

\* Button by button.
LEMMA TruthOfTab ==
  ASSUME ButtonsTellTheTruth, NEW t \in Tabs,
         (FlightKept(t) /\ ButtonsKept(t)) \/ (FlightOver(t) /\ ButtonsFresh(t))
  PROVE  Truth(t)'
<1>1. Truth(t)
  BY DEF ButtonsTellTheTruth, Truth
<1>2. CASE FlightKept(t) /\ ButtonsKept(t)
  <2>1. InFlight(t, "resend")' = InFlight(t, "resend") /\ InFlight(t, "delete")' = InFlight(t, "delete")
    BY <1>2 DEF FlightKept, Clicks
  <2> QED BY <1>1, <1>2, <2>1 DEF ButtonsKept, Truth, One
<1>3. CASE FlightOver(t) /\ ButtonsFresh(t)
  BY <1>3 DEF FlightOver, ButtonsFresh, Truth, Clicks
<1> QED BY <1>2, <1>3

LEMMA TruthOfAll == ASSUME \A t \in Tabs : Truth(t)' PROVE ButtonsTellTheTruth'
BY DEF ButtonsTellTheTruth, Truth

\* One request becomes another that disables as much.
LEMMA FlightOfOne ==
  ASSUME DashInv, NEW c \in Connections, NEW r, conn' = [conn EXCEPT ![c] = r], NEW t \in Tabs,
         \A op \in Clicks : Open(r, t, op) <=> Open(conn[c], t, op)
  PROVE  FlightKept(t)
<1>1. \A d \in Connections : conn'[d] = IF d = c THEN r ELSE conn[d]
  BY DEF DashInv, DashType
<1>2. \A op \in Clicks : \A d \in Connections : Open(conn'[d], t, op) <=> Open(conn[d], t, op)
  BY <1>1
<1> QED BY <1>2 DEF FlightKept, InFlight, Open

\* An answer leaves the button as it is.
LEMMA FlightOfAnswer ==
  ASSUME DashInv, NEW c \in Connections, conn[c] # Null, NEW ok \in BOOLEAN, NEW a, Answer(c, ok, a),
         conn[c].op \in Clicks => a = Null, NEW t \in Tabs
  PROVE  FlightKept(t)
<1>1. PICK r \in Requests : r = conn[c] /\ r # Null
  BY Request
<1>2. PICK g : g = [r EXCEPT !.stage = "answered", !.ok = ok, !.answer = a]
  OBVIOUS
<1>3. conn' = [conn EXCEPT ![c] = g]
  BY <1>1, <1>2 DEF Answer, DashInv, DashType
<1>4. g.op = r.op /\ g.tab = r.tab /\ g.live = r.live
  BY <1>2 DEF Requests, RequestsOf, ListRequests, LoadRequests, TableRequests, RowRequests,
              SaveRequests, RemoveRequests
<1>5. r.op \in Clicks => g # Null
  <2> SUFFICES ASSUME r.op \in Clicks
               PROVE  g # Null
    OBVIOUS
  <2>1. r \in RowRequests
    BY RequestKinds DEF Clicks
  <2>2. a = Null
    BY <1>1
  <2>3. g \in RowRequests /\ g.stage = "answered"
    BY <1>2, <2>1, <2>2 DEF RowRequests, RequestsOf
  <2> QED BY <2>3, NullAssumption DEF RowRequests, RequestsOf
<1>6. \A op \in Clicks : Open(g, t, op) <=> Open(conn[c], t, op)
  BY <1>1, <1>4, <1>5 DEF Open
<1> QED BY <1>3, <1>6, FlightOfOne

\* A request that disables nothing comes into a free connection, or goes.
LEMMA FlightOfOther ==
  ASSUME DashInv, NEW c \in Connections, NEW r, conn' = [conn EXCEPT ![c] = r],
         NEW t \in Tabs, \A op \in Clicks : ~Open(r, t, op) /\ ~Open(conn[c], t, op)
  PROVE  FlightKept(t)
BY FlightOfOne

LEMMA AskedCloses ==
  ASSUME NEW op \in {"list", "load", "configs", "save", "remove"}, NEW u, NEW a
  PROVE  \A t, p : p \in Clicks => ~Open(Asked(op, u, a), t, p)
BY DEF Asked, Open, Clicks

\* A page that comes has nothing under way; the other tabs go on.
LEMMA FlightOfVisit ==
  ASSUME DashInv, NEW t \in Tabs, NEW c \in Connections, NEW p, NEW op \in {"list", "load", "configs"},
         NEW a, Visit(t, c, p, Asked(op, t, a)), conn[c] = Null \/ conn[c].tab = t,
         p.page = "record" => ~p.resending /\ ~p.deleting
  PROVE  /\ FlightOver(t) /\ ButtonsFresh(t)
         /\ \A u \in Tabs : u # t => FlightKept(u) /\ ButtonsKept(u)
<1>1. \A d \in Connections : conn'[d] = IF d = c THEN Asked(op, t, a) ELSE Abandoned(t, conn[d])
  BY DEF Visit
<1>2. \A d \in Connections : conn[d] \in Requests \cup {Null}
  BY DEF DashInv, DashType
<1>3. ASSUME NEW q \in Requests \cup {Null}, NEW o \in Clicks, NEW u \in Tabs
      PROVE  Open(Abandoned(t, q), u, o) <=> (u # t /\ Open(q, u, o))
  <2>1. CASE q = Null \/ q.tab # t
    BY <2>1 DEF Abandoned, Open
  <2>2. CASE q # Null /\ q.tab = t /\ q.op \in Reads
    BY <2>2 DEF Abandoned, Open
  <2>3. CASE q # Null /\ q.tab = t /\ q.op \notin Reads
    <3>1. PICK g : g = [q EXCEPT !.live = FALSE]
      OBVIOUS
    <3>2. ~g.live
      BY <2>3, <3>1 DEF Requests, RequestsOf, ListRequests, LoadRequests, TableRequests, RowRequests,
                        SaveRequests, RemoveRequests
    <3>3. Abandoned(t, q) = g
      BY <2>3, <3>1 DEF Abandoned
    <3> QED BY <2>3, <3>2, <3>3 DEF Open
  <2> QED BY <2>1, <2>2, <2>3
<1>4. \A o \in Clicks : \A u \in Tabs : \A d \in Connections :
        Open(conn'[d], u, o) <=> (u # t /\ Open(conn[d], u, o))
  <2> SUFFICES ASSUME NEW o \in Clicks, NEW u \in Tabs, NEW d \in Connections
               PROVE  Open(conn'[d], u, o) <=> (u # t /\ Open(conn[d], u, o))
    OBVIOUS
  <2>1. CASE d # c
    BY <1>1, <1>2, <1>3, <2>1
  <2>2. CASE d = c
    <3>1. ~Open(Asked(op, t, a), u, o)
      BY AskedCloses
    <3>2. u # t => ~Open(conn[c], u, o)
      BY DEF Open
    <3> QED BY <1>1, <2>2, <3>1, <3>2
  <2> QED BY <2>1, <2>2
<1>5. FlightOver(t)
  BY <1>4 DEF FlightOver, InFlight, Open
<1>6. \A u \in Tabs : u # t => FlightKept(u)
  BY <1>4 DEF FlightKept, InFlight, Open
<1>7. \A u \in Tabs : tab'[u] = IF u = t THEN p ELSE tab[u]
  BY DEF Visit, DashInv, DashType
<1> QED BY <1>5, <1>6, <1>7 DEF ButtonsFresh, ButtonsKept

\* All pages and buttons stay.
LEMMA AllKept ==
  ASSUME ButtonsTellTheTruth, \A u \in Tabs : FlightKept(u) /\ ButtonsKept(u)
  PROVE  ButtonsTellTheTruth'
BY TruthOfTab, TruthOfAll

\* A page that stays shows its buttons as they were.
LEMMA KeptPage ==
  ASSUME DashInv, NEW t \in Tabs, NEW g, tab' = [tab EXCEPT ![t] = g],
         g.page = "record" => /\ tab[t].page = "record" /\ g.resending = tab[t].resending
                              /\ g.deleting = tab[t].deleting
  PROVE  \A u \in Tabs : ButtonsKept(u)
BY DEF DashInv, DashType, ButtonsKept

LEMMA SamePage ==
  ASSUME UNCHANGED tab
  PROVE  \A u \in Tabs : ButtonsKept(u)
BY DEF ButtonsKept

LEMMA SameFlight ==
  ASSUME UNCHANGED conn
  PROVE  \A u \in Tabs : FlightKept(u)
BY DEF FlightKept, InFlight

\* A page that is left leaves its buttons behind.
LEMMA VisitTruth ==
  ASSUME DashInv, ButtonsTellTheTruth, NEW t \in Tabs, NEW c \in Connections,
         conn[c] = Null \/ conn[c].tab = t,
         VisitList(t, c) \/ (\E i \in Ids : VisitRecord(t, c, i)) \/ VisitSettings(t, c)
  PROVE  ButtonsTellTheTruth'
<1>1. /\ FlightOver(t) /\ ButtonsFresh(t)
      /\ \A u \in Tabs : u # t => FlightKept(u) /\ ButtonsKept(u)
  <2>1. CASE VisitList(t, c)
    <3>1. FreshList.page # "record"
      BY DEF FreshList, ListPage
    <3> QED BY <2>1, <3>1, FlightOfVisit DEF VisitList
  <2>2. ASSUME NEW i \in Ids, VisitRecord(t, c, i)
        PROVE  /\ FlightOver(t) /\ ButtonsFresh(t)
               /\ \A u \in Tabs : u # t => FlightKept(u) /\ ButtonsKept(u)
    <3>1. ~RecordPage(i).resending /\ ~RecordPage(i).deleting
      BY DEF RecordPage
    <3> QED BY <2>2, <3>1, FlightOfVisit DEF VisitRecord
  <2>3. CASE VisitSettings(t, c)
    <3>1. SettingsPage.page # "record"
      BY DEF SettingsPage
    <3> QED BY <2>3, <3>1, FlightOfVisit DEF VisitSettings
  <2> QED BY <2>1, <2>2, <2>3
<1> QED BY <1>1, TruthOfTab, TruthOfAll

\* A button is disabled as its request is sent.
LEMMA ClickTruth ==
  ASSUME DashInv, ButtonsTellTheTruth, NEW t \in Tabs, NEW c \in Connections, NEW op \in Clicks,
         NEW i \in Ids, Send(c, Asked(op, t, i)), tab[t].page = "record",
         NEW g, tab' = [tab EXCEPT ![t] = g], g.page = "record",
         op = "resend" => ~tab[t].resending /\ g.resending /\ g.deleting = tab[t].deleting,
         op = "delete" => ~tab[t].deleting /\ g.deleting /\ g.resending = tab[t].resending
  PROVE  ButtonsTellTheTruth'
<1>1. PICK r : r = Asked(op, t, i)
  OBVIOUS
<1>2. r.op = op /\ r.tab = t /\ r.live /\ r # Null
  <2>1. r \in [op : {"resend", "delete"}, tab : Tabs, live : BOOLEAN, stage : {"asked", "answered"},
               ok : BOOLEAN, arg : Ids, answer : {Null}]
    BY <1>1 DEF Asked, Clicks
  <2>2. r # Null
    BY <2>1, NullAssumption
  <2> QED BY <1>1, <2>2 DEF Asked
<1>3. \A d \in Connections : conn'[d] = IF d = c THEN r ELSE conn[d]
  BY <1>1 DEF Send, DashInv, DashType
<1>4. conn[c] = Null
  BY DEF Send, Free
<1>5. \A o \in Clicks : \A u \in Tabs : \A d \in Connections :
        Open(conn'[d], u, o) <=> ((d = c /\ u = t /\ o = op) \/ Open(conn[d], u, o))
  BY <1>2, <1>3, <1>4 DEF Open
<1>6. \A u \in Tabs : tab'[u] = IF u = t THEN g ELSE tab[u]
  BY DEF DashInv, DashType
<1>7. \A u \in Tabs : u # t => FlightKept(u) /\ ButtonsKept(u)
  BY <1>5, <1>6 DEF FlightKept, InFlight, Open, ButtonsKept
<1>8. \A o \in Clicks : o # op => InFlight(t, o)' = InFlight(t, o)
  BY <1>5 DEF InFlight, Open
<1>9. InFlight(t, op) = {}
  BY DEF ButtonsTellTheTruth, Clicks
<1>10. InFlight(t, op)' = {c}
  BY <1>5, <1>9 DEF InFlight, Open
<1>11. Truth(t)'
  <2>1. Truth(t)
    BY DEF ButtonsTellTheTruth, Truth
  <2>2. tab'[t] = g
    BY <1>6
  <2>3. CASE op = "resend"
    <3>1. InFlight(t, "resend")' = {c} /\ InFlight(t, "delete")' = InFlight(t, "delete")
      BY <1>8, <1>10, <2>3 DEF Clicks
    <3> QED BY <2>1, <2>2, <2>3, <3>1 DEF Truth, One
  <2>4. CASE op = "delete"
    <3>1. InFlight(t, "delete")' = {c} /\ InFlight(t, "resend")' = InFlight(t, "resend")
      BY <1>8, <1>10, <2>4 DEF Clicks
    <3> QED BY <2>1, <2>2, <2>4, <3>1 DEF Truth, One
  <2> QED BY <2>3, <2>4 DEF Clicks
<1> QED BY <1>7, <1>11, TruthOfTab, TruthOfAll

\* Staff do what the buttons allow.
LEMMA UseTruth ==
  ASSUME DashInv, ButtonsTellTheTruth, NEW t \in Tabs, Use(t)
  PROVE  ButtonsTellTheTruth'
<1>1. ASSUME NEW c \in Connections, NEW op \in {"list", "load", "configs", "save", "remove"}, NEW a,
             Send(c, Asked(op, t, a))
      PROVE  \A u \in Tabs : FlightKept(u)
  <2>1. conn[c] = Null /\ conn' = [conn EXCEPT ![c] = Asked(op, t, a)]
    BY <1>1 DEF Send, Free
  <2>2. \A u \in Tabs : \A o \in Clicks : ~Open(Asked(op, t, a), u, o) /\ ~Open(conn[c], u, o)
    BY <2>1, AskedCloses DEF Open
  <2> QED BY <2>1, <2>2, FlightOfOther
<1>2. ASSUME NEW c \in Connections, Navigate(t, c) \/ \E i \in Ids : OpenRecord(t, c, i)
      PROVE  ButtonsTellTheTruth'
  BY <1>2, VisitTruth DEF Navigate, OpenRecord, Free
<1>3. ASSUME NEW c \in Connections,
             \/ \E f \in Filters : ChooseFilter(t, c, f)
             \/ \E n \in 1 .. MaxRuns : Turn(t, c, n)
      PROVE  ButtonsTellTheTruth'
  <2>1. \A u \in Tabs : ButtonsKept(u)
    BY <1>3, ListActions, KeptPage DEF AsksFor
  <2>2. \A u \in Tabs : FlightKept(u)
    BY <1>1, <1>3, ListActions DEF AsksFor
  <2> QED BY <2>1, <2>2, AllKept
<1>4. ASSUME NEW c \in Connections, ClickResend(t, c) \/ ClickDelete(t, c)
      PROVE  ButtonsTellTheTruth'
  <2>1. PICK i : i = tab[t].id
    OBVIOUS
  <2>2. i \in Ids
    BY <1>4, <2>1, ButtonActions, PageKinds DEF RecordPages, DashInv, DashType
  <2>3. PICK g : /\ tab' = [tab EXCEPT ![t] = g] /\ g.page = "record"
                 /\ ClickResend(t, c) => g.resending /\ g.deleting = tab[t].deleting
                 /\ ClickDelete(t, c) => g.deleting /\ g.resending = tab[t].resending
    BY <1>4, ButtonActions
  <2>4. CASE ClickResend(t, c)
    <3>1. Send(c, Asked("resend", t, i)) /\ ~tab[t].resending
      BY <2>1, <2>4 DEF ClickResend
    <3> QED BY <1>4, <2>2, <2>3, <2>4, <3>1, ButtonActions, ClickTruth DEF Clicks
  <2>5. CASE ClickDelete(t, c)
    <3>1. Send(c, Asked("delete", t, i)) /\ ~tab[t].deleting
      BY <2>1, <2>5 DEF ClickDelete
    <3> QED BY <1>4, <2>2, <2>3, <2>5, <3>1, ButtonActions, ClickTruth DEF Clicks
  <2> QED BY <1>4, <2>4, <2>5
<1>5. ASSUME NEW c \in Connections, ClickSave(t, c) \/ \E f \in Flows : ClickRemove(t, c, f)
      PROVE  ButtonsTellTheTruth'
  BY <1>1, <1>5, SamePage, AllKept DEF ClickSave, ClickRemove, view
<1>6. ASSUME \/ \E f \in Flows : StartEdit(t, f)
             \/ \E f \in Flows : TypeName(t, f)
             \/ \E e \in Edits : Type(t, e)
             \/ StartNew(t) \/ Cancel(t)
      PROVE  ButtonsTellTheTruth'
  BY <1>6, FormActions, KeptPage, SameFlight, AllKept
<1> QED BY <1>2, <1>3, <1>4, <1>5, <1>6 DEF Use

\* The backend answers: the page hears nothing of it yet.
LEMMA ServedTruth ==
  ASSUME DashInv, ButtonsTellTheTruth, NEW c \in Connections,
         RecordsServed(c) \/ SettingsServed(c) \/ Lose(c)
  PROVE  ButtonsTellTheTruth'
<1>1. UNCHANGED tab
  BY DEF RecordsServed, ListItems, ListTotal, ServeLoad, ServeResend, ServeDelete, SettingsServed,
         ServeSave, ServeRemove, ServeConfigs, Lose, view
<1>2. \A u \in Tabs : FlightKept(u)
  <2>1. CASE ListItems(c)
    <3>1. PICK r \in ListRequests : r = conn[c]
      BY <2>1, Request, RequestKinds DEF ListItems, Serving
    <3>2. PICK a : conn' = [conn EXCEPT ![c].stage = "items", ![c].answer = a]
      BY <2>1 DEF ListItems
    <3>3. PICK g : g = [r EXCEPT !.stage = "items", !.answer = a]
      OBVIOUS
    <3>4. conn' = [conn EXCEPT ![c] = g] /\ g.op = "list" /\ conn[c].op = "list"
      BY <2>1, <3>1, <3>2, <3>3 DEF ListItems, ListRequests, RequestsOf, DashInv, DashType
    <3>5. \A u \in Tabs : \A o \in Clicks : ~Open(g, u, o) /\ ~Open(conn[c], u, o)
      BY <3>4 DEF Open, Clicks
    <3> QED BY <3>4, <3>5, FlightOfOther
  <2>2. CASE ~ListItems(c)
    <3>1. conn[c] # Null
          /\ \E ok \in BOOLEAN : \E a : Answer(c, ok, a) /\ (conn[c].op \in Clicks => a = Null)
      BY <2>2, Answers DEF RecordsServed
    <3> QED BY <3>1, FlightOfAnswer
  <2> QED BY <2>1, <2>2
<1> QED BY <1>1, <1>2, SamePage, AllKept

\* The answer to anything but a button.
LEMMA OtherAnswerTruth ==
  ASSUME DashInv, ButtonsTellTheTruth, NEW c \in Connections,
         ListArrives(c) \/ LoadArrives(c) \/ SettingsAnswered(c)
  PROVE  ButtonsTellTheTruth'
<1>1. conn[c] # Null /\ conn[c].op \notin Clicks
  BY DEF ListArrives, LoadArrives, SettingsAnswered, ConfigsArrive, SaveArrives, RemoveArrives,
         Arrived, Clicks
<1>2. PICK t \in Tabs : t = conn[c].tab
  BY <1>1, Request
<1>3. \A u \in Tabs : FlightKept(u)
  <2>1. \A u \in Tabs : \A o \in Clicks : ~Open(conn[c], u, o)
    BY <1>1 DEF Open
  <2>2. CASE conn' = [conn EXCEPT ![c] = Null]
    BY <2>1, <2>2, FlightOfOther DEF Open
  <2>3. CASE conn' = [conn EXCEPT ![c] = Asked("configs", t, Null)]
    BY <2>1, <2>3, AskedCloses, FlightOfOther
  <2> QED BY <1>2, <2>2, <2>3 DEF ListArrives, LoadArrives, SettingsAnswered, ConfigsArrive,
                                  SaveArrives, RemoveArrives, Settle
<1>4. \A u \in Tabs : ButtonsKept(u)
  <2>1. CASE UNCHANGED tab
    BY <2>1, SamePage
  <2>2. CASE ListArrives(c)
    <3>1. tab[t].page = "list"
      BY <1>2, <2>2, Request DEF ListArrives, Arrived, PageOfOp, Reads
    <3>2. PICK p \in ListPages : p = tab[t]
      BY <3>1, PageKinds DEF DashInv, DashType
    <3>3. PICK a : a = conn[c].answer
      OBVIOUS
    <3>4. PICK g : g = IF conn[c].ok THEN [p EXCEPT !.data = a, !.loading = FALSE, !.seen = p.seen \cup a.items]
                       ELSE [p EXCEPT !.error = TRUE, !.loading = FALSE]
      OBVIOUS
    <3>5. tab' = [tab EXCEPT ![t] = g] /\ g.page # "record"
      BY <1>2, <2>2, <3>2, <3>3, <3>4 DEF ListArrives, ListPages, DashInv, DashType
    <3> QED BY <3>5, KeptPage
  <2>3. CASE LoadArrives(c)
    <3>1. tab[t].page = "record"
      BY <1>2, <2>3, Request DEF LoadArrives, Arrived, PageOfOp, Reads
    <3>2. PICK p \in RecordPages : p = tab[t]
      BY <3>1, PageKinds DEF DashInv, DashType
    <3>3. PICK g : g = IF conn[c].ok THEN [p EXCEPT !.shown = conn[c].answer] ELSE [p EXCEPT !.error = TRUE]
      OBVIOUS
    <3>4. /\ tab' = [tab EXCEPT ![t] = g]
          /\ g.resending = tab[t].resending /\ g.deleting = tab[t].deleting
      BY <1>2, <2>3, <3>2, <3>3 DEF LoadArrives, RecordPages, DashInv, DashType
    <3> QED BY <3>1, <3>4, KeptPage
  <2>4. CASE SettingsAnswered(c) /\ ~UNCHANGED tab
    <3>1. OnSettings(t)
      BY <1>2, <2>4, Request DEF SettingsAnswered, ConfigsArrive, SaveArrives, RemoveArrives,
                                 Arrived, PageOfOp, OnSettings, Reads
    <3>2. PICK p \in SettingsPages : p = tab[t]
      BY <3>1, OnSettingsPage
    <3>3. \E g : tab' = [tab EXCEPT ![t] = g] /\ g.page # "record"
      <4>1. PICK g1 : g1 = [p EXCEPT !.error = TRUE]
        OBVIOUS
      <4>2. PICK g2 : g2 = [p EXCEPT !.editing = Null]
        OBVIOUS
      <4>3. PICK g3 : g3 = [p EXCEPT !.table = conn[c].answer]
        OBVIOUS
      <4>4. g1.page # "record" /\ g2.page # "record" /\ g3.page # "record"
        BY <4>1, <4>2, <4>3 DEF SettingsPages
      <4>5. \/ tab' = [tab EXCEPT ![t] = g1] \/ tab' = [tab EXCEPT ![t] = g2]
            \/ tab' = [tab EXCEPT ![t] = g3]
        BY <1>2, <2>4, <3>2, <4>1, <4>2, <4>3
           DEF SettingsAnswered, ConfigsArrive, SaveArrives, RemoveArrives, DashInv, DashType
      <4> QED BY <4>4, <4>5
    <3> QED BY <3>3, KeptPage
  <2> QED BY <2>1, <2>2, <2>3, <2>4
<1> QED BY <1>3, <1>4, AllKept

\* The request of a button is over, and the button is enabled.
LEMMA ButtonAnswerTruth ==
  ASSUME DashInv, ButtonsTellTheTruth, NEW c \in Connections, conn[c] # Null, NEW op \in Clicks, conn[c].op = op,
         NEW t \in Tabs, t = conn[c].tab, conn[c].live, tab[t].page = "record",
         NEW r, conn' = [conn EXCEPT ![c] = r], \A u \in Tabs : \A o \in Clicks : ~Open(r, u, o),
         NEW g, tab' = [tab EXCEPT ![t] = g], g.page = "record",
         op = "resend" => ~g.resending /\ g.deleting = tab[t].deleting,
         op = "delete" => ~g.deleting /\ g.resending = tab[t].resending
  PROVE  ButtonsTellTheTruth'
<1>1. \A d \in Connections : conn'[d] = IF d = c THEN r ELSE conn[d]
  BY DEF DashInv, DashType
<1>2. \A o \in Clicks : \A u \in Tabs : \A d \in Connections :
        Open(conn'[d], u, o) <=> (d # c /\ Open(conn[d], u, o))
  BY <1>1
<1>3. \A o \in Clicks : \A u \in Tabs : Open(conn[c], u, o) <=> (u = t /\ o = op)
  BY DEF Open
<1>4. \A u \in Tabs : tab'[u] = IF u = t THEN g ELSE tab[u]
  BY DEF DashInv, DashType
<1>5. \A u \in Tabs : u # t => FlightKept(u) /\ ButtonsKept(u)
  BY <1>2, <1>3, <1>4 DEF FlightKept, InFlight, Open, ButtonsKept
<1>6. \A o \in Clicks : o # op => InFlight(t, o)' = InFlight(t, o)
  BY <1>2, <1>3 DEF InFlight, Open
<1>7. c \in InFlight(t, op)
  BY DEF InFlight
<1>8. InFlight(t, op) = {c}
  BY <1>7 DEF ButtonsTellTheTruth, One, Clicks
<1>9. InFlight(t, op)' = {}
  BY <1>2, <1>8 DEF InFlight, Open
<1>10. Truth(t)'
  <2>1. Truth(t)
    BY DEF ButtonsTellTheTruth, Truth
  <2>2. tab'[t] = g
    BY <1>4
  <2>3. CASE op = "resend"
    <3>1. InFlight(t, "resend")' = {} /\ InFlight(t, "delete")' = InFlight(t, "delete")
      BY <1>6, <1>9, <2>3 DEF Clicks
    <3> QED BY <2>1, <2>2, <2>3, <3>1 DEF Truth, One
  <2>4. CASE op = "delete"
    <3>1. InFlight(t, "delete")' = {} /\ InFlight(t, "resend")' = InFlight(t, "resend")
      BY <1>6, <1>9, <2>4 DEF Clicks
    <3> QED BY <2>1, <2>2, <2>4, <3>1 DEF Truth, One
  <2> QED BY <2>3, <2>4 DEF Clicks
<1> QED BY <1>5, <1>10, TruthOfTab, TruthOfAll

\* No page waits for it any more.
LEMMA LateAnswerTruth ==
  ASSUME DashInv, ButtonsTellTheTruth, NEW c \in Connections, ~conn[c].live, Settle(c), UNCHANGED tab
  PROVE  ButtonsTellTheTruth'
<1>1. \A u \in Tabs : \A o \in Clicks : ~Open(Null, u, o) /\ ~Open(conn[c], u, o)
  BY DEF Open
<1>2. \A u \in Tabs : FlightKept(u)
  BY <1>1, FlightOfOther DEF Settle
<1> QED BY <1>2, SamePage, AllKept

LEMMA ResendArrivesTruth ==
  ASSUME DashInv, ButtonsTellTheTruth, NEW c \in Connections, ResendArrives(c)
  PROVE  ButtonsTellTheTruth'
<1>1. conn[c] # Null /\ conn[c].op = "resend"
  BY DEF ResendArrives, Arrived
<1>2. CASE ~conn[c].live
  BY <1>2, LateAnswerTruth DEF ResendArrives
<1>3. CASE conn[c].live
  <2>1. PICK t \in Tabs : t = conn[c].tab
    BY <1>1, Request
  <2>2. tab[t].page = "record"
    BY <1>1, <1>3, <2>1, Request DEF PageOfOp
  <2>3. PICK p \in RecordPages : p = tab[t]
    BY <2>2, PageKinds DEF DashInv, DashType
  <2>4. PICK e \in BOOLEAN : e = (p.error \/ ~conn[c].ok)
    OBVIOUS
  <2>5. PICK g : g = [p EXCEPT !.resending = FALSE, !.error = e]
    OBVIOUS
  <2>6. /\ tab' = [tab EXCEPT ![t] = g]
        /\ g.page = "record" /\ ~g.resending /\ g.deleting = tab[t].deleting
    BY <1>3, <2>1, <2>3, <2>4, <2>5 DEF ResendArrives, RecordPages, DashInv, DashType
  <2>7. \E r : conn' = [conn EXCEPT ![c] = r] /\ \A u \in Tabs : \A o \in Clicks : ~Open(r, u, o)
    <3>1. CASE conn[c].ok
      <4>1. conn' = [conn EXCEPT ![c] = Asked("load", conn[c].tab, conn[c].arg)]
        BY <1>3, <3>1 DEF ResendArrives
      <4> QED BY <4>1, AskedCloses
    <3>2. CASE ~conn[c].ok
      BY <1>3, <3>2 DEF ResendArrives, Open
    <3> QED BY <3>1, <3>2
  <2>8. PICK r : conn' = [conn EXCEPT ![c] = r] /\ \A u \in Tabs : \A o \in Clicks : ~Open(r, u, o)
    BY <2>7
  <2>9. PICK op \in Clicks : op = "resend"
    BY DEF Clicks
  <2> QED BY <1>1, <1>3, <2>1, <2>2, <2>6, <2>8, <2>9, ButtonAnswerTruth
<1> QED BY <1>2, <1>3

LEMMA DeleteArrivesTruth ==
  ASSUME DashInv, ButtonsTellTheTruth, NEW c \in Connections, DeleteArrives(c)
  PROVE  ButtonsTellTheTruth'
<1>1. conn[c] # Null /\ conn[c].op = "delete"
  BY DEF DeleteArrives, Arrived
<1>2. PICK t \in Tabs : t = conn[c].tab
  BY <1>1, Request
<1>3. conn[c].live => tab[t].page = "record"
  BY <1>1, <1>2, Request DEF PageOfOp
<1>4. CASE VisitList(t, c)
  BY <1>2, <1>4, VisitTruth
<1>5. CASE ~conn[c].live /\ Settle(c) /\ UNCHANGED tab
  BY <1>5, LateAnswerTruth
<1>6. CASE conn[c].live /\ Settle(c) /\ tab' = [tab EXCEPT ![t].deleting = FALSE, ![t].error = TRUE]
  <2>1. PICK p \in RecordPages : p = tab[t]
    BY <1>3, <1>6, PageKinds DEF DashInv, DashType
  <2>2. PICK g : g = [p EXCEPT !.deleting = FALSE, !.error = TRUE]
    OBVIOUS
  <2>3. /\ tab' = [tab EXCEPT ![t] = g]
        /\ g.page = "record" /\ ~g.deleting /\ g.resending = tab[t].resending
    BY <1>6, <2>1, <2>2 DEF RecordPages, DashInv, DashType
  <2>4. \E r : conn' = [conn EXCEPT ![c] = r] /\ \A u \in Tabs : \A o \in Clicks : ~Open(r, u, o)
    BY <1>6 DEF Settle, Open
  <2>5. conn[c].live /\ tab[t].page = "record"
    BY <1>3, <1>6
  <2>6. PICK r : conn' = [conn EXCEPT ![c] = r] /\ \A u \in Tabs : \A o \in Clicks : ~Open(r, u, o)
    BY <2>4
  <2>7. PICK op \in Clicks : op = "delete"
    BY DEF Clicks
  <2> QED BY <1>1, <1>2, <2>3, <2>5, <2>6, <2>7, ButtonAnswerTruth
<1>7. \/ VisitList(t, c)
      \/ ~conn[c].live /\ Settle(c) /\ UNCHANGED tab
      \/ conn[c].live /\ Settle(c) /\ tab' = [tab EXCEPT ![t].deleting = FALSE, ![t].error = TRUE]
  BY <1>2, <1>3 DEF DeleteArrives
<1> QED BY <1>4, <1>5, <1>6, <1>7

LEMMA TruthKept == DashInv /\ ButtonsTellTheTruth /\ [Next]_vars => ButtonsTellTheTruth'
<1> SUFFICES ASSUME DashInv, ButtonsTellTheTruth, [Next]_vars
             PROVE  ButtonsTellTheTruth'
  OBVIOUS
<1>1. ASSUME NEW t \in Tabs, Use(t)
      PROVE  ButtonsTellTheTruth'
  BY <1>1, UseTruth
<1>2. ASSUME NEW c \in Connections, Goes(c) \/ Lose(c)
      PROVE  ButtonsTellTheTruth'
  BY <1>2, ServedTruth, OtherAnswerTruth, ResendArrivesTruth, DeleteArrivesTruth
     DEF Goes, RecordsAnswered
<1>3. ASSUME \/ \E i \in Ids, r \in NewRows : Arrives(i, r)
             \/ \E i \in Ids, st \in Statuses : Progresses(i, st)
             \/ UNCHANGED vars
      PROVE  ButtonsTellTheTruth'
  <2>1. UNCHANGED <<tab, conn>>
    BY <1>3 DEF Arrives, Progresses, vars, view
  <2> QED BY <2>1, SamePage, SameFlight, AllKept
<1> QED BY <1>1, <1>2, <1>3 DEF Next, Quiescent

\* A button is disabled exactly while one request of its page is open: none is
\* sent twice, and no error, answer out of order or page left behind leaves one
\* disabled (resend with its finally, remove with its catch).
THEOREM ButtonsTruthful == Spec => []ButtonsTellTheTruth
<1>1. Init => ButtonsTellTheTruth
  BY DEF Init, ButtonsTellTheTruth, ClosedPage
<1>2. DashInv /\ ButtonsTellTheTruth /\ [Next]_vars => ButtonsTellTheTruth'
  BY TruthKept
<1> QED BY <1>1, <1>2, DashboardInvariance, PTL DEF Spec

----------------------------------------------------------------------------
(***************************************************************************)
(* What the list shows is what its boxes and its page number ask for, as   *)
(* long as no two questions of a page overlap (ShownAsAsked).              *)
(***************************************************************************)

\* Without overlap, whatever a page has asked is what it asks still.
AsksCurrent == \A t \in Tabs : tab[t].page = "list" /\ ~tab[t].overlapped =>
  \A d \in Connections : ListOpen(d, t) => conn[d].arg = Question(tab[t].filter, tab[t].pageNo)

\* An answer knows its question.
AnswersAsked == \A d \in Connections :
  conn[d] # Null /\ conn[d].op = "list" /\ (conn[d].stage = "items" \/ conn[d].ok) =>
    conn[d].answer.asked = conn[d].arg

ListInv == AsksCurrent /\ AnswersAsked /\ ShownAsAsked

\* A list in flight is one that was, however much further.
Listed(r, q) == \/ r = Null \/ r.op # "list"
                \/ /\ q # Null /\ q.op = "list" /\ r.tab = q.tab /\ r.arg = q.arg
                   /\ r.stage = "items" \/ r.ok => r.answer.asked = r.arg
NoneNew    == \A d \in Connections : Listed(conn'[d], conn[d])
ListsAlone == \A t \in Tabs : tab'[t] = tab[t] \/ tab'[t].page # "list"

\* A step that asks nothing and shows nothing new.
LEMMA ListStill ==
  ASSUME DashInv, ListInv, NoneNew, ListsAlone
  PROVE  ListInv'
<1>1. AnswersAsked'
  BY DEF NoneNew, Listed, AnswersAsked
<1>2. AsksCurrent'
  <2> SUFFICES ASSUME NEW t \in Tabs, tab'[t].page = "list", ~tab'[t].overlapped,
                      NEW d \in Connections, conn'[d] # Null, conn'[d].tab = t, conn'[d].op = "list"
               PROVE  conn'[d].arg = Question(tab'[t].filter, tab'[t].pageNo)
    BY DEF AsksCurrent, ListOpen
  <2>1. tab'[t] = tab[t]
    BY DEF ListsAlone
  <2>2. conn[d] # Null /\ conn[d].op = "list" /\ conn[d].tab = t /\ conn'[d].arg = conn[d].arg
    BY DEF NoneNew, Listed
  <2> QED BY <2>1, <2>2 DEF ListInv, AsksCurrent, ListOpen
<1>3. ShownAsAsked'
  BY DEF ListsAlone, ListInv, ShownAsAsked, ListShown
<1> QED BY <1>1, <1>2, <1>3 DEF ListInv

LEMMA ListedOne ==
  ASSUME DashInv, ListInv, NEW c \in Connections, NEW r, conn' = [conn EXCEPT ![c] = r],
         Listed(r, conn[c])
  PROVE  NoneNew
<1>1. \A d \in Connections : conn'[d] = IF d = c THEN r ELSE conn[d]
  BY DEF DashInv, DashType
<1> QED BY <1>1 DEF NoneNew, Listed, ListInv, AnswersAsked

LEMMA ListedSame ==
  ASSUME DashInv, ListInv, UNCHANGED conn
  PROVE  NoneNew
BY DEF NoneNew, Listed, ListInv, AnswersAsked

\* Something else is asked.
LEMMA ListedAsk ==
  ASSUME DashInv, ListInv, NEW c \in Connections, NEW op, op # "list", NEW t, NEW a,
         conn' = [conn EXCEPT ![c] = Asked(op, t, a)]
  PROVE  NoneNew
<1>1. Asked(op, t, a).op # "list"
  BY DEF Asked
<1> QED BY <1>1, ListedOne DEF Listed

\* A request that is answered is otherwise as it was.
LEMMA AnswerGiven ==
  ASSUME DashInv, NEW c \in Connections, conn[c] # Null, NEW ok \in BOOLEAN, NEW a, Answer(c, ok, a)
  PROVE  \E g : /\ conn' = [conn EXCEPT ![c] = g]
                /\ g.stage = "answered" /\ g.ok = ok /\ g.answer = a
                /\ g.op = conn[c].op /\ g.tab = conn[c].tab /\ g.arg = conn[c].arg
<1>1. PICK r \in Requests : r = conn[c]
  BY Request
<1>2. PICK g : g = [r EXCEPT !.stage = "answered", !.ok = ok, !.answer = a]
  OBVIOUS
<1>3. conn' = [conn EXCEPT ![c] = g]
  BY <1>1, <1>2 DEF Answer, DashInv, DashType
<1>4. /\ g.stage = "answered" /\ g.op = r.op /\ g.tab = r.tab /\ g.arg = r.arg /\ g.ok = ok
      /\ g.answer = a
  BY <1>2 DEF Requests, RequestsOf, ListRequests, LoadRequests, TableRequests, RowRequests,
              SaveRequests, RemoveRequests
<1> QED BY <1>1, <1>3, <1>4

\* An answer comes that is none to a list, or is an error, or knows its question.
LEMMA ListedAnswer ==
  ASSUME DashInv, ListInv, NEW c \in Connections, conn[c] # Null, NEW ok \in BOOLEAN, NEW a,
         Answer(c, ok, a), conn[c].op = "list" /\ ok => a.asked = conn[c].arg
  PROVE  NoneNew
<1>1. PICK g : /\ conn' = [conn EXCEPT ![c] = g]
               /\ g.stage = "answered" /\ g.ok = ok /\ g.answer = a
               /\ g.op = conn[c].op /\ g.tab = conn[c].tab /\ g.arg = conn[c].arg
  BY AnswerGiven
<1>2. Listed(g, conn[c])
  BY <1>1 DEF Listed
<1> QED BY <1>1, <1>2, ListedOne

\* A page changes into one that shows no list.
LEMMA AlonePage ==
  ASSUME DashInv, NEW t \in Tabs, NEW g, tab' = [tab EXCEPT ![t] = g], g.page # "list"
  PROVE  ListsAlone
BY DEF DashInv, DashType, ListsAlone

\* A list in flight goes no further, or comes to nothing.
NoFurther(r, q) == \/ r = Null \/ r.op # "list"
                   \/ /\ q # Null /\ q.op = "list" /\ r.tab = q.tab
                      /\ r = q \/ (r.stage = "answered" /\ ~r.ok)

\* What a page leaves behind is no list of its own, and the lists of others.
LEMMA LeftLists ==
  ASSUME DashInv, ListInv, NEW t \in Tabs, NEW d \in Connections
  PROVE  /\ Listed(Abandoned(t, conn[d]), conn[d])
         /\ NoFurther(Abandoned(t, conn[d]), conn[d])
         /\ LET r == Abandoned(t, conn[d]) IN ~(r # Null /\ r.tab = t /\ r.op = "list")
<1>1. PICK q \in Requests \cup {Null} : q = conn[d]
  BY DEF DashInv, DashType
<1>2. CASE q = Null \/ q.tab # t
  BY <1>1, <1>2 DEF Abandoned, Listed, NoFurther, ListInv, AnswersAsked
<1>3. CASE q # Null /\ q.tab = t /\ q.op \in Reads
  BY <1>1, <1>3 DEF Abandoned, Listed, NoFurther
<1>4. CASE q # Null /\ q.tab = t /\ q.op \notin Reads
  <2>1. PICK g : g = [q EXCEPT !.live = FALSE]
    OBVIOUS
  <2>2. g.op = q.op /\ g.op # "list"
    BY <1>4, <2>1 DEF Requests, RequestsOf, ListRequests, LoadRequests, TableRequests, RowRequests,
                      SaveRequests, RemoveRequests, Reads
  <2>3. Abandoned(t, q) = g
    BY <1>4, <2>1 DEF Abandoned
  <2> QED BY <1>1, <2>2, <2>3 DEF Listed, NoFurther
<1> QED BY <1>1, <1>2, <1>3, <1>4

\* A record or the settings are opened.
LEMMA OtherVisit ==
  ASSUME DashInv, ListInv, NEW t \in Tabs, NEW c \in Connections,
         (\E i \in Ids : VisitRecord(t, c, i)) \/ VisitSettings(t, c)
  PROVE  ListInv'
<1>1. ASSUME NEW p, p.page # "list", NEW op, op # "list", NEW a, Visit(t, c, p, Asked(op, t, a))
      PROVE  ListInv'
  <2>1. \A d \in Connections : conn'[d] = IF d = c THEN Asked(op, t, a) ELSE Abandoned(t, conn[d])
    BY <1>1 DEF Visit
  <2>2. Asked(op, t, a).op # "list"
    BY <1>1 DEF Asked
  <2>3. NoneNew
    BY <2>1, <2>2, LeftLists DEF NoneNew, Listed
  <2> QED BY <1>1, <2>3, AlonePage, ListStill DEF Visit
<1>2. ASSUME NEW i \in Ids, VisitRecord(t, c, i)
      PROVE  ListInv'
  <2>1. RecordPage(i).page # "list"
    BY DEF RecordPage
  <2> QED BY <1>1, <1>2, <2>1 DEF VisitRecord
<1>3. CASE VisitSettings(t, c)
  <2>1. SettingsPage.page # "list"
    BY DEF SettingsPage
  <2> QED BY <1>1, <1>3, <2>1 DEF VisitSettings
<1> QED BY <1>2, <1>3

\* A question of tab t is asked anew, and it is the only one or overlaps.
LEMMA AsksAnother ==
  ASSUME DashInv, ListInv, NEW t \in Tabs, NEW c \in Connections, NEW g,
         g.page = "list", g.loading, tab' = [tab EXCEPT ![t] = g],
         NEW r, r = Asked("list", t, Question(g.filter, g.pageNo)), conn'[c] = r,
         \A d \in Connections : d # c => Listed(conn'[d], conn[d]),
         g.overlapped \/ \A d \in Connections : d # c => ~ListOpen(d, t)'
  PROVE  ListInv'
<1>1. /\ r.op = "list" /\ r.tab = t /\ r.stage = "asked" /\ ~r.ok
      /\ r.arg = Question(g.filter, g.pageNo)
  BY DEF Asked
<1>2. \A u \in Tabs : tab'[u] = IF u = t THEN g ELSE tab[u]
  BY DEF DashInv, DashType
<1>3. AnswersAsked'
  BY <1>1 DEF Listed, AnswersAsked
<1>4. AsksCurrent'
  <2> SUFFICES ASSUME NEW u \in Tabs, tab'[u].page = "list", ~tab'[u].overlapped,
                      NEW d \in Connections, conn'[d] # Null, conn'[d].tab = u, conn'[d].op = "list"
               PROVE  conn'[d].arg = Question(tab'[u].filter, tab'[u].pageNo)
    BY DEF AsksCurrent, ListOpen
  <2>1. CASE d = c
    BY <1>1, <1>2, <2>1
  <2>2. CASE d # c /\ u = t
    BY <1>2, <2>2 DEF ListOpen
  <2>3. CASE d # c /\ u # t
    <3>1. conn[d] # Null /\ conn[d].op = "list" /\ conn[d].tab = u /\ conn'[d].arg = conn[d].arg
      BY <2>3 DEF Listed
    <3> QED BY <1>2, <2>3, <3>1 DEF ListInv, AsksCurrent, ListOpen
  <2> QED BY <2>1, <2>2, <2>3
<1>5. ShownAsAsked'
  BY <1>2 DEF ListInv, ShownAsAsked, ListShown
<1> QED BY <1>3, <1>4, <1>5 DEF ListInv

\* The list is opened.
LEMMA ListVisit ==
  ASSUME DashInv, ListInv, NEW t \in Tabs, NEW c \in Connections, VisitList(t, c)
  PROVE  ListInv'
<1>1. PICK m, n : FreshList = [ListPage EXCEPT !.due = m, !.since = n]
  BY DEF FreshList
<1>2. /\ FreshList.page = "list" /\ FreshList.loading
      /\ FreshList.filter = AllRecords /\ FreshList.pageNo = 1
  BY <1>1 DEF ListPage
<1>3. tab' = [tab EXCEPT ![t] = FreshList]
  BY DEF VisitList, Visit
<1>4. \A d \in Connections : conn'[d] = IF d = c THEN Asked("list", t, Question(AllRecords, 1))
                                        ELSE Abandoned(t, conn[d])
  BY DEF VisitList, Visit
<1>5. \A d \in Connections : d # c => Listed(conn'[d], conn[d]) /\ ~ListOpen(d, t)'
  BY <1>4, LeftLists DEF ListOpen
<1>6. PICK g, r : g = FreshList /\ r = Asked("list", t, Question(AllRecords, 1))
  OBVIOUS
<1>7. /\ g.page = "list" /\ g.loading /\ tab' = [tab EXCEPT ![t] = g]
      /\ r = Asked("list", t, Question(g.filter, g.pageNo)) /\ conn'[c] = r
  BY <1>2, <1>3, <1>4, <1>6
<1> QED BY <1>5, <1>7, AsksAnother

LEMMA UseListed ==
  ASSUME DashInv, ListInv, NEW t \in Tabs, Use(t)
  PROVE  ListInv'
<1>1. ASSUME NEW c \in Connections, Navigate(t, c) \/ \E i \in Ids : OpenRecord(t, c, i)
      PROVE  ListInv'
  BY <1>1, ListVisit, OtherVisit DEF Navigate, OpenRecord
<1>2. ASSUME NEW c \in Connections,
             \/ \E f \in Filters : ChooseFilter(t, c, f)
             \/ \E n \in 1 .. MaxRuns : Turn(t, c, n)
      PROVE  ListInv'
  <2>1. PICK g : AsksFor(t, c, g)
    BY <1>2, ListActions
  <2>2. PICK r : r = Asked("list", t, Question(g.filter, g.pageNo))
    OBVIOUS
  <2>3. \A d \in Connections : conn'[d] = IF d = c THEN r ELSE conn[d]
    BY <2>1, <2>2 DEF AsksFor, Send, DashInv, DashType
  <2>4. \A d \in Connections : d # c => Listed(conn'[d], conn[d])
    BY <2>3 DEF Listed, ListInv, AnswersAsked
  <2>5. g.overlapped \/ \A d \in Connections : d # c => ~ListOpen(d, t)'
    BY <2>1, <2>3 DEF AsksFor, ListOpen
  <2> QED BY <2>1, <2>2, <2>3, <2>4, <2>5, AsksAnother DEF AsksFor
<1>3. ASSUME NEW c \in Connections,
             \/ ClickResend(t, c) \/ ClickDelete(t, c) \/ ClickSave(t, c)
             \/ \E f \in Flows : ClickRemove(t, c, f)
      PROVE  ListInv'
  <2>1. NoneNew
    BY <1>3, ListedAsk DEF ClickResend, ClickDelete, ClickSave, ClickRemove, Send
  <2>2. CASE ClickResend(t, c) \/ ClickDelete(t, c)
    BY <2>1, <2>2, ButtonActions, AlonePage, ListStill
  <2>3. CASE UNCHANGED tab
    BY <2>1, <2>3, ListStill DEF ListsAlone
  <2> QED BY <1>3, <2>2, <2>3 DEF ClickSave, ClickRemove, view
<1>4. ASSUME \/ \E f \in Flows : StartEdit(t, f)
             \/ \E f \in Flows : TypeName(t, f)
             \/ \E e \in Edits : Type(t, e)
             \/ StartNew(t) \/ Cancel(t)
      PROVE  ListInv'
  BY <1>4, FormActions, AlonePage, ListedSame, ListStill
<1> QED BY <1>1, <1>2, <1>3, <1>4 DEF Use

\* The backend answers what it was asked.
LEMMA ServedListed ==
  ASSUME DashInv, ListInv, NEW c \in Connections,
         RecordsServed(c) \/ SettingsServed(c) \/ Lose(c)
  PROVE  ListInv'
<1>1. ListsAlone
  BY DEF ListsAlone, RecordsServed, ListItems, ListTotal, ServeLoad, ServeResend, ServeDelete,
         SettingsServed, ServeSave, ServeRemove, ServeConfigs, Lose, view
<1>2. NoneNew
  <2>1. CASE ListItems(c)
    <3>1. PICK r \in ListRequests : r = conn[c] /\ r # Null
      BY <2>1, Request, RequestKinds DEF ListItems, Serving
    <3>2. PICK P : conn' = [conn EXCEPT ![c].stage = "items",
                                        ![c].answer = [items |-> P, total |-> 0, asked |-> r.arg]]
      BY <2>1, <3>1 DEF ListItems
    <3>3. PICK a : a = [items |-> P, total |-> 0, asked |-> r.arg]
      OBVIOUS
    <3>4. PICK g : g = [r EXCEPT !.stage = "items", !.answer = a]
      OBVIOUS
    <3>5. conn' = [conn EXCEPT ![c] = g]
      BY <2>1, <3>1, <3>2, <3>3, <3>4 DEF ListItems, DashInv, DashType
    <3>6. g.op = "list" /\ g.tab = r.tab /\ g.arg = r.arg /\ g.answer = a /\ r.op = "list"
      BY <3>4 DEF ListRequests, RequestsOf
    <3>7. a.asked = r.arg
      BY <3>3
    <3> QED BY <3>1, <3>5, <3>6, <3>7, ListedOne DEF Listed
  <2>2. CASE ListTotal(c)
    <3>1. conn[c] # Null /\ conn[c].op = "list" /\ conn[c].stage = "items"
      BY <2>2, Request DEF ListTotal, Fitting, Answered
    <3>2. PICK b \in Listing : b = conn[c].answer
      BY <3>1, Request DEF Fitting, Answered
    <3>3. b.asked = conn[c].arg
      BY <3>1, <3>2 DEF ListInv, AnswersAsked
    <3>4. PICK n : n = Cardinality(Matching(conn[c].arg.filter))
      OBVIOUS
    <3>5. PICK a : a = [b EXCEPT !.total = n]
      OBVIOUS
    <3>6. a.asked = b.asked
      BY <3>5 DEF Listing
    <3>7. Answer(c, TRUE, a)
      BY <2>2, <3>2, <3>4, <3>5 DEF ListTotal
    <3> QED BY <3>1, <3>3, <3>6, <3>7, ListedAnswer
  <2>3. CASE Lose(c)
    BY <2>3, ListedAnswer DEF Lose
  <2>4. CASE ServeLoad(c) \/ ServeResend(c) \/ ServeDelete(c) \/ SettingsServed(c)
    <3>1. conn[c].op # "list"
      BY <2>4 DEF ServeLoad, ServeResend, ServeDelete, SettingsServed, ServeSave, ServeRemove,
                  ServeConfigs, Serving
    <3> QED BY <2>4, <3>1, Answers, ListedAnswer
  <2> QED BY <2>1, <2>2, <2>3, <2>4 DEF RecordsServed
<1> QED BY <1>1, <1>2, ListStill

\* An answer is shown.
LEMMA ListArrivesListed ==
  ASSUME DashInv, ListInv, NEW c \in Connections, ListArrives(c)
  PROVE  ListInv'
<1>1. conn[c] # Null /\ conn[c].op = "list" /\ conn' = [conn EXCEPT ![c] = Null]
  BY DEF ListArrives, Arrived, Settle
<1>2. PICK t \in Tabs : t = conn[c].tab /\ tab[t].page = "list"
  BY <1>1, Request DEF PageOfOp, Reads
<1>3. PICK p \in ListPages : p = tab[t]
  BY <1>2, PageKinds DEF DashInv, DashType
<1>4. PICK a : a = conn[c].answer
  OBVIOUS
<1>5. PICK g : g = IF conn[c].ok THEN [p EXCEPT !.data = a, !.loading = FALSE, !.seen = p.seen \cup a.items]
                   ELSE [p EXCEPT !.error = TRUE, !.loading = FALSE]
  OBVIOUS
<1>6. tab' = [tab EXCEPT ![t] = g]
  BY <1>2, <1>3, <1>4, <1>5 DEF ListArrives, DashInv, DashType
<1>7. /\ g.overlapped = p.overlapped /\ g.filter = p.filter /\ g.pageNo = p.pageNo
      /\ IF conn[c].ok THEN g.data = a ELSE g.error
  BY <1>5 DEF ListPages
<1>8. \A u \in Tabs : tab'[u] = IF u = t THEN g ELSE tab[u]
  BY <1>6 DEF DashInv, DashType
<1>9. \A d \in Connections : conn'[d] = IF d = c THEN Null ELSE conn[d]
  BY <1>1 DEF DashInv, DashType
<1>10. AnswersAsked'
  BY <1>9 DEF ListInv, AnswersAsked
<1>11. AsksCurrent'
  BY <1>2, <1>3, <1>7, <1>8, <1>9 DEF ListInv, AsksCurrent, ListOpen
<1>12. ShownAsAsked'
  <2>1. ASSUME conn[c].ok, ~p.overlapped
        PROVE  a.asked = Question(p.filter, p.pageNo)
    BY <1>1, <1>2, <1>3, <1>4, <2>1 DEF ListInv, AsksCurrent, AnswersAsked, ListOpen
  <2> QED BY <1>7, <1>8, <2>1 DEF ListInv, ShownAsAsked, ListShown
<1> QED BY <1>10, <1>11, <1>12 DEF ListInv

\* The other answers.
LEMMA AnsweredListed ==
  ASSUME DashInv, ListInv, NEW c \in Connections, RecordsAnswered(c) \/ SettingsAnswered(c)
  PROVE  ListInv'
<1>1. CASE LoadArrives(c) \/ ResendArrives(c) \/ SettingsAnswered(c)
  <2>1. \/ conn' = [conn EXCEPT ![c] = Null]
        \/ \E op, a : op # "list" /\ conn' = [conn EXCEPT ![c] = Asked(op, conn[c].tab, a)]
    <3>1. "load" # "list" /\ "configs" # "list"
      OBVIOUS
    <3> QED BY <1>1, <3>1 DEF LoadArrives, ResendArrives, SettingsAnswered, ConfigsArrive, SaveArrives,
                              RemoveArrives, Settle
  <2>2. NoneNew
    BY <2>1, ListedOne, ListedAsk DEF Listed
  <2>3. ListsAlone
    BY <1>1, AnswerPages DEF ListsAlone
  <2> QED BY <2>2, <2>3, ListStill
<1>2. CASE DeleteArrives(c)
  <2>1. PICK t \in Tabs : t = conn[c].tab
    BY <1>2, Request DEF DeleteArrives, Arrived
  <2>2. CASE VisitList(t, c)
    BY <2>2, ListVisit
  <2>3. CASE Settle(c) /\ UNCHANGED tab
    BY <2>3, ListedOne, ListStill DEF Settle, Listed, ListsAlone
  <2>4. CASE conn[c].live /\ Settle(c) /\ tab' = [tab EXCEPT ![t].deleting = FALSE, ![t].error = TRUE]
    <3>1. tab[t].page = "record"
      BY <1>2, <2>1, <2>4, Request DEF DeleteArrives, Arrived, PageOfOp
    <3>2. PICK p \in RecordPages : p = tab[t]
      BY <3>1, PageKinds DEF DashInv, DashType
    <3>3. PICK g : g = [p EXCEPT !.deleting = FALSE, !.error = TRUE]
      OBVIOUS
    <3>4. g.page = "record" /\ tab' = [tab EXCEPT ![t] = g]
      BY <2>4, <3>2, <3>3 DEF RecordPages, DashInv, DashType
    <3>5. NoneNew
      BY <2>4, ListedOne DEF Settle, Listed
    <3> QED BY <3>4, <3>5, AlonePage, ListStill
  <2> QED BY <1>2, <2>1, <2>2, <2>3, <2>4 DEF DeleteArrives
<1> QED BY <1>1, <1>2, ListArrivesListed DEF RecordsAnswered

LEMMA ListKept == DashInv /\ ListInv /\ [Next]_vars => ListInv'
<1> SUFFICES ASSUME DashInv, ListInv, [Next]_vars
             PROVE  ListInv'
  OBVIOUS
<1>1. CASE UNCHANGED <<tab, conn>>
  BY <1>1, ListedSame, ListStill DEF ListsAlone
<1> QED BY <1>1, UseListed, ServedListed, AnsweredListed
       DEF Next, Goes, Quiescent, Arrives, Progresses, vars, view

\* The table shows what the boxes and the page number ask for, whatever else a tab
\* does and however late the answers of pages it has left, unless two questions of
\* this page were open at once (the effect of the Records page and its flags).
THEOREM ShownRight == Spec => []ShownAsAsked
<1>1. Init => ListInv
  BY DEF Init, ListInv, AsksCurrent, AnswersAsked, ShownAsAsked, ListShown, ClosedPage
<1>2. DashInv /\ ListInv /\ [Next]_vars => ListInv'
  BY ListKept
<1>3. ListInv => ShownAsAsked
  BY DEF ListInv
<1> QED BY <1>1, <1>2, <1>3, DashboardInvariance, PTL DEF Spec

----------------------------------------------------------------------------
(***************************************************************************)
(* Who turns the pages to the last comes by all records that were created  *)
(* at a moment of their own (NoneMissed).  As long as none leaves the      *)
(* list, records only come in, so none moves to a page before the one it   *)
(* is on, and one alone at its moment is on the same page for every query: *)
(* what has been shown covers the first pages of the list as it is now, up *)
(* to the one that is asked for.                                           *)
(***************************************************************************)

\* The list that filter f has, as the moments of its records.
Moments(f) == [i \in Matching(f) |-> runs[i].createdAt]

\* How many records list L puts before i whatever the query chooses, and whether
\* it leaves it no choice about i.
Newer(L, i) == Cardinality({j \in DOMAIN L : L[j] > L[i]})
Alone(L, i) == \A j \in DOMAIN L \ {i} : L[j] # L[i]

\* N is L and perhaps some records more.
Extends(N, L) == DOMAIN L \subseteq DOMAIN N /\ \A i \in DOMAIN L : N[i] = L[i]

\* What page p should come by is in S, as far as it is alone at its moment and on
\* the first n pages of L.
Covers(L, p, n, S) == \A i \in p.due : Alone(L, i) /\ Newer(L, i) < n * PageSize => i \in S

\* If page p is the last one, all of it is.
AllIn(L, p, total, S) ==
  total <= p.pageNo * PageSize => \A i \in p.due : Alone(L, i) => i \in S

\* An answer goes one page further than what was shown.
Told(r) == r.stage = "answered" /\ r.ok
AnswerCovers(L, p, r) ==
  /\ r.stage = "asked" => Covers(L, p, p.pageNo - 1, p.seen)
  /\ r.stage = "items" \/ Told(r) => Covers(L, p, p.pageNo, p.seen \cup r.answer.items)
  /\ Told(r) => AllIn(L, p, r.answer.total, p.seen \cup r.answer.items)

ShownCovers(L, p) == /\ Covers(L, p, p.pageNo, p.seen)
                     /\ AllIn(L, p, p.data.total, p.seen)

PagesCover(t) == LET L == Moments(tab[t].filter) IN
  /\ tab[t].due \subseteq DOMAIN L
  /\ \A d \in Connections : ListOpen(d, t) => AnswerCovers(L, tab[t], conn[d])
  /\ ListShown(t) => ShownCovers(L, tab[t])

\* Without overlap, one question is open at a time, and none while a list is shown.
AsksOnce(t) == \A d \in Connections : ListOpen(d, t) =>
  ~ListShown(t) /\ \A e \in Connections : ListOpen(e, t) => e = d

Turns(t) == tab[t].page = "list" =>
  /\ tab[t].since <= departures
  /\ ~tab[t].overlapped => AsksOnce(t)
  /\ ~tab[t].overlapped /\ tab[t].since = departures => PagesCover(t)
TurnsInv == \A t \in Tabs : Turns(t)

LEMMA FewIds ==
  ASSUME NEW S, S \subseteq Ids
  PROVE  IsFiniteSet(S)
<1>1. IsFiniteSet(Ids)
  BY ValuesAssumption, FS_Interval DEF Ids
<1> QED BY <1>1, FS_Subset

\* A list is of records, and their moments are numbers.
LEMMA MomentsTyped ==
  ASSUME DashInv, NEW f
  PROVE  /\ DOMAIN Moments(f) = Matching(f) /\ Matching(f) \subseteq Ids
         /\ \A i \in Matching(f) : Moments(f)[i] = runs[i].createdAt /\ runs[i].createdAt \in Nat
<1>1. Matching(f) \subseteq Ids
  BY DEF Matching
<1>2. ASSUME NEW i \in Matching(f)
      PROVE  runs[i].createdAt \in Nat
  <2>1. i \in Ids /\ Exists(i)
    BY DEF Matching, Matches, Exists
  <2>2. runs[i] \in Row
    BY <2>1, RowTyped
  <2> QED BY <2>2 DEF Row
<1> QED BY <1>1, <1>2 DEF Moments

LEMMA NewerCounts ==
  ASSUME NEW L, NEW N, Extends(N, L), DOMAIN N \subseteq Ids, NEW i \in DOMAIN L
  PROVE  Newer(L, i) \in Nat /\ Newer(N, i) \in Nat /\ Newer(L, i) <= Newer(N, i)
<1>1. /\ {j \in DOMAIN L : L[j] > L[i]} \subseteq {j \in DOMAIN N : N[j] > N[i]}
      /\ {j \in DOMAIN N : N[j] > N[i]} \subseteq Ids
  BY DEF Extends
<1>2. IsFiniteSet({j \in DOMAIN N : N[j] > N[i]})
  BY <1>1, FewIds
<1> QED BY <1>1, <1>2, FS_Subset, FS_CardinalityType DEF Newer

\* A record is not before itself.
LEMMA NewerThanAll ==
  ASSUME NEW S, S \subseteq Ids, NEW L, NEW i \in S, L[i] \in Nat
  PROVE  Cardinality({j \in S : L[j] > L[i]}) < Cardinality(S)
<1>1. IsFiniteSet(S)
  BY FewIds
<1>2. {j \in S : L[j] > L[i]} \subseteq S /\ i \notin {j \in S : L[j] > L[i]}
  OBVIOUS
<1>3. {j \in S : L[j] > L[i]} # S
  BY <1>2
<1> QED BY <1>1, <1>2, <1>3, FS_Subset, FS_CardinalityType

\* What covers so many pages covers fewer, and those of a longer list.
LEMMA CoversMore ==
  ASSUME NEW L, NEW N, Extends(N, L), DOMAIN N \subseteq Ids,
         NEW p, p.due \subseteq DOMAIN L, NEW n \in Int, NEW m \in Int, m <= n,
         NEW S, NEW T, S \subseteq T, Covers(L, p, n, S)
  PROVE  Covers(N, p, m, T)
<1>1. m * PageSize <= n * PageSize /\ m * PageSize \in Int /\ n * PageSize \in Int
  BY ValuesAssumption
<1>2. ASSUME NEW i \in p.due, Alone(N, i), Newer(N, i) < m * PageSize
      PROVE  i \in S
  <2>1. Newer(L, i) < n * PageSize
    BY <1>1, <1>2, NewerCounts
  <2>2. Alone(L, i)
    BY <1>2 DEF Alone, Extends
  <2> QED BY <2>1, <2>2 DEF Covers
<1> QED BY <1>2 DEF Covers

LEMMA AllInMore ==
  ASSUME NEW L, NEW N, Extends(N, L), NEW p, p.due \subseteq DOMAIN L, NEW n, NEW S, AllIn(L, p, n, S)
  PROVE  AllIn(N, p, n, S)
BY DEF AllIn, Alone, Extends

\* Before the first page there is nothing.
LEMMA CoversNone ==
  ASSUME NEW L, DOMAIN L \subseteq Ids, NEW p, p.due \subseteq DOMAIN L, p.pageNo = 1, NEW S
  PROVE  Covers(L, p, p.pageNo - 1, S)
<1>1. (p.pageNo - 1) * PageSize = 0
  BY ValuesAssumption
<1>2. \A i \in DOMAIN L : Newer(L, i) \in Nat
  BY NewerCounts DEF Extends
<1> QED BY <1>1, <1>2 DEF Covers

\* A record that is alone is among the newest n, however they are chosen, exactly
\* if fewer than n are newer.
LEMMA AmongNewest ==
  ASSUME DashInv, NEW f, NEW i \in Matching(f), Alone(Moments(f), i),
         NEW n \in Int, NEW A \in Newest(Matching(f), n)
  PROVE  i \in A <=> Newer(Moments(f), i) < n
<1>1. PICK L : L = Moments(f)
  OBVIOUS
<1>2. /\ DOMAIN L = Matching(f) /\ DOMAIN L \subseteq Ids
      /\ \A j \in DOMAIN L : L[j] = runs[j].createdAt /\ L[j] \in Nat
  BY <1>1, MomentsTyped
<1>3. /\ A \subseteq DOMAIN L /\ i \in DOMAIN L
      /\ Cardinality(A) = n \/ (A = DOMAIN L /\ Cardinality(A) < n)
      /\ \A k \in A, j \in DOMAIN L \ A : L[k] >= L[j]
  BY <1>2 DEF Newest
<1>4. PICK B : B = {j \in DOMAIN L : L[j] > L[i]}
  OBVIOUS
<1>5. /\ IsFiniteSet(A) /\ IsFiniteSet(B)
      /\ Cardinality(A) \in Nat /\ Cardinality(B) \in Nat
      /\ B = {j \in DOMAIN L : L[j] > L[i]} /\ Newer(L, i) = Cardinality(B)
  BY <1>2, <1>3, <1>4, FewIds, FS_CardinalityType DEF Newer
<1>6. CASE i \in A
  <2>1. B \subseteq A /\ B # A
    BY <1>2, <1>3, <1>5, <1>6
  <2>2. Cardinality(B) < Cardinality(A)
    BY <1>5, <2>1, FS_Subset
  <2> QED BY <1>1, <1>3, <1>5, <1>6, <2>2
<1>7. CASE i \notin A
  <2>1. A \subseteq B
    <3> SUFFICES ASSUME NEW k \in A PROVE L[k] > L[i]
      BY <1>3, <1>5
    <3>1. k # i /\ L[k] >= L[i] /\ L[k] \in Nat /\ L[i] \in Nat /\ k \in DOMAIN L
      BY <1>2, <1>3, <1>7
    <3>2. L[k] # L[i]
      BY <1>1, <3>1 DEF Alone
    <3> QED BY <3>1, <3>2
  <2>2. Cardinality(A) <= Cardinality(B) /\ Cardinality(A) = n
    BY <1>3, <1>5, <1>7, <2>1, FS_Subset
  <2> QED BY <1>1, <1>5, <1>7, <2>2
<1> QED BY <1>6, <1>7

\* With the next page, whichever it is, so much more is covered.
LEMMA CoversNext ==
  ASSUME DashInv, NEW f, NEW p, p.due \subseteq Matching(f), p.pageNo \in Nat, NEW S,
         Covers(Moments(f), p, p.pageNo - 1, S), NEW P \in PagesOf(Matching(f), p.pageNo)
  PROVE  Covers(Moments(f), p, p.pageNo, S \cup P)
<1>1. (p.pageNo - 1) * PageSize \in Int /\ p.pageNo * PageSize \in Int
  BY ValuesAssumption
<1>2. PICK A \in Newest(Matching(f), (p.pageNo - 1) * PageSize) :
        A \cup P \in Newest(Matching(f), p.pageNo * PageSize)
  BY DEF PagesOf
<1>3. ASSUME NEW i \in p.due, Alone(Moments(f), i), Newer(Moments(f), i) < p.pageNo * PageSize
      PROVE  i \in S \cup P
  <2>1. i \in A \cup P
    BY <1>1, <1>2, <1>3, AmongNewest
  <2>2. CASE i \in A
    <3>1. Newer(Moments(f), i) < (p.pageNo - 1) * PageSize
      BY <1>1, <1>2, <1>3, <2>2, AmongNewest
    <3> QED BY <1>3, <3>1 DEF Covers
  <2> QED BY <2>1, <2>2
<1> QED BY <1>3 DEF Covers

\* What covers the pages up to the last covers the list.
LEMMA CoversAll ==
  ASSUME DashInv, NEW f, NEW p, p.due \subseteq Matching(f), p.pageNo \in Nat, NEW S,
         Covers(Moments(f), p, p.pageNo, S)
  PROVE  AllIn(Moments(f), p, Cardinality(Matching(f)), S)
<1>1. PICK L : L = Moments(f)
  OBVIOUS
<1>2. p.pageNo * PageSize \in Int
  BY ValuesAssumption
<1>3. DOMAIN L = Matching(f) /\ Matching(f) \subseteq Ids /\ \A i \in DOMAIN L : L[i] \in Nat
  BY <1>1, MomentsTyped
<1>4. Cardinality(Matching(f)) \in Nat
  BY CountsTyped
<1>5. ASSUME NEW i \in p.due
      PROVE  Newer(L, i) \in Nat /\ Newer(L, i) < Cardinality(Matching(f))
  BY <1>3, NewerCounts, NewerThanAll DEF Newer, Extends
<1> QED BY <1>1, <1>2, <1>4, <1>5 DEF AllIn, Covers

----------------------------------------------------------------------------
(* Steps that read nothing.                                                *)

\* As long as none leaves a list, lists get longer.
MoreListed == /\ departures' \in Nat /\ departures' >= departures
              /\ departures' = departures => \A f : Extends(Moments(f)', Moments(f))

\* A page that stays, while others read.
LEMMA TurnsStill ==
  ASSUME DashInv, MoreListed, NEW t \in Tabs, Turns(t),
         tab'[t] = tab[t] \/ tab'[t].page # "list",
         \A d \in Connections : ListOpen(d, t)' => NoFurther(conn'[d], conn[d])
  PROVE  Turns(t)'
<1> SUFFICES ASSUME tab'[t].page = "list"
             PROVE  Turns(t)'
  BY DEF Turns
<1>1. PICK p \in ListPages : p = tab[t] /\ p = tab'[t]
  BY PageKinds DEF DashInv, DashType
<1>2. p.since \in Nat /\ departures \in Nat /\ p.pageNo \in Nat /\ p.since <= departures
  BY <1>1 DEF ListPages, DashInv, DashType, Turns
<1>3. \A d \in Connections : ListOpen(d, t)' =>
        ListOpen(d, t) /\ (conn'[d] = conn[d] \/ (conn'[d].stage = "answered" /\ ~conn'[d].ok))
  BY DEF ListOpen, NoFurther
<1>4. ListShown(t)' = ListShown(t)
  BY <1>1 DEF ListShown
<1>5. ~p.overlapped => AsksOnce(t)'
  BY <1>1, <1>3, <1>4 DEF Turns, AsksOnce
<1>6. ASSUME ~p.overlapped, p.since = departures'
      PROVE  PagesCover(t)'
  <2>1. PICK L, N : L = Moments(p.filter) /\ N = Moments(p.filter)'
    OBVIOUS
  <2>2. departures' = departures /\ Extends(N, L) /\ DOMAIN N \subseteq Ids
    BY <1>2, <1>6, <2>1 DEF MoreListed, Moments, Matching
  <2>3. /\ p.due \subseteq DOMAIN L
        /\ \A d \in Connections : ListOpen(d, t) => AnswerCovers(L, p, conn[d])
        /\ ListShown(t) => ShownCovers(L, p)
    BY <1>1, <1>6, <2>1, <2>2 DEF Turns, PagesCover
  <2>4. \A S : /\ Covers(L, p, p.pageNo - 1, S) => Covers(N, p, p.pageNo - 1, S)
               /\ Covers(L, p, p.pageNo, S) => Covers(N, p, p.pageNo, S)
               /\ \A n : AllIn(L, p, n, S) => AllIn(N, p, n, S)
    BY <1>2, <2>2, <2>3, CoversMore, AllInMore
  <2>5. \A d \in Connections : ListOpen(d, t)' => AnswerCovers(N, p, conn'[d])
    BY <1>3, <2>3, <2>4 DEF AnswerCovers, Told
  <2>6. ListShown(t)' => ShownCovers(N, p)
    BY <1>4, <2>3, <2>4 DEF ShownCovers
  <2>7. p.due \subseteq DOMAIN N
    BY <2>2, <2>3 DEF Extends
  <2> QED BY <1>1, <2>1, <2>5, <2>6, <2>7 DEF PagesCover
<1> QED BY <1>1, <1>2, <1>5, <1>6 DEF Turns, MoreListed

\* A step that reads nothing for any page.
LEMMA AllTurnsStill ==
  ASSUME DashInv, TurnsInv, MoreListed, ListsAlone,
         \A d \in Connections : NoFurther(conn'[d], conn[d])
  PROVE  TurnsInv'
BY TurnsStill DEF TurnsInv, ListsAlone

LEMMA SameLists ==
  ASSUME DashInv, UNCHANGED <<runs, departures>>
  PROVE  MoreListed /\ \A f : Matching(f)' = Matching(f) /\ Moments(f)' = Moments(f)
<1>1. \A f : Matching(f)' = Matching(f)
  BY DEF Matching
<1>2. \A f : Moments(f)' = Moments(f)
  BY <1>1 DEF Moments
<1> QED BY <1>1, <1>2 DEF MoreListed, Extends, DashInv, DashType

\* A list is refused, or something else is answered.
LEMMA NoListAnswer ==
  ASSUME DashInv, NEW c \in Connections, conn[c] # Null, NEW ok \in BOOLEAN, NEW a,
         Answer(c, ok, a), conn[c].op # "list" \/ ~ok
  PROVE  \A d \in Connections : NoFurther(conn'[d], conn[d])
<1>1. PICK g : /\ conn' = [conn EXCEPT ![c] = g]
               /\ g.stage = "answered" /\ g.ok = ok
               /\ g.op = conn[c].op /\ g.tab = conn[c].tab
  BY AnswerGiven
<1>2. \A d \in Connections : conn'[d] = IF d = c THEN g ELSE conn[d]
  BY <1>1 DEF DashInv, DashType
<1> QED BY <1>1, <1>2 DEF NoFurther

\* Something else is asked, or a connection becomes free.
LEMMA NoListAsk ==
  ASSUME DashInv, NEW c \in Connections, NEW r, r = Null \/ r.op # "list",
         conn' = [conn EXCEPT ![c] = r]
  PROVE  \A d \in Connections : NoFurther(conn'[d], conn[d])
<1>1. \A d \in Connections : conn'[d] = IF d = c THEN r ELSE conn[d]
  BY DEF DashInv, DashType
<1> QED BY <1>1 DEF NoFurther

----------------------------------------------------------------------------
(* Steps of staff.                                                         *)

\* A page asks, for the page after those it has read or an earlier one.
LEMMA TurnsAsk ==
  ASSUME DashInv, TurnsInv, UNCHANGED <<runs, departures>>,
         NEW t \in Tabs, NEW c \in Connections, NEW g,
         g.page = "list", g.loading, tab' = [tab EXCEPT ![t] = g],
         NEW r, r = Asked("list", t, Question(g.filter, g.pageNo)), conn'[c] = r,
         \A d \in Connections : d # c => NoFurther(conn'[d], conn[d]),
         g.overlapped \/ \A d \in Connections : d # c => ~ListOpen(d, t)',
         g.since <= departures,
         ~g.overlapped /\ g.since = departures =>
           /\ g.due \subseteq Matching(g.filter)
           /\ Covers(Moments(g.filter), g, g.pageNo - 1, g.seen)
  PROVE  TurnsInv'
<1>1. r.op = "list" /\ r.tab = t /\ r.stage = "asked"
  BY DEF Asked
<1>2. \A u \in Tabs : tab'[u] = IF u = t THEN g ELSE tab[u]
  BY DEF DashInv, DashType
<1>3. ~ListShown(t)'
  BY <1>2 DEF ListShown
<1>4. ~g.overlapped => AsksOnce(t)'
  BY <1>3 DEF AsksOnce
<1>5. ASSUME ~g.overlapped, g.since = departures
      PROVE  PagesCover(t)'
  <2>1. \A d \in Connections : ListOpen(d, t)' => conn'[d] = r
    BY <1>5
  <2>2. AnswerCovers(Moments(g.filter), g, r)
    BY <1>1, <1>5 DEF AnswerCovers, Told
  <2>3. Moments(g.filter)' = Moments(g.filter)
    BY SameLists
  <2>4. g.due \subseteq DOMAIN Moments(g.filter)
    BY <1>5 DEF Moments
  <2> QED BY <1>2, <1>3, <2>1, <2>2, <2>3, <2>4 DEF PagesCover
<1>6. Turns(t)'
  BY <1>2, <1>4, <1>5 DEF Turns
<1>7. ASSUME NEW u \in Tabs, u # t
      PROVE  Turns(u)'
  <2>1. \A d \in Connections : ListOpen(d, u)' => NoFurther(conn'[d], conn[d])
    BY <1>1, <1>7 DEF ListOpen
  <2> QED BY <1>2, <1>7, <2>1, SameLists, TurnsStill DEF TurnsInv
<1> QED BY <1>6, <1>7 DEF TurnsInv

\* The list is opened: its first page is asked for.
LEMMA VisitTurns ==
  ASSUME DashInv, ListInv, TurnsInv, UNCHANGED <<runs, departures>>,
         NEW t \in Tabs, NEW c \in Connections, VisitList(t, c)
  PROVE  TurnsInv'
<1>1. PICK m, n : /\ FreshList = [ListPage EXCEPT !.due = m, !.since = n]
                  /\ m = Matching(AllRecords) /\ n = departures
  BY DEF FreshList
<1>2. /\ FreshList.page = "list" /\ FreshList.loading
      /\ FreshList.filter = AllRecords /\ FreshList.pageNo = 1
      /\ FreshList.due = Matching(AllRecords) /\ FreshList.since = departures
  BY <1>1 DEF ListPage
<1>3. tab' = [tab EXCEPT ![t] = FreshList]
  BY DEF VisitList, Visit
<1>4. \A d \in Connections : conn'[d] = IF d = c THEN Asked("list", t, Question(AllRecords, 1))
                                        ELSE Abandoned(t, conn[d])
  BY DEF VisitList, Visit
<1>5. \A d \in Connections : d # c => NoFurther(conn'[d], conn[d]) /\ ~ListOpen(d, t)'
  BY <1>4, LeftLists DEF ListOpen
<1>6. Covers(Moments(AllRecords), FreshList, FreshList.pageNo - 1, FreshList.seen)
  BY <1>2, MomentsTyped, CoversNone
<1>7. departures <= departures
  BY DEF DashInv, DashType
<1> QED BY <1>2, <1>3, <1>4, <1>5, <1>6, <1>7, TurnsAsk

\* A record or the settings are opened.
LEMMA OtherVisitTurns ==
  ASSUME DashInv, ListInv, TurnsInv, UNCHANGED <<runs, departures>>,
         NEW t \in Tabs, NEW c \in Connections,
         (\E i \in Ids : VisitRecord(t, c, i)) \/ VisitSettings(t, c)
  PROVE  TurnsInv'
<1>1. ASSUME NEW p, p.page # "list", NEW op, op # "list", NEW a, Visit(t, c, p, Asked(op, t, a))
      PROVE  TurnsInv'
  <2>1. \A d \in Connections : conn'[d] = IF d = c THEN Asked(op, t, a) ELSE Abandoned(t, conn[d])
    BY <1>1 DEF Visit
  <2>2. Asked(op, t, a).op # "list"
    BY <1>1 DEF Asked
  <2>3. \A d \in Connections : NoFurther(conn'[d], conn[d])
    BY <2>1, <2>2, LeftLists DEF NoFurther
  <2> QED BY <1>1, <2>3, AlonePage, SameLists, AllTurnsStill DEF Visit
<1>2. ASSUME NEW i \in Ids, VisitRecord(t, c, i)
      PROVE  TurnsInv'
  <2>1. RecordPage(i).page # "list"
    BY DEF RecordPage
  <2> QED BY <1>1, <1>2, <2>1 DEF VisitRecord
<1>3. CASE VisitSettings(t, c)
  <2>1. SettingsPage.page # "list"
    BY DEF SettingsPage
  <2> QED BY <1>1, <1>3, <2>1 DEF VisitSettings
<1> QED BY <1>2, <1>3

\* A box is set, or the page turned.
LEMMA AsksTurns ==
  ASSUME DashInv, ListInv, TurnsInv, UNCHANGED <<runs, departures>>,
         NEW t \in Tabs, tab[t].page = "list", NEW c \in Connections, NEW g, AsksFor(t, c, g)
  PROVE  TurnsInv'
<1>1. PICK p \in ListPages : p = tab[t]
  BY PageKinds DEF DashInv, DashType
<1>2. PICK r : r = Asked("list", t, Question(g.filter, g.pageNo))
  OBVIOUS
<1>3. \A d \in Connections : conn'[d] = IF d = c THEN r ELSE conn[d]
  BY <1>2 DEF AsksFor, Send, DashInv, DashType
<1>4. \A d \in Connections : d # c => NoFurther(conn'[d], conn[d])
  BY <1>3 DEF NoFurther
<1>5. g.overlapped \/ \A d \in Connections : d # c => ~ListOpen(d, t)'
  BY <1>3 DEF AsksFor, ListOpen
<1>6. CASE Afresh(g)
  <2>1. g.since <= departures /\ g.due \subseteq Matching(g.filter)
    BY <1>6 DEF Afresh, DashInv, DashType
  <2>2. Covers(Moments(g.filter), g, g.pageNo - 1, g.seen)
    BY <1>6, <2>1, MomentsTyped, CoversNone DEF Afresh
  <2> QED BY <1>2, <1>3, <1>4, <1>5, <2>1, <2>2, TurnsAsk DEF AsksFor
<1>7. CASE Turned(t, g)
  <2>1. g.since <= departures
    BY <1>1, <1>7 DEF Turned, TurnsInv, Turns
  <2>2. ASSUME ~g.overlapped, g.since = departures
        PROVE  /\ g.due \subseteq Matching(g.filter)
               /\ Covers(Moments(g.filter), g, g.pageNo - 1, g.seen)
    <3>1. PICK L : L = Moments(p.filter)
      OBVIOUS
    <3>2. DOMAIN L = Matching(p.filter) /\ DOMAIN L \subseteq Ids /\ Extends(L, L)
      BY <3>1, MomentsTyped DEF Extends
    <3>3. p.due \subseteq DOMAIN L /\ Covers(L, p, p.pageNo, p.seen)
      BY <1>1, <1>7, <2>2, <3>1 DEF Turned, TurnsInv, Turns, PagesCover, ShownCovers
    <3>4. p.pageNo \in Nat /\ g.pageNo - 1 \in Int /\ g.pageNo - 1 <= p.pageNo
      BY <1>1, <1>7 DEF Turned, ListPages
    <3>5. Covers(L, p, g.pageNo - 1, p.seen)
      BY <3>2, <3>3, <3>4, CoversMore
    <3> QED BY <1>1, <1>7, <3>1, <3>2, <3>3, <3>5 DEF Turned, Covers
  <2> QED BY <1>2, <1>3, <1>4, <1>5, <2>1, <2>2, TurnsAsk DEF AsksFor
<1> QED BY <1>6, <1>7 DEF AsksFor

LEMMA UseTurns ==
  ASSUME DashInv, ListInv, TurnsInv, NEW t \in Tabs, Use(t)
  PROVE  TurnsInv'
<1>1. ASSUME NEW c \in Connections, Navigate(t, c) \/ \E i \in Ids : OpenRecord(t, c, i)
      PROVE  TurnsInv'
  BY <1>1, VisitTurns, OtherVisitTurns DEF Navigate, OpenRecord, db
<1>2. ASSUME NEW c \in Connections,
             \/ \E f \in Filters : ChooseFilter(t, c, f)
             \/ \E n \in 1 .. MaxRuns : Turn(t, c, n)
      PROVE  TurnsInv'
  <2>1. UNCHANGED <<runs, departures>>
    BY <1>2 DEF ChooseFilter, Turn, db
  <2> QED BY <1>2, <2>1, ListActions, AsksTurns
<1>3. ASSUME NEW c \in Connections,
             \/ ClickResend(t, c) \/ ClickDelete(t, c) \/ ClickSave(t, c)
             \/ \E f \in Flows : ClickRemove(t, c, f)
      PROVE  TurnsInv'
  <2>1. UNCHANGED <<runs, departures>>
    BY <1>3 DEF ClickResend, ClickDelete, ClickSave, ClickRemove, db
  <2>2. \E op, a : op # "list" /\ conn' = [conn EXCEPT ![c] = Asked(op, t, a)]
    BY <1>3 DEF ClickResend, ClickDelete, ClickSave, ClickRemove, Send
  <2>3. \A d \in Connections : NoFurther(conn'[d], conn[d])
    BY <2>2, NoListAsk DEF Asked
  <2>4. ListsAlone
    <3>1. CASE ClickResend(t, c) \/ ClickDelete(t, c)
      BY <3>1, ButtonActions, AlonePage
    <3>2. CASE UNCHANGED tab
      BY <3>2 DEF ListsAlone
    <3> QED BY <1>3, <3>1, <3>2 DEF ClickSave, ClickRemove, view
  <2> QED BY <2>1, <2>3, <2>4, SameLists, AllTurnsStill
<1>4. ASSUME \/ \E f \in Flows : StartEdit(t, f)
             \/ \E f \in Flows : TypeName(t, f)
             \/ \E e \in Edits : Type(t, e)
             \/ StartNew(t) \/ Cancel(t)
      PROVE  TurnsInv'
  <2>1. UNCHANGED <<runs, departures>>
    BY <1>4 DEF StartEdit, TypeName, Type, StartNew, Cancel, db
  <2>2. \A d \in Connections : NoFurther(conn'[d], conn[d])
    BY <1>4, FormActions DEF NoFurther
  <2>3. ListsAlone
    BY <1>4, FormActions, AlonePage
  <2> QED BY <2>1, <2>2, <2>3, SameLists, AllTurnsStill
<1> QED BY <1>1, <1>2, <1>3, <1>4 DEF Use

----------------------------------------------------------------------------
(* Steps of the backend.                                                   *)

\* A list in flight gets what it asks for.
LEMMA TurnsRead ==
  ASSUME DashInv, TurnsInv, UNCHANGED <<tab, runs, departures>>,
         NEW c \in Connections, ListOpen(c, conn[c].tab),
         NEW g, conn' = [conn EXCEPT ![c] = g], g.op = "list", g.tab = conn[c].tab,
         LET p == tab[g.tab]  L == Moments(p.filter) IN
           ~p.overlapped /\ p.due \subseteq DOMAIN L /\ AnswerCovers(L, p, conn[c])
             => AnswerCovers(L, p, g)
  PROVE  TurnsInv'
<1>1. \A d \in Connections : conn'[d] = IF d = c THEN g ELSE conn[d]
  BY DEF DashInv, DashType
<1>2. \A d \in Connections, u \in Tabs : ListOpen(d, u)' => ListOpen(d, u)
  BY <1>1 DEF ListOpen
<1>3. \A f : Moments(f)' = Moments(f)
  BY SameLists
<1> SUFFICES ASSUME NEW t \in Tabs, tab[t].page = "list"
             PROVE  Turns(t)'
  BY DEF TurnsInv, Turns
<1>4. ListShown(t)' = ListShown(t)
  BY DEF ListShown
<1>5. ~tab[t].overlapped => AsksOnce(t)'
  BY <1>2, <1>4 DEF TurnsInv, Turns, AsksOnce
<1>6. ASSUME ~tab[t].overlapped, tab[t].since = departures
      PROVE  PagesCover(t)'
  <2>1. PICK p, L : p = tab[t] /\ L = Moments(p.filter)
    OBVIOUS
  <2>2. /\ p.due \subseteq DOMAIN L
        /\ \A d \in Connections : ListOpen(d, t) => AnswerCovers(L, p, conn[d])
        /\ ListShown(t) => ShownCovers(L, p)
    BY <1>6, <2>1 DEF TurnsInv, Turns, PagesCover
  <2>3. g.tab = t => AnswerCovers(L, p, g)
    BY <1>6, <2>1, <2>2
  <2>4. \A d \in Connections : ListOpen(d, t)' => AnswerCovers(L, p, conn'[d])
    BY <1>1, <1>2, <2>2, <2>3 DEF ListOpen
  <2>5. Moments(tab[t].filter)' = L
    BY <1>3, <2>1
  <2> QED BY <1>4, <2>1, <2>2, <2>4, <2>5 DEF PagesCover
<1> QED BY <1>5, <1>6 DEF TurnsInv, Turns

\* The records of one page more are read.
LEMMA ItemsTurns ==
  ASSUME DashInv, ListInv, TurnsInv, NEW c \in Connections, ListItems(c)
  PROVE  TurnsInv'
<1>1. PICK r \in ListRequests : r = conn[c] /\ r # Null /\ r.stage = "asked" /\ tab[r.tab].page = "list"
  BY Request, RequestKinds DEF ListItems, Serving, PageOfOp, Reads
<1>2. r.op = "list" /\ r.tab \in Tabs
  BY <1>1 DEF ListRequests, RequestsOf
<1>3. PICK p \in ListPages : p = tab[r.tab]
  BY <1>1, <1>2, PageKinds DEF DashInv, DashType
<1>4. PICK P \in PagesOf(Matching(r.arg.filter), r.arg.pageNo) :
        conn' = [conn EXCEPT ![c].stage = "items",
                             ![c].answer = [items |-> P, total |-> 0, asked |-> r.arg]]
  BY <1>1 DEF ListItems
<1>5. PICK a : a = [items |-> P, total |-> 0, asked |-> r.arg]
  OBVIOUS
<1>6. PICK g : g = [r EXCEPT !.stage = "items", !.answer = a]
  OBVIOUS
<1>7. conn' = [conn EXCEPT ![c] = g]
  BY <1>1, <1>4, <1>5, <1>6 DEF DashInv, DashType
<1>8. g.stage = "items" /\ g.op = "list" /\ g.tab = r.tab /\ g.answer.items = P
  BY <1>5, <1>6 DEF ListRequests, RequestsOf
<1>9. ASSUME ~p.overlapped, p.due \subseteq DOMAIN Moments(p.filter),
             AnswerCovers(Moments(p.filter), p, r)
      PROVE  AnswerCovers(Moments(p.filter), p, g)
  <2>1. P \in PagesOf(Matching(p.filter), p.pageNo)
    <3>1. r.arg = Question(p.filter, p.pageNo)
      BY <1>1, <1>2, <1>3, <1>9 DEF ListInv, AsksCurrent, ListOpen
    <3> QED BY <1>4, <3>1 DEF Question
  <2>2. Covers(Moments(p.filter), p, p.pageNo - 1, p.seen) /\ p.pageNo \in Nat
    BY <1>1, <1>9 DEF AnswerCovers, ListPages
  <2>3. Covers(Moments(p.filter), p, p.pageNo, p.seen \cup P)
    BY <1>9, <2>1, <2>2, MomentsTyped, CoversNext
  <2> QED BY <1>8, <2>3 DEF AnswerCovers, Told
<1> QED BY <1>1, <1>2, <1>3, <1>7, <1>8, <1>9, TurnsRead DEF ListItems, ListOpen, db, view

\* The list is counted: the last page is known to be one.
LEMMA TotalTurns ==
  ASSUME DashInv, ListInv, TurnsInv, NEW c \in Connections, ListTotal(c)
  PROVE  TurnsInv'
<1>1. /\ conn[c] # Null /\ conn[c].op = "list" /\ conn[c].stage = "items" /\ conn[c].tab \in Tabs
      /\ tab[conn[c].tab].page = "list"
  BY Request DEF ListTotal, Fitting, Answered, PageOfOp, Reads
<1>2. PICK b \in Listing : b = conn[c].answer
  BY <1>1, Request DEF Fitting, Answered
<1>3. PICK p \in ListPages : p = tab[conn[c].tab]
  BY <1>1, PageKinds DEF DashInv, DashType
<1>4. PICK n : n = Cardinality(Matching(conn[c].arg.filter))
  OBVIOUS
<1>5. PICK a : a = [b EXCEPT !.total = n]
  OBVIOUS
<1>6. a.items = b.items /\ a.total = n
  BY <1>5 DEF Listing
<1>7. Answer(c, TRUE, a)
  BY <1>2, <1>4, <1>5 DEF ListTotal
<1>8. PICK g : /\ conn' = [conn EXCEPT ![c] = g]
               /\ g.stage = "answered" /\ g.ok = TRUE /\ g.answer = a
               /\ g.op = conn[c].op /\ g.tab = conn[c].tab /\ g.arg = conn[c].arg
  <2>1. PICK ok \in BOOLEAN : ok = TRUE
    OBVIOUS
  <2>2. Answer(c, ok, a)
    BY <1>7, <2>1
  <2>3. PICK g : /\ conn' = [conn EXCEPT ![c] = g]
                 /\ g.stage = "answered" /\ g.ok = ok /\ g.answer = a
                 /\ g.op = conn[c].op /\ g.tab = conn[c].tab /\ g.arg = conn[c].arg
    BY <1>1, <2>2, AnswerGiven
  <2> QED BY <2>1, <2>3
<1>9. ASSUME ~p.overlapped, p.due \subseteq DOMAIN Moments(p.filter),
             AnswerCovers(Moments(p.filter), p, conn[c])
      PROVE  AnswerCovers(Moments(p.filter), p, g)
  <2>1. n = Cardinality(Matching(p.filter))
    <3>1. conn[c].arg = Question(p.filter, p.pageNo)
      BY <1>1, <1>3, <1>9 DEF ListInv, AsksCurrent, ListOpen
    <3> QED BY <1>4, <3>1 DEF Question
  <2>2. Covers(Moments(p.filter), p, p.pageNo, p.seen \cup b.items) /\ p.pageNo \in Nat
    BY <1>1, <1>2, <1>9 DEF AnswerCovers, ListPages
  <2>3. AllIn(Moments(p.filter), p, n, p.seen \cup b.items)
    BY <1>9, <2>1, <2>2, MomentsTyped, CoversAll
  <2> QED BY <1>6, <1>8, <2>2, <2>3 DEF AnswerCovers, Told
<1> QED BY <1>1, <1>3, <1>8, <1>9, TurnsRead DEF ListTotal, ListOpen, db, view

\* A record that comes in only makes lists longer.
LEMMA ArrivesListed ==
  ASSUME DashInv, NEW i \in Ids, NEW r \in NewRows, Arrives(i, r)
  PROVE  MoreListed
<1>1. ASSUME NEW f, NEW j \in Matching(f)
      PROVE  j \in Matching(f)' /\ runs'[j].createdAt = runs[j].createdAt
  <2>1. j \in Ids /\ runs[j].status \in Statuses
    BY <1>1 DEF Matching, Matches
  <2>2. j # i
    BY <2>1, ValuesAssumption DEF Arrives, NextId
  <2>3. runs'[j] = runs[j]
    BY <2>1, <2>2 DEF Arrives, DashInv, DashType
  <2> QED BY <1>1, <2>1, <2>3 DEF Matching, Matches
<1>2. ASSUME NEW f
      PROVE  Extends(Moments(f)', Moments(f))
  BY <1>1 DEF Extends, Moments
<1> QED BY <1>2 DEF MoreListed, Arrives, DashInv, DashType

\* A list that a record may leave is one that has been left.
LEMMA Departs ==
  ASSUME DashInv, departures' = departures + 1
  PROVE  MoreListed
BY DEF MoreListed, DashInv, DashType

\* The backend answers anything else.
LEMMA ServedTurns ==
  ASSUME DashInv, ListInv, TurnsInv, NEW c \in Connections,
         RecordsServed(c) \/ SettingsServed(c) \/ Lose(c)
  PROVE  TurnsInv'
<1>1. CASE ServeLoad(c) \/ ServeResend(c) \/ ServeDelete(c) \/ SettingsServed(c) \/ Lose(c)
  <2>1. ListsAlone
    BY <1>1 DEF ListsAlone, ServeLoad, ServeResend, ServeDelete, SettingsServed, ServeSave,
                ServeRemove, ServeConfigs, Lose, view
  <2>2. MoreListed
    <3>1. UNCHANGED <<runs, departures>> \/ departures' = departures + 1
      BY <1>1 DEF ServeLoad, ServeResend, ServeDelete, SettingsServed, ServeSave, ServeRemove,
                  ServeConfigs, Lose, db
    <3> QED BY <3>1, SameLists, Departs
  <2>3. \A d \in Connections : NoFurther(conn'[d], conn[d])
    <3>1. CASE Lose(c)
      BY <3>1, NoListAnswer DEF Lose
    <3>2. CASE ServeLoad(c) \/ ServeResend(c) \/ ServeDelete(c) \/ SettingsServed(c)
      <4>1. conn[c].op # "list"
        BY <3>2 DEF ServeLoad, ServeResend, ServeDelete, SettingsServed, ServeSave, ServeRemove,
                    ServeConfigs, Serving
      <4> QED BY <3>2, <4>1, Answers, NoListAnswer
    <3> QED BY <1>1, <3>1, <3>2
  <2> QED BY <2>1, <2>2, <2>3, AllTurnsStill
<1> QED BY <1>1, ItemsTurns, TotalTurns DEF RecordsServed

----------------------------------------------------------------------------
(* Answers that come.                                                      *)

\* A page is shown that was asked for: it is counted among those seen.
LEMMA ListArrivesTurns ==
  ASSUME DashInv, ListInv, TurnsInv, NEW c \in Connections, ListArrives(c)
  PROVE  TurnsInv'
<1>1. /\ conn[c] # Null /\ conn[c].op = "list" /\ conn[c].stage = "answered"
      /\ conn' = [conn EXCEPT ![c] = Null] /\ UNCHANGED <<runs, departures>>
  BY DEF ListArrives, Arrived, Settle, db
<1>2. PICK t \in Tabs : t = conn[c].tab /\ tab[t].page = "list"
  BY <1>1, Request DEF PageOfOp, Reads
<1>3. PICK p \in ListPages : p = tab[t]
  BY <1>2, PageKinds DEF DashInv, DashType
<1>4. PICK a : a = conn[c].answer
  OBVIOUS
<1>5. PICK g : g = IF conn[c].ok THEN [p EXCEPT !.data = a, !.loading = FALSE, !.seen = p.seen \cup a.items]
                   ELSE [p EXCEPT !.error = TRUE, !.loading = FALSE]
  OBVIOUS
<1>6. tab' = [tab EXCEPT ![t] = g]
  BY <1>2, <1>3, <1>4, <1>5 DEF ListArrives, DashInv, DashType
<1>7. /\ g.overlapped = p.overlapped /\ g.filter = p.filter /\ g.pageNo = p.pageNo
      /\ g.since = p.since /\ g.due = p.due
      /\ IF conn[c].ok THEN g.data = a /\ g.seen = p.seen \cup a.items ELSE g.error
  BY <1>5 DEF ListPages
<1>8. \A u \in Tabs : tab'[u] = IF u = t THEN g ELSE tab[u]
  BY <1>6 DEF DashInv, DashType
<1>9. \A d \in Connections : conn'[d] = IF d = c THEN Null ELSE conn[d]
  BY <1>1 DEF DashInv, DashType
<1>10. ASSUME ~p.overlapped
       PROVE  \A d \in Connections : ~ListOpen(d, t)'
  BY <1>1, <1>2, <1>3, <1>9, <1>10 DEF TurnsInv, Turns, AsksOnce, ListOpen
<1>11. ASSUME ~p.overlapped, p.since = departures
       PROVE  PagesCover(t)'
  <2>1. PICK L : L = Moments(p.filter) /\ L = Moments(p.filter)'
    BY <1>1, SameLists
  <2>2. p.due \subseteq DOMAIN L /\ AnswerCovers(L, p, conn[c])
    BY <1>1, <1>2, <1>3, <1>11, <2>1 DEF TurnsInv, Turns, PagesCover, ListOpen
  <2>3. ListShown(t)' => conn[c].ok
    BY <1>7, <1>8 DEF ListShown
  <2>4. conn[c].ok => ShownCovers(L, g)
    BY <1>1, <1>4, <1>7, <2>2 DEF AnswerCovers, Told, ShownCovers, Covers, AllIn
  <2> QED BY <1>7, <1>8, <1>10, <1>11, <2>1, <2>2, <2>3, <2>4 DEF PagesCover
<1>12. Turns(t)'
  BY <1>1, <1>2, <1>3, <1>7, <1>8, <1>10, <1>11 DEF TurnsInv, Turns, AsksOnce
<1>13. ASSUME NEW u \in Tabs, u # t
       PROVE  Turns(u)'
  <2>1. \A d \in Connections : NoFurther(conn'[d], conn[d])
    BY <1>9 DEF NoFurther
  <2> QED BY <1>1, <1>8, <1>13, <2>1, SameLists, TurnsStill DEF TurnsInv
<1> QED BY <1>12, <1>13 DEF TurnsInv

\* The other answers.
LEMMA AnsweredTurns ==
  ASSUME DashInv, ListInv, TurnsInv, NEW c \in Connections, RecordsAnswered(c) \/ SettingsAnswered(c)
  PROVE  TurnsInv'
<1>1. CASE LoadArrives(c) \/ ResendArrives(c) \/ SettingsAnswered(c)
  <2>1. \/ conn' = [conn EXCEPT ![c] = Null]
        \/ \E op, a : op # "list" /\ conn' = [conn EXCEPT ![c] = Asked(op, conn[c].tab, a)]
    <3>1. "load" # "list" /\ "configs" # "list"
      OBVIOUS
    <3> QED BY <1>1, <3>1 DEF LoadArrives, ResendArrives, SettingsAnswered, ConfigsArrive, SaveArrives,
                              RemoveArrives, Settle
  <2>2. \A d \in Connections : NoFurther(conn'[d], conn[d])
    BY <2>1, NoListAsk DEF Asked
  <2>3. ListsAlone
    BY <1>1, AnswerPages DEF ListsAlone
  <2>4. UNCHANGED <<runs, departures>>
    BY <1>1 DEF LoadArrives, ResendArrives, SettingsAnswered, ConfigsArrive, SaveArrives,
                RemoveArrives, db
  <2> QED BY <2>2, <2>3, <2>4, SameLists, AllTurnsStill
<1>2. CASE DeleteArrives(c)
  <2>1. PICK t \in Tabs : t = conn[c].tab
    BY <1>2, Request DEF DeleteArrives, Arrived
  <2>2. UNCHANGED <<runs, departures>>
    BY <1>2 DEF DeleteArrives, db
  <2>3. CASE VisitList(t, c)
    BY <2>2, <2>3, VisitTurns
  <2>4. CASE Settle(c) /\ UNCHANGED tab
    BY <2>2, <2>4, NoListAsk, SameLists, AllTurnsStill DEF Settle, ListsAlone
  <2>5. CASE conn[c].live /\ Settle(c) /\ tab' = [tab EXCEPT ![t].deleting = FALSE, ![t].error = TRUE]
    <3>1. tab[t].page = "record"
      BY <1>2, <2>1, <2>5, Request DEF DeleteArrives, Arrived, PageOfOp
    <3>2. PICK p \in RecordPages : p = tab[t]
      BY <3>1, PageKinds DEF DashInv, DashType
    <3>3. PICK g : g = [p EXCEPT !.deleting = FALSE, !.error = TRUE]
      OBVIOUS
    <3>4. g.page = "record" /\ tab' = [tab EXCEPT ![t] = g]
      BY <2>5, <3>2, <3>3 DEF RecordPages, DashInv, DashType
    <3>5. \A d \in Connections : NoFurther(conn'[d], conn[d])
      BY <2>5, NoListAsk DEF Settle
    <3> QED BY <2>2, <3>4, <3>5, AlonePage, SameLists, AllTurnsStill
  <2> QED BY <1>2, <2>1, <2>3, <2>4, <2>5 DEF DeleteArrives
<1> QED BY <1>1, <1>2, ListArrivesTurns DEF RecordsAnswered

----------------------------------------------------------------------------
(* The theorem.                                                            *)

LEMMA TurnsKept == DashInv /\ ListInv /\ TurnsInv /\ [Next]_vars => TurnsInv'
<1> SUFFICES ASSUME DashInv, ListInv, TurnsInv, [Next]_vars
             PROVE  TurnsInv'
  OBVIOUS
<1>1. ASSUME UNCHANGED <<tab, conn>>, MoreListed
      PROVE  TurnsInv'
  BY <1>1, AllTurnsStill DEF ListsAlone, NoFurther
<1>2. CASE \E i \in Ids, r \in NewRows : Arrives(i, r)
  BY <1>1, <1>2, ArrivesListed DEF Arrives, view
<1>3. CASE \E i \in Ids, st \in Statuses : Progresses(i, st)
  BY <1>1, <1>3, Departs DEF Progresses, view
<1>4. CASE UNCHANGED vars
  BY <1>1, <1>4, SameLists DEF vars
<1> QED BY <1>2, <1>3, <1>4, UseTurns, ServedTurns, AnsweredTurns DEF Next, Goes, Quiescent

\* On the last page, the page number has come so far.
LEMMA LastPage ==
  ASSUME NEW a \in Listing, NEW n \in Nat, n >= TotalPages(a)
  PROVE  a.total <= n * PageSize
<1>1. a.total \in Nat /\ PageSize \in Nat \ {0}
  BY ValuesAssumption DEF Listing
<1>2. CASE a.total = 0
  BY <1>1, <1>2
<1>3. CASE a.total # 0
  BY <1>1, <1>3 DEF TotalPages
<1> QED BY <1>2, <1>3

LEMMA TurnsMissNone == DashInv /\ TurnsInv => NoneMissed
<1> SUFFICES ASSUME DashInv, TurnsInv, NEW t \in Tabs, ListShown(t),
                    tab[t].pageNo >= TotalPages(tab[t].data),
                    tab[t].since = departures, ~tab[t].overlapped
             PROVE  tab[t].due \subseteq tab[t].seen \cup Tied(tab[t].filter)
  BY DEF NoneMissed
<1>1. PICK p \in ListPages : p = tab[t]
  BY PageKinds DEF ListShown, DashInv, DashType
<1>2. p.data \in Listing /\ p.pageNo \in Nat
  BY <1>1 DEF ListPages, ListShown
<1>3. AllIn(Moments(p.filter), p, p.data.total, p.seen) /\ p.due \subseteq Matching(p.filter)
  BY <1>1, MomentsTyped DEF TurnsInv, Turns, PagesCover, ShownCovers, ListShown
<1>4. \A i \in p.due : Alone(Moments(p.filter), i) \/ i \in Tied(p.filter)
  BY <1>3, MomentsTyped DEF Alone, Tied
<1>5. \A i \in p.due : Alone(Moments(p.filter), i) => i \in p.seen
  BY <1>1, <1>2, <1>3, LastPage DEF AllIn
<1> QED BY <1>1, <1>4, <1>5

\* Who turns the pages from the first to the last comes by every record that was
\* there when the boxes were set and shares its createdAt with no other record of
\* the list, however many come in between one page and the next or between the two
\* statements of a query and however each query orders those that do share theirs,
\* as long as none leaves the list and no two questions overlap (findAll: orderBy
\* createdAt alone, skip, take, count; Next and its bound).
THEOREM NoRecordMissed == Spec => []NoneMissed
<1>1. Init => ListInv /\ TurnsInv
  BY DEF Init, ListInv, AsksCurrent, AnswersAsked, ShownAsAsked, ListShown, ClosedPage, TurnsInv, Turns
<1>2. DashInv /\ ListInv /\ TurnsInv /\ [Next]_vars => ListInv' /\ TurnsInv'
  BY ListKept, TurnsKept
<1>3. DashInv /\ TurnsInv => NoneMissed
  BY TurnsMissNone
<1> QED BY <1>1, <1>2, <1>3, DashboardInvariance, PTL DEF Spec

----------------------------------------------------------------------------
(***************************************************************************)
(* What is saved: a setting that nobody touched survives the way from its  *)
(* column into the form, out of it again and back (SaveKeepsUntouched).    *)
(***************************************************************************)

\* The way there and back, setting by setting.
LEMMA RoundTrip ==
  ASSUME NEW old \in SettingsRows, NEW b \in SettingsRows, NEW body \in Bodies, NEW k \in Fields,
         b[k] = old[k], body[k] = Payload(ToForm(b))[k]
  PROVE  Written(old, body)[k] = old[k]
<1>1. Written(old, body)[k] = IF body[k] = Absent THEN old[k]
                              ELSE IF k \in OptionalTexts /\ body[k] = Blank THEN Null ELSE body[k]
  BY DEF Written
<1>2. ToForm(b)[k] = IF k \in OptionalNumbers \cup OptionalTexts /\ b[k] = Null THEN Blank ELSE b[k]
  BY DEF ToForm
<1>3. body[k] = IF k \in OptionalNumbers /\ ToForm(b)[k] = Blank THEN Absent ELSE ToForm(b)[k]
  BY DEF Payload
<1>4. k \in OptionalTexts => b[k] # Blank /\ k \notin OptionalNumbers
  BY ValuesAssumption DEF SettingsRows, StoredIn, OptionalTexts, OptionalNumbers, NumberFields
<1> QED BY <1>1, <1>2, <1>3, <1>4

----------------------------------------------------------------------------
(* A request that was not served has not been answered well, so what a step *)
(* that leaves one answered well did was to serve it, or nothing.          *)

Unanswered == \A c : c \in Connections /\ conn[c] # Null /\ conn[c].stage = "asked" => ~conn[c].ok

LEMMA UnansweredOne ==
  ASSUME DashInv, Unanswered, NEW c \in Connections, NEW r, conn' = [conn EXCEPT ![c] = r],
         r # Null /\ r.stage = "asked" => ~r.ok
  PROVE  Unanswered'
BY DEF DashInv, DashType, Unanswered

LEMMA UnansweredAsk ==
  ASSUME DashInv, Unanswered, NEW c \in Connections, NEW op, NEW t, NEW a,
         conn' = [conn EXCEPT ![c] = Asked(op, t, a)]
  PROVE  Unanswered'
<1>1. ~Asked(op, t, a).ok
  BY DEF Asked
<1> QED BY <1>1, UnansweredOne

LEMMA UnansweredAnswer ==
  ASSUME DashInv, Unanswered, NEW c \in Connections, conn[c] # Null, NEW ok \in BOOLEAN, NEW a,
         Answer(c, ok, a)
  PROVE  Unanswered'
<1>1. PICK r \in Requests : r = conn[c]
  BY Request
<1>2. PICK g : g = [r EXCEPT !.stage = "answered", !.ok = ok, !.answer = a]
  OBVIOUS
<1>3. conn' = [conn EXCEPT ![c] = g]
  BY <1>1, <1>2 DEF Answer, DashInv, DashType
<1>4. g.stage = "answered"
  BY <1>2 DEF Requests, RequestsOf, ListRequests, LoadRequests, TableRequests, RowRequests,
              SaveRequests, RemoveRequests
<1> QED BY <1>3, <1>4, UnansweredOne

LEMMA UnansweredVisit ==
  ASSUME DashInv, Unanswered, NEW t \in Tabs, NEW c \in Connections, NEW p, NEW op, NEW a,
         Visit(t, c, p, Asked(op, t, a))
  PROVE  Unanswered'
<1>1. \A d \in Connections : conn'[d] = IF d = c THEN Asked(op, t, a) ELSE Abandoned(t, conn[d])
  BY DEF Visit
<1>2. ~Asked(op, t, a).ok
  BY DEF Asked
<1>3. ASSUME NEW q \in Requests \cup {Null}, q # Null /\ q.stage = "asked" => ~q.ok
      PROVE  LET r == Abandoned(t, q) IN r # Null /\ r.stage = "asked" => ~r.ok
  <2>1. CASE q = Null \/ q.tab # t \/ q.op \in Reads
    BY <1>3, <2>1 DEF Abandoned
  <2>2. CASE ~(q = Null \/ q.tab # t \/ q.op \in Reads)
    <3>1. PICK g : g = [q EXCEPT !.live = FALSE]
      OBVIOUS
    <3>2. g.ok = q.ok /\ g.stage = q.stage
      BY <2>2, <3>1 DEF Requests, RequestsOf, ListRequests, LoadRequests, TableRequests, RowRequests,
                        SaveRequests, RemoveRequests
    <3>3. Abandoned(t, q) = g
      BY <2>2, <3>1 DEF Abandoned
    <3> QED BY <1>3, <2>2, <3>2, <3>3
  <2> QED BY <2>1, <2>2
<1>4. \A d \in Connections : conn[d] \in Requests \cup {Null}
  BY DEF DashInv, DashType
<1>5. ASSUME NEW d \in Connections, conn'[d] # Null, conn'[d].stage = "asked"
      PROVE  ~conn'[d].ok
  <2>1. CASE d = c
    BY <1>1, <1>2, <2>1
  <2>2. CASE d # c
    BY <1>1, <1>3, <1>4, <1>5, <2>2 DEF Unanswered
  <2> QED BY <2>1, <2>2
<1> QED BY <1>5 DEF Unanswered

LEMMA UnansweredUse ==
  ASSUME DashInv, Unanswered, NEW t \in Tabs, Use(t)
  PROVE  Unanswered'
<1>1. ASSUME NEW c \in Connections, Navigate(t, c) \/ \E i \in Ids : OpenRecord(t, c, i)
      PROVE  Unanswered'
  BY <1>1, UnansweredVisit DEF Navigate, OpenRecord, VisitList, VisitRecord, VisitSettings
<1>2. ASSUME NEW c \in Connections,
             \/ \E f \in Filters : ChooseFilter(t, c, f)
             \/ \E n \in 1 .. MaxRuns : Turn(t, c, n)
      PROVE  Unanswered'
  BY <1>2, ListActions, UnansweredAsk DEF AsksFor, Send
<1>3. ASSUME NEW c \in Connections,
             \/ ClickResend(t, c) \/ ClickDelete(t, c) \/ ClickSave(t, c)
             \/ \E f \in Flows : ClickRemove(t, c, f)
      PROVE  Unanswered'
  BY <1>3, UnansweredAsk DEF ClickResend, ClickDelete, ClickSave, ClickRemove, Send
<1>4. ASSUME \/ \E f \in Flows : StartEdit(t, f)
             \/ \E f \in Flows : TypeName(t, f)
             \/ \E e \in Edits : Type(t, e)
             \/ StartNew(t) \/ Cancel(t)
      PROVE  Unanswered'
  BY <1>4, FormActions DEF Unanswered
<1> QED BY <1>1, <1>2, <1>3, <1>4 DEF Use

LEMMA UnansweredGoes ==
  ASSUME DashInv, Unanswered, NEW c \in Connections, Goes(c) \/ Lose(c)
  PROVE  Unanswered'
<1>1. CASE ListItems(c)
  <2>1. PICK r \in ListRequests : r = conn[c]
    BY <1>1, Request, RequestKinds DEF ListItems, Serving
  <2>2. PICK a : conn' = [conn EXCEPT ![c].stage = "items", ![c].answer = a]
    BY <1>1 DEF ListItems
  <2>3. PICK g : g = [r EXCEPT !.stage = "items", !.answer = a]
    OBVIOUS
  <2>4. conn' = [conn EXCEPT ![c] = g] /\ g.stage = "items"
    BY <1>1, <2>1, <2>2, <2>3 DEF ListItems, ListRequests, RequestsOf, DashInv, DashType
  <2> QED BY <2>4, UnansweredOne
<1>2. CASE (RecordsServed(c) /\ ~ListItems(c)) \/ SettingsServed(c) \/ Lose(c)
  BY <1>2, Answers, UnansweredAnswer DEF RecordsServed
<1>3. CASE RecordsAnswered(c) \/ SettingsAnswered(c)
  <2>1. \/ conn' = [conn EXCEPT ![c] = Null]
        \/ \E op, a : conn' = [conn EXCEPT ![c] = Asked(op, conn[c].tab, a)]
        \/ VisitList(conn[c].tab, c) /\ conn[c] # Null
    BY <1>3 DEF RecordsAnswered, ListArrives, LoadArrives, ResendArrives, DeleteArrives,
                SettingsAnswered, ConfigsArrive, SaveArrives, RemoveArrives, Settle, Arrived
  <2> QED BY <2>1, Request, UnansweredOne, UnansweredAsk, UnansweredVisit DEF VisitList
<1> QED BY <1>1, <1>2, <1>3 DEF Goes

LEMMA UnansweredKept == DashInv /\ Unanswered /\ [Next]_vars => Unanswered'
<1> SUFFICES ASSUME DashInv, Unanswered, [Next]_vars
             PROVE  Unanswered'
  OBVIOUS
<1>1. ASSUME UNCHANGED conn
      PROVE  Unanswered'
  BY <1>1 DEF Unanswered
<1> QED BY <1>1, UnansweredUse, UnansweredGoes DEF Next, Quiescent, Arrives, Progresses, vars

----------------------------------------------------------------------------
(* The step.                                                               *)

\* What a save that is accepted does to the settings of its flow.
LEMMA SaveWrites ==
  ASSUME DashInv, NEW c \in Connections, ServeSave(c), ~UNCHANGED configs, ~conn[c].arg.creates,
         NEW k \in Fields, LET a == conn[c].arg IN
           a.body[k] = Payload(ToForm(a.base))[k] /\ a.base[k] = configs[a.flow][k]
  PROVE  configs'[conn[c].arg.flow][k] = configs[conn[c].arg.flow][k]
<1>1. PICK r \in SaveRequests : r = conn[c] /\ Based(r)
  BY Request, RequestKinds DEF ServeSave, Serving, Fitting
<1>2. PICK a \in Saves : a = r.arg
  BY <1>1 DEF SaveRequests, RequestsOf
<1>3. a.flow \in Flows /\ a.body \in Bodies /\ a.base \in SettingsRows
  BY <1>1, <1>2 DEF Saves, Based, SaveRequests, RequestsOf
<1>4. PICK old : old = configs[a.flow]
  OBVIOUS
<1>5. old # Null /\ configs' = [configs EXCEPT ![a.flow] = Written(old, a.body)]
  BY <1>1, <1>2, <1>4 DEF ServeSave
<1>6. old \in SettingsRows
  BY <1>3, <1>4, <1>5 DEF DashInv, DashType, Tables
<1>7. configs'[a.flow] = Written(old, a.body)
  BY <1>3, <1>5 DEF DashInv, DashType, Tables
<1>8. Written(old, a.body)[k] = old[k]
  BY <1>1, <1>2, <1>3, <1>4, <1>6, RoundTrip
<1> QED BY <1>1, <1>2, <1>4, <1>7, <1>8

\* Nothing else writes settings and leaves a save answered well that was not.
LEMMA SavedByServing ==
  ASSUME DashInv, Unanswered, [Next]_vars, NEW c \in Connections, Saved(c)
  PROVE  ServeSave(c) \/ UNCHANGED configs
<1> SUFFICES ASSUME ~UNCHANGED configs
             PROVE  ServeSave(c)
  OBVIOUS
<1>1. PICK d \in Connections : ServeSave(d) \/ ServeRemove(d)
  <2>1. ASSUME NEW t \in Tabs
        PROVE  ~Use(t)
    <3>1. ~StartNew(t) /\ ~Cancel(t) /\ (\A e \in Edits : ~Type(t, e))
          /\ (\A f \in Flows : ~StartEdit(t, f) /\ ~TypeName(t, f))
      BY DEF StartEdit, TypeName, Type, StartNew, Cancel, db
    <3>2. ASSUME NEW d \in Connections
          PROVE  /\ ~Navigate(t, d) /\ ~ClickResend(t, d) /\ ~ClickDelete(t, d) /\ ~ClickSave(t, d)
                 /\ \A f \in Filters : ~ChooseFilter(t, d, f)
                 /\ \A p \in 1 .. MaxRuns : ~Turn(t, d, p)
                 /\ \A i \in Ids : ~OpenRecord(t, d, i)
                 /\ \A f \in Flows : ~ClickRemove(t, d, f)
      BY DEF Navigate, ClickResend, ClickDelete, ClickSave, ChooseFilter, Turn, OpenRecord,
             ClickRemove, db
    <3> QED BY <3>1, <3>2 DEF Use
  <2>2. \A d \in Connections : ~RecordsServed(d) /\ ~Lose(d) /\ ~ServeConfigs(d)
    BY DEF RecordsServed, ListItems, ListTotal, ServeLoad, ServeResend, ServeDelete, Lose,
           ServeConfigs, db
  <2>3. \A d \in Connections : ~RecordsAnswered(d) /\ ~SettingsAnswered(d)
    BY DEF RecordsAnswered, ListArrives, LoadArrives, ResendArrives, DeleteArrives,
           SettingsAnswered, ConfigsArrive, SaveArrives, RemoveArrives, db
  <2>4. \A i \in Ids : (\A r \in NewRows : ~Arrives(i, r)) /\ (\A st \in Statuses : ~Progresses(i, st))
    BY DEF Arrives, Progresses
  <2> QED BY <2>1, <2>2, <2>3, <2>4 DEF Next, Goes, SettingsServed, Quiescent, vars
<1>2. conn[c] # Null /\ conn[c].op = "save" /\ conn[c].stage = "asked" /\ conn'[c].ok
  BY DEF Saved, Serving
<1>3. ~conn[c].ok
  BY <1>2 DEF Unanswered
<1>4. \A e \in Connections : e # d => conn'[e] = conn[e]
  <2>1. \E ok \in BOOLEAN : \E a : Answer(d, ok, a)
    BY <1>1, Answers DEF SettingsServed
  <2> QED BY <2>1 DEF Answer, DashInv, DashType
<1>5. d = c
  BY <1>2, <1>3, <1>4
<1> QED BY <1>1, <1>2, <1>5 DEF ServeRemove, Serving

\* A save changes what its form was changed in, or what somebody else changed since
\* the form was filled: the rest goes through form, payload, DTO and
\* normalizeEmptyStrings unharmed, whatever the flow's settings hold.
THEOREM SavesKeep == Spec => SaveKeepsUntouched
<1>1. Init => Unanswered
  BY DEF Init, Unanswered
<1>2. DashInv /\ Unanswered /\ [Next]_vars => Unanswered'
  BY UnansweredKept
<1>3. DashInv /\ Unanswered /\ [Next]_vars =>
        [\A c \in Connections : Saved(c) =>
           LET a == conn[c].arg IN
           a.creates \/ \A k \in Fields :
             \/ configs'[a.flow][k] = configs[a.flow][k]
             \/ a.body[k] # Payload(ToForm(a.base))[k]
             \/ a.base[k] # configs[a.flow][k]]_vars
  <2> SUFFICES ASSUME DashInv, Unanswered, [Next]_vars, NEW c \in Connections, Saved(c),
                      ~conn[c].arg.creates, NEW k \in Fields,
                      LET a == conn[c].arg IN
                        a.body[k] = Payload(ToForm(a.base))[k] /\ a.base[k] = configs[a.flow][k]
               PROVE  configs'[conn[c].arg.flow][k] = configs[conn[c].arg.flow][k]
    OBVIOUS
  <2>1. CASE UNCHANGED configs
    BY <2>1
  <2>2. CASE ~UNCHANGED configs
    BY <2>2, SavedByServing, SaveWrites
  <2> QED BY <2>1, <2>2
<1> QED BY <1>1, <1>2, <1>3, DashboardInvariance, PTL DEF Spec, SaveKeepsUntouched

=============================================================================
