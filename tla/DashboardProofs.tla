--------------------------- MODULE DashboardProofs ---------------------------
(***************************************************************************)
(* The dashboard, for any number of tabs, requests in flight, records and  *)
(* flows: types, and what the pages say of what is under way and of what   *)
(* is gone.                                                                *)
(***************************************************************************)
EXTENDS Dashboard, FiniteSetTheorems, TLAPS

----------------------------------------------------------------------------
(* Types as sets.                                                          *)

Values == UNION {StoredIn(k) \cup TypedIn(k) \cup {Absent} : k \in Fields}
SettingsRows == {c \in [Fields -> Values] : \A k \in Fields : c[k] \in StoredIn(k)}
Forms  == {c \in [Fields -> Values] : \A k \in Fields : c[k] \in TypedIn(k)}
Bodies == {c \in [Fields -> Values] : \A k \in Fields :
             c[k] \in TypedIn(k) \/ (k \in OptionalNumbers /\ c[k] = Absent)}
Tables == [Flows -> SettingsRows \cup {Null}]

Questions == [filter : Filters, pageNo : Nat \ {0}]

ListPages == [page : {"list"}, filter : Filters, pageNo : Nat \ {0}, data : Listing \cup {Null},
              error : BOOLEAN, loading : BOOLEAN, due : SUBSET Ids, since : Nat,
              seen : SUBSET Ids, overlapped : BOOLEAN]
RecordPages == [page : {"record"}, id : Ids, shown : Row \cup {Null}, error : BOOLEAN,
                resending : BOOLEAN, deleting : BOOLEAN]
SettingsPages == [page : {"settings"}, table : Tables, error : BOOLEAN,
                  editing : Flows \cup {Null, "new"}, name : Flows, form : Forms,
                  base : SettingsRows \cup {Null}]
Pages == ListPages \cup RecordPages \cup SettingsPages \cup {ClosedPage}

RequestsOf(ops, args, answers) ==
  [op : ops, tab : Tabs, live : BOOLEAN, stage : {"asked", "items", "answered"},
   ok : BOOLEAN, arg : args, answer : answers \cup {Null}]
ListRequests   == RequestsOf({"list"}, Questions, Listing)
LoadRequests   == RequestsOf({"load"}, Ids, Row)
TableRequests  == RequestsOf({"configs"}, {Null}, Tables)
RowRequests    == RequestsOf({"resend", "delete"}, Ids, {})
Saves == [creates : BOOLEAN, flow : Flows, body : Bodies, base : SettingsRows \cup {Null}]
SaveRequests   == RequestsOf({"save"}, Saves, {})
RemoveRequests == RequestsOf({"remove"}, Flows, {})
Requests == ListRequests \cup LoadRequests \cup TableRequests \cup RowRequests
              \cup SaveRequests \cup RemoveRequests

\* The page a request comes from.
PageOfOp(op) == IF op = "list" THEN "list"
                ELSE IF op \in {"load", "resend", "delete"} THEN "record" ELSE "settings"

\* An answer is there, and so is the page it is for.
Answered(r) ==
  /\ r.stage = "items" => r.op = "list"
  /\ r.op = "list" /\ (r.stage = "items" \/ r.ok) => r.answer \in Listing
  /\ r.op = "load" /\ r.ok => r.answer \in Row
  /\ r.op = "configs" /\ r.ok => r.answer \in Tables
Placed(r) == r.live \/ r.op \in Reads => tab[r.tab].page = PageOfOp(r.op)

\* A form that does not create was filled from settings.
Filled(p) == p.page = "settings" /\ p.editing \notin {Null, "new"} => p.base \in SettingsRows
Based(r)  == r.op = "save" /\ ~r.arg.creates => r.arg.base \in SettingsRows

DashType ==
  /\ runs \in [Ids -> Row \cup {NoRow, Deleted}]
  /\ configs \in Tables
  /\ tab \in [Tabs -> Pages]
  /\ conn \in [Connections -> Requests \cup {Null}]
  /\ gone \in [Tabs -> SUBSET Ids]
  /\ departures \in Nat
  /\ left \in [Inputs -> Nat]

RequestsFit == \A c \in Connections :
  conn[c] # Null => Answered(conn[c]) /\ Placed(conn[c]) /\ Based(conn[c])
PagesFit == \A t \in Tabs : Filled(tab[t])

DashInv == DashType /\ RequestsFit /\ PagesFit

----------------------------------------------------------------------------
(* Kinds of pages and of requests.                                         *)

\* A page is of the kind it says.
LEMMA PageKinds ==
  ASSUME NEW p \in Pages
  PROVE  /\ p.page = "list" => p \in ListPages
         /\ p.page = "record" => p \in RecordPages
         /\ p.page = "settings" => p \in SettingsPages
BY DEF Pages, ListPages, RecordPages, SettingsPages, ClosedPage

\* A request is of the kind of its operation.
LEMMA RequestKinds ==
  ASSUME NEW r \in Requests
  PROVE  /\ r.op = "list" => r \in ListRequests
         /\ r.op = "load" => r \in LoadRequests
         /\ r.op = "configs" => r \in TableRequests
         /\ r.op \in {"resend", "delete"} => r \in RowRequests
         /\ r.op = "save" => r \in SaveRequests
         /\ r.op = "remove" => r \in RemoveRequests
         /\ r.tab \in Tabs
BY DEF Requests, RequestsOf, ListRequests, LoadRequests, TableRequests, RowRequests, SaveRequests,
       RemoveRequests

----------------------------------------------------------------------------
(* How a step moves requests and pages.                                    *)

SamePages == \A t \in Tabs : tab'[t].page = tab[t].page
Fitting(r) == Answered(r) /\ Based(r)
ConnKept == conn' \in [Connections -> Requests \cup {Null}] /\ RequestsFit'
TabKept  == tab' \in [Tabs -> Pages] /\ PagesFit'

\* What the tables, counts and inputs hold.
RestType ==
  /\ runs \in [Ids -> Row \cup {NoRow, Deleted}]
  /\ configs \in Tables
  /\ gone \in [Tabs -> SUBSET Ids]
  /\ departures \in Nat
  /\ left \in [Inputs -> Nat]

\* The invariant, part by part.
LEMMA Parts ==
  ASSUME RestType', ConnKept, TabKept
  PROVE  DashInv'
BY DEF RestType, ConnKept, TabKept, DashInv, DashType

\* No page is left.
LEMMA OneRequest ==
  ASSUME DashInv, NEW c \in Connections, NEW r \in Requests \cup {Null},
         conn' = [conn EXCEPT ![c] = r], SamePages,
         r # Null => Fitting(r) /\ (r.live \/ r.op \in Reads => tab[r.tab].page = PageOfOp(r.op))
  PROVE  ConnKept
<1>1. conn \in [Connections -> Requests \cup {Null}]
  BY DEF DashInv, DashType
<1>2. conn' \in [Connections -> Requests \cup {Null}] /\ conn'[c] = r
      /\ \A d \in Connections : d # c => conn'[d] = conn[d]
  BY <1>1
<1>3. ASSUME NEW d \in Connections, conn'[d] # Null
      PROVE  Answered(conn'[d]) /\ Based(conn'[d])
             /\ (conn'[d].live \/ conn'[d].op \in Reads => tab'[conn'[d].tab].page = PageOfOp(conn'[d].op))
  <2>1. conn'[d].tab \in Tabs
    BY <1>2, <1>3, RequestKinds
  <2>2. CASE d = c
    BY <1>2, <1>3, <2>1, <2>2 DEF Fitting, SamePages
  <2>3. CASE d # c
    BY <1>2, <1>3, <2>1, <2>3 DEF DashInv, RequestsFit, Placed, SamePages
  <2> QED BY <2>2, <2>3
<1>4. RequestsFit'
  BY <1>3 DEF RequestsFit, Answered, Based, Placed
<1> QED BY <1>2, <1>4 DEF ConnKept

\* Nor is there news for any.
LEMMA NoRequest ==
  ASSUME DashInv, UNCHANGED conn, SamePages
  PROVE  ConnKept
<1>1. conn \in [Connections -> Requests \cup {Null}]
  BY DEF DashInv, DashType
<1>2. ASSUME NEW d \in Connections, conn[d] # Null
      PROVE  Answered(conn[d]) /\ Based(conn[d])
             /\ (conn[d].live \/ conn[d].op \in Reads => tab'[conn[d].tab].page = PageOfOp(conn[d].op))
  <2>1. conn[d].tab \in Tabs
    BY <1>1, <1>2, RequestKinds
  <2> QED BY <1>2, <2>1 DEF DashInv, RequestsFit, Placed, SamePages
<1> QED BY <1>1, <1>2 DEF ConnKept, RequestsFit, Answered, Based, Placed

\* A page has changed.
LEMMA OnePage ==
  ASSUME DashInv, NEW t \in Tabs, NEW p \in Pages, tab' = [tab EXCEPT ![t] = p],
         p.page = tab[t].page, Filled(p)
  PROVE  TabKept /\ SamePages
<1>1. tab \in [Tabs -> Pages]
  BY DEF DashInv, DashType
<1>2. tab' \in [Tabs -> Pages] /\ tab'[t] = p /\ \A u \in Tabs : u # t => tab'[u] = tab[u]
  BY <1>1
<1>3. \A u \in Tabs : Filled(tab'[u])
  BY <1>2 DEF DashInv, PagesFit
<1> QED BY <1>2, <1>3 DEF TabKept, SamePages, PagesFit, Filled

\* None has.
LEMMA NoPage ==
  ASSUME DashInv, UNCHANGED tab
  PROVE  TabKept /\ SamePages
BY DEF DashInv, DashType, TabKept, SamePages, PagesFit, Filled

\* A page is left for another.
LEMMA VisitKeeps ==
  ASSUME DashInv, NEW t \in Tabs, NEW c \in Connections, NEW p \in Pages, NEW r \in Requests,
         Visit(t, c, p, r), r.tab = t, Fitting(r), p.page = PageOfOp(r.op), Filled(p)
  PROVE  ConnKept /\ TabKept
<1>1. conn \in [Connections -> Requests \cup {Null}] /\ tab \in [Tabs -> Pages]
  BY DEF DashInv, DashType
<1>2. tab' \in [Tabs -> Pages] /\ tab'[t] = p /\ \A u \in Tabs : u # t => tab'[u] = tab[u]
  BY <1>1 DEF Visit
<1>3. TabKept
  <2>1. \A u \in Tabs : Filled(tab'[u])
    BY <1>2 DEF DashInv, PagesFit
  <2> QED BY <1>2, <2>1 DEF TabKept, PagesFit, Filled
<1>4. ASSUME NEW d \in Connections
      PROVE  /\ conn'[d] \in Requests \cup {Null}
             /\ conn'[d] # Null => Answered(conn'[d]) /\ Based(conn'[d])
                  /\ (conn'[d].live \/ conn'[d].op \in Reads =>
                        tab'[conn'[d].tab].page = PageOfOp(conn'[d].op))
  <2>1. conn'[d] = IF d = c THEN r ELSE Abandoned(t, conn[d])
    BY DEF Visit
  <2>2. CASE d = c
    BY <1>2, <2>1, <2>2 DEF Fitting
  <2>3. CASE d # c /\ (conn[d] = Null \/ conn[d].tab # t)
    <3>1. conn'[d] = conn[d]
      BY <2>1, <2>3 DEF Abandoned
    <3>2. conn[d] # Null => conn[d].tab \in Tabs /\ conn[d].tab # t
      BY <1>1, <2>3, RequestKinds
    <3> QED BY <1>1, <1>2, <3>1, <3>2 DEF DashInv, RequestsFit, Placed
  <2>4. CASE d # c /\ conn[d] # Null /\ conn[d].tab = t
    <3>1. CASE conn[d].op \in Reads
      BY <2>1, <2>4, <3>1 DEF Abandoned
    <3>2. CASE conn[d].op \notin Reads
      <4>1. PICK q \in Requests : q = conn[d] /\ Answered(q) /\ Based(q)
        BY <1>1, <2>4 DEF DashInv, RequestsFit
      <4>2. PICK g : g = [q EXCEPT !.live = FALSE]
        OBVIOUS
      <4>3. /\ g \in Requests /\ ~g.live /\ g.op = q.op /\ g.arg = q.arg
            /\ g.stage = q.stage /\ g.ok = q.ok /\ g.answer = q.answer
        BY <4>2 DEF Requests, RequestsOf, ListRequests, LoadRequests, TableRequests, RowRequests,
                    SaveRequests, RemoveRequests
      <4>4. conn'[d] = g
        BY <2>1, <2>4, <3>2, <4>1, <4>2 DEF Abandoned
      <4> QED BY <3>2, <4>1, <4>3, <4>4 DEF Answered, Based
    <3> QED BY <3>1, <3>2
  <2> QED BY <2>2, <2>3, <2>4
<1>5. conn' = [d \in Connections |-> conn'[d]]
  BY DEF Visit
<1>6. conn' \in [Connections -> Requests \cup {Null}]
  BY <1>4, <1>5
<1>7. RequestsFit'
  BY <1>4 DEF RequestsFit, Answered, Based, Placed
<1> QED BY <1>3, <1>6, <1>7 DEF ConnKept

\* An input is spent.
LEMMA SpendLeft ==
  ASSUME DashInv, NEW x, Spend(x)
  PROVE  left' \in [Inputs -> Nat]
<1>1. left \in [Inputs -> Nat] /\ left' = [left EXCEPT ![x] = left[x] - 1] /\ left[x] > 0
  BY DEF Spend, DashInv, DashType
<1>2. CASE x \in Inputs
  BY <1>1, <1>2
<1>3. CASE x \notin Inputs
  BY <1>1, <1>3
<1> QED BY <1>2, <1>3

\* What an operation may be answered with.
Admits(r, ok, a) ==
  \/ a = Null /\ (~ok \/ r.op \in Writes)
  \/ ok /\ r.op = "list" /\ a \in Listing
  \/ ok /\ r.op = "load" /\ a \in Row
  \/ ok /\ r.op = "configs" /\ a \in Tables

\* An answer has come.
LEMMA AnswerKeeps ==
  ASSUME DashInv, NEW c \in Connections, conn[c] # Null, NEW ok \in BOOLEAN, NEW a,
         Admits(conn[c], ok, a), Answer(c, ok, a), UNCHANGED tab
  PROVE  ConnKept /\ TabKept
<1>1. PICK r \in Requests : r = conn[c] /\ Answered(r) /\ Based(r)
                            /\ (r.live \/ r.op \in Reads => tab[r.tab].page = PageOfOp(r.op))
  BY DEF DashInv, DashType, RequestsFit, Placed
<1>2. PICK g : g = [r EXCEPT !.stage = "answered", !.ok = ok, !.answer = a]
  OBVIOUS
<1>3. conn' = [conn EXCEPT ![c] = g]
  BY <1>1, <1>2 DEF Answer, DashInv, DashType
<1>4. Admits(r, ok, a)
  BY <1>1
<1>5. /\ g \in Requests /\ g.op = r.op /\ g.tab = r.tab /\ g.live = r.live /\ g.arg = r.arg
      /\ g.stage = "answered" /\ g.ok = ok /\ g.answer = a
  <2>1. CASE r.op = "list"
    <3>1. r \in RequestsOf({"list"}, Questions, Listing)
      BY <2>1, RequestKinds DEF ListRequests
    <3>2. a \in Listing \cup {Null}
      BY <1>4, <2>1 DEF Admits
    <3>3. g \in RequestsOf({"list"}, Questions, Listing)
      BY <1>2, <3>1, <3>2 DEF RequestsOf
    <3>4. g \in Requests
      BY <3>3 DEF Requests, ListRequests
    <3> QED BY <1>2, <3>1, <3>2, <3>4 DEF RequestsOf
  <2>2. CASE r.op = "load"
    <3>1. r \in RequestsOf({"load"}, Ids, Row)
      BY <2>2, RequestKinds DEF LoadRequests
    <3>2. a \in Row \cup {Null}
      BY <1>4, <2>2 DEF Admits
    <3>3. g \in RequestsOf({"load"}, Ids, Row)
      BY <1>2, <3>1, <3>2 DEF RequestsOf
    <3>4. g \in Requests
      BY <3>3 DEF Requests, LoadRequests
    <3> QED BY <1>2, <3>1, <3>2, <3>4 DEF RequestsOf
  <2>3. CASE r.op = "configs"
    <3>1. r \in RequestsOf({"configs"}, {Null}, Tables)
      BY <2>3, RequestKinds DEF TableRequests
    <3>2. a \in Tables \cup {Null}
      BY <1>4, <2>3 DEF Admits
    <3>3. g \in RequestsOf({"configs"}, {Null}, Tables)
      BY <1>2, <3>1, <3>2 DEF RequestsOf
    <3>4. g \in Requests
      BY <3>3 DEF Requests, TableRequests
    <3> QED BY <1>2, <3>1, <3>2, <3>4 DEF RequestsOf
  <2>4. CASE r.op \in {"resend", "delete"}
    <3>1. r \in RequestsOf({"resend", "delete"}, Ids, {})
      BY <2>4, RequestKinds DEF RowRequests
    <3>2. a \in {} \cup {Null}
      BY <1>4, <2>4 DEF Admits
    <3>3. g \in RequestsOf({"resend", "delete"}, Ids, {})
      BY <1>2, <3>1, <3>2 DEF RequestsOf
    <3>4. g \in Requests
      BY <3>3 DEF Requests, RowRequests
    <3> QED BY <1>2, <3>1, <3>2, <3>4 DEF RequestsOf
  <2>5. CASE r.op = "save"
    <3>1. r \in RequestsOf({"save"}, Saves, {})
      BY <2>5, RequestKinds DEF SaveRequests
    <3>2. a \in {} \cup {Null}
      BY <1>4, <2>5 DEF Admits
    <3>3. g \in RequestsOf({"save"}, Saves, {})
      BY <1>2, <3>1, <3>2 DEF RequestsOf
    <3>4. g \in Requests
      BY <3>3 DEF Requests, SaveRequests
    <3> QED BY <1>2, <3>1, <3>2, <3>4 DEF RequestsOf
  <2>6. CASE r.op = "remove"
    <3>1. r \in RequestsOf({"remove"}, Flows, {})
      BY <2>6, RequestKinds DEF RemoveRequests
    <3>2. a \in {} \cup {Null}
      BY <1>4, <2>6 DEF Admits
    <3>3. g \in RequestsOf({"remove"}, Flows, {})
      BY <1>2, <3>1, <3>2 DEF RequestsOf
    <3>4. g \in Requests
      BY <3>3 DEF Requests, RemoveRequests
    <3> QED BY <1>2, <3>1, <3>2, <3>4 DEF RequestsOf
  <2>7. r.op \in {"list", "load", "configs", "resend", "delete", "save", "remove"}
    BY DEF Requests, RequestsOf, ListRequests, LoadRequests, TableRequests, RowRequests,
           SaveRequests, RemoveRequests
  <2> QED BY <2>1, <2>2, <2>3, <2>4, <2>5, <2>6, <2>7
<1>6. Fitting(g)
  BY <1>1, <1>4, <1>5 DEF Fitting, Answered, Based, Admits, Writes
<1>7. TabKept /\ SamePages
  BY NoPage
<1>8. g # Null => Fitting(g) /\ (g.live \/ g.op \in Reads => tab[g.tab].page = PageOfOp(g.op))
  BY <1>1, <1>5, <1>6
<1> QED BY <1>3, <1>5, <1>7, <1>8, OneRequest

\* A request is over.
LEMMA SettleKeeps ==
  ASSUME DashInv, NEW c \in Connections, Settle(c), SamePages
  PROVE  ConnKept
BY OneRequest DEF Settle

\* A request is sent.
LEMMA SendKeeps ==
  ASSUME DashInv, NEW c \in Connections, NEW r \in Requests, conn' = [conn EXCEPT ![c] = r],
         SamePages, Fitting(r), tab[r.tab].page = PageOfOp(r.op)
  PROVE  ConnKept
BY OneRequest

\* What an operation may be asked.
MayAsk(op, a) ==
  \/ op = "list" /\ a \in Questions
  \/ op = "load" /\ a \in Ids
  \/ op = "configs" /\ a = Null
  \/ op \in {"resend", "delete"} /\ a \in Ids
  \/ op = "save" /\ a \in Saves /\ (~a.creates => a.base \in SettingsRows)
  \/ op = "remove" /\ a \in Flows

\* A request that has just been sent.
LEMMA AskedFits ==
  ASSUME NEW t \in Tabs, NEW op, NEW a, MayAsk(op, a)
  PROVE  /\ Asked(op, t, a) \in Requests /\ Fitting(Asked(op, t, a))
         /\ Asked(op, t, a).tab = t /\ Asked(op, t, a).op = op /\ Asked(op, t, a).arg = a
<1>1. PICK r : r = Asked(op, t, a)
  OBVIOUS
<1>2. r.tab = t /\ r.op = op /\ r.arg = a /\ r.stage = "asked" /\ ~r.ok
  BY <1>1 DEF Asked
<1>3. r \in Requests
  <2>1. CASE op = "list"
    BY <1>1, <2>1 DEF MayAsk, Asked, Requests, ListRequests, RequestsOf
  <2>2. CASE op = "load"
    BY <1>1, <2>2 DEF MayAsk, Asked, Requests, LoadRequests, RequestsOf
  <2>3. CASE op = "configs"
    BY <1>1, <2>3 DEF MayAsk, Asked, Requests, TableRequests, RequestsOf
  <2>4. CASE op \in {"resend", "delete"}
    BY <1>1, <2>4 DEF MayAsk, Asked, Requests, RowRequests, RequestsOf
  <2>5. CASE op = "save"
    BY <1>1, <2>5 DEF MayAsk, Asked, Requests, SaveRequests, RequestsOf
  <2>6. CASE op = "remove"
    BY <1>1, <2>6 DEF MayAsk, Asked, Requests, RemoveRequests, RequestsOf
  <2> QED BY <2>1, <2>2, <2>3, <2>4, <2>5, <2>6 DEF MayAsk
<1>4. Fitting(r)
  BY <1>2 DEF Fitting, Answered, Based, MayAsk
<1> QED BY <1>1, <1>2, <1>3, <1>4

\* A page that stays asks.
LEMMA AskFromPage ==
  ASSUME DashInv, NEW t \in Tabs, NEW c \in Connections, NEW op, NEW a, MayAsk(op, a),
         conn' = [conn EXCEPT ![c] = Asked(op, t, a)], tab[t].page = PageOfOp(op), SamePages
  PROVE  ConnKept
<1>1. PICK r : r = Asked(op, t, a)
  OBVIOUS
<1>2. r \in Requests /\ Fitting(r) /\ r.tab = t /\ r.op = op
  BY <1>1, AskedFits
<1> QED BY <1>1, <1>2, SendKeeps

\* A page that comes asks.
LEMMA VisitAsks ==
  ASSUME DashInv, NEW t \in Tabs, NEW c \in Connections, NEW p \in Pages, NEW op, NEW a,
         MayAsk(op, a), Visit(t, c, p, Asked(op, t, a)), p.page = PageOfOp(op), Filled(p)
  PROVE  ConnKept /\ TabKept
<1>1. PICK r : r = Asked(op, t, a)
  OBVIOUS
<1>2. r \in Requests /\ Fitting(r) /\ r.tab = t /\ r.op = op
  BY <1>1, AskedFits
<1> QED BY <1>1, <1>2, VisitKeeps

\* Whatever is left alone is typed as it was.
LEMMA RestSame ==
  ASSUME DashInv, UNCHANGED <<db, gone>>, left' \in [Inputs -> Nat]
  PROVE  RestType'
BY DEF DashInv, DashType, RestType, db

----------------------------------------------------------------------------
(* The links, and the pages they lead to.                                  *)

\* The list is opened.
LEMMA VisitListKeeps ==
  ASSUME DashInv, NEW t \in Tabs, NEW c \in Connections, VisitList(t, c)
  PROVE  ConnKept /\ TabKept
<1>1. FreshList \in Pages /\ FreshList.page = "list" /\ Filled(FreshList)
  <2>1. Matching(AllRecords) \subseteq Ids
    BY DEF Matching
  <2>2. AllRecords \in Filters
    BY ValuesAssumption
  <2>3. PICK m \in SUBSET Ids, n \in Nat : m = Matching(AllRecords) /\ n = departures
    BY <2>1 DEF DashInv, DashType
  <2>4. PICK p : p = ListPage
    OBVIOUS
  <2>5. p \in ListPages
    BY <2>2, <2>4 DEF ListPage, ListPages
  <2>6. PICK g : g = [p EXCEPT !.due = m, !.since = n]
    OBVIOUS
  <2>7. g \in ListPages /\ g.page = "list"
    BY <2>5, <2>6 DEF ListPages
  <2>8. g = FreshList
    BY <2>3, <2>4, <2>6 DEF FreshList
  <2> QED BY <2>7, <2>8 DEF Pages, Filled
<1>2. MayAsk("list", Question(AllRecords, 1))
  BY ValuesAssumption DEF MayAsk, Question, Questions
<1>3. Visit(t, c, FreshList, Asked("list", t, Question(AllRecords, 1)))
  BY DEF VisitList
<1>4. PageOfOp("list") = "list"
  BY DEF PageOfOp
<1> QED BY <1>1, <1>2, <1>3, <1>4, VisitAsks

\* A record is opened.
LEMMA VisitRecordKeeps ==
  ASSUME DashInv, NEW t \in Tabs, NEW c \in Connections, NEW i \in Ids, VisitRecord(t, c, i)
  PROVE  ConnKept /\ TabKept
<1>1. RecordPage(i) \in Pages /\ RecordPage(i).page = "record" /\ Filled(RecordPage(i))
  BY DEF RecordPage, Pages, RecordPages, Filled
<1>2. MayAsk("load", i) /\ PageOfOp("load") = "record"
  BY DEF MayAsk, PageOfOp
<1>3. Visit(t, c, RecordPage(i), Asked("load", t, i))
  BY DEF VisitRecord
<1> QED BY <1>1, <1>2, <1>3, VisitAsks

\* The form of a new flow is a form.
LEMMA EmptyFormTyped == EmptyForm \in Forms
<1>1. \A k \in Fields : EmptyForm[k] \in TypedIn(k)
  <2> SUFFICES ASSUME NEW k \in Fields
               PROVE  EmptyForm[k] \in TypedIn(k)
    OBVIOUS
  <2>1. 10 \in Numbers /\ 0 \in Numbers /\ {Blank, DefaultTimezone} \subseteq Texts
    BY ValuesAssumption DEF Int4
  <2>2. CASE k \in NumberFields
    BY <2>1, <2>2 DEF EmptyForm, TypedIn, NumberFields
  <2>3. CASE k \in OptionalNumbers
    BY <2>3 DEF EmptyForm, TypedIn, NumberFields, OptionalNumbers
  <2>4. CASE k \in OptionalTexts \cup PlainTexts
    BY <2>1, <2>4 DEF EmptyForm, TypedIn, NumberFields, OptionalNumbers, OptionalTexts, PlainTexts
  <2>5. CASE k = "enabled"
    BY <2>5 DEF EmptyForm, TypedIn, NumberFields, OptionalNumbers, OptionalTexts, PlainTexts
  <2> QED BY <2>2, <2>3, <2>4, <2>5 DEF Fields
<1>2. \A k \in Fields : EmptyForm[k] \in Values
  BY <1>1 DEF Values
<1> QED BY <1>1, <1>2 DEF EmptyForm, Forms

\* The Flow Config page is opened.
LEMMA VisitSettingsKeeps ==
  ASSUME DashInv, NEW t \in Tabs, NEW c \in Connections, VisitSettings(t, c)
  PROVE  ConnKept /\ TabKept
<1>1. /\ SettingsPage \in Pages /\ SettingsPage.page = "settings" /\ Filled(SettingsPage)
  BY ValuesAssumption, EmptyFormTyped DEF SettingsPage, Pages, SettingsPages, Filled, Tables
<1>2. MayAsk("configs", Null) /\ PageOfOp("configs") = "settings"
  BY DEF MayAsk, PageOfOp
<1>3. Visit(t, c, SettingsPage, Asked("configs", t, Null))
  BY DEF VisitSettings
<1> QED BY <1>1, <1>2, <1>3, VisitAsks

\* The links at the top.
LEMMA NavigateKeeps ==
  ASSUME DashInv, NEW t \in Tabs, NEW c \in Connections, Navigate(t, c)
  PROVE  DashInv'
<1>1. RestType'
  BY SpendLeft, RestSame DEF Navigate
<1>2. ConnKept /\ TabKept
  BY VisitListKeeps, VisitSettingsKeeps DEF Navigate
<1> QED BY <1>1, <1>2, Parts

----------------------------------------------------------------------------
(* The list.                                                               *)

\* The boxes and the page number of a list are asked about.
LEMMA AskKeeps ==
  ASSUME DashInv, NEW t \in Tabs, NEW c \in Connections, NEW p \in ListPages,
         tab[t].page = "list", Ask(t, c, p)
  PROVE  ConnKept /\ TabKept
<1>1. PICK b \in BOOLEAN :
        tab' = [tab EXCEPT ![t] = [p EXCEPT !.loading = TRUE, !.error = FALSE,
                                            !.overlapped = p.overlapped \/ b]]
  BY DEF Ask
<1>2. PICK g : g = [p EXCEPT !.loading = TRUE, !.error = FALSE, !.overlapped = p.overlapped \/ b]
  OBVIOUS
<1>3. g \in Pages /\ g.page = "list" /\ Filled(g)
  BY <1>2 DEF ListPages, Pages, Filled
<1>4. TabKept /\ SamePages
  BY <1>1, <1>2, <1>3, OnePage
<1>5. MayAsk("list", Question(p.filter, p.pageNo))
  BY DEF MayAsk, Question, Questions, ListPages
<1>6. conn' = [conn EXCEPT ![c] = Asked("list", t, Question(p.filter, p.pageNo))]
  BY DEF Ask, Send
<1> QED BY <1>4, <1>5, <1>6, AskFromPage DEF PageOfOp

\* A box is set.
LEMMA ChooseFilterKeeps ==
  ASSUME DashInv, NEW t \in Tabs, NEW c \in Connections, NEW f \in Filters, ChooseFilter(t, c, f)
  PROVE  DashInv'
<1>1. RestType'
  BY SpendLeft, RestSame DEF ChooseFilter
<1>2. PICK p \in ListPages : p = tab[t]
  BY PageKinds DEF ChooseFilter, DashInv, DashType
<1>3. PICK g : g = [p EXCEPT !.filter = f, !.pageNo = 1, !.overlapped = FALSE,
                             !.due = Matching(f), !.since = departures, !.seen = {}]
  OBVIOUS
<1>4. g \in ListPages
  <2>1. PICK m \in SUBSET Ids, n \in Nat : m = Matching(f) /\ n = departures
    BY DEF Matching, DashInv, DashType
  <2>2. PICK one \in Nat \ {0} : one = 1
    OBVIOUS
  <2>3. g = [p EXCEPT !.filter = f, !.pageNo = one, !.overlapped = FALSE,
                      !.due = m, !.since = n, !.seen = {}]
    BY <1>3, <2>1, <2>2
  <2> QED BY <2>3 DEF ListPages
<1>5. Ask(t, c, g) /\ tab[t].page = "list"
  BY <1>2, <1>3 DEF ChooseFilter
<1>6. ConnKept /\ TabKept
  BY <1>4, <1>5, AskKeeps
<1> QED BY <1>1, <1>6, Parts

\* The page is turned.
LEMMA TurnKeeps ==
  ASSUME DashInv, NEW t \in Tabs, NEW c \in Connections, NEW n \in Nat, n > 0, Turn(t, c, n)
  PROVE  DashInv'
<1>1. RestType'
  BY SpendLeft, RestSame DEF Turn
<1>2. PICK p \in ListPages : p = tab[t]
  BY PageKinds DEF Turn, ListShown, DashInv, DashType
<1>3. PICK g : g = [p EXCEPT !.pageNo = n]
  OBVIOUS
<1>4. g \in ListPages
  BY <1>3 DEF ListPages
<1>5. Ask(t, c, g) /\ tab[t].page = "list"
  BY <1>2, <1>3 DEF Turn, ListShown
<1>6. ConnKept /\ TabKept
  BY <1>4, <1>5, AskKeeps
<1> QED BY <1>1, <1>6, Parts

\* A request in flight, by its operation.
LEMMA Request ==
  ASSUME DashInv, NEW c \in Connections, conn[c] # Null
  PROVE  /\ conn[c] \in Requests /\ conn[c].tab \in Tabs
         /\ Fitting(conn[c])
         /\ conn[c].live \/ conn[c].op \in Reads => tab[conn[c].tab].page = PageOfOp(conn[c].op)
<1>1. conn[c] \in Requests
  BY DEF DashInv, DashType
<1>2. conn[c].tab \in Tabs
  BY <1>1, RequestKinds
<1> QED BY <1>1, <1>2 DEF DashInv, RequestsFit, Fitting, Placed

\* A list of records and a count of them answer the list.
LEMMA CountsTyped ==
  ASSUME NEW f
  PROVE  Matching(f) \subseteq Ids /\ Cardinality(Matching(f)) \in Nat
<1>1. Matching(f) \subseteq Ids
  BY DEF Matching
<1>2. IsFiniteSet(Ids)
  BY ValuesAssumption, FS_Interval DEF Ids
<1> QED BY <1>1, <1>2, FS_Subset, FS_CardinalityType

\* The first statement of the list query.
LEMMA ListItemsKeeps ==
  ASSUME DashInv, NEW c \in Connections, ListItems(c)
  PROVE  DashInv'
<1>1. RestType'
  BY RestSame DEF ListItems, DashInv, DashType, view
<1>2. PICK r \in ListRequests : r = conn[c] /\ Fitting(r) /\ tab[r.tab].page = "list"
  BY Request, RequestKinds DEF ListItems, Serving, PageOfOp, Reads
<1>3. PICK a : \E P \in PagesOf(Matching(r.arg.filter), r.arg.pageNo) :
        /\ a = [items |-> P, total |-> 0, asked |-> r.arg]
        /\ conn' = [conn EXCEPT ![c].stage = "items", ![c].answer = a]
  BY <1>2 DEF ListItems
<1>4. a \in Listing
  <2>. PICK P \in PagesOf(Matching(r.arg.filter), r.arg.pageNo) :
         a = [items |-> P, total |-> 0, asked |-> r.arg]
    BY <1>3
  <2>1. P \subseteq Ids
    BY CountsTyped DEF PagesOf
  <2>2. r.arg \in Questions
    BY DEF ListRequests, RequestsOf
  <2> QED BY <2>1, <2>2 DEF Listing, Questions
<1>5. PICK g : g = [r EXCEPT !.stage = "items", !.answer = a]
  OBVIOUS
<1>6. g \in ListRequests /\ g.tab = r.tab /\ g.op = "list" /\ g.answer = a
  BY <1>4, <1>5 DEF ListRequests, RequestsOf
<1>7. g \in Requests /\ Fitting(g)
  BY <1>4, <1>6 DEF Requests, Fitting, Answered, Based
<1>8. conn' = [conn EXCEPT ![c] = g]
  BY <1>2, <1>3, <1>5 DEF ListItems, DashInv, DashType
<1>9. TabKept /\ SamePages
  BY NoPage DEF ListItems, view
<1>10. ConnKept
  BY <1>2, <1>6, <1>7, <1>8, <1>9, SendKeeps DEF PageOfOp
<1> QED BY <1>1, <1>9, <1>10, Parts

\* The second statement of the list query.
LEMMA ListTotalKeeps ==
  ASSUME DashInv, NEW c \in Connections, ListTotal(c)
  PROVE  DashInv'
<1>1. RestType'
  BY RestSame DEF ListTotal, DashInv, DashType, view
<1>2. conn[c] # Null /\ conn[c].op = "list" /\ conn[c].answer \in Listing
  BY Request DEF ListTotal, Fitting, Answered
<1>3. PICK a : a = [conn[c].answer EXCEPT !.total = Cardinality(Matching(conn[c].arg.filter))]
  OBVIOUS
<1>4. a \in Listing
  <2>1. PICK n \in Nat : n = Cardinality(Matching(conn[c].arg.filter))
    BY CountsTyped
  <2> QED BY <1>2, <1>3, <2>1 DEF Listing
<1>5. Answer(c, TRUE, a) /\ UNCHANGED tab
  BY <1>3 DEF ListTotal, view
<1>6. ConnKept /\ TabKept
  BY <1>2, <1>4, <1>5, AnswerKeeps DEF Admits
<1> QED BY <1>1, <1>6, Parts

\* The answer to the list, or its error.
LEMMA ListArrivesKeeps ==
  ASSUME DashInv, NEW c \in Connections, ListArrives(c)
  PROVE  DashInv'
<1>1. RestType'
  BY RestSame DEF ListArrives, DashInv, DashType
<1>2. /\ conn[c] # Null /\ conn[c].op = "list"
      /\ conn[c].ok => conn[c].answer \in Listing
      /\ tab[conn[c].tab].page = "list"
  BY Request DEF ListArrives, Arrived, Fitting, Answered, PageOfOp, Reads
<1>3. PICK t \in Tabs : t = conn[c].tab
  BY <1>2, Request
<1>4. PICK p \in ListPages : p = tab[t]
  BY <1>2, <1>3, PageKinds DEF DashInv, DashType
<1>5. PICK a : a = conn[c].answer
  OBVIOUS
<1>6. PICK g : g = IF conn[c].ok THEN [p EXCEPT !.data = a, !.loading = FALSE, !.seen = p.seen \cup a.items]
                   ELSE [p EXCEPT !.error = TRUE, !.loading = FALSE]
  OBVIOUS
<1>7. g \in ListPages /\ g.page = "list"
  <2>1. CASE conn[c].ok
    <3>1. PICK m \in SUBSET Ids : m = p.seen \cup a.items
      BY <1>2, <1>5, <2>1 DEF ListPages, Listing
    <3>2. g = [p EXCEPT !.data = a, !.loading = FALSE, !.seen = m] /\ a \in Listing
      BY <1>2, <1>5, <1>6, <2>1, <3>1
    <3> QED BY <3>2 DEF ListPages
  <2>2. CASE ~conn[c].ok
    BY <1>6, <2>2 DEF ListPages
  <2> QED BY <2>1, <2>2
<1>8. tab' = [tab EXCEPT ![t] = g]
  <2>1. PICK h : h = IF conn[c].ok
                     THEN [tab[conn[c].tab] EXCEPT !.data = conn[c].answer, !.loading = FALSE,
                             !.seen = tab[conn[c].tab].seen \cup conn[c].answer.items]
                     ELSE [tab[conn[c].tab] EXCEPT !.error = TRUE, !.loading = FALSE]
    OBVIOUS
  <2>2. tab' = [tab EXCEPT ![conn[c].tab] = h]
    BY <2>1 DEF ListArrives
  <2>3. h = g
    BY <1>3, <1>4, <1>5, <1>6, <2>1
  <2> QED BY <1>3, <2>2, <2>3
<1>9. TabKept /\ SamePages
  BY <1>2, <1>3, <1>7, <1>8, OnePage DEF Pages, Filled
<1>10. ConnKept
  BY <1>9, SettleKeeps DEF ListArrives
<1> QED BY <1>1, <1>9, <1>10, Parts

----------------------------------------------------------------------------
(* The page of a record.                                                   *)

\* A row of the list is clicked.
LEMMA OpenRecordKeeps ==
  ASSUME DashInv, NEW t \in Tabs, NEW c \in Connections, NEW i \in Ids, OpenRecord(t, c, i)
  PROVE  DashInv'
<1>1. RestType'
  BY SpendLeft, RestSame DEF OpenRecord
<1>2. ConnKept /\ TabKept
  BY VisitRecordKeeps DEF OpenRecord
<1> QED BY <1>1, <1>2, Parts

\* The record is looked up.
LEMMA ServeLoadKeeps ==
  ASSUME DashInv, NEW c \in Connections, ServeLoad(c)
  PROVE  DashInv'
<1>1. RestType'
  BY RestSame DEF ServeLoad, DashInv, DashType, view
<1>2. PICK i \in Ids : i = conn[c].arg
  BY Request, RequestKinds DEF ServeLoad, Serving, LoadRequests, RequestsOf
<1>3. conn[c] # Null /\ conn[c].op = "load" /\ UNCHANGED tab
  BY DEF ServeLoad, Serving, view
<1>4. ASSUME Exists(i) PROVE ConnKept /\ TabKept
  <2>1. Answer(c, TRUE, runs[i])
    <3>1. Exists(i) = TRUE
      BY <1>4 DEF Exists
    <3> QED BY <1>2, <3>1 DEF ServeLoad
  <2>2. runs[i] \in Row
    BY <1>4, ValuesAssumption DEF Exists, DashInv, DashType, NoRow, Deleted
  <2> QED BY <1>3, <2>1, <2>2, AnswerKeeps DEF Admits
<1>5. ASSUME ~Exists(i) PROVE ConnKept /\ TabKept
  <2>1. Answer(c, FALSE, Null)
    <3>1. Exists(i) = FALSE
      BY <1>5 DEF Exists
    <3> QED BY <1>2, <3>1 DEF ServeLoad
  <2> QED BY <1>3, <2>1, AnswerKeeps DEF Admits
<1>6. ConnKept /\ TabKept
  BY <1>4, <1>5
<1> QED BY <1>1, <1>6, Parts

\* The record, or an error.
LEMMA LoadArrivesKeeps ==
  ASSUME DashInv, NEW c \in Connections, LoadArrives(c)
  PROVE  DashInv'
<1>1. RestType'
  BY RestSame DEF LoadArrives, DashInv, DashType
<1>2. /\ conn[c] # Null /\ conn[c].op = "load"
      /\ conn[c].ok => conn[c].answer \in Row
      /\ tab[conn[c].tab].page = "record"
  BY Request DEF LoadArrives, Arrived, Fitting, Answered, PageOfOp, Reads
<1>3. PICK t \in Tabs : t = conn[c].tab
  BY <1>2, Request
<1>4. PICK p \in RecordPages : p = tab[t]
  BY <1>2, <1>3, PageKinds DEF DashInv, DashType
<1>5. PICK g : g = IF conn[c].ok THEN [p EXCEPT !.shown = conn[c].answer] ELSE [p EXCEPT !.error = TRUE]
  OBVIOUS
<1>6. g \in RecordPages /\ g.page = "record"
  BY <1>2, <1>5 DEF RecordPages
<1>7. tab' = [tab EXCEPT ![t] = g]
  BY <1>3, <1>4, <1>5 DEF LoadArrives
<1>8. TabKept /\ SamePages
  BY <1>2, <1>3, <1>6, <1>7, OnePage DEF Pages, Filled
<1>9. ConnKept
  BY <1>8, SettleKeeps DEF LoadArrives
<1> QED BY <1>1, <1>8, <1>9, Parts

\* A button of the record's page.
LEMMA ClickKeeps ==
  ASSUME DashInv, NEW t \in Tabs, NEW c \in Connections, tab[t].page = "record",
         NEW op \in {"resend", "delete"}, Send(c, Asked(op, t, tab[t].id)),
         NEW g \in RecordPages, tab' = [tab EXCEPT ![t] = g]
  PROVE  ConnKept /\ TabKept
<1>1. g \in Pages /\ g.page = "record" /\ Filled(g)
  BY DEF Pages, RecordPages, Filled
<1>2. TabKept /\ SamePages
  BY <1>1, OnePage
<1>3. tab[t].id \in Ids
  BY PageKinds DEF DashInv, DashType, RecordPages
<1>4. MayAsk(op, tab[t].id) /\ PageOfOp(op) = "record"
  BY <1>3 DEF MayAsk, PageOfOp
<1>5. ConnKept
  BY <1>2, <1>4, AskFromPage DEF Send
<1> QED BY <1>2, <1>5

\* Resend.
LEMMA ClickResendKeeps ==
  ASSUME DashInv, NEW t \in Tabs, NEW c \in Connections, ClickResend(t, c)
  PROVE  DashInv'
<1>1. RestType'
  BY SpendLeft, RestSame DEF ClickResend
<1>2. PICK p \in RecordPages : p = tab[t] /\ tab[t].page = "record"
  BY PageKinds DEF ClickResend, RecordShown, DashInv, DashType
<1>3. PICK g : g = [p EXCEPT !.resending = TRUE, !.error = FALSE]
  OBVIOUS
<1>4. g \in RecordPages
  BY <1>3 DEF RecordPages
<1>5. tab' = [tab EXCEPT ![t] = g]
  BY <1>2, <1>3 DEF ClickResend, DashInv, DashType
<1>6. ConnKept /\ TabKept
  BY <1>2, <1>4, <1>5, ClickKeeps DEF ClickResend
<1> QED BY <1>1, <1>6, Parts

\* Delete.
LEMMA ClickDeleteKeeps ==
  ASSUME DashInv, NEW t \in Tabs, NEW c \in Connections, ClickDelete(t, c)
  PROVE  DashInv'
<1>1. RestType'
  BY SpendLeft, RestSame DEF ClickDelete
<1>2. PICK p \in RecordPages : p = tab[t] /\ tab[t].page = "record"
  BY PageKinds DEF ClickDelete, RecordShown, DashInv, DashType
<1>3. PICK g : g = [p EXCEPT !.deleting = TRUE, !.error = FALSE]
  OBVIOUS
<1>4. g \in RecordPages
  BY <1>3 DEF RecordPages
<1>5. tab' = [tab EXCEPT ![t] = g]
  BY <1>2, <1>3 DEF ClickDelete, DashInv, DashType
<1>6. ConnKept /\ TabKept
  BY <1>2, <1>4, <1>5, ClickKeeps DEF ClickDelete
<1> QED BY <1>1, <1>6, Parts

\* A record that is there is a row.
LEMMA RowTyped ==
  ASSUME DashInv, NEW i \in Ids, Exists(i)
  PROVE  runs[i] \in Row
BY ValuesAssumption DEF Exists, DashInv, DashType, NoRow, Deleted

\* A row is written.
LEMMA RowWritten ==
  ASSUME DashInv, NEW i \in Ids, NEW r \in Row \cup {NoRow, Deleted}, runs' = [runs EXCEPT ![i] = r],
         UNCHANGED <<configs, gone>>, departures' \in Nat, left' \in [Inputs -> Nat]
  PROVE  RestType'
BY DEF DashInv, DashType, RestType

\* Resend, in the service.
LEMMA ServeResendKeeps ==
  ASSUME DashInv, NEW c \in Connections, ServeResend(c)
  PROVE  DashInv'
<1>1. PICK i \in Ids : i = conn[c].arg
  BY Request, RequestKinds DEF ServeResend, Serving, RowRequests, RequestsOf
<1>2. /\ conn[c] # Null /\ conn[c].op = "resend" /\ UNCHANGED <<configs, tab, gone, left>>
      /\ left \in [Inputs -> Nat] /\ departures \in Nat
  BY DEF ServeResend, Serving, view, DashInv, DashType
<1>3. RestType' /\ \E ok \in BOOLEAN : Answer(c, ok, Null)
  <2>1. CASE /\ Exists(i) /\ departures' = departures + 1 /\ Answer(c, TRUE, Null)
             /\ \E st \in {"Scheduled", "Failed"} :
                  runs' = [runs EXCEPT ![i].attempt = runs[i].attempt + 1, ![i].status = st]
    <3>1. PICK st \in {"Scheduled", "Failed"} :
            runs' = [runs EXCEPT ![i].attempt = runs[i].attempt + 1, ![i].status = st]
      BY <2>1
    <3>2. PICK r \in Row : r = runs[i]
      BY <2>1, RowTyped
    <3>3. PICK n \in Nat : n = r.attempt + 1
      BY DEF Row
    <3>4. PICK g : g = [r EXCEPT !.attempt = n, !.status = st]
      OBVIOUS
    <3>5. g \in Row
      BY <3>4, ValuesAssumption DEF Row
    <3>6. runs' = [runs EXCEPT ![i] = g]
      BY <3>1, <3>2, <3>3, <3>4 DEF DashInv, DashType
    <3>7. /\ g \in Row \cup {NoRow, Deleted} /\ UNCHANGED <<configs, gone>>
          /\ departures' \in Nat /\ left' \in [Inputs -> Nat]
      BY <1>2, <2>1, <3>5
    <3>8. RestType'
      BY <3>6, <3>7, RowWritten
    <3> QED BY <2>1, <3>8
  <2>2. CASE Answer(c, FALSE, Null) /\ UNCHANGED <<runs, departures>>
    BY <1>2, <2>2, RestSame DEF db
  <2> QED BY <1>1, <2>1, <2>2 DEF ServeResend
<1>4. ConnKept /\ TabKept
  BY <1>2, <1>3, AnswerKeeps DEF Admits, Writes
<1> QED BY <1>3, <1>4, Parts

\* Delete, in the service.
LEMMA ServeDeleteKeeps ==
  ASSUME DashInv, NEW c \in Connections, ServeDelete(c)
  PROVE  DashInv'
<1>1. PICK i \in Ids : i = conn[c].arg
  BY Request, RequestKinds DEF ServeDelete, Serving, RowRequests, RequestsOf
<1>2. /\ conn[c] # Null /\ conn[c].op = "delete" /\ UNCHANGED <<configs, tab, gone, left>>
      /\ left \in [Inputs -> Nat] /\ departures \in Nat
  BY DEF ServeDelete, Serving, view, DashInv, DashType
<1>3. RestType'
  <2>1. CASE runs' = [runs EXCEPT ![i] = Deleted] /\ departures' = departures + 1
    <3>1. PICK r \in Row \cup {NoRow, Deleted} : r = Deleted
      OBVIOUS
    <3>2. runs' = [runs EXCEPT ![i] = r] /\ departures' \in Nat
      BY <1>2, <2>1, <3>1
    <3> QED BY <1>2, <3>2, RowWritten
  <2>2. CASE UNCHANGED <<runs, departures>>
    BY <1>2, <2>2, RestSame DEF db
  <2> QED BY <1>1, <2>1, <2>2 DEF ServeDelete
<1>4. Answer(c, Exists(i), Null) /\ Exists(i) \in BOOLEAN
  BY <1>1 DEF ServeDelete, Exists
<1>5. ConnKept /\ TabKept
  BY <1>2, <1>4, AnswerKeeps DEF Admits, Writes
<1> QED BY <1>3, <1>5, Parts

\* The end of a resend: the record is loaded anew.
LEMMA ResendArrivesKeeps ==
  ASSUME DashInv, NEW c \in Connections, ResendArrives(c)
  PROVE  DashInv'
<1>1. RestType'
  BY RestSame DEF ResendArrives, DashInv, DashType
<1>2. PICK t \in Tabs, i \in Ids : t = conn[c].tab /\ i = conn[c].arg
  BY Request, RequestKinds DEF ResendArrives, Arrived, RowRequests, RequestsOf
<1>3. CASE ~conn[c].live
  <2>1. Settle(c) /\ UNCHANGED tab
    BY <1>3 DEF ResendArrives
  <2>2. TabKept /\ SamePages
    BY <2>1, NoPage
  <2>3. ConnKept
    BY <2>1, <2>2, SettleKeeps
  <2> QED BY <1>1, <2>2, <2>3, Parts
<1>4. CASE conn[c].live
  <2>1. tab[t].page = "record"
    BY <1>2, <1>4, Request DEF ResendArrives, Arrived, PageOfOp
  <2>2. PICK p \in RecordPages : p = tab[t]
    BY <2>1, PageKinds DEF DashInv, DashType
  <2>3. PICK b \in BOOLEAN : b = (p.error \/ ~conn[c].ok)
    OBVIOUS
  <2>4. PICK g : g = [p EXCEPT !.resending = FALSE, !.error = b]
    OBVIOUS
  <2>5. g \in RecordPages /\ g.page = "record"
    BY <2>4 DEF RecordPages
  <2>6. tab' = [tab EXCEPT ![t] = g]
    BY <1>2, <1>4, <2>2, <2>3, <2>4 DEF ResendArrives, DashInv, DashType
  <2>7. TabKept /\ SamePages
    BY <2>1, <2>5, <2>6, OnePage DEF Pages, Filled
  <2>8. ConnKept
    <3>1. CASE conn[c].ok
      <4>1. conn' = [conn EXCEPT ![c] = Asked("load", t, i)]
        BY <1>2, <1>4, <3>1 DEF ResendArrives
      <4> QED BY <2>1, <2>7, <4>1, AskFromPage DEF MayAsk, PageOfOp
    <3>2. CASE ~conn[c].ok
      <4>1. Settle(c)
        BY <1>4, <3>2 DEF ResendArrives, Settle
      <4> QED BY <2>7, <4>1, SettleKeeps
    <3> QED BY <3>1, <3>2
  <2> QED BY <1>1, <2>7, <2>8, Parts
<1> QED BY <1>3, <1>4

\* The end of a delete: the tab goes to the list.
LEMMA DeleteArrivesKeeps ==
  ASSUME DashInv, NEW c \in Connections, DeleteArrives(c)
  PROVE  DashInv'
<1>1. PICK t \in Tabs, i \in Ids : t = conn[c].tab /\ i = conn[c].arg
  BY Request, RequestKinds DEF DeleteArrives, Arrived, RowRequests, RequestsOf
<1>2. gone' \in [Tabs -> SUBSET Ids]
  BY <1>1 DEF DeleteArrives, DashInv, DashType
<1>3. RestType'
  BY <1>2 DEF DeleteArrives, db, DashInv, DashType, RestType
<1>4. CASE VisitList(t, c)
  <2>1. ConnKept /\ TabKept
    BY <1>4, VisitListKeeps
  <2> QED BY <1>3, <2>1, Parts
<1>5. CASE Settle(c) /\ UNCHANGED tab
  <2>1. TabKept /\ SamePages
    BY <1>5, NoPage
  <2>2. ConnKept
    BY <1>5, <2>1, SettleKeeps
  <2> QED BY <1>3, <2>1, <2>2, Parts
<1>6. CASE conn[c].live /\ Settle(c) /\ tab' = [tab EXCEPT ![t].deleting = FALSE, ![t].error = TRUE]
  <2>1. tab[t].page = "record"
    BY <1>1, <1>6, Request DEF DeleteArrives, Arrived, PageOfOp
  <2>2. PICK p \in RecordPages : p = tab[t]
    BY <2>1, PageKinds DEF DashInv, DashType
  <2>3. PICK g : g = [p EXCEPT !.deleting = FALSE, !.error = TRUE]
    OBVIOUS
  <2>4. g \in RecordPages /\ g.page = "record"
    BY <2>3 DEF RecordPages
  <2>5. tab' = [tab EXCEPT ![t] = g]
    BY <1>6, <2>2, <2>3 DEF DashInv, DashType
  <2>6. TabKept /\ SamePages
    BY <2>1, <2>4, <2>5, OnePage DEF Pages, Filled
  <2>7. ConnKept
    BY <1>6, <2>6, SettleKeeps
  <2> QED BY <1>3, <2>6, <2>7, Parts
<1> QED BY <1>1, <1>4, <1>5, <1>6 DEF DeleteArrives

\* A record comes in.
LEMMA ArrivesKeeps ==
  ASSUME DashInv, NEW i \in Ids, NEW r \in NewRows, Arrives(i, r)
  PROVE  DashInv'
<1>1. r \in Row
  BY ValuesAssumption
<1>2. left' \in [Inputs -> Nat]
  BY SpendLeft DEF Arrives
<1>3. RestType'
  BY <1>1, <1>2, RowWritten DEF Arrives, view, DashInv, DashType
<1>4. TabKept /\ SamePages
  BY NoPage DEF Arrives, view
<1>5. ConnKept
  BY <1>4, NoRequest DEF Arrives
<1> QED BY <1>3, <1>4, <1>5, Parts

\* A record moves on.
LEMMA ProgressesKeeps ==
  ASSUME DashInv, NEW i \in Ids, NEW st \in Statuses, Progresses(i, st)
  PROVE  DashInv'
<1>1. PICK r \in Row : r = runs[i]
  BY RowTyped DEF Progresses
<1>2. PICK g : g = [r EXCEPT !.status = st]
  OBVIOUS
<1>3. g \in Row
  BY <1>2 DEF Row
<1>4. runs' = [runs EXCEPT ![i] = g]
  BY <1>1, <1>2 DEF Progresses, DashInv, DashType
<1>5. left' \in [Inputs -> Nat] /\ departures' \in Nat
  BY SpendLeft DEF Progresses, DashInv, DashType
<1>6. RestType'
  BY <1>3, <1>4, <1>5, RowWritten DEF Progresses, view
<1>7. TabKept /\ SamePages
  BY NoPage DEF Progresses, view
<1>8. ConnKept
  BY <1>7, NoRequest DEF Progresses
<1> QED BY <1>6, <1>7, <1>8, Parts

\* A request, or its answer, is lost.
LEMMA LoseKeeps ==
  ASSUME DashInv, NEW c \in Connections, Lose(c)
  PROVE  DashInv'
<1>1. left' \in [Inputs -> Nat]
  BY SpendLeft DEF Lose
<1>2. RestType'
  BY <1>1, RestSame DEF Lose, view
<1>3. ConnKept /\ TabKept
  BY AnswerKeeps DEF Lose, Admits, view
<1> QED BY <1>2, <1>3, Parts

----------------------------------------------------------------------------
(* The Flow Config page.                                                   *)

\* A cell of settings or of a form is a value.
LEMMA CellValues ==
  ASSUME NEW k \in Fields, NEW v, v \in StoredIn(k) \/ v \in TypedIn(k) \/ v = Absent
  PROVE  v \in Values
BY DEF Values

\* Settings are shown as a form.
LEMMA FormOfSettings ==
  ASSUME NEW c \in SettingsRows
  PROVE  ToForm(c) \in Forms
<1>1. \A k \in Fields : ToForm(c)[k] \in TypedIn(k)
  <2> SUFFICES ASSUME NEW k \in Fields
               PROVE  ToForm(c)[k] \in TypedIn(k)
    OBVIOUS
  <2>1. c[k] \in StoredIn(k) /\ Int4 \subseteq Numbers /\ Blank \in Texts
    BY ValuesAssumption DEF SettingsRows
  <2>2. CASE k \in NumberFields
    BY <2>1, <2>2 DEF ToForm, StoredIn, TypedIn, NumberFields, OptionalNumbers, OptionalTexts
  <2>3. CASE k \in OptionalNumbers
    BY <2>1, <2>3 DEF ToForm, StoredIn, TypedIn, NumberFields, OptionalNumbers, OptionalTexts
  <2>4. CASE k \in OptionalTexts
    BY <2>1, <2>4 DEF ToForm, StoredIn, TypedIn, NumberFields, OptionalNumbers, OptionalTexts
  <2>5. CASE k \in PlainTexts
    BY <2>1, <2>5 DEF ToForm, StoredIn, TypedIn, NumberFields, OptionalNumbers, OptionalTexts, PlainTexts
  <2>6. CASE k = "enabled"
    BY <2>1, <2>6 DEF ToForm, StoredIn, TypedIn, NumberFields, OptionalNumbers, OptionalTexts, PlainTexts
  <2> QED BY <2>2, <2>3, <2>4, <2>5, <2>6 DEF Fields
<1>2. \A k \in Fields : ToForm(c)[k] \in Values
  BY <1>1, CellValues
<1> QED BY <1>1, <1>2 DEF ToForm, Forms

\* A form is sent as a body.
LEMMA BodyOfForm ==
  ASSUME NEW f \in Forms
  PROVE  Payload(f) \in Bodies
<1>1. \A k \in Fields : Payload(f)[k] \in TypedIn(k) \/ (k \in OptionalNumbers /\ Payload(f)[k] = Absent)
  BY DEF Payload, Forms
<1>2. \A k \in Fields : Payload(f)[k] \in Values
  BY <1>1, CellValues
<1> QED BY <1>1, <1>2 DEF Payload, Bodies

\* What the service writes is settings: whatever was typed, a column holds what
\* it may.
LEMMA WrittenSettings ==
  ASSUME NEW b \in Bodies, Accepts(b), Storable(b), NEW old, old \in SettingsRows \/ old = NoSettings
  PROVE  Written(old, b) \in SettingsRows
<1>1. \A k \in Fields : Written(old, b)[k] \in StoredIn(k)
  <2> SUFFICES ASSUME NEW k \in Fields
               PROVE  Written(old, b)[k] \in StoredIn(k)
    OBVIOUS
  <2>1. /\ b[k] \in TypedIn(k) \/ (k \in OptionalNumbers /\ b[k] = Absent)
        /\ Written(old, b)[k] = IF b[k] = Absent THEN old[k]
             ELSE IF k \in OptionalTexts /\ b[k] = Blank THEN Null ELSE b[k]
    BY DEF Bodies, Written
  <2>2. k \in NumberFields \cup OptionalNumbers /\ b[k] # Absent => b[k] \in Int4
    <3>1. k \in NumberFields \cup OptionalNumbers /\ b[k] # Absent => b[k] \in Sent(b)
      BY DEF Sent
    <3>2. \A v \in Sent(b) : v \in Nat /\ v <= MaxInt
      BY DEF Accepts, Storable
    <3> QED BY <3>1, <3>2, ValuesAssumption DEF Int4
  <2>3. old[k] \in StoredIn(k) \/ old[k] = Null
    BY DEF SettingsRows, NoSettings
  <2>4. Absent \notin Numbers /\ Absent \notin Texts /\ Absent \notin BOOLEAN
    BY ValuesAssumption
  <2>5. CASE k \in NumberFields
    BY <2>1, <2>2, <2>4, <2>5 DEF StoredIn, TypedIn, NumberFields, OptionalNumbers, OptionalTexts
  <2>6. CASE k \in OptionalNumbers
    BY <2>1, <2>2, <2>3, <2>6 DEF StoredIn, NumberFields, OptionalNumbers, OptionalTexts
  <2>7. CASE k \in OptionalTexts
    BY <2>1, <2>4, <2>7 DEF StoredIn, TypedIn, NumberFields, OptionalNumbers, OptionalTexts
  <2>8. CASE k \in PlainTexts
    BY <2>1, <2>4, <2>8 DEF StoredIn, TypedIn, NumberFields, OptionalNumbers, OptionalTexts, PlainTexts
  <2>9. CASE k = "enabled"
    BY <2>1, <2>4, <2>9 DEF StoredIn, TypedIn, NumberFields, OptionalNumbers, OptionalTexts, PlainTexts
  <2> QED BY <2>5, <2>6, <2>7, <2>8, <2>9 DEF Fields
<1>2. \A k \in Fields : Written(old, b)[k] \in Values
  BY <1>1, CellValues
<1> QED BY <1>1, <1>2 DEF Written, SettingsRows

\* The form changes, and nothing is sent.
LEMMA FormKeeps ==
  ASSUME DashInv, NEW t \in Tabs, tab[t].page = "settings", NEW g \in SettingsPages, Filled(g),
         tab' = [tab EXCEPT ![t] = g], UNCHANGED <<db, conn, gone>>, left' \in [Inputs -> Nat]
  PROVE  DashInv'
<1>1. RestType'
  BY RestSame
<1>2. g \in Pages /\ g.page = "settings"
  BY DEF Pages, SettingsPages
<1>3. TabKept /\ SamePages
  BY <1>2, OnePage
<1>4. ConnKept
  BY <1>3, NoRequest
<1> QED BY <1>1, <1>3, <1>4, Parts

\* The page is what it says.
LEMMA OnSettingsPage ==
  ASSUME DashInv, NEW t \in Tabs, OnSettings(t)
  PROVE  tab[t] \in SettingsPages /\ tab[t].page = "settings" /\ Filled(tab[t])
BY PageKinds DEF OnSettings, DashInv, DashType, PagesFit

\* Edit.
LEMMA StartEditKeeps ==
  ASSUME DashInv, NEW t \in Tabs, NEW f \in Flows, StartEdit(t, f)
  PROVE  DashInv'
<1>1. left' \in [Inputs -> Nat]
  BY SpendLeft DEF StartEdit
<1>2. PICK p \in SettingsPages : p = tab[t] /\ tab[t].page = "settings"
  BY OnSettingsPage DEF StartEdit
<1>3. PICK b \in SettingsRows : b = p.table[f]
  BY <1>2 DEF StartEdit, SettingsPages, Tables
<1>4. PICK h \in Forms : h = ToForm(b)
  BY FormOfSettings
<1>5. PICK g : g = [p EXCEPT !.error = FALSE, !.editing = f, !.name = f, !.form = h, !.base = b]
  OBVIOUS
<1>6. g \in SettingsPages /\ Filled(g)
  BY <1>5 DEF SettingsPages, Filled
<1>7. tab' = [tab EXCEPT ![t] = g]
  BY <1>2, <1>3, <1>4, <1>5 DEF StartEdit, DashInv, DashType
<1> QED BY <1>1, <1>2, <1>6, <1>7, FormKeeps DEF StartEdit

\* New flow.
LEMMA StartNewKeeps ==
  ASSUME DashInv, NEW t \in Tabs, StartNew(t)
  PROVE  DashInv'
<1>1. left' \in [Inputs -> Nat]
  BY SpendLeft DEF StartNew
<1>2. PICK p \in SettingsPages : p = tab[t] /\ tab[t].page = "settings"
  BY OnSettingsPage DEF StartNew
<1>3. PICK h \in Forms : h = EmptyForm
  BY EmptyFormTyped
<1>4. PICK g : g = [p EXCEPT !.error = FALSE, !.editing = "new", !.name = Blank, !.form = h, !.base = Null]
  OBVIOUS
<1>5. g \in SettingsPages /\ Filled(g)
  BY <1>4, ValuesAssumption DEF SettingsPages, Filled
<1>6. tab' = [tab EXCEPT ![t] = g]
  BY <1>2, <1>3, <1>4 DEF StartNew, DashInv, DashType
<1> QED BY <1>1, <1>2, <1>5, <1>6, FormKeeps DEF StartNew

\* The name of a new flow.
LEMMA TypeNameKeeps ==
  ASSUME DashInv, NEW t \in Tabs, NEW f \in Flows, TypeName(t, f)
  PROVE  DashInv'
<1>1. left' \in [Inputs -> Nat]
  BY SpendLeft DEF TypeName
<1>2. PICK p \in SettingsPages : p = tab[t] /\ tab[t].page = "settings" /\ Filled(p)
  BY OnSettingsPage DEF TypeName, FormShown
<1>3. PICK g : g = [p EXCEPT !.name = f]
  OBVIOUS
<1>4. g \in SettingsPages /\ Filled(g)
  BY <1>2, <1>3 DEF SettingsPages, Filled
<1>5. tab' = [tab EXCEPT ![t] = g]
  BY <1>2, <1>3 DEF TypeName, DashInv, DashType
<1> QED BY <1>1, <1>2, <1>4, <1>5, FormKeeps DEF TypeName

\* Another input.
LEMMA TypeKeeps ==
  ASSUME DashInv, NEW t \in Tabs, NEW e \in Edits, Type(t, e)
  PROVE  DashInv'
<1>1. left' \in [Inputs -> Nat]
  BY SpendLeft DEF Type
<1>2. PICK p \in SettingsPages : p = tab[t] /\ tab[t].page = "settings" /\ Filled(p)
  BY OnSettingsPage DEF Type, FormShown
<1>3. PICK h : h = [p.form EXCEPT ![e.field] = e.value]
  OBVIOUS
<1>4. h \in Forms
  <2>1. p.form \in Forms /\ e.field \in Fields /\ e.value \in TypedIn(e.field)
    BY ValuesAssumption DEF SettingsPages
  <2>2. e.value \in Values
    BY <2>1, CellValues
  <2> QED BY <1>3, <2>1, <2>2 DEF Forms
<1>5. PICK g : g = [p EXCEPT !.form = h]
  OBVIOUS
<1>6. g \in SettingsPages /\ Filled(g)
  BY <1>2, <1>4, <1>5 DEF SettingsPages, Filled
<1>7. tab' = [tab EXCEPT ![t] = g]
  BY <1>2, <1>3, <1>5 DEF Type, DashInv, DashType
<1> QED BY <1>1, <1>2, <1>6, <1>7, FormKeeps DEF Type

\* Cancel.
LEMMA CancelKeeps ==
  ASSUME DashInv, NEW t \in Tabs, Cancel(t)
  PROVE  DashInv'
<1>1. left' \in [Inputs -> Nat]
  BY DEF Cancel, DashInv, DashType
<1>2. PICK p \in SettingsPages : p = tab[t] /\ tab[t].page = "settings"
  BY OnSettingsPage DEF Cancel, FormShown
<1>3. PICK g : g = [p EXCEPT !.editing = Null]
  OBVIOUS
<1>4. g \in SettingsPages /\ Filled(g)
  BY <1>3 DEF SettingsPages, Filled
<1>5. tab' = [tab EXCEPT ![t] = g]
  BY <1>2, <1>3 DEF Cancel, DashInv, DashType
<1> QED BY <1>1, <1>2, <1>4, <1>5, FormKeeps DEF Cancel

\* A request of the page as it is.
LEMMA PageSends ==
  ASSUME DashInv, NEW t \in Tabs, NEW c \in Connections, OnSettings(t),
         NEW op \in {"save", "remove", "configs"}, NEW a, MayAsk(op, a),
         conn' = [conn EXCEPT ![c] = Asked(op, t, a)], UNCHANGED tab
  PROVE  ConnKept /\ TabKept
<1>1. TabKept /\ SamePages
  BY NoPage
<1>2. tab[t].page = PageOfOp(op)
  BY DEF OnSettings, PageOfOp
<1>3. ConnKept
  BY <1>1, <1>2, AskFromPage
<1> QED BY <1>1, <1>3

\* Save.
LEMMA ClickSaveKeeps ==
  ASSUME DashInv, NEW t \in Tabs, NEW c \in Connections, ClickSave(t, c)
  PROVE  DashInv'
<1>1. RestType'
  BY SpendLeft, RestSame DEF ClickSave, view
<1>2. PICK p \in SettingsPages : p = tab[t] /\ Filled(p) /\ p.page = "settings"
  BY OnSettingsPage DEF ClickSave, FormShown
<1>3. PICK a : a = [creates |-> p.editing = "new", flow |-> IF p.editing = "new" THEN p.name ELSE p.editing,
                    body |-> Payload(p.form), base |-> p.base]
  OBVIOUS
<1>4. MayAsk("save", a)
  <2>1. PICK b \in Bodies : b = Payload(p.form)
    BY BodyOfForm DEF SettingsPages
  <2>2. p.editing # Null
    BY <1>2 DEF ClickSave, FormShown
  <2>3. PICK n \in BOOLEAN : n = (p.editing = "new")
    OBVIOUS
  <2>4. PICK f \in Flows : f = IF p.editing = "new" THEN p.name ELSE p.editing
    BY <2>2 DEF SettingsPages
  <2>5. a = [creates |-> n, flow |-> f, body |-> b, base |-> p.base]
    BY <1>3, <2>1, <2>3, <2>4
  <2>6. p.base \in SettingsRows \cup {Null} /\ (~n => p.base \in SettingsRows)
    BY <1>2, <2>2, <2>3 DEF SettingsPages, Filled
  <2> QED BY <2>5, <2>6 DEF MayAsk, Saves
<1>5. conn' = [conn EXCEPT ![c] = Asked("save", t, a)] /\ OnSettings(t) /\ UNCHANGED tab
  BY <1>2, <1>3 DEF ClickSave, FormShown, Send, view
<1>6. ConnKept /\ TabKept
  BY <1>4, <1>5, PageSends
<1> QED BY <1>1, <1>6, Parts

\* Delete, of a flow.
LEMMA ClickRemoveKeeps ==
  ASSUME DashInv, NEW t \in Tabs, NEW c \in Connections, NEW f \in Flows, ClickRemove(t, c, f)
  PROVE  DashInv'
<1>1. RestType'
  BY SpendLeft, RestSame DEF ClickRemove, view
<1>2. MayAsk("remove", f)
  BY DEF MayAsk
<1>3. conn' = [conn EXCEPT ![c] = Asked("remove", t, f)] /\ OnSettings(t) /\ UNCHANGED tab
  BY DEF ClickRemove, Send, view
<1>4. ConnKept /\ TabKept
  BY <1>2, <1>3, PageSends
<1> QED BY <1>1, <1>4, Parts

\* Settings are written.
LEMMA ConfigsWritten ==
  ASSUME DashInv, NEW f \in Flows, NEW s \in SettingsRows \cup {Null}, configs' = [configs EXCEPT ![f] = s],
         UNCHANGED <<runs, departures, gone, left>>
  PROVE  RestType'
BY DEF DashInv, DashType, RestType, Tables

\* Save, in the service.
LEMMA ServeSaveKeeps ==
  ASSUME DashInv, NEW c \in Connections, ServeSave(c)
  PROVE  DashInv'
<1>1. PICK a \in Saves : a = conn[c].arg
  BY Request, RequestKinds DEF ServeSave, Serving, SaveRequests, RequestsOf
<1>2. conn[c] # Null /\ conn[c].op = "save" /\ UNCHANGED <<tab, gone, left, runs, departures>>
  BY DEF ServeSave, Serving, view
<1>3. PICK old \in SettingsRows \cup {Null} : old = configs[a.flow]
  BY <1>1 DEF DashInv, DashType, Saves, Tables
<1>4. CASE /\ Accepts(a.body) /\ Storable(a.body) /\ (a.creates <=> old = Null)
           /\ configs' = [configs EXCEPT ![a.flow] =
                Written(IF a.creates THEN NoSettings ELSE old, a.body)]
           /\ Answer(c, TRUE, Null)
  <2>1. PICK was : was = IF a.creates THEN NoSettings ELSE old
    OBVIOUS
  <2>2. was \in SettingsRows \/ was = NoSettings
    BY <1>4, <2>1
  <2>3. PICK b \in Bodies : b = a.body
    BY DEF Saves
  <2>4. Written(was, b) \in SettingsRows
    BY <1>4, <2>2, <2>3, WrittenSettings
  <2>5. PICK s \in SettingsRows : s = Written(was, b)
    BY <2>4
  <2>6. configs' = [configs EXCEPT ![a.flow] = s] /\ a.flow \in Flows
    BY <1>4, <2>1, <2>3, <2>5 DEF Saves
  <2>7. RestType'
    BY <1>2, <2>6, ConfigsWritten
  <2>8. ConnKept /\ TabKept
    BY <1>2, <1>4, AnswerKeeps DEF Admits, Writes
  <2> QED BY <2>7, <2>8, Parts
<1>5. CASE Answer(c, FALSE, Null) /\ UNCHANGED configs
  <2>1. RestType'
    BY <1>2, <1>5, RestSame DEF db, DashInv, DashType
  <2>2. ConnKept /\ TabKept
    BY <1>2, <1>5, AnswerKeeps DEF Admits
  <2> QED BY <2>1, <2>2, Parts
<1> QED BY <1>1, <1>3, <1>4, <1>5 DEF ServeSave

\* Delete, in the service.
LEMMA ServeRemoveKeeps ==
  ASSUME DashInv, NEW c \in Connections, ServeRemove(c)
  PROVE  DashInv'
<1>1. PICK f \in Flows : f = conn[c].arg
  BY Request, RequestKinds DEF ServeRemove, Serving, RemoveRequests, RequestsOf
<1>2. conn[c] # Null /\ conn[c].op = "remove" /\ UNCHANGED <<tab, gone, left, runs, departures>>
  BY DEF ServeRemove, Serving, view
<1>3. PICK found \in BOOLEAN : found = (f # Blank /\ configs[f] # Null)
  OBVIOUS
<1>4. configs' = (IF found THEN [configs EXCEPT ![f] = Null] ELSE configs) /\ Answer(c, found, Null)
  BY <1>1, <1>3 DEF ServeRemove
<1>5. RestType'
  <2>1. CASE found
    BY <1>2, <1>4, <2>1, ConfigsWritten
  <2>2. CASE ~found
    BY <1>2, <1>4, <2>2, RestSame DEF db, DashInv, DashType
  <2> QED BY <2>1, <2>2
<1>6. ConnKept /\ TabKept
  BY <1>2, <1>4, AnswerKeeps DEF Admits, Writes
<1> QED BY <1>5, <1>6, Parts

\* All settings are read.
LEMMA ServeConfigsKeeps ==
  ASSUME DashInv, NEW c \in Connections, ServeConfigs(c)
  PROVE  DashInv'
<1>1. RestType'
  BY RestSame DEF ServeConfigs, DashInv, DashType, view
<1>2. PICK x \in Tables : x = configs
  BY DEF DashInv, DashType
<1>3. conn[c] # Null /\ Answer(c, TRUE, x) /\ UNCHANGED tab /\ Admits(conn[c], TRUE, x)
  BY <1>2 DEF ServeConfigs, Serving, view, Admits
<1>4. ConnKept /\ TabKept
  BY <1>3, AnswerKeeps
<1> QED BY <1>1, <1>4, Parts

\* The settings, or an error.
LEMMA ConfigsArriveKeeps ==
  ASSUME DashInv, NEW c \in Connections, ConfigsArrive(c)
  PROVE  DashInv'
<1>1. RestType'
  BY RestSame DEF ConfigsArrive, DashInv, DashType
<1>2. /\ conn[c] # Null /\ conn[c].op = "configs"
      /\ conn[c].ok => conn[c].answer \in Tables
      /\ tab[conn[c].tab].page = "settings"
  BY Request DEF ConfigsArrive, Arrived, Fitting, Answered, PageOfOp, Reads
<1>3. PICK t \in Tabs : t = conn[c].tab
  BY <1>2, Request
<1>4. PICK p \in SettingsPages : p = tab[t] /\ Filled(p)
  BY <1>2, <1>3, OnSettingsPage DEF OnSettings
<1>5. PICK g : g = IF conn[c].ok THEN [p EXCEPT !.table = conn[c].answer] ELSE [p EXCEPT !.error = TRUE]
  OBVIOUS
<1>6. g \in SettingsPages /\ g.page = "settings" /\ Filled(g)
  BY <1>2, <1>4, <1>5 DEF SettingsPages, Filled
<1>7. tab' = [tab EXCEPT ![t] = g]
  BY <1>3, <1>4, <1>5 DEF ConfigsArrive
<1>8. TabKept /\ SamePages
  BY <1>2, <1>3, <1>6, <1>7, OnePage DEF Pages
<1>9. ConnKept
  BY <1>8, SettleKeeps DEF ConfigsArrive
<1> QED BY <1>1, <1>8, <1>9, Parts

\* The page that asked is one of settings.
LEMMA BackOnSettings ==
  ASSUME DashInv, NEW c \in Connections, conn[c] # Null, conn[c].op \in {"save", "remove"}, conn[c].live
  PROVE  conn[c].tab \in Tabs /\ OnSettings(conn[c].tab)
BY Request DEF OnSettings, PageOfOp

\* It asks for all settings anew.
LEMMA AsksAnew ==
  ASSUME DashInv, NEW t \in Tabs, NEW c \in Connections, OnSettings(t),
         conn' = [conn EXCEPT ![c] = Asked("configs", t, Null)], SamePages
  PROVE  ConnKept
<1>1. MayAsk("configs", Null) /\ tab[t].page = PageOfOp("configs")
  BY DEF MayAsk, PageOfOp, OnSettings
<1> QED BY <1>1, AskFromPage

\* The end of a save.
LEMMA SaveArrivesKeeps ==
  ASSUME DashInv, NEW c \in Connections, SaveArrives(c)
  PROVE  DashInv'
<1>1. RestType' /\ conn[c] # Null /\ conn[c].op = "save"
  BY RestSame DEF SaveArrives, Arrived, DashInv, DashType
<1>2. CASE ~conn[c].live
  <2>1. Settle(c) /\ UNCHANGED tab
    BY <1>2 DEF SaveArrives
  <2> QED BY <1>1, <2>1, NoPage, SettleKeeps, Parts
<1>3. CASE conn[c].live
  <2>1. PICK t \in Tabs : t = conn[c].tab /\ OnSettings(t)
    BY <1>1, <1>3, BackOnSettings
  <2>2. PICK p \in SettingsPages : p = tab[t] /\ Filled(p) /\ p.page = "settings"
    BY <2>1, OnSettingsPage
  <2>3. CASE conn[c].ok
    <3>1. PICK g : g = [p EXCEPT !.editing = Null]
      OBVIOUS
    <3>2. g \in Pages /\ g.page = "settings" /\ Filled(g)
      BY <3>1 DEF SettingsPages, Pages, Filled
    <3>3. tab' = [tab EXCEPT ![t] = g]
      BY <1>3, <2>1, <2>2, <2>3, <3>1 DEF SaveArrives, DashInv, DashType
    <3>4. TabKept /\ SamePages
      BY <2>2, <3>2, <3>3, OnePage
    <3>5. conn' = [conn EXCEPT ![c] = Asked("configs", t, Null)]
      BY <1>3, <2>1, <2>3 DEF SaveArrives
    <3> QED BY <1>1, <2>1, <3>4, <3>5, AsksAnew, Parts
  <2>4. CASE ~conn[c].ok
    <3>1. PICK g : g = [p EXCEPT !.error = TRUE]
      OBVIOUS
    <3>2. g \in Pages /\ g.page = "settings" /\ Filled(g)
      BY <2>2, <3>1 DEF SettingsPages, Pages, Filled
    <3>3. tab' = [tab EXCEPT ![t] = g] /\ Settle(c)
      BY <1>3, <2>1, <2>2, <2>4, <3>1 DEF SaveArrives, DashInv, DashType
    <3>4. TabKept /\ SamePages
      BY <2>2, <3>2, <3>3, OnePage
    <3> QED BY <1>1, <3>3, <3>4, SettleKeeps, Parts
  <2> QED BY <2>3, <2>4
<1> QED BY <1>2, <1>3

\* The end of a delete of a flow.
LEMMA RemoveArrivesKeeps ==
  ASSUME DashInv, NEW c \in Connections, RemoveArrives(c)
  PROVE  DashInv'
<1>1. RestType' /\ conn[c] # Null /\ conn[c].op = "remove"
  BY RestSame DEF RemoveArrives, Arrived, DashInv, DashType
<1>2. CASE ~conn[c].live
  <2>1. Settle(c) /\ UNCHANGED tab
    BY <1>2 DEF RemoveArrives
  <2> QED BY <1>1, <2>1, NoPage, SettleKeeps, Parts
<1>3. CASE conn[c].live
  <2>1. PICK t \in Tabs : t = conn[c].tab /\ OnSettings(t)
    BY <1>1, <1>3, BackOnSettings
  <2>2. PICK p \in SettingsPages : p = tab[t] /\ Filled(p) /\ p.page = "settings"
    BY <2>1, OnSettingsPage
  <2>3. CASE conn[c].ok
    <3>1. conn' = [conn EXCEPT ![c] = Asked("configs", t, Null)] /\ UNCHANGED tab
      BY <1>3, <2>1, <2>3 DEF RemoveArrives
    <3> QED BY <1>1, <2>1, <3>1, NoPage, AsksAnew, Parts
  <2>4. CASE ~conn[c].ok
    <3>1. PICK g : g = [p EXCEPT !.error = TRUE]
      OBVIOUS
    <3>2. g \in Pages /\ g.page = "settings" /\ Filled(g)
      BY <2>2, <3>1 DEF SettingsPages, Pages, Filled
    <3>3. tab' = [tab EXCEPT ![t] = g] /\ Settle(c)
      BY <1>3, <2>1, <2>2, <2>4, <3>1 DEF RemoveArrives, DashInv, DashType
    <3>4. TabKept /\ SamePages
      BY <2>2, <3>2, <3>3, OnePage
    <3> QED BY <1>1, <3>3, <3>4, SettleKeeps, Parts
  <2> QED BY <2>3, <2>4
<1> QED BY <1>2, <1>3

----------------------------------------------------------------------------
(* All steps.                                                              *)

\* A table of settings, as the specification writes it and as a set.
LEMMA TableSets ==
  /\ \A c : Settings(c) <=> c \in SettingsRows
  /\ \A c : Form(c) <=> c \in Forms
  /\ \A x : Table(x) => x \in Tables
  /\ \A x \in Tables : Table(x)
<1>1. \A c : Settings(c) <=> c \in SettingsRows
  BY CellValues DEF Settings, Over, SettingsRows
<1>2. \A c : Form(c) <=> c \in Forms
  BY CellValues DEF Form, Over, Forms
<1>3. \A x : Table(x) => x \in Tables
  BY <1>1 DEF Table, Over, Tables
<1>4. \A x \in Tables : Table(x)
  BY <1>1 DEF Table, Over, Tables
<1> QED BY <1>1, <1>2, <1>3, <1>4

LEMMA InitInv == Init => DashInv
<1> SUFFICES ASSUME Init
             PROVE  DashInv
  OBVIOUS
<1>1. PICK s \in Scenarios : runs = s.runs /\ configs = s.configs /\ left = s.left
  BY DEF Init
<1>2. /\ runs \in [Ids -> Row \cup {NoRow, Deleted}] /\ configs \in Tables /\ left \in [Inputs -> Nat]
  BY <1>1, ValuesAssumption, TableSets
<1>3. /\ tab \in [Tabs -> Pages] /\ conn \in [Connections -> Requests \cup {Null}]
      /\ gone \in [Tabs -> SUBSET Ids] /\ departures \in Nat
  BY DEF Init, Pages
<1>4. RequestsFit /\ PagesFit
  BY DEF Init, RequestsFit, PagesFit, Filled, ClosedPage
<1> QED BY <1>2, <1>3, <1>4 DEF DashInv, DashType

\* What staff do.
LEMMA UseKeeps ==
  ASSUME DashInv, NEW t \in Tabs, Use(t)
  PROVE  DashInv'
<1>1. ASSUME NEW c \in Connections, Navigate(t, c) \/ ClickResend(t, c) \/ ClickDelete(t, c) \/ ClickSave(t, c)
      PROVE  DashInv'
  BY <1>1, NavigateKeeps, ClickResendKeeps, ClickDeleteKeeps, ClickSaveKeeps
<1>2. ASSUME NEW c \in Connections, NEW f \in Filters, ChooseFilter(t, c, f)
      PROVE  DashInv'
  BY <1>2, ChooseFilterKeeps
<1>3. ASSUME NEW c \in Connections, NEW n \in 1 .. MaxRuns, Turn(t, c, n)
      PROVE  DashInv'
  BY <1>3, TurnKeeps, ValuesAssumption
<1>4. ASSUME NEW c \in Connections, NEW i \in Ids, OpenRecord(t, c, i)
      PROVE  DashInv'
  BY <1>4, OpenRecordKeeps
<1>5. ASSUME NEW c \in Connections, NEW f \in Flows, ClickRemove(t, c, f)
      PROVE  DashInv'
  BY <1>5, ClickRemoveKeeps
<1>6. ASSUME NEW f \in Flows, StartEdit(t, f) \/ TypeName(t, f)
      PROVE  DashInv'
  BY <1>6, StartEditKeeps, TypeNameKeeps
<1>7. ASSUME NEW e \in Edits, Type(t, e)
      PROVE  DashInv'
  BY <1>7, TypeKeeps
<1>8. ASSUME StartNew(t) \/ Cancel(t)
      PROVE  DashInv'
  BY <1>8, StartNewKeeps, CancelKeeps
<1> QED BY <1>1, <1>2, <1>3, <1>4, <1>5, <1>6, <1>7, <1>8 DEF Use

\* What requests do.
LEMMA GoesKeeps ==
  ASSUME DashInv, NEW c \in Connections, Goes(c)
  PROVE  DashInv'
<1>1. CASE RecordsServed(c)
  BY <1>1, ListItemsKeeps, ListTotalKeeps, ServeLoadKeeps, ServeResendKeeps, ServeDeleteKeeps
     DEF RecordsServed
<1>2. CASE RecordsAnswered(c)
  BY <1>2, ListArrivesKeeps, LoadArrivesKeeps, ResendArrivesKeeps, DeleteArrivesKeeps
     DEF RecordsAnswered
<1>3. CASE SettingsServed(c)
  BY <1>3, ServeSaveKeeps, ServeRemoveKeeps, ServeConfigsKeeps DEF SettingsServed
<1>4. CASE SettingsAnswered(c)
  BY <1>4, ConfigsArriveKeeps, SaveArrivesKeeps, RemoveArrivesKeeps DEF SettingsAnswered
<1> QED BY <1>1, <1>2, <1>3, <1>4 DEF Goes

\* Nothing at all.
LEMMA StutterKeeps ==
  ASSUME DashInv, UNCHANGED vars
  PROVE  DashInv'
<1>1. RestType'
  BY RestSame DEF vars, db, DashInv, DashType
<1>2. TabKept /\ SamePages
  BY NoPage DEF vars
<1>3. ConnKept
  BY <1>2, NoRequest DEF vars
<1> QED BY <1>1, <1>2, <1>3, Parts

LEMMA NextKeeps == DashInv /\ [Next]_vars => DashInv'
<1> SUFFICES ASSUME DashInv, [Next]_vars
             PROVE  DashInv'
  OBVIOUS
<1>1. ASSUME NEW t \in Tabs, Use(t)
      PROVE  DashInv'
  BY <1>1, UseKeeps
<1>2. ASSUME NEW c \in Connections, Goes(c) \/ Lose(c)
      PROVE  DashInv'
  BY <1>2, GoesKeeps, LoseKeeps
<1>3. ASSUME NEW i \in Ids, NEW r \in NewRows, Arrives(i, r)
      PROVE  DashInv'
  BY <1>3, ArrivesKeeps
<1>4. ASSUME NEW i \in Ids, NEW st \in Statuses, Progresses(i, st)
      PROVE  DashInv'
  BY <1>4, ProgressesKeeps
<1>5. CASE UNCHANGED vars
  BY <1>5, StutterKeeps
<1> QED BY <1>1, <1>2, <1>3, <1>4, <1>5 DEF Next, Quiescent

\* The invariant of the dashboard: what the tables, pages and requests hold, and
\* that the answer to a read finds the page that asked for it.
THEOREM DashboardInvariance == Spec => []DashInv
<1>1. Init => DashInv
  BY InitInv
<1>2. DashInv /\ [Next]_vars => DashInv'
  BY NextKeeps
<1> QED BY <1>1, <1>2, PTL DEF Spec

\* The types of the specification follow.
LEMMA PageTyped ==
  ASSUME NEW p \in Pages
  PROVE  TabOK(p)
<1>1. CASE p \in ListPages
  BY <1>1 DEF ListPages, TabOK
<1>2. CASE p \in RecordPages
  BY <1>2 DEF RecordPages, TabOK
<1>3. CASE p \in SettingsPages
  <2>1. /\ p.page = "settings" /\ p.table \in Tables /\ p.form \in Forms /\ p.name \in Flows
        /\ p.editing \in Flows \cup {Null, "new"} /\ p.base \in SettingsRows \cup {Null}
        /\ p.error \in BOOLEAN
    BY <1>3 DEF SettingsPages
  <2>2. Table(p.table) /\ Form(p.form) /\ (p.base = Null \/ Settings(p.base))
    BY <2>1, TableSets
  <2> QED BY <2>1, <2>2 DEF TabOK
<1>4. CASE p = ClosedPage
  BY <1>4 DEF TabOK
<1> QED BY <1>1, <1>2, <1>3, <1>4 DEF Pages

LEMMA RequestTyped ==
  ASSUME DashInv, NEW c \in Connections, conn[c] # Null
  PROVE  RequestOK(conn[c])
<1>1. PICK r \in Requests : r = conn[c] /\ Answered(r) /\ r.tab \in Tabs
        /\ (r.live \/ r.op \in Reads => tab[r.tab].page = PageOfOp(r.op))
  BY Request DEF Fitting
<1>2. CASE r.op = "list"
  <2>1. r.arg \in Questions
    BY <1>2, RequestKinds DEF ListRequests, RequestsOf
  <2> QED BY <1>1, <1>2, <2>1 DEF RequestOK, Answered, PageOfOp, Reads, Questions
<1>3. CASE r.op = "load"
  <2>1. r.arg \in Ids
    BY <1>3, RequestKinds DEF LoadRequests, RequestsOf
  <2> QED BY <1>1, <1>3, <2>1 DEF RequestOK, Answered, PageOfOp, Reads
<1>4. CASE r.op = "configs"
  <2>1. r.ok => Table(r.answer)
    BY <1>1, <1>4, TableSets DEF Answered
  <2> QED BY <1>1, <1>4, <2>1 DEF RequestOK, PageOfOp, Reads
<1>5. CASE r.op \in {"resend", "delete"}
  <2>1. r.arg \in Ids
    BY <1>5, RequestKinds DEF RowRequests, RequestsOf
  <2> QED BY <1>1, <1>5, <2>1 DEF RequestOK, PageOfOp
<1>6. CASE r.op = "save"
  <2>1. r.arg \in Saves
    BY <1>6, RequestKinds DEF SaveRequests, RequestsOf
  <2>2. r.arg.flow \in Flows /\ r.arg.body \in Bodies
    BY <2>1 DEF Saves
  <2>3. Payloads(r.arg.body)
    BY <2>2 DEF Payloads, Bodies, Over
  <2> QED BY <1>1, <1>6, <2>2, <2>3 DEF RequestOK, PageOfOp
<1>7. CASE r.op = "remove"
  <2>1. r.arg \in Flows
    BY <1>7, RequestKinds DEF RemoveRequests, RequestsOf
  <2> QED BY <1>1, <1>7, <2>1 DEF RequestOK, PageOfOp
<1> QED BY <1>2, <1>3, <1>4, <1>5, <1>6, <1>7 DEF Requests, RequestsOf, ListRequests, LoadRequests,
           TableRequests, RowRequests, SaveRequests, RemoveRequests

\* Whatever is typed into the form and however the requests overlap or are lost,
\* a column of flow_configs holds what its type admits, and an answer to a read
\* reaches the page that asked (the DTOs, normalizeEmptyStrings, the effects of
\* the pages).
THEOREM DashboardTyped == Spec => []TypeOK
<1>1. DashInv => TypeOK
  <2> SUFFICES ASSUME DashInv
               PROVE  TypeOK
    OBVIOUS
  <2>1. \A t \in Tabs : TabOK(tab[t])
    BY PageTyped DEF DashInv, DashType
  <2>2. \A c \in Connections : conn[c] = Null \/ RequestOK(conn[c])
    BY RequestTyped
  <2>3. Table(configs)
    BY TableSets DEF DashInv, DashType
  <2> QED BY <2>1, <2>2, <2>3 DEF TypeOK, DashInv, DashType, Over
<1> QED BY <1>1, DashboardInvariance, PTL

============================================================================
