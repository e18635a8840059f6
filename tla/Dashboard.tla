----------------------------- MODULE Dashboard -----------------------------
(***************************************************************************)
(* Staff at several tabs, their requests answered in any order, over the   *)
(* two tables.  Properties of the dashboard are stated at the end.         *)
(***************************************************************************)
EXTENDS RecordsPage, SettingsPage

Init ==
  /\ \E s \in Scenarios : runs = s.runs /\ configs = s.configs /\ left = s.left
  /\ tab = [t \in Tabs |-> ClosedPage]
  /\ conn = [c \in Connections |-> Null]
  /\ gone = [t \in Tabs |-> {}]
  /\ departures = 0

\* What staff do.
Use(t) ==
  \/ \E c \in Connections :
       \/ Navigate(t, c) \/ ClickResend(t, c) \/ ClickDelete(t, c) \/ ClickSave(t, c)
       \/ \E f \in Filters : ChooseFilter(t, c, f)
       \/ \E p \in 1 .. MaxRuns : Turn(t, c, p)
       \/ \E i \in Ids : OpenRecord(t, c, i)
       \/ \E f \in Flows : ClickRemove(t, c, f)
  \/ \E f \in Flows : StartEdit(t, f) \/ TypeName(t, f)
  \/ \E e \in Edits : Type(t, e)
  \/ StartNew(t) \/ Cancel(t)

\* A request goes on: through the backend, back to its page.
Goes(c) ==
  \/ RecordsServed(c) \/ RecordsAnswered(c) \/ SettingsServed(c) \/ SettingsAnswered(c)

Quiescent == (\A c \in Connections : conn[c] = Null) /\ UNCHANGED vars

Next ==
  \/ \E t \in Tabs : Use(t)
  \/ \E c \in Connections : Goes(c) \/ Lose(c)
  \/ \E i \in Ids : (\E r \in NewRows : Arrives(i, r)) \/ (\E st \in Statuses : Progresses(i, st))
  \/ Quiescent

Spec == Init /\ [][Next]_vars

\* Fairness: fetch answers or gives up, and the page's callbacks run.  Nothing
\* is assumed of staff.
FairSpec == Spec /\ \A c \in Connections : WF_vars(Goes(c))

----------------------------------------------------------------------------
(* Types.                                                                  *)

Listing == [items : SUBSET Ids, total : Nat, asked : [filter : Filters, pageNo : Nat \ {0}]]

Payloads(b) == /\ Over(Fields, b)
               /\ \A k \in Fields : b[k] \in TypedIn(k) \/ (k \in OptionalNumbers /\ b[k] = Absent)

TabOK(p) ==
  \/ p = ClosedPage
  \/ /\ p.page = "list"
     /\ p.filter \in Filters /\ p.pageNo \in Nat \ {0}
     /\ p.data = Null \/ p.data \in Listing
     /\ {p.error, p.loading} \subseteq BOOLEAN
  \/ /\ p.page = "record"
     /\ p.id \in Ids
     /\ p.shown = Null \/ p.shown \in Row
     /\ {p.error, p.resending, p.deleting} \subseteq BOOLEAN
  \/ /\ p.page = "settings"
     /\ Table(p.table) /\ Form(p.form)
     /\ p.name \in Flows /\ p.editing \in Flows \cup {Null, "new"}
     /\ p.base = Null \/ Settings(p.base)
     /\ p.error \in BOOLEAN

\* A read is answered to the page that asked, which is still there.
RequestOK(r) ==
  /\ r.tab \in Tabs
  /\ \/ /\ r.op = "list"
        /\ tab[r.tab].page = "list"
        /\ r.arg.filter \in Filters /\ r.arg.pageNo \in Nat \ {0}
        /\ r.stage = "items" \/ r.ok => r.answer \in Listing
     \/ /\ r.op = "load"
        /\ tab[r.tab].page = "record"
        /\ r.arg \in Ids
        /\ r.stage = "answered" /\ r.ok => r.answer \in Row
     \/ /\ r.op = "configs"
        /\ tab[r.tab].page = "settings"
        /\ r.stage = "answered" /\ r.ok => Table(r.answer)
     \/ /\ r.op \in {"resend", "delete"}
        /\ r.live => tab[r.tab].page = "record"
        /\ r.arg \in Ids
     \/ /\ r.op = "save"
        /\ r.live => tab[r.tab].page = "settings"
        /\ r.arg.flow \in Flows /\ Payloads(r.arg.body)
     \/ /\ r.op = "remove"
        /\ r.live => tab[r.tab].page = "settings"
        /\ r.arg \in Flows

\* Whatever is typed and however it is sent, the tables hold what their columns
\* admit (the DTOs); the answer to a read finds the page that asked for it.
TypeOK ==
  /\ runs \in [Ids -> Row \cup {NoRow, Deleted}]
  /\ Table(configs)
  /\ Over(Tabs, tab) /\ \A t \in Tabs : TabOK(tab[t])
  /\ Over(Connections, conn) /\ \A c \in Connections : conn[c] = Null \/ RequestOK(conn[c])
  /\ gone \in [Tabs -> SUBSET Ids]
  /\ departures \in Nat
  /\ left \in [Inputs -> Nat]

----------------------------------------------------------------------------
(* Safety.                                                                 *)

InFlight(t, op) == {c \in Connections : conn[c] # Null /\ conn[c].op = op
                                        /\ conn[c].tab = t /\ conn[c].live}
One(t, op) == (\E c \in Connections : InFlight(t, op) = {c})

\* Resend is disabled exactly as long as a resend of the page is in flight, so
\* no page sends two at a time and no error leaves it disabled; Delete likewise
\* (resend's finally, remove's catch, setResending and setDeleting).
ButtonsTellTheTruth ==
  \A t \in Tabs : tab[t].page = "record" =>
    /\ IF tab[t].resending THEN One(t, "resend") ELSE InFlight(t, "resend") = {}
    /\ IF tab[t].deleting  THEN One(t, "delete") ELSE InFlight(t, "delete") = {}

\* A record whose delete a tab waited for is not in a list that tab shows
\* afterwards: the list is read anew, after the row was gone (remove, then
\* router.push, then the effect of the Records page; cache "no-store").
DeletedNotListed ==
  \A t \in Tabs : tab[t].page = "list" /\ tab[t].data # Null =>
    tab[t].data.items \cap gone[t] = {}

\* The table answers what the boxes and the page number say, unless two
\* questions were open at once since the boxes were set: then whichever answer
\* comes last is shown (the effect of the Records page, its dependencies, its
\* loading flag).
ShownAsAsked ==
  \A t \in Tabs : ListShown(t) /\ ~tab[t].overlapped =>
    tab[t].data.asked = Question(tab[t].filter, tab[t].pageNo)

\* Records of a list that share their moment with another one of it.
Tied(f) == {i \in Matching(f) :
              \E j \in Matching(f) \ {i} : runs[j].createdAt = runs[i].createdAt}

\* Who turns the pages from the first to the last comes by every record that
\* was there and was created at a moment of its own, however many come in
\* meanwhile, as long as none leaves the list and no two questions overlap.
\* Records created at the same moment may be missed even so, as findAll orders by
\* createdAt alone (skip, take and the order of findAll; the total that is read
\* after the items; Next).
NoneMissed ==
  \A t \in Tabs :
    /\ ListShown(t)
    /\ tab[t].pageNo >= TotalPages(tab[t].data)
    /\ tab[t].since = departures /\ ~tab[t].overlapped
    => tab[t].due \subseteq tab[t].seen \cup Tied(tab[t].filter)

Saved(c) == Serving(c, "save") /\ conn'[c] # Null /\ conn'[c].ok

\* A save changes what its form was changed in, or what somebody else has
\* changed since the form was filled: a setting that nobody touched survives
\* the way through form, payload, DTO and normalizeEmptyStrings.
SaveKeepsUntouched ==
  [][\A c \in Connections : Saved(c) =>
       LET a == conn[c].arg IN
       a.creates \/ \A k \in Fields :
         \/ configs'[a.flow][k] = configs[a.flow][k]
         \/ a.body[k] # Payload(ToForm(a.base))[k]
         \/ a.base[k] # configs[a.flow][k]]_vars

----------------------------------------------------------------------------
(* Liveness, under FairSpec.                                               *)

Waiting(t) ==
  \/ tab[t].page = "list" /\ tab[t].loading
  \/ /\ tab[t].page = "record"
     /\ \/ tab[t].shown = Null /\ ~tab[t].error
        \/ tab[t].resending \/ tab[t].deleting

\* No tab says Loading, Resending or Deleting for ever, whatever is lost.
PagesSettle == \A t \in Tabs : []<>~Waiting(t)

============================================================================
