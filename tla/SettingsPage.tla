---------------------------- MODULE SettingsPage ----------------------------
(***************************************************************************)
(* The Flow Config page: a table of all flows and one form, whose inputs   *)
(* are not what the columns hold; with FlowConfigService, and the DTOs     *)
(* that check what the form sends.                                         *)
(***************************************************************************)
EXTENDS DashboardState

OnSettings(t) == tab[t].page = "settings"

\* The form is there while something is being edited; "" is nothing.
FormShown(t) == OnSettings(t) /\ tab[t].editing \notin {Null, Blank}

\* startEdit: null is shown as an empty input.
ToForm(s) == [k \in Fields |->
  IF k \in OptionalNumbers \cup OptionalTexts /\ s[k] = Null THEN Blank ELSE s[k]]

Positive(v) == v = Fraction \/ v > 0

\* Some inputs are there only when others say so; what is hidden is kept.
InputShown(form, k) ==
  /\ k = "sendTimezone" => form["sendSchedule"] # Blank
  /\ k \in OptionalNumbers \cup {"retryOnCallStatuses", "retryOnConversationStatuses"} =>
       Positive(form["maxRetryAttempts"])

----------------------------------------------------------------------------
(* The form.  Nothing here waits, and nothing waits for it: a save may be  *)
(* in flight all the while.                                                *)

StartEdit(t, f) ==
  /\ OnSettings(t)
  /\ tab[t].table[f] # Null
  /\ Spend("edit")
  /\ tab' = [tab EXCEPT ![t] = [@ EXCEPT !.error = FALSE, !.editing = f, !.name = f,
               !.form = ToForm(tab[t].table[f]), !.base = tab[t].table[f]]]
  /\ UNCHANGED <<db, conn, gone>>

StartNew(t) ==
  /\ OnSettings(t)
  /\ Spend("edit")
  /\ tab' = [tab EXCEPT ![t] = [@ EXCEPT !.error = FALSE, !.editing = "new", !.name = Blank,
               !.form = EmptyForm, !.base = Null]]
  /\ UNCHANGED <<db, conn, gone>>

TypeName(t, f) ==
  /\ FormShown(t) /\ tab[t].editing = "new"
  /\ Spend("name")
  /\ tab' = [tab EXCEPT ![t].name = f]
  /\ UNCHANGED <<db, conn, gone>>

Type(t, e) ==
  /\ FormShown(t)
  /\ InputShown(tab[t].form, e.field)
  /\ Spend("type")
  /\ tab' = [tab EXCEPT ![t].form = [@ EXCEPT ![e.field] = e.value]]
  /\ UNCHANGED <<db, conn, gone>>

Cancel(t) ==
  /\ FormShown(t)
  /\ tab' = [tab EXCEPT ![t].editing = Null]
  /\ UNCHANGED <<db, conn, gone, left>>

\* Mutant: an empty number is sent as Number("").
PayloadOfNumbers(form) == [k \in Fields |->
  IF k \in OptionalNumbers /\ form[k] = Blank THEN 0 ELSE form[k]]

Payload(form) == [k \in Fields |->
  IF k \in OptionalNumbers /\ form[k] = Blank THEN Absent ELSE form[k]]

\* save: what is edited under the name "new" is created.  The button is not
\* disabled.
ClickSave(t, c) ==
  /\ FormShown(t)
  /\ Spend("save")
  /\ LET p == tab[t] IN
     Send(c, Asked("save", t, [creates |-> p.editing = "new",
                               flow |-> IF p.editing = "new" THEN p.name ELSE p.editing,
                               body |-> Payload(p.form), base |-> p.base]))
  /\ UNCHANGED <<db, view>>

ClickRemove(t, c, f) ==
  /\ OnSettings(t)
  /\ tab[t].table[f] # Null
  /\ Spend("remove")
  /\ Send(c, Asked("remove", t, f))
  /\ UNCHANGED <<db, view>>

----------------------------------------------------------------------------
(* The service.                                                            *)

\* Mutant: the DTO does not look at the optional numbers.
AcceptsOptional(body) == \A k \in NumberFields : body[k] \in Nat

\* IsOptional, IsInt, Min(0).
Sent(body)    == {body[k] : k \in NumberFields \cup OptionalNumbers} \ {Absent}
Accepts(body) == Sent(body) \subseteq Nat

\* Prisma refuses a number that Postgres cannot hold.
Storable(body) == \A v \in Sent(body) : v <= MaxInt

\* normalizeEmptyStrings; a field that was not sent stays as it is.
Written(old, body) == [k \in Fields |->
  IF body[k] = Absent THEN old[k]
  ELSE IF k \in OptionalTexts /\ body[k] = Blank THEN Null ELSE body[k]]

NoSettings == [k \in Fields |-> Null]

\* create refuses a second row of a name, update a row that is not there.  The
\* row is written before pg-boss is asked for the schedule: when that fails, the
\* answer is an error of what was done (Lose).
ServeSave(c) ==
  /\ Serving(c, "save")
  /\ LET a   == conn[c].arg
         old == configs[a.flow]
     IN
     \/ /\ Accepts(a.body) /\ Storable(a.body) /\ (a.creates <=> old = Null)
        /\ configs' = [configs EXCEPT ![a.flow] =
             Written(IF a.creates THEN NoSettings ELSE old, a.body)]
        /\ Answer(c, TRUE, Null)
     \/ /\ ~(Accepts(a.body) /\ Storable(a.body) /\ (a.creates <=> old = Null))
        /\ Answer(c, FALSE, Null)
        /\ UNCHANGED configs
  /\ UNCHANGED <<runs, departures, view, left>>

\* A flow with the name "" has no path of its own.
ServeRemove(c) ==
  /\ Serving(c, "remove")
  /\ LET f == conn[c].arg  found == f # Blank /\ configs[f] # Null IN
     /\ configs' = IF found THEN [configs EXCEPT ![f] = Null] ELSE configs
     /\ Answer(c, found, Null)
  /\ UNCHANGED <<runs, departures, view, left>>

ServeConfigs(c) ==
  /\ Serving(c, "configs")
  /\ Answer(c, TRUE, configs)
  /\ UNCHANGED <<db, view, left>>

----------------------------------------------------------------------------
(* The answers.                                                            *)

ConfigsArrive(c) ==
  /\ Arrived(c, "configs")
  /\ tab' = [tab EXCEPT ![conn[c].tab] =
       IF conn[c].ok THEN [@ EXCEPT !.table = conn[c].answer] ELSE [@ EXCEPT !.error = TRUE]]
  /\ Settle(c)
  /\ UNCHANGED <<db, gone, left>>

\* setEditing(null) closes whatever is open by now.
SaveArrives(c) ==
  /\ Arrived(c, "save")
  /\ LET t == conn[c].tab IN
     IF ~conn[c].live THEN Settle(c) /\ UNCHANGED tab
     ELSE IF conn[c].ok
     THEN /\ tab' = [tab EXCEPT ![t].editing = Null]
          /\ conn' = [conn EXCEPT ![c] = Asked("configs", t, Null)]
     ELSE tab' = [tab EXCEPT ![t].error = TRUE] /\ Settle(c)
  /\ UNCHANGED <<db, gone, left>>

RemoveArrives(c) ==
  /\ Arrived(c, "remove")
  /\ LET t == conn[c].tab IN
     IF ~conn[c].live THEN Settle(c) /\ UNCHANGED tab
     ELSE IF conn[c].ok
     THEN conn' = [conn EXCEPT ![c] = Asked("configs", t, Null)] /\ UNCHANGED tab
     ELSE tab' = [tab EXCEPT ![t].error = TRUE] /\ Settle(c)
  /\ UNCHANGED <<db, gone, left>>

SettingsServed(c)   == ServeSave(c) \/ ServeRemove(c) \/ ServeConfigs(c)
SettingsAnswered(c) == ConfigsArrive(c) \/ SaveArrives(c) \/ RemoveArrives(c)

============================================================================
