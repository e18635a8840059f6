---------------------------- MODULE RecordTable ----------------------------
(***************************************************************************)
(* What the database promises of flow_runs and nlpearl_calls, whoever      *)
(* writes to them and in whatever order: the statements of the services,   *)
(* one action each, without the handlers around them.  Orchestrator is     *)
(* shown to implement it (RecordProofs), and what is proved here of the    *)
(* table holds of the orchestrator.                                        *)
(***************************************************************************)
EXTENDS Integers, Sequences, TLAPS

CONSTANTS Null, Keys, Requests, MaxRuns

VARIABLES
  runs,          \* flow_runs
  calls,         \* nlpearl_calls, per record
  placed,        \* the calls placed at NLPearl: the record each was placed for
  retried,       \* per record: automatic retries
  resent         \* per record: manual resends

vars == <<runs, calls, placed, retried, resent>>

Ids == 1 .. MaxRuns

Statuses == {"Received", "PreSmsSent", "Scheduled", "CallTriggered",
             "ConsentGiven", "Completed", "Failed"}

NoRow   == [status |-> "none", key |-> Null, req |-> Null, attempt |-> 0, cta |-> FALSE]
Deleted == [NoRow EXCEPT !.status = "deleted"]

Live(i) == i \in Ids /\ runs[i].status \in Statuses

Init ==
  /\ runs = [i \in Ids |-> NoRow]
  /\ calls = [i \in Ids |-> <<>>]
  /\ placed = <<>>
  /\ retried = [i \in Ids |-> 0]
  /\ resent = [i \in Ids |-> 0]

\* One record per identity, starting at its first attempt.
Create(i, k, r) ==
  /\ runs[i].status = "none"
  /\ \A j \in Ids : Live(j) => runs[j].key # k
  /\ runs' = [runs EXCEPT ![i] = [status |-> "Received", key |-> k, req |-> r,
                                  attempt |-> 1, cta |-> FALSE]]
  /\ UNCHANGED <<calls, placed, retried, resent>>

\* Another request of N8N for it.
Accept(i, r) ==
  /\ Live(i)
  /\ runs' = [runs EXCEPT ![i].req = r, ![i].status = "Received"]
  /\ UNCHANGED <<calls, placed, retried, resent>>

\* A transition.  Nothing but Accept and Resend leads back to Received, and
\* nothing but a recorded call to CallTriggered.
Transition(i, st) ==
  /\ Live(i)
  /\ runs' = [runs EXCEPT ![i].status = st]
  /\ UNCHANGED <<calls, placed, retried, resent>>

Retry(i) ==
  /\ Live(i)
  /\ runs' = [runs EXCEPT ![i].attempt = @ + 1, ![i].status = "Scheduled"]
  /\ retried' = [retried EXCEPT ![i] = @ + 1]
  /\ UNCHANGED <<calls, placed, resent>>

Resend(i) ==
  /\ Live(i)
  /\ runs' = [runs EXCEPT ![i].attempt = @ + 1, ![i].status = "Received"]
  /\ resent' = [resent EXCEPT ![i] = @ + 1]
  /\ UNCHANGED <<calls, placed, retried>>

MarkCta(i, done) ==
  /\ Live(i)
  /\ runs' = [runs EXCEPT ![i].cta = done]
  /\ UNCHANGED <<calls, placed, retried, resent>>

\* A call is placed at NLPearl, also for a record deleted meanwhile.
Place(i) ==
  /\ placed' = Append(placed, i)
  /\ UNCHANGED <<runs, calls, retried, resent>>

\* The call was placed for this record and is in no row yet: status and row go
\* together.
RecordCall(i, n) ==
  /\ Live(i)
  /\ placed[n] = i
  /\ \A j \in Ids : \A m \in DOMAIN calls[j] : calls[j][m].request # n
  /\ runs' = [runs EXCEPT ![i].status = "CallTriggered"]
  /\ calls' = [calls EXCEPT ![i] = Append(@, [request |-> n, call |-> 0])]
  /\ UNCHANGED <<placed, retried, resent>>

\* A call has ended, not necessarily one placed for this record: its id goes
\* into one of the record's rows or into a new one.
RecordEnd(i, n) ==
  /\ Live(i)
  /\ \/ calls' = [calls EXCEPT ![i] = Append(@, [request |-> 0, call |-> n])]
     \/ \E m \in DOMAIN calls[i] : calls' = [calls EXCEPT ![i] = [@ EXCEPT ![m].call = n]]
  /\ UNCHANGED <<runs, placed, retried, resent>>

Delete(i) ==
  /\ Live(i)
  /\ runs' = [runs EXCEPT ![i] = Deleted]
  /\ calls' = [calls EXCEPT ![i] = <<>>]
  /\ UNCHANGED <<placed, retried, resent>>

Next ==
  \E i \in Ids :
    \/ \E k \in Keys, r \in Requests : Create(i, k, r)
    \/ \E r \in Requests : Accept(i, r)
    \/ \E st \in Statuses \ {"Received", "CallTriggered"} : Transition(i, st)
    \/ Retry(i) \/ Resend(i)
    \/ \E done \in BOOLEAN : MarkCta(i, done)
    \/ Place(i)
    \/ \E n \in DOMAIN placed : RecordCall(i, n) \/ RecordEnd(i, n)
    \/ Delete(i)

Spec == Init /\ [][Next]_vars

----------------------------------------------------------------------------
(* What the table keeps, and the proof.                                    *)

Row     == [status : Statuses \cup {"none", "deleted"}, key : Keys \cup {Null},
            req : Requests \cup {Null}, attempt : Nat, cta : BOOLEAN]
CallRow == [request : Nat, call : Nat]

TableType ==
  /\ runs \in [Ids -> Row]
  /\ calls \in [Ids -> Seq(CallRow)]
  /\ placed \in Seq(Ids)
  /\ retried \in [Ids -> Nat]
  /\ resent \in [Ids -> Nat]

\* An identity has one record.
OneRow == \A i, j \in Ids : Live(i) /\ Live(j) /\ runs[i].key = runs[j].key => i = j

\* The count is one plus what raised it.
Accounting ==
  \A i \in Ids :
    /\ Live(i) => runs[i].attempt = 1 + retried[i] + resent[i]
    /\ runs[i].status = "none" => retried[i] = 0 /\ resent[i] = 0

\* A record that is gone, or not there yet, has no calls.
NoCallsWithoutRecord == \A i \in Ids : ~Live(i) => calls[i] = <<>>

\* A row made for a call is on the record the call was placed for, and is the
\* only one.
RowsBelong ==
  \A i, j \in Ids : \A m \in DOMAIN calls[i], p \in DOMAIN calls[j] :
    LET r == calls[i][m].request IN
    r # 0 => /\ r \in DOMAIN placed /\ placed[r] = i
             /\ calls[j][p].request = r => i = j /\ m = p

TableInv == TableType /\ OneRow /\ Accounting /\ NoCallsWithoutRecord /\ RowsBelong

\* A record is either untouched, live or deleted.
LEMMA LiveStatus ==
  /\ "none" \notin Statuses /\ "deleted" \notin Statuses
  /\ NoRow \in Row /\ NoRow.status = "none"
  /\ Deleted \in Row /\ Deleted.status = "deleted"
BY DEF Statuses, NoRow, Deleted, Row

\* The empty table.
LEMMA InitTable == Init => TableInv
<1> SUFFICES ASSUME Init PROVE TableInv
  OBVIOUS
<1>1. TableType
  BY LiveStatus DEF Init, TableType
<1>2. \A i \in Ids : runs[i].status = "none" /\ calls[i] = <<>> /\ ~Live(i)
  BY LiveStatus DEF Init, Live
<1> QED BY <1>1, <1>2 DEF Init, TableInv, OneRow, Accounting, NoCallsWithoutRecord, RowsBelong

\* What a live record holds.
LEMMA LiveRow ==
  ASSUME TableInv, NEW i, Live(i)
  PROVE  /\ i \in Ids /\ runs[i] \in Row /\ runs[i].attempt \in Nat
         /\ runs[i].status \in Statuses
<1>1. i \in Ids /\ runs[i] \in Row
  BY DEF Live, TableInv, TableType
<1> QED BY <1>1 DEF Row, Live

\* A step that writes one live record and leaves it live, with its identity,
\* keeps one record per identity and the calls.
LEMMA LiveWritten ==
  ASSUME TableInv, NEW i, Live(i), NEW r \in Row, r.status \in Statuses, r.key = runs[i].key,
         runs' = [runs EXCEPT ![i] = r]
  PROVE  /\ runs' \in [Ids -> Row] /\ runs'[i] = r
         /\ \A j \in Ids : j # i => runs'[j] = runs[j]
         /\ \A j \in Ids : Live(j)' <=> Live(j)
         /\ OneRow'
<1>1. /\ runs' \in [Ids -> Row] /\ runs'[i] = r
      /\ \A j \in Ids : j # i => runs'[j] = runs[j]
  BY LiveRow DEF TableInv, TableType
<1>2. \A j \in Ids : Live(j)' <=> Live(j)
  BY <1>1 DEF Live
<1>3. \A j \in Ids : runs'[j].key = runs[j].key
  BY <1>1
<1> QED BY <1>1, <1>2, <1>3 DEF TableInv, OneRow

\* When the calls are left alone, so is what they keep.
LEMMA CallsKept ==
  ASSUME TableInv, \A j \in Ids : Live(j)' <=> Live(j), UNCHANGED <<calls, placed>>
  PROVE  NoCallsWithoutRecord' /\ RowsBelong'
<1>1. NoCallsWithoutRecord'
  BY DEF TableInv, NoCallsWithoutRecord
<1>2. RowsBelong'
  BY DEF TableInv, RowsBelong
<1> QED BY <1>1, <1>2

\* Accept, Transition and MarkCta: a new request id, status or CTA.
LEMMA StatusStep ==
  ASSUME TableInv, NEW i, Live(i), NEW r \in Row, r.status \in Statuses, r.key = runs[i].key,
         r.attempt = runs[i].attempt,
         runs' = [runs EXCEPT ![i] = r], UNCHANGED <<calls, placed, retried, resent>>
  PROVE  TableInv'
<1>1. /\ runs' \in [Ids -> Row] /\ OneRow'
      /\ \A j \in Ids : Live(j)' <=> Live(j)
      /\ runs'[i] = r /\ \A j \in Ids : j # i => runs'[j] = runs[j]
  BY LiveWritten
<1>2. Accounting'
  BY <1>1, LiveRow, LiveStatus DEF TableInv, Accounting
<1>3. TableType'
  BY <1>1 DEF TableInv, TableType
<1> QED BY <1>1, <1>2, <1>3, CallsKept DEF TableInv

\* Retry and Resend: one attempt more, one reason more.
LEMMA AttemptStep ==
  ASSUME TableInv, NEW i, Live(i), NEW r \in Row, r.status \in Statuses, r.key = runs[i].key,
         r.attempt = runs[i].attempt + 1,
         runs' = [runs EXCEPT ![i] = r], UNCHANGED <<calls, placed>>,
         \/ retried' = [retried EXCEPT ![i] = @ + 1] /\ UNCHANGED resent
         \/ resent' = [resent EXCEPT ![i] = @ + 1] /\ UNCHANGED retried
  PROVE  TableInv'
<1>1. /\ runs' \in [Ids -> Row] /\ OneRow'
      /\ \A j \in Ids : Live(j)' <=> Live(j)
      /\ runs'[i] = r /\ \A j \in Ids : j # i => runs'[j] = runs[j]
  BY LiveWritten
<1>2. retried \in [Ids -> Nat] /\ resent \in [Ids -> Nat] /\ i \in Ids
  BY LiveRow DEF TableInv, TableType
<1>3. /\ retried' \in [Ids -> Nat] /\ resent' \in [Ids -> Nat]
      /\ \A j \in Ids : j # i => retried'[j] = retried[j] /\ resent'[j] = resent[j]
      /\ retried'[i] + resent'[i] = retried[i] + resent[i] + 1
  BY <1>2
<1>4. ASSUME NEW j \in Ids
      PROVE  /\ Live(j)' => runs'[j].attempt = 1 + retried'[j] + resent'[j]
             /\ runs'[j].status = "none" => retried'[j] = 0 /\ resent'[j] = 0
  <2>1. /\ Live(j) => runs[j].attempt = 1 + retried[j] + resent[j]
        /\ runs[j].status = "none" => retried[j] = 0 /\ resent[j] = 0
    BY <1>4 DEF TableInv, Accounting
  <2>2. CASE j = i
    BY <1>1, <1>2, <1>3, <2>1, <2>2, LiveStatus
  <2>3. CASE j # i
    BY <1>1, <1>3, <1>4, <2>1, <2>3
  <2> QED BY <2>2, <2>3
<1>5. Accounting'
  BY <1>4 DEF Accounting
<1>6. TableType'
  BY <1>1, <1>3 DEF TableInv, TableType
<1> QED BY <1>1, <1>5, <1>6, CallsKept DEF TableInv

\* A record comes in.
LEMMA CreateStep ==
  ASSUME TableInv, NEW i \in Ids, NEW k \in Keys, NEW q \in Requests, Create(i, k, q)
  PROVE  TableInv'
<1> DEFINE r == [status |-> "Received", key |-> k, req |-> q, attempt |-> 1, cta |-> FALSE]
<1>1. r \in Row /\ r.status \in Statuses /\ r.key = k /\ r.attempt = 1
  BY DEF Row, Statuses
<1> HIDE DEF r
<1>2. /\ runs' = [runs EXCEPT ![i] = r] /\ runs[i].status = "none"
      /\ \A j \in Ids : Live(j) => runs[j].key # k
      /\ UNCHANGED <<calls, placed, retried, resent>>
  BY DEF Create, r
<1>3. /\ runs' \in [Ids -> Row] /\ runs'[i] = r
      /\ \A j \in Ids : j # i => runs'[j] = runs[j]
  BY <1>1, <1>2 DEF TableInv, TableType
<1>4. /\ \A j \in Ids : j # i => (Live(j)' <=> Live(j))
      /\ Live(i)' /\ ~Live(i)
  BY <1>1, <1>2, <1>3, LiveStatus DEF Live
<1>5. OneRow'
  BY <1>1, <1>2, <1>3, <1>4 DEF TableInv, OneRow
<1>6. Accounting'
  <2>1. retried[i] = 0 /\ resent[i] = 0
    BY <1>2 DEF TableInv, Accounting
  <2> QED BY <1>1, <1>2, <1>3, <1>4, <2>1, LiveStatus DEF TableInv, Accounting
<1>7. NoCallsWithoutRecord' /\ RowsBelong'
  <2>1. NoCallsWithoutRecord'
    BY <1>2, <1>4 DEF TableInv, NoCallsWithoutRecord
  <2>2. RowsBelong'
    BY <1>2 DEF TableInv, RowsBelong
  <2> QED BY <2>1, <2>2
<1>8. TableType'
  BY <1>2, <1>3 DEF TableInv, TableType
<1> QED BY <1>5, <1>6, <1>7, <1>8 DEF TableInv

\* It goes, with its calls.
LEMMA DeleteStep ==
  ASSUME TableInv, NEW i \in Ids, Delete(i)
  PROVE  TableInv'
<1> HIDE DEF Deleted
<1>1. /\ runs' = [runs EXCEPT ![i] = Deleted] /\ calls' = [calls EXCEPT ![i] = <<>>]
      /\ UNCHANGED <<placed, retried, resent>>
  BY DEF Delete
<1>2. /\ runs' \in [Ids -> Row] /\ runs'[i] = Deleted
      /\ \A j \in Ids : j # i => runs'[j] = runs[j]
  BY <1>1, LiveStatus DEF TableInv, TableType
<1>3. /\ calls' \in [Ids -> Seq(CallRow)] /\ calls'[i] = <<>>
      /\ \A j \in Ids : j # i => calls'[j] = calls[j]
  <2>1. <<>> \in Seq(CallRow)
    OBVIOUS
  <2> QED BY <1>1, <2>1 DEF TableInv, TableType
<1>4. ~Live(i)' /\ \A j \in Ids : j # i => (Live(j)' <=> Live(j))
  BY <1>2, LiveStatus DEF Live
<1>5. OneRow'
  BY <1>2, <1>4 DEF TableInv, OneRow
<1>6. Accounting'
  BY <1>1, <1>2, <1>4, LiveStatus DEF TableInv, Accounting
<1>7. NoCallsWithoutRecord'
  BY <1>3, <1>4 DEF TableInv, NoCallsWithoutRecord
<1>8. RowsBelong'
  <2>1. DOMAIN calls'[i] = {}
    BY <1>3
  <2> QED BY <1>1, <1>3, <2>1 DEF TableInv, RowsBelong
<1>9. TableType'
  BY <1>1, <1>2, <1>3 DEF TableInv, TableType
<1> QED BY <1>5, <1>6, <1>7, <1>8, <1>9 DEF TableInv

\* Appending to a list.
LEMMA Appended ==
  ASSUME NEW S, NEW q \in Seq(S), NEW c \in S
  PROVE  /\ Append(q, c) \in Seq(S)
         /\ DOMAIN Append(q, c) = DOMAIN q \cup {Len(q) + 1}
         /\ Len(q) + 1 \notin DOMAIN q
         /\ Append(q, c)[Len(q) + 1] = c
         /\ \A m \in DOMAIN q : Append(q, c)[m] = q[m]
OBVIOUS

\* A call is placed.
LEMMA PlaceStep ==
  ASSUME TableInv, NEW i \in Ids, Place(i)
  PROVE  TableInv'
<1>1. /\ placed \in Seq(Ids) /\ placed' \in Seq(Ids)
      /\ DOMAIN placed \subseteq DOMAIN placed'
      /\ \A n \in DOMAIN placed : placed'[n] = placed[n]
  <2>1. placed \in Seq(Ids) /\ placed' = Append(placed, i)
    BY DEF Place, TableInv, TableType
  <2> QED BY <2>1, Appended
<1>2. RowsBelong'
  BY <1>1 DEF Place, TableInv, RowsBelong
<1>3. OneRow' /\ Accounting' /\ NoCallsWithoutRecord'
  BY DEF Place, TableInv, OneRow, Accounting, NoCallsWithoutRecord, Live
<1> QED BY <1>1, <1>2, <1>3 DEF Place, TableInv, TableType

\* A row comes in for a call that has none, or for none.
LEMMA RowAdded ==
  ASSUME TableInv, NEW i \in Ids, NEW c \in CallRow, UNCHANGED placed,
         c.request # 0 => /\ c.request \in DOMAIN placed /\ placed[c.request] = i
                          /\ \A j \in Ids : \A m \in DOMAIN calls[j] :
                               calls[j][m].request # c.request,
         calls' = [calls EXCEPT ![i] = Append(@, c)]
  PROVE  calls' \in [Ids -> Seq(CallRow)] /\ RowsBelong'
<1> DEFINE q == calls[i]
<1>1. q \in Seq(CallRow) /\ calls \in [Ids -> Seq(CallRow)]
  BY DEF TableInv, TableType
<1>2. /\ calls' \in [Ids -> Seq(CallRow)] /\ calls'[i] = Append(q, c)
      /\ \A j \in Ids : j # i => calls'[j] = calls[j]
  BY <1>1, Appended
<1> HIDE DEF q
<1>3. ASSUME NEW j \in Ids, NEW m \in DOMAIN calls'[j]
      PROVE  \/ j = i /\ m = Len(q) + 1 /\ calls'[j][m] = c
             \/ m \in DOMAIN calls[j] /\ calls'[j][m] = calls[j][m]
  <2>1. CASE j = i
    BY <1>1, <1>2, <1>3, <2>1, Appended DEF q
  <2>2. CASE j # i
    BY <1>2, <1>3, <2>2
  <2> QED BY <2>1, <2>2
<1>4. SUFFICES ASSUME NEW j \in Ids, NEW k \in Ids,
                      NEW m \in DOMAIN calls'[j], NEW p \in DOMAIN calls'[k],
                      calls'[j][m].request # 0
               PROVE  /\ calls'[j][m].request \in DOMAIN placed
                      /\ placed[calls'[j][m].request] = j
                      /\ calls'[k][p].request = calls'[j][m].request => j = k /\ m = p
  BY <1>2 DEF RowsBelong
<1>5. /\ \/ j = i /\ m = Len(q) + 1 /\ calls'[j][m] = c
         \/ m \in DOMAIN calls[j] /\ calls'[j][m] = calls[j][m]
      /\ \/ k = i /\ p = Len(q) + 1 /\ calls'[k][p] = c
         \/ p \in DOMAIN calls[k] /\ calls'[k][p] = calls[k][p]
  BY <1>3
<1> QED BY <1>4, <1>5 DEF TableInv, RowsBelong

\* A row gets the id of a call that has ended.
LEMMA RowCompleted ==
  ASSUME TableInv, NEW i \in Ids, NEW m \in DOMAIN calls[i], NEW n \in Nat, UNCHANGED placed,
         calls' = [calls EXCEPT ![i] = [@ EXCEPT ![m].call = n]]
  PROVE  calls' \in [Ids -> Seq(CallRow)] /\ RowsBelong'
<1> DEFINE q == calls[i]
           r == [q[m] EXCEPT !.call = n]
<1>1. q \in Seq(CallRow) /\ calls \in [Ids -> Seq(CallRow)] /\ q[m] \in CallRow
  BY DEF TableInv, TableType
<1>2. r \in CallRow /\ r.request = q[m].request
  BY <1>1 DEF CallRow
<1>3. calls' = [calls EXCEPT ![i] = [q EXCEPT ![m] = r]]
  OBVIOUS
<1> HIDE DEF q, r
<1>4. /\ [q EXCEPT ![m] = r] \in Seq(CallRow)
      /\ DOMAIN [q EXCEPT ![m] = r] = DOMAIN q
      /\ \A p \in DOMAIN q : [q EXCEPT ![m] = r][p].request = q[p].request
  <2>1. m \in DOMAIN q
    BY DEF q
  <2>2. /\ [q EXCEPT ![m] = r] \in Seq(CallRow)
        /\ DOMAIN [q EXCEPT ![m] = r] = DOMAIN q
        /\ [q EXCEPT ![m] = r][m] = r
        /\ \A p \in DOMAIN q : p # m => [q EXCEPT ![m] = r][p] = q[p]
    BY <1>1, <1>2, <2>1
  <2> QED BY <1>2, <2>2
<1>5. /\ calls' \in [Ids -> Seq(CallRow)]
      /\ \A j \in Ids : /\ DOMAIN calls'[j] = DOMAIN calls[j]
                        /\ \A p \in DOMAIN calls[j] : calls'[j][p].request = calls[j][p].request
  BY <1>1, <1>3, <1>4 DEF q
<1> QED BY <1>5 DEF TableInv, RowsBelong

\* A placed call is recorded.
LEMMA RecordCallStep ==
  ASSUME TableInv, NEW i \in Ids, NEW n \in DOMAIN placed, RecordCall(i, n)
  PROVE  TableInv'
<1> DEFINE r == [runs[i] EXCEPT !.status = "CallTriggered"]
           c == [request |-> n, call |-> 0]
<1>1. Live(i) /\ n \in Nat
  BY DEF RecordCall, TableInv, TableType
<1>2. /\ r \in Row /\ r.status \in Statuses /\ r.key = runs[i].key
      /\ r.attempt = runs[i].attempt
  BY <1>1, LiveRow DEF Row, Statuses
<1>3. c \in CallRow /\ c.request = n
  BY <1>1 DEF CallRow
<1>4. runs' = [runs EXCEPT ![i] = r] /\ calls' = [calls EXCEPT ![i] = Append(@, c)]
  BY DEF RecordCall
<1> HIDE DEF r, c
<1>5. /\ runs' \in [Ids -> Row] /\ OneRow'
      /\ \A j \in Ids : Live(j)' <=> Live(j)
      /\ runs'[i] = r /\ \A j \in Ids : j # i => runs'[j] = runs[j]
  BY <1>1, <1>2, <1>4, LiveWritten
<1>6. calls' \in [Ids -> Seq(CallRow)] /\ RowsBelong'
  <2>1. /\ c.request \in DOMAIN placed /\ placed[c.request] = i
        /\ \A j \in Ids : \A m \in DOMAIN calls[j] : calls[j][m].request # c.request
        /\ UNCHANGED placed
    BY <1>3 DEF RecordCall
  <2> QED BY <1>3, <1>4, <2>1, RowAdded
<1>7. Accounting'
  BY <1>1, <1>2, <1>5, LiveRow, LiveStatus DEF RecordCall, TableInv, Accounting
<1>8. NoCallsWithoutRecord'
  BY <1>1, <1>4, <1>5 DEF TableInv, TableType, NoCallsWithoutRecord
<1>9. TableType'
  BY <1>5, <1>6 DEF RecordCall, TableInv, TableType
<1> QED BY <1>5, <1>6, <1>7, <1>8, <1>9 DEF TableInv

\* So is its end.
LEMMA RecordEndStep ==
  ASSUME TableInv, NEW i \in Ids, NEW n \in DOMAIN placed, RecordEnd(i, n)
  PROVE  TableInv'
<1> DEFINE c == [request |-> 0, call |-> n]
<1>1. Live(i) /\ n \in Nat /\ c \in CallRow /\ c.request = 0
  BY DEF RecordEnd, TableInv, TableType, CallRow
<1>2. calls' \in [Ids -> Seq(CallRow)] /\ RowsBelong'
  <2>1. CASE calls' = [calls EXCEPT ![i] = Append(@, c)]
    <3> HIDE DEF c
    <3> QED BY <1>1, <2>1, RowAdded DEF RecordEnd
  <2>2. CASE \E m \in DOMAIN calls[i] : calls' = [calls EXCEPT ![i] = [@ EXCEPT ![m].call = n]]
    BY <1>1, <2>2, RowCompleted DEF RecordEnd
  <2> QED BY <2>1, <2>2 DEF RecordEnd
<1>3. \A j \in Ids : j # i => calls'[j] = calls[j]
  BY DEF RecordEnd, TableInv, TableType
<1>4. OneRow' /\ Accounting' /\ NoCallsWithoutRecord'
  BY <1>1, <1>3 DEF RecordEnd, TableInv, OneRow, Accounting, NoCallsWithoutRecord, Live
<1> QED BY <1>2, <1>4 DEF RecordEnd, TableInv, TableType

\* Every step of the table keeps it.
LEMMA NextTable == TableInv /\ [Next]_vars => TableInv'
<1> SUFFICES ASSUME TableInv, [Next]_vars PROVE TableInv'
  OBVIOUS
<1>1. ASSUME NEW i \in Ids, NEW q \in Requests, Accept(i, q)
      PROVE  TableInv'
  <2> DEFINE a == [runs[i] EXCEPT !.req = q]
             r == [a EXCEPT !.status = "Received"]
  <2>1. Live(i) /\ runs[i] \in Row
    BY <1>1, LiveRow DEF Accept
  <2>2. a \in Row /\ a.key = runs[i].key /\ a.attempt = runs[i].attempt
    BY <2>1 DEF Row
  <2>3. /\ r \in Row /\ r.status \in Statuses /\ r.key = runs[i].key
        /\ r.attempt = runs[i].attempt
    BY <2>2 DEF Row, Statuses
  <2>4. runs' = [runs EXCEPT ![i] = r]
    BY <1>1, <2>1 DEF Accept, TableInv, TableType, Row
  <2> QED BY <1>1, <2>1, <2>3, <2>4, StatusStep DEF Accept
<1>2. ASSUME NEW i \in Ids, NEW st \in Statuses, Transition(i, st)
      PROVE  TableInv'
  <2> DEFINE r == [runs[i] EXCEPT !.status = st]
  <2>1. Live(i) /\ runs[i] \in Row
    BY <1>2, LiveRow DEF Transition
  <2>2. /\ r \in Row /\ r.status \in Statuses /\ r.key = runs[i].key
        /\ r.attempt = runs[i].attempt
    BY <2>1 DEF Row
  <2>3. runs' = [runs EXCEPT ![i] = r]
    BY <1>2 DEF Transition
  <2> QED BY <1>2, <2>1, <2>2, <2>3, StatusStep DEF Transition
<1>3. ASSUME NEW i \in Ids, Retry(i) \/ Resend(i)
      PROVE  TableInv'
  <2>1. PICK st \in {"Scheduled", "Received"} :
          runs' = [runs EXCEPT ![i].attempt = @ + 1, ![i].status = st]
    BY <1>3 DEF Retry, Resend
  <2> DEFINE a == [runs[i] EXCEPT !.attempt = runs[i].attempt + 1]
             r == [a EXCEPT !.status = st]
  <2>2. Live(i) /\ runs[i] \in Row /\ runs[i].attempt \in Nat
    BY <1>3, LiveRow DEF Retry, Resend
  <2>3. a \in Row /\ a.key = runs[i].key /\ a.attempt = runs[i].attempt + 1
    BY <2>2 DEF Row
  <2>4. /\ r \in Row /\ r.status \in Statuses /\ r.key = runs[i].key
        /\ r.attempt = runs[i].attempt + 1
    BY <2>3 DEF Row, Statuses
  <2>5. runs' = [runs EXCEPT ![i] = r]
    BY <2>1, <2>2 DEF TableInv, TableType, Row
  <2> QED BY <1>3, <2>2, <2>4, <2>5, AttemptStep DEF Retry, Resend
<1>4. ASSUME NEW i \in Ids, NEW done \in BOOLEAN, MarkCta(i, done)
      PROVE  TableInv'
  <2> DEFINE r == [runs[i] EXCEPT !.cta = done]
  <2>1. Live(i) /\ runs[i] \in Row /\ runs[i].status \in Statuses
    BY <1>4, LiveRow DEF MarkCta
  <2>2. /\ r \in Row /\ r.status \in Statuses /\ r.key = runs[i].key
        /\ r.attempt = runs[i].attempt
    BY <2>1 DEF Row
  <2>3. runs' = [runs EXCEPT ![i] = r]
    BY <1>4 DEF MarkCta
  <2> QED BY <1>4, <2>1, <2>2, <2>3, StatusStep DEF MarkCta
<1>5. CASE UNCHANGED vars
  BY <1>5 DEF vars, TableInv, TableType, OneRow, Accounting, NoCallsWithoutRecord, RowsBelong, Live
<1> QED BY <1>1, <1>2, <1>3, <1>4, <1>5, CreateStep, DeleteStep, PlaceStep, RecordCallStep,
           RecordEndStep DEF Next

\* Whatever the order of the statements, the table keeps one record per
\* identity, its count, and each call row on the record that was called.
THEOREM TableCorrect == Spec => []TableInv
BY InitTable, NextTable, PTL DEF Spec

\* A statement on a deleted record does nothing.
LEMMA DeletedStep ==
  ASSUME TableInv, [Next]_vars, NEW i \in Ids, runs[i].status = "deleted"
  PROVE  runs'[i].status = "deleted" /\ calls'[i] = <<>>
<1>1. ~Live(i) /\ calls[i] = <<>>
  BY LiveStatus DEF Live, TableInv, NoCallsWithoutRecord
<1>2. runs \in [Ids -> Row] /\ calls \in [Ids -> Seq(CallRow)]
  BY DEF TableInv, TableType
<1>3. ASSUME NEW j \in Ids, Live(j) \/ runs[j].status = "none",
             \/ UNCHANGED runs
             \/ \A k \in Ids : k # j => runs'[k] = runs[k],
             \/ UNCHANGED calls
             \/ \A k \in Ids : k # j => calls'[k] = calls[k]
      PROVE  runs'[i].status = "deleted" /\ calls'[i] = <<>>
  BY <1>1, <1>3
<1>4. CASE \E j \in Ids : Place(j)
  BY <1>1, <1>4 DEF Place
<1>5. CASE UNCHANGED vars
  BY <1>1, <1>5 DEF vars
<1>6. CASE \E j \in Ids : \/ \E k \in Keys, r \in Requests : Create(j, k, r)
                          \/ \E r \in Requests : Accept(j, r)
                          \/ \E st \in Statuses : Transition(j, st)
                          \/ Retry(j) \/ Resend(j)
                          \/ \E done \in BOOLEAN : MarkCta(j, done)
  BY <1>2, <1>3, <1>6 DEF Create, Accept, Transition, Retry, Resend, MarkCta
<1>7. CASE \E j \in Ids : \/ \E n \in DOMAIN placed : RecordCall(j, n) \/ RecordEnd(j, n)
                          \/ Delete(j)
  BY <1>2, <1>3, <1>7 DEF RecordCall, RecordEnd, Delete
<1> QED BY <1>4, <1>5, <1>6, <1>7 DEF Next

============================================================================
