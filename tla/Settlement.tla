----------------------------- MODULE Settlement -----------------------------
(***************************************************************************)
(* The second reconciliation: a bank settlement file is uploaded to        *)
(* ingestion, and its rows are matched with the payment events and settle  *)
(* the ledger pairs the reconciliation worker booked                       *)
(* (settlement.service.ts, settlement-matcher.service.ts).                 *)
(*                                                                         *)
(* An upload is processed inside its HTTP request, one await after the     *)
(* other and with no transaction around them, next to other uploads and    *)
(* to the worker.                                                          *)
(***************************************************************************)
EXTENDS Naturals, Sequences, FiniteSets

CONSTANTS
  Events,     \* payments, by gatewayEventId
  Payment,    \* Events -> [amount, currency] of the payment_events row
  Files,      \* file contents; two files with one hash are one file
  Rows,       \* Files -> sequence of [event, amount, currency, storable]
  Malformed,  \* files that parseCsv rejects
  Requests,   \* POST /settlements requests
  NoBatch,    \* no settlement_batches row with this hash
  Pending,    \* a ledger pair that is PENDING_SETTLEMENT
  MaxBookings, \* bound: ledger pairs of an event
  MaxFaults   \* bound: failing calls, and requests that die with the process

BatchStatus == {"PROCESSING", "COMPLETED", "FAILED"}
MatchStatus == {"MATCHED", "AMOUNT_MISMATCH", "UNMATCHED"}

Counts == [MatchStatus -> Nat]
Batch  == [status : BatchStatus, total : Nat, counts : Counts]
RowIds == UNION {{f} \X (1 .. Len(Rows[f])) : f \in Files}

\* The awaits of processUpload, and where a request is outside of them.
Sites     == {"find", "create", "lookup", "record", "settle", "finalize"}
RequestPc == {"new", "returned", "rejected", "error"} \cup Sites

ASSUME SettlementAssumption ==
  /\ Payment \in [Events -> [amount : Nat, currency : STRING]]
  /\ Rows \in [Files -> Seq([event : Events, amount : Nat, currency : STRING,
                             storable : BOOLEAN])]
  /\ Malformed \subseteq Files
  /\ Pending \notin RowIds
  /\ NoBatch \notin Batch
  /\ MaxBookings \in Nat
  /\ MaxFaults \in Nat

VARIABLES
  ingested, \* events with a payment_events row
  ledger,   \* Events -> its pairs: Pending, or the row that settled the pair
  batch,    \* Files -> NoBatch or [status, total, counts]
  records,  \* RowIds -> match statuses of the settlement_records of the row
  request,  \* Requests -> where it is and the locals of processUpload
  faults

vars == <<ingested, ledger, batch, records, request, faults>>

None   == [m \in MatchStatus |-> 0]
Local  == [pc : RequestPc, file : Files, next : Nat \ {0}, found : BOOLEAN, counts : Counts]

\* Every variable has its type, and the row loop stays inside its file.
TypeOK ==
  /\ ingested \subseteq Events
  /\ ledger \in [Events -> Seq({Pending} \cup RowIds)]
  /\ batch \in [Files -> Batch \cup {NoBatch}]
  /\ records \in [RowIds -> Seq(MatchStatus)]
  /\ request \in [Requests -> Local]
  /\ \A q \in Requests :
       request[q].pc \in {"lookup", "record", "settle"} =>
         request[q].next <= Len(Rows[request[q].file])
  /\ faults \in Nat

Init ==
  /\ ingested = {}
  /\ ledger = [e \in Events |-> <<>>]
  /\ batch = [f \in Files |-> NoBatch]
  /\ records = [r \in RowIds |-> <<>>]
  /\ request \in [Requests -> {[pc |-> "new", file |-> f, next |-> 1, found |-> FALSE,
                                counts |-> None] : f \in Files}]
  /\ faults = 0

-----------------------------------------------------------------------------
\* Mutated: the amounts are not compared.
WrongMatchSettlementRecord(row, found) ==
  CASE ~found -> "UNMATCHED"
    [] found /\ row.currency # Payment[row.event].currency -> "AMOUNT_MISMATCH"
    [] found /\ row.currency = Payment[row.event].currency -> "MATCHED"

\* matchSettlementRecord(record, paymentEvent), paymentEvent null unless found.
MatchSettlementRecord(row, found) ==
  CASE ~found -> "UNMATCHED"
    [] found /\ <<row.amount, row.currency>> #
                <<Payment[row.event].amount, Payment[row.event].currency>> -> "AMOUNT_MISMATCH"
    [] found /\ <<row.amount, row.currency>> =
                <<Payment[row.event].amount, Payment[row.event].currency>> -> "MATCHED"

FileOf(q)  == request[q].file
RowId(q)   == <<request[q].file, request[q].next>>
RowOf(q)   == Rows[FileOf(q)][request[q].next]
MatchOf(q) == MatchSettlementRecord(RowOf(q), request[q].found)

Goto(q, pc) == request' = [request EXCEPT ![q].pc = pc]

\* Mutated: off by one.
WrongLoopAt(f, i) == IF i <= Len(Rows[f]) + 1 THEN "lookup" ELSE "finalize"

\* The head of the row loop: the next row, or finalizeBatch.
LoopAt(f, i) == IF i <= Len(Rows[f]) THEN "lookup" ELSE "finalize"

\* The bottom of the loop: count the row, by its status, and go on.
Counted(q) ==
  [request EXCEPT ![q].pc = LoopAt(FileOf(q), request[q].next + 1),
                  ![q].next = @ + 1,
                  ![q].counts[MatchOf(q)] = @ + 1]

\* POST /settlements: the upload is hashed.
Upload(q) ==
  /\ request[q].pc = "new"
  /\ Goto(q, "find")
  /\ UNCHANGED <<ingested, ledger, batch, records, faults>>

\* findBatchByHash: content seen before returns its batch, in whatever status.
\* Otherwise the file is parsed, and a row that does not parse rejects it all.
FindBatch(q) ==
  /\ request[q].pc = "find"
  /\ Goto(q, CASE batch[FileOf(q)] # NoBatch -> "returned"
               [] batch[FileOf(q)] = NoBatch /\ FileOf(q) \in Malformed -> "rejected"
               [] batch[FileOf(q)] = NoBatch /\ FileOf(q) \notin Malformed -> "create")
  /\ UNCHANGED <<ingested, ledger, batch, records, faults>>

NewBatch == [status |-> "PROCESSING", total |-> 0, counts |-> None]

\* Mutated: no unique index on fileHash.
WrongCreateBatch(q) ==
  /\ request[q].pc = "create"
  /\ batch' = [batch EXCEPT ![FileOf(q)] = NewBatch]
  /\ Goto(q, LoopAt(FileOf(q), 1))
  /\ UNCHANGED <<ingested, ledger, records, faults>>

\* createBatch: fileHash is unique, so the second of two concurrent uploads of
\* one file fails.
CreateBatch(q) ==
  /\ request[q].pc = "create"
  /\ \/ /\ batch[FileOf(q)] = NoBatch
        /\ batch' = [batch EXCEPT ![FileOf(q)] = NewBatch]
        /\ Goto(q, LoopAt(FileOf(q), 1))
     \/ /\ batch[FileOf(q)] # NoBatch
        /\ Goto(q, "error")
        /\ UNCHANGED batch
  /\ UNCHANGED <<ingested, ledger, records, faults>>

\* findByGatewayEventId: kept across the next await.
Lookup(q) ==
  /\ request[q].pc = "lookup"
  /\ request' = [request EXCEPT ![q].pc = "record",
                                ![q].found = RowOf(q).event \in ingested]
  /\ UNCHANGED <<ingested, ledger, batch, records, faults>>

\* createRecord.  A row parseCsv let through may still not fit its columns (an
\* amount that is no 32-bit integer, a currency longer than 3): that throws.
CreateRecord(q) ==
  /\ request[q].pc = "record"
  /\ \/ /\ RowOf(q).storable
        /\ records' = [records EXCEPT ![RowId(q)] = Append(@, MatchOf(q))]
        /\ IF MatchOf(q) = "MATCHED" THEN Goto(q, "settle") ELSE request' = Counted(q)
     \/ /\ ~RowOf(q).storable
        /\ Goto(q, "error")
        /\ UNCHANGED records
  /\ UNCHANGED <<ingested, ledger, batch, faults>>

\* Mutated: not scoped to PENDING_SETTLEMENT.
WrongSettled(q) ==
  [ledger EXCEPT ![RowOf(q).event] = [i \in DOMAIN @ |-> RowId(q)]]

\* settleForPaymentEvent: updateMany of the pairs that are PENDING_SETTLEMENT,
\* of which there may be none.
Settled(q) ==
  [ledger EXCEPT ![RowOf(q).event] =
     [i \in DOMAIN @ |-> IF @[i] = Pending THEN RowId(q) ELSE @[i]]]

Settle(q) ==
  /\ request[q].pc = "settle"
  /\ ledger' = Settled(q)
  /\ request' = Counted(q)
  /\ UNCHANGED <<ingested, batch, records, faults>>

\* Mutated: the total is the loop's index, one past the last row.
WrongFinal(q) ==
  [status |-> "COMPLETED", total |-> request[q].next, counts |-> request[q].counts]

Final(q) ==
  [status |-> "COMPLETED", total |-> Len(Rows[FileOf(q)]), counts |-> request[q].counts]

Finalize(q) ==
  /\ request[q].pc = "finalize"
  /\ batch' = [batch EXCEPT ![FileOf(q)] = Final(q)]
  /\ Goto(q, "returned")
  /\ UNCHANGED <<ingested, ledger, records, faults>>

\* What the call at q's await writes when it takes effect but its reply is lost.
Effect(q) ==
  \/ /\ request[q].pc = "create"
     /\ batch[FileOf(q)] = NoBatch
     /\ batch' = [batch EXCEPT ![FileOf(q)] = NewBatch]
     /\ UNCHANGED <<ledger, records>>
  \/ /\ request[q].pc = "record" /\ RowOf(q).storable
     /\ records' = [records EXCEPT ![RowId(q)] = Append(@, MatchOf(q))]
     /\ UNCHANGED <<ledger, batch>>
  \/ /\ request[q].pc = "settle"
     /\ ledger' = Settled(q)
     /\ UNCHANGED <<batch, records>>
  \/ /\ request[q].pc = "finalize"
     /\ batch' = [batch EXCEPT ![FileOf(q)] = Final(q)]
     /\ UNCHANGED <<ledger, records>>

\* A call rejects, or the process dies during it.  Nothing is undone and the
\* batch is not marked FAILED: the rows before stay settled, those after are
\* never looked at.
Fails(q) ==
  /\ request[q].pc \in Sites
  /\ faults < MaxFaults
  /\ faults' = faults + 1
  /\ Goto(q, "error")
  /\ Effect(q) \/ UNCHANGED <<ledger, batch, records>>
  /\ UNCHANGED ingested

\* The webhook path stores the event.
Ingest(e) ==
  /\ e \notin ingested
  /\ ingested' = ingested \cup {e}
  /\ UNCHANGED <<ledger, batch, records, request, faults>>

\* The reconciliation worker books a debit/credit pair: a second one when the
\* payment is redelivered after its refund.
Book(e) ==
  /\ e \in ingested
  /\ Len(ledger[e]) < MaxBookings
  /\ ledger' = [ledger EXCEPT ![e] = Append(@, Pending)]
  /\ UNCHANGED <<ingested, batch, records, request, faults>>

Process(q) ==
  \/ Upload(q) \/ FindBatch(q) \/ CreateBatch(q)
  \/ Lookup(q) \/ CreateRecord(q) \/ Settle(q) \/ Finalize(q)

Next ==
  \/ \E q \in Requests : Process(q) \/ Fails(q)
  \/ \E e \in Events : Ingest(e) \/ Book(e)

Spec == Init /\ [][Next]_vars

-----------------------------------------------------------------------------
(***************************************************************************)
(* Properties.                                                             *)
(***************************************************************************)
\* However many uploads of one content race, and wherever one of them fails,
\* no row of a file is recorded twice.
ProcessedOnce == \A r \in RowIds : Len(records[r]) <= 1

\* COMPLETED means the whole file was looked at: every row has its record, and
\* the total and the three counts are those of the records.
CompletedIsWhole ==
  \A f \in Files : (batch[f] # NoBatch /\ batch[f].status = "COMPLETED") =>
    /\ batch[f].total = Len(Rows[f])
    /\ \A i \in 1 .. Len(Rows[f]) : records[<<f, i>>] # <<>>
    /\ \A m \in MatchStatus :
         batch[f].counts[m] =
           Cardinality({i \in 1 .. Len(Rows[f]) : records[<<f, i>>] = <<m>>})

\* Both reconciliations have to agree (README.md:32): a settled pair points at
\* a MATCHED record of that very payment with the amount the gateway reported.
SettledIsConfirmed ==
  \A e \in Events : \A i \in DOMAIN ledger[e] : ledger[e][i] # Pending =>
    LET by  == ledger[e][i]
        row == Rows[by[1]][by[2]]
    IN  /\ records[by] = <<"MATCHED">>
        /\ row.event = e
        /\ row.amount = Payment[e].amount
        /\ row.currency = Payment[e].currency

\* The first confirmation stands: a later file that names the payment again
\* does not settle its pair a second time.
FirstSettlementWins ==
  [][\A e \in Events : \A i \in DOMAIN ledger[e] : ledger[e][i] # Pending =>
       i \in DOMAIN ledger'[e] /\ ledger'[e][i] = ledger[e][i]]_vars

\* A MATCHED record flips the payment's ledger rows to SETTLED (README.md:238):
\* once no upload runs, no pair of a payment with a MATCHED record is pending.
MatchedIsSettled ==
  (\A q \in Requests : request[q].pc \notin Sites) =>
    \A r \in RowIds : records[r] = <<"MATCHED">> =>
      LET pairs == ledger[Rows[r[1]][r[2]].event]
      IN  \A i \in DOMAIN pairs : pairs[i] # Pending
=============================================================================
