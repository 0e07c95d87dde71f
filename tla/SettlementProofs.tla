-------------------------- MODULE SettlementProofs --------------------------
(***************************************************************************)
(* Theorems about Settlement for any payments, files and uploads, and any  *)
(* bound on what fails and on what is booked.                              *)
(***************************************************************************)
EXTENDS Settlement, FiniteSetTheorems, TLAPS

-----------------------------------------------------------------------------
(***************************************************************************)
(* Type correctness.                                                       *)
(***************************************************************************)
LEMMA Element ==
  ASSUME NEW S, NEW s \in Seq(S), NEW i \in 1 .. Len(s)
  PROVE  s[i] \in S
  OBVIOUS

\* The ids of a file's rows, and what a row holds.
LEMMA RowType ==
  ASSUME NEW f \in Files, NEW i \in 1 .. Len(Rows[f])
  PROVE  /\ <<f, i>> \in RowIds
         /\ Rows[f][i].event \in Events
         /\ \A found \in BOOLEAN : MatchSettlementRecord(Rows[f][i], found) \in MatchStatus
  <1>1. <<f, i>> \in RowIds
    BY DEF RowIds
  <1>2. Rows[f] \in Seq([event : Events, amount : Nat, currency : STRING, storable : BOOLEAN])
    BY SettlementAssumption
  <1>3. Rows[f][i] \in [event : Events, amount : Nat, currency : STRING, storable : BOOLEAN]
    BY ONLY <1>2, Element
  <1>4. Rows[f][i].event \in Events
    BY <1>3
  <1>5. \A found \in BOOLEAN : MatchSettlementRecord(Rows[f][i], found) \in MatchStatus
    BY DEF MatchSettlementRecord, MatchStatus
  <1> QED
    BY <1>1, <1>4, <1>5

LEMMA LengthType ==
  ASSUME NEW f \in Files
  PROVE  Len(Rows[f]) \in Nat
  BY SettlementAssumption

\* A row id names a file and one of its rows.
LEMMA RowIdParts ==
  ASSUME NEW r \in RowIds
  PROVE  \E f \in Files : \E i \in 1 .. Len(Rows[f]) : r = <<f, i>>
  BY DEF RowIds

\* The request of a row's step points at a row of its file.
LEMMA AtRow ==
  ASSUME TypeOK, NEW q \in Requests, request[q].pc \in {"lookup", "record", "settle"}
  PROVE  /\ FileOf(q) \in Files
         /\ request[q].next \in 1 .. Len(Rows[FileOf(q)])
         /\ RowId(q) \in RowIds
         /\ RowOf(q).event \in Events
         /\ MatchOf(q) \in MatchStatus
  <1>1. request[q] \in Local
    BY DEF TypeOK
  <1>2. FileOf(q) \in Files /\ request[q].found \in BOOLEAN /\ request[q].next \in Nat \ {0}
    BY <1>1 DEF Local, FileOf
  <1>3. request[q].next <= Len(Rows[FileOf(q)])
    BY DEF TypeOK, FileOf
  <1>4. request[q].next \in 1 .. Len(Rows[FileOf(q)])
    BY <1>2, <1>3, LengthType
  <1> QED
    BY <1>2, <1>4, RowType DEF RowId, RowOf, MatchOf, FileOf

\* What a step of the request q leaves to the others.
Moved(q) ==
  /\ \A p \in Requests : p # q => request'[p] = request[p]
  /\ request'[q].file = request[q].file

\* A request that only changes where it is.
LEMMA GotoType ==
  ASSUME TypeOK, NEW q \in Requests, NEW pc \in RequestPc, Goto(q, pc),
         pc \in {"lookup", "record", "settle"} =>
           request[q].next <= Len(Rows[request[q].file])
  PROVE  /\ request' \in [Requests -> Local]
         /\ \A p \in Requests :
              request'[p].pc \in {"lookup", "record", "settle"} =>
                request'[p].next <= Len(Rows[request'[p].file])
         /\ Moved(q)
         /\ request'[q] = [request[q] EXCEPT !.pc = pc]
  <1>1. request \in [Requests -> Local]
    BY DEF TypeOK
  <1>2. request' = [request EXCEPT ![q].pc = pc]
    BY DEF Goto
  <1>3. request'[q] = [request[q] EXCEPT !.pc = pc]
    BY <1>1, <1>2
  <1>4. request'[q] \in Local
    BY <1>1, <1>3 DEF Local
  <1>5. \A p \in Requests : p # q => request'[p] = request[p]
    BY <1>1, <1>2
  <1>6. request' \in [Requests -> Local]
    BY <1>1, <1>2, <1>4, <1>5
  <1>7. /\ request'[q].pc = pc
        /\ request'[q].file = request[q].file
        /\ request'[q].next = request[q].next
    BY <1>1, <1>3 DEF Local
  <1> QED
    BY <1>3, <1>5, <1>6, <1>7 DEF TypeOK, Moved

\* The bottom of the loop.
LEMMA CountedType ==
  ASSUME TypeOK, NEW q \in Requests, request[q].pc \in {"record", "settle"},
         request' = Counted(q)
  PROVE  /\ request' \in [Requests -> Local]
         /\ \A p \in Requests :
              request'[p].pc \in {"lookup", "record", "settle"} =>
                request'[p].next <= Len(Rows[request'[p].file])
         /\ Moved(q)
         /\ request'[q].pc = LoopAt(FileOf(q), request[q].next + 1)
         /\ request'[q].next = request[q].next + 1
         /\ request'[q].counts = [request[q].counts EXCEPT ![MatchOf(q)] = @ + 1]
  <1>1. request \in [Requests -> Local] /\ request[q] \in Local
    BY DEF TypeOK
  <1>2. PICK m \in MatchStatus : m = MatchOf(q)
    BY AtRow
  <1>3. PICK pc \in RequestPc : pc = LoopAt(FileOf(q), request[q].next + 1)
    BY DEF LoopAt, RequestPc, Sites
  <1>4. PICK c \in Counts : c = [request[q].counts EXCEPT ![m] = @ + 1]
    <2>1. request[q].counts \in [MatchStatus -> Nat]
      BY <1>1 DEF Local, Counts
    <2>2. [request[q].counts EXCEPT ![m] = @ + 1] \in [MatchStatus -> Nat]
      BY <1>2, <2>1
    <2> QED
      BY <2>2 DEF Counts
  <1>5. PICK n \in Nat \ {0} : n = request[q].next + 1
    BY <1>1 DEF Local
  <1>6. request' = [request EXCEPT ![q] =
                      [pc |-> pc, file |-> @.file, next |-> n, found |-> @.found, counts |-> c]]
    BY <1>1, <1>2, <1>3, <1>4, <1>5 DEF Counted, Local
  <1>7. /\ \A p \in Requests : p # q => request'[p] = request[p]
        /\ request'[q] = [pc |-> pc, file |-> request[q].file, next |-> n,
                          found |-> request[q].found, counts |-> c]
    BY <1>1, <1>6
  <1>8. request'[q] \in Local
    BY <1>1, <1>7 DEF Local
  <1>9. request' \in [Requests -> Local]
    BY <1>1, <1>6, <1>7, <1>8
  <1>10. pc \in {"lookup", "record", "settle"} => n <= Len(Rows[request[q].file])
    BY <1>3, <1>5 DEF LoopAt, FileOf
  <1> QED
    BY <1>2, <1>3, <1>4, <1>5, <1>7, <1>9, <1>10 DEF TypeOK, Moved

\* What the calls write has its type.
LEMMA BatchType ==
  ASSUME TypeOK, NEW q \in Requests
  PROVE  /\ FileOf(q) \in Files
         /\ NewBatch \in Batch
         /\ Final(q) \in Batch
         /\ \A b \in Batch : [batch EXCEPT ![FileOf(q)] = b] \in [Files -> Batch \cup {NoBatch}]
  <1>1. request[q] \in Local /\ batch \in [Files -> Batch \cup {NoBatch}]
    BY DEF TypeOK
  <1>2. FileOf(q) \in Files /\ request[q].counts \in Counts
    BY <1>1 DEF Local, FileOf
  <1>3. None \in Counts
    BY DEF None, Counts
  <1>4. NewBatch \in Batch
    BY <1>3 DEF NewBatch, Batch, BatchStatus
  <1>5. Final(q) \in Batch
    BY <1>2, LengthType DEF Final, Batch, BatchStatus
  <1> QED
    BY <1>1, <1>2, <1>4, <1>5

LEMMA RecordsType ==
  ASSUME TypeOK, NEW q \in Requests, request[q].pc = "record"
  PROVE  [records EXCEPT ![RowId(q)] = Append(@, MatchOf(q))] \in [RowIds -> Seq(MatchStatus)]
  <1>1. RowId(q) \in RowIds /\ MatchOf(q) \in MatchStatus
    BY AtRow
  <1>2. records \in [RowIds -> Seq(MatchStatus)]
    BY DEF TypeOK
  <1>3. Append(records[RowId(q)], MatchOf(q)) \in Seq(MatchStatus)
    BY <1>1, <1>2
  <1> QED
    BY <1>1, <1>2, <1>3

\* Settling keeps the pairs, and marks those that were pending.
LEMMA SettledType ==
  ASSUME TypeOK, NEW q \in Requests, request[q].pc = "settle"
  PROVE  /\ Settled(q) \in [Events -> Seq({Pending} \cup RowIds)]
         /\ \A e \in Events :
              /\ DOMAIN Settled(q)[e] = DOMAIN ledger[e]
              /\ \A i \in DOMAIN ledger[e] :
                   Settled(q)[e][i] =
                     IF e = RowOf(q).event /\ ledger[e][i] = Pending
                       THEN RowId(q) ELSE ledger[e][i]
  <1>1. RowId(q) \in RowIds /\ RowOf(q).event \in Events
    BY AtRow
  <1>2. ledger \in [Events -> Seq({Pending} \cup RowIds)]
    BY DEF TypeOK
  <1>3. PICK s \in Seq({Pending} \cup RowIds) : s = ledger[RowOf(q).event]
    BY <1>1, <1>2
  <1>4. PICK t : t = [i \in DOMAIN s |-> IF s[i] = Pending THEN RowId(q) ELSE s[i]]
    OBVIOUS
  <1>5. t \in Seq({Pending} \cup RowIds)
    BY <1>1, <1>3, <1>4
  <1>6. Settled(q) = [ledger EXCEPT ![RowOf(q).event] = t]
    BY <1>1, <1>2, <1>3, <1>4 DEF Settled
  <1>7. Settled(q) \in [Events -> Seq({Pending} \cup RowIds)]
    BY <1>1, <1>2, <1>5, <1>6
  <1>8. ASSUME NEW e \in Events
        PROVE  Settled(q)[e] = IF e = RowOf(q).event THEN t ELSE ledger[e]
    BY <1>2, <1>6
  <1>9. DOMAIN t = DOMAIN s /\ \A i \in DOMAIN s : t[i] = IF s[i] = Pending THEN RowId(q) ELSE s[i]
    BY <1>4
  <1> QED
    BY <1>3, <1>7, <1>8, <1>9

LEMMA EffectType ==
  ASSUME TypeOK, NEW q \in Requests, Effect(q) \/ UNCHANGED <<ledger, batch, records>>
  PROVE  /\ ledger' \in [Events -> Seq({Pending} \cup RowIds)]
         /\ batch' \in [Files -> Batch \cup {NoBatch}]
         /\ records' \in [RowIds -> Seq(MatchStatus)]
  <1>1. /\ ledger \in [Events -> Seq({Pending} \cup RowIds)]
        /\ batch \in [Files -> Batch \cup {NoBatch}]
        /\ records \in [RowIds -> Seq(MatchStatus)]
    BY DEF TypeOK
  <1>2. CASE UNCHANGED <<ledger, batch, records>>
    BY <1>1, <1>2
  <1>3. CASE Effect(q)
    BY <1>1, <1>3, BatchType, RecordsType, SettledType DEF Effect
  <1> QED
    BY <1>2, <1>3

\* An upload has counted nothing before it enters the row loop.
Starts ==
  \A q \in Requests : request[q].pc \in {"new", "find", "create"} =>
    request[q].next = 1 /\ request[q].counts = None

TypeInv == TypeOK /\ Starts

LEMMA TypeInit == Init => TypeInv
  <1> SUFFICES ASSUME Init PROVE TypeInv
    OBVIOUS
  <1>1. None \in Counts
    BY DEF None, Counts
  <1>2. \A f \in Files :
          [pc |-> "new", file |-> f, next |-> 1, found |-> FALSE, counts |-> None] \in Local
    BY <1>1 DEF Local, RequestPc
  <1>3. /\ request \in [Requests -> Local]
        /\ \A q \in Requests : /\ request[q].pc = "new"
                              /\ request[q].next = 1
                              /\ request[q].counts = None
    BY <1>2 DEF Init
  <1>4. /\ ledger \in [Events -> Seq({Pending} \cup RowIds)]
        /\ records \in [RowIds -> Seq(MatchStatus)]
        /\ batch \in [Files -> Batch \cup {NoBatch}]
    BY DEF Init
  <1>5. ingested \subseteq Events /\ faults \in Nat
    BY DEF Init
  <1> QED
    BY <1>3, <1>4, <1>5 DEF TypeOK, TypeInv, Starts

\* A step of one request keeps what the others have and, as long as it does
\* not go back to the start, every request as it began.
LEMMA StartsKept ==
  ASSUME Starts, NEW q \in Requests, Moved(q),
         request'[q].pc \in {"new", "find", "create"} =>
           /\ request[q].pc \in {"new", "find", "create"}
           /\ request'[q].next = request[q].next
           /\ request'[q].counts = request[q].counts
  PROVE  Starts'
  BY DEF Starts, Moved

LEMMA TypeNext == TypeInv /\ [Next]_vars => TypeInv'
  <1> SUFFICES ASSUME TypeInv, [Next]_vars PROVE TypeInv'
    OBVIOUS
  <1>0. /\ ingested \subseteq Events
        /\ ledger \in [Events -> Seq({Pending} \cup RowIds)]
        /\ batch \in [Files -> Batch \cup {NoBatch}]
        /\ records \in [RowIds -> Seq(MatchStatus)]
        /\ request \in [Requests -> Local]
        /\ faults \in Nat
        /\ TypeOK /\ Starts
    BY DEF TypeInv, TypeOK
  <1>1. ASSUME NEW q \in Requests, NEW pc \in RequestPc \ {"lookup", "settle", "record"},
               Goto(q, pc),
               pc \in {"new", "find", "create"} => request[q].pc \in {"new", "find", "create"},
               ledger' \in [Events -> Seq({Pending} \cup RowIds)],
               batch' \in [Files -> Batch \cup {NoBatch}],
               records' \in [RowIds -> Seq(MatchStatus)],
               ingested' = ingested, faults' \in Nat
        PROVE  TypeInv'
    <2>1. /\ request' \in [Requests -> Local]
          /\ \A p \in Requests :
               request'[p].pc \in {"lookup", "record", "settle"} =>
                 request'[p].next <= Len(Rows[request'[p].file])
          /\ Moved(q)
          /\ request'[q] = [request[q] EXCEPT !.pc = pc]
      BY <1>0, <1>1, GotoType
    <2>2. /\ request'[q].next = request[q].next
          /\ request'[q].counts = request[q].counts
          /\ request'[q].pc = pc
      BY <1>0, <2>1 DEF Local
    <2>3. Starts'
      BY <1>0, <1>1, <2>1, <2>2, StartsKept
    <2> QED
      BY <1>0, <1>1, <2>1, <2>3 DEF TypeInv, TypeOK
  <1>2. ASSUME NEW q \in Requests, Upload(q) PROVE TypeInv'
    BY <1>0, <1>1, <1>2 DEF Upload, RequestPc, Sites
  <1>3. ASSUME NEW q \in Requests, FindBatch(q) PROVE TypeInv'
    <2>1. PICK pc \in {"returned", "rejected", "create"} : Goto(q, pc)
      BY <1>3 DEF FindBatch
    <2> QED
      BY <1>0, <1>1, <1>3, <2>1 DEF FindBatch, RequestPc, Sites
  <1>4. ASSUME NEW q \in Requests, CreateBatch(q) PROVE TypeInv'
    <2>1. CASE Goto(q, "error") /\ UNCHANGED batch
      BY <1>0, <1>1, <1>4, <2>1 DEF CreateBatch, RequestPc, Sites
    <2>2. CASE /\ batch' = [batch EXCEPT ![FileOf(q)] = NewBatch]
               /\ Goto(q, LoopAt(FileOf(q), 1))
      <3>1. request[q].next = 1
        BY <1>0, <1>4 DEF Starts, CreateBatch
      <3>2. PICK pc \in {"lookup", "finalize"} : pc = LoopAt(FileOf(q), 1)
        BY DEF LoopAt
      <3>3. pc = "lookup" => request[q].next <= Len(Rows[request[q].file])
        BY <3>1, <3>2 DEF LoopAt, FileOf
      <3>4. /\ request' \in [Requests -> Local]
            /\ \A p \in Requests :
                 request'[p].pc \in {"lookup", "record", "settle"} =>
                   request'[p].next <= Len(Rows[request'[p].file])
            /\ Moved(q)
            /\ request'[q] = [request[q] EXCEPT !.pc = pc]
        BY <1>0, <2>2, <3>2, <3>3, GotoType DEF RequestPc, Sites
      <3>5. request'[q].pc = pc
        BY <1>0, <3>4 DEF Local
      <3>6. Starts'
        BY <1>0, <3>2, <3>4, <3>5, StartsKept
      <3>7. batch' \in [Files -> Batch \cup {NoBatch}]
        BY <1>0, <2>2, BatchType
      <3> QED
        BY <1>0, <1>4, <3>4, <3>6, <3>7 DEF CreateBatch, TypeInv, TypeOK
    <2> QED
      BY <1>4, <2>1, <2>2 DEF CreateBatch
  <1>5. ASSUME NEW q \in Requests, Lookup(q) PROVE TypeInv'
    <2>1. request[q].pc = "lookup" /\ request[q] \in Local
      BY <1>0, <1>5 DEF Lookup
    <2>2. PICK b \in BOOLEAN : b = (RowOf(q).event \in ingested)
      <3>1. CASE RowOf(q).event \in ingested
        BY <3>1, (RowOf(q).event \in ingested) = TRUE
      <3>2. CASE RowOf(q).event \notin ingested
        BY <3>2, (RowOf(q).event \in ingested) = FALSE
      <3> QED
        BY <3>1, <3>2
    <2>3. request' = [request EXCEPT ![q].pc = "record", ![q].found = b]
      BY <1>5, <2>2 DEF Lookup
    <2>4. /\ \A p \in Requests : p # q => request'[p] = request[p]
          /\ request'[q] = [request[q] EXCEPT !.pc = "record", !.found = b]
      BY <1>0, <2>3
    <2>5. /\ request'[q] \in Local
          /\ request'[q].pc = "record"
          /\ request'[q].next = request[q].next
          /\ request'[q].file = request[q].file
      BY <2>1, <2>4 DEF Local, RequestPc, Sites
    <2>6. request' \in [Requests -> Local]
      BY <1>0, <2>3, <2>4, <2>5
    <2>7. Starts'
      BY <1>0, <2>4, <2>5, StartsKept DEF Moved
    <2>8. \A p \in Requests :
            request'[p].pc \in {"lookup", "record", "settle"} =>
              request'[p].next <= Len(Rows[request'[p].file])
      BY <1>0, <2>1, <2>4, <2>5 DEF TypeOK
    <2> QED
      BY <1>0, <1>5, <2>6, <2>7, <2>8 DEF Lookup, TypeInv, TypeOK
  <1>6. ASSUME NEW q \in Requests, request[q].pc \in {"record", "settle"},
               request' = Counted(q),
               ledger' \in [Events -> Seq({Pending} \cup RowIds)],
               records' \in [RowIds -> Seq(MatchStatus)],
               ingested' = ingested, batch' = batch, faults' = faults
        PROVE  TypeInv'
    <2>1. /\ request' \in [Requests -> Local]
          /\ \A p \in Requests :
               request'[p].pc \in {"lookup", "record", "settle"} =>
                 request'[p].next <= Len(Rows[request'[p].file])
          /\ Moved(q)
          /\ request'[q].pc = LoopAt(FileOf(q), request[q].next + 1)
      BY <1>0, <1>6, CountedType
    <2>2. request'[q].pc \notin {"new", "find", "create"}
      BY <2>1 DEF LoopAt
    <2>3. Starts'
      BY <1>0, <2>1, <2>2, StartsKept
    <2> QED
      BY <1>0, <1>6, <2>1, <2>3 DEF TypeInv, TypeOK
  <1>7. ASSUME NEW q \in Requests, CreateRecord(q) PROVE TypeInv'
    <2>1. request[q].pc = "record" /\ UNCHANGED <<ingested, ledger, batch, faults>>
      BY <1>7 DEF CreateRecord
    <2>2. records' \in [RowIds -> Seq(MatchStatus)]
      BY <1>0, <1>7, <2>1, RecordsType DEF CreateRecord
    <2>3. CASE Goto(q, "error")
      BY <1>0, <1>1, <2>1, <2>2, <2>3 DEF RequestPc, Sites
    <2>4. CASE Goto(q, "settle")
      <3>1. /\ request' \in [Requests -> Local]
            /\ \A p \in Requests :
                 request'[p].pc \in {"lookup", "record", "settle"} =>
                   request'[p].next <= Len(Rows[request'[p].file])
            /\ Moved(q)
            /\ request'[q] = [request[q] EXCEPT !.pc = "settle"]
        <4>1. request[q].next <= Len(Rows[request[q].file])
          BY <1>0, <2>1 DEF TypeOK
        <4> QED
          BY <1>0, <2>4, <4>1, GotoType DEF RequestPc, Sites
      <3>2. request'[q].pc = "settle"
        BY <1>0, <3>1 DEF Local
      <3>3. Starts'
        BY <1>0, <3>1, <3>2, StartsKept
      <3> QED
        BY <1>0, <2>1, <2>2, <3>1, <3>3 DEF TypeInv, TypeOK
    <2>5. CASE request' = Counted(q)
      BY <1>0, <1>6, <2>1, <2>2, <2>5
    <2> QED
      BY <1>7, <2>3, <2>4, <2>5 DEF CreateRecord
  <1>8. ASSUME NEW q \in Requests, Settle(q) PROVE TypeInv'
    BY <1>0, <1>6, <1>8, SettledType DEF Settle
  <1>9. ASSUME NEW q \in Requests, Finalize(q) PROVE TypeInv'
    <2>1. batch' \in [Files -> Batch \cup {NoBatch}]
      BY <1>0, <1>9, BatchType DEF Finalize
    <2> QED
      BY <1>0, <1>1, <1>9, <2>1 DEF Finalize, RequestPc, Sites
  <1>10. ASSUME NEW q \in Requests, Fails(q) PROVE TypeInv'
    <2>1. /\ ledger' \in [Events -> Seq({Pending} \cup RowIds)]
          /\ batch' \in [Files -> Batch \cup {NoBatch}]
          /\ records' \in [RowIds -> Seq(MatchStatus)]
      BY <1>0, <1>10, EffectType DEF Fails
    <2>2. faults' \in Nat
      BY <1>0, <1>10 DEF Fails
    <2> QED
      BY <1>0, <1>1, <1>10, <2>1, <2>2 DEF Fails, RequestPc, Sites
  <1>11. ASSUME NEW e \in Events, Ingest(e) PROVE TypeInv'
    BY <1>0, <1>11 DEF Ingest, TypeInv, TypeOK, Starts
  <1>12. ASSUME NEW e \in Events, Book(e) PROVE TypeInv'
    <2>1. ledger' \in [Events -> Seq({Pending} \cup RowIds)]
      BY <1>0, <1>12 DEF Book
    <2> QED
      BY <1>0, <1>12, <2>1 DEF Book, TypeInv, TypeOK, Starts
  <1>13. CASE UNCHANGED vars
    BY <1>0, <1>13 DEF vars, TypeInv, TypeOK, Starts
  <1> QED
    BY <1>2, <1>3, <1>4, <1>5, <1>7, <1>8, <1>9, <1>10, <1>11, <1>12, <1>13
       DEF Next, Process

\* Every variable keeps its type, and no upload looks past the rows of its
\* file, for any payments and files and whatever fails.
THEOREM TypeCorrect == Spec => []TypeOK
  <1>1. TypeInv => TypeOK
    BY DEF TypeInv
  <1> QED
    BY <1>1, TypeInit, TypeNext, PTL DEF Spec

-----------------------------------------------------------------------------
(***************************************************************************)
(* No row is recorded twice: the unique hash lets one upload into the row  *)
(* loop of a file, ever, and the loop meets a row without a record.        *)
(***************************************************************************)
InLoop(q) == request[q].pc \in {"lookup", "record", "settle", "finalize"}

\* The rows of its file that an upload in the loop has recorded.
Recorded(q) ==
  IF request[q].pc = "settle" THEN 1 .. request[q].next ELSE 1 .. (request[q].next - 1)

\* An upload in the loop is the only one of its file, whose batch is PROCESSING.
OwnInv ==
  \A q \in Requests : InLoop(q) =>
    /\ batch[FileOf(q)] = NewBatch
    /\ \A p \in Requests : InLoop(p) /\ FileOf(p) = FileOf(q) => p = q

\* Which rows have a record: none of a file nobody began, and of a file in the
\* loop those the loop has passed.
RowsInv ==
  /\ \A r \in RowIds : records[r] = <<>> \/ \E m \in MatchStatus : records[r] = <<m>>
  /\ \A f \in Files : batch[f] = NoBatch =>
       \A i \in 1 .. Len(Rows[f]) : records[<<f, i>>] = <<>>
  /\ \A q \in Requests : InLoop(q) =>
       \A i \in 1 .. Len(Rows[FileOf(q)]) :
         records[<<FileOf(q), i>>] # <<>> <=> i \in Recorded(q)
  /\ \A q \in Requests :
       /\ request[q].pc = "settle" => MatchOf(q) = "MATCHED" /\ records[RowId(q)] = <<"MATCHED">>
       /\ request[q].pc = "finalize" => request[q].next = Len(Rows[FileOf(q)]) + 1

LoopInv == TypeInv /\ OwnInv /\ RowsInv

\* A step of q leaves at most one upload in the loop of its file.
LEMMA OwnKept ==
  ASSUME LoopInv, NEW q \in Requests, Moved(q),
         \/ batch' = batch /\ (InLoop(q)' => InLoop(q))
         \/ /\ InLoop(q) \/ batch[FileOf(q)] = NoBatch
            /\ \E b \in Batch : /\ batch' = [batch EXCEPT ![FileOf(q)] = b]
                                /\ InLoop(q)' => batch[FileOf(q)] = NoBatch /\ b = NewBatch
  PROVE  OwnInv' /\ \A f \in Files : batch'[f] = NoBatch => batch[f] = NoBatch
  <1>1. /\ batch \in [Files -> Batch \cup {NoBatch}]
        /\ NewBatch \in Batch
        /\ \A p \in Requests : FileOf(p) \in Files
    BY BatchType DEF LoopInv, TypeInv, TypeOK
  <1>2. \A p \in Requests : FileOf(p)' = FileOf(p) /\ (p # q => InLoop(p)' = InLoop(p))
    BY DEF Moved, InLoop, FileOf
  <1>3. \A p \in Requests : InLoop(p) => batch[FileOf(p)] # NoBatch
    BY <1>1, SettlementAssumption DEF LoopInv, OwnInv
  <1>4. CASE batch' = batch /\ (InLoop(q)' => InLoop(q))
    BY <1>2, <1>4 DEF LoopInv, OwnInv, NewBatch
  <1>5. CASE /\ InLoop(q) \/ batch[FileOf(q)] = NoBatch
             /\ \E b \in Batch : /\ batch' = [batch EXCEPT ![FileOf(q)] = b]
                                 /\ InLoop(q)' => batch[FileOf(q)] = NoBatch /\ b = NewBatch
    <2>1. PICK b \in Batch : /\ batch' = [batch EXCEPT ![FileOf(q)] = b]
                             /\ InLoop(q)' => batch[FileOf(q)] = NoBatch /\ b = NewBatch
      BY <1>5
    <2>2. \A f \in Files : batch'[f] = IF f = FileOf(q) THEN b ELSE batch[f]
      BY <1>1, <2>1
    <2>3. \A p \in Requests : p # q /\ InLoop(p) => FileOf(p) # FileOf(q)
      BY <1>3, <1>5 DEF LoopInv, OwnInv
    <2> QED
      BY <1>1, <1>2, <2>1, <2>2, <2>3, SettlementAssumption DEF LoopInv, OwnInv, NewBatch
  <1> QED
    BY <1>4, <1>5

\* A step of q writes at most the record of its own row, and keeps its place.
LEMMA RowsKept ==
  ASSUME LoopInv, TypeInv', NEW q \in Requests, Moved(q),
         \A f \in Files : batch'[f] = NoBatch => batch[f] = NoBatch,
         \A r \in RowIds : records'[r] # records[r] =>
           /\ r = RowId(q) /\ InLoop(q)
           /\ \E m \in MatchStatus : records'[r] = <<m>>,
         InLoop(q)' =>
           /\ \A i \in 1 .. Len(Rows[FileOf(q)]) :
                records'[<<FileOf(q), i>>] # <<>> <=> i \in Recorded(q)'
           /\ request'[q].pc = "settle" =>
                MatchOf(q)' = "MATCHED" /\ records'[RowId(q)'] = <<"MATCHED">>
           /\ request'[q].pc = "finalize" => request'[q].next = Len(Rows[FileOf(q)]) + 1
  PROVE  RowsInv'
  <1>1. /\ batch \in [Files -> Batch \cup {NoBatch}]
        /\ NewBatch \in Batch
        /\ \A p \in Requests : FileOf(p) \in Files
    BY BatchType DEF LoopInv, TypeInv, TypeOK
  <1>2. \A p \in Requests : InLoop(p) => batch[FileOf(p)] # NoBatch
    BY <1>1, SettlementAssumption DEF LoopInv, OwnInv
  <1>3. FileOf(q)' = FileOf(q)
    BY DEF Moved, FileOf
  <1>4. \A p \in Requests : p # q =>
          /\ request'[p] = request[p]
          /\ InLoop(p)' = InLoop(p)
          /\ Recorded(p)' = Recorded(p)
          /\ MatchOf(p)' = MatchOf(p)
          /\ RowId(p)' = RowId(p)
          /\ FileOf(p)' = FileOf(p)
    BY DEF Moved, InLoop, Recorded, MatchOf, RowOf, RowId, FileOf
  <1>5. \A f \in Files : \A i \in 1 .. Len(Rows[f]) : <<f, i>> \in RowIds
    BY RowType
  <1>6. \A f \in Files : batch'[f] = NoBatch =>
          \A i \in 1 .. Len(Rows[f]) : records'[<<f, i>>] = <<>>
    <2> SUFFICES ASSUME NEW f \in Files, batch'[f] = NoBatch, NEW i \in 1 .. Len(Rows[f])
                 PROVE  records'[<<f, i>>] = <<>>
      OBVIOUS
    <2>1. records[<<f, i>>] = <<>> /\ <<f, i>> \in RowIds /\ batch[f] = NoBatch
      BY <1>5 DEF LoopInv, RowsInv
    <2>2. f # FileOf(q) \/ ~InLoop(q)
      BY <1>2, <2>1
    <2> QED
      BY <2>1, <2>2 DEF RowId, FileOf
  <1>7. ASSUME NEW p \in Requests, p # q, InLoop(p)
        PROVE  \A i \in 1 .. Len(Rows[FileOf(p)]) :
                 records'[<<FileOf(p), i>>] = records[<<FileOf(p), i>>]
    <2>1. FileOf(p) # FileOf(q) \/ ~InLoop(q)
      BY <1>7 DEF LoopInv, OwnInv
    <2> QED
      BY <1>1, <1>5, <2>1 DEF RowId, FileOf
  <1>8. ASSUME NEW p \in Requests, InLoop(p)'
        PROVE  \A i \in 1 .. Len(Rows[FileOf(p)']) :
                 records'[<<FileOf(p)', i>>] # <<>> <=> i \in Recorded(p)'
    <2>1. CASE p = q
      BY <1>3, <1>8, <2>1
    <2>2. CASE p # q
      BY <1>4, <1>7, <1>8, <2>2 DEF LoopInv, RowsInv
    <2> QED
      BY <2>1, <2>2
  <1>9. ASSUME NEW p \in Requests
        PROVE  /\ request'[p].pc = "settle" =>
                    MatchOf(p)' = "MATCHED" /\ records'[RowId(p)'] = <<"MATCHED">>
               /\ request'[p].pc = "finalize" => request'[p].next = Len(Rows[FileOf(p)']) + 1
    <2>1. CASE p = q
      BY <1>3, <2>1 DEF InLoop
    <2>2. CASE p # q
      <3>1. /\ request[p].pc = "settle" => MatchOf(p) = "MATCHED" /\ records[RowId(p)] = <<"MATCHED">>
            /\ request[p].pc = "finalize" => request[p].next = Len(Rows[FileOf(p)]) + 1
        BY DEF LoopInv, RowsInv
      <3>2. request[p].pc = "settle" => records'[RowId(p)] = records[RowId(p)]
        <4> SUFFICES ASSUME request[p].pc = "settle"
                     PROVE  records'[RowId(p)] = records[RowId(p)]
          OBVIOUS
        <4>1. request[p].next \in 1 .. Len(Rows[FileOf(p)])
          BY AtRow DEF LoopInv, TypeInv
        <4> QED
          BY <1>7, <2>2, <4>1 DEF InLoop, RowId, FileOf
      <3> QED
        BY <1>4, <2>2, <3>1, <3>2
    <2> QED
      BY <2>1, <2>2
  <1>10. \A r \in RowIds : records'[r] = <<>> \/ \E m \in MatchStatus : records'[r] = <<m>>
    BY DEF LoopInv, RowsInv
  <1> QED
    BY <1>6, <1>8, <1>9, <1>10 DEF RowsInv

\* The record of the row a request is at.
LEMMA RecordStep ==
  ASSUME LoopInv, NEW q \in Requests, request[q].pc = "record",
         records' = [records EXCEPT ![RowId(q)] = Append(@, MatchOf(q))]
  PROVE  /\ RowId(q) \in RowIds
         /\ MatchOf(q) \in MatchStatus
         /\ records[RowId(q)] = <<>>
         /\ records'[RowId(q)] = <<MatchOf(q)>>
         /\ \A r \in RowIds : r # RowId(q) => records'[r] = records[r]
  <1>1. /\ request[q].next \in 1 .. Len(Rows[FileOf(q)])
        /\ RowId(q) \in RowIds
        /\ MatchOf(q) \in MatchStatus
        /\ records \in [RowIds -> Seq(MatchStatus)]
        /\ request[q].next \in Nat
        /\ FileOf(q) \in Files
    BY AtRow, LengthType DEF LoopInv, TypeInv, TypeOK
  <1>2. request[q].next \notin Recorded(q)
    BY <1>1 DEF Recorded
  <1>3. records[RowId(q)] = <<>>
    BY <1>1, <1>2 DEF LoopInv, RowsInv, InLoop, RowId, FileOf
  <1>4. Append(<<>>, MatchOf(q)) = <<MatchOf(q)>>
    OBVIOUS
  <1> QED
    BY <1>1, <1>3, <1>4

\* A step that takes q out of the loop, or leaves it outside of it.
LEMMA Outside ==
  ASSUME LoopInv, TypeInv', NEW q \in Requests, NEW pc \in RequestPc, Goto(q, pc),
         pc \notin {"lookup", "record", "settle", "finalize"},
         Effect(q) \/ UNCHANGED <<batch, records>>
            \/ (/\ request[q].pc = "finalize"
                /\ batch' = [batch EXCEPT ![FileOf(q)] = Final(q)]
                /\ UNCHANGED records)
  PROVE  LoopInv'
  <1>1. TypeOK /\ request[q] \in Local
    BY DEF LoopInv, TypeInv, TypeOK
  <1>2. Moved(q) /\ request'[q] = [request[q] EXCEPT !.pc = pc]
    BY <1>1, GotoType
  <1>3. request'[q].pc = pc /\ ~InLoop(q)'
    BY <1>1, <1>2 DEF Local, InLoop
  <1>4. /\ \/ batch' = batch
           \/ /\ InLoop(q) \/ batch[FileOf(q)] = NoBatch
              /\ \E b \in Batch : batch' = [batch EXCEPT ![FileOf(q)] = b]
    BY <1>1, BatchType DEF Effect, InLoop
  <1>5. OwnInv' /\ \A f \in Files : batch'[f] = NoBatch => batch[f] = NoBatch
    BY <1>2, <1>3, <1>4, OwnKept
  <1>6. \A r \in RowIds : records'[r] # records[r] =>
          /\ r = RowId(q) /\ InLoop(q)
          /\ \E m \in MatchStatus : records'[r] = <<m>>
    <2>1. CASE records' = records
      BY <2>1
    <2>2. CASE /\ request[q].pc = "record"
               /\ records' = [records EXCEPT ![RowId(q)] = Append(@, MatchOf(q))]
      BY <2>2, RecordStep DEF InLoop
    <2> QED
      BY <2>1, <2>2 DEF Effect
  <1>7. RowsInv'
    BY <1>2, <1>3, <1>5, <1>6, RowsKept
  <1> QED
    BY <1>5, <1>7 DEF LoopInv

\* The bottom of the loop, once the row has its record.
LEMMA NextRow ==
  ASSUME LoopInv, TypeInv', NEW q \in Requests, request[q].pc \in {"record", "settle"},
         request' = Counted(q), batch' = batch,
         \A r \in RowIds : r # RowId(q) => records'[r] = records[r],
         records'[RowId(q)] = <<MatchOf(q)>>
  PROVE  LoopInv'
  <1>1. /\ TypeOK
        /\ request[q].next \in 1 .. Len(Rows[FileOf(q)])
        /\ FileOf(q) \in Files
        /\ RowId(q) \in RowIds
        /\ MatchOf(q) \in MatchStatus
        /\ Len(Rows[FileOf(q)]) \in Nat
    BY AtRow, LengthType DEF LoopInv, TypeInv
  <1>2. /\ Moved(q)
        /\ request'[q].pc = LoopAt(FileOf(q), request[q].next + 1)
        /\ request'[q].next = request[q].next + 1
    BY <1>1, CountedType
  <1>3. InLoop(q) /\ InLoop(q)'
    BY <1>2 DEF InLoop, LoopAt
  <1>4. OwnInv' /\ \A f \in Files : batch'[f] = NoBatch => batch[f] = NoBatch
    BY <1>2, <1>3, OwnKept
  <1>5. /\ Recorded(q)' = 1 .. request[q].next
        /\ request'[q].pc # "settle"
        /\ request'[q].pc = "finalize" => request'[q].next = Len(Rows[FileOf(q)]) + 1
    BY <1>1, <1>2 DEF Recorded, LoopAt
  <1>6. ASSUME NEW i \in 1 .. Len(Rows[FileOf(q)])
        PROVE  i \in Recorded(q) \/ i = request[q].next <=> i \in Recorded(q)'
    <2>1. i \in Recorded(q) \/ i = request[q].next <=> i \in 1 .. request[q].next
      BY <1>1 DEF Recorded
    <2> QED
      BY <1>5, <2>1
  <1>7. ASSUME NEW i \in 1 .. Len(Rows[FileOf(q)])
        PROVE  records'[<<FileOf(q), i>>] # <<>> <=> i \in Recorded(q)'
    <2>1. CASE i = request[q].next
      <3>1. RowId(q) = <<FileOf(q), i>> /\ <<MatchOf(q)>> # <<>>
        BY <2>1 DEF RowId, FileOf
      <3> QED
        BY <1>6, <2>1, <3>1
    <2>2. CASE i # request[q].next
      <3>1. <<FileOf(q), i>> \in RowIds /\ <<FileOf(q), i>> # RowId(q)
        BY <1>1, <2>2, RowType DEF RowId, FileOf
      <3>2. records[<<FileOf(q), i>>] # <<>> <=> i \in Recorded(q)
        BY <1>3 DEF LoopInv, RowsInv
      <3> QED
        BY <1>6, <2>2, <3>1, <3>2
    <2> QED
      BY <2>1, <2>2
  <1>8. RowsInv'
    BY <1>1, <1>2, <1>3, <1>4, <1>5, <1>7, RowsKept
  <1> QED
    BY <1>4, <1>8 DEF LoopInv

LEMMA LoopInit == Init => LoopInv
  <1> SUFFICES ASSUME Init PROVE LoopInv
    OBVIOUS
  <1>1. \A q \in Requests : request[q].pc = "new"
    BY DEF Init
  <1>2. \A r \in RowIds : records[r] = <<>>
    BY DEF Init
  <1>3. \A f \in Files : \A i \in 1 .. Len(Rows[f]) : records[<<f, i>>] = <<>>
    BY <1>2, RowType
  <1> QED
    BY <1>1, <1>2, <1>3, TypeInit DEF LoopInv, OwnInv, RowsInv, InLoop

LEMMA LoopNext == LoopInv /\ [Next]_vars => LoopInv'
  <1> SUFFICES ASSUME LoopInv, [Next]_vars PROVE LoopInv'
    OBVIOUS
  <1>0. TypeInv' /\ TypeOK /\ Starts /\ \A q \in Requests : request[q] \in Local
    BY TypeNext DEF LoopInv, TypeInv, TypeOK
  <1>1. ASSUME NEW q \in Requests, Upload(q) PROVE LoopInv'
    BY <1>0, <1>1, Outside DEF Upload, RequestPc, Sites
  <1>2. ASSUME NEW q \in Requests, FindBatch(q) PROVE LoopInv'
    <2>1. PICK pc \in {"returned", "rejected", "create"} : Goto(q, pc)
      BY <1>2 DEF FindBatch
    <2> QED
      BY <1>0, <1>2, <2>1, Outside DEF FindBatch, RequestPc, Sites
  <1>3. ASSUME NEW q \in Requests, CreateBatch(q) PROVE LoopInv'
    <2>1. CASE Goto(q, "error") /\ UNCHANGED batch
      BY <1>0, <1>3, <2>1, Outside DEF CreateBatch, RequestPc, Sites
    <2>2. CASE /\ batch[FileOf(q)] = NoBatch
               /\ batch' = [batch EXCEPT ![FileOf(q)] = NewBatch]
               /\ Goto(q, LoopAt(FileOf(q), 1))
      <3>1. request[q].next = 1 /\ FileOf(q) \in Files /\ NewBatch \in Batch
        BY <1>0, <1>3, BatchType DEF Starts, CreateBatch
      <3>2. PICK pc \in {"lookup", "finalize"} : pc = LoopAt(FileOf(q), 1)
        BY DEF LoopAt
      <3>3. pc = "lookup" => request[q].next <= Len(Rows[request[q].file])
        BY <3>1, <3>2 DEF LoopAt, FileOf
      <3>4. Moved(q) /\ request'[q] = [request[q] EXCEPT !.pc = pc]
        BY <1>0, <2>2, <3>2, <3>3, GotoType DEF RequestPc, Sites
      <3>5. request'[q].pc = pc /\ request'[q].next = 1
        BY <1>0, <3>1, <3>4 DEF Local
      <3>6. OwnInv' /\ \A f \in Files : batch'[f] = NoBatch => batch[f] = NoBatch
        BY <2>2, <3>1, <3>4, OwnKept
      <3>7. records' = records
        BY <1>3 DEF CreateBatch
      <3>8. Recorded(q)' = {}
        BY <3>2, <3>5 DEF Recorded
      <3>9. \A i \in 1 .. Len(Rows[FileOf(q)]) :
              records'[<<FileOf(q), i>>] # <<>> <=> i \in Recorded(q)'
        BY <2>2, <3>1, <3>7, <3>8 DEF LoopInv, RowsInv
      <3>10. pc = "finalize" => Len(Rows[FileOf(q)]) + 1 = 1
        BY <3>1, <3>2, LengthType DEF LoopAt
      <3>11. RowsInv'
        BY <1>0, <3>2, <3>4, <3>5, <3>6, <3>7, <3>9, <3>10, RowsKept
      <3> QED
        BY <1>0, <3>6, <3>11 DEF LoopInv
    <2> QED
      BY <1>3, <2>1, <2>2 DEF CreateBatch
  <1>4. ASSUME NEW q \in Requests, Lookup(q) PROVE LoopInv'
    <2>1. /\ request[q].pc = "lookup"
          /\ batch' = batch /\ records' = records
          /\ FileOf(q) \in Files
          /\ request \in [Requests -> Local]
      BY <1>0, <1>4, BatchType DEF Lookup, TypeOK
    <2>2. /\ \A p \in Requests : p # q => request'[p] = request[p]
          /\ request'[q] = [request[q] EXCEPT !.pc = "record",
                                             !.found = RowOf(q).event \in ingested]
      BY <1>4, <2>1 DEF Lookup
    <2>3. /\ request'[q].pc = "record"
          /\ request'[q].next = request[q].next
          /\ request'[q].file = request[q].file
      BY <1>0, <2>2 DEF Local
    <2>4. Moved(q) /\ InLoop(q) /\ Recorded(q)' = Recorded(q)
      BY <2>1, <2>2, <2>3 DEF Moved, InLoop, Recorded
    <2>5. OwnInv' /\ \A f \in Files : batch'[f] = NoBatch => batch[f] = NoBatch
      BY <2>1, <2>4, OwnKept
    <2>6. RowsInv'
      BY <1>0, <2>1, <2>3, <2>4, <2>5, RowsKept DEF LoopInv, RowsInv
    <2> QED
      BY <1>0, <2>5, <2>6 DEF LoopInv
  <1>5. ASSUME NEW q \in Requests, CreateRecord(q) PROVE LoopInv'
    <2>1. request[q].pc = "record" /\ batch' = batch /\ InLoop(q)
      BY <1>5 DEF CreateRecord, InLoop
    <2>2. CASE ~RowOf(q).storable
      BY <1>0, <1>5, <2>1, <2>2, Outside DEF CreateRecord, RequestPc, Sites
    <2>3. CASE RowOf(q).storable
      <3>1. records' = [records EXCEPT ![RowId(q)] = Append(@, MatchOf(q))]
        BY <1>5, <2>3 DEF CreateRecord
      <3>2. /\ RowId(q) \in RowIds
            /\ MatchOf(q) \in MatchStatus
            /\ records'[RowId(q)] = <<MatchOf(q)>>
            /\ \A r \in RowIds : r # RowId(q) => records'[r] = records[r]
        BY <2>1, <3>1, RecordStep
      <3>3. CASE MatchOf(q) # "MATCHED"
        BY <1>0, <1>5, <2>1, <2>3, <3>2, <3>3, NextRow DEF CreateRecord
      <3>4. CASE MatchOf(q) = "MATCHED"
        <4>1. Goto(q, "settle")
          BY <1>5, <2>3, <3>4 DEF CreateRecord
        <4>2. /\ FileOf(q) \in Files
              /\ request[q].next \in 1 .. Len(Rows[FileOf(q)])
              /\ Len(Rows[FileOf(q)]) \in Nat
          BY <1>0, <2>1, AtRow, LengthType
        <4>3. Moved(q) /\ request'[q] = [request[q] EXCEPT !.pc = "settle"]
          <5>1. request[q].next <= Len(Rows[request[q].file])
            BY <4>2 DEF FileOf
          <5>2. "settle" \in RequestPc
            BY DEF RequestPc, Sites
          <5> QED
            BY <1>0, <4>1, <5>1, <5>2, GotoType
        <4>4. /\ request'[q].pc = "settle"
              /\ request'[q].next = request[q].next
              /\ request'[q].file = request[q].file
              /\ request'[q].found = request[q].found
          BY <1>0, <4>3 DEF Local
        <4>5. /\ MatchOf(q)' = "MATCHED"
              /\ RowId(q)' = RowId(q)
              /\ Recorded(q)' = 1 .. request[q].next
          BY <3>4, <4>4 DEF MatchOf, RowOf, FileOf, RowId, Recorded
        <4>6. OwnInv' /\ \A f \in Files : batch'[f] = NoBatch => batch[f] = NoBatch
          BY <2>1, <4>3, OwnKept
        <4>7. ASSUME NEW i \in 1 .. Len(Rows[FileOf(q)])
              PROVE  records'[<<FileOf(q), i>>] # <<>> <=> i \in Recorded(q)'
          <5>1. records[<<FileOf(q), i>>] # <<>> <=> i \in Recorded(q)
            BY <2>1 DEF LoopInv, RowsInv
          <5>2. i \in Recorded(q) \/ i = request[q].next <=> i \in Recorded(q)'
            <6>1. i \in Recorded(q) \/ i = request[q].next <=> i \in 1 .. request[q].next
              BY <2>1, <4>2 DEF Recorded
            <6> QED
              BY <4>5, <6>1
          <5>3. CASE i = request[q].next
            <6>1. RowId(q) = <<FileOf(q), i>> /\ <<MatchOf(q)>> # <<>>
              BY <5>3 DEF RowId, FileOf
            <6> QED
              BY <3>2, <5>2, <5>3, <6>1
          <5>4. CASE i # request[q].next
            <6>1. <<FileOf(q), i>> \in RowIds /\ <<FileOf(q), i>> # RowId(q)
              BY <4>2, <5>4, RowType DEF RowId, FileOf
            <6> QED
              BY <3>2, <5>1, <5>2, <5>4, <6>1
          <5> QED
            BY <5>3, <5>4
        <4>8. RowsInv'
          BY <1>0, <2>1, <3>2, <3>4, <4>3, <4>4, <4>5, <4>6, <4>7, RowsKept
        <4> QED
          BY <1>0, <4>6, <4>8 DEF LoopInv
      <3> QED
        BY <3>3, <3>4
    <2> QED
      BY <2>2, <2>3
  <1>6. ASSUME NEW q \in Requests, Settle(q) PROVE LoopInv'
    <2>1. request[q].pc = "settle" /\ batch' = batch /\ records' = records /\ request' = Counted(q)
      BY <1>6 DEF Settle
    <2>2. records[RowId(q)] = <<MatchOf(q)>>
      BY <2>1 DEF LoopInv, RowsInv
    <2> QED
      BY <1>0, <2>1, <2>2, NextRow
  <1>7. ASSUME NEW q \in Requests, Finalize(q) PROVE LoopInv'
    BY <1>0, <1>7, Outside DEF Finalize, RequestPc
  <1>8. ASSUME NEW q \in Requests, Fails(q) PROVE LoopInv'
    BY <1>0, <1>8, Outside DEF Fails, RequestPc
  <1>9. ASSUME UNCHANGED <<batch, records, request>> PROVE LoopInv'
    BY <1>0, <1>9 DEF LoopInv, OwnInv, RowsInv, InLoop, FileOf, Recorded, MatchOf, RowOf, RowId
  <1> QED
    BY <1>1, <1>2, <1>3, <1>4, <1>5, <1>6, <1>7, <1>8, <1>9
       DEF Next, Process, Ingest, Book, vars

\* However many uploads of one content race, and wherever one of them fails,
\* no row of a file is recorded twice.
THEOREM RecordedOnce == Spec => []ProcessedOnce
  <1>1. LoopInv => ProcessedOnce
    <2> SUFFICES ASSUME LoopInv, NEW r \in RowIds PROVE Len(records[r]) <= 1
      BY DEF ProcessedOnce
    <2>1. CASE records[r] = <<>>
      BY <2>1
    <2>2. ASSUME NEW m \in MatchStatus, records[r] = <<m>> PROVE Len(records[r]) <= 1
      BY <2>2
    <2> QED
      BY <2>1, <2>2 DEF LoopInv, RowsInv
  <1> QED
    BY <1>1, LoopInit, LoopNext, PTL DEF Spec

-----------------------------------------------------------------------------
(***************************************************************************)
(* What a settled pair rests on.                                           *)
(***************************************************************************)
\* Only a request at createRecord writes records, and only that of its row,
\* which has none.
LEMMA RecordsGrow ==
  ASSUME LoopInv, [Next]_vars, NEW r \in RowIds, records'[r] # records[r]
  PROVE  /\ records[r] = <<>>
         /\ \E q \in Requests : request[q].pc = "record" /\ r = RowId(q)
  <1>1. PICK q \in Requests : /\ request[q].pc = "record"
                              /\ records' = [records EXCEPT ![RowId(q)] = Append(@, MatchOf(q))]
    BY DEF Next, Process, Upload, FindBatch, CreateBatch, Lookup, CreateRecord, Settle, Finalize,
           Fails, Effect, Ingest, Book, vars
  <1> QED
    BY <1>1, RecordStep

\* Pairs are appended, or marked by the row that settles them.
LEMMA LedgerSteps ==
  ASSUME TypeOK, [Next]_vars, NEW e \in Events, NEW i \in DOMAIN ledger'[e]
  PROVE  \/ i \in DOMAIN ledger[e] /\ ledger'[e][i] = ledger[e][i]
         \/ i \notin DOMAIN ledger[e] /\ ledger'[e][i] = Pending
         \/ /\ i \in DOMAIN ledger[e]
            /\ ledger[e][i] = Pending
            /\ \E q \in Requests : /\ request[q].pc = "settle"
                                    /\ RowOf(q).event = e
                                    /\ ledger'[e][i] = RowId(q)
  <1>1. ledger \in [Events -> Seq({Pending} \cup RowIds)]
    BY DEF TypeOK
  <1>2. CASE ledger' = ledger
    BY <1>2
  <1>3. ASSUME NEW q \in Requests, request[q].pc = "settle", ledger' = Settled(q)
        PROVE  \/ i \in DOMAIN ledger[e] /\ ledger'[e][i] = ledger[e][i]
               \/ /\ i \in DOMAIN ledger[e]
                  /\ ledger[e][i] = Pending
                  /\ RowOf(q).event = e
                  /\ ledger'[e][i] = RowId(q)
    BY <1>3, SettledType
  <1>4. ASSUME NEW d \in Events, Book(d)
        PROVE  \/ i \in DOMAIN ledger[e] /\ ledger'[e][i] = ledger[e][i]
               \/ i \notin DOMAIN ledger[e] /\ ledger'[e][i] = Pending
    <2>1. PICK s \in Seq({Pending} \cup RowIds) : s = ledger[e]
      BY <1>1
    <2>2. CASE d # e
      BY <1>1, <1>4, <2>2 DEF Book
    <2>3. CASE d = e
      <3>1. ledger'[e] = Append(s, Pending)
        BY <1>1, <1>4, <2>1, <2>3 DEF Book
      <3> QED
        BY <2>1, <3>1
    <2> QED
      BY <2>2, <2>3
  <1> QED
    BY <1>2, <1>3, <1>4
       DEF Next, Process, Upload, FindBatch, CreateBatch, Lookup, CreateRecord, Settle, Finalize,
           Fails, Effect, Ingest, vars

\* Both reconciliations have to agree: a settled pair points at a MATCHED
\* record of that very payment with the amount the gateway reported, whichever
\* uploads race, fail or repeat it.
THEOREM SettledConfirmed == Spec => []SettledIsConfirmed
  <1>1. Init => SettledIsConfirmed
    BY DEF Init, SettledIsConfirmed
  <1>2. LoopInv /\ SettledIsConfirmed /\ [Next]_vars => SettledIsConfirmed'
    <2> SUFFICES ASSUME LoopInv, SettledIsConfirmed, [Next]_vars,
                        NEW e \in Events, NEW i \in DOMAIN ledger'[e], ledger'[e][i] # Pending
                 PROVE  LET by  == ledger'[e][i]
                            row == Rows[by[1]][by[2]]
                        IN  /\ records'[by] = <<"MATCHED">>
                            /\ row.event = e
                            /\ row.amount = Payment[e].amount
                            /\ row.currency = Payment[e].currency
      BY DEF SettledIsConfirmed
    <2>1. PICK by : by = ledger'[e][i]
      OBVIOUS
    <2>2. ASSUME by \in RowIds, records[by] = <<"MATCHED">>
          PROVE  records'[by] = <<"MATCHED">>
      BY <2>2, RecordsGrow
    <2>3. CASE i \in DOMAIN ledger[e] /\ by = ledger[e][i]
      <3>1. by \in RowIds
        <4>1. ledger[e] \in Seq({Pending} \cup RowIds)
          BY DEF LoopInv, TypeInv, TypeOK
        <4> QED
          BY <2>1, <2>3, <4>1
      <3> QED
        BY <2>1, <2>2, <2>3, <3>1 DEF SettledIsConfirmed
    <2>4. ASSUME NEW q \in Requests, request[q].pc = "settle", RowOf(q).event = e, by = RowId(q)
          PROVE  /\ by \in RowIds
                 /\ records[by] = <<"MATCHED">>
                 /\ Rows[by[1]][by[2]].event = e
                 /\ Rows[by[1]][by[2]].amount = Payment[e].amount
                 /\ Rows[by[1]][by[2]].currency = Payment[e].currency
      <3>1. MatchOf(q) = "MATCHED" /\ records[by] = <<"MATCHED">>
        BY <2>4 DEF LoopInv, RowsInv
      <3>2. by \in RowIds /\ request[q].found \in BOOLEAN
        BY <2>4, AtRow DEF LoopInv, TypeInv, TypeOK, Local
      <3>3. Rows[by[1]][by[2]] = RowOf(q)
        BY <2>4 DEF RowId, RowOf, FileOf
      <3>4. <<RowOf(q).amount, RowOf(q).currency>> =
              <<Payment[RowOf(q).event].amount, Payment[RowOf(q).event].currency>>
        BY <3>1, <3>2 DEF MatchOf, MatchSettlementRecord
      <3> QED
        BY <2>4, <3>1, <3>2, <3>3, <3>4
    <2> QED
      BY <2>1, <2>2, <2>3, <2>4, LedgerSteps DEF LoopInv, TypeInv
  <1> QED
    BY <1>1, <1>2, LoopInit, LoopNext, PTL DEF Spec

\* The first confirmation stands: no step changes a settled pair.
THEOREM FirstConfirmationStays == Spec => FirstSettlementWins
  <1>1. TypeInv /\ [Next]_vars =>
          [\A e \in Events : \A i \in DOMAIN ledger[e] : ledger[e][i] # Pending =>
             i \in DOMAIN ledger'[e] /\ ledger'[e][i] = ledger[e][i]]_vars
    <2> SUFFICES ASSUME TypeInv, [Next]_vars, NEW e \in Events, NEW i \in DOMAIN ledger[e],
                        ledger[e][i] # Pending
                 PROVE  i \in DOMAIN ledger'[e] /\ ledger'[e][i] = ledger[e][i]
      OBVIOUS
    <2>1. i \in DOMAIN ledger'[e]
      <3>1. ledger \in [Events -> Seq({Pending} \cup RowIds)]
        BY DEF TypeInv, TypeOK
      <3>2. ASSUME NEW q \in Requests, request[q].pc = "settle", ledger' = Settled(q)
            PROVE  i \in DOMAIN ledger'[e]
        BY <3>2, SettledType DEF TypeInv
      <3>3. ASSUME NEW d \in Events, Book(d) PROVE i \in DOMAIN ledger'[e]
        <4>1. PICK s \in Seq({Pending} \cup RowIds) : s = ledger[e]
          BY <3>1
        <4>2. DOMAIN s \subseteq DOMAIN Append(s, Pending)
          OBVIOUS
        <4>3. ledger'[e] = IF d = e THEN Append(s, Pending) ELSE s
          BY <3>1, <3>3, <4>1 DEF Book
        <4> QED
          BY <4>1, <4>2, <4>3
      <3> QED
        BY <3>2, <3>3
           DEF Next, Process, Upload, FindBatch, CreateBatch, Lookup, CreateRecord, Settle, Finalize,
               Fails, Effect, Ingest, vars
    <2> QED
      BY <2>1, LedgerSteps DEF TypeInv
  <1> QED
    BY <1>1, TypeInit, TypeNext, PTL DEF Spec, FirstSettlementWins

-----------------------------------------------------------------------------
(***************************************************************************)
(* A COMPLETED batch counts every row of its file.                         *)
(***************************************************************************)
\* The rows of f before row n that have one record, and it says m.
RowsAs(recs, f, n, m) == {i \in 1 .. (n - 1) : recs[<<f, i>>] = <<m>>}

\* The counts of an upload in the loop are those of the rows it has passed.
CountInv ==
  \A q \in Requests : InLoop(q) =>
    \A m \in MatchStatus :
      request[q].counts[m] = Cardinality(RowsAs(records, FileOf(q), request[q].next, m))

LEMMA RowsAsFinite ==
  ASSUME NEW recs, NEW f, NEW n \in Nat, NEW m
  PROVE  IsFiniteSet(RowsAs(recs, f, n, m)) /\ Cardinality(RowsAs(recs, f, n, m)) \in Nat
  <1>1. IsFiniteSet(1 .. (n - 1))
    BY FS_Interval
  <1> QED
    BY <1>1, FS_Subset, FS_CardinalityType DEF RowsAs

\* One row more.
LEMMA RowsAsNext ==
  ASSUME NEW recs, NEW f, NEW n \in Nat \ {0}, NEW k, recs[<<f, n>>] = <<k>>, NEW m
  PROVE  Cardinality(RowsAs(recs, f, n + 1, m)) =
           Cardinality(RowsAs(recs, f, n, m)) + (IF m = k THEN 1 ELSE 0)
  <1>1. CASE m = k
    <2>1. RowsAs(recs, f, n + 1, m) = RowsAs(recs, f, n, m) \cup {n} /\ n \notin RowsAs(recs, f, n, m)
      BY <1>1 DEF RowsAs
    <2> QED
      BY <1>1, <2>1, RowsAsFinite, FS_AddElement
  <1>2. CASE m # k
    <2>1. <<m>> # <<k>>
      BY <1>2
    <2>2. RowsAs(recs, f, n + 1, m) = RowsAs(recs, f, n, m)
      BY <2>1 DEF RowsAs
    <2> QED
      BY <1>2, <2>2, RowsAsFinite
  <1> QED
    BY <1>1, <1>2

\* An upload in the loop stands at a row of its file, or past the last.
LEMMA NextType ==
  ASSUME LoopInv, NEW q \in Requests, InLoop(q)
  PROVE  /\ FileOf(q) \in Files
         /\ Len(Rows[FileOf(q)]) \in Nat
         /\ request[q].next \in 1 .. (Len(Rows[FileOf(q)]) + 1)
  <1>1. FileOf(q) \in Files /\ Len(Rows[FileOf(q)]) \in Nat
    BY BatchType, LengthType DEF LoopInv, TypeInv
  <1>2. CASE request[q].pc = "finalize"
    BY <1>1, <1>2 DEF LoopInv, RowsInv
  <1>3. CASE request[q].pc # "finalize"
    BY <1>1, <1>3, AtRow DEF InLoop, LoopInv, TypeInv
  <1> QED
    BY <1>1, <1>2, <1>3

\* The rows an upload in the loop has passed keep their records.
LEMMA PassedKept ==
  ASSUME LoopInv, [Next]_vars, NEW q \in Requests, InLoop(q), NEW m
  PROVE  RowsAs(records', FileOf(q), request[q].next, m)
           = RowsAs(records, FileOf(q), request[q].next, m)
  <1>1. ASSUME NEW i \in 1 .. (request[q].next - 1)
        PROVE  records'[<<FileOf(q), i>>] = records[<<FileOf(q), i>>]
    <2>1. i \in 1 .. Len(Rows[FileOf(q)]) /\ i \in Recorded(q)
      BY NextType DEF Recorded
    <2>2. <<FileOf(q), i>> \in RowIds
      BY <2>1, NextType, RowType
    <2>3. records[<<FileOf(q), i>>] # <<>>
      BY <2>1 DEF LoopInv, RowsInv
    <2> QED
      BY <2>2, <2>3, RecordsGrow
  <1> QED
    BY <1>1 DEF RowsAs

\* How a step leaves an upload in the loop.
LEMMA LoopSteps ==
  ASSUME LoopInv, [Next]_vars, NEW q \in Requests, InLoop(q)'
  PROVE  /\ FileOf(q)' = FileOf(q)
         /\ \/ /\ InLoop(q)
               /\ request'[q].next = request[q].next
               /\ request'[q].counts = request[q].counts
            \/ /\ request'[q].next = 1
               /\ request'[q].counts = None
            \/ /\ request[q].pc \in {"record", "settle"}
               /\ request' = Counted(q)
               /\ records'[RowId(q)] = <<MatchOf(q)>>
  <1>0. /\ request \in [Requests -> Local]
        /\ \A p \in Requests : request[p] \in Local
        /\ TypeOK /\ Starts
    BY DEF LoopInv, TypeInv, TypeOK
  <1>1. CASE request'[q] = request[q]
    BY <1>1 DEF InLoop, FileOf
  <1>2. CASE CreateBatch(q)
    <2>1. request[q].next = 1 /\ request[q].counts = None
      BY <1>0, <1>2 DEF CreateBatch, Starts
    <2>2. \E pc : request' = [request EXCEPT ![q].pc = pc]
      BY <1>2 DEF CreateBatch, Goto
    <2>3. /\ request'[q].file = request[q].file
          /\ request'[q].next = request[q].next
          /\ request'[q].counts = request[q].counts
      BY <1>0, <2>2 DEF Local
    <2> QED
      BY <2>1, <2>3 DEF FileOf
  <1>3. CASE Lookup(q)
    BY <1>0, <1>3 DEF Lookup, InLoop, FileOf, Local
  <1>4. CASE request[q].pc = "record" /\ Goto(q, "settle")
    BY <1>0, <1>4 DEF Goto, InLoop, FileOf, Local
  <1>5. CASE /\ request[q].pc \in {"record", "settle"}
             /\ request' = Counted(q)
             /\ records'[RowId(q)] = <<MatchOf(q)>>
    <2>1. Moved(q)
      BY <1>0, <1>5, CountedType
    <2> QED
      BY <1>5, <2>1 DEF Moved, FileOf
  <1>6. CASE Goto(q, "returned") \/ Goto(q, "rejected") \/ Goto(q, "error")
             \/ Goto(q, "create") \/ Goto(q, "find")
    BY <1>0, <1>6 DEF Goto, InLoop, Local
  <1>7. CASE CreateRecord(q)
    <2>1. request[q].pc = "record" /\ (MatchOf(q) = "MATCHED" \/ MatchOf(q) # "MATCHED")
      BY <1>7 DEF CreateRecord
    <2>2. RowOf(q).storable => records'[RowId(q)] = <<MatchOf(q)>>
      BY <1>7, <2>1, RecordStep DEF CreateRecord
    <2> QED
      BY <1>4, <1>5, <1>6, <1>7, <2>1, <2>2 DEF CreateRecord
  <1>8. CASE Settle(q)
    <2>1. records'[RowId(q)] = <<MatchOf(q)>>
      BY <1>8 DEF Settle, LoopInv, RowsInv
    <2> QED
      BY <1>5, <1>8, <2>1 DEF Settle
  <1>9. CASE Upload(q) \/ FindBatch(q) \/ Finalize(q) \/ Fails(q)
    BY <1>6, <1>9 DEF Upload, FindBatch, Finalize, Fails
  <1>10. ASSUME NEW p \in Requests, p # q, Process(p) \/ Fails(p)
         PROVE  request'[q] = request[q]
    <2>1. \E l \in Local : request' = [request EXCEPT ![p] = l]
      <3>1. request' \in [Requests -> Local]
        BY TypeNext DEF LoopInv, TypeInv, TypeOK
      <3>2. \E l : request' = [request EXCEPT ![p] = l]
        BY <1>10 DEF Process, Upload, FindBatch, CreateBatch, Lookup, CreateRecord, Settle,
                     Finalize, Fails, Goto, Counted
      <3> QED
        BY <1>0, <3>1, <3>2
    <2> QED
      BY <1>0, <1>10, <2>1
  <1> QED
    BY <1>1, <1>2, <1>3, <1>7, <1>8, <1>9, <1>10 DEF Next, Process, Ingest, Book, vars

LEMMA CountInit == Init => CountInv /\ CompletedIsWhole
  BY DEF Init, CountInv, CompletedIsWhole, InLoop

LEMMA CountNext == LoopInv /\ CountInv /\ [Next]_vars => CountInv'
  <1> SUFFICES ASSUME LoopInv, CountInv, [Next]_vars,
                      NEW q \in Requests, InLoop(q)', NEW m \in MatchStatus
               PROVE  request'[q].counts[m]
                        = Cardinality(RowsAs(records', FileOf(q)', request'[q].next, m))
    BY DEF CountInv
  <1>0. FileOf(q)' = FileOf(q)
    BY LoopSteps
  <1>1. CASE /\ InLoop(q)
             /\ request'[q].next = request[q].next
             /\ request'[q].counts = request[q].counts
    BY <1>0, <1>1, PassedKept DEF CountInv
  <1>2. CASE request'[q].next = 1 /\ request'[q].counts = None
    <2>1. RowsAs(records', FileOf(q)', 1, m) = {}
      BY DEF RowsAs
    <2> QED
      BY <1>2, <2>1, FS_EmptySet DEF None
  <1>3. CASE /\ request[q].pc \in {"record", "settle"}
             /\ request' = Counted(q)
             /\ records'[RowId(q)] = <<MatchOf(q)>>
    <2>1. /\ InLoop(q)
          /\ TypeOK
          /\ request[q].next \in Nat \ {0}
          /\ MatchOf(q) \in MatchStatus
          /\ request[q].counts \in [MatchStatus -> Nat]
      BY <1>3, AtRow DEF InLoop, LoopInv, TypeInv, TypeOK, Local, Counts
    <2>2. /\ request'[q].next = request[q].next + 1
          /\ request'[q].counts = [request[q].counts EXCEPT ![MatchOf(q)] = @ + 1]
      BY <1>3, <2>1, CountedType
    <2>3. request'[q].counts[m] = request[q].counts[m] + (IF m = MatchOf(q) THEN 1 ELSE 0)
      BY <2>1, <2>2
    <2>4. request[q].counts[m] = Cardinality(RowsAs(records', FileOf(q), request[q].next, m))
      BY <2>1, PassedKept DEF CountInv
    <2>5. records'[<<FileOf(q), request[q].next>>] = <<MatchOf(q)>>
      BY <1>3 DEF RowId, FileOf
    <2>6. Cardinality(RowsAs(records', FileOf(q), request[q].next + 1, m)) =
            Cardinality(RowsAs(records', FileOf(q), request[q].next, m))
              + (IF m = MatchOf(q) THEN 1 ELSE 0)
      BY <2>1, <2>5, RowsAsNext
    <2> QED
      BY <1>0, <2>2, <2>3, <2>4, <2>6
  <1> QED
    BY <1>1, <1>2, <1>3, LoopSteps

\* Only finalizeBatch completes a batch.
LEMMA BatchSteps ==
  ASSUME LoopInv, [Next]_vars, NEW f \in Files
  PROVE  \/ batch'[f] = batch[f]
         \/ batch'[f] = NewBatch
         \/ \E q \in Requests : /\ request[q].pc = "finalize"
                                 /\ FileOf(q) = f
                                 /\ batch'[f] = Final(q)
                                 /\ records' = records
  <1>1. /\ batch \in [Files -> Batch \cup {NoBatch}]
        /\ \A q \in Requests : FileOf(q) \in Files
    BY BatchType DEF LoopInv, TypeInv, TypeOK
  <1>2. ASSUME NEW q \in Requests, CreateBatch(q) \/ Finalize(q) \/ Fails(q)
        PROVE  \/ batch'[f] = batch[f]
               \/ batch'[f] = NewBatch
               \/ /\ request[q].pc = "finalize"
                  /\ FileOf(q) = f
                  /\ batch'[f] = Final(q)
                  /\ records' = records
    BY <1>1, <1>2 DEF CreateBatch, Finalize, Fails, Effect
  <1> QED
    BY <1>2 DEF Next, Process, Upload, FindBatch, Lookup, CreateRecord, Settle, Ingest, Book, vars

\* COMPLETED means the whole file was looked at: every row has its record, and
\* the total and the counts are those of the records, whatever raced or failed.
THEOREM CompletedWhole == Spec => []CompletedIsWhole
  <1>1. LoopInv /\ CountInv /\ CompletedIsWhole /\ [Next]_vars => CompletedIsWhole'
    <2> SUFFICES ASSUME LoopInv, CountInv, CompletedIsWhole, [Next]_vars,
                        NEW f \in Files, batch'[f] # NoBatch, batch'[f].status = "COMPLETED"
                 PROVE  /\ batch'[f].total = Len(Rows[f])
                        /\ \A i \in 1 .. Len(Rows[f]) : records'[<<f, i>>] # <<>>
                        /\ \A m \in MatchStatus :
                             batch'[f].counts[m] =
                               Cardinality({i \in 1 .. Len(Rows[f]) : records'[<<f, i>>] = <<m>>})
      BY DEF CompletedIsWhole
    <2>1. CASE batch'[f] = batch[f]
      <3>1. /\ batch[f].total = Len(Rows[f])
            /\ \A i \in 1 .. Len(Rows[f]) : records[<<f, i>>] # <<>>
            /\ \A m \in MatchStatus :
                 batch[f].counts[m] =
                   Cardinality({i \in 1 .. Len(Rows[f]) : records[<<f, i>>] = <<m>>})
        BY <2>1 DEF CompletedIsWhole
      <3>2. \A i \in 1 .. Len(Rows[f]) : records'[<<f, i>>] = records[<<f, i>>]
        BY <3>1, RowType, RecordsGrow
      <3>3. \A m \in MatchStatus :
              {i \in 1 .. Len(Rows[f]) : records'[<<f, i>>] = <<m>>} =
              {i \in 1 .. Len(Rows[f]) : records[<<f, i>>] = <<m>>}
        BY <3>2
      <3> QED
        BY <2>1, <3>1, <3>2, <3>3
    <2>2. batch'[f] # NewBatch
      BY DEF NewBatch
    <2>3. ASSUME NEW q \in Requests, request[q].pc = "finalize", FileOf(q) = f,
                 batch'[f] = Final(q), records' = records
          PROVE  /\ batch'[f].total = Len(Rows[f])
                 /\ \A i \in 1 .. Len(Rows[f]) : records'[<<f, i>>] # <<>>
                 /\ \A m \in MatchStatus :
                      batch'[f].counts[m] =
                        Cardinality({i \in 1 .. Len(Rows[f]) : records'[<<f, i>>] = <<m>>})
      <3>1. InLoop(q) /\ Len(Rows[f]) \in Nat /\ request[q].next = Len(Rows[f]) + 1
        BY <2>3, LengthType DEF InLoop, LoopInv, RowsInv
      <3>2. \A i \in 1 .. Len(Rows[f]) : i \in Recorded(q)
        BY <2>3, <3>1 DEF Recorded
      <3>3. \A i \in 1 .. Len(Rows[f]) : records[<<f, i>>] # <<>>
        BY <2>3, <3>1, <3>2 DEF LoopInv, RowsInv
      <3>4. \A m \in MatchStatus : RowsAs(records, f, request[q].next, m)
                                    = {i \in 1 .. Len(Rows[f]) : records[<<f, i>>] = <<m>>}
        BY <3>1 DEF RowsAs
      <3>5. \A m \in MatchStatus :
              request[q].counts[m] = Cardinality(RowsAs(records, f, request[q].next, m))
        BY <2>3, <3>1 DEF CountInv
      <3>6. batch'[f].total = Len(Rows[f]) /\ batch'[f].counts = request[q].counts
        BY <2>3 DEF Final
      <3> QED
        BY <2>3, <3>3, <3>4, <3>5, <3>6
    <2> QED
      BY <2>1, <2>2, <2>3, BatchSteps
  <1> QED
    BY <1>1, CountInit, CountNext, LoopInit, LoopNext, PTL DEF Spec

-----------------------------------------------------------------------------
(***************************************************************************)
(* When a MATCHED record does settle the payment (MatchedIsSettled): only  *)
(* a booking after the match, or an upload that ends between a record and  *)
(* its settling, leaves a pair pending.                                    *)
(***************************************************************************)
EventAt(r) == Rows[r[1]][r[2]].event

Cleared(e) == \A i \in DOMAIN ledger[e] : ledger[e][i] # Pending

\* A step books no pair of a payment the bank has already confirmed.
BookedFirst ==
  \A e \in Events : ledger'[e] = Append(ledger[e], Pending) =>
    \A r \in RowIds : EventAt(r) = e => records[r] # <<"MATCHED">>

\* A step parts no MATCHED record from its settling: an upload that has written
\* one goes on to settle, and leaves only once it has settled.
SettlesMatches ==
  \A q \in Requests :
    /\ request[q].pc = "record" /\ MatchOf(q) = "MATCHED" /\ records' # records =>
         request'[q].pc = "settle"
    /\ request[q].pc = "settle" /\ request'[q].pc # "settle" => ledger' = Settled(q)

\* The pairs of a confirmed payment are settled, or an upload is about to.
MatchInv ==
  \A r \in RowIds : records[r] = <<"MATCHED">> =>
    \/ Cleared(EventAt(r))
    \/ \E q \in Requests : request[q].pc = "settle" /\ RowId(q) = r

\* A record that has just become MATCHED is about to be settled.
LEMMA MatchedNow ==
  ASSUME LoopInv, [Next]_vars, SettlesMatches, NEW r \in RowIds,
         records[r] # <<"MATCHED">>, records'[r] = <<"MATCHED">>
  PROVE  \E q \in Requests : request'[q].pc = "settle" /\ RowId(q)' = r
  <1>1. PICK q \in Requests :
          /\ request[q].pc = "record"
          /\ records' = [records EXCEPT ![RowId(q)] = Append(@, MatchOf(q))]
          /\ \/ request' = Counted(q)
             \/ \E pc \in RequestPc : Goto(q, pc)
    BY DEF Next, Process, Upload, FindBatch, CreateBatch, Lookup, CreateRecord, Settle, Finalize,
           Fails, Effect, Ingest, Book, RequestPc, Sites, vars
  <1>2. /\ RowId(q) = r /\ MatchOf(q) = "MATCHED"
    <2>1. /\ records'[RowId(q)] = <<MatchOf(q)>>
          /\ RowId(q) # r => records'[r] = records[r]
      BY <1>1, RecordStep
    <2> QED
      BY <2>1
  <1>3. request'[q].pc = "settle"
    BY <1>1, <1>2 DEF SettlesMatches
  <1>4. request \in [Requests -> Local]
    BY DEF LoopInv, TypeInv, TypeOK
  <1>5. \A pc : Goto(q, pc) => RowId(q)' = RowId(q)
    BY <1>4 DEF Goto, RowId, Local
  <1>6. request' # Counted(q)
    <2>1. Counted(q)[q].pc = LoopAt(FileOf(q), request[q].next + 1)
      BY <1>4 DEF Counted, Local
    <2> QED
      BY <1>3, <2>1 DEF LoopAt
  <1> QED
    BY <1>1, <1>2, <1>3, <1>5, <1>6

\* A payment without pending pairs has none until one is booked of it.
LEMMA ClearedStays ==
  ASSUME TypeOK, [Next]_vars, NEW e \in Events, Cleared(e),
         ledger'[e] # Append(ledger[e], Pending)
  PROVE  Cleared(e)'
  <1> SUFFICES ASSUME NEW i \in DOMAIN ledger'[e]
               PROVE  ledger'[e][i] # Pending
    BY DEF Cleared
  <1>1. CASE i \in DOMAIN ledger[e]
    BY <1>1, LedgerSteps, SettlementAssumption DEF Cleared
  <1>2. CASE i \notin DOMAIN ledger[e]
    <2>1. ASSUME NEW f \in Events, Book(f)
          PROVE  FALSE
      <3>1. CASE f = e
        BY <2>1, <3>1 DEF Book, TypeOK
      <3>2. CASE f # e
        BY <1>2, <2>1, <3>2 DEF Book, TypeOK
      <3> QED
        BY <3>1, <3>2
    <2>2. ASSUME NEW q \in Requests, request[q].pc = "settle", ledger' = Settled(q)
          PROVE  FALSE
      BY <1>2, <2>2, SettledType
    <2>3. ledger' # ledger
      BY <1>2
    <2> QED
      BY <2>1, <2>2, <2>3 DEF Next, Process, Upload, FindBatch, CreateBatch, Lookup,
         CreateRecord, Settle, Finalize, Fails, Effect, Ingest, vars
  <1> QED
    BY <1>1, <1>2

\* A request that stays at its settling stays at its row.
LEMMA SettleKeeps ==
  ASSUME TypeOK, [Next]_vars, NEW q \in Requests,
         request[q].pc = "settle", request'[q].pc = "settle"
  PROVE  RowId(q)' = RowId(q)
  <1>0. request \in [Requests -> Local]
    BY DEF TypeOK
  <1>1. ASSUME NEW p \in Requests, p # q, Process(p) \/ Fails(p)
        PROVE  request'[q] = request[q]
    BY <1>0, <1>1 DEF Process, Upload, FindBatch, CreateBatch, Lookup, CreateRecord, Settle,
       Finalize, Fails, Goto, Counted
  <1>2. ASSUME Process(q) \/ Fails(q)
        PROVE  FALSE
    <2>1. CASE Fails(q)
      BY <1>0, <2>1 DEF Fails, Goto
    <2>2. CASE Process(q)
      <3>1. Settle(q)
        BY <2>2 DEF Process, Upload, FindBatch, CreateBatch, Lookup, CreateRecord, Finalize
      <3>2. Counted(q)[q].pc = LoopAt(FileOf(q), request[q].next + 1)
        BY <1>0 DEF Counted, Local
      <3> QED
        BY <3>1, <3>2 DEF Settle, LoopAt
    <2> QED
      BY <1>2, <2>1, <2>2
  <1>3. CASE request'[q] = request[q]
    BY <1>3 DEF RowId
  <1> QED
    BY <1>1, <1>2, <1>3 DEF Next, Ingest, Book, vars

LEMMA MatchNext ==
  ASSUME LoopInv, MatchInv, [Next]_vars, [BookedFirst /\ SettlesMatches]_vars
  PROVE  MatchInv'
  <1>0. TypeOK /\ request \in [Requests -> Local]
    BY DEF LoopInv, TypeInv, TypeOK
  <1>1. CASE UNCHANGED vars
    BY <1>1 DEF vars, MatchInv, Cleared, RowId
  <1>2. CASE BookedFirst /\ SettlesMatches
    <2> SUFFICES ASSUME NEW r \in RowIds, records'[r] = <<"MATCHED">>
                 PROVE  \/ Cleared(EventAt(r))'
                        \/ \E q \in Requests : request'[q].pc = "settle" /\ RowId(q)' = r
      BY DEF MatchInv, EventAt
    <2>0. EventAt(r) \in Events /\ EventAt(r)' = EventAt(r)
      BY RowIdParts, RowType DEF EventAt
    <2>1. CASE records[r] # <<"MATCHED">>
      BY <1>2, <2>1, MatchedNow
    <2>2. CASE records[r] = <<"MATCHED">> /\ Cleared(EventAt(r))
      BY <1>0, <1>2, <2>0, <2>2, ClearedStays DEF BookedFirst, Cleared
    <2>3. ASSUME NEW q \in Requests, request[q].pc = "settle", RowId(q) = r
          PROVE  \/ Cleared(EventAt(r))'
                 \/ request'[q].pc = "settle" /\ RowId(q)' = r
      <3>1. CASE request'[q].pc # "settle"
        <4>1. ledger' = Settled(q)
          BY <1>2, <2>3, <3>1 DEF SettlesMatches
        <4>2. RowOf(q).event = EventAt(r)
          BY <2>3 DEF RowOf, FileOf, RowId, EventAt
        <4>3. RowId(q) \in RowIds
          BY <2>3
        <4>4. \A i \in DOMAIN ledger'[EventAt(r)] : ledger'[EventAt(r)][i] # Pending
          BY <1>0, <2>0, <2>3, <4>1, <4>2, <4>3, SettledType, SettlementAssumption
        <4> QED
          BY <2>0, <4>4 DEF Cleared
      <3>2. CASE request'[q].pc = "settle"
        BY <1>0, <2>3, <3>2, SettleKeeps
      <3> QED
        BY <3>1, <3>2
    <2> QED
      BY <2>1, <2>2, <2>3 DEF MatchInv
  <1> QED
    BY <1>1, <1>2

\* Had every payment been booked before the bank's row for it was matched, and no
\* upload failed between a record and its settling, a MATCHED record would always
\* have settled its payment (settlement.service.ts:59-66): nothing else, neither
\* racing uploads nor other failures, leaves a pair of it pending.
THEOREM SettledIfBookedFirst ==
  Spec /\ [][BookedFirst /\ SettlesMatches]_vars => []MatchedIsSettled
  <1>1. Init => MatchInv
    BY DEF Init, MatchInv
  <1>2. MatchInv => MatchedIsSettled
    BY DEF MatchInv, MatchedIsSettled, Cleared, EventAt, Sites
  <1>3. LoopInv /\ MatchInv /\ [Next]_vars /\ [BookedFirst /\ SettlesMatches]_vars => MatchInv'
    BY MatchNext
  <1> QED
    BY <1>1, <1>2, <1>3, LoopInit, LoopNext, PTL DEF Spec
=============================================================================
