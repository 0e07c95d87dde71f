------------------------------ MODULE PelProofs ------------------------------
(***************************************************************************)
(* What becomes of what was delivered, as long as only calls of run()      *)
(* fail.  The promise of handleFailure's comment                           *)
(* (stream-consumer.ts:148-150): it is acked in the end, and no entry      *)
(* leaks into the pending-entries list.  And the one behind the retries:   *)
(* an event without a verdict has somebody left to give it one.  Both hold *)
(* until a batch is cut short by a second dead letter of one event, which  *)
(* throws out of the loop over the batch.                                  *)
(***************************************************************************)
EXTENDS OrderProofs

USE DEF Absent, NoUpdate, postgres, redis, local, budgets

\* What handleFailure is for: run() or its ack throws, and no process ends.
OnlyRunFails == FaultSites \subseteq RunSites /\ MaxExits = 0

\* The labels at which a worker has still to ack the entry it is at.
AtEntry == RunSites \cup {"acquire", "skip", "fail", "failAck"}

\* A second dead letter cuts a batch short only if there was a first one, and
\* if the batch has more entries.
Uncut == deadLetters = {} \/ BatchSize = 1

\* An idle worker holds nothing; a batch of one ends where it begins; and only
\* a dead letter takes a worker out of its loop.
TidyInv ==
  \A w \in Workers :
    /\ pc[w] \notin Busy => Held(w) = {}
    /\ BatchSize = 1 => job[w].end <= job[w].cur
    /\ deadLetters = {} => pc[w] # "releaseThrow"

\* An un-acked entry is ahead of a worker, or a worker is at it.
HeldInv ==
  Uncut => \A i \in pending : \E w \in Workers :
             i \in Held(w) /\ (i = job[w].cur => pc[w] \in AtEntry)

\* Only calls of run() throw, and they leave the worker at its entry.
LEMMA FailsStep ==
  ASSUME OnlyRunFails, TypeOK, NEW w \in Workers, Fails(w)
  PROVE  /\ pc[w] \in RunSites /\ pc'[w] = "fail"
         /\ job'[w].cur = job[w].cur /\ job'[w].end = job[w].end
  <1>1. pc[w] \in RunSites /\ Throws(w)
    BY DEF Fails, OnlyRunFails
  <1>2. Forget(job[w]).cur = job[w].cur /\ Forget(job[w]).end = job[w].end
    BY DEF Forget, Batch
  <1> QED
    BY <1>1, <1>2 DEF Throws, OnThrow, TypeOK, LocalOK, RunSites

\* A worker goes on with its entry, unless it acks it.
LEMMA AtEntryStep ==
  ASSUME TypeOK, NEW w \in Workers, Step(w), ~Fails(w), pc[w] \in AtEntry
  PROVE  pc'[w] \in AtEntry \/ job[w].cur \notin pending'
  <1> USE DEF TypeOK, LocalOK
  <1>0. {"acquire", "skip", "find", "resolve", "attach", "mismatch", "status", "book",
         "mark", "ack", "fail", "failAck"} \subseteq AtEntry
    BY DEF AtEntry, RunSites
  <1>1. CASE Skip(w) \/ Ack(w) \/ AckFailed(w)
    BY <1>1 DEF Skip, Ack, AckFailed, Acked
  <1>2. CASE Acquire(w) \/ Find(w) \/ UpdateStatus(w) \/ Book(w) \/ MarkProcessed(w)
             \/ IncrementAttempts(w)
    BY <1>0, <1>2 DEF Acquire, Find, UpdateStatus, Book, MarkProcessed, IncrementAttempts,
       Returns, AfterStatus
  <1>3. CASE Resolve(w) \/ Attach(w) \/ RecordMismatches(w)
    BY <1>0, <1>3, AfterReconcileLabel
    DEF Resolve, Attach, RecordMismatches, Returns, AfterMismatches
  <1>4. CASE Read(w) \/ DeadLetter(w) \/ MarkDeadLettered(w) \/ MarkFailed(w)
             \/ ScheduleRetry(w) \/ Release(w)
    BY <1>4 DEF Read, DeadLetter, MarkDeadLettered, MarkFailed, ScheduleRetry, Release,
       AtEntry, RunSites
  <1> QED
    BY <1>1, <1>2, <1>3, <1>4 DEF Step

\* A worker comes back to reading after the last entry of its batch, or thrown
\* out by a second dead letter.
LEMMA ReturnToRead ==
  ASSUME TypeOK, NEW w \in Workers, Step(w), ~Fails(w), pc'[w] = "read"
  PROVE  \/ pc[w] \in {"skip", "release"} /\ LastOfBatch(w)
         \/ pc[w] = "releaseThrow"
  <1> USE DEF TypeOK, LocalOK
  <1>1. CASE Skip(w) \/ Release(w)
    BY <1>1 DEF Skip, Release, Returns, NextLabel
  <1>2. CASE Resolve(w) \/ Attach(w) \/ RecordMismatches(w)
    BY <1>2, AfterReconcileLabel
    DEF Resolve, Attach, RecordMismatches, Returns, AfterMismatches
  <1>3. CASE DeadLetter(w)
    BY <1>3 DEF DeadLetter, Returns, Throws, OnThrow, RunSites, FailureSites
  <1>4. CASE Read(w) \/ Acquire(w) \/ Find(w) \/ UpdateStatus(w) \/ Book(w)
             \/ MarkProcessed(w) \/ Ack(w)
    BY <1>4 DEF Read, Acquire, Find, UpdateStatus, Book, MarkProcessed, Ack, Returns, AfterStatus
  <1>5. CASE IncrementAttempts(w) \/ AckFailed(w) \/ MarkDeadLettered(w)
             \/ MarkFailed(w) \/ ScheduleRetry(w)
    BY <1>5 DEF IncrementAttempts, AckFailed, MarkDeadLettered, MarkFailed, ScheduleRetry,
       Returns
  <1> QED
    BY <1>1, <1>2, <1>3, <1>4, <1>5 DEF Step

\* A worker is thrown out only by the dead letter of an event that has one.
LEMMA ThrownOut ==
  ASSUME TypeOK, NEW w \in Workers, Step(w), ~Fails(w), pc'[w] = "releaseThrow"
  PROVE  DeadLetter(w) /\ Current(w) \in deadLetters
  <1> USE DEF TypeOK, LocalOK
  <1>1. CASE Skip(w) \/ Release(w)
    BY <1>1 DEF Skip, Release, Returns, NextLabel, Throws, OnThrow, RunSites, FailureSites
  <1>2. CASE Resolve(w) \/ Attach(w) \/ RecordMismatches(w)
    BY <1>2, AfterReconcileLabel
    DEF Resolve, Attach, RecordMismatches, Returns, AfterMismatches
  <1>3. CASE DeadLetter(w)
    BY <1>3 DEF DeadLetter, Returns
  <1>4. CASE Read(w) \/ Acquire(w) \/ Find(w) \/ UpdateStatus(w) \/ Book(w)
             \/ MarkProcessed(w) \/ Ack(w)
    BY <1>4 DEF Read, Acquire, Find, UpdateStatus, Book, MarkProcessed, Ack, Returns, AfterStatus
  <1>5. CASE IncrementAttempts(w) \/ AckFailed(w) \/ MarkDeadLettered(w)
             \/ MarkFailed(w) \/ ScheduleRetry(w)
    BY <1>5 DEF IncrementAttempts, AckFailed, MarkDeadLettered, MarkFailed, ScheduleRetry,
       Returns
  <1> QED
    BY <1>1, <1>2, <1>3, <1>4, <1>5 DEF Step

\* A worker's own steps do not end its process.
LEMMA KeepsRunning ==
  ASSUME TypeOK, NEW w \in Workers, Step(w), ~Fails(w)
  PROVE  pc'[w] # "down"
  <1> USE DEF TypeOK, LocalOK
  <1>1. CASE Skip(w) \/ Release(w)
    BY <1>1 DEF Skip, Release, Returns, NextLabel, Throws, OnThrow, RunSites, FailureSites
  <1>2. CASE Resolve(w) \/ Attach(w) \/ RecordMismatches(w)
    BY <1>2, AfterReconcileLabel
    DEF Resolve, Attach, RecordMismatches, Returns, AfterMismatches
  <1>3. CASE DeadLetter(w)
    BY <1>3 DEF DeadLetter, Returns, Throws, OnThrow, RunSites, FailureSites
  <1>4. CASE Read(w) \/ Acquire(w) \/ Find(w) \/ UpdateStatus(w) \/ Book(w)
             \/ MarkProcessed(w) \/ Ack(w)
    BY <1>4 DEF Read, Acquire, Find, UpdateStatus, Book, MarkProcessed, Ack, Returns, AfterStatus
  <1>5. CASE IncrementAttempts(w) \/ AckFailed(w) \/ MarkDeadLettered(w)
             \/ MarkFailed(w) \/ ScheduleRetry(w)
    BY <1>5 DEF IncrementAttempts, AckFailed, MarkDeadLettered, MarkFailed, ScheduleRetry,
       Returns
  <1> QED
    BY <1>1, <1>2, <1>3, <1>4, <1>5 DEF Step

\* Processes do not end.
LEMMA NobodyDies ==
  ASSUME OnlyRunFails, TypeOK, [Next]_vars, NEW v \in Workers
  PROVE  \/ pc'[v] = pc[v] /\ job'[v] = job[v]
         \/ Fails(v)
         \/ Step(v) /\ ~Fails(v)
         \/ pc[v] = "down" /\ pc'[v] = "read" /\ job'[v] = job[v]
  <1>1. ASSUME NEW w \in Workers
        PROVE  ~Crash(w) /\ ~Stop(w) /\ ~PromotionThrows(w)
    BY DEF Crash, Stop, PromotionThrows, OnlyRunFails, RunSites, TypeOK, BudgetsOK
  <1>2. ASSUME NEW w \in Workers, w # v, Step(w) \/ Rejected(w)
        PROVE  pc'[v] = pc[v] /\ job'[v] = job[v]
    <2>1. Throws(w) \/ \E next, j : Returns(w, next, j)
      BY <1>2 DEF Step, Read, Acquire, Skip, Find, Resolve, Attach, RecordMismatches,
           UpdateStatus, Book, MarkProcessed, Ack, IncrementAttempts, AckFailed,
           DeadLetter, MarkDeadLettered, MarkFailed, ScheduleRetry, Release, Rejected,
           Fails
    <2> QED
      BY <1>2, <2>1 DEF Returns, Fails, Throws, TypeOK, LocalOK
  <1>3. ASSUME NEW w \in Workers, Promote(w)
        PROVE  pc'[v] = pc[v] /\ job'[v] = job[v]
    BY <1>3 DEF Promote, PullDue, RemoveDue, Republish
  <1>4. ASSUME NEW w \in Workers, Restart(w)
        PROVE  \/ pc[v] = "down" /\ pc'[v] = "read" /\ job'[v] = job[v]
               \/ pc'[v] = pc[v] /\ job'[v] = job[v]
    BY <1>4 DEF Restart, TypeOK, LocalOK
  <1>5. ASSUME NEW e \in Events, Expire(e) \/ Store(e) \/ Publish(e)
        PROVE  pc'[v] = pc[v] /\ job'[v] = job[v]
    BY <1>5 DEF Expire, Store, Publish
  <1>6. ASSUME NEW o \in Orders, CreateOrder(o)
        PROVE  pc'[v] = pc[v] /\ job'[v] = job[v]
    BY <1>6 DEF CreateOrder
  <1> QED
    BY <1>1, <1>2, <1>3, <1>4, <1>5, <1>6 DEF Next, vars, Rejected

LEMMA TidyStep ==
  ASSUME OnlyRunFails, TypeOK, StatusInv, TidyInv, [Next]_vars
  PROVE  TidyInv'
  <1> SUFFICES ASSUME NEW w \in Workers
               PROVE  /\ pc'[w] \notin Busy => Held(w)' = {}
                      /\ BatchSize = 1 => job'[w].end <= job'[w].cur
                      /\ deadLetters' = {} => pc'[w] # "releaseThrow"
    BY DEF TidyInv
  <1>0. /\ "acquire" \in Busy /\ "read" \notin Busy /\ "down" \notin Busy
        /\ job[w].cur \in Nat /\ job[w].end \in Nat
        /\ lastDelivered \in Nat /\ Len(stream) \in Nat
    BY DEF Busy, Holding, RunSites, FailureSites, TypeOK, RedisOK, LocalOK, Job
  <1>1. pc'[w] \notin Busy => Held(w)' = {}
    <2>1. CASE job'[w] = NoJob
      BY <2>1 DEF Held, NoJob, Batch
    <2>2. CASE job'[w].cur = job[w].cur /\ job'[w].end = job[w].end
               /\ (pc'[w] = pc[w] \/ pc[w] = "down")
      BY <1>0, <2>2 DEF TidyInv, Held
    <2> QED
      BY <1>0, <2>1, <2>2, BatchStep
  <1>2. ASSUME BatchSize = 1
        PROVE  job'[w].end <= job'[w].cur
    <2>1. job[w].end <= job[w].cur
      BY <1>2 DEF TidyInv
    <2>2. CASE job'[w] = NoJob
      BY <2>2 DEF NoJob, Batch
    <2>3. CASE job'[w].cur \in {job[w].cur, job[w].cur + 1} /\ job'[w].end = job[w].end
      BY <1>0, <2>1, <2>3
    <2>4. CASE Read(w) /\ job'[w].cur = lastDelivered + 1 /\ job'[w].end = lastDelivered'
      <3>1. lastDelivered' = lastDelivered + Smaller(1, Len(stream) - lastDelivered)
        BY <1>2, <2>4 DEF Read
      <3> QED
        BY <1>0, <2>4, <3>1 DEF Smaller
    <2> QED
      BY <2>2, <2>3, <2>4, BatchStep
  <1>3. ASSUME deadLetters' = {}
        PROVE  pc'[w] # "releaseThrow"
    <2>1. deadLetters = {} \/ Events = {}
      BY <1>3, EvidenceStays DEF TypeOK, PostgresOK
    <2>2. deadLetters = {}
      BY <2>1 DEF TypeOK, PostgresOK
    <2>3. pc[w] # "releaseThrow"
      BY <2>2 DEF TidyInv
    <2> QED
      BY <2>2, <2>3, NobodyDies, FailsStep, ThrownOut
  <1> QED
    BY <1>1, <1>2, <1>3

\* Entries become pending only as a worker reads them, and then it is at the
\* first and has the others ahead.
LEMMA NewEntry ==
  ASSUME OnlyRunFails, TypeOK, [Next]_vars, NEW i \in pending', i \notin pending
  PROVE  \E w \in Workers : i \in Held(w)' /\ pc'[w] = "acquire"
  <1>1. ASSUME NEW w \in Workers, Read(w)
        PROVE  i \in Held(w)' /\ pc'[w] = "acquire"
    <2> DEFINE last == lastDelivered + Smaller(BatchSize, Len(stream) - lastDelivered)
    <2>1. ~Fails(w)
      BY <1>1 DEF Read, Fails, OnlyRunFails, RunSites
    <2>2. /\ pc' = [pc EXCEPT ![w] = "acquire"]
          /\ job' = [job EXCEPT ![w] = Batch(lastDelivered + 1, last)]
          /\ pending' = pending \cup (lastDelivered + 1 .. last)
      BY <1>1, <2>1 DEF Read, Returns
    <2> HIDE DEF last
    <2>3. /\ Batch(lastDelivered + 1, last).cur = lastDelivered + 1
          /\ Batch(lastDelivered + 1, last).end = last
      BY DEF Batch
    <2> QED
      BY <2>2, <2>3 DEF Held, TypeOK, LocalOK
  <1>2. ASSUME NEW w \in Workers, Step(w), ~Read(w)
        PROVE  pending' \subseteq pending
    BY <1>2 DEF Step, Acquire, Skip, Find, Resolve, Attach, RecordMismatches, UpdateStatus,
         Book, MarkProcessed, Ack, IncrementAttempts, AckFailed, DeadLetter,
         MarkDeadLettered, MarkFailed, ScheduleRetry, Release, Acked
  <1>3. ASSUME NEW w \in Workers,
               \/ Rejected(w) \/ Promote(w) \/ Crash(w) \/ Stop(w)
               \/ PromotionThrows(w) \/ Restart(w)
        PROVE  UNCHANGED pending
    BY <1>3 DEF Rejected, Promote, PullDue, RemoveDue, Republish, Crash, Stop,
         PromotionThrows, Dies, Restart
  <1>4. ASSUME NEW f \in Events, Expire(f) \/ Store(f) \/ Publish(f)
        PROVE  UNCHANGED pending
    BY <1>4 DEF Expire, Store, Publish
  <1>5. ASSUME NEW o \in Orders, CreateOrder(o)
        PROVE  UNCHANGED pending
    BY <1>5 DEF CreateOrder
  <1> QED
    BY <1>1, <1>2, <1>3, <1>4, <1>5 DEF Next, vars

\* An entry that stays un-acked stays with its worker.
LEMMA EntryStays ==
  ASSUME OnlyRunFails, TypeOK, StatusInv, TidyInv, Uncut, [Next]_vars,
         NEW w \in Workers, NEW i \in Held(w), i = job[w].cur => pc[w] \in AtEntry,
         i \in pending'
  PROVE  i \in Held(w)' /\ (i = job'[w].cur => pc'[w] \in AtEntry)
  <1>0. /\ job[w].cur \in Nat /\ job[w].end \in Nat /\ i \in Nat
        /\ "read" \notin Busy /\ "down" \notin Busy
        /\ "release" \notin AtEntry /\ "releaseThrow" \notin AtEntry /\ "acquire" \in AtEntry
        /\ "fail" \in AtEntry
    BY DEF TypeOK, LocalOK, Job, Held, Busy, Holding, RunSites, FailureSites, AtEntry
  <1>1. pc[w] \in Busy
    BY DEF TidyInv
  <1>2. CASE pc'[w] = pc[w] /\ job'[w] = job[w]
    BY <1>2 DEF Held
  <1>3. CASE Fails(w)
    BY <1>0, <1>3, FailsStep DEF Held
  <1>4. CASE Step(w) /\ ~Fails(w)
    <2>1. i = job[w].cur => pc'[w] \in AtEntry
      BY <1>4, AtEntryStep
    <2>2. CASE job'[w].cur = job[w].cur /\ job'[w].end = job[w].end
      BY <2>1, <2>2 DEF Held
    <2>3. CASE pc'[w] = "read"
      <3>1. CASE pc[w] \in {"skip", "release"} /\ LastOfBatch(w)
        <4>1. i = job[w].cur
          BY <1>0, <3>1 DEF LastOfBatch, Held
        <4> QED
          BY <2>1, <2>3, <4>1 DEF AtEntry, RunSites
      <3>2. CASE pc[w] = "releaseThrow"
        <4>1. BatchSize = 1
          BY <3>2 DEF TidyInv, Uncut
        <4>2. i = job[w].cur
          BY <1>0, <4>1 DEF TidyInv, Held
        <4> QED
          BY <1>0, <3>2, <4>2
      <3> QED
        BY <1>4, <2>3, <3>1, <3>2, ReturnToRead
    <2>4. CASE pc'[w] = "down"
      BY <1>4, <2>4, KeepsRunning
    <2>5. CASE /\ pc[w] \in {"skip", "release"} /\ pc'[w] = "acquire"
               /\ job'[w].cur = job[w].cur + 1 /\ job'[w].end = job[w].end
      <3>1. i # job[w].cur
        <4>1. ASSUME i = job[w].cur
              PROVE  FALSE
          <5>1. pc[w] = "skip" /\ Skip(w)
            BY <1>0, <1>4, <2>5, <4>1 DEF Step, Read, Acquire, Find, Resolve, Attach,
                 RecordMismatches, UpdateStatus, Book, MarkProcessed, Ack,
                 IncrementAttempts, AckFailed, DeadLetter, MarkDeadLettered, MarkFailed,
                 ScheduleRetry, Release
          <5> QED
            BY <4>1, <5>1 DEF Skip, Acked
        <4> QED
          BY <4>1
      <3> QED
        BY <1>0, <2>5, <3>1 DEF Held
    <2>6. CASE Read(w)
      BY <1>0, <1>1, <2>6 DEF Read
    <2> QED
      BY <2>2, <2>3, <2>4, <2>5, <2>6, BatchStep
  <1> QED
    BY <1>0, <1>1, <1>2, <1>3, <1>4, NobodyDies

LEMMA HeldInvStep ==
  ASSUME OnlyRunFails, TypeOK, StatusInv, TidyInv, HeldInv, [Next]_vars
  PROVE  HeldInv'
  <1> SUFFICES ASSUME Uncut', NEW i \in pending'
               PROVE  \E w \in Workers : i \in Held(w)' /\ (i = job'[w].cur => pc'[w] \in AtEntry)
    BY DEF HeldInv, AtEntry, RunSites
  <1>1. Uncut
    <2>1. CASE Events = {}
      BY <2>1 DEF Uncut, TypeOK, PostgresOK
    <2>2. CASE Events # {}
      BY <2>2, EvidenceStays DEF Uncut
    <2> QED
      BY <2>1, <2>2
  <1>2. CASE i \in pending
    BY <1>1, <1>2, EntryStays DEF HeldInv
  <1>3. CASE i \notin pending
    BY <1>3, NewEntry DEF AtEntry
  <1> QED
    BY <1>2, <1>3

\* As long as only run() and its ack fail, no entry is left un-acked: by any
\* number of workers, events, redeliveries, failures and expiring locks, up to
\* the first dead letter - and beyond it if batches hold one entry.
THEOREM NothingLeaks ==
  ASSUME OnlyRunFails
  PROVE  Spec => [](deadLetters = {} \/ BatchSize = 1 => NoPelLeak)
  <1>1. Init => TidyInv /\ HeldInv
    <2> SUFFICES ASSUME Init PROVE TidyInv /\ HeldInv
      OBVIOUS
    <2>1. \A w \in Workers : Held(w) = {} /\ pc[w] = "read" /\ job[w].end <= job[w].cur
      BY DEF Init, Held, NoJob, Batch
    <2> QED
      BY <2>1 DEF TidyInv, HeldInv, Init
  <1>2. TypeOK /\ StatusInv /\ TidyInv /\ HeldInv /\ [Next]_vars => (TidyInv /\ HeldInv)'
    BY TidyStep, HeldInvStep
  <1>3. TidyInv /\ HeldInv => (deadLetters = {} \/ BatchSize = 1 => NoPelLeak)
    <2>1. "read" \notin Busy
      BY DEF Busy, Holding, RunSites, FailureSites
    <2> QED
      BY <2>1 DEF TidyInv, HeldInv, Uncut, NoPelLeak, AtRest
  <1> QED
    BY <1>1, <1>2, <1>3, TypeCorrect, StatusCorrect, PTL DEF Spec

-----------------------------------------------------------------------------
(***************************************************************************)
(* What is known of an event: it has a row, and one worker at a time in the *)
(* guarded section, which is the only one to count its attempts and to     *)
(* write its verdict.                                                      *)
(***************************************************************************)
\* What is delivered, scheduled or being republished has a row.
StoredInv ==
  /\ \A i \in 1 .. Len(stream) : state[stream[i]] # Absent
  /\ \A e \in retries : state[e] # Absent
  /\ \A w \in Workers : \A e \in promotion[w].due : state[e] # Absent

\* Rows stay.
LEMMA RowsStay ==
  ASSUME TypeOK, [Next]_vars, NEW e \in Events, state[e] # Absent
  PROVE  state'[e] # Absent
  <1>1. CASE state'[e] = state[e]
    BY <1>1
  <1>2. CASE state'[e] # state[e]
    <2>1. CASE state'[e] = "PENDING"
      BY <2>1
    <2>2. ASSUME NEW w \in Workers, pc[w] \in Busy, Current(w) = e,
                 Book(w) \/ MarkProcessed(w) \/ MarkDeadLettered(w) \/ MarkFailed(w)
          PROVE  state'[e] # Absent
      <3>1. Result(w, job[w].seen).state \in ReconciliationState
        BY <2>2, ResultType
      <3> QED
        BY <2>2, <3>1
        DEF Book, MarkProcessed, MarkDeadLettered, MarkFailed, ReconciliationState, TypeOK,
            PostgresOK
    <2> QED
      BY <1>2, <2>1, <2>2, StateStep
  <1> QED
    BY <1>1, <1>2

\* Only stored events enter the stream, the retry set or a promotion.
LEMMA EntriesStep ==
  ASSUME TypeOK, [Next]_vars
  PROVE  /\ \/ stream' = stream
            \/ \E e \in Events : stream' = Append(stream, e) /\
                 (state[e] # Absent \/ \E w \in Workers : e \in promotion[w].due)
         /\ \A e \in retries' : e \in retries \/
              \E w \in Workers : pc[w] \in Busy /\ Current(w) = e
         /\ \A w \in Workers : promotion'[w].due \subseteq promotion[w].due \cup retries
  <1> DEFINE Grows == \/ stream' = stream
                      \/ \E e \in Events : stream' = Append(stream, e) /\
                           (state[e] # Absent \/ \E w \in Workers : e \in promotion[w].due)
             Planned == \A e \in retries' : e \in retries \/
                          \E w \in Workers : pc[w] \in Busy /\ Current(w) = e
             Pulled == \A w \in Workers :
                         promotion'[w].due \subseteq promotion[w].due \cup retries
  <1>t. promotion \in [Workers -> [due : SUBSET Events, removed : BOOLEAN]]
    BY DEF TypeOK, LocalOK
  <1>s. UNCHANGED promotion => Pulled
    OBVIOUS
  <1>1. ASSUME NEW w \in Workers, ScheduleRetry(w)
        PROVE  Grows /\ Planned /\ Pulled
    <2>1. /\ pc[w] \in Busy /\ retries' = retries \cup {Current(w)}
          /\ stream' = stream /\ promotion' = promotion
      BY <1>1 DEF ScheduleRetry, Scheduled, Busy, Holding, FailureSites
    <2> QED
      BY <1>s, <2>1
  <1>2. ASSUME NEW w \in Workers, Step(w) \/ Rejected(w), ~ScheduleRetry(w)
        PROVE  UNCHANGED <<stream, retries, promotion>>
    BY <1>2 DEF Step, Read, Acquire, Skip, Find, Resolve, Attach, RecordMismatches,
         UpdateStatus, Book, MarkProcessed, Ack, IncrementAttempts, AckFailed, DeadLetter,
         MarkDeadLettered, MarkFailed, Release, Rejected
  <1>3. ASSUME NEW w \in Workers, PullDue(w) \/ RemoveDue(w)
        PROVE  Grows /\ Planned /\ Pulled
    <2>1. stream' = stream /\ retries' \subseteq retries
      BY <1>3 DEF PullDue, RemoveDue
    <2>2. Pulled
      BY <1>3, <1>t DEF PullDue, RemoveDue, Due
    <2> QED
      BY <2>1, <2>2
  <1>4. ASSUME NEW w \in Workers, Republish(w)
        PROVE  Grows /\ Planned /\ Pulled
    <2>1. PICK e \in promotion[w].due : /\ stream' = Append(stream, e)
                                        /\ promotion' = [promotion EXCEPT ![w] = Without(@, e)]
      BY <1>4 DEF Republish
    <2>2. retries' = retries
      BY <1>4 DEF Republish
    <2>3. e \in Events
      BY <1>t, <2>1
    <2>4. Without(promotion[w], e).due \subseteq promotion[w].due
      BY DEF Without, Idle
    <2>5. Pulled
      BY <1>t, <2>1, <2>4
    <2> QED
      BY <2>1, <2>2, <2>3, <2>5
  <1>5. ASSUME NEW w \in Workers, Crash(w) \/ Stop(w) \/ PromotionThrows(w)
        PROVE  Grows /\ Planned /\ Pulled
    <2>1. Dies(w)
      BY <1>5 DEF Crash, Stop, PromotionThrows
    <2> QED
      BY <1>t, <2>1 DEF Dies, Idle
  <1>6. ASSUME NEW w \in Workers, Restart(w)
        PROVE  UNCHANGED <<stream, retries, promotion>>
    BY <1>6 DEF Restart
  <1>7. ASSUME NEW e \in Events, Expire(e) \/ Store(e)
        PROVE  UNCHANGED <<stream, retries, promotion>>
    BY <1>7 DEF Expire, Store
  <1>8. ASSUME NEW e \in Events, Publish(e)
        PROVE  Grows /\ Planned /\ Pulled
    BY <1>8 DEF Publish
  <1>9. ASSUME NEW o \in Orders, CreateOrder(o)
        PROVE  UNCHANGED <<stream, retries, promotion>>
    BY <1>9 DEF CreateOrder
  <1>10. UNCHANGED vars => UNCHANGED <<stream, retries, promotion>>
    BY DEF vars
  <1>11. UNCHANGED <<stream, retries, promotion>> => Grows /\ Planned /\ Pulled
    BY <1>s
  <1>12. Grows /\ Planned /\ Pulled
    <2> HIDE DEF Grows, Planned, Pulled
    <2> QED
      BY <1>1, <1>2, <1>3, <1>4, <1>5, <1>6, <1>7, <1>8, <1>9, <1>10, <1>11 DEF Next, Promote
  <1> QED
    BY <1>12

LEMMA StoredStep ==
  ASSUME TypeOK, TypeOK', StoredInv, [Next]_vars
  PROVE  StoredInv'
  <1>1. /\ stream \in Seq(Events) /\ retries \subseteq Events /\ retries' \subseteq Events
        /\ \A w \in Workers : /\ promotion[w].due \subseteq Events
                              /\ promotion'[w].due \subseteq Events
    BY DEF TypeOK, RedisOK, LocalOK
  <1>2. \A i \in 1 .. Len(stream') : state'[stream'[i]] # Absent
    <2>1. \A i \in 1 .. Len(stream) : stream[i] \in Events /\ state'[stream[i]] # Absent
      BY <1>1, RowsStay DEF StoredInv
    <2>2. ASSUME NEW e \in Events, stream' = Append(stream, e),
                 state[e] # Absent \/ \E w \in Workers : e \in promotion[w].due
          PROVE  \A i \in 1 .. Len(stream') : state'[stream'[i]] # Absent
      <3>1. state'[e] # Absent
        BY <2>2, RowsStay DEF StoredInv
      <3>2. /\ Len(stream') = Len(stream) + 1 /\ stream'[Len(stream) + 1] = e
            /\ \A i \in 1 .. Len(stream) : stream'[i] = stream[i]
        BY <1>1, <2>2
      <3> QED
        BY <1>1, <2>1, <3>1, <3>2
    <2> QED
      BY <2>1, <2>2, EntriesStep
  <1>3. \A e \in retries' : state'[e] # Absent
    <2>1. ASSUME NEW w \in Workers, pc[w] \in Busy
          PROVE  state[Current(w)] # Absent
      BY <2>1, CurrentIsEvent DEF StoredInv, Current, TypeOK, RedisOK
    <2> QED
      BY <1>1, <2>1, EntriesStep, RowsStay DEF StoredInv
  <1>4. \A w \in Workers : \A e \in promotion'[w].due : state'[e] # Absent
    <2> SUFFICES ASSUME NEW w \in Workers, NEW e \in promotion'[w].due
                 PROVE  state'[e] # Absent
      OBVIOUS
    <2>1. e \in promotion[w].due \/ e \in retries
      BY EntriesStep
    <2>2. e \in Events /\ state[e] # Absent
      BY <1>1, <2>1 DEF StoredInv
    <2> QED
      BY <2>2, RowsStay
  <1> QED
    BY <1>2, <1>3, <1>4 DEF StoredInv

\* A step of a worker moves no other.
LEMMA OthersStand ==
  ASSUME TypeOK, NEW w \in Workers, Step(w) \/ Rejected(w), NEW v \in Workers, v # w
  PROVE  pc'[v] = pc[v] /\ job'[v] = job[v]
  <1>1. Throws(w) \/ \E next, j : Returns(w, next, j)
    BY DEF Step, Read, Acquire, Skip, Find, Resolve, Attach, RecordMismatches,
       UpdateStatus, Book, MarkProcessed, Ack, IncrementAttempts, AckFailed,
       DeadLetter, MarkDeadLettered, MarkFailed, ScheduleRetry, Release, Rejected, Fails
  <1> QED
    BY <1>1 DEF Returns, Fails, Throws, TypeOK, LocalOK

\* The budget of overruns is kept.
LEMMA NoOverrun ==
  ASSUME TypeOK, [Next]_vars, MaxOverruns = 0, overruns = 0
  PROVE  overruns' = 0
  <1>1. ASSUME NEW e \in Events, Expire(e)
        PROVE  overruns' = 0
    BY <1>1 DEF Expire
  <1>2. ASSUME NEW w \in Workers, Step(w) \/ Rejected(w)
        PROVE  UNCHANGED overruns
    BY <1>2 DEF Step, Read, Acquire, Skip, Find, Resolve, Attach, RecordMismatches,
         UpdateStatus, Book, MarkProcessed, Ack, IncrementAttempts, AckFailed,
         DeadLetter, MarkDeadLettered, MarkFailed, ScheduleRetry, Release, Rejected
  <1>3. ASSUME NEW w \in Workers,
               \/ Promote(w) \/ Crash(w) \/ Stop(w) \/ PromotionThrows(w) \/ Restart(w)
        PROVE  UNCHANGED overruns
    BY <1>3 DEF Promote, PullDue, RemoveDue, Republish, Crash, Stop, PromotionThrows,
         Dies, Restart
  <1>4. ASSUME NEW e \in Events, Store(e) \/ Publish(e)
        PROVE  UNCHANGED overruns
    BY <1>4 DEF Store, Publish
  <1>5. ASSUME NEW o \in Orders, CreateOrder(o)
        PROVE  UNCHANGED overruns
    BY <1>5 DEF CreateOrder
  <1> QED
    BY <1>1, <1>2, <1>3, <1>4, <1>5 DEF Next, vars

\* Every payment has an outcome: one that has none is acked PENDING by design.
Outcomes == \A e \in Events : Payment[e].gatewayStatus # "PENDING"

Open(e) == state[e] \in {"PENDING", "FAILED"}

\* Who owns a lock runs its event: no process ends, and release frees the key.
OwnerInv == \A e \in Events : lock[e] # NoOne => Runs(lock[e], e)

\* What a worker in handleFailure knows of the attempts: nobody else counts any.
TriesInv ==
  \A w \in Workers :
    /\ pc[w] \in {"failAck", "dead"} => job[w].tries = attempts[Current(w)]
    /\ pc[w] \in {"failAck", "failed", "schedule"} => attempts[Current(w)] >= 1
    /\ pc[w] \in {"failed", "schedule"} => attempts[Current(w)] < MaxAttempts

\* A dead-lettered event is out of attempts, and concluded but for the mark.
DeadInv ==
  \A e \in deadLetters :
    /\ attempts[e] >= MaxAttempts /\ state[e] # Absent
    /\ Open(e) => \E w \in Workers : pc[w] = "deadMark" /\ Current(w) = e

\* Who acks has a verdict; who releases has a verdict or a failure.
VerdictInv ==
  \A w \in Workers :
    /\ pc[w] \in {"ack", "releaseThrow"} => ~Open(Current(w))
    /\ pc[w] \in {"schedule", "release"} => state[Current(w)] # "PENDING"

\* The fleet while every lock lasts as long as its holder.
FleetInv ==
  /\ TypeOK /\ StatusInv /\ EvidenceInv /\ TidyInv /\ StoredInv
  /\ LockInv /\ overruns = 0
  /\ OwnerInv /\ TriesInv /\ DeadInv /\ VerdictInv

\* A worker in the guarded section is there alone with its event.
LEMMA Alone ==
  ASSUME LockInv, overruns = 0, NEW v \in Workers, NEW w \in Workers,
         pc[v] \in Holding, pc[w] \in Holding, Current(v) = Current(w)
  PROVE  v = w
  BY DEF LockInv

\* The step a worker takes, by where it is.
LEMMA StepAt ==
  ASSUME NEW w \in Workers, Step(w)
  PROVE  /\ pc[w] \in {"book", "mark"} => Book(w) \/ MarkProcessed(w)
         /\ pc[w] = "deadMark" => MarkDeadLettered(w)
         /\ pc[w] = "failed" => MarkFailed(w)
         /\ pc[w] = "schedule" => ScheduleRetry(w)
         /\ pc[w] \in {"release", "releaseThrow"} => Release(w)
  BY DEF Step, Read, Acquire, Skip, Find, Resolve, Attach, RecordMismatches, UpdateStatus,
     Book, MarkProcessed, Ack, IncrementAttempts, AckFailed, DeadLetter, MarkDeadLettered,
     MarkFailed, ScheduleRetry, Release

\* A worker leaves the guarded section only by releasing.
LEMMA HolderLeaves ==
  ASSUME OnlyRunFails, TypeOK, [Next]_vars, NEW w \in Workers, pc[w] \in Holding,
         pc'[w] \notin Holding
  PROVE  Release(w)
  <1>0. /\ "down" \notin Holding
        /\ {"fail", "releaseThrow", "find", "resolve", "attach", "mismatch", "status", "book",
            "mark", "ack", "failAck", "dead", "deadMark", "failed", "schedule",
            "release"} \subseteq Holding
        /\ {"acquire", "skip", "read"} \cap Holding = {}
    BY DEF Holding, RunSites, FailureSites
  <1>1. Step(w) /\ ~Fails(w)
    BY <1>0, FailsStep, NobodyDies
  <1>2. CASE pc[w] \in {"release", "releaseThrow"}
    BY <1>1, <1>2, StepAt
  <1>3. CASE pc[w] \in RunSites \cup FailureSites
    <2>1. ~Throws(w)
      BY <1>0, <1>3, ThrowStep DEF Throws, OnThrow, TypeOK, LocalOK
    <2> QED
      BY <1>0, <1>1, <1>3, <2>1, OwnStep, AfterReconcileLabel
      DEF Read, Acquire, Resolve, RecordMismatches, UpdateStatus, IncrementAttempts,
          DeadLetter, RunSites, FailureSites
  <1> QED
    BY <1>2, <1>3 DEF Holding

\* A lock is given only by Acquire, to the worker it takes to find().
LEMMA LockTaken ==
  ASSUME OnlyRunFails, TypeOK, [Next]_vars, NEW e \in Events, lock'[e] # lock[e],
         lock'[e] # NoOne
  PROVE  \E w \in Workers : /\ Acquire(w) /\ lock'[e] = w /\ Current(w) = e
                           /\ pc'[w] = "find" /\ job'[w] = job[w]
  <1> USE DEF TypeOK, RedisOK, LocalOK
  <1>1. ASSUME NEW w \in Workers, Acquire(w)
        PROVE  /\ lock'[e] = w /\ Current(w) = e
               /\ pc'[w] = "find" /\ job'[w] = job[w]
    <2>1. ~Fails(w)
      BY <1>1 DEF Acquire, Fails, OnlyRunFails, RunSites
    <2> QED
      BY <1>1, <2>1 DEF Acquire, Returns
  <1>2. ASSUME NEW w \in Workers, Step(w) \/ Rejected(w), ~Acquire(w)
        PROVE  FALSE
    BY <1>2 DEF Step, Read, Skip, Find, Resolve, Attach, RecordMismatches,
         UpdateStatus, Book, MarkProcessed, Ack, IncrementAttempts, AckFailed, DeadLetter,
         MarkDeadLettered, MarkFailed, ScheduleRetry, Release, CompareAndDelete, Rejected
  <1>3. ASSUME NEW w \in Workers,
               \/ Promote(w) \/ Crash(w) \/ Stop(w) \/ PromotionThrows(w) \/ Restart(w)
        PROVE  FALSE
    BY <1>3 DEF Promote, PullDue, RemoveDue, Republish, Crash, Stop, PromotionThrows,
         Dies, Restart
  <1>4. ASSUME NEW f \in Events, Expire(f) \/ Store(f) \/ Publish(f)
        PROVE  FALSE
    BY <1>4 DEF Expire, Store, Publish
  <1>5. ASSUME NEW o \in Orders, CreateOrder(o)
        PROVE  FALSE
    BY <1>5 DEF CreateOrder
  <1> QED
    BY <1>1, <1>2, <1>3, <1>4, <1>5 DEF Next, vars

\* An owner keeps running, or frees the key with its release.
LEMMA OwnerStep ==
  ASSUME OnlyRunFails, TypeOK, OwnerInv, [Next]_vars
  PROVE  OwnerInv'
  <1> SUFFICES ASSUME NEW e \in Events, lock'[e] # NoOne
               PROVE  \E w \in Workers :
                        lock'[e] = w /\ pc'[w] \in Holding /\ Current(w)' = e
    BY DEF OwnerInv, Runs
  <1>1. CASE lock'[e] # lock[e]
    <2>1. PICK w \in Workers : /\ Acquire(w) /\ lock'[e] = w /\ Current(w) = e
                               /\ pc'[w] = "find" /\ job'[w] = job[w]
      BY <1>1, LockTaken
    <2>2. pc'[w] \in Holding
      BY <2>1 DEF Holding, RunSites
    <2> QED
      BY <2>1, <2>2, HolderStep
  <1>2. CASE lock'[e] = lock[e]
    <2>1. PICK w \in Workers : lock[e] = w
      BY <1>2 DEF TypeOK, RedisOK
    <2>2. pc[w] \in Holding /\ Current(w) = e
      BY <1>2, <2>1 DEF OwnerInv, Runs
    <2>3. ~Release(w)
      <3>1. NoOne \notin Workers
        BY WorkerAssumption
      <3> QED
        BY <1>2, <2>1, <2>2, <3>1 DEF Release, CompareAndDelete, TypeOK, RedisOK
    <2>4. pc'[w] \in Holding
      BY <2>2, <2>3, HolderLeaves
    <2> QED
      BY <1>2, <2>1, <2>2, <2>4, HolderStep
  <1> QED
    BY <1>1, <1>2

\* While a worker holds its event, nobody else writes the event's row.
LEMMA HolderState ==
  ASSUME TypeOK, StoredInv, LockInv, overruns = 0, [Next]_vars,
         NEW v \in Workers, pc[v] \in Holding
  PROVE  \/ state'[Current(v)] = state[Current(v)]
         \/ Book(v) \/ MarkProcessed(v) \/ MarkDeadLettered(v) \/ MarkFailed(v)
  <1>1. Current(v) \in Events /\ state[Current(v)] # Absent
    <2>1. pc[v] \in Busy
      BY DEF Busy
    <2> QED
      BY <2>1, CurrentIsEvent DEF StoredInv, Current, TypeOK, RedisOK
  <1>2. ASSUME NEW w \in Workers, Current(w) = Current(v),
               Book(w) \/ MarkProcessed(w) \/ MarkDeadLettered(w) \/ MarkFailed(w)
        PROVE  w = v
    <2>1. pc[w] \in Holding
      BY <1>2 DEF Book, MarkProcessed, MarkDeadLettered, MarkFailed, Holding, RunSites,
         FailureSites
    <2> QED
      BY <1>2, <2>1, Alone
  <1> QED
    BY <1>1, <1>2, StateStep

\* Nor does anybody else count its attempts.
LEMMA HolderAttempts ==
  ASSUME TypeOK, LockInv, overruns = 0, [Next]_vars, NEW v \in Workers, pc[v] \in Holding
  PROVE  IncrementAttempts(v) \/ attempts'[Current(v)] = attempts[Current(v)]
  <1>1. ASSUME NEW w \in Workers, IncrementAttempts(w)
        PROVE  w = v \/ attempts'[Current(v)] = attempts[Current(v)]
    <2>1. pc[w] \in Holding
      BY <1>1 DEF IncrementAttempts, Holding, FailureSites
    <2>2. w = v \/ Current(w) # Current(v)
      BY <2>1, Alone
    <2> QED
      BY <1>1, <2>2 DEF IncrementAttempts, TypeOK, PostgresOK
  <1>2. ASSUME NEW w \in Workers, Step(w) \/ Rejected(w), ~IncrementAttempts(w)
        PROVE  UNCHANGED attempts
    BY <1>2 DEF Step, Read, Acquire, Skip, Find, Resolve, Attach, RecordMismatches,
         UpdateStatus, Book, MarkProcessed, Ack, AckFailed, DeadLetter,
         MarkDeadLettered, MarkFailed, ScheduleRetry, Release, Rejected
  <1>3. ASSUME NEW w \in Workers,
               \/ Promote(w) \/ Crash(w) \/ Stop(w) \/ PromotionThrows(w) \/ Restart(w)
        PROVE  UNCHANGED attempts
    BY <1>3 DEF Promote, PullDue, RemoveDue, Republish, Crash, Stop, PromotionThrows,
         Dies, Restart
  <1>4. ASSUME NEW f \in Events, Expire(f) \/ Store(f) \/ Publish(f)
        PROVE  UNCHANGED attempts
    BY <1>4 DEF Expire, Store, Publish
  <1>5. ASSUME NEW o \in Orders, CreateOrder(o)
        PROVE  UNCHANGED attempts
    BY <1>5 DEF CreateOrder
  <1> QED
    BY <1>1, <1>2, <1>3, <1>4, <1>5 DEF Next, vars

\* A payment with an outcome is judged for good.
LEMMA VerdictIsFinal ==
  ASSUME Outcomes, NEW w \in Workers, Current(w) \in Events, NEW seen
  PROVE  Result(w, seen).state \notin {"PENDING", "FAILED"}
  <1>1. /\ Payment[Current(w)].gatewayStatus \in PaymentStatus
        /\ Payment[Current(w)].gatewayStatus # "PENDING"
    BY WorkerAssumption DEF Outcomes
  <1>2. Result(w, seen).state = "PENDING" => Payment[Current(w)].gatewayStatus = "PENDING"
    BY DEF Result, Reconcile, Verdict
  <1>3. Result(w, seen).state \in {"PENDING", "MATCHED", "MISMATCHED"}
    BY <1>1, ReconcileCoherent DEF Result
  <1> QED
    BY <1>1, <1>2, <1>3

LEMMA TriesStep ==
  ASSUME OnlyRunFails, TypeOK, LockInv, overruns = 0, TriesInv, [Next]_vars
  PROVE  TriesInv'
  <1> SUFFICES ASSUME NEW v \in Workers, pc'[v] \in {"failAck", "dead", "failed", "schedule"}
               PROVE  (/\ pc[v] \in {"failAck", "dead"} =>
                            job[v].tries = attempts[Current(v)]
                       /\ pc[v] \in {"failAck", "failed", "schedule"} =>
                            attempts[Current(v)] >= 1
                       /\ pc[v] \in {"failed", "schedule"} =>
                            attempts[Current(v)] < MaxAttempts)'
    BY DEF TriesInv
  <1> DEFINE e == Current(v)
  <1>1. pc[v] \in Holding /\ pc[v] \in Busy /\ e' = e
    BY HolderStep DEF Holding, FailureSites
  <1>2. attempts[e] \in Nat /\ job[v].tries \in Nat /\ MaxAttempts \in Nat
    BY <1>1, CurrentIsEvent, WorkerAssumption DEF TypeOK, PostgresOK, LocalOK, Job
  <1>3. IncrementAttempts(v) \/ attempts'[e] = attempts[e]
    BY <1>1, HolderAttempts
  <1> DEFINE Counted == /\ pc'[v] \in {"failAck", "dead"} => job'[v].tries = attempts'[e]
                        /\ pc'[v] \in {"failAck", "failed", "schedule"} => attempts'[e] >= 1
                        /\ pc'[v] \in {"failed", "schedule"} => attempts'[e] < MaxAttempts
  <1> SUFFICES Counted
    BY <1>1
  <1>4. CASE pc'[v] = pc[v] /\ job'[v] = job[v]
    <2>1. ~IncrementAttempts(v)
      BY <1>4 DEF IncrementAttempts
    <2> QED
      BY <1>3, <1>4, <2>1 DEF TriesInv
  <1>5. CASE Step(v) /\ ~Fails(v)
    <2>1. ~Throws(v)
      BY ThrowStep
    <2>2. CASE pc'[v] = "failAck"
      <3>1. IncrementAttempts(v) /\ job'[v].tries = attempts[e] + 1
        BY <1>5, <2>1, <2>2, OwnStep, AfterReconcileLabel
      <3>2. attempts'[e] = attempts[e] + 1
        BY <1>1, <3>1, CurrentIsEvent DEF IncrementAttempts, TypeOK, PostgresOK
      <3> QED
        BY <1>2, <2>2, <3>1, <3>2
    <2>3. CASE pc'[v] \in {"dead", "failed"}
      <3>1. /\ pc[v] = "failAck" /\ job'[v] = job[v]
            /\ pc'[v] = IF Exhausted(v) THEN "dead" ELSE "failed"
        BY <1>5, <2>1, <2>3, OwnStep, AfterReconcileLabel
      <3>2. attempts'[e] = attempts[e]
        BY <1>3, <3>1 DEF IncrementAttempts
      <3> QED
        BY <1>2, <2>3, <3>1, <3>2 DEF Exhausted, TriesInv
    <2>4. CASE pc'[v] = "schedule"
      <3>1. pc[v] = "failed"
        BY <1>5, <2>1, <2>4, OwnStep, AfterReconcileLabel
      <3>2. attempts'[e] = attempts[e]
        BY <1>3, <3>1 DEF IncrementAttempts
      <3> QED
        BY <2>4, <3>1, <3>2 DEF TriesInv
    <2> QED
      BY <2>2, <2>3, <2>4
  <1> HIDE DEF Counted
  <1> QED
    BY <1>4, <1>5, NobodyDies, FailsStep

\* Dead letters are written by DeadLetter alone.
LEMMA DeadLetterStep ==
  ASSUME TypeOK, [Next]_vars, NEW e \in deadLetters', e \notin deadLetters
  PROVE  \E w \in Workers : DeadLetter(w) /\ Current(w) = e
  <1>1. ASSUME NEW w \in Workers, DeadLetter(w)
        PROVE  Current(w) = e
    BY <1>1 DEF DeadLetter
  <1>2. ASSUME NEW w \in Workers, Step(w) \/ Rejected(w), ~DeadLetter(w)
        PROVE  UNCHANGED deadLetters
    BY <1>2 DEF Step, Read, Acquire, Skip, Find, Resolve, Attach, RecordMismatches,
         UpdateStatus, Book, MarkProcessed, Ack, IncrementAttempts, AckFailed,
         MarkDeadLettered, MarkFailed, ScheduleRetry, Release, Rejected
  <1>3. ASSUME NEW w \in Workers,
               \/ Promote(w) \/ Crash(w) \/ Stop(w) \/ PromotionThrows(w) \/ Restart(w)
        PROVE  UNCHANGED deadLetters
    BY <1>3 DEF Promote, PullDue, RemoveDue, Republish, Crash, Stop, PromotionThrows,
         Dies, Restart
  <1>4. ASSUME NEW f \in Events, Expire(f) \/ Store(f) \/ Publish(f)
        PROVE  UNCHANGED deadLetters
    BY <1>4 DEF Expire, Store, Publish
  <1>5. ASSUME NEW o \in Orders, CreateOrder(o)
        PROVE  UNCHANGED deadLetters
    BY <1>5 DEF CreateOrder
  <1> QED
    BY <1>1, <1>2, <1>3, <1>4, <1>5 DEF Next, vars

LEMMA DeadStep ==
  ASSUME OnlyRunFails, Outcomes, FleetInv, [Next]_vars
  PROVE  DeadInv'
  <1> USE DEF FleetInv
  <1> SUFFICES ASSUME NEW e \in deadLetters'
               PROVE  /\ attempts'[e] >= MaxAttempts /\ state'[e] # Absent
                      /\ Open(e)' => \E w \in Workers : pc'[w] = "deadMark" /\ Current(w)' = e
    BY DEF DeadInv
  <1> DEFINE Late == \E w \in Workers : pc'[w] = "deadMark" /\ Current(w)' = e
  <1>0. MaxAttempts \in Nat
    BY WorkerAssumption
  <1>1. CASE e \notin deadLetters
    <2>1. PICK w \in Workers : DeadLetter(w) /\ Current(w) = e
      BY <1>1, DeadLetterStep
    <2>2. pc[w] = "dead" /\ ~Fails(w) /\ pc[w] \in Busy
      BY <2>1 DEF DeadLetter, Fails, OnlyRunFails, RunSites, Busy, Holding, FailureSites
    <2>3. e \in Events
      BY <2>1, <2>2, CurrentIsEvent
    <2>4. pc'[w] = "deadMark" /\ job'[w] = job[w] /\ attempts' = attempts /\ state' = state
      BY <1>1, <2>1, <2>2 DEF DeadLetter, Returns, TypeOK, LocalOK
    <2>5. Current(w)' = e
      BY <2>1, <2>2, <2>4, CurrentStable
    <2>6. attempts[e] >= MaxAttempts
      BY <1>0, <2>1, <2>2 DEF EvidenceInv, TriesInv
    <2>7. state[e] # Absent
      BY <2>1, <2>2, CurrentIsEvent DEF StoredInv, Current, TypeOK, RedisOK
    <2> QED
      BY <2>4, <2>5, <2>6, <2>7
  <1>2. CASE e \in deadLetters
    <2>1. e \in Events
      BY <1>2 DEF TypeOK, PostgresOK
    <2>2. attempts'[e] >= MaxAttempts
      BY <1>0, <1>2, <2>1, EvidenceStays DEF DeadInv
    <2>3. state'[e] # Absent
      BY <1>2, <2>1, RowsStay DEF DeadInv
    <2>4. ASSUME Open(e)'
          PROVE  Late
      <3>1. CASE state'[e] = state[e]
        <4>1. PICK w \in Workers : pc[w] = "deadMark" /\ Current(w) = e
          BY <1>2, <2>4, <3>1 DEF DeadInv, Open
        <4>2. pc[w] \in Busy /\ ~Fails(w)
          BY <4>1 DEF Fails, OnlyRunFails, RunSites, Busy, Holding, FailureSites
        <4>3. ~Step(w)
          <5>1. ASSUME Step(w)
                PROVE  MarkDeadLettered(w)
            BY <4>1, <5>1, StepAt
          <5>2. ASSUME MarkDeadLettered(w)
                PROVE  state'[e] = "DEAD_LETTERED"
            BY <2>1, <4>1, <5>2 DEF MarkDeadLettered, TypeOK, PostgresOK
          <5> QED
            BY <2>4, <5>1, <5>2 DEF Open
        <4>4. pc'[w] = pc[w] /\ job'[w] = job[w]
          BY <4>1, <4>2, <4>3, NobodyDies
        <4> QED
          BY <4>1, <4>2, <4>4, CurrentStable
      <3>2. CASE state'[e] # state[e]
        <4>1. PICK w \in Workers :
                /\ pc[w] \in Busy /\ Current(w) = e
                /\ Book(w) \/ MarkProcessed(w) \/ MarkDeadLettered(w) \/ MarkFailed(w)
          BY <1>2, <2>1, <3>2, StateStep DEF DeadInv
        <4>2. ~MarkFailed(w)
          BY <1>0, <1>2, <2>1, <4>1 DEF MarkFailed, TriesInv, DeadInv, TypeOK, PostgresOK
        <4>3. CASE MarkDeadLettered(w)
          BY <2>1, <2>4, <4>1, <4>3 DEF MarkDeadLettered, Open, TypeOK, PostgresOK
        <4>4. CASE Book(w) \/ MarkProcessed(w)
          <5>1. state'[e] = Result(w, job[w].seen).state
            BY <2>1, <4>1, <4>4 DEF Book, MarkProcessed, TypeOK, PostgresOK
          <5> QED
            BY <2>1, <2>4, <4>1, <5>1, VerdictIsFinal DEF Open
        <4> QED
          BY <4>1, <4>2, <4>3, <4>4
      <3> QED
        BY <3>1, <3>2
    <2> QED
      BY <2>2, <2>3, <2>4
  <1> QED
    BY <1>1, <1>2

LEMMA VerdictStep ==
  ASSUME OnlyRunFails, Outcomes, FleetInv, [Next]_vars
  PROVE  VerdictInv'
  <1> USE DEF FleetInv
  <1> SUFFICES ASSUME NEW v \in Workers,
                      pc'[v] \in {"ack", "releaseThrow", "schedule", "release"}
               PROVE  (/\ pc[v] \in {"ack", "releaseThrow"} => ~Open(Current(v))
                       /\ pc[v] \in {"schedule", "release"} => state[Current(v)] # "PENDING")'
    BY DEF VerdictInv
  <1> DEFINE e == Current(v)
             Judged == /\ pc'[v] \in {"ack", "releaseThrow"} =>
                            state'[e] \notin {"PENDING", "FAILED"}
                       /\ pc'[v] \in {"schedule", "release"} => state'[e] # "PENDING"
  <1>1. pc[v] \in Holding /\ pc[v] \in Busy /\ e' = e
    BY HolderStep DEF Holding, RunSites, FailureSites
  <1>2. e \in Events
    BY <1>1, CurrentIsEvent
  <1>3. \/ state'[e] = state[e]
        \/ Book(v) \/ MarkProcessed(v) \/ MarkDeadLettered(v) \/ MarkFailed(v)
    BY <1>1, HolderState
  <1> SUFFICES Judged
    BY <1>1 DEF Open
  <1>4. CASE pc'[v] = pc[v] /\ job'[v] = job[v]
    BY <1>3, <1>4 DEF VerdictInv, Open, Book, MarkProcessed, MarkDeadLettered, MarkFailed
  <1>5. CASE Step(v) /\ ~Fails(v)
    <2>1. CASE pc'[v] = "releaseThrow"
      <3>1. DeadLetter(v) /\ e \in deadLetters
        BY <1>5, <2>1, ThrownOut
      <3>2. pc[v] = "dead" /\ state' = state
        BY <3>1 DEF DeadLetter
      <3>3. ASSUME NEW u \in Workers, pc[u] = "deadMark", Current(u) = e
            PROVE  FALSE
        BY <1>1, <3>2, <3>3, Alone DEF Holding, FailureSites
      <3> QED
        BY <2>1, <3>1, <3>2, <3>3 DEF DeadInv, Open
    <2>2. CASE pc'[v] # "releaseThrow"
      <3>0. ~Throws(v)
        BY <2>2, ThrowStep
      <3>1. CASE pc'[v] = "ack"
        <4>1. pc[v] \in {"book", "mark"}
          BY <1>5, <3>0, <3>1, OwnStep, AfterReconcileLabel
        <4>2. Book(v) \/ MarkProcessed(v)
          BY <1>5, <4>1, StepAt
        <4>3. state'[e] = Result(v, job[v].seen).state
          BY <1>2, <4>2 DEF Book, MarkProcessed, TypeOK, PostgresOK
        <4> QED
          BY <1>2, <3>1, <4>3, VerdictIsFinal
      <3>2. CASE pc'[v] = "schedule"
        <4>1. pc[v] = "failed"
          BY <1>5, <3>0, <3>2, OwnStep, AfterReconcileLabel
        <4>2. MarkFailed(v)
          BY <1>5, <4>1, StepAt
        <4>3. state'[e] = "FAILED"
          BY <1>2, <4>2 DEF MarkFailed, TypeOK, PostgresOK
        <4> QED
          BY <3>2, <4>3
      <3>3. CASE pc'[v] = "release"
        <4>1. pc[v] \in {"ack", "deadMark", "schedule"}
          BY <1>5, <3>0, <3>3, OwnStep, AfterReconcileLabel
        <4>2. CASE pc[v] \in {"ack", "schedule"}
          <5>1. state'[e] = state[e]
            BY <1>3, <4>2 DEF Book, MarkProcessed, MarkDeadLettered, MarkFailed
          <5> QED
            BY <3>3, <4>2, <5>1 DEF VerdictInv, Open
        <4>3. CASE pc[v] = "deadMark"
          <5>1. MarkDeadLettered(v)
            BY <1>5, <4>3, StepAt
          <5>2. state'[e] = "DEAD_LETTERED"
            BY <1>2, <5>1 DEF MarkDeadLettered, TypeOK, PostgresOK
          <5> QED
            BY <3>3, <5>2
        <4> QED
          BY <4>1, <4>2, <4>3
      <3> QED
        BY <2>2, <3>1, <3>2, <3>3
    <2> QED
      BY <2>1, <2>2
  <1> HIDE DEF Judged
  <1> QED
    BY <1>4, <1>5, NobodyDies, FailsStep

-----------------------------------------------------------------------------
(***************************************************************************)
(* Nothing published is left without a verdict and without anybody to give *)
(* it one.                                                                 *)
(***************************************************************************)
\* The labels at which a worker has yet to conclude or to schedule its event.
AtWork ==
  (RunSites \ {"ack"}) \cup
    {"acquire", "fail", "failAck", "dead", "deadMark", "failed", "schedule"}

Unread(e) == \E i \in lastDelivered + 1 .. Len(stream) : stream[i] = e

Planned(e) == e \in retries \/ \E w \in Workers : e \in promotion[w].due

\* Worker w has e ahead of it, or at hand and not dealt with.
Carries(w, e) ==
  \E i \in Held(w) : stream[i] = e /\ (i = job[w].cur => pc[w] \in AtWork)

\* An open event is to be read, planned or carried; unlike Carried, this does
\* not count a worker that is about to drop it.
InHandInv ==
  Uncut => \A e \in Events : Published(e) /\ Open(e) =>
             Unread(e) \/ Planned(e) \/ \E w \in Workers : Carries(w, e)

\* A delivery that meets the lock of a failed event, about to be released, finds
\* the event scheduled.
RetriesWait ==
  \A v, w \in Workers :
    pc[v] = "acquire" /\ pc[w] = "release" /\ Current(v) = Current(w)
      /\ state[Current(w)] = "FAILED" => Current(w) \in retries

LEMMA FleetStep ==
  ASSUME OnlyRunFails, Outcomes, MaxOverruns = 0, FleetInv, [Next]_vars
  PROVE  FleetInv'
  <1> USE DEF FleetInv
  <1>1. TypeOK' /\ StatusInv' /\ EvidenceInv' /\ TidyInv'
    BY StepType, OtherStepsType, StatusStep, EvidenceInvStep, TidyStep
  <1>2. StoredInv' /\ LockInv' /\ overruns' = 0
    BY <1>1, StoredStep, LockInvStep, NoOverrun
  <1>3. OwnerInv' /\ TriesInv' /\ DeadInv' /\ VerdictInv'
    BY OwnerStep, TriesStep, DeadStep, VerdictStep
  <1> QED
    BY <1>1, <1>2, <1>3

LEMMA FleetInit ==
  ASSUME Init
  PROVE  FleetInv
  <1>1. \A w \in Workers : pc[w] = "read" /\ promotion[w].due = {} /\ Held(w) = {}
                           /\ job[w].end <= job[w].cur
    BY DEF Init, Idle, Held, NoJob, Batch
  <1>2. "read" \notin Holding
    BY DEF Holding, RunSites, FailureSites
  <1>3. \A e \in Events : lock[e] = NoOne
    BY DEF Init
  <1>4. Len(stream) = 0 /\ retries = {} /\ deadLetters = {} /\ overruns = 0
    BY DEF Init
  <1> QED
    BY <1>1, <1>2, <1>3, <1>4, InitType
    DEF FleetInv, StatusInv, EvidenceInv, TidyInv, StoredInv, LockInv, OwnerInv, TriesInv,
        DeadInv, VerdictInv

\* What is appended is yet to be read.
LEMMA AppendUnread ==
  ASSUME TypeOK, NEW e \in Events, stream' = Append(stream, e),
         lastDelivered' = lastDelivered
  PROVE  Unread(e)'
  <1>1. /\ stream \in Seq(Events) /\ lastDelivered \in 0 .. Len(stream)
        /\ Len(stream) \in Nat
    BY DEF TypeOK, RedisOK
  <1>2. Len(stream') = Len(stream) + 1 /\ stream'[Len(stream) + 1] = e
    BY <1>1
  <1>3. Len(stream) + 1 \in lastDelivered' + 1 .. Len(stream')
    BY <1>1, <1>2
  <1> QED
    BY <1>2, <1>3 DEF Unread

\* What is read is carried by its reader.
LEMMA DeliverStep ==
  ASSUME OnlyRunFails, TypeOK, [Next]_vars
  PROVE  \/ lastDelivered' = lastDelivered
         \/ \E w \in Workers : /\ Held(w)' = lastDelivered + 1 .. lastDelivered'
                               /\ pc'[w] = "acquire" /\ stream' = stream
  <1>1. ASSUME NEW w \in Workers, Read(w)
        PROVE  /\ Held(w)' = lastDelivered + 1 .. lastDelivered'
               /\ pc'[w] = "acquire" /\ stream' = stream
    <2> DEFINE last == lastDelivered + Smaller(BatchSize, Len(stream) - lastDelivered)
    <2>1. ~Fails(w)
      BY <1>1 DEF Read, Fails, OnlyRunFails, RunSites
    <2>2. /\ pc' = [pc EXCEPT ![w] = "acquire"] /\ stream' = stream
          /\ job' = [job EXCEPT ![w] = Batch(lastDelivered + 1, last)]
          /\ lastDelivered' = last
      BY <1>1, <2>1 DEF Read, Returns
    <2> HIDE DEF last
    <2>3. /\ Batch(lastDelivered + 1, last).cur = lastDelivered + 1
          /\ Batch(lastDelivered + 1, last).end = last
      BY DEF Batch
    <2> QED
      BY <2>2, <2>3 DEF Held, TypeOK, LocalOK
  <1>2. ASSUME NEW w \in Workers, Step(w) \/ Rejected(w), ~Read(w)
        PROVE  UNCHANGED lastDelivered
    BY <1>2 DEF Step, Acquire, Skip, Find, Resolve, Attach, RecordMismatches, UpdateStatus,
         Book, MarkProcessed, Ack, IncrementAttempts, AckFailed, DeadLetter,
         MarkDeadLettered, MarkFailed, ScheduleRetry, Release, Rejected
  <1>3. ASSUME NEW w \in Workers,
               \/ Promote(w) \/ Crash(w) \/ Stop(w) \/ PromotionThrows(w) \/ Restart(w)
        PROVE  UNCHANGED lastDelivered
    BY <1>3 DEF Promote, PullDue, RemoveDue, Republish, Crash, Stop, PromotionThrows,
         Dies, Restart
  <1>4. ASSUME NEW f \in Events, Expire(f) \/ Store(f) \/ Publish(f)
        PROVE  UNCHANGED lastDelivered
    BY <1>4 DEF Expire, Store, Publish
  <1>5. ASSUME NEW o \in Orders, CreateOrder(o)
        PROVE  UNCHANGED lastDelivered
    BY <1>5 DEF CreateOrder
  <1> QED
    BY <1>1, <1>2, <1>3, <1>4, <1>5 DEF Next, vars

\* Retries are planned by ScheduleRetry, and moved by the pollers.
LEMMA PlanWrites ==
  ASSUME OnlyRunFails, TypeOK, [Next]_vars
  PROVE  \/ \E w \in Workers : ScheduleRetry(w) \/ Promote(w)
         \/ UNCHANGED <<retries, promotion>>
  <1>1. ASSUME NEW w \in Workers, Step(w) \/ Rejected(w), ~ScheduleRetry(w)
        PROVE  UNCHANGED <<retries, promotion>>
    BY <1>1 DEF Step, Read, Acquire, Skip, Find, Resolve, Attach, RecordMismatches,
         UpdateStatus, Book, MarkProcessed, Ack, IncrementAttempts, AckFailed,
         DeadLetter, MarkDeadLettered, MarkFailed, Release, Rejected
  <1>2. ASSUME NEW w \in Workers, Crash(w) \/ Stop(w) \/ PromotionThrows(w)
        PROVE  FALSE
    BY <1>2 DEF Crash, Stop, PromotionThrows, OnlyRunFails, RunSites, TypeOK, BudgetsOK
  <1>3. ASSUME NEW w \in Workers, Restart(w)
        PROVE  UNCHANGED <<retries, promotion>>
    BY <1>3 DEF Restart
  <1>4. ASSUME NEW e \in Events, Expire(e) \/ Store(e) \/ Publish(e)
        PROVE  UNCHANGED <<retries, promotion>>
    BY <1>4 DEF Expire, Store, Publish
  <1>5. ASSUME NEW o \in Orders, CreateOrder(o)
        PROVE  UNCHANGED <<retries, promotion>>
    BY <1>5 DEF CreateOrder
  <1> QED
    BY <1>1, <1>2, <1>3, <1>4, <1>5 DEF Next, vars

\* A poller takes what is due, and lets go of one event at a time, published again.
LEMMA PromoteStep ==
  ASSUME TypeOK, NEW w \in Workers, Promote(w)
  PROVE  /\ \/ PullDue(w) /\ promotion[w].due = {} /\ retries' = retries
            \/ /\ RemoveDue(w) /\ retries' = retries \ promotion[w].due
               /\ \A v \in Workers : promotion'[v].due = promotion[v].due
            \/ /\ \E f \in promotion[w].due :
                    /\ stream' = Append(stream, f)
                    /\ promotion[w].due \ {f} \subseteq promotion'[w].due
                    /\ promotion'[w].due \subseteq promotion[w].due
               /\ retries' = retries /\ lastDelivered' = lastDelivered
         /\ \A v \in Workers : v # w => promotion'[v] = promotion[v]
         /\ promotion'[w].due \subseteq promotion[w].due \cup Due
  <1>t. promotion \in [Workers -> [due : SUBSET Events, removed : BOOLEAN]]
    BY DEF TypeOK, LocalOK
  <1>1. CASE PullDue(w)
    <2>1. PICK due \in SUBSET Due : promotion' = [promotion EXCEPT ![w].due = due]
      BY <1>1 DEF PullDue
    <2>2. promotion[w].due = {} /\ retries' = retries
      BY <1>1 DEF PullDue, Idle
    <2> QED
      BY <1>t, <1>1, <2>1, <2>2
  <1>2. CASE RemoveDue(w)
    BY <1>t, <1>2 DEF RemoveDue
  <1>3. CASE Republish(w)
    <2>1. PICK f \in promotion[w].due : /\ stream' = Append(stream, f)
                                        /\ promotion' = [promotion EXCEPT ![w] = Without(@, f)]
      BY <1>3 DEF Republish
    <2>2. retries' = retries /\ lastDelivered' = lastDelivered
      BY <1>3 DEF Republish
    <2>3. /\ Without(promotion[w], f).due \subseteq promotion[w].due
          /\ promotion[w].due \ {f} \subseteq Without(promotion[w], f).due
      BY DEF Without, Idle
    <2> QED
      BY <1>t, <2>1, <2>2, <2>3
  <1> QED
    BY <1>1, <1>2, <1>3 DEF Promote

\* A planned retry stays planned until it is published again: what a poller
\* removes it carries itself.
LEMMA PlannedStep ==
  ASSUME OnlyRunFails, TypeOK, [Next]_vars, NEW e \in Events, Planned(e)
  PROVE  Planned(e)' \/ (stream' = Append(stream, e) /\ lastDelivered' = lastDelivered)
  <1>1. ASSUME NEW w \in Workers, ScheduleRetry(w)
        PROVE  Planned(e)'
    BY <1>1 DEF ScheduleRetry, Scheduled, Planned
  <1>2. ASSUME NEW w \in Workers, Promote(w)
        PROVE  Planned(e)' \/ (stream' = Append(stream, e) /\ lastDelivered' = lastDelivered)
    <2>1. ASSUME NEW v \in Workers, e \in promotion[v].due, v # w
          PROVE  Planned(e)'
      BY <1>2, <2>1, PromoteStep DEF Planned
    <2>2. CASE e \in promotion[w].due \/ e \in retries
      BY <1>2, <2>2, PromoteStep DEF Planned
    <2> QED
      BY <2>1, <2>2 DEF Planned
  <1> QED
    BY <1>1, <1>2, PlanWrites DEF Planned

\* A worker at work with an open event goes on with it, schedules it, or learns
\* that another one has it.
LEMMA WorkStep ==
  ASSUME OnlyRunFails, FleetInv, VerdictInv', [Next]_vars, NEW w \in Workers,
         NEW e \in Events, Current(w) = e, Open(e)', pc[w] \in AtWork,
         Step(w), ~Fails(w), ~(Acquire(w) /\ pc'[w] = "skip")
  PROVE  pc'[w] \in AtWork \ {"acquire"} \/ e \in retries'
  <1> USE DEF FleetInv
  <1>0. pc[w] \in Busy
    BY DEF AtWork, Busy, Holding, RunSites, FailureSites
  <1>2. CASE Acquire(w)
    BY <1>2 DEF Acquire, Returns, AtWork, RunSites, TypeOK, LocalOK
  <1>3. CASE MarkDeadLettered(w) \/ ScheduleRetry(w)
    BY <1>3 DEF MarkDeadLettered, ScheduleRetry, Scheduled, Open, TypeOK, PostgresOK
  <1>4. pc'[w] \notin {"ack", "releaseThrow"}
    <2>1. ASSUME pc'[w] \in {"ack", "releaseThrow"}
          PROVE  Current(w)' = e
      BY <2>1, HolderStep DEF Holding, RunSites
    <2> QED
      BY <2>1 DEF VerdictInv
  <1>5. CASE Find(w) \/ UpdateStatus(w) \/ IncrementAttempts(w) \/ AckFailed(w) \/ MarkFailed(w)
    BY <1>5 DEF Find, UpdateStatus, AfterStatus, IncrementAttempts, AckFailed, MarkFailed,
         Returns, AtWork, RunSites, TypeOK, LocalOK
  <1>6. CASE Resolve(w) \/ Attach(w) \/ RecordMismatches(w)
    <2>1. pc'[w] \in {"attach", "mismatch", "mark", "status"}
      BY <1>6, AfterReconcileLabel
      DEF Resolve, Attach, RecordMismatches, Returns, AfterMismatches, TypeOK, LocalOK
    <2> QED
      BY <2>1 DEF AtWork, RunSites
  <1>7. CASE Book(w) \/ MarkProcessed(w)
    BY <1>4, <1>7 DEF Book, MarkProcessed, Returns, TypeOK, LocalOK
  <1>8. CASE DeadLetter(w)
    <2>1. pc'[w] = "deadMark" \/ pc'[w] = "releaseThrow"
      BY <1>8 DEF DeadLetter, Returns, Throws, OnThrow, RunSites, FailureSites, TypeOK, LocalOK
    <2> QED
      BY <1>4, <2>1 DEF AtWork, RunSites
  <1>9. CASE Read(w) \/ Skip(w) \/ Ack(w) \/ Release(w)
    BY <1>9 DEF Read, Skip, Ack, Release, AtWork, RunSites
  <1> QED
    BY <1>2, <1>3, <1>5, <1>6, <1>7, <1>8, <1>9 DEF Step

\* A delivery is skipped only while another worker carries its event, or has
\* scheduled it.
LEMMA SkipIsCovered ==
  ASSUME OnlyRunFails, FleetInv, RetriesWait, [Next]_vars, NEW w \in Workers,
         NEW e \in Events, Current(w) = e, Open(e), Acquire(w), pc'[w] = "skip"
  PROVE  Planned(e)' \/ \E v \in Workers : Carries(v, e)'
  <1> USE DEF FleetInv
  <1>1. pc[w] = "acquire" /\ pc[w] \in Busy /\ pc[w] \notin Holding
    BY DEF Acquire, Busy, Holding, RunSites, FailureSites
  <1>2. ~CanAcquire(e)
    BY DEF Acquire, Returns, Fails, OnlyRunFails, RunSites, TypeOK, LocalOK
  <1>3. PICK v \in Workers : pc[v] \in Holding /\ Current(v) = e
    BY <1>2 DEF CanAcquire, OwnerInv, Runs, TypeOK, RedisOK
  <1>5. /\ pc'[v] = pc[v] /\ job'[v] = job[v]
        /\ stream' = stream /\ retries' = retries
    <2>1. v # w
      BY <1>1, <1>3
    <2> QED
      BY <2>1, OthersStand DEF Acquire, Step
  <1>6. pc[v] \notin {"ack", "releaseThrow"} /\ (pc[v] = "release" => state[e] = "FAILED")
    BY <1>3 DEF VerdictInv, Open
  <1>7. CASE pc[v] = "release"
    BY <1>1, <1>3, <1>5, <1>6, <1>7 DEF RetriesWait, Planned
  <1>8. CASE pc[v] # "release"
    <2>1. pc[v] \in AtWork
      BY <1>3, <1>6, <1>8 DEF AtWork, Holding, RunSites, FailureSites
    <2>2. job[v].cur \in Held(v)
      BY <1>3 DEF Held, TypeOK, BatchOK, LocalOK, Job, Busy
    <2>3. Carries(v, e)'
      BY <1>3, <1>5, <2>1, <2>2 DEF Carries, Held, Current
    <2> QED
      BY <2>3
  <1> QED
    BY <1>7, <1>8

\* What a worker carries it goes on carrying, leaves with another one, or
\* schedules.
LEMMA CarriesStep ==
  ASSUME OnlyRunFails, FleetInv, VerdictInv', RetriesWait, Uncut, [Next]_vars,
         NEW e \in Events, Open(e), Open(e)', NEW w \in Workers, Carries(w, e)
  PROVE  Planned(e)' \/ \E v \in Workers : Carries(v, e)'
  <1> USE DEF FleetInv
  <1>1. PICK i \in Held(w) : stream[i] = e /\ (i = job[w].cur => pc[w] \in AtWork)
    BY DEF Carries
  <1>2. /\ pc[w] \in Busy
        /\ job[w].cur \in Nat \ {0} /\ job[w].end \in Nat
        /\ job[w].end <= lastDelivered /\ lastDelivered <= Len(stream)
        /\ lastDelivered \in Nat /\ Len(stream) \in Nat
    BY <1>1 DEF TidyInv, TypeOK, LocalOK, BatchOK, RedisOK, Job
  <1>3. i \in 1 .. Len(stream) /\ stream'[i] = e
    <2>1. i \in 1 .. Len(stream)
      BY <1>2 DEF Held
    <2> QED
      BY <1>1, <2>1, StreamGrows
  <1>4. {"acquire", "fail"} \subseteq AtWork /\ {"read", "down"} \cap Busy = {}
    BY DEF AtWork, Busy, Holding, RunSites, FailureSites
  <1> SUFFICES ASSUME ~Planned(e)', ~\E v \in Workers : Carries(v, e)'
               PROVE  FALSE
    OBVIOUS
  <1>5. ASSUME job'[w].cur = job[w].cur, job'[w].end = job[w].end,
               i = job[w].cur => pc'[w] \in AtWork
        PROVE  FALSE
    BY <1>1, <1>3, <1>5 DEF Held, Carries
  <1>6. CASE pc'[w] = pc[w] /\ job'[w] = job[w]
    BY <1>1, <1>5, <1>6
  <1>7. CASE Fails(w)
    BY <1>4, <1>5, <1>7, FailsStep
  <1>8. CASE Step(w) /\ ~Fails(w) /\ i = job[w].cur
    <2>1. Current(w) = e
      BY <1>1, <1>8 DEF Current
    <2>2. ~(pc'[w] = "skip" /\ Acquire(w))
      BY <2>1, SkipIsCovered
    <2>3. e \notin retries'
      BY DEF Planned
    <2>4. pc'[w] \in AtWork \ {"acquire"}
      <3>1. pc[w] \in AtWork
        BY <1>1, <1>8
      <3> QED
        BY <1>8, <2>1, <2>2, <2>3, <3>1, WorkStep
    <2>5. job'[w].cur = job[w].cur /\ job'[w].end = job[w].end
      BY <2>4, BatchStep DEF AtWork, RunSites
    <2> QED
      BY <1>5, <2>4, <2>5
  <1>9. CASE Step(w) /\ ~Fails(w) /\ i # job[w].cur
    <2>1. CASE job'[w].cur = job[w].cur /\ job'[w].end = job[w].end
      BY <1>5, <1>9, <2>1
    <2>2. pc'[w] # "down"
      BY <1>9, KeepsRunning
    <2>3. pc'[w] # "read"
      <3>1. job[w].cur < job[w].end
        BY <1>2, <1>9 DEF Held
      <3>2. pc[w] # "releaseThrow"
        BY <1>2, <3>1 DEF TidyInv, Uncut
      <3> QED
        BY <1>2, <1>9, <3>1, <3>2, ReturnToRead DEF LastOfBatch
    <2>4. CASE /\ pc'[w] = "acquire" /\ job'[w].cur = job[w].cur + 1
               /\ job'[w].end = job[w].end
      <3>1. i \in Held(w)'
        BY <1>2, <1>9, <2>4 DEF Held
      <3> QED
        BY <1>3, <1>4, <2>4, <3>1 DEF Carries
    <2>5. ~Read(w)
      BY <1>2, <1>4 DEF Read
    <2> QED
      BY <2>1, <2>2, <2>3, <2>4, <2>5, BatchStep
  <1> QED
    BY <1>2, <1>4, <1>6, <1>7, <1>8, <1>9, NobodyDies

\* An event that opens is at its worker, and is not published before it is stored.
LEMMA OpensInHand ==
  ASSUME OnlyRunFails, Outcomes, FleetInv, [Next]_vars,
         NEW e \in Events, Published(e), ~Open(e), Open(e)'
  PROVE  \E v \in Workers : Carries(v, e)'
  <1> USE DEF FleetInv
  <1>1. state[e] # Absent /\ state'[e] # state[e]
    BY DEF Published, StoredInv, Open
  <1>2. PICK w \in Workers :
          /\ pc[w] \in Busy /\ Current(w) = e
          /\ Book(w) \/ MarkProcessed(w) \/ MarkDeadLettered(w) \/ MarkFailed(w)
    BY <1>1, StateStep
  <1>3. CASE MarkDeadLettered(w)
    BY <1>2, <1>3 DEF MarkDeadLettered, Open, TypeOK, PostgresOK
  <1>4. CASE Book(w) \/ MarkProcessed(w)
    <2>1. state'[e] = Result(w, job[w].seen).state
      BY <1>2, <1>4 DEF Book, MarkProcessed, TypeOK, PostgresOK
    <2> QED
      BY <1>2, <2>1, VerdictIsFinal DEF Open
  <1>5. CASE MarkFailed(w)
    <2>1. ~Fails(w)
      BY <1>5 DEF MarkFailed, Fails, OnlyRunFails, RunSites
    <2>2. pc'[w] = "schedule" /\ job'[w] = Forget(job[w]) /\ stream' = stream
      BY <1>5, <2>1 DEF MarkFailed, Returns, TypeOK, LocalOK
    <2>3. job'[w].cur = job[w].cur /\ job'[w].end = job[w].end
      BY <2>2 DEF Forget, Batch
    <2>4. job[w].cur \in Held(w)' /\ "schedule" \in AtWork
      BY <1>2, <2>3 DEF Held, TypeOK, BatchOK, LocalOK, Job, AtWork
    <2> QED
      BY <1>2, <2>2, <2>3, <2>4 DEF Carries, Current
  <1> QED
    BY <1>2, <1>3, <1>4, <1>5

LEMMA InHandStep ==
  ASSUME OnlyRunFails, Outcomes, FleetInv, FleetInv', InHandInv, RetriesWait, [Next]_vars
  PROVE  InHandInv'
  <1> USE DEF FleetInv
  <1> SUFFICES ASSUME Uncut', NEW e \in Events, Published(e)', Open(e)'
               PROVE  Unread(e)' \/ Planned(e)' \/ \E w \in Workers : Carries(w, e)'
    BY DEF InHandInv
  <1>1. Uncut
    BY EvidenceStays DEF Uncut
  <1>2. /\ stream \in Seq(Events) /\ lastDelivered \in Nat /\ lastDelivered <= Len(stream)
        /\ stream' \in Seq(Events) /\ lastDelivered' \in Nat /\ Len(stream) \in Nat
        /\ Len(stream') \in Nat /\ lastDelivered' <= Len(stream')
    BY DEF TypeOK, RedisOK
  <1>3. CASE ~Published(e)
    <2>1. stream' = Append(stream, e)
      <3>1. stream' # stream
        BY <1>3 DEF Published
      <3>2. PICK f \in Events : stream' = Append(stream, f)
        BY <3>1, EntriesStep
      <3> QED
        BY <1>2, <1>3, <3>2 DEF Published
    <2>2. lastDelivered' = lastDelivered
      <3>1. stream' # stream
        BY <1>2, <2>1
      <3> QED
        BY <3>1, DeliverStep
    <2> QED
      BY <2>1, <2>2, AppendUnread
  <1>4. CASE Published(e) /\ ~Open(e)
    BY <1>4, OpensInHand
  <1>5. CASE Published(e) /\ Open(e) /\ Unread(e)
    <2>1. PICK i \in lastDelivered + 1 .. Len(stream) : stream[i] = e
      BY <1>5 DEF Unread
    <2>2. stream'[i] = e /\ i <= Len(stream')
      <3>1. i \in 1 .. Len(stream)
        BY <1>2
      <3>2. Len(stream') >= Len(stream)
        BY <1>2, EntriesStep
      <3> QED
        BY <1>2, <2>1, <3>1, <3>2, StreamGrows
    <2>3. CASE i > lastDelivered'
      BY <1>2, <2>1, <2>2, <2>3 DEF Unread
    <2>4. CASE i <= lastDelivered'
      <3>1. PICK w \in Workers : /\ Held(w)' = lastDelivered + 1 .. lastDelivered'
                                 /\ pc'[w] = "acquire"
        BY <1>2, <2>1, <2>4, DeliverStep
      <3>2. i \in Held(w)' /\ pc'[w] \in AtWork
        BY <1>2, <2>1, <2>4, <3>1 DEF AtWork
      <3> QED
        BY <2>2, <3>2 DEF Carries
    <2> QED
      BY <1>2, <2>1, <2>3, <2>4
  <1>6. CASE Published(e) /\ Open(e) /\ Planned(e)
    BY <1>6, PlannedStep, AppendUnread
  <1>7. CASE Published(e) /\ Open(e) /\ \E w \in Workers : Carries(w, e)
    BY <1>1, <1>7, CarriesStep
  <1> QED
    BY <1>1, <1>3, <1>4, <1>5, <1>6, <1>7 DEF InHandInv

LEMMA InHandIsCarried ==
  ASSUME FleetInv, InHandInv, Uncut
  PROVE  NoEventStranded
  <1> SUFFICES ASSUME NEW e \in Events, Published(e), Open(e)
               PROVE  Carried(e)
    BY DEF NoEventStranded, Open
  <1>1. CASE Unread(e) \/ Planned(e)
    BY <1>1 DEF Unread, Planned, Carried
  <1>2. ASSUME NEW w \in Workers, Carries(w, e)
        PROVE  Carried(e)
    <2>1. "releaseThrow" \notin AtWork
      BY DEF AtWork, RunSites
    <2> QED
      BY <1>2, <2>1 DEF Carries, Carried, Held
  <1> QED
    BY <1>1, <1>2 DEF InHandInv

\* As long as only run() and its ack fail and no handler outlives its lock, an
\* event published to the stream and left PENDING or FAILED is in the unread part
\* of the stream, with a worker that has yet to deal with it, in the retry set or
\* with a poller: by any number of workers, with batches of any size - if no
\* poller removed a retry it never read (retry-schedule.ts:22), which is what
\* RetriesWait excludes; the next theorem says for which fleets that is a fact.
THEOREM NothingStranded ==
  ASSUME OnlyRunFails, Outcomes, MaxOverruns = 0
  PROVE  Spec /\ []RetriesWait => [](Uncut => NoEventStranded)
  <1>1. Init => FleetInv /\ InHandInv
    <2>1. Init => InHandInv
      <3> SUFFICES ASSUME Init, NEW e \in Events PROVE ~Published(e)
        BY DEF InHandInv
      <3> QED
        BY DEF Init, Published
    <2> QED
      BY <2>1, FleetInit
  <1>2. FleetInv /\ InHandInv /\ RetriesWait /\ [Next]_vars => (FleetInv /\ InHandInv)'
    BY FleetStep, InHandStep
  <1>3. FleetInv /\ InHandInv => (Uncut => NoEventStranded)
    BY InHandIsCarried
  <1> QED
    BY <1>1, <1>2, <1>3, PTL DEF Spec

-----------------------------------------------------------------------------
(***************************************************************************)
(* No poller undoes a retry it has not published: one process, or a retry  *)
(* that is the only one of its event.                                      *)
(***************************************************************************)
\* A lone worker, or one retry per event, due after its scheduler's release.
CalmFleet ==
  \/ \A v, w \in Workers : v = w
  \/ PromptRelease /\ MaxAttempts <= 2

\* No retry before the first failure, none left by then, and one untouched by any
\* poller until its scheduler has released the lock.
RetryInv ==
  /\ \A e \in Events : attempts[e] = 0 => ~Planned(e)
  /\ \A w \in Workers :
       /\ pc[w] \in {"failAck", "failed", "schedule"} /\ attempts[Current(w)] = 1
            => ~Planned(Current(w))
       /\ pc[w] = "release" /\ state[Current(w)] = "FAILED"
            => /\ Current(w) \in retries
               /\ \A v \in Workers : Current(w) \notin promotion[v].due

\* Only ScheduleRetry plans a retry.
LEMMA PlansStep ==
  ASSUME OnlyRunFails, TypeOK, [Next]_vars, NEW e \in Events, ~Planned(e), Planned(e)'
  PROVE  \E w \in Workers : ScheduleRetry(w) /\ Current(w) = e
  <1>1. ASSUME NEW w \in Workers, ScheduleRetry(w)
        PROVE  Current(w) = e
    BY <1>1 DEF ScheduleRetry, Scheduled, Planned
  <1>2. ASSUME NEW w \in Workers, Promote(w)
        PROVE  FALSE
    <2>1. e \notin retries'
      BY <1>2, PromoteStep DEF Planned
    <2>2. \A v \in Workers : promotion'[v].due \subseteq promotion[v].due \cup retries
      BY <1>2, PromoteStep DEF Due
    <2> QED
      BY <2>1, <2>2 DEF Planned
  <1> QED
    BY <1>1, <1>2, PlanWrites DEF Planned

\* What no poller has read stays so while the worker that scheduled it is at
\* its release.
LEMMA WaitsStep ==
  ASSUME OnlyRunFails, TypeOK, PromptRelease, [Next]_vars, NEW e \in retries,
         \A v \in Workers : e \notin promotion[v].due,
         NEW w \in Workers, pc[w] = "release", Current(w) = e
  PROVE  e \in retries' /\ \A v \in Workers : e \notin promotion'[v].due
  <1>1. ASSUME NEW u \in Workers, ScheduleRetry(u)
        PROVE  retries \subseteq retries' /\ promotion' = promotion
    BY <1>1 DEF ScheduleRetry, Scheduled
  <1>2. ASSUME NEW u \in Workers, Promote(u)
        PROVE  e \in retries' /\ \A v \in Workers : e \notin promotion'[v].due
    <2>1. e \in retries'
      BY <1>2, PromoteStep
    <2>2. e \notin Due
      BY DEF Due
    <2> QED
      BY <1>2, <2>1, <2>2, PromoteStep
  <1> QED
    BY <1>1, <1>2, PlanWrites

\* An event nobody has scheduled stays so while another step of its holder runs.
LEMMA UnplannedStep ==
  ASSUME OnlyRunFails, FleetInv, [Next]_vars, NEW w \in Workers, pc[w] \in Holding,
         NEW e \in Events, Current(w) = e, ~Planned(e), ~ScheduleRetry(w)
  PROVE  ~Planned(e)'
  <1>1. ASSUME NEW u \in Workers, ScheduleRetry(u), Current(u) = e
        PROVE  u = w
    BY <1>1, Alone DEF ScheduleRetry, Holding, FailureSites, FleetInv
  <1> QED
    BY <1>1, PlansStep DEF FleetInv

LEMMA RetryStep ==
  ASSUME OnlyRunFails, PromptRelease, MaxAttempts <= 2,
         FleetInv, FleetInv', RetryInv, [Next]_vars
  PROVE  RetryInv'
  <1> USE DEF FleetInv
  <1>1. ASSUME NEW e \in Events, attempts'[e] = 0
        PROVE  ~Planned(e)'
    <2>1. attempts[e] = 0
      BY <1>1, EvidenceStays DEF TypeOK, PostgresOK
    <2>2. ASSUME NEW w \in Workers, ScheduleRetry(w)
          PROVE  Current(w) # e
      BY <2>1, <2>2 DEF ScheduleRetry, TriesInv
    <2> QED
      BY <2>1, <2>2, PlansStep DEF RetryInv
  <1>2. ASSUME NEW w \in Workers, NEW e, pc'[w] \in {"failAck", "failed", "schedule", "release"},
               Current(w)' = e
        PROVE  /\ pc'[w] # "release" /\ attempts'[e] = 1 => ~Planned(e)'
               /\ pc'[w] = "release" /\ state'[e] = "FAILED"
                    => e \in retries' /\ \A v \in Workers : e \notin promotion'[v].due
    <2> DEFINE Goal == /\ pc'[w] # "release" /\ attempts'[e] = 1 => ~Planned(e)'
                       /\ pc'[w] = "release" /\ state'[e] = "FAILED"
                            => e \in retries' /\ \A v \in Workers : e \notin promotion'[v].due
    <2> SUFFICES Goal
      OBVIOUS
    <2>1. pc[w] \in Holding /\ pc[w] \in Busy /\ Current(w) = e
      BY <1>2, HolderStep DEF Holding, RunSites, FailureSites
    <2>2. e \in Events
      BY <2>1, CurrentIsEvent
    <2>3. IncrementAttempts(w) \/ attempts'[e] = attempts[e]
      BY <2>1, HolderAttempts
    <2>4. \/ state'[e] = state[e]
          \/ Book(w) \/ MarkProcessed(w) \/ MarkDeadLettered(w) \/ MarkFailed(w)
      BY <2>1, HolderState
    <2>5. attempts[e] \in Nat
      BY <2>2 DEF TypeOK, PostgresOK
    <2>6. CASE pc'[w] = pc[w]
      <3>1. attempts'[e] = attempts[e] /\ state'[e] = state[e] /\ ~ScheduleRetry(w)
        <4>1. ~ScheduleRetry(w)
          BY <1>2, <2>6, FailsStep
          DEF ScheduleRetry, Returns, RunSites, TypeOK, LocalOK
        <4>2. pc[w] # "failed"  \/ ~MarkFailed(w)
          BY <1>2, <2>6, FailsStep
          DEF MarkFailed, Returns, RunSites, TypeOK, LocalOK
        <4> QED
          BY <1>2, <2>3, <2>4, <2>6, <4>1, <4>2
          DEF IncrementAttempts, Book, MarkProcessed, MarkDeadLettered, MarkFailed
      <3>2. CASE pc[w] # "release"
        BY <1>2, <2>1, <2>2, <2>6, <3>1, <3>2, UnplannedStep DEF RetryInv
      <3>3. CASE pc[w] = "release"
        BY <2>1, <2>2, <2>6, <3>1, <3>3, WaitsStep DEF RetryInv
      <3> QED
        BY <3>2, <3>3
    <2>7. CASE Step(w) /\ ~Fails(w) /\ pc'[w] # pc[w]
      <3>0. ~Throws(w)
        BY <1>2, ThrowStep
      <3>1. CASE pc'[w] = "failAck"
        <4>1. IncrementAttempts(w)
          BY <2>7, <3>0, <3>1, OwnStep, AfterReconcileLabel
        <4>2. attempts'[e] = attempts[e] + 1 /\ ~ScheduleRetry(w)
          BY <2>1, <2>2, <4>1 DEF IncrementAttempts, ScheduleRetry, TypeOK, PostgresOK
        <4>3. attempts'[e] = 1 => ~Planned(e)
          BY <2>2, <2>5, <4>2 DEF RetryInv
        <4> QED
          BY <2>1, <2>2, <3>1, <4>2, <4>3, UnplannedStep
      <3>2. CASE pc'[w] \in {"failed", "schedule"}
        <4>1. pc[w] \in {"failAck", "failed"}
          BY <2>7, <3>0, <3>2, OwnStep, AfterReconcileLabel
        <4>2. attempts'[e] = attempts[e] /\ ~ScheduleRetry(w)
          BY <2>3, <4>1 DEF IncrementAttempts, ScheduleRetry
        <4> QED
          BY <2>1, <2>2, <3>2, <4>1, <4>2, UnplannedStep DEF RetryInv
      <3>3. CASE pc'[w] = "release"
        <4>1. pc[w] \in {"ack", "deadMark", "schedule"}
          BY <2>7, <3>0, <3>3, OwnStep, AfterReconcileLabel
        <4>2. CASE pc[w] = "ack"
          BY <2>1, <2>4, <3>3, <4>2
          DEF VerdictInv, Open, Book, MarkProcessed, MarkDeadLettered, MarkFailed
        <4>3. CASE pc[w] = "deadMark"
          <5>1. MarkDeadLettered(w)
            BY <2>7, <4>3, StepAt
          <5> QED
            BY <2>1, <2>2, <3>3, <5>1 DEF MarkDeadLettered, TypeOK, PostgresOK
        <4>4. CASE pc[w] = "schedule"
          <5>1. ScheduleRetry(w)
            BY <2>7, <4>4, StepAt
          <5>2. attempts[e] = 1
            <6>1. attempts[e] >= 1 /\ attempts[e] < MaxAttempts
              BY <2>1, <4>4 DEF TriesInv
            <6>2. MaxAttempts \in Nat
              BY WorkerAssumption
            <6> QED
              BY <2>5, <6>1, <6>2
          <5>3. \A v \in Workers : e \notin promotion[v].due
            BY <2>1, <4>4, <5>2 DEF RetryInv, Planned
          <5> QED
            BY <2>1, <3>3, <5>1, <5>3 DEF ScheduleRetry, Scheduled
        <4> QED
          BY <4>1, <4>2, <4>3, <4>4
      <3> QED
        BY <1>2, <3>1, <3>2, <3>3
    <2> HIDE DEF Goal
    <2>8. pc'[w] = pc[w] \/ (Step(w) /\ ~Fails(w))
      BY <1>2, NobodyDies, FailsStep
    <2> QED
      BY <2>6, <2>7, <2>8
  <1> QED
    BY <1>1, <1>2 DEF RetryInv

\* A scheduler at its release finds its retry where it put it.
LEMMA RetryWaits ==
  ASSUME RetryInv
  PROVE  RetriesWait
  BY DEF RetryInv, RetriesWait

\* A lone worker, or any number of them with at most one retry per event, strand
\* nothing, whatever fails inside run() and whatever the batches and the payments
\* are: no hypothesis on the behaviour is left.
THEOREM CalmFleetStrandsNothing ==
  ASSUME OnlyRunFails, Outcomes, MaxOverruns = 0, CalmFleet
  PROVE  Spec => [](Uncut => NoEventStranded)
  <1>1. CASE \A v, w \in Workers : v = w
    <2>1. RetriesWait
      BY <1>1 DEF RetriesWait
    <2>2. Spec => []RetriesWait
      BY <2>1, PTL
    <2> QED
      BY <2>2, NothingStranded, PTL
  <1>2. CASE PromptRelease /\ MaxAttempts <= 2
    <2>1. Init => FleetInv /\ RetryInv
      <3>1. Init => RetryInv
        BY DEF Init, RetryInv, Planned, Idle
      <3> QED
        BY <3>1, FleetInit
    <2>2. FleetInv /\ RetryInv /\ [Next]_vars => (FleetInv /\ RetryInv)'
      BY <1>2, FleetStep, RetryStep
    <2>3. Spec => []RetriesWait
      BY <2>1, <2>2, RetryWaits, PTL DEF Spec
    <2> QED
      BY <2>3, NothingStranded, PTL
  <1> QED
    BY <1>1, <1>2 DEF CalmFleet
=============================================================================
