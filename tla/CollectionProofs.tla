-------------------------- MODULE CollectionProofs --------------------------
(***************************************************************************)
(* Theorems about Collection, for any number of invocations, publishers    *)
(* and articles, any limits, and any distance of the end of use.           *)
(***************************************************************************)
EXTENDS Collection, FiniteSetTheorems, TLAPS

Draining  == {"drain", "purging", "purged"}
OnArticle == {"requested", "extracted", "put", "undo", "stored", "refused"}
Inside    == {"discovering", "persist", "bodies", "fetching", "profiles", "profiling"} \cup OnArticle

\* A run at work holds the lease, with at least as much of it left as its age allows,
\* and a publisher is asked before the deadline only.
Leased(r) ==
  /\ lock.holder = r /\ lock.expires + run[r].age >= LeaseMs /\ run[r].age <= RunLimit
  /\ Waiting(r) => run[r].age < RunLimit

\* What is purged is past the end of its use; unless a full batch or a failure left rows,
\* those to purge are all there are.
Drains(r) ==
  /\ At(r, "drain") => run[r].batches < MaxBatches
  /\ run[r].stage \in Draining => ~run[r].drained
  /\ run[r].stage \in {"purging", "purged"} =>
       /\ run[r].todo # {} => Closed(r)
       /\ ~run[r].full /\ ~run[r].failed /\ Closed(r) =>
            \A a \in Articles : content[a].status = "active" =>
              a \in run[r].todo \/ (At(r, "purged") /\ a = run[r].current)
  /\ At(r, "purged") => Closed(r) /\ run[r].current \in Articles \ object

\* A run discovers and collects inside the window only, and only what it may: articles
\* without an active body, whose attempts are not used up.
Collects(r) ==
  /\ run[r].stage \in Inside => ~Closed(r)
  /\ run[r].stage \in {"fetching"} \cup OnArticle =>
       \A a \in run[r].todo : content[a].status # "active" /\ attempt[a].status # "terminal"
  /\ run[r].stage \in OnArticle =>
       /\ run[r].current \in Articles \ run[r].todo
       /\ attempt[run[r].current].status # "terminal"
  /\ run[r].stage \in {"requested", "extracted", "put"} =>
       content[run[r].current].status # "active"
  /\ At(r, "put") => run[r].current \in object

\* DrainedIsGone, of one run.
Gone(r) ==
  run[r].drained /\ Closed(r) => \A a \in Stored : content[a].status = "expired" /\ a \notin object

RunRight(r) == IF Live(r) THEN Leased(r) /\ Drains(r) /\ Collects(r) /\ Gone(r)
               ELSE ~run[r].drained

\* An expired row has no object, and its window has ended.
RowsRight ==
  /\ ReadableBody
  /\ \A a \in Articles : content[a].status = "expired" => a \notin object /\ remaining <= 0

CollectionInv == TypeOK /\ RowsRight /\ \A r \in Runs : RunRight(r)


\* An article that has used up its attempts is left as it is.
GivenUp == \A a \in Articles : attempt[a].status = "terminal" =>
             attempt'[a].status = "terminal" /\ attempt'[a].count = attempt[a].count

----------------------------------------------------------------------------
(* What the parts of the invariant rest on *)

\* There are as many ranks as articles.
LEMMA Ranks == Cardinality(Known) \in Nat /\ Cardinality(Stored) \in Nat
<1>1. IsFiniteSet(Known) /\ IsFiniteSet(Stored)
  BY CollectionAssumption, FS_Subset DEF Known, Stored
<1>. QED
  BY <1>1, FS_CardinalityType

\* The holder of the lease is the only run at work.
LEMMA AloneAtWork ==
  ASSUME CollectionInv, NEW r \in Runs, Live(r)
  PROVE  \A s \in Runs : s # r => ~Live(s)
BY DEF CollectionInv, RunRight, Leased

\* While the lease is free no run is at work: none has outlived its own.
LEMMA FreeIsIdle ==
  ASSUME CollectionInv, Free
  PROVE  \A r \in Runs : ~Live(r)
<1>1. ASSUME NEW r \in Runs, Live(r)
      PROVE  FALSE
  <2>1. /\ lock.holder = r /\ lock.expires + run[r].age >= LeaseMs /\ run[r].age <= RunLimit
        /\ run[r].age \in 0 .. MaxAge /\ lock.expires \in 0 .. LeaseMs
    BY <1>1 DEF CollectionInv, RunRight, Leased, TypeOK, LockRow, RunState
  <2>. QED
    BY <2>1, CollectionAssumption DEF Free, MaxAge
<1>. QED
  BY <1>1

\* A failure is recorded in a row that keeps to its columns.
LEMMA FailureTyped ==
  ASSUME CollectionInv, NEW r \in Runs, Live(r), NEW a \in Articles
  PROVE  Failed(r, a) \in AttemptRow
<1>1. run[r].age \in 0 .. RunLimit /\ attempt[a].count \in Nat
  BY DEF CollectionInv, RunRight, Leased, TypeOK, RunState, AttemptRow
<1>2. PICK wait \in 0 .. MaxWait : wait = Wait(attempt[a].count)
  BY CollectionAssumption DEF Wait
<1>3. BaseWait - run[r].age \in Floor .. MaxWait /\ wait - run[r].age \in Floor .. MaxWait
      /\ Floor \in Floor .. MaxWait
  BY <1>1, CollectionAssumption DEF Floor, MaxAge
<1>. QED
  BY <1>1, <1>2, <1>3 DEF Failed, AttemptRow

\* The invariant is kept when the run at work and the rows are left right.
LEMMA Kept ==
  ASSUME CollectionInv, NEW r \in Runs, Live(r), TypeOK', RowsRight',
         Leased(r)', Drains(r)', Collects(r)', Gone(r)', Live(r)',
         \A s \in Runs : s # r => run'[s] = run[s]
  PROVE  CollectionInv'
<1>1. \A s \in Runs : s # r => ~Live(s) /\ ~run[s].drained
  BY AloneAtWork DEF CollectionInv, RunRight
<1>2. \A s \in Runs : RunRight(s)'
  BY <1>1 DEF RunRight, Live
<1>. QED
  BY <1>2 DEF CollectionInv

\* The same, for a stage that asks nothing of the rows but that the run is inside the window.
LEMMA Passes ==
  ASSUME CollectionInv, NEW r \in Runs, Live(r), NEW new \in RunState,
         run' = [run EXCEPT ![r] = new],
         new.stage \in {"discover", "persist", "bodies", "profiles", "profiling", "ending"},
         new.stage \in Inside => ~Closed(r),
         new.age = run[r].age, new.drained = run[r].drained,
         article' \in [Articles -> ArticleRow], profile' \subseteq Articles,
         faults' \in 0 .. MaxFaults,
         UNCHANGED <<lock, attempt, content, object, severed, remaining>>
  PROVE  CollectionInv' /\ GivenUp
<1>0. run' \in [Runs -> RunState] /\ run'[r] = new /\ \A s \in Runs : s # r => run'[s] = run[s]
  BY DEF CollectionInv, TypeOK
<1>1. TypeOK'
  BY <1>0 DEF CollectionInv, TypeOK
<1>2. RowsRight'
  BY DEF CollectionInv, RowsRight, ReadableBody
<1>3. Leased(r) /\ Gone(r)
  BY DEF CollectionInv, RunRight
<1>4. Closed(r)' <=> Closed(r)
  BY <1>0 DEF Closed
<1>5. Leased(r)'
  BY <1>0, <1>3 DEF Leased, Waiting
<1>6. Drains(r)' /\ Collects(r)'
  BY <1>0, <1>4 DEF Drains, Collects, At, Inside, OnArticle, Draining
<1>7. Gone(r)'
  BY <1>0, <1>3, <1>4 DEF Gone, Stored
<1>8. Live(r)'
  BY <1>0 DEF Live
<1>. QED
  BY <1>0, <1>1, <1>2, <1>5, <1>6, <1>7, <1>8, Kept DEF GivenUp

----------------------------------------------------------------------------
(* The lease and retention *)

\* A run starts.
LEMMA AcquireStep ==
  ASSUME CollectionInv, NEW r \in Runs, Acquire(r)
  PROVE  CollectionInv' /\ GivenUp
<1>1. \A s \in Runs : ~Live(s) /\ ~run[s].drained
  BY FreeIsIdle DEF Acquire, CollectionInv, RunRight
<1>2. PICK new : /\ new = [Idle EXCEPT !.stage = "drain"]
                 /\ run' = [run EXCEPT ![r] = new]
  BY DEF Acquire
<1>3. /\ new \in RunState /\ new.stage = "drain" /\ new.age = 0 /\ new.batches = 0
      /\ new.drained = FALSE
  <2>1. Idle \in RunState
    BY CollectionAssumption DEF Idle, RunState, Stages, MaxAge
  <2>2. new \in RunState
    BY <1>2, <2>1 DEF RunState, Stages
  <2>. QED
    BY <1>2, <2>2 DEF RunState, Idle
<1>4. run' \in [Runs -> RunState] /\ run'[r] = new /\ \A s \in Runs : s # r => run'[s] = run[s]
  BY <1>2, <1>3 DEF CollectionInv, TypeOK
<1>5. lock'.holder = r /\ lock'.expires = LeaseMs /\ lock' \in LockRow
  BY CollectionAssumption DEF Acquire, LockRow
<1>6. UNCHANGED <<article, attempt, content, object, severed, profile, remaining, faults>>
  BY DEF Acquire, tables
<1>7. TypeOK' /\ RowsRight'
  BY <1>4, <1>5, <1>6 DEF CollectionInv, TypeOK, RowsRight, ReadableBody
<1>8. Leased(r)'
  BY <1>3, <1>4, <1>5, CollectionAssumption DEF Leased, Waiting
<1>9. Drains(r)' /\ Collects(r)' /\ Gone(r)'
  BY <1>3, <1>4, CollectionAssumption DEF Drains, Collects, Gone, At, Inside, OnArticle
<1>10. \A s \in Runs : RunRight(s)'
  BY <1>1, <1>3, <1>4, <1>8, <1>9 DEF RunRight, Live
<1>. QED
  BY <1>6, <1>7, <1>10 DEF CollectionInv, GivenUp

\* A run ends, and lets the lease go, or is killed, and does not.
LEMMA EndStep ==
  ASSUME CollectionInv, NEW r \in Runs, Release(r) \/ Killed(r)
  PROVE  CollectionInv' /\ GivenUp
<1>1. Live(r) /\ lock' \in LockRow /\ faults' \in 0 .. MaxFaults
  BY CollectionAssumption DEF Release, Killed, Released, Live, At, LockRow, CollectionInv, TypeOK, Fault
<1>2. \A s \in Runs : s # r => ~Live(s) /\ ~run[s].drained
  BY <1>1, AloneAtWork DEF CollectionInv, RunRight
<1>3. Idle \in RunState /\ Idle.stage = "idle" /\ Idle.drained = FALSE
  BY CollectionAssumption DEF Idle, RunState, Stages, MaxAge
<1>4. run' \in [Runs -> RunState] /\ run'[r] = Idle /\ \A s \in Runs : s # r => run'[s] = run[s]
  BY <1>3 DEF Release, Killed, CollectionInv, TypeOK
<1>5. UNCHANGED <<article, attempt, content, object, severed, profile, remaining>>
  BY DEF Release, Killed, tables
<1>6. TypeOK' /\ RowsRight'
  BY <1>1, <1>4, <1>5 DEF CollectionInv, TypeOK, RowsRight, ReadableBody
<1>7. \A s \in Runs : RunRight(s)'
  BY <1>2, <1>3, <1>4 DEF RunRight, Live
<1>. QED
  BY <1>5, <1>6, <1>7 DEF CollectionInv, GivenUp

\* An error outside every try block.
LEMMA ThrowStep ==
  ASSUME CollectionInv, NEW r \in Runs, Throws(r)
  PROVE  CollectionInv' /\ GivenUp
<1>1. /\ Live(r) /\ faults' \in 0 .. MaxFaults
      /\ UNCHANGED <<lock, article, attempt, content, object, severed, profile, remaining>>
      /\ run' = [run EXCEPT ![r].stage = "ending"] /\ run[r] \in RunState
  BY CollectionAssumption DEF Throws, Live, Fault, CollectionInv, TypeOK, tables
<1>2. PICK new : new = [run[r] EXCEPT !.stage = "ending"] /\ run' = [run EXCEPT ![r] = new]
  BY <1>1
<1>3. /\ new \in RunState /\ new.stage = "ending" /\ new.age = run[r].age
      /\ new.drained = run[r].drained
  BY <1>1, <1>2 DEF RunState, Stages
<1>4. article' \in [Articles -> ArticleRow] /\ profile' \subseteq Articles
  BY <1>1 DEF CollectionInv, TypeOK
<1>. QED
  BY <1>1, <1>2, <1>3, <1>4, Passes DEF Inside, OnArticle

\* A batch to purge is past the end of its use, and all there is unless it is full.
LEMMA PurgeSelectStep ==
  ASSUME CollectionInv, NEW r \in Runs, PurgeSelect(r)
  PROVE  CollectionInv' /\ GivenUp
<1>0. /\ run[r].stage = "drain" /\ Live(r)
      /\ UNCHANGED <<lock, article, attempt, content, object, severed, profile, remaining, faults>>
      /\ Leased(r) /\ Drains(r) /\ Gone(r)
  BY DEF PurgeSelect, At, Live, tables, CollectionInv, RunRight
<1>1. PICK batch \in SUBSET Due(r), full \in BOOLEAN, batches \in 0 .. MaxBatches :
        /\ full = (Cardinality(batch) = PurgeLimit) /\ batches = run[r].batches + 1
        /\ batch = Due(r) \/ full
        /\ run' = [run EXCEPT ![r].stage = "purging", ![r].todo = batch,
                              ![r].batches = batches, ![r].full = full]
  <2>1. PICK batch \in SUBSET Due(r) :
          /\ Oldest(batch, Due(r), content, PurgeLimit)
          /\ run' = [run EXCEPT ![r].stage = "purging", ![r].todo = batch,
                       ![r].batches = @ + 1, ![r].full = Cardinality(batch) = PurgeLimit]
    BY DEF PurgeSelect
  <2>2. PICK batches \in 0 .. MaxBatches : batches = run[r].batches + 1
    BY <1>0, CollectionAssumption DEF Drains, At, CollectionInv, TypeOK, RunState
  <2>3. PICK full \in BOOLEAN : full = (Cardinality(batch) = PurgeLimit)
    OBVIOUS
  <2>. QED
    BY <2>1, <2>2, <2>3 DEF Oldest
<1>2. PICK new : /\ new = [run[r] EXCEPT !.stage = "purging", !.todo = batch,
                                         !.batches = batches, !.full = full]
                 /\ run' = [run EXCEPT ![r] = new]
  BY <1>1
<1>3. batch \in SUBSET Articles /\ run[r] \in RunState /\ run \in [Runs -> RunState]
  BY <1>1 DEF Due, CollectionInv, TypeOK
<1>4. new \in RunState
  BY <1>1, <1>2, <1>3 DEF RunState, Stages
<1>5. /\ new.stage = "purging" /\ new.todo = batch /\ new.full = full /\ new.age = run[r].age
      /\ new.drained = run[r].drained
  BY <1>2, <1>3 DEF RunState
<1>6. run' \in [Runs -> RunState] /\ run'[r] = new /\ \A s \in Runs : s # r => run'[s] = run[s]
  BY <1>2, <1>3, <1>4
<1>7. TypeOK' /\ RowsRight'
  BY <1>0, <1>6 DEF CollectionInv, TypeOK, RowsRight, ReadableBody
<1>8. Leased(r)' /\ Collects(r)' /\ Live(r)'
  BY <1>0, <1>5, <1>6 DEF Leased, Waiting, Collects, At, Inside, OnArticle, Live
<1>9. Drains(r)' /\ Gone(r)'
  BY <1>0, <1>1, <1>5, <1>6 DEF Drains, Draining, Gone, At, Due, Closed
<1>. QED
  BY <1>0, <1>6, <1>7, <1>8, <1>9, Kept DEF GivenUp

\* An object goes before its row is marked.
LEMMA PurgeDeleteStep ==
  ASSUME CollectionInv, NEW r \in Runs, PurgeDelete(r)
  PROVE  CollectionInv' /\ GivenUp
<1>0. /\ run[r].stage = "purging" /\ Live(r)
      /\ UNCHANGED <<lock, article, attempt, content, severed, profile, remaining, faults>>
      /\ Leased(r) /\ Drains(r) /\ Gone(r) /\ run[r] \in RunState /\ run \in [Runs -> RunState]
  BY DEF PurgeDelete, At, Live, CollectionInv, RunRight, TypeOK
<1>1. PICK a \in run[r].todo, todo \in SUBSET Articles :
        /\ todo = run[r].todo \ {a} /\ object' = object \ {a}
        /\ run' = [run EXCEPT ![r].stage = "purged", ![r].current = a, ![r].todo = todo]
  BY <1>0 DEF PurgeDelete, RunState
<1>2. a \in Articles
  BY <1>0, <1>1 DEF RunState
<1>3. /\ run' \in [Runs -> RunState] /\ \A s \in Runs : s # r => run'[s] = run[s]
      /\ run'[r].stage = "purged" /\ run'[r].current = a /\ run'[r].todo = todo
      /\ run'[r].age = run[r].age /\ run'[r].full = run[r].full
      /\ run'[r].failed = run[r].failed /\ run'[r].drained = run[r].drained
  <2>1. PICK new : /\ new = [run[r] EXCEPT !.stage = "purged", !.current = a, !.todo = todo]
                   /\ run' = [run EXCEPT ![r] = new]
    BY <1>1
  <2>2. new \in RunState
    BY <1>0, <1>1, <1>2, <2>1 DEF RunState, Stages
  <2>3. /\ new.stage = "purged" /\ new.current = a /\ new.todo = todo /\ new.age = run[r].age
        /\ new.full = run[r].full /\ new.failed = run[r].failed /\ new.drained = run[r].drained
    BY <1>0, <2>1 DEF RunState
  <2>. QED
    BY <1>0, <2>1, <2>2, <2>3
<1>4. Closed(r) /\ remaining <= 0
  <2>1. run[r].age \in Nat /\ remaining \in Int
    BY <1>0, CollectionAssumption DEF RunState, MaxAge, CollectionInv, TypeOK, Floor
  <2>. QED
    BY <1>0, <1>1, <2>1 DEF Drains, Closed
<1>5. TypeOK' /\ RowsRight'
  BY <1>0, <1>1, <1>3, <1>4, CollectionAssumption
     DEF CollectionInv, TypeOK, RowsRight, ReadableBody, Floor, MaxAge
<1>6. Leased(r)' /\ Collects(r)' /\ Live(r)'
  BY <1>0, <1>3 DEF Leased, Waiting, Collects, At, Inside, OnArticle, Live
<1>7. Drains(r)' /\ Gone(r)'
  BY <1>0, <1>1, <1>2, <1>3, <1>4 DEF Drains, Draining, Gone, At, Closed
<1>. QED
  BY <1>0, <1>3, <1>5, <1>6, <1>7, Kept DEF GivenUp

\* A row whose object has gone may be marked.
LEMMA ExpiredRight ==
  ASSUME CollectionInv, NEW r \in Runs, run[r].stage = "purged", content' = Expired(r),
         UNCHANGED <<object, severed, remaining>>
  PROVE  content' \in [Articles -> ContentRow] /\ RowsRight'
<1>0. /\ Live(r) /\ run[r] \in RunState /\ content \in [Articles -> ContentRow]
      /\ run[r].current \in Articles /\ run[r].current \notin object /\ Closed(r)
  BY DEF At, Live, CollectionInv, RunRight, TypeOK, Drains
<1>1. PICK a \in Articles : a = run[r].current
  BY <1>0
<1>2. PICK status \in {"absent", "active", "expired"} :
        status = IF content[a].status = "active" THEN "expired" ELSE content[a].status
  BY <1>0 DEF ContentRow
<1>3. PICK row \in ContentRow : /\ row.status = status /\ row.rank = content[a].rank
                                /\ content' = [content EXCEPT ![a] = row]
  <2>1. PICK row : row = [content[a] EXCEPT !.status = status]
    OBVIOUS
  <2>2. row \in ContentRow /\ row.status = status /\ row.rank = content[a].rank
    BY <1>0, <2>1 DEF ContentRow
  <2>3. content' = [content EXCEPT ![a] = row]
    BY <1>0, <1>1, <1>2, <2>1 DEF Expired
  <2>. QED
    BY <2>2, <2>3
<1>4. remaining <= 0
  BY <1>0, CollectionAssumption DEF RunState, MaxAge, CollectionInv, TypeOK, Floor, Closed
<1>5. /\ content' \in [Articles -> ContentRow] /\ content'[a].status = status
      /\ \A b \in Articles : b # a => content'[b] = content[b]
  BY <1>0, <1>3
<1>. QED
  BY <1>0, <1>1, <1>2, <1>4, <1>5, CollectionAssumption
     DEF CollectionInv, TypeOK, RowsRight, ReadableBody, Floor, MaxAge

\* The row whose object has gone is marked.
LEMMA PurgeUpdateStep ==
  ASSUME CollectionInv, NEW r \in Runs, PurgeUpdate(r)
  PROVE  CollectionInv' /\ GivenUp
<1>0. /\ run[r].stage = "purged" /\ Live(r)
      /\ UNCHANGED <<lock, article, attempt, object, severed, profile, remaining, faults>>
      /\ Leased(r) /\ Drains(r) /\ Gone(r) /\ run[r] \in RunState /\ run \in [Runs -> RunState]
      /\ run[r].current \in Articles /\ run[r].current \notin object /\ Closed(r)
      /\ content \in [Articles -> ContentRow]
  BY DEF PurgeUpdate, At, Live, CollectionInv, RunRight, TypeOK, Drains
<1>1. PICK a \in Articles : a = run[r].current
  BY <1>0
<1>2. PICK status \in {"absent", "active", "expired"} :
        status = IF content[a].status = "active" THEN "expired" ELSE content[a].status
  BY <1>0 DEF ContentRow
<1>3. PICK row \in ContentRow : /\ row.status = status /\ row.rank = content[a].rank
                                /\ content' = [content EXCEPT ![a] = row]
  <2>1. PICK row : row = [content[a] EXCEPT !.status = status]
    OBVIOUS
  <2>2. row \in ContentRow /\ row.status = status /\ row.rank = content[a].rank
    BY <1>0, <2>1 DEF ContentRow
  <2>3. content' = [content EXCEPT ![a] = row]
    BY <1>0, <1>1, <1>2, <2>1 DEF PurgeUpdate, Expired
  <2>. QED
    BY <2>2, <2>3
<1>4. PICK new : /\ new = [run[r] EXCEPT !.stage = "purging", !.current = Null, !.deleted = TRUE]
                 /\ run' = [run EXCEPT ![r] = new]
  BY DEF PurgeUpdate
<1>5. new \in RunState
  BY <1>0, <1>4 DEF RunState, Stages
<1>6. /\ new.stage = "purging" /\ new.todo = run[r].todo /\ new.full = run[r].full
      /\ new.failed = run[r].failed /\ new.age = run[r].age /\ new.drained = run[r].drained
  BY <1>0, <1>4 DEF RunState
<1>7. run' \in [Runs -> RunState] /\ run'[r] = new /\ \A s \in Runs : s # r => run'[s] = run[s]
  BY <1>0, <1>4, <1>5
<1>8. remaining <= 0
  BY <1>0, CollectionAssumption DEF RunState, MaxAge, CollectionInv, TypeOK, Floor, Closed
<1>9. /\ content' \in [Articles -> ContentRow] /\ content'[a].status = status
      /\ \A b \in Articles : b # a => content'[b] = content[b]
  BY <1>0, <1>3
<1>10. TypeOK'
  BY <1>0, <1>7, <1>9 DEF CollectionInv, TypeOK
<1>11. RowsRight'
  BY <1>0, <1>1, <1>2, <1>8, <1>9, CollectionAssumption
     DEF CollectionInv, TypeOK, RowsRight, ReadableBody, Floor, MaxAge
<1>12. Leased(r)' /\ Collects(r)' /\ Live(r)'
  BY <1>0, <1>6, <1>7 DEF Leased, Waiting, Collects, At, Inside, OnArticle, Live
<1>13. Drains(r)' /\ Gone(r)'
  BY <1>0, <1>1, <1>2, <1>6, <1>7, <1>9 DEF Drains, Draining, Gone, At, Closed
<1>. QED
  BY <1>0, <1>7, <1>10, <1>11, <1>12, <1>13, Kept DEF GivenUp

\* R2 or D1 refuses: the row stays active, and the drain does not end well.
LEMMA PurgeFailsStep ==
  ASSUME CollectionInv, NEW r \in Runs, PurgeFails(r)
  PROVE  CollectionInv' /\ GivenUp
<1>0. /\ run[r].stage \in {"purging", "purged"} /\ Live(r)
      /\ UNCHANGED <<lock, article, attempt, object, severed, profile, remaining>>
      /\ faults' \in 0 .. MaxFaults
      /\ Leased(r) /\ Drains(r) /\ Gone(r) /\ run[r] \in RunState /\ run \in [Runs -> RunState]
  BY CollectionAssumption
     DEF PurgeFails, At, Live, CollectionInv, RunRight, TypeOK, tables, Fault
<1>1. PICK new \in RunState :
        /\ run' = [run EXCEPT ![r] = new]
        /\ new.stage = "purging" /\ new.age = run[r].age /\ new.failed
        /\ new.drained = run[r].drained /\ new.todo \subseteq run[r].todo
  <2>1. ASSUME At(r, "purging"), NEW a \in run[r].todo,
               run' = [run EXCEPT ![r].todo = @ \ {a}, ![r].failed = TRUE]
        PROVE  \E new \in RunState :
                 /\ run' = [run EXCEPT ![r] = new]
                 /\ new.stage = "purging" /\ new.age = run[r].age /\ new.failed
                 /\ new.drained = run[r].drained /\ new.todo \subseteq run[r].todo
    <3>1. PICK todo \in SUBSET Articles : todo = run[r].todo \ {a}
      BY <1>0 DEF RunState
    <3>2. PICK new : /\ new = [run[r] EXCEPT !.todo = todo, !.failed = TRUE]
                     /\ run' = [run EXCEPT ![r] = new]
      BY <2>1, <3>1
    <3>3. new \in RunState
      BY <1>0, <3>1, <3>2 DEF RunState
    <3>4. /\ new.stage = "purging" /\ new.age = run[r].age /\ new.failed
          /\ new.drained = run[r].drained /\ new.todo = todo
      BY <1>0, <2>1, <3>2 DEF RunState, At
    <3>. QED
      BY <3>1, <3>2, <3>3, <3>4
  <2>2. ASSUME run' = [run EXCEPT ![r].stage = "purging", ![r].current = Null, ![r].failed = TRUE]
        PROVE  \E new \in RunState :
                 /\ run' = [run EXCEPT ![r] = new]
                 /\ new.stage = "purging" /\ new.age = run[r].age /\ new.failed
                 /\ new.drained = run[r].drained /\ new.todo \subseteq run[r].todo
    <3>1. PICK new : /\ new = [run[r] EXCEPT !.stage = "purging", !.current = Null, !.failed = TRUE]
                     /\ run' = [run EXCEPT ![r] = new]
      BY <2>2
    <3>2. new \in RunState
      BY <1>0, <3>1 DEF RunState, Stages
    <3>3. /\ new.stage = "purging" /\ new.age = run[r].age /\ new.failed
          /\ new.drained = run[r].drained /\ new.todo = run[r].todo
      BY <1>0, <3>1 DEF RunState
    <3>. QED
      BY <3>1, <3>2, <3>3
  <2>. QED
    BY <2>1, <2>2 DEF PurgeFails
<1>2. run' \in [Runs -> RunState] /\ run'[r] = new /\ \A s \in Runs : s # r => run'[s] = run[s]
  BY <1>0, <1>1
<1>3. TypeOK' /\ RowsRight'
  <2>1. CASE content' = content
    BY <1>0, <1>2, <2>1 DEF CollectionInv, TypeOK, RowsRight, ReadableBody
  <2>2. CASE At(r, "purged") /\ content' = Expired(r)
    <3>1. content' \in [Articles -> ContentRow] /\ RowsRight'
      BY <1>0, <2>2, ExpiredRight DEF At
    <3>. QED
      BY <1>0, <1>2, <3>1 DEF CollectionInv, TypeOK
  <2>3. content' = content \/ (At(r, "purged") /\ content' = Expired(r))
    BY DEF PurgeFails
  <2>. QED
    BY <2>1, <2>2, <2>3
<1>4. Leased(r)' /\ Collects(r)' /\ Live(r)'
  BY <1>0, <1>1, <1>2 DEF Leased, Waiting, Collects, At, Inside, OnArticle, Live
<1>5. Drains(r)' /\ Gone(r)'
  BY <1>0, <1>1, <1>2 DEF Drains, Draining, Gone, At, Closed
<1>. QED
  BY <1>0, <1>2, <1>3, <1>4, <1>5, Kept DEF GivenUp

\* A batch ends: the drain is complete when nothing was left of what is past its use.
LEMMA PurgeEndStep ==
  ASSUME CollectionInv, NEW r \in Runs, PurgeEnd(r)
  PROVE  CollectionInv' /\ GivenUp
<1>0. /\ run[r].stage = "purging" /\ run[r].todo = {} /\ Live(r)
      /\ UNCHANGED <<lock, article, attempt, content, object, severed, profile, remaining, faults>>
      /\ Leased(r) /\ Drains(r) /\ Gone(r) /\ run[r] \in RunState /\ run \in [Runs -> RunState]
  BY DEF PurgeEnd, At, Live, CollectionInv, RunRight, TypeOK, tables
<1>1. PICK goesOn \in BOOLEAN, drained \in BOOLEAN :
        /\ goesOn = Continues(run[r]) /\ drained = DrainedWell(run[r])
  BY DEF Continues, DrainedWell
<1>2. PICK stage \in {"drain", "discover"}, batches \in 0 .. MaxBatches,
           sources \in SUBSET Sources :
        /\ stage = IF goesOn THEN "drain" ELSE "discover"
        /\ batches = IF goesOn THEN run[r].batches ELSE 0
        /\ sources = IF goesOn THEN {} ELSE Sources
  <2>1. PICK stage \in {"drain", "discover"} : stage = IF goesOn THEN "drain" ELSE "discover"
    OBVIOUS
  <2>2. PICK batches \in 0 .. MaxBatches : batches = IF goesOn THEN run[r].batches ELSE 0
    BY <1>0, CollectionAssumption DEF RunState
  <2>3. PICK sources \in SUBSET Sources : sources = IF goesOn THEN {} ELSE Sources
    <3>1. CASE goesOn
      BY <3>1
    <3>2. CASE ~goesOn
      BY <3>2
    <3>. QED
      BY <3>1, <3>2
  <2>. QED
    BY <2>1, <2>2, <2>3
<1>3. PICK new : /\ new = [run[r] EXCEPT !.stage = stage, !.drained = drained, !.batches = batches,
                             !.sources = sources, !.full = FALSE, !.deleted = FALSE, !.failed = FALSE]
                 /\ run' = [run EXCEPT ![r] = new]
  <2>1. /\ stage = IF Continues(run[r]) THEN "drain" ELSE "discover"
        /\ batches = IF Continues(run[r]) THEN run[r].batches ELSE 0
        /\ sources = IF Continues(run[r]) THEN {} ELSE Sources
    BY <1>1, <1>2
  <2>2. run' = [run EXCEPT ![r].stage = stage, ![r].drained = drained, ![r].batches = batches,
                           ![r].sources = sources, ![r].full = FALSE, ![r].deleted = FALSE,
                           ![r].failed = FALSE]
    BY <1>1, <2>1, Zenon DEF PurgeEnd
  <2>. QED
    BY <2>2
<1>4. new \in RunState
  <2>1. /\ stage \in Stages /\ drained \in BOOLEAN /\ batches \in 0 .. MaxBatches
        /\ sources \in SUBSET Sources
    BY <1>1, <1>2 DEF Stages
  <2>2. run[r] \in RunState
    BY <1>0
  <2>. QED
    BY <1>3, <2>1, <2>2 DEF RunState
<1>5. /\ new.stage = stage /\ new.age = run[r].age /\ new.drained = drained
      /\ new.batches = batches
  BY <1>0, <1>3 DEF RunState
<1>6. run' \in [Runs -> RunState] /\ run'[r] = new /\ \A s \in Runs : s # r => run'[s] = run[s]
  BY <1>0, <1>3, <1>4
<1>7. /\ goesOn => run[r].full /\ run[r].batches < MaxBatches
      /\ drained => ~run[r].full /\ ~run[r].failed
  BY <1>1 DEF Continues, DrainedWell
<1>8. TypeOK' /\ RowsRight'
  BY <1>0, <1>6 DEF CollectionInv, TypeOK, RowsRight, ReadableBody
<1>9. Leased(r)' /\ Collects(r)' /\ Live(r)'
  BY <1>0, <1>2, <1>5, <1>6 DEF Leased, Waiting, Collects, At, Inside, OnArticle, Live
<1>10. Drains(r)'
  BY <1>0, <1>2, <1>5, <1>6, <1>7 DEF Drains, Draining, At
<1>11. Gone(r)'
  <2>1. ASSUME drained, Closed(r), NEW a \in Stored
        PROVE  content[a].status = "expired" /\ a \notin object
    <3>1. a \in Articles /\ content[a].status \in {"active", "expired"}
      BY <2>1 DEF Stored, CollectionInv, TypeOK, ContentRow
    <3>2. content[a].status # "active"
      BY <1>0, <1>7, <2>1, <3>1 DEF Drains, At
    <3>. QED
      BY <3>1, <3>2 DEF CollectionInv, RowsRight
  <2>2. Closed(r)' <=> Closed(r)
    BY <1>0, <1>5, <1>6 DEF Closed
  <2>3. Stored' = Stored
    BY <1>0 DEF Stored
  <2>. QED
    BY <1>0, <1>5, <1>6, <2>1, <2>2, <2>3 DEF Gone
<1>. QED
  BY <1>0, <1>6, <1>8, <1>9, <1>10, <1>11, Kept DEF GivenUp

----------------------------------------------------------------------------
(* Discovery, bodies and profiles: the stages that only pass on *)

\* Discovery asks a publisher before the deadline and inside the window only.
LEMMA DiscoverRequestStep ==
  ASSUME CollectionInv, NEW r \in Runs, DiscoverRequest(r)
  PROVE  CollectionInv' /\ GivenUp
<1>0. /\ run[r].stage = "discover" /\ Live(r) /\ ~Closed(r) /\ run[r].age < RunLimit
      /\ UNCHANGED <<lock, article, attempt, content, object, severed, profile, remaining, faults>>
      /\ Leased(r) /\ Gone(r) /\ run[r] \in RunState /\ run \in [Runs -> RunState]
  BY DEF DiscoverRequest, InTime, At, Live, CollectionInv, RunRight, TypeOK, tables
<1>1. PICK new : new = [run[r] EXCEPT !.stage = "discovering"] /\ run' = [run EXCEPT ![r] = new]
  BY DEF DiscoverRequest
<1>2. /\ new \in RunState /\ new.stage = "discovering" /\ new.age = run[r].age
      /\ new.drained = run[r].drained
  BY <1>0, <1>1 DEF RunState, Stages
<1>3. run' \in [Runs -> RunState] /\ run'[r] = new /\ \A s \in Runs : s # r => run'[s] = run[s]
  BY <1>0, <1>1, <1>2
<1>4. TypeOK' /\ RowsRight'
  BY <1>0, <1>3 DEF CollectionInv, TypeOK, RowsRight, ReadableBody
<1>5. /\ Leased(r)' /\ Collects(r)' /\ Live(r)'
      /\ Drains(r)' /\ Gone(r)'
  BY <1>0, <1>2, <1>3
     DEF Leased, Waiting, Collects, At, Inside, OnArticle, Live, Drains, Draining, Gone, Closed
<1>. QED
  BY <1>0, <1>3, <1>4, <1>5, Kept DEF GivenUp

\* What else discovery does; the articles it finds are written in one step or in part.
LEMMA DiscoveryStep ==
  ASSUME CollectionInv, NEW r \in Runs,
         OutsideWindow(r) \/ DiscoverAnswer(r) \/ DiscoverEnd(r) \/ Persist(r)
  PROVE  CollectionInv' /\ GivenUp
<1>0. /\ Live(r) /\ run[r] \in RunState /\ run \in [Runs -> RunState]
      /\ profile' \subseteq Articles /\ faults' \in 0 .. MaxFaults
      /\ UNCHANGED <<lock, attempt, content, object, severed, remaining>>
  <2>1. /\ Live(r) /\ UNCHANGED <<lock, attempt, content, object, severed, profile, remaining>>
        /\ faults' = faults \/ Fault
    BY DEF OutsideWindow, DiscoverAnswer, DiscoverEnd, Persist, At, Live, tables
  <2>2. faults' \in 0 .. MaxFaults
    BY <2>1, CollectionAssumption DEF CollectionInv, TypeOK, Fault
  <2>. QED
    BY <2>1, <2>2 DEF CollectionInv, TypeOK
<1>1. run[r].stage \in Inside => ~Closed(r)
  BY <1>0 DEF CollectionInv, RunRight, Collects
<1>2. CASE OutsideWindow(r)
  <2>1. PICK new : new = [run[r] EXCEPT !.stage = "ending"] /\ run' = [run EXCEPT ![r] = new]
    BY <1>2 DEF OutsideWindow
  <2>2. /\ new \in RunState /\ new.stage = "ending" /\ new.age = run[r].age
        /\ new.drained = run[r].drained
    BY <1>0, <2>1 DEF RunState, Stages
  <2>3. article' \in [Articles -> ArticleRow]
    BY <1>2 DEF OutsideWindow, tables, CollectionInv, TypeOK
  <2>. QED
    BY <1>0, <2>1, <2>2, <2>3, Passes DEF Inside, OnArticle
<1>3. CASE DiscoverAnswer(r)
  <2>1. PICK sources \in SUBSET Sources, found \in SUBSET Articles :
          run' = [run EXCEPT ![r].stage = "discover", ![r].waited = FALSE,
                             ![r].sources = sources, ![r].found = found]
    <3>1. PICK s \in run[r].sources, more \in SUBSET Articles :
            run' = [run EXCEPT ![r].stage = "discover", ![r].waited = FALSE,
                               ![r].sources = @ \ {s}, ![r].found = @ \cup more]
      BY <1>3 DEF DiscoverAnswer
    <3>2. PICK sources \in SUBSET Sources : sources = run[r].sources \ {s}
      BY <1>0 DEF RunState
    <3>3. PICK found \in SUBSET Articles : found = run[r].found \cup more
      BY <1>0 DEF RunState
    <3>. QED
      BY <3>1, <3>2, <3>3
  <2>2. PICK new : /\ new = [run[r] EXCEPT !.stage = "discover", !.waited = FALSE,
                                           !.sources = sources, !.found = found]
                   /\ run' = [run EXCEPT ![r] = new]
    BY <2>1
  <2>3. new \in RunState
    BY <1>0, <2>1, <2>2 DEF RunState, Stages
  <2>4. new.stage = "discover" /\ new.age = run[r].age /\ new.drained = run[r].drained
    BY <1>0, <2>2 DEF RunState
  <2>5. article' \in [Articles -> ArticleRow]
    BY <1>3 DEF DiscoverAnswer, tables, CollectionInv, TypeOK
  <2>. QED
    BY <1>0, <2>2, <2>3, <2>4, <2>5, Passes DEF Inside, OnArticle
<1>4. CASE DiscoverEnd(r)
  <2>1. PICK new : /\ new = [run[r] EXCEPT !.stage = "persist", !.sources = {}]
                   /\ run' = [run EXCEPT ![r] = new]
    BY <1>4 DEF DiscoverEnd
  <2>2. new \in RunState
    BY <1>0, <2>1 DEF RunState, Stages
  <2>3. new.stage = "persist" /\ new.age = run[r].age /\ new.drained = run[r].drained
    BY <1>0, <2>1 DEF RunState
  <2>4. article' \in [Articles -> ArticleRow] /\ ~Closed(r)
    BY <1>4 DEF DiscoverEnd, tables, CollectionInv, TypeOK
  <2>. QED
    BY <1>0, <2>1, <2>2, <2>3, <2>4, Passes
<1>5. CASE Persist(r)
  <2>1. article' \in [Articles -> ArticleRow]
    <3>1. \A a \in Articles : Upserted(a) \in ArticleRow /\ article[a] \in ArticleRow
      BY Ranks, CollectionAssumption DEF Upserted, ArticleRow, Sections, CollectionInv, TypeOK
    <3>2. PICK saved \in SUBSET run[r].found :
            article' = [a \in Articles |-> IF a \in saved THEN Upserted(a) ELSE article[a]]
      BY <1>5 DEF Persist
    <3>. QED
      BY <3>1, <3>2
  <2>2. PICK stage \in {"bodies", "ending"} :
          run' = [run EXCEPT ![r].stage = stage, ![r].found = {}]
    BY <1>5 DEF Persist
  <2>3. PICK new : /\ new = [run[r] EXCEPT !.stage = stage, !.found = {}]
                   /\ run' = [run EXCEPT ![r] = new]
    BY <2>2
  <2>4. new \in RunState
    BY <1>0, <2>2, <2>3 DEF RunState, Stages
  <2>5. new.stage = stage /\ new.age = run[r].age /\ new.drained = run[r].drained
    BY <1>0, <2>3 DEF RunState
  <2>6. ~Closed(r)
    BY <1>1, <1>5 DEF Persist, At, Inside
  <2>. QED
    BY <1>0, <2>1, <2>2, <2>3, <2>4, <2>5, <2>6, Passes
<1>. QED
  BY <1>2, <1>3, <1>4, <1>5

\* Leaving the bodies behind, and the profiles.
LEMMA ProfilingStep ==
  ASSUME CollectionInv, NEW r \in Runs,
         FetchEnd(r) \/ FetchCut(r) \/ Profiling(r)
  PROVE  CollectionInv' /\ GivenUp
<1>0. /\ Live(r) /\ run[r] \in RunState /\ run \in [Runs -> RunState] /\ ~Closed(r)
      /\ article' \in [Articles -> ArticleRow] /\ faults' \in 0 .. MaxFaults
      /\ UNCHANGED <<lock, attempt, content, object, severed, remaining>>
  BY CollectionAssumption DEF FetchEnd, FetchCut, Profiling, ProfilesSelect, Profile, ProfileFails,
     ProfilesEnd, At, Live, CollectionInv, TypeOK, tables, Fault, RunRight, Collects, Inside, OnArticle
<1>1. profile' \subseteq Articles
  BY <1>0 DEF FetchEnd, FetchCut, Profiling, ProfilesSelect, Profile, ProfileFails,
     ProfilesEnd, tables, CollectionInv, TypeOK, RunState
<1>2. CASE FetchEnd(r)
  <2>1. PICK new : /\ new = [run[r] EXCEPT !.stage = "profiles", !.todo = {}, !.halted = {}]
                   /\ run' = [run EXCEPT ![r] = new]
    BY <1>2 DEF FetchEnd
  <2>2. new \in RunState
    BY <1>0, <2>1 DEF RunState, Stages
  <2>3. new.stage = "profiles" /\ new.age = run[r].age /\ new.drained = run[r].drained
    BY <1>0, <2>1 DEF RunState
  <2>. QED
    BY <1>0, <1>1, <2>1, <2>2, <2>3, Passes
<1>3. CASE FetchCut(r)
  <2>1. PICK new : /\ new = [run[r] EXCEPT !.stage = "profiles", !.waited = FALSE, !.todo = {},
                                           !.current = Null, !.halted = {}]
                   /\ run' = [run EXCEPT ![r] = new]
    BY <1>3 DEF FetchCut
  <2>2. new \in RunState
    BY <1>0, <2>1 DEF RunState, Stages
  <2>3. new.stage = "profiles" /\ new.age = run[r].age /\ new.drained = run[r].drained
    BY <1>0, <2>1 DEF RunState
  <2>. QED
    BY <1>0, <1>1, <2>1, <2>2, <2>3, Passes
<1>4. ASSUME NEW stage \in {"profiling", "ending"}, run' = [run EXCEPT ![r].stage = stage]
      PROVE  CollectionInv' /\ GivenUp
  <2>1. PICK new : new = [run[r] EXCEPT !.stage = stage] /\ run' = [run EXCEPT ![r] = new]
    BY <1>4
  <2>2. /\ new \in RunState /\ new.stage = stage /\ new.age = run[r].age
        /\ new.drained = run[r].drained
    BY <1>0, <2>1 DEF RunState, Stages
  <2>. QED
    BY <1>0, <1>1, <2>1, <2>2, Passes
<1>5. CASE ProfilesSelect(r)
  <2>1. ASSUME NEW batch \in SUBSET Unprofiled(r),
               run' = [run EXCEPT ![r].stage = "profiling", ![r].todo = batch]
        PROVE  CollectionInv' /\ GivenUp
    <3>1. PICK new : /\ new = [run[r] EXCEPT !.stage = "profiling", !.todo = batch]
                     /\ run' = [run EXCEPT ![r] = new]
      BY <2>1
    <3>2. batch \in SUBSET Articles
      BY DEF Unprofiled
    <3>3. new \in RunState
      BY <1>0, <3>1, <3>2 DEF RunState, Stages
    <3>4. new.stage = "profiling" /\ new.age = run[r].age /\ new.drained = run[r].drained
      BY <1>0, <3>1 DEF RunState
    <3>. QED
      BY <1>0, <1>1, <3>1, <3>3, <3>4, Passes
  <2>. QED
    BY <1>4, <1>5, <2>1 DEF ProfilesSelect
<1>6. CASE ProfilesEnd(r)
  BY <1>4, <1>6 DEF ProfilesEnd
<1>7. CASE Profile(r) \/ ProfileFails(r)
  <2>1. PICK todo \in SUBSET Articles : run' = [run EXCEPT ![r].todo = todo]
    BY <1>0, <1>7 DEF Profile, ProfileFails, RunState
  <2>2. run[r].stage = "profiling"
    BY <1>7 DEF Profile, ProfileFails, At
  <2>3. PICK new : new = [run[r] EXCEPT !.todo = todo] /\ run' = [run EXCEPT ![r] = new]
    BY <2>1
  <2>4. new \in RunState
    BY <1>0, <2>3 DEF RunState
  <2>5. /\ new.stage = "profiling" /\ new.age = run[r].age
        /\ new.drained = run[r].drained
    BY <1>0, <2>2, <2>3 DEF RunState
  <2>. QED
    BY <1>0, <1>1, <2>3, <2>4, <2>5, Passes
<1>. QED
  BY <1>2, <1>3, <1>5, <1>6, <1>7 DEF Profiling

----------------------------------------------------------------------------
(* Bodies *)

\* Only articles without an active body and with attempts left are collected.
LEMMA BodiesSelectStep ==
  ASSUME CollectionInv, NEW r \in Runs, BodiesSelect(r)
  PROVE  CollectionInv' /\ GivenUp
<1>0. /\ run[r].stage = "bodies" /\ Live(r) /\ ~Closed(r)
      /\ UNCHANGED <<lock, article, attempt, content, object, severed, profile, remaining, faults>>
      /\ Leased(r) /\ Gone(r) /\ run[r] \in RunState /\ run \in [Runs -> RunState]
  BY DEF BodiesSelect, At, Live, CollectionInv, RunRight, TypeOK, tables, Collects, Inside
<1>1. ASSUME NEW batch \in SUBSET Candidates(r),
             run' = [run EXCEPT ![r].stage = "fetching", ![r].todo = batch]
      PROVE  CollectionInv' /\ GivenUp
  <2>1. /\ batch \in SUBSET Articles
        /\ \A a \in batch : content[a].status # "active" /\ attempt[a].status # "terminal"
    BY <1>0 DEF Candidates, MayAttempt
  <2>2. PICK new : /\ new = [run[r] EXCEPT !.stage = "fetching", !.todo = batch]
                   /\ run' = [run EXCEPT ![r] = new]
    BY <1>1
  <2>3. new \in RunState
    BY <1>0, <2>1, <2>2 DEF RunState, Stages
  <2>4. /\ new.stage = "fetching" /\ new.age = run[r].age /\ new.drained = run[r].drained
        /\ new.todo = batch
    BY <1>0, <2>2 DEF RunState
  <2>5. run' \in [Runs -> RunState] /\ run'[r] = new /\ \A s \in Runs : s # r => run'[s] = run[s]
    BY <1>0, <2>2, <2>3
  <2>6. TypeOK' /\ RowsRight'
    BY <1>0, <2>5 DEF CollectionInv, TypeOK, RowsRight, ReadableBody
  <2>7. Leased(r)' /\ Live(r)' /\ Drains(r)' /\ Gone(r)'
    BY <1>0, <2>4, <2>5 DEF Leased, Waiting, At, Live, Drains, Draining, Gone, Closed
  <2>8. Collects(r)'
    BY <1>0, <2>1, <2>4, <2>5 DEF Collects, OnArticle, Inside, At, Closed
  <2>. QED
    BY <1>0, <2>5, <2>6, <2>7, <2>8, Kept DEF GivenUp
<1>2. CASE run' = [run EXCEPT ![r].stage = "ending"]
  <2>1. PICK new : new = [run[r] EXCEPT !.stage = "ending"] /\ run' = [run EXCEPT ![r] = new]
    BY <1>2
  <2>2. /\ new \in RunState /\ new.stage = "ending" /\ new.age = run[r].age
        /\ new.drained = run[r].drained
    BY <1>0, <2>1 DEF RunState, Stages
  <2>3. /\ article' \in [Articles -> ArticleRow] /\ profile' \subseteq Articles
        /\ faults' \in 0 .. MaxFaults
    BY <1>0 DEF CollectionInv, TypeOK
  <2>. QED
    BY <1>0, <2>1, <2>2, <2>3, Passes
<1>. QED
  BY <1>1, <1>2 DEF BodiesSelect

\* The next article is left out, since its publisher stopped the run, or asked for.
LEMMA FetchStep ==
  ASSUME CollectionInv, NEW r \in Runs, FetchSkip(r) \/ FetchRequest(r)
  PROVE  CollectionInv' /\ GivenUp
<1>0. /\ run[r].stage = "fetching" /\ Live(r)
      /\ UNCHANGED <<lock, article, attempt, content, object, severed, profile, remaining, faults>>
      /\ Leased(r) /\ Collects(r) /\ Gone(r) /\ run[r] \in RunState /\ run \in [Runs -> RunState]
  BY DEF FetchSkip, FetchRequest, At, Live, CollectionInv, RunRight, TypeOK, tables
<1>1. PICK a \in run[r].todo, todo \in SUBSET Articles :
        /\ todo = run[r].todo \ {a}
        /\ \/ run' = [run EXCEPT ![r].todo = todo]
           \/ /\ run' = [run EXCEPT ![r].stage = "requested", ![r].current = a, ![r].todo = todo]
              /\ run[r].age < RunLimit
  <2>1. PICK a \in run[r].todo :
          \/ run' = [run EXCEPT ![r].todo = @ \ {a}]
          \/ /\ run' = [run EXCEPT ![r].stage = "requested", ![r].current = a, ![r].todo = @ \ {a}]
             /\ run[r].age < RunLimit
    BY DEF FetchSkip, FetchRequest, Head, InTime
  <2>2. PICK todo \in SUBSET Articles : todo = run[r].todo \ {a}
    BY <1>0 DEF RunState
  <2>. QED
    BY <2>1, <2>2
<1>2. /\ a \in Articles /\ content[a].status # "active" /\ attempt[a].status # "terminal"
      /\ \A b \in todo : content[b].status # "active" /\ attempt[b].status # "terminal"
  BY <1>0, <1>1 DEF Collects, RunState
<1>3. PICK new \in RunState :
        /\ run' = [run EXCEPT ![r] = new]
        /\ new.age = run[r].age /\ new.drained = run[r].drained /\ new.todo = todo
        /\ \/ new.stage = "fetching"
           \/ new.stage = "requested" /\ new.current = a /\ run[r].age < RunLimit
  <2>1. CASE run' = [run EXCEPT ![r].todo = todo]
    <3>1. PICK new : new = [run[r] EXCEPT !.todo = todo] /\ run' = [run EXCEPT ![r] = new]
      BY <2>1
    <3>2. new \in RunState
      BY <1>0, <1>1, <3>1 DEF RunState
    <3>3. /\ new.age = run[r].age /\ new.drained = run[r].drained /\ new.todo = todo
          /\ new.stage = "fetching"
      BY <1>0, <3>1 DEF RunState
    <3>. QED
      BY <3>1, <3>2, <3>3
  <2>2. CASE /\ run' = [run EXCEPT ![r].stage = "requested", ![r].current = a, ![r].todo = todo]
             /\ run[r].age < RunLimit
    <3>1. PICK new : /\ new = [run[r] EXCEPT !.stage = "requested", !.current = a, !.todo = todo]
                     /\ run' = [run EXCEPT ![r] = new]
      BY <2>2
    <3>2. new \in RunState
      BY <1>0, <1>1, <1>2, <3>1 DEF RunState, Stages
    <3>3. /\ new.age = run[r].age /\ new.drained = run[r].drained /\ new.todo = todo
          /\ new.stage = "requested" /\ new.current = a
      BY <1>0, <3>1 DEF RunState
    <3>. QED
      BY <2>2, <3>1, <3>2, <3>3
  <2>. QED
    BY <1>1, <2>1, <2>2
<1>4. run' \in [Runs -> RunState] /\ run'[r] = new /\ \A s \in Runs : s # r => run'[s] = run[s]
  BY <1>0, <1>3
<1>5. TypeOK' /\ RowsRight'
  BY <1>0, <1>4 DEF CollectionInv, TypeOK, RowsRight, ReadableBody
<1>6. Leased(r)' /\ Live(r)' /\ Drains(r)' /\ Gone(r)'
  <2>1. /\ run'[r].age = run[r].age /\ run'[r].drained = run[r].drained
        /\ run'[r].stage \in {"fetching", "requested"}
        /\ run'[r].stage = "requested" => run[r].age < RunLimit
    BY <1>3, <1>4
  <2>2. Leased(r)' /\ Live(r)'
    BY <1>0, <2>1 DEF Leased, Waiting, Live
  <2>3. Drains(r)'
    BY <2>1 DEF Drains, Draining, At
  <2>4. Gone(r)'
    BY <1>0, <2>1 DEF Gone, Closed, Stored
  <2>. QED
    BY <2>2, <2>3, <2>4
<1>7. Collects(r)'
  BY <1>0, <1>1, <1>2, <1>3, <1>4 DEF Collects, OnArticle, Inside, At, Closed
<1>. QED
  BY <1>0, <1>4, <1>5, <1>6, <1>7, Kept DEF GivenUp

\* An article is left, or its refusal is still to be recorded: its attempts are as they were,
\* cleared or one more, and the rows are left right.
LEMMA ArticleDone ==
  ASSUME CollectionInv, NEW r \in Runs, run[r].stage \in OnArticle,
         NEW new \in RunState, run' = [run EXCEPT ![r] = new],
         new.age = run[r].age, new.drained = run[r].drained, new.todo = run[r].todo,
         new.stage \in {"fetching", "ending", "refused"},
         new.stage = "refused" => new.current = run[r].current /\ ~RecordFailure(r),
         article' \in [Articles -> ArticleRow],
         \/ attempt' = attempt
         \/ attempt' = [attempt EXCEPT ![run[r].current] = NoAttempt]
         \/ RecordFailure(r),
         object' \subseteq Articles, severed' \subseteq Articles, RowsRight',
         faults' \in 0 .. MaxFaults, UNCHANGED <<lock, content, profile, remaining>>
  PROVE  CollectionInv' /\ GivenUp
<1>0. /\ Live(r) /\ Leased(r) /\ Collects(r) /\ ~Closed(r)
      /\ run[r] \in RunState /\ run \in [Runs -> RunState]
      /\ run[r].current \in Articles \ run[r].todo /\ attempt[run[r].current].status # "terminal"
  BY DEF At, Live, CollectionInv, RunRight, TypeOK, Collects, OnArticle, Inside
<1>1. PICK a \in Articles : a = run[r].current
  BY <1>0
<1>2. PICK row \in AttemptRow : /\ attempt' = [attempt EXCEPT ![a] = row]
                                /\ ~RecordFailure(r) => row.status # "terminal"
  <2>1. attempt \in [Articles -> AttemptRow] /\ Failed(r, a) \in AttemptRow
    BY <1>0, FailureTyped DEF CollectionInv, TypeOK
  <2>2. NoAttempt \in AttemptRow /\ NoAttempt.status # "terminal"
    BY CollectionAssumption DEF NoAttempt, AttemptRow, Floor, MaxAge
  <2>3. CASE attempt' = attempt
    BY <1>0, <1>1, <2>1, <2>3
  <2>4. CASE attempt' = [attempt EXCEPT ![run[r].current] = NoAttempt]
    BY <1>1, <2>2, <2>4
  <2>5. CASE RecordFailure(r)
    BY <1>1, <2>1, <2>5 DEF RecordFailure
  <2>. QED
    BY <2>3, <2>4, <2>5
<1>3. /\ attempt' \in [Articles -> AttemptRow] /\ attempt'[a] = row
      /\ \A b \in Articles : b # a => attempt'[b] = attempt[b]
  BY <1>2 DEF CollectionInv, TypeOK
<1>4. run' \in [Runs -> RunState] /\ run'[r] = new /\ \A s \in Runs : s # r => run'[s] = run[s]
  BY <1>0
<1>5. TypeOK'
  BY <1>3, <1>4 DEF CollectionInv, TypeOK
<1>6. Leased(r)' /\ Live(r)' /\ Drains(r)'
  BY <1>0, <1>4 DEF Leased, Waiting, At, Live, Drains, Draining
<1>7. ~Closed(r)'
  BY <1>0, <1>4 DEF Closed
<1>8. Gone(r)'
  BY <1>7 DEF Gone
<1>9. Collects(r)'
  <2>1. run[r].todo \subseteq Articles
    BY <1>0 DEF RunState
  <2>2. \A b \in run[r].todo : /\ content[b].status # "active" /\ attempt[b].status # "terminal"
                               /\ attempt'[b] = attempt[b]
    BY <1>0, <1>1, <1>3, <2>1 DEF Collects
  <2>3. CASE new.stage = "refused"
    <3>1. new.current = a /\ a \notin new.todo /\ attempt'[a].status # "terminal"
      BY <1>0, <1>1, <1>2, <1>3, <2>3
    <3>. QED
      BY <1>4, <1>7, <2>2, <2>3, <3>1 DEF Collects, OnArticle, Inside, At
  <2>4. CASE new.stage \in {"fetching", "ending"}
    BY <1>4, <1>7, <2>2, <2>4 DEF Collects, OnArticle, Inside, At
  <2>. QED
    BY <2>3, <2>4
<1>10. GivenUp
  BY <1>0, <1>1, <1>3 DEF GivenUp
<1>. QED
  BY <1>0, <1>4, <1>5, <1>6, <1>8, <1>9, <1>10, Kept

\* The ways a request, a page or a body comes to nothing, and the end of a stored one.
LEMMA DoneStep ==
  ASSUME CollectionInv, NEW r \in Runs,
         \/ FetchFails(r) \/ PageExcluded(r) \/ PageTopicless(r)
         \/ WindowShut(r) \/ ClearAttempt(r) \/ RecordRefusal(r)
  PROVE  CollectionInv' /\ GivenUp
<1>0. run[r] \in RunState /\ run \in [Runs -> RunState] /\ article \in [Articles -> ArticleRow]
  BY DEF CollectionInv, TypeOK
<1>1. run[r].stage \in OnArticle
  BY DEF FetchFails, PageExcluded, PageTopicless, WindowShut, ClearAttempt, RecordRefusal, At,
     OnArticle
<1>2. UNCHANGED <<lock, content, object, severed, profile, remaining, faults>>
  BY DEF FetchFails, PageExcluded, PageTopicless, WindowShut, ClearAttempt, RecordRefusal, tables
<1>3. article' \in [Articles -> ArticleRow]
  <2>1. CASE PageExcluded(r)
    <3>1. [article[run[r].current] EXCEPT !.section = "excluded"] \in ArticleRow
          \/ run[r].current \notin Articles
      BY <1>0 DEF ArticleRow, Sections
    <3>. QED
      BY <1>0, <2>1, <3>1 DEF PageExcluded
  <2>2. CASE ~PageExcluded(r)
    BY <1>0, <2>2 DEF FetchFails, PageTopicless, WindowShut, ClearAttempt, RecordRefusal, tables
  <2>. QED
    BY <2>1, <2>2
<1>4. \/ attempt' = attempt
      \/ attempt' = [attempt EXCEPT ![run[r].current] = NoAttempt]
      \/ RecordFailure(r)
  BY DEF FetchFails, PageExcluded, PageTopicless, WindowShut, ClearAttempt, RecordRefusal, tables
<1>5. PICK halted \in SUBSET Sources : NextArticle(r, halted)
  <2>1. /\ run[r].halted \in SUBSET Sources
        /\ run[r].halted \cup {SourceOf[run[r].current]} \in SUBSET Sources
    BY <1>0, <1>1, CollectionAssumption
       DEF RunState, CollectionInv, RunRight, Live, Collects, OnArticle
  <2>. QED
    BY <2>1 DEF FetchFails, PageExcluded, PageTopicless, WindowShut, ClearAttempt, RecordRefusal
<1>6. PICK new : /\ new = [run[r] EXCEPT !.stage = "fetching", !.waited = FALSE,
                                         !.current = Null, !.halted = halted]
                 /\ run' = [run EXCEPT ![r] = new]
  BY <1>5 DEF NextArticle
<1>7. new \in RunState
  BY <1>0, <1>6 DEF RunState, Stages
<1>8. /\ new.stage = "fetching" /\ new.age = run[r].age /\ new.drained = run[r].drained
      /\ new.todo = run[r].todo
  BY <1>0, <1>6 DEF RunState
<1>9. /\ object' \subseteq Articles /\ severed' \subseteq Articles /\ faults' \in 0 .. MaxFaults
      /\ RowsRight'
  BY <1>2 DEF CollectionInv, TypeOK, RowsRight, ReadableBody
<1>. QED
  BY <1>1, <1>2, <1>3, <1>4, <1>6, <1>7, <1>8, <1>9, ArticleDone

\* An article is refused: the object of a failed insert is taken back or not, the one of a
\* failed put may be there.
LEMMA RefusedStep ==
  ASSUME CollectionInv, NEW r \in Runs,
         ExtractFails(r) \/ PutFails(r) \/ Undo(r) \/ ClearFails(r)
  PROVE  CollectionInv' /\ GivenUp
<1>0. /\ run[r] \in RunState /\ run \in [Runs -> RunState] /\ article \in [Articles -> ArticleRow]
      /\ remaining \in Int
  BY CollectionAssumption DEF CollectionInv, TypeOK, Floor, MaxAge
<1>1. run[r].stage \in OnArticle
  BY DEF ExtractFails, PutFails, Undo, ClearFails, At, OnArticle
<1>2. PICK a \in Articles : a = run[r].current
  BY <1>1 DEF CollectionInv, RunRight, Live, Collects, OnArticle
<1>3. /\ UNCHANGED <<lock, article, content, profile, remaining>> /\ Refused(r)
      /\ attempt' = attempt \/ attempt' = [attempt EXCEPT ![run[r].current] = NoAttempt]
  BY DEF ExtractFails, PutFails, Undo, ClearFails, tables
<1>4. faults' \in 0 .. MaxFaults
  <2>1. faults' = faults \/ Fault
    BY DEF ExtractFails, PutFails, Undo, ClearFails
  <2>. QED
    BY <2>1, CollectionAssumption DEF CollectionInv, TypeOK, Fault
<1>5. PICK new : /\ new = [run[r] EXCEPT !.stage = "refused"]
                 /\ run' = [run EXCEPT ![r] = new]
  BY <1>3 DEF Refused
<1>6. new \in RunState
  BY <1>0, <1>5 DEF RunState, Stages
<1>7. /\ new.stage = "refused" /\ new.age = run[r].age /\ new.drained = run[r].drained
      /\ new.todo = run[r].todo /\ new.current = run[r].current
  BY <1>0, <1>5 DEF RunState
<1>8. ~RecordFailure(r)
  <2>1. attempt' \in [Articles -> AttemptRow] /\ attempt'[a] \in {attempt[a], NoAttempt}
    BY <1>2, <1>3, CollectionAssumption
       DEF CollectionInv, TypeOK, NoAttempt, AttemptRow, Floor, MaxAge
  <2>2. /\ attempt \in [Articles -> AttemptRow] /\ attempt[a].count \in Nat
        /\ Failed(r, a).count = attempt[a].count + 1 \/ attempt[a].status = "none"
        /\ Failed(r, a).status # "none"
    BY DEF CollectionInv, TypeOK, AttemptRow, Failed
  <2>3. RecordFailure(r) => attempt'[a] = Failed(r, a)
    BY <1>2, <2>2 DEF RecordFailure
  <2>4. NoAttempt.status = "none" /\ NoAttempt # Failed(r, a)
    BY <2>2 DEF NoAttempt
  <2>5. attempt[a] # Failed(r, a)
    BY <2>2
  <2>. QED
    BY <2>1, <2>3, <2>4, <2>5
<1>9. /\ object' \subseteq Articles /\ severed' \subseteq Articles /\ severed \subseteq severed'
      /\ \A b \in Articles \ {a} : b \in object' <=> b \in object
      /\ a \in object /\ a \notin object' /\ content[a].status = "active" => a \in severed'
      /\ a \notin object /\ a \in object' => remaining > 0
  BY <1>2 DEF ExtractFails, PutFails, Undo, ClearFails, tables, CollectionInv, TypeOK
<1>10. RowsRight'
  BY <1>0, <1>3, <1>9 DEF CollectionInv, RowsRight, ReadableBody
<1>. QED
  BY <1>0, <1>1, <1>3, <1>4, <1>5, <1>6, <1>7, <1>8, <1>9, <1>10, ArticleDone

\* A write that ends the run, since its answer is lost.
LEMMA RecordLostStep ==
  ASSUME CollectionInv, NEW r \in Runs, RecordLost(r)
  PROVE  CollectionInv' /\ GivenUp
<1>0. /\ run[r] \in RunState /\ run \in [Runs -> RunState] /\ article \in [Articles -> ArticleRow]
      /\ run[r].stage \in OnArticle /\ faults' \in 0 .. MaxFaults
      /\ UNCHANGED <<lock, content, object, severed, profile, remaining>>
      /\ attempt' = attempt \/ RecordFailure(r)
  BY CollectionAssumption DEF CollectionInv, TypeOK, RecordLost, At, OnArticle, Fault
<1>1. article' \in [Articles -> ArticleRow]
  <2>1. PICK a \in Articles : a = run[r].current
    BY <1>0 DEF CollectionInv, RunRight, Live, Collects, OnArticle
  <2>2. ASSUME NEW topic \in PageTopics[run[r].current] \ {"none"},
               article' = [article EXCEPT ![run[r].current].section = topic]
        PROVE  article' \in [Articles -> ArticleRow]
    <3>1. topic \in Sections
      BY <2>1, <2>2, CollectionAssumption DEF Sections
    <3>2. [article[a] EXCEPT !.section = topic] \in ArticleRow
      BY <1>0, <3>1 DEF ArticleRow
    <3>. QED
      BY <1>0, <2>1, <2>2, <3>2
  <2>. QED
    BY <1>0, <2>2 DEF RecordLost
<1>2. PICK new : /\ new = [run[r] EXCEPT !.stage = "ending"]
                 /\ run' = [run EXCEPT ![r] = new]
  BY DEF RecordLost
<1>3. new \in RunState
  BY <1>0, <1>2 DEF RunState, Stages
<1>4. /\ new.stage = "ending" /\ new.age = run[r].age /\ new.drained = run[r].drained
      /\ new.todo = run[r].todo
  BY <1>0, <1>2 DEF RunState
<1>5. object' \subseteq Articles /\ severed' \subseteq Articles /\ RowsRight'
  BY <1>0 DEF CollectionInv, TypeOK, RowsRight, ReadableBody
<1>. QED
  BY <1>0, <1>1, <1>2, <1>3, <1>4, <1>5, ArticleDone

\* A page that gives a body goes on to be stored: extracted, put, inserted or undone.
LEMMA StoringStep ==
  ASSUME CollectionInv, NEW r \in Runs,
         PageArrives(r) \/ PutObject(r) \/ InsertRow(r) \/ InsertFails(r)
  PROVE  CollectionInv' /\ GivenUp
<1>0. /\ run[r].stage \in {"requested", "extracted", "put"} /\ Live(r)
      /\ UNCHANGED <<lock, attempt, severed, profile, remaining>>
      /\ Leased(r) /\ Collects(r) /\ Gone(r) /\ ~Closed(r)
      /\ run[r] \in RunState /\ run \in [Runs -> RunState]
      /\ run[r].current \in Articles \ run[r].todo /\ content \in [Articles -> ContentRow]
  <2>1. /\ run[r].stage \in {"requested", "extracted", "put"} /\ Live(r)
        /\ UNCHANGED <<lock, attempt, severed, profile, remaining>>
    BY DEF PageArrives, PutObject, InsertRow, InsertFails, At, Live, tables
  <2>2. Leased(r) /\ Collects(r) /\ Gone(r)
    BY <2>1 DEF CollectionInv, RunRight
  <2>. QED
    BY <2>1, <2>2 DEF CollectionInv, TypeOK, Collects, Inside, OnArticle
<1>1. PICK a \in Articles : a = run[r].current
  BY <1>0
<1>2. /\ content[a].status # "active" /\ attempt[a].status # "terminal" /\ a \notin run[r].todo
      /\ \A b \in run[r].todo : content[b].status # "active" /\ attempt[b].status # "terminal"
      /\ run[r].todo \subseteq Articles
  BY <1>0, <1>1 DEF Collects, At, OnArticle, RunState
<1>3. faults' \in 0 .. MaxFaults
  <2>1. faults' = faults \/ Fault
    BY DEF PageArrives, PutObject, InsertRow, InsertFails
  <2>. QED
    BY <2>1, CollectionAssumption DEF CollectionInv, TypeOK, Fault
<1>4. article' \in [Articles -> ArticleRow]
  <2>1. article \in [Articles -> ArticleRow]
    BY DEF CollectionInv, TypeOK
  <2>2. [article[a] EXCEPT !.section = "decided"] \in ArticleRow
    BY <2>1 DEF ArticleRow, Sections
  <2>. QED
    BY <1>1, <2>1, <2>2 DEF PageArrives, PutObject, InsertRow, InsertFails, tables
<1>5. PICK stage \in {"extracted", "put", "undo", "stored"} :
        /\ \/ run' = [run EXCEPT ![r].stage = stage]
           \/ run' = [run EXCEPT ![r].stage = stage, ![r].waited = FALSE]
        /\ stage = "put" => PutObject(r)
        /\ InsertRow(r) \/ InsertFails(r) <=> stage \in {"undo", "stored"}
  <2>1. CASE PageArrives(r)
    BY <2>1 DEF PageArrives, InsertRow, InsertFails, At
  <2>2. CASE PutObject(r)
    BY <2>2 DEF PutObject, InsertRow, InsertFails, At
  <2>3. CASE InsertRow(r)
    BY <2>3 DEF InsertRow
  <2>4. CASE InsertFails(r)
    BY <2>4 DEF InsertFails
  <2>. QED
    BY <2>1, <2>2, <2>3, <2>4
<1>6. PICK new \in RunState :
        /\ run' = [run EXCEPT ![r] = new]
        /\ new.stage = stage /\ new.age = run[r].age /\ new.drained = run[r].drained
        /\ new.todo = run[r].todo /\ new.current = a
  <2>1. CASE run' = [run EXCEPT ![r].stage = stage]
    <3>1. PICK new : new = [run[r] EXCEPT !.stage = stage] /\ run' = [run EXCEPT ![r] = new]
      BY <2>1
    <3>2. new \in RunState
      BY <1>0, <3>1 DEF RunState, Stages
    <3>3. /\ new.stage = stage /\ new.age = run[r].age /\ new.drained = run[r].drained
          /\ new.todo = run[r].todo /\ new.current = a
      BY <1>0, <1>1, <3>1 DEF RunState
    <3>. QED
      BY <3>1, <3>2, <3>3
  <2>2. CASE run' = [run EXCEPT ![r].stage = stage, ![r].waited = FALSE]
    <3>1. PICK new : /\ new = [run[r] EXCEPT !.stage = stage, !.waited = FALSE]
                     /\ run' = [run EXCEPT ![r] = new]
      BY <2>2
    <3>2. new \in RunState
      BY <1>0, <3>1 DEF RunState, Stages
    <3>3. /\ new.stage = stage /\ new.age = run[r].age /\ new.drained = run[r].drained
          /\ new.todo = run[r].todo /\ new.current = a
      BY <1>0, <1>1, <3>1 DEF RunState
    <3>. QED
      BY <3>1, <3>2, <3>3
  <2>. QED
    BY <1>5, <2>1, <2>2
<1>7. run' \in [Runs -> RunState] /\ run'[r] = new /\ \A s \in Runs : s # r => run'[s] = run[s]
  BY <1>0, <1>6
<1>8. /\ object \subseteq object' /\ object' \subseteq Articles
      /\ object' # object => remaining > 0 /\ object' = object \cup {a}
      /\ stage = "put" => a \in object'
  BY <1>1, <1>5 DEF PageArrives, PutObject, InsertRow, InsertFails, tables, CollectionInv, TypeOK
<1>9. \/ content' = content
      \/ /\ InsertRow(r) \/ InsertFails(r)
         /\ a \in object /\ object' = object
         /\ content' = [content EXCEPT ![a] = [status |-> "active", rank |-> Cardinality(Stored)]]
  BY <1>0, <1>1 DEF PageArrives, PutObject, InsertRow, InsertFails, Inserted, tables, Collects
<1>10. /\ content' \in [Articles -> ContentRow]
       /\ \A b \in Articles : b # a => content'[b] = content[b]
       /\ content'[a].status # content[a].status =>
            /\ InsertRow(r) \/ InsertFails(r)
            /\ content'[a].status = "active" /\ a \in object'
  <2>1. [status |-> "active", rank |-> Cardinality(Stored)] \in ContentRow
    BY Ranks DEF ContentRow
  <2>. QED
    BY <1>0, <1>9, <2>1
<1>11. TypeOK'
  BY <1>0, <1>3, <1>4, <1>7, <1>8, <1>10 DEF CollectionInv, TypeOK
<1>12. RowsRight'
  <2>1. ReadableBody'
    BY <1>0, <1>8, <1>10 DEF CollectionInv, RowsRight, ReadableBody
  <2>2. ASSUME NEW b \in Articles, content'[b].status = "expired"
        PROVE  b \notin object' /\ remaining' <= 0
    <3>1. content[b].status = "expired"
      BY <1>10, <2>2
    <3>2. b \notin object /\ remaining <= 0 /\ remaining \in Int
      BY <3>1, CollectionAssumption DEF CollectionInv, RowsRight, TypeOK, Floor, MaxAge
    <3>. QED
      BY <1>0, <1>8, <3>2
  <2>. QED
    BY <2>1, <2>2 DEF RowsRight
<1>13. Leased(r)' /\ Live(r)' /\ Drains(r)'
  BY <1>0, <1>5, <1>6, <1>7 DEF Leased, Waiting, Live, Drains, Draining, At
<1>14. ~Closed(r)'
  BY <1>0, <1>6, <1>7 DEF Closed
<1>15. Gone(r)'
  BY <1>14 DEF Gone
<1>16. Collects(r)'
  <2>1. \A b \in run[r].todo : content'[b].status # "active" /\ attempt'[b].status # "terminal"
    BY <1>0, <1>2, <1>10
  <2>2. stage \in {"extracted", "put"} => content'[a].status # "active"
    BY <1>2, <1>5, <1>10
  <2>. QED
    BY <1>0, <1>2, <1>5, <1>6, <1>7, <1>8, <1>14, <2>1, <2>2 DEF Collects, OnArticle, Inside, At
<1>. QED
  BY <1>0, <1>7, <1>11, <1>12, <1>13, <1>15, <1>16, Kept DEF GivenUp

----------------------------------------------------------------------------
(* Time, and the theorems *)

\* Time passes while every run at work awaits a publisher it asked before its deadline, so
\* that the lease loses no more than the run has aged; the ends of use come nearer.
LEMMA TickStep ==
  ASSUME CollectionInv, Tick
  PROVE  CollectionInv' /\ GivenUp
<1>0. /\ lock \in LockRow /\ attempt \in [Articles -> AttemptRow] /\ remaining \in Floor .. Forever
      /\ run \in [Runs -> RunState]
      /\ UNCHANGED <<article, content, object, severed, profile, faults>>
  BY DEF Tick, CollectionInv, TypeOK
<1>1. /\ lock' \in LockRow /\ lock'.holder = lock.holder
      /\ lock.expires > 0 => lock'.expires = lock.expires - 1
  <2>1. PICK left \in 0 .. LeaseMs : left = IF lock.expires > 0 THEN lock.expires - 1 ELSE 0
    BY <1>0, CollectionAssumption DEF LockRow
  <2>2. PICK row : row = [lock EXCEPT !.expires = left] /\ lock' = row
    BY <2>1 DEF Tick
  <2>3. row \in LockRow /\ row.holder = lock.holder /\ row.expires = left
    BY <1>0, <2>2 DEF LockRow
  <2>. QED
    BY <2>1, <2>2, <2>3
<1>2. /\ attempt' \in [Articles -> AttemptRow]
      /\ \A a \in Articles : /\ attempt'[a].status = attempt[a].status
                             /\ attempt'[a].count = attempt[a].count
  <2>1. ASSUME NEW a \in Articles
        PROVE  /\ attempt'[a] \in AttemptRow /\ attempt'[a].status = attempt[a].status
               /\ attempt'[a].count = attempt[a].count
    <3>1. attempt[a] \in AttemptRow
      BY <1>0
    <3>2. PICK next \in Floor .. MaxWait : next = Aged(attempt[a].next)
      BY <3>1, CollectionAssumption DEF AttemptRow, Aged, Floor, MaxAge
    <3>3. PICK row : row = [attempt[a] EXCEPT !.next = next] /\ attempt'[a] = row
      BY <3>2 DEF Tick
    <3>4. /\ row \in AttemptRow /\ row.status = attempt[a].status
          /\ row.count = attempt[a].count
      BY <3>1, <3>3 DEF AttemptRow
    <3>. QED
      BY <3>3, <3>4
  <2>. QED
    BY <2>1 DEF Tick
<1>3. /\ remaining' \in Floor .. Forever
      /\ remaining <= 0 => remaining' <= 0
      /\ remaining' > 0 => remaining > 0
      /\ \A age \in 0 .. RunLimit :
           age + 1 <= RunLimit /\ remaining + age > 0 => remaining' + (age + 1) > 0
  <2>1. MaxAge \in Nat /\ Floor = -MaxAge /\ Floor \in Int /\ Forever \in Nat /\ MaxAge = RunLimit + 1
    BY CollectionAssumption DEF Floor, MaxAge
  <2>2. remaining \in Int /\ Floor <= remaining /\ remaining <= Forever
    BY <1>0, <2>1
  <2>3. CASE remaining = Forever
    <3>1. remaining' = remaining
      BY <2>3 DEF Tick
    <3>. QED
      BY <2>1, <2>2, <3>1, CollectionAssumption
  <2>4. CASE remaining # Forever /\ remaining > Floor
    <3>1. remaining' = remaining - 1
      BY <2>4 DEF Tick, Aged
    <3>. QED
      BY <2>1, <2>2, <2>4, <3>1, CollectionAssumption
  <2>5. CASE remaining # Forever /\ ~(remaining > Floor)
    <3>0. remaining = Floor
      BY <2>1, <2>2, <2>5
    <3>1. remaining' = Floor
      BY <2>5 DEF Tick, Aged
    <3>. QED
      BY <2>1, <2>2, <3>0, <3>1, CollectionAssumption
  <2>. QED
    BY <2>3, <2>4, <2>5
<1>4. ASSUME NEW r \in Runs
      PROVE  run'[r] \in RunState /\ RunRight(r)'
  <2>1. CASE ~Live(r)
    <3>1. run'[r] = run[r]
      BY <2>1 DEF Tick
    <3>. QED
      BY <1>0, <2>1, <3>1 DEF RunRight, Live, CollectionInv
  <2>2. CASE Live(r)
    <3>1. /\ Waiting(r) /\ Leased(r) /\ Drains(r) /\ Collects(r)
          /\ run[r].age \in 0 .. RunLimit /\ run[r].age + 1 <= RunLimit
      <4>1. Waiting(r) /\ Leased(r) /\ Drains(r) /\ Collects(r)
        BY <1>0, <2>2 DEF Tick, CollectionInv, RunRight
      <4>2. run[r].age \in 0 .. MaxAge
        BY <1>0 DEF RunState
      <4>. QED
        BY <4>1, <4>2, CollectionAssumption DEF Leased, MaxAge
    <3>2. PICK age \in 0 .. MaxAge : age = run[r].age + 1
      BY <3>1, CollectionAssumption DEF MaxAge
    <3>a. run' = [q \in Runs |-> IF Live(q) THEN [run[q] EXCEPT !.age = run[q].age + 1,
                                                               !.waited = TRUE] ELSE run[q]]
      BY DEF Tick
    <3>b. run'[r] = [run[r] EXCEPT !.age = run[r].age + 1, !.waited = TRUE]
      BY <2>2, <3>a
    <3>3. PICK new : new = [run[r] EXCEPT !.age = age, !.waited = TRUE] /\ run'[r] = new
      BY <3>2, <3>b
    <3>c. run[r] \in RunState /\ age \in 0 .. MaxAge
      BY <1>0, <3>2
    <3>4. new \in RunState
      BY <3>3, <3>c DEF RunState
    <3>5. /\ new.stage = run[r].stage /\ new.todo = run[r].todo /\ new.current = run[r].current
          /\ new.age = age /\ new.waited = TRUE /\ new.drained = run[r].drained
      BY <1>0, <3>3 DEF RunState
    <3>6. ~Closed(r) /\ ~Closed(r)'
      <4>1. ~Closed(r)
        BY <3>1 DEF Waiting, Collects, Inside, OnArticle
      <4>2. remaining + run[r].age > 0
        BY <1>0, <3>1, <4>1, CollectionAssumption DEF Closed, Floor, MaxAge
      <4>3. remaining' + age > 0
        BY <1>3, <3>1, <3>2, <4>2
      <4>4. remaining' \in Int /\ age \in Int
        BY <1>3, CollectionAssumption DEF Floor, MaxAge
      <4>. QED
        BY <3>3, <3>5, <4>1, <4>3, <4>4 DEF Closed
    <3>7. Leased(r)'
      <4>1. lock'.expires = lock.expires - 1
        BY <1>0, <1>1, <3>1, CollectionAssumption DEF Leased, LockRow
      <4>. QED
        BY <1>0, <1>1, <3>1, <3>2, <3>3, <3>5, <4>1, CollectionAssumption
           DEF Leased, Waiting, LockRow
    <3>8. Drains(r)'
      BY <3>1, <3>3, <3>5 DEF Drains, Draining, Waiting, At
    <3>9. Gone(r)'
      BY <3>6 DEF Gone
    <3>10. Collects(r)'
      <4>1. new.todo \subseteq Articles
        BY <3>4 DEF RunState
      <4>2. CASE run[r].stage = "discovering"
        BY <3>3, <3>5, <3>6, <4>2 DEF Collects, OnArticle, At
      <4>3. CASE run[r].stage = "requested"
        <5>1. /\ new.current \in Articles \ new.todo
              /\ attempt'[new.current].status # "terminal" /\ content'[new.current].status # "active"
              /\ \A a \in new.todo : content'[a].status # "active" /\ attempt'[a].status # "terminal"
          BY <1>0, <1>2, <3>1, <3>5, <4>1, <4>3 DEF Collects, OnArticle, At
        <5>. QED
          BY <3>3, <3>5, <3>6, <4>3, <5>1 DEF Collects, OnArticle, At
      <4>. QED
        BY <3>1, <4>2, <4>3 DEF Waiting
    <3>11. Live(r)'
      BY <2>2, <3>3, <3>5 DEF Live
    <3>. QED
      BY <3>3, <3>4, <3>7, <3>8, <3>9, <3>10, <3>11 DEF RunRight
  <2>. QED
    BY <2>1, <2>2
<1>5. TypeOK'
  <2>1. run' \in [Runs -> RunState]
    BY <1>4 DEF Tick
  <2>. QED
    BY <1>0, <1>1, <1>2, <1>3, <2>1 DEF CollectionInv, TypeOK
<1>6. RowsRight'
  BY <1>0, <1>3 DEF CollectionInv, RowsRight, ReadableBody
<1>7. GivenUp
  BY <1>2 DEF GivenUp
<1>. QED
  BY <1>4, <1>5, <1>6, <1>7 DEF CollectionInv

\* Every step keeps the invariant, and leaves an article that was given up as it is.
LEMMA CollectionStep ==
  ASSUME CollectionInv, [Next]_vars
  PROVE  CollectionInv' /\ GivenUp
<1>1. CASE UNCHANGED vars
  <2>1. CollectionInv'
    BY <1>1 DEF vars, CollectionInv, TypeOK, RowsRight, ReadableBody, RunRight, Live, Leased, Waiting,
       Drains, At, Closed, Collects, Gone, Stored
  <2>2. GivenUp
    BY <1>1 DEF vars, GivenUp
  <2>. QED
    BY <2>1, <2>2
<1>2. CASE Tick
  BY <1>2, TickStep
<1>3. ASSUME NEW r \in Runs, Step(r)
      PROVE  CollectionInv' /\ GivenUp
  <2>1. CASE Acquire(r) \/ Release(r)
    BY <2>1, AcquireStep, EndStep
  <2>2. CASE Retention(r)
    BY <2>2, PurgeSelectStep, PurgeDeleteStep, PurgeUpdateStep, PurgeEndStep DEF Retention
  <2>3. CASE Discovery(r)
    BY <2>3, DiscoverRequestStep, DiscoveryStep DEF Discovery
  <2>4. CASE Fetching(r)
    BY <2>4, BodiesSelectStep, FetchStep, ProfilingStep, DoneStep, StoringStep DEF Fetching
  <2>5. CASE Storing(r)
    BY <2>5, DoneStep, RefusedStep, StoringStep DEF Storing
  <2>6. CASE Profiling(r)
    BY <2>6, ProfilingStep
  <2>. QED
    BY <1>3, <2>1, <2>2, <2>3, <2>4, <2>5, <2>6 DEF Step
<1>4. ASSUME NEW r \in Runs, PurgeFails(r) \/ Throws(r) \/ RecordLost(r) \/ Killed(r)
      PROVE  CollectionInv' /\ GivenUp
  BY <1>4, PurgeFailsStep, ThrowStep, RecordLostStep, EndStep
<1>. QED
  BY <1>1, <1>2, <1>3, <1>4 DEF Next

\* The invariant.
LEMMA CollectionHolds == Spec => []CollectionInv
<1>1. Init => CollectionInv
  <2>. SUFFICES ASSUME Init
       PROVE  CollectionInv
    OBVIOUS
  <2>1. Idle \in RunState /\ Idle.stage = "idle" /\ Idle.drained = FALSE
    BY CollectionAssumption DEF Idle, RunState, Stages, MaxAge
  <2>2. TypeOK
    <3>1. NoAttempt \in AttemptRow /\ remaining \in Floor .. Forever
      BY CollectionAssumption DEF Init, NoAttempt, AttemptRow, Floor, MaxAge
    <3>2. /\ [holder |-> Null, expires |-> 0] \in LockRow
          /\ [section |-> "absent", rank |-> 0] \in ArticleRow
          /\ [status |-> "absent", rank |-> 0] \in ContentRow
      BY CollectionAssumption DEF LockRow, ArticleRow, ContentRow, Sections
    <3>. QED
      BY <2>1, <3>1, <3>2, CollectionAssumption DEF Init, TypeOK
  <2>3. RowsRight
    BY DEF Init, RowsRight, ReadableBody
  <2>4. \A r \in Runs : RunRight(r)
    BY <2>1 DEF Init, RunRight, Live
  <2>. QED
    BY <2>2, <2>3, <2>4 DEF CollectionInv
<1>2. CollectionInv /\ [Next]_vars => CollectionInv'
  BY CollectionStep
<1>. QED
  BY <1>1, <1>2, PTL DEF Spec

\* The tables and the local states of the runs keep to their columns and fields.
THEOREM CollectionTypeCorrect == Spec => []TypeOK
BY CollectionHolds, PTL DEF CollectionInv

\* The cron and the operator never collect at the same time, whatever they are killed or
\* refused in: no run outlives its lease.
THEOREM OneCollectorCorrect == Spec => []OneCollector
<1>1. CollectionInv => OneCollector
  BY AloneAtWork DEF OneCollector
<1>. QED
  BY <1>1, CollectionHolds, PTL

\* A drain reported complete after the end of use has left neither an active row nor the
\* object of one.
THEOREM DrainCorrect == Spec => []DrainedIsGone
<1>1. CollectionInv => DrainedIsGone
  BY DEF CollectionInv, RunRight, Gone, DrainedIsGone
<1>. QED
  BY <1>1, CollectionHolds, PTL

\* Until its use ends the body of every active row can be read: no purge takes it, and the
\* cleaning up after a failed insert takes only that of a row written behind a lost answer.
THEOREM BodiesReadable == Spec => []ReadableBody
BY CollectionHolds, PTL DEF CollectionInv, RowsRight

\* An article whose attempts are used up is never asked for again.
THEOREM GivenUpCorrect == Spec => GivenUpStays
<1>. DEFINE Stays == \A a \in Articles : attempt[a].status = "terminal" =>
                       attempt'[a].status = "terminal" /\ attempt'[a].count = attempt[a].count
<1>1. CollectionInv /\ [Next]_vars => [Stays]_vars
  BY CollectionStep DEF GivenUp
<1>. QED
  BY <1>1, CollectionHolds, PTL DEF Spec, GivenUpStays
=============================================================================
