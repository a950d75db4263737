# AgendaFrame: a TLA+ verification of its site

AgendaFrame collects article metadata and bodies from Korean news outlets, groups
articles into issues, compares how outlets frame them, and publishes daily snapshots.
`site/` is the deployed service (a Cloudflare Worker over D1 and R2 with a Next.js UI);
`src/backend`, `src/crawler` and `src/ai` are a Python batch with a GCP orchestration.

This directory models the parts of the site whose correctness depends on the order of
steps: what several invocations of the worker do to shared tables between two `await`s,
when an invocation is killed, when the answer of a committed statement is lost, when a lease
expires under its holder, when a browser takes answers in any order; and, over bounded inputs,
the analyses and derivations whose parts must agree with each other. It contains the models, the TLC
configurations that check them on small instances, and TLAPS proofs for instances of every size.

1. Inventory of the system
2. Modules and how they correspond to the code
3. Modelling conventions (steps, time, lost answers, tokens, history)
4. The runs: questions, bounds, results
5. Liveness and the fairness it assumes
6. What is proved, from which assumptions, along which argument
7. Where code and documents disagree
8. What is only model-checked, and what is not modelled

Paths are relative to the repository root; `worker/` stands for `site/worker/`.

## 1. Inventory

| component | state it keeps | operations | status |
|---|---|---|---|
| durable job queue `worker/durable-jobs.mjs` | `durable_jobs`, `durable_job_dead_letters` | enqueue, acquire, renew, checkpoint, complete, fail, recover, redrive, cancel | modelled |
| publication outbox `worker/publication-outbox.mjs` | `publication_outbox_events`, `publication_delivery_receipts` | enqueue, claim, record delivery, mark failure, recover, reconcile | modelled |
| analysis runs `worker/runtime.mjs` | `analysis_runs`, issues | analyse a date, deliver, roll back | modelled |
| scheduled operations `worker/operations.mjs` | none of its own | the minute's job over queue and outbox, in three checkpointed phases | modelled |
| imports, full texts, administrator's page `worker/runtime.mjs`, `app/admin/admin-client.tsx` | article tables, observations, `article_contents`, R2; the page's state | import, observe, discover, analyse on demand, upload, collect, purge, choose; file, period, pages | modelled |
| quality review `worker/runtime.mjs`, `app/admin/quality-review.tsx` | reviews, flags; the desk | open, edit, save | modelled |
| collection runs, bodies, retention `worker/collection-run-lease.mjs`, `content-retention.mjs`, `authorized-body-collector.mjs`, ... | lease, articles, attempts, content rows, R2 objects, profiles | lease, purge, discover, persist, collect, profile | modelled |
| community `worker/community.mjs`, `community-feed.tsx` | comments, reports, reactions, limits; posts in the browser | comment, react, report, moderate; load, post, reply | modelled |
| dashboard `app/agenda-dashboard.tsx` | the component's state, requests in flight | choose, retry, open, filter, more, refresh; every answer | modelled |
| evidence chat `worker/evidence-chat.mjs` | none | answer a question | modelled |
| public reading `worker/runtime.mjs` | none; the reader's cache | dates, lists, issues, articles | partly: not the counting endpoints |
| analysis engine `worker/analysis.mjs`, `framing-engine.mjs` | none | events of a day, profile of an article, comparison of an issue | partly: not morphology, language-model provider, numeric scores |
| initial-five publication and pages `site/lib`, `worker/initial-five-api.mjs`, `app/` | pointer, files, caches | resolve a snapshot, build the five, summarise, synthesise, answer, derive views | partly: not rendering |
| extraction, collection status, limits, routing `worker/` | none that outlives a request | HTML to text, counts, routing | not modelled |
| Python batch, its orchestration, models and crawler text `src/` | per-article state, snapshots, pointer | batch stages | not modelled |
| tooling, evaluation, infrastructure, assets | none at run time | | not modelled |

**How they interact.** A cron tick starts `runScheduledAgendaFrame` (`content-retention.mjs`): it takes
the collection lease, purges expired bodies, discovers and stores articles, analyses them
and runs `runScheduledOperations`. `handleAnalyze` writes a run row, then
one batch per issue holding the issue and its outbox event, then marks the run a success.
`runScheduledOperations` recovers the queue, enqueues the minute's job, acquires a job and in its
three phases recovers the outbox, reconciles it and delivers a batch; a delivery reads the run of its issue before it records.
Public reads serve the latest `success` run of a date, in several queries. Administrators import, upload texts, review,
redrive and cancel jobs and roll runs back. The pages of the five issues read a snapshot a publisher leaves at a pointer.
Nothing but D1 statements and batches is atomic, and cron ticks, requests and retries overlap.

**What is hard, and what makes each part correct.**

* *Queue.* Leases expire under live holders; every read-then-write (fail, recover, redrive) races the
  others; overlapping runs of one minute share the owner name; the attempt budget is compared in three places. Correct: a
  lease is ended early by its holder only; waiting jobs have budget left; dead-lettered jobs and open audit rows match one to one;
  a holder knows the checkpoint it builds on; every job settles.
* *Outbox.* The same with batches under one token, receipts that must outlive everything, and two
  tables that a restore or a repair by hand may have left in disagreement. Correct: delivered means receipted; nothing is
  resent after its receipt; two publications of one version are never both owed; a worker is not told that another's delivery was
  its own; every event settles.
* *Analysis runs.* Events commit before their run is a success; the catch block writes `failed` whatever the status has become;
  a rollback is three statements. Correct: a public snapshot is whole; an issue is not announced before its run was public; ended runs stay ended.
* *Collection.* R2 and D1 are written in two steps, each of which may fail, while a purge runs; a deadline, not a fence, keeps a run
  inside its lease; an insert whose answer is lost is cleaned up like one that failed. Correct: one collector; after a complete drain nothing is left; until then
  every active row can be read unless that clean-up severed it; a spent article is left alone; a body that can be analysed is, unless as many older ones as a run selects never are.
* *Intake.* Handlers are chains of batches that break off between two and overlap; discovery inserts into `articles` as imports do, and the collector stores texts under the
  key an upload uses. Correct: links, placements and analyses agree with the articles; a text
  and its row go together; the administrator's page says done only when it is.
* *Community and review.* Limits are read, then written absolutely; reports, moderation and saves cross. Correct: counts are exact, hidden stays hidden to
  readers, a written post is somewhere, verdicts and flags come from one save.
* *Reading.* An issue is read in several queries and then cached while runs finish and rights end; the article list pages by
  offset over a moving table; the dashboard's lists take every answer. Correct: what is quoted was held and of the sample; a
  stable article is not skipped; detail and lists fit what is selected.
* *Analyses and derivations.* The same fact is computed in several places. Correct: a difference rests on outlets' own words, an event keeps
  unlike articles apart, pages that show one thing twice agree.

`PROJECT.json` lists each hazard at its line with the properties that cover it, or why none does.

## 2. Modules

| module | stands for |
|---|---|
| `JobLifecycle`, `PublicationPromise` | what queue and outbox promise: phases and tries, with no lease, clock or identifier |
| `DurableJobs` | every state-changing operation of `durable-jobs.mjs` |
| `PublicationOutbox` | every state-changing operation of `publication-outbox.mjs`, for one destination |
| `AnalysisPublication` | analyses, rollbacks and the delivery loop around the outbox, whose operations it calls |
| `ScheduledOperations` | `runScheduledOperations`, calls of queue and outbox taken as one step each |
| `Collection` | a collection run under its lease, with retention, discovery, bodies and profiles |
| `Imports`, `AuthorizedContent`, `AdminConsole` | imports and analyses on demand; licensed full texts; the administrator's page |
| `Community`, `CommunityFeed` | the community's tables; its page in one browser |
| `QualityReview` | the desks of two administrators and the handler that saves |
| `PublicReading`, `ArticleFeed`, `Dashboard`, `EvidenceChat` | dates, lists and issues; the paged list; the dashboard; the chat |
| `AgendaEvents`, `ArticleProfile`, `FrameComparison` | the events of a day; the profile of an article; the comparison of an issue inside `handleAnalyze`'s loop |
| `ActiveSnapshot`, `ComparisonSummary` | how a page gets its snapshot; the comparison it shows of it |
| `InitialFive`, `EventSynthesis`, `IssueAnswers`, `IssueView` | the five issues built from files; what is told without a comparison; answers on the pages; clusters, layers and report |
| `MCDurableJobs`, `MCPublicationOutbox`, `MCAnalysisPublication`, `MCCollection`, `MCFrameComparison`, `MCAgendaEvents`, `MCActiveSnapshot`, `MCEventStories`, `MCIssueAnswers`, `MCIssueView` | constants for TLC |
| `MCSettling` | queue and outbox, each alone, for liveness |
| `MCSite` | the twenty models that share no variable, each alone in its *scene* |
| `DurableJobsProofs`, `PublicationOutboxProofs`, `CollectionProofs`, `WorkerProofs`, `IntakeProofs`, `AnalysisProofs`, `ReadingProofs`, `SiteProofs` | theorems, section 6 |

Some correspondences that are not obvious from the names (the map in `PROJECT.json` gives the lines of every definition):

**`DurableJobs`.** `job` and `letter` are the two tables; `worker`, `recovery` and `redrive` are what a
call remembers between two statements. `failJob` is `FailRead`, then `FailRetry` or `FailTerminal`;
`recoverExpiredLeases` is `RecoverRead`, then one batch `RecoverWrite` in which each row is guarded by the token and
expiry that were read; `adminRedrive` is `RedriveRead`, then the batch `RedriveWrite`. A rejected call changes nothing
and ends the worker's run (`Abandon`).

**`PublicationOutbox`.** A receipt is kept under the event it acknowledges with a flag telling whether key, destination and payload
hash match. `ClaimDue` is one batch under one token, oldest first, cut at `Limit`. `InsertReceipt` and `MarkDelivered` are not
operations of the code: they are the two disagreements that the reconciliation tests of `site/tests/publication-outbox.test.mjs` (333, 392) produce
by hand; constants bound whom they may hit.

**`AnalysisPublication`.** `WriteIssue` is the per-issue batch and contains the outbox's `Enqueue`;
`Deliver` contains `RecordDelivery`. An error in the delivery loop leaves it, as in the code, and the remaining claims wait for their expiry.

**`Collection`.** A run is a `stage`; time passes only while a publisher is awaited. A kill or a failed call at any `await` spends one of
`MaxFaults`. `remaining` is the distance to the end of the window of use. `InsertFails` leaves the row unwritten or written with its answer lost; `Undo` deletes the
object in both cases (`authorized-body-collector.mjs:171-178`), and `severed` remembers the rows that stay active without one. `ReadableBody` exempts these and no other, `EveryBodyProfiled` too.

**`Imports`.** `call` holds what a request still has to write; each handler is its chain of batches. A discovery (`DiscoverArticles`) brings articles too, without looking for earlier
observations: those are `stranded` until an import links them. `AuthorizedContent`: an upload is look up, put, record; the purge is select, delete, mark; a collection is put, insert and, when the
insert fails or its answer is lost, the deletion of the object, which may be one an upload has put under the same key. They share no lock; `parted` names the texts two of them crossed on.
`Collection` follows a run of the collector through its articles, `AuthorizedContent` one text at a time between collector, uploads and purge.

**`CommunityFeed`.** A write of the browser's storage may be swallowed and a read may find nothing it can parse (`community-feed.tsx:20-35`): `Store` and `ReadHere` choose. `dropped` remembers the
posts lost so, and `PostKept` exempts these and no other.

**`ArticleProfile`.** A text is a row of tokens: names, words, marks of quotation, signs that end a sentence, breaks. `Segmented` cuts it as `splitSentences` does, and `Quoted` finds only the
quotations that have both marks in one sentence. A quotation of several sentences is therefore cut (`framing-engine.mjs:381-388`, 438-444) and its words are `journalist_narration` unless the sentence they are left in names who reports them,
although the profile says of itself that what sources say is not added to the outlet's account (`취재원에게 귀속된 발언은 언론사의 서술·입장으로 합산하지 않습니다.`). `OwnWordsOnly` holds of the quotations no end of a sentence cuts.

**`FrameComparison`.** Evidence is one per item of an article, as in `buildAxis`, before it is cut at `EvidenceCap`; an article may bring one pattern in several passages. A dimension the model marked
`conflicting` tells nothing (`narrativeSignature`).

**`ComparisonSummary`, `InitialFive`.** The comparison counts an item with words and a whole place, paragraph and sentence (`analysis-summary.ts:253-258`, 302-303); the page of layers asks for half a place and
no words (`semantic-analysis-pages.tsx:222`, 470). Both tests are in the model; that the pages count alike is claimed of articles that are `PlainlyTold` only. The number of articles an issue declares is read as
declared, which nothing validates: `CommonGround` and `ManifestRow` go by it, the bundle by the articles it has, and `ManifestKept` claims one status for both only where the two numbers agree.

**`PublicReading`.** `view` is one reader's request (scope, rows, render), then the cached answer. `ArticleFeed`: a page is two
statements, the count and the rows at the offset of its cursor. `Dashboard`: `board` is the state of the component, `asked` its
requests in flight; only the detail request is cancelled, and a handler goes on after an `await` with the choices of the rendering it began in.

**`EvidenceChat`.** A line of the comparison is the set of its words with the parts that bear it; the answer is the first of the lines
sharing most words, with the first `EvidenceShown` references of its parts.

**Mutations.** A definition marked `Fault:` is what a plausible bug would make of another. No
specification uses it; `PROJECT.json` pairs each property with one that must violate it, which shows that the property can see the code it is about.

## 3. Conventions

* **Atomic step.** One D1 statement, or one `db.batch`, or one R2 call, is one action. Between a SELECT and the write that relies on it
  anything may happen. Every SQL guard is in the action.
* **Time** in queue, outbox and collection is relative: the present is 0, each stamp is its distance from it, and `Tick` lowers all stamps
  by one. A stamp that is past for every caller stays at `Floor`, so the state space is
  finite without stopping the clock. A caller binds `now` before its statement reaches D1: `now` is any reading in
  `-Lag..0`, and `Lag < LeaseMs` (leases are 60 s; a D1 call does not take that long).
* **Lost answers.** A statement may commit and the caller see an error: it goes to its catch block while the row has changed.
* **Crashes.** An invocation can end at any `await`: `Abandon`, `RecoverCrash`, `EndBatch`, `SweepEnds`, `Crash`, `CutShort`, ...
* **Generated ids** never repeat one in use; the letters of one batch are distinct.
* **Shared names.** The MC modules give every worker the same owner or worker id, the harder case.
* **Data.** A text is a set of the words, signs or rules its patterns find, in `ArticleProfile` a row of them; a hash is the article whose sentence it is; an ordering is
  the order of the numbers. Parsing and validation are modelled by which rows they let through.
* **History variables** (`everPublic`, `severed`, `spent`, `overlap`, `raced`, `overtaken`, `stranded`, `loose`, `parted`, `doubled`, `steady`, `slid`, `crossed`, `strayed`, `blurred`, `written`, `dropped`) record what a
  property needs and no action reads. Where the code really loses something (the object of a row whose insert lost its answer, two first uploads at once, a row that slides past a
  cursor, two first saves of a review, a browser that stores nothing) the property excludes exactly the executions its history marks, and its comment names the line.

## 4. The runs

| run | question | instance | result |
|---|---|---|---|
| `jobs` | do two workers, two recoveries and two administrators keep jobs, letters and checkpoints consistent, and does the queue implement `JobLifecycle`? | one job with two attempts under full contention, or two jobs of different priority in one recovery; lease 3, lag 1 | holds, 251 950 states |
| `outbox` | do two workers of one id, a reconciliation and an operator agree on events and receipts, and does the outbox implement `PublicationPromise`? | 3 publications, 2 of one version, LIMIT 2, drifting receipts, lag 1 | holds, 555 854 |
| `settling` | does every job and every event settle? | 2 jobs; 2 events, one receipted from outside; callers that die anywhere | holds, 59 919 |
| `collection` | do cron and operator, around the end of the window, keep one collector, readable bodies and a complete drain? | 2 runs, 2 articles, 1 fault anywhere, lease 4 | holds, 524 390 |
| `collection_live` | is every found article settled, every body profiled, everything deleted in the end? | 1 run, 2 articles, one of which no engine can analyse, one profile a run, 1 fault | holds, 180 531 |
| `site` | sixteen properties of the twenty components of `MCSite`, each alone | below | holds, 638 613 |
| `jobs_stale_cancel`, `runs_two_rollbacks`, `collection_topic`, `community_reply`, `comparison_cap`, `report_shared` | what a document, test or message of the repository says of the program | small instances | violated, section 7 |

The properties, by what would break them:

* `DeadLetterLink`: a failure racing a recovery, a batch that buries several jobs, two redrives of one job. `NoStrandedJob`: the three
  comparisons of the budget disagreeing. `HolderKnowsCheckpoint`: a stale worker writing a checkpoint. `LeaseHonoured`, `ClaimHonoured`: a
  recovery that ignores a renewal. `DeadLetterAudit`: a letter redriven twice or for another's job.
* `DeliveredOnEvidence`, `WaitingHasBudget`, `OneHolder`, `SuccessIsOwn`: receipts that drift, off-by-one between `markFailure` and the recovery, workers that share an id, a late
  delivery mistaken for the other worker's. `ImplementsLifecycle`, `KeepsPromise`: the refinements.
* `OneCollector`, `DrainedIsGone`, `ReadableBody`, `GivenUpStays`: a run past its deadline, a failure inside a drain, a purge that takes a live object or a clean-up that takes another's.
* `SnapshotWhole`, `DeliveredWasPublic`, `EndedStays`: a success before its last issue, a delivery that overtakes the run or takes one that failed unpublished for public, a catch block that writes over a rollback.
* `LimitKept`, `ReportsCounted`, `ReadersHide`, `PostKept`, `ReviewWhole`, `CheckpointKept`: counters written absolutely, a report that shows a comment again, a refused post kept
  nowhere, two administrators saving at once, a checkpoint for a phase a dead run never did.
* `BroughtInWhole`, `AnalysisKept`: handlers that break off between two batches; a failure written over a finished analysis.
* `ComparisonFounded`, `AnalysesSound`: differences out of sources' words, narratives that contradict each other, a date refused below the cap of evidence, articles of two events in one, a quotation held for the outlet's own words though no
  end of a sentence cuts it, a profile the engine itself refuses.
* `PublicReadsFaithful`, `PagesFaithful`: quotes whose right ended, a sample that leaks, skipped articles, a detail of another issue, an answer without evidence, a count of
  profiles no bundle holds, pages that disagree.

**Why the bounds are enough.** Two attempts are the smallest budget with a first, a retried and a last attempt.
A lease of 2 or 3 ticks with lag 1 has room for a renewal before expiry, for a stale reading on either side of it, and for a
take-over while the old holder still acts. Tokens outnumber the claims that can be remembered at once. Two callers of every kind give every
pairwise race; batches need a second row. `MaxVersion`, `MaxRedrives`, `MaxDelay`, `MaxFaults`, `MaxReceived`, `MaxLoads`, `Saves`, `UploadCalls`, `BoardActs`, `FeedChanges`, `ConsoleActs`,
`PointerMoves`, `FileWrites` only cut counters that the code leaves unbounded and no guard compares; section 6 holds for all their values.
`Crowd` in `jobs` keeps the product of two jobs with all callers out: two jobs meet only in a recovery's batch, contention needs one.
Tables of the code that two of them write (`articles` by imports and discoveries, `article_contents` and R2 by uploads and the collector) are in one model together with both writers, in
`Imports` and `AuthorizedContent`, while the community's page and scheduled operations take the server, the queue and the outbox as the steps of their calls; the scenes of `MCSite` share no variable, so the behaviours of the product are the interleavings of the components', and
checking each alone loses nothing. Their sizes: publish 117 000 states, imports 111 000, dashboard 105 000, reading 75 000, texts 41 000,
operations 30 000, review 27 000, community 26 000, events 22 000, five 17 000, console 17 000, stories 16 000, framing 9 000, snapshot 8 000, feed 7 000, answers 5 000, articles 4 000,
views 3 000, profiles 2 000, chat 32. The last ones are functions of their inputs: the inputs enumerated are the bound, chosen so that every branch and every tie occurs.
Symmetry is declared only for sets whose members no CHOOSE and no constant distinguishes, and never in a liveness run.
Where `CHECK_DEADLOCK FALSE` is set, a bounded number of calls or a function of its input really ends.

## 5. Liveness

`settling` assumes, for queue and outbox: time passes; the schedule keeps starting runs, so a free worker that could
acquire or claim eventually does, a recovery is started and a reconciliation inspects; a run ends, if only because the
platform kills it (weak fairness of the disjunction of the ways it can end, never of success); and not every
recovery or reconciliation dies between its read and its batch (strong fairness, since each try is a new read). The justification is the cron trigger
(`worker/index.ts`, `scheduled`) and `operations.mjs`, which recovers on every tick. No worker need succeed and no administrator need act.
The fairness of each system is owed in its own scene only. Under it `EveryJobSettles` and `EveryEventSettles`; the second covers an event whose
receipt arrives behind its worker's back, which claims and recovery skip and only the reconciliation settles.

`collection_live` assumes that runs take their steps (weakly fair: a step may be a failure or the kill, and `MaxFaults` bounds how often) and that time passes:
`SF(Tick)`, because time is enabled only while a publisher is awaited or nobody works, so it is never continuously enabled. Under it
`EveryArticleSettles` (stored, excluded or given up, unless the window ends), `EveryBodyProfiled` and `RetentionEnds`. A failed analysis is not recorded and the oldest rows are selected
first (`stored-body-analysis.mjs:74-75`), so `EveryBodyProfiled` exempts a body with as many older ones that never get a profile as a run selects (`Starved`). The run has one such body and a limit of one: the younger body does starve behind it
and is exempt, the same body in front of it gets its profile.

There is no such result for analysis runs: a run whose handler is killed stays `running`, and nothing takes it up. `SnapshotWhole` shows it never becomes public.

## 6. Proofs

All theorems hold for every value of the constants that satisfies the named assumption of the component's module. The assumptions say
that constants have their types, that null values are none of the values they stand beside, that a statement arrives within a lease, that a run's deadline lies
within its lease, and for the composition that nobody edits the outbox by hand. Sets are finite where the code counts them. TLC evaluates
them in the runs.

What the analyses and pages read is any value of the shape their source gives it: `DayRead`, `CorpusRead`, `TextRead`, `EnvelopeRead` with `BundleRead`, `StoryRead`, `CodingRead`, `AskRead`. Beyond
shapes these say what the reader or the writer of the data enforces: an analysis has one result per layer and at most one profile per article, a profile quotes
only its own article, a row that names an article quotes that one, no article has the id 0, the ranks of an issue file differ and its articles are finitely many. Of the engine's tables they say
that a rule belongs to one dimension, that the policy frames are not the generic ones, and that the two device codes the engine adds by itself are not among those of its patterns. The panel has at most the 22 outlets and
21 media groups of the registry, and a logarithm of a positive number is positive.

| theorem | establishes |
|---|---|
| `DurableJobsProofs`: `TypeCorrect`, `JobsNeverStranded`, `LettersMatchJobs`, `HoldersKnow`, `LeasesHonoured`, `LettersAudited`, `LifecycleImplemented` | every property of the run `jobs`, the refinement of `JobLifecycle` included |
| `PublicationOutboxProofs`: `TypeCorrect`, `EvidenceHeld`, `BudgetHeld`, `ExclusiveClaims`, `SuccessesOwn`, `ClaimsHonoured`, `PromiseKept` | every property of the run `outbox`, the refinement of `PublicationPromise` included |
| `PublicationOutboxProofs`, second part: `UsesOutbox`, `AnalysisTypeCorrect`, `PublicSnapshotsWhole`, `DeliveredOnlyPublic`, `EndedRunsStay` | the composition takes outbox steps only; its three properties |
| `CollectionProofs`: `CollectionTypeCorrect`, `OneCollectorCorrect`, `DrainCorrect`, `BodiesReadable`, `GivenUpCorrect` | every property of the run `collection` |
| `WorkerProofs`: `CommunityTypeCorrect`, `ReportsCorrect`, `LimitCorrect`, `HiddenCorrect`, `PostsKept`, `QualityTypeCorrect`, `ReviewsWhole`, `OperationsTypeCorrect`, `CheckpointsKept` | community, its page, review, scheduled operations |
| `AnalysisProofs`: `ComparisonsFounded`, `ComparisonTypesHold`, `EventTypesHold`, `EventsAreSound` | the comparison of an issue and the events of a day, each of its own specification |
| `SiteProofs`: `BroughtInCorrect`, `AnalysesKept`, `ReadsFaithful`, `AnalysesAreSound`, `PagesAreFaithful`, `SiteTypesHold` | every property of the run `site` that has no row above, `SiteTypeOK` included, of `SiteSpec`, from the invariants in `IntakeProofs`, `AnalysisProofs`, `ReadingProofs`, `WorkerProofs` and `PublicationOutboxProofs` |

*Queue.* `TInv` adds to the types that a busy worker names a job and a token; `SInv` adds `NoStrandedJob` and
`DeadLetterLink`. For the latter the recovery batch is the hard step: rows are guarded one by
one, but the letters of one batch must be fresh and distinct, or two jobs share one. `RowStep` says what a step may do to one row (`Same`, `Arrives`, `Taken`, `Ended`,
`Withdrawn`, `Requeued`), one lemma per action; the refinement and `LeaseHonoured` follow from it, the refinement with `Untried` (a job never enqueued was never tried), since `Submit` must keep
its tries at 0. `LetterStep` does the same for audit rows. `HolderKnowsCheckpoint` needs `HInv`: a token is known to one worker
(`OwnTokens`, from the freshness of tokens), and a holder knows its version or, after a call that threw, an older one (`Knows`).

*Outbox.* Every action does one of six things to each row (`Untouched`, `Queued`, `TakenUp`, `PutBack`, `Dropped`,
`Acked`: `RowStep`) and at most inserts a receipt (`ReceiptStep`); the invariant `IInv` and the refinement
are proved from these alone. `OneHolder` needs tokens to be fresh at a claim and that a worker drops an event from its batch only
when it is no longer claimed (`WorkerStep`). The refinement needs `AbsentUntouched` and the budget. `SuccessIsOwn` needs `OpenByHand`: the receipt of an event still open is an operator's, because
a delivery writes its receipt in the batch that settles the event.

*Composition.* `OutboxStep` maps every action to an outbox step or a stutter, which makes every outbox theorem available. `DeliveredWasPublic` is not inductive:
the run's status is read before the delivery is recorded and may change between. The invariant adds that every run a delivery has found ready is in `everPublic`,
the runs whose UPDATE to success was executed; a run never leaves it, whatever the catch block or a rollback writes afterwards.

*Collection.* `CollectionInv` says of a run at work that it holds the lease with as much of it left as its age allows (`Leased`: `OneCollector` follows because time passes only
before the deadline), that what is purged is past its use and, unless a full batch or a failure left rows, all there is (`Drains`), and that it collects inside the window only and only what it
may (`Collects`). `RowsRight` ties rows to objects; a clean-up after a failed insert takes an object of an article without an active row, or the row is `severed`.

*Worker.* `LimitKept` needs `SeenCounts`: what a request counted is what was let through as long as no other request of the reader is under way (`Alone`). `ReportsCounted` compares a
number with the cardinality of a set that grows by one. `PostKept` needs that a text the tables took is held until the composer
learns of it, and that what a browser's storage loses is in `dropped`. `CheckpointKept` needs `RunsAgree`: a run about to save has carried its phase out, and what it knows of its job is true while it holds it.

*Intake.* `ImportsInv` states what each request in flight still owes (links, placements, texts) beside `ImportsAgree`; `ContentInv` says at which step of an upload or of the purge a row and its object may
differ (`UploadSane`, `Crossing`, `CollectorSane`, `TextsInStep`); `ConsoleInv` relates what the page still has to do to what the worker has stored.

*Reading.* `ReadingInv`: rows chosen for rendering were held when the reader asked and are of the sample, and what is shown is not older than the cache
allows. `FeedWalkInv`: no steady article lies before the cursor unseen, and a page's count covers the list; the steps rest on counting the articles
ahead of one (`PlaceCounts`, `PlaceInList`), proved with cardinalities. `BoardInv`: each request in flight was asked for what is selected unless it was cancelled or crossed by a later one. `ChatInv`: the answer is a line with evidence,
and of the parts of a comparison each is a line (`LinesRight`); that references are cited rests on the earliest mention of one (`FirstRefsKept`).

*Comparison.* `ComparisonInv`: the comparisons decided so far are those of the first issues of the day read, each `Founded` in the profiles of its issue, and the run has failed only at an
issue with a pattern of more items than the cap keeps as evidence (`OnlyBeyondCap`); the cut is of a sequence of items, and where it is no shorter than they are every outlet has one. `Founded` names the conjuncts of `ComparisonFounded` for one comparison; a step appends one, so the
proof is about `Compare` applied to any issue. The clusters of explanations are a function defined over the subsets of an issue's articles: that such a function exists and is unique is proved for finite
sets by their well-foundedness (`GrownExists`, `GrownUnique`), and what is asked of clusters is then shown for the smallest subset that could break it.

*Events.* `EventsInv`: the events partition the articles placed so far (`EventsFormed`); the index lists an event under each token of its articles, unless the entry is full
(`EventsIndexed`); `EventsClean` and `EventsWhole` need exactly these two, since whether an article joins an event is decided with what the index still finds. `CoverageLeads` is arithmetic with truncated
quotients: a media group more is worth at least 476 of 10 000 in diversity when there are 21 (`DiversityGrows`), which outweighs the follow-up reports lost with a further outlet, and `ScoreGrows` carries the weighted sum through the
scaling by the panel's coverage and the rounding.

*Profile.* `ProfileInv` is `ProfileSound` with the article still one of those read and its sentences those `Segmented` cuts; the work is in what `analyzeArticle` returns. The sentences are disjoint rows of tokens between two ends, so an
uncut quotation lies in one of them and `Quoted` finds it; sources named and counts that add up to the sentences counted follow from the dimensions.

*Pages.* `FiveInv`: the manifest was made of the files as they were when it was built (`EarlyFile`), though files are written and read again behind it. `SynthesisInv`, `ViewInv`: what is shown is what is derived
from the bundle or from the files. `SnapshotInv`: a page served came whole from its source, and the summary is of a bundle read. `AnswersInv`: every answer is right for its bundle (`AnswerRight`),
and each request of the last window has a place of its own among the times the handler kept (`Remembered`, `Fresh`), which is what makes `AskLimit` bind although the handler drops old times.
Lists are selected, ordered and concatenated by `Chosen`, `InOrder`, `Sorted` and `Along`, which say what the resulting sequence is instead of computing it by a fold, so that the provers can reason about them.

*Site.* `SiteSteps`: a step of `MCSite` is a step of one component and leaves the others alone; so the component invariants hold together (`SiteInv`) and each
scene's property follows. `SiteRunsComponents`: a behaviour of the site is one of each component with a specification of its own, so its theorems apply.

*What attempts to prove have shown.* Each was a property TLC had found no counterexample to, because its instance was too small to hold one, and the statement was corrected. `CoverageLeads` had to compare the outlets too, and to ask for three articles: reports by which an outlet follows up on its own weigh as well, so that of
two events with as many articles the one with more media groups may rank lower if its further outlets outnumber its further groups, which no day of six articles shows.
The groups a summary shows are ordered by weights 100, 10, 2 and 1 (`analysis-summary.ts:730`): many articles of one outlet can outweigh a further outlet, so that every outlet is shown
holds for at most 30 articles (`MostArticles`). That a comparison is of the layer it names needs one result per layer. A pattern row that names no article quotes the first article of its pattern (`rule-answers.mjs:78`),
which the condition on names had to allow.

Data induction is avoided throughout: where a least or a greatest number of a set is needed it is found by well-foundedness of
finite subsets (`LeastOf`, `GreatestOf`), and orders are counted by cardinalities rather than by recursion.

## 7. Where code and documents disagree

* `jobs_stale_cancel`. `cancelJob` with a lease compares it only for a running job; for a waiting one (`durable-jobs.mjs:973`)
  it compares nothing and skips the administrator check. A worker whose lease was recovered cancels the job that waits for its retry, while
  `site/tests/durable-jobs.test.mjs:633` says of the service that it "rejects stale owners".
* `runs_two_rollbacks`. `handleAnalysisRollback` does not compare the fallback again when it updates (`runtime.mjs:3422`). Two
  rollbacks of the two successful runs of a date both pass and leave it without a public snapshot, while `site/docs/public-api-contract.md:99`
  says a run is rolled back only if the date has a previous successful snapshot. The run excludes lost answers: the two rollbacks alone suffice.
* `collection_topic`. A later discovery puts a section the article's page has decided back to `pending` (`discovery-store.mjs:123`), while
  `src/docs/architecture/news-collection-activation.md:37` says the page confirms it.
* `community_reply`. A reply to a post of the server that is refused is stored nowhere (`community-feed.tsx:257`), while the notice says it was saved in this browser (322).
* `comparison_cap`. Articles that bring more items of one published pattern than the eight the engine keeps as evidence (`framing-engine.mjs:1013`) - nine articles, or fewer that repeat it - break the
  contract `handleAnalyze` asserts of its own comparison (`runtime.mjs:3074`) and fails the analysis of the whole date.
* `report_shared`. The report says all outlets explain a layer alike when one of them explains it at all (`report/page.tsx:9`), against
  `docs/feedback/2026-08-05-framing-method.md:74`: what is not observed is no statement.

Smaller remarks met while modelling. The clean-up of a stored body whose insert lost its answer leaves an active row without its object, and may delete the object of an administrator's upload. A discovery
that comes after an observation leaves it unlinked until an import. Bodies that never get a profile are selected again before all younger ones, as `news-collection-activation.md:40` says of the missing backoff. The id an upload answers with is wrong when two uploads bring the same text first. A file chosen during an import
is dropped when the import succeeds; the page speaks of 500 rows a batch, the code sends 100. Choosing a category whose list still
holds the selected issue leaves the dashboard's detail blank. "Agreed" in a synthesis may be two articles of one outlet. The chat does not look at the status of an issue's run.
`site/README.md:17` gives weights 45/30/15/10, the code uses 55/25/15/5.

## 8. Limits

*Only model-checked.* Liveness and ENABLED are outside what TLAPS proves, so section 5 rests on TLC. Every other property of a passing run is the statement of a theorem of section 6. That a property
fails (section 7) is shown by TLC's counterexample.

*Assumed.* D1 executes a statement or batch atomically and in some order; R2 is read-your-writes; clocks lag by less than a lease; tokens and ids do not repeat.

*Not modelled.* Numeric scores, morphology and prompts of the engine (of scores the order alone); the language-model provider; payload serialisation and hashing;
validation of parameters and parsing of feeds, CSV and workbooks, except for which rows pass; read-only statistics, coverage and health endpoints, release guard and request limiter (a window per isolate); rendering;
extraction of text from HTML, whose outcome is an input of `Collection`. The Python batch and its GCP orchestration share no state with the site at run time: what they leave at the pointer is an input of `ActiveSnapshot`; two of their hazards are listed
in `PROJECT.json` without a property. More than one outbox destination is left out because rows of different destinations never meet in a statement.
