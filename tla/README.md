# Stocks In Hand: verification project

This directory holds TLA+ specifications of Stocks In Hand (`src/backend`, and the website in `src/frontend`), the TLC
configurations that check them on small instances, and proofs that the TLAPS proof system checks
for every value of the constants. Each module is translated from the source; the file
`PROJECT.json` maps every definition to the lines it stands for.

Contents: [the system](#the-system), [hard behaviours](#hard-behaviours),
[modules](#modules), [what the runs show](#what-the-runs-show),
[bounds](#bounds-and-abstractions), [fairness](#fairness), [proofs](#proofs),
[where code and documentation disagree](#where-the-code-and-its-documentation-disagree),
[not modelled](#what-is-not-modelled), [plan](#plan).

## The system

A scheduled (or manual) request makes a *scrape run* for one company. Lambdas connected by SQS
queues list the company's announcements, store each document in S3, analyse it, and notify the
investors who watch the ticker. A second family of collectors stores news and public discussion
as text and sends it to the same analysis queue. A FastAPI application serves what was stored and
lets investors manage alerts and watchlists. All durable state is in one Postgres database, one
bucket and four queues with a dead-letter queue each.

| Component | State it keeps | Operations | What makes it correct |
|---|---|---|---|
| Run requests (`services/scrape_runs.py`) | `scrape_runs` row per idempotency key | create or reuse, reopen a failed run, send, record the send or its failure | a run reported queued has a message on its way; one discovery per key |
| Discovery (`lambdas/discovery.py`) | artifact rows, `items_found` | list, get or create an artifact, send to Queue B, complete | every document found enters the pipeline once, with the run that found it first |
| Download (`lambdas/download.py`, `raw_documents.py`) | `download_status`, the bucket | start, fetch, put once, mark stored | a stored copy stays; no record is acknowledged before its outcome is durable |
| Document analysis (`lambdas/artifact_analysis.py`) | `analysis_status`, results | reconcile, start, analyse, finish, alert | a document is counted and alerted as analysed only once and only when it was |
| Records and sweep (`crud/scrape_run.py`) | counters and status of runs and artifacts | the `mark_...` transitions, `fail_abandoned_work` | counters agree with the rows; status does not go backwards; nothing stays open |
| Alert delivery (`services/alert_delivery.py`, `crud/alert_delivery.py`, `lambdas/notify.py`) | `alert_deliveries`, a mirror on the subscription | claim, check cap, budget and preferences, send, record | cap and budget under concurrency, one email per alert, no match forgotten |
| Alert subscriptions (`services/alert_subscriptions.py`) | subscription, rule, verification | save, request a link, confirm, unsubscribe | only the newest link verifies, and only its own address |
| Stored text (`services/analysis_queue.py`, `discussion_collector.py`, `marketaux.py`) | artifacts with text, collection runs | collect, store, send, mark queued, requeue, analyse | no text is lost or left queued with no message |
| Summaries, generation (`services/artifact_summary.py`, `services/generation/`) | summary row and metadata | request, shorten, retry, repair, record, read | a prompt fits and a value holds; what is read is what was recorded last |
| Investors, watchlists (`crud/investor.py`, `crud/watchlist*.py`, `api/deps.py`) | profiles, sessions, lists, entries | sign in either way, create or link a profile, add, remove | one profile per identity and email; only owners change a list |
| Email sender (`services/email_sender.py`, `brevo_alerts.py`) | the time of the last send | check, pace, post | sends are spaced; nothing a check refuses is posted |
| Scrapers (`scrapers/`, `lambdas/download_validation.py`) | a browser and its pages | list, fetch, validate | everything opened is closed; an outage is not taken for a changed layout |
| Release tooling (`tools/release.py`, `template_model.py`) | the live stack, plans, change sets | plan, build, apply, review | no deploy undoes what somebody else applied |
| Website (`frontend/src`) | tokens, a request cache, each page's state | request, refresh, page, save, sign in and out | a late answer never shows the wrong page |
| Configuration, quotes, read models, classification, schema | caches at most | reads, pure functions | outside the models, see [below](#what-is-not-modelled) |

Interactions: `request_scrape_run` --Queue A--> discovery --Queue B--> download --S3 event,
Queue C--> analysis --alert queue--> notify. Discovery, download and analysis share the artifact
and run rows; notify shares the ledger with other notify containers and reads subscriptions that
the API changes at the same time. The schedule runs the sweep, which changes rows that a redriven
message may be changing too.

## Hard behaviours

- Each Lambda attempt is several transactions and calls; every pair of steps of two attempts may
  interleave. Values read in one transaction are used in the next.
- SQS delivers at least once. A record comes again after a crash, an exception or a time-out, at
  times to two containers, and after `maxReceiveCount` receives goes to a dead-letter queue, from
  which an operator may move it back.
- S3 announces an object when it is put, before the download stage has recorded it.
- A timed-out Lambda runs no error handler. Whatever it had started stays open until the sweep.
- A send may succeed although its answer is lost; the caller then records a failure.
- A source may list other documents, or serve another content, at the next attempt.
- A verification link may be opened, replaced, expire or be reported unsent while another request
  of the same investor is between its read and its write.
- A text's message is sent before its row is marked queued, and its analysis may be over by then.
- A deploy is planned minutes before it is applied; a reviewer may execute a change set meanwhile.
- The browser gets answers in any order, after the user has moved on.
- A claim of an alert is taken over when it is stale, while its first worker may still run.

`PROJECT.json` lists each hazard with the line where it bites and the properties that cover it.

## Modules

| Module | Models |
|---|---|
| `AlertDelivery` | the notify workers, the ledger, the subscription mirror, the queue; one action per database session or send |
| `AlertPromise` | abstract: each delivery is decided once, within the cap, rollups only in place of capped alerts |
| `AlertDeliveryProofs` | theorems about `AlertDelivery`: claims, limits and the promise; then what is sent, mirrored and never forgotten |
| `MCAlertDelivery` | instances: who watches, which artifacts belong to which run, which records name which artifact |
| `ScrapeRecords` | the row transitions of `crud/scrape_run.py` as functions of the artifact row and the run row |
| `ScrapePipeline` | requests, the three queues, discovery, download, analysis, bucket, sweep, faults and time; uses `ScrapeRecords` |
| `DocumentLife` | abstract: the life of one document, from unknown to read, and its owner |
| `ScrapePipelineProofs` | theorems about `ScrapePipeline`: its tables; then its queues; then its count of failures |
| `MCScrapePipeline` | instances: listings, symmetry |
| `Subscriptions` | the web requests of one investor over the subscription and rule rows, the clock, the links in the mail |
| `ConsentPromise` | abstract: an address is verified only once its holder opened a link sent to it |
| `MCSubscriptions` | instances: symmetry |
| `SubscriptionsProofs` | theorems about `Subscriptions` |
| `StoredText` | collections, news batches and requeues, the send and the mark, analysis, summaries and the sweep over stored posts |
| `TextLife` | abstract: the life of one text, from unseen to analysed |
| `StoredTextProofs` | theorems about `StoredText` |
| `MCStoredText` | instances |
| `Accounts` | requests with their identity, the bootstrap of a profile, sessions, the routers' policies, watchlists |
| `AccountsProofs` | theorems about `Accounts` |
| `MCAccounts` | `Accounts` with three requests, for linking by email |
| `Generation` | one request to a language model: prompt, refusal, rate limit, repair, value |
| `Summaries` | recorders of a summary in two stores and a reader of both |
| `Sender` | threads that send emails through one pacer |
| `Sites` | one listing and one download of an adapter, the browser session it uses, the validation of the bytes |
| `Release` | deploys and rollbacks of one stack, change sets under review, images, the account around them |
| `Website` | requests with tokens, one page of the website: a company, the announcements, the settings, sign-in |
| `WatchlistPage` | the watchlist page's functions, which await one answer after another, and the watchlists the API keeps |
| `WatchlistPageProofs` | theorems about `WatchlistPage` |
| `MCParts` | the eight parts that have no instance of their own (`Accounts` to `WatchlistPage`), one of them per behaviour |
| `PartsProofs` | theorems about the parts of `MCParts` that serve: `Release`, `Sites`, `Generation`, `Summaries`, `Sender` |
| `PeopleProofs` | theorems about the parts of `MCParts` that people meet: `Website`, and `Accounts` and `WatchlistPage` in their slots |

### AlertDelivery and the code

A worker's `pc` names the next session of `deliver_alerts`: `load` (`_load_alert`), `choose`
(the loop over investors and `_deliver_to`), `claim`, `held` (the status read after a claim was
refused), `cap` and `budget` (`_hold_back`), `wanted` (`_still_wanted`), `compose`, `send`,
`record`. `ledger[d]` is the row of one delivery: `<<investor, artifact>>` for an alert,
`<<investor, run>>` for a rollup, the two unique keys of the table. `claim` stands for
`claimed_at`, as the number of times the row was claimed. `stale` and `recent` say on which side
of `ALERT_CLAIM_STALE_MINUTES` and of the 24-hour window a time stamp is. `LeaseHeld` is the
compare-and-set of `record()`. `mail`, `holder`, `at` and `late` are history: no guard of the code
reads them.

### ScrapePipeline and the code

`run`, `art` and `objects` are the two tables and the bucket; the operators of `ScrapeRecords`
are the functions of `crud/scrape_run.py` with the same names. Each of those locks its rows and
commits once, so each is applied in one action. A worker's `pc` is a point between two
transactions or calls of a stage:

| `pc` | discovery | download | analysis |
|---|---|---|---|
| `begin` | mark started | load the artifact | read the facts |
| `list`, `each`, `send` | list; take a document; Queue B send | | |
| `complete`/`each` | mark completed | | |
| `start`, `fetch`, `store` | | mark started; fetch and put; mark stored | mark started (`start`) |
| `reconcile`, `analyse`, `finish`, `alert` | | | verify and mark stored; analyse; mark completed; notify |
| `rejected`, `given up` | record a permanent, or a last retryable, failure | same | same |
| `ack` | the record is deleted | same | same |

`run_stage` is the part all stages share: `Receive`, `Raise` (a retryable error), `Reject` (a
permanent one), `RecordFinal`, `Acknowledge`, `Crash`. A message has a `place` and a receive
count; two identical messages that may be alive together differ in a `slot`. The sweep is a
query per kind of row, followed by one transaction per row found. Documents are numbers in the
order of publication because discovery takes the newest first.

### Subscriptions and the code

A request's `pc` is a point between two transactions of `AlertSubscriptions`: a save reads, then
upserts and commits (one action, since the upsert locks the row), reserves a verification, mails
it and records the result; a confirmation reads the request it names and then compares and sets.
A link is the secret that signed it, the request it names and the mailbox it went to. `opened`,
`lost`, `spell` and `failed` are history.

### StoredText and the code

A collector's `pc` goes through `collect`: start the run, look a post's hash up, insert, link it
to the ticker, send, mark, finish. `AskNews` and `AskRequeue` start at the send. A worker's `pc`
follows `analyse_stored_text`: facts, start, the eligibility note (an unlocked read and a write),
store, close, and `Summarise`. Whether a container's language model is switched on shows only where
a decision is wanted of it: `CannotDecide` is a container with the model off, which notes that and
has its message retried, a model that is on and fails is a `Raise`, and elsewhere a model that is
off leaves what an answer without text leaves. `gaveUp` holds the posts whose message is in the dead-letter queue.

### The parts in MCParts

`MCParts` gives each part its instance in shared slots (`s1` to `s9`); `part` names the one that
runs, and it never changes. The parts share no state in the code either: what one needs of another
is in its module (the pacer's answers are those of Brevo, the prompts are lengths).

- `Accounts`: `req[r].pc` is a point between two queries of a request. The two unique columns are
  `Unique`, applied at each commit. `Concurrent` is what the loser of a race re-reads.
- `Generation`: a prompt is a length around a text; an answer is how its JSON reads, what is wrong
  with it, and which evidence it cites. A `Kind` is a parser's tolerance.
- `Summaries`: a line is its author and its key, so a line in another's place shows.
- `Sender`: `Acquire`, `Slept`, `Post`, `Response` are the sides of `SendPacer.pace` and of the
  request it spaces.
- `Sites`: `call` is the session call an adapter awaits and how it was answered; the actions are
  the handlers of each style of site.
- `Release`: `Plan` reads the stack, `Build` makes images, `Apply` runs `sam deploy` after its own
  checks; `Moved` marks plans that a change after these checks has overtaken.
- `Website`: a request's `pc` is `asked`, `sent`, `refused` or `returned`; `AddToken`, `Serve` and
  `Refused` are `apiFetch`. Each page has the `set...` calls of its component as actions.
- `WatchlistPage`: a task is one call of `loadWatchlist`, `addCompany` or `removeCompany`, or the
  request behind the company list; its `pc` is what it awaits, and `served` says whether the API has
  acted on it yet. `state` is the component's, `lists` the rows of the investor's watchlists.
  `behind` is history: an addition failed with its change made, or functions overlapped.

## What the runs show

Every run finishes within five minutes on two TLC workers. A "violation" run checks one property
that a doc, docstring or comment states and the code does not keep.

| Run | Question | What it shows |
|---|---|---|
| `race` | Two records of one run compete for a cap and a budget of one; a worker may crash, raise, lose an answer, or be slower than `ALERT_CLAIM_STALE_MINUTES`. | Types, cap, budget, the lease, the mirror and the abstract promise hold in every interleaving; a rollup always has a capped alert behind it. |
| `copies` | One record is delivered twice and the investor changes preferences. | No email goes to an investor who no longer wants it; a second email needs a lost answer or a stop after the send. |
| `siblings` | One record for two investors, with two faults and three receives. | One investor's failure never loses the alert of the other, and every claimed or failed row is resolved or its record dies. |
| `documents` | Two documents, a crash and an error anywhere. | A finished run has an outcome for every document; no record is acknowledged before its outcome is durable. |
| `faults` | One document with two contents; a crash, an error, a duplicate and a redrive, each anywhere. | Types, exact counters, no failure missed, and the document's life. |
| `requests` | Two concurrent requests for one or two runs, with an error or a lost answer. | A queued run has a message or a caller still to send it; a late attempt never moves a run back; a document stays with the run that found it. |
| `ends` | Two crashes, with fairness. | Every started discovery, download and analysis ends. |
| `links` | Two requests of one investor save, resend, confirm and unsubscribe over two addresses; a send may fail though the email arrives; a request may stop. | An address is verified only by its holder and stays so; a link reported failed is dead; a pending verification has an email unless its request stopped; `ConsentPromise`. |
| `stored` | Two collectors over one text of each kind of source, two workers, one error, one stop. | A finished collection left no post untaken, a queued text has a message, `TextLife`, and analyses and runs end. |
| `parts` | The eight parts of `MCParts`. | `ReleasesKept`, `SitesKept`, `PeopleKept`, `ServicesKept`: see the comments there. |
| `counted_twice`, `summary_lost` | | The disagreements listed [below](#where-the-code-and-its-documentation-disagree). |

Each property of a passing run has a mutant in `PROJECT.json`: a variant of one definition, as a
plausible bug would have it, under which TLC finds the property violated. The variants stand next
to the definitions they vary and nothing else uses them.

Some properties hold only under conditions that a run's constants state, and it is worth knowing
which:

- `FinishedMeansDone`, `AcknowledgedIsSettled` and `AnnouncedIsAnalysed` (run `documents`) are
  checked while the page lists the same documents at each attempt and SQS does not deliver a
  record twice. A repeated discovery that lists one more document does not reopen a completed run,
  so with another listing `FinishedMeansDone` would not hold. Nor would it if one document's
  failure were counted twice, which takes a third document and a second error
  (`MCScrapePipeline_finished_early.cfg`); run `documents` has one error.
- `FailuresMatch` (an exact count) fails with one duplicate (run `counted_twice`), and without any
  when the download and the analysis of one document both fail for good
  (`MCScrapePipeline_finished_early.cfg`). `FailuresCounted` (no failure missing) always holds, and
  is proved; `SurplusIsOverwritten` proves, without conditions, by which steps alone the count
  exceeds the failures there are.
- `QueuedIsOnItsWay` holds for concurrent requests with errors and lost answers, and fails when a
  requester also stops (`MCScrapePipeline_queued_lost.cfg`).
- `NothingForgotten` is checked in run `siblings`, where each investor has one alert and a cap of
  one: no alert is held back there, so a stop between a held-back alert and its rollup
  (`alert_delivery.py` 370) does not occur in the run. The theorem `NoAlertForgotten` covers it.
- `NothingForgotten` is about investors whose preferences did not change: one who opts out
  between a failed attempt and its retry leaves a failed row, since the retry stops earlier.
- `VerifiedByHolder` and `FailedLinkIsDead` do not forbid a second link within the minute, which
  two saves in flight send (`MCSubscriptions_twice.cfg`); they say that the first is dead by then.
- `DuplicateNeedsLoss` is the honest form of "no second email": a lost answer or a stopped worker
  between send and record allows one more.
- `PendingIsMailed` leaves out a request that stopped between its commit and its email; nothing in
  the code resumes it, and the investor asks for another link.
- `TakenEnds` leaves out a text whose message SQS gave up: see the disagreements.
- `ReleasesKept` is about plans that were not overtaken after `apply`'s own check of the stack:
  between that check and the execution by CloudFormation the code has no lock.
- `PeopleKept` takes emails as they come: identities change theirs, administrators write any
  (`update_investor`). Its half `ProfilesKept` therefore has an exception, linking by email
  (`COGNITO_LINK_EXISTING_BY_EMAIL`, off as deployed, `infra/template.yaml` 474): where it is on, a
  bootstrap that found a profile while it was nobody's may still overwrite the identity another
  bootstrap has been answered with (`Relinked`). Run `parts` has two requests, too few for that;
  `MCAccounts_relinked.cfg` has three and shows it, and with `ProfilesKept` as its only invariant
  the same configuration passes. On the website `PeopleKept` leaves out a first page that arrives
  while "Show more" is under way, an announcement that leaves the feed while it is paged through,
  and a save that overlaps a resend: see the disagreements. On the watchlist page it leaves out the
  time until the next load after an addition failed with its change made, or after functions
  overlapped (`behind`): `removeCompany` puts the row it took out back into the list as it was.
- `ServicesKept` assumes that no summary line has a blank line in it.
- Concurrent claims count each other in the cap, so each of two may be held back and only the
  rollup sent. `RollupHasCapped` therefore says that an alert was held back, not that the cap was
  reached.

## Bounds and abstractions

Alert delivery. Two workers, one or two artifacts of one run, one or two investors, cap 1 and budget
1 or 2: a cap or a budget is overshot by two concurrent claims, a third changes no count that
matters, and the proofs cover every number, several runs included. `MaxReceives` 2 or 3 in place of
5 keeps a first attempt, a retry and the dead letter. `MaxFaults` bounds crashes, exceptions and
lost answers together, `MaxChanges` the preference changes of an investor. `SlowWorkers` lets a
claim go stale under a running worker: the configuration accepts a stale time of one minute while
the Lambda may run for five. `StaleFirst` says that a record handed back is shown again (30 minutes)
after its claim went stale (15 minutes by default; a setting of 30 or more would strand a claim
until the record dies, which the configuration does not exclude). Abstracted: the email's text, the
parsing of records and the discarding of invalid ones, `NOTIFICATIONS_ENABLED` off, batches (a
container handles its records one by one), a missing subscription (it wants nothing), an unsubscribe
key that cannot be used (a failed send).

Pipeline. One or two documents, contents, runs and requests, two containers: the runs that need
two of one kind have one of the others. `MaxDocuments` is 2 and never below the number of listed
documents, so the cut at the limit is modelled but not reached. `MaxReceives` is 1 or 2 in place
of 5: a first attempt and a last one; the middle ones are like the first. `MaxSends` bounds
identical messages alive at once. `MaxCrashes`, `MaxErrors`, `MaxDuplicates`, `MaxRedrives` bound
the faults; each is 0 in the runs whose question does not need it, and between the runs each
fault happens. `Listings` is what the page may list; the runs list every document
(`SteadyListings`), the proofs allow any part at any time. Workers and requests are symmetric
where no liveness property is checked.

- Time stamps are null, fresh or old. A row grows old only when no live message is about it,
  because `ABANDONED_AFTER` (24 hours) is longer than any queue's redelivery window (2.5 and 6
  hours); `updated_at` is refreshed only by a transaction that changes the row.
- A released record is visible again at once: no container outlives its record's visibility
  time-out (Lambda 300 and 720 seconds against 1800 and 4320), so a second holder of a record is a
  duplicate by SQS.
- Objects expire after 30 days, later than any message about them, so `holds` and `verify`
  succeed for what was put.
- `record_..._retry` writes an error text only. An untrusted error (a stale or foreign
  notification) is acknowledged and recorded nowhere. `items_saved` equals `items_downloaded`.
- Reading, classifying, scoring and summarising a document, and the transaction that stores the
  results, are one step without a change of status. A document's URL and identity do not change.
- A notification is sent, not sent, or its failure swallowed: each is allowed.

Subscriptions. Investors share no row, so the module has one, with two requests at a time over two
addresses and two secrets: a request that is overtaken and the one that overtakes it, a link to an
address that has been left and the link to the next. `Interval` and `Lifetime` are 2 of 6 ticks,
so that a link may be renewed, expire, and be used just before. `MaxFaults` is the requests that
stop. Tokens are the facts they carry; their signatures are taken as sound.

Stored text. One post of each kind of source, one key, two collectors, two workers: every race is
about one row, one content hash or one run. `MaxAsks` bounds what is begun (collections, batches,
requeues, summaries, redrives), `MaxSends` the copies of one message, `MaxErrors` and `MaxStops`
the faults. Texts and scores are left out; a summary is one of a few answers.

The parts. Two requests, of two identities or of an administrator with a legacy login, with three
addresses, one of them free to be taken over; two recorders, one reader; two threads and one to three sends; every style of site once through a
listing or a download, with a limit of two bytes and two links; two workflows, two SHAs, three plans
and one change of the world around the stack; three requests of one page, two companies, two filters
with three announcements on pages of two, and a fourth published late; five functions of the
watchlist page over two companies: a load, two changes that overlap, and what comes after them. Each
limit reaches its case: a second page, a byte too many, a sixth redirect, a second refusal of a
prompt, a release overtaken by a reviewed one.

- `Sites`: the parsing of a page is its set of possible results; a host is allowed or not.
- `Generation`: a character of a malformed answer may be escaped in the repair's prompt and then
  counts twice.
- `Accounts`: token signatures and password hashes are sound; a legacy password is right or wrong.
  No two identities have one verified email at a time, since the pool's user names are the emails
  (`infra/template.yaml` 349); one that is left may be another's next. Identities and addresses are
  symmetric.
- `Release`: five parameters stand for the kinds the code treats apart; a malformed value for all
  that `Parameter.problems` refuses.
- `Website`: rendering, routing and the local preview data are left out; a 401 sends the user to
  the sign-in page, which ends the page that is modelled.

`CHECK_DEADLOCK FALSE` is set because all of them may really stop: every record acknowledged or
dead, every request done, every part at its end.

## Fairness

Alert delivery: weak fairness of each worker's next step (Lambda runs a container until its
record is dealt with) and of each record's redelivery (SQS shows a record again while it is
neither acknowledged nor dead). Nothing forces a fault, a preference change or a clock.

Pipeline: weak fairness of a request once made, of each container's next step, of the receipt of
each visible message, of the sweep (the schedule rule is enabled and runs it first in every
invocation) and of time passing over an idle row. Faults are never owed. Where the schedule is
disabled the sweep does not run and the three liveness properties do not hold.

Stored text: weak fairness of `Progress`, the union of the steps of processes, of SQS and of the
sweep. It is weaker than fairness of each: it only says that something goes on while anything can.
It is enough because the requests of a behaviour are finitely many (`MaxAsks`) and every step
takes its request forward, so a behaviour in which something always goes on ends with nothing left
to do. Errors, stops and requests are never owed.

The other runs check safety only.

## Proofs

The theorems hold for every value of the constants that satisfies the `ASSUME`s of the module:
`Docs` and the alert tables are finite, bounds are natural numbers, `None` is no run, document,
content or message, `"none"` is no address or secret, and the functions that place artifacts and
records have the right domains. In `MCParts` the numbers that a proof counts with are natural (a
page or a feed may be empty), some choice of filters exists, no thread is named as the free lock is,
and no identity as the one that stands for nobody. Eight theorems have hypotheses of their own, in
the third column of the table, under which TLC finds the property true as well: either the
deployment rules the rest out, or the code does break the property there, and
[below](#the-hypotheses) says which. The others hold for every bound on faults, receives and
messages. Every step is checked by `tlapm`; nothing is omitted.

| Theorem | Establishes | Hypotheses |
|---|---|---|
| `AlertDeliveryProofs!TypeCorrect` | `TypeOK` | |
| `ClaimsExclusive` | `ExclusiveLease`: at most one worker holds a row | |
| `CapHolds`, `BudgetHolds` | `CapRespected`, `BudgetRespected` | |
| `RollupsHaveCapped` | `RollupHasCapped` | |
| `PromiseHolds` | `AlertDelivery` implements `AlertPromise` | |
| `EmailsGoWhereWanted` | `EmailsWanted` | |
| `MirrorShowsNewest` | `MirrorNewest` | |
| `OneEmailPerAlert` | `DuplicateNeedsLoss` | `SlowWorkers = FALSE` |
| `NoAlertForgotten` | `NothingForgotten` | `SlowWorkers = FALSE`, `StaleFirst = TRUE` |
| `ScrapePipelineProofs!TypeCorrect` | `TypeOK` | |
| `CountersHold`, `FailuresHold` | `CountersMatch`, `FailuresCounted` | |
| `NeverBack` | `NoRegress` | |
| `LifeHolds` | `ScrapePipeline` implements `DocumentLife` | |
| `QueuedIsComing` | `QueuedIsOnItsWay` | `MaxCrashes = 0` |
| `DeletedIsSettled` | `AcknowledgedIsSettled` | `MaxDuplicates = 0` |
| `DeletedIsAnalysed` | `AnnouncedIsAnalysed` | `MaxDuplicates = 0`, one contents |
| `SurplusIsOverwritten` | `items_failed` counts each failed download and analysis, and one more for each failed analysis that a completion or a download's failure overwrites | |
| `FinishedIsDone` | a completed run has analysed all its documents; a partial one has an outcome for each, or counts more failures than failed documents | one listing of at most `MaxDocuments` |
| `SubscriptionsProofs!SubscriptionsTyped` | `TypeOK` | |
| `VerifiedIsByHolder`, `FailedLinksAreDead` | `VerifiedByHolder`, `FailedLinkIsDead` | |
| `PendingIsOnItsWay`, `VerifiedStays` | `PendingIsMailed`, `VerifiedIsKept` | |
| `ConsentIsKept` | `Subscriptions` implements `ConsentPromise` | |
| `StoredTextProofs!TextTypes` | `TypeOK` | |
| `FinishedRunsTookAll`, `QueuedIsCarried` | `CollectedIsTaken`, `QueuedHasMessage` | |
| `TextIsKept` | `StoredText` implements `TextLife` | |
| `AccountsProofs!ProfilesStay`, `OwnersOnly` | `ProfilesKept`, `OnlyOwners`, the `Accounts` part of `PeopleKept` | `"nobody"` is no identity |
| `WatchlistPageProofs!PageTypes`, `PageShowsList` | `TypeOK` and `ListShown`, the `WatchlistPage` part of `PeopleKept` | |
| `PartsProofs!ReleasesAreKept`, `SitesAreKept`, `ServicesAreKept` | `ReleasesKept`, `SitesKept`, `ServicesKept` | |
| `PeopleProofs!PeopleAreKept` | `PeopleKept`, the pages of `Website` included | |

### The hypotheses

- `SlowWorkers = FALSE`: no running worker is taken for a stale one. Deployed, a claim is stale
  after 15 minutes and a Lambda stops after five. With a stale time below the time-out a worker may
  send after its claim was taken over, and no record of the first send is then needed for a second.
- `StaleFirst = TRUE`: a record that is shown again finds the claims of its last attempt stale, as
  deployed (30 minutes against 15). Otherwise it is acknowledged past a claim nobody works on.
- `MaxCrashes = 0` for `QueuedIsOnItsWay`: a requester that stops between its commit and its send
  leaves a run without a message, which `MCScrapePipeline_queued_lost.cfg` shows.
- `MaxDuplicates = 0`: a second delivery of a record may start a download over after the first
  delivery settled it and was acknowledged; if its own record then dies, none is left. The same
  goes for an analysis.
- One contents, for `AnnouncedIsAnalysed`: the notification of a copy that the document's row no
  longer names is stale and is acknowledged, and the code relies on the other copy's.
- One listing, for `FinishedIsDone`: a repeated discovery that lists one more raises `items_found`
  of a run that has finished, and leaves its status (`mark_run_discovery_completed`), so with a page
  that grows between two attempts a completed run may have a document that waits. The listing has
  at most `MaxDocuments`, so that `items_found` is the number of documents taken. Nothing is assumed
  of the counters, and no fault is excluded.

### The argument for alert delivery

`TypeInv` adds to the types what a worker's program counter says about its other fields: a worker
in an attempt has a record and a key. `ExclusiveLease` alone is not inductive, because a claim can
be taken over. `LeaseInv` adds `LeaseBound` (no worker holds a claim number that the row has not
reached) and `HeldRecent` (a row that is held was claimed within the window). The cap follows from
the order of the code: a worker claims and commits first, and counts afterwards, so the check that
clears it has counted every claim committed before; whoever clears last has counted all the
others. `CapRespected` and `BudgetRespected` are inductive over `LeaseInv` for that reason, and
would not be if the count came first. `RollupsHaveCapped` needs `RollupWorkers`: a worker on its
way to a rollup has seen a capped row, and capped rows stay. `PromiseHolds` needs in addition that
a direct row never takes a rollup's status (`DirectNotRollup`).

The second half of the module goes on from `LeaseInv`. `EmailsWanted` needs what a worker saw of the
preferences at each point of its attempt (`Wanted`). `MirrorNewest` needs that the stamps of
attempts not yet recorded lie behind the clock and differ from one another and from every recorded
one (`Stamped`), so that whichever of two outcomes commits last, the newer one shows. Without slow
workers whoever is past its claim still holds it (`AllHold`), and a stale claim has no worker
(`StaleAbandoned`). The ledger then knows of one email of each delivery, or a worker is about to
tell it (`Accepted`), and every other email is a lost answer or a stop (`SentInv`).
`NothingForgotten` is the longest: for every record and each open row it answers for, the record
comes back, or nobody holds the row and an attempt has yet to reach it, or a worker on the record
holds it (`Kept`). It needs to know that a record in work is in flight and with one worker
(`QueueInv`), which rows an attempt may be at (`KeyInv`), and that a row's holder is a record that
concerns it (`HolderInv`).

### The argument for the pipeline

The tables change in one of five ways (`Effect`): one run changes but not its counters, an artifact
is created, one transition of `crud/scrape_run.py` is committed, a document is alerted, or time
passes. `StepInv` shows this for each action, once, together with the inductive invariant `Inv`:
types, and that every message, worker, request and sweep names rows that exist. Without the latter
a transition could be applied to a row that is not there. A worker past the start of an analysis
has a stored document (`WorkerOK`); without it `completed` could be written to a document that is
not stored, and the download's failure would then take it back. Each of the six transitions has
a lemma on its two rows (`DownloadStartedRows` to `AnalysisFailedRows`): the counters move exactly
with the columns (`Follows`), `items_failed` at least so, and the status goes forward (`Forward`).
The counting theorems lift that to sets that differ in one document (`OneDiffers`), and
`LifeHolds` maps each effect to a step of `DocumentLife`.

The second half of the module describes each step once more, by what it does to messages, containers and
bucket (`Handled`) and by what it does to the rows (`Booked`). `Custody` says who has a message: an
idle container none; a message that is visible or dead is in no container; an object that was never
put has no message. A message is *owed* (`Owed`) while it waits, or while containers have it and
none of them is through with it, and each theorem says what an owed message stands for. A run that
waits for its discovery has an owed discovery message or a call still to send one (`Coming`); a
document that entered the pipeline has its download recorded or an owed download message
(`Fetching`); an object in the bucket has its document's analysis ended or an owed notification
(`Announced`), from the moment of the put, before the row knows of it. The last two need that a
container that is through with a message is its only holder (`HeldAlone`).

`SurplusIsOverwritten` follows `items_failed` through every step. Each of the six transitions moves
it with the columns of its document (`TransitionDrifts`): a failure is counted where one is made and
taken back where its work starts again, which needs that a failure there is was counted
(`FailuresCounted`: the code takes back `max(items_failed - 1, 0)`). Two transitions write over a
failed analysis and take nothing back: `mark_artifact_analysis_completed`, and
`mark_artifact_download_failed` of a document that is not stored. No other step of any process moves
the counter or makes a failure (`OthersFailNothing`). The theorem has no hypothesis: with duplicates,
redrives, several contents, late containers and the sweep, the count is too high by exactly the
number of such overwritings, and never comes down again. `FailuresMatch` is lost that way
(`counted_twice`), or because one document failed both downloaded and analysed
(`MCScrapePipeline_finished_early.cfg`).

`FinishedIsDone` says what this costs. A run closes when analysed plus failed documents reach those
found. If it counts as many failures as it has failed documents, sets of ended documents that add
up to all its documents are all of them (`PartsCover`); if not, it counts more (`FailedIsCounted`),
and then it is not closed as completed, since a run with a failure is partial (`ConcludedIsOver`).
A partial run that counts too much goes on counting too much until its status moves on
(`PartialKeepsCount`, `OvercountKept`): whatever takes a failure back also reopens it. Discovery
must not find another document afterwards: a container that lists counts each document of its run
once (`Pass`), and a run that knows how many were found has them all (`Found`). So `completed` can be
trusted under every fault, and `partial` as far as `items_failed` can.

### The argument for subscriptions

The times that requests read from the clock identify them. `TimesUnique` says so: a time a request
still holds is in no link, no failure and no other request. It is what makes the compare-and-set
on `verification_requested_at` sound, and with it `LinksNameRow`: while the row waits for a
request, every link of that request, mailed or not, goes to the row's address, and the request
belongs to the address's present spell. `VerifiedByHolder` follows at the confirmation, because
`Shape` keeps what it read: its link was opened and names the request it compares with.
`FailedIsOver` strengthens `FailedLinkIsDead` to pending rows, since a confirmation makes a pending
row verified. `EnabledHasSecret` is needed for the types alone: a token is never one of a missing
secret. For the refinement, a change of address starts a spell in which no link was opened, a
confirmation finds its link opened in the present one, and every other step is not seen.
That two readings of the clock differ is a premise of the module (one microsecond).

### The argument for stored text

`TypeInv` adds to the types that a worker that is not idle has a message and a collector past its
look-up has a post in hand. Of the posts that a discussion collection found, those it is through
with are taken, except for the one in hand (`Walked`); that one is passed over only if it was seen
taken (`SeenOf`). So a run that finishes has taken all it found, whoever stored them. A queued text
is carried (`Carried`): a message of it is in the queue, with a worker or given up. Between the
send and the mark the text may already have been analysed, which `SentHolds` allows for; without it
the mark would make a text queued that nothing carries. `TextIsKept` needs that only stored posts
are linked, sent, queued or worked on (`StoredHolds`), and that a post about to be closed has a
result (`ResultHolds`).

### The argument for accounts

Between two commits a request holds facts that other requests may have changed. `Onward` is what
none of them changes: a subject once set stays, unless the profile is linked again to an identity
whose bootstrap is answered with it (`Relinked`), a watchlist keeps its owner, and ids never come
back. A request's record is right (`Right`) with respect to any tables that moved `Onward` since it
was read (`StaysRight`), and what was linked again stays so, since answers are final (`LinksStay`);
so each action only has to show that the request it moves is right and that its commit moves the
tables `Onward`. Only `Link` needs the exception, and a request gets there only where linking by
email is on. Nothing is assumed of emails: an earlier form of the invariant tied each profile's
subject to the owner of its email, which `update_investor` does not respect.

### The argument for the watchlist page

`Kinds` ties a function's step to what it is for. `Alone` strengthens `ListShown` to functions
under way: unless the page is behind, one function at most is, and how far page and API are apart
is told by the step it is at (`Apart`): a removal's company is gone from the page alone until the
API deletes it, an addition's is in the list alone until the load after it has been read.

### The argument for the parts

A behaviour of `MCParts` runs one part, so the invariant of the whole is, for each value of `part`,
the invariant of that part.

Releases. `PlanRight` says what a plan keeps of the stack it was made from: a value that differs was
chosen, one that executes keeps the domain and knows the image to go back to. It is about the plan
alone, so what happens to the account afterwards does not disturb it. What ties a plan to the stack
of today is `AsPlanned`, which holds from `apply`'s own check until somebody else moves the stack,
and for a change set under review likewise (`JobRight`, `ChangeSetRight`). An apply then
moves the stack from one for which `Reaches` holds to another.

Sites. `EndRight` is what the properties say of a task that has ended. Until then it has had no
trouble but of two kinds (`OnTheWay`): articles it skipped, which it counts, and pages it read in
place of others. Only a few calls can answer that a layout has changed (`CallRight`), and no call is
under way when a task ends; with the last, whoever closes the session finds no page open.

Generation. The requests made and the repairs left add up to `RepairAttempts` until the job is done
(`Counted`), which bounds the requests. A refused prompt keeps some text, and fits the provider's
limit before it is asked again. Summaries. The two stores hold the same summary because the lock
covers both writes; `RecorderRight` and `ReaderRight` say what a recorder between its writes and a
reader between its queries have in hand. That the row's text can be split into its lines again
(`ReadsBack`) needs that no line has a blank line in it. Sender. The pacer's lock has one holder
(`ThreadRight`); the time it wakes at is an interval after the end of every request so far, and
nobody else posts before it lets go.

### The argument for the website

`RequestsRight` says which fields a request has at each point of `apiFetch`. The steps of the
network (`Network`) are taken once for all pages: such a step changes only its request and the
server, and a request answered ok holds what the API had when it answered.

- A company: a company has one request at most, the one its entry of the cache names (`CompanyInv`),
  so what arrives late goes to the entry of the company it is about, and the page reads its own.
- Sign-in: whoever was answered by Cognito's bootstrap or `/auth/me` has a profile, and profiles
  stay (`SignInInv`).
- Settings: a request is the one a field of the page names (`SettingsInv`). Two are under way only
  if a save and a resend overlap. In the other cases there is one answer to wait for, and it holds
  what the API has, unless a link changed that or the request failed.
- Announcements: `Covers` says that of the announcements listed at first, those at the first n
  places of a feed are among the cards or in the page that is arriving, and `Whole` that all of them
  are. A late announcement only moves others back, which `Covers` survives; the next page then
  brings some of them twice and none is skipped, because `AppendAnnouncementPage` drops what is
  there already. A short page is the last one, so `Covers` becomes `Whole`. The further page under
  way must be of the filter shown and at the offset reached (`MoreRight`); after the answers of two
  choices were mixed this is no longer so, and `FeedInv` says nothing of the cards then.

`Accounts` and `WatchlistPage` have modules of theorems of their own. `PeopleProofs` instantiates
these for the slots (`AccP`, `WatP`) and shows that a step of the part is a step there.

### What only TLC checks

Liveness (`RowsResolve`, `DownloadsEnd`, `AnalysesEnd`, `DiscoveryEnds`, `TakenEnds`, `RunsEnd`),
which is out of reach of the installed provers. `FinishedMeansDone` as it
stands, in run `documents`: it is false where a failure can be counted twice, and `FinishedIsDone`
proves what remains of it under every fault. Every other property of a passing run is stated by a
theorem. `Summaries` is proved, as it is checked, without blank lines inside a
line (`LineBreaks` is `FALSE` in `MCParts`).

## Where the code and its documentation disagree

Two are runs of their own, and `findings` in `PROJECT.json` quotes the lines:

- `counted_twice`: `mark_artifact_analysis_completed` does not take back a failure that another
  delivery recorded, as its sibling transitions do. The line that `findings` quotes
  (`crud/README.md` 86) speaks of safety under at-least-once delivery in general; that
  `items_failed` counts each failed document once is what we take it to include.
- `summary_lost`: `record_metadata` (`lambdas/artifact_analysis_records.py` 120) writes an
  artifact's metadata back without its lock, and with it a summary recorded meanwhile. It is called
  only where the language model is switched off by settings (`generation.Unavailable`,
  `artifact_analysis.py` 399–407); a provider that fails raises and writes nothing back. So the two
  containers run with different settings, as they may while a release that changes the switch rolls
  out. With one setting everywhere the trace cannot happen.

The others are reproduced with a configuration of their own, `tlc -config <file> <module>`:

| Configuration | Module | What TLC shows |
|---|---|---|
| `MCAlertDelivery_over_cap.cfg` | `MCAlertDelivery` | An email whose answer was lost is recorded as failed and leaves the count, so one more alert of the run may go out than the cap. The cap of *recorded* sends is kept, and proved. |
| `MCScrapePipeline_finished_early.cfg` | `MCScrapePipeline` | `mark_artifact_analysis_failed` counts a failure whatever the download is. A document whose download finally fails after its object was put, and whose analysis then finally fails before it has recorded the download, is counted twice, and a run of three is reported partial while the third document's message was never processed; `crud/README.md` 102 says that a run is never reported finished while a message is still being retried. The configuration takes one receive for final; with two receives and four errors TLC finds the same in a few minutes. |
| `MCScrapePipeline_queued_lost.cfg` | `MCScrapePipeline` | `mark_run_queued_if_enqueueing` cannot tell its own request from a later one that reopened the run. |
| `MCScrapePipeline_never_entered.cfg` | `MCScrapePipeline` | An artifact committed before a Queue B send that never happened is skipped by every later run. |
| `MCScrapePipeline_left_open.cfg` | `MCScrapePipeline` | An artifact whose message died before the first status change is still `pending`; neither it nor its run is selected by the sweep. |
| `MCAccounts_relinked.cfg` | `MCAccounts` | Linking by email on: the commit of `bootstrap_cognito_investor` (`crud/investor.py` 112) overwrites the subject it read unlocked at 104. A bootstrap finds an unlinked profile, an administrator gives that profile another person's email, that person's bootstrap links it and is answered, and the first commit moves it to the first caller. |
| `MCSubscriptions_twice.cfg` | `MCSubscriptions` | Two saves in flight send two verification links within the minute. |
| `Summaries_blank_lines.cfg` | `Summaries` | A summary whose line has a blank line in it is split at it when the row's text is read, so it reads back as other lines than were recorded. |

Met while modelling, and left out of the properties:

- A text that a sender marks queued after its message finally failed stays queued for good.
- `mark_public_discussion_run_failed` overwrites the status of a run that a second collector of the
  same event has completed.
- Two deliveries of one text may store different feed decisions; the later one stands.
- Two first requests of one identity, with linking by email off, may answer the loser 409 although
  its profile was just made.
- A repair's prompt with many escaped characters may be given up although a shorter one would fit.
- A discovery that lists one more document at its repeat does not reopen a completed run.
- A copy of a document that changes between two notifications makes each of them stale; a document
  listed under another URL fails each download as a mismatch and stays pending.
- The analysis is completed before its alert is sent; a stop in between loses the alert, which the
  code accepts.
- Website: "Show more" answered after the first page of other filters appends the old filters'
  announcements, and asked for while they load it skips some; an announcement that leaves the feed
  shifts the offsets, so one is skipped. An answer to a save or resend replaces edits made
  meanwhile, and of an overlapping save and resend the older answer may stay. A late `/auth/me`
  answer may restore the sign-in hint after signing out, or clear it after signing in.

## What is not modelled

`PROJECT.json` gives a reason per component.

- Classification, parsing and sentiment: pure functions over text (regular expressions and
  scores) that decide nothing in the modelled components but "a result or an exception".
- Read models and routes that only read; the quotes cache; configuration, a constant everywhere.
- The second try of `store_artifact_analysis` after a sentiment writer without the lock
  (`crud/artifact.py` 115): one step of the pipeline here.
- Ticker imports, reclassification, evaluation and the local worker: operator scripts.
- Schema and migrations: their unique constraints and foreign keys are in the modules that rely on
  them.
- On the website: sign-up, password reset and search. Of the watchlist page, other tabs of the same
  user; an addition that starts while another creates the list, or repeats one whose answer was
  lost, may create a second watchlist, and the page shows the oldest.

## Plan

1. *(done)* `AlertDelivery` with `AlertPromise`, checked and proved: money and trust are at stake
   in every email, and its concurrency is the densest.
2. *(done)* `ScrapeRecords`, `ScrapePipeline` with `DocumentLife`, checked; types, counters,
   monotonic status and the refinement proved.
3. *(done)* `Subscriptions` with `ConsentPromise`, checked and proved, `StoredText` with
   `TextLife`, checked.
4. *(done)* The parts that stand on their own, checked together in `MCParts`.
5. *(done)* Proofs of every safety property that a passing run checks, except `FinishedMeansDone`.
6. *(done)* How `items_failed` may miscount, and what a finished run is worth when it does.
7. Left: the retry of `store_artifact_analysis` beside a sentiment writer, and the sign-up page.
