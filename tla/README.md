# Nashr: a verification project in TLA+

Nashr sells generated presentations and articles through a Telegram bot and a
web API. This directory models the parts of it where money, accounts, jobs,
documents and user decisions meet concurrency and failure: TLA+ modules
translated from the Python and SQL source, TLC configurations that check them on
small instances, and TLAPS proofs, for every instance, of the safety of the
pipeline, of the invoices and of the bot's conversations.

Paths below are relative to the repository's root.

## 1. The system

| Component | State it keeps | Operations | What makes it hard |
|---|---|---|---|
| Job queue (`packages/platform/jobs.py`, migration 006) | `generation_jobs` rows: status, worker, attempts, heartbeat | enqueue, claim_next, claim_job, heartbeat, complete, fail, reap_stale | concurrent workers, stalled workers, an insert whose reply is lost |
| Enqueue route (`packages/api/routes/jobs.py`) | none; rows of the queue and the ledger | gates, active-job lookup, entitlement, deduct, insert, undo | every await is a point where others run; the charge precedes the insert |
| Worker (`scripts/worker_run_job.py`) | the job it runs, the refunds it owes, in memory only | reap and refund, claim, run, land the row, refund | crash between two statements; the reaper takes a job from a worker that lives |
| Credit ledger (`packages/platform/credits.py`) | append-only `credits_ledger`; balances are sums | balance check, deduct, refund, paid and free grants | check and insert are separate round trips |
| Free credits (`credits.py`, grant_free_credit) | ledger rows of one type | three caps, then the insert | three reads, an unguarded insert, midnight in between |
| Invoices and webhooks (`packages/platform/invoices.py`, `packages/bot/webhooks/payment_webhooks.py`, `packages/bot/handlers/payment_flow.py`) | `invoices` rows; the number shown in the chat | checkout, cancel, webhook finalisation | providers retry and overlap; no write is guarded by status |
| Identity (`packages/api/services/identity.py`, `packages/platform/identity_store.py`, migration 005) | `auth_identities`, `users` | resolve by Telegram or e-mail, link, register, merge | first logins at once; the bot and the web look users up differently |
| Abuse caps (`packages/platform/rate_limit.py`) | window counters | atomic increment-and-compare, twice per call | a call's two counters may fall in two windows |
| Projects, sharing, sources (`packages/api/routes/`) | projects, share token, source rows | create, enable/rotate/disable, presign, register | read-then-write; a merge under a live session |
| Ordering a presentation (`packages/bot/handlers/registration.py`, `main_menu.py`, `presentation_flow.py`, `payment_flow.py`) | FSM state and data, the keyboards of the messages in the chat | register, begin, upload, continue, choose, pay, deliver, finish | old keyboards stay; a handler writes the state after it has answered |
| Brain sessions (`packages/bot/sessions/`) | one `brain_sessions` row per project: history, parked change, fix counter | create, load, write back | whole-row write-back of a copy held for minutes |
| Editor (`packages/bot/handlers/presentation_flow.py`) | per-project `asyncio.Lock`, FSM state, both in memory | chat turn, approve, reject, enter, leave | updates of one chat run concurrently; a restart forgets lock and FSM |
| Bot generation (same file, `payment_flow.py`) | FSM data, output files | pay, generate, regenerate, refund, open session | the state may be cleared under a running handler |
| Article flow (`packages/bot/handlers/article_flow.py`) | FSM state and data, a process-wide cache of orchestrator results | sources, interview, outline, pay, generate, free credit | old buttons, no lock, a cache that a restart empties |
| Editorial pass (`packages/presentation/editorial.py`, `planner.py`, `plan_validator.py`, `content_critic.py`) | a deck, a plan, a critic's ledger, all local | plan, draft, gate, splice, criticise, rewrite, escalate, insert | many repairs by position, each of which may undo another |
| Images (`packages/presentation/image_pass.py`, `commons_portraits.py`, `image_generation.py`, `packages/core/gemini_image.py`) | the URL of each slot, the credits in the notes | search, select, inspect, download, match, caption, draw, store | evidence about a person and a licence arrives call by call; slots of a slide overtake each other |
| Outputs of a deck (`packages/bot/orchestrators/presentation_orchestrator.py`) | the `decks` row, the images, the files, the stored object per format, `generated_files` | illustrate, save, render, upload, register | some writes are best-effort and some are not |
| Model client (`packages/core/gemini.py`, `gemini_cache.py`, `brain_loop.py`) | the shared context cache and its lock; a turn's history | retry, throttle, create and invalidate the cache, loop over tool calls | waiters act on what they read before the lock; a cache may die under a call |
| Source processing (`packages/workers/source/`, the orchestrators' ingestion) | per upload the metadata, chunks and claims collected so far, the matrix | validate, parse, recognise, cut, extract claims | a batch may stop anywhere; what it left is later read by position |
| Article making (`packages/workers/article/`, `article_orchestrator.py`) | answers, matrix, outline, sections, report | ask, promote, outline, draft, verify, number, export | models answer anything; lists are paired by position |
| Suggestions (`packages/suggestions/`, `packages/academic/`) | per section the calls under way and what they found; the report; the matrix | detect domains, decide what a section needs, search, merge, rank, integrate | any call may raise or find nothing; outcomes are read back by position; three merges, each with its own idea of a duplicate |
| Web front end (`packages/web/app/new/page.tsx`, `app/projects/[id]/page.tsx`) | React state of one page; a polling chain | attach, remove, send, confirm, cancel; upload, order, poll, share | handlers go on with the values of the render they came from; answers land in any order or not at all |
| Renderer, scripts | none shared (documents, files) | layout | not concurrent with anything; not modelled |

Interactions. The web front end resolves a session to a `users` row through
Identity, and posts to the enqueue route, which charges the ledger and inserts a
job row. Loop workers claim rows, run the pipeline, heartbeat, and land the row;
on failure the worker whose guarded write failed the row refunds it. The reaper,
which every loop worker runs, requeues or fails rows without a heartbeat and
refunds the ones it failed. In the bot, a balance payment charges the ledger and
runs the same pipeline inside the handler; an external payment opens an invoice
that a webhook later marks paid and credits. Both ways of generating run the
editorial pass, write the project's `decks` row, render and upload the files and
create the project's `brain_sessions` row, which chat turns then load, work on
and write back; an approved change edits the deck and runs the outputs again.
Folding two accounts into one (link) moves the rows all of these name.

What makes each component correct:

* pipeline: one active job per project, no refund twice, no refund of a
  delivered deck, no lost refund, terminal rows stay terminal, the claims of a
  job are bounded by its attempts and the claims nobody counted, every job ends;
* ordering: a file belongs to the project it was received for, a payment makes
  the project it was for, and no conversation whose presses follow each other
  ends where no button leads on;
* payments: an invoice is credited once and for its amount, providers are told
  the truth, every payment is answered, one live invoice;
* accounts: whichever door a person comes through leads to one account, a merge
  strands no project, and no charge but those it cuts off from their job or
  order, a circulating link dies only on purpose or to a first enable pressed
  twice, a day's uploads stay within the caps;
* editing: the tier's allowance, one handler at a time, no turn over an
  unanswered tool call, a parked change is applied once and only by its button,
  a discarded one never;
* web: an order is what its user confirmed, once, and the workspace comes to show
  what is stored;
* bot generation and articles: what was charged is served or comes back while
  its conversation stands, and only what was charged comes back; free credits
  asked for one after another stay within their caps, and those asked for
  together pass them by no more than their number less one;
* sources: no text of a page is lost or repeated beyond the overlap, and every
  piece of evidence leads back to the file, the page and the text it came from;
* article: an answer promotes the evidence of the chunks it used, a draft
  has the outline's sections in the outline's order, a number printed for a
  citation is an entry of the printed list;
* suggestions: a section is offered the best of what was found for it, no DOI
  twice, and a provider's failure is reported as its own;
* deck: what ships was looked at since it last changed, follows its plan and is
  well formed; a portrait is of the person named and is credited; the files a user holds show the deck that is saved; an edit
  touches its own slides; every edit call has its response;
* all of them: everyone is answered.

## 2. The modules

| Module | Models | State and actions |
|---|---|---|
| `Faults` | the environment | `faults` counts failures up to `MaxFaults`; each module says which of its steps may fail |
| `CreditLedger` | `credits.py`, and who requests what at what price | `deducted`, `refunded`: which rows exist for which request. Rows are only inserted, so their sum is what the code reads |
| `GenerationJobs` | migration 006, `jobs.py` | one operator per SQL statement or function; `jobs`, and `arrival` for `created_at` |
| `EnqueueRoute` | `POST /jobs` | `rpc`, one action per await of the handler |
| `JobWorker` | `worker_run_job.py` | `wpc`, `incarnation` (every process start draws a new worker id), `held`, `readAttempts`, `owed` |
| `JobPipeline` | the composition | `Next`, fairness, properties, the inductive invariants |
| `Settlement` | the abstract contract | a request's price is unpaid, then held, then earned or returned. `JobPipeline` implements it under the mapping `Account` |
| `Payments` | invoices, webhooks, checkout | one conversation about one project; `status` of invoices, program counters of checkouts, cancels and webhook deliveries, and where each provider's dialog is |
| `PresentationIntake` | the conversation from /start to a delivered deck | `stage` (the FSM state), the data, and for each message its `keyboard` and what is left of the handler it answers; a second press of a message has a handler of its own beside it |
| `Purchases` | the composition of `Payments` and `PresentationIntake` | a behaviour follows one of the two, which share nothing but the process |
| `AccountTables` | migrations 005 and 006 | `users`, `identity`, `telegramOf`, `owner`, `job`, `charge`, and the statements over them, `merge_users` among them; `severed`, the charges a merge cut off |
| `IdentityDoors` | `identity.py`, `identity_store.py`, the bot's registration | one action per round trip of a login, a link, a merge |
| `ProjectRoutes` | project, share, source and (as far as a merge meets it) job routes; `rate_limit.py` | one action per round trip of a call, an order's look, charge and insert among them; the counters of the caps, each bumped by one atomic upsert |
| `Accounts` | the composition of the three above | properties of accounts |
| `CreationPage` | the web's creation page | `chip` and `attached` (what is shown, what an order names), `pick`, `sending`, `press`: where each attach, send and confirmation stands |
| `Workspace` | the web's workspace page, and the rows it reads | `calls`, `answers`, `timers`: what is on its way; the `page` variables: what is shown |
| `WebSite` | the composition of `Accounts`, `CreationPage` and `Workspace` | a behaviour follows one of the three, which share nothing a property is about |
| `BrainSessions` | `sessions/store.py`, `budget.py`, and the FSM around them | `session` (the row), `deckSaved`, `delivered` (history); `fsm`, `linked` (do the FSM data hold the project) |
| `EditSession` | the editor | `lock` and its FIFO `queue`, `hpc`, each handler's `copy` of the row |
| `BotGeneration` | generations, of either product | `gpc`, and who was `charged`, `refunded`, `served` |
| `FreeCredits` | grant_free_credit | the rows and, per grant, the three counts it read |
| `ArticleFlow` | the article's conversation | FSM, cache, the handlers' steps, generations as in `BotGeneration` |
| `BotFlows` | the composition | a presentation's or an article's conversation, with restarts of the bot |
| `DeckRules` | a deck, a plan, and the rules between them | pure operators: which sections hold, what a splice yields, what a gate finds |
| `EditorialPass` | generate_deck_spec | `pc`, the deck, the plan, the attempts, the critic's verdicts |
| `DeckOutputs` | images, deck row, files, objects, rows | one action per stage and per format |
| `ImageFinding` | a slot's search for a portrait, a figure or a generated picture | `ipc`, the candidates, the person selected, the notes |
| `BrainTurns` | `brain_loop.py`, the retry policy of `gemini.py`, `gemini_cache.py` | a turn's history of calls and responses, the calls nobody answers (`strays`), its retries and throttling; the cache's handle, when it dies, its lock and the waiters; a clock |
| `SourceReading` | `pipeline.py`, `ocr.py`, `chunker.py`, `claim_extractor.py`, the two ways in | one action per stage of one file, one per piece cut from a page |
| `ArticleInterview` | `interview.py`, `evidence_matrix.py`, how the orchestrator pairs chunks with entries | the chunks of the files with their keys, the entries of the matrix, the questions left, the scored answer at work |
| `ArticleMaking` | outline, drafter, verifier, bibliography, exports | `apc`, the outline, the sections, what the report says |
| `SourceSuggestions` | `packages/suggestions/`, `packages/academic/` | `upc`, the calls of the section (`searches`), what it is offered, the report, the entries of what was approved |
| `DocumentMaking` | the composition of the nine modules from `DeckRules` on | see below |
| `JobPipeline_proofs`, `Purchases_proofs`, `BotFlows_proofs`, `Accounts_proofs`, `WebPages_proofs`, `DocumentMaking_proofs`, `EditorialPass_proofs`, `ArticleMaking_proofs` | proofs | section 5 |
| `MCJobPipeline`, `MCPayments`, `MCAccounts`, `MCBotFlows`, `MCDocumentMaking` | instances for TLC | concrete requests, plans, drafts, presses; symmetry sets |

One action is one atomic step of the database or one stretch of a coroutine
between two awaits. A statement that reads and one that writes are two actions
whenever the code has an await between them; that is where the interesting
behaviours are. A call that raises is modelled twice where it matters: before
and after the database acted. Operators whose comment begins with `Mutant:` are
the plausible bugs each property is tested against; no run uses them.

The composition of `DocumentMaking`. The reading of the sources, the pass that
writes a deck, the search for its images, the run that illustrates, renders and
stores it, the turn that talks to the model, the interview, the suggestions and
the writing of an article share no variable. What one hands to the next (evidence, a deck, an answer, an error) is
there any choice of its environment (`DeckOutputs` takes an image as found or not), so
a behaviour runs one of them, chosen in `Init`, and the others rest. The composition states what they owe together: that
everyone is answered.

Abstractions. Time is whether a heartbeat is younger than `stale_seconds`, on
which day a cap is counted, or, in `BrainTurns`, a clock of a few ticks; a
lapse may come at any moment. A balance is the sum of the rows the requests wrote
over an opening balance. The enqueue route accepts a single job type, so the
unique index on project and type is an index on projects. In the pipeline, the
generation (minutes of model calls) is one step that succeeds or fails; what it
does inside is `DocumentMaking`. A session's history is reduced, in `EditSession`, to
whether it ends in an unanswered `edit_slides` call (`BrainTurns` has the calls of
other names). There, turns in
`OwnInitiative` are those run with `user_initiated=False`: the handler registered
today never passes that, but `_run_chat_turn`, `_apply_pending`,
`_reject_pending`, the states and the tests are written for it, and without it
the approval gate would be unreachable. In the editorial pass, a slide is its id,
type, section, tag, people, facts and whether its own rules hold; a model's
answer is any of the drafts, rewrites and readings of the instance. In
`PresentationIntake` a button belongs to one message, and a press does what the
FSM state and data of that moment make of it, also while an earlier press of the
message is being handled (`MaxMoves` bounds files and such presses together); messages of one kind are sent in a
fixed order; nothing raises and the bot does not restart there (`BotGeneration`
has that). In
`DeckOutputs` storage is configured: without it `_upload_rendered` returns
silently and the images abstain. In `SourceReading` a page is how long its text
is and a position in it a number, so that a text lost or read twice shows; which
words a claim has is left out. In `ArticleMaking` a paragraph is the markers in
it and the references beside it. In `SourceSuggestions` a title or a query is the set of its words, a score is
in thousandths, and what a service knows of a publication is what its parser can
take from it; whether a section's words name a domain, a kind or an indicator is
the instance's. No provider sets a law's number, so what is scored by it is left
out. A cache whose system prompt differs from the
turn's, which the code bypasses, is left out.

## 3. The runs

| Run | Instance | Shows |
|---|---|---|
| `JobPipeline_safety` | 2 requests for one project, 2 loop workers and a one-shot slot, 2 attempts, 1 failure; about 332,000 states | all safety properties of the pipeline and the refinement to `Settlement` |
| `JobPipeline_liveness` | 2 requests on 2 projects, one loop worker and one one-shot slot, 1 attempt, 1 failure of any kind, reply loss included; about 34,000 states | `EveryJobIsSettled`: every job ends, and while nothing fails every failure is refunded |
| `Enqueue_lost_race` | violation | the loser of an enqueue race is charged and gets nothing if the winner's job ends before it is looked up |
| `Enqueue_overdraft` | violation | two projects' requests drive a balance below zero |
| `Enqueue_lost_reply` | violation | a committed insert whose reply is lost is refunded twice |
| `Payments_safety` | 2 checkouts, a cancel, 2 payments (one through Payme's dialog, one through Uzum's single call), their deliveries, 1 failure, calls about one invoice one after another; a conversation of 2 /start, a name, 2 files, 2 projects and a press of a message whose handler still runs; about 691,000 states | crediting, answers, one live invoice, that every payment is answered, and that the conversation leads on while its presses follow each other |
| `Payments_double_credit` | violation | overlapping webhooks credit an invoice twice |
| `Payments_lost_credit` | violation | a crash between two writes confirms a payment nobody was credited for |
| `PresentationFlow_safety` | a presentation: 2 turns (one of the brain's own initiative), 2 approve presses and a reject press, an entry, a paid generation, a regeneration, a web job, allowance 1; an article: a source, 2 answers, a continue, a revision, a payment, caps of 1 a day, 2 a week, 2 a project; 1 failure; about 1,301,000 states | the editor's, the generations' and the free credits' properties |
| `Regenerate_refund` | violation | a free regeneration that fails pays the user the tier's price |
| `Accounts_safety` | 2 Telegram accounts, an e-mail, 2 auth users, one project; mixes of up to three logins and links with the calls they meet (create, share, presign, register, enqueue); 1 failure; a creation page with two uses of the file picker, two sends and two confirmations; a workspace with up to two presses per visit (uploads, orders, share buttons) and one lost call; about 492,000 states | accounts, projects, charges, caps and links; that an order is what was confirmed; that the workspace settles on what is stored |
| `DocumentMaking_safety` | two files, one of up to two pages, each page empty, short or longer than a chunk, for the bot and for a web job; a deck of up to 7 slides from 3 plans, 14 first drafts, 4 repairs, 7 rewrites, up to two critic findings, 3 attempts; 2 generations and an edit of a three-slide deck with two formats; 2 turns over a shared cache with 2 iterations and a retry; an interview of 3 questions over one file, over two whose chunks share a key, and over evidence that is not paired with its chunks; an article of a template of three sections, 6 outlines, 3 texts for a part, 2 bibliographies; portraits of two people and a figure on one slide, 6 results of a search, 1 retry; outlines of 2 and 3 sections, 3 sets of domains, 4 providers of which at most 3 work at once, 2 of the 4 APIs behind the federated search; about 635,000 states, about three minutes | each of the eight parts, and that each but the outputs, the interview and the suggestions ends |

Why these bounds. Two requests for one project are the enqueue race; with two
attempts a row can be requeued, run again and exhausted. A stalled worker, the
reaper that takes its row and the worker that gets the row next are three
processes; the one-shot process adds the unguarded attempts write. Reply loss is
off in the safety run because of the double refund it causes (`Enqueue_lost_reply`
shows it, with the switch on); every other failure is on. One failure per
behaviour is the smallest that separates crash-safe code from the rest; the
theorems below hold for every number. Two approve presses and a reject press on
a parked change are the smallest case of a press that waits for the lock while
the change is settled by another. An allowance of one is the basic tier's. Two
Telegram accounts and an e-mail are the smallest family in which a link meets an
account that already has one and a merge has two rows to choose from. The drafts
are one deck as planned and one for each way the gate can find fault (a missing
opening, section or figure, a stranger in a section, under a loose name or in
none, a dense or hollow slide), so that each repair and each pair of repairs is
reached. A chunk of 5 with an overlap of 2 and a minimum of 2 cuts a page of 6
into pieces that overlap, and lengths 0 and 1 are the empty page and the one
below every limit; two files are the smallest batch in which one fails after
another has left its results. The outlines answer less than the template, as
much, and more, with an abstract where none belongs. Two files and two
projects are the smallest chat in which a file meets the wrong project or a press
an old keyboard. Two attaches of two files of one name are the smallest page on which a second
request for a project meets the first and a removed chip takes another's file
along; two presses and the reads of the opening page are what can
overtake each other in the workspace, where one lost call leaves the rest of its
topic unknown, so a second one shows nothing more. A title, one alike to it and one alike to that are the shortest chain of
likeness; a semaphore of three is the code's and lets a fourth call wait. The results of a search for a portrait hold nobody by the name, the person, a namesake
beside the person, a year that is off by one, or a file that must not be used. Two turns are a creator of the cache and a waiter; a life of three ticks
with a margin of one and a create that may take one lets a cache be live, inside
its margin, and dead when a turn uses it.

`Payments_safety` and `Payments_double_credit` differ in one constant, `Overlap`:
with overlapping calls the code double-credits, without them everything stated
holds, so the overlap is exactly what the database must exclude. The same constant
separates what holds from what does not in two other modules; the runs check the
value under which the properties hold, and TLC shows what the other costs:

* `Accounts` with `Overlap = TRUE` (the look and the write of one door are
  interrupted by the same door) violates `OneAccountPerPerson` and
  `NothingStranded`: the e-mail upsert (`identity.py:145-163`) overwrites the
  winner's row, and a registration that began before a link ends in a second
  account. With `Overlap = TRUE` a disable or a rotation beside another share call
  violates `OnlyRotationRevokes`; two enables, which are what a double-click
  sends, overlap with `Overlap = FALSE` too.
* `DeckOutputs` with `Overlap = TRUE` (a generation beside an edit, or two
  generations) violates `FilesShowTheDeck`; so does a later generation that
  requests fewer formats than an earlier one, whose other rows stay.

`CHECK_DEADLOCK FALSE` appears where the inputs are finite and the system may
come to rest: a chat that is over, payments that are answered, calls that have
returned. In `JobPipeline_safety` the loop workers poll forever, and in
`DocumentMaking_safety` a finished part says so by a stuttering step; there deadlock
is checked.

Fairness. `JobPipeline`'s `FairSpec` assumes that a worker process takes its
next step (its loop is `while True`, and each model call of the pipeline has a
timeout), that a dead loop worker is restarted (`restart: unless-stopped` in
docker-compose.yml), and that a row nobody beats becomes stale. It assumes
nothing of users, of the API process, or that a live worker stalls or does not.
`Purchases` assumes of a webhook that its handler runs on and that the provider
goes on with a payment and delivers again what was not answered; it owes the conversation nothing. `DocumentMaking`
assumes, part by part, that the reading of
the sources, the editorial pass, the images, the writing of an article and some turn take
their next step: every model call, the recognition of a page and the creation of
a cache has a timeout, and the cache's lock is an `asyncio.Lock`, first come first
served. It owes nothing to a run of the outputs, whose process may die, nor to an
interview or to suggestions, whose user may leave. `BotFlows` and `Accounts`
state no liveness: a Telegram handler or a request that dies is not taken up
again by anything.

## 4. Findings

Six disagreements between the code and what the repository says of it, each
demonstrated by a run (`PROJECT.json` has the quotes):

1. `jobs.py:158`: the loser of an enqueue race is not refunded if the winner has
   ended by the time it is looked for.
2. `credits.py:230`: concurrent deductions can overdraw a balance.
3. `jobs.py:157`: an insert that committed but raised is taken for a lost race
   with itself and refunded; the job's own failure then refunds again.
4. `invoices.py:94`: concurrent webhooks double-credit an invoice.
5. `invoices.py:125`: a crash after `mark_invoice_paid` loses the credit for
   good, because the retry finds the invoice paid.
6. `presentation_flow.py:475`: a failed free regeneration is refunded.

Met while modelling, without a run of their own; the properties except them or
the models leave them out:

* Pipeline: the reaper re-queues "while attempts remain" (`jobs.py:6`), and
  `claim_job` counts an attempt in a second statement (`jobs.py:207`): a one-shot
  worker that claims and dies before it, or whose count the row's new owner keeps
  out, leaves a run nobody counted, and the job is run once more. With two
  attempts and one such claim a job runs three times; `AttemptsWithinLimit` counts
  the claims and allows one more for each of these.
* Accounts: the switch of section 3. `manage_share` says that an enable keeps the
  current token "so a double-click does not silently kill circulating links", but
  it reads the token before it writes one (`projects.py:181-191`), and the page's
  `onShare` does not guard against a second click: of two first enables that both
  read no token, the second to write replaces the link that was handed out by the
  first. `OnlyRotationRevokes` excepts this one case. `merge_users` deletes the
  orphan, "now unreferenced" (`005_identity.sql:131`), while
  `generation_jobs.user_id` still names it, on delete cascade: an active job goes
  with it, and its charge, moved to the canonical account, is neither earned nor
  returned. A merge between an order's deduction and its insert (`api/routes/jobs.py:207`
  and `:226`) does the same: the insert is refused on a user who is gone, no winner
  is found, and nothing is refunded. `NothingStranded` excepts these charges
  (`severed`), and they alone.
* Free credits: `grant_free_credit` promises a credit only to a user "below every
  cap" (`credits.py:169`), and "3 per day, 10 per week, 5 per project" (`:105-106`).
  Two answers handled together both read the rows below the cap and both insert:
  with a daily cap of one, two are granted. `FreeCreditsWithinCaps` says how far
  this goes, and that calls which follow each other keep the caps.
* Cleared conversations: `cancel_flow` (`article_flow.py:790-806`),
  `cancel_payment`, and a failure beside it, clear the chat's data while files are
  being made. The generation goes on, is charged and writes its files where no
  button looks for them (`article_flow.py:672` into a slot that was dropped,
  `:740-752` finds nothing): paid, undownloadable, and, as nothing failed, not
  refunded. `ChargeIsServedOrReturned` counts as served only what can be
  downloaded, and excepts these.
* Editorial pass: after the brain's pass a confirmed finding on an unchanged
  slide may be cleared (so the second part of `VerdictIsClean` speaks of `attempts = 0`); a
  rewrite may drop the planned figure of its own slide and nothing looks again;
  with more interactive slides than breaks one lands after its break; a section
  repair may take a tagged title with it; `_section_index_for` matches exactly
  where `_section_index_of` normalises; `{"slides": []}` becomes an emergency
  deck without a retry; an `EditorialSlideRegenError` leaves the critic's loop.
* Outputs: the comment at `presentation_flow.py:1032` calls
  `apply_fixes_and_render` atomic, but `render_prepare` raises after `save_deck`,
  as does a `save_deck` whose reply is lost: the deck is then the new one while
  the edit is reported as failed. When upload or upsert failed first,
  `_register_outputs` inserts a local `/tmp` path as `storage_path`. Render
  warnings of a first generation are only logged.
* Turns: `_collect_edit_slides_fixes` reads, and `run_brain_loop` counts
  (`brain_loop.py:291`), only `edit_slides` calls, so a call of another name beside
  them gets no response and Gemini refuses the next request of the conversation
  (`strays`). `invalidate()` may drop a newer handle (which costs a creation). "A
  turn never starts against a cache that dies mid-call" (`gemini_cache.py:43`) is
  not what the margin gives: one attempt may last 180 seconds, with retries and
  throttling more, and the margin is 120; the call then fails and only the fallback
  saves the turn. The cache is "never a correctness dependency" for timeouts and
  errors of the API: a broken connection is neither (`gemini.py:431`, `:451`,
  `brain_loop.py:254`) and fails the turn, cached call or not.
* Sources: a web job stamps its claims with `source_id:index`, which the lookup
  that builds the matrix never resolves, so the matrix of a web job is empty; of
  several files in the bot each numbers its chunks from 0, and the lookup takes
  the last chunk with a number; a recognition that succeeds with an empty text
  replaces the text a PDF page had; a chunk may be shorter than `MIN_CHUNK_SIZE`,
  which the docstring excludes, and the branch of `_split_text` that merges a
  remainder is unreachable; an API error of one chunk's claims, and a free credit
  that cannot be granted, fail the whole upload, where a docstring tolerates the
  loss of one chunk.
* Article: `generate_outline` discards what `assign_to_sections` returns, so no
  evidence and no answer of the user reaches a draft and every citation is
  invented; the verifier then finds no source, and the warning the DOCX prints
  counts only the unsupported and the contradicted ones. Its questions to a model
  are unreachable. A marker (any `[x]`) is given the next entry of the
  bibliography in order of appearance, so an invented one is printed as a real
  source; the references a section declares need not be its markers, and a marker
  nothing declares is never verified. A repaired outline replaces the first even
  if it is worse. Matrix entries (one per claim) are paired with chunks by
  position (`_chunk_uuid_map` aims "for a 1:1 map in entry order"), so where a
  chunk has no claim or several an answer may promote another chunk's evidence;
  and chunks of two files sent to the bot go by the same numbers
  (`article_orchestrator.py:815`, `evidence_matrix.py:260`), so an answer about one
  promotes the other's entries too. Two answers at once
  lose an update of the matrix. An article whose every section failed is exported
  and charged. A call always takes the referat's structure, so the rule about
  abstracts concerns only a title a model chose; every language but English is
  set as GOST, APA never.
* Suggestions: `_dedupe` replaces the kept suggestion together with the words it is
  compared by, so two alike titles may both be offered, or one dropped for a title
  it is not like; one without a DOI may replace one with it. The engine compares
  DOIs as written, the federated search lower-cased. A provider that fails inside
  answers nothing and counts as searched. `_search_indicator` never sends its
  query: the first page of the whole catalogue is searched for its words. The
  claim of an integrated matrix entry is a fresh id that names no claim. A report
  holds at most 100 errors, and the hundred-and-first fails the report.
* Images: `_append_attribution` cuts the notes at 2000 characters, a credit with
  them; a birth year that is off by one neither conflicts nor matches; an entity
  with an empty label counts as a loose match of the name, and an exact name with
  two words of the description outweighs a loose one with the birth year; "pd" is
  sought as a substring of the licence; only timeouts and API errors are retried.
* Payments: `invoices.py:14-15` says that an invoice becomes `cancelled` "if the
  user backs out"; `cancel_payment` expires it (`payment_flow.py:163`), and nothing
  writes `cancelled`. `CancelTransaction` is acknowledged whatever the invoice is: also for
  one that is paid, whose credit stays; nothing of a dialog is stored, so
  `CreateTransaction` says yes to anything.
* Ordering: nothing keeps two presses of one message apart. `upload_more` and
  `continue_flow` handled together each edit the message and then set the state,
  and may leave the state of choosing a tier under a message without tier buttons;
  two presses of `pay_balance` charge twice; a language chosen twice, or beside a
  second /start, may set its state last and send the user back. Hence `orderly` in
  `ConversationLeadsOn`, whose first part, about files, needs it not. A file sent in state "more" is silently ignored; a late `set_state`
  may follow a `state.clear()` and leave a state without data, or follow the start
  of a new project, whose `error_no_sources` then takes the buttons away; an
  insufficient balance takes the keyboard away too, and only /start leads on; an
  old payment keyboard charges the project of the moment, with the tier left over
  from another; a generation that ends sets the state of a conversation begun
  meanwhile; an old download button delivers the files of the project of the
  moment; after an external payment nothing generates, and the link's keyboard
  offers only to cancel.
* Web: a second attach, or a send, while the first attach's project is being
  created makes a second project, against the comment at `new/page.tsx:146-148`;
  the order then names files of the other and is refused. Removing a chip takes
  every file of its name out of the order. A cancel within the 480 ms of the
  card's timer does not stop the order. In the workspace one failed poll ends the
  watching for good, two polling chains of one job may show an older status after
  a newer one, and while the job of the URL has not been shown yet the start
  button is (the server then answers with the job under way).
* Article conversation: `pay_balance` has no state filter, and an old keyboard
  may charge a default tier whose refund finds no tier; a message or a status
  write between the failure and the refund may skip it; `start_generation`'s
  early return refunds nothing; a second press of continue clears a paid
  conversation; `regenerate_output` has no handler in that flow.

## 5. The proofs

TLAPS proves, for every value of the constants the assumptions of the modules
admit (any sets of requests, users, projects, prices, turns, presses, checkouts
and payments, any limits, any number of failures):

| Theorem | Says | Needs |
|---|---|---|
| `JobPipeline_proofs!TypeCorrect` | `Spec => []TypeOK` | |
| `JobPipeline_proofs!OneActiveJob`, `AttemptsBounded`, `TerminalRowsAreFinal` | the three properties of the table | |
| `JobPipeline_proofs!RefundsInOrder` | `Spec => []RefundInv` | `NoReplyLoss` |
| `JobPipeline_proofs!RefundedAtMostOnce`, `RefundedOnlyUndelivered`, `JobsPaidFor`, `FailuresOwed` | the four money invariants | `NoReplyLoss` |
| `JobPipeline_proofs!PipelineSettles` | the pipeline implements `Settlement` | `NoReplyLoss` |
| `Purchases_proofs!PurchasesTypeCorrect` | `PurchasesSpec => []PurchasesTypeOK` | |
| `Purchases_proofs!PaymentInvariant` | `PurchasesSpec => [](TypeOK /\ PaymentInv)` | `~Overlap` |
| `Purchases_proofs!InvoicesStayInOrder`, `AnswersStayTrue` | invoices and answers | `~Overlap` |
| `Purchases_proofs!ConversationLeads` | a received file is a source of its project; while presses follow each other the conversation leads on and makes what was paid for | |
| `BotFlows_proofs!TypeCorrect` | `Spec => [](TypeOK /\ ArticleTypes)` | |
| `BotFlows_proofs!EditInvariant` | `Spec => [](TypeOK /\ EditInv)` | |
| `BotFlows_proofs!AllowanceHolds`, `Serialized`, `ApprovalHolds` | the three properties of an editing session | |
| `BotFlows_proofs!ChargeHolds` | no paid generation ends unserved and unrefunded, unless its conversation was cleared | |
| `BotFlows_proofs!CapsHold` | the caps on free credits | |
| `Accounts_proofs!TypeCorrect` | `Spec => [](TypeOK /\ CurrentInv)` | |
| `Accounts_proofs!OneAccount` | doors that were linked lead to one account | `~Overlap` |
| `Accounts_proofs!NobodyStranded` | no project stays behind in a merge, and no charge whose job or order the merge left alone | `~Overlap` |
| `Accounts_proofs!LinksSurvive` | a share link dies only by rotation or disabling, or by the second of two overlapping first enables | `~Overlap` |
| `Accounts_proofs!UploadsWithinCaps` | the caps on uploads | |
| `WebPages_proofs!SiteTypeCorrect` | `SiteSpec => []SiteTypeOK` | |
| `WebPages_proofs!OrderConfirmed` | an order is what was confirmed, and there is one | |
| `WebPages_proofs!PageSettles` | the workspace page shows what is stored | |
| `DocumentMaking_proofs!EvidenceLeadsBack` | cuts keep the text, files are accounted for, claims lead back | |
| `DocumentMaking_proofs!AnswersReach` | an answer reaches exactly the entries that go by the keys of the chunks it used | |
| `DocumentMaking_proofs!VerdictsStayClean` | a deck ships on a clean verdict | |
| `EditorialPass_proofs!ShippedDecksStaySound` | a deck that ships is sound | |
| `ArticleMaking_proofs!ArticlesHoldTogether` | an article follows its outline and its citations can be looked up | |
| `ArticleMaking_proofs!SuggestionsStayTheBest` | a section is offered the best of what was found for it | |
| `DocumentMaking_proofs!FilesAgree` | the stored files show the saved deck | `~Overlap`, `SameFormats` |
| `DocumentMaking_proofs!EditsStayInside` | an edit touches only its slides | `~Overlap` |
| `DocumentMaking_proofs!PortraitsStayRight` | a face shown is the right one, allowed and credited | |
| `DocumentMaking_proofs!TurnsAreServed` | no timeout or error of a cached call costs a turn its answer, and no request goes over an unanswered call of its turn | |
| `ArticleMaking_proofs!TypeCorrect` | `Spec => []TypeOK`, of all parts of a document's making | |

**The pipeline.** None of the money invariants is inductive: that a refund happens
at most once depends on who may still write one. `RefundInv` says so in three
parts. `HandlerInv` ties the program counter of a request's handler to its rows:
a row exists exactly if the handler answered "enqueued", and a refund exists
only for a handler that is over. `TokenInv` treats the refund of a failed job as
a token: the write that fails the row creates it, at the worker that made the
write; no other worker ever gets it; the refund row spends it. What makes it
work is that a failed row is terminal and that every write that fails a row is
guarded by ownership or done by the one reaper whose update won. `TokenHeldInv`
adds that the token of an unrefunded failure is in somebody's hands while
nothing has crashed. The proofs go action by action; each action's lemma cites
only the parts it can disturb. `TypeOK` contains one fact beyond types, that a
row that waits has no worker; without it a stale worker's identity could pass
the ownership guard of a requeued row. `NoReplyLoss` (`InsertReplyLoss = FALSE`)
is a hypothesis of the money theorems because without it they are false, which
is finding 3. The theorems about the table do not need it; `AttemptsBounded` has
its own strengthening: `claim_job` leaves a claim uncounted, and its second write
takes that back while the row is still the worker's own; the row's claims are then
those counted in `attempts` and the uncounted ones, for what the worker read before
the claim is still what the row says (`ReadIsCurrent`).

**Invoices and answers.** No write of `invoices.py` looks at the status it
replaces, so everything rests on what a call read earlier being still so.
`PaymentInv` says that in four parts. `IssuedInv`: what is named by a message, a
cancel or a payment has been inserted. `OpenInv`: a checkout that is about to
insert has nothing open before it, one about to expire has only what it found.
`CreditInv`: a delivery about to mark or to credit is the only one under way for
its invoice, and nobody was credited for it. `AnswerInv`: what is marked paid is
credited or a delivery is about to; what is credited is confirmed or about to be;
nobody was refused an invoice that is going to be marked. Each of the first
three needs the others: a credit given twice, for example, would take a second
delivery that marks (`CreditInv`) an invoice that is open again, which `OpenInv`
and the statuses exclude. `~Overlap` (calls about one invoice, and checkouts of
one project, follow each other) is a hypothesis because without it the theorems
are false, which is finding 4. The second half of the promise, that what was
confirmed was credited although the process may die, is false too (finding 5)
and is in the invariant only while `faults = 0`.

**Editing sessions.** `TurnsAreSerialized` comes from `LockInv`: a handler is
between its load and its write exactly when it holds the lock, and only a holder
that loaded keeps a copy; a restart empties lock, queue and copies together. The
allowance needs `CountInv`: the edits delivered are those the row counts, plus
one while a holder has not written its copy, plus one for each failure, and the
holder's copy counts them all. It is the lock that makes the copy that strong,
which is why the invariant is inductive only as a whole. `HistoryInv` says that
a row ends in an unanswered call only when that call's change is parked.
`ParkedInv` follows the parked change: it is one of the brain's own, its turn is
over, nobody was told that it is discarded; and `AppliedInv` says, wherever a
change might still be applied (in the row, in a copy, in a turn on its way), that
it has been applied only as often as failures lost a write.

**The conversation.** The first part of `ConversationLeadsOn` holds however
handlers overlap: `FilesInv`, projects are new, so a file that was told to have the
present project is its source. The rest speaks of conversations in which nothing was
out of order (`orderly`, part of the property): no message was pressed while a press
of it was being handled, none ended beside a handler of it. A press out of order
never becomes orderly again, so its steps need no case of their own (`OnlyPlain`),
and what is claimed of orderly states is kept by the plain steps alone: `WholeInv`
is `FilesInv` and, while orderly, `Calm` (no second handler is at work) and
`TalkInv`. `LeadInv` is the claim that some message's buttons work or some handler
will lead on; the other parts say why it stays so. `ShownInv`: a handler shows the
keyboard of the state it leads to before it sets the state, and a generation's
progress message is nobody else's. The assumption that progress messages have names
of their own says what Telegram does: each message sent has its own id.
`PromiseInv`: the data change only when no other handler is at work, so at the
hand-off they still name what was paid for. `EmptyInv`: a new project has no sources
only while a handler that asks for some is about to set the state. `ReviewInv`: what
is under review is in the cache, unless the review is being left. A refused charge
ends with words and no buttons, which the property excepts.

**Charges.** The property is about steps, and each way out of a generation is a case
of it (`Redeemed`). What a step needs to know of the past is `ChargeInv`: only a
generation that pays is charged; and `ServedInv`: one that is opening its session or
answering was served, or its conversation was cleared, and an article still being made has
the slot it will write its files to, or its conversation was cleared. That a
conversation which was cleared stays so, for the generation under way, is
`LinkIsNotRestored` for a presentation; `SlotIsKept` says of an article that only
what clears the conversation takes the slot away.

**Free credits.** The caps are read one after the other and the row is inserted
unguarded, so the bound cannot be on rows alone. `CapsInv` counts, for every cap,
the rows together with the calls that have passed it and not inserted yet, and
bounds the sum by the cap and `crowd`, the most calls ever under way together,
less one. A call passes a cap when the rows are below it, and then at most
`crowd - 1` others can be past it. Midnight empties the daily count; that the
calls past it are still bounded holds because they are among those under way.
The sums are cardinalities of sets of rows, so that the prover can add one
(`InsertAddsOne`); `CapsAssumption` says that the handlers who may ask are
finitely many.

**Accounts.** `DoorInv` carries `OneAccountPerPerson`. `TablesInv`: a Telegram
account is on one row, an identity names a row that is there. `NamedInv`: a row
not inserted yet is named by nobody, and the Telegram account of a row that
somebody names is nobody else's identity. This is what makes a merge safe: the
row of the session has no Telegram account of its own by then, so that of the
orphan moves to it. `HandlerInv` says, for each kind of handler and each of its
steps, what it read and is still so: a login that has not written the identity
goes on with the row of the account, a link knows which row is to be merged. It
stays so because handlers that could collide follow each other (`AloneInv`).
Between the write of the identity and that of the telegram_id of a link the two
disagree, so `AgreeInv` excepts the link at work; and once a call has raised half
way the session may have another Telegram account after a merge, so that part is
claimed only while `faults = 0`, as the property is. `OwnerInv` says of every
project a caller was told of that it has an owner whom a door leads to, and
(`Accounted`) that a charge in abeyance has an active job or an order about to
insert one (`Inserting`), unless it is among the `severed`: those of which a merge
deletes the row the job names, or removed the user an order is about to name. A
merge may come between any two steps of an order. `~Overlap` is a hypothesis of
`OneAccount` and `NobodyStranded` because the properties are false without it
(section 3); of the share link it excludes only rotations and disables beside other
share calls, and `ShareInv` says that an enable about to write read no link and
finds none but another enable's.

The caps on uploads need no hypothesis. `CountInv` says of every key and day that
the calls whose count fitted the limit are no more than the counter, and no more
than the limit: a bump that fits raises both by one, a failure loses a call that
was counted and never the reverse. That the two counts of a call may fall on two
days shows in the set of calls, one per cap and day, that is bounded.

**The creation page.** A handler of the page works with the values of the render
it was made in, so what it knows may be old; `CreationInv` says what is true of
old values nevertheless. `PickInv`: the files of two uses of the picker are
different, and a file waits as long as the project it goes to is being created.
`ReadyInv`: what the page would order is shown as ready, and what is shown as
ready is ordered unless another file of its name was removed. `OrderInv`: the ref
`enqueuing` is held while an order is out or accepted, which a stale handler sees
too (a ref is not a value of a render), so there is one order; what a confirmation
showed as ready is still uploaded, or was removed since, but never anything else.
`ProjectInv`: while no two requests for a project crossed, at most one request is
out, only before there is a project, and all files are stored in it. The theorem
needs no hypothesis: the crossing is part of the property.

**The workspace page.** `WorkspaceSettles` says something only where no call about
a topic failed and no two overlapped. `LoneInv` turns this into what the proof
needs: then at most one thing about the topic is under way, a call, an answer or,
for jobs, a timer. With that, an answer about sources or the share link still
tells what is stored when it lands (`SourcesInv`, `TokenInv`), because what would
change it is itself a call about the topic. The worker is not: it moves a job
while an answer about it is on its way. `JobInv` holds because an answer that says
"completed" or "failed" stays true, and any other makes the page ask again; jobs
come one after another (`QueueInv`), so what polls, polls the last one. `DeckInv`
says that a completed job that is shown has its deck shown, asked for or on its
way; a deck, once there, never goes.

**From files to evidence.** `CutInv` follows the cutting of a page: the pages before
the one at work have chunks exactly if they have text, the chunks of a page follow
each other, and the last chunk of the page at work reaches to where the next one
will start, or further. The last part is what the overlap could break: the next
start is moved back from the split, but only where that still gets on. `ListsInv`:
the files taken up so far are the ids and the failures, and no file is both.
`ClaimsInv`: a claim names a chunk that is kept, or is about to be while its file is
collected; in the bot it is named by its index alone, so the matrix finds a chunk
for it, and with a single file no other file's.

**The interview.** `InterviewInv` says of the matrix the interview starts from, and
keeps, that each entry is filed under the last chunk that goes by its own chunk's
key, and that, where each chunk gave one claim, the k-th entry is of the k-th chunk.
Entries and chunks are paired by position, and then `PairsAreFiled` says that a key
leads to the chunk the entries of that key are filed under; so `ReachedExactly`: an
answer is worked into an entry exactly if it used a chunk of the entry's key.

Both rest on induction over data. The matrix and the claims of a file are joined with
`FlattenSeq`, which is a CHOOSE of a recursive function. The library's induction
theorems cannot be instantiated here, but its least-element principle (`WFMin`, which
takes no operator) can: `LeastElement` gives `Counting`, induction up to a number
for a set, `Counting` gives `Recursion`, that a recursively defined function exists,
and with both `Flattened` says what `FlattenSeq` is.

**The verdict on a deck.** What a pass of the critic said is about the deck it
read, and the deck changes. `RepairInv` follows the repair of the first findings:
the hard stops known are those of slides not rewritten, plus, between the two
passes of the rejudge, what the first of them found; and the count of quiet passes
is what that first pass leaves. `BrainInv` follows the brain: it is asked only
while something stands, every fix it applies sets the count of quiet passes back,
and the two passes behind it are the only ones counted. A pass without a verdict
leaves the set of what stands as it was, so it never leads to a shipped deck.

**The deck that ships.** The property speaks of the end, and every splice on the way
could break it. `DeckInv` says it of every stage. From the draft on the deck is one
of the writer's (`WellMade`: each slide once, none but content slides and the title,
no divider hollow) and opens with the title unless a repair replaced a section
(`failing`); from the gate on it keeps its plan, where a planned figure may be missing
only where a slide of its section was rewritten since. `StageInv` says what is empty
when: no quizzes before they are merged in, nothing rewritten or known before the
critic, no failing section outside a repair. What was known to be unsound stays so
because what a rewrite or a fix is admitted by (`RegenPasses`) compares the new
slide with the one it replaces. The proofs describe each splice by where its slides
come from and where those of the deck went: `Keeps` for what a filter leaves,
`Joins` for joined sequences, `Inserts` for a block put at a place, so that a quiz
merged in before a break is followed by that break or another quiz, by induction over
the quizzes merged so far.

`AnswersAssumption` says what the code may rely on in an answer of a model: nothing
but its shape. Slides carry fresh uuids (`core/models/presentation.py:370`), so a draft
has each id once, and the title, the takeaway and the quizzes have ids of their own;
that a rewrite's sections are new to the deck is a guard of the action. The types of
the pass (`EditorialTypeCorrect`) are a part of `DeckInv`, for a splice keeps a deck
a sequence of slides only because it was one.

**The article.** `ArticleInv` follows the article from stage to stage: `OutlineInv`,
that whatever was proposed, repaired, completed or put in its place is an outline
that follows the template (`Outlined`), and that the drafts so far are those of the
drafting order, each with the non-empty drafts before it; `AssembledInv`, that once
all are written they are put in the outline's order; `PrintedInv`, what was reported
and printed. The abstract is written last and stands first or wherever the outline
has it: `NthPlace` and `TurnOf` are each other's inverse (`TurnsAndPlaces`), which
gives the property, told by places, from the invariant, told by turns. That no two
markers share a number comes from `Appears`: the markers in the order of their first
appearance are each there once, so `EntryNumber` takes them to different entries, and
the entries' numbers differ (`ArticleAssumption`: `_build_citation_metadata` numbers
them by counting).

**The suggestions.** `SuggestionInv` says little of the state: each call is one of the
provider its number tells, for `_query_section` reads the outcomes back by position
(`SearchingInv`), and a call that has something to look up has found it (`CallsInv`).
The weight is in what is computed when the last call has ended. `Sorting` shows that
`Sorted`, which chooses for each place the one element with so many before it, is a
permutation in order whenever its relation ranks (`Ranked`), by counting
(`FS_Injection`). For the merges, `StoodFor` says that something kept is worth no less
than a given find and that likeness leads to it, and `MergedOnes` that merging one
more find upholds this and no DOI is ever kept twice, by induction over what was
merged; the two merges of `_dedupe` follow each other, so the second must uphold what
the first did (`DedupedWell`), and cutting the sorted rest keeps the best
(`FirstAreBest`). `EndedInOrder` and `RaisedTold` count the calls that raised against
the errors told of each provider.

**A deck's files.** Between the save of a run and its last upload the files lag
behind the row. `ShowsInv` says by how much: while a run renders or uploads, its
working copy is the saved deck (or its process died), and every file that it has
uploaded, or that nobody is about to, shows the saved deck or is marked as behind.
`ScopeInv` says what an edit under way may have changed so far: outside the slides
it was asked for, its copy is the saved deck. Both rest on `AloneInv`, that one run
is under way, which is what `~Overlap` says. `SameFormats` (each run asks for all
formats) is a hypothesis of the first: `POST /jobs` would take other formats from
its caller (`api/routes/jobs.py:68`), but no client sends any, the bot always makes
both files, and an edit passes those of its session. With differing sets a file that
is not asked for again would go on showing an older deck.

**A portrait.** `PortraitInv` carries what was true of a candidate when it was
selected to the moment its image is written: from the selection on nobody writes
the slot's person, and from the look at its licence on that licence is allowed.
Credits only accumulate in a slide's notes, whichever of its slots is written
first, until the notes have no room.

**Turns.** `CacheInv` says that the handle the process keeps was given out with
less than its life, so that a turn that takes it before `expiresAt` has the margin
left, however long it waited for the lock; and that a create is the lock holder's.
A call made with a handle never raises but by a broken connection, which the
property leaves out: that end has a name of its own ("broke off").
`CountInv` ties the iterations counted to the answers received: a request that
failed and is repeated, or falls back to one without the cache, counts once. And
`edit_slides` calls are open only while the fix is being settled; calls of other
names come only with a fix, after which their turn sends no request.

**The types of a document.** `TypeCorrect` is proved part by part, each from the
part's own invariant and what that leaves open: `RestTypes` that a page at work is
one of its file or the next, and chunks and matrix entries are of files that were
sent; `DrawnInv` that nobody is selected who was not found; `RetryTypes` and
`LoopTypes` that a turn keeps to its budgets of retries, backoff and iterations,
for which `CountInv` is needed again (a call that falls back gives its iteration
back, and there is one to give). The three parts that select and sort (the pass, the
article and the suggestions) have their types in their invariants. The backoff is a
recursive function rather than a power of two because the prover knows nothing of
powers; it has the same values.

Each of these invariants was checked by TLC on an instance before it was proved
(`EditInv` on 1.2 million states, `CapsInv` on 1.4 million, `PaymentInv` on
0.6 million with two failures, that of the conversation on 0.19 million; the invariants of the accounts on 0.27 million and,
with three links, on 0.11 million; those of the pages on 0.49 million;
those of the machines of a document on 0.6 million).

Only model-checked: the liveness properties (`EveryJobIsSettled`,
`EveryPaymentIsAnswered`, `EveryoneIsAnswered`), for liveness under fairness is
beyond the prover. Every other property of a passing run is stated by a theorem; of
`Purchases` the theorems about invoices are for `Overlap = FALSE`, and what holds
when calls overlap is what the findings are about. No recursive operator is used
anywhere. Filters, sorts and merges of sequences are written with sets of places and
of pairs where a proof depends on what they compute: the prover does not expand
`SelectSeq` or an operator it is given as a parameter, and of a recursive function it
needs a lemma for each, which `Recursion`, `Flattened` and `Sorting` are.

## 6. Not modelled

* Stateless code over documents: prompts, word and layout limits, the questions'
  wording, palettes and emphasis, the TypeScript renderer, the parsers of file
  formats, how a reference is formatted, what a checklist looks for. A
  specification of these would repeat their code in another notation; the models
  take their results as any of a set. This is most of the repository's volume.
* Of the suggestions: the DOI resolver, `suggest_for_section` and the data.gov.uz
  stub, which nothing calls. The engine as a whole is reached by
  `ArticleOrchestrator.generate_suggestions` (`article_orchestrator.py:591`), which
  so far only tests call; it is modelled because the interplay of its calls is the
  part of it that tests cannot exhaust. The report's limit of 100 errors.
* The verifier's calls of a model, which nothing reaches.
* Web authentication (stateless signature checks), the web's login, list, public
  and marketing pages, what its two modelled pages only display, wiring, texts and menus of
  the bot, one-shot scripts.
* Parts of modelled components: the dev-mode auto-confirm and the expiry sweep
  of invoices (nothing calls the latter), the routes that only read, signed URLs
  (an image's lives seven days, an edit may re-render later), the local fallback
  of storage, the cost accounts of model calls, uploaded sources.
* In `PresentationIntake`: calls that raise, restarts, the tier chosen, the
  deprecated mini app, regeneration and editing (`BotFlows` has these).
* More than one conversation, bot process or project where nothing connects them:
  `BotFlows` follows one conversation about one project in one bot process (the
  code says that several instances need a database lock).

Hazards with a property that excepts something say so in `PROJECT.json`. The
limit on a project's sources is read before it is used; a property about it would
have to except every overlap and would then restate the guard. The weightiest the code does not handle at all are that a bot which dies
mid-generation neither resumes nor refunds, and that clearing the chat between
the deduction and `start_generation` leaves nothing to refund by.

## 7. Plan

What was planned is modelled, and every safety property is proved. What would be
worth adding next:

1. Calls about one invoice that overlap: which of the guarantees survive for any
   number of deliveries, stated beside those that need `~Overlap`.
2. Requests for different formats in `DeckOutputs`, once a client can make them:
   `SameFormats` would then have to go.
3. The liveness properties, when a prover can reason about fairness; their
   decreasing measures (attempts, retries, iterations, stages) are bounded by the
   invariants already proved.
