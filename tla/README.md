# OutboxLab in TLA+

OutboxLab is a cold-email campaign sender: a FastAPI modular monolith over
Postgres, with a Python worker and, optionally, a Go sender. Its queue, locks,
caps, suppression list and outbox are tables and SQL. What makes it correct is
therefore the way short READ COMMITTED transactions interleave, which tests of
one handler at a time hardly reach. This directory models those transactions in
TLA+, checks them with TLC and proves with TLAPS what the mailbox guarantees and that
the campaign keeps it, that the campaign's bookkeeping is true, that the queue sends each
job once, that leads and jobs keep in step, what the sequential worker owes to leads that have replied, and that the inbox
stores each reply once, passes none over and matches it to the right message.

Contents

1. [The system: inventory](#1-the-system-inventory)
2. [Plan](#2-plan)
3. [Modules and how they correspond to the code](#3-modules-and-how-they-correspond-to-the-code)
4. [Runs: what is checked and what it shows](#4-runs-what-is-checked-and-what-it-shows)
5. [Bounds](#5-bounds)
6. [Fairness](#6-fairness)
7. [Proofs](#7-proofs)
8. [Findings](#8-findings)
9. [What is not modelled, and why](#9-what-is-not-modelled-and-why)

Paths are relative to the repository; `A` abbreviates `apps/api/app/contexts`.

## 1. The system: inventory

### Processes

| Process | Runs | Concurrency |
|---|---|---|
| API (`entrypoints/api.py`) | one transaction per request; FastAPI commits it after the answer has gone out | any number of requests overlap |
| Python worker (`entrypoints/worker.py`) | a tick: poll the inbox, dispatch at most 50 classified replies, claim at most 10 send jobs, process each in a transaction of its own | sequential; may run beside a second worker, or die at any step |
| Go sender (`apps/sender-go`) | claims with the same SQL and calls `POST /internal/send-jobs/{id}/process` | concurrent calls, HTTP timeout of one minute |

### Components

| Component | State | Operations | Correct when |
|---|---|---|---|
| Campaign domain (`A/campaign/domain`) | lead row: state, steps_sent, stop_reason, reply_intent; job: status, attempts, outbound id | schedule, accepts_send, record_sent, stop_on_reply, fail_lead, next_retry_at | a lead only claims progress that happened; a stopped lead stays stopped |
| Campaign commands (`A/campaign/application/commands`) | campaign status, leads, step-1 jobs | create, add leads, start | start is idempotent; every lead of an active campaign is scheduled and has a job |
| Send queue and processing (`process_send_jobs.py`, `send_job_repo.py`, `internal_send_jobs.py`) | `campaign__send_jobs` | claim (SKIP LOCKED, lease), process, complete, retry, release, cancel, fail | a step is sent at most once unless something failed; steps go out in order; attempts never under-count; every scheduled lead settles |
| Reply consumer (`handle_classified_replies.py`, `reply_feed.py`) | `campaign__processed_events`, leads, jobs | claim a batch, stop a lead, cancel its jobs, acknowledge | one effect per event, every event consumed, no follow-up afterwards |
| Messaging send path (`send_email.py`, `mailbox_send_lock.py`, `outbound_repo.py`) | outbound messages, the mailbox's advisory lock | check suppression, lock, count, insert, call the provider, mark sent | never more recorded messages per UTC day than the cap, never to a suppressed address |
| Messaging inbox (`poll_inbox.py`, `matching.py`, `inbound_repo.py`, `outbox_writer.py`, `suppression_repo.py`) | inbound messages, outbox, suppressions, sync cursor | fetch, match, classify, suppress, record events, advance the cursor | each reply stored once and matched to the message it answers |
| Classifier (`infrastructure/classifier`) | none | rules in order; a model with the rules as fallback | a label out of bounds falls back; a bounce is never the model's word |
| Gmail adapters (`infrastructure/gmail`) | none of ours (Gmail's history) | send; fetch from a cursor, page by page; re-baseline | no reply is passed over in silence; delivery reports are told from automatic answers |
| Mailbox context | mailbox row: cap, cursor | read, advance the cursor | the cursor never runs ahead of what is stored |
| Go sender (`apps/sender-go`) | its batch and its call | claim, call the internal route, give up, restart | a job in two senders' hands is sent once; a job nobody can read holds no other up |
| Identity (`A/identity`) | workspaces, API keys | issue, resolve | a key admits to its own workspace only |
| Request scope (`shared/presentation/middleware.py`, `shared/infrastructure/db/session.py`) | `app.workspace_id` of each pooled connection | admit, set, commit, roll back | a transaction sees its own workspace, a connection in the pool none |
| Campaign queries (`A/campaign/application/queries`) | none | one campaign with its leads, metrics | rates are shares; what was reported is not taken back |
| Viewer, MCP, Prometheus metrics | none that is read back | read | - |

### Interactions

- API, worker and Go sender meet only in Postgres. `campaign__send_jobs` links
  commands and workers; `messaging__outbox` links the poller (writer) and the
  reply consumer (reader); `send_jobs.outbound_message_id` links a reply back to
  its lead; `messaging__suppressions` links the poller to the send path.
- The campaign context calls messaging through the dispatch port
  (`A/campaign/infrastructure/messaging/email_dispatch.py`), which wraps the send
  in a savepoint and turns its exceptions into four outcomes: sent, suppressed,
  deferred, failed. Rolling the savepoint back releases the advisory lock and
  drops the outbound row, even when the provider has accepted the message.

### What is hard

- **Stale copies of leads.** No lead is locked when it is read.
  `LeadRepository.update_many` assigns all columns of the copy a transaction
  loaded to a freshly read row and writes those that differ, so two
  transactions on one lead can mix their columns.
- **At-least-once sending.** A crash, a lost answer of the provider or a lease
  that expires under a live worker repeats a send.
- **Two worker kinds.** The internal route locks the job row and checks that it
  is claimed; the Python drain does neither.
- **Overlapping requests.** `start` and `add leads` act on a status they read
  without a lock.
- **Guards that age.** The suppression check, the cap and the day it is counted
  for are read before the call of the provider.
- **Batches.** One bad job or reply abandons or rolls back the rest.
- **Two clocks.** A call of the Go sender ends after a minute, its request does not; a
  lease ends after five, the batch of its sender perhaps later.
- **A poll is one long transaction** over someone else's log: it reads the cursor
  first, the mail next, the candidates last, and overwrites the cursor at the end,
  while sends commit, other polls run and Gmail drops history.
- **Pooled connections** carry the workspace of the transaction before.

PROJECT.json lists each hazard at its line with the property that covers it.

## 2. Plan

Order of the work, the most important behaviour first.

1. `CampaignDomain`: the rules of the aggregate as operators. *Done.*
2. `MailboxSend`: the abstract promise of the send path to any number of
   transactions, with the cap as its main property, proved. *Done.*
3. `CampaignSending`: every transaction on the campaign's tables. *Done; its types,
   progress, links, step order and count of attempts are proved; while requests do not overlap,
   that a start happens once and what a repeated message costs; and, where jobs are locked too,
   that no lead is stranded.*
4. `CampaignMailbox`: `CampaignSending` implements `MailboxSend`. *Done, proved, and with it
   the cap for the campaign.*
5. `PythonWorker`: the tick restricts `CampaignSending`; liveness. *Done, its safety proved.*
6. `ReplyMatching`, `InboxPolling`: the poll, with the pure matching checked against a
   reference definition inside it. *Done, proved.*
7. `RequestScope`, `SendQueue`: the queue in time with the Go sender, its timeout and
   its restarts, the internal route, tenants on pooled connections. *Done, its safety
   proved.*
8. `CampaignQueries`: what the campaign's reports promise. *Done, proved.*
9. A second reply consumer: lock order, deadlock, and whether each event has
   exactly one effect. *Open; the product with the campaign is too large for TLC as it
   stands, so it wants a module of its own.*
10. `NoStrandedLead` while starts and additions overlap (run `overlapping_requests`): *open.*
    The proof below uses that a lead has one live job; overlapping starts give it two.

Modules that theorems are about use no RECURSIVE operator, declare their
constants with named assumptions, and have one action per operation.

## 3. Modules and how they correspond to the code

| Module | Models | Lines of code in |
|---|---|---|
| `CampaignDomain` | aggregate, lead, retry rule, column-wise write | `A/campaign/domain/*.py`, `lead_repo.py` |
| `MailboxSend` | the send path as a component for any senders | `send_email.py`, `mailbox_send_lock.py`, `outbound_repo.py`, `email_dispatch.py` |
| `CampaignSending` | requests, claims, job processing, poller's effects, reply consumer | `add_leads.py`, `start_campaign.py`, `process_send_jobs.py`, `send_job_repo.py`, `internal_send_jobs.py`, `email_dispatch.py`, `handle_classified_replies.py`, `reply_feed.py`, `poll_inbox.py` |
| `CampaignMailbox` | refinement `CampaignSending` => `MailboxSend` | `email_dispatch.py` |
| `PythonWorker` | the worker's tick as a restriction of `CampaignSending` | `entrypoints/worker.py` |
| `CampaignQueries` | what the campaign's GET routes tell | `get_campaign.py`, `get_campaign_metrics.py`, `lead_repo.py`, `send_job_repo.py`, `routes/campaigns.py` |
| `ReplyMatching` | matching, classification, delivery reports, as operators on messages | `matching.py`, `classifier/*.py`, `receiver.py`, `poll_inbox.py` |
| `InboxPolling` | Gmail's history and the poll's transaction, for several pollers | `poll_inbox.py`, `receiver.py`, `inbound_repo.py`, `outbound_repo.py`, `outbox_writer.py`, `mailbox/gateway.py`, `messaging/.../models.py` |
| `RequestScope` | API keys, the workspace middleware, the internal token, row-level security, as operators on requests | `A/identity`, `middleware.py`, `dependencies.py`, `session.py`, `alembic/versions` |
| `SendQueue` | the queue in time: Go senders, the internal route, pooled connections | `apps/sender-go`, `internal_send_jobs.py`, `send_job_repo.py`, `session.py` |
| `MailboxSend_proofs` | theorems about `MailboxSend` | - |
| `SendQueue_proofs` | theorems about `SendQueue` | - |
| `CampaignSending_types` | type correctness of `CampaignSending` | - |
| `CampaignSending_proofs` | theorems about lead rows, links and step order | - |
| `CampaignSending_counts` | theorems about attempts, about requests that do not overlap, about leads and jobs in step, and about the reported rates | - |
| `CampaignMailbox_proofs` | the refinement, the cap of the campaign, and what repeated messages cost | - |
| `PythonWorker_proofs` | theorems about the sequential worker | - |
| `InboxPolling_proofs` | theorems about `InboxPolling` and `ReplyMatching` | - |
| `MC*` | small instances for TLC | - |

**MailboxSend.** `mail` is what the provider accepted, in order; a message is
`recorded` when the transaction that sent it has committed, which is what
`count_sent_since` counts and what replies can be matched to. `Check` is
`is_suppressed`, `TakeMailbox` is `try_acquire` and the cap, `Defer` is
`MailboxBusyError` or `DailySendCapReachedError`, `Accept` and `LoseAnswer` are the
two ways the provider's acceptance can end, `Commit` is the surrounding
transaction. Several senders can be at any of these points. The row's creation
date is any day between the one the cap was counted for and today. This covers
the test-email route too, which uses the same handler without a job.

**CampaignSending.** The variables are the tables, and one record per worker slot,
reply consumer and API request that says where its transaction is and what it
has read. A transaction is split exactly where it depends on an earlier read:

| Actions | Code |
|---|---|
| `AddLeadsRead`, `AddLeadsCommit`, `AddLeadsConflict` | `AddLeadsHandler.execute` and its commit |
| `StartRead`, `StartList`, `StartFlush`, `StartCommit` | `StartCampaignHandler.execute` and its commit |
| `Claim(batch)` | `ClaimDueSendJobsHandler`, `SendJobRepository.claim_due`, and the Go sender's same SQL |
| `Load`, `NotClaimed` | start of `ProcessClaimedSendJobHandler.execute` and of the internal route |
| `CheckSuppression`, `TakeMailbox`, `ProviderAccepts`, `AnswerLost`, `DispatchFails` | `MessagingEmailDispatch.send` and `SendEmailHandler` |
| `ReadAgain` | the second read of the lead in `LeadRepository.update_many` |
| `FinishSent`, `FinishSuppressed`, `FinishFailed`, `FinishDeferred`, `FinishIneligible` | the branches of `ProcessClaimedSendJobHandler.execute`, with the commit |
| `WorkersCrash(S)` | the loss of a process or its connection, for the slots it ran |
| `Answer` | one matched and classified reply of `PollInboxHandler.run_once` |
| `ReplyClaim`, `ReplyIgnored`, `ReplyLoad`, `ReplyReadAgain`, `ReplyFlush`, `ReplyCommit` | `HandleClassifiedRepliesHandler.run_once` for a batch, one commit for all of it |
| `ConsumerCrash` | that transaction rolled back |

Points a reader may wonder about:

- SQLAlchemy's identity map holds rows weakly, so `update_many` usually selects
  the row again. The flush writes only the columns that differ from what was
  then read (`Written`). `ReadAgain` may follow `Load` at once, which covers a row
  that is still in the identity map.
- A flush takes the row lock and keeps it to the commit. For a worker or a
  request nothing is read between its flush and its commit that matters, so the
  two are one step; the reply consumer goes on to other leads in between, so its
  flushed rows (`rows`, `cancels`) are held, lock others out, and become visible in
  `ReplyCommit`.
- A slot (`Workers`) is a claimed job in hand. `LockingWorkers` are slots of the
  internal route, which holds the job row FOR UPDATE and refuses a job that is not
  running; the other slots are jobs of a Python drain, which does not lock.
- `SlowSends` lets a lease expire while a live worker still has the job. Each
  job that a claim takes over in this way counts as a fault, as do a crash and a lost
  answer: `faults` is what the properties about duplicates and the cap are stated against.
- A poll is one transaction. It is modelled reply by reply: a poll that has
  stored some of its replies looks to the others like a poll that found fewer.
- The retry's due time, the deferral's due time and the lease are times; here
  any pending job may be claimed, and a lease may expire as said above. This allows
  more behaviours than the code, never fewer.

**CampaignMailbox.** A slot is a mailbox sender from its passed suppression check to
the end of its savepoint or transaction; its draft is its job's lead and step.
`MailboxPromise` says every step of `CampaignSending` is a step of `MailboxSend`.

**PythonWorker.** A `turn` variable says which part of the tick is running; each
action of `CampaignSending` is allowed only at its turn, job by job. Everything the
API and the clock do interleaves freely.

**CampaignQueries.** `GetCampaign` and `Metrics` are the two reports, read from the tables
of `CampaignSending` at one moment. They are checked in the runs of that module and of
`PythonWorker`.

**ReplyMatching.** A message is what the receiver keeps of it: ids, thread, sender,
subject as a number of prefixes and a base, the signals of a delivery report, and the
keywords of its own text and of what it quotes. `MatchReply` follows `match_reply` with
its dictionaries (the last of several wins) and its scan (the first wins);
`BestEvidence` says what it is for. A candidate's number is its age
and the query returns the newest first, so a dictionary keeps the least number of several
with one key, and a scan stops at the greatest.

**InboxPolling.** A position in Gmail's history stands for a message and its history id.
A poll begins by reading the cursor (`Begin`), fetches ids page by page (`FetchPage`) or
takes the current position (`Baseline`), reads messages and candidates (`ReadMessages`),
and then works message by message: `Skip` what is stored, `Insert`, or `Wait` for a unique
key that another poll holds and then `Insert` or end in `Conflict`. `Commit` publishes
rows, events, suppressions and the cursor at once; `Abort` drops them. What a poll has
still to do (`queue`) and what it may match (`candidates`) are sets of positions and
numbers; the order the code keeps them in is that of the numbers, so the next message is
the least of the queue. Around it the
provider accepts messages whose transactions commit later or never, recipients answer
with more or less of the headers left, mail is hidden, history expires. `skipped` and
`overlapped` remember what the properties need to know.

**RequestScope.** One operator per gate: `Resolve` for a bearer key, `WorkspaceOf` for the
middleware, `UserAnswer` and `InternalAnswer` for the two kinds of routes, `ScopeOf` for
what a connection's setting lets a transaction see.

**SendQueue.** Minutes pass in `Tick`. `Claim` is the Go sender's transaction; it then calls
the route job by job (`Call`, `CallRefused`), has its answer (`Answered`), or gives up
(`GiveUp`) and leaves the request to itself. A request takes a slot of the API, waits for
the row and locks it (`Lock`, `NotClaimed`), and comes to one of the handler's outcomes
(`CommitSent`, `Cancel`, `Defer`, `DispatchFails`, `AnswerLost`); `RollBack` loses any set of
requests. What an outcome does to the lead is in `CampaignSending`: the two modules
describe the same transaction, one for its time and one for its data. The answer of a
send goes out before the commit, as FastAPI does it.

Mutants of definitions (operators whose comment starts with "Mutant:") stand
before the definition they break. They are not part of the models: they are how
the properties are shown to depend on the code.

## 4. Runs: what is checked and what it shows

| Run | Instance | Properties | Shows |
|---|---|---|---|
| `mailbox_cap` | 3 senders, 2 addresses, cap 2, 4 messages | `TypeOK`, `HolderIsSafe`, `CapRespected`, `OrphansStayUnrecorded` | the daily cap holds across midnight, crashes and lost answers; orphans are never recorded |
| `go_sender` | 3 steps, 1 lead that bounces, 2 locking slots, expiring leases, 1 fault | `TypeOK`, `NoStrandedLead`, `RatesAreShares` | a sendable lead always has its next job, the reported rates are shares of the contacted leads |
| `overlapping_leases` | 2 steps, 1 lead, 2 Python slots, expiring leases, 1 fault | `NoPhantomProgress`, `LinksAreFaithful`, `StepsInOrder`, `AttemptsCoverSlots`, `DuplicatesNeedFaults` | a lead's progress was really sent, links lead back to the right lead: what survives when two transactions process one job without locking it |
| `overlapping_requests` | 2 leads, 2 requests, 1 slot | `NoStrandedLead` | overlapping starts and additions never leave a scheduled lead without a job |
| `mailbox_refinement` | 2 leads, 2 locking slots, cap 1, 1 fault | `MailboxPromise`, `CampaignRespectsCap`, `CapPlusFaults` | the campaign keeps the mailbox's promise; what the provider accepted exceeds the cap at most by what faults lost |
| `python_worker` | 2 leads, 2 steps, 3 messages, 2 intents, batches of 2, 1 fault | `PythonTypeOK`, `PendingOnlyInDraft`, `StoppedShowsNoSend`, `RepliesTakeEffect`, `WorkerKeepsStopped`, `NoMailAfterReply`, `NoMailToSuppressed`, `CountsNeverDrop` | with the one sequential worker of the demo, the promises of README "Demo path" hold, with the exceptions `NoMailAfterReply` names |
| `python_liveness` | 1 lead, 2 steps, cap 1, 2 faults | `LeadsSettle`, `RepliesConsumed` | every scheduled lead settles and every reply is consumed, through faults and days that use up the cap |
| `inbox_polling` | 2 pollers, 2 polls, 2 addresses with one subject, at most 3 sends and 2 replies of 3 kinds (4 messages in all), pages of 2, 2 candidates, 1 incident | `TypeOK`, `NothingMissed`, `OneRowPerMessage`, `RightRecipient`, `FirstReplyIsMatched`, `SecondAnswerNeedsOverlap`, `SuppressionsAreJustified`, `MatchIsBestEvidence` | overlapping polls store each reply once and pass none over; a match and what follows from it concern the lead that answered |
| `send_queue` | 3 senders (one with a wrong token), 3 jobs (one unreadable, one of another workspace), 2 slots, lease and timeout of 1, batches of 2, 2 attempts, 1 deferral, 1 fault, 1 user | `TypeOK`, `SentOnce`, `GivesUpInTime`, `ScopeIsOwn`, `BackoffHolds`, `JobsSettle` | neither late calls nor expired leases send a job twice or before its backoff; every job somebody can serve settles; nobody sees another workspace |
| `follow_up_after_reply` | 3 steps, 1 slot | violates `RepliedLeadGetsNoFollowUp` | finding 1 |
| `overlapping_starts` | 1 lead, 2 requests | violates `StartIsIdempotent` | finding 2 |
| `add_leads_during_start` | 2 leads, 2 requests | violates `PendingOnlyInDraft` | finding 3 |

`NoMailAfterReply` has two exceptions, both real: when the dispatch of replies
raises, the tick goes on to send (`worker.py:191`), and a tick dispatches at most
one batch (`REPLY_BATCH_SIZE`) before it sends. `NoStrandedLead` is not claimed for two
unlocked drains on one job: there a second transaction can cancel the job the
first has just set.

`StoppedShowsNoSend` has one exception too: a job that a crash left running is shown as the
lead's next send until its lease has run out. `RatesAreShares` is not claimed for overlapping
starts, where a lead that has replied and is set back by the second start (finding 2) counts as not
contacted, nor for drains that overlap on one job, where the old copy of a failing send does the same. `FirstReplyIsMatched` names what a reply needs to be matched for sure: to come after
the commit of the transaction that sent the message, to keep the message's name or thread, to
be the recipient's first, and to answer one of the newest `CandidateLimit` messages. Without
any one of them TLC finds a reply that is not. `SecondAnswerNeedsOverlap`: two polls that overlap have each
read their own candidates, and can match two answers to one message.

Deadlock is checked in `mailbox_cap`, in both Python worker runs and in `send_queue`. The other
runs stop legitimately when the campaign has settled or a bound is reached.

## 5. Bounds

| Bound | Where | Why it is enough |
|---|---|---|
| `MaxMail` (3-4) | guard of `Deliver` | one message per step and lead, and at least one more: room for a repeated send; no property is about long histories |
| `MaxFaults` (0-2) | `Fault` | one fault separates each kind of crash, lost answer and overlapping lease from normal running; two in the liveness run use up a job's attempts |
| `Steps` (1-3) | constant | three where a middle step differs from the first and the last; two where first and last suffice |
| `ReplyIntents` | constant, six in the code | one that suppresses the address or one that only stops the lead; both in `python_worker`, where a suppressed address would hide a follow-up to a stopped lead |
| leads (1-2) | constant | leads interact only through the cap, a batch and a set of new leads: two |
| slots (1-3) | constant | two to race for one job or the lock, three to see a third after a release |
| `MaxSendAttempts` (1-2) | constant, 3 in the code | one retry and the last attempt; every attempt in between is like the first |
| `ReplyBatchSize` (2) | constant, 50 in the code | two leads in one transaction; events beyond the batch occur in the larger run |
| `MaxSends` (3), `MaxReplies` (2), `MaxMail` (4 messages in Gmail, of both kinds) | `Accept`, `Answer` | either two sends and two replies to match and order between them, or three sends, of which the oldest is beyond the limit, and a reply |
| `MaxPolls` (2) | `Begin` | two polls, one after the other or overlapping |
| `PageSize`, `CandidateLimit` (2; 100 candidates in the code) | constants | history has up to two pages, and mail can arrive between them; the third send is beyond the limit |
| `MaxIncidents` (1) | `Incident` | one lost send, hidden message, expiry or aborted poll |
| `Lease`, `HttpTimeout` (1 minute; 5 and 1 in the code) | constants, proved for any | the shortest lease that a call can use up; a batch of two then outlives it |
| `MaxLate` (0) | `due` | a job that is due has no age: ties are broken in any order, which includes `ORDER BY scheduled_at` |
| `MaxDeferrals`, `MaxFaults`, `MaxReads` (1) | `Defer`, `Fault`, `BeginRead` | one of each between two claims of a job; a user's request is over before the next |
| days | `NextDay` only after mail was sent on the day | days without mail are all alike, so days are bounded by `MaxMail` |

Jobs need no bound of their own: a job is created for a lead that is added or
started and for a message that was accepted. Symmetry is used on slots and senders,
never in a liveness run or one with a refinement.

## 6. Fairness

Two specifications are fair.

`FairPythonSpec`. The worker's loop sleeps and runs its next part for
ever, every exception is caught, and its HTTP calls have timeouts: weak fairness of
passing the polling turn, of the dispatch, of the claim and of the drain. A job
that is due stays due and claims are ordered by `scheduled_at`, so a job that is
claimable in infinitely many ticks is claimed: strong fairness of `ClaimsJob(j)` for
each job. Midnight comes: weak fairness of `NextDay`. Nothing is assumed of API
clients or of recipients, so a campaign need not be started and a reply need not
come. Faults are bounded by `MaxFaults`, so they stop; with unbounded faults no lead
would have to settle.

`FairSpec` of `SendQueue`. Time passes: weak fairness of `Tick`. The loop of a sender that is
let in does not end, and it works its batch off: strong fairness of `Call`, which needs a
free slot that others may take first. A request that is served comes to an end, and row
locks are granted: strong fairness of `Serves`. A job that is claimable again and again is
claimed in the end by each sender of its workspace (strong fairness of `Claim` with the job in
the batch): claims are ordered by `scheduled_at`, and as each sender adds a random jitter to its
poll interval (`main.go:49`) no rival is first for ever. Nothing is assumed of users, of
senders with a wrong token, or of faults and deferrals, which are bounded.

## 7. Proofs

Every safety and action property that a passing run checks is the subject of a theorem, for
every value of the constants that the assumptions of the modules allow; some under hypotheses
that the statement names and the text explains. The liveness properties are TLC's alone.

### The mailbox

`MailboxSend_proofs` proves for all sets of senders, addresses and bodies, all caps
and all lengths of mail (the only assumption is `SendAssumption`, that the cap and
the bound are natural numbers):

| Theorem | States |
|---|---|
| `TypeCorrect` | `Spec => []TypeOK` |
| `HoldersAreSafe` | `Spec => []HolderIsSafe` |
| `CapHolds` | `Spec => []CapRespected` |
| `OrphansHold` | `Spec => OrphansStayUnrecorded` |

The cap is not inductive. It survives `Commit` only because the committing sender is
alone with the lock (`LockIsExclusive`), still has room under the count it checked
(`RoomUnderLock`), and its message is dated no earlier than that check and not yet
recorded (`AcceptedIsOwn`); together they are `HolderIsSafe`. It survives `NextDay`
because no mail is dated in the future (`NoFutureMail`). The message that is appended
is well formed because a sender that is not idle has a draft (`HasDraft`). The
inductive invariant `IInv` is the conjunction of these with `TypeOK` and the cap.
`CommitStep` is the heart of the proof: for the message's own day the set of recorded
messages gains one element and is contained in the set that was counted under the
lock, which was strictly smaller than the cap; for every other day it does not change.

### The campaign

`CampaignSending_types`, `CampaignSending_proofs` and `CampaignSending_counts` prove for every
number of leads, steps, slots (locking or not), consumers and requests, every batch size,
cap, number of attempts and of faults, and with or without slow sends. The assumptions are
`DomainAssumption` (a campaign has a step, a job an attempt) and `SendingAssumption` (the
leads and the slots are finite; the other constants have their types).

| Theorem | States |
|---|---|
| `TypeCorrect` | `Spec => []TypeOK` |
| `Invariance` | `Spec => []IInv` |
| `NoPhantomProgressHolds` | `Spec => []NoPhantomProgress` |
| `LinksHold` | `Spec => []LinksAreFaithful` |
| `OrderHolds` | `Spec => []StepsInOrder` |
| `AttemptsHold` | `Spec => []AttemptsCoverSlots` |
| `PendingHolds` | `OneAtATime => (Spec => []PendingOnlyInDraft)` |
| `StartsOnce` | `OneAtATime => (Spec => []StartIsIdempotent)` |
| `InStepAlways` | `OneAtATime /\ OneFeed /\ LockingWorkers = Workers => (Spec => [](Alone /\ InStep))` |
| `NotStranded` | the same hypotheses `=> (Spec => []NoStrandedLead)` |
| `RatesHold` | the same hypotheses `=> (Spec => []RatesAreShares)` |

*Types.* `TypeOK` is not inductive: a transaction indexes jobs, events and mail with what
it read, and writes a lead's row over a row it read before. `Typed` adds that those indices
stay in range and that the lead of a job, of a consumer in the middle of an event and of
a listed request exists. It survives because jobs, mail and events only grow and a job
keeps its lead and step (`Follows`).

*Progress.* The danger is `update_many`: it mixes a stale copy into the current row,
column by column. A row is `Earned` if each step up to its `steps_sent` was sent and
recorded, and all of them if it says it is done. `IInv` asks this not of the table alone
but of every copy: what slots have loaded, what consumers are about to write and what
they have written without committing. Three facts carry it. A record is never taken back,
so a copy stays earned however old it gets (`EarnedStays`). Each of the two columns
is backed by itself, so a mix of two earned rows is earned (`EarnedWritten`), whatever the
row was compared with. And the only operation that claims more, `RecordSent`, claims
exactly the step that its own transaction records: the slot's copy is one step before its
job's (from `AcceptsSend`, kept in `SlotEarned` until the end), and the message it holds is
its job's. The same copy is the reason for `StepsInOrder`: the step before the message
is in an earned copy (`DeliverReal`). `LinksAreFaithful` needs that a job's link, once set,
is only ever replaced by another message of the same job.

No lock and no lease occurs in these proofs. The three properties hold also for
drains that overlap on one job, which is why the finding about follow-ups after a reply
(section 8) is about the columns that stop a lead and not about its progress.

*Attempts.* `AttemptsCoverSlots` says that a job's count is at least the number of slots that
have it in hand, which also keeps the count from going below zero. A claim adds one attempt and
one slot to each of its jobs, a deferral takes one of each away, everything else only lets
slots go. For the sum to be right a slot that is claimed must not have been counted before:
an idle slot has no job (`IdleSlots`). `Counted` is the inductive invariant.

*Requests that do not overlap.* `OneAtATime` says that there is at most one client. It is a
hypothesis of the theorem and not an assumption on the constants, since the code does not
enforce it: with two clients the runs `overlapping_starts` and `add_leads_during_start` refute
both properties. What the hypothesis buys is `Orderly`: as long as the campaign is a draft
nothing but new leads exists (`DraftIsBlank`), a start still sees the draft it has read, its
list is all pending leads (`RequestsFit`), and consumers are at work, without pending leads in hand,
only once the campaign is active (`RowsSettled`).

*Leads and jobs in step.* `NoStrandedLead` says that a lead that may be sent to has its next job
queued or in hand. Rows are written from copies while others write them: the slot that works on
the lead's job and the consumer both hold copies of one row, and neither locks it while it
reads. The hypotheses say who else could: with `LockingWorkers = Workers` each job is processed
under the row lock of the internal route, so a transaction that has begun is the only one of its
job (`Alone`); with `OneFeed` there is one consumer, as in the code; with `OneAtATime` requests
write leads that are new. Each copy is then of a row that at most *one other* transaction has
changed since, and only once. `InStep` states what this comes to, and is inductive:

- `OneLiveJob`, `JobsFit`, `Queued`: a lead has at most one pending or running job; it is for the
  step after the last one sent, unless the lead has been stopped; and a sendable lead has one.
- `RowsSound`: what the columns have to do with each other. A sendable row has neither a reason
  nor a reply; a row with a reply, or that a reply could stop, has been sent to. It holds of
  mixed rows because each mix that can occur is looked at (`SentRow`, `FailedRow`, `StoppedRow`).
- `SlotsFit`: what a slot has read again is as old as what it began with, or it is the row as it
  is now, of a lead that has been stopped in between (`CopiesFit`).
- `ConsumersFit`: a row that the consumer is about to write is stopped and no further than the
  lead's job (`Behind`); its lead is still being sent to, or has nothing left to do (`Answers`).

The interleaving of finding 1 is inside this invariant: a send that writes over the stop makes
the lead `sent` again *and* queues its next job, so a lead that a reply should have stopped is
sent to, but none is forgotten. The run `go_sender` is an instance of the hypotheses;
`overlapping_requests` checks `NoStrandedLead` beyond them, where no theorem reaches.

*Rates.* `RatesAreShares` compares a count of rows with sums of counts over the intents, which the
code adds up in Python (`Replied`). `SumOfCounts` says what such a sum is: if `c[i]` counts the
members of `K` with the value `i`, the sum of `c` over `S` is the number of those with a value in
`S`. This is an induction over `S`, done with a least counterexample (`LeastSize`, from the
library's `WFMin`) for the function that `MapThenSumSet` chooses. The rest is `RowsSound`: a lead
that has replied or bounced has been contacted, and none counts for both.

### The refinement

`CampaignMailbox_proofs` proves under the same assumptions:

| Theorem | States |
|---|---|
| `Implements` | `Spec => MailboxPromise` |
| `CapHolds` | `Spec => []CampaignRespectsCap` |
| `CapPlusFaultsHolds` | `Spec => []CapPlusFaults` |
| `DuplicatesHold` | `OneAtATime => (Spec => []DuplicatesNeedFaults)` |

`Implements` is the step simulation of `MailboxSend` by `CampaignSending`: each step of a slot
is the step of one sender, a crash is the crash of its senders, a reply suppresses an address,
and everything else leaves all senders alone. A slot keeps `since` and `msg` when a sender would
clear them, so the mapping needs an invariant of its own: outside the mailbox they are clear
(`Quiet`), and drafts are of jobs that exist (`Typed`).

`CapHolds` is not proved again. `Facts` is the instance of `MailboxSend_proofs` under the
refinement mapping; `SafeAlways` carries its inductive invariant over to the campaign, step
by step along the simulation. `CapPlusFaults`, which bounds what was really accepted on a day,
adds an account: a message is recorded, or some slot still has it in hand, or it is an orphan,
and orphans are at most as many as faults (`OrphansCharged`). A slot with an unrecorded message
holds the lock, so on one day these are the recorded ones, at most one more below the cap, and
orphans (`CapOfDay`).

`DuplicatesHold` says that a step goes to a lead at most once more than there were faults: for any
number of slots, locking or not, and any number of overlapping leases. The account is per lead
and step (`Ledger`). Each message of the step, each slot that may still send one and each of the
step's jobs that waits to be claimed (`Spent`) is paid for, by the step's jobs or by faults. The
difficulty is that a repeated message repeats what follows it: two transactions of one job both
queue the next step's job, so the faults of step 1 come back as duplicates of steps 2, 3 and so on.
`FollowUps` bounds the jobs of a step by the recorded messages of the step before, and `Costs`
asks for *one* function `f` of what the steps up to each have cost, no more than all faults:
a step pays with the faults of its own and has as many jobs as the steps before have cost, and
one. `PaidStep` finds the new function at each action that costs a fault (for the step it
happens at and those after it). A claim costs one fault for each of its jobs that is still in
another slot's hands. `OneAtATime` gives the first job (`OneFirstJob`); with overlapping
starts a lead has two of them without any fault.

### The Python worker

`PythonWorker_proofs` adds `PythonWorkerAssumption` (no slot locks its row, and there is one
consumer: that is what the worker is) and proves for every number of jobs in a batch:

| Theorem | States |
|---|---|
| `WorkerImplements` | `PythonSpec => Spec` |
| `PythonTypeCorrect` | `PythonSpec => []PythonTypeOK` |
| `WorkerInvariant` | `OneAtATime => (PythonSpec => []PInv)` |
| `KeepsStopped` | `OneAtATime => (PythonSpec => WorkerKeepsStopped)` |
| `SuppressedGetNothing` | `OneAtATime => (PythonSpec => NoMailToSuppressed)` |
| `RepliedGetNothing` | `OneAtATime => (PythonSpec => NoMailAfterReply)` |
| `EffectsHold` | `OneAtATime => (PythonSpec => []RepliesTakeEffect)` |
| `StoppedShown` | `OneAtATime => (PythonSpec => []StoppedShowsNoSend)` |
| `NextStepQueued` | `OneAtATime => (PythonSpec => []NoStrandedLead)` |
| `SharesHold` | `OneAtATime => (PythonSpec => []RatesAreShares)` |
| `RowsMoveOn` | `OneAtATime => (PythonSpec => [][\A l \in Leads : MovesOn(lead[l], lead'[l])]_pvars)` |
| `CountsKept` | `OneAtATime => (PythonSpec => CountsNeverDrop)` |

By `WorkerImplements` all that is proved of `Spec` is true of the worker. What `Spec` alone does
not give is that nothing the worker has read is out of date when it writes; that is `PInv`:

- `TurnsTaken`: slots are busy in the drain only, the consumer in the dispatch only, and one
  transaction is open at a time. `JobsHeld`: busy slots have running jobs, each its own.
- `SlotsFresh`, `RepliesFresh`: what a slot and the consumer have read is what the tables say.
  Nobody else writes these leads in the meantime but a request, and a request writes leads that
  are new, or starts a campaign that has no jobs; for the latter `PInv` contains `Orderly`, and
  so the theorems need `OneAtATime`.
- `Answered`: a recorded message shows in its lead and in a job that is done for good, events
  are about recorded messages, and a consumed one has left its mark.
- `CaughtUp`: unless something has failed or there are more replies than a batch, the worker
  claims jobs only after it has consumed every reply. With `SlotsFresh` this is `NoMailAfterReply`.
- `Unfaulted`: unless something has failed, a lead has one job to come, a stopped lead none, and
  running jobs are in hand. This is `StoppedShowsNoSend`.

`IInv` of the campaign is in `PInv` as well: a lead only moves on to rows that are earned.

The worker's slots lock no job, so `NotStranded` and `RatesHold` do not apply to it; but `JobsHeld`
implies `Alone`, and that is all the steps of `InStep` ask for (`PythonInStep`). From there
`RowsMoveOn` says of each step and each row that no step count goes down, that a reply or a
bounce that was recorded stays, and that a lead at its end does not come back (`MovesOn`). It
needs two facts more (`Tidy`): a lead that is done has not been stopped, and a stop that the
consumer is about to write leaves the number of steps alone. Neither holds of stale copies.
`CountsKept` is what the reports make of it: each count is the size of a set of leads, or of
leads and steps, that only grows (`Tallied`, `CountsGrow`); the list's sum over the states is one
of them by `SumOfCounts`.

### The send queue

`SendQueue_proofs` proves for all jobs, senders, slots, workspaces, keys and users, any lease,
timeout (of at least a minute, and no longer than the lease), batch size, number of
attempts and bounds. The assumptions are `ScopeAssumption` (the markers for no or a malformed
workspace are not workspaces) and `QueueAssumption` (jobs are finite, no two keys have one
prefix, which is the constraint `uq_api_keys_prefix`, and users are not senders).

| Theorem | States |
|---|---|
| `TypeCorrect` | `Spec => []TypeOK` |
| `SendsOnce` | `Spec => []SentOnce` |
| `GivesUp` | `Spec => []GivesUpInTime` |
| `BackoffIsKept` | `Spec => BackoffHolds` |
| `ScopesAreOwn` | `Spec => []ScopeIsOwn` |

The argument is the row lock's: a transaction holds a row alone (`OneHolder`), only while the
job is running (`HeldRuns`), and no claim touches a job whose row is held. A running job is
due (`RunsWhenDue`), so whoever locks the row, however late, does not shorten a backoff:
rescheduling makes the job pending, and the next call for it finds nothing. Each failure has
an attempt of its own (`FailuresAccounted`): an attempt is counted when the job is claimed,
a deferral takes back one that has not failed. And of the messages the provider has accepted
all but one have cost a fault (`DeliveriesCharged`), since the one that a transaction is about
to record is known by its lock until the commit or the roll back. The lease and the timeout
occur nowhere in it: they are there for progress, not for safety.

`ScopeIsOwn` rests on `ScopesInv`: the setting of a connection is that of the transaction it is
in, and none between two. That a transaction's workspace is its caller's comes from `RequestScope`:
a key that is found by its prefix is the only one with it, and the internal route takes the
workspace the sender names only with the token.

### The inbox

`InboxPolling_proofs` proves for all pollers, addresses, subjects, answers and models, any size
of page and of the candidate list, and all bounds. `InboxAssumption` says that the two sizes are
positive, and that the mailbox's own address and the daemon's are not those of recipients.

| Theorem | States |
|---|---|
| `TypeCorrect` | `Spec => []TypeOK` |
| `StoredOnce` | `Spec => []OneRowPerMessage` |
| `MissesNothing` | `Spec => []NothingMissed` |
| `MatchesAreRight` | `Spec => []RightRecipient` |
| `MatchesBestEvidence` | `Spec => []MatchIsBestEvidence` |
| `FirstIsMatched` | `Spec => []FirstReplyIsMatched` |
| `AnswersOnce` | `Spec => []SecondAnswerNeedsOverlap` |
| `SuppressesWithReason` | `Spec => []SuppressionsAreJustified` |

All of them rest on `Base`: the types, that headers name no message, the one that was answered
or one that is none of ours (`MailIsFaithful`), that what a poll has in hand comes from the
mailbox (`InRange`), and that a row is matched to a message to the one who wrote (`Right`).
The mailbox only grows (`MailGrows`), so what was true of a copy stays true.

- *Stored once* (`KeysOwned`): a row that a poll has inserted is the only one of its message. The
  message has left the poll's own queue, no other poll holds its key, nobody has stored it.
- *Nothing missed* (`NothingDropped`): each poll accounts for every reply up to where it will put
  the cursor (`Followed`): stored, hidden, skipped by a re-baselined cursor, or still carried in
  its queue, its rows, or the `gap` it jumps over because its
  cursor is missing or has expired. This has to be said of each open poll and not of the cursor
  alone, since polls overwrite each other's cursor, also backwards.
- *One answer* (`AnsweredOnce`): what a poll has matched is no candidate of it any more (`Spent`), and
  while polls do not overlap what is stored is no candidate of the one that is open (`Unspent`).
- *The first reply* (`FirstFound`): a message that came in time and names what it answers can
  be matched as long as it is in a queue (`Matchable`): its message is a candidate, or has been
  matched before, or is too old for the list. The last is counting: of the messages up to the
  newest, those that are left out are followed by as many as the list holds (`NewestLeavesOld`).
- *Best evidence*: not an invariant of the poll but a fact about `MatchReply`, proved for any
  message and any candidates (`EvidenceIsRank`, `Matched`). The code's dictionaries and its scan are minima and
  maxima of sets of numbers; `MinIn` and `MaxIn` say that these are in the set, from the
  library's least-number principle (`WFMin`).
- *Suppressions* (`AllJustified`): the evidence is in the mailbox, from where nothing disappears.

### Only model-checked

- Liveness under fairness (`LeadsSettle`, `RepliesConsumed`, `JobsSettle`), which is out of the
  prover's reach.
- `NoStrandedLead` where requests overlap (`overlapping_requests`). It is not claimed of two
  unlocked drains on one job, nor is `RatesAreShares`: TLC finds a lead that has replied and that
  the old copy of a failing send makes look as if it had never been contacted.
- What bounded runs show and proofs presuppose: that actions happen at all, that each property can
  be broken by a change of the code, and the three findings, which are counterexamples.

## 8. Findings

1. **A follow-up after a consumed reply** (`follow_up_after_reply`). A send in flight
   while the reply is consumed reads the paused lead again in `update_many` and writes
   `state`, `steps_sent` and `stop_reason` from its older copy (`lead_repo.py:58`), and
   queues the next step; that step's own transaction finds the lead eligible. README
   ("The campaign consumer pauses the lead and cancels the follow-up") and ADR 0014
   ("it re-checks the lead state at the start of its own transaction") promise that
   it does not. It takes a worker besides the reply consumer: the Go sender, or a second
   worker. `WorkerKeepsStopped` shows that the single Python worker is not affected.
2. **Starting is not idempotent when starts overlap** (`overlapping_starts`). Both
   requests read `draft` and queue step 1 (`start_campaign.py:40`); README says it is
   idempotent.
3. **Leads added during a start stay pending** (`add_leads_during_start`). The addition
   acts on the status it read (`add_leads.py:43`); starting again returns early, so
   nothing schedules them. The route promises that they are scheduled at once.

## 9. What is not modelled, and why

- **A second reply consumer**, and with it lock cycles between consumers: with the campaign's
  tables the instances are too large. A cycle ends as `ConsumerCrash`.
- **Storing is not forced.** `InboxPolling` has no liveness: a poll that meets a message it cannot
  store (a hazard of its own) rolls back each time, and no code gives such a message up.
- **History as Gmail really keeps it**: a message appears once; repeated history records are
  removed by the receiver, and are not modelled. A suppression that two polls add at once is one
  `ON CONFLICT DO NOTHING`; that the second waits for the first is left out.
- **Torn reports.** `CampaignQueries` reads a report at one moment, although its statements see
  different ones.
- **Revocation of API keys**: the column is there, no code sets it. Issuing keys happens before
  the behaviours of `SendQueue`.
- Replies that match nothing and test emails in `CampaignSending` (they are in `InboxPolling`
  and `MailboxSend`); message texts, ids, MIME, timestamps other than days or minutes: no
  property depends on them.
- What the LLM answers is external: any member of `LlmAnswers`.
- Mailbox and workspace listings, viewer, MCP, HTTP routing, Prometheus counters: nothing reads
  their results back.
- Migrations, deployment, CI: not program logic.

To run: `tlc -config MCGoSender.cfg MCCampaignSending` (the table in PROJECT.json pairs
each `.cfg` with its module), and `tlapm` on each module with theorems: `MailboxSend_proofs`,
`CampaignSending_types`, `CampaignSending_proofs`, `CampaignSending_counts`,
`CampaignMailbox_proofs`, `PythonWorker_proofs`, `SendQueue_proofs` and `InboxPolling_proofs`.
