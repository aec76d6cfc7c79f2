--------------------------- MODULE CampaignSending ---------------------------
(***************************************************************************)
(* One campaign over the tables it shares with its mailbox, and every      *)
(* transaction that writes them: API requests that add leads and start the *)
(* campaign, workers that claim send jobs and process them, the inbox      *)
(* poller, and the consumer of classified replies.                         *)
(*                                                                         *)
(* Postgres runs the transactions at READ COMMITTED, and no lead row is    *)
(* locked when it is read.  So each transaction is split where it depends  *)
(* on an earlier read: it loads a lead, does its work, reads the row again *)
(* in LeadRepository.update_many and writes the columns that differ.  The  *)
(* flush takes the row lock and holds it until the commit, so flush and    *)
(* commit are one step here, except in the reply consumer, which goes on   *)
(* to other leads in between.                                              *)
(*                                                                         *)
(* Time is abstract: a pending job may be claimed at any moment (its       *)
(* scheduled_at has come), and a lease may expire as soon as no worker is  *)
(* busy with the job, or, with SlowSends, while one still is.              *)
(***************************************************************************)
EXTENDS CampaignDomain, Sequences, FiniteSets

CONSTANTS
    Leads,           \* addresses that can be added to the campaign
    ReplyIntents,    \* intents the classifier, or the bounce flag, produces
    Workers,         \* slots: claimed jobs that can be in hand at the same time
    LockingWorkers,  \* slots of the internal route, which locks the job row
    Consumers,       \* reply consumers
    ReplyBatchSize,  \* REPLY_BATCH_SIZE, 50 in the code
    Clients,         \* API requests that can be running at the same time
    SlowSends,       \* whether a lease can expire under a live worker
    DailySendCap,    \* mailbox.daily_send_cap
    MaxMail,         \* bound: messages the provider accepts
    MaxFaults        \* bound: crashes, lost answers and overlapping leases

ASSUME SendingAssumption ==
    /\ IsFiniteSet(Leads)
    /\ IsFiniteSet(Workers)
    /\ ReplyIntents \subseteq Intents
    /\ LockingWorkers \subseteq Workers
    /\ ReplyBatchSize \in Nat \ {0}
    /\ SlowSends \in BOOLEAN
    /\ DailySendCap \in Nat
    /\ MaxMail \in Nat
    /\ MaxFaults \in Nat

VARIABLES
    status,       \* campaign__campaigns.status
    lead,         \* campaign__leads, by address; NoRow before the lead is added
    jobs,         \* campaign__send_jobs, in order of creation
    mail,         \* what the provider accepted; recorded = the row is committed
    events,       \* matched ReplyClassified events of the outbox
    processed,    \* campaign__processed_events
    suppressed,   \* messaging__suppressions
    day,          \* the current UTC day
    send,         \* what each worker slot is doing
    reply,        \* what each reply consumer is doing
    request,      \* what each API request is doing
    faults        \* faults so far

tables == <<status, lead, jobs, mail, events, processed, suppressed>>
vars == <<status, lead, jobs, mail, events, processed, suppressed, day,
          send, reply, request, faults>>

-----------------------------------------------------------------------------
(* Types.                                                                  *)

NoRow == [state |-> Null, steps_sent |-> 0,
          stop_reason |-> Null, reply_intent |-> Null]

Rows == LeadRows \cup {NoRow}

Jobs == [lead : Leads, position : 1..Steps, status : JobStatuses,
         attempts : Int, outbound : Nat]

Mails == [to : Leads, body : 1..Steps, day : Nat, recorded : BOOLEAN]

Events == [mail : Nat \ {0}, intent : ReplyIntents]

\* A worker's transaction ends in one of Outcomes; the lead row is read again
\* (seen # NoRow) before an outcome that writes it.
Outcomes == {"accepted", "refused", "failed", "deferred", "ineligible"}

Sends == [phase : {"idle", "claimed", "loaded", "checked", "sending"} \cup Outcomes,
          job : Nat, attempts : Int, snap : Rows, seen : Rows,
          since : Nat, msg : Nat]

\* A consumer has claimed a batch of events, of which todo are left; it has
\* written rows and cancelled jobs, and works on one lead.
Replies == [phase : {"idle", "claimed", "loaded", "read"},
            batch : SUBSET Nat, todo : SUBSET Nat,
            lead : Leads \cup {Null}, new : Rows, seen : Rows,
            rows : [Leads -> Rows], cancels : SUBSET Nat]

Requests == [phase : {"idle", "adding", "starting", "listed", "flushed"},
             active : BOOLEAN, leads : SUBSET Leads, seen : [Leads -> Rows]]

IdleSend == [phase |-> "idle", job |-> 0, attempts |-> 0, snap |-> NoRow,
             seen |-> NoRow, since |-> 0, msg |-> 0]

NothingSeen == [l \in Leads |-> NoRow]

IdleReply == [phase |-> "idle", batch |-> {}, todo |-> {},
              lead |-> Null, new |-> NoRow, seen |-> NoRow,
              rows |-> NothingSeen, cancels |-> {}]

IdleRequest == [phase |-> "idle", active |-> FALSE, leads |-> {},
                seen |-> NothingSeen]

TypeOK ==
    /\ status \in CampaignStatuses
    /\ lead \in [Leads -> Rows]
    /\ jobs \in Seq(Jobs)
    /\ mail \in Seq(Mails)
    /\ events \in Seq(Events)
    /\ processed \subseteq DOMAIN events
    /\ suppressed \subseteq Leads
    /\ day \in Nat
    /\ send \in [Workers -> Sends]
    /\ reply \in [Consumers -> Replies]
    /\ request \in [Clients -> Requests]
    /\ faults \in 0..MaxFaults

-----------------------------------------------------------------------------
(* Shared definitions.                                                     *)

Added(l) == lead[l] # NoRow

JobOf(w) == jobs[send[w].job]

\* The internal route holds the job row FOR UPDATE from its first statement.
RowLocked(j) == \E w \in LockingWorkers :
    send[w].job = j /\ send[w].phase \notin {"idle", "claimed"}

\* What a reply consumer has written and not committed yet.
LeadLocked(l) == \E r \in Consumers : reply[r].rows[l] # NoRow
JobLocked(j) == \E r \in Consumers : j \in reply[r].cancels

InHand(j) == \E w \in Workers : send[w].job = j

\* Mutant: the lock is given back once the provider has answered.
HoldsMailboxUntilAnswer(w) == send[w].phase = "sending"

HoldsMailbox(w) == send[w].phase \in {"sending", "accepted"}

\* Mutant: messages of the first day are not counted.
SentAfter(d) == {i \in DOMAIN mail : mail[i].recorded /\ mail[i].day > d}

SentSince(d) == {i \in DOMAIN mail : mail[i].recorded /\ mail[i].day >= d}

Fault == faults < MaxFaults /\ faults' = faults + 1

Move(w, phase) == send' = [send EXCEPT ![w].phase = phase]

\* SendJobRepository._set: by id, whatever the status of the row is now.  It
\* waits for a transaction that holds the row.
CanSet(w, j) ==
    /\ RowLocked(j) => w \in LockingWorkers /\ send[w].job = j
    /\ ~JobLocked(j)

-----------------------------------------------------------------------------
Init ==
    /\ status = "draft"
    /\ lead = [l \in Leads |-> NoRow]
    /\ jobs = <<>>
    /\ mail = <<>>
    /\ events = <<>>
    /\ processed = {}
    /\ suppressed = {}
    /\ day = 0
    /\ send = [w \in Workers |-> IdleSend]
    /\ reply = [r \in Consumers |-> IdleReply]
    /\ request = [c \in Clients |-> IdleRequest]
    /\ faults = 0

-----------------------------------------------------------------------------
(* API requests (AddLeadsHandler, StartCampaignHandler).  A request reads  *)
(* the campaign first and commits after its answer has gone out, so even   *)
(* one caller's requests can overlap.                                      *)

\* The step-1 jobs of a set of leads, in some order.
FirstJobs(L) ==
    LET order == CHOOSE f \in [1..Cardinality(L) -> L] :
                     \A i, k \in DOMAIN f : f[i] = f[k] => i = k
    IN  [i \in 1..Cardinality(L) |-> NewJob(order[i], 1)]

RequestUnchanged == UNCHANGED <<mail, events, processed, suppressed, day,
                                send, reply, faults>>

\* POST /campaigns/{id}/leads: the campaign and the known addresses are read.
AddLeadsRead(c) ==
    /\ request[c].phase = "idle"
    /\ \E L \in (SUBSET {l \in Leads : ~Added(l)}) \ {{}} :
          request' = [request EXCEPT ![c] =
              [IdleRequest EXCEPT !.phase = "adding",
                                  !.active = (status = "active"),
                                  !.leads = L]]
    /\ UNCHANGED <<status, lead, jobs>>
    /\ RequestUnchanged

AddRows(c, row, newJobs) ==
    LET L == request[c].leads
    IN  /\ request[c].phase = "adding"
        /\ \A l \in L : ~Added(l)
        /\ lead' = [l \in Leads |-> IF l \in L THEN row ELSE lead[l]]
        /\ jobs' = newJobs
        /\ request' = [request EXCEPT ![c] = IdleRequest]
        /\ UNCHANGED status
        /\ RequestUnchanged

\* Mutant: leads added to an active campaign are not scheduled.
AddLeadsUnscheduled(c) == AddRows(c, NewLead, jobs)

\* Mutant: they are scheduled, and their jobs forgotten.
AddLeadsWithoutJobs(c) ==
    AddRows(c, IF request[c].active THEN Scheduled(NewLead) ELSE NewLead, jobs)

\* The leads are added, and scheduled at once if the campaign was read active.
AddLeadsCommit(c) ==
    IF request[c].active
    THEN AddRows(c, Scheduled(NewLead), jobs \o FirstJobs(request[c].leads))
    ELSE AddRows(c, NewLead, jobs)

\* The unique constraint on (campaign_id, email) refuses the insert.
AddLeadsConflict(c) ==
    /\ request[c].phase = "adding"
    /\ \E l \in request[c].leads : Added(l)
    /\ request' = [request EXCEPT ![c] = IdleRequest]
    /\ UNCHANGED <<status, lead, jobs>>
    /\ RequestUnchanged

\* POST /campaigns/{id}/start: the campaign is read, and it is not active.
StartRead(c) ==
    /\ request[c].phase = "idle"
    /\ status = "draft"
    /\ request' = [request EXCEPT ![c].phase = "starting"]
    /\ UNCHANGED <<status, lead, jobs>>
    /\ RequestUnchanged

\* list_pending; without a pending lead the request fails.
StartList(c) ==
    LET pending == {l \in Leads : lead[l].state = "pending"}
    IN  /\ request[c].phase = "starting"
        /\ request' = [request EXCEPT ![c] =
               IF pending = {} THEN IdleRequest
               ELSE [@ EXCEPT !.phase = "listed", !.leads = pending]]
        /\ UNCHANGED <<status, lead, jobs>>
        /\ RequestUnchanged

\* update_status writes the campaign row if it still reads draft, and waits
\* there for another start that has written it; then the leads are read again.
StartFlush(c) ==
    /\ request[c].phase = "listed"
    /\ status = "draft" => \A d \in Clients : request[d].phase # "flushed"
    /\ request' = [request EXCEPT ![c].phase = "flushed",
                                  ![c].seen = [l \in Leads |->
                                      IF l \in request[c].leads THEN lead[l] ELSE NoRow]]
    /\ UNCHANGED <<status, lead, jobs>>
    /\ RequestUnchanged

\* The leads are written, their step-1 jobs are added, and the request commits.
StartCommit(c) ==
    LET L == request[c].leads
    IN  /\ request[c].phase = "flushed"
        /\ \A l \in L : ~LeadLocked(l)
        /\ status' = "active"
        /\ lead' = [l \in Leads |->
               IF l \in L
               THEN Written(lead[l], request[c].seen[l], Scheduled(NewLead))
               ELSE lead[l]]
        /\ jobs' = jobs \o FirstJobs(L)
        /\ request' = [request EXCEPT ![c] = IdleRequest]
        /\ RequestUnchanged

ClientNext == \E c \in Clients :
    \/ AddLeadsRead(c)
    \/ AddLeadsCommit(c)
    \/ AddLeadsConflict(c)
    \/ StartRead(c)
    \/ StartList(c)
    \/ StartFlush(c)
    \/ StartCommit(c)

-----------------------------------------------------------------------------
(* Workers (ClaimDueSendJobsHandler, ProcessClaimedSendJobHandler).        *)

\* Mutant: running jobs are never claimed again.
ClaimablePending(j) ==
    ~RowLocked(j) /\ ~JobLocked(j) /\ jobs[j].status = "pending"

\* What the claim statement selects: pending jobs, and running jobs whose
\* lease has expired; rows locked by another transaction are skipped.
Claimable(j) ==
    /\ ~RowLocked(j) /\ ~JobLocked(j)
    /\ \/ jobs[j].status = "pending"
       \/ jobs[j].status = "running" /\ (InHand(j) => SlowSends)

ClaimJobs(batch) ==
    LET J == {batch[w] : w \in DOMAIN batch}
    IN  /\ \A w \in DOMAIN batch : send[w].phase = "idle" /\ Claimable(batch[w])
        /\ jobs' = [j \in DOMAIN jobs |->
               IF j \in J THEN [jobs[j] EXCEPT !.status = "running", !.attempts = @ + 1]
               ELSE jobs[j]]
        /\ send' = [w \in Workers |->
               IF w \in DOMAIN batch
               THEN [IdleSend EXCEPT !.phase = "claimed", !.job = batch[w],
                                     !.attempts = jobs[batch[w]].attempts + 1]
               ELSE send[w]]
        /\ faults' = faults + Cardinality({j \in J : InHand(j)})
        /\ faults' <= MaxFaults
        /\ UNCHANGED <<status, lead, mail, events, processed, suppressed, day,
                       reply, request>>

\* Mutant: without SKIP LOCKED two slots can get the same job.
ClaimUnlocked(batch) == ClaimJobs(batch)

\* One claim statement: each slot of a batch gets its own job.
Claim(batch) ==
    /\ \A v, w \in DOMAIN batch : batch[v] = batch[w] => v = w
    /\ ClaimJobs(batch)

\* The transaction of one job begins.  The internal route first locks the
\* row, only if it is still running (else SendJobNotClaimedError), and reads
\* its attempts again.  Then the campaign and the lead are loaded.
Load(w) ==
    LET j == send[w].job
        row == lead[jobs[j].lead]
    IN  /\ send[w].phase = "claimed"
        /\ w \in LockingWorkers => jobs[j].status = "running" /\ ~RowLocked(j)
        /\ send' = [send EXCEPT
               ![w].phase = IF AcceptsSend(status, row, jobs[j].position)
                            THEN "loaded" ELSE "ineligible",
               ![w].attempts = IF w \in LockingWorkers THEN jobs[j].attempts ELSE @,
               ![w].snap = row]
        /\ UNCHANGED <<tables, day, reply, request, faults>>

\* SendJobNotClaimedError: the route answers 409 and the sender moves on.
NotClaimed(w) ==
    /\ w \in LockingWorkers
    /\ send[w].phase = "claimed"
    /\ JobOf(w).status # "running" /\ ~RowLocked(send[w].job)
    /\ send' = [send EXCEPT ![w] = IdleSend]
    /\ UNCHANGED <<tables, day, reply, request, faults>>

\* Mutant: the suppression list is not read.
SkipSuppression(w) ==
    /\ send[w].phase = "loaded"
    /\ Move(w, "checked")
    /\ UNCHANGED <<tables, day, reply, request, faults>>

\* The suppression list is read.
CheckSuppression(w) ==
    /\ send[w].phase = "loaded"
    /\ Move(w, IF JobOf(w).lead \in suppressed THEN "refused" ELSE "checked")
    /\ UNCHANGED <<tables, day, reply, request, faults>>

\* The advisory lock is tried and the day's messages are counted.
TakeMailbox(w) ==
    LET free == /\ \A v \in Workers : ~HoldsMailbox(v)
                /\ Cardinality(SentSince(day)) < DailySendCap
    IN  /\ send[w].phase = "checked"
        /\ send' = [send EXCEPT ![w].phase = IF free THEN "sending" ELSE "deferred",
                                ![w].since = IF free THEN day ELSE 0]
        /\ UNCHANGED <<tables, day, reply, request, faults>>

\* Mutant: the row is dated by a clock behind UTC.
DeliverInLocalTime(w) ==
    /\ Len(mail) < MaxMail
    /\ mail' = Append(mail, [to |-> JobOf(w).lead, body |-> JobOf(w).position,
                             day |-> send[w].since - 1, recorded |-> FALSE])
    /\ UNCHANGED <<status, lead, jobs, events, processed, suppressed, day,
                   reply, request>>

Deliver(w) ==
    /\ Len(mail) < MaxMail
    /\ \E d \in send[w].since..day :
          mail' = Append(mail, [to |-> JobOf(w).lead, body |-> JobOf(w).position,
                                day |-> d, recorded |-> FALSE])
    /\ UNCHANGED <<status, lead, jobs, events, processed, suppressed, day,
                   reply, request>>

\* DispatchSent.
ProviderAccepts(w) ==
    /\ send[w].phase = "sending"
    /\ Deliver(w)
    /\ send' = [send EXCEPT ![w].phase = "accepted", ![w].msg = Len(mail) + 1]
    /\ UNCHANGED faults

\* The provider accepts, but its answer is lost: DispatchFailed.
AnswerLost(w) ==
    /\ send[w].phase = "sending"
    /\ Deliver(w)
    /\ send' = [send EXCEPT ![w].phase = "failed", ![w].since = 0]
    /\ Fault

\* DispatchFailed for any other exception of the send path.
DispatchFails(w) ==
    /\ send[w].phase \in {"loaded", "checked", "sending"}
    /\ send' = [send EXCEPT ![w].phase = "failed", ![w].since = 0]
    /\ UNCHANGED <<tables, day, reply, request, faults>>

\* The lead that an outcome writes, and whether it writes one.
NewRow(w) ==
    CASE send[w].phase = "accepted" -> RecordSent(send[w].snap, JobOf(w).position)
      [] send[w].phase = "refused"  -> FailLead(send[w].snap, "suppressed")
      [] OTHER                      -> FailLead(send[w].snap, "send_failed")

\* Mutant: the last failure fails the job and not the lead.
WritesLeadUnlessFailed(w) == send[w].phase \in {"accepted", "refused"}

WritesLead(w) ==
    \/ send[w].phase \in {"accepted", "refused"}
    \/ send[w].phase = "failed" /\ ~Retries(send[w].attempts)

\* LeadRepository.update_many reads the row again.
ReadAgain(w) ==
    LET l == JobOf(w).lead
    IN  /\ WritesLead(w)
        /\ send[w].seen = NoRow
        /\ send' = [send EXCEPT ![w].seen = lead[l]]
        /\ UNCHANGED <<tables, day, reply, request, faults>>

\* The transaction commits: the job is set, whatever its row says by now.
Finish(w, newJobs) ==
    /\ CanSet(w, send[w].job)
    /\ WritesLead(w) => send[w].seen # NoRow /\ ~LeadLocked(JobOf(w).lead)
    /\ jobs' = newJobs
    /\ lead' = IF WritesLead(w)
               THEN [lead EXCEPT ![JobOf(w).lead] = Written(@, send[w].seen, NewRow(w))]
               ELSE lead
    /\ send' = [send EXCEPT ![w] = IdleSend]
    /\ UNCHANGED <<status, events, processed, suppressed, day, reply, request, faults>>

Set(w, newStatus) == [jobs EXCEPT ![send[w].job].status = newStatus]

\* Mutant: the outbound row is not marked as sent.
FinishSentUnmarked(w) ==
    LET j == send[w].job
        done == [jobs EXCEPT ![j].status = "done", ![j].outbound = send[w].msg]
    IN  /\ send[w].phase = "accepted"
        /\ Finish(w, IF IsLastStep(jobs[j].position) THEN done
                     ELSE Append(done, NewJob(jobs[j].lead, jobs[j].position + 1)))
        /\ UNCHANGED mail

\* record_sent: the job is done and carries the message, the next step's job
\* is added unless this was the last step.
FinishSent(w) ==
    LET j == send[w].job
        done == [jobs EXCEPT ![j].status = "done", ![j].outbound = send[w].msg]
    IN  /\ send[w].phase = "accepted"
        /\ mail' = [mail EXCEPT ![send[w].msg].recorded = TRUE]
        /\ Finish(w, IF IsLastStep(jobs[j].position) THEN done
                     ELSE Append(done, NewJob(jobs[j].lead, jobs[j].position + 1)))

\* Mutant: a suppressed job counts as done.
FinishSuppressedDone(w) ==
    /\ send[w].phase = "refused"
    /\ Finish(w, Set(w, "done"))
    /\ UNCHANGED mail

\* DispatchSuppressed.
FinishSuppressed(w) ==
    /\ send[w].phase = "refused"
    /\ Finish(w, Set(w, "cancelled"))
    /\ UNCHANGED mail

\* DispatchFailed: retry_later, or fail after the last attempt.
FinishFailed(w) ==
    /\ send[w].phase = "failed"
    /\ Finish(w, Set(w, IF Retries(send[w].attempts) THEN "pending" ELSE "failed"))
    /\ UNCHANGED mail

\* Mutant: release forgets all attempts, not just its own.
FinishDeferredAfresh(w) ==
    /\ send[w].phase = "deferred"
    /\ Finish(w, [jobs EXCEPT ![send[w].job].status = "pending",
                              ![send[w].job].attempts = 0])
    /\ UNCHANGED mail

\* DispatchDeferred: release gives the attempt back.
FinishDeferred(w) ==
    /\ send[w].phase = "deferred"
    /\ Finish(w, [jobs EXCEPT ![send[w].job].status = "pending",
                              ![send[w].job].attempts = @ - 1])
    /\ UNCHANGED mail

\* The lead does not accept this step any more.
FinishIneligible(w) ==
    /\ send[w].phase = "ineligible"
    /\ Finish(w, Set(w, "cancelled"))
    /\ UNCHANGED mail

\* A process dies, loses its connection or has its commit refused: the slots
\* it runs are rolled back, and their jobs stay running.
WorkersCrash(S) ==
    /\ S # {} /\ \A w \in S : send[w].phase # "idle"
    /\ send' = [w \in Workers |-> IF w \in S THEN IdleSend ELSE send[w]]
    /\ Fault
    /\ UNCHANGED <<tables, day, reply, request>>

ClaimNext == \E S \in (SUBSET Workers) \ {{}} :
                \E batch \in [S -> DOMAIN jobs] : Claim(batch)

ProcessNext == \E w \in Workers :
    \/ Load(w)
    \/ NotClaimed(w)
    \/ CheckSuppression(w)
    \/ TakeMailbox(w)
    \/ ProviderAccepts(w)
    \/ AnswerLost(w)
    \/ DispatchFails(w)
    \/ ReadAgain(w)
    \/ FinishSent(w)
    \/ FinishSuppressed(w)
    \/ FinishFailed(w)
    \/ FinishDeferred(w)
    \/ FinishIneligible(w)

CrashNext == \E S \in SUBSET Workers : WorkersCrash(S)

-----------------------------------------------------------------------------
(* The inbox poller, as far as the campaign can see it (PollInboxHandler). *)

\* A reply to a recorded message that has no matched reply yet is stored,
\* classified and put in the outbox; an unsubscribe or a bounce suppresses
\* the address.  Replies that match nothing leave no trace in these tables.
Answer(m, intent) ==
    /\ mail[m].recorded
    /\ \A e \in DOMAIN events : events[e].mail # m
    /\ events' = Append(events, [mail |-> m, intent |-> intent])
    /\ suppressed' = IF intent \in {"unsubscribe", "bounce"}
                     THEN suppressed \cup {mail[m].to} ELSE suppressed
    /\ UNCHANGED <<status, lead, jobs, mail, processed, day,
                   send, reply, request, faults>>

PollNext == \E m \in DOMAIN mail, intent \in ReplyIntents : Answer(m, intent)

-----------------------------------------------------------------------------
(* The reply consumer (HandleClassifiedRepliesHandler, ClassifiedReplyFeed): *)
(* one transaction claims a batch of events, stops the lead of each, and   *)
(* acknowledges them all.                                                  *)

Unprocessed == DOMAIN events \ processed

\* FOR UPDATE SKIP LOCKED.
Waiting == {e \in Unprocessed : \A r \in Consumers : e \notin reply[r].batch}

\* Mutant: one event at a time.
OldestWaiting == {e \in Waiting : \A f \in Waiting : e <= f}

\* ORDER BY created_at LIMIT :limit.
NextBatch ==
    {e \in Waiting : Cardinality({f \in Waiting : f < e}) < ReplyBatchSize}

\* The event a consumer is at: it takes its batch in order.
IsNext(r, e) == e \in reply[r].todo /\ \A f \in reply[r].todo : e <= f

\* find_lead_id_by_outbound_message: the leads of jobs that carry the message.
LeadsOf(m) == {jobs[j].lead : j \in {k \in DOMAIN jobs : jobs[k].outbound = m}}

\* A transaction reads its own writes.
RowFor(r, l) == IF reply[r].rows[l] # NoRow THEN reply[r].rows[l] ELSE lead[l]

ReplyUnchanged == UNCHANGED <<status, mail, events, suppressed, day,
                              send, request, faults>>

ReplyClaim(r) ==
    /\ reply[r].phase = "idle"
    /\ NextBatch # {}
    /\ reply' = [reply EXCEPT ![r].phase = "claimed", ![r].batch = NextBatch,
                              ![r].todo = NextBatch]
    /\ UNCHANGED <<lead, jobs, processed>>
    /\ ReplyUnchanged

\* Mutant: an event for a lead that is stopped already is not acknowledged.
ReplyToStoppedKept(r) ==
    /\ reply[r].phase = "claimed"
    /\ \E e \in Unprocessed :
          /\ IsNext(r, e)
          /\ \A l \in LeadsOf(events[e].mail) :
                ~StopsOnReply(RowFor(r, l)) /\ ~IsStopped(RowFor(r, l))
          /\ reply' = [reply EXCEPT ![r].todo = @ \ {e}]
    /\ UNCHANGED <<lead, jobs, processed>>
    /\ ReplyUnchanged

\* Nothing to stop: no job carries the message, or the lead is stopped
\* already, or it is in a state that a reply does not stop.
ReplyIgnored(r) ==
    /\ reply[r].phase = "claimed"
    /\ \E e \in Unprocessed :
          /\ IsNext(r, e)
          /\ \A l \in LeadsOf(events[e].mail) : ~StopsOnReply(RowFor(r, l))
          /\ reply' = [reply EXCEPT ![r].todo = @ \ {e}]
    /\ UNCHANGED <<lead, jobs, processed>>
    /\ ReplyUnchanged

\* The lead of the event is loaded and stopped in memory.
ReplyLoad(r) ==
    /\ reply[r].phase = "claimed"
    /\ \E e \in Unprocessed :
          /\ IsNext(r, e)
          /\ \E l \in LeadsOf(events[e].mail) :
                /\ StopsOnReply(RowFor(r, l))
                /\ reply' = [reply EXCEPT ![r].phase = "loaded", ![r].lead = l,
                       ![r].new = StopOnReply(RowFor(r, l), events[e].intent)]
    /\ UNCHANGED <<lead, jobs, processed>>
    /\ ReplyUnchanged

\* LeadRepository.update_many reads the row again.
ReplyReadAgain(r) ==
    /\ reply[r].phase = "loaded"
    /\ reply' = [reply EXCEPT ![r].phase = "read",
                              ![r].seen = RowFor(r, reply[r].lead)]
    /\ UNCHANGED <<lead, jobs, processed>>
    /\ ReplyUnchanged

\* Mutant: only jobs of the first step are cancelled.
FirstStepJobs(l) ==
    {j \in DOMAIN jobs : /\ jobs[j].lead = l /\ jobs[j].status = "pending"
                         /\ jobs[j].position = 1}

PendingJobs(l) == {j \in DOMAIN jobs : jobs[j].lead = l /\ jobs[j].status = "pending"}

\* The lead row is written and the lead's pending jobs are cancelled; both
\* stay locked until the batch commits.
ReplyFlush(r) ==
    LET l == reply[r].lead
    IN  /\ reply[r].phase = "read"
        /\ \A q \in Consumers \ {r} : reply[q].rows[l] = NoRow
        /\ \E e \in Unprocessed :
              /\ IsNext(r, e)
              /\ reply' = [reply EXCEPT ![r] = [IdleReply EXCEPT
                     !.phase = "claimed", !.batch = reply[r].batch,
                     !.todo = reply[r].todo \ {e},
                     !.rows = [reply[r].rows EXCEPT ![l] =
                                  Written(RowFor(r, l), reply[r].seen, reply[r].new)],
                     !.cancels = reply[r].cancels \cup PendingJobs(l)]]
        /\ UNCHANGED <<lead, jobs, processed>>
        /\ ReplyUnchanged

\* The batch commits, and all its events are acknowledged.
ReplyCommit(r) ==
    /\ reply[r].phase = "claimed" /\ reply[r].todo = {}
    /\ lead' = [l \in Leads |-> RowFor(r, l)]
    /\ jobs' = [j \in DOMAIN jobs |->
           IF j \in reply[r].cancels THEN [jobs[j] EXCEPT !.status = "cancelled"]
           ELSE jobs[j]]
    /\ processed' = processed \cup reply[r].batch
    /\ reply' = [reply EXCEPT ![r] = IdleReply]
    /\ ReplyUnchanged

\* The consumer's transaction is rolled back; the event is claimed again later.
ConsumerCrash(r) ==
    /\ reply[r].phase # "idle"
    /\ reply' = [reply EXCEPT ![r] = IdleReply]
    /\ Fault
    /\ UNCHANGED <<tables, day, send, request>>

ReplyNext == \E r \in Consumers :
    \/ ReplyClaim(r)
    \/ ReplyIgnored(r)
    \/ ReplyLoad(r)
    \/ ReplyReadAgain(r)
    \/ ReplyFlush(r)
    \/ ReplyCommit(r)
    \/ ConsumerCrash(r)

\* UTC midnight.  Days without mail are all alike and are not counted.
NextDay ==
    /\ \E i \in DOMAIN mail : mail[i].day = day
    /\ day' = day + 1
    /\ UNCHANGED <<tables, send, reply, request, faults>>

-----------------------------------------------------------------------------
Next ==
    \/ ClientNext
    \/ ClaimNext
    \/ ProcessNext
    \/ CrashNext
    \/ PollNext
    \/ ReplyNext
    \/ NextDay

Spec == Init /\ [][Next]_vars

-----------------------------------------------------------------------------
(* Properties.                                                             *)

SentTo(l, k) == {i \in DOMAIN mail : mail[i].to = l /\ mail[i].body = k}

Recorded(l, k) == \E i \in SentTo(l, k) : mail[i].recorded

\* What a lead row claims was really sent and recorded: every step up to
\* steps_sent, and every step of a lead that is done, whatever stale
\* snapshots the transactions around it have written.
NoPhantomProgress ==
    \A l \in Leads :
        /\ \A k \in 1..lead[l].steps_sent : Recorded(l, k)
        /\ lead[l].state = "done" => \A k \in 1..Steps : Recorded(l, k)

\* A job that carries an outbound message carries a recorded message of its
\* own lead and step, so a reply to it always finds the right lead; and a done
\* job carries one, also after other workers have set it again.
LinksAreFaithful ==
    \A j \in DOMAIN jobs :
        /\ jobs[j].status = "done" => jobs[j].outbound # 0
        /\ jobs[j].outbound # 0 =>
              /\ jobs[j].outbound \in DOMAIN mail
              /\ mail[jobs[j].outbound].recorded
              /\ mail[jobs[j].outbound].to = jobs[j].lead
              /\ mail[jobs[j].outbound].body = jobs[j].position

\* Steps reach a lead in order: a follow-up is sent only after the step
\* before it was sent and recorded, also when messages are sent twice.
StepsInOrder ==
    \A i \in DOMAIN mail : mail[i].body > 1 =>
        \E h \in 1..(i - 1) : /\ mail[h].to = mail[i].to
                              /\ mail[h].body = mail[i].body - 1
                              /\ mail[h].recorded

\* Deferrals give attempts back, one for each claim, so attempts is never
\* below the number of slots that have the job in hand, and never negative.
AttemptsCoverSlots ==
    \A j \in DOMAIN jobs :
        jobs[j].attempts >= Cardinality({w \in Workers : send[w].job = j})

\* The lead states of the step-3 plan: a scheduled lead has its step-1 job
\* queued, and a sent lead has its next step queued (or in a worker's hand).
NoStrandedLead ==
    \A l \in Leads : lead[l].state \in Sendable =>
        \E j \in DOMAIN jobs : /\ jobs[j].lead = l
                               /\ jobs[j].position = lead[l].steps_sent + 1
                               /\ jobs[j].status \in {"pending", "running"}

\* A pending lead was added while the campaign was not started.
PendingOnlyInDraft ==
    status = "active" => \A l \in Leads : lead[l].state # "pending"

\* At-least-once sending repeats a step only when something went wrong: each
\* crash, lost answer or overlapping lease repeats at most one message.
DuplicatesNeedFaults ==
    \A l \in Leads, k \in 1..Steps : Cardinality(SentTo(l, k)) <= 1 + faults

\* What the provider accepted on a day exceeds the cap at most by messages
\* whose record was lost to a fault.
CapPlusFaults ==
    \A d \in 0..day :
        Cardinality({i \in DOMAIN mail : mail[i].day = d}) <= DailySendCap + faults

\* README, "What works": one effect per event.  A reply that was acknowledged
\* has left its mark on the lead that it is about, which was stopped by it, by an
\* earlier reply or by a failed send; no event is consumed in vain.  (Where
\* several workers send, a stale copy can take the mark back.)
RepliesTakeEffect ==
    \A e \in processed : IsStopped(lead[mail[events[e].mail].to])

\* README, "What works": starting a campaign is idempotent, so a lead gets
\* one step-1 job however often the campaign is started.
StartIsIdempotent ==
    \A l \in Leads :
        Cardinality({j \in DOMAIN jobs : jobs[j].lead = l /\ jobs[j].position = 1}) <= 1

\* README, demo path step 5, and ADR 0014: a consumed reply pauses the lead
\* and cancels the follow-up, and a job that was running already re-checks
\* the lead when its transaction starts.  So no transaction that starts after
\* the reply was consumed finds the lead eligible.
RepliedLeadGetsNoFollowUp ==
    [][\A w \in Workers, e \in processed :
          send[w].phase = "claimed" /\ send'[w].phase = "loaded"
              => mail[events[e].mail].to # JobOf(w).lead]_vars

=============================================================================
