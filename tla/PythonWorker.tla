---------------------------- MODULE PythonWorker ----------------------------
(***************************************************************************)
(* The Python worker process (entrypoints/worker.py) with SENDER_IMPL =    *)
(* python.  It runs everything that is not an API request, one thing after *)
(* the other: a tick polls the inbox, dispatches the classified replies,   *)
(* claims a batch of send jobs and processes them in turn.                 *)
(*                                                                         *)
(* Each step is a step of CampaignSending, allowed only at its turn of the *)
(* tick.  Slots stand for the jobs of one batch, so their number is the    *)
(* batch size (SEND_BATCH_SIZE, 10 in the code).                           *)
(***************************************************************************)
EXTENDS CampaignSending

VARIABLE turn   \* which part of the tick the process is in

pvars == <<vars, turn>>

Turns == {"poll", "dispatch", "claim", "drain"}

\* The drain takes no row lock on the job, and there is one consumer.
ASSUME PythonWorkerAssumption ==
    /\ LockingWorkers = {}
    /\ IsFiniteSet(Consumers) /\ Cardinality(Consumers) = 1

PythonTypeOK == TypeOK /\ turn \in Turns

-----------------------------------------------------------------------------
PythonInit == Init /\ turn = "poll"

\* _poll_inbox: any number of new replies is stored, then the turn passes on.
Poll ==
    /\ turn = "poll"
    /\ \/ PollNext /\ UNCHANGED turn
       \/ turn' = "dispatch" /\ UNCHANGED vars

\* _dispatch_classified_replies: one batch of events.
Dispatch ==
    /\ turn = "dispatch"
    /\ \/ /\ \E r \in Consumers : \/ ReplyClaim(r)
                                  \/ ReplyIgnored(r)
                                  \/ ReplyLoad(r)
                                  \/ ReplyReadAgain(r)
                                  \/ ReplyFlush(r)
          /\ UNCHANGED turn
       \/ /\ \E r \in Consumers : ReplyCommit(r)
          /\ turn' = "claim"
       \/ /\ Unprocessed = {}
          /\ turn' = "claim"
          /\ UNCHANGED vars

\* An exception in the dispatch is logged, and the tick goes on.
DispatchError ==
    /\ turn = "dispatch"
    /\ \E r \in Consumers : ConsumerCrash(r)
    /\ turn' = "claim"

\* _drain_send_jobs: the claim, in a transaction of its own.  Which jobs are
\* due is left open, so the claim may also find none.
ClaimBatch ==
    /\ turn = "claim"
    /\ \/ ClaimNext /\ turn' = "drain"
       \/ turn' = "poll" /\ UNCHANGED vars

\* The claimed jobs, one transaction after the other.
Drain ==
    /\ turn = "drain"
    /\ \E w \in Workers :
          /\ \A v \in Workers \ {w} : send[v].phase \in {"idle", "claimed"}
          /\ \/ Load(w)
             \/ CheckSuppression(w)
             \/ TakeMailbox(w)
             \/ ProviderAccepts(w)
             \/ AnswerLost(w)
             \/ DispatchFails(w)
             \/ ReadAgain(w)
             \/ FinishSent(w)
             \/ FinishSuppressed(w)
             \/ FinishFailed(w)
             \/ FinishDeferred(w)
             \/ FinishIneligible(w)
    /\ turn' = IF \A w \in Workers : send'[w].phase = "idle" THEN "poll" ELSE "drain"

\* An exception ends the drain, or the process dies and is started again:
\* either way the rest of the batch stays running, and the next tick begins.
DrainError ==
    /\ turn = "drain"
    /\ WorkersCrash({w \in Workers : send[w].phase # "idle"})
    /\ turn' = "poll"

\* The API and the clock do not wait for the worker.
Outside == (ClientNext \/ NextDay) /\ UNCHANGED turn

Tick == Poll \/ Dispatch \/ DispatchError \/ ClaimBatch \/ Drain \/ DrainError

PythonNext == Tick \/ Outside

PythonSpec == PythonInit /\ [][PythonNext]_pvars

-----------------------------------------------------------------------------
(* Fairness.  The worker's loop never stops, and the calls it waits for    *)
(* have timeouts.  A job that is due stays due and claims are ordered by   *)
(* scheduled_at, so a job that can be claimed again and again is claimed.  *)
(* Midnight comes.  Nothing is assumed of API clients or of recipients.    *)

ClaimsJob(j) ==
    /\ turn = "claim"
    /\ j \in DOMAIN jobs
    /\ \E S \in SUBSET Workers : \E batch \in [S -> DOMAIN jobs] :
          j \in {batch[w] : w \in S} /\ Claim(batch)
    /\ turn' = "drain"

\* A bound on the number of jobs: one per lead, and one more per message.
MaxJobs == Cardinality(Leads) + MaxMail

PythonFairness ==
    /\ WF_pvars(turn = "poll" /\ turn' = "dispatch" /\ UNCHANGED vars)
    /\ WF_pvars(Dispatch)
    /\ WF_pvars(ClaimBatch)
    /\ WF_pvars(Drain)
    /\ \A j \in 1..MaxJobs : SF_pvars(ClaimsJob(j))
    /\ WF_pvars(NextDay /\ UNCHANGED turn)

FairPythonSpec == PythonSpec /\ PythonFairness

-----------------------------------------------------------------------------
(* Properties.                                                             *)

\* With one worker that does one thing at a time, a lead that a reply or a
\* failure has stopped is never written again (README, demo path step 5).
WorkerKeepsStopped ==
    [][\A l \in Leads : IsStopped(lead[l]) => lead'[l] = lead[l]]_pvars

\* No message goes out to a lead whose reply was consumed, nor to one whose
\* reply is known, unless the dispatch failed or there were more replies than
\* a batch: the lead is paused before the follow-up goes out (README).
NoMailAfterReply ==
    [][\A i \in DOMAIN mail' \ DOMAIN mail : \A e \in DOMAIN events :
          mail[events[e].mail].to = mail'[i].to
              => /\ e \notin processed
                 /\ faults > 0 \/ Len(events) > ReplyBatchSize]_pvars

\* The suppression check is read before the lock and the call, but nothing
\* suppresses an address while this process drains.
NoMailToSuppressed ==
    [][\A i \in DOMAIN mail' \ DOMAIN mail : mail'[i].to \notin suppressed]_pvars

\* Every scheduled lead settles: it is done, or something has stopped it.
LeadsSettle ==
    \A l \in Leads :
        lead[l].state \in Sendable ~> lead[l].state \in {"done", "paused", "failed"}

\* Every classified reply is consumed.
RepliesConsumed ==
    \A e \in 1..MaxMail : e \in Unprocessed ~> e \in processed

=============================================================================
