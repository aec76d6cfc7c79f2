------------------------------ MODULE SendQueue ------------------------------
(***************************************************************************)
(* The send queue in time, drained by Go senders: a sender claims a batch  *)
(* of due jobs in a transaction of its own and hands them, one by one, to  *)
(* the internal route of the API, which processes each in one transaction  *)
(* that holds the job's row.  A call is given up after HttpTimeout, its    *)
(* request goes on; a job whose lease has run out is claimed again, also   *)
(* while its first sender still has it in hand.                            *)
(*                                                                         *)
(* Time passes in ticks (minutes).  due[j] is the time until scheduled_at, *)
(* age[j] the time since locked_at.  What happens to the lead is left to   *)
(* CampaignSending: here a transaction just comes to some outcome.         *)
(***************************************************************************)
EXTENDS RequestScope, Sequences, FiniteSetsExt

CONSTANTS
    Jobs,             \* send jobs
    Senders,          \* Go senders
    Slots,            \* requests, each with a connection, the API can serve at once
    JobWorkspace,     \* job.workspace_id
    SenderWorkspace,  \* MAILBOX_WORKSPACE_ID of each sender
    SenderToken,      \* INTERNAL_API_TOKEN of each sender
    Unreadable,       \* jobs whose payload is not send_job v1
    Keys,             \* identity__api_keys
    Users,            \* requests of users for data of their workspace
    Lease, HttpTimeout, BatchSize, MaxSendAttempts,
    MaxLate,          \* bound: how long a job has been due is told up to here
    MaxReads,         \* bound: requests of users that are served at once
    MaxDeferrals, MaxFaults    \* bounds

ASSUME QueueAssumption ==
    /\ IsFiniteSet(Jobs)
    /\ JobWorkspace \in [Jobs -> Workspaces]
    /\ SenderWorkspace \in [Senders -> Workspaces]
    /\ Unreadable \subseteq Jobs
    /\ HttpTimeout \in Nat \ {0} /\ Lease \in Nat /\ HttpTimeout <= Lease
    /\ BatchSize \in Nat \ {0}
    /\ MaxSendAttempts \in Nat \ {0}
    /\ MaxLate \in Nat
    /\ MaxReads \in Nat /\ MaxDeferrals \in Nat /\ MaxFaults \in Nat
    /\ Keys \subseteq ApiKey
    /\ \A k, l \in Keys : k.prefix = l.prefix => k = l   \* uq_api_keys_prefix
    /\ Users \subseteq [bearer : Token \cup {None, Malformed},
                       header : Workspaces \cup {None, Malformed},
                       internal : {None, InternalToken}]
    /\ None \notin Jobs \cup Senders
    /\ Senders \cap Users = {}

VARIABLES
    status, attempts, due, age,  \* columns of campaign__send_jobs
    sender,     \* what each sender has in hand
    request,    \* what each slot of the API is doing
    setting,    \* app.workspace_id of each slot's connection
    delivered,  \* history: messages the provider accepted for each job
    failures,   \* history: DispatchFailed outcomes of each job
    deferrals, faults            \* up to their bounds

row  == <<status, attempts, due, age>>
api  == <<request, setting>>
past == <<delivered, failures>>
vars == <<row, sender, api, past, deferrals, faults>>

-----------------------------------------------------------------------------
\* batch: the jobs still to be handed over; call: the one that is, and since when.
Sender == [batch : SUBSET Jobs, call : Jobs \cup {None}, waited : 0..HttpTimeout]

\* A request for a job is received, then its transaction holds the row, then
\* the provider may have accepted the message; "reading" serves a user.
Request == [phase : {"free", "received", "holding", "accepted", "reading"},
            job : Jobs \cup {None}, caller : Senders \cup Users \cup {None},
            workspace : Workspaces \cup {None}]

Resting == [batch |-> {}, call |-> None, waited |-> 0]

Free == [phase |-> "free", job |-> None, caller |-> None, workspace |-> None]

\* The longest backoff, RETRY_BACKOFF times the attempts so far; the midnight
\* that a job waits for under the cap is as far away.
MaxDelay == MaxSendAttempts - 1

\* The count goes on, but more than this makes no difference to next_retry_at.
MaxCount == MaxSendAttempts + MaxDeferrals

TypeOK ==
    /\ status \in [Jobs -> {"pending", "running", "done", "failed", "cancelled"}]
    /\ attempts \in [Jobs -> 0..MaxCount]
    /\ due \in [Jobs -> -MaxLate..MaxDelay]
    /\ age \in [Jobs -> 0..(Lease + 1)]
    /\ sender \in [Senders -> Sender]
    /\ request \in [Slots -> Request]
    /\ setting \in [Slots -> Settings]
    /\ delivered \in [Jobs -> Nat] /\ failures \in [Jobs -> Nat]
    /\ deferrals \in 0..MaxDeferrals /\ faults \in 0..MaxFaults

Init ==
    /\ status = [j \in Jobs |-> "pending"]
    /\ attempts = [j \in Jobs |-> 0]
    /\ due = [j \in Jobs |-> 0]
    /\ age = [j \in Jobs |-> 0]
    /\ sender = [s \in Senders |-> Resting]
    /\ request = [r \in Slots |-> Free]
    /\ setting = [r \in Slots |-> Unset]
    /\ delivered = [j \in Jobs |-> 0] /\ failures = [j \in Jobs |-> 0]
    /\ deferrals = 0 /\ faults = 0

Fault == faults < MaxFaults /\ faults' = faults + 1

InTransaction(r) == request[r].phase \in {"holding", "accepted"}

\* FOR UPDATE in get_claimed, until the transaction ends.
RowLocked(j) == \E r \in Slots : request[r].job = j /\ InTransaction(r)

-----------------------------------------------------------------------------
\* The sender's side.

\* Mutant: a running job is never claimed again.
ClaimablePending(s, j) ==
    /\ ~RowLocked(j)
    /\ JobWorkspace[j] = SenderWorkspace[s]
    /\ status[j] = "pending" /\ due[j] <= 0

\* The claim statement, in the scope of its own set_config.
Claimable(s, j) ==
    /\ ~RowLocked(j)
    /\ Visible(SenderWorkspace[s], JobWorkspace[j])
    /\ JobWorkspace[j] = SenderWorkspace[s]
    /\ \/ status[j] = "pending" /\ due[j] <= 0
       \/ status[j] = "running" /\ age[j] > Lease

\* ORDER BY scheduled_at LIMIT :limit, ties in any order.
Batches(S) ==
    {B \in SUBSET S : /\ Cardinality(B) = Min({BatchSize, Cardinality(S)})
                      /\ \A i \in B, j \in S \ B : due[i] <= due[j]}

Claim(s) ==
    /\ sender[s] = Resting
    /\ \E B \in Batches({j \in Jobs : Claimable(s, j)}) :
          /\ B # {}
          /\ status' = [j \in Jobs |-> IF j \in B THEN "running" ELSE status[j]]
          /\ attempts' = [j \in Jobs |->
                IF j \in B THEN Min({attempts[j] + 1, MaxCount}) ELSE attempts[j]]
          /\ age' = [j \in Jobs |-> IF j \in B THEN 0 ELSE age[j]]
          \* drain passes over payloads that DecodePayload refuses
          /\ sender' = [sender EXCEPT ![s].batch = B \ Unreadable]
    /\ UNCHANGED <<due, api, past, deferrals, faults>>

SenderOnly(s, new) ==
    /\ sender' = [sender EXCEPT ![s] = new]
    /\ UNCHANGED <<row, setting, past, deferrals>>

NextJob(s) == [sender[s] EXCEPT !.call = None, !.waited = 0]

\* The headers ProcessSendJob sets.
SenderRequest(s) ==
    [bearer |-> None, header |-> SenderWorkspace[s], internal |-> SenderToken[s]]

\* ProcessSendJob: the request reaches a slot of the API, if it is let in ...
Call(s, j) ==
    /\ sender[s].call = None /\ j \in sender[s].batch
    /\ InternalAnswer(Keys, SenderRequest(s)).code = 200
    /\ \E r \in Slots :
          /\ request[r] = Free /\ \A q \in Slots : request[q] = Free => r <= q
          /\ request' = [request EXCEPT ![r] = [Free EXCEPT
                !.phase = "received", !.job = j, !.caller = s,
                !.workspace = InternalAnswer(Keys, SenderRequest(s)).workspace]]
    /\ SenderOnly(s, [sender[s] EXCEPT !.batch = @ \ {j}, !.call = j])
    /\ UNCHANGED faults

\* ... and is refused otherwise.
CallRefused(s, j) ==
    /\ sender[s].call = None /\ j \in sender[s].batch
    /\ InternalAnswer(Keys, SenderRequest(s)).code # 200
    /\ SenderOnly(s, [sender[s] EXCEPT !.batch = @ \ {j}])
    /\ UNCHANGED <<request, faults>>

\* Nobody waits for the requests of a sender any more.
Orphaned(s) ==
    [r \in Slots |-> IF request[r].caller = s THEN [request[r] EXCEPT !.caller = None]
                     ELSE request[r]]

\* http.Client.Timeout; the request is served all the same.
GiveUp(s) ==
    /\ sender[s].call # None /\ sender[s].waited = HttpTimeout
    /\ request' = Orphaned(s)
    /\ SenderOnly(s, NextJob(s))
    /\ UNCHANGED faults

\* The sender stops or dies, and is started again.
Restart(s) ==
    /\ Fault
    /\ sender[s] # Resting
    /\ request' = Orphaned(s)
    /\ SenderOnly(s, Resting)

-----------------------------------------------------------------------------
\* The API's side.

\* The caller has its answer and goes on.
Answered(r) ==
    [s \in Senders |-> IF request[r].caller = s THEN NextJob(s) ELSE sender[s]]

\* Mutant: the setting outlives its transaction.
SettingKept(r) == setting[r]

\* set_config(..., true): after the transaction the setting reads as empty.
SettingAfter(r) == Unset

\* The transaction of a slot ends, and its connection goes back to the pool.
Release(r) ==
    /\ request' = [request EXCEPT ![r] = Free]
    /\ setting' = [setting EXCEPT ![r] = SettingAfter(r)]

\* Mutant: the row is locked whatever its status.
LockAnyJob(r) ==
    /\ request[r].phase = "received"
    /\ ~RowLocked(request[r].job)
    /\ setting' = [setting EXCEPT ![r] = request[r].workspace]
    /\ request' = [request EXCEPT ![r].phase = "holding"]
    /\ UNCHANGED <<row, sender, past, deferrals, faults>>

\* Mutant: the row is not locked.
ReadClaimed(r) ==
    /\ request[r].phase = "received"
    /\ status[request[r].job] = "running"
    /\ setting' = [setting EXCEPT ![r] = request[r].workspace]
    /\ request' = [request EXCEPT ![r].phase = "holding"]
    /\ UNCHANGED <<row, sender, past, deferrals, faults>>

\* Whether get_claimed finds the row, once no other transaction holds it.
Finds(r) ==
    /\ status[request[r].job] = "running"
    /\ JobWorkspace[request[r].job] = request[r].workspace
    /\ Visible(request[r].workspace, JobWorkspace[request[r].job])

\* get_session opens the transaction, get_claimed locks the row.
Lock(r) ==
    /\ request[r].phase = "received"
    /\ ~RowLocked(request[r].job) /\ Finds(r)
    /\ setting' = [setting EXCEPT ![r] = request[r].workspace]
    /\ request' = [request EXCEPT ![r].phase = "holding"]
    /\ UNCHANGED <<row, sender, past, deferrals, faults>>

\* SendJobNotClaimedError: 409.
NotClaimed(r) ==
    /\ request[r].phase = "received"
    /\ ~RowLocked(request[r].job) /\ ~Finds(r)
    /\ Release(r)
    /\ sender' = Answered(r)
    /\ UNCHANGED <<row, past, deferrals, faults>>

\* The handler comes to an outcome, which is answered and then committed.
\* Nothing depends on what comes between the two, so they are one step; but
\* what the provider has accepted may still be rolled back.
Settle(r, new) ==
    /\ request[r].phase = "holding"
    /\ status' = [status EXCEPT ![request[r].job] = new]
    /\ Release(r)
    /\ sender' = Answered(r)
    /\ UNCHANGED <<age>>

\* DispatchSent ...
ProviderAccepts(r) ==
    /\ request[r].phase = "holding"
    /\ request' = [request EXCEPT ![r].phase = "accepted", ![r].caller = None]
    /\ sender' = Answered(r)
    /\ delivered' = [delivered EXCEPT ![request[r].job] = @ + 1]
    /\ UNCHANGED <<row, setting, failures, deferrals, faults>>

\* ... and its commit: complete.
CommitSent(r) ==
    /\ request[r].phase = "accepted"
    /\ status' = [status EXCEPT ![request[r].job] = "done"]
    /\ Release(r)
    /\ UNCHANGED <<attempts, due, age, sender, past, deferrals, faults>>

\* The recipient is suppressed, or the lead does not accept the step: cancel.
Cancel(r) ==
    /\ Settle(r, "cancelled")
    /\ UNCHANGED <<attempts, due, past, deferrals, faults>>

\* DispatchDeferred, release: for a few seconds, or until midnight.
Defer(r) ==
    /\ deferrals < MaxDeferrals /\ deferrals' = deferrals + 1
    /\ Settle(r, "pending")
    /\ \E delay \in {0, MaxDelay} : due' = [due EXCEPT ![request[r].job] = delay]
    /\ attempts' = [attempts EXCEPT ![request[r].job] = @ - 1]
    /\ UNCHANGED <<past, faults>>

\* Mutant: one attempt too many.
RetriesOnceMore(j) == attempts[j] <= MaxSendAttempts

\* next_retry_at: there is another attempt.
Retries(j) == attempts[j] < MaxSendAttempts

\* Mutant: a failed send does not count as an attempt either.
FailUncounted(r) ==
    LET j == request[r].job
    IN  /\ Settle(r, IF Retries(j) THEN "pending" ELSE "failed")
        /\ \E delay \in 0..attempts[j] :
              due' = IF Retries(j) THEN [due EXCEPT ![j] = delay] ELSE due
        /\ attempts' = [attempts EXCEPT ![j] = @ - 1]
        /\ failures' = [failures EXCEPT ![j] = @ + 1]
        /\ UNCHANGED deferrals

\* DispatchFailed: retry_later after a backoff that counts from when the
\* request came in, so that some of it may be over; or fail.
Fail(r) ==
    LET j == request[r].job
    IN  /\ Settle(r, IF Retries(j) THEN "pending" ELSE "failed")
        /\ \E delay \in 0..attempts[j] :
              due' = IF Retries(j) THEN [due EXCEPT ![j] = delay] ELSE due
        /\ failures' = [failures EXCEPT ![j] = @ + 1]
        /\ UNCHANGED <<attempts, deferrals>>

DispatchFails(r) == Fail(r) /\ UNCHANGED <<delivered, faults>>

\* The provider accepts, but its answer is lost: the send counts as failed.
AnswerLost(r) ==
    /\ Fault
    /\ Fail(r)
    /\ delivered' = [delivered EXCEPT ![request[r].job] = @ + 1]

\* A commit is refused, the API dies, or requests get lost on their way:
\* whatever they did is rolled back.
RollBack(R) ==
    /\ Fault
    /\ R # {} /\ \A r \in R : request[r].phase \notin {"free", "reading"}
    /\ request' = [r \in Slots |-> IF r \in R THEN Free ELSE request[r]]
    /\ setting' = [r \in Slots |-> IF r \in R THEN SettingAfter(r) ELSE setting[r]]
    /\ sender' = [s \in Senders |->
          IF \E r \in R : request[r].caller = s THEN NextJob(s) ELSE sender[s]]
    /\ UNCHANGED <<row, past, deferrals>>

-----------------------------------------------------------------------------
\* Users.

\* Any GET of a user's route, once it is let in.
BeginRead(r, user) ==
    /\ Cardinality({q \in Slots : request[q].phase = "reading"}) < MaxReads
    /\ request[r] = Free /\ \A q \in Slots : request[q] = Free => r <= q
    /\ UserAnswer(Keys, user).code = 200
    /\ request' = [request EXCEPT ![r] = [Free EXCEPT
          !.phase = "reading", !.caller = user,
          !.workspace = UserAnswer(Keys, user).workspace]]
    /\ setting' = [setting EXCEPT ![r] = UserAnswer(Keys, user).workspace]
    /\ UNCHANGED <<row, sender, past, deferrals, faults>>

EndRead(r) ==
    /\ request[r].phase = "reading"
    /\ Release(r)
    /\ UNCHANGED <<row, sender, past, deferrals, faults>>

-----------------------------------------------------------------------------
\* A minute passes; a call is not waited for longer than HttpTimeout.
Tick ==
    /\ \A s \in Senders : sender[s].call # None => sender[s].waited < HttpTimeout
    /\ due' = [j \in Jobs |-> Max({due[j] - 1, -MaxLate})]
    /\ age' = [j \in Jobs |->
          IF status[j] = "running" THEN Min({age[j] + 1, Lease + 1}) ELSE 0]
    /\ sender' = [s \in Senders |->
          IF sender[s].call = None THEN sender[s] ELSE [sender[s] EXCEPT !.waited = @ + 1]]
    /\ UNCHANGED <<status, attempts, api, past, deferrals, faults>>

Drains(s) ==
    \/ Claim(s)
    \/ \E j \in Jobs : Call(s, j) \/ CallRefused(s, j)
    \/ GiveUp(s) \/ Restart(s)

Serves(r) ==
    \/ Lock(r) \/ NotClaimed(r)
    \/ ProviderAccepts(r) \/ CommitSent(r) \/ Cancel(r) \/ Defer(r)
    \/ DispatchFails(r) \/ AnswerLost(r)
    \/ EndRead(r)

Next ==
    \/ \E s \in Senders : Drains(s)
    \/ \E r \in Slots : Serves(r)
    \/ \E R \in SUBSET Slots : RollBack(R)
    \/ \E r \in Slots, user \in Users : BeginRead(r, user)
    \/ Tick

Spec == Init /\ [][Next]_vars

\* Senders that are let in.
LetIn == {s \in Senders : InternalAnswer(Keys, SenderRequest(s)).code = 200}

\* Senders and the API keep running: a batch is worked off, a request that is
\* served comes to an end, row locks are granted; and as the senders' polls are
\* jittered at random, no rival takes a job first forever.
Fairness ==
    /\ WF_vars(Tick)
    /\ \A s \in LetIn :
          /\ \A j \in Jobs \ Unreadable : SF_vars(Claim(s) /\ j \in sender'[s].batch)
          /\ SF_vars(\E j \in Jobs : Call(s, j))
    /\ \A r \in Slots : SF_vars(Serves(r))

FairSpec == Spec /\ Fairness

-----------------------------------------------------------------------------
\* The route sends a message once, however often its job is claimed while a
\* batch outlives the lease, and however many callers have given up on it:
\* only a lost answer or a lost commit repeats it.
SentOnce == \A j \in Jobs : delivered[j] <= 1 + faults

\* A failed send is tried again at most MaxSendAttempts times, though claims
\* and deferrals move the count of attempts as well.
GivesUpInTime == \A j \in Jobs : failures[j] <= MaxSendAttempts

\* The backoff holds for every caller: no transaction takes up a job before
\* its scheduled_at, not even for a sender that claimed it long ago.
BackoffHolds ==
    [][\A r \in Slots : ~InTransaction(r) /\ InTransaction(r)'
          => due[request'[r].job] <= 0]_vars

\* A transaction sees the rows of its own workspace and no others: the job's,
\* or that of the key which came with the request, whatever its header says (the
\* header counts when there is no key); and a connection in the
\* pool sees none, whoever had it before.
ScopeIsOwn ==
    \A r \in Slots :
        LET user == request[r].caller
            scope == ScopeOf(setting[r])
        IN  /\ InTransaction(r) => scope = {JobWorkspace[request[r].job]}
            /\ request[r].phase = "reading" =>
                  scope = IF user.bearer = None THEN {user.header}
                          ELSE Resolve(Keys, user.bearer)
            /\ request[r].phase \in {"free", "received"} => scope = {}

\* A job that such a sender serves is settled in the end: lost calls, expired
\* leases, deferrals and jobs that nobody can read do not hold it up forever.
JobsSettle ==
    \A j \in Jobs \ Unreadable :
        (\E s \in LetIn : SenderWorkspace[s] = JobWorkspace[j])
            => <>(status[j] \in {"done", "failed", "cancelled"})
=============================================================================
