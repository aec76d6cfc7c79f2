----------------------- MODULE CampaignSending_counts -----------------------
(***************************************************************************)
(* What CampaignSending counts, for every value of its constants: the      *)
(* attempts of a job against the slots that have it in hand; while the     *)
(* API's requests do not overlap, the first jobs of a lead, and how leads  *)
(* and jobs keep in step; and what a report counts of it.                  *)
(*                                                                         *)
(* A claim adds one attempt and one slot to each job, because the slots of *)
(* a batch get different jobs; only a deferral takes an attempt back, and  *)
(* its own slot with it.  An idle slot has no job in hand (IdleSlots), so  *)
(* a slot that is claimed again was not counted before.                    *)
(***************************************************************************)
EXTENDS CampaignQueries, CampaignSending_types

\* The slots that have a job in hand.
Holders(j) == {w \in Workers : send[w].job = j}

IdleSlots == \A w \in Workers : send[w].phase = "idle" => send[w].job = 0

AttemptsCover == \A j \in DOMAIN jobs : jobs[j].attempts >= Cardinality(Holders(j))

Counted == Typed /\ IdleSlots /\ AttemptsCover

-----------------------------------------------------------------------------
\* Sets of slots can be counted.
LEMMA SlotsFinite ==
    ASSUME NEW S \in SUBSET Workers
    PROVE  /\ IsFiniteSet(S) /\ Cardinality(S) \in Nat
           /\ \A T \in SUBSET S : Cardinality(T) <= Cardinality(S)
           /\ \A w \in S : Cardinality(S \ {w}) = Cardinality(S) - 1
           /\ \A w \in Workers : w \notin S => Cardinality(S \cup {w}) = Cardinality(S) + 1
<1>1. IsFiniteSet(S) /\ Cardinality(S) \in Nat
    BY SendingAssumption, FS_Subset, FS_CardinalityType
<1> QED  BY <1>1, FS_Subset, FS_AddElement, FS_RemoveElement

\* Slots that keep their job or let it go, and jobs that keep their attempts;
\* a job that is added has no attempts and nobody has it.
LEMMA SlotsLetGo ==
    ASSUME Counted, Typed',
           \A w \in Workers : \/ send'[w].phase # "idle" /\ send'[w].job = send[w].job
                              \/ send'[w] = send[w] \/ send'[w] = IdleSend,
           \A j \in DOMAIN jobs : jobs'[j].attempts = jobs[j].attempts,
           \A j \in DOMAIN jobs' \ DOMAIN jobs : jobs'[j].attempts = 0
    PROVE  IdleSlots' /\ AttemptsCover'
<1>1. IdleSlots'
    BY DEF Counted, IdleSlots, IdleSend
<1>2. DOMAIN jobs \subseteq Nat \ {0} /\ DOMAIN jobs' \subseteq Nat \ {0}
    BY JobDomain DEF Counted, Typed, TypeOK
<1>3. \A j \in DOMAIN jobs' : Holders(j)' \subseteq Holders(j)
    BY <1>2 DEF Holders, IdleSend
<1>4. ASSUME NEW j \in DOMAIN jobs'
      PROVE  jobs'[j].attempts >= Cardinality(Holders(j)')
    <2>1. CASE j \in DOMAIN jobs
        <3>1. /\ Cardinality(Holders(j)') <= Cardinality(Holders(j))
              /\ Cardinality(Holders(j)') \in Nat /\ Cardinality(Holders(j)) \in Nat
            BY <1>3, SlotsFinite DEF Holders
        <3>2. jobs[j] \in Jobs /\ jobs'[j] \in Jobs
            BY <1>4, <2>1, JobDomain DEF Counted, Typed, TypeOK
        <3>3. jobs[j].attempts \in Int /\ jobs'[j].attempts = jobs[j].attempts
            BY <2>1, <3>2 DEF Jobs
        <3> QED  BY <2>1, <3>1, <3>3 DEF Counted, AttemptsCover
    <2>2. CASE j \notin DOMAIN jobs
        <3>1. \A w \in Workers : send[w].job # j
            <4> SUFFICES ASSUME NEW w \in Workers, send[w].job = j
                         PROVE  FALSE
                OBVIOUS
            <4>1. send[w].phase # "idle"
                BY <1>2, <1>4 DEF Counted, IdleSlots
            <4> QED  BY <2>2, <4>1 DEF Counted, Typed, SlotsTyped, SlotTyped
        <3>2. Holders(j)' = {}
            BY <1>3, <3>1 DEF Holders
        <3> QED  BY <2>2, <3>2, FS_EmptySet
    <2> QED  BY <2>1, <2>2
<1> QED  BY <1>1, <1>4 DEF AttemptsCover, Holders

-----------------------------------------------------------------------------
(* The claim.                                                              *)

\* The slots of a batch were idle and get different jobs, so each job of the
\* batch has one slot more, and one attempt more.
LEMMA ClaimCounted ==
    ASSUME Counted, NEW S \in SUBSET Workers, NEW batch \in [S -> DOMAIN jobs], Claim(batch)
    PROVE  IdleSlots' /\ AttemptsCover'
<1> DEFINE J == {batch[w] : w \in DOMAIN batch}
<1>1. /\ \A w \in S : send[w].phase = "idle"
      /\ \A v, w \in S : batch[v] = batch[w] => v = w
      /\ jobs' = [j \in DOMAIN jobs |->
              IF j \in J THEN [jobs[j] EXCEPT !.status = "running", !.attempts = @ + 1]
              ELSE jobs[j]]
      /\ send' = [w \in Workers |->
              IF w \in S
              THEN [IdleSend EXCEPT !.phase = "claimed", !.job = batch[w],
                                    !.attempts = jobs[batch[w]].attempts + 1]
              ELSE send[w]]
    BY DEF Claim, ClaimJobs
<1>2. /\ \A j \in DOMAIN jobs : jobs[j] \in Jobs
      /\ DOMAIN jobs \subseteq Nat \ {0}
    BY JobDomain DEF Counted, Typed, TypeOK
<1>3. \A w \in Workers : /\ w \in S => send'[w].phase = "claimed" /\ send'[w].job = batch[w]
                         /\ w \notin S => send'[w] = send[w]
    BY <1>1 DEF IdleSend
<1>4. IdleSlots'
    BY <1>3 DEF Counted, IdleSlots
<1>5. \A w \in S, j \in DOMAIN jobs : w \notin Holders(j)
    BY <1>1, <1>2 DEF Holders, Counted, IdleSlots
<1>6. ASSUME NEW j \in DOMAIN jobs
      PROVE  jobs'[j].attempts >= Cardinality(Holders(j)')
    <2>1. jobs[j].attempts \in Int /\ jobs[j].attempts >= Cardinality(Holders(j))
        BY <1>2 DEF Jobs, Counted, AttemptsCover
    <2>2. CASE j \in J
        <3>1. PICK w \in S : batch[w] = j
            BY <2>2
        <3>2. Holders(j)' = Holders(j) \cup {w} /\ w \notin Holders(j)
            <4>1. ASSUME NEW v \in Workers
                  PROVE  send'[v].job = j <=> (v = w \/ send[v].job = j)
                <5>1. CASE v \in S
                    <6>1. send'[v].job = batch[v] /\ send[v].job # j
                        BY <1>3, <1>5, <5>1 DEF Holders
                    <6> QED  BY <1>1, <3>1, <5>1, <6>1
                <5>2. CASE v \notin S
                    BY <1>3, <5>2
                <5> QED  BY <5>1, <5>2
            <4>2. Holders(j)' = Holders(j) \cup {w}
                BY <4>1 DEF Holders
            <4> QED  BY <1>5, <4>2
        <3>3. Cardinality(Holders(j)') = Cardinality(Holders(j)) + 1
            BY <3>2, SlotsFinite DEF Holders
        <3>4. jobs'[j].attempts = jobs[j].attempts + 1
            BY <1>1, <1>2, <2>2 DEF Jobs
        <3>5. Cardinality(Holders(j)) \in Nat
            BY SlotsFinite DEF Holders
        <3> QED  BY <2>1, <3>3, <3>4, <3>5
    <2>3. CASE j \notin J
        <3>1. Holders(j)' = Holders(j)
            BY <1>3, <1>5, <2>3 DEF Holders
        <3> QED  BY <1>1, <2>1, <2>3, <3>1
    <2> QED  BY <2>2, <2>3
<1>7. DOMAIN jobs' = DOMAIN jobs
    BY <1>1
<1> QED  BY <1>4, <1>6, <1>7 DEF AttemptsCover, Holders

-----------------------------------------------------------------------------
(* The commits.                                                            *)

\* A deferral gives its attempt back and lets its job go.
LEMMA FinishDeferredCounted ==
    ASSUME Counted, NEW w \in Workers, FinishDeferred(w)
    PROVE  IdleSlots' /\ AttemptsCover'
<1> DEFINE k == send[w].job
<1>1. /\ send[w].phase = "deferred"
      /\ send' = [send EXCEPT ![w] = IdleSend]
      /\ jobs' = [jobs EXCEPT ![k].status = "pending", ![k].attempts = @ - 1]
    BY DEF FinishDeferred, Finish
<1>2. /\ \A j \in DOMAIN jobs : jobs[j] \in Jobs
      /\ DOMAIN jobs \subseteq Nat \ {0}
      /\ k \in DOMAIN jobs
      /\ send \in [Workers -> Sends]
    BY <1>1, JobDomain DEF Counted, Typed, TypeOK, SlotsTyped, SlotTyped
<1>3. /\ send'[w] = IdleSend
      /\ \A v \in Workers : v # w => send'[v] = send[v]
    BY <1>1, <1>2
<1>4. IdleSlots'
    BY <1>3 DEF Counted, IdleSlots, IdleSend
<1>5. \A j \in DOMAIN jobs : Holders(j)' = Holders(j) \ {w}
    BY <1>2, <1>3 DEF Holders, IdleSend
<1>6. DOMAIN jobs' = DOMAIN jobs
    BY <1>1
<1>7. ASSUME NEW j \in DOMAIN jobs
      PROVE  jobs'[j].attempts >= Cardinality(Holders(j)')
    <2>1. jobs[j].attempts \in Int /\ jobs[j].attempts >= Cardinality(Holders(j))
        BY <1>2 DEF Jobs, Counted, AttemptsCover
    <2>2. Cardinality(Holders(j)) \in Nat
        BY SlotsFinite DEF Holders
    <2>3. CASE j = k
        <3>1. w \in Holders(j)
            BY <2>3 DEF Holders
        <3>2. Cardinality(Holders(j) \ {w}) = Cardinality(Holders(j)) - 1
            BY <3>1, SlotsFinite DEF Holders
        <3>3. jobs'[j].attempts = jobs[j].attempts - 1
            BY <1>1, <1>2, <2>3 DEF Jobs
        <3> QED  BY <1>5, <2>1, <2>2, <3>2, <3>3
    <2>4. CASE j # k
        <3>1. w \notin Holders(j)
            BY <2>4 DEF Holders
        <3>2. Holders(j)' = Holders(j) /\ jobs'[j] = jobs[j]
            BY <1>1, <1>5, <2>4, <3>1
        <3> QED  BY <2>1, <3>2
    <2> QED  BY <2>3, <2>4
<1> QED  BY <1>4, <1>6, <1>7 DEF AttemptsCover, Holders

\* The other outcomes leave the attempts of all jobs alone.
LEMMA FinishCounted ==
    ASSUME Counted, Typed', NEW w \in Workers,
           FinishSent(w) \/ FinishSuppressed(w) \/ FinishFailed(w) \/ FinishIneligible(w)
    PROVE  IdleSlots' /\ AttemptsCover'
<1> DEFINE k == send[w].job
<1>1. /\ \A j \in DOMAIN jobs : jobs[j] \in Jobs
      /\ k \in DOMAIN jobs
      /\ send \in [Workers -> Sends]
    BY JobDomain DEF Counted, Typed, TypeOK, SlotsTyped, SlotTyped,
                     FinishSent, FinishSuppressed, FinishFailed, FinishIneligible
<1>2. send' = [send EXCEPT ![w] = IdleSend]
    BY DEF FinishSent, FinishSuppressed, FinishFailed, FinishIneligible, Finish
<1>3. /\ \A j \in DOMAIN jobs : jobs'[j].attempts = jobs[j].attempts
      /\ \A j \in DOMAIN jobs' \ DOMAIN jobs : jobs'[j].attempts = 0
    <2>1. CASE FinishSent(w)
        <3> DEFINE done == [jobs EXCEPT ![k].status = "done", ![k].outbound = send[w].msg]
                   x == NewJob(jobs[k].lead, jobs[k].position + 1)
        <3>1. send[w].phase = "accepted" /\ (jobs' = done \/ jobs' = Append(done, x))
            BY <2>1 DEF FinishSent, Finish
        <3>2. \A j \in DOMAIN jobs : done[j].attempts = jobs[j].attempts
            BY <1>1 DEF Jobs
        <3>3. DOMAIN done = DOMAIN jobs /\ done \in Seq(Jobs)
            BY <3>1, DoneJobs DEF Counted, Follows
        <3>4. x.attempts = 0
            BY DEF NewJob
        <3> HIDE DEF done, x
        <3>5. CASE jobs' = Append(done, x)
            <4>1. /\ \A j \in DOMAIN done : Append(done, x)[j] = done[j]
                  /\ \A j \in DOMAIN Append(done, x) \ DOMAIN done : Append(done, x)[j] = x
                BY <3>3, LenProperties DEF Append
            <4> QED  BY <3>2, <3>3, <3>4, <3>5, <4>1
        <3> QED  BY <3>1, <3>2, <3>3, <3>5
    <2>2. CASE FinishSuppressed(w) \/ FinishFailed(w) \/ FinishIneligible(w)
        <3>1. PICK x : jobs' = [jobs EXCEPT ![k].status = x]
            BY <2>2 DEF FinishSuppressed, FinishFailed, FinishIneligible, Finish, Set
        <3> QED  BY <1>1, <3>1 DEF Jobs
    <2> QED  BY <2>1, <2>2
<1>4. \A v \in Workers : send'[v] = send[v] \/ send'[v] = IdleSend
    BY <1>1, <1>2
<1> QED  BY <1>3, <1>4, SlotsLetGo

-----------------------------------------------------------------------------
(* All other steps.                                                        *)

\* Steps of a slot that keep the jobs.
LEMMA SlotStepsCounted ==
    ASSUME Counted, Typed', NEW w \in Workers,
           \/ Load(w) \/ NotClaimed(w) \/ CheckSuppression(w) \/ TakeMailbox(w)
           \/ ProviderAccepts(w) \/ AnswerLost(w) \/ DispatchFails(w) \/ ReadAgain(w)
    PROVE  IdleSlots' /\ AttemptsCover'
<1>1. jobs' = jobs
    BY DEF Load, NotClaimed, CheckSuppression, TakeMailbox, ProviderAccepts, AnswerLost,
           DispatchFails, ReadAgain, Deliver, tables
<1>2. send[w] \in Sends /\ send \in [Workers -> Sends]
    BY DEF Counted, Typed, TypeOK
<1>3. \A v \in Workers : v # w => send'[v] = send[v]
    BY <1>2 DEF Load, NotClaimed, CheckSuppression, TakeMailbox, ProviderAccepts, AnswerLost,
                DispatchFails, ReadAgain, Move
<1>4. send'[w] = IdleSend \/ (send'[w].job = send[w].job /\ send'[w].phase # "idle")
    <2>1. CASE NotClaimed(w)
        BY <1>2, <2>1 DEF NotClaimed
    <2>2. CASE Load(w)
        BY <1>2, <2>2 DEF Load, Sends
    <2>3. CASE CheckSuppression(w)
        BY <1>2, <2>3 DEF CheckSuppression, Move, Sends
    <2>4. CASE TakeMailbox(w)
        BY <1>2, <2>4 DEF TakeMailbox, Sends
    <2>5. CASE ProviderAccepts(w) \/ AnswerLost(w) \/ DispatchFails(w)
        BY <1>2, <2>5 DEF ProviderAccepts, AnswerLost, DispatchFails, Sends
    <2>6. CASE ReadAgain(w)
        BY <1>2, <2>6 DEF ReadAgain, WritesLead, Sends
    <2> QED  BY <2>1, <2>2, <2>3, <2>4, <2>5, <2>6
<1> QED  BY <1>1, <1>3, <1>4, SlotsLetGo

\* A consumer cancels jobs and leaves their attempts alone.
LEMMA ReplyCounted ==
    ASSUME Counted, Typed', ReplyNext
    PROVE  IdleSlots' /\ AttemptsCover'
<1>1. PICK r \in Consumers :
          \/ jobs' = jobs
          \/ jobs' = [j \in DOMAIN jobs |->
                 IF j \in reply[r].cancels THEN [jobs[j] EXCEPT !.status = "cancelled"]
                 ELSE jobs[j]]
    BY DEF ReplyNext, ReplyClaim, ReplyIgnored, ReplyLoad, ReplyReadAgain, ReplyFlush,
           ReplyCommit, ConsumerCrash, tables
<1>2. \A j \in DOMAIN jobs : jobs[j] \in Jobs
    BY JobDomain DEF Counted, Typed, TypeOK
<1>3. /\ DOMAIN jobs' = DOMAIN jobs
      /\ \A j \in DOMAIN jobs : jobs'[j].attempts = jobs[j].attempts
    BY <1>1, <1>2 DEF Jobs
<1>4. send' = send
    BY DEF ReplyNext, ReplyClaim, ReplyIgnored, ReplyLoad, ReplyReadAgain, ReplyFlush,
           ReplyCommit, ConsumerCrash, ReplyUnchanged
<1> QED  BY <1>3, <1>4, SlotsLetGo

\* A request adds jobs that nobody has claimed yet.
LEMMA ClientCounted ==
    ASSUME Counted, Typed', ClientNext
    PROVE  IdleSlots' /\ AttemptsCover'
<1>1. PICK c \in Clients : jobs' = jobs \/ jobs' = jobs \o FirstJobs(request[c].leads)
    BY DEF ClientNext, AddLeadsRead, AddLeadsCommit, AddLeadsConflict, StartRead, StartList,
           StartFlush, StartCommit, AddRows
<1>2. send' = send
    BY DEF ClientNext, AddLeadsRead, AddLeadsCommit, AddLeadsConflict, StartRead, StartList,
           StartFlush, StartCommit, AddRows, RequestUnchanged
<1> DEFINE L == request[c].leads
           r == jobs \o FirstJobs(L)
<1>3. jobs \in Seq(Jobs) /\ L \in SUBSET Leads
    BY DEF Counted, Typed, TypeOK, Requests
<1>4. /\ \A j \in DOMAIN jobs : r[j] = jobs[j]
      /\ \A j \in DOMAIN r \ DOMAIN jobs : \E l \in L : r[j] = NewJob(l, 1)
    BY <1>3, JobsAdded
<1>5. \A l : NewJob(l, 1).attempts = 0
    BY DEF NewJob
<1>6. /\ \A j \in DOMAIN jobs : jobs'[j].attempts = jobs[j].attempts
      /\ \A j \in DOMAIN jobs' \ DOMAIN jobs : jobs'[j].attempts = 0
    BY <1>1, <1>4, <1>5
<1> QED  BY <1>2, <1>6, SlotsLetGo

LEMMA CountedStep == Counted /\ [Next]_vars => Counted'
<1> SUFFICES ASSUME Counted, [Next]_vars PROVE Counted'
    OBVIOUS
<1>1. Typed'
    BY TypedStep DEF Counted
<1>2. CASE ClientNext
    BY <1>1, <1>2, ClientCounted DEF Counted
<1>3. CASE ClaimNext
    BY <1>1, <1>3, ClaimCounted DEF ClaimNext, Counted
<1>4. CASE ProcessNext
    BY <1>1, <1>4, SlotStepsCounted, FinishCounted, FinishDeferredCounted
       DEF ProcessNext, Counted
<1>5. CASE CrashNext
    <2>1. jobs' = jobs /\ \A w \in Workers : send'[w] = send[w] \/ send'[w] = IdleSend
        BY <1>5 DEF CrashNext, WorkersCrash, tables
    <2> QED  BY <1>1, <2>1, SlotsLetGo DEF Counted
<1>6. CASE ReplyNext
    BY <1>1, <1>6, ReplyCounted DEF Counted
<1>7. CASE PollNext \/ NextDay \/ UNCHANGED vars
    <2>1. jobs' = jobs /\ send' = send
        BY <1>7 DEF PollNext, Answer, NextDay, tables, vars
    <2> QED  BY <1>1, <2>1, SlotsLetGo DEF Counted
<1> QED  BY <1>2, <1>3, <1>4, <1>5, <1>6, <1>7 DEF Next

LEMMA CountedInitially == Init => Counted
<1> SUFFICES ASSUME Init PROVE Counted
    OBVIOUS
<1>1. DOMAIN jobs = {}
    BY EmptySeq DEF Init
<1> QED  BY <1>1, TypedInitially DEF Init, Counted, IdleSlots, IdleSend, AttemptsCover

\* A job's attempts are never fewer than the slots that have it in hand, and
\* never negative, however many leases overlap and however often a deferral
\* gives an attempt back.
THEOREM AttemptsHold == Spec => []AttemptsCoverSlots
<1>1. Counted => AttemptsCoverSlots
    BY DEF Counted, AttemptsCover, AttemptsCoverSlots, Holders
<1> QED  BY <1>1, CountedInitially, CountedStep, PTL DEF Spec

-----------------------------------------------------------------------------
(* One request at a time.  Then a start finds the campaign as it was when  *)
(* the start began: nothing has been sent, and each lead is pending and    *)
(* has no job.                                                             *)

OneAtATime == \A c, d \in Clients : c = d

DraftIsBlank ==
    status = "draft" => /\ jobs = <<>> /\ mail = <<>> /\ events = <<>>
                        /\ \A l \in Leads : lead[l] \in {NoRow, NewLead}

RequestFits(q) ==
    /\ q.phase = "adding" => (q.active <=> status = "active")
    /\ q.phase \in {"starting", "listed", "flushed"} => status = "draft"
    /\ q.phase \in {"listed", "flushed"} =>
          q.leads = {l \in Leads : lead[l].state = "pending"}
    /\ q.phase = "flushed" => \A l \in q.leads : q.seen[l] = lead[l]

RequestsFit == \A c \in Clients : RequestFits(request[c])

\* A consumer works once the campaign is active, and writes no pending lead.
RowsSettled ==
    \A r \in Consumers : /\ reply[r].phase # "idle" => status = "active"
                         /\ reply[r].new.state # "pending"
                         /\ \A l \in Leads : reply[r].rows[l].state # "pending"

OneFirstJob ==
    \A j, k \in DOMAIN jobs :
        jobs[j].position = 1 /\ jobs[k].position = 1 /\ jobs[j].lead = jobs[k].lead => j = k

Orderly ==
    /\ Typed /\ DraftIsBlank /\ PendingOnlyInDraft /\ RequestsFit
    /\ RowsSettled /\ OneFirstJob

\* The step-1 jobs of a set of leads are jobs of different leads.
LEMMA FirstJobsDiffer ==
    ASSUME NEW L \in SUBSET Leads
    PROVE  \A i, k \in DOMAIN FirstJobs(L) :
               FirstJobs(L)[i].lead = FirstJobs(L)[k].lead => i = k
<1> DEFINE n == Cardinality(L)
           order == CHOOSE f \in [1..n -> L] :
                        \A i, k \in DOMAIN f : f[i] = f[k] => i = k
<1>1. n \in Nat /\ ExistsBijection(1..n, L)
    BY SendingAssumption, FS_Subset, FS_CardinalityType
<1>2. \E f \in [1..n -> L] : \A i, k \in DOMAIN f : f[i] = f[k] => i = k
    BY <1>1 DEF ExistsBijection, Bijection, Injection, IsInjective
<1>3. order \in [1..n -> L] /\ \A i, k \in DOMAIN order : order[i] = order[k] => i = k
    BY <1>2
<1>4. FirstJobs(L) = [i \in 1..n |-> NewJob(order[i], 1)]
    BY DEF FirstJobs
<1> HIDE DEF order, n
<1>5. \A i \in DOMAIN FirstJobs(L) : i \in DOMAIN order /\ FirstJobs(L)[i].lead = order[i]
    BY <1>3, <1>4 DEF NewJob
<1> QED  BY <1>3, <1>5

\* So they stay the only first jobs of their leads, if these had none.
LEMMA FirstJobsAdded ==
    ASSUME Orderly, NEW L \in SUBSET Leads, jobs' = jobs \o FirstJobs(L),
           \A j \in DOMAIN jobs : jobs[j].lead \notin L
    PROVE  OneFirstJob'
<1>1. jobs \in Seq(Jobs) /\ FirstJobs(L) \in Seq(Jobs)
    BY FirstJobsTyped DEF Orderly, Typed, TypeOK
<1> DEFINE f == FirstJobs(L)
<1>2. /\ DOMAIN jobs = 1..Len(jobs) /\ Len(jobs) \in Nat
      /\ DOMAIN f = 1..Len(f) /\ Len(f) \in Nat
    BY <1>1, JobDomain
<1>3. /\ \A i \in DOMAIN jobs' : i \in 1..(Len(jobs) + Len(f))
      /\ \A i \in 1..(Len(jobs) + Len(f)) :
            jobs'[i] = IF i <= Len(jobs) THEN jobs[i] ELSE f[i - Len(jobs)]
    <2>1. jobs \o f \in Seq(Jobs) /\ Len(jobs \o f) = Len(jobs) + Len(f)
        BY <1>1, ConcatProperties
    <2>2. DOMAIN (jobs \o f) = 1..(Len(jobs) + Len(f))
        BY <2>1, JobDomain
    <2> QED  BY <1>1, <2>2, ConcatProperties
<1>4. /\ \A i, k \in DOMAIN f : f[i].lead = f[k].lead => i = k
      /\ \A i \in DOMAIN f : f[i].lead \in L
    <2>1. \A i \in DOMAIN f : \E l \in L : f[i] = NewJob(l, 1)
        BY FirstJobsTyped
    <2>2. \A i \in DOMAIN f : f[i].lead \in L
        BY <2>1 DEF NewJob
    <2> QED  BY <2>2, FirstJobsDiffer
<1> HIDE DEF f
<1>5. \A i \in DOMAIN jobs' : \/ i \in DOMAIN jobs /\ jobs'[i] = jobs[i]
                              \/ /\ i - Len(jobs) \in DOMAIN f /\ i \in Nat
                                 /\ jobs'[i] = f[i - Len(jobs)]
    BY <1>2, <1>3
<1> SUFFICES ASSUME NEW i \in DOMAIN jobs', NEW k \in DOMAIN jobs',
                    jobs'[i].position = 1, jobs'[k].position = 1,
                    jobs'[i].lead = jobs'[k].lead
             PROVE  i = k
    BY DEF OneFirstJob
<1>6. CASE i \in DOMAIN jobs /\ jobs'[i] = jobs[i]
    <2>1. k \in DOMAIN jobs /\ jobs'[k] = jobs[k]
        BY <1>4, <1>5, <1>6
    <2> QED  BY <1>6, <2>1 DEF Orderly, OneFirstJob
<1>7. CASE i - Len(jobs) \in DOMAIN f /\ i \in Nat /\ jobs'[i] = f[i - Len(jobs)]
    <2>1. k - Len(jobs) \in DOMAIN f /\ k \in Nat /\ jobs'[k] = f[k - Len(jobs)]
        BY <1>4, <1>5, <1>7
    <2>2. i - Len(jobs) = k - Len(jobs)
        BY <1>4, <1>7, <2>1
    <2> QED  BY <1>2, <1>7, <2>1, <2>2
<1> QED  BY <1>5, <1>6, <1>7

\* A request that only reads.
LEMMA RequestReads ==
    ASSUME OneAtATime, Orderly, Typed', NEW c \in Clients, NEW q,
           request' = [request EXCEPT ![c] = q], RequestFits(q),
           UNCHANGED <<status, lead, jobs, mail, events, reply>>
    PROVE  Orderly'
<1>1. \A d \in Clients : request'[d] = q
    BY DEF OneAtATime, Orderly, Typed, TypeOK
<1>2. RequestsFit'
    BY <1>1 DEF RequestsFit, RequestFits
<1>3. DraftIsBlank' /\ PendingOnlyInDraft' /\ RowsSettled' /\ OneFirstJob'
    BY DEF Orderly, DraftIsBlank, PendingOnlyInDraft, RowsSettled, OneFirstJob
<1> QED  BY <1>2, <1>3 DEF Orderly

\* A request that commits, and is over.
LEMMA RequestEnds ==
    ASSUME OneAtATime, Orderly, Typed', NEW c \in Clients,
           request' = [request EXCEPT ![c] = IdleRequest],
           UNCHANGED <<mail, events, reply>>, status' \in {status, "active"},
           DraftIsBlank', PendingOnlyInDraft', OneFirstJob'
    PROVE  Orderly'
<1>1. \A d \in Clients : request'[d] = IdleRequest
    BY DEF OneAtATime, Orderly, Typed, TypeOK
<1>2. RequestsFit'
    BY <1>1 DEF RequestsFit, RequestFits, IdleRequest
<1>3. RowsSettled'
    BY DEF Orderly, RowsSettled
<1> QED  BY <1>2, <1>3 DEF Orderly

LEMMA RequestReadsOrderly ==
    ASSUME OneAtATime, Orderly, Typed', NEW c \in Clients,
           AddLeadsRead(c) \/ AddLeadsConflict(c) \/ StartRead(c) \/ StartList(c) \/ StartFlush(c)
    PROVE  Orderly'
<1>1. /\ request[c] \in Requests /\ RequestFits(request[c])
      /\ UNCHANGED <<status, lead, jobs, mail, events, reply>>
    BY DEF Orderly, Typed, TypeOK, RequestsFit, AddLeadsRead, AddLeadsConflict, StartRead,
           StartList, StartFlush, RequestUnchanged
<1>2. RequestFits(IdleRequest)
    BY DEF RequestFits, IdleRequest
<1>3. CASE AddLeadsRead(c)
    <2>1. PICK L \in SUBSET Leads :
              request' = [request EXCEPT ![c] =
                  [IdleRequest EXCEPT !.phase = "adding", !.active = (status = "active"),
                                      !.leads = L]]
        BY <1>3 DEF AddLeadsRead
    <2> DEFINE q == [IdleRequest EXCEPT !.phase = "adding", !.active = (status = "active"),
                                        !.leads = L]
    <2>2. request' = [request EXCEPT ![c] = q]
        BY <2>1
    <2>3. q.phase = "adding" /\ (q.active <=> status = "active")
        BY DEF IdleRequest
    <2> HIDE DEF q
    <2>4. RequestFits(q)
        BY <2>3 DEF RequestFits
    <2> QED  BY <1>1, <2>2, <2>4, RequestReads
<1>4. CASE AddLeadsConflict(c)
    BY <1>1, <1>2, <1>4, RequestReads DEF AddLeadsConflict
<1>5. CASE StartRead(c)
    <2> DEFINE q == [request[c] EXCEPT !.phase = "starting"]
    <2>1. request' = [request EXCEPT ![c] = q] /\ status = "draft"
        BY <1>5 DEF StartRead
    <2>2. q.phase = "starting"
        BY <1>1 DEF Requests
    <2> HIDE DEF q
    <2>3. RequestFits(q)
        BY <2>1, <2>2 DEF RequestFits
    <2> QED  BY <1>1, <2>1, <2>3, RequestReads
<1>6. CASE StartList(c)
    <2> DEFINE P == {l \in Leads : lead[l].state = "pending"}
               q == [request[c] EXCEPT !.phase = "listed", !.leads = P]
    <2>1. /\ request' = [request EXCEPT ![c] = IdleRequest] \/ request' = [request EXCEPT ![c] = q]
          /\ request[c].phase = "starting"
        BY <1>6 DEF StartList
    <2>2. status = "draft"
        BY <1>1, <2>1 DEF RequestFits
    <2> HIDE DEF P
    <2>3. q.phase = "listed" /\ q.leads = P
        BY <1>1 DEF Requests
    <2> HIDE DEF q
    <2>4. RequestFits(q)
        BY <2>2, <2>3 DEF RequestFits, P
    <2> QED  BY <1>1, <1>2, <2>1, <2>4, RequestReads
<1>7. CASE StartFlush(c)
    <2> DEFINE R == [l \in Leads |-> IF l \in request[c].leads THEN lead[l] ELSE NoRow]
               q == [request[c] EXCEPT !.phase = "flushed", !.seen = R]
    <2>1. request' = [request EXCEPT ![c] = q] /\ request[c].phase = "listed"
        BY <1>7 DEF StartFlush
    <2>2. /\ status = "draft" /\ request[c].leads = {l \in Leads : lead[l].state = "pending"}
        BY <1>1, <2>1 DEF RequestFits
    <2>3. \A l \in request[c].leads : R[l] = lead[l]
        BY <2>2
    <2> HIDE DEF R
    <2>4. q.phase = "flushed" /\ q.leads = request[c].leads /\ q.seen = R
        BY <1>1 DEF Requests
    <2> HIDE DEF q
    <2>5. RequestFits(q)
        BY <2>2, <2>3, <2>4 DEF RequestFits
    <2> QED  BY <1>1, <2>1, <2>5, RequestReads
<1> QED  BY <1>3, <1>4, <1>5, <1>6, <1>7

LEMMA AddLeadsOrderly ==
    ASSUME OneAtATime, Orderly, Typed', NEW c \in Clients, AddLeadsCommit(c)
    PROVE  Orderly'
<1> DEFINE L == request[c].leads
           row == IF request[c].active THEN Scheduled(NewLead) ELSE NewLead
<1>1. /\ lead' = [l \in Leads |-> IF l \in L THEN row ELSE lead[l]]
      /\ jobs' = IF request[c].active THEN jobs \o FirstJobs(L) ELSE jobs
      /\ \A l \in L : ~Added(l)
      /\ request' = [request EXCEPT ![c] = IdleRequest]
      /\ request[c].phase = "adding"
      /\ UNCHANGED <<status, mail, events, reply>>
    BY DEF AddLeadsCommit, AddRows, RequestUnchanged
<1>2. /\ L \in SUBSET Leads /\ RequestFits(request[c])
      /\ status \in {"draft", "active"} /\ lead \in [Leads -> Rows]
    BY DEF Orderly, Typed, TypeOK, Requests, RequestsFit, CampaignStatuses
<1>3. request[c].active <=> status = "active"
    BY <1>1, <1>2 DEF RequestFits
<1>4. Scheduled(NewLead).state = "scheduled"
    BY DEF Scheduled, NewLead
<1>5. DraftIsBlank'
    <2> SUFFICES ASSUME status = "draft" PROVE DraftIsBlank'
        BY <1>1 DEF DraftIsBlank
    <2>1. row = NewLead /\ jobs' = jobs
        BY <1>1, <1>3
    <2> HIDE DEF row, L
    <2> QED  BY <1>1, <2>1 DEF Orderly, DraftIsBlank
<1>6. PendingOnlyInDraft'
    <2> SUFFICES ASSUME status = "active" PROVE PendingOnlyInDraft'
        BY <1>1 DEF PendingOnlyInDraft
    <2>1. row.state = "scheduled"
        BY <1>3, <1>4
    <2> HIDE DEF row, L
    <2> QED  BY <1>1, <2>1 DEF Orderly, PendingOnlyInDraft
<1>7. OneFirstJob'
    <2>1. CASE request[c].active
        <3>1. jobs' = jobs \o FirstJobs(L)
            BY <1>1, <2>1
        <3>2. \A j \in DOMAIN jobs : jobs[j].lead \notin L
            BY <1>1 DEF Orderly, Typed, JobsTyped
        <3> QED  BY <1>2, <3>1, <3>2, FirstJobsAdded
    <2>2. CASE ~request[c].active
        BY <1>1, <2>2 DEF Orderly, OneFirstJob
    <2> QED  BY <2>1, <2>2
<1> QED  BY <1>1, <1>5, <1>6, <1>7, RequestEnds

LEMMA StartOrderly ==
    ASSUME OneAtATime, Orderly, Typed', NEW c \in Clients, StartCommit(c)
    PROVE  Orderly'
<1> DEFINE L == request[c].leads
<1>1. /\ status' = "active"
      /\ lead' = [l \in Leads |->
             IF l \in L THEN Written(lead[l], request[c].seen[l], Scheduled(NewLead))
             ELSE lead[l]]
      /\ jobs' = jobs \o FirstJobs(L)
      /\ request' = [request EXCEPT ![c] = IdleRequest]
      /\ request[c].phase = "flushed"
      /\ UNCHANGED <<mail, events, reply>>
    BY DEF StartCommit, RequestUnchanged
<1>2. /\ L \in SUBSET Leads /\ RequestFits(request[c])
    BY DEF Orderly, Typed, TypeOK, Requests, RequestsFit
<1>3. /\ L = {l \in Leads : lead[l].state = "pending"}
      /\ \A l \in L : request[c].seen[l] = lead[l]
      /\ jobs = <<>>
    BY <1>1, <1>2 DEF RequestFits, Orderly, DraftIsBlank
<1> HIDE DEF L
<1>4. \A l \in L : Written(lead[l], request[c].seen[l], Scheduled(NewLead)).state = "scheduled"
    BY <1>3 DEF Written, Scheduled, NewLead
<1>5. PendingOnlyInDraft'
    <2> SUFFICES ASSUME NEW l \in Leads PROVE lead'[l].state # "pending"
        BY DEF PendingOnlyInDraft
    <2>1. CASE l \in L
        <3>1. lead'[l] = Written(lead[l], request[c].seen[l], Scheduled(NewLead))
            BY <1>1, <2>1
        <3> QED  BY <1>4, <2>1, <3>1
    <2>2. CASE l \notin L
        BY <1>1, <1>3, <2>2
    <2> QED  BY <2>1, <2>2
<1>6. DraftIsBlank'
    BY <1>1 DEF DraftIsBlank
<1>7. OneFirstJob'
    BY <1>1, <1>2, <1>3, FirstJobsAdded
<1> QED  BY <1>1, <1>5, <1>6, <1>7, RequestEnds

-----------------------------------------------------------------------------
(* The others leave requests and the status alone, and find nothing to do  *)
(* in a draft.                                                             *)

\* A step that is not a request's.
LEMMA OthersOrderly ==
    ASSUME Orderly, Typed', UNCHANGED <<status, request>>,
           status = "draft" => UNCHANGED <<jobs, mail, events, lead>>,
           status = "active" =>
               \A l \in Leads : lead'[l].state = "pending" => lead[l].state = "pending",
           RowsSettled', OneFirstJob'
    PROVE  Orderly'
<1>1. status \in {"draft", "active"}
    BY DEF Orderly, Typed, TypeOK, CampaignStatuses
<1>2. DraftIsBlank' /\ PendingOnlyInDraft'
    BY DEF Orderly, DraftIsBlank, PendingOnlyInDraft
<1>3. RequestsFit'
    <2> SUFFICES ASSUME NEW c \in Clients PROVE RequestFits(request[c])'
        BY DEF RequestsFit
    <2>1. RequestFits(request[c])
        BY DEF Orderly, RequestsFit
    <2> QED  BY <1>1, <2>1 DEF RequestFits
<1> QED  BY <1>2, <1>3 DEF Orderly

\* Jobs that stay what they are, with at most one added that is no first job.
LEMMA FirstJobsKept ==
    ASSUME Orderly, Follows(jobs, jobs'),
           \A j \in DOMAIN jobs' \ DOMAIN jobs : jobs'[j].position # 1
    PROVE  OneFirstJob'
BY DEF Orderly, OneFirstJob, Follows

\* Nobody works on a job, and nobody has replied, before the start.
LEMMA ActiveAtWork ==
    ASSUME Orderly
    PROVE  /\ \A w \in Workers : send[w].phase # "idle" => status = "active"
           /\ DOMAIN jobs # {} \/ DOMAIN mail # {} \/ DOMAIN events # {} => status = "active"
<1>1. status \in {"draft", "active"}
    BY DEF Orderly, Typed, TypeOK, CampaignStatuses
<1>2. status = "draft" => DOMAIN jobs = {} /\ DOMAIN mail = {} /\ DOMAIN events = {}
    BY EmptySeq DEF Orderly, DraftIsBlank
<1>3. \A w \in Workers : send[w].phase # "idle" => DOMAIN jobs # {}
    BY DEF Orderly, Typed, SlotsTyped, SlotTyped
<1> QED  BY <1>1, <1>2, <1>3

LEMMA ProcessOrderly ==
    ASSUME Orderly, Typed', NEW w \in Workers,
           \/ Load(w) \/ NotClaimed(w) \/ CheckSuppression(w) \/ TakeMailbox(w)
           \/ ProviderAccepts(w) \/ AnswerLost(w) \/ DispatchFails(w) \/ ReadAgain(w)
           \/ FinishSent(w) \/ FinishSuppressed(w) \/ FinishFailed(w)
           \/ FinishDeferred(w) \/ FinishIneligible(w)
    PROVE  Orderly'
<1>1. Typed /\ status = "active" /\ UNCHANGED <<status, request, reply>>
    <2>1. send[w].phase # "idle"
        BY DEF Load, NotClaimed, CheckSuppression, TakeMailbox, ProviderAccepts, AnswerLost,
               DispatchFails, ReadAgain, WritesLead, FinishSent, FinishSuppressed, FinishFailed,
               FinishDeferred, FinishIneligible
    <2>2. UNCHANGED <<status, request, reply>>
        BY DEF Load, NotClaimed, CheckSuppression, TakeMailbox, ProviderAccepts, AnswerLost,
               DispatchFails, ReadAgain, Deliver, FinishSent, FinishSuppressed, FinishFailed,
               FinishDeferred, FinishIneligible, Finish, tables
    <2> QED  BY <2>1, <2>2, ActiveAtWork DEF Orderly
<1>2. RowsSettled'
    BY <1>1 DEF Orderly, RowsSettled
<1>3. ASSUME NEW newJobs, Finish(w, newJobs), send[w].phase \in Outcomes
      PROVE  \A l \in Leads : lead'[l].state = "pending" => lead[l].state = "pending"
    <2>1. NewRow(w).state # "pending"
        BY DEF NewRow, RecordSent, FailLead
    <2>2. Written(lead[JobOf(w).lead], send[w].seen, NewRow(w)).state
              \in {lead[JobOf(w).lead].state, NewRow(w).state}
        BY DEF Written
    <2> QED  BY <1>1, <1>3, <2>1, <2>2, FinishLead
<1>4. CASE FinishSent(w)
    <2> DEFINE j == send[w].job
               done == [jobs EXCEPT ![j].status = "done", ![j].outbound = send[w].msg]
               next == Append(done, NewJob(jobs[j].lead, jobs[j].position + 1))
    <2>1. /\ send[w].phase = "accepted" /\ send[w].phase \in Outcomes
          /\ Finish(w, IF IsLastStep(jobs[j].position) THEN done ELSE next)
        BY <1>4 DEF FinishSent, Outcomes
    <2>2. jobs' = IF IsLastStep(jobs[j].position) THEN done ELSE next
        BY <2>1 DEF Finish
    <2>3. /\ Follows(jobs, done) /\ DOMAIN done = DOMAIN jobs
          /\ ~IsLastStep(jobs[j].position) =>
                /\ Follows(jobs, next)
                /\ \A i \in DOMAIN next \ DOMAIN jobs :
                      next[i] = NewJob(jobs[j].lead, jobs[j].position + 1)
        BY <1>1, <2>1, DoneJobs
    <2>4. jobs[j].position \in Nat /\ jobs[j].position >= 1
        <3>1. JobOf(w) \in Jobs
            BY <1>1, <2>1, NewRowTyped
        <3>2. jobs[j].position \in 1..Steps
            BY <3>1 DEF JobOf, Jobs
        <3> QED  BY <3>2, DomainAssumption
    <2>5. NewJob(jobs[j].lead, jobs[j].position + 1).position # 1
        BY <2>4 DEF NewJob
    <2> HIDE DEF done, next
    <2>6. Follows(jobs, jobs') /\ \A k \in DOMAIN jobs' \ DOMAIN jobs : jobs'[k].position # 1
        BY <2>2, <2>3, <2>5
    <2>7. OneFirstJob'
        BY <2>6, FirstJobsKept
    <2> QED  BY <1>1, <1>2, <1>3, <2>1, <2>7, OthersOrderly
<1>5. CASE FinishSuppressed(w) \/ FinishFailed(w) \/ FinishDeferred(w) \/ FinishIneligible(w)
    <2>1. /\ send[w].phase \in Outcomes
          /\ \E newJobs : Finish(w, newJobs)
        BY <1>5 DEF FinishSuppressed, FinishFailed, FinishDeferred, FinishIneligible, Outcomes
    <2>2. Follows(jobs, jobs') /\ DOMAIN jobs' = DOMAIN jobs
        <3>1. CASE FinishDeferred(w)
            <4>1. jobs' = [jobs EXCEPT ![send[w].job].status = "pending",
                                       ![send[w].job].attempts = @ - 1]
                BY <3>1 DEF FinishDeferred, Finish
            <4> QED  BY <1>1, <2>1, <4>1, ReleasedJobs
        <3>2. CASE ~FinishDeferred(w)
            <4>1. PICK x \in {"pending", "failed", "cancelled"} : jobs' = Set(w, x)
                BY <1>5, <3>2 DEF FinishSuppressed, FinishFailed, FinishIneligible, Finish
            <4>2. x \in JobStatuses
                BY DEF JobStatuses
            <4> QED  BY <1>1, <2>1, <4>1, <4>2, StatusJobs
        <3> QED  BY <3>1, <3>2
    <2>3. OneFirstJob'
        BY <2>2, FirstJobsKept
    <2> QED  BY <1>1, <1>2, <1>3, <2>1, <2>3, OthersOrderly
<1>6. CASE \/ Load(w) \/ NotClaimed(w) \/ CheckSuppression(w) \/ TakeMailbox(w)
           \/ ProviderAccepts(w) \/ AnswerLost(w) \/ DispatchFails(w) \/ ReadAgain(w)
    <2>1. UNCHANGED <<jobs, lead>>
        BY <1>6 DEF Load, NotClaimed, CheckSuppression, TakeMailbox, ProviderAccepts,
                    AnswerLost, DispatchFails, ReadAgain, Deliver, tables
    <2>2. OneFirstJob'
        BY <2>1 DEF Orderly, OneFirstJob
    <2> QED  BY <1>1, <1>2, <2>1, <2>2, OthersOrderly
<1> QED  BY <1>4, <1>5, <1>6

LEMMA ReplyOrderly ==
    ASSUME Orderly, Typed', NEW r \in Consumers,
           \/ ReplyClaim(r) \/ ReplyIgnored(r) \/ ReplyLoad(r) \/ ReplyReadAgain(r)
           \/ ReplyFlush(r) \/ ReplyCommit(r) \/ ConsumerCrash(r)
    PROVE  Orderly'
<1>1. /\ Typed /\ UNCHANGED <<status, request, mail, events>>
    BY DEF Orderly, ReplyClaim, ReplyIgnored, ReplyLoad, ReplyReadAgain, ReplyFlush,
           ReplyCommit, ConsumerCrash, ReplyUnchanged, tables
<1>2. /\ reply[r].phase # "idle" => status = "active"
      /\ reply[r].new.state # "pending"
      /\ \A l \in Leads : reply[r].rows[l].state # "pending"
    BY DEF Orderly, RowsSettled
<1>3. status = "active"
    <2>1. CASE ReplyClaim(r)
        <3>1. DOMAIN events # {}
            BY <1>1, <2>1, BatchTyped DEF ReplyClaim
        <3> QED  BY <3>1, ActiveAtWork
    <2>2. CASE ~ReplyClaim(r)
        BY <1>2, <2>2 DEF ReplyIgnored, ReplyLoad, ReplyReadAgain, ReplyFlush, ReplyCommit,
                          ConsumerCrash
    <2> QED  BY <2>1, <2>2
<1>4. ASSUME Consumes(r), reply'[r].new.state # "pending",
             \A l \in Leads : reply'[r].rows[l].state # "pending"
      PROVE  RowsSettled'
    BY <1>1, <1>3, <1>4 DEF Orderly, RowsSettled, Consumes
<1>5. /\ IdleReply.new.state # "pending"
      /\ \A l \in Leads : IdleReply.rows[l].state # "pending"
    BY DEF IdleReply, NothingSeen, NoRow, Null
<1>6. ASSUME reply' = [reply EXCEPT ![r] = IdleReply]
      PROVE  RowsSettled'
    <2>1. Consumes(r) /\ reply'[r] = IdleReply
        BY <1>1, <1>6 DEF Consumes, Typed, TypeOK
    <2> QED  BY <1>4, <1>5, <2>1
<1>7. CASE ReplyCommit(r)
    <2>1. /\ lead' = [l \in Leads |-> RowFor(r, l)]
          /\ reply' = [reply EXCEPT ![r] = IdleReply]
        BY <1>7 DEF ReplyCommit
    <2>2. Follows(jobs, jobs') /\ DOMAIN jobs' = DOMAIN jobs
        BY <1>1, <1>7, ReplyCommitTyped
    <2>3. OneFirstJob'
        BY <2>2, FirstJobsKept
    <2>4. \A l \in Leads : lead'[l].state = "pending" => lead[l].state = "pending"
        BY <1>2, <2>1 DEF RowFor
    <2> QED  BY <1>1, <1>3, <1>6, <2>1, <2>3, <2>4, OthersOrderly
<1>8. CASE ~ReplyCommit(r)
    <2>1. UNCHANGED <<lead, jobs>>
        BY <1>8 DEF ReplyClaim, ReplyIgnored, ReplyLoad, ReplyReadAgain, ReplyFlush,
                    ConsumerCrash, tables
    <2>2. RowsSettled'
        <3>1. CASE ReplyClaim(r)
            BY <1>1, <1>2, <1>4, <3>1, ReplyClaimEffect
        <3>2. CASE ReplyIgnored(r)
            BY <1>1, <1>2, <1>4, <3>2, ReplyIgnoredEffect
        <3>3. CASE ReplyLoad(r)
            <4>1. Consumes(r) /\ reply'[r].rows = reply[r].rows
                BY <1>1, <3>3, ReplyLoadEffect
            <4>2. reply'[r].new.state # "pending"
                <5>1. PICK e \in Unprocessed :
                          reply'[r].new = StopOnReply(RowFor(r, reply'[r].lead), events[e].intent)
                    BY <1>1, <3>3, ReplyLoadEffect
                <5>2. reply'[r].new \in LeadRows
                    <6>1. reply'[r].phase = "loaded"
                        BY <1>1, <3>3, ReplyLoadEffect
                    <6> QED  BY <6>1 DEF Typed, RepliesTyped, ReplyTyped
                <5> DEFINE row == RowFor(r, reply'[r].lead)
                           i == events[e].intent
                <5>3. row \in LeadRows
                    <6>1. reply'[r].phase = "loaded" /\ reply'[r].lead \in Leads
                          /\ Added(reply'[r].lead)
                        BY <1>1, <2>1, <3>3, ReplyLoadEffect DEF Typed, RepliesTyped, ReplyTyped, Added
                    <6> QED  BY <1>1, <6>1, RowForTyped
                <5> HIDE DEF row, i
                <5>4. StopOnReply(row, i).state # "pending"
                    BY <5>3 DEF StopOnReply, LeadRows
                <5> QED  BY <5>1, <5>4 DEF row, i
            <4> QED  BY <1>2, <1>4, <4>1, <4>2
        <3>4. CASE ReplyReadAgain(r)
            BY <1>1, <1>2, <1>4, <3>4, ReplyReadAgainEffect
        <3>5. CASE ReplyFlush(r)
            <4> DEFINE l == reply[r].lead
                       row == Written(RowFor(r, l), reply[r].seen, reply[r].new)
            <4>1. /\ Consumes(r) /\ l \in Leads
                  /\ reply'[r].new = IdleReply.new
                  /\ \A k \in Leads : reply'[r].rows[k] = IF k = l THEN row ELSE reply[r].rows[k]
                BY <1>1, <3>5, ReplyFlushEffect
            <4>2. RowFor(r, l).state # "pending"
                BY <1>2, <1>3, <4>1 DEF RowFor, Orderly, PendingOnlyInDraft
            <4>3. row.state \in {RowFor(r, l).state, reply[r].new.state}
                BY DEF Written
            <4> HIDE DEF row, l
            <4> QED  BY <1>2, <1>4, <1>5, <4>1, <4>2, <4>3
        <3>6. CASE ConsumerCrash(r)
            BY <1>6, <3>6 DEF ConsumerCrash
        <3> QED  BY <1>8, <3>1, <3>2, <3>3, <3>4, <3>5, <3>6
    <2>3. OneFirstJob'
        BY <2>1 DEF Orderly, OneFirstJob
    <2> QED  BY <1>1, <1>3, <2>1, <2>2, <2>3, OthersOrderly
<1> QED  BY <1>7, <1>8

\* Steps that touch neither leads nor jobs nor what a consumer has written.
LEMMA SettledOrderly ==
    ASSUME Orderly, Typed', UNCHANGED <<status, request, lead, jobs, reply>>,
           status = "draft" => UNCHANGED <<mail, events>>
    PROVE  Orderly'
<1>1. RowsSettled' /\ OneFirstJob'
    BY DEF Orderly, RowsSettled, OneFirstJob
<1> QED  BY <1>1, OthersOrderly

LEMMA ClaimOrderly ==
    ASSUME Orderly, Typed', NEW S \in SUBSET Workers, S # {},
           NEW batch \in [S -> DOMAIN jobs], Claim(batch)
    PROVE  Orderly'
<1>1. Follows(jobs, jobs') /\ DOMAIN jobs' = DOMAIN jobs
    BY ClaimTyped DEF Orderly
<1>2. UNCHANGED <<status, lead, mail, events, reply, request>>
    BY DEF Claim, ClaimJobs
<1>3. DOMAIN jobs # {}
    OBVIOUS
<1>4. status = "active"
    BY <1>3, ActiveAtWork
<1>5. RowsSettled' /\ OneFirstJob'
    BY <1>1, <1>2, FirstJobsKept DEF Orderly, RowsSettled
<1> QED  BY <1>2, <1>4, <1>5, OthersOrderly

LEMMA OrderlyInitially == Init => Orderly
<1> SUFFICES ASSUME Init PROVE Orderly
    OBVIOUS
<1>1. DOMAIN jobs = {}
    BY EmptySeq DEF Init
<1>2. Typed
    BY TypedInitially
<1>3. DraftIsBlank /\ PendingOnlyInDraft /\ OneFirstJob
    BY <1>1 DEF Init, DraftIsBlank, PendingOnlyInDraft, OneFirstJob
<1>4. RequestsFit
    BY DEF Init, RequestsFit, RequestFits, IdleRequest
<1>5. RowsSettled
    BY DEF Init, RowsSettled, IdleReply, NothingSeen, NoRow, Null
<1> QED  BY <1>2, <1>3, <1>4, <1>5 DEF Orderly

LEMMA OrderlyStep == OneAtATime /\ Orderly /\ [Next]_vars => Orderly'
<1> SUFFICES ASSUME OneAtATime, Orderly, [Next]_vars PROVE Orderly'
    OBVIOUS
<1>1. Typed'
    BY TypedStep DEF Orderly
<1>2. CASE ClientNext
    BY <1>1, <1>2, RequestReadsOrderly, AddLeadsOrderly, StartOrderly DEF ClientNext
<1>3. CASE ClaimNext
    BY <1>1, <1>3, ClaimOrderly DEF ClaimNext
<1>4. CASE ProcessNext
    BY <1>1, <1>4, ProcessOrderly DEF ProcessNext
<1>5. CASE CrashNext \/ NextDay \/ UNCHANGED vars
    <2>1. UNCHANGED <<status, request, lead, jobs, reply, mail, events>>
        BY <1>5 DEF CrashNext, WorkersCrash, NextDay, vars, tables
    <2> QED  BY <1>1, <2>1, SettledOrderly
<1>6. CASE PollNext
    <2>1. DOMAIN mail # {} /\ UNCHANGED <<status, request, lead, jobs, reply>>
        BY <1>6 DEF PollNext, Answer
    <2>2. status = "active"
        BY <2>1, ActiveAtWork
    <2> QED  BY <1>1, <2>1, <2>2, SettledOrderly
<1>7. CASE ReplyNext
    BY <1>1, <1>7, ReplyOrderly DEF ReplyNext
<1> QED  BY <1>2, <1>3, <1>4, <1>5, <1>6, <1>7 DEF Next

\* A draft that one request at a time works on has new leads only, and starts once.
THEOREM OrderlyAlways == OneAtATime => (Spec => []Orderly)
<1>1. ASSUME OneAtATime PROVE Spec => []Orderly
    <2>1. Orderly /\ [Next]_vars => Orderly'
        BY <1>1, OrderlyStep
    <2> QED  BY <2>1, OrderlyInitially, PTL DEF Spec
<1> QED  BY <1>1

\* While requests do not overlap, no lead of an active campaign is left
\* pending: whoever was added before the start was in the start's list.  (Two
\* overlapping requests break this: the adding request reads a draft.)
THEOREM PendingHolds == OneAtATime => (Spec => []PendingOnlyInDraft)
<1>1. Orderly => PendingOnlyInDraft
    BY DEF Orderly
<1>2. ASSUME OneAtATime PROVE Spec => []PendingOnlyInDraft
    BY <1>1, <1>2, OrderlyAlways, PTL
<1> QED  BY <1>2

\* While requests do not overlap, starting is idempotent, as the README says:
\* no lead ever has two jobs of the first step.
THEOREM StartsOnce == OneAtATime => (Spec => []StartIsIdempotent)
<1>1. Orderly => StartIsIdempotent
    <2> SUFFICES ASSUME Orderly, NEW l \in Leads
                 PROVE  Cardinality({j \in DOMAIN jobs : jobs[j].lead = l /\ jobs[j].position = 1}) <= 1
        BY DEF StartIsIdempotent
    <2> DEFINE J == {j \in DOMAIN jobs : jobs[j].lead = l /\ jobs[j].position = 1}
    <2>1. \A j, k \in J : j = k
        BY DEF Orderly, OneFirstJob
    <2> SUFFICES Cardinality(J) <= 1
        OBVIOUS
    <2> HIDE DEF J
    <2>2. CASE J = {}
        BY <2>2, FS_EmptySet
    <2>3. CASE J # {}
        <3>1. PICK j \in J : TRUE
            BY <2>3
        <3>2. J = {j}
            BY <2>1, <3>1
        <3>3. Cardinality({j}) = 1
            BY FS_Singleton
        <3> QED  BY <3>2, <3>3
    <2> QED  BY <2>2, <2>3
<1>2. ASSUME OneAtATime PROVE Spec => []StartIsIdempotent
    BY <1>1, <1>2, OrderlyAlways, PTL
<1> QED  BY <1>2

-----------------------------------------------------------------------------
(* Leads and jobs in step.  When a job is worked on by one transaction at  *)
(* a time, as the internal route's row lock has it, and there is one       *)
(* consumer, a lead that may be sent to has its next job queued, though    *)
(* rows are written from copies, column by column, while others change     *)
(* them.  The slot that has the job and the consumer are the only ones to  *)
(* write the lead, so each copy is of a row that at most the other has     *)
(* changed since, and only once.                                           *)

\* A slot whose transaction has begun.
Begun(s) == s.phase \notin {"idle", "claimed"}

Live(j) == jobs[j].status \in {"pending", "running"}

NoLive(l) == \A j \in DOMAIN jobs : jobs[j].lead = l => ~Live(j)

\* A transaction that works on a job is the only one, and the job is running.
Alone ==
    /\ \A w \in Workers : Begun(send[w]) => jobs[send[w].job].status = "running"
    /\ \A v, w \in Workers :
          Begun(send[v]) /\ Begun(send[w]) /\ send[v].job = send[w].job => v = w

OneLiveJob ==
    \A j, k \in DOMAIN jobs : Live(j) /\ Live(k) /\ jobs[j].lead = jobs[k].lead => j = k

Plain(row) == row.stop_reason = Null /\ row.reply_intent = Null

\* What the columns of a row have to do with each other.
RowSound(row) ==
    /\ row.state \in Sendable => Plain(row)
    /\ row.state = "scheduled" => row.steps_sent = 0
    /\ row.state \in Replyable => row.steps_sent > 0
    /\ row.reply_intent # Null => row.steps_sent > 0
    /\ row.stop_reason = "bounced" => row.reply_intent = "bounce"

RowsSound == \A l \in Leads : RowSound(lead[l])

\* The lead of a job for step p waits for that step, or has been stopped.
RowWaits(p, row) ==
    /\ row.state \in Sendable \cup {"paused", "failed"}
    /\ row.steps_sent < p
    /\ row.state \in Sendable => row.steps_sent = p - 1
    /\ p = 1 => row.state = "scheduled"

JobsFit == \A j \in DOMAIN jobs : Live(j) => RowWaits(jobs[j].position, lead[jobs[j].lead])

Queued == \A l \in Leads : lead[l].state \in Sendable => ~NoLive(l)

\* What a transaction for step p has read: the row it began with, and the row
\* it has read again, which is as old, or of a lead that has been stopped.
CopiesFit(p, row, snap, seen) ==
    /\ snap.state = IF p = 1 THEN "scheduled" ELSE "sent"
    /\ snap.steps_sent = p - 1 /\ Plain(snap)
    /\ seen # NoRow =>
          /\ seen.steps_sent < p
          /\ \/ seen.state = snap.state /\ Plain(seen)
             \/ IsStopped(seen) /\ seen = row

SlotFits(s) ==
    LET j   == jobs[s.job]
        row == lead[j.lead]
    IN  /\ s.phase = "claimed" => s.seen = NoRow
        /\ s.phase = "ineligible" => row.state \notin Sendable
        /\ Begun(s) /\ s.phase # "ineligible" => CopiesFit(j.position, row, s.snap, s.seen)

SlotsFit == \A w \in Workers : SlotFits(send[w])

\* A row that a reply has stopped.
Stops(row) ==
    /\ IsStopped(row) /\ row.steps_sent > 0
    /\ row.reply_intent \in Intents /\ row.stop_reason = ReplyReason(row.reply_intent)

\* A row of lead l that is to be written is no further than l's job.
Behind(l, row) ==
    \A j \in DOMAIN jobs : jobs[j].lead = l /\ Live(j) =>
        row.steps_sent < jobs[j].position /\ jobs[j].position # 1

\* A lead with a reply: it is sent to, or there is nothing left to do.
Answers(l) == lead[l].state = "sent" \/ (lead[l].state \in {"done", "failed"} /\ NoLive(l))

ConsumerFits(p) ==
    /\ \A k \in Leads : p.rows[k] # NoRow =>
          p.phase # "idle" /\ Stops(p.rows[k]) /\ Behind(k, p.rows[k]) /\ Answers(k)
    /\ p.phase \in {"loaded", "read"} =>
          /\ p.rows[p.lead] = NoRow
          /\ Stops(p.new) /\ Behind(p.lead, p.new) /\ Answers(p.lead)
          /\ lead[p.lead].steps_sent > 0
    /\ p.phase = "read" =>
          \/ p.seen.state = "sent" /\ Plain(p.seen)
          \/ p.seen = lead[p.lead] /\ p.seen.state # "sent"
    /\ \A j \in p.cancels :
          /\ j \in DOMAIN jobs /\ jobs[j].status = "pending"
          /\ p.rows[jobs[j].lead] # NoRow

ConsumersFit == \A r \in Consumers : ConsumerFits(reply[r])

InStep ==
    /\ OneLiveJob /\ RowsSound /\ JobsFit /\ Queued /\ SlotsFit /\ ConsumersFit

\* One transaction at a time consumes replies.
OneFeed == \A q, r \in Consumers : q = r

-----------------------------------------------------------------------------
(* Rows that are written over rows.                                        *)

\* The transaction of step p has sent its message.
LEMMA SentRow ==
    ASSUME NEW p \in 1..Steps, NEW row \in LeadRows, NEW snap \in LeadRows, NEW seen \in LeadRows,
           RowSound(row), RowWaits(p, row), CopiesFit(p, row, snap, seen)
    PROVE  LET out == Written(row, seen, RecordSent(snap, p))
           IN  /\ out.steps_sent = p /\ RowSound(out)
               /\ IsLastStep(p) => out.state = "done"
               /\ ~IsLastStep(p) => out.state \in {"sent", "paused", "failed"}
               /\ ~IsLastStep(p) /\ row.state = "sent" => out.state = "sent"
<1> DEFINE out == Written(row, seen, RecordSent(snap, p))
<1>1. /\ p \in Nat /\ p > 0
      /\ row.steps_sent \in Nat /\ seen.steps_sent \in Nat /\ seen # NoRow
    BY RowOrNone, DomainAssumption DEF LeadRows
<1>2. /\ RecordSent(snap, p).state = IF IsLastStep(p) THEN "done" ELSE "sent"
      /\ RecordSent(snap, p).steps_sent = p
      /\ RecordSent(snap, p).stop_reason = Null
      /\ RecordSent(snap, p).reply_intent = Null
    BY DEF RecordSent, LeadRows, CopiesFit, Plain
<1>3. /\ out.state = IF RecordSent(snap, p).state # seen.state
                     THEN RecordSent(snap, p).state ELSE row.state
      /\ out.steps_sent = IF p # seen.steps_sent THEN p ELSE row.steps_sent
      /\ out.stop_reason = IF seen.stop_reason # Null THEN Null ELSE row.stop_reason
      /\ out.reply_intent = IF seen.reply_intent # Null THEN Null ELSE row.reply_intent
    BY <1>2 DEF Written
<1> HIDE DEF out
<1>4. out.steps_sent = p
    BY <1>1, <1>3 DEF CopiesFit
<1>5. CASE seen.state = snap.state /\ Plain(seen)
    <2>1. out.stop_reason = row.stop_reason /\ out.reply_intent = row.reply_intent
        BY <1>3, <1>5 DEF Plain
    <2>2. CASE p = 1
        <3>1. row.state = "scheduled" /\ seen.state = "scheduled" /\ Plain(row)
            BY <1>5, <2>2 DEF RowWaits, RowSound, CopiesFit, Sendable
        <3>2. out.state = IF IsLastStep(p) THEN "done" ELSE "sent"
            BY <1>2, <1>3, <3>1
        <3> QED  BY <1>1, <1>4, <2>1, <3>1, <3>2 DEF RowSound, Plain, Sendable, Replyable, Null, out
    <2>3. CASE p # 1
        <3>1. seen.state = "sent"
            BY <1>1, <1>5, <2>3 DEF CopiesFit
        <3>2. out.state = IF IsLastStep(p) THEN "done" ELSE row.state
            BY <1>2, <1>3, <3>1
        <3>3. row.state # "scheduled"
            BY <1>1, <2>3 DEF RowWaits, RowSound, Sendable
        <3> QED  BY <1>1, <1>4, <2>1, <3>2, <3>3
                 DEF RowSound, RowWaits, Plain, Sendable, Replyable, Null, out
    <2> QED  BY <2>2, <2>3
<1>6. CASE IsStopped(seen) /\ seen = row
    <2>1. out.stop_reason = Null /\ out.reply_intent = Null
        BY <1>3, <1>6
    <2>2. out.state = IF IsLastStep(p) THEN "done" ELSE "sent"
        BY <1>2, <1>3, <1>6 DEF IsStopped
    <2> QED  BY <1>1, <1>4, <2>1, <2>2 DEF RowSound, Plain, Sendable, Replyable, Null, out
<1> QED  BY <1>1, <1>5, <1>6 DEF CopiesFit

\* It has failed, or was refused.
LEMMA FailedRow ==
    ASSUME NEW p \in 1..Steps, NEW row \in LeadRows, NEW snap \in LeadRows, NEW seen \in LeadRows,
           NEW x \in {"suppressed", "send_failed"},
           RowSound(row), RowWaits(p, row), CopiesFit(p, row, snap, seen)
    PROVE  LET out == Written(row, seen, FailLead(snap, x))
           IN  /\ out.state = "failed" /\ RowSound(out)
               /\ row.steps_sent > 0 => out.steps_sent > 0
<1> DEFINE new == FailLead(snap, x)
           out == Written(row, seen, new)
<1>1. /\ p \in Nat /\ p > 0
      /\ row.steps_sent \in Nat /\ seen.steps_sent \in Nat /\ seen # NoRow
    BY RowOrNone, DomainAssumption DEF LeadRows
<1>2. /\ new.state = "failed" /\ new.steps_sent = p - 1
      /\ new.stop_reason = x /\ new.reply_intent = Null
    BY DEF FailLead, LeadRows, CopiesFit, Plain
<1>3. /\ out.state = IF new.state # seen.state THEN new.state ELSE row.state
      /\ out.steps_sent = IF new.steps_sent # seen.steps_sent
                          THEN new.steps_sent ELSE row.steps_sent
      /\ out.stop_reason = IF new.stop_reason # seen.stop_reason
                           THEN new.stop_reason ELSE row.stop_reason
      /\ out.reply_intent = IF new.reply_intent # seen.reply_intent
                            THEN new.reply_intent ELSE row.reply_intent
    BY DEF Written
<1> HIDE DEF out, new
<1>4. out.state = "failed" /\ out.stop_reason = x
    <2>1. CASE seen.state = snap.state /\ Plain(seen)
        <3>1. seen.state # "failed" /\ seen.stop_reason = Null
            BY <2>1 DEF CopiesFit, Plain
        <3> QED  BY <1>2, <1>3, <3>1 DEF Null
    <2>2. CASE IsStopped(seen) /\ seen = row
        BY <1>2, <1>3, <2>2
    <2> QED  BY <1>1, <2>1, <2>2 DEF CopiesFit
<1>5. row.steps_sent > 0 => out.steps_sent > 0
    <2>1. CASE p = 1
        <3>1. row.steps_sent = 0
            BY <1>1, <2>1 DEF RowWaits
        <3> QED  BY <3>1
    <2>2. CASE p # 1
        <3>1. p - 1 > 0
            BY <1>1, <2>2
        <3> QED  BY <1>2, <1>3, <3>1
    <2> QED  BY <2>1, <2>2
<1>6. out.reply_intent # Null => row.reply_intent # Null
    BY <1>2, <1>3
<1>7. x # "bounced" /\ "failed" \notin Sendable \cup Replyable
    BY DEF Sendable, Replyable
<1> QED  BY <1>4, <1>5, <1>6, <1>7 DEF RowSound, out, new

\* A reply stops a lead.
LEMMA StoppedRow ==
    ASSUME NEW row \in LeadRows, NEW new \in LeadRows, NEW seen,
           Stops(new), row.steps_sent > 0,
           \/ seen.state = "sent" /\ Plain(seen)
           \/ seen = row
    PROVE  LET out == Written(row, seen, new)
           IN  Stops(out) /\ out.steps_sent \in {row.steps_sent, new.steps_sent}
<1> DEFINE out == Written(row, seen, new)
<1>1. CASE seen = row
    <2>1. out = new
        BY <1>1 DEF Written, LeadRows
    <2> QED  BY <2>1
<1>2. CASE seen.state = "sent" /\ Plain(seen)
    <2>1. new.state # "sent" /\ new.stop_reason # Null /\ new.reply_intent # Null
        BY DEF Stops, IsStopped, ReplyReason, Intents, Null
    <2>2. /\ out.state = new.state /\ out.stop_reason = new.stop_reason
          /\ out.reply_intent = new.reply_intent
          /\ out.steps_sent \in {row.steps_sent, new.steps_sent}
        BY <1>2, <2>1 DEF Written, Plain
    <2> HIDE DEF out
    <2>3. out.steps_sent > 0
        BY <2>2 DEF Stops
    <2> QED  BY <2>2, <2>3 DEF Stops, IsStopped, out
<1> QED  BY <1>1, <1>2

LEMMA StopsSound ==
    ASSUME NEW row, Stops(row)
    PROVE  RowSound(row) /\ row.state \in {"paused", "failed"}
BY DEF Stops, RowSound, IsStopped, Sendable, Replyable, ReplyReason, Intents

-----------------------------------------------------------------------------
(* Steps of a slot.                                                        *)

LEMMA TypedLead ==
    ASSUME Typed, NEW j \in DOMAIN jobs
    PROVE  /\ jobs[j] \in Jobs /\ jobs[j].lead \in Leads /\ jobs[j].position \in 1..Steps
           /\ lead[jobs[j].lead] \in LeadRows
<1>1. jobs[j] \in Jobs /\ lead \in [Leads -> Rows] /\ lead[jobs[j].lead] # NoRow
    BY JobDomain DEF Typed, TypeOK, JobsTyped, Added
<1>2. jobs[j].lead \in Leads /\ jobs[j].position \in 1..Steps
    BY <1>1 DEF Jobs
<1> QED  BY <1>1, <1>2, RowOrNone

\* A slot whose transaction has begun has a live job, the only one of its lead.
LEMMA SlotHasJob ==
    ASSUME Typed, Alone, InStep, NEW w \in Workers, Begun(send[w])
    PROVE  /\ send[w] \in Sends /\ send[w].job \in DOMAIN jobs
           /\ Live(send[w].job) /\ SlotFits(send[w])
           /\ \A j \in DOMAIN jobs : jobs[j].lead = JobOf(w).lead /\ Live(j) => j = send[w].job
<1>1. send[w] \in Sends /\ send[w].job \in DOMAIN jobs /\ SlotFits(send[w])
    BY DEF Typed, TypeOK, SlotsTyped, SlotTyped, Begun, InStep, SlotsFit
<1>2. Live(send[w].job)
    BY DEF Alone, Live
<1> QED  BY <1>1, <1>2 DEF InStep, OneLiveJob, JobOf

\* Rows, jobs and consumers stay as they are.
LEMMA SlotsInStep ==
    ASSUME InStep, UNCHANGED <<lead, jobs, reply>>, SlotsFit'
    PROVE  InStep'
BY DEF InStep, OneLiveJob, RowsSound, JobsFit, Queued, ConsumersFit, ConsumerFits, Behind, Answers,
       NoLive, Live

\* Slots that go on hold what they held, and may read their lead again.
LEMMA SlotFitsOn ==
    ASSUME Typed, Alone, InStep, NEW w \in Workers, NEW s,
           Begun(send[w]), send[w].phase # "ineligible", Begun(s), s.phase # "ineligible",
           s.job = send[w].job, s.snap = send[w].snap,
           s.seen = send[w].seen \/ s.seen = lead[JobOf(w).lead]
    PROVE  SlotFits(s)
<1>1. /\ send[w].job \in DOMAIN jobs /\ Live(send[w].job) /\ SlotFits(send[w])
    BY SlotHasJob
<1> DEFINE p == JobOf(w).position
           row == lead[JobOf(w).lead]
<1>2. p \in 1..Steps /\ row \in LeadRows /\ RowSound(row) /\ RowWaits(p, row)
    BY <1>1, TypedLead DEF JobOf, InStep, RowsSound, JobsFit
<1>3. CopiesFit(p, row, send[w].snap, send[w].seen)
    BY <1>1 DEF SlotFits, JobOf
<1> HIDE DEF p, row
<1>4. CopiesFit(p, row, send[w].snap, row)
    <2>1. row.steps_sent \in Nat /\ p \in Nat /\ p > 0
        BY <1>2, DomainAssumption DEF LeadRows
    <2>2. CASE IsStopped(row)
        BY <1>2, <1>3, <2>2 DEF CopiesFit, RowWaits
    <2>3. CASE ~IsStopped(row)
        <3>1. row.state \in Sendable
            BY <1>2, <2>3 DEF RowWaits, IsStopped
        <3>2. Plain(row) /\ row.steps_sent = p - 1
            BY <1>2, <3>1 DEF RowWaits, RowSound
        <3>3. row.state = IF p = 1 THEN "scheduled" ELSE "sent"
            BY <1>2, <2>1, <3>1, <3>2 DEF RowWaits, RowSound, Sendable
        <3> QED  BY <1>2, <1>3, <3>2, <3>3 DEF CopiesFit, RowWaits
    <2> QED  BY <2>2, <2>3
<1>5. CopiesFit(p, row, s.snap, s.seen)
    BY <1>3, <1>4 DEF row
<1> QED  BY <1>5 DEF SlotFits, Begun, JobOf, p, row

\* The lead is loaded, and its row is sound.
LEMMA LoadInStep ==
    ASSUME Orderly, Alone', InStep, NEW w \in Workers, Load(w)
    PROVE  InStep'
<1> DEFINE j == send[w].job
           p == jobs[j].position
           row == lead[jobs[j].lead]
           x == IF AcceptsSend(status, row, p) THEN "loaded" ELSE "ineligible"
<1>1. /\ UNCHANGED <<lead, jobs, reply>> /\ send[w].phase = "claimed"
      /\ send \in [Workers -> Sends] /\ j \in DOMAIN jobs /\ send[w].seen = NoRow
    BY DEF Load, tables, Orderly, Typed, TypeOK, SlotsTyped, SlotTyped, InStep, SlotsFit, SlotFits
<1>2. /\ \A v \in Workers : v # w => send'[v] = send[v]
      /\ send'[w].phase = x /\ send'[w].job = j /\ send'[w].snap = row /\ send'[w].seen = NoRow
    BY <1>1 DEF Load, Sends
<1>3. Live(j)
    <2>1. Begun(send'[w])
        BY <1>2 DEF Begun
    <2> QED  BY <1>1, <1>2, <2>1 DEF Alone, Live
<1>4. p \in 1..Steps /\ row \in LeadRows /\ RowSound(row) /\ RowWaits(p, row)
    BY <1>1, <1>3, TypedLead DEF Orderly, InStep, RowsSound, JobsFit
<1>5. status = "active"
    <2>1. jobs # <<>>
        BY <1>1, EmptySeq
    <2> QED  BY <2>1 DEF Orderly, Typed, TypeOK, CampaignStatuses, DraftIsBlank
<1>6. x = "loaded" <=> row.state \in Sendable
    BY <1>4, <1>5 DEF AcceptsSend, RowWaits
<1>7. x \in {"loaded", "ineligible"}
    OBVIOUS
<1> HIDE DEF x
<1>8. row.state \in Sendable => CopiesFit(p, row, row, NoRow)
    <2>1. p \in Nat /\ p > 0
        BY <1>4, DomainAssumption
    <2> HIDE DEF row, p
    <2> QED  BY <1>4, <2>1 DEF CopiesFit, RowSound, RowWaits, Sendable
<1>9. SlotFits(send'[w])
    <2>1. CASE x = "ineligible"
        BY <1>2, <1>6, <2>1 DEF SlotFits, Begun
    <2>2. CASE x = "loaded"
        BY <1>2, <1>6, <1>8, <2>2 DEF SlotFits, Begun
    <2> QED  BY <1>7, <2>1, <2>2
<1>10. SlotsFit'
    <2>1. \A v \in Workers : SlotFits(send'[v])
        BY <1>2, <1>9 DEF InStep, SlotsFit
    <2> QED  BY <1>1, <2>1 DEF SlotsFit, SlotFits
<1> QED  BY <1>1, <1>10, SlotsInStep

\* A slot checks, sends or reads on, or is done without a word.
LEMMA SlotStepsInStep ==
    ASSUME Typed, Alone, InStep, NEW w \in Workers,
           \/ NotClaimed(w) \/ CheckSuppression(w) \/ TakeMailbox(w) \/ ProviderAccepts(w)
           \/ AnswerLost(w) \/ DispatchFails(w) \/ ReadAgain(w)
    PROVE  InStep'
<1>1. UNCHANGED <<lead, jobs, reply>>
    BY DEF NotClaimed, CheckSuppression, TakeMailbox, ProviderAccepts, AnswerLost, DispatchFails,
           ReadAgain, Deliver, tables
<1>2. send \in [Workers -> Sends] /\ send[w] \in Sends
    BY DEF Typed, TypeOK
<1>3. /\ \A v \in Workers : v # w => send'[v] = send[v]
      /\ \/ send'[w] = IdleSend
         \/ /\ Begun(send[w]) /\ send[w].phase # "ineligible"
            /\ Begun(send'[w]) /\ send'[w].phase # "ineligible"
            /\ send'[w].job = send[w].job /\ send'[w].snap = send[w].snap
            /\ send'[w].seen = send[w].seen \/ send'[w].seen = lead[JobOf(w).lead]
    <2>1. CASE NotClaimed(w)
        BY <1>2, <2>1 DEF NotClaimed
    <2>2. CASE CheckSuppression(w)
        BY <1>2, <2>2 DEF CheckSuppression, Move, Sends, Begun
    <2>3. CASE TakeMailbox(w)
        BY <1>2, <2>3 DEF TakeMailbox, Sends, Begun
    <2>4. CASE ProviderAccepts(w)
        BY <1>2, <2>4 DEF ProviderAccepts, Sends, Begun
    <2>5. CASE AnswerLost(w)
        BY <1>2, <2>5 DEF AnswerLost, Sends, Begun
    <2>6. CASE DispatchFails(w)
        BY <1>2, <2>6 DEF DispatchFails, Sends, Begun
    <2>7. CASE ReadAgain(w)
        <3> DEFINE row == lead[JobOf(w).lead]
        <3>1. send' = [send EXCEPT ![w].seen = row] /\ WritesLead(w)
            BY <2>7 DEF ReadAgain
        <3> HIDE DEF row
        <3>2. /\ \A v \in Workers : v # w => send'[v] = send[v]
              /\ send'[w].phase = send[w].phase /\ send'[w].seen = row
              /\ send'[w].job = send[w].job /\ send'[w].snap = send[w].snap
            BY <1>2, <3>1 DEF Sends
        <3>3. Begun(send[w]) /\ send[w].phase # "ineligible"
            BY <3>1 DEF WritesLead, Begun
        <3> QED  BY <3>2, <3>3 DEF Begun, row
    <2> QED  BY <2>1, <2>2, <2>3, <2>4, <2>5, <2>6, <2>7
<1>4. SlotFits(send'[w])
    <2>1. CASE send'[w] = IdleSend
        BY <2>1 DEF SlotFits, IdleSend, Begun
    <2>2. CASE send'[w] # IdleSend
        BY <1>3, <2>2, SlotFitsOn
    <2> QED  BY <2>1, <2>2
<1>5. SlotsFit'
    <2>1. \A v \in Workers : SlotFits(send'[v])
        BY <1>3, <1>4 DEF InStep, SlotsFit
    <2> QED  BY <1>1, <2>1 DEF SlotsFit, SlotFits
<1> QED  BY <1>1, <1>5, SlotsInStep

\* Slots that crash.
LEMMA CrashInStep ==
    ASSUME InStep, CrashNext
    PROVE  InStep'
<1>1. /\ UNCHANGED <<lead, jobs, reply>>
      /\ \A w \in Workers : send'[w] = send[w] \/ send'[w] = IdleSend
    BY DEF CrashNext, WorkersCrash, tables
<1>2. \A w \in Workers : SlotFits(send'[w])
    BY <1>1 DEF InStep, SlotsFit, SlotFits, IdleSend, Begun
<1>3. SlotsFit'
    BY <1>1, <1>2 DEF SlotsFit, SlotFits
<1> QED  BY <1>1, <1>3, SlotsInStep

\* A claim makes live jobs run, and none that a consumer has cancelled.
LEMMA ClaimInStep ==
    ASSUME Typed, InStep, NEW S \in SUBSET Workers, NEW batch \in [S -> DOMAIN jobs], Claim(batch)
    PROVE  InStep'
<1> DEFINE J == {batch[w] : w \in DOMAIN batch}
<1>1. /\ UNCHANGED <<lead, reply>>
      /\ jobs' = [j \in DOMAIN jobs |->
             IF j \in J THEN [jobs[j] EXCEPT !.status = "running", !.attempts = @ + 1]
             ELSE jobs[j]]
      /\ \A j \in J : Claimable(j)
    BY DEF Claim, ClaimJobs
<1>2. \A j \in J : Live(j) /\ ~JobLocked(j)
    BY <1>1 DEF Claimable, Live
<1> HIDE DEF J
<1>3. \A j \in DOMAIN jobs : jobs[j] \in Jobs
    BY JobDomain DEF Typed, TypeOK
<1>4. /\ DOMAIN jobs' = DOMAIN jobs
      /\ \A j \in DOMAIN jobs :
            /\ jobs'[j].lead = jobs[j].lead /\ jobs'[j].position = jobs[j].position
            /\ jobs'[j].status = IF j \in J THEN "running" ELSE jobs[j].status
    BY <1>1, <1>3 DEF Jobs
<1>5. \A j \in DOMAIN jobs : Live(j)' <=> Live(j)
    BY <1>2, <1>4 DEF Live
<1>6. OneLiveJob' /\ RowsSound' /\ JobsFit' /\ \A l \in Leads : NoLive(l)' <=> NoLive(l)
    <2>1. OneLiveJob'
        BY <1>4, <1>5 DEF InStep, OneLiveJob
    <2>2. RowsSound'
        BY <1>1 DEF InStep, RowsSound
    <2>3. JobsFit'
        BY <1>1, <1>4, <1>5 DEF InStep, JobsFit
    <2>4. \A l \in Leads : NoLive(l)' <=> NoLive(l)
        BY <1>4, <1>5 DEF NoLive
    <2> QED  BY <2>1, <2>2, <2>3, <2>4
<1>7. Queued'
    BY <1>1, <1>6 DEF InStep, Queued
<1>8. SlotsFit'
    <2> SUFFICES ASSUME NEW w \in Workers PROVE SlotFits(send[w])'
        BY DEF SlotsFit
    <2>1. CASE send'[w] = send[w]
        <3>1. SlotFits(send[w]) /\ (Begun(send[w]) => send[w].job \in DOMAIN jobs)
            BY DEF InStep, SlotsFit, Typed, SlotsTyped, SlotTyped, Begun
        <3> QED  BY <1>1, <1>4, <2>1, <3>1 DEF SlotFits, Begun
    <2>2. CASE send'[w] # send[w]
        <3>1. send'[w] = [IdleSend EXCEPT !.phase = "claimed", !.job = batch[w],
                                          !.attempts = jobs[batch[w]].attempts + 1]
            BY <2>2 DEF Claim, ClaimJobs
        <3>2. send'[w].phase = "claimed" /\ send'[w].seen = NoRow
            BY <3>1 DEF IdleSend
        <3> QED  BY <3>2 DEF SlotFits, Begun
    <2> QED  BY <2>1, <2>2
<1>9. ConsumersFit'
    <2> SUFFICES ASSUME NEW r \in Consumers PROVE ConsumerFits(reply[r])'
        BY DEF ConsumersFit
    <2> DEFINE p == reply[r]
    <2>1. ConsumerFits(p) /\ p' = p /\ \A j \in p.cancels : j \notin J
        BY <1>1, <1>2 DEF InStep, ConsumersFit, JobLocked
    <2>2. \A l \in Leads : Answers(l)' <=> Answers(l)
        BY <1>1, <1>6 DEF Answers
    <2>3. \A l, row : Behind(l, row)' <=> Behind(l, row)
        BY <1>4, <1>5 DEF Behind
    <2>4. \A k \in Leads : p.rows[k] # NoRow =>
              p.phase # "idle" /\ Stops(p.rows[k]) /\ Behind(k, p.rows[k])' /\ Answers(k)'
        BY <2>1, <2>2, <2>3 DEF ConsumerFits
    <2>5. ReplyTyped(p)
        BY DEF Typed, RepliesTyped
    <2>6. p.phase \in {"loaded", "read"} =>
              /\ p.rows[p.lead] = NoRow
              /\ Stops(p.new) /\ Behind(p.lead, p.new)' /\ Answers(p.lead)'
              /\ lead[p.lead].steps_sent > 0
        BY <2>1, <2>2, <2>3, <2>5 DEF ConsumerFits, ReplyTyped
    <2>7. \A j \in p.cancels :
              j \in DOMAIN jobs' /\ jobs'[j].status = "pending" /\ p.rows[jobs'[j].lead] # NoRow
        BY <1>4, <2>1 DEF ConsumerFits
    <2>8. p.phase = "read" =>
              \/ p.seen.state = "sent" /\ Plain(p.seen)
              \/ p.seen = lead[p.lead] /\ p.seen.state # "sent"
        BY <2>1 DEF ConsumerFits
    <2> HIDE DEF p
    <2> QED  BY <1>1, <2>1, <2>4, <2>6, <2>7, <2>8 DEF ConsumerFits, p
<1> QED  BY <1>6, <1>7, <1>8, <1>9 DEF InStep

-----------------------------------------------------------------------------
(* Commits of a slot.                                                      *)

\* A transaction commits: what it makes of its job, its lead and the next job.
LEMMA FinishInStep ==
    ASSUME Typed, Typed', Alone, InStep, NEW w \in Workers, NEW newJobs, Finish(w, newJobs),
           send[w].phase \in Outcomes, Follows(jobs, jobs'),
           NEW l \in Leads, l = JobOf(w).lead,
           \A i \in DOMAIN jobs : i # send[w].job => jobs'[i] = jobs[i],
           \A i \in DOMAIN jobs' \ DOMAIN jobs : jobs'[i] = NewJob(l, JobOf(w).position + 1),
           \A i, k \in DOMAIN jobs' :
              jobs'[i].lead = l /\ Live(i)' /\ jobs'[k].lead = l /\ Live(k)' => i = k,
           \A i \in DOMAIN jobs' :
              jobs'[i].lead = l /\ Live(i)' => RowWaits(jobs'[i].position, lead'[l]),
           RowSound(lead'[l]),
           lead'[l].state \in Sendable => ~NoLive(l)',
           lead'[l] = lead[l] \/ ~LeadLocked(l),
           lead[l].state = "sent" => Answers(l)',
           lead[l].steps_sent > 0 => lead'[l].steps_sent > 0
    PROVE  InStep'
<1> DEFINE j == send[w].job
<1>1. /\ j \in DOMAIN jobs /\ Live(j) /\ jobs[j].lead = l
      /\ \A i \in DOMAIN jobs : jobs[i].lead = l /\ Live(i) => i = j
    <2>1. Begun(send[w])
        BY DEF Begun, Outcomes
    <2> QED  BY <2>1, SlotHasJob DEF JobOf
<1>2. /\ \A k \in Leads : k # l => lead'[k] = lead[k]
      /\ reply' = reply /\ ~JobLocked(j)
      /\ send'[w] = IdleSend /\ \A v \in Workers : v # w => send'[v] = send[v]
    <2>1. \A k \in Leads : k # l => lead'[k] = lead[k]
        BY FinishLead
    <2>2. send \in [Workers -> Sends] /\ send' = [send EXCEPT ![w] = IdleSend]
        BY DEF Finish, Typed, TypeOK
    <2>3. reply' = reply /\ ~JobLocked(j)
        BY DEF Finish, CanSet
    <2> QED  BY <2>1, <2>2, <2>3
<1>3. \A i \in DOMAIN jobs' \ DOMAIN jobs :
          jobs'[i].lead = l /\ jobs'[i].position = jobs[j].position + 1
    <2>1. \A k, p : NewJob(k, p).lead = k /\ NewJob(k, p).position = p
        BY DEF NewJob
    <2>2. JobOf(w).position = jobs[j].position
        BY DEF JobOf
    <2> HIDE DEF j
    <2> QED  BY <2>1, <2>2
<1>4. /\ DOMAIN jobs \subseteq DOMAIN jobs'
      /\ jobs'[j].lead = l /\ jobs'[j].position = jobs[j].position
    BY <1>1 DEF Follows
<1> HIDE DEF j
<1>5. \A i \in DOMAIN jobs' : jobs'[i].lead # l =>
          i \in DOMAIN jobs /\ jobs'[i] = jobs[i] /\ (Live(i)' <=> Live(i))
    BY <1>3, <1>4 DEF Live, j
<1>6. \A i \in DOMAIN jobs : jobs[i].lead # l =>
          i \in DOMAIN jobs' /\ jobs'[i] = jobs[i] /\ (Live(i)' <=> Live(i))
    BY <1>1, <1>4 DEF Live, j
<1>7. \A k \in Leads : k # l => /\ NoLive(k)' <=> NoLive(k)
                                /\ Answers(k)' <=> Answers(k)
                                /\ \A row : Behind(k, row)' <=> Behind(k, row)
    <2>1. \A k \in Leads : k # l => NoLive(k)' <=> NoLive(k)
        BY <1>5, <1>6 DEF NoLive
    <2>2. \A k \in Leads : k # l => Answers(k)' <=> Answers(k)
        BY <1>2, <2>1 DEF Answers
    <2>3. \A k \in Leads : k # l => \A row : Behind(k, row)' <=> Behind(k, row)
        BY <1>5, <1>6 DEF Behind
    <2> QED  BY <2>1, <2>2, <2>3
<1>8. OneLiveJob'
    BY <1>5 DEF InStep, OneLiveJob
<1>9. RowsSound'
    BY <1>2 DEF InStep, RowsSound
<1>10. JobsFit'
    <2> SUFFICES ASSUME NEW i \in DOMAIN jobs', Live(i)'
                 PROVE  RowWaits(jobs'[i].position, lead'[jobs'[i].lead])
        BY DEF JobsFit
    <2>1. CASE jobs'[i].lead = l
        BY <2>1
    <2>2. CASE jobs'[i].lead # l
        <3>1. jobs'[i] = jobs[i] /\ i \in DOMAIN jobs /\ Live(i) /\ jobs[i].lead \in Leads
            BY <1>5, <2>2, TypedLead
        <3> QED  BY <1>2, <2>2, <3>1 DEF InStep, JobsFit
    <2> QED  BY <2>1, <2>2
<1>11. Queued'
    BY <1>2, <1>7 DEF InStep, Queued
<1>12. SlotsFit'
    <2> SUFFICES ASSUME NEW v \in Workers PROVE SlotFits(send[v])'
        BY DEF SlotsFit
    <2>1. CASE v = w
        <3>1. send'[v].phase = "idle"
            BY <1>2, <2>1 DEF IdleSend
        <3> QED  BY <3>1 DEF SlotFits, Begun
    <2>2. CASE v # w
        <3>1. send'[v] = send[v] /\ SlotFits(send[v])
            BY <1>2, <2>2 DEF InStep, SlotsFit
        <3>2. CASE ~Begun(send[v])
            <4>1. send[v].phase # "ineligible"
                BY <3>2 DEF Begun
            <4> QED  BY <3>1, <3>2, <4>1 DEF SlotFits, Begun
        <3>3. CASE Begun(send[v])
            <4>1. send[v].job \in DOMAIN jobs /\ Live(send[v].job)
                BY <3>3, SlotHasJob
            <4>2. send[v].job # j
                <5>1. Begun(send[w])
                    BY DEF Begun, Outcomes
                <5> QED  BY <2>2, <3>3, <5>1 DEF Alone, j
            <4>3. jobs[send[v].job].lead # l /\ jobs[send[v].job].lead \in Leads
                BY <1>1, <4>1, <4>2, TypedLead
            <4>4. /\ jobs'[send[v].job] = jobs[send[v].job]
                  /\ lead'[jobs[send[v].job].lead] = lead[jobs[send[v].job].lead]
                BY <1>2, <1>6, <4>1, <4>3
            <4> QED  BY <3>1, <4>4 DEF SlotFits, Begun
        <3> QED  BY <3>2, <3>3
    <2> QED  BY <2>1, <2>2
<1>13. \A row \in Rows : Behind(l, row) => Behind(l, row)'
    <2> SUFFICES ASSUME NEW row \in Rows, Behind(l, row),
                        NEW i \in DOMAIN jobs', jobs'[i].lead = l, Live(i)'
                 PROVE  row.steps_sent < jobs'[i].position /\ jobs'[i].position # 1
        BY DEF Behind
    <2>1. row.steps_sent < jobs[j].position /\ jobs[j].position # 1
        BY <1>1 DEF Behind
    <2>2. CASE i \in DOMAIN jobs
        <3>1. i = j
            BY <1>1, <2>2 DEF j, Live
        <3> QED  BY <1>4, <2>1, <3>1
    <2>3. CASE i \notin DOMAIN jobs
        <3>1. jobs'[i].position = jobs[j].position + 1
            BY <1>3, <2>3
        <3>2. jobs[j].position \in Nat /\ jobs[j].position > 0
            <4>1. jobs[j].position \in 1..Steps
                BY <1>1, TypedLead
            <4> QED  BY <4>1, DomainAssumption
        <3>3. jobs'[i].position # 1
            BY <3>1, <3>2
        <3>4. jobs'[i].position \in 1..Steps /\ jobs'[i].position = jobs[j].position + 1
            <4>1. jobs'[i] \in Jobs
                BY JobDomain DEF Typed, TypeOK
            <4> QED  BY <3>1, <4>1 DEF Jobs
        <3>5. row.steps_sent \in Int
            BY DomainAssumption DEF Rows, LeadRows, NoRow
        <3>6. row.steps_sent < jobs'[i].position
            BY <2>1, <3>2, <3>4, <3>5
        <3> QED  BY <3>3, <3>6
    <2> QED  BY <2>2, <2>3
<1>14. Answers(l) => lead[l].state = "sent" /\ Answers(l)'
    <2>1. ~NoLive(l)
        BY <1>1 DEF NoLive
    <2> QED  BY <2>1 DEF Answers
<1>15. ConsumersFit'
    <2> SUFFICES ASSUME NEW r \in Consumers PROVE ConsumerFits(reply[r])'
        BY DEF ConsumersFit
    <2> DEFINE p == reply[r]
    <2>1. /\ ConsumerFits(p) /\ p' = p /\ ReplyTyped(p)
          /\ p.new \in Rows /\ \A k \in Leads : p.rows[k] \in Rows
        <3>1. p \in Replies
            BY DEF Typed, TypeOK
        <3> QED  BY <1>2, <3>1 DEF InStep, ConsumersFit, Typed, RepliesTyped, Replies
    <2>2. \A k \in Leads : /\ Answers(k) => Answers(k)'
                           /\ \A row \in Rows : Behind(k, row) => Behind(k, row)'
        BY <1>7, <1>13, <1>14
    <2>3. \A k \in Leads : p.rows[k] # NoRow =>
              p.phase # "idle" /\ Stops(p.rows[k]) /\ Behind(k, p.rows[k])' /\ Answers(k)'
        BY <2>1, <2>2 DEF ConsumerFits
    <2>4. p.phase \in {"loaded", "read"} =>
              /\ p.rows[p.lead] = NoRow
              /\ Stops(p.new) /\ Behind(p.lead, p.new)' /\ Answers(p.lead)'
        BY <2>1, <2>2 DEF ConsumerFits, ReplyTyped
    <2>5. p.phase \in {"loaded", "read"} => lead'[p.lead].steps_sent > 0
        BY <1>2, <2>1 DEF ConsumerFits, ReplyTyped
    <2>6. p.phase = "read" =>
              \/ p.seen.state = "sent" /\ Plain(p.seen)
              \/ p.seen = lead'[p.lead] /\ p.seen.state # "sent"
        <3>1. CASE p.phase = "read" /\ p.lead = l
            BY <1>14, <2>1, <3>1 DEF ConsumerFits
        <3>2. CASE p.phase = "read" /\ p.lead # l
            BY <1>2, <2>1, <3>2 DEF ConsumerFits, ReplyTyped
        <3> QED  BY <3>1, <3>2
    <2>7. \A i \in p.cancels :
              i \in DOMAIN jobs' /\ jobs'[i].status = "pending" /\ p.rows[jobs'[i].lead] # NoRow
        <3>1. j \notin p.cancels
            BY <1>2 DEF JobLocked
        <3> QED  BY <1>4, <2>1, <3>1 DEF ConsumerFits, j
    <2> HIDE DEF p
    <2> QED  BY <2>1, <2>3, <2>4, <2>5, <2>6, <2>7 DEF ConsumerFits, p
<1> QED  BY <1>8, <1>9, <1>10, <1>11, <1>12, <1>15 DEF InStep

\* The job is over and no other is added.
LEMMA OverInStep ==
    ASSUME Typed, Typed', Alone, InStep, NEW w \in Workers, NEW newJobs, Finish(w, newJobs),
           send[w].phase \in Outcomes, Follows(jobs, jobs'), DOMAIN jobs' = DOMAIN jobs,
           \A i \in DOMAIN jobs : i # send[w].job => jobs'[i] = jobs[i],
           jobs'[send[w].job].status \notin {"pending", "running"},
           RowSound(lead'[JobOf(w).lead]), lead'[JobOf(w).lead].state \notin Sendable,
           lead'[JobOf(w).lead] = lead[JobOf(w).lead] \/ ~LeadLocked(JobOf(w).lead),
           lead[JobOf(w).lead].state = "sent" => lead'[JobOf(w).lead].state \in {"done", "failed"},
           lead[JobOf(w).lead].steps_sent > 0 => lead'[JobOf(w).lead].steps_sent > 0
    PROVE  InStep'
<1>1. PICK l \in Leads : l = JobOf(w).lead
    BY NewRowTyped
<1>2. \A i \in DOMAIN jobs' : jobs'[i].lead = l => ~Live(i)'
    <2>1. Begun(send[w])
        BY DEF Begun, Outcomes
    <2>2. \A i \in DOMAIN jobs : jobs[i].lead = l /\ Live(i) => i = send[w].job
        BY <1>1, <2>1, SlotHasJob
    <2> QED  BY <2>2 DEF Live, Follows
<1>3. NoLive(l)'
    BY <1>2 DEF NoLive
<1>4. lead[l].state = "sent" => Answers(l)'
    BY <1>1, <1>3 DEF Answers
<1> QED  BY <1>1, <1>2, <1>4, FinishInStep

\* The job goes back, and the lead is as it was.
LEMMA BackInStep ==
    ASSUME Typed, Typed', Alone, InStep, NEW w \in Workers, NEW newJobs, Finish(w, newJobs),
           send[w].phase \in Outcomes, Follows(jobs, jobs'), DOMAIN jobs' = DOMAIN jobs,
           \A i \in DOMAIN jobs : i # send[w].job => jobs'[i] = jobs[i],
           jobs'[send[w].job].status = "pending", lead' = lead
    PROVE  InStep'
<1>1. PICK l \in Leads : l = JobOf(w).lead
    BY NewRowTyped
<1>2. PICK j \in DOMAIN jobs :
          /\ j = send[w].job /\ Live(j) /\ jobs[j].lead = l
          /\ \A i \in DOMAIN jobs : jobs[i].lead = l /\ Live(i) => i = j
    <2>1. Begun(send[w])
        BY DEF Begun, Outcomes
    <2> QED  BY <1>1, <2>1, SlotHasJob DEF JobOf
<1>3. /\ Live(j)' /\ jobs'[j].lead = l /\ jobs'[j].position = jobs[j].position
      /\ \A i \in DOMAIN jobs' : jobs'[i].lead = l /\ Live(i)' => i = j
    BY <1>2 DEF Live, Follows
<1>4. RowWaits(jobs'[j].position, lead'[l])
    BY <1>2, <1>3 DEF InStep, JobsFit
<1>5. ~NoLive(l)'
    BY <1>2, <1>3 DEF NoLive
<1>6. RowSound(lead'[l]) /\ (lead[l].state = "sent" => Answers(l)')
    BY DEF InStep, RowsSound, Answers
<1> QED  BY <1>1, <1>2, <1>3, <1>4, <1>5, <1>6, FinishInStep

\* What the slot of an outcome has, and the row it writes.
LEMMA OutcomeRow ==
    ASSUME Typed, Alone, InStep, NEW w \in Workers, NEW newJobs, Finish(w, newJobs),
           send[w].phase \in Outcomes, WritesLead(w)
    PROVE  LET p   == JobOf(w).position
               l   == JobOf(w).lead
           IN  /\ p \in 1..Steps /\ l \in Leads /\ lead[l] \in LeadRows /\ ~LeadLocked(l)
               /\ send[w].snap \in LeadRows /\ send[w].seen \in LeadRows
               /\ RowSound(lead[l]) /\ RowWaits(p, lead[l])
               /\ CopiesFit(p, lead[l], send[w].snap, send[w].seen)
               /\ lead'[l] = Written(lead[l], send[w].seen, NewRow(w))
<1>1. /\ send[w].job \in DOMAIN jobs /\ Live(send[w].job) /\ SlotFits(send[w])
      /\ send[w] \in Sends /\ Begun(send[w]) /\ send[w].phase # "ineligible"
    <2>1. Begun(send[w]) /\ send[w].phase # "ineligible"
        BY DEF Begun, Outcomes, WritesLead
    <2> QED  BY <2>1, SlotHasJob
<1>2. /\ JobOf(w).position \in 1..Steps /\ JobOf(w).lead \in Leads
      /\ lead[JobOf(w).lead] \in LeadRows
    BY <1>1, TypedLead DEF JobOf
<1>3. send[w].snap \in LeadRows
    BY NewRowTyped
<1>4. send[w].seen # NoRow /\ ~LeadLocked(JobOf(w).lead)
    BY DEF Finish
<1>5. send[w].seen \in LeadRows
    BY <1>1, <1>4, RowOrNone DEF Sends
<1>6. RowSound(lead[JobOf(w).lead]) /\ RowWaits(JobOf(w).position, lead[JobOf(w).lead])
    BY <1>1, <1>2 DEF InStep, RowsSound, JobsFit, JobOf
<1>7. CopiesFit(JobOf(w).position, lead[JobOf(w).lead], send[w].snap, send[w].seen)
    BY <1>1 DEF SlotFits, JobOf
<1>8. lead'[JobOf(w).lead] = Written(lead[JobOf(w).lead], send[w].seen, NewRow(w))
    <2>1. lead \in [Leads -> Rows]
        BY DEF Typed, TypeOK
    <2>2. lead' = [lead EXCEPT ![JobOf(w).lead] =
                       Written(lead[JobOf(w).lead], send[w].seen, NewRow(w))]
        BY DEF Finish
    <2> QED  BY <1>2, <2>1, <2>2
<1> QED  BY <1>2, <1>3, <1>4, <1>5, <1>6, <1>7, <1>8

LEMMA SentInStep ==
    ASSUME Typed, Typed', Alone, InStep, NEW w \in Workers, FinishSent(w)
    PROVE  InStep'
<1> DEFINE j == send[w].job
           done == [jobs EXCEPT ![j].status = "done", ![j].outbound = send[w].msg]
           next == Append(done, NewJob(jobs[j].lead, jobs[j].position + 1))
<1>1. /\ send[w].phase = "accepted" /\ send[w].phase \in Outcomes /\ WritesLead(w)
      /\ Finish(w, IF IsLastStep(jobs[j].position) THEN done ELSE next)
    BY DEF FinishSent, Outcomes, WritesLead
<1>2. jobs' = IF IsLastStep(jobs[j].position) THEN done ELSE next
    BY <1>1 DEF Finish
<1>3. /\ Follows(jobs, done) /\ DOMAIN done = DOMAIN jobs /\ done[j].status = "done"
      /\ \A i \in DOMAIN jobs : i # j => done[i] = jobs[i]
      /\ ~IsLastStep(jobs[j].position) =>
            /\ Follows(jobs, next)
            /\ \A i \in DOMAIN jobs : next[i] = done[i]
            /\ \A i \in DOMAIN next \ DOMAIN jobs :
                  next[i] = NewJob(jobs[j].lead, jobs[j].position + 1)
    BY <1>1, DoneJobs
<1> HIDE DEF done, next
<1>4. PICK l \in Leads : l = JobOf(w).lead
    BY <1>1, NewRowTyped
<1>5. PICK p \in 1..Steps : p = JobOf(w).position
    BY <1>1, OutcomeRow
<1> DEFINE row == lead'[l]
<1>6. /\ row = Written(lead[l], send[w].seen, RecordSent(send[w].snap, p))
      /\ lead[l] \in LeadRows /\ ~LeadLocked(l)
    BY <1>1, <1>4, <1>5, OutcomeRow DEF NewRow
<1>7. /\ row.steps_sent = p /\ RowSound(row)
      /\ IsLastStep(p) => row.state = "done"
      /\ ~IsLastStep(p) => row.state \in {"sent", "paused", "failed"}
      /\ ~IsLastStep(p) /\ lead[l].state = "sent" => row.state = "sent"
    BY <1>1, <1>4, <1>5, <1>6, OutcomeRow, SentRow
<1>8. p \in Nat /\ p > 0 /\ p + 1 # 1
    BY DomainAssumption
<1> HIDE DEF row
<1>9. CASE IsLastStep(p)
    <2>1. jobs' = done
        BY <1>2, <1>5, <1>9 DEF JobOf
    <2>2. row.state = "done" /\ "done" \notin Sendable
        BY <1>7, <1>9 DEF Sendable
    <2>3. row.steps_sent > 0
        BY <1>7, <1>8
    <2>4. lead'[l] = row
        BY DEF row
    <2> QED  BY <1>1, <1>3, <1>4, <1>6, <1>7, <2>1, <2>2, <2>3, <2>4, OverInStep
<1>10. CASE ~IsLastStep(p)
    <2>1. /\ jobs' = next /\ Follows(jobs, jobs')
          /\ jobs'[j].status = "done"
          /\ \A i \in DOMAIN jobs : i # j => jobs'[i] = jobs[i]
          /\ \A i \in DOMAIN jobs' \ DOMAIN jobs : jobs'[i] = NewJob(l, p + 1)
        <3>1. ~IsLastStep(jobs[j].position) /\ j \in DOMAIN jobs
            BY <1>1, <1>5, <1>10, NewRowTyped DEF JobOf
        <3> QED  BY <1>2, <1>3, <1>4, <1>5, <3>1 DEF JobOf
    <2>2. \A i \in DOMAIN jobs' : jobs'[i].lead = l /\ Live(i)' => i \notin DOMAIN jobs
        <3>1. Begun(send[w])
            BY <1>1 DEF Begun
        <3>2. \A i \in DOMAIN jobs : jobs[i].lead = l /\ Live(i) => i = j
            BY <1>4, <3>1, SlotHasJob
        <3> QED  BY <2>1, <3>2 DEF Live, Follows
    <2>3. DOMAIN jobs' \ DOMAIN jobs = {Len(done) + 1}
        <3>1. NewJob(jobs[j].lead, jobs[j].position + 1) \in Jobs
            <4>1. p + 1 \in 1..Steps
                BY <1>8, <1>10, DomainAssumption DEF IsLastStep
            <4> QED  BY <1>4, <1>5, <4>1, NewJobTyped DEF JobOf
        <3>2. done \in Seq(Jobs)
            BY <1>3 DEF Follows
        <3>3. DOMAIN next = DOMAIN done \cup {Len(done) + 1}
            BY <3>1, <3>2, JobAppended DEF next
        <3>4. Len(done) \in Nat /\ DOMAIN done = 1..Len(done)
            BY <3>2, JobDomain
        <3>5. Len(done) + 1 \notin DOMAIN done
            BY <3>4
        <3> QED  BY <1>3, <2>1, <3>3, <3>5
    <2>4. PICK n : DOMAIN jobs' \ DOMAIN jobs = {n}
        BY <2>3
    <2>5. n \in DOMAIN jobs' /\ jobs'[n] = NewJob(l, p + 1)
        BY <2>1, <2>4
    <2>6. jobs'[n].lead = l /\ jobs'[n].position = p + 1 /\ jobs'[n].status = "pending"
        BY <2>5 DEF NewJob
    <2>7. \A i \in DOMAIN jobs' : jobs'[i].lead = l /\ Live(i)' => i = n
        BY <2>2, <2>4
    <2>8. Live(n)' /\ ~NoLive(l)'
        BY <2>5, <2>6 DEF NoLive, Live
    <2>9. RowWaits(p + 1, row)
        <3>1. row.state \in Sendable \cup {"paused", "failed"}
            BY <1>7, <1>10 DEF Sendable
        <3>2. row.steps_sent < p + 1 /\ row.steps_sent = (p + 1) - 1
            BY <1>7, <1>8
        <3> QED  BY <1>8, <3>1, <3>2 DEF RowWaits
    <2>10. lead[l].state = "sent" => Answers(l)'
        BY <1>7, <1>10 DEF Answers, row
    <2>11. row.steps_sent > 0
        BY <1>7, <1>8
    <2>12. lead'[l] = row
        BY DEF row
    <2> QED  BY <1>1, <1>4, <1>5, <1>6, <1>7, <2>1, <2>6, <2>7, <2>8, <2>9, <2>10, <2>11, <2>12,
                FinishInStep
<1> QED  BY <1>9, <1>10

LEMMA FinishStepsInStep ==
    ASSUME Typed, Typed', Alone, InStep, NEW w \in Workers,
           FinishSuppressed(w) \/ FinishFailed(w) \/ FinishDeferred(w) \/ FinishIneligible(w)
    PROVE  InStep'
<1>1. /\ send[w].phase \in Outcomes /\ Begun(send[w]) /\ send[w].job \in DOMAIN jobs
      /\ JobOf(w).lead \in Leads
    <2>1. send[w].phase \in Outcomes
        BY DEF FinishSuppressed, FinishFailed, FinishDeferred, FinishIneligible, Outcomes
    <2> QED  BY <2>1, NewRowTyped DEF Begun, Outcomes
<1>2. ASSUME NEW x \in {"cancelled", "failed"}, Finish(w, Set(w, x)), WritesLead(w),
             NEW reason \in {"suppressed", "send_failed"},
             NewRow(w) = FailLead(send[w].snap, reason)
      PROVE  InStep'
    <2>1. jobs' = Set(w, x) /\ x \in JobStatuses
        BY <1>2 DEF Finish, JobStatuses
    <2>2. /\ Follows(jobs, jobs') /\ DOMAIN jobs' = DOMAIN jobs
          /\ jobs'[send[w].job].status = x
          /\ \A i \in DOMAIN jobs : i # send[w].job => jobs'[i] = jobs[i]
        BY <1>1, <2>1, StatusJobs
    <2>3. PICK l \in Leads : l = JobOf(w).lead
        BY <1>1
    <2>4. PICK p \in 1..Steps : p = JobOf(w).position
        BY <1>1, <1>2, OutcomeRow
    <2> DEFINE row == lead'[l]
    <2>5. /\ row = Written(lead[l], send[w].seen, FailLead(send[w].snap, reason))
          /\ lead[l] \in LeadRows /\ ~LeadLocked(l)
        BY <1>1, <1>2, <2>3, OutcomeRow
    <2>6. row.state = "failed" /\ RowSound(row) /\ (lead[l].steps_sent > 0 => row.steps_sent > 0)
        BY <1>1, <1>2, <2>3, <2>4, <2>5, OutcomeRow, FailedRow
    <2>7. "failed" \notin Sendable /\ x \notin {"pending", "running"}
        BY DEF Sendable
    <2> QED  BY <1>1, <1>2, <2>2, <2>3, <2>5, <2>6, <2>7, OverInStep
<1>3. CASE FinishSuppressed(w)
    <2>1. Finish(w, Set(w, "cancelled")) /\ WritesLead(w)
        BY <1>3 DEF FinishSuppressed, WritesLead
    <2>2. NewRow(w) = FailLead(send[w].snap, "suppressed")
        BY <1>3 DEF FinishSuppressed, NewRow
    <2> QED  BY <1>2, <2>1, <2>2
<1>4. CASE FinishFailed(w) /\ ~Retries(send[w].attempts)
    <2>1. Finish(w, Set(w, "failed")) /\ WritesLead(w)
        BY <1>4 DEF FinishFailed, WritesLead
    <2>2. NewRow(w) = FailLead(send[w].snap, "send_failed")
        BY <1>4 DEF FinishFailed, NewRow
    <2> QED  BY <1>2, <2>1, <2>2
<1>5. CASE FinishFailed(w) /\ Retries(send[w].attempts)
    <2>1. Finish(w, Set(w, "pending")) /\ lead' = lead /\ jobs' = Set(w, "pending")
        BY <1>5 DEF FinishFailed, Finish, WritesLead
    <2>2. "pending" \in JobStatuses
        BY DEF JobStatuses
    <2> QED  BY <1>1, <2>1, <2>2, StatusJobs, BackInStep
<1>6. CASE FinishDeferred(w)
    <2> DEFINE r == [jobs EXCEPT ![send[w].job].status = "pending",
                                 ![send[w].job].attempts = @ - 1]
    <2>1. Finish(w, r) /\ lead' = lead /\ jobs' = r
        BY <1>6 DEF FinishDeferred, Finish, WritesLead
    <2>2. /\ Follows(jobs, r) /\ DOMAIN r = DOMAIN jobs /\ r[send[w].job].status = "pending"
          /\ \A i \in DOMAIN jobs : i # send[w].job => r[i] = jobs[i]
        BY <1>1, ReleasedJobs
    <2> HIDE DEF r
    <2> QED  BY <1>1, <2>1, <2>2, BackInStep
<1>7. CASE FinishIneligible(w)
    <2>1. /\ Finish(w, Set(w, "cancelled")) /\ lead' = lead /\ jobs' = Set(w, "cancelled")
          /\ send[w].phase = "ineligible"
        BY <1>7 DEF FinishIneligible, Finish, WritesLead
    <2>2. "cancelled" \in JobStatuses
        BY DEF JobStatuses
    <2>3. lead[JobOf(w).lead].state \notin Sendable
        BY <2>1 DEF InStep, SlotsFit, SlotFits, JobOf
    <2>4. lead[JobOf(w).lead].state # "sent" /\ RowSound(lead[JobOf(w).lead])
        BY <1>1, <2>3 DEF InStep, RowsSound, Sendable
    <2> QED  BY <1>1, <2>1, <2>2, <2>3, <2>4, StatusJobs, OverInStep
<1> QED  BY <1>3, <1>4, <1>5, <1>6, <1>7

-----------------------------------------------------------------------------
(* Requests.                                                               *)

\* Each lead of a set gets its first job.
LEMMA FirstJobsCover ==
    ASSUME NEW L \in SUBSET Leads
    PROVE  \A l \in L : \E j \in DOMAIN FirstJobs(L) : FirstJobs(L)[j] = NewJob(l, 1)
<1> DEFINE n == Cardinality(L)
           order == CHOOSE f \in [1..n -> L] :
                        \A i, k \in DOMAIN f : f[i] = f[k] => i = k
<1>1. n \in Nat /\ ExistsBijection(1..n, L) /\ IsFiniteSet(L)
    BY SendingAssumption, FS_Subset, FS_CardinalityType
<1>2. \E f \in [1..n -> L] : \A i, k \in DOMAIN f : f[i] = f[k] => i = k
    BY <1>1 DEF ExistsBijection, Bijection, Injection, IsInjective
<1>3. order \in [1..n -> L] /\ \A i, k \in DOMAIN order : order[i] = order[k] => i = k
    BY <1>2
<1>4. FirstJobs(L) = [i \in 1..n |-> NewJob(order[i], 1)]
    BY DEF FirstJobs
<1> HIDE DEF order
<1>5. order \in Injection(1..n, L)
    BY <1>3 DEF Injection, IsInjective
<1>6. Cardinality(1..n) = n
    BY <1>1, FS_Interval
<1>7. Cardinality(1..n) = Cardinality(L) <=> order \in Surjection(1..n, L)
    BY <1>1, <1>5, FS_Injection
<1>8. order \in Surjection(1..n, L)
    BY <1>6, <1>7
<1> HIDE DEF n
<1>9. \A l \in L : \E j \in 1..n : order[j] = l
    BY <1>8 DEF Surjection
<1> QED  BY <1>4, <1>9

\* So the jobs that are added are first jobs, one at least for each lead.
LEMMA FirstJobsCovered ==
    ASSUME NEW q \in Seq(Jobs), NEW L \in SUBSET Leads
    PROVE  LET r == q \o FirstJobs(L)
           IN  /\ \A j \in DOMAIN q : j \in DOMAIN r /\ r[j] = q[j]
               /\ \A j \in DOMAIN r \ DOMAIN q : \E l \in L : r[j] = NewJob(l, 1)
               /\ \A l \in L : \E j \in DOMAIN r : r[j] = NewJob(l, 1)
<1> DEFINE f == FirstJobs(L)
           r == q \o f
<1>1. f \in Seq(Jobs) /\ \A l \in L : \E j \in DOMAIN f : f[j] = NewJob(l, 1)
    BY FirstJobsTyped, FirstJobsCover
<1>2. /\ \A j \in DOMAIN q : j \in DOMAIN r /\ r[j] = q[j]
      /\ \A j \in DOMAIN r \ DOMAIN q : \E l \in L : r[j] = NewJob(l, 1)
    BY JobsAdded DEF Follows
<1> HIDE DEF f
<1>3. /\ r \in Seq(Jobs) /\ Len(r) = Len(q) + Len(f)
      /\ \A i \in 1..(Len(q) + Len(f)) :
            r[i] = IF i <= Len(q) THEN q[i] ELSE f[i - Len(q)]
    BY <1>1, ConcatProperties
<1> HIDE DEF r
<1>4. /\ Len(q) \in Nat /\ Len(f) \in Nat /\ DOMAIN f = 1..Len(f)
      /\ DOMAIN r = 1..(Len(q) + Len(f))
    BY <1>1, <1>3, JobDomain
<1>5. ASSUME NEW j \in DOMAIN f
      PROVE  Len(q) + j \in DOMAIN r /\ r[Len(q) + j] = f[j]
    <2>1. /\ j \in 1..Len(f) /\ Len(q) + j \in 1..(Len(q) + Len(f))
          /\ ~(Len(q) + j <= Len(q)) /\ (Len(q) + j) - Len(q) = j
        BY <1>4
    <2> QED  BY <1>3, <1>4, <2>1
<1>6. \A l \in L : \E j \in DOMAIN r : r[j] = NewJob(l, 1)
    BY <1>1, <1>5
<1> QED  BY <1>2, <1>6 DEF r, f

\* Leads of whom nothing is known are added, or scheduled with a first job each.
Fresh(L) ==
    /\ \A l \in L : lead[l] \in {NoRow, NewLead} /\ \A j \in DOMAIN jobs : jobs[j].lead # l
    /\ \A l \in Leads \ L : lead'[l] = lead[l]
    /\ \A j \in DOMAIN jobs : j \in DOMAIN jobs' /\ jobs'[j] = jobs[j]
    /\ \/ DOMAIN jobs' = DOMAIN jobs /\ \A l \in L : lead'[l] = NewLead
       \/ /\ \A j \in DOMAIN jobs' \ DOMAIN jobs : \E l \in L : jobs'[j] = NewJob(l, 1)
          /\ \A l \in L : /\ lead'[l] = Scheduled(NewLead)
                          /\ \E j \in DOMAIN jobs' : jobs'[j] = NewJob(l, 1)

LEMMA NewRows ==
    /\ NewLead.state = "pending" /\ NewLead.steps_sent = 0
    /\ Scheduled(NewLead).state = "scheduled" /\ Scheduled(NewLead).steps_sent = 0
    /\ RowSound(NewLead) /\ RowSound(Scheduled(NewLead)) /\ RowSound(NoRow)
    /\ RowWaits(1, Scheduled(NewLead))
    /\ \A row \in {NoRow, NewLead} : row.state \notin {"scheduled", "sent", "done", "failed"}
<1> DEFINE s == Scheduled(NewLead)
<1>1. /\ NewLead.state = "pending" /\ NewLead.steps_sent = 0 /\ NewLead.stop_reason = Null
      /\ NewLead.reply_intent = Null
      /\ s.state = "scheduled" /\ s.steps_sent = 0 /\ s.stop_reason = Null
      /\ s.reply_intent = Null
      /\ NoRow.state = Null /\ NoRow.stop_reason = Null /\ NoRow.reply_intent = Null
    BY DEF NewLead, Scheduled, NoRow
<1> HIDE DEF s
<1>2. RowWaits(1, s)
    BY <1>1 DEF RowWaits, Sendable
<1>3. RowSound(NewLead) /\ RowSound(s) /\ RowSound(NoRow)
    BY <1>1 DEF RowSound, Plain, Sendable, Replyable, Null
<1>4. \A row \in {NoRow, NewLead} : row.state \notin {"scheduled", "sent", "done", "failed"}
    BY <1>1 DEF Null
<1> QED  BY <1>1, <1>2, <1>3, <1>4 DEF s

LEMMA FreshInStep ==
    ASSUME Typed, InStep, OneFirstJob', NEW L \in SUBSET Leads, Fresh(L),
           UNCHANGED <<send, reply>>
    PROVE  InStep'
<1>1. \A j \in DOMAIN jobs : /\ j \in DOMAIN jobs' /\ jobs'[j] = jobs[j]
                             /\ jobs[j].lead \in Leads \ L
                             /\ lead'[jobs[j].lead] = lead[jobs[j].lead]
    <2>1. \A j \in DOMAIN jobs : jobs[j].lead \in Leads \ L
        BY TypedLead DEF Fresh
    <2> QED  BY <2>1 DEF Fresh
<1>2. \A j \in DOMAIN jobs' \ DOMAIN jobs :
          /\ jobs'[j].lead \in L /\ jobs'[j].position = 1
          /\ lead'[jobs'[j].lead] = Scheduled(NewLead)
    <2> SUFFICES ASSUME NEW j \in DOMAIN jobs' \ DOMAIN jobs
                 PROVE  /\ jobs'[j].lead \in L /\ jobs'[j].position = 1
                        /\ lead'[jobs'[j].lead] = Scheduled(NewLead)
        OBVIOUS
    <2>1. PICK l \in L : jobs'[j] = NewJob(l, 1) /\ lead'[l] = Scheduled(NewLead)
        BY DEF Fresh
    <2> QED  BY <2>1 DEF NewJob
<1>3. \A l \in L : /\ \/ lead'[l] = NewLead
                      \/ /\ lead'[l] = Scheduled(NewLead)
                         /\ \E j \in DOMAIN jobs' : jobs'[j].lead = l /\ Live(j)'
                   /\ lead[l] \in {NoRow, NewLead}
    <2> SUFFICES ASSUME NEW l \in L
                 PROVE  /\ \/ lead'[l] = NewLead
                           \/ /\ lead'[l] = Scheduled(NewLead)
                              /\ \E j \in DOMAIN jobs' : jobs'[j].lead = l /\ Live(j)'
                        /\ lead[l] \in {NoRow, NewLead}
        OBVIOUS
    <2>1. ASSUME NEW j \in DOMAIN jobs', jobs'[j] = NewJob(l, 1)
          PROVE  jobs'[j].lead = l /\ Live(j)'
        BY <2>1 DEF NewJob, Live
    <2> QED  BY <2>1 DEF Fresh
<1>4. OneLiveJob'
    <2> SUFFICES ASSUME NEW i \in DOMAIN jobs', NEW k \in DOMAIN jobs', Live(i)', Live(k)',
                        jobs'[i].lead = jobs'[k].lead
                 PROVE  i = k
        BY DEF OneLiveJob
    <2>1. CASE i \in DOMAIN jobs /\ k \in DOMAIN jobs
        BY <1>1, <2>1 DEF InStep, OneLiveJob, Live
    <2>2. CASE i \notin DOMAIN jobs /\ k \notin DOMAIN jobs
        BY <1>2, <2>2 DEF OneFirstJob
    <2> QED  BY <1>1, <1>2, <2>1, <2>2
<1>5. RowsSound'
    BY <1>3, NewRows DEF InStep, RowsSound, Fresh
<1>6. JobsFit'
    <2> SUFFICES ASSUME NEW i \in DOMAIN jobs', Live(i)'
                 PROVE  RowWaits(jobs'[i].position, lead'[jobs'[i].lead])
        BY DEF JobsFit
    <2>1. CASE i \in DOMAIN jobs
        BY <1>1, <2>1 DEF InStep, JobsFit, Live
    <2>2. CASE i \notin DOMAIN jobs
        BY <1>2, <2>2, NewRows
    <2> QED  BY <2>1, <2>2
<1>7. Queued'
    <2> SUFFICES ASSUME NEW l \in Leads, lead'[l].state \in Sendable PROVE ~NoLive(l)'
        BY DEF Queued
    <2>1. CASE l \in L
        <3>1. NewLead.state \notin Sendable
            BY NewRows DEF Sendable
        <3> QED  BY <1>3, <2>1, <3>1 DEF NoLive
    <2>2. CASE l \notin L
        <3>1. lead[l].state \in Sendable
            BY <2>2 DEF Fresh
        <3>2. PICK j \in DOMAIN jobs : jobs[j].lead = l /\ Live(j)
            BY <3>1 DEF InStep, Queued, NoLive
        <3> QED  BY <1>1, <3>2 DEF NoLive, Live
    <2> QED  BY <2>1, <2>2
<1>8. SlotsFit'
    <2> SUFFICES ASSUME NEW w \in Workers PROVE SlotFits(send[w])'
        BY DEF SlotsFit
    <2>1. SlotFits(send[w]) /\ send' = send /\ (Begun(send[w]) => send[w].job \in DOMAIN jobs)
        BY DEF InStep, SlotsFit, Typed, SlotsTyped, SlotTyped, Begun
    <2>2. CASE Begun(send[w])
        BY <1>1, <2>1, <2>2 DEF SlotFits, Begun
    <2>3. CASE ~Begun(send[w])
        <3>1. send[w].phase # "ineligible"
            BY <2>3 DEF Begun
        <3> QED  BY <2>1, <2>3, <3>1 DEF SlotFits, Begun
    <2> QED  BY <2>2, <2>3
<1>9. \A k \in Leads : Answers(k) =>
          /\ Answers(k)' /\ lead'[k] = lead[k]
          /\ \A row : Behind(k, row) => Behind(k, row)'
    <2> SUFFICES ASSUME NEW k \in Leads, Answers(k)
                 PROVE  /\ Answers(k)' /\ lead'[k] = lead[k]
                        /\ \A row : Behind(k, row) => Behind(k, row)'
        OBVIOUS
    <2>1. k \notin L
        BY <1>3, NewRows DEF Answers
    <2>2. \A j \in DOMAIN jobs' : jobs'[j].lead = k =>
              j \in DOMAIN jobs /\ jobs'[j] = jobs[j] /\ (Live(j)' <=> Live(j))
        BY <1>1, <1>2, <2>1 DEF Live
    <2>3. lead'[k] = lead[k]
        BY <2>1 DEF Fresh
    <2>4. NoLive(k) => NoLive(k)'
        BY <2>2 DEF NoLive
    <2>5. Answers(k)'
        BY <2>3, <2>4 DEF Answers
    <2>6. \A row : Behind(k, row) => Behind(k, row)'
        BY <2>2 DEF Behind
    <2> QED  BY <2>3, <2>5, <2>6
<1>10. ConsumersFit'
    <2> SUFFICES ASSUME NEW r \in Consumers PROVE ConsumerFits(reply[r])'
        BY DEF ConsumersFit
    <2> DEFINE p == reply[r]
    <2>1. ConsumerFits(p) /\ p' = p /\ ReplyTyped(p)
        BY DEF InStep, ConsumersFit, Typed, RepliesTyped
    <2>2. \A k \in Leads : p.rows[k] # NoRow =>
              p.phase # "idle" /\ Stops(p.rows[k]) /\ Behind(k, p.rows[k])' /\ Answers(k)'
        BY <1>9, <2>1 DEF ConsumerFits
    <2>3. p.phase \in {"loaded", "read"} =>
              /\ p.rows[p.lead] = NoRow
              /\ Stops(p.new) /\ Behind(p.lead, p.new)' /\ Answers(p.lead)'
              /\ lead'[p.lead].steps_sent > 0
        BY <1>9, <2>1 DEF ConsumerFits, ReplyTyped
    <2>4. p.phase = "read" =>
              \/ p.seen.state = "sent" /\ Plain(p.seen)
              \/ p.seen = lead'[p.lead] /\ p.seen.state # "sent"
        BY <1>9, <2>1 DEF ConsumerFits, ReplyTyped
    <2>5. \A j \in p.cancels :
              j \in DOMAIN jobs' /\ jobs'[j].status = "pending" /\ p.rows[jobs'[j].lead] # NoRow
        BY <1>1, <2>1 DEF ConsumerFits
    <2> HIDE DEF p
    <2> QED  BY <2>1, <2>2, <2>3, <2>4, <2>5 DEF ConsumerFits, p
<1> QED  BY <1>4, <1>5, <1>6, <1>7, <1>8, <1>10 DEF InStep

\* A request that commits.
LEMMA AddLeadsInStep ==
    ASSUME Orderly, OneFirstJob', InStep, NEW c \in Clients, AddLeadsCommit(c)
    PROVE  InStep'
<1> DEFINE L == request[c].leads
           row == IF request[c].active THEN Scheduled(NewLead) ELSE NewLead
<1>1. /\ lead' = [l \in Leads |-> IF l \in L THEN row ELSE lead[l]]
      /\ jobs' = IF request[c].active THEN jobs \o FirstJobs(L) ELSE jobs
      /\ \A l \in L : lead[l] = NoRow
      /\ UNCHANGED <<send, reply>>
    BY DEF AddLeadsCommit, AddRows, RequestUnchanged, Added
<1>2. L \in SUBSET Leads /\ jobs \in Seq(Jobs) /\ \A j \in DOMAIN jobs : jobs[j].lead \notin L
    BY <1>1 DEF Orderly, Typed, TypeOK, Requests, JobsTyped, Added
<1>3. PICK K \in SUBSET Leads : K = L
    BY <1>2
<1>4. CASE request[c].active
    <2>1. jobs' = jobs \o FirstJobs(K) /\ \A l \in K : lead'[l] = Scheduled(NewLead)
        BY <1>1, <1>3, <1>4
    <2> HIDE DEF L, row
    <2>2. /\ \A j \in DOMAIN jobs : j \in DOMAIN jobs' /\ jobs'[j] = jobs[j]
          /\ \A j \in DOMAIN jobs' \ DOMAIN jobs : \E l \in K : jobs'[j] = NewJob(l, 1)
          /\ \A l \in K : \E j \in DOMAIN jobs' : jobs'[j] = NewJob(l, 1)
        BY <1>2, <2>1, FirstJobsCovered
    <2>3. Fresh(K)
        BY <1>1, <1>2, <1>3, <2>1, <2>2 DEF Fresh
    <2> QED  BY <1>1, <2>3, FreshInStep DEF Orderly
<1>5. CASE ~request[c].active
    <2>1. jobs' = jobs /\ \A l \in K : lead'[l] = NewLead
        BY <1>1, <1>3, <1>5
    <2> HIDE DEF L, row
    <2>2. Fresh(K)
        BY <1>1, <1>2, <1>3, <2>1 DEF Fresh
    <2> QED  BY <1>1, <2>2, FreshInStep DEF Orderly
<1> QED  BY <1>4, <1>5

LEMMA StartInStep ==
    ASSUME Orderly, OneFirstJob', InStep, NEW c \in Clients, StartCommit(c)
    PROVE  InStep'
<1> DEFINE L == request[c].leads
<1>1. /\ lead' = [l \in Leads |->
             IF l \in L THEN Written(lead[l], request[c].seen[l], Scheduled(NewLead))
             ELSE lead[l]]
      /\ jobs' = jobs \o FirstJobs(L)
      /\ request[c].phase = "flushed"
      /\ UNCHANGED <<send, reply>>
    BY DEF StartCommit, RequestUnchanged
<1>2. L \in SUBSET Leads /\ RequestFits(request[c]) /\ jobs \in Seq(Jobs)
    BY DEF Orderly, Typed, TypeOK, Requests, RequestsFit
<1>3. /\ L = {l \in Leads : lead[l].state = "pending"}
      /\ \A l \in L : request[c].seen[l] = lead[l] /\ lead[l] = NewLead
      /\ DOMAIN jobs = {}
    <2>1. jobs = <<>> /\ \A l \in Leads : lead[l] \in {NoRow, NewLead}
        BY <1>1, <1>2 DEF RequestFits, Orderly, DraftIsBlank
    <2>2. NoRow.state # "pending"
        BY DEF NoRow, Null
    <2> QED  BY <1>1, <1>2, <2>1, <2>2, EmptySeq DEF RequestFits
<1>4. PICK K \in SUBSET Leads : K = L
    BY <1>2
<1> HIDE DEF L
<1>5. \A l \in K : lead'[l] = Scheduled(NewLead)
    <2> SUFFICES ASSUME NEW l \in K PROVE lead'[l] = Scheduled(NewLead)
        OBVIOUS
    <2>1. lead'[l] = Written(NewLead, NewLead, Scheduled(NewLead))
        BY <1>1, <1>3, <1>4
    <2> QED  BY <2>1 DEF Written, Scheduled, NewLead
<1>6. /\ \A j \in DOMAIN jobs : j \in DOMAIN jobs' /\ jobs'[j] = jobs[j]
      /\ \A j \in DOMAIN jobs' \ DOMAIN jobs : \E l \in K : jobs'[j] = NewJob(l, 1)
      /\ \A l \in K : \E j \in DOMAIN jobs' : jobs'[j] = NewJob(l, 1)
    <2>1. jobs' = jobs \o FirstJobs(K)
        BY <1>1, <1>4
    <2>2. jobs \in Seq(Jobs)
        BY <1>2
    <2> QED  BY <2>1, <2>2, FirstJobsCovered
<1>7. Fresh(K)
    BY <1>1, <1>3, <1>4, <1>5, <1>6 DEF Fresh
<1> QED  BY <1>1, <1>7, FreshInStep DEF Orderly

-----------------------------------------------------------------------------
(* The reply consumer.                                                     *)

\* A step in the memory of a consumer.
LEMMA ConsumerInStep ==
    ASSUME InStep, NEW r \in Consumers, Consumes(r), UNCHANGED <<lead, jobs, send>>,
           ConsumerFits(reply'[r])
    PROVE  InStep'
<1>1. \A q \in Consumers : ConsumerFits(reply'[q])
    BY DEF InStep, ConsumersFit, Consumes
<1>2. ConsumersFit'
    BY <1>1 DEF ConsumersFit, ConsumerFits, Behind, Answers, NoLive, Live
<1>3. OneLiveJob' /\ RowsSound' /\ JobsFit' /\ Queued'
    BY DEF InStep, OneLiveJob, RowsSound, JobsFit, Queued, NoLive, Live
<1>4. SlotsFit'
    BY DEF InStep, SlotsFit, SlotFits
<1> QED  BY <1>2, <1>3, <1>4 DEF InStep

LEMMA IdleFits == ConsumerFits(IdleReply)
BY DEF ConsumerFits, IdleReply, NothingSeen

\* A lead that is stopped for the first time.
LEMMA FirstReply ==
    ASSUME Typed, InStep, NEW l \in Leads, lead[l].state \in Replyable, NEW i \in Intents
    PROVE  /\ Stops(StopOnReply(lead[l], i)) /\ Behind(l, StopOnReply(lead[l], i))
           /\ Answers(l) /\ lead[l].steps_sent > 0
<1> DEFINE row == lead[l]
           new == StopOnReply(row, i)
<1>1. row \in LeadRows /\ RowSound(row)
    <2>1. row \in Rows /\ RowSound(row)
        BY DEF Typed, TypeOK, InStep, RowsSound
    <2>2. NoRow.state \notin Replyable
        BY DEF NoRow, Null, Replyable
    <2> QED  BY <2>1, <2>2, RowOrNone
<1>2. \A j \in DOMAIN jobs : jobs[j].lead = l /\ Live(j) => RowWaits(jobs[j].position, row)
    BY DEF InStep, JobsFit
<1> HIDE DEF row
<1>3. /\ new.state \in {"failed", "paused"} /\ new.steps_sent = row.steps_sent
      /\ new.reply_intent = i /\ new.stop_reason = ReplyReason(i)
    BY <1>1 DEF StopOnReply, LeadRows
<1>4. row.state \in Replyable /\ row.steps_sent > 0
    BY <1>1 DEF RowSound, row
<1> HIDE DEF new
<1>5. Stops(new)
    BY <1>3, <1>4 DEF Stops, IsStopped
<1>6. \A p : RowWaits(p, row) =>
          row.state = "sent" /\ row.steps_sent < p /\ p # 1
    BY <1>1, <1>4 DEF RowWaits, RowSound, Replyable, Sendable
<1>7. Behind(l, new)
    BY <1>2, <1>3, <1>6 DEF Behind
<1>8. Answers(l)
    <2>1. row.state = "done" => NoLive(l)
        BY <1>2, <1>6 DEF NoLive
    <2> QED  BY <1>4, <2>1 DEF Answers, Replyable, row
<1> QED  BY <1>4, <1>5, <1>7, <1>8 DEF row, new

LEMMA ReplyStepsInStep ==
    ASSUME Typed, InStep, NEW r \in Consumers,
           \/ ReplyClaim(r) \/ ReplyIgnored(r) \/ ReplyLoad(r) \/ ReplyReadAgain(r)
           \/ ReplyFlush(r) \/ ConsumerCrash(r)
    PROVE  InStep'
<1>1. UNCHANGED <<lead, jobs, send>>
    BY DEF ReplyClaim, ReplyIgnored, ReplyLoad, ReplyReadAgain, ReplyFlush, ConsumerCrash,
           ReplyUnchanged, tables
<1> DEFINE p == reply[r]
           q == reply'[r]
<1>2. ConsumerFits(p) /\ p \in Replies /\ ReplyTyped(p)
    BY DEF InStep, ConsumersFit, Typed, TypeOK, RepliesTyped
<1>3. CASE ReplyClaim(r)
    <2>1. /\ Consumes(r) /\ p.phase = "idle" /\ q.phase = "claimed"
          /\ q.rows = p.rows /\ q.cancels = p.cancels
        BY <1>3, ReplyClaimEffect
    <2> HIDE DEF p, q
    <2>2. \A k \in Leads : q.rows[k] = NoRow
        BY <1>2, <2>1 DEF ConsumerFits
    <2>3. q.cancels = {}
        <3>1. ASSUME NEW j \in q.cancels PROVE FALSE
            <4>1. j \in DOMAIN jobs /\ p.rows[jobs[j].lead] # NoRow
                BY <1>2, <2>1 DEF ConsumerFits
            <4> QED  BY <2>1, <2>2, <4>1, TypedLead
        <3> QED  BY <3>1
    <2>4. ConsumerFits(q)
        BY <2>1, <2>2, <2>3 DEF ConsumerFits
    <2> QED  BY <1>1, <2>1, <2>4, ConsumerInStep DEF q
<1>4. CASE ReplyIgnored(r)
    <2>1. /\ Consumes(r)
          /\ \A f \in {"phase", "batch", "lead", "new", "seen", "rows", "cancels"} : q[f] = p[f]
        BY <1>4, ReplyIgnoredEffect
    <2> HIDE DEF p, q
    <2>2. /\ q.phase = p.phase /\ q.lead = p.lead /\ q.new = p.new /\ q.seen = p.seen
          /\ q.rows = p.rows /\ q.cancels = p.cancels
        BY <2>1
    <2>3. ConsumerFits(q)
        BY <1>2, <2>2 DEF ConsumerFits
    <2> QED  BY <1>1, <2>1, <2>3, ConsumerInStep DEF q
<1>5. CASE ReplyLoad(r)
    <2>1. /\ Consumes(r) /\ p.phase = "claimed" /\ q.phase = "loaded"
          /\ q.rows = p.rows /\ q.cancels = p.cancels
        BY <1>5, ReplyLoadEffect
    <2>2. PICK e \in Unprocessed :
              /\ q.lead \in LeadsOf(events[e].mail)
              /\ StopsOnReply(RowFor(r, q.lead))
              /\ q.new = StopOnReply(RowFor(r, q.lead), events[e].intent)
        BY <1>5, ReplyLoadEffect
    <2>3. q.lead \in Leads
        BY <2>2, TypedLead DEF LeadsOf
    <2>4. events[e].intent \in Intents
        <3>1. events \in Seq(Events) /\ e \in DOMAIN events
            BY DEF Typed, TypeOK, Unprocessed
        <3>2. events[e] \in Events
            BY <3>1, ElementOfSeq, LenProperties
        <3> QED  BY <3>2, SendingAssumption DEF Events
    <2>5. p.rows[q.lead] = NoRow /\ RowFor(r, q.lead) = lead[q.lead]
        <3>1. ASSUME p.rows[q.lead] # NoRow PROVE FALSE
            <4>1. IsStopped(p.rows[q.lead])
                BY <1>2, <2>3, <3>1 DEF ConsumerFits, Stops
            <4> QED  BY <2>2, <3>1, <4>1 DEF RowFor, StopsOnReply
        <3> QED  BY <3>1 DEF RowFor
    <2>6. lead[q.lead].state \in Replyable
        BY <2>2, <2>5 DEF StopsOnReply
    <2>7. PICK l \in Leads : l = q.lead
        BY <2>3
    <2>8. /\ Stops(q.new) /\ Behind(q.lead, q.new) /\ Answers(q.lead)
          /\ lead[q.lead].steps_sent > 0
        BY <2>2, <2>4, <2>5, <2>6, <2>7, FirstReply
    <2> HIDE DEF p, q
    <2>9. ConsumerFits(q)
        BY <1>2, <2>1, <2>5, <2>8 DEF ConsumerFits
    <2> QED  BY <1>1, <2>1, <2>9, ConsumerInStep DEF q
<1>6. CASE ReplyReadAgain(r)
    <2>1. /\ Consumes(r) /\ p.phase = "loaded" /\ q.phase = "read"
          /\ q.seen = RowFor(r, p.lead)
          /\ \A f \in {"batch", "todo", "lead", "new", "rows", "cancels"} : q[f] = p[f]
        BY <1>6, ReplyReadAgainEffect
    <2>2. q.lead = p.lead /\ q.new = p.new /\ q.rows = p.rows /\ q.cancels = p.cancels
        BY <2>1
    <2>3. q.seen = lead[q.lead] /\ RowSound(lead[q.lead])
        <3>1. p.rows[p.lead] = NoRow /\ p.lead \in Leads
            BY <1>2, <2>1 DEF ConsumerFits, ReplyTyped
        <3> QED  BY <2>1, <2>2, <3>1 DEF RowFor, InStep, RowsSound
    <2> HIDE DEF p, q
    <2>4. \/ q.seen.state = "sent" /\ Plain(q.seen)
          \/ q.seen = lead[q.lead] /\ q.seen.state # "sent"
        BY <2>3 DEF RowSound, Sendable
    <2>5. ConsumerFits(q)
        BY <1>2, <2>1, <2>2, <2>4 DEF ConsumerFits
    <2> QED  BY <1>1, <2>1, <2>5, ConsumerInStep DEF q
<1>7. CASE ReplyFlush(r)
    <2> DEFINE out == Written(RowFor(r, p.lead), p.seen, p.new)
    <2>1. /\ Consumes(r) /\ p.phase = "read" /\ q.phase = "claimed"
          /\ p.lead \in Leads /\ out \in LeadRows
          /\ \A k \in Leads : q.rows[k] = IF k = p.lead THEN out ELSE p.rows[k]
          /\ q.cancels = p.cancels \cup PendingJobs(p.lead)
        BY <1>7, ReplyFlushEffect
    <2>2. PICK l \in Leads : l = p.lead
        BY <2>1
    <2>3. /\ RowFor(r, l) = lead[l] /\ lead[l] \in LeadRows /\ p.new \in LeadRows
          /\ Stops(p.new) /\ Behind(l, p.new) /\ Answers(l) /\ lead[l].steps_sent > 0
          /\ \/ p.seen.state = "sent" /\ Plain(p.seen)
             \/ p.seen = lead[l]
        <3>1. p.rows[l] = NoRow /\ lead[l] \in Rows /\ Added(l) /\ p.new \in LeadRows
            BY <1>2, <2>1, <2>2 DEF ConsumerFits, ReplyTyped, Typed, TypeOK
        <3> QED  BY <1>2, <2>1, <2>2, <3>1, RowOrNone DEF RowFor, ConsumerFits, Added
    <2>4. out = Written(lead[l], p.seen, p.new)
        BY <2>2, <2>3
    <2>5. Stops(out) /\ out.steps_sent \in {lead[l].steps_sent, p.new.steps_sent}
        BY <2>3, <2>4, StoppedRow
    <2> HIDE DEF out
    <2>6. Behind(l, out)
        <3> SUFFICES ASSUME NEW j \in DOMAIN jobs, jobs[j].lead = l, Live(j)
                     PROVE  out.steps_sent < jobs[j].position /\ jobs[j].position # 1
            BY DEF Behind
        <3>1. p.new.steps_sent < jobs[j].position /\ jobs[j].position # 1
            BY <2>3 DEF Behind
        <3>2. lead[l].steps_sent < jobs[j].position
            BY DEF InStep, JobsFit, RowWaits
        <3> QED  BY <2>5, <3>1, <3>2
    <2> HIDE DEF p, q
    <2>7. \A k \in Leads : q.rows[k] # NoRow =>
              q.phase # "idle" /\ Stops(q.rows[k]) /\ Behind(k, q.rows[k]) /\ Answers(k)
        BY <1>2, <2>1, <2>2, <2>3, <2>5, <2>6 DEF ConsumerFits
    <2>8. \A j \in q.cancels :
              j \in DOMAIN jobs /\ jobs[j].status = "pending" /\ q.rows[jobs[j].lead] # NoRow
        <3> SUFFICES ASSUME NEW j \in q.cancels
                     PROVE  /\ j \in DOMAIN jobs /\ jobs[j].status = "pending"
                            /\ q.rows[jobs[j].lead] # NoRow
            OBVIOUS
        <3>1. out # NoRow
            BY <2>1, RowOrNone
        <3>2. CASE j \in p.cancels
            <4>1. /\ j \in DOMAIN jobs /\ jobs[j].status = "pending"
                  /\ p.rows[jobs[j].lead] # NoRow
                BY <1>2, <3>2 DEF ConsumerFits
            <4>2. jobs[j].lead \in Leads
                BY <4>1, TypedLead
            <4> QED  BY <2>1, <3>1, <4>1, <4>2
        <3>3. CASE j \in PendingJobs(p.lead)
            BY <2>1, <3>1, <3>3 DEF PendingJobs
        <3> QED  BY <2>1, <3>2, <3>3
    <2>9. ConsumerFits(q)
        BY <2>1, <2>7, <2>8 DEF ConsumerFits
    <2> QED  BY <1>1, <2>1, <2>9, ConsumerInStep DEF q
<1>8. CASE ConsumerCrash(r)
    <2>1. Consumes(r) /\ reply'[r] = IdleReply
        BY <1>8 DEF ConsumerCrash, Consumes, Typed, TypeOK
    <2> QED  BY <1>1, <2>1, IdleFits, ConsumerInStep
<1> QED  BY <1>3, <1>4, <1>5, <1>6, <1>7, <1>8

\* The batch commits.
LEMMA CommitInStep ==
    ASSUME Typed, OneFeed, Alone, InStep, NEW r \in Consumers, ReplyCommit(r)
    PROVE  InStep'
<1> DEFINE p == reply[r]
<1>1. /\ lead' = [l \in Leads |-> RowFor(r, l)]
      /\ jobs' = [j \in DOMAIN jobs |->
             IF j \in p.cancels THEN [jobs[j] EXCEPT !.status = "cancelled"] ELSE jobs[j]]
      /\ reply' = [reply EXCEPT ![r] = IdleReply] /\ send' = send
    BY DEF ReplyCommit, ReplyUnchanged
<1>2. ConsumerFits(p)
    BY DEF InStep, ConsumersFit
<1>3. \A l \in Leads : lead'[l] = IF p.rows[l] # NoRow THEN p.rows[l] ELSE lead[l]
    BY <1>1 DEF RowFor
<1>4. /\ DOMAIN jobs' = DOMAIN jobs
      /\ \A j \in DOMAIN jobs :
            /\ jobs'[j].lead = jobs[j].lead /\ jobs'[j].position = jobs[j].position
            /\ j \in p.cancels => jobs'[j].status = "cancelled"
            /\ j \notin p.cancels => jobs'[j] = jobs[j]
    BY <1>1, TypedLead DEF Jobs
<1>5. \A q \in Consumers : reply'[q] = IdleReply
    <2>1. reply'[r] = IdleReply
        BY <1>1 DEF Typed, TypeOK
    <2> QED  BY <2>1 DEF OneFeed
<1> HIDE DEF p
<1>6. \A j \in DOMAIN jobs : Live(j)' <=> Live(j) /\ j \notin p.cancels
    <2> SUFFICES ASSUME NEW j \in DOMAIN jobs PROVE Live(j)' <=> Live(j) /\ j \notin p.cancels
        OBVIOUS
    <2>1. CASE j \in p.cancels
        BY <1>4, <2>1 DEF Live
    <2>2. CASE j \notin p.cancels
        BY <1>4, <2>2 DEF Live
    <2> QED  BY <2>1, <2>2
<1>7. \A l \in Leads : p.rows[l] # NoRow =>
          /\ RowSound(lead'[l]) /\ lead'[l].state \in {"paused", "failed"}
          /\ Behind(l, lead'[l]) /\ Answers(l)
    BY <1>2, <1>3, StopsSound DEF ConsumerFits
<1>8. OneLiveJob'
    BY <1>4, <1>6 DEF InStep, OneLiveJob
<1>9. RowsSound'
    BY <1>3, <1>7 DEF InStep, RowsSound
<1>10. JobsFit'
    <2> SUFFICES ASSUME NEW j \in DOMAIN jobs, Live(j)
                 PROVE  RowWaits(jobs[j].position, lead'[jobs[j].lead])
        BY <1>4, <1>6 DEF JobsFit
    <2>1. jobs[j].lead \in Leads
        BY TypedLead
    <2>2. CASE p.rows[jobs[j].lead] = NoRow
        BY <1>3, <2>1, <2>2 DEF InStep, JobsFit
    <2>3. CASE p.rows[jobs[j].lead] # NoRow
        BY <1>7, <2>1, <2>3 DEF Behind, RowWaits, Sendable
    <2> QED  BY <2>2, <2>3
<1>11. Queued'
    <2> SUFFICES ASSUME NEW l \in Leads, lead'[l].state \in Sendable PROVE ~NoLive(l)'
        BY DEF Queued
    <2>1. p.rows[l] = NoRow /\ lead'[l] = lead[l]
        BY <1>3, <1>7 DEF Sendable
    <2>2. PICK j \in DOMAIN jobs : jobs[j].lead = l /\ Live(j)
        BY <2>1 DEF InStep, Queued, NoLive
    <2>3. j \notin p.cancels
        BY <1>2, <2>1, <2>2 DEF ConsumerFits
    <2> QED  BY <1>4, <1>6, <2>2, <2>3 DEF NoLive
<1>12. SlotsFit'
    <2> SUFFICES ASSUME NEW w \in Workers PROVE SlotFits(send[w])'
        BY DEF SlotsFit
    <2>1. SlotFits(send[w])
        BY DEF InStep, SlotsFit
    <2>2. CASE ~Begun(send[w])
        <3>1. send[w].phase # "ineligible"
            BY <2>2 DEF Begun
        <3> QED  BY <1>1, <2>1, <2>2, <3>1 DEF SlotFits, Begun
    <2>3. CASE Begun(send[w])
        <3>1. /\ send[w].job \in DOMAIN jobs /\ Live(send[w].job)
              /\ JobOf(w).lead \in Leads
            BY <2>3, SlotHasJob, TypedLead DEF JobOf
        <3>2. send[w].job \notin p.cancels
            <4>1. jobs[send[w].job].status = "running"
                BY <2>3 DEF Alone
            <4> QED  BY <1>2, <4>1 DEF ConsumerFits
        <3>3. jobs'[send[w].job] = JobOf(w)
            BY <1>4, <3>1, <3>2 DEF JobOf
        <3>4. CASE p.rows[JobOf(w).lead] = NoRow
            <4>1. lead'[JobOf(w).lead] = lead[JobOf(w).lead]
                BY <1>3, <3>1, <3>4
            <4> QED  BY <1>1, <2>1, <3>3, <4>1 DEF SlotFits, JobOf, Begun
        <3>5. CASE p.rows[JobOf(w).lead] # NoRow
            <4>1. lead'[JobOf(w).lead].state \notin Sendable
                BY <1>7, <3>1, <3>5 DEF Sendable
            <4>2. ~IsStopped(lead[JobOf(w).lead])
                <5>1. ~NoLive(JobOf(w).lead)
                    BY <3>1 DEF NoLive, JobOf
                <5> QED  BY <1>7, <3>1, <3>5, <5>1 DEF Answers, IsStopped
            <4>3. send[w].phase # "ineligible" =>
                      CopiesFit(JobOf(w).position, lead'[JobOf(w).lead], send[w].snap, send[w].seen)
                BY <2>1, <2>3, <4>2 DEF SlotFits, CopiesFit, JobOf
            <4> QED  BY <1>1, <2>1, <3>3, <4>1, <4>3 DEF SlotFits, Begun
        <3> QED  BY <3>4, <3>5
    <2> QED  BY <2>2, <2>3
<1>13. ConsumersFit'
    BY <1>5 DEF ConsumersFit, ConsumerFits, IdleReply, NothingSeen
<1> QED  BY <1>8, <1>9, <1>10, <1>11, <1>12, <1>13 DEF InStep

-----------------------------------------------------------------------------
(* All steps.                                                              *)

LEMMA SameInStep ==
    ASSUME InStep, UNCHANGED <<lead, jobs, reply, send>>
    PROVE  InStep'
<1>1. SlotsFit'
    BY DEF InStep, SlotsFit, SlotFits
<1> QED  BY <1>1, SlotsInStep

LEMMA InStepInitially == Init => Alone /\ InStep
<1> SUFFICES ASSUME Init PROVE Alone /\ InStep
    OBVIOUS
<1>1. /\ DOMAIN jobs = {} /\ lead = [l \in Leads |-> NoRow]
      /\ \A w \in Workers : send[w].phase = "idle"
      /\ \A r \in Consumers : reply[r] = IdleReply
    BY EmptySeq DEF Init, IdleSend
<1>2. Alone
    BY <1>1 DEF Alone, Begun
<1>3. OneLiveJob /\ RowsSound /\ JobsFit
    BY <1>1, NewRows DEF OneLiveJob, RowsSound, JobsFit
<1>4. Queued
    <2>1. NoRow.state \notin Sendable
        BY DEF NoRow, Null, Sendable
    <2> QED  BY <1>1, <2>1 DEF Queued
<1>5. SlotsFit
    BY <1>1 DEF SlotsFit, SlotFits, Begun
<1>6. ConsumersFit
    BY <1>1, IdleFits DEF ConsumersFit
<1> QED  BY <1>2, <1>3, <1>4, <1>5, <1>6 DEF InStep

LEMMA InStepStep ==
    OneAtATime /\ OneFeed /\ Orderly /\ Orderly' /\ Alone /\ Alone' /\ InStep /\ [Next]_vars
        => InStep'
<1> SUFFICES ASSUME OneAtATime, OneFeed, Orderly, Orderly', Alone, Alone', InStep, [Next]_vars
             PROVE  InStep'
    OBVIOUS
<1>1. Typed /\ Typed' /\ OneFirstJob'
    BY DEF Orderly
<1>2. CASE ClientNext
    <2>1. PICK c \in Clients :
              \/ AddLeadsRead(c) \/ AddLeadsConflict(c) \/ StartRead(c) \/ StartList(c)
              \/ StartFlush(c) \/ AddLeadsCommit(c) \/ StartCommit(c)
        BY <1>2 DEF ClientNext
    <2>2. CASE \/ AddLeadsRead(c) \/ AddLeadsConflict(c) \/ StartRead(c) \/ StartList(c)
               \/ StartFlush(c)
        <3>1. UNCHANGED <<lead, jobs, reply, send>>
            BY <2>2 DEF AddLeadsRead, AddLeadsConflict, StartRead, StartList, StartFlush,
                        RequestUnchanged
        <3> QED  BY <3>1, SameInStep
    <2> QED  BY <1>1, <2>1, <2>2, AddLeadsInStep, StartInStep
<1>3. CASE ClaimNext
    BY <1>1, <1>3, ClaimInStep DEF ClaimNext
<1>4. CASE ProcessNext
    BY <1>1, <1>4, LoadInStep, SlotStepsInStep, SentInStep, FinishStepsInStep DEF ProcessNext
<1>5. CASE CrashNext
    BY <1>5, CrashInStep
<1>6. CASE PollNext \/ NextDay \/ UNCHANGED vars
    <2>1. UNCHANGED <<lead, jobs, reply, send>>
        BY <1>6 DEF PollNext, Answer, NextDay, vars, tables
    <2> QED  BY <2>1, SameInStep
<1>7. CASE ReplyNext
    BY <1>1, <1>7, ReplyStepsInStep, CommitInStep DEF ReplyNext
<1> QED  BY <1>2, <1>3, <1>4, <1>5, <1>6, <1>7 DEF Next

\* Where every slot takes the row lock, its transaction has the job alone.
LEMMA AloneKept ==
    ASSUME Alone,
           \A w \in Workers : Begun(send'[w]) =>
               /\ Begun(send[w]) /\ send'[w].job = send[w].job
               /\ jobs'[send[w].job].status = jobs[send[w].job].status
    PROVE  Alone'
BY DEF Alone, Begun

LEMMA AloneStep ==
    LockingWorkers = Workers /\ Typed /\ Typed' /\ Alone /\ InStep /\ [Next]_vars => Alone'
<1> SUFFICES ASSUME LockingWorkers = Workers, Typed, Typed', Alone, InStep, [Next]_vars
             PROVE  Alone'
    OBVIOUS
<1>1. \A w \in Workers : Begun(send[w]) =>
          send[w].job \in DOMAIN jobs /\ jobs[send[w].job].status = "running"
    BY DEF Typed, SlotsTyped, SlotTyped, Begun, Alone
<1>2. ASSUME send' = send, \A j \in DOMAIN jobs : jobs[j].status = "running" => jobs'[j] = jobs[j]
      PROVE  Alone'
    BY <1>1, <1>2, AloneKept
<1>3. CASE ClientNext
    <2>1. PICK c \in Clients :
              \/ AddLeadsRead(c) \/ AddLeadsConflict(c) \/ StartRead(c) \/ StartList(c)
              \/ StartFlush(c) \/ AddLeadsCommit(c) \/ StartCommit(c)
        BY <1>3 DEF ClientNext
    <2>2. send' = send
        BY <2>1 DEF AddLeadsRead, AddLeadsConflict, StartRead, StartList, StartFlush,
                    AddLeadsCommit, StartCommit, AddRows, RequestUnchanged
    <2>3. \E L \in SUBSET Leads : jobs' = jobs \/ jobs' = jobs \o FirstJobs(L)
        <3>1. request[c].leads \in SUBSET Leads
            BY DEF Typed, TypeOK, Requests
        <3>2. jobs' = jobs \/ jobs' = jobs \o FirstJobs(request[c].leads)
            BY <2>1 DEF AddLeadsRead, AddLeadsConflict, StartRead, StartList, StartFlush,
                        AddLeadsCommit, StartCommit, AddRows
        <3> QED  BY <3>1, <3>2
    <2>4. \A j \in DOMAIN jobs : jobs'[j] = jobs[j]
        <3>1. jobs \in Seq(Jobs)
            BY DEF Typed, TypeOK
        <3> QED  BY <2>3, <3>1, JobsAdded
    <2> QED  BY <1>2, <2>2, <2>4
<1>4. CASE ClaimNext
    <2>1. PICK S \in SUBSET Workers : \E b \in [S -> DOMAIN jobs] : Claim(b)
        BY <1>4 DEF ClaimNext
    <2>2. PICK batch \in [S -> DOMAIN jobs] : Claim(batch)
        BY <2>1
    <2> DEFINE J == {batch[w] : w \in DOMAIN batch}
    <2>3. /\ jobs' = [j \in DOMAIN jobs |->
                IF j \in J THEN [jobs[j] EXCEPT !.status = "running", !.attempts = @ + 1]
                ELSE jobs[j]]
          /\ \A j \in J : ~RowLocked(j)
        BY <2>2 DEF Claim, ClaimJobs, Claimable
    <2>4. \A w \in Workers : send'[w] = send[w] \/ send'[w].phase = "claimed"
        BY <2>2 DEF Claim, ClaimJobs, IdleSend
    <2> HIDE DEF J
    <2>5. \A w \in Workers : Begun(send[w]) => jobs'[send[w].job] = jobs[send[w].job]
        <3>1. \A w \in Workers : Begun(send[w]) => send[w].job \notin J
            BY <2>3 DEF RowLocked, Begun
        <3> QED  BY <1>1, <2>3, <3>1
    <2> QED  BY <2>4, <2>5, AloneKept DEF Begun
<1>5. CASE ProcessNext
    <2>1. PICK w \in Workers :
              \/ Load(w)
              \/ NotClaimed(w) \/ CheckSuppression(w) \/ TakeMailbox(w) \/ ProviderAccepts(w)
              \/ AnswerLost(w) \/ DispatchFails(w) \/ ReadAgain(w)
              \/ FinishSent(w) \/ FinishSuppressed(w) \/ FinishFailed(w) \/ FinishDeferred(w)
              \/ FinishIneligible(w)
        BY <1>5 DEF ProcessNext
    <2>2. send \in [Workers -> Sends] /\ send[w] \in Sends
        BY DEF Typed, TypeOK
    <2>3. CASE Load(w)
        <3>1. /\ jobs' = jobs /\ \A v \in Workers : v # w => send'[v] = send[v]
              /\ send'[w].job = send[w].job
            BY <2>2, <2>3 DEF Load, tables, Sends
        <3>2. jobs[send[w].job].status = "running" /\ ~RowLocked(send[w].job)
            BY <2>3 DEF Load
        <3>3. \A v \in Workers : Begun(send[v]) => send[v].job # send[w].job
            BY <3>2 DEF RowLocked, Begun
        <3> QED  BY <3>1, <3>2, <3>3 DEF Alone, Begun
    <2>4. CASE \/ NotClaimed(w) \/ CheckSuppression(w) \/ TakeMailbox(w) \/ ProviderAccepts(w)
               \/ AnswerLost(w) \/ DispatchFails(w) \/ ReadAgain(w)
        <3>1. jobs' = jobs
            BY <2>4 DEF NotClaimed, CheckSuppression, TakeMailbox, ProviderAccepts, AnswerLost,
                        DispatchFails, ReadAgain, Deliver, tables
        <3>2. /\ \A v \in Workers : v # w => send'[v] = send[v]
              /\ \/ send'[w] = IdleSend
                 \/ Begun(send[w]) /\ send'[w].job = send[w].job
            <4>1. CASE NotClaimed(w)
                BY <2>2, <4>1 DEF NotClaimed
            <4>2. CASE CheckSuppression(w)
                BY <2>2, <4>2 DEF CheckSuppression, Move, Sends, Begun
            <4>3. CASE TakeMailbox(w)
                BY <2>2, <4>3 DEF TakeMailbox, Sends, Begun
            <4>4. CASE ProviderAccepts(w)
                BY <2>2, <4>4 DEF ProviderAccepts, Sends, Begun
            <4>5. CASE AnswerLost(w)
                BY <2>2, <4>5 DEF AnswerLost, Sends, Begun
            <4>6. CASE DispatchFails(w)
                BY <2>2, <4>6 DEF DispatchFails, Sends, Begun
            <4>7. CASE ReadAgain(w)
                BY <2>2, <4>7 DEF ReadAgain, WritesLead, Sends, Begun
            <4> QED  BY <2>4, <4>1, <4>2, <4>3, <4>4, <4>5, <4>6, <4>7
        <3>3. ~Begun(IdleSend)
            BY DEF Begun, IdleSend
        <3> QED  BY <3>1, <3>2, <3>3, AloneKept
    <2>5. CASE \/ FinishSent(w) \/ FinishSuppressed(w) \/ FinishFailed(w) \/ FinishDeferred(w)
               \/ FinishIneligible(w)
        <3>1. /\ send' = [send EXCEPT ![w] = IdleSend] /\ send[w].phase \in Outcomes
            BY <2>5 DEF FinishSent, FinishSuppressed, FinishFailed, FinishDeferred,
                        FinishIneligible, Finish, Outcomes
        <3>2. \A j \in DOMAIN jobs : j # send[w].job => jobs'[j] = jobs[j]
            <4>1. CASE FinishSent(w)
                <5> DEFINE j == send[w].job
                           done == [jobs EXCEPT ![j].status = "done", ![j].outbound = send[w].msg]
                           next == Append(done, NewJob(jobs[j].lead, jobs[j].position + 1))
                <5>1. /\ jobs' = IF IsLastStep(jobs[j].position) THEN done ELSE next
                      /\ send[w].phase = "accepted"
                    BY <4>1 DEF FinishSent, Finish
                <5>2. /\ \A i \in DOMAIN jobs : i # j => done[i] = jobs[i]
                      /\ ~IsLastStep(jobs[j].position) => \A i \in DOMAIN jobs : next[i] = done[i]
                    BY <5>1, DoneJobs
                <5> HIDE DEF done, next
                <5> QED  BY <5>1, <5>2
            <4>2. CASE FinishDeferred(w)
                <5>1. jobs' = [jobs EXCEPT ![send[w].job].status = "pending",
                                           ![send[w].job].attempts = @ - 1]
                    BY <4>2 DEF FinishDeferred, Finish
                <5> QED  BY <3>1, <5>1, ReleasedJobs
            <4>3. CASE FinishSuppressed(w) \/ FinishFailed(w) \/ FinishIneligible(w)
                <5>1. PICK x \in {"pending", "failed", "cancelled"} : jobs' = Set(w, x)
                    BY <4>3 DEF FinishSuppressed, FinishFailed, FinishIneligible, Finish
                <5>2. x \in JobStatuses
                    BY DEF JobStatuses
                <5> QED  BY <3>1, <5>1, <5>2, StatusJobs
            <4> QED  BY <2>5, <4>1, <4>2, <4>3
        <3>3. /\ \A v \in Workers : v # w => send'[v] = send[v]
              /\ ~Begun(send'[w]) /\ Begun(send[w])
            BY <2>2, <3>1 DEF Begun, IdleSend, Outcomes
        <3>4. \A v \in Workers : v # w /\ Begun(send[v]) => send[v].job # send[w].job
            BY <3>3 DEF Alone
        <3>5. \A v \in Workers : v # w /\ Begun(send[v]) => jobs'[send[v].job] = jobs[send[v].job]
            BY <1>1, <3>2, <3>4
        <3> QED  BY <3>3, <3>5, AloneKept
    <2> QED  BY <2>1, <2>3, <2>4, <2>5
<1>6. CASE CrashNext
    <2>1. jobs' = jobs /\ \A w \in Workers : send'[w] = send[w] \/ send'[w] = IdleSend
        BY <1>6 DEF CrashNext, WorkersCrash, tables
    <2>2. ~Begun(IdleSend)
        BY DEF Begun, IdleSend
    <2> QED  BY <2>1, <2>2, AloneKept
<1>7. CASE PollNext \/ NextDay \/ UNCHANGED vars
    <2>1. UNCHANGED <<jobs, send>>
        BY <1>7 DEF PollNext, Answer, NextDay, vars, tables
    <2> QED  BY <1>2, <2>1
<1>8. CASE ReplyNext
    <2>1. PICK r \in Consumers :
              \/ ReplyClaim(r) \/ ReplyIgnored(r) \/ ReplyLoad(r) \/ ReplyReadAgain(r)
              \/ ReplyFlush(r) \/ ConsumerCrash(r) \/ ReplyCommit(r)
        BY <1>8 DEF ReplyNext
    <2>2. CASE ReplyCommit(r)
        <3>1. /\ send' = send
              /\ jobs' = [j \in DOMAIN jobs |->
                     IF j \in reply[r].cancels THEN [jobs[j] EXCEPT !.status = "cancelled"]
                     ELSE jobs[j]]
            BY <2>2 DEF ReplyCommit, ReplyUnchanged
        <3>2. \A j \in reply[r].cancels : jobs[j].status = "pending"
            BY DEF InStep, ConsumersFit, ConsumerFits
        <3> QED  BY <1>2, <3>1, <3>2
    <2>3. CASE ~ReplyCommit(r)
        <3>1. UNCHANGED <<jobs, send>>
            BY <2>1, <2>3 DEF ReplyClaim, ReplyIgnored, ReplyLoad, ReplyReadAgain, ReplyFlush,
                              ConsumerCrash, ReplyUnchanged, tables
        <3> QED  BY <1>2, <3>1
    <2> QED  BY <2>2, <2>3
<1> QED  BY <1>3, <1>4, <1>5, <1>6, <1>7, <1>8 DEF Next

\* So, where jobs are locked, leads and jobs keep in step.
THEOREM InStepAlways ==
    OneAtATime /\ OneFeed /\ LockingWorkers = Workers => (Spec => [](Alone /\ InStep))
<1>1. ASSUME OneAtATime, OneFeed, LockingWorkers = Workers PROVE Spec => [](Alone /\ InStep)
    <2>1. Orderly => Typed
        BY DEF Orderly
    <2>2. Orderly /\ Orderly' /\ Alone /\ InStep /\ [Next]_vars => Alone' /\ InStep'
        BY <1>1, <2>1, AloneStep, InStepStep, PTL
    <2>3. Spec => []Orderly
        BY <1>1, OrderlyAlways
    <2> QED  BY <2>2, <2>3, InStepInitially, PTL DEF Spec
<1> QED  BY <1>1

\* The job that is queued for a lead is for its next step.
LEMMA NextJobQueued == InStep /\ Typed => NoStrandedLead
<1> SUFFICES ASSUME InStep, Typed, NEW l \in Leads, lead[l].state \in Sendable
             PROVE  \E j \in DOMAIN jobs : /\ jobs[j].lead = l
                                           /\ jobs[j].position = lead[l].steps_sent + 1
                                           /\ jobs[j].status \in {"pending", "running"}
    BY DEF NoStrandedLead
<1>1. PICK j \in DOMAIN jobs : jobs[j].lead = l /\ Live(j)
    BY DEF InStep, Queued, NoLive
<1>2. lead[l].steps_sent = jobs[j].position - 1
    BY <1>1 DEF InStep, JobsFit, RowWaits
<1>3. jobs[j].position \in Int
    BY TypedLead, DomainAssumption
<1> QED  BY <1>1, <1>2, <1>3 DEF Live

\* No lead is stranded: while requests do not overlap, one consumer is at work
\* and every job is worked on under its row lock, a lead that may be sent to has
\* its next job queued or in hand, whatever copies its row is written from.
THEOREM NotStranded ==
    OneAtATime /\ OneFeed /\ LockingWorkers = Workers => (Spec => []NoStrandedLead)
<1>1. ASSUME OneAtATime, OneFeed, LockingWorkers = Workers PROVE Spec => []NoStrandedLead
    BY <1>1, InStepAlways, NextJobQueued, TypedAlways, PTL
<1> QED  BY <1>1

-----------------------------------------------------------------------------
(* Sums of counts.                                                         *)

LEMMA DisjointSizes ==
    \A B, C, D : IsFiniteSet(B) /\ IsFiniteSet(C) /\ D = B \cup C /\ B \cap C = {}
                  => Cardinality(D) = Cardinality(B) + Cardinality(C)
<1> SUFFICES ASSUME NEW B, NEW C, IsFiniteSet(B), IsFiniteSet(C), B \cap C = {}
             PROVE  Cardinality(B \cup C) = Cardinality(B) + Cardinality(C)
    OBVIOUS
<1>1. Cardinality(B \cup C) = Cardinality(B) + Cardinality(C) - Cardinality(B \cap C)
    BY FS_Union
<1>2. Cardinality(B) \in Nat /\ Cardinality(C) \in Nat /\ Cardinality(B \cap C) = 0
    BY FS_CardinalityType, FS_EmptySet
<1> QED  BY <1>1, <1>2

LEMMA LeastSize ==
    ASSUME NEW T, T # {}, \A s \in T : IsFiniteSet(s)
    PROVE  \E s \in T : \A t \in T : Cardinality(s) <= Cardinality(t)
<1> DEFINE N == {Cardinality(s) : s \in T}
           R == OpToRel(<, Nat)
<1>1. N \in SUBSET Nat /\ N # {}
    BY FS_CardinalityType
<1>2. \A x, y \in Nat : <<x, y>> \in R <=> x < y
    BY SMT DEF OpToRel
<1>3. IsWellFoundedOn(R, Nat)
    BY NatLessThanWellFounded
<1> HIDE DEF R, N
<1>4. \E x \in N : \A y \in N : ~(<<y, x>> \in R)
    <2>1. \A P : P \subseteq Nat /\ P # {} => \E x \in P : \A y \in P : ~(<<y, x>> \in R)
        BY <1>3, WFMin, Zenon
    <2>2. N \subseteq Nat
        BY <1>1
    <2> QED  BY <1>1, <2>1, <2>2
<1>5. PICK x \in N : \A y \in N : ~(<<y, x>> \in R)
    BY <1>4
<1>6. \A y \in N : x <= y
    <2> TAKE y \in N
    <2>1. x \in Nat /\ y \in Nat
        BY <1>1, <1>5
    <2>2. ~(y < x)
        BY <1>2, <1>5, <2>1
    <2> QED  BY <2>1, <2>2
<1>7. PICK s \in T : x = Cardinality(s)
    BY DEF N
<1>8. \A t \in T : Cardinality(t) \in N
    BY DEF N
<1> QED  BY <1>6, <1>7, <1>8

\* The value of a sum does not depend on the order in which it is taken.
Pick(s) == CHOOSE x \in s : TRUE

Totalled(f, c, S) ==
    f = [s \in SUBSET S |-> IF s = {} THEN 0 ELSE c[Pick(s)] + f[s \ {Pick(s)}]]

Summed(c, S) == MapThenSumSet(LAMBDA i : c[i], S)

LEMMA SumUnfolds ==
    ASSUME NEW S, NEW c, NEW g, Totalled(g, c, S)
    PROVE  \E f : Totalled(f, c, S) /\ Summed(c, S) = f[S]
<1> DEFINE f == CHOOSE i : Totalled(i, c, S)
<1>1. Totalled(f, c, S)
    OBVIOUS
<1>2. Summed(c, S) = f[S]
    BY DEF Summed, MapThenSumSet, MapThenFoldSet, Pick, Totalled
<1> QED  BY <1>1, <1>2

\* How many have a value in a set is the sum over its members of how many have
\* that value.
Counts(c, K, h, S) == \A i \in S : c[i] = Cardinality({l \in K : h[l] = i})

Having(K, h, S) == {l \in K : h[l] \in S}

LEMMA SumOfCounts ==
    ASSUME NEW K, IsFiniteSet(K), NEW h, NEW S, IsFiniteSet(S), NEW c, Counts(c, K, h, S)
    PROVE  Summed(c, S) = Cardinality(Having(K, h, S))
<1> DEFINE A(s) == {l \in K : h[l] \in s}
           g == [s \in SUBSET S |-> Cardinality(A(s))]
<1>1. \A s : IsFiniteSet(A(s)) /\ Cardinality(A(s)) \in Nat
    <2> TAKE s
    <2>1. A(s) \in SUBSET K
        OBVIOUS
    <2> QED  BY <2>1, FS_Subset, FS_CardinalityType
<1>2. ASSUME NEW s \in SUBSET S
      PROVE  Cardinality(A(s)) = IF s = {} THEN 0 ELSE c[Pick(s)] + Cardinality(A(s \ {Pick(s)}))
    <2>1. CASE s = {}
        <3>1. A(s) = {}
            BY <2>1
        <3> QED  BY <2>1, <3>1, FS_EmptySet
    <2>2. CASE s # {}
        <3> DEFINE x == Pick(s)
        <3>1. x \in s
            BY <2>2 DEF Pick
        <3> HIDE DEF x
        <3>2. /\ A(s) = A({x}) \cup A(s \ {x})
              /\ A({x}) \cap A(s \ {x}) = {}
              /\ A({x}) = {l \in K : h[l] = x}
            BY <3>1
        <3>3. c[x] = Cardinality(A({x}))
            BY <3>1, <3>2 DEF Counts
        <3> HIDE DEF A, g
        <3>5. Cardinality(A(s)) = Cardinality(A({x})) + Cardinality(A(s \ {x}))
            BY <1>1, <3>2, DisjointSizes
        <3> QED  BY <2>2, <3>3, <3>5 DEF x
    <2> QED  BY <2>1, <2>2
<1> HIDE DEF A
<1>3. Totalled(g, c, S)
    <2>1. \A s \in SUBSET S : s \ {Pick(s)} \in SUBSET S
        OBVIOUS
    <2>2. \A s \in SUBSET S :
              g[s] = IF s = {} THEN 0 ELSE c[Pick(s)] + g[s \ {Pick(s)}]
        BY <1>2, <2>1
    <2>3. g = [s \in SUBSET S |-> g[s]]
        OBVIOUS
    <2> HIDE DEF g
    <2> QED  BY <2>2, <2>3 DEF Totalled
<1> HIDE DEF g
<1>4. PICK f : Totalled(f, c, S) /\ Summed(c, S) = f[S]
    BY <1>3, SumUnfolds
<1>5. \A s \in SUBSET S : f[s] = IF s = {} THEN 0 ELSE c[Pick(s)] + f[s \ {Pick(s)}]
    BY <1>4 DEF Totalled
<1> DEFINE bad == {s \in SUBSET S : f[s] # Cardinality(A(s))}
<1>6. bad = {}
    <2> SUFFICES ASSUME bad # {} PROVE FALSE
        OBVIOUS
    <2>1. \A s \in bad : IsFiniteSet(s)
        BY FS_Subset
    <2>2. PICK s \in bad : \A t \in bad : Cardinality(s) <= Cardinality(t)
        BY <2>1, LeastSize
    <2>3. s # {}
        BY <1>2, <1>5, <2>2
    <2> DEFINE t == s \ {Pick(s)}
    <2>4. Pick(s) \in s
        BY <2>3 DEF Pick
    <2>5. Cardinality(t) = Cardinality(s) - 1 /\ Cardinality(s) \in Nat
        BY <2>1, <2>4, FS_RemoveElement, FS_CardinalityType
    <2>6. t \in SUBSET S /\ t \notin bad
        BY <2>2, <2>5
    <2>7. f[t] = Cardinality(A(t))
        BY <2>6
    <2>8. f[s] = Cardinality(A(s))
        BY <1>2, <1>5, <2>2, <2>3, <2>7
    <2> QED  BY <2>2, <2>8
<1>7. f[S] = Cardinality(A(S))
    BY <1>6
<1> QED  BY <1>4, <1>7 DEF A, Having

LEMMA FewIntents == IsFiniteSet(Intents) /\ IsFiniteSet(Intents \ {"bounce"})
<1>1. /\ IsFiniteSet({"positive"} \cup {"negative"}) /\ IsFiniteSet({"ooo"} \cup {"unsubscribe"})
      /\ IsFiniteSet({"unclear"} \cup {"bounce"})
    BY FS_Singleton, FS_Union
<1>2. Intents = (({"positive"} \cup {"negative"}) \cup ({"ooo"} \cup {"unsubscribe"}))
                    \cup ({"unclear"} \cup {"bounce"})
    BY DEF Intents
<1>3. IsFiniteSet(Intents)
    BY <1>1, <1>2, FS_Union
<1>4. Intents \ {"bounce"} \in SUBSET Intents
    OBVIOUS
<1> QED  BY <1>3, <1>4, FS_Subset

\* No lead counts both as a reply and as bounced, and either is contacted.
LEMMA SharesOfContacted == Typed /\ InStep => RatesAreShares
<1> SUFFICES ASSUME Typed, InStep PROVE RatesAreShares
    OBVIOUS
<1> DEFINE replies == {l \in Known : lead[l].reply_intent \in Intents \ {"bounce"}}
           bounces == {l \in Known : lead[l].stop_reason = "bounced"}
           reached == {l \in Known : lead[l].steps_sent > 0}
<1>1. /\ Known \in SUBSET Leads /\ IsFiniteSet(Known)
      /\ \A l \in Known : RowSound(lead[l])
    <2>1. Known \in SUBSET Leads
        BY DEF Known
    <2> QED  BY <2>1, SendingAssumption, FS_Subset DEF InStep, RowsSound
<1>2. IsFiniteSet(replies) /\ IsFiniteSet(bounces) /\ IsFiniteSet(reached)
    <2>1. replies \in SUBSET Known /\ bounces \in SUBSET Known /\ reached \in SUBSET Known
        OBVIOUS
    <2> QED  BY <1>1, <2>1, FS_Subset
<1>3. replies \cap bounces = {} /\ replies \cup bounces \in SUBSET reached
    <2>1. \A i \in Intents : i # Null
        BY DEF Intents, Null
    <2> QED  BY <1>1, <2>1 DEF RowSound, Intents
<1>4. Replied(ReplyCounts) = Cardinality(replies)
    <2>1. Replied(ReplyCounts) = Summed(ReplyCounts, Intents \ {"bounce"})
        BY DEF Replied, Summed
    <2>2. PICK h : h = [l \in Known |-> lead[l].reply_intent]
        OBVIOUS
    <2>3. PICK c : c = ReplyCounts
        OBVIOUS
    <2>4. \A i \in Intents : c[i] = Cardinality({l \in Known : h[l] = i})
        <3>1. \A i : {l \in Known : h[l] = i} = {l \in Known : lead[l].reply_intent = i}
            BY <2>2
        <3>2. \A i \in Intents : c[i] = Cardinality({l \in Known : lead[l].reply_intent = i})
            BY <2>3 DEF ReplyCounts, Count
        <3> QED  BY <3>1, <3>2
    <2>5. IsFiniteSet(Intents \ {"bounce"})
        BY FewIntents
    <2>6. PICK K : K = Known
        OBVIOUS
    <2>7. PICK S : S = Intents \ {"bounce"}
        OBVIOUS
    <2>8. IsFiniteSet(K) /\ IsFiniteSet(S) /\ Counts(c, K, h, S)
        BY <1>1, <2>4, <2>5, <2>6, <2>7 DEF Counts
    <2>9. Summed(c, S) = Cardinality(Having(K, h, S))
        BY <2>8, SumOfCounts
    <2>10. Having(K, h, S) = replies
        BY <2>2, <2>6, <2>7 DEF Having
    <2> QED  BY <2>1, <2>3, <2>7, <2>9, <2>10
<1>5. /\ Metrics.replied = Replied(ReplyCounts)
      /\ Metrics.totals.bounced = Cardinality(bounces)
      /\ Metrics.totals.contacted = Cardinality(reached)
    BY DEF Metrics, Totals, Count
<1> HIDE DEF replies, bounces, reached
<1>6. Cardinality(replies \cup bounces) = Cardinality(replies) + Cardinality(bounces)
    BY <1>2, <1>3, DisjointSizes
<1>7. Cardinality(replies \cup bounces) <= Cardinality(reached)
    BY <1>2, <1>3, FS_Subset
<1> QED  BY <1>4, <1>5, <1>6, <1>7 DEF RatesAreShares

\* The rates that a report gives are shares of the leads that were contacted,
\* on the same terms: the columns behind them come from different transactions,
\* and no stale copy makes a lead count twice, or as never contacted.
THEOREM RatesHold ==
    OneAtATime /\ OneFeed /\ LockingWorkers = Workers => (Spec => []RatesAreShares)
<1>1. ASSUME OneAtATime, OneFeed, LockingWorkers = Workers PROVE Spec => []RatesAreShares
    BY <1>1, InStepAlways, SharesOfContacted, TypedAlways, PTL
<1> QED  BY <1>1

=============================================================================
