----------------------- MODULE CampaignSending_types -----------------------
(***************************************************************************)
(* Type correctness of CampaignSending, for every value of its constants.  *)
(*                                                                         *)
(* TypeOK is not inductive by itself: a transaction indexes jobs, events   *)
(* and mail with what it holds, and writes a lead row back over one it has *)
(* read before.  Typed adds that these indices stay in range (nothing is   *)
(* ever deleted) and that whoever holds a lead holds one that exists.      *)
(***************************************************************************)
EXTENDS CampaignSending, FiniteSetTheorems, SequenceTheorems, TLAPS

\* The lead of every job has been added.
JobsTyped == \A j \in DOMAIN jobs : Added(jobs[j].lead)

SlotTyped(s) ==
    /\ s.phase # "idle" => s.job \in DOMAIN jobs
    /\ s.phase \notin {"idle", "claimed"} => s.snap \in LeadRows
    /\ s.phase = "accepted" => s.msg \in DOMAIN mail

SlotsTyped == \A w \in Workers : SlotTyped(send[w])

ReplyTyped(p) ==
    /\ p.batch \subseteq DOMAIN events
    /\ p.phase \in {"loaded", "read"} =>
          p.lead \in Leads /\ Added(p.lead) /\ p.new \in LeadRows

RepliesTyped == \A r \in Consumers : ReplyTyped(reply[r])

RequestTyped(q) == q.phase \in {"listed", "flushed"} => \A l \in q.leads : Added(l)

RequestsTyped == \A c \in Clients : RequestTyped(request[c])

Typed == TypeOK /\ JobsTyped /\ SlotsTyped /\ RepliesTyped /\ RequestsTyped

-----------------------------------------------------------------------------
(* Lead rows.                                                              *)

\* NoRow is no lead row.
LEMMA RowOrNone ==
    /\ NoRow \notin LeadRows
    /\ \A row \in Rows : row # NoRow <=> row \in LeadRows
    /\ NoRow \in Rows
    /\ \A row \in LeadRows : row \in Rows
BY DEF NoRow, LeadRows, LeadStates, Null, Rows

\* The aggregate's operations turn lead rows into lead rows.
LEMMA RowOperations ==
    /\ NewLead \in LeadRows /\ Scheduled(NewLead) \in LeadRows
    /\ \A row \in LeadRows, k \in 1..Steps : RecordSent(row, k) \in LeadRows
    /\ \A row \in LeadRows, i \in Intents : StopOnReply(row, i) \in LeadRows
    /\ \A row \in LeadRows, x \in StopReasons : FailLead(row, x) \in LeadRows
<1>1. NewLead \in LeadRows /\ Scheduled(NewLead) \in LeadRows
    BY DomainAssumption DEF NewLead, Scheduled, LeadRows, LeadStates, Null
<1>2. \A row \in LeadRows, k \in 1..Steps : RecordSent(row, k) \in LeadRows
    <2> SUFFICES ASSUME NEW row \in LeadRows, NEW k \in 1..Steps
                 PROVE  RecordSent(row, k) \in LeadRows
        OBVIOUS
    <2> DEFINE x == IF IsLastStep(k) THEN "done" ELSE "sent"
    <2>1. x \in LeadStates
        BY DEF LeadStates
    <2>2. k \in 0..Steps
        BY DomainAssumption
    <2>3. RecordSent(row, k) = [row EXCEPT !.state = x, !.steps_sent = k]
        BY DEF RecordSent
    <2> HIDE DEF x
    <2> QED  BY <2>1, <2>2, <2>3 DEF LeadRows
<1>3. \A row \in LeadRows, i \in Intents : StopOnReply(row, i) \in LeadRows
    <2> SUFFICES ASSUME NEW row \in LeadRows, NEW i \in Intents
                 PROVE  StopOnReply(row, i) \in LeadRows
        OBVIOUS
    <2>1. ReplyReason(i) \in StopReasons
        BY DEF ReplyReason, StopReasons
    <2> QED  BY <2>1 DEF StopOnReply, LeadRows, LeadStates
<1>4. \A row \in LeadRows, x \in StopReasons : FailLead(row, x) \in LeadRows
    BY DEF FailLead, LeadRows, LeadStates
<1> QED  BY <1>1, <1>2, <1>3, <1>4

\* A row written over another is a row.
LEMMA WrittenRow ==
    ASSUME NEW current \in LeadRows, NEW seen, NEW new \in LeadRows
    PROVE  Written(current, seen, new) \in LeadRows
BY DEF Written, LeadRows

-----------------------------------------------------------------------------
(* Job sequences.                                                          *)

\* Jobs r keep the jobs of q, with their lead and step, and may add others.
Follows(q, r) ==
    /\ r \in Seq(Jobs)
    /\ DOMAIN q \subseteq DOMAIN r
    /\ \A j \in DOMAIN q : r[j].lead = q[j].lead /\ r[j].position = q[j].position

\* The domain and the elements of a sequence of jobs.
LEMMA JobDomain ==
    ASSUME NEW q \in Seq(Jobs)
    PROVE  Len(q) \in Nat /\ DOMAIN q = 1..Len(q) /\ \A j \in DOMAIN q : q[j] \in Jobs
BY LenProperties, ElementOfSeq

\* Jobs that are rewritten one by one.
LEMMA JobsMapped ==
    ASSUME NEW q \in Seq(Jobs), NEW r,
           r = [j \in DOMAIN q |-> r[j]],
           \A j \in DOMAIN q : /\ r[j] \in Jobs
                               /\ r[j].lead = q[j].lead
                               /\ r[j].position = q[j].position
    PROVE  Follows(q, r) /\ DOMAIN r = DOMAIN q
<1>1. Len(q) \in Nat /\ DOMAIN q = 1..Len(q)
    BY JobDomain
<1>2. DOMAIN r = DOMAIN q
    OBVIOUS
<1>3. r \in [1..Len(q) -> Jobs]
    BY <1>1, <1>2
<1>4. r \in Seq(Jobs)
    BY <1>1, <1>3, SeqDef
<1> QED  BY <1>2, <1>4 DEF Follows

\* One job that is rewritten.
LEMMA JobSet ==
    ASSUME NEW q \in Seq(Jobs), NEW k \in DOMAIN q, NEW e \in Jobs,
           e.lead = q[k].lead, e.position = q[k].position
    PROVE  Follows(q, [q EXCEPT ![k] = e]) /\ DOMAIN [q EXCEPT ![k] = e] = DOMAIN q
<1>1. [q EXCEPT ![k] = e] \in Seq(Jobs)
    BY JobDomain, ExceptSeq
<1> QED  BY <1>1 DEF Follows

\* A job that is claimed, released, or set.
LEMMA JobClaimed ==
    ASSUME NEW q \in Jobs
    PROVE  LET e == [q EXCEPT !.status = "running", !.attempts = @ + 1]
           IN  e \in Jobs /\ e.lead = q.lead /\ e.position = q.position
                          /\ e.outbound = q.outbound /\ e.status = "running"
<1> DEFINE n == q.attempts + 1
<1>1. n \in Int
    BY DEF Jobs
<1> HIDE DEF n
<1>2. LET e == [q EXCEPT !.status = "running", !.attempts = n]
      IN  e \in Jobs /\ e.lead = q.lead /\ e.position = q.position
                     /\ e.outbound = q.outbound /\ e.status = "running"
    BY <1>1 DEF Jobs, JobStatuses
<1> QED  BY <1>2 DEF n

LEMMA JobReleased ==
    ASSUME NEW q \in Jobs
    PROVE  LET e == [q EXCEPT !.status = "pending", !.attempts = @ - 1]
           IN  e \in Jobs /\ e.lead = q.lead /\ e.position = q.position
                          /\ e.outbound = q.outbound /\ e.status = "pending"
<1> DEFINE n == q.attempts - 1
<1>1. n \in Int
    BY DEF Jobs
<1> HIDE DEF n
<1>2. LET e == [q EXCEPT !.status = "pending", !.attempts = n]
      IN  e \in Jobs /\ e.lead = q.lead /\ e.position = q.position
                     /\ e.outbound = q.outbound /\ e.status = "pending"
    BY <1>1 DEF Jobs, JobStatuses
<1> QED  BY <1>2 DEF n

LEMMA JobStatusSet ==
    ASSUME NEW q \in Jobs, NEW x \in JobStatuses
    PROVE  LET e == [q EXCEPT !.status = x]
           IN  e \in Jobs /\ e.lead = q.lead /\ e.position = q.position
                          /\ e.outbound = q.outbound /\ e.status = x
BY DEF Jobs

LEMMA JobDone ==
    ASSUME NEW q \in Jobs, NEW o \in Nat
    PROVE  LET e == [q EXCEPT !.status = "done", !.outbound = o]
           IN  e \in Jobs /\ e.lead = q.lead /\ e.position = q.position
                          /\ e.outbound = o /\ e.status = "done"
BY DEF Jobs, JobStatuses

\* A job that is added.
LEMMA JobAppended ==
    ASSUME NEW q \in Seq(Jobs), NEW e \in Jobs
    PROVE  /\ Follows(q, Append(q, e))
           /\ DOMAIN Append(q, e) = DOMAIN q \cup {Len(q) + 1}
           /\ \A j \in DOMAIN q : Append(q, e)[j] = q[j]
           /\ Append(q, e)[Len(q) + 1] = e
<1>1. Append(q, e) \in Seq(Jobs) /\ Len(Append(q, e)) = Len(q) + 1
    BY AppendProperties
<1>2. /\ \A j \in 1..Len(q) : Append(q, e)[j] = q[j]
      /\ Append(q, e)[Len(q) + 1] = e
    BY AppendProperties
<1>3. DOMAIN Append(q, e) = 1..(Len(q) + 1)
    BY <1>1, JobDomain
<1>4. Len(q) \in Nat /\ DOMAIN q = 1..Len(q)
    BY JobDomain
<1> QED  BY <1>1, <1>2, <1>3, <1>4 DEF Follows

\* A job that is added is well formed.
LEMMA NewJobTyped ==
    ASSUME NEW l \in Leads, NEW k \in 1..Steps
    PROVE  /\ NewJob(l, k) \in Jobs
           /\ NewJob(l, k).lead = l /\ NewJob(l, k).position = k
           /\ NewJob(l, k).outbound = 0 /\ NewJob(l, k).status = "pending"
BY DEF NewJob, Jobs, JobStatuses

\* The step-1 jobs of a set of leads.
LEMMA FirstJobsTyped ==
    ASSUME NEW L \in SUBSET Leads
    PROVE  /\ FirstJobs(L) \in Seq(Jobs)
           /\ \A j \in DOMAIN FirstJobs(L) :
                 \E l \in L : FirstJobs(L)[j] = NewJob(l, 1)
<1> DEFINE n == Cardinality(L)
           order == CHOOSE f \in [1..n -> L] :
                        \A i, k \in DOMAIN f : f[i] = f[k] => i = k
<1>1. IsFiniteSet(L)
    BY SendingAssumption, FS_Subset
<1>2. n \in Nat /\ ExistsBijection(1..n, L)
    BY <1>1, FS_CardinalityType
<1>3. \E f \in [1..n -> L] : \A i, k \in DOMAIN f : f[i] = f[k] => i = k
    BY <1>2 DEF ExistsBijection, Bijection, Injection, IsInjective
<1>4. order \in [1..n -> L]
    BY <1>3
<1>5. FirstJobs(L) = [i \in 1..n |-> NewJob(order[i], 1)]
    BY DEF FirstJobs
<1> HIDE DEF order, n
<1>6. 1 \in 1..Steps
    BY DomainAssumption
<1>7. \A i \in 1..n : order[i] \in L /\ NewJob(order[i], 1) \in Jobs
    BY <1>4, <1>6, NewJobTyped
<1>8. FirstJobs(L) \in [1..n -> Jobs]
    BY <1>5, <1>7
<1>9. FirstJobs(L) \in Seq(Jobs)
    BY <1>2, <1>8, SeqDef
<1> QED  BY <1>5, <1>7, <1>9

\* Adding them.
LEMMA JobsAdded ==
    ASSUME NEW q \in Seq(Jobs), NEW L \in SUBSET Leads
    PROVE  LET r == q \o FirstJobs(L)
           IN  /\ Follows(q, r)
               /\ \A j \in DOMAIN q : r[j] = q[j]
               /\ \A j \in DOMAIN r \ DOMAIN q : \E l \in L : r[j] = NewJob(l, 1)
<1> DEFINE f == FirstJobs(L)
           r == q \o f
<1>1. f \in Seq(Jobs) /\ \A j \in DOMAIN f : \E l \in L : f[j] = NewJob(l, 1)
    BY FirstJobsTyped
<1> HIDE DEF f
<1>2. /\ r \in Seq(Jobs)
      /\ Len(r) = Len(q) + Len(f)
      /\ \A i \in 1..(Len(q) + Len(f)) :
            r[i] = IF i <= Len(q) THEN q[i] ELSE f[i - Len(q)]
    BY <1>1, ConcatProperties
<1> HIDE DEF r
<1>3. /\ Len(q) \in Nat /\ DOMAIN q = 1..Len(q)
      /\ Len(f) \in Nat /\ DOMAIN f = 1..Len(f)
      /\ DOMAIN r = 1..(Len(q) + Len(f))
    BY <1>1, <1>2, JobDomain
<1>4. \A j \in DOMAIN q : j \in DOMAIN r /\ r[j] = q[j]
    BY <1>2, <1>3
<1>5. ASSUME NEW j \in DOMAIN r \ DOMAIN q
      PROVE  \E l \in L : r[j] = NewJob(l, 1)
    <2>1. j - Len(q) \in DOMAIN f /\ r[j] = f[j - Len(q)]
        BY <1>2, <1>3
    <2> QED  BY <1>1, <2>1
<1> QED  BY <1>2, <1>4, <1>5 DEF Follows, r, f

-----------------------------------------------------------------------------
(* Steps that only move one slot, one consumer or one request.             *)

\* Nothing that Typed says of the others changes with them.
LEMMA SlotMoves ==
    ASSUME Typed, NEW w \in Workers, NEW s \in Sends,
           send' = [send EXCEPT ![w] = s], SlotTyped(s),
           UNCHANGED <<tables, day, reply, request>>, faults' \in 0..MaxFaults
    PROVE  Typed'
<1>1. TypeOK'
    BY DEF Typed, TypeOK, tables
<1>2. SlotsTyped'
    BY DEF Typed, TypeOK, SlotsTyped, SlotTyped, tables
<1>3. JobsTyped' /\ RepliesTyped' /\ RequestsTyped'
    BY DEF Typed, JobsTyped, RepliesTyped, ReplyTyped, RequestsTyped, RequestTyped,
           Added, tables
<1> QED  BY <1>1, <1>2, <1>3 DEF Typed

LEMMA ConsumerMoves ==
    ASSUME Typed, NEW r \in Consumers, NEW p \in Replies,
           reply' = [reply EXCEPT ![r] = p], ReplyTyped(p),
           UNCHANGED <<tables, day, send, request>>, faults' \in 0..MaxFaults
    PROVE  Typed'
<1>1. TypeOK'
    BY DEF Typed, TypeOK, tables
<1>2. RepliesTyped'
    BY DEF Typed, TypeOK, RepliesTyped, ReplyTyped, Added, tables
<1>3. JobsTyped' /\ SlotsTyped' /\ RequestsTyped'
    BY DEF Typed, JobsTyped, SlotsTyped, SlotTyped, RequestsTyped, RequestTyped,
           Added, tables
<1> QED  BY <1>1, <1>2, <1>3 DEF Typed

LEMMA RequestMoves ==
    ASSUME Typed, NEW c \in Clients, NEW q \in Requests,
           request' = [request EXCEPT ![c] = q], RequestTyped(q),
           UNCHANGED <<tables, day, send, reply, faults>>
    PROVE  Typed'
<1>1. TypeOK'
    BY DEF Typed, TypeOK, tables
<1>2. RequestsTyped'
    BY DEF Typed, TypeOK, RequestsTyped, RequestTyped, Added, tables
<1>3. JobsTyped' /\ SlotsTyped' /\ RepliesTyped'
    BY DEF Typed, JobsTyped, SlotsTyped, SlotTyped, RepliesTyped, ReplyTyped,
           Added, tables
<1> QED  BY <1>1, <1>2, <1>3 DEF Typed

\* Idle records are well formed.
LEMMA IdleTyped ==
    /\ IdleSend \in Sends /\ SlotTyped(IdleSend)
    /\ IdleReply \in Replies /\ ReplyTyped(IdleReply)
    /\ IdleRequest \in Requests /\ RequestTyped(IdleRequest)
<1>1. IdleSend \in Sends /\ SlotTyped(IdleSend)
    BY RowOrNone DEF IdleSend, Sends, SlotTyped
<1>2. NothingSeen \in [Leads -> Rows]
    BY RowOrNone DEF NothingSeen
<1>3. IdleReply \in Replies /\ ReplyTyped(IdleReply)
    BY <1>2, RowOrNone DEF IdleReply, Replies, ReplyTyped
<1>4. IdleRequest \in Requests /\ RequestTyped(IdleRequest)
    BY <1>2 DEF IdleRequest, Requests, RequestTyped
<1> QED  BY <1>1, <1>3, <1>4

\* A fault stays within the bound.
LEMMA FaultTyped ==
    ASSUME Typed, Fault \/ UNCHANGED faults
    PROVE  faults' \in 0..MaxFaults
BY SendingAssumption DEF Typed, TypeOK, Fault

\* A claim costs a fault for each lease that it takes from a busy slot.
LEMMA ClaimFaults ==
    ASSUME Typed, NEW S \in SUBSET Workers, NEW batch \in [S -> DOMAIN jobs], Claim(batch)
    PROVE  faults' \in 0..MaxFaults /\ faults' >= faults
<1> DEFINE over == {j \in {batch[w] : w \in DOMAIN batch} : InHand(j)}
<1>1. faults' = faults + Cardinality(over) /\ faults' <= MaxFaults
    BY DEF Claim, ClaimJobs
<1>2. over \in SUBSET DOMAIN jobs
    OBVIOUS
<1> HIDE DEF over
<1>3. DOMAIN jobs = 1..Len(jobs) /\ Len(jobs) \in Nat
    BY LenProperties DEF Typed, TypeOK
<1>4. IsFiniteSet(DOMAIN jobs)
    BY <1>3, FS_Interval
<1>5. Cardinality(over) \in Nat
    BY <1>2, <1>4, FS_Subset, FS_CardinalityType
<1> QED  BY <1>1, <1>5, SendingAssumption DEF Typed, TypeOK

-----------------------------------------------------------------------------
(* Slots.                                                                  *)

LEMMA LoadTyped ==
    ASSUME Typed, NEW w \in Workers, Load(w)
    PROVE  Typed'
<1> DEFINE j == send[w].job
           row == lead[jobs[j].lead]
           s == [send[w] EXCEPT
                   !.phase = IF AcceptsSend(status, row, jobs[j].position)
                             THEN "loaded" ELSE "ineligible",
                   !.attempts = IF w \in LockingWorkers THEN jobs[j].attempts ELSE @,
                   !.snap = row]
<1>1. send[w] \in Sends /\ j \in DOMAIN jobs
    BY DEF Load, Typed, TypeOK, SlotsTyped, SlotTyped
<1>2. jobs[j] \in Jobs /\ row \in LeadRows
    BY <1>1, JobDomain, RowOrNone DEF Typed, TypeOK, JobsTyped, Added, Jobs
<1>3. jobs[j].attempts \in Int
    BY <1>2 DEF Jobs
<1>4. send' = [send EXCEPT ![w] = s] /\ UNCHANGED <<tables, day, reply, request, faults>>
    BY DEF Load
<1> HIDE DEF j, row
<1>5. s \in Sends
    BY <1>1, <1>2, <1>3, RowOrNone DEF Sends, Outcomes
<1>6. SlotTyped(s)
    <2>1. s.job = j /\ s.snap = row /\ s.phase \in {"loaded", "ineligible"}
        BY <1>1 DEF Sends, j
    <2> QED  BY <1>1, <1>2, <2>1 DEF SlotTyped
<1> HIDE DEF s
<1> QED  BY <1>4, <1>5, <1>6, SlotMoves, FaultTyped

\* A slot between its load and its commit.
LEMMA SlotProceeds ==
    ASSUME Typed, NEW w \in Workers, NEW s \in Sends,
           send[w].phase \notin {"idle", "claimed"}, s.phase # "accepted",
           s.job = send[w].job, s.snap = send[w].snap,
           send' = [send EXCEPT ![w] = s],
           UNCHANGED <<tables, day, reply, request>>, Fault \/ UNCHANGED faults
    PROVE  Typed'
<1>1. SlotTyped(send[w])
    BY DEF Typed, SlotsTyped
<1>2. SlotTyped(s)
    BY <1>1 DEF SlotTyped
<1> QED  BY <1>2, SlotMoves, FaultTyped

\* The steps that change a slot and nothing else.
LEMMA SlotStepsTyped ==
    ASSUME Typed, NEW w \in Workers,
           CheckSuppression(w) \/ TakeMailbox(w) \/ DispatchFails(w) \/ ReadAgain(w)
    PROVE  Typed'
<1>1. send[w] \in Sends /\ SlotTyped(send[w]) /\ day \in Nat
    BY DEF Typed, TypeOK, SlotsTyped
<1>2. CASE CheckSuppression(w)
    <2> DEFINE x == IF JobOf(w).lead \in suppressed THEN "refused" ELSE "checked"
               s == [send[w] EXCEPT !.phase = x]
    <2>1. x \in {"refused", "checked"}
        OBVIOUS
    <2>2. /\ send' = [send EXCEPT ![w] = s] /\ send[w].phase = "loaded"
          /\ UNCHANGED <<tables, day, reply, request, faults>>
        BY <1>2 DEF CheckSuppression, Move
    <2> HIDE DEF x
    <2>3. s \in Sends /\ s.job = send[w].job /\ s.snap = send[w].snap /\ s.phase = x
        BY <1>1, <2>1 DEF Sends, Outcomes
    <2> HIDE DEF s
    <2> QED  BY <2>1, <2>2, <2>3, SlotProceeds
<1>3. CASE TakeMailbox(w)
    <2> DEFINE free == /\ \A v \in Workers : ~HoldsMailbox(v)
                       /\ Cardinality(SentSince(day)) < DailySendCap
               x == IF free THEN "sending" ELSE "deferred"
               y == IF free THEN day ELSE 0
               s == [send[w] EXCEPT !.phase = x, !.since = y]
    <2>1. x \in {"sending", "deferred"} /\ y \in Nat
        BY <1>1
    <2>2. /\ send' = [send EXCEPT ![w] = s] /\ send[w].phase = "checked"
          /\ UNCHANGED <<tables, day, reply, request, faults>>
        BY <1>3 DEF TakeMailbox
    <2> HIDE DEF x, y
    <2>3. s \in Sends /\ s.job = send[w].job /\ s.snap = send[w].snap /\ s.phase = x
        BY <1>1, <2>1 DEF Sends, Outcomes
    <2> HIDE DEF s
    <2> QED  BY <2>1, <2>2, <2>3, SlotProceeds
<1>4. CASE DispatchFails(w)
    <2> DEFINE s == [send[w] EXCEPT !.phase = "failed", !.since = 0]
    <2>1. /\ send' = [send EXCEPT ![w] = s]
          /\ send[w].phase \in {"loaded", "checked", "sending"}
          /\ UNCHANGED <<tables, day, reply, request, faults>>
        BY <1>4 DEF DispatchFails
    <2>2. s \in Sends /\ s.job = send[w].job /\ s.snap = send[w].snap /\ s.phase = "failed"
        BY <1>1 DEF Sends, Outcomes
    <2> HIDE DEF s
    <2> QED  BY <2>1, <2>2, SlotProceeds
<1>5. CASE ReadAgain(w)
    <2> DEFINE row == lead[JobOf(w).lead]
               s == [send[w] EXCEPT !.seen = row]
    <2>1. /\ send' = [send EXCEPT ![w] = s]
          /\ send[w].phase \in {"accepted", "refused", "failed"}
          /\ UNCHANGED <<tables, day, reply, request, faults>>
        BY <1>5 DEF ReadAgain, WritesLead
    <2>2. row \in Rows
        BY <1>1, <2>1, JobDomain DEF Typed, TypeOK, SlotTyped, JobOf, Jobs
    <2> HIDE DEF row
    <2>3. /\ s \in Sends /\ s.job = send[w].job /\ s.snap = send[w].snap
          /\ s.phase = send[w].phase /\ s.msg = send[w].msg
        BY <1>1, <2>2 DEF Sends
    <2>4. SlotTyped(s)
        BY <1>1, <2>3 DEF SlotTyped
    <2> HIDE DEF s
    <2> QED  BY <2>1, <2>3, <2>4, SlotMoves, FaultTyped
<1> QED  BY <1>2, <1>3, <1>4, <1>5

\* A slot that is not in the transaction of a job any more.
LEMMA NotClaimedTyped ==
    ASSUME Typed, NEW w \in Workers, NotClaimed(w)
    PROVE  Typed'
BY IdleTyped, SlotMoves, FaultTyped DEF NotClaimed

-----------------------------------------------------------------------------
(* Slots that change the mail, the jobs or the leads.                      *)

\* Appending a message.
LEMMA MailAppended ==
    ASSUME NEW q \in Seq(Mails), NEW m \in Mails
    PROVE  /\ Append(q, m) \in Seq(Mails)
           /\ Len(q) \in Nat /\ DOMAIN q = 1..Len(q)
           /\ DOMAIN Append(q, m) = DOMAIN q \cup {Len(q) + 1}
           /\ \A i \in DOMAIN q : Append(q, m)[i] = q[i]
           /\ Append(q, m)[Len(q) + 1] = m
<1>1. /\ Append(q, m) \in Seq(Mails) /\ Len(Append(q, m)) = Len(q) + 1
      /\ \A i \in 1..Len(q) : Append(q, m)[i] = q[i]
      /\ Append(q, m)[Len(q) + 1] = m
    BY AppendProperties
<1>2. /\ Len(q) \in Nat /\ DOMAIN q = 1..Len(q)
      /\ DOMAIN Append(q, m) = 1..(Len(q) + 1)
    BY <1>1, LenProperties
<1> QED  BY <1>1, <1>2

\* What Deliver appends.
LEMMA Delivered ==
    ASSUME Typed, NEW w \in Workers, send[w].phase = "sending", Deliver(w)
    PROVE  \E m \in Mails :
              /\ mail' = Append(mail, m)
              /\ m.to = JobOf(w).lead /\ m.body = JobOf(w).position /\ ~m.recorded
<1>1. send[w] \in Sends /\ SlotTyped(send[w]) /\ day \in Nat
    BY DEF Typed, TypeOK, SlotsTyped
<1>2. JobOf(w) \in Jobs
    BY <1>1, JobDomain DEF Typed, TypeOK, SlotTyped, JobOf
<1>3. PICK d \in send[w].since..day :
          mail' = Append(mail, [to |-> JobOf(w).lead, body |-> JobOf(w).position,
                                day |-> d, recorded |-> FALSE])
    BY DEF Deliver
<1>4. d \in Nat
    <2>1. send[w].since \in Nat
        BY <1>1 DEF Sends
    <2> QED  BY <1>1, <2>1
<1> DEFINE m == [to |-> JobOf(w).lead, body |-> JobOf(w).position,
                 day |-> d, recorded |-> FALSE]
<1>5. m \in Mails
    BY <1>2, <1>4 DEF Mails, Jobs
<1>6. m.to = JobOf(w).lead /\ m.body = JobOf(w).position /\ ~m.recorded
    OBVIOUS
<1>7. mail' = Append(mail, m)
    BY <1>3
<1> HIDE DEF m
<1> QED  BY <1>5, <1>6, <1>7

LEMMA DeliverTyped ==
    ASSUME Typed, NEW w \in Workers, ProviderAccepts(w) \/ AnswerLost(w)
    PROVE  Typed'
<1>1. /\ send[w].phase = "sending" /\ Deliver(w)
      /\ UNCHANGED <<status, lead, jobs, events, processed, suppressed, day, reply, request>>
      /\ Fault \/ UNCHANGED faults
    BY DEF ProviderAccepts, AnswerLost, Deliver
<1>2. PICK m \in Mails : mail' = Append(mail, m)
    BY <1>1, Delivered
<1>3. /\ mail' \in Seq(Mails)
      /\ Len(mail) \in Nat
      /\ DOMAIN mail' = DOMAIN mail \cup {Len(mail) + 1}
    BY <1>2, MailAppended DEF Typed, TypeOK
<1>4. send[w] \in Sends /\ SlotTyped(send[w])
    BY DEF Typed, TypeOK, SlotsTyped
<1>5. PICK s \in Sends :
          /\ send' = [send EXCEPT ![w] = s]
          /\ s.job = send[w].job /\ s.snap = send[w].snap
          /\ s.phase = "failed" \/ (s.phase = "accepted" /\ s.msg = Len(mail) + 1)
    <2>1. CASE ProviderAccepts(w)
        <3> DEFINE n == Len(mail) + 1
                   s == [send[w] EXCEPT !.phase = "accepted", !.msg = n]
        <3>1. send' = [send EXCEPT ![w] = s]
            BY <2>1 DEF ProviderAccepts
        <3>2. n = Len(mail) + 1 /\ n \in Nat
            BY <1>3
        <3> HIDE DEF n
        <3>3. /\ s \in Sends /\ s.job = send[w].job /\ s.snap = send[w].snap
              /\ s.phase = "accepted" /\ s.msg = n
            BY <1>4, <3>2 DEF Sends, Outcomes
        <3> HIDE DEF s
        <3> QED  BY <3>1, <3>2, <3>3
    <2>2. CASE AnswerLost(w)
        <3> DEFINE s == [send[w] EXCEPT !.phase = "failed", !.since = 0]
        <3>1. send' = [send EXCEPT ![w] = s]
            BY <2>2 DEF AnswerLost
        <3>2. s \in Sends /\ s.job = send[w].job /\ s.snap = send[w].snap /\ s.phase = "failed"
            BY <1>4 DEF Sends, Outcomes
        <3> HIDE DEF s
        <3> QED  BY <3>1, <3>2
    <2> QED  BY <2>1, <2>2
<1>6. TypeOK'
    BY <1>1, <1>3, <1>5, FaultTyped DEF Typed, TypeOK
<1>7. SlotsTyped'
    BY <1>1, <1>3, <1>4, <1>5 DEF Typed, TypeOK, SlotsTyped, SlotTyped
<1>8. JobsTyped' /\ RepliesTyped' /\ RequestsTyped'
    BY <1>1 DEF Typed, JobsTyped, RepliesTyped, ReplyTyped, RequestsTyped, RequestTyped, Added
<1> QED  BY <1>6, <1>7, <1>8 DEF Typed

\* Steps that change tables: rows and messages are only added, so that what is
\* well formed stays so.
LEMMA TablesGrow ==
    ASSUME Typed, TypeOK',
           DOMAIN mail \subseteq DOMAIN mail', DOMAIN events \subseteq DOMAIN events',
           Follows(jobs, jobs'),
           \A l \in Leads : Added(l) => Added(l)',
           \A j \in DOMAIN jobs' \ DOMAIN jobs : lead'[jobs'[j].lead] # NoRow,
           \A w \in Workers : SlotTyped(send'[w]),
           \A r \in Consumers : ReplyTyped(reply'[r]),
           \A c \in Clients : RequestTyped(request'[c])
    PROVE  Typed'
<1>1. JobsTyped'
    <2> SUFFICES ASSUME NEW j \in DOMAIN jobs'
                 PROVE  lead'[jobs'[j].lead] # NoRow
        BY DEF JobsTyped, Added
    <2>1. CASE j \in DOMAIN jobs
        <3>1. jobs[j] \in Jobs /\ jobs'[j].lead = jobs[j].lead
            BY <2>1, JobDomain DEF Typed, TypeOK, Follows
        <3>2. jobs[j].lead \in Leads
            BY <3>1 DEF Jobs
        <3> QED  BY <2>1, <3>1, <3>2 DEF Typed, JobsTyped, Added
    <2> QED  BY <2>1
<1>2. SlotsTyped'
    BY DEF SlotsTyped, SlotTyped, Follows
<1>3. RepliesTyped'
    BY DEF RepliesTyped, ReplyTyped
<1>4. RequestsTyped'
    <2> SUFFICES ASSUME NEW c \in Clients, request'[c].phase \in {"listed", "flushed"},
                        NEW l \in request'[c].leads
                 PROVE  Added(l)'
        BY DEF RequestsTyped, RequestTyped
    <2>1. request'[c] \in Requests
        BY DEF TypeOK
    <2>2. l \in Leads
        BY <2>1 DEF Requests
    <2> QED  BY <2>2 DEF RequestTyped
<1> QED  BY <1>1, <1>2, <1>3, <1>4 DEF Typed

\* The same for steps that leave consumers and requests alone.
LEMMA Others ==
    ASSUME Typed
    PROVE  /\ reply' = reply => \A r \in Consumers : ReplyTyped(reply'[r])
           /\ request' = request => \A c \in Clients : RequestTyped(request'[c])
           /\ send' = send => \A w \in Workers : SlotTyped(send'[w])
BY DEF Typed, RepliesTyped, RequestsTyped, SlotsTyped

\* Tables that do not change have not shrunk.
LEMMA Same ==
    ASSUME Typed
    PROVE  /\ jobs' = jobs =>
                 /\ Follows(jobs, jobs')
                 /\ \A j \in DOMAIN jobs' \ DOMAIN jobs : lead'[jobs'[j].lead] # NoRow
           /\ lead' = lead => \A l \in Leads : Added(l) => Added(l)'
BY DEF Typed, TypeOK, Follows, Added

\* A claim: the jobs are in range, and nothing else is in the slots yet.
LEMMA ClaimTyped ==
    ASSUME Typed, NEW S \in SUBSET Workers, NEW batch \in [S -> DOMAIN jobs], Claim(batch)
    PROVE  Typed' /\ Follows(jobs, jobs') /\ DOMAIN jobs' = DOMAIN jobs
<1> DEFINE J == {batch[w] : w \in DOMAIN batch}
<1>1. /\ jobs' = [j \in DOMAIN jobs |->
              IF j \in J THEN [jobs[j] EXCEPT !.status = "running", !.attempts = @ + 1]
              ELSE jobs[j]]
      /\ send' = [w \in Workers |->
              IF w \in S
              THEN [IdleSend EXCEPT !.phase = "claimed", !.job = batch[w],
                                    !.attempts = jobs[batch[w]].attempts + 1]
              ELSE send[w]]
      /\ UNCHANGED <<status, lead, mail, events, processed, suppressed, day, reply, request>>
    BY DEF Claim, ClaimJobs
<1>2. \A j \in DOMAIN jobs : jobs[j] \in Jobs
    BY JobDomain DEF Typed, TypeOK
<1>3. \A j \in DOMAIN jobs : /\ jobs'[j] \in Jobs
                             /\ jobs'[j].lead = jobs[j].lead
                             /\ jobs'[j].position = jobs[j].position
    <2> SUFFICES ASSUME NEW j \in DOMAIN jobs
                 PROVE  /\ jobs'[j] \in Jobs
                        /\ jobs'[j].lead = jobs[j].lead
                        /\ jobs'[j].position = jobs[j].position
        OBVIOUS
    <2>1. CASE jobs'[j] = [jobs[j] EXCEPT !.status = "running", !.attempts = @ + 1]
        BY <1>2, <2>1, JobClaimed
    <2>2. CASE jobs'[j] = jobs[j]
        BY <1>2, <2>2
    <2> QED  BY <1>1, <2>1, <2>2
<1>4. Follows(jobs, jobs') /\ DOMAIN jobs' = DOMAIN jobs
    <2>1. jobs' = [j \in DOMAIN jobs |-> jobs'[j]]
        BY <1>1
    <2> QED  BY <1>3, <2>1, JobsMapped DEF Typed, TypeOK
<1>5. \A w \in Workers : send'[w] \in Sends /\ SlotTyped(send'[w])
    <2> SUFFICES ASSUME NEW w \in Workers
                 PROVE  send'[w] \in Sends /\ SlotTyped(send'[w])
        OBVIOUS
    <2>1. CASE w \in S
        <3> DEFINE k == batch[w]
                   n == jobs[k].attempts + 1
                   s == [IdleSend EXCEPT !.phase = "claimed", !.job = k, !.attempts = n]
        <3>1. k \in DOMAIN jobs
            BY <2>1
        <3>2. n \in Int /\ k \in Nat
            BY <1>2, <3>1, JobDomain DEF Jobs, Typed, TypeOK
        <3>3. send'[w] = s
            BY <1>1, <2>1
        <3> HIDE DEF k, n
        <3>4. s \in Sends /\ s.job = k /\ s.phase = "claimed"
            BY <3>2, IdleTyped DEF Sends, IdleSend
        <3> HIDE DEF s
        <3> QED  BY <3>1, <3>3, <3>4 DEF SlotTyped
    <2>2. CASE w \notin S
        BY <1>1, <2>2 DEF Typed, TypeOK, SlotsTyped
    <2> QED  BY <2>1, <2>2
<1>6. TypeOK'
    <2>1. send' \in [Workers -> Sends]
        BY <1>1, <1>5
    <2> QED  BY <1>1, <1>4, <2>1, ClaimFaults DEF Typed, TypeOK, Follows
<1> QED  BY <1>1, <1>4, <1>5, <1>6, TablesGrow, Others, Same

\* The row that an outcome writes is a lead row.
LEMMA NewRowTyped ==
    ASSUME Typed, NEW w \in Workers, send[w].phase \in Outcomes
    PROVE  /\ JobOf(w) \in Jobs /\ send[w].job \in DOMAIN jobs
           /\ JobOf(w).lead \in Leads /\ Added(JobOf(w).lead)
           /\ send[w].snap \in LeadRows /\ NewRow(w) \in LeadRows
<1>1. send[w].job \in DOMAIN jobs /\ send[w].snap \in LeadRows
    BY DEF Typed, SlotsTyped, SlotTyped, Outcomes
<1>2. JobOf(w) \in Jobs
    BY <1>1, JobDomain DEF Typed, TypeOK, JobOf
<1>3. JobOf(w).lead \in Leads /\ JobOf(w).position \in 1..Steps
    BY <1>2 DEF Jobs
<1>4. Added(JobOf(w).lead)
    BY <1>1 DEF Typed, JobsTyped, JobOf
<1>5. NewRow(w) \in LeadRows
    <2>1. {"suppressed", "send_failed"} \subseteq StopReasons
        BY DEF StopReasons
    <2> QED  BY <1>1, <1>3, <2>1, RowOperations DEF NewRow
<1> QED  BY <1>1, <1>2, <1>3, <1>4, <1>5

\* The lead that a commit writes.
LEMMA FinishLead ==
    ASSUME Typed, NEW w \in Workers, NEW newJobs, Finish(w, newJobs),
           send[w].phase \in Outcomes
    PROVE  /\ lead' \in [Leads -> Rows]
           /\ \A l \in Leads : Added(l) => Added(l)'
           /\ \A l \in Leads : lead'[l] = lead[l] \/
                 (l = JobOf(w).lead /\ lead'[l] = Written(lead[l], send[w].seen, NewRow(w)))
<1> DEFINE l == JobOf(w).lead
           row == Written(lead[l], send[w].seen, NewRow(w))
<1>1. l \in Leads /\ lead[l] \in LeadRows /\ NewRow(w) \in LeadRows
    BY NewRowTyped, RowOrNone DEF Typed, TypeOK, Added
<1>2. row \in LeadRows
    BY <1>1, WrittenRow
<1>3. lead' = lead \/ lead' = [lead EXCEPT ![l] = row]
    BY DEF Finish
<1>4. lead \in [Leads -> Rows]
    BY DEF Typed, TypeOK
<1>5. l = JobOf(w).lead /\ row = Written(lead[l], send[w].seen, NewRow(w))
    OBVIOUS
<1> HIDE DEF l, row
<1>6. /\ lead' \in [Leads -> Rows]
      /\ \A k \in Leads : lead'[k] = lead[k] \/ (k = l /\ lead'[k] = row)
    BY <1>1, <1>2, <1>3, <1>4, RowOrNone
<1> QED  BY <1>2, <1>5, <1>6, RowOrNone DEF Added

LEMMA FinishTyped ==
    ASSUME Typed, NEW w \in Workers, NEW newJobs, Finish(w, newJobs),
           send[w].phase \in Outcomes, Follows(jobs, newJobs),
           \A j \in DOMAIN newJobs \ DOMAIN jobs : newJobs[j].lead = JobOf(w).lead,
           mail' \in Seq(Mails), DOMAIN mail' = DOMAIN mail
    PROVE  Typed'
<1>1. /\ jobs' = newJobs
      /\ send' = [send EXCEPT ![w] = IdleSend]
      /\ UNCHANGED <<status, events, processed, suppressed, day, reply, request, faults>>
    BY DEF Finish
<1>2. /\ lead' \in [Leads -> Rows]
      /\ \A l \in Leads : Added(l) => Added(l)'
    BY FinishLead
<1>3. \A j \in DOMAIN jobs' \ DOMAIN jobs : lead'[jobs'[j].lead] # NoRow
    BY <1>1, <1>2, NewRowTyped DEF Added
<1>4. TypeOK'
    BY <1>1, <1>2, IdleTyped DEF Typed, TypeOK, Follows
<1>5. \A v \in Workers : SlotTyped(send'[v])
    BY <1>1, IdleTyped DEF Typed, TypeOK, SlotsTyped
<1> QED  BY <1>1, <1>2, <1>3, <1>4, <1>5, TablesGrow, Others

\* Recording a message changes nothing else.
LEMMA MailRecorded ==
    ASSUME NEW q \in Seq(Mails), NEW k \in DOMAIN q
    PROVE  LET r == [q EXCEPT ![k].recorded = TRUE]
           IN  /\ r \in Seq(Mails)
               /\ DOMAIN r = DOMAIN q
               /\ \A i \in DOMAIN q : /\ r[i].to = q[i].to /\ r[i].body = q[i].body
                                      /\ q[i].recorded => r[i].recorded
               /\ r[k].recorded
<1> DEFINE e == [q[k] EXCEPT !.recorded = TRUE]
           r == [q EXCEPT ![k].recorded = TRUE]
<1>1. r = [q EXCEPT ![k] = e]
    OBVIOUS
<1>2. q[k] \in Mails /\ k \in 1..Len(q)
    BY LenProperties, ElementOfSeq
<1>3. /\ e \in Mails /\ e.recorded
      /\ e.to = q[k].to /\ e.body = q[k].body
    BY <1>2 DEF Mails
<1> HIDE DEF e, r
<1>4. r \in Seq(Mails)
    BY <1>1, <1>2, <1>3, ExceptSeq
<1>5. DOMAIN r = DOMAIN q /\ r[k] = e /\ \A i \in DOMAIN q : i # k => r[i] = q[i]
    BY <1>1
<1>6. \A i \in DOMAIN q : /\ r[i].to = q[i].to /\ r[i].body = q[i].body
                          /\ q[i].recorded => r[i].recorded
    BY <1>3, <1>5
<1>7. r[k].recorded
    BY <1>3, <1>5
<1> QED  BY <1>4, <1>5, <1>6, <1>7 DEF r

\* The jobs after each outcome.
LEMMA DoneJobs ==
    ASSUME Typed, NEW w \in Workers, send[w].phase = "accepted"
    PROVE  LET j == send[w].job
               done == [jobs EXCEPT ![j].status = "done", ![j].outbound = send[w].msg]
               next == Append(done, NewJob(jobs[j].lead, jobs[j].position + 1))
           IN  /\ Follows(jobs, done) /\ DOMAIN done = DOMAIN jobs
               /\ done[j].outbound = send[w].msg /\ done[j].status = "done"
               /\ \A i \in DOMAIN jobs : i # j => done[i] = jobs[i]
               /\ ~IsLastStep(jobs[j].position) =>
                     /\ Follows(jobs, next)
                     /\ \A i \in DOMAIN jobs : next[i] = done[i]
                     /\ \A i \in DOMAIN next \ DOMAIN jobs :
                           next[i] = NewJob(jobs[j].lead, jobs[j].position + 1)
                     /\ \A i, k \in DOMAIN next \ DOMAIN jobs : i = k
<1> DEFINE j == send[w].job
           e == [jobs[j] EXCEPT !.status = "done", !.outbound = send[w].msg]
           done == [jobs EXCEPT ![j].status = "done", ![j].outbound = send[w].msg]
           x == NewJob(jobs[j].lead, jobs[j].position + 1)
           next == Append(done, x)
<1>1. j \in DOMAIN jobs /\ jobs[j] \in Jobs /\ jobs \in Seq(Jobs)
    BY NewRowTyped DEF Outcomes, JobOf, Typed, TypeOK
<1>2. send[w].msg \in Nat
    BY DEF Typed, TypeOK, Sends
<1>3. /\ e \in Jobs /\ e.lead = jobs[j].lead /\ e.position = jobs[j].position
      /\ e.outbound = send[w].msg /\ e.status = "done"
    BY <1>1, <1>2, JobDone
<1>4. done = [jobs EXCEPT ![j] = e]
    BY <1>1
<1> HIDE DEF e, done
<1>5. Follows(jobs, done) /\ DOMAIN done = DOMAIN jobs
    BY <1>1, <1>3, <1>4, JobSet
<1>6. done[j] = e /\ \A i \in DOMAIN jobs : i # j => done[i] = jobs[i]
    BY <1>1, <1>4
<1>7. ASSUME ~IsLastStep(jobs[j].position)
      PROVE  /\ Follows(jobs, next)
             /\ \A i \in DOMAIN jobs : next[i] = done[i]
             /\ \A i \in DOMAIN next \ DOMAIN jobs : next[i] = x
             /\ \A i, k \in DOMAIN next \ DOMAIN jobs : i = k
    <2>1. jobs[j].lead \in Leads /\ jobs[j].position + 1 \in 1..Steps
        <3>1. jobs[j].lead \in Leads /\ jobs[j].position \in 1..Steps
            BY <1>1 DEF Jobs
        <3>2. jobs[j].position # Steps /\ Steps \in Nat
            BY <1>7, DomainAssumption DEF IsLastStep
        <3>3. QED
            BY <3>1, <3>2
    <2>2. x \in Jobs
        BY <2>1, NewJobTyped
    <2>3. done \in Seq(Jobs)
        BY <1>5 DEF Follows
    <2> HIDE DEF x
    <2>4. /\ Follows(done, next)
          /\ DOMAIN next = DOMAIN done \cup {Len(done) + 1}
          /\ \A i \in DOMAIN done : next[i] = done[i]
          /\ next[Len(done) + 1] = x
        BY <2>2, <2>3, JobAppended
    <2> HIDE DEF next
    <2> QED  BY <1>5, <2>4 DEF Follows
<1> QED  BY <1>3, <1>5, <1>6, <1>7 DEF done

LEMMA StatusJobs ==
    ASSUME Typed, NEW w \in Workers, send[w].phase \in Outcomes, NEW x \in JobStatuses
    PROVE  /\ Follows(jobs, Set(w, x)) /\ DOMAIN Set(w, x) = DOMAIN jobs
           /\ Set(w, x)[send[w].job].status = x
           /\ \A i \in DOMAIN jobs : i # send[w].job => Set(w, x)[i] = jobs[i]
           /\ \A i \in DOMAIN jobs : /\ Set(w, x)[i].outbound = jobs[i].outbound
                                     /\ Set(w, x)[i].status \in {x, jobs[i].status}
<1> DEFINE j == send[w].job
           e == [jobs[j] EXCEPT !.status = x]
           r == Set(w, x)
<1>1. j \in DOMAIN jobs /\ jobs[j] \in Jobs /\ jobs \in Seq(Jobs)
    BY NewRowTyped DEF JobOf, Typed, TypeOK
<1>2. /\ e \in Jobs /\ e.lead = jobs[j].lead /\ e.position = jobs[j].position
      /\ e.outbound = jobs[j].outbound /\ e.status = x
    BY <1>1, JobStatusSet
<1>3. r = [jobs EXCEPT ![j] = e]
    BY DEF Set
<1> HIDE DEF e, r
<1>4. /\ Follows(jobs, r) /\ DOMAIN r = DOMAIN jobs
      /\ r[j].status = e.status /\ \A i \in DOMAIN jobs : i # j => r[i] = jobs[i]
      /\ \A i \in DOMAIN jobs : /\ r[i].outbound = jobs[i].outbound
                                /\ r[i].status \in {x, jobs[i].status}
    BY <1>1, <1>2, <1>3, JobSet
<1> QED  BY <1>2, <1>4 DEF r

LEMMA ReleasedJobs ==
    ASSUME Typed, NEW w \in Workers, send[w].phase \in Outcomes
    PROVE  LET r == [jobs EXCEPT ![send[w].job].status = "pending",
                                 ![send[w].job].attempts = @ - 1]
           IN  /\ Follows(jobs, r) /\ DOMAIN r = DOMAIN jobs
               /\ r[send[w].job].status = "pending"
               /\ \A i \in DOMAIN jobs : i # send[w].job => r[i] = jobs[i]
               /\ \A i \in DOMAIN jobs : /\ r[i].outbound = jobs[i].outbound
                                         /\ r[i].status \in {"pending", jobs[i].status}
<1> DEFINE j == send[w].job
           e == [jobs[j] EXCEPT !.status = "pending", !.attempts = @ - 1]
           r == [jobs EXCEPT ![j].status = "pending", ![j].attempts = @ - 1]
<1>1. j \in DOMAIN jobs /\ jobs[j] \in Jobs /\ jobs \in Seq(Jobs)
    BY NewRowTyped DEF JobOf, Typed, TypeOK
<1>2. /\ e \in Jobs /\ e.lead = jobs[j].lead /\ e.position = jobs[j].position
      /\ e.outbound = jobs[j].outbound /\ e.status = "pending"
    BY <1>1, JobReleased
<1>3. r = [jobs EXCEPT ![j] = e]
    BY <1>1
<1> HIDE DEF e, r
<1>4. /\ Follows(jobs, r) /\ DOMAIN r = DOMAIN jobs
      /\ r[j].status = e.status /\ \A i \in DOMAIN jobs : i # j => r[i] = jobs[i]
      /\ \A i \in DOMAIN jobs : /\ r[i].outbound = jobs[i].outbound
                                /\ r[i].status \in {"pending", jobs[i].status}
    BY <1>1, <1>2, <1>3, JobSet
<1> QED  BY <1>2, <1>4 DEF r

\* The five ways a job's transaction commits.
LEMMA FinishStepsTyped ==
    ASSUME Typed, NEW w \in Workers,
           \/ FinishSent(w) \/ FinishSuppressed(w) \/ FinishFailed(w)
           \/ FinishDeferred(w) \/ FinishIneligible(w)
    PROVE  Typed'
<1>1. CASE FinishSent(w)
    <2> DEFINE j == send[w].job
               done == [jobs EXCEPT ![j].status = "done", ![j].outbound = send[w].msg]
               next == Append(done, NewJob(jobs[j].lead, jobs[j].position + 1))
               newJobs == IF IsLastStep(jobs[j].position) THEN done ELSE next
    <2>1. send[w].phase = "accepted" /\ Finish(w, newJobs)
          /\ mail' = [mail EXCEPT ![send[w].msg].recorded = TRUE]
        BY <1>1 DEF FinishSent
    <2>2. Follows(jobs, newJobs)
        BY <2>1, DoneJobs
    <2>3. \A i \in DOMAIN newJobs \ DOMAIN jobs : newJobs[i].lead = JobOf(w).lead
        <3>1. DOMAIN done = DOMAIN jobs
            BY <2>1, DoneJobs
        <3>2. ASSUME ~IsLastStep(jobs[j].position), NEW i \in DOMAIN next \ DOMAIN jobs
              PROVE  next[i].lead = jobs[j].lead
            <4>1. next[i] = NewJob(jobs[j].lead, jobs[j].position + 1)
                BY <2>1, <3>2, DoneJobs
            <4> QED  BY <4>1 DEF NewJob
        <3> QED  BY <3>1, <3>2 DEF JobOf
    <2>4. mail' \in Seq(Mails) /\ DOMAIN mail' = DOMAIN mail
        <3>1. send[w].msg \in DOMAIN mail /\ mail \in Seq(Mails)
            BY <2>1 DEF Typed, TypeOK, SlotsTyped, SlotTyped
        <3> QED  BY <2>1, <3>1, MailRecorded
    <2> HIDE DEF newJobs
    <2> QED  BY <2>1, <2>2, <2>3, <2>4, FinishTyped DEF Outcomes
<1>2. mail \in Seq(Mails)
    BY DEF Typed, TypeOK
<1>3. {"pending", "failed", "cancelled"} \subseteq JobStatuses
    BY DEF JobStatuses
<1>4. CASE FinishSuppressed(w)
    <2>1. send[w].phase \in Outcomes /\ Finish(w, Set(w, "cancelled")) /\ mail' = mail
        BY <1>4 DEF FinishSuppressed, Outcomes
    <2> QED  BY <1>2, <1>3, <2>1, StatusJobs, FinishTyped
<1>5. CASE FinishFailed(w)
    <2> DEFINE x == IF Retries(send[w].attempts) THEN "pending" ELSE "failed"
    <2>1. send[w].phase \in Outcomes /\ Finish(w, Set(w, x)) /\ mail' = mail
        BY <1>5 DEF FinishFailed, Outcomes
    <2>2. x \in JobStatuses
        BY <1>3
    <2> HIDE DEF x
    <2> QED  BY <1>2, <2>1, <2>2, StatusJobs, FinishTyped
<1>6. CASE FinishDeferred(w)
    <2> DEFINE r == [jobs EXCEPT ![send[w].job].status = "pending",
                                 ![send[w].job].attempts = @ - 1]
    <2>1. send[w].phase \in Outcomes /\ Finish(w, r) /\ mail' = mail
        BY <1>6 DEF FinishDeferred, Outcomes
    <2>2. Follows(jobs, r) /\ DOMAIN r = DOMAIN jobs
        BY <2>1, ReleasedJobs
    <2> HIDE DEF r
    <2> QED  BY <1>2, <2>1, <2>2, FinishTyped
<1>7. CASE FinishIneligible(w)
    <2>1. send[w].phase \in Outcomes /\ Finish(w, Set(w, "cancelled")) /\ mail' = mail
        BY <1>7 DEF FinishIneligible, Outcomes
    <2> QED  BY <1>2, <1>3, <2>1, StatusJobs, FinishTyped
<1> QED  BY <1>1, <1>4, <1>5, <1>6, <1>7

LEMMA WorkersCrashTyped ==
    ASSUME Typed, NEW S \in SUBSET Workers, WorkersCrash(S)
    PROVE  Typed'
<1>1. /\ send' = [w \in Workers |-> IF w \in S THEN IdleSend ELSE send[w]]
      /\ UNCHANGED <<tables, day, reply, request>>
      /\ Fault \/ UNCHANGED faults
    BY DEF WorkersCrash
<1>2. TypeOK'
    BY <1>1, IdleTyped, FaultTyped DEF Typed, TypeOK, tables
<1>3. \A w \in Workers : SlotTyped(send'[w])
    BY <1>1, IdleTyped DEF Typed, SlotsTyped
<1> QED  BY <1>1, <1>2, <1>3, TablesGrow, Others, Same DEF tables

-----------------------------------------------------------------------------
(* The poller and the reply consumer.                                      *)

LEMMA AnswerTyped ==
    ASSUME Typed, NEW m \in DOMAIN mail, NEW i \in ReplyIntents, Answer(m, i)
    PROVE  Typed'
<1> DEFINE e == [mail |-> m, intent |-> i]
<1>1. mail[m] \in Mails /\ m \in Nat \ {0}
    BY LenProperties, ElementOfSeq DEF Typed, TypeOK
<1>2. e \in Events
    BY <1>1 DEF Events
<1>3. /\ events' = Append(events, e)
      /\ suppressed' \subseteq suppressed \cup {mail[m].to}
      /\ UNCHANGED <<status, lead, jobs, mail, processed, day, send, reply, request, faults>>
    BY DEF Answer
<1> HIDE DEF e
<1>4. events' \in Seq(Events) /\ DOMAIN events \subseteq DOMAIN events'
    <2>1. events' \in Seq(Events) /\ Len(events') = Len(events) + 1
        BY <1>2, <1>3, AppendProperties DEF Typed, TypeOK
    <2>2. Len(events) \in Nat /\ DOMAIN events = 1..Len(events) /\ DOMAIN events' = 1..Len(events')
        BY <2>1, LenProperties DEF Typed, TypeOK
    <2> QED  BY <2>1, <2>2
<1>5. suppressed' \subseteq Leads
    BY <1>1, <1>3 DEF Typed, TypeOK, Mails
<1>6. TypeOK'
    BY <1>3, <1>4, <1>5 DEF Typed, TypeOK
<1> QED  BY <1>3, <1>4, <1>6, TablesGrow, Others, Same

\* The row a consumer sees is a lead row if the lead was added.
LEMMA RowForTyped ==
    ASSUME Typed, NEW r \in Consumers, NEW l \in Leads
    PROVE  /\ RowFor(r, l) \in Rows
           /\ Added(l) => RowFor(r, l) \in LeadRows
           /\ RowFor(r, l) \in LeadRows \/ RowFor(r, l) = lead[l]
<1>1. reply[r].rows \in [Leads -> Rows] /\ lead[l] \in Rows
    BY DEF Typed, TypeOK, Replies
<1> QED  BY <1>1, RowOrNone DEF RowFor, Added

\* The batch of a claim is in range.
LEMMA BatchTyped ==
    ASSUME Typed
    PROVE  NextBatch \subseteq DOMAIN events /\ NextBatch \in SUBSET Nat
<1>1. DOMAIN events \subseteq Nat
    BY LenProperties DEF Typed, TypeOK
<1> QED  BY <1>1 DEF NextBatch, Waiting, Unprocessed

LEMMA ReplyClaimTyped ==
    ASSUME Typed, NEW r \in Consumers, ReplyClaim(r)
    PROVE  Typed'
<1> DEFINE B == NextBatch
           p == [reply[r] EXCEPT !.phase = "claimed", !.batch = B, !.todo = B]
<1>1. reply[r] \in Replies
    BY DEF Typed, TypeOK
<1>2. B \subseteq DOMAIN events /\ B \in SUBSET Nat
    BY BatchTyped
<1>3. /\ reply' = [reply EXCEPT ![r] = p]
      /\ UNCHANGED <<tables, day, send, request, faults>>
    BY DEF ReplyClaim, ReplyUnchanged, tables
<1> HIDE DEF B
<1>4. p \in Replies /\ p.batch = B /\ p.phase = "claimed"
    BY <1>1, <1>2 DEF Replies
<1> HIDE DEF p
<1>5. ReplyTyped(p)
    BY <1>2, <1>4 DEF ReplyTyped
<1> QED  BY <1>3, <1>4, <1>5, ConsumerMoves, FaultTyped

LEMMA ReplyIgnoredTyped ==
    ASSUME Typed, NEW r \in Consumers, ReplyIgnored(r)
    PROVE  Typed'
<1>1. PICK e \in Unprocessed : reply' = [reply EXCEPT ![r].todo = @ \ {e}]
    BY DEF ReplyIgnored
<1> DEFINE T == reply[r].todo \ {e}
           p == [reply[r] EXCEPT !.todo = T]
<1>2. reply[r] \in Replies /\ ReplyTyped(reply[r])
    BY DEF Typed, TypeOK, RepliesTyped
<1>3. T \in SUBSET Nat
    BY <1>2 DEF Replies
<1>4. /\ reply' = [reply EXCEPT ![r] = p] /\ reply[r].phase = "claimed"
      /\ UNCHANGED <<tables, day, send, request, faults>>
    BY <1>1 DEF ReplyIgnored, ReplyUnchanged, tables
<1> HIDE DEF T
<1>5. p \in Replies /\ p.batch = reply[r].batch /\ p.phase = reply[r].phase
    BY <1>2, <1>3 DEF Replies
<1> HIDE DEF p
<1>6. ReplyTyped(p)
    BY <1>2, <1>4, <1>5 DEF ReplyTyped
<1> QED  BY <1>4, <1>5, <1>6, ConsumerMoves, FaultTyped

LEMMA ReplyLoadTyped ==
    ASSUME Typed, NEW r \in Consumers, ReplyLoad(r)
    PROVE  Typed'
<1>0. PICK e \in Unprocessed : \E l \in LeadsOf(events[e].mail) :
          /\ StopsOnReply(RowFor(r, l))
          /\ reply' = [reply EXCEPT ![r].phase = "loaded", ![r].lead = l,
                 ![r].new = StopOnReply(RowFor(r, l), events[e].intent)]
    BY DEF ReplyLoad
<1>1. PICK l \in LeadsOf(events[e].mail) :
          /\ StopsOnReply(RowFor(r, l))
          /\ reply' = [reply EXCEPT ![r].phase = "loaded", ![r].lead = l,
                 ![r].new = StopOnReply(RowFor(r, l), events[e].intent)]
    BY <1>0
<1>2. reply[r] \in Replies /\ ReplyTyped(reply[r])
    BY DEF Typed, TypeOK, RepliesTyped
<1>3. l \in Leads /\ Added(l)
    <2>1. PICK j \in DOMAIN jobs : l = jobs[j].lead
        BY DEF LeadsOf
    <2>2. jobs[j] \in Jobs
        BY JobDomain DEF Typed, TypeOK
    <2> QED  BY <2>1, <2>2 DEF Jobs, Typed, JobsTyped
<1>4. events[e].intent \in Intents
    <2>1. events[e] \in Events
        BY LenProperties, ElementOfSeq DEF Typed, TypeOK, Unprocessed
    <2> QED  BY <2>1, SendingAssumption DEF Events
<1> DEFINE new == StopOnReply(RowFor(r, l), events[e].intent)
           p == [reply[r] EXCEPT !.phase = "loaded", !.lead = l, !.new = new]
<1>5. new \in LeadRows
    BY <1>3, <1>4, RowForTyped, RowOperations
<1>6. /\ reply' = [reply EXCEPT ![r] = p]
      /\ UNCHANGED <<tables, day, send, request, faults>>
    BY <1>1 DEF ReplyLoad, ReplyUnchanged, tables
<1> HIDE DEF new
<1>7. p \in Replies /\ p.batch = reply[r].batch /\ p.lead = l /\ p.new = new
    BY <1>2, <1>3, <1>5, RowOrNone DEF Replies
<1> HIDE DEF p
<1>8. ReplyTyped(p)
    BY <1>2, <1>3, <1>5, <1>7 DEF ReplyTyped
<1> QED  BY <1>6, <1>7, <1>8, ConsumerMoves, FaultTyped

LEMMA ReplyReadAgainTyped ==
    ASSUME Typed, NEW r \in Consumers, ReplyReadAgain(r)
    PROVE  Typed'
<1> DEFINE row == RowFor(r, reply[r].lead)
           p == [reply[r] EXCEPT !.phase = "read", !.seen = row]
<1>1. reply[r] \in Replies /\ ReplyTyped(reply[r]) /\ reply[r].phase = "loaded"
    BY DEF Typed, TypeOK, RepliesTyped, ReplyReadAgain
<1>2. row \in Rows
    BY <1>1, RowForTyped DEF ReplyTyped
<1>3. /\ reply' = [reply EXCEPT ![r] = p]
      /\ UNCHANGED <<tables, day, send, request, faults>>
    BY DEF ReplyReadAgain, ReplyUnchanged, tables
<1> HIDE DEF row
<1>4. /\ p \in Replies /\ p.batch = reply[r].batch
      /\ p.lead = reply[r].lead /\ p.new = reply[r].new
    BY <1>1, <1>2 DEF Replies
<1> HIDE DEF p
<1>5. ReplyTyped(p)
    BY <1>1, <1>4 DEF ReplyTyped
<1> QED  BY <1>3, <1>4, <1>5, ConsumerMoves, FaultTyped

LEMMA ReplyFlushTyped ==
    ASSUME Typed, NEW r \in Consumers, ReplyFlush(r)
    PROVE  Typed'
<1> DEFINE l == reply[r].lead
           row == Written(RowFor(r, l), reply[r].seen, reply[r].new)
<1>1. PICK e \in Unprocessed :
          reply' = [reply EXCEPT ![r] = [IdleReply EXCEPT
                     !.phase = "claimed", !.batch = reply[r].batch,
                     !.todo = reply[r].todo \ {e},
                     !.rows = [reply[r].rows EXCEPT ![l] = row],
                     !.cancels = reply[r].cancels \cup PendingJobs(l)]]
    BY DEF ReplyFlush
<1>2. reply[r] \in Replies /\ ReplyTyped(reply[r]) /\ reply[r].phase = "read"
    BY DEF Typed, TypeOK, RepliesTyped, ReplyFlush
<1>3. l \in Leads /\ row \in LeadRows
    BY <1>2, RowForTyped, WrittenRow DEF ReplyTyped
<1> DEFINE B == reply[r].batch
           T == reply[r].todo \ {e}
           C == reply[r].cancels \cup PendingJobs(l)
           R == [reply[r].rows EXCEPT ![l] = row]
           p == [IdleReply EXCEPT !.phase = "claimed", !.batch = B, !.todo = T,
                                  !.rows = R, !.cancels = C]
<1>4. B \in SUBSET Nat /\ T \in SUBSET Nat /\ B \subseteq DOMAIN events
    BY <1>2 DEF Replies, ReplyTyped
<1>5. C \in SUBSET Nat
    <2>1. PendingJobs(l) \subseteq Nat
        BY JobDomain DEF PendingJobs, Typed, TypeOK
    <2> QED  BY <1>2, <2>1 DEF Replies
<1>6. R \in [Leads -> Rows]
    BY <1>2, <1>3, RowOrNone DEF Replies
<1>7. reply' = [reply EXCEPT ![r] = p]
    BY <1>1
<1>8. UNCHANGED <<tables, day, send, request, faults>>
    BY DEF ReplyFlush, ReplyUnchanged, tables
<1> HIDE DEF B, T, C, R
<1>9. p \in Replies /\ p.batch = B /\ p.phase = "claimed"
    BY <1>4, <1>5, <1>6, IdleTyped DEF Replies, IdleReply
<1> HIDE DEF p
<1>10. ReplyTyped(p)
    BY <1>4, <1>9 DEF ReplyTyped
<1> QED  BY <1>7, <1>8, <1>9, <1>10, ConsumerMoves, FaultTyped

LEMMA ReplyCommitTyped ==
    ASSUME Typed, NEW r \in Consumers, ReplyCommit(r)
    PROVE  Typed' /\ Follows(jobs, jobs') /\ DOMAIN jobs' = DOMAIN jobs
<1>1. /\ lead' = [l \in Leads |-> RowFor(r, l)]
      /\ jobs' = [j \in DOMAIN jobs |->
             IF j \in reply[r].cancels THEN [jobs[j] EXCEPT !.status = "cancelled"]
             ELSE jobs[j]]
      /\ processed' = processed \cup reply[r].batch
      /\ reply' = [reply EXCEPT ![r] = IdleReply]
      /\ UNCHANGED <<status, mail, events, suppressed, day, send, request, faults>>
    BY DEF ReplyCommit, ReplyUnchanged
<1>2. reply[r] \in Replies /\ ReplyTyped(reply[r])
    BY DEF Typed, TypeOK, RepliesTyped
<1>3. \A j \in DOMAIN jobs : /\ jobs'[j] \in Jobs
                             /\ jobs'[j].lead = jobs[j].lead
                             /\ jobs'[j].position = jobs[j].position
    <2> SUFFICES ASSUME NEW j \in DOMAIN jobs
                 PROVE  /\ jobs'[j] \in Jobs
                        /\ jobs'[j].lead = jobs[j].lead
                        /\ jobs'[j].position = jobs[j].position
        OBVIOUS
    <2>1. jobs[j] \in Jobs /\ "cancelled" \in JobStatuses
        BY JobDomain DEF Typed, TypeOK, JobStatuses
    <2>2. CASE jobs'[j] = [jobs[j] EXCEPT !.status = "cancelled"]
        BY <2>1, <2>2, JobStatusSet
    <2>3. CASE jobs'[j] = jobs[j]
        BY <2>1, <2>3
    <2> QED  BY <1>1, <2>2, <2>3
<1>4. Follows(jobs, jobs') /\ DOMAIN jobs' = DOMAIN jobs
    <2>1. jobs' = [j \in DOMAIN jobs |-> jobs'[j]]
        BY <1>1
    <2> QED  BY <1>3, <2>1, JobsMapped DEF Typed, TypeOK
<1>5. /\ lead' \in [Leads -> Rows]
      /\ \A l \in Leads : Added(l) => Added(l)'
    <2>1. \A l \in Leads : lead'[l] = RowFor(r, l)
        BY <1>1
    <2> QED  BY <1>1, <2>1, RowForTyped, RowOrNone DEF Added
<1>6. processed' \subseteq DOMAIN events'
    BY <1>1, <1>2 DEF Typed, TypeOK, ReplyTyped
<1>7. TypeOK'
    BY <1>1, <1>4, <1>5, <1>6, IdleTyped DEF Typed, TypeOK, Follows
<1>8. \A q \in Consumers : ReplyTyped(reply'[q])
    BY <1>1, IdleTyped DEF Typed, TypeOK, RepliesTyped
<1> QED  BY <1>1, <1>4, <1>5, <1>7, <1>8, TablesGrow, Others

LEMMA ConsumerCrashTyped ==
    ASSUME Typed, NEW r \in Consumers, ConsumerCrash(r)
    PROVE  Typed'
BY IdleTyped, ConsumerMoves, FaultTyped DEF ConsumerCrash

-----------------------------------------------------------------------------
(* What a consumer has in memory after each of its steps.                  *)

\* The consumer alone changes.
Consumes(r) ==
    /\ reply' = [reply EXCEPT ![r] = reply'[r]]
    /\ \A q \in Consumers : q # r => reply'[q] = reply[q]

LEMMA ReplyClaimEffect ==
    ASSUME Typed, NEW r \in Consumers, ReplyClaim(r)
    PROVE  /\ Consumes(r) /\ reply[r].phase = "idle" /\ reply'[r].phase = "claimed"
           /\ NextBatch # {} /\ reply'[r].batch = NextBatch /\ reply'[r].todo = NextBatch
           /\ \A f \in {"lead", "new", "seen", "rows", "cancels"} : reply'[r][f] = reply[r][f]
<1> DEFINE B == NextBatch
           p == [reply[r] EXCEPT !.phase = "claimed", !.batch = B, !.todo = B]
<1>1. reply' = [reply EXCEPT ![r] = p] /\ reply[r].phase = "idle" /\ B # {}
    BY DEF ReplyClaim
<1> HIDE DEF B
<1>2. /\ p.phase = "claimed" /\ p.batch = B /\ p.todo = B
      /\ \A f \in {"lead", "new", "seen", "rows", "cancels"} : p[f] = reply[r][f]
    BY DEF Typed, TypeOK, Replies
<1> HIDE DEF p
<1>3. Consumes(r) /\ reply'[r] = p
    BY <1>1 DEF Consumes, Typed, TypeOK
<1> QED  BY <1>1, <1>2, <1>3 DEF B

LEMMA ReplyIgnoredEffect ==
    ASSUME Typed, NEW r \in Consumers, ReplyIgnored(r)
    PROVE  /\ Consumes(r) /\ reply[r].phase = "claimed"
           /\ \A f \in {"phase", "batch", "lead", "new", "seen", "rows", "cancels"} :
                 reply'[r][f] = reply[r][f]
           /\ \E e \in Unprocessed :
                 /\ IsNext(r, e) /\ reply'[r].todo = reply[r].todo \ {e}
                 /\ \A l \in LeadsOf(events[e].mail) : ~StopsOnReply(RowFor(r, l))
<1>1. PICK e \in Unprocessed :
          /\ IsNext(r, e)
          /\ \A l \in LeadsOf(events[e].mail) : ~StopsOnReply(RowFor(r, l))
          /\ reply' = [reply EXCEPT ![r].todo = @ \ {e}]
    BY DEF ReplyIgnored
<1> DEFINE T == reply[r].todo \ {e}
           p == [reply[r] EXCEPT !.todo = T]
<1>2. reply' = [reply EXCEPT ![r] = p] /\ reply[r].phase = "claimed"
    BY <1>1 DEF ReplyIgnored
<1> HIDE DEF T
<1>3. /\ p.todo = T
      /\ \A f \in {"phase", "batch", "lead", "new", "seen", "rows", "cancels"} : p[f] = reply[r][f]
    BY DEF Typed, TypeOK, Replies
<1> HIDE DEF p
<1>4. Consumes(r) /\ reply'[r] = p
    BY <1>2 DEF Consumes, Typed, TypeOK
<1> QED  BY <1>1, <1>2, <1>3, <1>4 DEF T

LEMMA ReplyLoadEffect ==
    ASSUME Typed, NEW r \in Consumers, ReplyLoad(r)
    PROVE  /\ Consumes(r) /\ reply[r].phase = "claimed" /\ reply'[r].phase = "loaded"
           /\ \A f \in {"batch", "todo", "seen", "rows", "cancels"} : reply'[r][f] = reply[r][f]
           /\ \E e \in Unprocessed :
                 /\ IsNext(r, e)
                 /\ reply'[r].lead \in LeadsOf(events[e].mail)
                 /\ StopsOnReply(RowFor(r, reply'[r].lead))
                 /\ reply'[r].new = StopOnReply(RowFor(r, reply'[r].lead), events[e].intent)
<1>1. PICK e \in Unprocessed :
          /\ IsNext(r, e)
          /\ \E l \in LeadsOf(events[e].mail) :
                /\ StopsOnReply(RowFor(r, l))
                /\ reply' = [reply EXCEPT ![r].phase = "loaded", ![r].lead = l,
                       ![r].new = StopOnReply(RowFor(r, l), events[e].intent)]
    BY DEF ReplyLoad
<1>2. PICK l \in LeadsOf(events[e].mail) :
          /\ StopsOnReply(RowFor(r, l))
          /\ reply' = [reply EXCEPT ![r].phase = "loaded", ![r].lead = l,
                 ![r].new = StopOnReply(RowFor(r, l), events[e].intent)]
    BY <1>1
<1> DEFINE new == StopOnReply(RowFor(r, l), events[e].intent)
           p == [reply[r] EXCEPT !.phase = "loaded", !.lead = l, !.new = new]
<1>3. reply' = [reply EXCEPT ![r] = p] /\ reply[r].phase = "claimed"
    BY <1>2 DEF ReplyLoad
<1> HIDE DEF new
<1>4. /\ p.phase = "loaded" /\ p.lead = l /\ p.new = new
      /\ \A f \in {"batch", "todo", "seen", "rows", "cancels"} : p[f] = reply[r][f]
    BY DEF Typed, TypeOK, Replies
<1> HIDE DEF p
<1>5. Consumes(r) /\ reply'[r] = p
    BY <1>3 DEF Consumes, Typed, TypeOK
<1> QED  BY <1>1, <1>2, <1>3, <1>4, <1>5 DEF new

LEMMA ReplyReadAgainEffect ==
    ASSUME Typed, NEW r \in Consumers, ReplyReadAgain(r)
    PROVE  /\ Consumes(r) /\ reply[r].phase = "loaded" /\ reply'[r].phase = "read"
           /\ reply'[r].seen = RowFor(r, reply[r].lead)
           /\ \A f \in {"batch", "todo", "lead", "new", "rows", "cancels"} :
                 reply'[r][f] = reply[r][f]
<1> DEFINE row == RowFor(r, reply[r].lead)
           p == [reply[r] EXCEPT !.phase = "read", !.seen = row]
<1>1. reply' = [reply EXCEPT ![r] = p] /\ reply[r].phase = "loaded"
    BY DEF ReplyReadAgain
<1> HIDE DEF row
<1>2. /\ p.phase = "read" /\ p.seen = row
      /\ \A f \in {"batch", "todo", "lead", "new", "rows", "cancels"} : p[f] = reply[r][f]
    BY DEF Typed, TypeOK, Replies
<1> HIDE DEF p
<1>3. Consumes(r) /\ reply'[r] = p
    BY <1>1 DEF Consumes, Typed, TypeOK
<1> QED  BY <1>1, <1>2, <1>3 DEF row

LEMMA ReplyFlushEffect ==
    ASSUME Typed, NEW r \in Consumers, ReplyFlush(r)
    PROVE  LET l   == reply[r].lead
               row == Written(RowFor(r, l), reply[r].seen, reply[r].new)
           IN  /\ Consumes(r) /\ reply[r].phase = "read" /\ reply'[r].phase = "claimed"
               /\ l \in Leads /\ row \in LeadRows
               /\ \A f \in {"lead", "new", "seen"} : reply'[r][f] = IdleReply[f]
               /\ reply'[r].batch = reply[r].batch
               /\ \A k \in Leads : reply'[r].rows[k] = IF k = l THEN row ELSE reply[r].rows[k]
               /\ reply'[r].cancels = reply[r].cancels \cup PendingJobs(l)
               /\ \E e \in Unprocessed :
                     IsNext(r, e) /\ reply'[r].todo = reply[r].todo \ {e}
<1> DEFINE l == reply[r].lead
           row == Written(RowFor(r, l), reply[r].seen, reply[r].new)
           B == reply[r].batch
           R == [reply[r].rows EXCEPT ![l] = row]
           C == reply[r].cancels \cup PendingJobs(l)
<1>1. PICK e \in Unprocessed :
          /\ IsNext(r, e)
          /\ reply' = [reply EXCEPT ![r] = [IdleReply EXCEPT
                 !.phase = "claimed", !.batch = B, !.todo = reply[r].todo \ {e},
                 !.rows = R, !.cancels = C]]
    BY DEF ReplyFlush
<1> DEFINE T == reply[r].todo \ {e}
           p == [IdleReply EXCEPT !.phase = "claimed", !.batch = B, !.todo = T,
                                  !.rows = R, !.cancels = C]
<1>2. reply[r] \in Replies /\ ReplyTyped(reply[r]) /\ reply[r].phase = "read"
    BY DEF Typed, TypeOK, RepliesTyped, ReplyFlush
<1>3. l \in Leads /\ row \in LeadRows
    BY <1>2, RowForTyped, WrittenRow DEF ReplyTyped
<1>4. reply' = [reply EXCEPT ![r] = p]
    BY <1>1
<1>5. \A k \in Leads : R[k] = IF k = l THEN row ELSE reply[r].rows[k]
    BY <1>2, <1>3 DEF Replies
<1> HIDE DEF B, T, R, C, row
<1>6. /\ p.phase = "claimed" /\ p.batch = B /\ p.todo = T /\ p.rows = R /\ p.cancels = C
      /\ \A f \in {"lead", "new", "seen"} : p[f] = IdleReply[f]
    BY DEF IdleReply
<1> HIDE DEF p
<1>7. Consumes(r) /\ reply'[r] = p
    BY <1>4 DEF Consumes, Typed, TypeOK
<1> QED  BY <1>1, <1>2, <1>3, <1>5, <1>6, <1>7 DEF B, T, C, row

-----------------------------------------------------------------------------
(* API requests.                                                           *)

LEMMA RequestStepsTyped ==
    ASSUME Typed, NEW c \in Clients,
           AddLeadsRead(c) \/ AddLeadsConflict(c) \/ StartRead(c) \/ StartList(c) \/ StartFlush(c)
    PROVE  Typed'
<1>1. request[c] \in Requests /\ RequestTyped(request[c]) /\ lead \in [Leads -> Rows]
    BY DEF Typed, TypeOK, RequestsTyped
<1>2. UNCHANGED <<tables, day, send, reply, faults>>
    BY DEF AddLeadsRead, AddLeadsConflict, StartRead, StartList, StartFlush,
           RequestUnchanged, tables
<1>3. CASE AddLeadsRead(c)
    <2>1. PICK L \in SUBSET Leads :
              request' = [request EXCEPT ![c] =
                  [IdleRequest EXCEPT !.phase = "adding", !.active = (status = "active"),
                                      !.leads = L]]
        BY <1>3 DEF AddLeadsRead
    <2> DEFINE b == (status = "active")
               q == [IdleRequest EXCEPT !.phase = "adding", !.active = b, !.leads = L]
    <2>2. b \in BOOLEAN
        OBVIOUS
    <2>3. request' = [request EXCEPT ![c] = q]
        BY <2>1
    <2> HIDE DEF b
    <2>4. q \in Requests /\ q.phase = "adding"
        BY <2>2, IdleTyped DEF Requests
    <2> HIDE DEF q
    <2> QED  BY <1>2, <2>3, <2>4, RequestMoves DEF RequestTyped
<1>4. CASE AddLeadsConflict(c)
    BY <1>2, <1>4, IdleTyped, RequestMoves DEF AddLeadsConflict
<1>5. CASE StartRead(c)
    <2> DEFINE q == [request[c] EXCEPT !.phase = "starting"]
    <2>1. request' = [request EXCEPT ![c] = q]
        BY <1>5 DEF StartRead
    <2>2. q \in Requests /\ q.phase = "starting"
        BY <1>1 DEF Requests
    <2> HIDE DEF q
    <2> QED  BY <1>2, <2>1, <2>2, RequestMoves DEF RequestTyped
<1>6. CASE StartList(c)
    <2> DEFINE P == {l \in Leads : lead[l].state = "pending"}
               q == [request[c] EXCEPT !.phase = "listed", !.leads = P]
    <2>1. request' = [request EXCEPT ![c] = IdleRequest] \/ request' = [request EXCEPT ![c] = q]
        BY <1>6 DEF StartList
    <2>2. P \in SUBSET Leads /\ \A l \in P : Added(l)
        BY DEF Added, NoRow, Null
    <2> HIDE DEF P
    <2>3. q \in Requests /\ q.leads = P
        BY <1>1, <2>2 DEF Requests
    <2> HIDE DEF q
    <2>4. RequestTyped(q)
        BY <2>2, <2>3 DEF RequestTyped
    <2> QED  BY <1>2, <2>1, <2>3, <2>4, IdleTyped, RequestMoves
<1>7. CASE StartFlush(c)
    <2> DEFINE R == [l \in Leads |-> IF l \in request[c].leads THEN lead[l] ELSE NoRow]
               q == [request[c] EXCEPT !.phase = "flushed", !.seen = R]
    <2>1. request' = [request EXCEPT ![c] = q] /\ request[c].phase = "listed"
        BY <1>7 DEF StartFlush
    <2>2. R \in [Leads -> Rows]
        BY <1>1, RowOrNone
    <2> HIDE DEF R
    <2>3. q \in Requests /\ q.leads = request[c].leads
        BY <1>1, <2>2 DEF Requests
    <2> HIDE DEF q
    <2>4. RequestTyped(q)
        BY <1>1, <2>1, <2>3 DEF RequestTyped
    <2> QED  BY <1>2, <2>1, <2>3, <2>4, RequestMoves
<1> QED  BY <1>3, <1>4, <1>5, <1>6, <1>7

LEMMA AddRowsTyped ==
    ASSUME Typed, NEW c \in Clients, NEW row \in LeadRows, NEW newJobs,
           AddRows(c, row, newJobs), Follows(jobs, newJobs),
           \A j \in DOMAIN newJobs \ DOMAIN jobs : newJobs[j].lead \in request[c].leads
    PROVE  Typed'
<1>1. /\ lead' = [l \in Leads |-> IF l \in request[c].leads THEN row ELSE lead[l]]
      /\ jobs' = newJobs
      /\ request' = [request EXCEPT ![c] = IdleRequest]
      /\ UNCHANGED <<status, mail, events, processed, suppressed, day, send, reply, faults>>
    BY DEF AddRows, RequestUnchanged
<1>2. request[c].leads \subseteq Leads
    BY DEF Typed, TypeOK, Requests
<1>3. lead' \in [Leads -> Rows] /\ \A l \in Leads : Added(l) => Added(l)'
    BY <1>1, RowOrNone DEF Typed, TypeOK, Added
<1>4. \A j \in DOMAIN jobs' \ DOMAIN jobs : lead'[jobs'[j].lead] # NoRow
    BY <1>1, <1>2, RowOrNone
<1>5. TypeOK'
    BY <1>1, <1>3, IdleTyped DEF Typed, TypeOK, Follows
<1>6. \A d \in Clients : RequestTyped(request'[d])
    BY <1>1, IdleTyped DEF Typed, TypeOK, RequestsTyped
<1> QED  BY <1>1, <1>3, <1>4, <1>5, <1>6, TablesGrow, Others

LEMMA AddLeadsCommitTyped ==
    ASSUME Typed, NEW c \in Clients, AddLeadsCommit(c)
    PROVE  Typed'
<1> DEFINE L == request[c].leads
           r == jobs \o FirstJobs(L)
<1>1. jobs \in Seq(Jobs) /\ L \in SUBSET Leads
    BY DEF Typed, TypeOK, Requests
<1>2. CASE request[c].active
    <2>1. AddRows(c, Scheduled(NewLead), r)
        BY <1>2 DEF AddLeadsCommit
    <2>2. Follows(jobs, r) /\ \A j \in DOMAIN r \ DOMAIN jobs : \E l \in L : r[j] = NewJob(l, 1)
        BY <1>1, JobsAdded
    <2> HIDE DEF r, L
    <2>3. \A j \in DOMAIN r \ DOMAIN jobs : r[j].lead \in L
        BY <2>2 DEF NewJob
    <2> USE DEF L
    <2> QED  BY <2>1, <2>2, <2>3, RowOperations, AddRowsTyped
<1>3. CASE ~request[c].active
    <2>1. AddRows(c, NewLead, jobs)
        BY <1>3 DEF AddLeadsCommit
    <2> QED  BY <1>1, <2>1, RowOperations, AddRowsTyped DEF Follows
<1> QED  BY <1>2, <1>3

LEMMA StartCommitTyped ==
    ASSUME Typed, NEW c \in Clients, StartCommit(c)
    PROVE  Typed'
<1> DEFINE L == request[c].leads
           r == jobs \o FirstJobs(L)
<1>1. /\ status' = "active"
      /\ lead' = [l \in Leads |->
             IF l \in L THEN Written(lead[l], request[c].seen[l], Scheduled(NewLead))
             ELSE lead[l]]
      /\ jobs' = r
      /\ request' = [request EXCEPT ![c] = IdleRequest]
      /\ UNCHANGED <<mail, events, processed, suppressed, day, send, reply, faults>>
    BY DEF StartCommit, RequestUnchanged
<1>2. jobs \in Seq(Jobs) /\ L \in SUBSET Leads /\ \A l \in L : Added(l)
    <2>1. request[c].phase = "flushed" /\ request[c] \in Requests
        BY DEF StartCommit, Typed, TypeOK
    <2> QED  BY <2>1 DEF Typed, TypeOK, Requests, RequestsTyped, RequestTyped
<1>3. Follows(jobs, r) /\ \A j \in DOMAIN r \ DOMAIN jobs : \E l \in L : r[j] = NewJob(l, 1)
    BY <1>2, JobsAdded
<1> HIDE DEF r, L
<1>4. \A j \in DOMAIN r \ DOMAIN jobs : r[j].lead \in L
    BY <1>3 DEF NewJob
<1>5. \A l \in L : lead'[l] \in LeadRows
    <2> SUFFICES ASSUME NEW l \in L
                 PROVE  lead'[l] \in LeadRows
        OBVIOUS
    <2>1. l \in Leads /\ lead[l] \in LeadRows
        BY <1>2, RowOrNone DEF Typed, TypeOK, Added
    <2>2. lead'[l] = Written(lead[l], request[c].seen[l], Scheduled(NewLead))
        BY <1>1, <2>1
    <2> QED  BY <2>1, <2>2, RowOperations, WrittenRow
<1>6. lead' \in [Leads -> Rows] /\ \A l \in Leads : Added(l) => Added(l)'
    <2>1. \A l \in Leads : l \notin L => lead'[l] = lead[l]
        BY <1>1
    <2>2. \A l \in Leads : lead'[l] \in Rows /\ (Added(l) => Added(l)')
        BY <1>5, <2>1, RowOrNone DEF Typed, TypeOK, Added
    <2> QED  BY <1>1, <2>2
<1>7. \A j \in DOMAIN jobs' \ DOMAIN jobs : lead'[jobs'[j].lead] # NoRow
    BY <1>1, <1>4, <1>5, RowOrNone
<1>8. TypeOK'
    BY <1>1, <1>3, <1>6, IdleTyped DEF Typed, TypeOK, Follows, CampaignStatuses
<1>9. \A d \in Clients : RequestTyped(request'[d])
    BY <1>1, IdleTyped DEF Typed, TypeOK, RequestsTyped
<1> QED  BY <1>1, <1>3, <1>6, <1>7, <1>8, <1>9, TablesGrow, Others

-----------------------------------------------------------------------------
(* The invariant.                                                          *)

LEMMA TypedInitially == Init => Typed
<1> SUFFICES ASSUME Init PROVE Typed
    OBVIOUS
<1>1. /\ jobs \in Seq(Jobs) /\ mail \in Seq(Mails) /\ events \in Seq(Events)
      /\ DOMAIN jobs = {}
    BY EmptySeq DEF Init
<1>2. TypeOK
    BY <1>1, SendingAssumption, IdleTyped, RowOrNone DEF Init, TypeOK, CampaignStatuses
<1>3. JobsTyped
    BY <1>1 DEF JobsTyped
<1>4. SlotsTyped /\ RepliesTyped /\ RequestsTyped
    BY IdleTyped DEF Init, SlotsTyped, RepliesTyped, RequestsTyped
<1> QED  BY <1>2, <1>3, <1>4 DEF Typed

\* One step per group of actions.
LEMMA TypedStep == Typed /\ [Next]_vars => Typed'
<1> SUFFICES ASSUME Typed, [Next]_vars PROVE Typed'
    OBVIOUS
<1>1. CASE ClientNext
    BY <1>1, AddLeadsCommitTyped, StartCommitTyped, RequestStepsTyped DEF ClientNext
<1>2. CASE ClaimNext
    BY <1>2, ClaimTyped DEF ClaimNext
<1>3. CASE ProcessNext
    BY <1>3, LoadTyped, NotClaimedTyped, SlotStepsTyped, DeliverTyped, FinishStepsTyped
       DEF ProcessNext
<1>4. CASE CrashNext
    BY <1>4, WorkersCrashTyped DEF CrashNext
<1>5. CASE PollNext
    BY <1>5, AnswerTyped DEF PollNext
<1>6. CASE ReplyNext
    BY <1>6, ReplyClaimTyped, ReplyIgnoredTyped, ReplyLoadTyped, ReplyReadAgainTyped,
       ReplyFlushTyped, ReplyCommitTyped, ConsumerCrashTyped DEF ReplyNext
<1>7. CASE NextDay
    <2>1. TypeOK'
        BY <1>7 DEF Typed, TypeOK, NextDay, tables
    <2>2. UNCHANGED <<tables, send, reply, request>>
        BY <1>7 DEF NextDay
    <2> QED  BY <2>1, <2>2, TablesGrow, Others, Same DEF tables
<1>8. CASE UNCHANGED vars
    <2>1. TypeOK'
        BY <1>8 DEF Typed, TypeOK, vars
    <2> QED  BY <1>8, <2>1, TablesGrow, Others, Same DEF vars
<1> QED  BY <1>1, <1>2, <1>3, <1>4, <1>5, <1>6, <1>7, <1>8 DEF Next

\* What is well formed stays well formed.
THEOREM TypedAlways == Spec => []Typed
BY TypedInitially, TypedStep, PTL DEF Spec

\* Type correctness of the campaign's tables and of every transaction on
\* them: in particular a written-back lead row is a row, and no transaction
\* ever refers to a job, a message or a lead that does not exist.
THEOREM TypeCorrect == Spec => []TypeOK
<1>1. Typed => TypeOK
    BY DEF Typed
<1> QED  BY <1>1, TypedAlways, PTL

=============================================================================
