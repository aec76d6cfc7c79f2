----------------------- MODULE CampaignSending_proofs -----------------------
(***************************************************************************)
(* The safety of CampaignSending for every value of its constants: any     *)
(* number of leads, steps, workers (locking or not), consumers and         *)
(* requests, with leases that may expire under live workers.               *)
(*                                                                         *)
(* No property is inductive alone.  A lead row is written from copies that *)
(* transactions took earlier, column by column, so what is claimed of lead *)
(* rows has to hold of every copy of a lead, wherever it is held: it is    *)
(* earned.  A copy stays earned while it ages, because records are never   *)
(* taken back; and mixing the columns of two earned rows gives an earned   *)
(* row, because each column alone is backed by recorded messages.          *)
(***************************************************************************)
EXTENDS CampaignSending_types

\* What a row of lead l claims was sent and recorded.
Earned(l, row) ==
    /\ \A k \in 1..row.steps_sent : Recorded(l, k)
    /\ row.state = "done" => \A k \in 1..Steps : Recorded(l, k)

LeadsEarned == \A l \in Leads : Earned(l, lead[l])

\* A slot's copy is earned; it is at the step before its job's until it has
\* ended, and the message the provider accepted from it is its job's.
SlotEarned(s) ==
    /\ s.phase \notin {"idle", "claimed"} => Earned(jobs[s.job].lead, s.snap)
    /\ s.phase \in {"loaded", "checked", "sending", "accepted"} =>
          s.snap.steps_sent = jobs[s.job].position - 1
    /\ s.phase = "accepted" =>
          /\ mail[s.msg].to = jobs[s.job].lead
          /\ mail[s.msg].body = jobs[s.job].position

SlotsEarned == \A w \in Workers : SlotEarned(send[w])

\* So is what a consumer is about to write, and what it has written.
ReplyEarned(p) ==
    /\ p.phase \in {"loaded", "read"} => Earned(p.lead, p.new)
    /\ \A l \in Leads : Earned(l, p.rows[l])

RepliesEarned == \A r \in Consumers : ReplyEarned(reply[r])

\* LinksAreFaithful, of one job.
Linked(job) ==
    /\ job.status = "done" => job.outbound # 0
    /\ job.outbound # 0 =>
          /\ job.outbound \in DOMAIN mail
          /\ mail[job.outbound].recorded
          /\ mail[job.outbound].to = job.lead
          /\ mail[job.outbound].body = job.position

Real == LeadsEarned /\ SlotsEarned /\ RepliesEarned /\ LinksAreFaithful /\ StepsInOrder

IInv == Typed /\ Real

-----------------------------------------------------------------------------
(* Rows.                                                                   *)

\* A record is backed for as long as messages are kept.
MailGrows ==
    /\ DOMAIN mail \subseteq DOMAIN mail'
    /\ \A i \in DOMAIN mail : /\ mail'[i].to = mail[i].to
                              /\ mail'[i].body = mail[i].body
                              /\ mail[i].recorded => mail'[i].recorded

LEMMA RecordedStays ==
    ASSUME MailGrows
    PROVE  \A l, k : Recorded(l, k) => Recorded(l, k)'
<1> SUFFICES ASSUME NEW l, NEW k, Recorded(l, k)
             PROVE  Recorded(l, k)'
    OBVIOUS
<1>1. PICK i \in DOMAIN mail : mail[i].to = l /\ mail[i].body = k /\ mail[i].recorded
    BY DEF Recorded, SentTo
<1>2. i \in DOMAIN mail' /\ mail'[i].to = l /\ mail'[i].body = k /\ mail'[i].recorded
    BY <1>1 DEF MailGrows
<1> QED  BY <1>2 DEF Recorded, SentTo

LEMMA EarnedStays ==
    ASSUME MailGrows
    PROVE  \A l, row : Earned(l, row) => Earned(l, row)'
BY RecordedStays DEF Earned

\* Mixing the columns of earned rows.
LEMMA EarnedWritten ==
    ASSUME NEW l, NEW current, NEW seen, NEW new, Earned(l, current), Earned(l, new)
    PROVE  Earned(l, Written(current, seen, new))
BY DEF Earned, Written

\* The operations of the aggregate that claim no progress.
LEMMA EarnedOperations ==
    ASSUME NEW l
    PROVE  /\ Earned(l, NoRow) /\ Earned(l, NewLead) /\ Earned(l, Scheduled(NewLead))
           /\ \A row \in LeadRows : \A i : Earned(l, row) => Earned(l, StopOnReply(row, i))
           /\ \A row \in LeadRows : \A x : Earned(l, row) => Earned(l, FailLead(row, x))
<1>1. Earned(l, NoRow) /\ Earned(l, NewLead) /\ Earned(l, Scheduled(NewLead))
    BY DEF Earned, NoRow, Null, NewLead, Scheduled
<1>2. \A row \in LeadRows : \A i : Earned(l, row) => Earned(l, StopOnReply(row, i))
    <2> SUFFICES ASSUME NEW row \in LeadRows, NEW i, Earned(l, row)
                 PROVE  Earned(l, StopOnReply(row, i))
        OBVIOUS
    <2>1. /\ StopOnReply(row, i).steps_sent = row.steps_sent
          /\ StopOnReply(row, i).state \in {"failed", "paused"}
        BY DEF StopOnReply, LeadRows
    <2> QED  BY <2>1 DEF Earned
<1>3. \A row \in LeadRows : \A x : Earned(l, row) => Earned(l, FailLead(row, x))
    <2> SUFFICES ASSUME NEW row \in LeadRows, NEW x, Earned(l, row)
                 PROVE  Earned(l, FailLead(row, x))
        OBVIOUS
    <2>1. /\ FailLead(row, x).steps_sent = row.steps_sent
          /\ FailLead(row, x).state = "failed"
        BY DEF FailLead, LeadRows
    <2> QED  BY <2>1 DEF Earned
<1> QED  BY <1>1, <1>2, <1>3

-----------------------------------------------------------------------------
(* What a step leaves alone stays real.                                    *)

LEMMA SlotStays ==
    ASSUME MailGrows, Follows(jobs, jobs')
    PROVE  \A s : SlotTyped(s) /\ SlotEarned(s) => SlotEarned(s)'
<1> SUFFICES ASSUME NEW s, SlotTyped(s), SlotEarned(s)
             PROVE  SlotEarned(s)'
    OBVIOUS
<1>1. CASE s.phase = "idle"
    BY <1>1 DEF SlotEarned
<1>2. CASE s.phase # "idle"
    <2>1. /\ jobs'[s.job].lead = jobs[s.job].lead
          /\ jobs'[s.job].position = jobs[s.job].position
        BY <1>2 DEF SlotTyped, Follows
    <2>2. s.phase = "accepted" => /\ mail'[s.msg].to = mail[s.msg].to
                                  /\ mail'[s.msg].body = mail[s.msg].body
        BY DEF SlotTyped, MailGrows
    <2> QED  BY <2>1, <2>2, EarnedStays DEF SlotEarned
<1> QED  BY <1>1, <1>2

LEMMA Links == LinksAreFaithful <=> \A j \in DOMAIN jobs : Linked(jobs[j])
BY DEF LinksAreFaithful, Linked

\* Mail that does not change has not shrunk.
LEMMA MailSame == mail' = mail => MailGrows
BY DEF MailGrows

LEMMA LeadsKept ==
    ASSUME MailGrows, \A l \in Leads : Earned(l, lead'[l])
    PROVE  LeadsEarned'
BY EarnedStays DEF LeadsEarned

LEMMA RepliesKept ==
    ASSUME MailGrows, \A r \in Consumers : ReplyEarned(reply'[r])
    PROVE  RepliesEarned'
BY EarnedStays DEF RepliesEarned, ReplyEarned

LEMMA LinksKept ==
    ASSUME MailGrows, \A j \in DOMAIN jobs' : Linked(jobs'[j])
    PROVE  LinksAreFaithful'
BY DEF LinksAreFaithful, MailGrows, Linked

\* Slots that keep their place, or begin or end a transaction.
LEMMA SlotsKept ==
    ASSUME Typed, SlotsEarned, MailGrows, Follows(jobs, jobs'),
           \A w \in Workers : send'[w] = send[w] \/ send'[w].phase \in {"idle", "claimed"}
    PROVE  SlotsEarned'
<1> SUFFICES ASSUME NEW w \in Workers
             PROVE  SlotEarned(send[w])'
    BY DEF SlotsEarned
<1>1. CASE send'[w] = send[w]
    <2>1. SlotTyped(send[w]) /\ SlotEarned(send[w])
        BY DEF Typed, SlotsTyped, SlotsEarned
    <2> QED  BY <1>1, <2>1, SlotStays DEF SlotEarned
<1>2. CASE send'[w].phase \in {"idle", "claimed"}
    BY <1>2 DEF SlotEarned
<1> QED  BY <1>1, <1>2

\* Steps that send and record nothing.
LEMMA TablesReal ==
    ASSUME Typed, Real, mail' = mail, Follows(jobs, jobs'),
           \A l \in Leads : Earned(l, lead'[l]),
           \A j \in DOMAIN jobs' : Linked(jobs'[j]),
           \A w \in Workers : send'[w] = send[w] \/ send'[w].phase \in {"idle", "claimed"},
           \A r \in Consumers : ReplyEarned(reply'[r])
    PROVE  Real'
<1>1. MailGrows
    BY MailSame
<1>2. StepsInOrder'
    BY DEF Real, StepsInOrder
<1> QED  BY <1>1, <1>2, LeadsKept, RepliesKept, LinksKept, SlotsKept DEF Real

\* What they leave alone.
LEMMA RealNow ==
    ASSUME Typed, Real
    PROVE  /\ \A l \in Leads : Earned(l, lead[l])
           /\ \A j \in DOMAIN jobs : Linked(jobs[j])
           /\ \A r \in Consumers : ReplyEarned(reply[r])
           /\ Follows(jobs, jobs)
BY Links DEF Real, LeadsEarned, RepliesEarned, Typed, TypeOK, Follows

\* Steps that leave all of that alone.
LEMMA SameReal ==
    ASSUME Typed, Real, UNCHANGED <<lead, jobs, mail, send, reply>>
    PROVE  Real'
BY RealNow, TablesReal

-----------------------------------------------------------------------------
(* Steps that only move one slot or one consumer.                          *)

LEMMA SlotReal ==
    ASSUME Typed, Real, NEW w \in Workers, NEW s,
           send' = [send EXCEPT ![w] = s], SlotEarned(s),
           UNCHANGED <<lead, jobs, mail, reply>>
    PROVE  Real'
<1>1. SlotsEarned'
    BY DEF Typed, TypeOK, Real, SlotsEarned, SlotEarned, Earned, Recorded, SentTo
<1>2. StepsInOrder'
    BY DEF Real, StepsInOrder
<1> QED  BY <1>1, <1>2, MailSame, LeadsKept, RepliesKept, LinksKept, RealNow DEF Real

LEMMA ConsumerReal ==
    ASSUME Typed, Real, NEW r \in Consumers, NEW p,
           reply' = [reply EXCEPT ![r] = p], ReplyEarned(p),
           UNCHANGED <<lead, jobs, mail, send>>
    PROVE  Real'
<1>1. \A q \in Consumers : ReplyEarned(reply'[q])
    BY RealNow DEF Typed, TypeOK
<1> QED  BY <1>1, RealNow, TablesReal

\* A load takes a copy of an earned row; the job's step is the next one, or
\* the slot goes no further.
LEMMA LoadReal ==
    ASSUME Typed, Real, NEW w \in Workers, Load(w)
    PROVE  Real'
<1> DEFINE j == send[w].job
           row == lead[jobs[j].lead]
           x == IF AcceptsSend(status, row, jobs[j].position) THEN "loaded" ELSE "ineligible"
           n == IF w \in LockingWorkers THEN jobs[j].attempts ELSE send[w].attempts
           s == [send[w] EXCEPT !.phase = x, !.attempts = n, !.snap = row]
<1>1. send[w] \in Sends /\ j \in DOMAIN jobs
    BY DEF Load, Typed, TypeOK, SlotsTyped, SlotTyped
<1>2. jobs[j].lead \in Leads
    BY <1>1, JobDomain DEF Typed, TypeOK, Jobs
<1>3. Earned(jobs[j].lead, row)
    BY <1>2, RealNow
<1>4. x \in {"loaded", "ineligible"} /\ (x = "loaded" => row.steps_sent = jobs[j].position - 1)
    BY DEF AcceptsSend
<1>5. send' = [send EXCEPT ![w] = s] /\ UNCHANGED <<lead, jobs, mail, reply>>
    BY DEF Load, tables
<1> HIDE DEF row, x, n
<1>6. s.phase = x /\ s.job = j /\ s.snap = row
    BY <1>1 DEF Sends
<1> HIDE DEF s
<1>7. SlotEarned(s)
    BY <1>3, <1>4, <1>6 DEF SlotEarned
<1> QED  BY <1>5, <1>7, SlotReal

\* The steps that change a slot and nothing else.
LEMMA SlotStepsReal ==
    ASSUME Typed, Real, NEW w \in Workers,
           \/ CheckSuppression(w) \/ TakeMailbox(w) \/ DispatchFails(w)
           \/ ReadAgain(w) \/ NotClaimed(w)
    PROVE  Real'
<1>1. send[w] \in Sends /\ SlotEarned(send[w])
    BY DEF Typed, TypeOK, Real, SlotsEarned
<1>2. UNCHANGED <<lead, jobs, mail, reply>>
    BY DEF CheckSuppression, TakeMailbox, DispatchFails, ReadAgain, NotClaimed, tables
<1>3. ASSUME NEW s, send' = [send EXCEPT ![w] = s],
             send[w].phase \in {"loaded", "checked", "sending"},
             s.phase \in {"checked", "sending", "refused", "deferred", "failed"},
             s.job = send[w].job, s.snap = send[w].snap
      PROVE  Real'
    <2>1. SlotEarned(s)
        BY <1>1, <1>3 DEF SlotEarned
    <2> QED  BY <1>2, <1>3, <2>1, SlotReal
<1>4. CASE CheckSuppression(w)
    <2> DEFINE x == IF JobOf(w).lead \in suppressed THEN "refused" ELSE "checked"
               s == [send[w] EXCEPT !.phase = x]
    <2>1. send[w].phase = "loaded" /\ send' = [send EXCEPT ![w] = s]
        BY <1>4 DEF CheckSuppression, Move
    <2>2. x \in {"checked", "refused"}
        OBVIOUS
    <2> HIDE DEF x
    <2>3. s.job = send[w].job /\ s.snap = send[w].snap /\ s.phase = x
        BY <1>1 DEF Sends
    <2> HIDE DEF s
    <2> QED  BY <1>3, <2>1, <2>2, <2>3
<1>5. CASE TakeMailbox(w)
    <2> DEFINE free == /\ \A v \in Workers : ~HoldsMailbox(v)
                       /\ Cardinality(SentSince(day)) < DailySendCap
               x == IF free THEN "sending" ELSE "deferred"
               y == IF free THEN day ELSE 0
               s == [send[w] EXCEPT !.phase = x, !.since = y]
    <2>1. send[w].phase = "checked" /\ send' = [send EXCEPT ![w] = s]
        BY <1>5 DEF TakeMailbox
    <2>2. x \in {"sending", "deferred"}
        OBVIOUS
    <2> HIDE DEF x, y
    <2>3. s.job = send[w].job /\ s.snap = send[w].snap /\ s.phase = x
        BY <1>1 DEF Sends
    <2> HIDE DEF s
    <2> QED  BY <1>3, <2>1, <2>2, <2>3
<1>6. CASE DispatchFails(w)
    <2> DEFINE s == [send[w] EXCEPT !.phase = "failed", !.since = 0]
    <2>1. /\ send' = [send EXCEPT ![w] = s]
          /\ send[w].phase \in {"loaded", "checked", "sending"}
        BY <1>6 DEF DispatchFails
    <2>2. s.job = send[w].job /\ s.snap = send[w].snap /\ s.phase = "failed"
        BY <1>1 DEF Sends
    <2> HIDE DEF s
    <2> QED  BY <1>3, <2>1, <2>2
<1>7. CASE ReadAgain(w)
    <2> DEFINE row == lead[JobOf(w).lead]
               s == [send[w] EXCEPT !.seen = row]
    <2>1. send' = [send EXCEPT ![w] = s]
        BY <1>7 DEF ReadAgain
    <2> HIDE DEF row
    <2>2. /\ s.job = send[w].job /\ s.snap = send[w].snap
          /\ s.phase = send[w].phase /\ s.msg = send[w].msg
        BY <1>1 DEF Sends
    <2> HIDE DEF s
    <2>3. SlotEarned(s)
        BY <1>1, <2>2 DEF SlotEarned
    <2> QED  BY <1>2, <2>1, <2>3, SlotReal
<1>8. CASE NotClaimed(w)
    <2>1. SlotEarned(IdleSend)
        BY DEF SlotEarned, IdleSend
    <2> QED  BY <1>2, <1>8, <2>1, SlotReal DEF NotClaimed
<1> QED  BY <1>4, <1>5, <1>6, <1>7, <1>8

-----------------------------------------------------------------------------
(* Sending.                                                                *)

\* The provider takes a message.  The slot is at the step before it, in a copy
\* that is earned: that step is among the messages before this one.
LEMMA DeliverReal ==
    ASSUME Typed, Real, NEW w \in Workers, ProviderAccepts(w) \/ AnswerLost(w)
    PROVE  Real'
<1>1. /\ send[w].phase = "sending" /\ Deliver(w)
      /\ UNCHANGED <<lead, jobs, reply>>
    BY DEF ProviderAccepts, AnswerLost, Deliver
<1>2. PICK m \in Mails : /\ mail' = Append(mail, m)
                         /\ m.to = JobOf(w).lead /\ m.body = JobOf(w).position
    BY <1>1, Delivered
<1>3. /\ Len(mail) \in Nat /\ DOMAIN mail = 1..Len(mail)
      /\ DOMAIN mail' = DOMAIN mail \cup {Len(mail) + 1}
      /\ \A i \in DOMAIN mail : mail'[i] = mail[i]
      /\ mail'[Len(mail) + 1] = m
    BY <1>2, MailAppended DEF Typed, TypeOK
<1>4. MailGrows
    BY <1>3 DEF MailGrows
<1>5. /\ send[w] \in Sends /\ SlotTyped(send[w]) /\ SlotEarned(send[w])
      /\ JobOf(w) \in Jobs /\ jobs \in Seq(Jobs)
    <2>1. send[w] \in Sends /\ SlotTyped(send[w]) /\ SlotEarned(send[w])
        BY DEF Typed, TypeOK, SlotsTyped, Real, SlotsEarned
    <2> QED  BY <1>1, <2>1, JobDomain DEF SlotTyped, JobOf, Typed, TypeOK
<1>6. StepsInOrder'
    <2> SUFFICES ASSUME NEW i \in DOMAIN mail', mail'[i].body > 1
                 PROVE  \E h \in 1..(i - 1) : /\ mail'[h].to = mail'[i].to
                                              /\ mail'[h].body = mail'[i].body - 1
                                              /\ mail'[h].recorded
        BY DEF StepsInOrder
    <2>1. CASE i \in DOMAIN mail
        <3>1. PICK h \in 1..(i - 1) : /\ mail[h].to = mail[i].to
                                      /\ mail[h].body = mail[i].body - 1
                                      /\ mail[h].recorded
            BY <1>3, <2>1 DEF Real, StepsInOrder
        <3>2. h \in DOMAIN mail
            BY <1>3, <2>1, <3>1
        <3> QED  BY <1>3, <2>1, <3>1, <3>2
    <2>2. CASE i = Len(mail) + 1
        <3> DEFINE l == JobOf(w).lead
                   k == JobOf(w).position - 1
        <3>1. m.body = JobOf(w).position /\ m.to = l /\ mail'[i] = m
            BY <1>2, <1>3, <2>2
        <3>2. k \in 1..send[w].snap.steps_sent /\ Earned(l, send[w].snap)
            <4>1. /\ send[w].snap.steps_sent = JobOf(w).position - 1
                  /\ Earned(l, send[w].snap)
                BY <1>1, <1>5 DEF SlotEarned, JobOf
            <4>2. JobOf(w).position \in 1..Steps /\ JobOf(w).position > 1
                BY <1>5, <3>1 DEF Jobs
            <4> QED  BY <4>1, <4>2, DomainAssumption
        <3>3. PICK h \in DOMAIN mail : mail[h].to = l /\ mail[h].body = k /\ mail[h].recorded
            BY <3>2 DEF Earned, Recorded, SentTo
        <3>4. h \in 1..(i - 1)
            BY <1>3, <2>2
        <3> QED  BY <1>3, <3>1, <3>3, <3>4
    <2> QED  BY <1>3, <2>1, <2>2
<1>7. SlotsEarned'
    <2>1. Follows(jobs, jobs')
        BY <1>1, RealNow
    <2>2. PICK s : /\ send' = [send EXCEPT ![w] = s]
                   /\ s.job = send[w].job /\ s.snap = send[w].snap
                   /\ s.phase = "failed" \/ (s.phase = "accepted" /\ s.msg = Len(mail) + 1)
        <3>1. CASE ProviderAccepts(w)
            <4> DEFINE n == Len(mail) + 1
                       s == [send[w] EXCEPT !.phase = "accepted", !.msg = n]
            <4>1. send' = [send EXCEPT ![w] = s]
                BY <3>1 DEF ProviderAccepts
            <4> HIDE DEF n
            <4>2. s.job = send[w].job /\ s.snap = send[w].snap /\ s.phase = "accepted" /\ s.msg = n
                BY <1>5 DEF Sends
            <4> HIDE DEF s
            <4> QED  BY <4>1, <4>2 DEF n
        <3>2. CASE AnswerLost(w)
            <4> DEFINE s == [send[w] EXCEPT !.phase = "failed", !.since = 0]
            <4>1. send' = [send EXCEPT ![w] = s]
                BY <3>2 DEF AnswerLost
            <4>2. s.job = send[w].job /\ s.snap = send[w].snap /\ s.phase = "failed"
                BY <1>5 DEF Sends
            <4> HIDE DEF s
            <4> QED  BY <4>1, <4>2
        <3> QED  BY <3>1, <3>2
    <2>3. SlotEarned(s)'
        <3>1. /\ Earned(jobs[s.job].lead, s.snap)
              /\ s.snap.steps_sent = jobs[s.job].position - 1
            BY <1>1, <1>5, <2>2 DEF SlotEarned
        <3>2. Earned(jobs[s.job].lead, s.snap)'
            BY <1>1, <1>4, <3>1, EarnedStays
        <3> QED  BY <1>1, <1>2, <1>3, <2>2, <3>1, <3>2 DEF SlotEarned, JobOf
    <2>4. \A v \in Workers : v # w => SlotEarned(send[v])'
        <3> SUFFICES ASSUME NEW v \in Workers, v # w
                     PROVE  SlotEarned(send[v])'
            OBVIOUS
        <3>1. send'[v] = send[v] /\ SlotTyped(send[v]) /\ SlotEarned(send[v])
            BY <2>2 DEF Typed, TypeOK, SlotsTyped, Real, SlotsEarned
        <3> QED  BY <1>4, <2>1, <3>1, SlotStays DEF SlotEarned
    <2>5. send'[w] = s
        BY <2>2 DEF Typed, TypeOK
    <2> QED  BY <2>3, <2>4, <2>5 DEF SlotsEarned, SlotEarned
<1> QED  BY <1>1, <1>4, <1>6, <1>7, RealNow, LeadsKept, RepliesKept, LinksKept DEF Real

\* A job that is set to anything but done keeps its link.
LEMMA LinkedSet ==
    ASSUME Typed, Real, NEW r, Follows(jobs, r), DOMAIN r = DOMAIN jobs,
           \A j \in DOMAIN jobs : /\ r[j].outbound = jobs[j].outbound
                                  /\ r[j].status = "done" => jobs[j].status = "done"
    PROVE  \A j \in DOMAIN r : Linked(r[j])
BY RealNow DEF Linked, Follows

\* Messages are numbered from 1.
LEMMA MailDomain ==
    ASSUME mail \in Seq(Mails)
    PROVE  Len(mail) \in Nat /\ DOMAIN mail = 1..Len(mail)
BY LenProperties

\* The record of a message: the lead's row goes one step on, which is now
\* recorded, and the job carries the message.
LEMMA FinishSentReal ==
    ASSUME Typed, Real, NEW w \in Workers, FinishSent(w)
    PROVE  Real'
<1> DEFINE j == send[w].job
           done == [jobs EXCEPT ![j].status = "done", ![j].outbound = send[w].msg]
           next == Append(done, NewJob(jobs[j].lead, jobs[j].position + 1))
           newJobs == IF IsLastStep(jobs[j].position) THEN done ELSE next
<1>1. /\ send[w].phase = "accepted" /\ Finish(w, newJobs)
      /\ mail' = [mail EXCEPT ![send[w].msg].recorded = TRUE]
      /\ jobs' = newJobs
      /\ send' = [send EXCEPT ![w] = IdleSend]
      /\ reply' = reply
    BY DEF FinishSent, Finish
<1>2. /\ SlotTyped(send[w]) /\ SlotEarned(send[w])
      /\ send[w].msg \in DOMAIN mail /\ mail \in Seq(Mails)
    BY <1>1 DEF Typed, TypeOK, SlotsTyped, SlotTyped, Real, SlotsEarned
<1>2a. /\ JobOf(w) \in Jobs /\ j \in DOMAIN jobs /\ send[w].snap \in LeadRows
      /\ JobOf(w).lead \in Leads /\ JobOf(w).position \in 1..Steps
    BY <1>1, NewRowTyped DEF Outcomes, Jobs
<1>3. PICK l \in Leads, k \in 1..Steps : l = JobOf(w).lead /\ k = JobOf(w).position
    BY <1>2a
<1>4. /\ DOMAIN mail' = DOMAIN mail
      /\ \A i \in DOMAIN mail : /\ mail'[i].to = mail[i].to /\ mail'[i].body = mail[i].body
                                /\ mail[i].recorded => mail'[i].recorded
      /\ mail'[send[w].msg].recorded
    BY <1>1, <1>2, MailRecorded
<1>5. MailGrows
    BY <1>4 DEF MailGrows
<1>6. /\ mail'[send[w].msg].to = l /\ mail'[send[w].msg].body = k
      /\ Recorded(l, k)'
    <2>1. mail[send[w].msg].to = l /\ mail[send[w].msg].body = k
        BY <1>1, <1>2, <1>3 DEF SlotEarned, JobOf
    <2> QED  BY <1>2, <1>4, <2>1 DEF Recorded, SentTo
<1>7. LeadsEarned'
    <2> SUFFICES ASSUME NEW m \in Leads
                 PROVE  Earned(m, lead[m])'
        BY DEF LeadsEarned
    <2>1. Earned(m, lead[m])'
          \/ (m = l /\ lead'[m] = Written(lead[m], send[w].seen, RecordSent(send[w].snap, k)))
        <3>1. lead'[m] = lead[m] \/
                 (m = l /\ lead'[m] = Written(lead[m], send[w].seen, NewRow(w)))
            BY <1>1, <1>3, FinishLead DEF Outcomes
        <3>2. NewRow(w) = RecordSent(send[w].snap, k)
            BY <1>1, <1>3 DEF NewRow
        <3>3. Earned(m, lead[m])
            BY RealNow
        <3> QED  BY <1>5, <3>1, <3>2, <3>3, EarnedStays DEF Earned
    <2>2. ASSUME m = l, NEW row, row = RecordSent(send[w].snap, k)
          PROVE  Earned(l, row)'
        <3>1. /\ row.steps_sent = k
              /\ row.state = "done" => k = Steps
            BY <1>2a, <1>3, <2>2 DEF RecordSent, LeadRows, IsLastStep
        <3>2. \A i \in 1..(k - 1) : Recorded(l, i)'
            <4>1. send[w].snap.steps_sent = k - 1 /\ Earned(l, send[w].snap)
                BY <1>1, <1>2, <1>3 DEF SlotEarned, JobOf
            <4> QED  BY <1>5, <4>1, RecordedStays DEF Earned
        <3>3. \A i \in 1..k : Recorded(l, i)'
            BY <1>3, <1>6, <3>2
        <3> QED  BY <3>1, <3>3 DEF Earned
    <2>3. ASSUME m = l, NEW row, row = RecordSent(send[w].snap, k),
                 lead'[m] = Written(lead[m], send[w].seen, row)
          PROVE  Earned(m, lead[m])'
        <3>1. Earned(m, row)'
            BY <2>2, <2>3
        <3>2. \A now : Earned(m, now) => Earned(m, now)'
            BY <1>5, EarnedStays
        <3>3. Earned(m, lead[m])
            BY RealNow
        <3>4. /\ lead'[m].steps_sent \in {lead[m].steps_sent, row.steps_sent}
              /\ lead'[m].state \in {lead[m].state, row.state}
            BY <2>3 DEF Written
        <3>5. /\ \A i \in 1..lead[m].steps_sent : Recorded(m, i)'
              /\ lead[m].state = "done" => \A i \in 1..Steps : Recorded(m, i)'
            BY <3>2, <3>3 DEF Earned
        <3> QED  BY <3>1, <3>4, <3>5 DEF Earned
    <2> QED  BY <2>1, <2>3
<1>8. /\ Follows(jobs, jobs')
      /\ DOMAIN done = DOMAIN jobs
      /\ jobs'[j].outbound = send[w].msg
      /\ \A i \in DOMAIN jobs : i # j => jobs'[i] = jobs[i]
      /\ \A i \in DOMAIN jobs' \ DOMAIN jobs : jobs'[i] = NewJob(jobs[j].lead, jobs[j].position + 1)
    <2>1. /\ Follows(jobs, done) /\ DOMAIN done = DOMAIN jobs
          /\ done[j].outbound = send[w].msg
          /\ \A i \in DOMAIN jobs : i # j => done[i] = jobs[i]
        BY <1>1, DoneJobs
    <2>2. ~IsLastStep(jobs[j].position) =>
              /\ Follows(jobs, next)
              /\ \A i \in DOMAIN jobs : next[i] = done[i]
              /\ \A i \in DOMAIN next \ DOMAIN jobs :
                    next[i] = NewJob(jobs[j].lead, jobs[j].position + 1)
        BY <1>1, DoneJobs
    <2>3. /\ IsLastStep(jobs[j].position) => jobs' = done
          /\ ~IsLastStep(jobs[j].position) => jobs' = next
        BY <1>1
    <2> HIDE DEF done, next, newJobs
    <2>4. CASE IsLastStep(jobs[j].position)
        BY <2>1, <2>3, <2>4
    <2>5. CASE ~IsLastStep(jobs[j].position)
        BY <1>2a, <2>1, <2>2, <2>3, <2>5
    <2> QED  BY <2>4, <2>5
<1>9. LinksAreFaithful'
    <2> SUFFICES ASSUME NEW i \in DOMAIN jobs'
                 PROVE  Linked(jobs[i])'
        BY DEF LinksAreFaithful, Linked
    <2>1. CASE i = j
        <3>1. jobs'[j].lead = l /\ jobs'[j].position = k
            BY <1>2a, <1>3, <1>8 DEF Follows, JobOf
        <3>2. send[w].msg # 0
            BY <1>2, MailDomain
        <3> QED  BY <1>2, <1>4, <1>6, <1>8, <2>1, <3>1, <3>2 DEF Linked
    <2>2. CASE i # j /\ i \in DOMAIN jobs
        BY <1>5, <1>8, <2>2, RealNow DEF Linked, MailGrows
    <2>3. CASE i \notin DOMAIN jobs
        <3>1. jobs'[i] = NewJob(jobs[j].lead, jobs[j].position + 1)
            BY <1>8, <2>3
        <3> QED  BY <3>1 DEF Linked, NewJob
    <2> QED  BY <2>1, <2>2, <2>3
<1>10. StepsInOrder'
    <2> SUFFICES ASSUME NEW i \in DOMAIN mail', mail'[i].body > 1
                 PROVE  \E h \in 1..(i - 1) : /\ mail'[h].to = mail'[i].to
                                              /\ mail'[h].body = mail'[i].body - 1
                                              /\ mail'[h].recorded
        BY DEF StepsInOrder
    <2>1. PICK h \in 1..(i - 1) : /\ mail[h].to = mail[i].to
                                  /\ mail[h].body = mail[i].body - 1
                                  /\ mail[h].recorded
        BY <1>4 DEF Real, StepsInOrder
    <2>2. h \in DOMAIN mail
        BY <1>2, <1>4, <2>1, MailDomain
    <2> QED  BY <1>4, <2>1, <2>2
<1>11. SlotsEarned'
    <2>1. \A v \in Workers : send'[v] = send[v] \/ send'[v].phase \in {"idle", "claimed"}
        BY <1>1 DEF Typed, TypeOK, IdleSend
    <2> QED  BY <1>5, <1>8, <2>1, SlotsKept DEF Real
<1> QED  BY <1>1, <1>5, <1>7, <1>9, <1>10, <1>11, RepliesKept, RealNow DEF Real

-----------------------------------------------------------------------------
(* The other steps that change tables.                                     *)

\* A claim sets jobs running, whatever message they carry already.
LEMMA ClaimReal ==
    ASSUME Typed, Real, NEW S \in SUBSET Workers, NEW batch \in [S -> DOMAIN jobs],
           Claim(batch)
    PROVE  Real'
<1> DEFINE J == {batch[w] : w \in DOMAIN batch}
<1>1. /\ jobs' = [j \in DOMAIN jobs |->
              IF j \in J THEN [jobs[j] EXCEPT !.status = "running", !.attempts = @ + 1]
              ELSE jobs[j]]
      /\ send' = [w \in Workers |->
              IF w \in S
              THEN [IdleSend EXCEPT !.phase = "claimed", !.job = batch[w],
                                    !.attempts = jobs[batch[w]].attempts + 1]
              ELSE send[w]]
      /\ UNCHANGED <<lead, mail, reply>>
    BY DEF Claim, ClaimJobs
<1>2. Follows(jobs, jobs') /\ DOMAIN jobs' = DOMAIN jobs
    BY ClaimTyped
<1>3. \A j \in DOMAIN jobs : /\ jobs'[j].outbound = jobs[j].outbound
                             /\ jobs'[j].status = "done" => jobs[j].status = "done"
    <2> SUFFICES ASSUME NEW j \in DOMAIN jobs
                 PROVE  /\ jobs'[j].outbound = jobs[j].outbound
                        /\ jobs'[j].status = "done" => jobs[j].status = "done"
        OBVIOUS
    <2>1. jobs[j] \in Jobs
        BY JobDomain DEF Typed, TypeOK
    <2>2. CASE jobs'[j] = [jobs[j] EXCEPT !.status = "running", !.attempts = @ + 1]
        BY <2>1, <2>2, JobClaimed
    <2>3. CASE jobs'[j] = jobs[j]
        BY <2>3
    <2> QED  BY <1>1, <2>2, <2>3
<1>4. \A w \in Workers : send'[w] = send[w] \/ send'[w].phase \in {"idle", "claimed"}
    <2> SUFFICES ASSUME NEW w \in Workers, w \in S
                 PROVE  send'[w].phase = "claimed"
        BY <1>1
    <2> DEFINE k == batch[w]
               n == jobs[batch[w]].attempts + 1
    <2>1. send'[w] = [IdleSend EXCEPT !.phase = "claimed", !.job = k, !.attempts = n]
        BY <1>1
    <2> HIDE DEF k, n
    <2> QED  BY <2>1 DEF IdleSend
<1> QED  BY <1>1, <1>2, <1>3, <1>4, LinkedSet, RealNow, TablesReal

\* A commit that records no message fails its lead, or leaves it alone.
LEMMA FinishReal ==
    ASSUME Typed, Real, NEW w \in Workers, NEW newJobs, Finish(w, newJobs),
           send[w].phase \in Outcomes \ {"accepted"}, mail' = mail,
           Follows(jobs, newJobs), DOMAIN newJobs = DOMAIN jobs,
           \A j \in DOMAIN jobs : /\ newJobs[j].outbound = jobs[j].outbound
                                  /\ newJobs[j].status = "done" => jobs[j].status = "done"
    PROVE  Real'
<1>1. jobs' = newJobs /\ send' = [send EXCEPT ![w] = IdleSend] /\ reply' = reply
    BY DEF Finish
<1>2. \A l \in Leads : Earned(l, lead'[l])
    <2>1. Earned(JobOf(w).lead, NewRow(w))
        <3>1. Earned(JobOf(w).lead, send[w].snap) /\ send[w].snap \in LeadRows
            BY NewRowTyped DEF Real, SlotsEarned, SlotEarned, JobOf, Outcomes
        <3>2. \E x : NewRow(w) = FailLead(send[w].snap, x)
            BY DEF NewRow
        <3> QED  BY <3>1, <3>2, EarnedOperations
    <2>2. \A l \in Leads : lead'[l] = lead[l] \/
             (l = JobOf(w).lead /\ lead'[l] = Written(lead[l], send[w].seen, NewRow(w)))
        BY FinishLead
    <2> QED  BY <2>1, <2>2, RealNow, EarnedWritten
<1>3. \A v \in Workers : send'[v] = send[v] \/ send'[v].phase \in {"idle", "claimed"}
    BY <1>1 DEF Typed, TypeOK, IdleSend
<1> QED  BY <1>1, <1>2, <1>3, LinkedSet, RealNow, TablesReal

LEMMA FinishStepsReal ==
    ASSUME Typed, Real, NEW w \in Workers,
           \/ FinishSuppressed(w) \/ FinishFailed(w)
           \/ FinishDeferred(w) \/ FinishIneligible(w)
    PROVE  Real'
<1>1. ASSUME NEW x \in {"pending", "failed", "cancelled"}, Finish(w, Set(w, x)),
             send[w].phase \in Outcomes \ {"accepted"}, mail' = mail
      PROVE  Real'
    <2>1. x \in JobStatuses /\ x # "done"
        BY DEF JobStatuses
    <2>2. /\ Follows(jobs, Set(w, x)) /\ DOMAIN Set(w, x) = DOMAIN jobs
          /\ \A i \in DOMAIN jobs : /\ Set(w, x)[i].outbound = jobs[i].outbound
                                    /\ Set(w, x)[i].status \in {x, jobs[i].status}
        BY <1>1, <2>1, StatusJobs
    <2> QED  BY <1>1, <2>1, <2>2, FinishReal
<1>2. CASE FinishSuppressed(w)
    BY <1>1, <1>2 DEF FinishSuppressed, Outcomes
<1>3. CASE FinishFailed(w)
    <2> DEFINE x == IF Retries(send[w].attempts) THEN "pending" ELSE "failed"
    <2>1. Finish(w, Set(w, x)) /\ x \in {"pending", "failed"} /\ mail' = mail
          /\ send[w].phase \in Outcomes \ {"accepted"}
        BY <1>3 DEF FinishFailed, Outcomes
    <2> HIDE DEF x
    <2> QED  BY <1>1, <2>1
<1>4. CASE FinishDeferred(w)
    <2> DEFINE r == [jobs EXCEPT ![send[w].job].status = "pending",
                                 ![send[w].job].attempts = @ - 1]
    <2>1. Finish(w, r) /\ mail' = mail /\ send[w].phase \in Outcomes \ {"accepted"}
        BY <1>4 DEF FinishDeferred, Outcomes
    <2>2. /\ Follows(jobs, r) /\ DOMAIN r = DOMAIN jobs
          /\ \A i \in DOMAIN jobs : /\ r[i].outbound = jobs[i].outbound
                                    /\ r[i].status \in {"pending", jobs[i].status}
        BY <2>1, ReleasedJobs
    <2> HIDE DEF r
    <2> QED  BY <2>1, <2>2, FinishReal
<1>5. CASE FinishIneligible(w)
    BY <1>1, <1>5 DEF FinishIneligible, Outcomes
<1> QED  BY <1>2, <1>3, <1>4, <1>5

LEMMA WorkersCrashReal ==
    ASSUME Typed, Real, NEW S \in SUBSET Workers, WorkersCrash(S)
    PROVE  Real'
<1>1. \A w \in Workers : send'[w] = send[w] \/ send'[w].phase \in {"idle", "claimed"}
    BY DEF WorkersCrash, IdleSend
<1> QED  BY <1>1, RealNow, TablesReal DEF WorkersCrash, tables

\* New jobs carry no message.
LEMMA NewJobsLinked ==
    ASSUME Typed, Real, NEW L \in SUBSET Leads
    PROVE  LET r == jobs \o FirstJobs(L)
           IN  Follows(jobs, r) /\ \A j \in DOMAIN r : Linked(r[j])
<1> DEFINE r == jobs \o FirstJobs(L)
<1>1. /\ Follows(jobs, r)
      /\ \A j \in DOMAIN jobs : r[j] = jobs[j]
      /\ \A j \in DOMAIN r \ DOMAIN jobs : \E l \in L : r[j] = NewJob(l, 1)
    BY JobsAdded DEF Typed, TypeOK
<1> HIDE DEF r
<1>2. \A l : Linked(NewJob(l, 1))
    BY DEF Linked, NewJob
<1>3. \A j \in DOMAIN r : Linked(r[j])
    BY <1>1, <1>2, RealNow
<1> QED  BY <1>1, <1>3 DEF r

LEMMA AddLeadsCommitReal ==
    ASSUME Typed, Real, NEW c \in Clients, AddLeadsCommit(c)
    PROVE  Real'
<1> DEFINE r == jobs \o FirstJobs(request[c].leads)
<1>1. PICK row \in {NewLead, Scheduled(NewLead)} :
          /\ lead' = [l \in Leads |-> IF l \in request[c].leads THEN row ELSE lead[l]]
          /\ jobs' \in {jobs, r}
          /\ UNCHANGED <<mail, send, reply>>
    BY DEF AddLeadsCommit, AddRows, RequestUnchanged
<1>2. Follows(jobs, r) /\ \A j \in DOMAIN r : Linked(r[j])
    <2>1. request[c].leads \in SUBSET Leads
        BY DEF Typed, TypeOK, Requests
    <2> QED  BY <2>1, NewJobsLinked
<1> HIDE DEF r
<1>3. \A l \in Leads : Earned(l, lead'[l])
    BY <1>1, RealNow, EarnedOperations
<1> QED  BY <1>1, <1>2, <1>3, RealNow, TablesReal

LEMMA StartCommitReal ==
    ASSUME Typed, Real, NEW c \in Clients, StartCommit(c)
    PROVE  Real'
<1> DEFINE r == jobs \o FirstJobs(request[c].leads)
<1>1. /\ lead' = [l \in Leads |->
             IF l \in request[c].leads
             THEN Written(lead[l], request[c].seen[l], Scheduled(NewLead))
             ELSE lead[l]]
      /\ jobs' = r
      /\ UNCHANGED <<mail, send, reply>>
    BY DEF StartCommit, RequestUnchanged
<1>2. Follows(jobs, r) /\ \A j \in DOMAIN r : Linked(r[j])
    <2>1. request[c].leads \in SUBSET Leads
        BY DEF Typed, TypeOK, Requests
    <2> QED  BY <2>1, NewJobsLinked
<1> HIDE DEF r
<1>3. \A l \in Leads : Earned(l, lead'[l])
    BY <1>1, RealNow, EarnedOperations, EarnedWritten
<1> QED  BY <1>1, <1>2, <1>3, RealNow, TablesReal

-----------------------------------------------------------------------------
(* The reply consumer.                                                     *)

\* What a consumer sees of a lead is earned.
LEMMA RowForEarned ==
    ASSUME Typed, Real, NEW r \in Consumers, NEW l \in Leads
    PROVE  Earned(l, RowFor(r, l))
BY RealNow DEF RowFor, ReplyEarned

LEMMA ReplyStepsReal ==
    ASSUME Typed, Real, NEW r \in Consumers,
           \/ ReplyClaim(r) \/ ReplyIgnored(r) \/ ReplyLoad(r)
           \/ ReplyReadAgain(r) \/ ReplyFlush(r) \/ ConsumerCrash(r)
    PROVE  Real'
<1>1. reply[r] \in Replies /\ ReplyTyped(reply[r]) /\ ReplyEarned(reply[r])
    BY RealNow DEF Typed, TypeOK, RepliesTyped
<1>2. UNCHANGED <<lead, jobs, mail, send>>
    BY DEF ReplyClaim, ReplyIgnored, ReplyLoad, ReplyReadAgain, ReplyFlush, ConsumerCrash,
           ReplyUnchanged, tables
<1>3. CASE ReplyClaim(r)
    <2> DEFINE B == NextBatch
               p == [reply[r] EXCEPT !.phase = "claimed", !.batch = B, !.todo = B]
    <2>1. reply' = [reply EXCEPT ![r] = p]
        BY <1>3 DEF ReplyClaim
    <2> HIDE DEF B
    <2>2. p.phase = "claimed" /\ p.rows = reply[r].rows
        BY <1>1 DEF Replies
    <2> HIDE DEF p
    <2> QED  BY <1>1, <1>2, <2>1, <2>2, ConsumerReal DEF ReplyEarned
<1>4. CASE ReplyIgnored(r)
    <2>1. PICK e \in Unprocessed : reply' = [reply EXCEPT ![r].todo = @ \ {e}]
        BY <1>4 DEF ReplyIgnored
    <2> DEFINE T == reply[r].todo \ {e}
               p == [reply[r] EXCEPT !.todo = T]
    <2>2. reply' = [reply EXCEPT ![r] = p] /\ reply[r].phase = "claimed"
        BY <1>4, <2>1 DEF ReplyIgnored
    <2> HIDE DEF T
    <2>3. p.phase = reply[r].phase /\ p.rows = reply[r].rows
        BY <1>1 DEF Replies
    <2> HIDE DEF p
    <2> QED  BY <1>1, <1>2, <2>2, <2>3, ConsumerReal DEF ReplyEarned
<1>5. CASE ReplyLoad(r)
    <2>1. PICK e \in Unprocessed : \E l \in LeadsOf(events[e].mail) :
              reply' = [reply EXCEPT ![r].phase = "loaded", ![r].lead = l,
                     ![r].new = StopOnReply(RowFor(r, l), events[e].intent)]
        BY <1>5 DEF ReplyLoad
    <2>2. PICK l \in LeadsOf(events[e].mail) :
              reply' = [reply EXCEPT ![r].phase = "loaded", ![r].lead = l,
                     ![r].new = StopOnReply(RowFor(r, l), events[e].intent)]
        BY <2>1
    <2> DEFINE new == StopOnReply(RowFor(r, l), events[e].intent)
               p == [reply[r] EXCEPT !.phase = "loaded", !.lead = l, !.new = new]
    <2>3. Earned(l, new)
        <3>1. PICK j \in DOMAIN jobs : l = jobs[j].lead
            BY DEF LeadsOf
        <3>2. l \in Leads /\ Added(l)
            BY <3>1, JobDomain DEF Jobs, Typed, TypeOK, JobsTyped
        <3> QED  BY <3>2, RowForTyped, RowForEarned, EarnedOperations
    <2>4. reply' = [reply EXCEPT ![r] = p]
        BY <2>2
    <2> HIDE DEF new
    <2>5. p.lead = l /\ p.new = new /\ p.rows = reply[r].rows
        BY <1>1 DEF Replies
    <2> HIDE DEF p
    <2> QED  BY <1>1, <1>2, <2>3, <2>4, <2>5, ConsumerReal DEF ReplyEarned
<1>6. CASE ReplyReadAgain(r)
    <2> DEFINE row == RowFor(r, reply[r].lead)
               p == [reply[r] EXCEPT !.phase = "read", !.seen = row]
    <2>1. reply' = [reply EXCEPT ![r] = p] /\ reply[r].phase = "loaded"
        BY <1>6 DEF ReplyReadAgain
    <2> HIDE DEF row
    <2>2. p.lead = reply[r].lead /\ p.new = reply[r].new /\ p.rows = reply[r].rows
        BY <1>1 DEF Replies
    <2> HIDE DEF p
    <2> QED  BY <1>1, <1>2, <2>1, <2>2, ConsumerReal DEF ReplyEarned
<1>7. CASE ReplyFlush(r)
    <2> DEFINE l == reply[r].lead
               row == Written(RowFor(r, l), reply[r].seen, reply[r].new)
               R == [reply[r].rows EXCEPT ![l] = row]
    <2>1. PICK e \in Unprocessed :
              reply' = [reply EXCEPT ![r] = [IdleReply EXCEPT
                     !.phase = "claimed", !.batch = reply[r].batch,
                     !.todo = reply[r].todo \ {e}, !.rows = R,
                     !.cancels = reply[r].cancels \cup PendingJobs(l)]]
        BY <1>7 DEF ReplyFlush
    <2>2. l \in Leads /\ Earned(l, row)
        BY <1>1, <1>7, RowForEarned, EarnedWritten DEF ReplyFlush, ReplyTyped, ReplyEarned
    <2>3. \A k \in Leads : Earned(k, R[k])
        <3>1. \A k \in Leads : R[k] = IF k = l THEN row ELSE reply[r].rows[k]
            BY <1>1 DEF Replies
        <3> HIDE DEF R, row
        <3> QED  BY <1>1, <2>2, <3>1 DEF ReplyEarned
    <2> DEFINE B == reply[r].batch
               T == reply[r].todo \ {e}
               C == reply[r].cancels \cup PendingJobs(l)
               p == [IdleReply EXCEPT !.phase = "claimed", !.batch = B, !.todo = T,
                                      !.rows = R, !.cancels = C]
    <2>4. reply' = [reply EXCEPT ![r] = p]
        BY <2>1
    <2> HIDE DEF B, T, C, R
    <2>5. p.phase = "claimed" /\ p.rows = R
        BY DEF IdleReply
    <2> HIDE DEF p
    <2> QED  BY <1>2, <2>3, <2>4, <2>5, ConsumerReal DEF ReplyEarned
<1>8. CASE ConsumerCrash(r)
    <2>1. ReplyEarned(IdleReply)
        BY EarnedOperations DEF ReplyEarned, IdleReply, NothingSeen
    <2> QED  BY <1>2, <1>8, <2>1, ConsumerReal DEF ConsumerCrash
<1> QED  BY <1>3, <1>4, <1>5, <1>6, <1>7, <1>8

LEMMA ReplyCommitReal ==
    ASSUME Typed, Real, NEW r \in Consumers, ReplyCommit(r)
    PROVE  Real'
<1>1. /\ lead' = [l \in Leads |-> RowFor(r, l)]
      /\ jobs' = [j \in DOMAIN jobs |->
             IF j \in reply[r].cancels THEN [jobs[j] EXCEPT !.status = "cancelled"]
             ELSE jobs[j]]
      /\ reply' = [reply EXCEPT ![r] = IdleReply]
      /\ UNCHANGED <<mail, send>>
    BY DEF ReplyCommit, ReplyUnchanged
<1>2. Follows(jobs, jobs') /\ DOMAIN jobs' = DOMAIN jobs
    BY ReplyCommitTyped
<1>3. \A j \in DOMAIN jobs : /\ jobs'[j].outbound = jobs[j].outbound
                             /\ jobs'[j].status = "done" => jobs[j].status = "done"
    <2> SUFFICES ASSUME NEW j \in DOMAIN jobs
                 PROVE  /\ jobs'[j].outbound = jobs[j].outbound
                        /\ jobs'[j].status = "done" => jobs[j].status = "done"
        OBVIOUS
    <2>1. jobs[j] \in Jobs /\ "cancelled" \in JobStatuses
        BY JobDomain DEF Typed, TypeOK, JobStatuses
    <2>2. CASE jobs'[j] = [jobs[j] EXCEPT !.status = "cancelled"]
        BY <2>1, <2>2, JobStatusSet
    <2>3. CASE jobs'[j] = jobs[j]
        BY <2>3
    <2> QED  BY <1>1, <2>2, <2>3
<1>4. \A l \in Leads : Earned(l, lead'[l])
    BY <1>1, RowForEarned
<1>5. \A q \in Consumers : ReplyEarned(reply'[q])
    <2>1. ReplyEarned(IdleReply)
        BY EarnedOperations DEF ReplyEarned, IdleReply, NothingSeen
    <2> QED  BY <1>1, <2>1, RealNow DEF Typed, TypeOK
<1> QED  BY <1>1, <1>2, <1>3, <1>4, <1>5, LinkedSet, TablesReal

-----------------------------------------------------------------------------
(* The invariant and what follows from it.                                 *)

LEMMA RealInitially == Init => Real
<1> SUFFICES ASSUME Init PROVE Real
    OBVIOUS
<1>1. LeadsEarned
    BY EarnedOperations DEF Init, LeadsEarned
<1>2. SlotsEarned
    BY DEF Init, SlotsEarned, SlotEarned, IdleSend
<1>3. RepliesEarned
    BY EarnedOperations DEF Init, RepliesEarned, ReplyEarned, IdleReply, NothingSeen
<1>4. LinksAreFaithful /\ StepsInOrder
    <2>1. DOMAIN jobs = {} /\ DOMAIN mail = {}
        BY EmptySeq DEF Init
    <2> QED  BY <2>1 DEF LinksAreFaithful, StepsInOrder
<1> QED  BY <1>1, <1>2, <1>3, <1>4 DEF Real

\* One step per group of actions.
LEMMA RealStep == Typed /\ Real /\ [Next]_vars => Real'
<1> SUFFICES ASSUME Typed, Real, [Next]_vars PROVE Real'
    OBVIOUS
<1>1. CASE ClientNext
    <2>1. PICK c \in Clients :
              \/ AddLeadsCommit(c) \/ StartCommit(c)
              \/ (AddLeadsRead(c) \/ AddLeadsConflict(c) \/ StartRead(c)
                     \/ StartList(c) \/ StartFlush(c))
        BY <1>1 DEF ClientNext
    <2>2. CASE AddLeadsCommit(c) \/ StartCommit(c)
        BY <2>2, AddLeadsCommitReal, StartCommitReal
    <2>3. CASE AddLeadsRead(c) \/ AddLeadsConflict(c) \/ StartRead(c)
                  \/ StartList(c) \/ StartFlush(c)
        BY <2>3, SameReal DEF AddLeadsRead, AddLeadsConflict, StartRead, StartList,
                              StartFlush, RequestUnchanged
    <2> QED  BY <2>1, <2>2, <2>3
<1>2. CASE ClaimNext
    BY <1>2, ClaimReal DEF ClaimNext
<1>3. CASE ProcessNext
    BY <1>3, LoadReal, SlotStepsReal, DeliverReal, FinishSentReal, FinishStepsReal
       DEF ProcessNext
<1>4. CASE CrashNext
    BY <1>4, WorkersCrashReal DEF CrashNext
<1>5. CASE PollNext
    BY <1>5, SameReal DEF PollNext, Answer
<1>6. CASE ReplyNext
    BY <1>6, ReplyStepsReal, ReplyCommitReal DEF ReplyNext
<1>7. CASE NextDay
    BY <1>7, SameReal DEF NextDay, tables
<1>8. CASE UNCHANGED vars
    BY <1>8, SameReal DEF vars
<1> QED  BY <1>1, <1>2, <1>3, <1>4, <1>5, <1>6, <1>7, <1>8 DEF Next

\* The invariant holds: every copy of a lead row, also a stale one, claims
\* only what was sent and recorded.
THEOREM Invariance == Spec => []IInv
<1>1. Init => IInv
    BY TypedInitially, RealInitially DEF IInv
<1>2. IInv /\ [Next]_vars => IInv'
    BY TypedStep, RealStep DEF IInv
<1> QED  BY <1>1, <1>2, PTL DEF Spec

\* No lead row ever claims a step that was not sent and recorded, whatever
\* stale snapshots LeadRepository.update_many writes over it, for any number
\* of workers, consumers and requests.
THEOREM NoPhantomProgressHolds == Spec => []NoPhantomProgress
<1>1. IInv => NoPhantomProgress
    BY DEF IInv, Real, LeadsEarned, Earned, NoPhantomProgress
<1> QED  BY <1>1, Invariance, PTL

\* A job's outbound message is a recorded message of its own lead and step,
\* and a done job has one, however many workers have set the job.
THEOREM LinksHold == Spec => []LinksAreFaithful
<1>1. IInv => LinksAreFaithful
    BY DEF IInv, Real
<1> QED  BY <1>1, Invariance, PTL

\* The provider gets a follow-up only after the step before it was recorded,
\* also when leases overlap and steps are sent twice.
THEOREM OrderHolds == Spec => []StepsInOrder
<1>1. IInv => StepsInOrder
    BY DEF IInv, Real
<1> QED  BY <1>1, Invariance, PTL

=============================================================================
