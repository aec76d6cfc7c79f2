------------------------ MODULE PythonWorker_proofs -------------------------
(***************************************************************************)
(* What holds because the Python worker does one thing at a time, for      *)
(* every value of the constants, while the API's requests do not overlap.  *)
(*                                                                         *)
(* The transactions of CampaignSending are allowed stale copies; here none *)
(* is stale.  Leads, jobs and suppressions that a slot has read are        *)
(* changed by nobody else until it commits: the consumer and the poller    *)
(* wait for their turn, the other slots for theirs, and a request touches  *)
(* only leads that are new, or, at the start, a campaign without jobs.     *)
(* The same holds of what the consumer has read.  So the worker's turns do *)
(* what the row locks of the internal route do, leads and jobs keep in     *)
(* step, rows only move on, and no count that is reported drops.           *)
(***************************************************************************)
EXTENDS PythonWorker, CampaignQueries, CampaignSending_counts, CampaignSending_proofs

TurnOK == turn \in Turns

\* Slots are busy in the drain only, consumers in the dispatch only, and one
\* transaction is open at a time.
TurnsTaken ==
    /\ turn # "drain" => \A w \in Workers : send[w].phase = "idle"
    /\ turn # "dispatch" => \A r \in Consumers : reply[r].phase = "idle"
    /\ \A v, w \in Workers : Begun(send[v]) /\ Begun(send[w]) => v = w

\* Busy slots have running jobs, each its own.
JobsHeld ==
    /\ \A w \in Workers : send[w].phase # "idle" => jobs[send[w].job].status = "running"
    /\ \A v, w \in Workers :
          send[v].phase # "idle" /\ send[w].phase # "idle" /\ send[v].job = send[w].job => v = w

\* What a slot has read is what the tables say.
SlotFresh(s) ==
    LET l == jobs[s.job].lead
    IN  /\ s.phase = "claimed" => s.seen = NoRow
        /\ Begun(s) /\ s.phase # "ineligible" =>
              /\ lead[l].state \in Sendable
              /\ s.snap = lead[l]
              /\ s.seen \in {NoRow, lead[l]}
        /\ s.phase \in {"checked", "sending"} => l \notin suppressed

SlotsFresh == \A w \in Workers : SlotFresh(send[w])

-----------------------------------------------------------------------------
\* The lead that an event is about.
About(e) == mail[events[e].mail].to

\* A consumer has every unprocessed event in hand, as long as there are no
\* more than a batch; it has stopped the leads of those it is done with, and
\* has all their pending jobs; what it has read is what the tables say.
ReplyFresh(r) ==
    LET p == reply[r]
    IN  /\ p.phase = "idle" => p = IdleReply
        /\ p.phase # "idle" =>
              /\ p.batch # {} /\ p.batch \subseteq Unprocessed
              /\ Len(events) <= ReplyBatchSize => Unprocessed \subseteq p.batch
        /\ \A l \in Leads : p.rows[l] # NoRow =>
              /\ lead[l].state \in Replyable /\ IsStopped(p.rows[l])
              /\ PendingJobs(l) \subseteq p.cancels
        /\ p.phase \in {"loaded", "read"} =>
              /\ StopsOnReply(RowFor(r, p.lead)) /\ IsStopped(p.new)
              /\ \A e \in Unprocessed : IsNext(r, e) => p.lead = About(e)
        /\ p.phase = "read" => p.seen = RowFor(r, p.lead)
        /\ \A e \in p.batch \ p.todo : IsStopped(RowFor(r, About(e)))
        /\ \A j \in p.cancels : j \in DOMAIN jobs /\ jobs[j].status = "pending"

RepliesFresh == \A r \in Consumers : ReplyFresh(r)

-----------------------------------------------------------------------------
\* A recorded message shows in its lead and in a job that is done for good;
\* events are about recorded messages.
MailShows ==
    \A m \in DOMAIN mail : mail[m].recorded =>
        /\ lead[mail[m].to].state \in {"sent", "done", "paused", "failed"}
        /\ \E j \in DOMAIN jobs : jobs[j].outbound = m

LinkIsDone == \A j \in DOMAIN jobs : jobs[j].outbound # 0 => jobs[j].status = "done"

EventsReal ==
    \A e \in DOMAIN events : events[e].mail \in DOMAIN mail /\ mail[events[e].mail].recorded

Answered == MailShows /\ LinkIsDone /\ EventsReal /\ RepliesTakeEffect

\* Before the worker claims jobs, it has consumed all replies it knows of.
CaughtUp ==
    turn \in {"claim", "drain"} /\ faults = 0 /\ Len(events) <= ReplyBatchSize =>
        DOMAIN events \subseteq processed

Held(j) == \E w \in Workers : send[w].phase # "idle" /\ send[w].job = j

\* Unless something has failed, a lead has at most one job to come, and none
\* once it is stopped; and running jobs are in hand.
Unfaulted ==
    faults = 0 =>
        /\ \A j, k \in DOMAIN jobs : Live(j) /\ Live(k) /\ jobs[j].lead = jobs[k].lead => j = k
        /\ \A j \in DOMAIN jobs : jobs[j].status = "running" => Held(j)
        /\ \A j \in DOMAIN jobs : Live(j) => ~IsStopped(lead[jobs[j].lead])

PInv ==
    /\ IInv /\ Orderly /\ TurnOK
    /\ TurnsTaken /\ JobsHeld /\ SlotsFresh /\ RepliesFresh
    /\ Answered /\ CaughtUp /\ Unfaulted

-----------------------------------------------------------------------------
(* The worker's steps are the campaign's.                                  *)

LEMMA StepsMap == [PythonNext]_pvars => [Next]_vars
<1> SUFFICES ASSUME [PythonNext]_pvars PROVE [Next]_vars
    OBVIOUS
<1>1. CASE Poll \/ Outside
    BY <1>1 DEF Poll, Outside, Next
<1>2. CASE Dispatch
    BY <1>2 DEF Dispatch, Next, ReplyNext
<1>3. CASE DispatchError
    BY <1>3 DEF DispatchError, Next, ReplyNext
<1>4. CASE ClaimBatch
    BY <1>4 DEF ClaimBatch, Next
<1>5. CASE Drain
    BY <1>5 DEF Drain, Next, ProcessNext
<1>6. CASE DrainError
    <2>1. {w \in Workers : send[w].phase # "idle"} \in SUBSET Workers
        OBVIOUS
    <2> QED  BY <1>6, <2>1 DEF DrainError, Next, CrashNext
<1>7. CASE UNCHANGED pvars
    BY <1>7 DEF pvars
<1> QED  BY <1>1, <1>2, <1>3, <1>4, <1>5, <1>6, <1>7 DEF PythonNext, Tick

LEMMA TurnTyped == TurnOK /\ [PythonNext]_pvars => TurnOK'
BY DEF TurnOK, Turns, PythonNext, Tick, Poll, Dispatch, DispatchError, ClaimBatch, Drain, DrainError,
       Outside, pvars

\* Whatever the Python worker does, the specification of the campaign, in
\* which every step may come at any time, allows.
THEOREM WorkerImplements == PythonSpec => Spec
<1>1. PythonInit => Init
    BY DEF PythonInit
<1> QED  BY <1>1, StepsMap, PTL DEF PythonSpec, Spec

\* Type correctness of the worker.
THEOREM PythonTypeCorrect == PythonSpec => []PythonTypeOK
<1>1. PythonInit => TurnOK
    BY DEF PythonInit, TurnOK, Turns
<1>2. TypeOK /\ TurnOK => PythonTypeOK
    BY DEF PythonTypeOK, TurnOK
<1>3. PythonSpec => []TypeOK
    BY WorkerImplements, TypeCorrect, PTL
<1> QED  BY <1>1, <1>2, <1>3, TurnTyped, PTL DEF PythonSpec

\* There is one consumer.
LEMMA OneConsumer == \E r : Consumers = {r}
BY PythonWorkerAssumption, FS_Singleton

-----------------------------------------------------------------------------
(* What a step that leaves some variables alone keeps.                     *)

LEMMA SlotsSame ==
    ASSUME JobsHeld, SlotsFresh, UNCHANGED <<lead, jobs, suppressed, send>>
    PROVE  JobsHeld' /\ SlotsFresh'
BY DEF JobsHeld, SlotsFresh, SlotFresh, Begun

LEMMA ConsumersSame ==
    ASSUME RepliesFresh, UNCHANGED <<lead, jobs, mail, events, processed, reply>>
    PROVE  RepliesFresh'
<1>1. /\ Unprocessed' = Unprocessed
      /\ \A l : PendingJobs(l)' = PendingJobs(l)
      /\ \A e : About(e)' = About(e)
    BY DEF Unprocessed, PendingJobs, About
<1>2. ASSUME NEW r \in Consumers
      PROVE  /\ \A l : RowFor(r, l)' = RowFor(r, l)
             /\ \A e : IsNext(r, e)' <=> IsNext(r, e)
    BY DEF RowFor, IsNext
<1>3. ASSUME NEW r \in Consumers
      PROVE  ReplyFresh(r)'
    <2>1. ReplyFresh(r)
        BY DEF RepliesFresh
    <2>2. reply'[r] = reply[r] /\ UNCHANGED <<lead, jobs, events>>
        OBVIOUS
    <2> QED  BY <1>1, <1>2, <2>1, <2>2 DEF ReplyFresh
<1> QED  BY <1>3 DEF RepliesFresh

LEMMA AnsweredSame ==
    ASSUME Answered, UNCHANGED <<lead, jobs, mail, events, processed>>
    PROVE  Answered'
BY DEF Answered, MailShows, LinkIsDone, EventsReal, RepliesTakeEffect

LEMMA UnfaultedSame ==
    ASSUME Unfaulted, UNCHANGED <<lead, jobs, send, faults>>
    PROVE  Unfaulted'
BY DEF Unfaulted, Live, Held

\* A fault leaves nothing to show of what needs that there was none.
LEMMA FaultShows ==
    ASSUME Typed, Fault
    PROVE  CaughtUp' /\ Unfaulted'
BY DEF Typed, TypeOK, Fault, CaughtUp, Unfaulted

\* Steps that only pass the turn on, or change what none of this is about.
LEMMA TablesSame ==
    ASSUME PInv, (IInv /\ Orderly /\ TurnOK)',
           UNCHANGED <<lead, jobs, mail, events, processed, suppressed, send, reply, faults>>,
           TurnsTaken', CaughtUp'
    PROVE  PInv'
BY SlotsSame, ConsumersSame, AnsweredSame, UnfaultedSame DEF PInv

-----------------------------------------------------------------------------
(* Requests.                                                               *)

\* A lead that a request may write: it is new, or not scheduled yet.
Untouched(l) == lead[l] \in {NoRow, NewLead}

\* Requests write leads that nothing has been done with, and add jobs for
\* leads that have none.
Requested ==
    /\ UNCHANGED <<mail, events, processed, suppressed, send, reply, faults, turn>>
    /\ \A l \in Leads : lead'[l] = lead[l] \/ (Untouched(l) /\ ~IsStopped(lead'[l]))
    /\ \A l \in Leads : lead'[l] = lead[l] \/ lead'[l].state \in {"pending", "scheduled"}
    /\ DOMAIN jobs \subseteq DOMAIN jobs'
    /\ \A j \in DOMAIN jobs : jobs'[j] = jobs[j]
    /\ \A j \in DOMAIN jobs' \ DOMAIN jobs :
          /\ \E l \in Leads : jobs'[j] = NewJob(l, 1) /\ Untouched(l) /\ ~IsStopped(lead'[l])
          /\ \A k \in DOMAIN jobs : jobs[k].lead # jobs'[j].lead

LEMMA UntouchedLead ==
    ASSUME NEW l, Untouched(l)
    PROVE  /\ lead[l].state \notin {"scheduled", "sent", "done", "paused", "failed"}
           /\ ~IsStopped(lead[l])
BY DEF Untouched, NoRow, NewLead, Null, IsStopped

LEMMA RequestedSlots ==
    ASSUME Typed, JobsHeld, SlotsFresh, Requested
    PROVE  JobsHeld' /\ SlotsFresh'
<1>1. \A w \in Workers : send[w].phase # "idle" =>
          /\ send[w].job \in DOMAIN jobs /\ jobs'[send[w].job] = jobs[send[w].job]
          /\ jobs[send[w].job].lead \in Leads
    BY JobDomain DEF Typed, TypeOK, SlotsTyped, SlotTyped, Requested, Jobs
<1>2. JobsHeld'
    BY <1>1 DEF JobsHeld, Requested
<1>3. SlotsFresh'
    <2> SUFFICES ASSUME NEW w \in Workers PROVE SlotFresh(send[w])'
        BY DEF SlotsFresh
    <2> DEFINE s == send[w]
               l == jobs[s.job].lead
    <2>1. SlotFresh(s) /\ UNCHANGED <<send, suppressed>>
        BY DEF SlotsFresh, Requested
    <2>2. CASE s.phase = "idle"
        BY <2>1, <2>2 DEF SlotFresh, Begun
    <2>3. CASE s.phase # "idle"
        <3>1. l \in Leads /\ jobs'[s.job] = jobs[s.job]
            BY <1>1, <2>3
        <3>2. lead[l].state \in Sendable => lead'[l] = lead[l]
            BY <3>1, UntouchedLead DEF Requested, Sendable
        <3> QED  BY <2>1, <3>1, <3>2 DEF SlotFresh, Begun
    <2> QED  BY <2>2, <2>3
<1> QED  BY <1>2, <1>3

LEMMA MailedTo ==
    ASSUME Typed
    PROVE  \A m \in DOMAIN mail : mail[m].to \in Leads /\ m \in Nat \ {0}
<1> SUFFICES ASSUME NEW m \in DOMAIN mail PROVE mail[m].to \in Leads /\ m \in Nat \ {0}
    OBVIOUS
<1>1. mail[m] \in Mails /\ m \in Nat \ {0}
    BY LenProperties, ElementOfSeq DEF Typed, TypeOK
<1> QED  BY <1>1 DEF Mails

LEMMA RequestedAnswers ==
    ASSUME Typed, Answered, Requested
    PROVE  Answered'
<1>1. \A m \in DOMAIN mail : mail[m].to \in Leads
    BY MailedTo
<1>2. MailShows'
    <2> SUFFICES ASSUME NEW m \in DOMAIN mail, mail[m].recorded
                 PROVE  /\ lead'[mail[m].to].state \in {"sent", "done", "paused", "failed"}
                        /\ \E j \in DOMAIN jobs' : jobs'[j].outbound = m
        BY DEF MailShows, Requested
    <2>1. lead[mail[m].to].state \in {"sent", "done", "paused", "failed"}
        BY DEF Answered, MailShows
    <2>2. lead'[mail[m].to] = lead[mail[m].to]
        BY <1>1, <2>1, UntouchedLead DEF Requested
    <2>3. PICK j \in DOMAIN jobs : jobs[j].outbound = m
        BY DEF Answered, MailShows
    <2> QED  BY <2>1, <2>2, <2>3 DEF Requested
<1>3. LinkIsDone'
    BY DEF Answered, LinkIsDone, Requested, NewJob
<1>4. EventsReal'
    BY DEF Answered, EventsReal, Requested
<1>5. RepliesTakeEffect'
    <2> SUFFICES ASSUME NEW e \in processed
                 PROVE  IsStopped(lead'[mail[events[e].mail].to])
        BY DEF RepliesTakeEffect, Requested
    <2>1. IsStopped(lead[mail[events[e].mail].to]) /\ events[e].mail \in DOMAIN mail
        BY DEF Answered, RepliesTakeEffect, EventsReal, Typed, TypeOK
    <2> QED  BY <1>1, <2>1, UntouchedLead DEF Requested
<1> QED  BY <1>2, <1>3, <1>4, <1>5 DEF Answered

LEMMA RequestedUnfaulted ==
    ASSUME Typed, Unfaulted, Orderly', Requested
    PROVE  Unfaulted'
<1> SUFFICES ASSUME faults = 0
             PROVE  /\ \A j, k \in DOMAIN jobs' :
                          Live(j)' /\ Live(k)' /\ jobs'[j].lead = jobs'[k].lead => j = k
                    /\ \A j \in DOMAIN jobs' : jobs'[j].status = "running" => Held(j)'
                    /\ \A j \in DOMAIN jobs' : Live(j)' => ~IsStopped(lead'[jobs'[j].lead])
    BY DEF Unfaulted, Requested
<1>1. \A j \in DOMAIN jobs : jobs'[j] = jobs[j] /\ jobs[j].lead \in Leads
    BY JobDomain DEF Typed, TypeOK, Jobs, Requested
<1>2. \A j \in DOMAIN jobs' \ DOMAIN jobs :
          /\ jobs'[j].position = 1 /\ jobs'[j].status = "pending"
          /\ ~IsStopped(lead'[jobs'[j].lead])
          /\ \A k \in DOMAIN jobs : jobs[k].lead # jobs'[j].lead
    BY DEF Requested, NewJob
<1>3. ASSUME NEW j \in DOMAIN jobs', NEW k \in DOMAIN jobs', Live(j)', Live(k)',
             jobs'[j].lead = jobs'[k].lead
      PROVE  j = k
    <2>1. CASE j \in DOMAIN jobs /\ k \in DOMAIN jobs
        BY <1>1, <1>3, <2>1 DEF Unfaulted, Live
    <2>2. CASE j \notin DOMAIN jobs /\ k \notin DOMAIN jobs
        BY <1>2, <1>3, <2>2 DEF Orderly, OneFirstJob
    <2>3. CASE (j \in DOMAIN jobs) # (k \in DOMAIN jobs)
        BY <1>1, <1>2, <1>3, <2>3
    <2> QED  BY <2>1, <2>2, <2>3
<1>4. \A j \in DOMAIN jobs' : jobs'[j].status = "running" => Held(j)'
    BY <1>1, <1>2 DEF Unfaulted, Held, Requested
<1>5. \A j \in DOMAIN jobs' : Live(j)' => ~IsStopped(lead'[jobs'[j].lead])
    BY <1>1, <1>2 DEF Unfaulted, Live, Requested
<1> QED  BY <1>3, <1>4, <1>5

LEMMA RequestedConsumers ==
    ASSUME Typed, EventsReal, RepliesFresh, Requested
    PROVE  RepliesFresh'
<1> SUFFICES ASSUME NEW r \in Consumers PROVE ReplyFresh(r)'
    BY DEF RepliesFresh
<1> DEFINE p == reply[r]
<1>1. /\ ReplyFresh(r) /\ p \in Replies /\ ReplyTyped(p)
      /\ UNCHANGED <<mail, events, processed, reply>>
    BY DEF RepliesFresh, Typed, TypeOK, RepliesTyped, Requested
<1>2. \A l \in Leads :
          lead[l].state \in {"scheduled", "sent", "done", "paused", "failed"} =>
              lead'[l] = lead[l] /\ PendingJobs(l)' = PendingJobs(l)
    <2> SUFFICES ASSUME NEW l \in Leads,
                        lead[l].state \in {"scheduled", "sent", "done", "paused", "failed"}
                 PROVE  lead'[l] = lead[l] /\ PendingJobs(l)' = PendingJobs(l)
        OBVIOUS
    <2>1. ~Untouched(l)
        BY UntouchedLead
    <2>2. \A j \in DOMAIN jobs' \ DOMAIN jobs : jobs'[j].lead # l
        BY <2>1 DEF Requested, NewJob
    <2> QED  BY <2>1, <2>2 DEF Requested, PendingJobs
<1>3. \A l \in Leads : /\ StopsOnReply(RowFor(r, l)) => RowFor(r, l)' = RowFor(r, l)
                       /\ IsStopped(RowFor(r, l)) => RowFor(r, l)' = RowFor(r, l)
    BY <1>1, <1>2 DEF RowFor, StopsOnReply, Replyable, IsStopped
<1>4. \A e \in p.batch : About(e) \in Leads /\ About(e)' = About(e)
    BY <1>1, MailedTo DEF ReplyTyped, EventsReal, About
<1>5. p.phase \in {"loaded", "read"} => p.lead \in Leads
    BY <1>1 DEF ReplyTyped
<1>6. \A l \in Leads : p.rows[l] # NoRow =>
          /\ lead'[l].state \in Replyable /\ IsStopped(p.rows[l])
          /\ PendingJobs(l)' \subseteq p.cancels
    BY <1>1, <1>2 DEF ReplyFresh, Replyable
<1>7. p.phase \in {"loaded", "read"} =>
          /\ StopsOnReply(RowFor(r, p.lead)') /\ IsStopped(p.new)
          /\ \A e \in Unprocessed : IsNext(r, e) => p.lead = About(e)
    BY <1>1, <1>3, <1>5 DEF ReplyFresh
<1>8. p.phase = "read" => p.seen = RowFor(r, p.lead)'
    BY <1>1, <1>3, <1>5 DEF ReplyFresh
<1>9. \A e \in p.batch \ p.todo : IsStopped(RowFor(r, About(e))')
    BY <1>1, <1>3, <1>4 DEF ReplyFresh
<1>10. \A j \in p.cancels : j \in DOMAIN jobs' /\ jobs'[j].status = "pending"
    BY <1>1 DEF ReplyFresh, Requested
<1>11. /\ p.phase = "idle" => p = IdleReply
       /\ p.phase # "idle" =>
             /\ p.batch # {} /\ p.batch \subseteq Unprocessed
             /\ Len(events) <= ReplyBatchSize => Unprocessed \subseteq p.batch
    BY <1>1 DEF ReplyFresh
<1>12. /\ Unprocessed' = Unprocessed /\ p' = p /\ Len(events)' = Len(events)
       /\ \A e : IsNext(r, e)' <=> IsNext(r, e)
       /\ \A e : About(e)' = About(e)
       /\ \A l : RowFor(r, l)' = IF p.rows[l] # NoRow THEN p.rows[l] ELSE lead'[l]
    BY <1>1 DEF Unprocessed, IsNext, About, RowFor
<1> HIDE DEF p
<1> QED  BY <1>6, <1>7, <1>8, <1>9, <1>10, <1>11, <1>12 DEF ReplyFresh, p

LEMMA AddLeadsRequested ==
    ASSUME Orderly, NEW c \in Clients, AddLeadsCommit(c), UNCHANGED turn
    PROVE  Requested
<1> DEFINE L == request[c].leads
           row == IF request[c].active THEN Scheduled(NewLead) ELSE NewLead
<1>1. /\ lead' = [l \in Leads |-> IF l \in L THEN row ELSE lead[l]]
      /\ jobs' = IF request[c].active THEN jobs \o FirstJobs(L) ELSE jobs
      /\ \A l \in L : ~Added(l)
      /\ UNCHANGED <<mail, events, processed, suppressed, send, reply, faults, turn>>
    BY DEF AddLeadsCommit, AddRows, RequestUnchanged
<1>2. L \in SUBSET Leads /\ jobs \in Seq(Jobs) /\ \A j \in DOMAIN jobs : Added(jobs[j].lead)
    BY DEF Orderly, Typed, TypeOK, Requests, JobsTyped
<1>3. ~IsStopped(row) /\ row.state \in {"pending", "scheduled"}
    BY DEF IsStopped, Scheduled, NewLead
<1> HIDE DEF L, row
<1>4. \A l \in Leads : lead'[l] = lead[l] \/ (Untouched(l) /\ ~IsStopped(lead'[l]))
    BY <1>1, <1>3 DEF Added, Untouched
<1>5. \A l \in L : Untouched(l) /\ ~IsStopped(lead'[l]) /\ l \in Leads
    BY <1>1, <1>2, <1>3 DEF Added, Untouched
<1>6. \A l \in Leads : lead'[l] = lead[l] \/ lead'[l].state \in {"pending", "scheduled"}
    BY <1>1, <1>3
<1>7. CASE jobs' = jobs
    BY <1>1, <1>4, <1>7, <1>6 DEF Requested
<1>8. CASE jobs' = jobs \o FirstJobs(L)
    <2>1. /\ DOMAIN jobs \subseteq DOMAIN jobs'
          /\ \A j \in DOMAIN jobs : jobs'[j] = jobs[j]
          /\ \A j \in DOMAIN jobs' \ DOMAIN jobs : \E l \in L : jobs'[j] = NewJob(l, 1)
        BY <1>2, <1>8, JobsAdded DEF Follows
    <2>2. \A j \in DOMAIN jobs : jobs[j].lead \notin L
        BY <1>1, <1>2
    <2>3. \A l \in L : NewJob(l, 1).lead = l
        BY DEF NewJob
    <2>4. \A j \in DOMAIN jobs' \ DOMAIN jobs :
              /\ \E l \in Leads : jobs'[j] = NewJob(l, 1) /\ Untouched(l) /\ ~IsStopped(lead'[l])
              /\ \A k \in DOMAIN jobs : jobs[k].lead # jobs'[j].lead
        BY <1>5, <2>1, <2>2, <2>3
    <2> QED  BY <1>1, <1>4, <1>6, <2>1, <2>4 DEF Requested
<1> QED  BY <1>1, <1>7, <1>8

\* A start finds a draft, and that is a campaign in which nothing was done.
LEMMA StartRequested ==
    ASSUME Orderly, Orderly', NEW c \in Clients, StartCommit(c), UNCHANGED turn
    PROVE  Requested
<1> DEFINE L == request[c].leads
<1>1. /\ lead' = [l \in Leads |->
             IF l \in L THEN Written(lead[l], request[c].seen[l], Scheduled(NewLead))
             ELSE lead[l]]
      /\ jobs' = jobs \o FirstJobs(L)
      /\ request[c].phase = "flushed"
      /\ UNCHANGED <<mail, events, processed, suppressed, send, reply, faults, turn>>
    BY DEF StartCommit, RequestUnchanged
<1>2. L \in SUBSET Leads /\ RequestFits(request[c]) /\ jobs \in Seq(Jobs)
    BY DEF Orderly, Typed, TypeOK, Requests, RequestsFit
<1>3. /\ \A l \in L : request[c].seen[l] = lead[l] /\ l \in Leads
      /\ jobs = <<>>
      /\ \A l \in Leads : Untouched(l)
    BY <1>1, <1>2 DEF RequestFits, Orderly, DraftIsBlank, Untouched
<1> HIDE DEF L
<1>4. \A l \in L : Written(lead[l], request[c].seen[l], Scheduled(NewLead)).state = "scheduled"
    <2> SUFFICES ASSUME NEW l \in L
                 PROVE  Written(lead[l], request[c].seen[l], Scheduled(NewLead)).state = "scheduled"
        OBVIOUS
    <2>1. Scheduled(NewLead).state = "scheduled" /\ request[c].seen[l] = lead[l]
        BY <1>3 DEF Scheduled, NewLead
    <2> QED  BY <2>1 DEF Written
<1>5. \A l \in Leads : lead'[l] = lead[l] \/ ~IsStopped(lead'[l])
    BY <1>1, <1>4 DEF IsStopped
<1>6. \A l \in Leads : ~IsStopped(lead'[l])
    BY <1>3, <1>5, UntouchedLead
<1>7. /\ DOMAIN jobs = {}
      /\ \A j \in DOMAIN jobs' \ DOMAIN jobs : \E l \in L : jobs'[j] = NewJob(l, 1)
    <2>1. \A j \in DOMAIN jobs' \ DOMAIN jobs : \E l \in L : jobs'[j] = NewJob(l, 1)
        BY <1>1, <1>2, JobsAdded
    <2>2. DOMAIN jobs = {}
        BY <1>3, EmptySeq
    <2> QED  BY <2>1, <2>2
<1>8. \A l \in Leads : lead'[l] = lead[l] \/ lead'[l].state \in {"pending", "scheduled"}
    BY <1>1, <1>4
<1> QED  BY <1>1, <1>3, <1>5, <1>6, <1>7, <1>8 DEF Requested

\* So requests keep the invariant.
LEMMA OutsideKeeps ==
    ASSUME OneAtATime, PInv, (IInv /\ Orderly /\ TurnOK)', Outside
    PROVE  PInv' /\ (Requested \/ lead' = lead)
<1>1. CASE \/ NextDay
           \/ \E c \in Clients : \/ AddLeadsRead(c) \/ AddLeadsConflict(c) \/ StartRead(c)
                                 \/ StartList(c) \/ StartFlush(c)
    <2>1. UNCHANGED <<lead, jobs, mail, events, processed, suppressed, send, reply, faults, turn>>
        BY <1>1 DEF Outside, NextDay, AddLeadsRead, AddLeadsConflict, StartRead, StartList,
                    StartFlush, RequestUnchanged, tables
    <2>2. TurnsTaken' /\ CaughtUp'
        BY <2>1 DEF PInv, TurnsTaken, CaughtUp, Begun
    <2> QED  BY <2>1, <2>2, TablesSame
<1>2. CASE \E c \in Clients : AddLeadsCommit(c) \/ StartCommit(c)
    <2>1. Requested
        BY <1>2, AddLeadsRequested, StartRequested DEF Outside, PInv
    <2>2. TurnsTaken' /\ CaughtUp'
        BY <2>1 DEF PInv, TurnsTaken, CaughtUp, Begun, Requested
    <2>3. JobsHeld' /\ SlotsFresh' /\ RepliesFresh' /\ Answered' /\ Unfaulted'
        BY <2>1, RequestedSlots, RequestedConsumers, RequestedAnswers, RequestedUnfaulted
           DEF PInv, IInv, Answered
    <2> QED  BY <2>1, <2>2, <2>3 DEF PInv
<1> QED  BY <1>1, <1>2 DEF Outside, ClientNext

-----------------------------------------------------------------------------
(* The poll, and the turns that pass.                                      *)

LEMMA IdleConsumer ==
    ASSUME NEW r \in Consumers, reply'[r] = IdleReply
    PROVE  ReplyFresh(r)'
<1>1. /\ IdleReply.phase = "idle" /\ IdleReply.batch = {} /\ IdleReply.cancels = {}
      /\ \A l \in Leads : IdleReply.rows[l] = NoRow
    BY DEF IdleReply, NothingSeen
<1> QED  BY <1>1 DEF ReplyFresh

LEMMA SlotsAllIdle ==
    ASSUME \A w \in Workers : send'[w].phase = "idle"
    PROVE  JobsHeld' /\ SlotsFresh'
BY DEF JobsHeld, SlotsFresh, SlotFresh, Begun

LEMMA PollKeeps ==
    ASSUME PInv, (IInv /\ Orderly /\ TurnOK)', Poll
    PROVE  PInv' /\ lead' = lead
<1>1. CASE turn' = "dispatch" /\ UNCHANGED vars
    <2>1. TurnsTaken' /\ CaughtUp'
        BY <1>1 DEF PInv, TurnsTaken, CaughtUp, Begun, vars, Poll
    <2> QED  BY <1>1, <2>1, TablesSame DEF vars
<1>2. CASE turn = "poll" /\ turn' = turn /\ PollNext
    <2>0. PICK m \in DOMAIN mail : \E intent \in ReplyIntents : Answer(m, intent)
        BY <1>2 DEF PollNext
    <2>1. PICK intent \in ReplyIntents : Answer(m, intent)
        BY <2>0
    <2>2. /\ mail[m].recorded
          /\ events' = Append(events, [mail |-> m, intent |-> intent])
          /\ UNCHANGED <<lead, jobs, mail, processed, send, reply, faults>>
        BY <2>1 DEF Answer
    <2>3. /\ \A w \in Workers : send[w].phase = "idle"
          /\ \A r \in Consumers : reply[r] = IdleReply
        BY <1>2 DEF PInv, TurnsTaken, RepliesFresh, ReplyFresh
    <2>4. TurnsTaken' /\ CaughtUp'
        BY <1>2, <2>2 DEF PInv, TurnsTaken, CaughtUp, Begun
    <2>5. JobsHeld' /\ SlotsFresh' /\ RepliesFresh' /\ Unfaulted'
        BY <2>2, <2>3, SlotsAllIdle, IdleConsumer, UnfaultedSame DEF PInv, RepliesFresh
    <2>6. /\ \A e \in DOMAIN events : events'[e] = events[e]
          /\ \A e \in DOMAIN events' : e \in DOMAIN events \/ events'[e].mail = m
        <3> DEFINE x == [mail |-> m, intent |-> intent]
        <3>1. x \in Events /\ x.mail = m
            BY MailedTo DEF Events, PInv, IInv
        <3>2. events \in Seq(Events)
            BY DEF PInv, IInv, Typed, TypeOK
        <3>3. events' = Append(events, x)
            BY <2>2
        <3> HIDE DEF x
        <3>4. /\ Len(events') = Len(events) + 1 /\ events' \in Seq(Events)
              /\ \A i \in 1..Len(events) : events'[i] = events[i]
              /\ events'[Len(events) + 1] = x
            BY <3>1, <3>2, <3>3, AppendProperties
        <3>5. /\ Len(events) \in Nat /\ DOMAIN events = 1..Len(events)
              /\ DOMAIN events' = 1..Len(events')
            BY <3>2, <3>4, LenProperties
        <3> QED  BY <3>1, <3>4, <3>5
    <2>7. Answered'
        <3>1. processed \subseteq DOMAIN events
            BY DEF PInv, IInv, Typed, TypeOK
        <3> QED  BY <2>2, <2>6, <3>1
                 DEF PInv, Answered, MailShows, LinkIsDone, EventsReal, RepliesTakeEffect
    <2> QED  BY <2>2, <2>4, <2>5, <2>7 DEF PInv
<1> QED  BY <1>1, <1>2 DEF Poll

-----------------------------------------------------------------------------
(* The dispatch of replies.                                                *)

\* The lead that an event is about is found by it, and shows the message.
LEMMA EventLead ==
    ASSUME PInv, NEW e \in DOMAIN events
    PROVE  /\ About(e) \in Leads
           /\ LeadsOf(events[e].mail) = {About(e)}
           /\ lead[About(e)].state \in {"sent", "done", "paused", "failed"}
<1> DEFINE m == events[e].mail
<1>1. m \in DOMAIN mail /\ mail[m].recorded
    BY DEF PInv, Answered, EventsReal
<1>2. /\ mail[m].to \in Leads /\ m # 0
      /\ lead[mail[m].to].state \in {"sent", "done", "paused", "failed"}
      /\ \E j \in DOMAIN jobs : jobs[j].outbound = m
    BY <1>1, MailedTo DEF PInv, IInv, Answered, MailShows
<1>3. \A j \in DOMAIN jobs : jobs[j].outbound = m => jobs[j].lead = mail[m].to
    BY <1>2 DEF PInv, IInv, Real, LinksAreFaithful
<1>4. LeadsOf(m) = {mail[m].to}
    BY <1>2, <1>3 DEF LeadsOf
<1> QED  BY <1>2, <1>4 DEF About

\* A consumer's step that stays in its transaction.
LEMMA ConsumerStep ==
    ASSUME PInv, (IInv /\ Orderly /\ TurnOK)', NEW r \in Consumers, turn = "dispatch",
           UNCHANGED <<lead, jobs, mail, events, processed, suppressed, send, faults, turn>>,
           ReplyFresh(r)'
    PROVE  PInv'
<1>1. RepliesFresh'
    BY OneConsumer DEF RepliesFresh
<1>2. TurnsTaken' /\ CaughtUp'
    BY DEF PInv, TurnsTaken, CaughtUp, Begun
<1> QED  BY <1>1, <1>2, SlotsSame, AnsweredSame, UnfaultedSame DEF PInv

\* What the tables say does not change under it.
LEMMA ReplyTables ==
    ASSUME PInv, NEW r \in Consumers,
           ReplyClaim(r) \/ ReplyIgnored(r) \/ ReplyLoad(r) \/ ReplyReadAgain(r) \/ ReplyFlush(r)
    PROVE  /\ Typed /\ reply[r] \in Replies /\ ReplyTyped(reply[r]) /\ ReplyFresh(r)
           /\ UNCHANGED <<lead, jobs, mail, events, processed, suppressed, send, faults>>
           /\ Unprocessed' = Unprocessed /\ Unprocessed \subseteq DOMAIN events
           /\ DOMAIN events \subseteq Nat
           /\ \A e : About(e)' = About(e)
           /\ \A l : PendingJobs(l)' = PendingJobs(l)
<1>1. /\ Typed /\ reply[r] \in Replies /\ ReplyTyped(reply[r]) /\ ReplyFresh(r)
      /\ events \in Seq(Events)
    BY DEF PInv, IInv, Typed, TypeOK, RepliesTyped, RepliesFresh
<1>2. UNCHANGED <<lead, jobs, mail, events, processed, suppressed, send, faults>>
    BY DEF ReplyClaim, ReplyIgnored, ReplyLoad, ReplyReadAgain, ReplyFlush, ReplyUnchanged
<1>3. DOMAIN events \subseteq Nat
    BY <1>1, LenProperties
<1> QED  BY <1>1, <1>2, <1>3 DEF Unprocessed, About, PendingJobs

LEMMA ReplyClaimFresh ==
    ASSUME PInv, NEW r \in Consumers, ReplyClaim(r)
    PROVE  ReplyFresh(r)'
<1> DEFINE B == NextBatch
           q == reply'[r]
<1>1. /\ Typed /\ ReplyFresh(r) /\ Unprocessed' = Unprocessed
      /\ Unprocessed \subseteq DOMAIN events /\ UNCHANGED <<lead, events>>
    BY ReplyTables
<1>2. /\ reply[r] = IdleReply /\ q.phase = "claimed" /\ B # {} /\ q.batch = B /\ q.todo = B
      /\ q.rows = IdleReply.rows /\ q.cancels = IdleReply.cancels
    BY <1>1, ReplyClaimEffect DEF ReplyFresh
<1>3. B \subseteq Unprocessed
    BY DEF NextBatch, Waiting
<1>4. ASSUME Len(events) <= ReplyBatchSize, NEW e \in Unprocessed
      PROVE  e \in B
    <2>1. Waiting = Unprocessed
        BY <1>2, OneConsumer DEF Waiting, IdleReply
    <2>2. e \in 1..Len(events) /\ Len(events) \in Nat /\ DOMAIN events = 1..Len(events)
        BY <1>1, LenProperties DEF Typed, TypeOK
    <2> DEFINE n == e - 1
               F == {f \in Waiting : f < e}
               I == 1..n
    <2>3. F \subseteq I
        BY <1>1, <2>1, <2>2
    <2>4. IsFiniteSet(I) /\ Cardinality(I) = n
        <3>1. n \in Nat
            BY <2>2
        <3> HIDE DEF n
        <3>2. IsFiniteSet(1..n) /\ Cardinality(1..n) = IF 1 > n THEN 0 ELSE n - 1 + 1
            BY <3>1, FS_Interval
        <3> QED  BY <3>1, <3>2
    <2> HIDE DEF F, I
    <2>5. Cardinality(F) <= Cardinality(I) /\ Cardinality(F) \in Nat
        BY <2>3, <2>4, FS_Subset, FS_CardinalityType
    <2>6. Cardinality(F) < ReplyBatchSize
        BY <1>4, <2>2, <2>4, <2>5, SendingAssumption
    <2> QED  BY <2>1, <2>6 DEF NextBatch, F
<1>5. \A l \in Leads : q.rows[l] = NoRow
    BY <1>2 DEF IdleReply, NothingSeen
<1>6. q.cancels = {}
    BY <1>2 DEF IdleReply
<1>7. q = reply[r]' /\ Len(events)' = Len(events)
    BY <1>1
<1> HIDE DEF B, q
<1> QED  BY <1>1, <1>2, <1>3, <1>4, <1>5, <1>6, <1>7 DEF ReplyFresh

LEMMA ReplyIgnoredFresh ==
    ASSUME PInv, NEW r \in Consumers, ReplyIgnored(r)
    PROVE  ReplyFresh(r)'
<1> DEFINE p == reply[r]
           q == reply'[r]
<1>1. /\ Typed /\ ReplyFresh(r) /\ Unprocessed' = Unprocessed
      /\ Unprocessed \subseteq DOMAIN events /\ UNCHANGED <<lead, jobs, events>>
      /\ \A e : About(e)' = About(e) /\ \A l : PendingJobs(l)' = PendingJobs(l)
    BY ReplyTables
<1>2. /\ p.phase = "claimed" /\ q.phase = "claimed" /\ q.batch = p.batch
      /\ q.rows = p.rows /\ q.cancels = p.cancels
    BY <1>1, ReplyIgnoredEffect
<1>3. PICK e \in Unprocessed :
          /\ IsNext(r, e) /\ q.todo = p.todo \ {e}
          /\ \A l \in LeadsOf(events[e].mail) : ~StopsOnReply(RowFor(r, l))
    BY <1>1, ReplyIgnoredEffect
<1>4. IsStopped(RowFor(r, About(e)))
    <2>1. /\ About(e) \in Leads /\ ~StopsOnReply(RowFor(r, About(e)))
          /\ lead[About(e)].state \in {"sent", "done", "paused", "failed"}
        BY <1>1, <1>3, EventLead
    <2>2. p.rows[About(e)] # NoRow => IsStopped(p.rows[About(e)])
        BY <1>1, <2>1 DEF ReplyFresh
    <2> QED  BY <2>1, <2>2 DEF RowFor, StopsOnReply, IsStopped, Replyable
<1>5. \A l : RowFor(r, l)' = RowFor(r, l)
    BY <1>1, <1>2 DEF RowFor
<1>6. \A f \in q.batch \ q.todo : IsStopped(RowFor(r, About(f)))
    BY <1>1, <1>2, <1>3, <1>4 DEF ReplyFresh
<1>7. reply[r]' = q /\ Len(events)' = Len(events)
    BY <1>1
<1>8. /\ q.batch # {} /\ q.batch \subseteq Unprocessed
      /\ Len(events) <= ReplyBatchSize => Unprocessed \subseteq q.batch
      /\ \A j \in q.cancels : j \in DOMAIN jobs /\ jobs[j].status = "pending"
      /\ \A l \in Leads : q.rows[l] # NoRow =>
            /\ lead[l].state \in Replyable /\ IsStopped(q.rows[l])
            /\ PendingJobs(l) \subseteq q.cancels
    BY <1>1, <1>2 DEF ReplyFresh
<1> HIDE DEF p, q
<1> QED  BY <1>1, <1>2, <1>5, <1>6, <1>7, <1>8 DEF ReplyFresh

LEMMA ReplyLoadFresh ==
    ASSUME PInv, NEW r \in Consumers, ReplyLoad(r)
    PROVE  ReplyFresh(r)'
<1> DEFINE p == reply[r]
           q == reply'[r]
<1>1. /\ Typed /\ ReplyFresh(r) /\ Unprocessed' = Unprocessed
      /\ Unprocessed \subseteq DOMAIN events /\ UNCHANGED <<lead, jobs, events>>
      /\ DOMAIN events \subseteq Nat
      /\ \A e : About(e)' = About(e) /\ \A l : PendingJobs(l)' = PendingJobs(l)
    BY ReplyTables
<1>2. /\ p.phase = "claimed" /\ q.phase = "loaded" /\ q.batch = p.batch /\ q.todo = p.todo
      /\ q.rows = p.rows /\ q.cancels = p.cancels
    BY <1>1, ReplyLoadEffect
<1>3. PICK e \in Unprocessed :
          /\ IsNext(r, e)
          /\ q.lead \in LeadsOf(events[e].mail)
          /\ StopsOnReply(RowFor(r, q.lead))
          /\ q.new = StopOnReply(RowFor(r, q.lead), events[e].intent)
    BY <1>1, ReplyLoadEffect
<1>4. q.lead = About(e) /\ q.lead \in Leads
    BY <1>1, <1>3, EventLead
<1>5. IsStopped(q.new)
    <2> DEFINE row == RowFor(r, q.lead)
               i == events[e].intent
    <2>1. row \in LeadRows
        <3>1. row \in Rows /\ row.state # Null
            BY <1>1, <1>3, <1>4, RowForTyped DEF StopsOnReply, Replyable, Null
        <3> QED  BY <3>1 DEF Rows, NoRow
    <2> HIDE DEF row, i
    <2>2. StopOnReply(row, i).state \in {"paused", "failed"}
        BY <2>1 DEF StopOnReply, LeadRows
    <2> QED  BY <1>3, <2>2 DEF IsStopped, row, i
<1>6. \A f \in Unprocessed : IsNext(r, f)' => q.lead = About(f)
    <2>1. \A f : IsNext(r, f)' => IsNext(r, f)
        BY <1>2 DEF IsNext
    <2>2. \A f \in Unprocessed : IsNext(r, f) => f = e
        BY <1>1, <1>3 DEF IsNext
    <2> QED  BY <1>4, <2>1, <2>2
<1>7. \A l : RowFor(r, l)' = RowFor(r, l)
    BY <1>1, <1>2 DEF RowFor
<1>8. reply[r]' = q /\ Len(events)' = Len(events)
    BY <1>1
<1>9. /\ q.batch # {} /\ q.batch \subseteq Unprocessed
      /\ Len(events) <= ReplyBatchSize => Unprocessed \subseteq q.batch
      /\ \A j \in q.cancels : j \in DOMAIN jobs /\ jobs[j].status = "pending"
      /\ \A l \in Leads : q.rows[l] # NoRow =>
            /\ lead[l].state \in Replyable /\ IsStopped(q.rows[l])
            /\ PendingJobs(l) \subseteq q.cancels
      /\ \A f \in q.batch \ q.todo : IsStopped(RowFor(r, About(f)))
    BY <1>1, <1>2 DEF ReplyFresh
<1> HIDE DEF p, q
<1> QED  BY <1>1, <1>2, <1>3, <1>5, <1>6, <1>7, <1>8, <1>9 DEF ReplyFresh

LEMMA ReplyReadAgainFresh ==
    ASSUME PInv, NEW r \in Consumers, ReplyReadAgain(r)
    PROVE  ReplyFresh(r)'
<1> DEFINE p == reply[r]
           q == reply'[r]
<1>1. /\ Typed /\ ReplyFresh(r) /\ Unprocessed' = Unprocessed
      /\ UNCHANGED <<lead, jobs, events>>
      /\ \A e : About(e)' = About(e) /\ \A l : PendingJobs(l)' = PendingJobs(l)
    BY ReplyTables
<1>2. /\ p.phase = "loaded" /\ q.phase = "read" /\ q.batch = p.batch /\ q.todo = p.todo
      /\ q.rows = p.rows /\ q.cancels = p.cancels /\ q.lead = p.lead /\ q.new = p.new
      /\ q.seen = RowFor(r, p.lead)
    BY <1>1, ReplyReadAgainEffect
<1>3. \A l : RowFor(r, l)' = RowFor(r, l)
    BY <1>1, <1>2 DEF RowFor
<1>4. \A f : IsNext(r, f)' => IsNext(r, f)
    BY <1>2 DEF IsNext
<1>5. reply[r]' = q /\ Len(events)' = Len(events)
    BY <1>1
<1>6. /\ q.batch # {} /\ q.batch \subseteq Unprocessed
      /\ Len(events) <= ReplyBatchSize => Unprocessed \subseteq q.batch
      /\ \A j \in q.cancels : j \in DOMAIN jobs /\ jobs[j].status = "pending"
      /\ \A l \in Leads : q.rows[l] # NoRow =>
            /\ lead[l].state \in Replyable /\ IsStopped(q.rows[l])
            /\ PendingJobs(l) \subseteq q.cancels
      /\ \A f \in q.batch \ q.todo : IsStopped(RowFor(r, About(f)))
      /\ StopsOnReply(RowFor(r, q.lead)) /\ IsStopped(q.new)
      /\ \A e \in Unprocessed : IsNext(r, e) => q.lead = About(e)
    BY <1>1, <1>2 DEF ReplyFresh
<1> HIDE DEF p, q
<1> QED  BY <1>1, <1>2, <1>3, <1>4, <1>5, <1>6 DEF ReplyFresh

\* A row that is as it was read is written whole.
LEMMA WrittenWhole ==
    ASSUME NEW row, NEW new \in LeadRows
    PROVE  Written(row, row, new) = new
BY DEF Written, LeadRows

LEMMA ReplyFlushFresh ==
    ASSUME PInv, NEW r \in Consumers, ReplyFlush(r)
    PROVE  ReplyFresh(r)'
<1> DEFINE p == reply[r]
           q == reply'[r]
           l == p.lead
           new == p.new
<1>1. /\ Typed /\ ReplyFresh(r) /\ Unprocessed' = Unprocessed /\ ReplyTyped(p)
      /\ UNCHANGED <<lead, jobs, events>>
      /\ \A e : About(e)' = About(e) /\ \A k : PendingJobs(k)' = PendingJobs(k)
    BY ReplyTables
<1>2. /\ p.phase = "read" /\ q.phase = "claimed" /\ q.batch = p.batch /\ l \in Leads
      /\ q.cancels = p.cancels \cup PendingJobs(l)
      /\ \A k \in Leads : q.rows[k] = IF k = l THEN Written(RowFor(r, l), p.seen, new)
                                               ELSE p.rows[k]
    BY <1>1, ReplyFlushEffect
<1>3. PICK e \in Unprocessed : IsNext(r, e) /\ q.todo = p.todo \ {e}
    BY <1>1, ReplyFlushEffect
<1>4. /\ StopsOnReply(RowFor(r, l)) /\ IsStopped(new) /\ l = About(e)
      /\ p.seen = RowFor(r, l) /\ new \in LeadRows
    BY <1>1, <1>2, <1>3 DEF ReplyFresh, ReplyTyped
<1>5. \A k \in Leads : q.rows[k] = IF k = l THEN new ELSE p.rows[k]
    BY <1>2, <1>4, WrittenWhole
<1>6. new # NoRow /\ lead[l].state \in Replyable
    <2>1. p.rows[l] = NoRow
        BY <1>1, <1>2, <1>4 DEF ReplyFresh, RowFor, StopsOnReply
    <2> QED  BY <1>4, <2>1, RowOrNone DEF RowFor, StopsOnReply
<1>7. \A k \in Leads : RowFor(r, k)' = IF k = l THEN new ELSE RowFor(r, k)
    BY <1>1, <1>5, <1>6 DEF RowFor
<1>8. \A k \in Leads : q.rows[k] # NoRow =>
          /\ lead[k].state \in Replyable /\ IsStopped(q.rows[k])
          /\ PendingJobs(k) \subseteq q.cancels
    BY <1>1, <1>2, <1>4, <1>5, <1>6 DEF ReplyFresh
<1>9. \A f \in q.batch \ q.todo : IsStopped(RowFor(r, About(f)))'
    <2> SUFFICES ASSUME NEW f \in q.batch \ q.todo PROVE IsStopped(RowFor(r, About(f)))'
        OBVIOUS
    <2>1. About(f) \in Leads
        BY <1>1, <1>2, EventLead DEF ReplyTyped
    <2>2. f = e \/ f \in p.batch \ p.todo
        BY <1>2, <1>3
    <2>3. About(f) = l \/ IsStopped(RowFor(r, About(f)))
        BY <1>1, <1>4, <2>2 DEF ReplyFresh
    <2>4. RowFor(r, About(f))' = IF About(f) = l THEN new ELSE RowFor(r, About(f))
        BY <1>1, <1>7, <2>1
    <2> QED  BY <1>4, <2>3, <2>4 DEF IsStopped
<1>10. \A j \in q.cancels : j \in DOMAIN jobs /\ jobs[j].status = "pending"
    BY <1>1, <1>2 DEF ReplyFresh, PendingJobs
<1>11. /\ q.batch # {} /\ q.batch \subseteq Unprocessed
       /\ Len(events) <= ReplyBatchSize => Unprocessed \subseteq q.batch
    BY <1>1, <1>2 DEF ReplyFresh
<1>12. reply[r]' = q /\ Len(events)' = Len(events)
    BY <1>1
<1> HIDE DEF p, q, l, new
<1> QED  BY <1>1, <1>2, <1>8, <1>9, <1>10, <1>11, <1>12 DEF ReplyFresh

\* A commit writes leads that a reply stops, and cancels jobs that wait.
LEMMA ReplyCommitEffect ==
    ASSUME PInv, NEW r \in Consumers, ReplyCommit(r)
    PROVE  /\ reply[r].phase = "claimed" /\ reply[r].todo = {} /\ ReplyFresh(r)
           /\ reply' = [reply EXCEPT ![r] = IdleReply]
           /\ processed' = processed \cup reply[r].batch
           /\ UNCHANGED <<mail, events, suppressed, send, faults>>
           /\ \A l \in Leads : lead'[l] = RowFor(r, l)
           /\ \A l \in Leads : \/ reply[r].rows[l] = NoRow /\ lead'[l] = lead[l]
                               \/ /\ lead[l].state \in Replyable /\ IsStopped(lead'[l])
                                  /\ PendingJobs(l) \subseteq reply[r].cancels
           /\ DOMAIN jobs' = DOMAIN jobs
           /\ \A j \in DOMAIN jobs :
                 /\ jobs'[j].lead = jobs[j].lead /\ jobs'[j].outbound = jobs[j].outbound
                 /\ IF j \in reply[r].cancels
                    THEN jobs[j].status = "pending" /\ jobs'[j].status = "cancelled"
                    ELSE jobs'[j] = jobs[j]
<1>1. /\ reply[r].phase = "claimed" /\ reply[r].todo = {} /\ ReplyFresh(r)
      /\ reply' = [reply EXCEPT ![r] = IdleReply]
      /\ processed' = processed \cup reply[r].batch
      /\ UNCHANGED <<mail, events, suppressed, send, faults>>
      /\ \A l \in Leads : lead'[l] = RowFor(r, l)
      /\ jobs' = [j \in DOMAIN jobs |->
             IF j \in reply[r].cancels THEN [jobs[j] EXCEPT !.status = "cancelled"]
             ELSE jobs[j]]
    BY DEF ReplyCommit, ReplyUnchanged, PInv, RepliesFresh
<1>2. \A l \in Leads : \/ reply[r].rows[l] = NoRow /\ lead'[l] = lead[l]
                       \/ /\ lead[l].state \in Replyable /\ IsStopped(lead'[l])
                          /\ PendingJobs(l) \subseteq reply[r].cancels
    BY <1>1 DEF ReplyFresh, RowFor
<1>3. ASSUME NEW j \in DOMAIN jobs
      PROVE  /\ jobs'[j].lead = jobs[j].lead /\ jobs'[j].outbound = jobs[j].outbound
             /\ IF j \in reply[r].cancels
                THEN jobs[j].status = "pending" /\ jobs'[j].status = "cancelled"
                ELSE jobs'[j] = jobs[j]
    <2>1. jobs[j] \in Jobs /\ "cancelled" \in JobStatuses
        BY JobDomain DEF PInv, IInv, Typed, TypeOK, JobStatuses
    <2>2. CASE j \in reply[r].cancels
        <3>1. jobs'[j] = [jobs[j] EXCEPT !.status = "cancelled"]
            BY <1>1, <2>2
        <3>2. jobs[j].status = "pending"
            BY <1>1, <2>2 DEF ReplyFresh
        <3> QED  BY <2>1, <2>2, <3>1, <3>2, JobStatusSet
    <2>3. CASE j \notin reply[r].cancels
        BY <1>1, <2>3
    <2> QED  BY <2>2, <2>3
<1>4. DOMAIN jobs' = DOMAIN jobs
    BY <1>1
<1> QED  BY <1>1, <1>2, <1>3, <1>4

LEMMA ReplyCommitAnswers ==
    ASSUME PInv, NEW r \in Consumers, ReplyCommit(r)
    PROVE  Answered'
<1>1. /\ \A m \in DOMAIN mail : mail[m].to \in Leads
      /\ UNCHANGED <<mail, events>> /\ processed' = processed \cup reply[r].batch
      /\ processed \subseteq DOMAIN events
      /\ reply[r].batch \subseteq DOMAIN events
    BY MailedTo, ReplyCommitEffect DEF PInv, IInv, Typed, TypeOK, RepliesTyped, ReplyTyped
<1>2. \A l \in Leads : \/ lead'[l] = lead[l]
                       \/ lead[l].state \in Replyable /\ IsStopped(lead'[l])
    BY ReplyCommitEffect
<1>3. /\ DOMAIN jobs' = DOMAIN jobs
      /\ \A j \in DOMAIN jobs : /\ jobs'[j].outbound = jobs[j].outbound
                                /\ jobs[j].status # "pending" => jobs'[j] = jobs[j]
    BY ReplyCommitEffect
<1>4. MailShows'
    <2> SUFFICES ASSUME NEW m \in DOMAIN mail, mail[m].recorded
                 PROVE  /\ lead'[mail[m].to].state \in {"sent", "done", "paused", "failed"}
                        /\ \E j \in DOMAIN jobs' : jobs'[j].outbound = m
        BY <1>1 DEF MailShows
    <2>1. /\ lead[mail[m].to].state \in {"sent", "done", "paused", "failed"}
          /\ \E j \in DOMAIN jobs : jobs[j].outbound = m
        BY DEF PInv, Answered, MailShows
    <2> QED  BY <1>1, <1>2, <1>3, <2>1 DEF IsStopped
<1>5. LinkIsDone'
    BY <1>3 DEF PInv, Answered, LinkIsDone
<1>6. EventsReal'
    BY <1>1 DEF PInv, Answered, EventsReal
<1>7. RepliesTakeEffect'
    <2> SUFFICES ASSUME NEW e \in processed \cup reply[r].batch
                 PROVE  IsStopped(lead'[About(e)])
        BY <1>1 DEF RepliesTakeEffect, About
    <2>1. About(e) \in Leads
        BY <1>1, EventLead
    <2>2. CASE e \in processed
        <3>1. IsStopped(lead[About(e)])
            BY <2>2 DEF PInv, Answered, RepliesTakeEffect, About
        <3> QED  BY <1>2, <2>1, <3>1 DEF IsStopped, Replyable
    <2>3. CASE e \in reply[r].batch
        <3>1. IsStopped(RowFor(r, About(e)))
            BY <2>3, ReplyCommitEffect DEF ReplyFresh
        <3> QED  BY <2>1, <3>1, ReplyCommitEffect
    <2> QED  BY <2>2, <2>3
<1> QED  BY <1>4, <1>5, <1>6, <1>7 DEF Answered

LEMMA ReplyCommitUnfaulted ==
    ASSUME PInv, NEW r \in Consumers, ReplyCommit(r), turn = "dispatch"
    PROVE  Unfaulted'
<1> SUFFICES ASSUME faults = 0 PROVE Unfaulted'
    BY ReplyCommitEffect DEF Unfaulted
<1>1. \A j \in DOMAIN jobs : jobs[j].status # "running"
    BY DEF PInv, TurnsTaken, Unfaulted, Held
<1>2. \A j \in DOMAIN jobs :
          /\ jobs'[j].lead = jobs[j].lead /\ jobs[j].lead \in Leads
          /\ Live(j)' => /\ j \notin reply[r].cancels /\ jobs'[j] = jobs[j]
                         /\ Live(j) /\ j \in PendingJobs(jobs[j].lead)
    <2> SUFFICES ASSUME NEW j \in DOMAIN jobs
                 PROVE  /\ jobs'[j].lead = jobs[j].lead /\ jobs[j].lead \in Leads
                        /\ Live(j)' => /\ j \notin reply[r].cancels /\ jobs'[j] = jobs[j]
                                       /\ Live(j) /\ j \in PendingJobs(jobs[j].lead)
        OBVIOUS
    <2>1. jobs[j].lead \in Leads
        BY JobDomain DEF PInv, IInv, Typed, TypeOK, Jobs
    <2>2. /\ jobs'[j].lead = jobs[j].lead
          /\ IF j \in reply[r].cancels THEN jobs'[j].status = "cancelled" ELSE jobs'[j] = jobs[j]
        BY ReplyCommitEffect
    <2> QED  BY <1>1, <2>1, <2>2 DEF Live, PendingJobs
<1>3. \A l \in Leads : lead'[l] = lead[l] \/ PendingJobs(l) \subseteq reply[r].cancels
    BY ReplyCommitEffect
<1>4. DOMAIN jobs' = DOMAIN jobs
    BY ReplyCommitEffect
<1>5. \A j \in DOMAIN jobs' : jobs'[j].status # "running"
    BY <1>1, <1>2, <1>4 DEF Live
<1>6. \A j \in DOMAIN jobs' : Live(j)' => ~IsStopped(lead'[jobs'[j].lead])
    BY <1>2, <1>3, <1>4 DEF PInv, Unfaulted
<1>7. \A j, k \in DOMAIN jobs' : Live(j)' /\ Live(k)' /\ jobs'[j].lead = jobs'[k].lead => j = k
    BY <1>2, <1>4 DEF PInv, Unfaulted
<1> QED  BY <1>5, <1>6, <1>7 DEF Unfaulted

\* The dispatch as a whole.  It writes leads that are not stopped.
LEMMA DispatchKeeps ==
    ASSUME PInv, (IInv /\ Orderly /\ TurnOK)', Dispatch \/ DispatchError
    PROVE  PInv' /\ \A l \in Leads : IsStopped(lead[l]) => lead'[l] = lead[l]
<1>1. ASSUME NEW r \in Consumers, turn' = turn, turn = "dispatch",
             ReplyClaim(r) \/ ReplyIgnored(r) \/ ReplyLoad(r) \/ ReplyReadAgain(r) \/ ReplyFlush(r)
      PROVE  PInv' /\ lead' = lead
    <2>1. ReplyFresh(r)'
        BY <1>1, ReplyClaimFresh, ReplyIgnoredFresh, ReplyLoadFresh, ReplyReadAgainFresh,
           ReplyFlushFresh
    <2> QED  BY <1>1, <2>1, ReplyTables, ConsumerStep
<1>2. ASSUME NEW r \in Consumers, turn = "dispatch", turn' = "claim",
             reply' = [reply EXCEPT ![r] = IdleReply], send' = send
      PROVE  TurnsTaken' /\ RepliesFresh' /\ JobsHeld' /\ SlotsFresh'
    <2>1. reply'[r] = IdleReply /\ \A q \in Consumers : q = r
        BY <1>2, OneConsumer DEF PInv, IInv, Typed, TypeOK
    <2>2. RepliesFresh'
        BY <2>1, IdleConsumer DEF RepliesFresh
    <2>3. TurnsTaken'
        BY <1>2, <2>1 DEF PInv, TurnsTaken, Begun, IdleReply
    <2>4. \A w \in Workers : send'[w].phase = "idle"
        BY <1>2 DEF PInv, TurnsTaken
    <2> QED  BY <2>2, <2>3, <2>4, SlotsAllIdle
<1>3. ASSUME NEW r \in Consumers, ReplyCommit(r), turn = "dispatch", turn' = "claim"
      PROVE  PInv' /\ \A l \in Leads : IsStopped(lead[l]) => lead'[l] = lead[l]
    <2>1. /\ reply' = [reply EXCEPT ![r] = IdleReply]
          /\ UNCHANGED <<events, send, faults>>
          /\ processed' = processed \cup reply[r].batch
          /\ reply[r].phase = "claimed" /\ ReplyFresh(r)
        BY <1>3, ReplyCommitEffect
    <2>2. CaughtUp'
        BY <2>1 DEF CaughtUp, ReplyFresh, Unprocessed
    <2>3. \A l \in Leads : IsStopped(lead[l]) => lead'[l] = lead[l]
        BY <1>3, ReplyCommitEffect DEF IsStopped, Replyable
    <2>4. TurnsTaken' /\ RepliesFresh' /\ JobsHeld' /\ SlotsFresh'
        BY <1>2, <1>3, <2>1
    <2>5. Answered' /\ Unfaulted'
        BY <1>3, ReplyCommitAnswers, ReplyCommitUnfaulted
    <2> QED  BY <2>2, <2>3, <2>4, <2>5 DEF PInv
<1>4. ASSUME NEW r \in Consumers, ConsumerCrash(r), turn = "dispatch", turn' = "claim"
      PROVE  PInv' /\ lead' = lead
    <2>1. /\ reply' = [reply EXCEPT ![r] = IdleReply] /\ Fault
          /\ UNCHANGED <<lead, jobs, mail, events, processed, suppressed, send>>
        BY <1>4 DEF ConsumerCrash, tables
    <2>2. TurnsTaken' /\ RepliesFresh' /\ JobsHeld' /\ SlotsFresh'
        BY <1>2, <1>4, <2>1
    <2>3. Answered' /\ CaughtUp' /\ Unfaulted'
        BY <2>1, AnsweredSame, FaultShows DEF PInv, IInv
    <2> QED  BY <2>1, <2>2, <2>3 DEF PInv
<1>5. ASSUME turn = "dispatch", Unprocessed = {}, turn' = "claim", UNCHANGED vars
      PROVE  PInv' /\ lead' = lead
    <2>1. \A r \in Consumers : reply[r].phase = "idle"
        BY <1>5 DEF PInv, RepliesFresh, ReplyFresh
    <2>2. TurnsTaken' /\ CaughtUp'
        BY <1>5, <2>1 DEF PInv, TurnsTaken, CaughtUp, Begun, Unprocessed, vars
    <2> QED  BY <1>5, <2>2, TablesSame DEF vars
<1> QED  BY <1>1, <1>3, <1>4, <1>5 DEF Dispatch, DispatchError

-----------------------------------------------------------------------------
(* The claim.                                                              *)

\* Each slot of the batch gets a job of its own, which waited or was left.
LEMMA ClaimEffect ==
    ASSUME Typed, NEW S \in SUBSET Workers, NEW batch \in [S -> DOMAIN jobs], Claim(batch)
    PROVE  /\ UNCHANGED <<lead, mail, events, processed, suppressed, reply>>
           /\ faults' \in Nat /\ faults' >= faults
           /\ \A w \in Workers : IF w \in S
                                 THEN /\ send'[w].phase = "claimed" /\ send'[w].job = batch[w]
                                      /\ send'[w].seen = NoRow
                                 ELSE send'[w] = send[w]
           /\ \A v, w \in S : batch[v] = batch[w] => v = w
           /\ DOMAIN jobs' = DOMAIN jobs
           /\ \A j \in DOMAIN jobs :
                 /\ jobs'[j].lead = jobs[j].lead /\ jobs'[j].outbound = jobs[j].outbound
                 /\ \/ /\ \E w \in S : batch[w] = j
                       /\ jobs[j].status \in {"pending", "running"}
                       /\ jobs'[j].status = "running"
                    \/ (\A w \in S : batch[w] # j) /\ jobs'[j] = jobs[j]
<1> DEFINE J == {batch[w] : w \in DOMAIN batch}
<1>1. /\ jobs' = [j \in DOMAIN jobs |->
              IF j \in J THEN [jobs[j] EXCEPT !.status = "running", !.attempts = @ + 1]
              ELSE jobs[j]]
      /\ send' = [w \in Workers |->
              IF w \in S
              THEN [IdleSend EXCEPT !.phase = "claimed", !.job = batch[w],
                                    !.attempts = jobs[batch[w]].attempts + 1]
              ELSE send[w]]
      /\ UNCHANGED <<lead, mail, events, processed, suppressed, reply>>
      /\ \A v, w \in S : batch[v] = batch[w] => v = w
      /\ \A w \in S : jobs[batch[w]].status \in {"pending", "running"}
    BY DEF Claim, ClaimJobs, Claimable
<1>2. \A w \in Workers : IF w \in S
                         THEN /\ send'[w].phase = "claimed" /\ send'[w].job = batch[w]
                              /\ send'[w].seen = NoRow
                         ELSE send'[w] = send[w]
    <2> SUFFICES ASSUME NEW w \in S
                 PROVE  /\ send'[w].phase = "claimed" /\ send'[w].job = batch[w]
                        /\ send'[w].seen = NoRow
        BY <1>1
    <2> DEFINE n == jobs[batch[w]].attempts + 1
               k == batch[w]
    <2>1. send'[w] = [IdleSend EXCEPT !.phase = "claimed", !.job = k, !.attempts = n]
        BY <1>1
    <2> HIDE DEF n, k
    <2>2. send'[w].phase = "claimed" /\ send'[w].job = k /\ send'[w].seen = NoRow
        BY <2>1 DEF IdleSend
    <2> QED  BY <2>2 DEF k
<1>3. ASSUME NEW j \in DOMAIN jobs
      PROVE  /\ jobs'[j].lead = jobs[j].lead /\ jobs'[j].outbound = jobs[j].outbound
             /\ \/ /\ \E w \in S : batch[w] = j
                   /\ jobs[j].status \in {"pending", "running"}
                   /\ jobs'[j].status = "running"
                \/ (\A w \in S : batch[w] # j) /\ jobs'[j] = jobs[j]
    <2>1. jobs[j] \in Jobs
        BY JobDomain DEF Typed, TypeOK
    <2>2. CASE j \in J
        <3>1. jobs'[j] = [jobs[j] EXCEPT !.status = "running", !.attempts = @ + 1]
            BY <1>1, <2>2
        <3>2. \E w \in S : batch[w] = j
            BY <2>2
        <3>3. /\ jobs'[j].lead = jobs[j].lead /\ jobs'[j].outbound = jobs[j].outbound
              /\ jobs'[j].status = "running"
            BY <2>1, <3>1, JobClaimed
        <3>4. jobs[j].status \in {"pending", "running"}
            BY <1>1, <3>2
        <3> QED  BY <3>2, <3>3, <3>4
    <2>3. CASE j \notin J
        BY <1>1, <2>3
    <2> QED  BY <2>2, <2>3
<1>4. DOMAIN jobs' = DOMAIN jobs
    BY <1>1
<1>5. faults' \in Nat /\ faults' >= faults
    BY ClaimFaults
<1> QED  BY <1>1, <1>2, <1>3, <1>4, <1>5

LEMMA ClaimKeeps ==
    ASSUME PInv, (IInv /\ Orderly /\ TurnOK)', ClaimBatch
    PROVE  PInv' /\ lead' = lead
<1>1. CASE turn' = "poll" /\ UNCHANGED vars
    <2>1. TurnsTaken' /\ CaughtUp'
        BY <1>1 DEF PInv, TurnsTaken, CaughtUp, Begun, vars, ClaimBatch
    <2> QED  BY <1>1, <2>1, TablesSame DEF vars
<1>2. CASE turn = "claim" /\ turn' = "drain" /\ ClaimNext
    <2>0. PICK S \in SUBSET Workers : \E batch \in [S -> DOMAIN jobs] : Claim(batch)
        BY <1>2 DEF ClaimNext
    <2>1. PICK batch \in [S -> DOMAIN jobs] : Claim(batch)
        BY <2>0
    <2>2. Typed
        BY DEF PInv, IInv
    <2>3. /\ \A w \in Workers : send[w].phase = "idle"
          /\ \A r \in Consumers : reply[r].phase = "idle" /\ reply[r] = IdleReply
        BY <1>2 DEF PInv, TurnsTaken, RepliesFresh, ReplyFresh
    <2>4. /\ UNCHANGED <<lead, mail, events, processed, suppressed, reply>>
          /\ faults' \in Nat /\ faults' >= faults
          /\ \A v, w \in S : batch[v] = batch[w] => v = w
          /\ DOMAIN jobs' = DOMAIN jobs
        BY <2>1, <2>2, ClaimEffect
    <2>5. \A w \in Workers :
              /\ w \in S => /\ send'[w].phase = "claimed" /\ send'[w].job = batch[w]
                            /\ send'[w].seen = NoRow
              /\ w \notin S => send'[w].phase = "idle"
        <3>1. \A w \in Workers : IF w \in S
                                 THEN /\ send'[w].phase = "claimed" /\ send'[w].job = batch[w]
                                      /\ send'[w].seen = NoRow
                                 ELSE send'[w] = send[w]
            BY <2>1, <2>2, ClaimEffect
        <3> QED  BY <2>3, <3>1
    <2>6. \A j \in DOMAIN jobs :
              /\ jobs'[j].lead = jobs[j].lead /\ jobs'[j].outbound = jobs[j].outbound
              /\ \/ /\ \E w \in S : batch[w] = j
                    /\ jobs[j].status \in {"pending", "running"}
                    /\ jobs'[j].status = "running"
                 \/ jobs'[j] = jobs[j]
        BY <2>1, <2>2, ClaimEffect
    <2>7. TurnsTaken'
        BY <1>2, <2>3, <2>4, <2>5 DEF TurnsTaken, Begun
    <2>8. JobsHeld'
        <3>1. \A w \in S : jobs'[batch[w]].status = "running"
            BY <2>1, <2>2, ClaimEffect
        <3> QED  BY <2>4, <2>5, <3>1 DEF JobsHeld
    <2>9. SlotsFresh'
        BY <2>5 DEF SlotsFresh, SlotFresh, Begun
    <2>10. RepliesFresh'
        BY <2>3, <2>4, IdleConsumer DEF RepliesFresh
    <2>11. Answered'
        <3>1. MailShows' /\ LinkIsDone'
            BY <2>4, <2>6 DEF PInv, Answered, MailShows, LinkIsDone
        <3>2. EventsReal' /\ RepliesTakeEffect'
            BY <2>4 DEF PInv, Answered, EventsReal, RepliesTakeEffect
        <3> QED  BY <3>1, <3>2 DEF Answered
    <2>12. faults \in Nat
        BY <2>2 DEF Typed, TypeOK
    <2>13. CaughtUp' /\ Unfaulted'
        <3>1. CASE faults' # 0
            BY <3>1 DEF CaughtUp, Unfaulted
        <3>2. CASE faults' = faults
            <4>1. CaughtUp'
                BY <1>2, <2>4, <3>2 DEF PInv, CaughtUp
            <4>2. \A j \in DOMAIN jobs : Live(j)' => Live(j)
                BY <2>6 DEF Live
            <4>3. ASSUME faults = 0, NEW j \in DOMAIN jobs, jobs'[j].status = "running"
                  PROVE  Held(j)'
                <5>1. jobs[j].status # "running"
                    BY <2>3, <4>3 DEF PInv, Unfaulted, Held
                <5>2. \E w \in S : batch[w] = j
                    BY <2>6, <4>3, <5>1
                <5> QED  BY <2>5, <5>2 DEF Held
            <4>4. Unfaulted'
                BY <2>4, <2>6, <3>2, <4>2, <4>3 DEF PInv, Unfaulted
            <4> QED  BY <4>1, <4>4
        <3> QED  BY <2>4, <2>12, <3>1, <3>2
    <2> QED  BY <2>4, <2>7, <2>8, <2>9, <2>10, <2>11, <2>13 DEF PInv
<1> QED  BY <1>1, <1>2 DEF ClaimBatch

-----------------------------------------------------------------------------
(* The drain.                                                              *)

\* What a step leaves that keeps a slot busy.
Advanced(w) ==
    LET s == send[w]
        t == send'[w]
    IN  /\ \A v \in Workers \ {w} : send'[v] = send[v]
        /\ s.phase # "idle" /\ Begun(t) /\ t.job = s.job /\ SlotFresh(t)
        /\ UNCHANGED <<lead, jobs, events, processed, suppressed, reply>>
        /\ Fault \/ UNCHANGED faults

\* The job of a busy slot, and its lead.
LEMMA SlotJob ==
    ASSUME PInv, NEW w \in Workers, send[w].phase # "idle"
    PROVE  /\ send[w] \in Sends /\ send[w].job \in DOMAIN jobs /\ JobOf(w) \in Jobs
           /\ JobOf(w).lead \in Leads /\ JobOf(w).status = "running"
           /\ lead[JobOf(w).lead] \in LeadRows /\ SlotFresh(send[w])
<1>1. /\ send[w] \in Sends /\ send[w].job \in DOMAIN jobs
      /\ jobs \in Seq(Jobs) /\ lead \in [Leads -> Rows]
      /\ \A j \in DOMAIN jobs : lead[jobs[j].lead] # NoRow
    BY DEF PInv, IInv, Typed, TypeOK, SlotsTyped, SlotTyped, JobsTyped, Added
<1>2. JobOf(w) \in Jobs
    BY <1>1, JobDomain DEF JobOf
<1>3. JobOf(w).lead \in Leads
    BY <1>2 DEF Jobs
<1>4. lead[JobOf(w).lead] \in LeadRows
    BY <1>1, <1>3, RowOrNone DEF JobOf
<1>5. SlotFresh(send[w]) /\ JobOf(w).status = "running"
    BY DEF PInv, SlotsFresh, JobsHeld, JobOf
<1> QED  BY <1>1, <1>2, <1>3, <1>4, <1>5

\* The lead is read, and it may be sent to or the slot is done with it.
LEMMA LoadAdvances ==
    ASSUME PInv, NEW w \in Workers, Load(w)
    PROVE  Advanced(w)
<1> DEFINE j == send[w].job
           row == lead[jobs[j].lead]
           x == IF AcceptsSend(status, row, jobs[j].position) THEN "loaded" ELSE "ineligible"
           n == IF w \in LockingWorkers THEN jobs[j].attempts ELSE send[w].attempts
           s == [send[w] EXCEPT !.phase = x, !.attempts = n, !.snap = row]
<1>1. /\ send' = [send EXCEPT ![w] = s] /\ send[w].phase = "claimed"
      /\ UNCHANGED <<tables, day, reply, request, faults>>
    BY DEF Load
<1>2. send[w] \in Sends /\ SlotFresh(send[w]) /\ send \in [Workers -> Sends]
    BY <1>1, SlotJob DEF PInv, IInv, Typed, TypeOK
<1>3. x \in {"loaded", "ineligible"} /\ (x = "loaded" => row.state \in Sendable)
    BY DEF AcceptsSend
<1>4. row = lead[jobs[j].lead]
    OBVIOUS
<1> HIDE DEF x, n, row
<1>5. s.phase = x /\ s.job = j /\ s.snap = row /\ s.seen = send[w].seen
    BY <1>2 DEF Sends
<1> HIDE DEF s
<1>6. send[w].seen = NoRow
    BY <1>1, <1>2 DEF SlotFresh
<1>7. SlotFresh(s)
    BY <1>3, <1>4, <1>5, <1>6 DEF SlotFresh, Begun
<1>8. send'[w] = s /\ \A v \in Workers \ {w} : send'[v] = send[v]
    BY <1>1, <1>2
<1> QED  BY <1>1, <1>3, <1>5, <1>7, <1>8 DEF Advanced, Begun, tables

\* A slot between its load and its commit.
LEMMA SlotAdvances ==
    ASSUME PInv, NEW w \in Workers, NEW s, Begun(send[w]), send[w].phase # "ineligible",
           Begun(s), s.job = send[w].job, s.snap = send[w].snap,
           s.seen \in {send[w].seen, lead[JobOf(w).lead]},
           s.phase \in {"checked", "sending"} =>
               send[w].phase = "checked" \/ JobOf(w).lead \notin suppressed,
           send' = [send EXCEPT ![w] = s],
           UNCHANGED <<lead, jobs, events, processed, suppressed, reply>>,
           Fault \/ UNCHANGED faults
    PROVE  Advanced(w)
<1>1. send[w].phase # "idle"
    BY DEF Begun
<1>2. SlotFresh(send[w]) /\ send \in [Workers -> Sends]
    BY <1>1, SlotJob DEF PInv, IInv, Typed, TypeOK
<1>3. SlotFresh(s)
    BY <1>2 DEF SlotFresh, Begun, JobOf
<1>4. send'[w] = s /\ \A v \in Workers \ {w} : send'[v] = send[v]
    BY <1>2
<1> QED  BY <1>1, <1>3, <1>4 DEF Advanced

LEMMA ChecksAdvance ==
    ASSUME PInv, NEW w \in Workers,
           CheckSuppression(w) \/ TakeMailbox(w) \/ DispatchFails(w) \/ ReadAgain(w)
    PROVE  Advanced(w)
<1>1. send[w] \in Sends
    BY DEF PInv, IInv, Typed, TypeOK
<1>2. CASE CheckSuppression(w)
    <2> DEFINE x == IF JobOf(w).lead \in suppressed THEN "refused" ELSE "checked"
               s == [send[w] EXCEPT !.phase = x]
    <2>1. x \in {"refused", "checked"} /\ (x = "checked" => JobOf(w).lead \notin suppressed)
        OBVIOUS
    <2>2. /\ send' = [send EXCEPT ![w] = s] /\ send[w].phase = "loaded"
          /\ UNCHANGED <<tables, day, reply, request, faults>>
        BY <1>2 DEF CheckSuppression, Move
    <2> HIDE DEF x
    <2>3. /\ s.job = send[w].job /\ s.snap = send[w].snap /\ s.seen = send[w].seen
          /\ s.phase = x
        BY <1>1 DEF Sends
    <2> HIDE DEF s
    <2>4. Begun(s) /\ Begun(send[w])
        BY <2>1, <2>2, <2>3 DEF Begun
    <2> QED  BY <2>1, <2>2, <2>3, <2>4, SlotAdvances DEF tables
<1>3. CASE TakeMailbox(w)
    <2> DEFINE free == /\ \A v \in Workers : ~HoldsMailbox(v)
                       /\ Cardinality(SentSince(day)) < DailySendCap
               x == IF free THEN "sending" ELSE "deferred"
               y == IF free THEN day ELSE 0
               s == [send[w] EXCEPT !.phase = x, !.since = y]
    <2>1. x \in {"sending", "deferred"}
        OBVIOUS
    <2>2. /\ send' = [send EXCEPT ![w] = s] /\ send[w].phase = "checked"
          /\ UNCHANGED <<tables, day, reply, request, faults>>
        BY <1>3 DEF TakeMailbox
    <2> HIDE DEF x, y
    <2>3. /\ s.job = send[w].job /\ s.snap = send[w].snap /\ s.seen = send[w].seen
          /\ s.phase = x
        BY <1>1 DEF Sends
    <2> HIDE DEF s
    <2>4. Begun(s) /\ Begun(send[w])
        BY <2>1, <2>2, <2>3 DEF Begun
    <2> QED  BY <2>2, <2>3, <2>4, SlotAdvances DEF tables
<1>4. CASE DispatchFails(w)
    <2> DEFINE s == [send[w] EXCEPT !.phase = "failed", !.since = 0]
    <2>1. /\ send' = [send EXCEPT ![w] = s]
          /\ send[w].phase \in {"loaded", "checked", "sending"}
          /\ UNCHANGED <<tables, day, reply, request, faults>>
        BY <1>4 DEF DispatchFails
    <2>2. /\ s.job = send[w].job /\ s.snap = send[w].snap /\ s.seen = send[w].seen
          /\ s.phase = "failed"
        BY <1>1 DEF Sends
    <2> HIDE DEF s
    <2>3. Begun(s) /\ Begun(send[w])
        BY <2>1, <2>2 DEF Begun
    <2> QED  BY <2>1, <2>2, <2>3, SlotAdvances DEF tables
<1>5. CASE ReadAgain(w)
    <2> DEFINE row == lead[JobOf(w).lead]
               s == [send[w] EXCEPT !.seen = row]
    <2>1. /\ send' = [send EXCEPT ![w] = s]
          /\ send[w].phase \in {"accepted", "refused", "failed"}
          /\ UNCHANGED <<tables, day, reply, request, faults>>
        BY <1>5 DEF ReadAgain, WritesLead
    <2>2. row = lead[JobOf(w).lead]
        OBVIOUS
    <2> HIDE DEF row
    <2>3. /\ s.job = send[w].job /\ s.snap = send[w].snap /\ s.seen = row
          /\ s.phase = send[w].phase
        BY <1>1 DEF Sends
    <2> HIDE DEF s
    <2>4. Begun(s) /\ Begun(send[w])
        BY <2>1, <2>3 DEF Begun
    <2> QED  BY <2>1, <2>2, <2>3, <2>4, SlotAdvances DEF tables
<1> QED  BY <1>2, <1>3, <1>4, <1>5

\* A message goes out to a lead that may be sent to and is not suppressed.
LEMMA DeliverAdvances ==
    ASSUME PInv, NEW w \in Workers, ProviderAccepts(w) \/ AnswerLost(w)
    PROVE  /\ Advanced(w)
           /\ \E m \in Mails :
                 /\ mail' = Append(mail, m) /\ m.to = JobOf(w).lead /\ ~m.recorded
                 /\ m.to \notin suppressed /\ ~IsStopped(lead[m.to])
<1>1. /\ send[w].phase = "sending" /\ Deliver(w)
      /\ UNCHANGED <<lead, jobs, events, processed, suppressed, reply>>
      /\ Fault \/ UNCHANGED faults
    BY DEF ProviderAccepts, AnswerLost, Deliver
<1>2. send[w] \in Sends /\ SlotFresh(send[w])
    BY <1>1, SlotJob
<1>3. PICK m \in Mails : mail' = Append(mail, m) /\ m.to = JobOf(w).lead /\ ~m.recorded
    BY <1>1, Delivered DEF PInv, IInv
<1>4. JobOf(w).lead \notin suppressed /\ ~IsStopped(lead[JobOf(w).lead])
    BY <1>1, <1>2 DEF SlotFresh, Begun, JobOf, Sendable, IsStopped
<1>5. CASE ProviderAccepts(w)
    <2> DEFINE n == Len(mail) + 1
               s == [send[w] EXCEPT !.phase = "accepted", !.msg = n]
    <2>1. send' = [send EXCEPT ![w] = s]
        BY <1>5 DEF ProviderAccepts
    <2> HIDE DEF n
    <2>2. /\ s.job = send[w].job /\ s.snap = send[w].snap /\ s.seen = send[w].seen
          /\ s.phase = "accepted"
        BY <1>2 DEF Sends
    <2> HIDE DEF s
    <2>3. Begun(s) /\ Begun(send[w])
        BY <1>1, <2>2 DEF Begun
    <2>4. Advanced(w)
        BY <1>1, <2>1, <2>2, <2>3, SlotAdvances
    <2> QED  BY <1>3, <1>4, <2>4
<1>6. CASE AnswerLost(w)
    <2> DEFINE s == [send[w] EXCEPT !.phase = "failed", !.since = 0]
    <2>1. send' = [send EXCEPT ![w] = s]
        BY <1>6 DEF AnswerLost
    <2>2. /\ s.job = send[w].job /\ s.snap = send[w].snap /\ s.seen = send[w].seen
          /\ s.phase = "failed"
        BY <1>2 DEF Sends
    <2> HIDE DEF s
    <2>3. Begun(s) /\ Begun(send[w])
        BY <1>1, <2>2 DEF Begun
    <2>4. Advanced(w)
        BY <1>1, <2>1, <2>2, <2>3, SlotAdvances
    <2> QED  BY <1>3, <1>4, <2>4
<1> QED  BY <1>5, <1>6

\* What every step of the drain keeps.
LEMMA DrainTurn ==
    ASSUME PInv, (IInv /\ Orderly /\ TurnOK)', turn = "drain", NEW w \in Workers,
           \A v \in Workers \ {w} : send'[v] = send[v] /\ ~Begun(send[v]),
           UNCHANGED <<events, processed, reply>>, Fault \/ UNCHANGED faults,
           turn' = IF \A v \in Workers : send'[v].phase = "idle" THEN "poll" ELSE "drain"
    PROVE  TurnsTaken' /\ CaughtUp' /\ RepliesFresh'
<1>1. \A r \in Consumers : reply[r] = IdleReply /\ reply[r].phase = "idle"
    BY DEF PInv, TurnsTaken, RepliesFresh, ReplyFresh
<1>2. RepliesFresh'
    BY <1>1, IdleConsumer DEF RepliesFresh
<1>3. TurnsTaken'
    BY <1>1 DEF TurnsTaken, Begun
<1>4. CaughtUp'
    <2>1. CASE Fault
        BY <2>1, FaultShows DEF PInv, IInv
    <2>2. CASE UNCHANGED faults
        BY <2>2 DEF PInv, CaughtUp
    <2> QED  BY <2>1, <2>2
<1> QED  BY <1>2, <1>3, <1>4

\* Messages that are not recorded yet show nowhere.
MailMore ==
    /\ DOMAIN mail \subseteq DOMAIN mail'
    /\ \A m \in DOMAIN mail : mail'[m] = mail[m]
    /\ \A m \in DOMAIN mail' \ DOMAIN mail : ~mail'[m].recorded

LEMMA AnsweredMore ==
    ASSUME Typed, Answered, MailMore, UNCHANGED <<lead, jobs, events, processed>>
    PROVE  Answered'
<1>1. processed \subseteq DOMAIN events
    BY DEF Typed, TypeOK
<1>2. MailShows'
    BY DEF Answered, MailShows, MailMore
<1>3. LinkIsDone' /\ EventsReal'
    BY DEF Answered, LinkIsDone, EventsReal, MailMore
<1>4. RepliesTakeEffect'
    BY <1>1 DEF Answered, RepliesTakeEffect, EventsReal, MailMore
<1> QED  BY <1>2, <1>3, <1>4 DEF Answered

\* A slot that stays busy keeps the invariant.
LEMMA AdvancedKeeps ==
    ASSUME PInv, NEW w \in Workers, Advanced(w), MailMore,
           \A v \in Workers \ {w} : ~Begun(send[v])
    PROVE  JobsHeld' /\ SlotsFresh' /\ Answered' /\ Unfaulted'
<1>1. /\ \A v \in Workers \ {w} : send'[v] = send[v]
      /\ send[w].phase # "idle" /\ send'[w].phase # "idle" /\ send'[w].job = send[w].job
      /\ SlotFresh(send'[w])
      /\ UNCHANGED <<lead, jobs, events, processed, suppressed, reply>>
      /\ Fault \/ UNCHANGED faults
    BY DEF Advanced, Begun
<1>2. \A v \in Workers : /\ send'[v].phase = "idle" <=> send[v].phase = "idle"
                         /\ send'[v].job = send[v].job
    BY <1>1
<1>3. JobsHeld'
    BY <1>1, <1>2 DEF PInv, JobsHeld
<1>4. SlotsFresh'
    BY <1>1 DEF PInv, SlotsFresh, SlotFresh, Begun
<1>5. Answered'
    BY <1>1, AnsweredMore DEF PInv, IInv
<1>6. Unfaulted'
    <2>1. CASE Fault
        BY <2>1, FaultShows DEF PInv, IInv
    <2>2. CASE UNCHANGED faults
        <3>1. \A j : Held(j) => Held(j)'
            BY <1>2 DEF Held
        <3>2. \A j \in DOMAIN jobs : Live(j)' <=> Live(j)
            BY <1>1 DEF Live
        <3> QED  BY <1>1, <2>2, <3>1, <3>2 DEF PInv, Unfaulted
    <2> QED  BY <1>1, <2>1, <2>2
<1> QED  BY <1>3, <1>4, <1>5, <1>6

\* What a commit does: it writes a lead that is as it was read, and lets the
\* job go.  Unless it sent a message, it adds no job and no message.
Settled(w) ==
    LET j == send[w].job
        l == JobOf(w).lead
    IN  /\ send' = [send EXCEPT ![w] = IdleSend]
        /\ UNCHANGED <<events, processed, suppressed, reply, faults>>
        /\ \A k \in Leads \ {l} : lead'[k] = lead[k]
        /\ \/ lead'[l] = lead[l]
           \/ lead[l].state \in Sendable /\ lead'[l].state \in {"sent", "done", "failed"}
        /\ DOMAIN jobs \subseteq DOMAIN jobs'
        /\ \A i \in DOMAIN jobs : i # j => jobs'[i] = jobs[i]
        /\ jobs'[j].lead = l /\ jobs'[j].status # "running"
        /\ jobs'[j].outbound # 0 => jobs'[j].status = "done"
        /\ IsStopped(lead'[l]) /\ ~IsStopped(lead[l]) => jobs'[j].status # "pending"
        /\ \A i, k \in DOMAIN jobs' \ DOMAIN jobs : i = k
        /\ \A i \in DOMAIN jobs' \ DOMAIN jobs :
              /\ jobs'[i].lead = l /\ jobs'[i].status = "pending" /\ jobs'[i].outbound = 0
              /\ jobs'[j].status # "pending" /\ ~IsStopped(lead'[l])
        /\ DOMAIN mail' = DOMAIN mail
        /\ \A m \in DOMAIN mail :
              /\ mail'[m].to = mail[m].to
              /\ mail[m].recorded => mail'[m].recorded
              /\ mail'[m].recorded /\ ~mail[m].recorded =>
                    /\ mail[m].to = l /\ lead'[l].state \in {"sent", "done"}
                    /\ jobs'[j].outbound = m

LEMMA SettledKeeps ==
    ASSUME PInv, NEW w \in Workers, send[w].phase # "idle", Settled(w),
           \A v \in Workers \ {w} : ~Begun(send[v])
    PROVE  /\ JobsHeld' /\ SlotsFresh' /\ Unfaulted'
           /\ \A l \in Leads : IsStopped(lead[l]) => lead'[l] = lead[l]
<1> DEFINE j == send[w].job
           l == JobOf(w).lead
<1>1. /\ j \in DOMAIN jobs /\ l \in Leads /\ jobs[j].status = "running" /\ l = jobs[j].lead
      /\ send \in [Workers -> Sends]
      /\ \A i \in DOMAIN jobs : jobs[i].lead \in Leads
    BY SlotJob, JobDomain DEF JobOf, PInv, IInv, Typed, TypeOK, Jobs
<1>2. /\ send'[w].phase = "idle" /\ \A v \in Workers \ {w} : send'[v] = send[v]
      /\ UNCHANGED faults
    BY <1>1 DEF Settled, IdleSend
<1>3. \A i \in DOMAIN jobs : i # j => jobs'[i] = jobs[i]
    BY DEF Settled
<1>4. \A v \in Workers \ {w} : send[v].phase # "idle" => send[v].job # j
    BY <1>1, SlotJob DEF PInv, JobsHeld
<1>5. JobsHeld'
    <2>1. \A v \in Workers \ {w} : send[v].phase # "idle" =>
              jobs'[send[v].job] = jobs[send[v].job]
        BY <1>3, <1>4, SlotJob
    <2> QED  BY <1>2, <2>1 DEF PInv, JobsHeld
<1>6. SlotsFresh'
    BY <1>2 DEF PInv, SlotsFresh, SlotFresh, Begun
<1>7. ASSUME NEW k \in Leads, IsStopped(lead[k])
      PROVE  lead'[k] = lead[k]
    BY <1>7 DEF Settled, IsStopped, Sendable
<1>8. Unfaulted'
    <2> SUFFICES ASSUME faults = 0
                 PROVE  /\ \A i, k \in DOMAIN jobs' :
                              Live(i)' /\ Live(k)' /\ jobs'[i].lead = jobs'[k].lead => i = k
                        /\ \A i \in DOMAIN jobs' : jobs'[i].status = "running" => Held(i)'
                        /\ \A i \in DOMAIN jobs' : Live(i)' => ~IsStopped(lead'[jobs'[i].lead])
        BY <1>2 DEF Unfaulted
    <2>1. /\ \A i, k \in DOMAIN jobs : Live(i) /\ Live(k) /\ jobs[i].lead = jobs[k].lead => i = k
          /\ \A i \in DOMAIN jobs : jobs[i].status = "running" => Held(i)
          /\ \A i \in DOMAIN jobs : Live(i) => ~IsStopped(lead[jobs[i].lead])
        BY DEF PInv, Unfaulted
    <2>2. Live(j) /\ jobs'[j].lead = l /\ jobs'[j].status # "running"
        BY <1>1 DEF Live, Settled
    <2>3. \A i \in DOMAIN jobs : jobs'[i].lead = jobs[i].lead /\ (Live(i)' => Live(i))
        BY <1>1, <1>3, <2>2 DEF Live
    <2>4. /\ \A i, k \in DOMAIN jobs' \ DOMAIN jobs : i = k
          /\ \A i \in DOMAIN jobs' \ DOMAIN jobs :
                /\ jobs'[i].lead = l /\ jobs'[i].status = "pending"
                /\ jobs'[j].status # "pending" /\ ~IsStopped(lead'[l])
        BY DEF Settled
    <2>5. ASSUME NEW i \in DOMAIN jobs, NEW k \in DOMAIN jobs' \ DOMAIN jobs, Live(i)'
          PROVE  jobs'[i].lead # jobs'[k].lead
        <3>1. i # j
            BY <2>2, <2>4, <2>5 DEF Live
        <3>2. Live(i) /\ Live(j) /\ jobs'[i].lead = jobs[i].lead /\ jobs'[k].lead = jobs[j].lead
            BY <1>1, <2>2, <2>3, <2>4, <2>5
        <3> QED  BY <1>1, <2>1, <3>1, <3>2
    <2>6. \A i, k \in DOMAIN jobs' : Live(i)' /\ Live(k)' /\ jobs'[i].lead = jobs'[k].lead => i = k
        BY <2>1, <2>3, <2>4, <2>5
    <2>7. ASSUME NEW i \in DOMAIN jobs', jobs'[i].status = "running"
          PROVE  Held(i)'
        <3>1. i \in DOMAIN jobs /\ i # j /\ jobs[i].status = "running"
            BY <1>3, <2>2, <2>4, <2>7
        <3>2. PICK v \in Workers : send[v].phase # "idle" /\ send[v].job = i
            BY <2>1, <3>1 DEF Held
        <3>3. v # w
            BY <3>1, <3>2
        <3> QED  BY <1>2, <3>2, <3>3 DEF Held
    <2>8. ASSUME NEW i \in DOMAIN jobs', Live(i)'
          PROVE  ~IsStopped(lead'[jobs'[i].lead])
        <3>1. CASE i \in DOMAIN jobs
            <4>1. Live(i) /\ jobs'[i].lead = jobs[i].lead /\ ~IsStopped(lead[jobs[i].lead])
                BY <2>1, <2>3, <2>8, <3>1
            <4>2. jobs[i].lead = l => i = j
                BY <1>1, <2>1, <2>2, <3>1, <4>1
            <4>3. CASE i = j
                <5>1. jobs'[j].status = "pending"
                    BY <2>2, <2>8, <4>3 DEF Live
                <5> QED  BY <1>1, <4>1, <4>3, <5>1 DEF Settled
            <4>4. CASE jobs[i].lead # l
                <5>1. lead'[jobs[i].lead] = lead[jobs[i].lead]
                    BY <1>1, <3>1, <4>4 DEF Settled
                <5> QED  BY <4>1, <5>1
            <4> QED  BY <4>2, <4>3, <4>4
        <3>2. CASE i \notin DOMAIN jobs
            BY <2>4, <3>2
        <3> QED  BY <3>1, <3>2
    <2> QED  BY <2>6, <2>7, <2>8
<1> QED  BY <1>5, <1>6, <1>7, <1>8

LEMMA SettledAnswers ==
    ASSUME PInv, NEW w \in Workers, send[w].phase # "idle", Settled(w),
           \A m : m # 0 /\ jobs[send[w].job].outbound = m => jobs'[send[w].job].outbound = m
    PROVE  Answered'
<1> DEFINE j == send[w].job
           l == JobOf(w).lead
<1>1. /\ j \in DOMAIN jobs /\ l \in Leads /\ jobs[j].status = "running"
      /\ \A m \in DOMAIN mail : mail[m].to \in Leads /\ m # 0
      /\ processed \subseteq DOMAIN events
    BY SlotJob, MailedTo DEF JobOf, PInv, IInv, Typed, TypeOK
<1>2. /\ UNCHANGED <<events, processed>> /\ DOMAIN mail' = DOMAIN mail
      /\ \A m \in DOMAIN mail : /\ mail'[m].to = mail[m].to
                                /\ mail[m].recorded => mail'[m].recorded
    BY DEF Settled
<1>3. \A k \in Leads : \/ lead'[k] = lead[k]
                       \/ lead[k].state \in Sendable /\ lead'[k].state \in {"sent", "done", "failed"}
    BY DEF Settled
<1>4. MailShows'
    <2> SUFFICES ASSUME NEW m \in DOMAIN mail, mail'[m].recorded
                 PROVE  /\ lead'[mail[m].to].state \in {"sent", "done", "paused", "failed"}
                        /\ \E i \in DOMAIN jobs' : jobs'[i].outbound = m
        BY <1>2 DEF MailShows
    <2>1. CASE mail[m].recorded
        <3>1. /\ lead[mail[m].to].state \in {"sent", "done", "paused", "failed"}
              /\ \E i \in DOMAIN jobs : jobs[i].outbound = m
            BY <2>1 DEF PInv, Answered, MailShows
        <3>2. lead'[mail[m].to].state \in {"sent", "done", "paused", "failed"}
            BY <1>1, <1>3, <3>1
        <3>3. PICK i \in DOMAIN jobs : jobs[i].outbound = m
            BY <3>1
        <3>4. i \in DOMAIN jobs' /\ jobs'[i].outbound = m
            BY <1>1, <3>3 DEF Settled
        <3> QED  BY <3>2, <3>4
    <2>2. CASE ~mail[m].recorded
        BY <1>1, <2>2 DEF Settled
    <2> QED  BY <2>1, <2>2
<1>5. LinkIsDone'
    BY DEF PInv, Answered, LinkIsDone, Settled
<1>6. EventsReal'
    BY <1>2 DEF PInv, Answered, EventsReal
<1>7. RepliesTakeEffect'
    <2> SUFFICES ASSUME NEW e \in processed
                 PROVE  IsStopped(lead'[mail'[events[e].mail].to])
        BY <1>2 DEF RepliesTakeEffect
    <2>1. events[e].mail \in DOMAIN mail /\ IsStopped(lead[mail[events[e].mail].to])
        BY <1>1 DEF PInv, Answered, RepliesTakeEffect, EventsReal
    <2> QED  BY <1>1, <1>2, <1>3, <2>1 DEF IsStopped, Sendable
<1> QED  BY <1>4, <1>5, <1>6, <1>7 DEF Answered

\* What is read again is what was read before, so an outcome is written whole.
LEMMA FinishWrites ==
    ASSUME PInv, NEW w \in Workers, NEW newJobs, Finish(w, newJobs), send[w].phase \in Outcomes
    PROVE  LET l == JobOf(w).lead
           IN  /\ send' = [send EXCEPT ![w] = IdleSend] /\ jobs' = newJobs
               /\ UNCHANGED <<events, processed, suppressed, reply, faults>>
               /\ \A k \in Leads \ {l} : lead'[k] = lead[k]
               /\ IF WritesLead(w)
                  THEN lead[l].state \in Sendable /\ lead'[l] = NewRow(w)
                  ELSE lead'[l] = lead[l]
               /\ send[w].phase = "accepted" => NewRow(w).state \in {"sent", "done"}
               /\ send[w].phase # "accepted" => NewRow(w).state = "failed"
<1> DEFINE l == JobOf(w).lead
           new == NewRow(w)
           row == lead[l]
<1>1. /\ send[w].phase # "idle" /\ Begun(send[w])
      /\ WritesLead(w) => send[w].phase # "ineligible" /\ send[w].seen # NoRow
    BY DEF Outcomes, Begun, WritesLead, Finish
<1>2. SlotFresh(send[w]) /\ l \in Leads /\ l = jobs[send[w].job].lead /\ lead \in [Leads -> Rows]
    BY <1>1, SlotJob DEF PInv, IInv, Typed, TypeOK, JobOf
<1>3. new \in LeadRows
    BY NewRowTyped DEF PInv, IInv
<1>4. WritesLead(w) => row.state \in Sendable /\ send[w].seen = row
    BY <1>1, <1>2 DEF SlotFresh
<1>5. /\ send' = [send EXCEPT ![w] = IdleSend] /\ jobs' = newJobs
      /\ UNCHANGED <<events, processed, suppressed, reply, faults>>
      /\ lead' = IF WritesLead(w)
                 THEN [lead EXCEPT ![l] = Written(row, send[w].seen, new)] ELSE lead
    BY DEF Finish
<1>6. \A k \in Leads \ {l} : lead'[k] = lead[k]
    BY <1>2, <1>5
<1>7. ASSUME WritesLead(w)
      PROVE  row.state \in Sendable /\ lead'[l] = new
    <2>1. lead'[l] = Written(row, send[w].seen, new)
        BY <1>2, <1>5, <1>7
    <2>2. Written(row, send[w].seen, new) = new
        BY <1>3, <1>4, <1>7, WrittenWhole
    <2> QED  BY <1>4, <1>7, <2>1, <2>2
<1>8. send[w].snap \in LeadRows
    BY NewRowTyped DEF PInv, IInv
<1>9. /\ send[w].phase = "accepted" => new.state \in {"sent", "done"}
      /\ send[w].phase # "accepted" => new.state = "failed"
    BY <1>8 DEF NewRow, RecordSent, FailLead, LeadRows
<1> QED  BY <1>5, <1>6, <1>7, <1>9

\* An outcome that sent nothing.
LEMMA StatusSettles ==
    ASSUME PInv, NEW w \in Workers, NEW newJobs, Finish(w, newJobs),
           send[w].phase \in Outcomes \ {"accepted"}, mail' = mail,
           DOMAIN newJobs = DOMAIN jobs,
           \A i \in DOMAIN jobs : i # send[w].job => newJobs[i] = jobs[i],
           \A i \in DOMAIN jobs : newJobs[i].lead = jobs[i].lead /\ newJobs[i].outbound = jobs[i].outbound,
           newJobs[send[w].job].status # "running",
           WritesLead(w) => newJobs[send[w].job].status # "pending"
    PROVE  /\ Settled(w)
           /\ jobs'[send[w].job].outbound = jobs[send[w].job].outbound
<1>1. /\ send[w].phase # "idle" /\ send[w].phase \in Outcomes
    BY DEF Outcomes
<1>2. /\ send[w].job \in DOMAIN jobs /\ JobOf(w).status = "running" /\ JobOf(w) = jobs[send[w].job]
    BY <1>1, SlotJob DEF JobOf
<1>3. jobs[send[w].job].outbound = 0
    BY <1>2 DEF PInv, Answered, LinkIsDone
<1>4. /\ send' = [send EXCEPT ![w] = IdleSend] /\ jobs' = newJobs
      /\ UNCHANGED <<events, processed, suppressed, reply, faults>>
      /\ \A k \in Leads \ {JobOf(w).lead} : lead'[k] = lead[k]
      /\ IF WritesLead(w)
         THEN lead[JobOf(w).lead].state \in Sendable /\ lead'[JobOf(w).lead].state = "failed"
         ELSE lead'[JobOf(w).lead] = lead[JobOf(w).lead]
    BY <1>1, FinishWrites
<1>5. DOMAIN jobs' = DOMAIN jobs /\ DOMAIN mail' = DOMAIN mail
    BY <1>4
<1>6. Settled(w)
    BY <1>2, <1>3, <1>4, <1>5 DEF Settled
<1> QED  BY <1>2, <1>4, <1>6

LEMMA FinishSettles ==
    ASSUME PInv, NEW w \in Workers,
           FinishSuppressed(w) \/ FinishFailed(w) \/ FinishDeferred(w) \/ FinishIneligible(w)
    PROVE  /\ Settled(w)
           /\ jobs'[send[w].job].outbound = jobs[send[w].job].outbound
<1>1. Typed /\ \A i \in DOMAIN jobs : jobs[i] \in Jobs
    BY JobDomain DEF PInv, IInv, Typed, TypeOK
<1>2. {"pending", "failed", "cancelled"} \subseteq JobStatuses
    BY DEF JobStatuses
<1>3. ASSUME NEW x \in {"pending", "failed", "cancelled"}, Finish(w, Set(w, x)), mail' = mail,
             send[w].phase \in Outcomes \ {"accepted"}, WritesLead(w) => x # "pending"
      PROVE  /\ Settled(w)
             /\ jobs'[send[w].job].outbound = jobs[send[w].job].outbound
    <2>1. send[w].phase \in Outcomes /\ x \in JobStatuses
        BY <1>2, <1>3
    <2> DEFINE r == Set(w, x)
    <2>2. /\ Follows(jobs, r) /\ DOMAIN r = DOMAIN jobs
          /\ r[send[w].job].status = x
          /\ \A i \in DOMAIN jobs : i # send[w].job => r[i] = jobs[i]
          /\ \A i \in DOMAIN jobs : r[i].outbound = jobs[i].outbound
        BY <1>1, <2>1, StatusJobs
    <2>3. \A i \in DOMAIN jobs : r[i].lead = jobs[i].lead
        BY <2>2 DEF Follows
    <2>4. Finish(w, r)
        BY <1>3
    <2> HIDE DEF r
    <2> QED  BY <1>3, <2>2, <2>3, <2>4, StatusSettles
<1>4. CASE FinishSuppressed(w)
    BY <1>3, <1>4 DEF FinishSuppressed, Outcomes
<1>5. CASE FinishIneligible(w)
    BY <1>3, <1>5 DEF FinishIneligible, Outcomes
<1>6. CASE FinishFailed(w)
    <2> DEFINE x == IF Retries(send[w].attempts) THEN "pending" ELSE "failed"
    <2>1. /\ x \in {"pending", "failed", "cancelled"} /\ Finish(w, Set(w, x)) /\ mail' = mail
          /\ send[w].phase \in Outcomes \ {"accepted"}
          /\ WritesLead(w) => x # "pending"
        BY <1>6 DEF FinishFailed, Outcomes, WritesLead
    <2> HIDE DEF x
    <2> QED  BY <1>3, <2>1
<1>7. CASE FinishDeferred(w)
    <2> DEFINE r == [jobs EXCEPT ![send[w].job].status = "pending",
                                 ![send[w].job].attempts = @ - 1]
    <2>1. /\ Finish(w, r) /\ mail' = mail /\ send[w].phase \in Outcomes \ {"accepted"}
          /\ send[w].phase \in Outcomes /\ ~WritesLead(w)
        BY <1>7 DEF FinishDeferred, Outcomes, WritesLead
    <2>2. /\ Follows(jobs, r) /\ DOMAIN r = DOMAIN jobs
          /\ r[send[w].job].status = "pending"
          /\ \A i \in DOMAIN jobs : i # send[w].job => r[i] = jobs[i]
          /\ \A i \in DOMAIN jobs : r[i].outbound = jobs[i].outbound
        BY <1>1, <2>1, ReleasedJobs
    <2>3. \A i \in DOMAIN jobs : r[i].lead = jobs[i].lead
        BY <2>2 DEF Follows
    <2> HIDE DEF r
    <2> QED  BY <2>1, <2>2, <2>3, StatusSettles
<1> QED  BY <1>4, <1>5, <1>6, <1>7

\* A message that is recorded.
LEMMA SentSettles ==
    ASSUME PInv, NEW w \in Workers, FinishSent(w)
    PROVE  Settled(w) /\ jobs[send[w].job].outbound = 0
<1> DEFINE j == send[w].job
           msg == send[w].msg
           done == [jobs EXCEPT ![j].status = "done", ![j].outbound = send[w].msg]
           next == Append(done, NewJob(jobs[j].lead, jobs[j].position + 1))
           newJobs == IF IsLastStep(jobs[j].position) THEN done ELSE next
<1>1. /\ send[w].phase = "accepted" /\ Finish(w, newJobs)
      /\ mail' = [mail EXCEPT ![msg].recorded = TRUE]
    BY DEF FinishSent
<1>2. /\ send[w].phase # "idle" /\ send[w].phase \in Outcomes /\ WritesLead(w)
      /\ Typed /\ mail \in Seq(Mails)
    BY <1>1 DEF Outcomes, WritesLead, PInv, IInv, Typed, TypeOK
<1>3. /\ j \in DOMAIN jobs /\ JobOf(w).status = "running" /\ JobOf(w) = jobs[j]
      /\ JobOf(w).lead \in Leads
    BY <1>2, SlotJob DEF JobOf
<1>4. jobs[j].outbound = 0
    BY <1>3 DEF PInv, Answered, LinkIsDone
<1>5. /\ send' = [send EXCEPT ![w] = IdleSend] /\ jobs' = newJobs
      /\ UNCHANGED <<events, processed, suppressed, reply, faults>>
      /\ \A k \in Leads \ {JobOf(w).lead} : lead'[k] = lead[k]
      /\ lead[JobOf(w).lead].state \in Sendable /\ lead'[JobOf(w).lead].state \in {"sent", "done"}
    <2> HIDE DEF newJobs
    <2> QED  BY <1>1, <1>2, FinishWrites
<1>6. /\ DOMAIN jobs \subseteq DOMAIN newJobs
      /\ \A i \in DOMAIN jobs : i # j => newJobs[i] = jobs[i]
      /\ newJobs[j].lead = jobs[j].lead /\ newJobs[j].status = "done"
      /\ newJobs[j].outbound = msg
      /\ \A i, k \in DOMAIN newJobs \ DOMAIN jobs : i = k
      /\ \A i \in DOMAIN newJobs \ DOMAIN jobs :
            newJobs[i] = NewJob(jobs[j].lead, jobs[j].position + 1)
    <2>1. /\ Follows(jobs, done) /\ DOMAIN done = DOMAIN jobs
          /\ done[j].outbound = msg /\ done[j].status = "done"
          /\ \A i \in DOMAIN jobs : i # j => done[i] = jobs[i]
        BY <1>1, <1>2, DoneJobs
    <2>2. done[j].lead = jobs[j].lead
        BY <1>3, <2>1 DEF Follows
    <2>3. CASE IsLastStep(jobs[j].position)
        <3>1. newJobs = done
            BY <2>3
        <3> HIDE DEF done, newJobs
        <3> QED  BY <1>3, <2>1, <2>2, <3>1
    <2>4. CASE ~IsLastStep(jobs[j].position)
        <3>1. newJobs = next
            BY <2>4
        <3>2. /\ Follows(jobs, next)
              /\ \A i \in DOMAIN jobs : next[i] = done[i]
              /\ \A i \in DOMAIN next \ DOMAIN jobs :
                    next[i] = NewJob(jobs[j].lead, jobs[j].position + 1)
              /\ \A i, k \in DOMAIN next \ DOMAIN jobs : i = k
            BY <1>1, <1>2, <2>4, DoneJobs
        <3> HIDE DEF done, next, newJobs
        <3>3. DOMAIN jobs \subseteq DOMAIN next
            BY <3>2 DEF Follows
        <3> QED  BY <1>3, <2>1, <2>2, <3>1, <3>2, <3>3
    <2> QED  BY <2>3, <2>4
<1> HIDE DEF done, next, newJobs
<1>7. \A i \in DOMAIN newJobs \ DOMAIN jobs :
          /\ newJobs[i].lead = jobs[j].lead /\ newJobs[i].status = "pending"
          /\ newJobs[i].outbound = 0
    BY <1>6 DEF NewJob
<1>8. /\ DOMAIN mail' = DOMAIN mail
      /\ \A m \in DOMAIN mail : /\ mail'[m].to = mail[m].to
                                /\ mail[m].recorded => mail'[m].recorded
                                /\ mail'[m].recorded /\ ~mail[m].recorded => m = msg
      /\ mail[msg].to = JobOf(w).lead
    <2>1. msg \in DOMAIN mail /\ mail[msg].to = JobOf(w).lead
        BY <1>1, <1>3 DEF PInv, IInv, Typed, SlotsTyped, SlotTyped, Real, SlotsEarned, SlotEarned
    <2>2. /\ DOMAIN mail' = DOMAIN mail
          /\ \A m \in DOMAIN mail : /\ mail'[m].to = mail[m].to
                                    /\ mail[m].recorded => mail'[m].recorded
        BY <1>1, <1>2, <2>1, MailRecorded
    <2>3. \A m \in DOMAIN mail : m # msg => mail'[m] = mail[m]
        BY <1>1
    <2> QED  BY <2>1, <2>2, <2>3
<1> HIDE DEF j, msg
<1>9. Settled(w)
    BY <1>3, <1>5, <1>6, <1>7, <1>8 DEF Settled, IsStopped, j
<1> QED  BY <1>4, <1>9 DEF j

\* The drain as a whole.  It writes leads that are not stopped, and a message
\* that goes out is for a lead that is neither stopped nor suppressed.
LEMMA DrainKeeps ==
    ASSUME PInv, (IInv /\ Orderly /\ TurnOK)', Drain
    PROVE  /\ PInv'
           /\ \A l \in Leads : IsStopped(lead[l]) => lead'[l] = lead[l]
           /\ \A m \in DOMAIN mail' \ DOMAIN mail :
                 ~IsStopped(lead[mail'[m].to]) /\ mail'[m].to \notin suppressed
           /\ UNCHANGED <<events, processed, suppressed>>
<1>1. PICK w \in Workers :
          /\ \A v \in Workers \ {w} : send[v].phase \in {"idle", "claimed"}
          /\ \/ Load(w) \/ CheckSuppression(w) \/ TakeMailbox(w)
             \/ ProviderAccepts(w) \/ AnswerLost(w) \/ DispatchFails(w) \/ ReadAgain(w)
             \/ FinishSent(w) \/ FinishSuppressed(w) \/ FinishFailed(w)
             \/ FinishDeferred(w) \/ FinishIneligible(w)
    BY DEF Drain
<1>2. /\ turn = "drain" /\ \A v \in Workers \ {w} : ~Begun(send[v])
      /\ turn' = IF \A v \in Workers : send'[v].phase = "idle" THEN "poll" ELSE "drain"
    BY <1>1 DEF Drain, Begun
<1>3. ASSUME UNCHANGED mail
      PROVE  MailMore /\ \A m \in DOMAIN mail' \ DOMAIN mail : FALSE
    BY <1>3 DEF MailMore
<1>4. ASSUME Advanced(w), MailMore
      PROVE  /\ PInv' /\ UNCHANGED <<lead, events, processed, suppressed>>
    <2>1. /\ \A v \in Workers \ {w} : send'[v] = send[v] /\ ~Begun(send[v])
          /\ UNCHANGED <<lead, events, processed, suppressed, reply>>
          /\ Fault \/ UNCHANGED faults
        BY <1>2, <1>4 DEF Advanced
    <2>2. TurnsTaken' /\ CaughtUp' /\ RepliesFresh'
        BY <1>2, <2>1, DrainTurn
    <2>3. JobsHeld' /\ SlotsFresh' /\ Answered' /\ Unfaulted'
        BY <1>2, <1>4, AdvancedKeeps
    <2> QED  BY <2>1, <2>2, <2>3 DEF PInv
<1>5. ASSUME Settled(w), send[w].phase # "idle",
             \A m : m # 0 /\ jobs[send[w].job].outbound = m => jobs'[send[w].job].outbound = m
      PROVE  /\ PInv' /\ \A l \in Leads : IsStopped(lead[l]) => lead'[l] = lead[l]
             /\ DOMAIN mail' = DOMAIN mail /\ UNCHANGED <<events, processed, suppressed>>
    <2>1. /\ send' = [send EXCEPT ![w] = IdleSend]
          /\ UNCHANGED <<events, processed, suppressed, reply, faults>>
          /\ DOMAIN mail' = DOMAIN mail
        BY <1>5 DEF Settled
    <2>2. \A v \in Workers \ {w} : send'[v] = send[v] /\ ~Begun(send[v])
        BY <1>2, <2>1 DEF PInv, IInv, Typed, TypeOK
    <2>3. TurnsTaken' /\ CaughtUp' /\ RepliesFresh'
        BY <1>2, <2>1, <2>2, DrainTurn
    <2>4. /\ JobsHeld' /\ SlotsFresh' /\ Unfaulted'
          /\ \A l \in Leads : IsStopped(lead[l]) => lead'[l] = lead[l]
        BY <1>2, <1>5, SettledKeeps
    <2>5. Answered'
        BY <1>5, SettledAnswers
    <2> QED  BY <2>1, <2>3, <2>4, <2>5 DEF PInv
<1>6. CASE Load(w) \/ CheckSuppression(w) \/ TakeMailbox(w) \/ DispatchFails(w) \/ ReadAgain(w)
    <2>1. Advanced(w)
        BY <1>6, LoadAdvances, ChecksAdvance
    <2>2. UNCHANGED mail
        BY <1>6 DEF Load, CheckSuppression, TakeMailbox, DispatchFails, ReadAgain, tables
    <2> QED  BY <1>3, <1>4, <2>1, <2>2
<1>7. CASE ProviderAccepts(w) \/ AnswerLost(w)
    <2>1. Advanced(w) /\ mail \in Seq(Mails)
        BY <1>7, DeliverAdvances DEF PInv, IInv, Typed, TypeOK
    <2>2. PICK m \in Mails : /\ mail' = Append(mail, m) /\ ~m.recorded
                             /\ m.to \notin suppressed /\ ~IsStopped(lead[m.to])
        BY <1>7, DeliverAdvances
    <2>3. /\ DOMAIN mail' = DOMAIN mail \cup {Len(mail) + 1}
          /\ \A i \in DOMAIN mail : mail'[i] = mail[i]
          /\ mail'[Len(mail) + 1] = m
        BY <2>1, <2>2, MailAppended
    <2>4. MailMore
        BY <2>2, <2>3 DEF MailMore
    <2>5. PInv' /\ UNCHANGED <<lead, events, processed, suppressed>>
        BY <1>4, <2>1, <2>4
    <2> QED  BY <2>2, <2>3, <2>5
<1>8. CASE FinishSuppressed(w) \/ FinishFailed(w) \/ FinishDeferred(w) \/ FinishIneligible(w)
    <2>1. send[w].phase # "idle"
        BY <1>8 DEF FinishSuppressed, FinishFailed, FinishDeferred, FinishIneligible
    <2>2. Settled(w) /\ jobs'[send[w].job].outbound = jobs[send[w].job].outbound
        BY <1>8, FinishSettles
    <2> QED  BY <1>5, <2>1, <2>2
<1>9. CASE FinishSent(w)
    <2>1. send[w].phase # "idle"
        BY <1>9 DEF FinishSent
    <2>2. Settled(w) /\ jobs[send[w].job].outbound = 0
        BY <1>9, SentSettles
    <2> QED  BY <1>5, <2>1, <2>2
<1> QED  BY <1>1, <1>6, <1>7, <1>8, <1>9

\* The end of a drain by an exception or a crash.
LEMMA DrainErrorKeeps ==
    ASSUME PInv, (IInv /\ Orderly /\ TurnOK)', DrainError
    PROVE  PInv' /\ lead' = lead
<1> DEFINE S == {w \in Workers : send[w].phase # "idle"}
<1>1. /\ turn = "drain" /\ turn' = "poll" /\ Fault
      /\ send' = [w \in Workers |-> IF w \in S THEN IdleSend ELSE send[w]]
      /\ UNCHANGED <<lead, jobs, mail, events, processed, suppressed, reply>>
    BY DEF DrainError, WorkersCrash, tables
<1>2. \A w \in Workers : send'[w].phase = "idle"
    BY <1>1 DEF IdleSend
<1>3. JobsHeld' /\ SlotsFresh'
    BY <1>2, SlotsAllIdle
<1>4. \A r \in Consumers : reply[r].phase = "idle"
    BY <1>1 DEF PInv, TurnsTaken
<1>5. TurnsTaken'
    BY <1>1, <1>2, <1>4 DEF TurnsTaken, Begun
<1>6. RepliesFresh'
    BY <1>1, ConsumersSame DEF PInv
<1>7. Answered' /\ CaughtUp' /\ Unfaulted'
    BY <1>1, AnsweredSame, FaultShows DEF PInv, IInv
<1> QED  BY <1>1, <1>3, <1>5, <1>6, <1>7 DEF PInv

-----------------------------------------------------------------------------
(* The invariant.                                                          *)

LEMMA PInvInitially == PythonInit => PInv
<1> SUFFICES ASSUME PythonInit PROVE PInv
    OBVIOUS
<1>1. /\ Init /\ turn = "poll" /\ jobs = <<>> /\ mail = <<>> /\ events = <<>>
      /\ processed = {} /\ send = [w \in Workers |-> IdleSend]
      /\ reply = [r \in Consumers |-> IdleReply]
    BY DEF PythonInit, Init
<1>2. IInv /\ Orderly
    BY <1>1, TypedInitially, RealInitially, OrderlyInitially DEF IInv
<1>3. TurnOK
    BY <1>1 DEF TurnOK, Turns
<1>4. \A w \in Workers : send[w].phase = "idle"
    BY <1>1 DEF IdleSend
<1>5. \A r \in Consumers : reply[r] = IdleReply /\ reply[r].phase = "idle"
    BY <1>1 DEF IdleReply
<1>6. TurnsTaken /\ JobsHeld /\ SlotsFresh
    BY <1>4, <1>5 DEF TurnsTaken, JobsHeld, SlotsFresh, SlotFresh, Begun
<1>7. RepliesFresh
    <2>1. /\ IdleReply.phase = "idle" /\ IdleReply.batch = {} /\ IdleReply.cancels = {}
          /\ \A l \in Leads : IdleReply.rows[l] = NoRow
        BY DEF IdleReply, NothingSeen
    <2> QED  BY <1>5, <2>1 DEF RepliesFresh, ReplyFresh
<1>8. DOMAIN jobs = {} /\ DOMAIN mail = {} /\ DOMAIN events = {}
    BY <1>1, EmptySeq
<1>9. Answered /\ Unfaulted
    BY <1>1, <1>8 DEF Answered, MailShows, LinkIsDone, EventsReal, RepliesTakeEffect, Unfaulted
<1>10. CaughtUp
    BY <1>1 DEF CaughtUp
<1> QED  BY <1>2, <1>3, <1>6, <1>7, <1>9, <1>10 DEF PInv

LEMMA PInvStep ==
    OneAtATime /\ PInv /\ [PythonNext]_pvars =>
        PInv' /\ \A l \in Leads : IsStopped(lead[l]) => lead'[l] = lead[l]
<1> SUFFICES ASSUME OneAtATime, PInv, [PythonNext]_pvars
             PROVE  PInv' /\ \A l \in Leads : IsStopped(lead[l]) => lead'[l] = lead[l]
    OBVIOUS
<1>1. (IInv /\ Orderly /\ TurnOK)'
    <2>1. [Next]_vars
        BY StepsMap
    <2>2. IInv /\ Orderly /\ TurnOK
        BY DEF PInv
    <2>3. Typed'
        BY <2>1, <2>2, TypedStep DEF IInv
    <2>4. Real'
        BY <2>1, <2>2, RealStep DEF IInv
    <2>5. Orderly'
        BY <2>1, <2>2, OrderlyStep
    <2>6. TurnOK'
        BY <2>2, TurnTyped
    <2> QED  BY <2>3, <2>4, <2>5, <2>6 DEF IInv
<1>2. CASE Outside
    <2>1. PInv' /\ (Requested \/ lead' = lead)
        BY <1>1, <1>2, OutsideKeeps
    <2> QED  BY <2>1, UntouchedLead DEF Requested
<1>3. CASE Poll
    BY <1>1, <1>3, PollKeeps
<1>4. CASE Dispatch \/ DispatchError
    BY <1>1, <1>4, DispatchKeeps
<1>5. CASE ClaimBatch
    BY <1>1, <1>5, ClaimKeeps
<1>6. CASE Drain
    BY <1>1, <1>6, DrainKeeps
<1>7. CASE DrainError
    BY <1>1, <1>7, DrainErrorKeeps
<1>8. CASE UNCHANGED pvars
    <2>1. UNCHANGED <<lead, jobs, mail, events, processed, suppressed, send, reply, faults, turn>>
        BY <1>8 DEF pvars, vars
    <2>2. TurnsTaken' /\ CaughtUp'
        BY <2>1 DEF PInv, TurnsTaken, CaughtUp, Begun
    <2> QED  BY <1>1, <2>1, <2>2, TablesSame
<1> QED  BY <1>2, <1>3, <1>4, <1>5, <1>6, <1>7, <1>8 DEF PythonNext, Tick

\* As long as requests do not overlap, the invariant holds: nothing that the
\* worker has read is out of date.
THEOREM WorkerInvariant == OneAtATime => (PythonSpec => []PInv)
<1> SUFFICES ASSUME OneAtATime PROVE PythonSpec => []PInv
    OBVIOUS
<1>1. PInv /\ [PythonNext]_pvars => PInv'
    BY PInvStep
<1> QED  BY <1>1, PInvInitially, PTL DEF PythonSpec

\* A lead that a reply or a failed send has stopped stays as it is (README,
\* demo path step 5).
THEOREM KeepsStopped == OneAtATime => (PythonSpec => WorkerKeepsStopped)
<1> SUFFICES ASSUME OneAtATime PROVE PythonSpec => WorkerKeepsStopped
    OBVIOUS
<1> DEFINE A == \A l \in Leads : IsStopped(lead[l]) => lead'[l] = lead[l]
<1>1. PInv /\ [PythonNext]_pvars => [A]_pvars
    BY PInvStep
<1>2. PythonSpec => []PInv
    BY WorkerInvariant
<1>3. WorkerKeepsStopped <=> [][A]_pvars
    BY DEF WorkerKeepsStopped
<1> HIDE DEF A
<1> QED  BY <1>1, <1>2, <1>3, PTL DEF PythonSpec

\* Only the drain sends.
LEMMA SendsInDrain ==
    ASSUME OneAtATime, PInv, [PythonNext]_pvars, DOMAIN mail' # DOMAIN mail
    PROVE  Drain /\ (IInv /\ Orderly /\ TurnOK)'
<1>1. PInv'
    BY PInvStep
<1>2. (IInv /\ Orderly /\ TurnOK)'
    BY <1>1 DEF PInv
<1>3. ~(Outside \/ UNCHANGED pvars)
    BY DEF Outside, ClientNext, NextDay, AddLeadsRead, AddLeadsCommit, AddRows, AddLeadsConflict,
           StartRead, StartList, StartFlush, StartCommit, RequestUnchanged, tables, pvars, vars
<1>4. ~(Poll \/ ClaimBatch \/ DrainError)
    BY DEF Poll, PollNext, Answer, ClaimBatch, ClaimNext, Claim, ClaimJobs, DrainError,
           WorkersCrash, tables, vars
<1>5. ~(Dispatch \/ DispatchError)
    BY DEF Dispatch, DispatchError, ReplyClaim, ReplyIgnored, ReplyLoad, ReplyReadAgain, ReplyFlush,
           ReplyCommit, ConsumerCrash, ReplyUnchanged, tables, vars
<1> QED  BY <1>2, <1>3, <1>4, <1>5 DEF PythonNext, Tick

\* What a message that goes out is sent to.
LEMMA MailGoesTo ==
    ASSUME OneAtATime, PInv, [PythonNext]_pvars, NEW i \in DOMAIN mail' \ DOMAIN mail
    PROVE  turn = "drain" /\ ~IsStopped(lead[mail'[i].to]) /\ mail'[i].to \notin suppressed
<1>1. Drain /\ (IInv /\ Orderly /\ TurnOK)'
    BY SendsInDrain
<1>2. ~IsStopped(lead[mail'[i].to]) /\ mail'[i].to \notin suppressed
    BY <1>1, DrainKeeps
<1> QED  BY <1>1, <1>2 DEF Drain

\* No message goes to a suppressed address, although the list is read before
\* the mailbox is locked and the provider called.
THEOREM SuppressedGetNothing == OneAtATime => (PythonSpec => NoMailToSuppressed)
<1> SUFFICES ASSUME OneAtATime PROVE PythonSpec => NoMailToSuppressed
    OBVIOUS
<1> DEFINE A == \A i \in DOMAIN mail' \ DOMAIN mail : mail'[i].to \notin suppressed
<1>1. PInv /\ [PythonNext]_pvars => [A]_pvars
    BY MailGoesTo
<1>2. PythonSpec => []PInv
    BY WorkerInvariant
<1>3. NoMailToSuppressed <=> [][A]_pvars
    BY DEF NoMailToSuppressed
<1> HIDE DEF A
<1> QED  BY <1>1, <1>2, <1>3, PTL DEF PythonSpec

\* No message goes to a lead whose reply was consumed, nor to one whose reply
\* is known, unless something failed or there were more replies than a batch.
THEOREM RepliedGetNothing == OneAtATime => (PythonSpec => NoMailAfterReply)
<1> SUFFICES ASSUME OneAtATime PROVE PythonSpec => NoMailAfterReply
    OBVIOUS
<1> DEFINE A == \A i \in DOMAIN mail' \ DOMAIN mail : \A e \in DOMAIN events :
                    mail[events[e].mail].to = mail'[i].to
                        => /\ e \notin processed
                           /\ faults > 0 \/ Len(events) > ReplyBatchSize
<1>1. ASSUME PInv, [PythonNext]_pvars
      PROVE  [A]_pvars
    <2> SUFFICES ASSUME NEW i \in DOMAIN mail' \ DOMAIN mail, NEW e \in DOMAIN events,
                        mail[events[e].mail].to = mail'[i].to
                 PROVE  e \notin processed /\ (faults > 0 \/ Len(events) > ReplyBatchSize)
        OBVIOUS
    <2>1. turn = "drain" /\ ~IsStopped(lead[mail'[i].to])
        BY <1>1, MailGoesTo
    <2>2. e \notin processed
        BY <1>1, <2>1 DEF PInv, Answered, RepliesTakeEffect
    <2>3. faults # 0 \/ ~(Len(events) <= ReplyBatchSize)
        BY <1>1, <2>1, <2>2 DEF PInv, CaughtUp
    <2>4. /\ faults \in Nat /\ Len(events) \in Nat /\ ReplyBatchSize \in Nat
        <3>1. events \in Seq(Events) /\ faults \in 0..MaxFaults
            BY <1>1 DEF PInv, IInv, Typed, TypeOK
        <3> QED  BY <3>1, LenProperties, SendingAssumption
    <2> QED  BY <2>2, <2>3, <2>4
<1>2. PythonSpec => []PInv
    BY WorkerInvariant
<1>3. NoMailAfterReply <=> [][A]_pvars
    BY DEF NoMailAfterReply
<1> HIDE DEF A
<1> QED  BY <1>1, <1>2, <1>3, PTL DEF PythonSpec

\* Every acknowledged reply has left its mark on its lead, for good.
THEOREM EffectsHold == OneAtATime => (PythonSpec => []RepliesTakeEffect)
<1> SUFFICES ASSUME OneAtATime PROVE PythonSpec => []RepliesTakeEffect
    OBVIOUS
<1>1. PInv => RepliesTakeEffect
    BY DEF PInv, Answered
<1>2. PythonSpec => []PInv
    BY WorkerInvariant
<1> QED  BY <1>1, <1>2, PTL

\* A stopped lead shows no next send, as long as nothing has failed.
THEOREM StoppedShown == OneAtATime => (PythonSpec => []StoppedShowsNoSend)
<1> SUFFICES ASSUME OneAtATime PROVE PythonSpec => []StoppedShowsNoSend
    OBVIOUS
<1>1. ASSUME PInv
      PROVE  StoppedShowsNoSend
    <2> DEFINE c == GetCampaign
    <2>1. DOMAIN c.leads = Known /\ \A l \in Known : /\ c.leads[l].row = lead[l]
                                                     /\ c.leads[l].next <=> l \in HasNextSend
        BY DEF GetCampaign, LeadResponse
    <2> HIDE DEF c
    <2>2. ASSUME NEW l \in HasNextSend, IsStopped(lead[l])
          PROVE  faults > 0
        <3>1. PICK j \in DOMAIN jobs : Live(j) /\ jobs[j].lead = l
            BY <2>2 DEF HasNextSend, Live
        <3>2. faults # 0
            BY <1>1, <2>2, <3>1 DEF PInv, Unfaulted
        <3>3. faults \in 0..MaxFaults
            BY <1>1 DEF PInv, IInv, Typed, TypeOK
        <3> QED  BY <3>2, <3>3, SendingAssumption
    <2> QED  BY <2>1, <2>2 DEF StoppedShowsNoSend, c
<1>2. PythonSpec => []PInv
    BY WorkerInvariant
<1> QED  BY <1>1, <1>2, PTL

-----------------------------------------------------------------------------
(* Leads and jobs in step.  The worker takes no row lock on a job, but its *)
(* turns do what the lock does, so the leads and jobs of CampaignSending   *)
(* keep in step here as well.                                              *)

LEMMA OneIsAFeed == OneFeed
BY OneConsumer DEF OneFeed

LEMMA AloneInTurn == PInv => Alone
BY DEF PInv, TurnsTaken, JobsHeld, Alone, Begun

LEMMA PythonInStepStep ==
    OneAtATime /\ PInv /\ PInv' /\ InStep /\ [PythonNext]_pvars => InStep'
<1> SUFFICES ASSUME OneAtATime, PInv, PInv', InStep, [PythonNext]_pvars PROVE InStep'
    OBVIOUS
<1>1. Orderly /\ Orderly'
    BY DEF PInv
<1>2. Alone /\ Alone'
    BY AloneInTurn, PTL
<1> QED  BY <1>1, <1>2, StepsMap, OneIsAFeed, InStepStep

\* With the worker in its turns, leads and jobs keep in step.
THEOREM PythonInStep == OneAtATime => (PythonSpec => []InStep)
<1> SUFFICES ASSUME OneAtATime PROVE PythonSpec => []InStep
    OBVIOUS
<1>1. PInv /\ PInv' /\ InStep /\ [PythonNext]_pvars => InStep'
    BY PythonInStepStep
<1>2. PythonInit => InStep
    BY InStepInitially DEF PythonInit
<1>3. PythonSpec => []PInv
    BY WorkerInvariant
<1> QED  BY <1>1, <1>2, <1>3, PTL DEF PythonSpec

\* No lead is stranded by the worker: a lead that may be sent to has its next
\* job queued or in hand, whatever fails or is retried on the way.
THEOREM NextStepQueued == OneAtATime => (PythonSpec => []NoStrandedLead)
<1> SUFFICES ASSUME OneAtATime PROVE PythonSpec => []NoStrandedLead
    OBVIOUS
<1>1. PInv => Typed
    BY DEF PInv, IInv
<1> QED  BY <1>1, WorkerInvariant, PythonInStep, NextJobQueued, PTL

\* The rates in a report are shares of the leads that were contacted.
THEOREM SharesHold == OneAtATime => (PythonSpec => []RatesAreShares)
<1> SUFFICES ASSUME OneAtATime PROVE PythonSpec => []RatesAreShares
    OBVIOUS
<1>1. PInv => Typed
    BY DEF PInv, IInv
<1> QED  BY <1>1, WorkerInvariant, PythonInStep, SharesOfContacted, PTL

-----------------------------------------------------------------------------
(* Rows move on.  No column of a lead's row is taken back: what was sent   *)
(* stays sent, and a reply is recorded once.                               *)

MovesOn(row, next) ==
    /\ row # NoRow => next # NoRow
    /\ row.steps_sent <= next.steps_sent
    /\ row.stop_reason = "bounced" => next.stop_reason = "bounced"
    /\ row.reply_intent # Null => next.reply_intent = row.reply_intent
    /\ row # NoRow /\ row.state \notin InProgress => next.state \notin InProgress

\* A stop that a consumer has in hand leaves the number of steps alone.
SameSteps(p) ==
    /\ \A l \in Leads : p.rows[l] # NoRow => p.rows[l].steps_sent = lead[l].steps_sent
    /\ p.phase \in {"loaded", "read"} => p.new.steps_sent = lead[p.lead].steps_sent

\* A lead that is done was not stopped, and stops do not count steps.
Tidy ==
    /\ \A l \in Leads : lead[l].state = "done" => Plain(lead[l])
    /\ \A r \in Consumers : SameSteps(reply[r])

LEMMA IdleSameSteps == SameSteps(IdleReply)
<1>1. IdleReply.phase = "idle" /\ \A l \in Leads : IdleReply.rows[l] = NoRow
    BY DEF IdleReply, NothingSeen
<1> QED  BY <1>1 DEF SameSteps

LEMMA StaysPut == \A row \in Rows : MovesOn(row, row) /\ row.steps_sent \in Int
<1> SUFFICES ASSUME NEW row \in Rows PROVE MovesOn(row, row) /\ row.steps_sent \in Int
    OBVIOUS
<1>1. row.steps_sent \in Int
    BY RowOrNone, DomainAssumption DEF LeadRows, NoRow
<1> QED  BY <1>1 DEF MovesOn

\* Steps that write no lead and record no stop.
LEMMA TidySame ==
    ASSUME Typed, Tidy, lead' = lead,
           \A r \in Consumers : reply'[r] = reply[r] \/ reply'[r] = IdleReply
    PROVE  Tidy' /\ \A l \in Leads : MovesOn(lead[l], lead'[l])
<1>1. \A r \in Consumers : SameSteps(reply[r])'
    <2>1. SameSteps(IdleReply) /\ \A r \in Consumers : SameSteps(reply[r])
        BY IdleSameSteps DEF Tidy
    <2>2. SameSteps(IdleReply)'
        BY IdleSameSteps, PTL
    <2> QED  BY <2>1, <2>2 DEF SameSteps
<1>2. \A l \in Leads : lead[l] \in Rows
    BY DEF Typed, TypeOK
<1> QED  BY <1>1, <1>2, StaysPut DEF Tidy

\* The requests write leads to which nothing has been sent.
LEMMA RequestedMoves ==
    ASSUME Orderly, Tidy, Typed', Requested, NEW l \in Leads
    PROVE  MovesOn(lead[l], lead'[l]) /\ (lead'[l].state = "done" => Plain(lead'[l]))
<1>1. lead[l] \in Rows /\ lead'[l] \in Rows
    BY DEF Orderly, Typed, TypeOK
<1>2. CASE lead'[l] = lead[l]
    BY <1>1, <1>2, StaysPut DEF Tidy
<1>3. CASE Untouched(l) /\ lead'[l].state \in {"pending", "scheduled"}
    <2>1. /\ lead[l].steps_sent = 0 /\ lead[l].stop_reason = Null /\ lead[l].reply_intent = Null
          /\ lead[l] = NoRow \/ lead[l].state \in InProgress
        BY <1>3 DEF Untouched, NoRow, NewLead, InProgress
    <2>2. lead'[l].steps_sent \in Nat /\ lead'[l] # NoRow
        BY <1>1, <1>3, RowOrNone, DomainAssumption DEF LeadRows, NoRow, Null
    <2>3. MovesOn(lead[l], lead'[l])
        BY <2>1, <2>2 DEF MovesOn, Null
    <2> QED  BY <1>3, <2>3
<1> QED  BY <1>2, <1>3 DEF Requested

\* An outcome is written over a row that it was read from.
LEMMA FinishMoves ==
    ASSUME PInv, PInv', InStep, Tidy, NEW w \in Workers, NEW newJobs, Finish(w, newJobs),
           send[w].phase \in Outcomes, NEW l \in Leads
    PROVE  MovesOn(lead[l], lead'[l]) /\ (lead'[l].state = "done" => Plain(lead'[l]))
<1> DEFINE k == JobOf(w).lead
           s == send[w]
<1>1. CASE lead'[l] = lead[l]
    <2>1. lead[l] \in Rows
        BY DEF PInv, IInv, Typed, TypeOK
    <2> QED  BY <1>1, <2>1, StaysPut DEF Tidy
<1>2. CASE lead'[l] # lead[l]
    <2>1. l = k /\ WritesLead(w) /\ lead[l].state \in Sendable /\ lead'[l] = NewRow(w)
        BY <1>2, FinishWrites
    <2>2. Begun(s) /\ s.phase # "ineligible"
        BY <2>1 DEF Outcomes, Begun, WritesLead
    <2>3. /\ JobOf(w).position \in 1..Steps /\ k = jobs[s.job].lead
          /\ s.snap \in LeadRows /\ lead'[l] \in LeadRows
        BY <2>1, NewRowTyped DEF PInv, IInv, JobOf, Jobs
    <2>4. s.snap = lead[l]
        BY <2>1, <2>2, <2>3 DEF PInv, SlotsFresh, SlotFresh
    <2>5. lead[l].steps_sent = JobOf(w).position - 1
        BY <2>2, <2>4 DEF InStep, SlotsFit, SlotFits, CopiesFit, JobOf
    <2>6. Plain(lead[l]) /\ lead[l].state \in InProgress
        BY <2>1 DEF InStep, RowsSound, RowSound, Sendable, InProgress
    <2>7. /\ lead'[l].steps_sent \in {JobOf(w).position, lead[l].steps_sent}
          /\ lead'[l].state = "done" => Plain(lead'[l])
        <3>1. CASE s.phase = "accepted"
            <4>1. lead'[l] = RecordSent(lead[l], JobOf(w).position)
                BY <2>1, <2>4, <3>1 DEF NewRow
            <4> QED  BY <2>3, <2>4, <2>6, <4>1 DEF RecordSent, Plain, LeadRows
        <3>2. CASE s.phase # "accepted"
            <4>1. PICK x : lead'[l] = FailLead(lead[l], x)
                BY <2>1, <2>4, <3>2 DEF NewRow
            <4> QED  BY <2>3, <2>4, <4>1 DEF FailLead, LeadRows
        <3> QED  BY <3>1, <3>2
    <2>8. lead[l].steps_sent <= lead'[l].steps_sent
        <3>1. JobOf(w).position \in Int
            BY <2>3
        <3> QED  BY <2>5, <2>7, <3>1
    <2>9. lead'[l] # NoRow
        BY <2>3, RowOrNone
    <2> QED  BY <2>6, <2>7, <2>8, <2>9 DEF MovesOn, Plain, Null
<1> QED  BY <1>1, <1>2

LEMMA DrainMoves ==
    ASSUME PInv, PInv', InStep, Tidy, Drain
    PROVE  Tidy' /\ \A l \in Leads : MovesOn(lead[l], lead'[l])
<1>1. PICK w \in Workers :
          \/ Load(w) \/ CheckSuppression(w) \/ TakeMailbox(w)
          \/ ProviderAccepts(w) \/ AnswerLost(w) \/ DispatchFails(w) \/ ReadAgain(w)
          \/ FinishSent(w) \/ FinishSuppressed(w) \/ FinishFailed(w)
          \/ FinishDeferred(w) \/ FinishIneligible(w)
    BY DEF Drain
<1>2. Typed
    BY DEF PInv, IInv
<1>3. CASE \/ Load(w) \/ CheckSuppression(w) \/ TakeMailbox(w)
           \/ ProviderAccepts(w) \/ AnswerLost(w) \/ DispatchFails(w) \/ ReadAgain(w)
    <2>1. lead' = lead /\ reply' = reply
        BY <1>3 DEF Load, CheckSuppression, TakeMailbox, ProviderAccepts, AnswerLost, Deliver,
                    DispatchFails, ReadAgain, tables
    <2> QED  BY <1>2, <2>1, TidySame
<1>4. CASE FinishSent(w) \/ FinishSuppressed(w) \/ FinishFailed(w)
           \/ FinishDeferred(w) \/ FinishIneligible(w)
    <2>1. PICK newJobs : Finish(w, newJobs) /\ send[w].phase \in Outcomes
        BY <1>4 DEF FinishSent, FinishSuppressed, FinishFailed, FinishDeferred, FinishIneligible,
                    Outcomes
    <2>2. \A l \in Leads : /\ MovesOn(lead[l], lead'[l])
                           /\ lead'[l].state = "done" => Plain(lead'[l])
        BY <2>1, FinishMoves
    <2>3. reply' = reply
        BY <2>1 DEF Finish
    <2>4. \A r \in Consumers : reply[r] = IdleReply
        BY DEF Drain, PInv, TurnsTaken, RepliesFresh, ReplyFresh
    <2>5. SameSteps(IdleReply)'
        BY IdleSameSteps, PTL
    <2> QED  BY <2>2, <2>3, <2>4, <2>5 DEF Tidy, SameSteps
<1> QED  BY <1>1, <1>3, <1>4

\* A stop that is prepared counts the steps that its lead has been sent.
LEMMA TidyConsumer ==
    ASSUME Typed, Tidy, NEW r \in Consumers, Consumes(r), lead' = lead,
           \A l \in Leads : reply'[r].rows[l] # NoRow =>
               reply'[r].rows[l].steps_sent = lead[l].steps_sent,
           reply'[r].phase \in {"loaded", "read"} =>
               reply'[r].new.steps_sent = lead[reply'[r].lead].steps_sent
    PROVE  Tidy' /\ \A l \in Leads : MovesOn(lead[l], lead'[l])
<1>1. \A k \in Consumers : SameSteps(reply[k])'
    <2>1. SameSteps(reply[r])'
        BY DEF SameSteps
    <2>2. ASSUME NEW k \in Consumers, k # r PROVE SameSteps(reply[k])'
        <3>1. reply'[k] = reply[k] /\ SameSteps(reply[k])
            BY <2>2 DEF Consumes, Tidy
        <3> QED  BY <3>1 DEF SameSteps
    <2> QED  BY <2>1, <2>2
<1>2. \A l \in Leads : lead[l] \in Rows
    BY DEF Typed, TypeOK
<1> QED  BY <1>1, <1>2, StaysPut DEF Tidy

LEMMA ReplyMoves ==
    ASSUME PInv, Tidy, NEW r \in Consumers,
           ReplyClaim(r) \/ ReplyIgnored(r) \/ ReplyLoad(r) \/ ReplyReadAgain(r) \/ ReplyFlush(r)
    PROVE  Tidy' /\ \A l \in Leads : MovesOn(lead[l], lead'[l])
<1> DEFINE p == reply[r]
           q == reply'[r]
<1>1. /\ Typed /\ lead' = lead /\ ReplyTyped(p) /\ DOMAIN events \subseteq Nat
      /\ Unprocessed \subseteq DOMAIN events /\ SameSteps(p)
    BY ReplyTables DEF Tidy
<1>2. \A l \in Leads : RowFor(r, l).steps_sent = lead[l].steps_sent
    BY <1>1 DEF SameSteps, RowFor
<1>3. CASE ReplyClaim(r) \/ ReplyIgnored(r) \/ ReplyReadAgain(r)
    <2>1. /\ q.rows = p.rows /\ q.lead = p.lead /\ q.new = p.new /\ Consumes(r)
          /\ q.phase \in {"loaded", "read"} => p.phase \in {"loaded", "read"}
        <3>1. CASE ReplyClaim(r)
            BY <1>1, <3>1, ReplyClaimEffect
        <3>2. CASE ReplyIgnored(r)
            BY <1>1, <3>2, ReplyIgnoredEffect
        <3>3. CASE ReplyReadAgain(r)
            BY <1>1, <3>3, ReplyReadAgainEffect
        <3> QED  BY <1>3, <3>1, <3>2, <3>3
    <2>2. /\ \A l \in Leads : p.rows[l] # NoRow => p.rows[l].steps_sent = lead[l].steps_sent
          /\ p.phase \in {"loaded", "read"} => p.new.steps_sent = lead[p.lead].steps_sent
        BY <1>1 DEF SameSteps
    <2> QED  BY <1>1, <2>1, <2>2, TidyConsumer
<1>4. CASE ReplyLoad(r)
    <2>1. /\ Consumes(r) /\ q.rows = p.rows
          /\ \E e \in Unprocessed :
                /\ IsNext(r, e) /\ q.lead \in LeadsOf(events[e].mail)
                /\ StopsOnReply(RowFor(r, q.lead))
                /\ q.new = StopOnReply(RowFor(r, q.lead), events[e].intent)
        BY <1>1, <1>4, ReplyLoadEffect
    <2>2. PICK e \in Unprocessed :
                /\ IsNext(r, e) /\ q.lead \in LeadsOf(events[e].mail)
                /\ StopsOnReply(RowFor(r, q.lead))
                /\ q.new = StopOnReply(RowFor(r, q.lead), events[e].intent)
        BY <2>1
    <2>3. q.lead \in Leads
        BY <1>1, <2>2, EventLead DEF PInv
    <2>4. RowFor(r, q.lead) \in LeadRows
        <3>1. RowFor(r, q.lead) \in Rows /\ RowFor(r, q.lead).state # Null
            BY <1>1, <2>2, <2>3, RowForTyped DEF StopsOnReply, Replyable, Null
        <3> QED  BY <3>1 DEF Rows, NoRow
    <2>5. \A row \in LeadRows : \A i : StopOnReply(row, i).steps_sent = row.steps_sent
        BY DEF StopOnReply, LeadRows
    <2>6. q.new.steps_sent = lead[q.lead].steps_sent
        BY <1>2, <2>2, <2>3, <2>4, <2>5
    <2>7. \A l \in Leads : p.rows[l] # NoRow => p.rows[l].steps_sent = lead[l].steps_sent
        BY <1>1 DEF SameSteps
    <2> QED  BY <1>1, <2>1, <2>6, <2>7, TidyConsumer
<1>5. CASE ReplyFlush(r)
    <2> DEFINE row == Written(RowFor(r, p.lead), p.seen, p.new)
    <2>1. /\ Consumes(r) /\ p.phase = "read" /\ q.phase = "claimed" /\ p.lead \in Leads
          /\ \A k \in Leads : q.rows[k] = IF k = p.lead THEN row ELSE p.rows[k]
        BY <1>1, <1>5, ReplyFlushEffect
    <2>2. row.steps_sent \in {RowFor(r, p.lead).steps_sent, p.new.steps_sent}
        BY DEF Written
    <2>3. p.new.steps_sent = lead[p.lead].steps_sent
        BY <1>1, <2>1 DEF SameSteps
    <2>4. row.steps_sent = lead[p.lead].steps_sent
        BY <1>2, <2>1, <2>2, <2>3
    <2> HIDE DEF row
    <2>5. \A l \in Leads : q.rows[l] # NoRow => q.rows[l].steps_sent = lead[l].steps_sent
        BY <1>1, <2>1, <2>4 DEF SameSteps
    <2> QED  BY <1>1, <2>1, <2>5, TidyConsumer
<1> QED  BY <1>3, <1>4, <1>5

\* A commit stops leads that had a reply coming, and no lead twice.
LEMMA ReplyCommitMoves ==
    ASSUME PInv, InStep, Tidy, NEW r \in Consumers, ReplyCommit(r)
    PROVE  Tidy' /\ \A l \in Leads : MovesOn(lead[l], lead'[l])
<1> DEFINE p == reply[r]
<1>1. ASSUME NEW l \in Leads
      PROVE  MovesOn(lead[l], lead'[l]) /\ (lead'[l].state = "done" => Plain(lead'[l]))
    <2>1. lead[l] \in Rows
        BY DEF PInv, IInv, Typed, TypeOK
    <2>2. CASE p.rows[l] = NoRow
        <3>1. lead'[l] = lead[l]
            BY <2>2, ReplyCommitEffect DEF RowFor
        <3> QED  BY <2>1, <3>1, StaysPut DEF Tidy
    <2>3. CASE p.rows[l] # NoRow
        <3>1. lead'[l] = p.rows[l] /\ IsStopped(lead'[l]) /\ lead[l].state \in Replyable
            BY <2>3, ReplyCommitEffect DEF RowFor
        <3>2. Plain(lead[l])
            <4>1. CASE lead[l].state = "sent"
                BY <4>1 DEF InStep, RowsSound, RowSound, Sendable
            <4>2. CASE lead[l].state = "done"
                BY <4>2 DEF Tidy
            <4> QED  BY <3>1, <4>1, <4>2 DEF Replyable
        <3>3. lead'[l].steps_sent = lead[l].steps_sent
            BY <2>3, <3>1 DEF Tidy, SameSteps
        <3>4. lead[l].steps_sent \in Int
            BY <2>1, StaysPut
        <3>5. lead'[l].state \in {"paused", "failed"}
            BY <3>1 DEF IsStopped
        <3> QED  BY <2>3, <3>1, <3>2, <3>3, <3>4, <3>5 DEF MovesOn, Plain, InProgress, Null
    <2> QED  BY <2>2, <2>3
<1>2. \A k \in Consumers : SameSteps(reply[k])'
    <2>1. \A k \in Consumers : reply'[k] = IdleReply
        <3>1. reply' = [reply EXCEPT ![r] = IdleReply] /\ \A k \in Consumers : k = r
            BY OneConsumer, ReplyCommitEffect
        <3>2. reply \in [Consumers -> Replies]
            BY DEF PInv, IInv, Typed, TypeOK
        <3> QED  BY <3>1, <3>2
    <2>2. SameSteps(IdleReply)'
        BY IdleSameSteps, PTL
    <2> QED  BY <2>1, <2>2 DEF SameSteps
<1> QED  BY <1>1, <1>2 DEF Tidy

LEMMA TidyStep ==
    OneAtATime /\ PInv /\ PInv' /\ InStep /\ Tidy /\ [PythonNext]_pvars =>
        Tidy' /\ \A l \in Leads : MovesOn(lead[l], lead'[l])
<1> SUFFICES ASSUME OneAtATime, PInv, PInv', InStep, Tidy, [PythonNext]_pvars
             PROVE  Tidy' /\ \A l \in Leads : MovesOn(lead[l], lead'[l])
    OBVIOUS
<1>1. Orderly /\ Orderly' /\ Typed /\ Typed'
    BY DEF PInv, IInv
<1>2. CASE Outside
    <2>1. (IInv /\ Orderly /\ TurnOK)'
        BY DEF PInv
    <2>2. Requested \/ lead' = lead
        BY <1>2, <2>1, OutsideKeeps
    <2>3. reply' = reply
        BY <1>2 DEF Outside, ClientNext, NextDay, AddLeadsRead, AddLeadsCommit, AddRows,
                    AddLeadsConflict, StartRead, StartList, StartFlush, StartCommit,
                    RequestUnchanged, tables
    <2>4. CASE Requested
        <3>1. \A l \in Leads : /\ MovesOn(lead[l], lead'[l])
                               /\ lead'[l].state = "done" => Plain(lead'[l])
            BY <1>1, <2>4, RequestedMoves
        <3>2. ASSUME NEW r \in Consumers PROVE SameSteps(reply[r])'
            <4>1. \A l \in Leads : Answers(l) \/ lead[l].state \in Replyable => lead'[l] = lead[l]
                BY <2>4, UntouchedLead DEF Requested, Answers, Replyable
            <4>2. SameSteps(reply[r]) /\ ConsumerFits(reply[r]) /\ ReplyTyped(reply[r])
                BY <1>1 DEF Tidy, InStep, ConsumersFit, Typed, RepliesTyped
            <4>3. \A l \in Leads : reply[r].rows[l] # NoRow => lead'[l] = lead[l]
                BY <4>1, <4>2 DEF ConsumerFits
            <4>4. reply[r].phase \in {"loaded", "read"} => lead'[reply[r].lead] = lead[reply[r].lead]
                BY <4>1, <4>2 DEF ConsumerFits, ReplyTyped
            <4> QED  BY <2>3, <4>2, <4>3, <4>4 DEF SameSteps
        <3> QED  BY <3>1, <3>2 DEF Tidy
    <2>5. CASE lead' = lead
        BY <1>1, <2>3, <2>5, TidySame
    <2> QED  BY <2>2, <2>4, <2>5
<1>3. CASE Poll \/ ClaimBatch \/ DrainError \/ UNCHANGED pvars
    <2>1. lead' = lead /\ reply' = reply
        BY <1>3 DEF Poll, PollNext, Answer, ClaimBatch, ClaimNext, Claim, ClaimJobs, DrainError,
                    WorkersCrash, tables, pvars, vars
    <2> QED  BY <1>1, <2>1, TidySame
<1>4. CASE DispatchError
    <2>1. PICK r \in Consumers : ConsumerCrash(r)
        BY <1>4 DEF DispatchError
    <2>2. lead' = lead /\ reply' = [reply EXCEPT ![r] = IdleReply]
        BY <2>1 DEF ConsumerCrash, tables
    <2>3. \A k \in Consumers : reply'[k] = reply[k] \/ reply'[k] = IdleReply
        BY <1>1, <2>2 DEF Typed, TypeOK
    <2> QED  BY <1>1, <2>2, <2>3, TidySame
<1>5. CASE Dispatch
    <2>1. CASE UNCHANGED vars
        BY <1>1, <2>1, TidySame DEF vars
    <2>2. CASE \E r \in Consumers : ReplyCommit(r)
        BY <2>2, ReplyCommitMoves
    <2>3. CASE \E r \in Consumers : \/ ReplyClaim(r) \/ ReplyIgnored(r) \/ ReplyLoad(r)
                                    \/ ReplyReadAgain(r) \/ ReplyFlush(r)
        BY <2>3, ReplyMoves
    <2> QED  BY <1>5, <2>1, <2>2, <2>3 DEF Dispatch
<1>6. CASE Drain
    BY <1>6, DrainMoves
<1> QED  BY <1>2, <1>3, <1>4, <1>5, <1>6 DEF PythonNext, Tick

LEMMA TidyInitially == PythonInit => Tidy
<1> SUFFICES ASSUME PythonInit PROVE Tidy
    OBVIOUS
<1>1. /\ \A l \in Leads : lead[l] = NoRow
      /\ \A r \in Consumers : reply[r] = IdleReply
    BY DEF PythonInit, Init
<1> QED  BY <1>1, IdleSameSteps DEF Tidy, NoRow, Null

\* While requests do not overlap, every row only moves on.
THEOREM RowsMoveOn ==
    OneAtATime => (PythonSpec => [][\A l \in Leads : MovesOn(lead[l], lead'[l])]_pvars)
<1> SUFFICES ASSUME OneAtATime
             PROVE  PythonSpec => [][\A l \in Leads : MovesOn(lead[l], lead'[l])]_pvars
    OBVIOUS
<1> DEFINE A == \A l \in Leads : MovesOn(lead[l], lead'[l])
<1>1. PInv /\ PInv' /\ InStep /\ Tidy /\ [PythonNext]_pvars => Tidy' /\ A
    BY TidyStep
<1>2. PythonSpec => []PInv
    BY WorkerInvariant
<1>3. PythonSpec => []InStep
    BY PythonInStep
<1>4. PythonInit => Tidy
    BY TidyInitially
<1> HIDE DEF A
<1>5. PythonSpec => [][A]_pvars
    BY <1>1, <1>2, <1>3, <1>4, PTL DEF PythonSpec
<1> QED  BY <1>5 DEF A

-----------------------------------------------------------------------------
(* So no count that is reported drops.                                     *)

Reached == {l \in Known : lead[l].steps_sent > 0}
SentSteps == {p \in Known \X (1..Steps) : p[2] <= lead[p[1]].steps_sent}
Bounced == {l \in Known : lead[l].stop_reason = "bounced"}
RepliedWith(i) == {l \in Known : lead[l].reply_intent = i}
Ended == {l \in Known : lead[l].state \notin InProgress}

LEMMA OutOfEnded == Typed => OutOf(ListCampaigns) = Cardinality(Ended)
<1> SUFFICES ASSUME Typed PROVE OutOf(ListCampaigns) = Cardinality(Ended)
    OBVIOUS
<1>1. PICK c : c = CountByState
    OBVIOUS
<1>2. PICK K : K = Known
    OBVIOUS
<1>3. PICK h : h = [l \in Known |-> lead[l].state]
    OBVIOUS
<1>4. PICK S : S = {lead[l].state : l \in Known} \ InProgress
    OBVIOUS
<1>5. IsFiniteSet(K)
    <2>1. K \in SUBSET Leads
        BY <1>2 DEF Known
    <2> QED  BY <2>1, SendingAssumption, FS_Subset
<1>6. IsFiniteSet(S)
    <2>1. \A l \in Known : lead[l].state \in LeadStates
        BY RowOrNone DEF Known, Added, Typed, TypeOK, LeadRows
    <2>2. IsFiniteSet({"paused"} \cup {"done"}) /\ IsFiniteSet({"failed"})
        BY FS_Singleton, FS_Union
    <2>3. IsFiniteSet(({"paused"} \cup {"done"}) \cup {"failed"})
        BY <2>2, FS_Union
    <2>4. S \in SUBSET (({"paused"} \cup {"done"}) \cup {"failed"})
        BY <1>4, <2>1 DEF LeadStates, InProgress
    <2> QED  BY <2>3, <2>4, FS_Subset
<1>7. Counts(c, K, h, S)
    <2>1. \A s \in S : c[s] = Cardinality({l \in Known : lead[l].state = s})
        BY <1>1, <1>4 DEF CountByState, Count
    <2>2. \A s : {l \in K : h[l] = s} = {l \in Known : lead[l].state = s}
        BY <1>2, <1>3
    <2> QED  BY <2>1, <2>2 DEF Counts
<1>8. Summed(c, S) = Cardinality(Having(K, h, S))
    BY <1>5, <1>6, <1>7, SumOfCounts
<1>9. Having(K, h, S) = Ended
    BY <1>2, <1>3, <1>4 DEF Having, Ended
<1>10. OutOf(ListCampaigns) = Summed(c, S)
    <2>1. \A list : OutOf(list) = Summed(list.lead_counts, DOMAIN list.lead_counts \ InProgress)
        BY DEF OutOf, Summed
    <2>2. ListCampaigns.lead_counts = c /\ DOMAIN c = {lead[l].state : l \in Known}
        BY <1>1 DEF ListCampaigns, CountByState
    <2> QED  BY <1>4, <2>1, <2>2
<1> QED  BY <1>8, <1>9, <1>10

\* What is reported counts these sets.
Tallied ==
    /\ Totals.leads = Cardinality(Known)
    /\ Totals.contacted = Cardinality(Reached)
    /\ Totals.emails_sent = Cardinality(SentSteps)
    /\ Totals.bounced = Cardinality(Bounced)
    /\ \A i \in Intents : ReplyCounts[i] = Cardinality(RepliedWith(i))
    /\ OutOf(ListCampaigns) = Cardinality(Ended)

LEMMA Tallies == Typed => Tallied
<1> SUFFICES ASSUME Typed PROVE Tallied
    OBVIOUS
<1>1. /\ Totals.leads = Cardinality(Known)
      /\ Totals.contacted = Cardinality(Reached)
      /\ Totals.emails_sent = Cardinality(SentSteps)
      /\ Totals.bounced = Cardinality(Bounced)
    BY DEF Totals, Count, Reached, SentSteps, Bounced
<1>2. \A i \in Intents : ReplyCounts[i] = Cardinality(RepliedWith(i))
    BY DEF Count, RepliedWith, ReplyCounts
<1> QED  BY <1>1, <1>2, OutOfEnded DEF Tallied

\* Rows that move on are counted again.
LEMMA CountsGrow ==
    ASSUME Typed, Typed', \A l \in Leads : MovesOn(lead[l], lead'[l])
    PROVE  /\ Cardinality(Known') >= Cardinality(Known)
           /\ Cardinality(Reached') >= Cardinality(Reached)
           /\ Cardinality(SentSteps') >= Cardinality(SentSteps)
           /\ Cardinality(Bounced') >= Cardinality(Bounced)
           /\ \A i \in Intents : Cardinality(RepliedWith(i)') >= Cardinality(RepliedWith(i))
           /\ Cardinality(Ended') >= Cardinality(Ended)
<1>1. /\ Known' \in SUBSET Leads /\ Known \subseteq Known' /\ Known \subseteq Leads
    BY DEF Known, Added, MovesOn
<1>2. IsFiniteSet(Known')
    BY <1>1, SendingAssumption, FS_Subset
<1>3. \A l \in Leads : lead[l].steps_sent \in Int /\ lead'[l].steps_sent \in Int
    BY StaysPut DEF Typed, TypeOK
<1>4. ASSUME NEW B, NEW C \in SUBSET B, IsFiniteSet(B)
      PROVE  Cardinality(B) >= Cardinality(C)
    BY <1>4, FS_Subset, FS_CardinalityType
<1>5. Cardinality(Known') >= Cardinality(Known)
    BY <1>1, <1>2, <1>4
<1>6. Cardinality(Reached') >= Cardinality(Reached)
    <2>1. Reached' \in SUBSET Known' /\ Reached \in SUBSET Reached'
        BY <1>1, <1>3 DEF Reached, MovesOn
    <2> QED  BY <1>2, <1>4, <2>1, FS_Subset
<1>7. Cardinality(SentSteps') >= Cardinality(SentSteps)
    <2>1. IsFiniteSet(Known' \X (1..Steps))
        <3>1. PICK K : K = Known'
            OBVIOUS
        <3>2. IsFiniteSet(1..Steps) /\ IsFiniteSet(K)
            BY <1>2, <3>1, DomainAssumption, FS_Interval
        <3>3. IsFiniteSet(K \X (1..Steps))
            BY <3>2, FS_Product
        <3> QED  BY <3>1, <3>3
    <2>2. SentSteps' \in SUBSET (Known' \X (1..Steps))
        BY DEF SentSteps
    <2>3. SentSteps \in SUBSET SentSteps'
        BY <1>1, <1>3, DomainAssumption DEF SentSteps, MovesOn
    <2> QED  BY <1>4, <2>1, <2>2, <2>3, FS_Subset
<1>8. Cardinality(Bounced') >= Cardinality(Bounced)
    <2>1. Bounced' \in SUBSET Known' /\ Bounced \in SUBSET Bounced'
        BY <1>1 DEF Bounced, MovesOn
    <2> QED  BY <1>2, <1>4, <2>1, FS_Subset
<1>9. ASSUME NEW i \in Intents
      PROVE  Cardinality(RepliedWith(i)') >= Cardinality(RepliedWith(i))
    <2>1. i # Null
        BY DEF Intents, Null
    <2>2. RepliedWith(i)' \in SUBSET Known' /\ RepliedWith(i) \in SUBSET RepliedWith(i)'
        BY <1>1, <2>1 DEF RepliedWith, MovesOn
    <2> QED  BY <1>2, <1>4, <2>2, FS_Subset
<1>10. Cardinality(Ended') >= Cardinality(Ended)
    <2>1. Ended' \in SUBSET Known' /\ Ended \in SUBSET Ended'
        BY <1>1 DEF Ended, MovesOn, Known, Added
    <2> QED  BY <1>2, <1>4, <2>1, FS_Subset
<1> QED  BY <1>5, <1>6, <1>7, <1>8, <1>9, <1>10

\* Progress that was reported is not taken back: no count of the metrics drops,
\* nor the number of leads at their end in the list of campaigns, whatever is
\* retried, stopped or answered in between.
THEOREM CountsKept == OneAtATime => (PythonSpec => CountsNeverDrop)
<1> SUFFICES ASSUME OneAtATime PROVE PythonSpec => CountsNeverDrop
    OBVIOUS
<1> DEFINE M == \A l \in Leads : MovesOn(lead[l], lead'[l])
           A == lead' # lead =>
                   LET before == Totals
                       after  == Totals'
                   IN  /\ \A f \in {"leads", "contacted", "emails_sent", "bounced"} :
                             after[f] >= before[f]
                       /\ \A i \in Intents : ReplyCounts'[i] >= ReplyCounts[i]
                       /\ OutOf(ListCampaigns)' >= OutOf(ListCampaigns)
<1>1. ASSUME Typed, Typed', M
      PROVE  A
    <2>1. Tallied /\ Tallied'
        BY <1>1, Tallies, PTL
    <2>2. \A f \in {"leads", "contacted", "emails_sent", "bounced"} : Totals'[f] >= Totals[f]
        BY <1>1, <2>1, CountsGrow DEF Tallied
    <2>3. \A i \in Intents : ReplyCounts'[i] >= ReplyCounts[i]
        BY <1>1, <2>1, CountsGrow DEF Tallied
    <2>4. OutOf(ListCampaigns)' >= OutOf(ListCampaigns)
        BY <1>1, <2>1, CountsGrow DEF Tallied
    <2> QED  BY <2>2, <2>3, <2>4
<1>2. PythonSpec => [][M]_pvars
    BY RowsMoveOn
<1>3. PythonSpec => []Typed
    <2>1. PInv => Typed
        BY DEF PInv, IInv
    <2> QED  BY <2>1, WorkerInvariant, PTL
<1>4. UNCHANGED pvars => UNCHANGED vars
    BY DEF pvars
<1>5. CountsNeverDrop <=> [][A]_vars
    BY DEF CountsNeverDrop
<1> HIDE DEF A, M
<1> QED  BY <1>1, <1>2, <1>3, <1>4, <1>5, PTL

=============================================================================
